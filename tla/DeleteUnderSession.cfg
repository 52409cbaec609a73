\* One foreground, one session: its status changes while git is awaited.
SPECIFICATION Spec
CONSTANTS
    Workspaces = {w1, w2}
    Paths = {p, u}
    UserPaths = {u}
    Sessions = {s1}
    Callers = {c1}
    MaxCrashes = 0
    None = None
    User = User
PROPERTY NoRemovalUnderActiveSession
CHECK_DEADLOCK FALSE
