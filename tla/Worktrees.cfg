\* Two calls at once over two worktrees, a user's directory, and a crash.
SPECIFICATION Spec
CONSTANTS
    Workspaces = {w1, w2}
    Paths = {p, u}
    UserPaths = {u}
    Sessions = {s1}
    Callers = {c1, c2}
    MaxCrashes = 1
    None = None
    User = User
INVARIANTS WorkspaceHasTree DeletedTreeIsGone
PROPERTY ForcedDeleteConverges
