\* What a process may find at its start, and the registry it then has: two
\* hosts, a warm-up, a foreground call, a store that may fail, and a restart.
\* A process that cannot load its configuration ends.
SPECIFICATION Spec
CHECK_DEADLOCK FALSE
CONSTANTS
    Unset = Unset
    NoDoc = NoDoc
    Inputs <- MCInputs
    HostIds = {"box", "hub"}
    Callers = {c1}
    Warmup = warmup
    MaxRestarts = 1
INVARIANTS SettingsAreLayered ProjectKeepsToPlainHosts ServersAgree CheckingIsACall StatusAgrees
PROPERTIES EveryHostIsChecked
