\* Two clients, a stop, and three daemons between them, any of which may also
\* be run by hand, and die.
SPECIFICATION Spec
CONSTANTS
    Clients = {c1, c2}
    Daemons = {d0, d1, d2}
    Past = {d0}
    Stops = {s1}
    Impatient = {c1}
    StopsApart = TRUE
INVARIANTS BindingIsExclusive ServingDaemonIsReachable
PROPERTIES SpawnedRecoveryIsAlone StopLeavesNothing StartEnds
