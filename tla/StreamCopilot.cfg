\* Two sends and cancels on one session, whose ring keeps two events.
\* Once both sends have returned, the system may stop.
SPECIFICATION Spec
CHECK_DEADLOCK FALSE
CONSTANTS
    Sends = {t1, t2}
    Capacity = 2
    MaxEvents = 5
INVARIANTS NoSilentGap
PROPERTIES KeepsBackendContract SendEnds
