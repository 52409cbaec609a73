\* A reader of everything and a reader of the turn's end, pages of two.
SPECIFICATION Spec
CONSTANTS
    a1 = a1
    a2 = a2
    Readers = {a1, a2}
    Target <- SessionTargets
    Types <- AwaitsTheEnd
    Limit = 2
    MaxLog = 3
INVARIANTS GapFree
PROPERTIES DeliveredInOrder UnfilteredReaderIsServed
CHECK_DEADLOCK FALSE
