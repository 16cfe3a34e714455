CONSTANTS
    Entries = {e1, e2, e3, e4, e5}
    q = q
    Queues = {q}
    NULL = NULL
SPECIFICATION Spec
INVARIANTS
    TypeOK
    NeverFaults
    LinksSpellItems
PROPERTY
    ImplementsFifo
