SPECIFICATION Spec
CONSTANTS
    QueMax = 2
    NRx = 3
    NTx = 2
    CsrModes <- MCCsrModes
    Messages <- MCMessages
    MaxNet = 3
    MaxOwn = 1
    MaxLocal = 1
    MaxResets = 1
INVARIANTS
    DeliveredInOrder
    NothingForgotten
    KeepsPolling
CHECK_DEADLOCK FALSE
