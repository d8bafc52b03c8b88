SPECIFICATION FairSpec
CONSTANTS
    Proc = {p1, p2}
    NoProc = NoProc
    MaxRetry = 2
    Aps = {0, 1, 3}
    Size = 2
    MaxDrops = 2
PROPERTIES ConnectAnswered ScanEnds InterfaceFollowsLink
CHECK_DEADLOCK FALSE
