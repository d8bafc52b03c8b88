SPECIFICATION Spec
CONSTANTS
    NumDrives = 2
    Attached = {0}
    NPkts = 6
    CmdLen = 2
    RspLen = 2
    Htmo = 1
    Shapes <- MCShapes
    HostWords <- MCWords
    MaxCmds = 4
    MaxResets = 1
INVARIANTS
    PacketsConserved
    OneFate
    WorkScheduled
    NoLostResponse
    CreditsConserved
CHECK_DEADLOCK FALSE
