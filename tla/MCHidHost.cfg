SPECIFICATION FairSpec
CONSTANTS
    Dev = {d1}
    Input = {d1}
    QSIZE = 12
    Parts = 2
    MaxPage = 1
    MaxDrop = 1
    MaxReport = 1
INVARIANTS RecordWhole NoStaleReport ReaderHasChannel
PROPERTY KeysComeThrough
CHECK_DEADLOCK FALSE
