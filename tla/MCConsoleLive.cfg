SPECIFICATION FSpec
CONSTANTS
    TTI = TTI
    TTO = TTO
    CLK = CLK
    Device = {TTI, TTO, CLK}
    Internal = {CLK}
    Pir = {}
    BR <- Levels
    Slot <- Slots
    Level = {0, 6}
    KbRing = 1
    LcdRing = 1
    KeyLength = 2
    Serial = 1
PROPERTIES KeysArrive OutputEnds
