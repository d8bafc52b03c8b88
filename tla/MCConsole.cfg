SPECIFICATION HSpec
CONSTANTS
    TTI = TTI
    TTO = TTO
    CLK = CLK
    Pir4 = Pir4
    Device = {TTI, TTO, CLK}
    Internal = {CLK}
    Pir = {Pir4}
    BR <- Levels
    Slot <- Slots
    Level = {0, 4, 6}
    KbRing = 1
    LcdRing = 1
    KeyLength = 2
    Serial = 1
INVARIANTS NoMissedInterrupt NoLostRequest OutputConserved

