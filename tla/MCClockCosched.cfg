SPECIFICATION HSpec
CONSTANTS
    Device = {d1, d2}
    Line = Line
    Internal = Internal
    NoUnit = NoUnit
    Unit = {d1, d2, Line, Internal}
    NoQueueWait = 2
    Delays = {1}
    TickSize = 2
    Hz = 3
    CoschedTicks = {1, 2}
    UsecDelays = {1, 6}
INVARIANTS OneList ClockRuns
PROPERTIES NoTickMissed WaitsEnd
