SPECIFICATION Spec
CONSTANTS
    Unit = {u1, u2, u3}
    NoUnit = NoUnit
    Delays = {0, 1, 3}
    NoQueueWait = 2
INVARIANT CountdownBounded
PROPERTIES KeepsPromise NoStarvation
