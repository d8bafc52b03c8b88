\* Three receive buffers, a queue of two and a heap for three packets: the
\* queue fills with buffers, with copies and with a mixture, and the heap
\* runs out with and without room in the queue.
SPECIFICATION Spec
CONSTANTS
    Buf = {b1, b2, b3}
    Size = 2
    Heap = 3
    None = None
INVARIANT OneOwner
PROPERTY LostOnlyWhen
CHECK_DEADLOCK FALSE
