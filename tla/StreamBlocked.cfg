\* Packets of two sizes, in buffers larger than the largest frame.
SPECIFICATION Spec
CONSTANTS
    Client = Client
    Server = Server
    Sizes <- SmallAndLarge
    Capacity = 9
    MaxPackets = 4
    Interruptible <- None
INVARIANT
    NeverBothBlocked
CHECK_DEADLOCK FALSE
