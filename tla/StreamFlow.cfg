\* Packets of one size, in buffers of three frames.
SPECIFICATION Spec
CONSTANTS
    Client = Client
    Server = Server
    Sizes <- OneSize
    Capacity = 9
    MaxPackets = 4
    Interruptible <- None
INVARIANT
    NeverBothBlocked
PROPERTY
    EventuallyDelivered
CHECK_DEADLOCK FALSE
