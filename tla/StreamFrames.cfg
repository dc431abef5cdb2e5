\* Packets of one or two bytes, in buffers smaller than a frame.
SPECIFICATION Spec
CONSTANTS
    Client = Client
    Server = Server
    Sizes <- TwoSizes
    Capacity = 3
    MaxPackets = 2
    Interruptible <- Ends
INVARIANTS
    TypeOK
    InStep
PROPERTY
    ImplementsChannel
CHECK_DEADLOCK FALSE
