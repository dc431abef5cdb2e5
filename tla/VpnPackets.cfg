\* A server and two clients, the server started up to twice.
SPECIFICATION Spec
CONSTANTS
    Server = Server
    a = a
    b = b
    Clients <- TwoClients
    MaxWaiting = 1
    MaxLives <- ServerRestarts
    MaxQueue <- TwoAtServer
SYMMETRY ClientSymmetry
INVARIANTS
    TypeOK
    RightEnds
    BoundedBypass
PROPERTY
    StaysLearned
CHECK_DEADLOCK FALSE
