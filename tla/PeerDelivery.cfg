\* Two peers, two keys each, one lost datagram, one line on its way.
SPECIFICATION DSpec
CONSTANTS
    a = a
    b = b
    NoAddr = NoAddr
    Peers <- TwoPeers
    Keys <- MCKeys
    ZeroKey <- ZERO
    Answers <- MCAnswers
    Solve <- MCSolve
    KeySends = 2
    MaxBoots <- OneBoot
    MaxLoss = 1
    MaxLines = 1
INVARIANT
    DTypeOK
PROPERTIES
    BothConnect
    LinesRelink
CHECK_DEADLOCK FALSE
