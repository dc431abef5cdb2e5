\* Two peers, each started up to twice, with keys that collide.
SPECIFICATION Spec
CONSTANTS
    a = a
    b = b
    NoAddr = NoAddr
    Peers <- TwoPeers
    Keys <- MCKeys
    ZeroKey <- ZERO
    Answers <- MCAnswers
    Solve <- MCSolve
    KeySends = 2
    MaxBoots <- TwoBoots
SYMMETRY PeerSymmetry
INVARIANTS
    TypeOK
    NeverSelfConnected
    ConnectedByHandshake
    LinesFollowHandshake
    FreshChallenge
    TwinsNeverConnect
PROPERTY
    ImplementsPeerLink
CHECK_DEADLOCK FALSE
