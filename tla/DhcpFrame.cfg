\* Three links, three hardware addresses, all three messages.
SPECIFICATION Spec
CONSTANTS
    Links <- MCLinks
    Tuns <- MCTuns
    Ips <- MCIps
    Macs <- MCMacs
    Pointers <- MCPointers
INVARIANTS
    TypeOK
    FramesAccepted
    OptionsOnWire
PROPERTY
    InterfacesListed
CHECK_DEADLOCK FALSE
