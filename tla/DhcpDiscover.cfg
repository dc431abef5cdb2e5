\* Up to three frames on the segment, before or after the DISCOVER.
SPECIFICATION Spec
CONSTANTS
    Macs <- MCMacs
    Stack <- MCStack
    Addresses = {0, 1}
    Frames <- MCFrames
    MaxFrames = 3
INVARIANTS
    TypeOK
    OneReplyTaken
    DiscoverOnWire
PROPERTY
    OfferEndsWait
CHECK_DEADLOCK FALSE
