\* Which messages end the wait.
SPECIFICATION Spec
CONSTANTS
    Macs <- MCMacs
    Stack <- MCStack
    Addresses = {0, 1}
    Frames <- MCFrames
    MaxFrames = 2
INVARIANT
    OnlyOfferEndsWait
CHECK_DEADLOCK FALSE
