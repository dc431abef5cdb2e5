\* The setup of vpnDev.
SPECIFICATION Spec
CONSTANTS
    Programs = {"vpnDev"}
    MaxFailures = 0
    MaxStarts = 1
INVARIANT
    SetupIsPossible
CHECK_DEADLOCK FALSE
