\* Any of the programs, four starts, one command that fails.
SPECIFICATION Spec
CONSTANTS
    Programs = {"vpnServer", "vpnClient", "vpnDev"}
    MaxFailures = 1
    MaxStarts = 4
INVARIANTS
    TypeOK
    ServingIsRouted
    SuccessIsClean
    DriftIsBounded
PROPERTY
    SignalCleansUp
CHECK_DEADLOCK FALSE
