\* A signal while main() cleans up.
SPECIFICATION Spec
CONSTANTS
    Programs = {"vpnServer"}
    MaxFailures = 0
    MaxStarts = 1
INVARIANT
    CaughtSignalCleans
CHECK_DEADLOCK FALSE
