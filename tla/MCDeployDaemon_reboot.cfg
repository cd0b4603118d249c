CONSTANTS
    long = long
    short = short
    Tasks = {long}
    NoTask = NoTask
    Project <- MCRebooting
    MaxFaults = 0
SPECIFICATION Spec
INVARIANTS
    ExitsAfterReboot
