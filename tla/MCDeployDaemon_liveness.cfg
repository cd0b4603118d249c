CONSTANTS
    long = long
    short = short
    Tasks = {long}
    NoTask = NoTask
    Project <- MCRebooting
    MaxFaults = 2
SPECIFICATION SystemSpec
PROPERTIES
    KeepsPolling
    EveryTaskRecorded
