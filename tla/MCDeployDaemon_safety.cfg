CONSTANTS
    long = long
    short = short
    Tasks = {long, short}
    NoTask = NoTask
    Project <- MCProject
    MaxFaults = 2
SPECIFICATION Spec
INVARIANTS
    OutcomesAreTrue
    JobsBelongToTask
    NeverStranded
PROPERTIES
    DeliversTasks
