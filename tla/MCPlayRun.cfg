CONSTANTS
    a = a
    b = b
    c = c
    topic = topic
    inner = inner
    nested = nested
    NoName = NoName
    NoFile = NoFile
    Targets = {a, b, c, topic}
    Files = {inner, nested}
    Included <- MCIncluded
    Plays <- AllPlays
SPECIFICATION FairSpec
INVARIANTS
    TypeOK
    NoLostNotification
    LocalFailureSurfaces
    LocalRebootIsLast
PROPERTIES
    FlushServesAll
    LocalStopsAtFailure
    EndIsFinal
    Termination
    KeepsContract
CHECK_DEADLOCK FALSE
