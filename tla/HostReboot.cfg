SPECIFICATION FairSpec
CONSTANTS
    MaxBoots = 4
    Polls = 4
INVARIANTS
    NoConnectionLeft
PROPERTIES
    RebootedForReal
    Ends
