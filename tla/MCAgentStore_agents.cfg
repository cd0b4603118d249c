SPECIFICATION Spec
CONSTANTS
    p1 = p1
    p2 = p2
    Procs = {p1, p2}
    Inodes = {1, 2, 3, 4, 5, 6}
    Requests <- MCForced
    Releases = {"right", "wrong"}
    Together = 2
INVARIANTS
    StoreSound
PROPERTIES
    Serves
