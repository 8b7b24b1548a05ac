\* Two overlapping runs, a key of the developer's, a key to manage and a malformed one.
CONSTANTS
    Syncs = {p1, p2}
    OwnKeys = {o1}
    Keys = {k1, bad}
    Valid = {k1}
    Nothing = Nothing
SPECIFICATION SyncSpec
SYMMETRY ProcSymmetry
INVARIANTS SyncTypeOK OwnKeysKept BlockConverges
