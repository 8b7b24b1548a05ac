\* One run at a time; one of its connections fails.
CONSTANTS
    Syncs = {p1}
    OwnKeys = {o1}
    Keys = {k1, bad}
    Valid = {k1}
    Nothing = Nothing
SPECIFICATION SyncSpec
SYMMETRY ProcSymmetry
INVARIANT NeverTouched
