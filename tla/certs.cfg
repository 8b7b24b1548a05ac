\* Two overlapping runs and three keys: a root and two pairs or leaves, or a root, its successor
\* and a pair.  A root is good for two days of two ticks, and the clocks go back on the first.
CONSTANTS
    Procs = {p1, p2}
    MaxKeys = 3
    Sans = {plain, more}
    None = None
    Day = 2
    RootDays = 2
    LeafDays = 3
    WarnDays = 1
    Autumn = 2
    Horizon = 2
SPECIFICATION Spec
SYMMETRY Symmetry
INVARIANTS TypeOK PairsMatch AdoptedChainVerifies NothingOutlivesIssuer
PROPERTY CurrentLeafUsable
