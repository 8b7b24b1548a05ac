\* Two pushes, and a tree of up to two files that changes at any moment.
CONSTANTS
    Pushes = {p1, p2}
    Files = {f1, f2}
    Versions = {a}
    NoAsset = NoAsset
    NoDir = NoDir
    NoDigest = NoDigest
SPECIFICATION PushSpec
SYMMETRY Symmetry
CONSTRAINT NotCrossed
INVARIANTS CurrentIsCurrent PushedIsLocal
