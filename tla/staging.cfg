\* Three runs at one file: two that overlap and one that comes upon what they left.
CONSTANTS
    Procs = {p1, p2, p3}
    Values = {v1, v2}
    Absent = Absent
    Torn = Torn
SPECIFICATION Spec
SYMMETRY Symmetry
INVARIANTS TypeOK FinalIsWhole PlacedIsWanted
PROPERTY NothingReplaced
