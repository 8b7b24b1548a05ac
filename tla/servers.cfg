\* Two overlapping runs, one server that comes, goes and comes back elsewhere.
CONSTANTS
    Procs = {p1, p2}
    Names = {n1}
    Addrs = {a1, a2}
    Absent = Absent
    Torn = Torn
SPECIFICATION Spec
SYMMETRY Symmetry
INVARIANTS TypeOK NamesServed KeysAccountedFor HostsFileIsRecords
