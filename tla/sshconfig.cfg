\* Two overlapping rewrites, two VMs and a line of the developer's.
CONSTANTS
    Procs = {p1, p2}
    VMs = {v1, v2}
    IPs = {ip1, ip2}
    Own = {o1}
    None = None
SPECIFICATION Spec
SYMMETRY Symmetry
CONSTRAINT Bounded
INVARIANTS BlocksAreLatest BlocksAreRecorded OwnLinesKept StripsCleanly
