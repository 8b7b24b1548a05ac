\* Two writers of one record, each interrupted anywhere, and the developer's editor.
CONSTANTS
    Procs = {p1, p2}
    IPs = {ip1, ip2}
    Notes = {n1, n2}
    Keys = {k1}
    NoNote = NoNote
    NoIP = NoIP
SPECIFICATION Spec
SYMMETRY ProcSymmetry
INVARIANTS TypeOK RecordIsLatest LoadableAtRest
PROPERTY SaveTouchesOnlyItsOwn
