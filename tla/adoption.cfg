\* Two concurrent runs; an mpd-<NNN>, its rebuilt self, and a stranger that lets this host in.
CONSTANTS
    Procs = {p1, p2}
    Machines = {vm, rebuilt, other}
    Named = {vm, rebuilt}
    Authorized = {vm, rebuilt, other}
    None = None
SPECIFICATION Spec
SYMMETRY ProcSymmetry
INVARIANTS TypeOK SameMachineAfterFirst CAKeyOnlyToChecked VouchedRecordIsPinned
PROPERTY TrustSpec
