\* Two overlapping runs, every backend, with hypervisors that answer and with ones that may not.
CONSTANTS
    Procs = {p1, p2}
    Backends = {"container", "utm", "libvirt", "proxmox", "parallels", "generic"}
    MaxPolls = 1
    None = None
SPECIFICATION Spec
SYMMETRY ProcSymmetry
INVARIANTS TypeOK DiskIsItsOwn FullDeletes StopMeansOff FailedCreateLeavesNone
