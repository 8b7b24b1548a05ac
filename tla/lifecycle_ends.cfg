\* One run at a time, and every wait has its deadline.
CONSTANTS
    Procs = {p1}
    Backends = {"container", "utm", "libvirt", "proxmox", "parallels", "generic"}
    MaxPolls = 2
    None = None
SPECIFICATION FairSpec
PROPERTY Terminates
