\* Two overlapping runs, a VM that moves and reboots, a proxy that restarts.
CONSTANTS
    Procs = {p1, p2}
    IPs = {ip1, ip2, ip3}
    NoIP = NoIP
SPECIFICATION Spec
SYMMETRY Symmetry
INVARIANTS TypeOK OverlaySurvives StartWiresAll
