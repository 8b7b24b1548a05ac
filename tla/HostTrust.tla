------------------------------ MODULE HostTrust ------------------------------
(***************************************************************************)
(* What host-key pinning promises about one VM id, with every file, verb   *)
(* and connection hidden: at any time at most one machine is trusted, the  *)
(* first one contacted since the trust was last discarded, and the VM's    *)
(* signing key is handed to nobody else.  Adoption implements this.        *)
(***************************************************************************)
CONSTANTS Machines,   \* everything that can answer at an address, by host key
          None        \* no machine

VARIABLES trusted,    \* the machine whose host key is on file, or None
          holders     \* the machines the VM CA key was ever handed to

Init == trusted = None /\ holders = {}

\* Trust is given once; while it stands nobody else can be contacted.
FirstContact(m) == trusted = None /\ trusted' = m /\ UNCHANGED holders

\* A human throws the pin away: remove, uninstall, create's clean-up, ssh-keygen -R.
Discard == trusted' = None /\ UNCHANGED holders

\* The CA key goes to the trusted machine, which the delivery itself may be
\* the first contact with.
Deliver(m) ==
    /\ trusted \in {None, m}
    /\ trusted' = m
    /\ holders' = holders \cup {m}

Next == Discard \/ \E m \in Machines : FirstContact(m) \/ Deliver(m)

Spec == Init /\ [][Next]_<<trusted, holders>>
=============================================================================
