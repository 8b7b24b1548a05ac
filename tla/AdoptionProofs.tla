--------------------------- MODULE AdoptionProofs ----------------------------
(***************************************************************************)
(* Adoption's invariants and its refinement of HostTrust, proved for any   *)
(* set of processes and machines.  Everything follows from IInv: the files *)
(* live in the directory (KeptInDir), a run whose pin was kept has its     *)
(* machine pinned (RunInv), and so has a record an adoption wrote.         *)
(***************************************************************************)
EXTENDS Adoption, TLAPS

USE MachineAssumption

\* A connection changes the pin only from None, to the machine it reached,
\* and only when the directory is there to hold it: ssh's accept-new.
LEMMA ContactPins ==
    ASSUME TypeOK, NEW m \in Machines, Contact(m)
    PROVE  /\ pin' \in Machines \cup {None}
           /\ pin # None => pin' = pin /\ m = pin
           /\ pin = None /\ dir => pin' = m
           /\ pin' # None => dir \/ pin # None
           /\ UNCHANGED <<dir, rec, ca>>
BY DEF Contact, Accepts, TypeOK

LEMMA InitInv == Init => IInv
BY DEF Init, IInv, TypeOK, KeptInDir, RunInv, VouchedRecordIsPinned, Stages, Entries,
       Identified, Checked

LEMMA StepAdopt ==
    ASSUME IInv, NEW p \in Procs, Adopt(p)
    PROVE  IInv'
<1> USE DEF IInv, KeptInDir, RunInv, VouchedRecordIsPinned, Identified, Checked, Step
<1>1. CASE BeginAdopt(p)
  BY <1>1 DEF BeginAdopt, TypeOK, Stages
<1>2. CASE AdoptTarget(p)
  BY <1>2 DEF AdoptTarget, TypeOK, Stages
<1>3. CASE CheckReachable(p)
  <2>1. PICK m \in Authorized : Contact(m) /\ seen' = [seen EXCEPT ![p] = m]
    BY <1>3 DEF CheckReachable
  <2>2. m \in Machines
    OBVIOUS
  <2>3. TypeOK'
    BY <1>3, <2>1, <2>2, ContactPins DEF CheckReachable, TypeOK, Stages
  <2>4. KeptInDir' /\ VouchedRecordIsPinned'
    BY <1>3, <2>1, <2>2, ContactPins DEF CheckReachable, TypeOK
  <2>5. RunInv'
    BY <1>3, <2>1, <2>2, ContactPins DEF CheckReachable, TypeOK
  <2>6. QED
    BY <2>3, <2>4, <2>5
<1>4. CASE CheckHostname(p)
  <2>1. PICK m \in Authorized :
          /\ Contact(m)
          /\ \/ /\ m \in Named
                /\ Step(p, "hostname", "conform")
                /\ seen' = [seen EXCEPT ![p] = m]
                /\ UNCHANGED <<todo, fresh>>
             \/ m \notin Named /\ End(p)
    BY <1>4 DEF CheckHostname
  <2>2. TypeOK'
    BY <1>4, <2>1, ContactPins DEF CheckHostname, End, TypeOK, Stages, Entries
  <2>3. KeptInDir' /\ VouchedRecordIsPinned'
    BY <1>4, <2>1, ContactPins DEF CheckHostname, TypeOK
  <2>4. RunInv'
    BY <1>4, <2>1, ContactPins DEF CheckHostname, End, TypeOK
  <2>5. QED
    BY <2>2, <2>3, <2>4
<1>5. CASE CheckConformance(p) \/ Bootstrap(p) \/ SetUp(p)
  <2>1. PICK m \in Authorized : Contact(m)
    BY <1>5 DEF CheckConformance, Bootstrap, SetUp
  <2>2. PICK from, to \in {"conform", "keys", "boot", "push", "setup", "record"} : Step(p, from, to)
    BY <1>5 DEF CheckConformance, Bootstrap, SetUp
  <2>3. UNCHANGED <<holders, seen, todo, fresh, vouched>>
    BY <1>5 DEF CheckConformance, Bootstrap, SetUp
  <2>4. QED
    BY <2>1, <2>2, <2>3, ContactPins DEF TypeOK, Stages
<1>6. CASE LoadOrGenerateVM(p)
  BY <1>6 DEF LoadOrGenerateVM, TypeOK, Stages
<1>7. CASE PushCAKey(p)
  <2>1. PICK m \in Authorized : Contact(m) /\ holders' = holders \cup {m}
    BY <1>7 DEF PushCAKey
  <2>2. QED
    BY <1>7, <2>1, ContactPins DEF PushCAKey, TypeOK, Stages
<1>8. CASE RecordAdopted(p)
  <2>1. pc[p] = "record" /\ pc' = [pc EXCEPT ![p] = "use"]
    BY <1>8 DEF RecordAdopted
  <2>2. dir' = TRUE /\ rec' = TRUE /\ vouched' = fresh[p] /\ UNCHANGED <<pin, ca, holders, seen, todo, fresh>>
    BY <1>8 DEF RecordAdopted
  <2>3. TypeOK'
    BY <2>1, <2>2 DEF TypeOK, Stages
  <2>4. KeptInDir'
    BY <2>2
  <2>5. RunInv'
    BY <2>1, <2>2 DEF TypeOK
  <2>6. VouchedRecordIsPinned'
    BY <2>1, <2>2 DEF TypeOK
  <2>7. QED
    BY <2>3, <2>4, <2>5, <2>6
<1>9. QED
  BY <1>1, <1>2, <1>3, <1>4, <1>5, <1>6, <1>7, <1>8 DEF Adopt

LEMMA StepOperate ==
    ASSUME IInv, NEW p \in Procs, Operate(p)
    PROVE  IInv'
<1> USE DEF IInv, KeptInDir, RunInv, VouchedRecordIsPinned, Identified, Checked, Step
<1>1. CASE \/ BeginStart(p) \/ BeginUpdateOrSync(p) \/ BeginStop(p)
           \/ ReloadNote(p) \/ ListLoad(p)
  BY <1>1 DEF BeginStart, BeginUpdateOrSync, BeginStop, ReloadNote, ListLoad, TypeOK, Stages
<1>2. CASE SaveMoved(p)
  <2>1. pc[p] = "locate" /\ pc' = [pc EXCEPT ![p] = "aim"]
    BY <1>2 DEF SaveMoved
  <2>2. CASE UNCHANGED <<dir, rec>>
    BY <1>2, <2>1, <2>2 DEF SaveMoved, TypeOK, Stages
  <2>3. CASE dir' = TRUE /\ rec' = TRUE
    BY <1>2, <2>1, <2>3 DEF SaveMoved, TypeOK, Stages
  <2>4. QED
    BY <1>2, <2>2, <2>3 DEF SaveMoved
<1>3. CASE UseTarget(p)
  BY <1>3 DEF UseTarget, TypeOK, Stages
<1>4. CASE Use(p) \/ GracefulShutdown(p)
  <2>1. PICK m \in Machines : Contact(m)
    BY <1>4 DEF Use, GracefulShutdown
  <2>2. UNCHANGED <<holders, pc, seen, todo, fresh, vouched>>
    BY <1>4 DEF Use, GracefulShutdown
  <2>3. QED
    BY <2>1, <2>2, ContactPins DEF TypeOK
<1>5. CASE SaveReloadedNote(p)
  BY <1>5 DEF SaveReloadedNote, TypeOK, Stages
<1>6. CASE CachedNotes(p)
  BY <1>6 DEF CachedNotes, End, TypeOK, Stages, Entries
<1>7. QED
  BY <1>1, <1>2, <1>3, <1>4, <1>5, <1>6 DEF Operate

LEMMA StepDiscarding ==
    ASSUME IInv, NEW p \in Procs, Discarding(p)
    PROVE  IInv'
<1> USE DEF IInv, KeptInDir, RunInv, VouchedRecordIsPinned, Identified, Checked, Step
<1>1. CASE BeginRemove(p) \/ ConfirmClear(p)
  BY <1>1 DEF BeginRemove, ConfirmClear, OnDisk, TypeOK, Stages, Entries
<1>2. CASE BeginCreate(p)
  BY <1>2 DEF BeginCreate, TypeOK, Stages
<1>3. CASE Rmdir(p)
  <2>1. ~ rec /\ pin = None /\ ~ ca
    BY <1>3 DEF Rmdir, OnDisk, Entries
  <2>2. QED
    BY <1>3, <2>1 DEF Rmdir, Discarded, TypeOK, Stages
<1>4. ASSUME NEW e \in Entries, Unlink(p, e)
      PROVE  IInv'
  <2>1. todo' = [todo EXCEPT ![p] = @ \ {e}] /\ UNCHANGED <<dir, holders, pc, seen>>
    BY <1>4 DEF Unlink
  <2>2. CASE rec' = FALSE /\ vouched' = FALSE /\ UNCHANGED <<pin, ca, fresh>>
    BY <2>1, <2>2 DEF TypeOK, Entries
  <2>3. CASE pin' = None /\ Discarded /\ UNCHANGED <<rec, ca>>
    BY <2>1, <2>3 DEF Discarded, TypeOK, Entries
  <2>4. CASE ca' = FALSE /\ UNCHANGED <<rec, pin, fresh, vouched>>
    BY <2>1, <2>4 DEF TypeOK, Entries
  <2>5. QED
    BY <1>4, <2>2, <2>3, <2>4 DEF Unlink
<1>5. QED
  BY <1>1, <1>2, <1>3, <1>4 DEF Discarding

LEMMA StepOther ==
    ASSUME IInv,
           \/ RetirePin
           \/ \E p \in Procs : Stop(p) \/ FailAfterContact(p)
           \/ UNCHANGED vars
    PROVE  IInv'
<1> USE DEF IInv, KeptInDir, RunInv, VouchedRecordIsPinned, Identified, Checked
<1>1. CASE RetirePin
  BY <1>1 DEF RetirePin, Discarded, TypeOK
<1>2. ASSUME NEW p \in Procs, Stop(p)
      PROVE  IInv'
  BY <1>2 DEF Stop, End, TypeOK, Stages, Entries
<1>3. ASSUME NEW p \in Procs, FailAfterContact(p)
      PROVE  IInv'
  <2>1. PICK m \in Machines : Contact(m)
    BY <1>3 DEF FailAfterContact
  <2>2. QED
    BY <1>3, <2>1, ContactPins DEF FailAfterContact, End, TypeOK, Stages, Entries
<1>4. CASE UNCHANGED vars
  BY <1>4 DEF vars, TypeOK
<1>5. QED
  BY <1>1, <1>2, <1>3, <1>4

LEMMA NextInv == IInv /\ [Next]_vars => IInv'
BY StepAdopt, StepOperate, StepDiscarding, StepOther DEF Next

\* The inductive invariant holds of every verb, in every interleaving, with
\* any number of processes and machines.
THEOREM Inductive == Spec => []IInv
<1>1. Init => IInv
  BY InitInv
<1>2. IInv /\ [Next]_vars => IInv'
  BY NextInv
<1>3. QED
  BY <1>1, <1>2, PTL DEF Spec

-----------------------------------------------------------------------------
(* What a reader should take away.                                         *)

\* The state of mpd-virt's processes and of ~/.mpd-virt/<NNN>/ is well typed.
THEOREM TypeCorrect == Spec => []TypeOK
<1>1. IInv => TypeOK
  BY DEF IInv
<1>2. QED
  BY <1>1, Inductive, PTL

\* vmTarget: whatever answers a run after its first contact is provably the
\* machine of that first contact, unless the pin was discarded meanwhile.
THEOREM SameMachine == Spec => []SameMachineAfterFirst
<1>1. IInv => SameMachineAfterFirst
  BY DEF IInv, TypeOK, RunInv, SameMachineAfterFirst, Accepts
<1>2. QED
  BY <1>1, Inductive, PTL

\* adopt pushes the CA key to the machine whose hostname it checked, and to
\* no other, unless the pin was discarded between the check and the push.
THEOREM CAKeyToChecked == Spec => []CAKeyOnlyToChecked
<1>1. IInv => CAKeyOnlyToChecked
  BY DEF IInv, TypeOK, RunInv, CAKeyOnlyToChecked, Accepts, Identified, Checked
<1>2. QED
  BY <1>1, Inductive, PTL

\* A record an adoption wrote is backed by the key of an mpd-<NNN> until
\* somebody discards the pin: no later verb makes a silent first contact.
THEOREM VouchedRecord == Spec => []VouchedRecordIsPinned
<1>1. IInv => VouchedRecordIsPinned
  BY DEF IInv
<1>2. QED
  BY <1>1, Inductive, PTL

\* Every step of every verb is a step of the abstract promise or invisible
\* to it.
LEMMA StepRefines ==
    ASSUME IInv, [Next]_vars
    PROVE  [Trust!Next]_<<pin, holders>>
<1> USE DEF Trust!Next, Trust!FirstContact, Trust!Discard, Trust!Deliver
<1>1. ASSUME NEW m \in Machines, Contact(m), UNCHANGED holders
      PROVE  [Trust!Next]_<<pin, holders>>
  <2>1. pin' = pin \/ (pin = None /\ pin' = m)
    BY <1>1 DEF Contact, Accepts
  <2>2. QED
    BY <1>1, <2>1
<1>2. ASSUME NEW m \in Machines, Contact(m), ca, holders' = holders \cup {m}
      PROVE  Trust!Deliver(m)
  BY <1>2 DEF Contact, Accepts, IInv, KeptInDir
<1>3. ASSUME NEW p \in Procs, Adopt(p)
      PROVE  [Trust!Next]_<<pin, holders>>
  <2>1. CASE BeginAdopt(p) \/ AdoptTarget(p) \/ LoadOrGenerateVM(p) \/ RecordAdopted(p)
    BY <2>1 DEF BeginAdopt, AdoptTarget, LoadOrGenerateVM, RecordAdopted
  <2>2. CASE \/ CheckReachable(p) \/ CheckHostname(p) \/ CheckConformance(p)
             \/ Bootstrap(p) \/ SetUp(p)
    <3>1. PICK m \in Authorized : Contact(m) /\ UNCHANGED holders
      BY <2>2 DEF CheckReachable, CheckHostname, CheckConformance, Bootstrap, SetUp
    <3>2. QED
      BY <1>1, <3>1
  <2>3. CASE PushCAKey(p)
    <3>1. PICK m \in Authorized : Contact(m) /\ ca /\ holders' = holders \cup {m}
      BY <2>3 DEF PushCAKey
    <3>2. QED
      BY <1>2, <3>1
  <2>4. QED
    BY <1>3, <2>1, <2>2, <2>3 DEF Adopt
<1>4. ASSUME NEW p \in Procs, Operate(p)
      PROVE  [Trust!Next]_<<pin, holders>>
  <2>1. CASE Use(p) \/ GracefulShutdown(p)
    <3>1. PICK m \in Machines : Contact(m) /\ UNCHANGED holders
      BY <2>1 DEF Use, GracefulShutdown
    <3>2. QED
      BY <1>1, <3>1
  <2>2. CASE \/ BeginStart(p) \/ SaveMoved(p) \/ BeginUpdateOrSync(p) \/ UseTarget(p)
             \/ ReloadNote(p) \/ SaveReloadedNote(p) \/ BeginStop(p)
             \/ ListLoad(p) \/ CachedNotes(p)
    BY <2>2 DEF BeginStart, SaveMoved, BeginUpdateOrSync, UseTarget, BeginStop,
                ReloadNote, SaveReloadedNote, ListLoad, CachedNotes
  <2>3. QED
    BY <1>4, <2>1, <2>2 DEF Operate
<1>5. ASSUME NEW p \in Procs, Discarding(p)
      PROVE  [Trust!Next]_<<pin, holders>>
  BY <1>5 DEF Discarding, BeginRemove, BeginCreate, ConfirmClear, Rmdir, Unlink
<1>6. ASSUME NEW p \in Procs, Stop(p) \/ FailAfterContact(p)
      PROVE  [Trust!Next]_<<pin, holders>>
  BY <1>6, <1>1 DEF Stop, FailAfterContact
<1>7. CASE RetirePin
  BY <1>7 DEF RetirePin
<1>8. CASE UNCHANGED vars
  BY <1>8 DEF vars
<1>9. QED
  BY <1>3, <1>4, <1>5, <1>6, <1>7, <1>8 DEF Next

\* The verbs, run concurrently and without a lock, implement host trust: one
\* trusted machine at a time, replaced only after a deliberate discard, and
\* the VM CA key handed to the trusted machine alone.
THEOREM ImplementsHostTrust == Spec => TrustSpec
<1>1. Init => Trust!Init
  BY DEF Init, Trust!Init
<1>2. IInv /\ [Next]_vars => [Trust!Next]_<<pin, holders>>
  BY StepRefines
<1>3. QED
  BY <1>1, <1>2, Inductive, PTL DEF Spec, TrustSpec, Trust!Spec
=============================================================================
