---------------------------- MODULE OverlayProofs ----------------------------
(***************************************************************************)
(* What start and adopt promise of the overlay, proved for any processes   *)
(* and addresses.  The invariant IInv follows a calm run: what it has      *)
(* brought in step so far stays in step, since any step of another run, of *)
(* the VM or of mpd-proxy that could undo it ends the calm, and once the   *)
(* tunnel is wired, whatever undoes it says so.                            *)
(***************************************************************************)
EXTENDS Overlay, TLAPS

USE OverlayAssumption

LEMMA InitInv == Init => IInv
BY DEF Init, IInv, TypeOK, OverlaySurvives, RunInv, Located, Located, Stages, Verbs

LEMMA StepBegin ==
    ASSUME IInv, NEW p \in Procs,
           \/ BeginAdopt(p) \/ BeginStart(p) \/ BeginUpdate(p) \/ BeginSync(p)
           \/ BeginStop(p) \/ BeginRemove(p) \/ BeginUninstall(p)
    PROVE  IInv'
<1>1. PICK v \in Verbs \ {"none"}, to \in {"lan", "locate", "detach", "poweroff"}, a \in IPs \cup {NoIP} :
         /\ Begin(p, v, to, a)
         /\ to = "locate" => a = rec
         /\ v = "start" => to = "locate"
         /\ to \in {"lan", "locate"} => a # NoIP
  BY DEF BeginAdopt, BeginStart, BeginUpdate, BeginSync, BeginStop, BeginRemove,
         BeginUninstall, Verbs, IInv, TypeOK
<1>2. TypeOK'
  BY <1>1 DEF Begin, Step, Goto, IInv, TypeOK, Stages, vm, tun, proxy, host, seen
<1>3. OverlaySurvives'
  BY <1>1 DEF Begin, IInv, OverlaySurvives, vm, tun, proxy, seen
<1>4. RunInv'
  BY <1>1 DEF Begin, Step, Goto, IInv, TypeOK, RunInv, vm, tun, proxy, host, seen
<1>5. Located'
  BY <1>1 DEF Begin, Step, Goto, IInv, TypeOK, Located
<1>6. QED
  BY <1>2, <1>3, <1>4, <1>5 DEF IInv

LEMMA StepStart ==
    ASSUME IInv, NEW p \in Procs,
           StartLocate(p) \/ SaveMoved(p) \/ WriteBlock(p) \/ RecordAdopted(p)
    PROVE  IInv'
<1> USE DEF IInv, TypeOK, OverlaySurvives, RunInv, Located, Stages, Step, Goto, Disturbs,
            vm, tun, proxy, host, seen
<1>1. CASE StartLocate(p)
  <2>1. PICK a \in IPs : ip' = [ip EXCEPT ![p] = a]
                         /\ Goto(p, IF a = ip[p] THEN "block" ELSE "save")
    BY <1>1 DEF StartLocate
  <2>2. CASE up
    BY <1>1, <2>1, <2>2 DEF StartLocate
  <2>3. CASE ~ up
    <3>1. PICK b \in IPs : Boot(b) /\ KeepsWired(b)
      BY <1>1, <2>3 DEF StartLocate
    <3>2. Disturbs(p) /\ UNCHANGED <<proxy, host, verb>>
      BY <1>1, <2>3 DEF StartLocate
    <3>3. TypeOK'
      BY <2>1, <3>1, <3>2 DEF Boot, KeepsWired
    <3>4. OverlaySurvives'
      <4>1. SUFFICES ASSUME wired, b = addr
                     PROVE  proxyUp' /\ saved' /\ wg' /\ (peer' = addr' \/ (outrun' /\ peer' # NoIP))
        BY <3>1 DEF KeepsWired
      <4>2. QED
        BY <3>1, <3>2, <4>1 DEF Boot, KeepsWired
    <3>5. RunInv'
      BY <1>1, <2>1, <3>1, <3>2 DEF Boot, StartLocate
    <3>6. Located'
      BY <1>1, <2>1, <3>2 DEF StartLocate
    <3>7. QED
      BY <3>3, <3>4, <3>5, <3>6
  <2>4. QED
    BY <2>2, <2>3
<1>2. CASE SaveMoved(p)
  BY <1>2 DEF SaveMoved
<1>3. CASE WriteBlock(p)
  BY <1>3 DEF WriteBlock
<1>4. CASE RecordAdopted(p)
  BY <1>4 DEF RecordAdopted
<1>5. QED
  BY <1>1, <1>2, <1>3, <1>4

LEMMA StepNames ==
    ASSUME IInv, NEW p \in Procs,
           PushLanHosts(p) \/ VMSetup(p) \/ VMSetupFailed(p)
    PROVE  IInv'
<1> USE DEF IInv, TypeOK, OverlaySurvives, RunInv, Located, Stages, Verbs, Step, Goto, Disturbs, KeepsCalm,
            End, Current, vm, tun, proxy, host, seen
<1>1. CASE PushLanHosts(p)
  BY <1>1 DEF PushLanHosts
<1>2. CASE VMSetup(p)
  BY <1>2 DEF VMSetup, Unpeered, Unwired
<1>3. CASE VMSetupFailed(p)
  <2>1. UNCHANGED <<tun, seen>> \/ (Unpeered /\ Unwired)
    BY <1>3 DEF VMSetupFailed
  <2>2. /\ pc[p] = "setup" /\ Disturbs(p) /\ UNCHANGED <<vm, proxy, host>>
        /\ (verb[p] = "start" /\ Goto(p, "wire") /\ UNCHANGED <<verb, ip>>) \/ End(p)
    BY <1>3 DEF VMSetupFailed
  <2>3. TypeOK'
    <3>1. wg' \in BOOLEAN /\ saved' \in BOOLEAN /\ wired' \in BOOLEAN /\ outrun' \in BOOLEAN
      BY <2>1 DEF Unpeered, Unwired
    <3>2. QED
      BY <2>2, <3>1
  <2>4. OverlaySurvives'
    BY <2>1, <2>2 DEF Unpeered, Unwired
  <2>5. RunInv'
    BY <2>2
  <2>6. Located'
    BY <2>2
  <2>7. QED
    BY <2>3, <2>4, <2>5, <2>6
<1>4. QED
  BY <1>1, <1>2, <1>3

LEMMA StepWire ==
    ASSUME IInv, NEW p \in Procs,
           AskPubkey(p) \/ SetPeer(p) \/ SetPeerFailed(p) \/ AddPeer(p)
    PROVE  IInv'
<1> USE DEF IInv, TypeOK, OverlaySurvives, RunInv, Located, Stages, Verbs, Step, Goto, Disturbs, End,
            Reaches, vm, tun, proxy, host, seen
<1>1. CASE AskPubkey(p)
  BY <1>1 DEF AskPubkey, Call
<1>2. CASE SetPeer(p)
  BY <1>2 DEF SetPeer
<1>3. CASE SetPeerFailed(p)
  <2>1. TypeOK'
    BY <1>3 DEF SetPeerFailed
  <2>2. OverlaySurvives'
    <3>1. /\ saved => saved'
          /\ wg' /\ UNCHANGED <<addr, peer, proxyUp, seen>>
      BY <1>3 DEF SetPeerFailed
    <3>2. QED
      BY <3>1
  <2>3. calm' = [q \in Procs |-> FALSE]
    BY <1>3 DEF SetPeerFailed
  <2>4. RunInv'
    BY <2>3
  <2>5. Located'
    BY <1>3 DEF SetPeerFailed
  <2>6. QED
    BY <2>1, <2>2, <2>4, <2>5
<1>4. CASE AddPeer(p)
  <2>1. /\ peer' = ip[p] /\ proxyUp' /\ wired' = (wired \/ calm[p]) /\ outrun' = (wired /\ ~ calm[p])
        /\ UNCHANGED <<addr, up, wg, saved, rec, block, verb, ip>>
        /\ pc[p] = "add" /\ pc' = [pc EXCEPT ![p] = "verify"]
        /\ calm' = [q \in Procs |-> q = p /\ calm[q] /\ pc'[q] # "idle"]
    BY <1>4 DEF AddPeer, Add, Call
  <2>2. TypeOK'
    BY <2>1
  <2>3. OverlaySurvives'
    <3>1. CASE calm[p]
      BY <2>1, <3>1
    <3>2. CASE ~ calm[p] /\ wired
      <4>1. ip[p] # NoIP
        BY <2>1
      <4>2. QED
        BY <2>1, <3>2, <4>1
    <3>3. CASE ~ calm[p] /\ ~ wired
      BY <2>1, <3>3
    <3>4. QED
      BY <3>1, <3>2, <3>3
  <2>4. RunInv'
    BY <2>1
  <2>5. Located'
    BY <2>1
  <2>6. QED
    BY <2>2, <2>3, <2>4, <2>5
<1>5. QED
  BY <1>1, <1>2, <1>3, <1>4

LEMMA StepDown ==
    ASSUME IInv, NEW p \in Procs,
           Stop(p) \/ Detach(p) \/ PowerOff(p) \/ Strip(p) \/ Forget(p)
    PROVE  IInv'
<1> USE DEF IInv, TypeOK, OverlaySurvives, RunInv, Located, Stages, Verbs, Step, Goto, Disturbs, KeepsCalm, End,
            vm, tun, proxy, host, seen
<1>1. CASE Stop(p)
  BY <1>1 DEF Stop
<1>2. CASE Detach(p)
  BY <1>2 DEF Detach, Remove, Call, Unwired
<1>3. CASE PowerOff(p)
  <2>1. TypeOK'
    BY <1>3 DEF PowerOff
  <2>2. OverlaySurvives'
    BY <1>3 DEF PowerOff
  <2>3. RunInv'
    <3>1. SUFFICES ASSUME NEW q \in Procs, calm'[q]
                   PROVE  q = p /\ calm[p] /\ pc[p] = "poweroff" /\ pc'[q] \in {"idle", "strip"}
      BY <1>3 DEF PowerOff
    <3>2. QED
      BY <1>3, <3>1 DEF PowerOff
  <2>4. Located'
    BY <1>3 DEF PowerOff
  <2>5. QED
    BY <2>1, <2>2, <2>3, <2>4
<1>4. CASE Strip(p)
  BY <1>4 DEF Strip
<1>5. CASE Forget(p)
  BY <1>5 DEF Forget
<1>6. QED
  BY <1>1, <1>2, <1>3, <1>4, <1>5

LEMMA StepWorld ==
    ASSUME IInv, World \/ UNCHANGED vars
    PROVE  IInv'
<1> USE DEF IInv, TypeOK, OverlaySurvives, RunInv, Located, DisturbsAll, vm, tun, proxy, host, seen, run
<1>1. CASE Restart
  <2>1. PICK a \in IPs : Boot(a) /\ KeepsWired(a)
    BY <1>1 DEF Restart
  <2>2. TypeOK'
    BY <1>1, <2>1 DEF Restart, Boot, KeepsWired
  <2>3. OverlaySurvives'
    <3>1. SUFFICES ASSUME wired, a = addr
                   PROVE  proxyUp' /\ saved' /\ wg' /\ (peer' = addr' \/ (outrun' /\ peer' # NoIP))
      BY <2>1 DEF KeepsWired
    <3>2. QED
      BY <1>1, <2>1, <3>1 DEF Restart, Boot, KeepsWired
  <2>4. RunInv' /\ Located'
    BY <1>1 DEF Restart
  <2>5. QED
    BY <2>2, <2>3, <2>4
<1>2. ASSUME NEW on \in BOOLEAN, Proxy(on)
      PROVE  IInv'
  BY <1>2 DEF Proxy, Unwired
<1>3. CASE UNCHANGED vars
  BY <1>3 DEF vars
<1>4. QED
  BY <1>1, <1>2, <1>3 DEF World

LEMMA NextInv == IInv /\ [Next]_vars => IInv'
BY StepBegin, StepStart, StepNames, StepWire, StepDown, StepWorld DEF Next, Verb

\* The inductive invariant holds of every verb, in every interleaving, with
\* the VM and mpd-proxy restarting at any time.
THEOREM Inductive == Spec => []IInv
<1>1. Init => IInv
  BY InitInv
<1>2. IInv /\ [Next]_vars => IInv'
  BY NextInv
<1>3. QED
  BY <1>1, <1>2, PTL DEF Spec

-----------------------------------------------------------------------------
(* What a reader should take away.                                         *)

\* The records, the tunnel and the processes are well typed.
THEOREM TypeCorrect == Spec => []TypeOK
<1>1. IInv => TypeOK
  BY DEF IInv
<1>2. QED
  BY <1>1, Inductive, PTL

\* setupReachability's peer is saved to the VM's wg0.conf before it is added to
\* mpd-proxy, so what it wired outlives reboots and every later verb but the
\* ones that undo it on purpose.
THEOREM Survives == Spec => []OverlaySurvives
<1>1. IInv => OverlaySurvives
  BY DEF IInv
<1>2. QED
  BY <1>1, Inductive, PTL

\* At the end of an undisturbed start or adoption, vm.json, the ssh-config
\* block, the proxy's peer and the VM's own peer agree.
THEOREM WiresAll == Spec => []StartWiresAll
<1>1. IInv => StartWiresAll
  BY DEF IInv, OverlaySurvives, RunInv, StartWiresAll
<1>2. QED
  BY <1>1, Inductive, PTL
=============================================================================
