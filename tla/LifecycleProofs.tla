--------------------------- MODULE LifecycleProofs ----------------------------
(***************************************************************************)
(* What the verbs make of a VM at its hypervisor, proved for any processes *)
(* and any number of polls.  A run that nobody disturbs knows the object   *)
(* from what it did itself; whoever else changes the object disturbs it    *)
(* (ActsFrame).  So each part of IInv is kept by the run it speaks of, and *)
(* by the rest because they took its calm.                                 *)
(***************************************************************************)
EXTENDS Lifecycle, TLAPS

USE LifecycleAssumption

Starts(p) == \/ BeginCreate(p) \/ BeginAdopt(p) \/ BeginStart(p) \/ BeginStop(p)
             \/ BeginRemove(p) \/ BeginFull(p)

Acts(p) == Starts(p) \/ Run(p) \/ Crash(p) \/ Hang(p)

\* What a step of p may do to the other runs.
Frame(p) ==
    /\ be' = be /\ silent' = silent /\ (blind => blind')
    /\ \A q \in Procs : q # p =>
          /\ pc'[q] = pc[q] /\ verb'[q] = verb[q]
          /\ calm'[q] => calm[q] /\ obj' = obj /\ defined' = defined

LEMMA NextCases ==
    ASSUME [Next]_vars
    PROVE  UNCHANGED vars \/ (\E p \in Procs : Acts(p)) \/ GuestOff \/ User
BY DEF Next, Acts, Starts

LEMMA InitInv == Init => IInv
<1> SUFFICES ASSUME Init PROVE IInv
  OBVIOUS
<1>1. TypeOK
  <2>1. defined \in BOOLEAN /\ (obj = "absent" => ~ defined) /\ (obj # "absent" => defined)
    BY DEF Init
  <2>2. left \in [Procs -> 0..MaxPolls]
    BY DEF Init
  <2>3. QED
    BY <2>1, <2>2 DEF Init, TypeOK, Stages, Ends, Verbs, Answers, Active
<1>2. MakerInv /\ DiskIsItsOwn
  BY DEF Init, MakerInv, DiskIsItsOwn
<1>3. \A p \in Procs : Staged(p) /\ Made(p) /\ Gone(p) /\ Stopped(p) /\ Filed(p)
  BY DEF Init, Staged, Made, Gone, Stopped, Filed
<1>4. QED
  BY <1>1, <1>2, <1>3 DEF IInv

-----------------------------------------------------------------------------
(* The object.                                                             *)

\* The part of TypeOK that is about it.
ObjectOK ==
    /\ obj \in {"absent", "off", "suspended"} \cup Active
    /\ defined \in BOOLEAN /\ (obj = "absent" => ~ defined)
    /\ obj # "absent" /\ ~ defined => obj \in Active /\ be = "libvirt"
    /\ maker \in Procs \cup {None}

\* What becomes of an object is an object, and who did not do it is disturbed.
LEMMA BecomesObject ==
    ASSUME TypeOK, obj # "absent", NEW p \in Procs \cup {None},
           NEW o \in {"absent", "off", "running", "stopping", "paused"}, Becomes(p, o)
    PROVE  /\ env' = env /\ be' = be /\ silent' = silent /\ disk' = disk /\ ObjectOK'
           /\ obj' = o \/ (o = "off" /\ ~ defined /\ obj' = "absent")
           /\ obj' = "absent" => maker' = None
           /\ defined' => defined
           /\ maker' = maker \/ maker' = None
           /\ calm' \in [Procs -> BOOLEAN]
           /\ \A q \in Procs : calm'[q] => calm[q]
           /\ \A q \in Procs : q # p /\ calm'[q] => obj' = obj /\ defined' = defined
           /\ p \in Procs => calm'[p] = calm[p]
<1> USE DEF TypeOK, Becomes, Moves, Disturbs, env, Active
<1>1. env' = env /\ be' = be /\ silent' = silent /\ disk' = disk
  OBVIOUS
<1>2. ObjectOK'
  BY <1>1 DEF ObjectOK
<1>3. /\ obj' = o \/ (o = "off" /\ ~ defined /\ obj' = "absent")
      /\ obj' = "absent" => maker' = None
      /\ defined' => defined
      /\ maker' = maker \/ maker' = None
  OBVIOUS
<1>4. /\ calm' \in [Procs -> BOOLEAN]
      /\ \A q \in Procs : calm'[q] => calm[q]
      /\ \A q \in Procs : q # p /\ calm'[q] => obj' = obj /\ defined' = defined
      /\ p \in Procs => calm'[p] = calm[p]
  OBVIOUS
<1>5. QED
  BY <1>1, <1>2, <1>3, <1>4

\* A verb that is obeyed moves an object that is there.
LEMMA VerbObject ==
    ASSUME TypeOK, NEW p \in Procs, NEW v \in {"start", "stop"}, IssueVerb(p, v)
    PROVE  \/ Same
           \/ /\ obj # "absent" /\ (v = "stop" => obj \in Active)
              /\ \E o \in {"off", "running", "stopping"} : Becomes(p, o)
BY DEF IssueVerb, ContainerPower, UTMPower, LibvirtPower, ProxmoxPower, ParallelsPower, Active

-----------------------------------------------------------------------------
(* Types.                                                                  *)

LEMMA StateAnswers ==
    ASSUME TypeOK
    PROVE  State \subseteq Answers
BY DEF TypeOK, State, ContainerState, UTMStatus, LibvirtState, ProxmoxState, ParallelsState,
       Normalize, Answers, Active

\* A step is well typed if its stage, its object and the rest of it are.
LEMMA TypeParts ==
    ASSUME TypeOK, be' = be, silent' = silent, ObjectOK', disk' \in Procs \cup {None},
           pc' \in [Procs -> Stages],
           verb' \in [Procs -> Verbs], prior' \in [Procs -> Answers],
           left' \in [Procs -> 0..MaxPolls], calm' \in [Procs -> BOOLEAN],
           rec' \in BOOLEAN, blind' \in BOOLEAN
    PROVE  TypeOK'
BY DEF TypeOK, ObjectOK

LEMMA SameObject ==
    ASSUME TypeOK, UNCHANGED object
    PROVE  be' = be /\ silent' = silent /\ ObjectOK' /\ disk' \in Procs \cup {None}
BY DEF TypeOK, ObjectOK, object, env

LEMMA GotoType ==
    ASSUME TypeOK, NEW p \in Procs, NEW to \in Stages, Goto(p, to)
    PROVE  pc' \in [Procs -> Stages]
BY DEF TypeOK, Goto

LEMMA StagesAre ==
    /\ \A st \in {"idle", "exists", "wipe", "files", "make", "boot", "await", "cleanup"} : st \in Stages
    /\ \A st \in {"adopt", "probe", "poweron", "locate", "poweroff", "shutdown", "waitoff"} : st \in Stages
    /\ \A st \in {"delete", "kill", "killed", "destroy", "unlink", "forget", "hung"} : st \in Stages
    /\ \A st \in {"refused", "failed", "kept", "late", "done", "removed"} : st \in Stages
BY DEF Stages, Ends

LEMMA LeftType ==
    ASSUME TypeOK, NEW p \in Procs, left[p] > 0
    PROVE  [left EXCEPT ![p] = @ - 1] \in [Procs -> 0..MaxPolls]
<1>1. left[p] - 1 \in 0..MaxPolls
  BY DEF TypeOK
<1>2. QED
  BY <1>1 DEF TypeOK

LEMMA StartsType ==
    ASSUME TypeOK, NEW p \in Procs, Starts(p)
    PROVE  TypeOK'
<1>1. PICK v \in Verbs, to \in Stages : Begin(p, v, to)
  BY StagesAre DEF Starts, BeginCreate, BeginAdopt, BeginStart, BeginStop, BeginRemove, BeginFull,
     Verbs
<1>2. pc' \in [Procs -> Stages]
  BY <1>1, GotoType DEF Begin
<1>3. QED
  BY <1>1, <1>2, SameObject, TypeParts DEF Begin, TypeOK

LEMMA CreateType ==
    ASSUME TypeOK, NEW p \in Procs, Create(p)
    PROVE  TypeOK'
<1>1. PICK to \in Stages : Goto(p, to)
  BY StagesAre DEF Create, CheckExists, WipeFiles, MaterializeDisk, Make, MakeFailed, Boot, Await,
     CreateFailed, CleanUp, Adopt
<1>2. pc' \in [Procs -> Stages]
  BY <1>1, GotoType
<1>3. CASE CheckExists(p) \/ MakeFailed(p) \/ CreateFailed(p) \/ Adopt(p)
  BY <1>2, <1>3, SameObject, TypeParts DEF CheckExists, MakeFailed, CreateFailed, Adopt, TypeOK
<1>4. CASE WipeFiles(p) \/ MaterializeDisk(p) \/ Await(p)
  <2>1. be' = be /\ silent' = silent /\ ObjectOK' /\ disk' \in Procs \cup {None}
    BY <1>4 DEF WipeFiles, MaterializeDisk, Await, TypeOK, ObjectOK, env
  <2>2. blind' \in BOOLEAN
    BY <1>4 DEF WipeFiles, MaterializeDisk, Await, TypeOK
  <2>3. QED
    BY <1>2, <1>4, <2>1, <2>2, TypeParts DEF WipeFiles, MaterializeDisk, Await, TypeOK
<1>5. CASE Make(p)
  <2>1. be' = be /\ silent' = silent /\ ObjectOK' /\ disk' \in Procs \cup {None}
    BY <1>5 DEF Make, TypeOK, ObjectOK, env, Active
  <2>2. QED
    BY <1>2, <1>5, <2>1, TypeParts DEF Make, Disturbs, TypeOK
<1>6. CASE Boot(p)
  <2>1. obj # "absent" /\ Becomes(p, "running")
    BY <1>6 DEF Boot
  <2>2. QED
    BY <1>2, <1>6, <2>1, BecomesObject, TypeParts DEF Boot, TypeOK
<1>7. CASE CleanUp(p)
  <2>1. be' = be /\ silent' = silent /\ ObjectOK' /\ disk' \in Procs \cup {None}
    <3>1. UNCHANGED <<env, obj, defined, maker>>
          \/ (UNCHANGED env /\ obj' = "absent" /\ defined' = FALSE /\ maker' = None)
      BY <1>7 DEF CleanUp
    <3>2. QED
      <4>1. be' = be /\ silent' = silent /\ disk' = None
        BY <1>7, <3>1 DEF CleanUp, env
      <4>2. CASE UNCHANGED <<env, obj, defined, maker>>
        BY <4>1, <4>2 DEF TypeOK, ObjectOK
      <4>3. CASE obj' = "absent" /\ defined' = FALSE /\ maker' = None
        BY <4>1, <4>3 DEF ObjectOK
      <4>4. QED
        BY <3>1, <4>1, <4>2, <4>3
  <2>2. calm' \in [Procs -> BOOLEAN]
    BY <1>7 DEF CleanUp, Disturbs, TypeOK
  <2>3. QED
    BY <1>2, <1>7, <2>1, <2>2, TypeParts DEF CleanUp, TypeOK
<1>8. QED
  BY <1>3, <1>4, <1>5, <1>6, <1>7 DEF Create

\* A verb obeyed or not leaves a well-typed object.
LEMMA VerbType ==
    ASSUME TypeOK, NEW p \in Procs, NEW v \in {"start", "stop"}, IssueVerb(p, v)
    PROVE  /\ be' = be /\ silent' = silent /\ ObjectOK' /\ disk' \in Procs \cup {None}
           /\ calm' \in [Procs -> BOOLEAN]
<1>1. CASE Same
  BY <1>1, SameObject DEF Same, TypeOK
<1>2. CASE ~ Same
  <2>1. obj # "absent" /\ \E o \in {"off", "running", "stopping"} : Becomes(p, o)
    BY <1>2, VerbObject
  <2>2. QED
    BY <2>1, BecomesObject DEF TypeOK
<1>3. QED
  BY <1>1, <1>2

LEMMA PowerType ==
    ASSUME TypeOK, NEW p \in Procs, Power(p)
    PROVE  TypeOK'
<1>1. pc' \in [Procs -> Stages]
  <2>1. CASE UNCHANGED pc
    BY <2>1 DEF TypeOK
  <2>2. CASE \E to \in Stages : Goto(p, to)
    BY <2>2, GotoType
  <2>3. QED
    BY <2>1, <2>2, StagesAre DEF Power, ProbeState, PowerOn, Locate, PowerOff, GracefulShutdown,
       WaitOff, AfterOff
<1>2. CASE ProbeState(p)
  <2>1. prior' \in [Procs -> Answers] /\ left' \in [Procs -> 0..MaxPolls]
    BY <1>2, StateAnswers DEF ProbeState, TypeOK
  <2>2. QED
    BY <1>1, <1>2, <2>1, SameObject, TypeParts DEF ProbeState, TypeOK
<1>3. CASE PowerOn(p)
  BY <1>1, <1>3, VerbType, TypeParts DEF PowerOn, TypeOK
<1>4. CASE Locate(p) \/ WaitOff(p) \/ PowerOff(p)
  <2>1. left' \in [Procs -> 0..MaxPolls]
    BY <1>4, LeftType DEF Locate, WaitOff, PowerOff, TypeOK
  <2>2. QED
    BY <1>1, <1>4, <2>1, SameObject, TypeParts DEF Locate, WaitOff, PowerOff, TypeOK
<1>5. CASE GracefulShutdown(p)
  <2>1. left' \in [Procs -> 0..MaxPolls]
    BY <1>5 DEF GracefulShutdown, TypeOK
  <2>2. CASE IssueVerb(p, "stop")
    BY <1>1, <1>5, <2>1, <2>2, VerbType, TypeParts DEF GracefulShutdown, TypeOK
  <2>3. CASE obj = "running" /\ Becomes(p, "stopping")
    BY <1>1, <1>5, <2>1, <2>3, BecomesObject, TypeParts DEF GracefulShutdown, TypeOK
  <2>4. QED
    BY <1>5, <2>2, <2>3 DEF GracefulShutdown
<1>6. QED
  BY <1>2, <1>3, <1>4, <1>5 DEF Power

\* What a delete may do to the object.
LEMMA DeleteObject ==
    ASSUME TypeOK, NEW p \in Procs, Delete(p)
    PROVE  \/ Same
           \/ obj # "absent" /\ \E o \in {"off", "absent"} : Becomes(p, o)
           \/ Undefine(p) /\ obj \in Active /\ defined /\ defined' = FALSE /\ Disturbs(p)
              /\ UNCHANGED <<env, obj, maker, disk>>
           \/ Unlink(p)
<1>1. CASE ContainerDelete(p) \/ Destroy(p)
  BY <1>1 DEF ContainerDelete, Destroy
<1>2. CASE LookForVM(p) \/ LookForRunning(p) \/ Forget(p) \/ WaitVMStopped(p)
  BY <1>2 DEF LookForVM, LookForRunning, Forget, WaitVMStopped, Same
<1>3. CASE UTMKill(p) \/ ProxmoxKill(p) \/ VirshDestroy(p)
  BY <1>3 DEF UTMKill, ProxmoxKill, VirshDestroy, Active
<1>4. CASE Undefine(p)
  BY <1>4 DEF Undefine
<1>5. QED
  BY <1>1, <1>2, <1>3, <1>4 DEF Delete

LEMMA DeleteType ==
    ASSUME TypeOK, NEW p \in Procs, Delete(p)
    PROVE  TypeOK'
<1>1. pc' \in [Procs -> Stages]
  <2>1. CASE UNCHANGED pc
    BY <2>1 DEF TypeOK
  <2>2. CASE \E to \in Stages : Goto(p, to)
    BY <2>2, GotoType
  <2>3. QED
    BY <2>1, <2>2, StagesAre DEF Delete, ContainerDelete, LookForVM, UTMKill, WaitVMStopped,
       ProxmoxKill, Destroy, LookForRunning, VirshDestroy, Undefine, Unlink, Forget, Deleted,
       NotDeleted, WaitTask
<1>2. left' \in [Procs -> 0..MaxPolls]
  <2>1. CASE UTMKill(p)
    BY <2>1 DEF UTMKill, TypeOK
  <2>2. CASE WaitVMStopped(p)
    BY <2>2, LeftType DEF WaitVMStopped, TypeOK
  <2>3. CASE UNCHANGED left
    BY <2>3 DEF TypeOK
  <2>4. QED
    BY <2>1, <2>2, <2>3 DEF Delete, ContainerDelete, LookForVM,
       ProxmoxKill, Destroy, LookForRunning, VirshDestroy, Undefine, Unlink, Forget
<1>3. /\ verb' \in [Procs -> Verbs] /\ prior' \in [Procs -> Answers]
      /\ rec' \in BOOLEAN /\ blind' \in BOOLEAN
  BY DEF TypeOK, Delete, ContainerDelete, LookForVM, UTMKill, WaitVMStopped,
     ProxmoxKill, Destroy, LookForRunning, VirshDestroy, Undefine, Unlink, Forget
<1>4. /\ be' = be /\ silent' = silent /\ ObjectOK' /\ disk' \in Procs \cup {None}
      /\ calm' \in [Procs -> BOOLEAN]
  <2>1. CASE Same
    BY <2>1, SameObject DEF Same, TypeOK
  <2>2. CASE obj # "absent" /\ \E o \in {"off", "absent"} : Becomes(p, o)
    BY <2>2, BecomesObject DEF TypeOK
  <2>3. CASE /\ Undefine(p) /\ obj \in Active /\ defined /\ defined' = FALSE /\ Disturbs(p)
             /\ UNCHANGED <<env, obj, maker, disk>>
    BY <2>3 DEF Undefine, Disturbs, TypeOK, ObjectOK, env, Active
  <2>4. CASE Unlink(p)
    BY <2>4 DEF Unlink, TypeOK, ObjectOK, env
  <2>5. QED
    BY <2>1, <2>2, <2>3, <2>4, DeleteObject
<1>5. QED
  BY <1>1, <1>2, <1>3, <1>4, TypeParts

\* The user's hand takes the calm of every run.
LEMMA UserObject ==
    ASSUME TypeOK, User
    PROVE  /\ UNCHANGED <<env, disk, rec, pc, verb, prior, left, blind>>
           /\ be' = be /\ silent' = silent /\ ObjectOK'
           /\ calm' \in [Procs -> BOOLEAN] /\ \A q \in Procs : ~ calm'[q]
           /\ obj' = "absent" => maker' = None
           /\ defined' => defined
           /\ maker' = maker \/ maker' = None
           /\ obj # "absent"
<1>1. PICK from \in {"off", "running", "paused", "suspended"},
           to \in {"running", "absent", "paused", "suspended", "off"} :
         /\ ByHand(from, to) /\ from # to
         /\ to = "suspended" => be = "parallels"
         /\ to = "absent" => from = "off"
  BY DEF User
<1>2. UNCHANGED <<env, disk, rec, pc, verb, prior, left, blind>> /\ be' = be /\ silent' = silent
  BY <1>1 DEF ByHand, Becomes, Moves, env
<1>3. obj = from /\ obj' # obj
  BY <1>1 DEF ByHand, Becomes, Moves, TypeOK, Active
<1>4. ObjectOK'
  BY <1>1, <1>2, <1>3 DEF ByHand, Becomes, Moves, TypeOK, ObjectOK, Active
<1>5. calm' \in [Procs -> BOOLEAN] /\ \A q \in Procs : ~ calm'[q]
  BY <1>1, <1>3 DEF ByHand, Becomes, Disturbs, TypeOK
<1>6. QED
  BY <1>1, <1>2, <1>3, <1>4, <1>5 DEF ByHand, Becomes, Moves

\* A guest that goes off takes nobody's calm: it was told to.
LEMMA GuestObject ==
    ASSUME TypeOK, GuestOff
    PROVE  /\ UNCHANGED <<env, disk, rec, pc, verb, prior, left, calm, blind>>
           /\ be' = be /\ silent' = silent /\ ObjectOK'
           /\ obj = "stopping" /\ obj' \in {"off", "absent"}
           /\ obj' = "absent" => maker' = None
           /\ obj' = "off" => defined
           /\ defined' => defined
           /\ maker' = maker \/ maker' = None
BY DEF GuestOff, Moves, TypeOK, ObjectOK, Active, env

LEMMA StepType ==
    ASSUME TypeOK, [Next]_vars
    PROVE  TypeOK'
<1>1. CASE UNCHANGED vars
  BY <1>1 DEF vars, object, env, TypeOK
<1>2. ASSUME NEW p \in Procs, Acts(p)
      PROVE  TypeOK'
  <2>1. CASE Finish(p) \/ Crash(p) \/ Hang(p)
    <3>1. pc' \in [Procs -> Stages]
      BY <2>1, GotoType, StagesAre DEF Finish, Crash, Hang, Leave
    <3>2. /\ verb' \in [Procs -> Verbs] /\ prior' \in [Procs -> Answers]
          /\ left' \in [Procs -> 0..MaxPolls] /\ calm' \in [Procs -> BOOLEAN]
      <4>1. "none" \in Verbs /\ "unknown" \in Answers /\ 0 \in 0..MaxPolls
        BY DEF Verbs, Answers
      <4>2. QED
        <5>1. \E to \in Stages : Leave(p, to)
          BY <2>1, StagesAre DEF Finish, Crash, Hang
        <5>2. verb' \in [Procs -> Verbs] /\ prior' \in [Procs -> Answers]
          BY <4>1, <5>1 DEF Leave, TypeOK
        <5>3. left' \in [Procs -> 0..MaxPolls]
          BY <4>1, <5>1 DEF Leave, TypeOK
        <5>4. calm' \in [Procs -> BOOLEAN]
          BY <5>1 DEF Leave, TypeOK
        <5>5. QED
          BY <5>2, <5>3, <5>4
    <3>3. QED
      BY <2>1, <3>1, <3>2, SameObject, TypeParts DEF Finish, Crash, Hang, Leave, TypeOK
  <2>2. QED
    BY <1>2, <2>1, StartsType, CreateType, PowerType, DeleteType DEF Acts, Run
<1>3. CASE GuestOff \/ User
  BY <1>3, GuestObject, UserObject, TypeParts DEF TypeOK
<1>4. QED
  BY <1>1, <1>2, <1>3, NextCases

-----------------------------------------------------------------------------
(* What a step means to the runs that did not take it.                     *)

LEMMA ActsFrame ==
    ASSUME TypeOK, NEW p \in Procs, Acts(p)
    PROVE  Frame(p)
<1> DEFINE Others == \A q \in Procs : q # p => pc'[q] = pc[q] /\ verb'[q] = verb[q]
<1>1. Others /\ (blind => blind') /\ be' = be /\ silent' = silent
  <2>1. CASE Starts(p) \/ Finish(p) \/ Crash(p) \/ Hang(p)
    BY <2>1 DEF Starts, BeginCreate, BeginAdopt, BeginStart, BeginStop, BeginRemove, BeginFull,
       Begin, Finish, Crash, Hang, Leave, Goto, TypeOK, object, env
  <2>2. CASE Create(p)
    BY <2>2, BecomesObject DEF Create, CheckExists, WipeFiles, MaterializeDisk, Make, MakeFailed,
       Boot, Await, CreateFailed, CleanUp, Adopt, Goto, TypeOK, object, env
  <2>3. CASE Power(p)
    <3>1. be' = be /\ silent' = silent
      BY <2>3, VerbType, BecomesObject DEF Power, ProbeState, PowerOn, Locate, PowerOff,
         GracefulShutdown, WaitOff, object, env
    <3>2. QED
      BY <2>3, <3>1 DEF Power, ProbeState, PowerOn, Locate, PowerOff, GracefulShutdown,
         WaitOff, Goto, TypeOK
  <2>4. CASE Delete(p)
    <3>1. be' = be /\ silent' = silent
      BY <2>4, DeleteObject, BecomesObject DEF Unlink, Same, object, env
    <3>2. Others
      BY <2>4 DEF Delete, ContainerDelete, LookForVM, UTMKill, WaitVMStopped, ProxmoxKill,
         Destroy, LookForRunning, VirshDestroy, Undefine, Unlink, Forget, Deleted, NotDeleted,
         WaitTask, Goto, TypeOK
    <3>3. blind => blind'
      BY <2>4 DEF Delete, ContainerDelete, LookForVM, UTMKill, WaitVMStopped, ProxmoxKill,
         Destroy, LookForRunning, VirshDestroy, Undefine, Unlink, Forget
    <3>4. QED
      BY <3>1, <3>2, <3>3
  <2>5. QED
    BY <2>1, <2>2, <2>3, <2>4 DEF Acts, Run
<1>2. \A q \in Procs : q # p /\ calm'[q] => calm[q] /\ obj' = obj /\ defined' = defined
  <2>1. CASE Starts(p) \/ Finish(p) \/ Crash(p) \/ Hang(p)
    BY <2>1 DEF Starts, BeginCreate, BeginAdopt, BeginStart, BeginStop, BeginRemove, BeginFull,
       Begin, Finish, Crash, Hang, Leave, TypeOK, object
  <2>2. CASE Same
    BY <2>2 DEF Same, object
  <2>3. CASE obj # "absent" /\ \E o \in {"off", "absent", "running", "stopping"} : Becomes(p, o)
    BY <2>3, BecomesObject
  <2>4. CASE Disturbs(p)
    BY <2>4 DEF Disturbs
  <2>5. CASE UNCHANGED <<obj, defined, calm>>
    BY <2>5
  <2>6. CASE Create(p)
    BY <2>2, <2>3, <2>4, <2>5, <2>6 DEF Create, CheckExists, WipeFiles, MaterializeDisk, Make,
       MakeFailed, Boot, Await, CreateFailed, CleanUp, Adopt, TypeOK, object
  <2>7. CASE Power(p)
    BY <2>2, <2>3, <2>5, <2>7, VerbObject DEF Power, ProbeState, PowerOn, Locate, PowerOff,
       GracefulShutdown, WaitOff, object
  <2>8. CASE Delete(p)
    BY <2>2, <2>3, <2>4, <2>5, <2>8, DeleteObject DEF Unlink
  <2>9. QED
    BY <2>1, <2>6, <2>7, <2>8 DEF Acts, Run
<1>3. QED
  BY <1>1, <1>2 DEF Frame

\* A run does not calm itself down, but for a new one.
LEMMA OwnCalm ==
    ASSUME TypeOK, NEW p \in Procs, Acts(p), calm'[p]
    PROVE  Starts(p) \/ (calm[p] /\ verb'[p] = verb[p])
<1>1. CASE Finish(p) \/ Crash(p) \/ Hang(p)
  BY <1>1 DEF Finish, Crash, Hang, Leave, TypeOK
<1>2. CASE Create(p) \/ Power(p) \/ Delete(p)
  <2>1. verb' = verb
    BY <1>2 DEF Create, CheckExists, WipeFiles, MaterializeDisk, Make, MakeFailed,
       Boot, Await, CreateFailed, CleanUp, Adopt, Power, ProbeState, PowerOn, Locate, PowerOff,
       GracefulShutdown, WaitOff, Delete, ContainerDelete, LookForVM, UTMKill, WaitVMStopped,
       ProxmoxKill, Destroy, LookForRunning, VirshDestroy, Undefine, Unlink, Forget
  <2>2. CASE Same \/ UNCHANGED calm
    BY <2>1, <2>2 DEF Same
  <2>3. CASE obj # "absent" /\ \E o \in {"off", "absent", "running", "stopping"} : Becomes(p, o)
    BY <2>1, <2>3, BecomesObject
  <2>4. CASE Disturbs(p)
    BY <2>1, <2>4 DEF Disturbs
  <2>5. CASE Create(p)
    BY <2>2, <2>3, <2>4, <2>5 DEF Create, CheckExists, WipeFiles, MaterializeDisk, Make,
       MakeFailed, Boot, Await, CreateFailed, CleanUp, Adopt
  <2>6. CASE Power(p)
    BY <2>2, <2>3, <2>6, VerbObject DEF Power, ProbeState, PowerOn, Locate, PowerOff,
       GracefulShutdown, WaitOff
  <2>7. CASE Delete(p)
    BY <2>2, <2>3, <2>4, <2>7, DeleteObject DEF Unlink
  <2>8. QED
    BY <1>2, <2>5, <2>6, <2>7
<1>3. QED
  BY <1>1, <1>2 DEF Acts, Run

LEMMA OthersKeep ==
    ASSUME IInv, NEW p \in Procs, Acts(p), NEW q \in Procs, q # p
    PROVE  Staged(q)' /\ Made(q)' /\ Gone(q)' /\ Stopped(q)'
<1>1. TypeOK /\ Staged(q) /\ Made(q) /\ Gone(q) /\ Stopped(q)
  BY DEF IInv
<1>2. Frame(p)
  BY <1>1, ActsFrame
<1>3. /\ pc'[q] = pc[q] /\ verb'[q] = verb[q] /\ be' = be /\ silent' = silent /\ (blind => blind')
      /\ calm'[q] => calm[q] /\ obj' = obj /\ defined' = defined
  BY <1>2 DEF Frame
<1>4. Staged(q)'
  BY <1>1, <1>3 DEF Staged
<1>5. Made(q)'
  BY <1>1, <1>3 DEF Made
<1>6. Gone(q)' /\ Stopped(q)'
  BY <1>1, <1>3 DEF Gone, Stopped
<1>7. QED
  BY <1>4, <1>5, <1>6

-----------------------------------------------------------------------------
(* What it means to the run that took it.                                  *)

LEMMA OwnStaged ==
    ASSUME IInv, NEW p \in Procs, Acts(p)
    PROVE  Staged(p)'
<1> USE DEF Staged, Goto
<1>1. TypeOK /\ Staged(p) /\ be' = be
  BY ActsFrame DEF IInv, Frame
<1>2. pc \in [Procs -> Stages] /\ verb \in [Procs -> Verbs]
  BY <1>1 DEF TypeOK
<1>3. CASE Starts(p)
  BY <1>1, <1>2, <1>3 DEF Starts, BeginCreate, BeginAdopt, BeginStart, BeginStop, BeginRemove,
     BeginFull, Begin, Deletable
<1>4. CASE Finish(p) \/ Crash(p) \/ Hang(p)
  BY <1>1, <1>2, <1>4 DEF Finish, Crash, Hang, Leave
<1>5. CASE Create(p)
  BY <1>1, <1>2, <1>5 DEF Create, CheckExists, WipeFiles, MaterializeDisk, Make, MakeFailed,
     Boot, Await, CreateFailed, CleanUp, Adopt
<1>6. CASE Power(p)
  BY <1>1, <1>2, <1>6 DEF Power, ProbeState, PowerOn, Locate, PowerOff, GracefulShutdown, WaitOff,
     AfterOff
<1>7. CASE Delete(p)
  BY <1>1, <1>2, <1>7 DEF Delete, ContainerDelete, LookForVM, UTMKill, WaitVMStopped,
     ProxmoxKill, Destroy, LookForRunning, VirshDestroy, Undefine, Unlink, Forget, Deleted,
     NotDeleted, WaitTask
<1>8. QED
  BY <1>3, <1>4, <1>5, <1>6, <1>7 DEF Acts, Run

\* A create follows its VM from nothing to nothing, if nobody disturbs it.
LEMMA OwnMade ==
    ASSUME IInv, NEW p \in Procs, Acts(p)
    PROVE  Made(p)'
<1>1. TypeOK /\ Staged(p) /\ Made(p) /\ be' = be /\ silent' = silent /\ (blind => blind')
  BY ActsFrame DEF IInv, Frame
<1>2. pc \in [Procs -> Stages] /\ verb \in [Procs -> Verbs]
  BY <1>1 DEF TypeOK
<1>3. SUFFICES ASSUME calm'[p], verb'[p] = "create"
               PROVE  Made(p)'
  BY DEF Made
<1>4. CASE Starts(p)
  BY <1>1, <1>2, <1>4 DEF Made, Starts, BeginCreate, BeginAdopt, BeginStart, BeginStop,
     BeginRemove, BeginFull, Begin, Goto
<1>5. ASSUME ~ Starts(p)
      PROVE  calm[p] /\ verb[p] = "create"
  BY <1>1, <1>3, <1>5, OwnCalm
<1>6. CASE Finish(p) \/ Crash(p) \/ Hang(p)
  BY <1>2, <1>3, <1>6 DEF Finish, Crash, Hang, Leave
<1>7. ASSUME Create(p), ~ Starts(p)
      PROVE  Made(p)'
  <2> USE DEF Made, Goto
  <2>1. CASE CheckExists(p)
    <3>1. silent \in BOOLEAN /\ blind \in BOOLEAN
      BY <1>1 DEF TypeOK
    <3>2. pc'[p] \in {"wipe", "make"} => obj' = "absent" \/ (blind' /\ silent')
      <4>1. PICK there \in Exists :
              /\ there => pc'[p] = "refused"
              /\ blind' = (blind \/ (obj # "absent" /\ ~ there))
        BY <1>2, <2>1 DEF CheckExists
      <4>2. there = (obj # "absent") \/ (silent /\ there = FALSE)
        BY <4>1 DEF Exists
      <4>3. obj' = obj /\ silent' = silent
        BY <1>1, <2>1 DEF CheckExists, object
      <4>4. QED
        BY <4>1, <4>2, <4>3
    <3>3. pc'[p] \in {"refused", "wipe", "make"}
      BY <1>2, <2>1 DEF CheckExists
    <3>4. QED
      BY <3>2, <3>3
  <2>2. CASE WipeFiles(p) \/ MaterializeDisk(p)
    BY <1>1, <1>2, <1>5, <1>7, <2>2 DEF WipeFiles, MaterializeDisk
  <2>3. CASE Make(p) \/ MakeFailed(p)
    BY <1>1, <1>2, <1>5, <1>7, <2>3 DEF Make, MakeFailed, object
  <2>4. CASE Boot(p)
    BY <1>1, <1>2, <2>4, BecomesObject DEF Boot
  <2>5. CASE Await(p) \/ Adopt(p)
    BY <1>1, <1>2, <2>5 DEF Await, Adopt
  <2>6. CASE CreateFailed(p)
    BY <1>1, <1>2, <1>5, <1>7, <2>6 DEF CreateFailed, object
  <2>7. CASE CleanUp(p)
    BY <1>1, <1>2, <1>5, <1>7, <2>7 DEF CleanUp, Staged
  <2>8. QED
    BY <1>7, <2>1, <2>2, <2>3, <2>4, <2>5, <2>6, <2>7 DEF Create
<1>8. ASSUME Power(p), ~ Starts(p)
      PROVE  Made(p)'
  BY <1>1, <1>2, <1>5, <1>8 DEF Power, ProbeState, PowerOn, Locate, PowerOff, GracefulShutdown,
     WaitOff, Staged
<1>9. ASSUME Delete(p), ~ Starts(p)
      PROVE  Made(p)'
  <2> USE DEF Made, Goto, Staged
  <2>1. verb[p] = "create" /\ calm[p]
    BY <1>5, <1>9
  <2>2. CASE LookForRunning(p)
    <3>1. ~ silent /\ obj = "running" => State = {"running"}
      BY <1>1, <2>2 DEF LookForRunning, State, LibvirtState, Normalize
    <3>2. ~ silent /\ obj = "off" => State = {"unknown"}
      BY <1>1, <2>2 DEF LookForRunning, State, LibvirtState, Normalize
    <3>3. pc'[p] \in {"kill", "destroy"} /\ obj' = obj
      BY <1>2, <2>2 DEF LookForRunning, object
    <3>4. ~ silent /\ obj = "running" => pc'[p] = "kill"
      BY <1>2, <2>2, <3>1 DEF LookForRunning
    <3>5. ~ silent /\ obj = "off" => pc'[p] = "destroy"
      BY <1>2, <2>2, <3>2 DEF LookForRunning
    <3>6. QED
      BY <1>1, <2>1, <2>2, <3>3, <3>4, <3>5 DEF LookForRunning
  <2>3. CASE VirshDestroy(p)
    <3>1. pc'[p] = "destroy"
      BY <1>2, <2>3 DEF VirshDestroy
    <3>2. ~ silent => obj = "running"
      BY <1>1, <2>1, <2>3 DEF VirshDestroy
    <3>3. ~ silent => obj' \in {"off", "absent"}
      BY <1>1, <2>3, <3>2, BecomesObject DEF VirshDestroy, Active
    <3>4. QED
      BY <1>1, <3>1, <3>3
  <2>4. CASE Undefine(p)
    <3>1. ~ silent => obj \in {"off", "absent"}
      BY <1>1, <2>1, <2>4 DEF Undefine
    <3>2. ~ silent => pc'[p] = "unlink" /\ obj' = "absent"
      BY <1>1, <1>2, <2>4, <3>1, BecomesObject DEF Undefine, Exists, Active, Same, object
    <3>3. pc'[p] \in {"unlink", "failed"}
      BY <1>2, <2>1, <2>4 DEF Undefine, NotDeleted
    <3>4. QED
      BY <1>1, <3>2, <3>3
  <2>5. CASE Unlink(p)
    BY <1>1, <1>2, <2>1, <2>5 DEF Unlink, Deleted
  <2>6. CASE Forget(p)
    BY <1>2, <2>6 DEF Forget
  <2>7. CASE be # "libvirt"
    BY <1>1, <1>2, <1>9, <2>1, <2>7 DEF Delete, ContainerDelete, LookForVM, UTMKill,
       WaitVMStopped, ProxmoxKill, Destroy, LookForRunning, VirshDestroy, Undefine, Unlink, Forget
  <2>8. CASE WaitVMStopped(p)
    BY <1>1, <1>2, <2>1, <2>7, <2>8 DEF WaitVMStopped
  <2>9. QED
    BY <1>9, <2>2, <2>3, <2>4, <2>5, <2>6, <2>7, <2>8 DEF Delete, ContainerDelete, LookForVM,
       UTMKill, ProxmoxKill, Destroy
<1>10. QED
  BY <1>4, <1>6, <1>7, <1>8, <1>9 DEF Acts, Run

\* A delete says the VM is gone when it has seen so or done it.
LEMMA OwnGone ==
    ASSUME IInv, NEW p \in Procs, Acts(p)
    PROVE  Gone(p)'
<1>1. TypeOK /\ Staged(p) /\ Gone(p) /\ (blind => blind')
  BY ActsFrame DEF IInv, Frame
<1>2. pc \in [Procs -> Stages] /\ verb \in [Procs -> Verbs] /\ blind \in BOOLEAN
  BY <1>1 DEF TypeOK
<1> SUFFICES ASSUME calm'[p], ~ blind',
                    pc'[p] = "unlink" \/ (pc'[p] \in {"forget", "removed"} /\ verb'[p] = "full")
             PROVE  obj' = "absent" \/ ~ defined'
  BY DEF Gone
<1>3. ~ blind
  BY <1>1
<1>4. Starts(p) \/ (calm[p] /\ verb'[p] = verb[p])
  BY <1>1, OwnCalm
<1> USE DEF Goto, Deleted, NotDeleted, WaitTask
<1>5. CASE Starts(p) \/ Finish(p) \/ Crash(p) \/ Hang(p)
  BY <1>2, <1>5 DEF Starts, BeginCreate, BeginAdopt, BeginStart, BeginStop, BeginRemove,
     BeginFull, Begin, Finish, Crash, Hang, Leave
<1>6. CASE Create(p)
  BY <1>2, <1>6 DEF Create, CheckExists, WipeFiles, MaterializeDisk, Make, MakeFailed,
     Boot, Await, CreateFailed, CleanUp, Adopt
<1>7. CASE Power(p)
  <2>1. verb[p] = "full" => pc'[p] \notin {"unlink", "forget", "removed"}
    BY <1>1, <1>2, <1>7 DEF Power, ProbeState, PowerOn, Locate, PowerOff, GracefulShutdown,
       WaitOff, AfterOff, Staged
  <2>2. pc'[p] # "unlink" /\ verb' = verb
    BY <1>1, <1>2, <1>7 DEF Power, ProbeState, PowerOn, Locate, PowerOff, GracefulShutdown,
       WaitOff, AfterOff, Staged
  <2>3. QED
    BY <2>1, <2>2
<1>8. CASE ContainerDelete(p) \/ Destroy(p)
  <2>1. Becomes(p, "absent") /\ obj = "off"
    BY <1>2, <1>8 DEF ContainerDelete, Destroy
  <2>2. QED
    BY <1>1, <2>1, BecomesObject
<1>9. CASE LookForVM(p)
  <2>1. PICK there \in Exists :
          /\ blind' = (blind \/ (obj # "absent" /\ ~ there))
          /\ there => pc'[p] \in {"destroy", "kill"}
    BY <1>2, <1>9 DEF LookForVM
  <2>2. obj = "absent" /\ obj' = obj
    BY <1>9, <2>1 DEF LookForVM, Exists, object
  <2>3. QED
    BY <2>2
<1>10. CASE UTMKill(p) \/ WaitVMStopped(p) \/ ProxmoxKill(p) \/ LookForRunning(p) \/ VirshDestroy(p)
  BY <1>2, <1>10 DEF UTMKill, WaitVMStopped, ProxmoxKill, LookForRunning, VirshDestroy
<1>11. CASE Undefine(p)
  <2>1. CASE FALSE \in Exists /\ Same /\ blind' = (blind \/ obj # "absent")
    BY <2>1 DEF Same, object
  <2>2. CASE obj = "off" /\ Becomes(p, "absent")
    BY <1>1, <2>2, BecomesObject
  <2>3. CASE defined' = FALSE
    BY <2>3
  <2>4. CASE NotDeleted(p)
    BY <1>2, <1>4, <1>11, <2>4 DEF Undefine
  <2>5. QED
    BY <1>11, <2>1, <2>2, <2>3, <2>4 DEF Undefine
<1>12. CASE Unlink(p) \/ Forget(p)
  <2>1. pc[p] \in {"unlink", "forget"} /\ obj' = obj /\ defined' = defined /\ verb' = verb /\ calm[p]
    BY <1>4, <1>12 DEF Unlink, Forget, object, Starts, BeginCreate, BeginAdopt, BeginStart,
       BeginStop, BeginRemove, BeginFull, Begin
  <2>2. pc[p] = "forget" => verb[p] = "full"
    BY <1>2, <1>12, <2>1 DEF Unlink, Forget
  <2>3. QED
    BY <1>1, <1>3, <2>1, <2>2 DEF Gone
<1>13. QED
  BY <1>5, <1>6, <1>7, <1>8, <1>9, <1>10, <1>11, <1>12 DEF Acts, Run, Delete

\* "stopped" and "absent" are only ever said of a VM that is.
LEMMA OffIsOff ==
    ASSUME TypeOK, be # "generic"
    PROVE  /\ \A st \in State : st \in {"stopped", "absent"} => obj \in {"absent", "off"}
           /\ TRUE \in Off => obj \in {"absent", "off"}
<1>1. \A st \in State : st \in {"stopped", "absent"} => obj \in {"absent", "off"}
  BY DEF TypeOK, State, ContainerState, UTMStatus, LibvirtState, ProxmoxState, ParallelsState,
     Normalize, Active
<1>2. QED
  BY <1>1 DEF Off

LEMMA OwnStopped ==
    ASSUME IInv, NEW p \in Procs, Acts(p)
    PROVE  Stopped(p)'
<1>1. TypeOK /\ Staged(p) /\ be' = be
  BY ActsFrame DEF IInv, Frame
<1>2. pc \in [Procs -> Stages] /\ verb \in [Procs -> Verbs]
  BY <1>1 DEF TypeOK
<1> SUFFICES ASSUME pc'[p] = "done", verb'[p] = "stop", be # "generic"
             PROVE  obj' \in {"absent", "off"}
  BY <1>1 DEF Stopped
<1> USE DEF Goto
<1>3. CASE Starts(p) \/ Finish(p) \/ Crash(p) \/ Hang(p)
  BY <1>2, <1>3 DEF Starts, BeginCreate, BeginAdopt, BeginStart, BeginStop, BeginRemove,
     BeginFull, Begin, Finish, Crash, Hang, Leave
<1>4. CASE Create(p)
  BY <1>1, <1>2, <1>4 DEF Staged, Create, CheckExists, WipeFiles, MaterializeDisk, Make,
     MakeFailed, Boot, Await, CreateFailed, CleanUp, Adopt
<1>5. CASE Power(p)
  <2>1. CASE PowerOff(p)
    <3>1. PICK st \in State : st \notin {"stopped", "absent"} => pc'[p] = "shutdown"
      BY <1>2, <2>1 DEF PowerOff
    <3>2. QED
      BY <1>1, <2>1, <3>1, OffIsOff DEF PowerOff, object
  <2>2. CASE WaitOff(p)
    <3>1. TRUE \in Off
      BY <1>1, <1>2, <2>2 DEF WaitOff, AfterOff
    <3>2. QED
      BY <1>1, <2>2, <3>1, OffIsOff DEF WaitOff, object
  <2>3. CASE ProbeState(p) \/ PowerOn(p) \/ Locate(p) \/ GracefulShutdown(p)
    BY <1>1, <1>2, <2>3 DEF Staged, ProbeState, PowerOn, Locate, GracefulShutdown
  <2>4. QED
    BY <1>5, <2>1, <2>2, <2>3 DEF Power
<1>6. CASE Delete(p)
  BY <1>1, <1>2, <1>6 DEF Staged, Delete, ContainerDelete, LookForVM, UTMKill, WaitVMStopped,
     ProxmoxKill, Destroy, LookForRunning, VirshDestroy, Undefine, Unlink, Forget, Deleted,
     NotDeleted, WaitTask
<1>7. QED
  BY <1>3, <1>4, <1>5, <1>6 DEF Acts, Run

-----------------------------------------------------------------------------
(* The files, and the invariant.                                           *)

\* The steps of a run, by what they do to the object and its files.
LEMMA ObjectSteps ==
    ASSUME TypeOK, NEW p \in Procs, Acts(p)
    PROVE  \/ UNCHANGED object
           \/ /\ obj # "absent" /\ UNCHANGED disk
              /\ \E o \in {"off", "absent", "running", "stopping"} : Becomes(p, o)
           \/ WipeFiles(p) \/ MaterializeDisk(p) \/ Make(p) \/ Await(p) \/ CleanUp(p) \/ Unlink(p)
           \/ obj # "absent" /\ defined' = FALSE /\ UNCHANGED <<env, obj, maker, disk>>
<1>1. CASE Starts(p) \/ Finish(p) \/ Crash(p) \/ Hang(p)
  BY <1>1 DEF Starts, BeginCreate, BeginAdopt, BeginStart, BeginStop, BeginRemove, BeginFull,
     Begin, Finish, Crash, Hang, Leave
<1>2. CASE Create(p)
  BY <1>2, BecomesObject DEF Create, CheckExists, MakeFailed, Boot, CreateFailed, Adopt
<1>3. CASE Power(p)
  BY <1>3, VerbObject, BecomesObject DEF Power, ProbeState, PowerOn, Locate, PowerOff,
     GracefulShutdown, WaitOff, Same
<1>4. CASE Delete(p)
  BY <1>4, DeleteObject, BecomesObject DEF Same, Active
<1>5. QED
  BY <1>1, <1>2, <1>3, <1>4 DEF Acts, Run

\* Who puts the files down has its own under the name, or two were at it.
LEMMA FiledStep ==
    ASSUME IInv, NEW p \in Procs, Acts(p), NEW q \in Procs
    PROVE  Filed(q)'
<1>1. TypeOK /\ Staged(p) /\ Filed(q) /\ be' = be /\ (blind => blind')
  BY ActsFrame DEF IInv, Frame
<1>2. pc \in [Procs -> Stages]
  BY <1>1 DEF TypeOK
<1> SUFFICES ASSUME be = "libvirt", pc'[q] = "make", ~ blind'
             PROVE  disk' = q
  BY <1>1 DEF Filed
<1>3. CASE q = p
  <2> USE DEF Goto
  <2>1. CASE Starts(p) \/ Finish(p) \/ Crash(p) \/ Hang(p)
    BY <1>2, <1>3, <2>1 DEF Starts, BeginCreate, BeginAdopt, BeginStart, BeginStop, BeginRemove,
       BeginFull, Begin, Finish, Crash, Hang, Leave
  <2>2. CASE Create(p)
    BY <1>2, <1>3, <2>2 DEF Create, CheckExists, WipeFiles, MaterializeDisk, Make, MakeFailed,
       Boot, Await, CreateFailed, CleanUp, Adopt
  <2>3. CASE Power(p)
    BY <1>2, <1>3, <2>3 DEF Power, ProbeState, PowerOn, Locate, PowerOff, GracefulShutdown,
       WaitOff, AfterOff
  <2>4. CASE Delete(p)
    BY <1>2, <1>3, <2>4 DEF Delete, ContainerDelete, LookForVM, UTMKill, WaitVMStopped,
       ProxmoxKill, Destroy, LookForRunning, VirshDestroy, Undefine, Unlink, Forget, Deleted,
       NotDeleted, WaitTask
  <2>5. QED
    BY <2>1, <2>2, <2>3, <2>4 DEF Acts, Run
<1>4. CASE q # p
  <2>1. pc[q] = "make" /\ disk = q
    BY <1>1, <1>4, ActsFrame DEF Frame, Filed
  <2>2. Crossed(p)
    BY <1>4, <2>1 DEF Crossed
  <2>3. ~ WipeFiles(p) /\ ~ Unlink(p) /\ ~ CleanUp(p)
    BY <1>1, <2>2 DEF WipeFiles, Unlink, CleanUp, Staged
  <2>4. MaterializeDisk(p) \/ Await(p) \/ Make(p) => disk' = disk
    BY <2>2 DEF MaterializeDisk, Await, Make
  <2>5. QED
    BY <1>1, <2>1, <2>3, <2>4, ObjectSteps DEF object
<1>5. QED
  BY <1>3, <1>4

LEMMA MakerStep ==
    ASSUME IInv, NEW p \in Procs, Acts(p)
    PROVE  MakerInv'
<1>1. TypeOK /\ MakerInv
  BY DEF IInv
<1>2. CASE UNCHANGED object \/ Unlink(p) \/ WipeFiles(p) \/ MaterializeDisk(p) \/ Await(p)
  BY <1>1, <1>2 DEF MakerInv, object, Unlink, WipeFiles, MaterializeDisk, Await
<1>3. CASE Make(p) \/ CleanUp(p)
  BY <1>1, <1>3 DEF MakerInv, Make, CleanUp
<1>4. CASE obj # "absent" /\ \E o \in {"off", "absent", "running", "stopping"} : Becomes(p, o)
  BY <1>1, <1>4, BecomesObject DEF MakerInv
<1>5. CASE obj # "absent" /\ UNCHANGED <<env, obj, maker, disk>>
  BY <1>5 DEF MakerInv
<1>6. QED
  BY <1>1, <1>2, <1>3, <1>4, <1>5, ObjectSteps

\* Who wipes, fills or unlinks the files knows of no VM that has them.
LEMMA DiskStep ==
    ASSUME IInv, NEW p \in Procs, Acts(p)
    PROVE  DiskIsItsOwn'
<1>1. /\ TypeOK /\ DiskIsItsOwn /\ Staged(p) /\ Made(p) /\ Gone(p) /\ Filed(p)
      /\ be' = be /\ (blind => blind')
  BY ActsFrame DEF IInv, Frame
<1> SUFFICES ASSUME be = "libvirt", obj' # "absent", maker' # None, defined', ~ blind'
             PROVE  disk' = maker'
  BY <1>1 DEF DiskIsItsOwn
<1>2. ~ blind
  BY <1>1
<1>3. CASE UNCHANGED object
  BY <1>1, <1>2, <1>3 DEF DiskIsItsOwn, object
<1>4. CASE /\ obj # "absent" /\ UNCHANGED disk
           /\ \E o \in {"off", "absent", "running", "stopping"} : Becomes(p, o)
  <2>1. defined /\ maker' = maker
    BY <1>1, <1>4, BecomesObject
  <2>2. QED
    BY <1>1, <1>2, <1>4, <2>1 DEF DiskIsItsOwn
<1>5. CASE Make(p)
  BY <1>1, <1>2, <1>5 DEF Make, Filed
<1>6. CASE Await(p) \/ CleanUp(p)
  BY <1>1, <1>2, <1>6 DEF Await, CleanUp, Staged, DiskIsItsOwn
<1>7. CASE WipeFiles(p) \/ MaterializeDisk(p)
  <2>1. UNCHANGED <<obj, defined, maker>> /\ pc[p] \in {"wipe", "files"}
    BY <1>7 DEF WipeFiles, MaterializeDisk
  <2>2. CASE disk' = disk
    BY <1>1, <1>2, <2>1, <2>2 DEF DiskIsItsOwn
  <2>3. CASE ~ Crossed(p)
    <3>1. calm[p]
      BY <2>1, <2>3 DEF Crossed
    <3>2. obj = "absent"
      BY <1>1, <1>2, <2>1, <3>1 DEF Made, Staged
    <3>3. QED
      BY <2>1, <3>2
  <2>4. QED
    BY <1>7, <2>2, <2>3 DEF WipeFiles, MaterializeDisk
<1>8. CASE Unlink(p)
  <2>1. UNCHANGED <<obj, defined, maker>> /\ pc[p] = "unlink" /\ ~ Crossed(p)
    BY <1>8 DEF Unlink
  <2>2. calm[p]
    BY <2>1 DEF Crossed
  <2>3. QED
    BY <1>1, <1>2, <2>1, <2>2 DEF Gone
<1>9. QED
  BY <1>1, <1>3, <1>4, <1>5, <1>6, <1>7, <1>8, ObjectSteps

LEMMA StepInv ==
    ASSUME IInv, [Next]_vars
    PROVE  IInv'
<1>1. TypeOK'
  BY StepType DEF IInv
<1>2. ASSUME NEW p \in Procs, Acts(p)
      PROVE  IInv'
  <2>1. MakerInv' /\ DiskIsItsOwn'
    BY <1>2, MakerStep, DiskStep
  <2>2. ASSUME NEW q \in Procs
        PROVE  Staged(q)' /\ Made(q)' /\ Gone(q)' /\ Stopped(q)' /\ Filed(q)'
    <3>1. Filed(q)'
      BY <1>2, FiledStep
    <3>2. CASE q = p
      BY <1>2, <3>1, <3>2, OwnStaged, OwnMade, OwnGone, OwnStopped
    <3>3. CASE q # p
      BY <1>2, <3>1, <3>3, OthersKeep
    <3>4. QED
      BY <3>2, <3>3
  <2>3. QED
    BY <1>1, <2>1, <2>2 DEF IInv
<1>3. CASE GuestOff
  <2>1. MakerInv' /\ DiskIsItsOwn'
    BY <1>3, GuestObject DEF IInv, MakerInv, DiskIsItsOwn
  <2>2. ASSUME NEW q \in Procs
        PROVE  Staged(q)' /\ Made(q)' /\ Gone(q)' /\ Stopped(q)' /\ Filed(q)'
    <3>1. TypeOK /\ Staged(q) /\ Made(q) /\ Gone(q) /\ Stopped(q) /\ Filed(q)
      BY DEF IInv
    <3>2. /\ UNCHANGED <<disk, pc, verb, calm, blind>> /\ be' = be /\ silent' = silent
          /\ obj = "stopping" /\ (~ defined => obj' = "absent")
      BY <1>3, <3>1, GuestObject
    <3>3. Staged(q)' /\ Filed(q)'
      BY <3>1, <3>2 DEF Staged, Filed
    <3>4. Made(q)'
      BY <3>1, <3>2 DEF Made
    <3>5. Gone(q)' /\ Stopped(q)'
      BY <3>1, <3>2 DEF Gone, Stopped
    <3>6. QED
      BY <3>3, <3>4, <3>5
  <2>3. QED
    BY <1>1, <2>1, <2>2 DEF IInv
<1>4. CASE User
  <2>1. /\ UNCHANGED <<disk, pc, verb, blind>> /\ be' = be
        /\ \A q \in Procs : ~ calm'[q]
        /\ MakerInv' /\ DiskIsItsOwn'
    BY <1>4, UserObject DEF IInv, MakerInv, DiskIsItsOwn
  <2>2. \A q \in Procs : Staged(q)' /\ Filed(q)'
    BY <2>1 DEF IInv, Staged, Filed
  <2>3. \A q \in Procs : Made(q)' /\ Gone(q)' /\ Stopped(q)'
    BY <2>1 DEF Made, Gone, Stopped
  <2>4. QED
    BY <1>1, <2>1, <2>2, <2>3 DEF IInv
<1>5. CASE UNCHANGED vars
  <2>1. MakerInv' /\ DiskIsItsOwn'
    BY <1>5 DEF IInv, MakerInv, DiskIsItsOwn, vars, object, env
  <2>2. \A q \in Procs : Staged(q)' /\ Made(q)' /\ Gone(q)' /\ Stopped(q)' /\ Filed(q)'
    BY <1>5 DEF IInv, Staged, Made, Gone, Stopped, Filed, vars, object, env
  <2>3. QED
    BY <1>1, <2>1, <2>2 DEF IInv
<1>6. QED
  BY <1>2, <1>3, <1>4, <1>5, NextCases

-----------------------------------------------------------------------------
(* The theorems.                                                           *)

\* IInv holds of every state the processes, the guest and the user bring the
\* VM to.
THEOREM Inductive == Spec => []IInv
<1>1. Init => IInv
  BY InitInv
<1>2. IInv /\ [Next]_vars => IInv'
  BY StepInv
<1>3. QED
  BY <1>1, <1>2, PTL DEF Spec

\* The object, the record and the runs are always what they are declared to be.
THEOREM TypeCorrect == Spec => []TypeOK
<1>1. IInv => TypeOK
  BY DEF IInv
<1>2. QED
  BY <1>1, Inductive, PTL

\* A libvirt VM that a create made is defined on that create's disk, however
\* many creates, clean-ups and deletes go on, where no question about it went
\* unanswered and no run wiped, filled or removed the files after another create
\* had them in hand.
THEOREM OwnDisk == Spec => []DiskIsItsOwn
<1>1. IInv => DiskIsItsOwn
  BY DEF IInv
<1>2. QED
  BY <1>1, Inductive, PTL

\* remove --full, undisturbed and answered, has left no VM when it reports so.
THEOREM FullIsGone == Spec => []FullDeletes
<1>1. IInv => FullDeletes
  BY DEF IInv, Gone, FullDeletes
<1>2. QED
  BY <1>1, Inductive, PTL

\* A stop that ends without a warning has left the VM off or gone.
THEOREM StopIsOff == Spec => []StopMeansOff
<1>1. IInv => StopMeansOff
  BY DEF IInv, Stopped, StopMeansOff, Active
<1>2. QED
  BY <1>1, Inductive, PTL

\* A failed create of libvirt's or UTM's takes the object it made with it.
THEOREM NothingHalfBuilt == Spec => []FailedCreateLeavesNone
<1>1. IInv => FailedCreateLeavesNone
  <2> SUFFICES ASSUME IInv, NEW p \in Procs, pc[p] = "failed", verb[p] = "create", calm[p],
                      ~ silent, be = "libvirt" \/ (be = "utm" /\ obj = "off")
               PROVE  maker # p
    BY DEF FailedCreateLeavesNone
  <2>1. obj = "absent"
    BY DEF IInv, Made
  <2>2. QED
    BY <2>1 DEF IInv, MakerInv
<1>2. QED
  BY <1>1, Inductive, PTL
=============================================================================
