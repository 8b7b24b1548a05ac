--------------------------- MODULE LanServersProofs ---------------------------
(***************************************************************************)
(* What the commands about LAN servers keep, proved for any processes,     *)
(* names and addresses.  The invariant IInv follows an undisturbed run     *)
(* from the records it read, over the hosts file it wrote and the copy on  *)
(* the VM, to what the VM serves; a run that changes any of them disturbs  *)
(* the others.                                                             *)
(***************************************************************************)
EXTENDS LanServers, TLAPS

USE LanAssumption

\* What is rendered is a whole hosts file, and depends on the records alone.
LEMMA RenderedWhole ==
    ASSUME TypeOK
    PROVE  Rendered \in Renderings /\ Rendered # Torn /\ Rendered # Absent
<1>1. Rendered \in Renderings
  BY DEF Rendered, Renderings, Loads
<1>2. QED
  BY <1>1

LEMMA RenderedSame ==
    ASSUME env' = env
    PROVE  Rendered' = Rendered
BY DEF Rendered, Loads

LEMMA InitInv == Init => IInv
<1> SUFFICES ASSUME Init PROVE IInv
  OBVIOUS
<1>1. TypeOK
  BY DEF Init, TypeOK, Stages, Verbs
<1>2. LocalInv /\ CalmInv /\ ServedInv /\ RenderInv /\ KeysAccountedFor
  BY DEF Init, LocalInv, CalmInv, ServedInv, RenderInv, KeysAccountedFor
<1>3. QED
  BY <1>1, <1>2 DEF IInv

-----------------------------------------------------------------------------
LEMMA DisturbsCalm ==
    ASSUME NEW p \in Procs, Disturbs(p)
    PROVE  /\ calm' \in [Procs -> BOOLEAN]
           /\ \A q \in Procs : calm'[q] => q = p /\ calm[q]
BY DEF Disturbs

LEMMA StepType ==
    ASSUME IInv, [Next]_vars
    PROVE  TypeOK'
<1> USE DEF IInv, TypeOK, Stages, Verbs, Pushes, records, files, onVM, local
<1>1. CASE UNCHANGED vars
  BY <1>1 DEF vars
<1>2. ASSUME NEW p \in Procs, BeginAdd(p) \/ BeginDelete(p) \/ BeginCert(p) \/ BeginPush(p)
      PROVE  TypeOK'
  BY <1>2 DEF BeginAdd, BeginDelete, BeginCert, BeginPush, Begin, Step, Goto
<1>3. ASSUME NEW p \in Procs, Stop(p)
      PROVE  TypeOK'
  BY <1>3 DEF Stop, End, Goto, KeepsCalm, LocalInv
<1>4. ASSUME NEW p \in Procs, Save(p) \/ RemoveAll(p)
      PROVE  TypeOK'
  <2>1. CASE Save(p)
    <3>1. env' \in [Names -> Addrs \cup {Absent, Torn}]
      BY <2>1 DEF Save
    <3>2. pc' \in [Procs -> Stages] /\ name' \in [Procs -> Names \cup {Absent}]
      BY <2>1 DEF Save, Changed, Step, Goto
    <3>3. QED
      BY <2>1, <3>1, <3>2, DisturbsCalm DEF Save, Changed
  <2>2. CASE RemoveAll(p)
    <3>1. env' \in [Names -> Addrs \cup {Absent, Torn}] /\ key' \in [Names -> BOOLEAN]
      BY <2>2 DEF RemoveAll
    <3>2. pc' \in [Procs -> Stages] /\ name' \in [Procs -> Names \cup {Absent}]
      BY <2>2 DEF RemoveAll, Changed, Step, Goto
    <3>3. calm' \in [Procs -> BOOLEAN] /\ orphaned' \subseteq Names
      BY <2>2, DisturbsCalm DEF RemoveAll, Changed
    <3>4. QED
      BY <2>2, <3>1, <3>2, <3>3 DEF RemoveAll, Changed
  <2>3. QED
    BY <1>4, <2>1, <2>2
<1>5. ASSUME NEW p \in Procs, SaveCut(p) \/ RemoveFirst(p)
      PROVE  TypeOK'
  BY <1>5 DEF SaveCut, RemoveFirst, End, Step, Goto, Disturbs
<1>6. ASSUME NEW p \in Procs, IssueLeaf(p)
      PROVE  TypeOK'
  BY <1>6 DEF IssueLeaf, End, Goto, KeepsCalm, LocalInv
<1>7. ASSUME NEW p \in Procs, OpenHosts(p)
      PROVE  TypeOK'
  BY <1>7, RenderedWhole DEF OpenHosts, Step, Goto
<1>8. ASSUME NEW p \in Procs, FillHosts(p)
      PROVE  TypeOK'
  BY <1>8 DEF FillHosts, AfterRender, End, Goto, Disturbs, LocalInv
<1>9. ASSUME NEW p \in Procs, Compare(p)
      PROVE  TypeOK'
  BY <1>9 DEF Compare, PushFailed, End, Goto, KeepsCalm
<1>10. ASSUME NEW p \in Procs, Install(p) \/ InstallFailed(p)
       PROVE  TypeOK'
  <2>1. CASE Install(p)
    BY <2>1, DisturbsCalm DEF Install, Step, Goto
  <2>2. CASE InstallFailed(p)
    BY <2>2, DisturbsCalm DEF InstallFailed, PushFailed, End, Goto
  <2>3. QED
    BY <1>10, <2>1, <2>2
<1>11. ASSUME NEW p \in Procs, VMSetup(p) \/ VMSetupFailed(p)
       PROVE  TypeOK'
  <2>1. CASE VMSetup(p)
    BY <2>1 DEF VMSetup, Step, Goto
  <2>2. CASE VMSetupFailed(p)
    BY <2>2 DEF VMSetupFailed, End, Goto, KeepsCalm
  <2>3. QED
    BY <1>11, <2>1, <2>2
<1>12. CASE EditRecord
  BY <1>12 DEF EditRecord, Exists
<1>13. QED
  BY <1>1, <1>2, <1>3, <1>4, <1>5, <1>6, <1>7, <1>8, <1>9, <1>10, <1>11, <1>12 DEF Next

LEMMA StepLocal ==
    ASSUME IInv, [Next]_vars
    PROVE  LocalInv'
<1> USE DEF IInv, TypeOK, LocalInv, records, files, onVM, local
<1>1. CASE UNCHANGED vars
  BY <1>1 DEF vars
<1>2. ASSUME NEW p \in Procs, BeginAdd(p) \/ BeginDelete(p) \/ BeginCert(p) \/ BeginPush(p)
      PROVE  LocalInv'
  BY <1>2 DEF BeginAdd, BeginDelete, BeginCert, BeginPush, Begin, Step, Goto
<1>3. ASSUME NEW p \in Procs, Stop(p) \/ SaveCut(p) \/ IssueLeaf(p) \/ VMSetupFailed(p)
      PROVE  LocalInv'
  BY <1>3 DEF Stop, SaveCut, IssueLeaf, VMSetupFailed, End, Goto
<1>4. ASSUME NEW p \in Procs, Save(p) \/ RemoveAll(p) \/ RemoveFirst(p)
      PROVE  LocalInv'
  BY <1>4 DEF Save, RemoveAll, RemoveFirst, Changed, Step, Goto
<1>5. ASSUME NEW p \in Procs, OpenHosts(p)
      PROVE  LocalInv'
  BY <1>5, RenderedWhole DEF OpenHosts, Step, Goto
<1>6. ASSUME NEW p \in Procs, FillHosts(p)
      PROVE  LocalInv'
  BY <1>6 DEF FillHosts, AfterRender, End, Goto
<1>7. ASSUME NEW p \in Procs, Compare(p) \/ Install(p) \/ InstallFailed(p) \/ VMSetup(p)
      PROVE  LocalInv'
  BY <1>7 DEF Compare, Install, InstallFailed, VMSetup, PushFailed, End, Step, Goto
<1>8. CASE EditRecord
  BY <1>8 DEF EditRecord, Exists
<1>9. QED
  BY <1>1, <1>2, <1>3, <1>4, <1>5, <1>6, <1>7, <1>8 DEF Next

-----------------------------------------------------------------------------
LEMMA StepCalm ==
    ASSUME IInv, [Next]_vars
    PROVE  CalmInv'
<1> USE DEF IInv, TypeOK, CalmInv, records, files, onVM, local
<1>1. CASE UNCHANGED vars
  BY <1>1, RenderedSame DEF vars
<1>2. ASSUME NEW p \in Procs, BeginAdd(p) \/ BeginDelete(p) \/ BeginCert(p) \/ BeginPush(p)
      PROVE  CalmInv'
  BY <1>2, RenderedSame DEF BeginAdd, BeginDelete, BeginCert, BeginPush, Begin, Step, Goto
<1>3. ASSUME NEW p \in Procs, Stop(p) \/ IssueLeaf(p) \/ VMSetupFailed(p)
      PROVE  CalmInv'
  BY <1>3, RenderedSame DEF Stop, IssueLeaf, VMSetupFailed, End, Goto, KeepsCalm
\* A change of the records leaves nobody else calm, and its own run to render.
<1>4. ASSUME NEW p \in Procs, Save(p) \/ RemoveAll(p) \/ RemoveFirst(p) \/ SaveCut(p)
      PROVE  CalmInv'
  <2>1. \A q \in Procs : calm'[q] => q = p /\ calm[q]
    BY <1>4, DisturbsCalm DEF Save, RemoveAll, RemoveFirst, SaveCut, Changed
  <2>2. pc'[p] \in {"load", "purge", "idle"}
    BY <1>4 DEF Save, RemoveAll, RemoveFirst, SaveCut, Changed, End, Step, Goto
  <2>3. QED
    BY <2>1, <2>2
<1>5. ASSUME NEW p \in Procs, OpenHosts(p)
      PROVE  CalmInv'
  BY <1>5, RenderedSame DEF OpenHosts, Step, Goto
<1>6. ASSUME NEW p \in Procs, FillHosts(p)
      PROVE  CalmInv'
  <2>1. pc[p] = "fill" /\ env' = env
    BY <1>6 DEF FillHosts
  <2>2. \A q \in Procs : calm'[q] => q = p /\ calm[q]
    BY <1>6, DisturbsCalm DEF FillHosts
  <2>3. calm[p] => hosts' = Rendered'
    BY <1>6, <2>1, RenderedSame DEF FillHosts
  <2>4. pc'[p] \in {"idle", "load", "compare"}
    BY <1>6 DEF FillHosts, AfterRender, End, Goto
  <2>5. QED
    BY <2>2, <2>3, <2>4
<1>7. ASSUME NEW p \in Procs, Compare(p)
      PROVE  CalmInv'
  BY <1>7, RenderedSame, RenderedWhole DEF Compare, PushFailed, End, Goto, KeepsCalm
<1>8. ASSUME NEW p \in Procs, Install(p) \/ InstallFailed(p)
      PROVE  CalmInv'
  <2>1. /\ pc[p] = "install" /\ UNCHANGED <<env, hosts>>
        /\ \A q \in Procs : calm'[q] => q = p /\ calm[q]
    BY <1>8, DisturbsCalm DEF Install, InstallFailed, Step
  <2>2. CASE Install(p)
    <3>1. pc'[p] = "setup" /\ vmHosts' = hosts
      BY <2>2 DEF Install, Step, Goto
    <3>2. QED
      BY <2>1, <3>1, RenderedSame
  <2>3. CASE InstallFailed(p)
    <3>1. pc'[p] = "idle" \/ (pc'[p] = "setup" /\ verb'[p] = "upgrade")
      BY <2>3 DEF InstallFailed, PushFailed, End, Goto
    <3>2. ASSUME NEW q \in Procs, calm'[q]
          PROVE  /\ pc'[q] \notin {"fill", "compare", "install"}
                 /\ pc'[q] \in {"setup", "done"} => verb'[q] = "upgrade"
      <4>1. q = p
        BY <2>1, <3>2
      <4>2. QED
        BY <3>1, <4>1
    <3>3. QED
      BY <3>2
  <2>4. QED
    BY <1>8, <2>2, <2>3
<1>9. ASSUME NEW p \in Procs, VMSetup(p)
      PROVE  CalmInv'
  BY <1>9, RenderedSame DEF VMSetup, Step, Goto
<1>10. CASE EditRecord
  BY <1>10 DEF EditRecord, Exists
<1>11. QED
  BY <1>1, <1>2, <1>3, <1>4, <1>5, <1>6, <1>7, <1>8, <1>9, <1>10 DEF Next

LEMMA StepServed ==
    ASSUME IInv, [Next]_vars
    PROVE  ServedInv'
<1> USE DEF IInv, TypeOK, ServedInv, records, files, onVM, local
<1>1. CASE UNCHANGED vars
  BY <1>1 DEF vars
\* Steps that leave the VM alone, from and to a stage before vm-setup.
<1>2. ASSUME NEW p \in Procs, onVM' = onVM,
             \A q \in Procs : pc[q] = "setup" => pc'[q] = "setup"
      PROVE  ServedInv'
  BY <1>2
<1>3. ASSUME NEW p \in Procs, BeginAdd(p) \/ BeginDelete(p) \/ BeginCert(p) \/ BeginPush(p)
      PROVE  ServedInv'
  BY <1>3, <1>2 DEF BeginAdd, BeginDelete, BeginCert, BeginPush, Begin, Step, Goto
<1>4. ASSUME NEW p \in Procs, Stop(p)
      PROVE  ServedInv'
  BY <1>4 DEF Stop, End, Goto
<1>5. ASSUME NEW p \in Procs, Save(p) \/ RemoveAll(p) \/ RemoveFirst(p) \/ SaveCut(p) \/ IssueLeaf(p)
      PROVE  ServedInv'
  BY <1>5, <1>2 DEF Save, RemoveAll, RemoveFirst, SaveCut, IssueLeaf, Changed, End, Step, Goto
<1>6. ASSUME NEW p \in Procs, OpenHosts(p) \/ FillHosts(p) \/ Compare(p)
      PROVE  ServedInv'
  BY <1>6, <1>2 DEF OpenHosts, FillHosts, Compare, AfterRender, PushFailed, End, Step, Goto
<1>7. ASSUME NEW p \in Procs, Install(p)
      PROVE  ServedInv'
  BY <1>7 DEF Install, Step, Goto
<1>8. ASSUME NEW p \in Procs, InstallFailed(p)
      PROVE  ServedInv'
  BY <1>8 DEF InstallFailed, PushFailed, End, Goto
<1>9. ASSUME NEW p \in Procs, VMSetup(p) \/ VMSetupFailed(p)
      PROVE  ServedInv'
  BY <1>9 DEF VMSetup, VMSetupFailed, End, Step, Goto
<1>10. CASE EditRecord
  BY <1>10 DEF EditRecord, Exists
<1>11. QED
  BY <1>1, <1>3, <1>4, <1>5, <1>6, <1>7, <1>8, <1>9, <1>10 DEF Next

LEMMA StepRender ==
    ASSUME IInv, [Next]_vars
    PROVE  RenderInv'
<1> USE DEF IInv, TypeOK, RenderInv, records, files, onVM, local
<1>1. CASE UNCHANGED vars
  BY <1>1, RenderedSame DEF vars
\* Steps that leave records and file alone, and give up nothing to render.
<1>2. ASSUME env' = env, files' = files,
             \A q \in Procs : \/ pc[q] \in {"purge", "fill"}
                              \/ pc[q] = "load" /\ verb[q] \in {"add", "delete"}
                              => pc'[q] = pc[q] /\ verb'[q] = verb[q]
      PROVE  RenderInv'
  BY <1>2, RenderedSame
<1>3. ASSUME NEW p \in Procs, BeginAdd(p) \/ BeginDelete(p) \/ BeginCert(p) \/ BeginPush(p)
      PROVE  RenderInv'
  BY <1>3, <1>2 DEF BeginAdd, BeginDelete, BeginCert, BeginPush, Begin, Step, Goto
<1>4. ASSUME NEW p \in Procs, Stop(p)
      PROVE  RenderInv'
  BY <1>4, RenderedSame DEF Stop, End, Goto
<1>5. ASSUME NEW p \in Procs, SaveCut(p)
      PROVE  RenderInv'
  BY <1>5 DEF SaveCut
<1>6. ASSUME NEW p \in Procs, RemoveFirst(p)
      PROVE  RenderInv'
  BY <1>6 DEF RemoveFirst, Step, Goto
<1>7. ASSUME NEW p \in Procs, Save(p) \/ RemoveAll(p)
      PROVE  RenderInv'
  <2>1. pc'[p] = "load"
    BY <1>7 DEF Save, RemoveAll, Changed, Step, Goto
  <2>2. verb'[p] \in {"add", "delete"}
    BY <1>7 DEF Save, RemoveAll, Changed, Step, Goto, LocalInv
  <2>3. QED
    BY <2>1, <2>2
<1>8. ASSUME NEW p \in Procs, OpenHosts(p)
      PROVE  RenderInv'
  BY <1>8 DEF OpenHosts, Step, Goto
<1>9. ASSUME NEW p \in Procs, FillHosts(p)
      PROVE  RenderInv'
  BY <1>9, RenderedSame, RenderedWhole DEF FillHosts, CalmInv
<1>10. ASSUME NEW p \in Procs, IssueLeaf(p) \/ Compare(p)
       PROVE  RenderInv'
  BY <1>10, <1>2 DEF IssueLeaf, Compare, PushFailed, End, Step, Goto
<1>11. ASSUME NEW p \in Procs, Install(p) \/ InstallFailed(p) \/ VMSetup(p) \/ VMSetupFailed(p)
       PROVE  RenderInv'
  BY <1>11, <1>2 DEF Install, InstallFailed, VMSetup, VMSetupFailed, PushFailed, End, Step, Goto
<1>12. CASE EditRecord
  BY <1>12 DEF EditRecord, Exists
<1>13. QED
  BY <1>1, <1>3, <1>4, <1>5, <1>6, <1>7, <1>8, <1>9, <1>10, <1>11, <1>12 DEF Next

-----------------------------------------------------------------------------
LEMMA StepKeys ==
    ASSUME IInv, [Next]_vars
    PROVE  KeysAccountedFor'
<1> USE DEF IInv, TypeOK, LocalInv, KeysAccountedFor, Exists, records, files, onVM, local
<1>1. CASE UNCHANGED vars
  BY <1>1 DEF vars
\* Steps that leave the directories alone, and finish no delete.
<1>2. ASSUME env' = env, key' = key, orphaned' = orphaned,
             \A q \in Procs : pc[q] = "purge" => pc'[q] = "purge" /\ name'[q] = name[q]
      PROVE  KeysAccountedFor'
  BY <1>2
<1>3. ASSUME NEW p \in Procs, BeginAdd(p) \/ BeginDelete(p) \/ BeginCert(p) \/ BeginPush(p)
      PROVE  KeysAccountedFor'
  BY <1>3, <1>2 DEF BeginAdd, BeginDelete, BeginCert, BeginPush, Begin, Step, Goto
<1>4. ASSUME NEW p \in Procs, Stop(p)
      PROVE  KeysAccountedFor'
  BY <1>4 DEF Stop, End, Goto
<1>5. ASSUME NEW p \in Procs, Save(p) \/ SaveCut(p)
      PROVE  KeysAccountedFor'
  BY <1>5 DEF Save, SaveCut, Changed, End, Step, Goto
<1>6. ASSUME NEW p \in Procs, RemoveFirst(p)
      PROVE  KeysAccountedFor'
  BY <1>6 DEF RemoveFirst, Step, Goto
<1>7. ASSUME NEW p \in Procs, RemoveAll(p)
      PROVE  KeysAccountedFor'
  BY <1>7 DEF RemoveAll, Changed, Step, Goto
<1>8. ASSUME NEW p \in Procs, IssueLeaf(p)
      PROVE  KeysAccountedFor'
  BY <1>8 DEF IssueLeaf, End, Goto
<1>9. ASSUME NEW p \in Procs, OpenHosts(p) \/ FillHosts(p) \/ Compare(p)
      PROVE  KeysAccountedFor'
  BY <1>9, <1>2 DEF OpenHosts, FillHosts, Compare, AfterRender, PushFailed, End, Step, Goto
<1>10. ASSUME NEW p \in Procs, Install(p) \/ InstallFailed(p) \/ VMSetup(p) \/ VMSetupFailed(p)
       PROVE  KeysAccountedFor'
  BY <1>10, <1>2 DEF Install, InstallFailed, VMSetup, VMSetupFailed, PushFailed, End, Step, Goto
<1>11. CASE EditRecord
  BY <1>11 DEF EditRecord, Exists
<1>12. QED
  BY <1>1, <1>3, <1>4, <1>5, <1>6, <1>7, <1>8, <1>9, <1>10, <1>11 DEF Next

-----------------------------------------------------------------------------
\* The invariant holds in every state any number of runs can reach.
THEOREM Inductive == Spec => []IInv
<1>1. IInv /\ [Next]_vars => IInv'
  BY StepType, StepLocal, StepCalm, StepServed, StepRender, StepKeys DEF IInv
<1>2. QED
  BY InitInv, <1>1, PTL DEF Spec

\* Records, hosts files and processes are well typed.
THEOREM TypeCorrect == Spec => []TypeOK
<1>1. IInv => TypeOK
  BY DEF IInv
<1>2. QED
  BY <1>1, Inductive, PTL

\* What pushLanHosts and syncLanHosts report as current or published is what
\* the VM serves, for a run nobody disturbed.
THEOREM Reported == Spec => []NamesServed
<1>1. IInv => NamesServed
  BY DEF IInv, CalmInv, ServedInv, NamesServed
<1>2. QED
  BY <1>1, Inductive, PTL

\* Remove leaves no private key without a record, but where it was broken off
\* or crossed by a renewal.
THEOREM NoStrayKeys == Spec => []KeysAccountedFor
<1>1. IInv => KeysAccountedFor
  BY DEF IInv
<1>2. QED
  BY <1>1, Inductive, PTL

\* WriteHostsFile leaves no record behind, in whatever order runs change and
\* render, unless two renders overlap, a run ends before its own, or a record
\* was edited by hand.
THEOREM Rendering == Spec => []HostsFileIsRecords
<1>1. IInv => HostsFileIsRecords
  BY DEF IInv, RenderInv, HostsFileIsRecords
<1>2. QED
  BY <1>1, Inductive, PTL
=============================================================================
