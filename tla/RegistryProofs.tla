--------------------------- MODULE RegistryProofs ----------------------------
(***************************************************************************)
(* Registry's invariants, proved for any processes, addresses, notes and   *)
(* keys.  They rest on IInv, whose heart is RunInv: unless the file        *)
(* changed since a process read it, what the process is about to write     *)
(* rests on what the file says and on what was last set on purpose.        *)
(***************************************************************************)
EXTENDS Registry, TLAPS

USE ValueAssumption

\* A file without a record is told from one with a record, and the three
\* kinds of it from each other.
LEMMA NoRecord ==
    /\ Absent \notin Record /\ Empty \notin Record /\ Garbled \notin Record
    /\ Absent # Empty /\ Absent # Garbled /\ Empty # Garbled
<1>1. \A s : [state |-> s] \notin Record
  <2>1. SUFFICES ASSUME NEW s, [state |-> s] \in Record PROVE FALSE
    OBVIOUS
  <2>2. DOMAIN [state |-> s] = {"ip", "notes", "keys"}
    BY <2>1 DEF Record
  <2>3. QED
    BY <2>2
<1>2. QED
  BY <1>1 DEF Absent, Empty, Garbled

\* The entries the verbs make up themselves: none, and adopt's and start's.
Recorded(a) == [Blank EXCEPT !.ip = a, !.verb = "record"]

LEMMA NewEntries ==
    /\ Blank \in Entries
    /\ \A a \in IPs : /\ Recorded(a) \in Entries /\ Recorded(a).ip = a
                     /\ Recorded(a).verb = "record"
                     /\ Recorded(a).notes = NoNote /\ Recorded(a).keys = {}
BY DEF Blank, Entries, Recorded

\* What a verb loads, with the note it was told.
LEMMA LoadedEntry ==
    ASSUME TypeOK, Loads, NEW v \in {"record", "refresh", "list"}
    PROVE  /\ Loaded(v) \in Entries
           /\ Loaded(v).ip = file.ip /\ Loaded(v).ip \in IPs
           /\ Loaded(v).notes = file.notes /\ Loaded(v).keys = file.keys
           /\ Loaded(v).verb = v
BY DEF Loaded, Loads, Entries, Record, TypeOK

Noted(e, n) == [e EXCEPT !.notes = n]

LEMMA NotedFields ==
    ASSUME NEW e \in Entries, NEW n \in Notes
    PROVE  /\ Noted(e, n) \in Entries /\ Noted(e, n).notes = n
           /\ Noted(e, n).ip = e.ip /\ Noted(e, n).keys = e.keys /\ Noted(e, n).verb = e.verb
BY DEF Entries, Noted

LEMMA InitInv == Init => IInv
<1> SUFFICES ASSUME Init PROVE IInv
  OBVIOUS
<1>1. TypeOK
  BY NewEntries DEF Init, TypeOK, Stages
<1>2. RecordIsLatest /\ LoadableAtRest /\ UnsetWhenAbsent
  BY NoRecord DEF Init, RecordIsLatest, LoadableAtRest, UnsetWhenAbsent, Loads
<1>3. RunInv
  BY DEF Init, RunInv, Rests
<1>4. QED
  BY <1>1, <1>2, <1>3 DEF IInv

\* What the sticky fields of an entry are once Save has looked at the file.
LEMMA FilledFields ==
    ASSUME TypeOK, NEW e \in Entries
    PROVE  /\ Filled(e) \in Entries /\ Filled(e).ip = e.ip /\ Filled(e).verb = e.verb
           /\ ~ Loads => Filled(e) = e
           /\ Loads /\ e.keys = {} => Filled(e).keys = file.keys
           /\ e.keys # {} => Filled(e).keys = e.keys
           /\ Loads /\ e.notes = NoNote => Filled(e).notes = file.notes
           /\ e.notes # NoNote => Filled(e).notes = e.notes
BY DEF Filled, Loads, Entries, Record, TypeOK

\* A verb's step short of its save changes no file and no ghost but stale,
\* so all there is to show is about the entry p holds next.
LEMMA VerbKeeps ==
    ASSUME IInv, NEW p \in Procs,
           UNCHANGED <<file, opened, latest, tainted>>,
           pc[p] # "write",
           NEW to \in {"idle", "locate", "probe", "notes", "merge"}, NEW e \in Entries,
           Go(p, to, e),
           stale' \in [Procs -> BOOLEAN], \A q \in Procs \ {p} : stale'[q] = stale[q],
           to \in {"locate", "probe", "merge"} => e.ip \in IPs,
           to = "probe" => e.verb = "list",
           to = "merge" => IF e.verb = "record" THEN e.notes = NoNote /\ e.keys = {}
                                                ELSE e.notes # NoNote,
           to = "probe" /\ ~ stale'[p] =>
              /\ Loads => e.ip = file.ip /\ e.notes = file.notes /\ e.keys = file.keys
              /\ ~ tainted => e.ip = latest.ip /\ e.notes = latest.notes /\ e.keys = latest.keys,
           to = "merge" /\ e.verb # "record" /\ ~ stale'[p] =>
              /\ Loads => e.ip = file.ip /\ e.keys = file.keys
              /\ ~ tainted => e.ip = latest.ip /\ e.keys = latest.keys
    PROVE  IInv'
<1>1. TypeOK'
  BY DEF IInv, TypeOK, Stages, Go
<1>2. RecordIsLatest' /\ LoadableAtRest' /\ UnsetWhenAbsent'
  BY DEF IInv, RecordIsLatest, LoadableAtRest, UnsetWhenAbsent, Loads
<1>3. RunInv'
  BY DEF IInv, TypeOK, RunInv, Rests, Loads, Go
<1>4. QED
  BY <1>1, <1>2, <1>3 DEF IInv

LEMMA StepVerb ==
    ASSUME IInv, NEW p \in Procs,
           Adopt(p) \/ StartLoad(p) \/ StartLocate(p) \/ SyncNotes(p) \/ ListLoad(p) \/ CachedNotes(p)
    PROVE  IInv'
<1>t. TypeOK /\ RecordIsLatest /\ RunInv
  BY DEF IInv
<1>b. \A q \in Procs : ReadsNow(q) =>
        /\ stale' \in [Procs -> BOOLEAN]
        /\ \A r \in Procs \ {q} : stale'[r] = stale[r]
  BY <1>t DEF ReadsNow, TypeOK
<1>c. UNCHANGED stale =>
        /\ stale' \in [Procs -> BOOLEAN]
        /\ \A r \in Procs \ {p} : stale'[r] = stale[r]
  BY <1>t DEF TypeOK
<1>d. Loads /\ ~ tainted => /\ file.ip = latest.ip /\ file.notes = latest.notes
                           /\ file.keys = latest.keys
  BY <1>t DEF RecordIsLatest, TypeOK
<1>1. CASE Adopt(p)
  <2>1. PICK a \in IPs : Go(p, "merge", Recorded(a))
    BY <1>1 DEF Adopt, Recorded
  <2>2. /\ Recorded(a) \in Entries /\ Recorded(a).ip \in IPs
        /\ Recorded(a).verb = "record"
        /\ Recorded(a).notes = NoNote /\ Recorded(a).keys = {}
    BY NewEntries
  <2>3. QED
    BY <1>1, <1>b, <2>1, <2>2, VerbKeeps DEF Adopt
<1>2. CASE StartLoad(p)
  BY <1>2, <1>t, <1>b, LoadedEntry, VerbKeeps DEF StartLoad
<1>3. CASE StartLocate(p)
  <2>1. PICK a \in IPs : Go(p, "notes", Blank) \/ Go(p, "merge", Recorded(a))
    BY <1>3 DEF StartLocate, Recorded
  <2>2. CASE Go(p, "notes", Blank)
    BY <1>3, <1>c, <2>2, NewEntries, VerbKeeps DEF StartLocate
  <2>3. CASE Go(p, "merge", Recorded(a))
    <3>1. /\ Recorded(a) \in Entries /\ Recorded(a).ip \in IPs
          /\ Recorded(a).verb = "record"
          /\ Recorded(a).notes = NoNote /\ Recorded(a).keys = {}
      BY NewEntries
    <3>2. QED
      BY <1>3, <1>c, <2>3, <3>1, VerbKeeps DEF StartLocate
  <2>4. QED
    BY <2>1, <2>2, <2>3
<1>4. CASE SyncNotes(p)
  <2>1. CASE Go(p, "idle", Blank)
    BY <1>4, <1>b, <2>1, NewEntries, VerbKeeps DEF SyncNotes
  <2>2. CASE ~ Go(p, "idle", Blank)
    <3>1. PICK live \in Notes : Loads /\ Go(p, "merge", Noted(Loaded("refresh"), live))
      BY <1>4, <2>2 DEF SyncNotes, Noted
    <3>2. Loaded("refresh") \in Entries
      BY <1>t, <3>1, LoadedEntry
    <3>3. QED
      BY <1>4, <1>t, <1>b, <1>d, <3>1, <3>2, LoadedEntry, NotedFields, VerbKeeps DEF SyncNotes
  <2>3. QED
    BY <2>1, <2>2
<1>5. CASE ListLoad(p)
  BY <1>5, <1>t, <1>b, <1>d, LoadedEntry, VerbKeeps DEF ListLoad
<1>6. CASE CachedNotes(p)
  <2>1. CASE Go(p, "idle", Blank)
    BY <1>6, <1>c, <2>1, NewEntries, VerbKeeps DEF CachedNotes
  <2>2. CASE ~ Go(p, "idle", Blank)
    <3>1. PICK live \in Notes : Go(p, "merge", Noted(entry[p], live))
      BY <1>6, <2>2 DEF CachedNotes, Noted
    <3>2. entry[p] \in Entries /\ entry[p].ip \in IPs /\ entry[p].verb = "list"
      BY <1>6, <1>t DEF CachedNotes, TypeOK, RunInv
    <3>3. /\ ~ stale[p] /\ Loads => entry[p].ip = file.ip /\ entry[p].keys = file.keys
          /\ ~ stale[p] /\ ~ tainted => entry[p].ip = latest.ip /\ entry[p].keys = latest.keys
      BY <1>6, <1>t DEF CachedNotes, RunInv, Rests
    <3>4. QED
      BY <1>6, <1>c, <3>1, <3>2, <3>3, NotedFields, VerbKeeps DEF CachedNotes
  <2>3. QED
    BY <2>1, <2>2
<1>7. QED
  BY <1>1, <1>2, <1>3, <1>4, <1>5, <1>6

LEMMA StepSave ==
    ASSUME IInv, NEW p \in Procs, Merge(p) \/ Open(p) \/ Write(p) \/ Crash(p)
    PROVE  IInv'
<1>t. TypeOK /\ RecordIsLatest /\ LoadableAtRest /\ RunInv /\ UnsetWhenAbsent
  BY DEF IInv
<1>1. CASE Merge(p)
  <2>1. /\ pc[p] = "merge" /\ Go(p, "open", Filled(entry[p]))
        /\ UNCHANGED <<file, opened, latest, tainted>>
        /\ stale' = [stale EXCEPT ![p] = (@ /\ entry[p].verb # "record") \/ file \in {Empty, Garbled}]
    BY <1>1 DEF Merge
  <2>2. entry[p] \in Entries
    BY <1>t DEF TypeOK
  <2>3. TypeOK'
    BY <1>t, <2>1, <2>2, FilledFields DEF TypeOK, Stages, Go
  <2>4. RecordIsLatest' /\ LoadableAtRest' /\ UnsetWhenAbsent'
    BY <1>t, <2>1 DEF RecordIsLatest, LoadableAtRest, UnsetWhenAbsent, Loads
  <2>5. Loads /\ ~ tainted => /\ file.ip = latest.ip /\ file.notes = latest.notes
                             /\ file.keys = latest.keys
    BY <1>t DEF RecordIsLatest, TypeOK
  <2>6. ~ Loads /\ file \notin {Empty, Garbled} /\ ~ tainted => latest.notes = NoNote /\ latest.keys = {}
    BY <1>t DEF TypeOK, Loads, UnsetWhenAbsent
  <2>7. pc'[p] = "open" /\ entry'[p] = Filled(entry[p])
    BY <1>t, <2>1 DEF TypeOK, Go
  <2>8. ASSUME NEW r, \/ Loads /\ r = file
                      \/ ~ tainted /\ r = latest,
               ~ stale'[p]
        PROVE  /\ entry'[p].verb # "record" => entry'[p].ip = r.ip /\ entry'[p].keys = r.keys
               /\ entry'[p].verb = "record" => entry'[p].notes = r.notes /\ entry'[p].keys = r.keys
    <3>1. file \notin {Empty, Garbled}
      BY <1>t, <2>1, <2>8 DEF TypeOK
    <3>2. CASE entry[p].verb = "record"
      <4>1. entry[p].notes = NoNote /\ entry[p].keys = {}
        BY <1>t, <2>1, <3>2 DEF RunInv
      <4>2. QED
        BY <1>t, <2>2, <2>5, <2>6, <2>7, <2>8, <3>1, <3>2, <4>1, FilledFields
    <3>3. CASE entry[p].verb # "record"
      <4>1. ~ stale[p]
        BY <1>t, <2>1, <2>8, <3>3 DEF TypeOK
      <4>2. entry[p].ip = r.ip /\ entry[p].keys = r.keys
        BY <1>t, <2>1, <2>8, <3>3, <4>1 DEF RunInv, Rests
      <4>3. Loads => file.keys = r.keys
        BY <2>5, <2>8
      <4>4. QED
        BY <1>t, <2>2, <2>7, <3>3, <4>2, <4>3, FilledFields
    <3>4. QED
      BY <3>2, <3>3
  <2>9. RunInv'
    BY <1>t, <2>1, <2>2, <2>7, <2>8, FilledFields DEF TypeOK, RunInv, Rests, Go, Loads
  <2>10. QED
    BY <2>3, <2>4, <2>9 DEF IInv
<1>2. CASE Open(p)
  BY <1>2, NoRecord DEF Open, Changed, RunInv, Rests, TypeOK, Stages, IInv, RecordIsLatest,
                        LoadableAtRest, UnsetWhenAbsent, Loads
<1>3. CASE Write(p)
  <2>1. PICK to \in {"notes", "idle"} : Go(p, to, Blank)
    BY <1>3 DEF Write
  <2>2. pc[p] = "write" /\ opened' = [opened EXCEPT ![p] = FALSE] /\ entry[p] \in Entries /\ entry[p].ip \in IPs
    BY <1>3, <1>t DEF Write, TypeOK, RunInv
  <2>3. CASE ~ opened[p]
    <3>1. UNCHANGED <<file, latest, tainted, stale, opened>>
      BY <1>3, <1>t, <2>2, <2>3 DEF Write, TypeOK
    <3>2. TypeOK'
      BY <1>t, <2>1, <3>1, NewEntries DEF TypeOK, Stages, Go
    <3>3. RecordIsLatest' /\ LoadableAtRest' /\ UnsetWhenAbsent'
      BY <1>t, <3>1 DEF RecordIsLatest, LoadableAtRest, UnsetWhenAbsent, Loads
    <3>4. RunInv'
      BY <1>t, <2>1, <2>2, <2>3, <3>1 DEF TypeOK, RunInv, Rests, Loads, Go
    <3>5. QED
      BY <3>2, <3>3, <3>4 DEF IInv
  <2>4. CASE opened[p]
    <3>1. /\ file' = Content(entry[p]) \/ (file # Empty /\ file' = Garbled)
          /\ latest' = Intended(entry[p])
          /\ tainted' = (tainted \/ stale[p])
          /\ stale' = [q \in Procs |-> q # p \/ stale[q]]
      BY <1>3, <2>4 DEF Write, Changed
    <3>2. /\ Content(entry[p]) \in Record
          /\ Content(entry[p]).ip = entry[p].ip /\ Content(entry[p]).notes = entry[p].notes
          /\ Content(entry[p]).keys = entry[p].keys
      BY <2>2 DEF Content, Record, Entries
    <3>3. /\ latest' \in [ip : IPs \cup {NoIP}, notes : Notes \cup {NoNote}, keys : SUBSET Keys]
          /\ latest'.keys = latest.keys
          /\ entry[p].verb = "record" => latest'.ip = entry[p].ip /\ latest'.notes = latest.notes
          /\ entry[p].verb # "record" => latest'.ip = latest.ip /\ latest'.notes = entry[p].notes
      BY <1>t, <2>2, <3>1 DEF Intended, TypeOK, Entries
    <3>4. TypeOK'
      BY <1>t, <2>1, <2>2, <3>1, <3>2, <3>3, NewEntries DEF TypeOK, Stages, Go
    <3>5. RecordIsLatest'
      <4>1. SUFFICES ASSUME file' = Content(entry[p]), ~ tainted, ~ stale[p]
                     PROVE  RecordIsLatest'
        BY <3>1, NoRecord DEF RecordIsLatest, Loads
      <4>2. Rests(p, latest)
        BY <1>t, <4>1 DEF RunInv
      <4>3. /\ entry[p].ip = latest'.ip
            /\ entry[p].notes = latest'.notes
            /\ entry[p].keys = latest'.keys
        BY <2>2, <3>3, <4>2 DEF Rests
      <4>4. QED
        BY <4>1, <4>3 DEF RecordIsLatest, Content
    <3>6. LoadableAtRest'
      BY <1>t, <2>4, <3>1, <3>2, NoRecord DEF LoadableAtRest, RunInv
    <3>7. UnsetWhenAbsent'
      BY <3>1, <3>2, NoRecord DEF UnsetWhenAbsent
    <3>8. RunInv'
      <4>1. SUFFICES ASSUME NEW q \in Procs
                     PROVE  RunInv!(q)'
        BY DEF RunInv
      <4>2. CASE q = p
        BY <1>t, <2>1, <2>2, <4>2 DEF TypeOK, Rests, Go
      <4>3. CASE q # p
        BY <1>t, <2>1, <2>2, <3>1, <4>3 DEF TypeOK, RunInv, Go
      <4>4. QED
        BY <4>2, <4>3
    <3>9. QED
      BY <3>4, <3>5, <3>6, <3>7, <3>8 DEF IInv
  <2>5. QED
    BY <2>3, <2>4
<1>4. CASE Crash(p)
  <2>1. TypeOK'
    BY <1>t, <1>4, NewEntries DEF Crash, Go, TypeOK, Stages
  <2>2. RecordIsLatest' /\ LoadableAtRest' /\ UnsetWhenAbsent'
    BY <1>t, <1>4 DEF Crash, TypeOK, RecordIsLatest, LoadableAtRest, UnsetWhenAbsent, Loads
  <2>3. RunInv'
    BY <1>t, <1>4 DEF Crash, Go, TypeOK, RunInv, Rests, Loads
  <2>4. QED
    BY <2>1, <2>2, <2>3 DEF IInv
<1>5. QED
  BY <1>1, <1>2, <1>3, <1>4

LEMMA StepOther ==
    ASSUME IInv, EditKeys \/ Remove \/ UNCHANGED vars
    PROVE  IInv'
<1> USE DEF IInv, RecordIsLatest, LoadableAtRest, UnsetWhenAbsent, Loads
<1>1. CASE EditKeys
  BY <1>1, NoRecord DEF EditKeys, RunInv, Rests, TypeOK, Record
<1>2. CASE Remove
  BY <1>2, NoRecord DEF Remove, RunInv, Rests, TypeOK
<1>3. CASE UNCHANGED vars
  BY <1>3 DEF vars, RunInv, Rests, TypeOK
<1>4. QED
  BY <1>1, <1>2, <1>3

LEMMA NextInv == IInv /\ [Next]_vars => IInv'
BY StepVerb, StepSave, StepOther DEF Next

\* The inductive invariant holds of adopt, start, list, the editor and
\* remove, in every interleaving and with every crash.
THEOREM Inductive == Spec => []IInv
<1>1. Init => IInv
  BY InitInv
<1>2. IInv /\ [Next]_vars => IInv'
  BY NextInv
<1>3. QED
  BY <1>1, <1>2, PTL DEF Spec

-----------------------------------------------------------------------------
(* What a reader should take away.                                         *)

\* The file is always one of: missing, empty, garbled, or a record.
THEOREM TypeCorrect == Spec => []TypeOK
<1>1. IInv => TypeOK
  BY DEF IInv
<1>2. QED
  BY <1>1, Inductive, PTL

\* Save's sticky fields: notes and keys survive every verb, and the address is
\* the last one recorded, unless a save was interrupted or overlapped.
THEOREM RecordLatest == Spec => []RecordIsLatest
<1>1. IInv => RecordIsLatest
  BY DEF IInv
<1>2. QED
  BY <1>1, Inductive, PTL

\* An unloadable vm.json means a save in progress, interrupted or overlapped.
THEOREM Loadable == Spec => []LoadableAtRest
<1>1. IInv => LoadableAtRest
  BY DEF IInv
<1>2. QED
  BY <1>1, Inductive, PTL

\* A save that nothing overlapped changes the field its verb sets, and no
\* other.
THEOREM SaveTouches == Spec => SaveTouchesOnlyItsOwn
<1> DEFINE Touches ==
      \A p \in Procs :
          pc[p] = "open" /\ pc'[p] = "write" /\ Loads /\ ~ stale[p] =>
             IF entry[p].verb = "record"
             THEN file = [Content(entry[p]) EXCEPT !.ip = file.ip]
             ELSE file = [Content(entry[p]) EXCEPT !.notes = file.notes]
<1>1. IInv => Touches
  <2>1. SUFFICES ASSUME IInv, NEW p \in Procs, pc[p] = "open", Loads, ~ stale[p]
                 PROVE  IF entry[p].verb = "record"
                        THEN file = [Content(entry[p]) EXCEPT !.ip = file.ip]
                        ELSE file = [Content(entry[p]) EXCEPT !.notes = file.notes]
    OBVIOUS
  <2>2. Rests(p, file)
    BY <2>1 DEF IInv, RunInv
  <2>3. file \in Record
    BY <2>1 DEF Loads
  <2>4. QED
    BY <2>1, <2>2, <2>3 DEF Rests, Content, Record
<1>2. IInv => [Touches]_vars
  BY <1>1
<1>3. QED
  BY <1>2, Inductive, PTL DEF SaveTouchesOnlyItsOwn
=============================================================================
