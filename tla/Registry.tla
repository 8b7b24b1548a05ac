------------------------------- MODULE Registry ------------------------------
(***************************************************************************)
(* The record of one adopted VM, ~/.mpd-virt/<NNN>/vm.json, and everything *)
(* that writes it: adopt, start and list - which rewrite the whole file,   *)
(* unlocked, each from what it read - the developer's editor, and remove.  *)
(*                                                                         *)
(* ip stands for the identity fields a verb records (ip, user, backend).   *)
(***************************************************************************)
CONSTANTS Procs,   \* the running mpd-virt processes
          IPs,     \* addresses a VM can be found at
          Notes,   \* notes a hypervisor can report
          Keys,    \* ssh keys the developer can authorize in the file
          NoNote,  \* the empty note
          NoIP     \* no address

ASSUME ValueAssumption == NoNote \notin Notes /\ NoIP \notin IPs

Record == [ip : IPs, notes : Notes \cup {NoNote}, keys : SUBSET Keys]

\* What the file can hold besides a record: nothing at all, no bytes yet
\* (created or truncated), or one write on top of another.
Absent  == [state |-> "absent"]
Empty   == [state |-> "empty"]
Garbled == [state |-> "garbled"]

VARIABLES
    file,      \* the file's content
    pc,        \* where each process is
    entry,     \* the Entry a process holds, as loaded or as passed to Save
    opened,    \* [p] the file p has open for writing is still the one on disk
    \* History variables, read by the properties and never by a guard.
    latest,    \* the fields each of which was last set on purpose
    stale,     \* [p] the file changed since p read what it is about to write
    tainted    \* a save was cut short, or was based on a stale read

vars == <<file, pc, entry, opened, latest, stale, tainted>>

Stages == {"idle", "locate", "probe", "notes", "merge", "open", "write"}

\* An Entry also says which verb saves it.
Blank == [ip |-> NoIP, notes |-> NoNote, keys |-> {}, verb |-> "none"]
Entries == [ip : IPs \cup {NoIP}, notes : Notes \cup {NoNote}, keys : SUBSET Keys,
            verb : {"none", "record", "refresh", "list"}]

TypeOK ==
    /\ file \in Record \cup {Absent, Empty, Garbled}
    /\ pc \in [Procs -> Stages]
    /\ entry \in [Procs -> Entries]
    /\ opened \in [Procs -> BOOLEAN]
    /\ latest \in [ip : IPs \cup {NoIP}, notes : Notes \cup {NoNote}, keys : SUBSET Keys]
    /\ stale \in [Procs -> BOOLEAN]
    /\ tainted \in BOOLEAN

Init ==
    /\ file = Absent
    /\ pc = [p \in Procs |-> "idle"]
    /\ entry = [p \in Procs |-> Blank]
    /\ opened = [p \in Procs |-> FALSE]
    /\ latest = [ip |-> NoIP, notes |-> NoNote, keys |-> {}]
    /\ stale = [p \in Procs |-> FALSE]
    /\ tainted = FALSE

-----------------------------------------------------------------------------
(* Load: a missing or unparsable file is an error; anything else is read.  *)
Loads == file \in Record

Loaded(verb) ==
    [ip |-> file.ip, notes |-> file.notes, keys |-> file.keys, verb |-> verb]

Go(p, to, e) ==
    /\ pc' = [pc EXCEPT ![p] = to]
    /\ entry' = [entry EXCEPT ![p] = e]

\* p's next save rests on what it reads now.
ReadsNow(p) == stale' = [stale EXCEPT ![p] = FALSE]

\* Whatever any other process read is out of date.
Changed(p) == stale' = [q \in Procs |-> q # p \/ stale[q]]

-----------------------------------------------------------------------------
(* The verbs, up to their call of Save.                                    *)

(* adopt records the address it was given, with no notes and no keys.      *)
Adopt(p) ==
    /\ pc[p] = "idle"
    /\ \E ip \in IPs : Go(p, "merge", [Blank EXCEPT !.ip = ip, !.verb = "record"])
    /\ ReadsNow(p)
    /\ UNCHANGED <<file, opened, latest, tainted>>

(* start loads the record, and re-records the VM if it was found elsewhere.*)
StartLoad(p) ==
    /\ pc[p] = "idle" /\ Loads
    /\ Go(p, "locate", Loaded("record"))
    /\ ReadsNow(p)
    /\ UNCHANGED <<file, opened, latest, tainted>>

StartLocate(p) ==
    /\ pc[p] = "locate"
    /\ \E ip \in IPs :
          IF ip = entry[p].ip
          THEN Go(p, "notes", Blank)
          ELSE Go(p, "merge", [Blank EXCEPT !.ip = ip, !.verb = "record"])
    /\ UNCHANGED <<file, opened, latest, stale, tainted>>

(* syncNotes, after adopt's or start's own save: fetch the note, reload    *)
(* the record, and save it when the note differs.                          *)
SyncNotes(p) ==
    /\ pc[p] = "notes"
    /\ \E live \in Notes \cup {NoNote} :
          IF live # NoNote /\ Loads /\ live # file.notes
          THEN Go(p, "merge", [Loaded("refresh") EXCEPT !.notes = live])
          ELSE Go(p, "idle", Blank)
    /\ ReadsNow(p)
    /\ UNCHANGED <<file, opened, latest, tainted>>

(* list loads every record, probes the network, and saves a changed note   *)
(* with the record it loaded before the probe.                             *)
ListLoad(p) ==
    /\ pc[p] = "idle" /\ Loads
    /\ Go(p, "probe", Loaded("list"))
    /\ ReadsNow(p)
    /\ UNCHANGED <<file, opened, latest, tainted>>

CachedNotes(p) ==
    /\ pc[p] = "probe"
    /\ \E live \in Notes \cup {NoNote} :
          IF live \notin {NoNote, entry[p].notes}
          THEN Go(p, "merge", [entry[p] EXCEPT !.notes = live])
          ELSE Go(p, "idle", Blank)
    /\ UNCHANGED <<file, opened, latest, stale, tainted>>

-----------------------------------------------------------------------------
(* Save: notes and keys are sticky - empty ones are filled in from the     *)
(* file - then os.WriteFile truncates the file and writes it.  A write that *)
(* fails because remove took the directory away is a Crash.                *)

\* Mutants of Filled: a Save that forgets one of the two sticky fields.
FilledNotesOnly(e) ==
    IF Loads /\ e.notes = NoNote THEN [e EXCEPT !.notes = file.notes] ELSE e

FilledKeysOnly(e) ==
    IF Loads /\ e.keys = {} THEN [e EXCEPT !.keys = file.keys] ELSE e

Filled(e) ==
    IF Loads
    THEN [e EXCEPT !.notes = IF @ = NoNote THEN file.notes ELSE @,
                   !.keys  = IF @ = {} THEN file.keys ELSE @]
    ELSE e

Merge(p) ==
    /\ pc[p] = "merge"
    /\ Go(p, "open", Filled(entry[p]))
    \* A recorded address comes with nothing read earlier than this; what it
    \* reads now may be someone's unfinished save.
    /\ stale' = [stale EXCEPT ![p] =
                    \/ @ /\ entry[p].verb # "record"
                    \/ file \in {Empty, Garbled}]
    /\ UNCHANGED <<file, opened, latest, tainted>>

\* Mutant of Open: an early return between the truncation and the write.
OpenAndReturn(p) ==
    /\ pc[p] = "open"
    /\ pc' = [pc EXCEPT ![p] = "idle"]
    /\ file' = Empty
    /\ Changed(p)
    /\ UNCHANGED <<entry, opened, latest, tainted>>

Open(p) ==
    /\ pc[p] = "open"
    /\ pc' = [pc EXCEPT ![p] = "write"]
    /\ file' = Empty
    /\ opened' = [opened EXCEPT ![p] = TRUE]
    /\ Changed(p)
    /\ UNCHANGED <<entry, latest, tainted>>

\* Mutant of Content: the entry is marshalled with the verb's own bookkeeping.
WholeEntry(e) == e

Content(e) == [ip |-> e.ip, notes |-> e.notes, keys |-> e.keys]

\* What a completed save means to set: an adoption or a start the address, a
\* refresh the note.  Nothing in the program means to change the keys.
Intended(e) ==
    IF e.verb = "record" THEN [latest EXCEPT !.ip = e.ip]
                         ELSE [latest EXCEPT !.notes = e.notes]

(* Bytes someone else wrote since the truncation may outlast the new ones; *)
(* a file removed since keeps none of them.                                *)
Write(p) ==
    /\ pc[p] = "write"
    /\ IF opened[p]
       THEN /\ file' \in {Content(entry[p])} \cup (IF file = Empty THEN {} ELSE {Garbled})
            /\ latest' = Intended(entry[p])
            /\ tainted' = (tainted \/ stale[p])
            /\ Changed(p)
       ELSE UNCHANGED <<file, latest, tainted, stale>>
    /\ opened' = [opened EXCEPT ![p] = FALSE]
    /\ Go(p, IF entry[p].verb = "record" THEN "notes" ELSE "idle", Blank)

-----------------------------------------------------------------------------
(* A process is interrupted or its machine goes down; a save in progress   *)
(* leaves the truncated file behind.                                       *)
Crash(p) ==
    /\ pc[p] # "idle"
    /\ Go(p, "idle", Blank)
    /\ opened' = [opened EXCEPT ![p] = FALSE]
    /\ tainted' = (tainted \/ opened[p])
    /\ UNCHANGED <<file, latest, stale>>

(* The developer edits authorized_keys in the file.                        *)
EditKeys ==
    /\ Loads
    /\ \E keys \in SUBSET Keys :
          /\ file' = [file EXCEPT !.keys = keys]
          /\ latest' = [latest EXCEPT !.keys = keys]
    /\ stale' = [q \in Procs |-> TRUE]
    /\ UNCHANGED <<pc, entry, opened, tainted>>

(* remove or uninstall deletes the file with its directory.                *)
Remove ==
    /\ file # Absent
    /\ file' = Absent
    /\ opened' = [p \in Procs |-> FALSE]
    /\ latest' = [ip |-> NoIP, notes |-> NoNote, keys |-> {}]
    /\ stale' = [q \in Procs |-> TRUE]
    /\ tainted' = FALSE
    /\ UNCHANGED <<pc, entry>>

Next ==
    \/ \E p \in Procs :
          \/ Adopt(p) \/ StartLoad(p) \/ StartLocate(p) \/ SyncNotes(p)
          \/ ListLoad(p) \/ CachedNotes(p)
          \/ Merge(p) \/ Open(p) \/ Write(p) \/ Crash(p)
    \/ EditKeys
    \/ Remove

Spec == Init /\ [][Next]_vars

-----------------------------------------------------------------------------
(* Properties.                                                             *)

\* Notes and keys are sticky and the address is the last one recorded, across
\* any sequence of verbs and hand edits - as long as no save was interrupted
\* and none overlapped another change of the file.
RecordIsLatest ==
    Loads /\ ~ tainted =>
        file = [ip |-> latest.ip, notes |-> latest.notes, keys |-> latest.keys]

\* With no save in progress the file can be loaded, or was never written: an
\* unloadable record means an interrupted or overlapping save.
LoadableAtRest ==
    file \in {Empty, Garbled} => tainted \/ \E p \in Procs : opened[p]

\* A save overlapped by nothing and based on a file that loads writes what
\* that file held, but for what the verb sets: the address for adopt and
\* start, the note for list and syncNotes.
SaveTouchesOnlyItsOwn ==
    [][\A p \in Procs :
          pc[p] = "open" /\ pc'[p] = "write" /\ Loads /\ ~ stale[p] =>
             IF entry[p].verb = "record"
             THEN file = [Content(entry[p]) EXCEPT !.ip = file.ip]
             ELSE file = [Content(entry[p]) EXCEPT !.notes = file.notes]]_vars

\* What p is about to write rests on the record r: all of it while list probes
\* the network; after that, and up to the write, all but the verb's own field
\* (for a recorded address, from the moment the sticky fields are filled in).
Rests(p, r) ==
    LET e == entry[p]
    IN  /\ pc[p] = "probe" => e.ip = r.ip /\ e.notes = r.notes /\ e.keys = r.keys
        /\ pc[p] \in {"merge", "open", "write"} /\ e.verb # "record" =>
              e.ip = r.ip /\ e.keys = r.keys
        /\ pc[p] \in {"open", "write"} /\ e.verb = "record" =>
              e.notes = r.notes /\ e.keys = r.keys

\* A process holds an entry fit to be saved, and unless the file changed since
\* it was read, it rests on the file and on what was last set on purpose; and
\* a file that was not left empty by its writer was changed by another.
RunInv ==
    \A p \in Procs :
        /\ pc[p] \in {"locate", "probe", "merge", "open", "write"} => entry[p].ip \in IPs
        /\ pc[p] = "probe" => entry[p].verb = "list"
        /\ pc[p] = "merge" =>
              IF entry[p].verb = "record"
              THEN entry[p].notes = NoNote /\ entry[p].keys = {}
              ELSE entry[p].notes # NoNote
        /\ opened[p] => pc[p] = "write" /\ (file # Empty => stale[p])
        /\ ~ stale[p] /\ Loads => Rests(p, file)
        /\ ~ stale[p] /\ ~ tainted => Rests(p, latest)

\* Without a file nothing was set on purpose.
UnsetWhenAbsent ==
    file = Absent /\ ~ tainted => latest = [ip |-> NoIP, notes |-> NoNote, keys |-> {}]

\* The inductive invariant the theorems rest on.
IInv == TypeOK /\ RecordIsLatest /\ LoadableAtRest /\ RunInv /\ UnsetWhenAbsent
=============================================================================
