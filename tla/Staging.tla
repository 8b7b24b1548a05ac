------------------------------- MODULE Staging -------------------------------
(***************************************************************************)
(* How mpd-virt puts one file in place.  Four kinds of it: the Debian image*)
(* in the download cache, an installer on the VM, the registry mirror      *)
(* drop-in on the VM, and vm.env on the VM.  The first three are written   *)
(* under one fixed temporary name first.  Any number of processes do so at *)
(* once, any of them may end anywhere, and a file that is renamed, removed *)
(* or truncated while another process writes it is still that process's.   *)
(***************************************************************************)
CONSTANTS Procs,   \* the running mpd-virt processes
          Values,  \* what such a file can say
          Absent,  \* no file, or nothing configured
          Torn     \* a file being written, cut short or garbled

ASSUME StagingAssumption == Absent # Torn /\ {Absent, Torn} \cap Values = {}

VARIABLES
    kind,           \* what kind of file this is about
    source,         \* what it should say: the pinned digest, or the file on the host
    staged, final,  \* the file under its temporary name, and under its own
    pc, want,       \* each process: its stage, and what it writes
    where,          \* each process: where the file it has open is by now
    spoilt,         \* each process: somebody else wrote to that file
    \* History variables, read by the properties and never by a guard.
    calm,           \* [p] p runs, and nobody else changed anything since it began
    came,           \* [p] the file came to be after p had found it missing
    raced,          \* a temporary file was opened while another run was at it,
                    \* or an installer changed on the host while it was copied
    missed          \* a drop-in was not removed, and nobody was told

files == <<staged, final>>
vars  == <<kind, source, files, pc, want, where, spoilt, calm, came, raced, missed>>

Kinds  == {"image", "installer", "mirror", "env"}
Busy   == {"copy", "verify", "place", "install", "tidy"}
Stages == {"idle", "open", "clear", "done"} \cup Busy

TypeOK ==
    /\ kind \in Kinds
    /\ source \in Values \cup {Absent} /\ (kind \in {"image", "installer"} => source # Absent)
    /\ staged \in Values \cup {Absent, Torn} /\ final \in Values \cup {Absent, Torn}
    /\ pc \in [Procs -> Stages] /\ want \in [Procs -> Values \cup {Absent, Torn}]
    /\ where \in [Procs -> {"closed", "staged", "final", "gone"}]
    /\ \A p \in Procs : where[p] # "closed" <=> pc[p] \in {"copy", "install"}
    /\ \A p \in Procs : pc[p] \in {"open"} \cup Busy => want[p] # Absent
    /\ \A p \in Procs : want[p] = Torn => pc[p] \in {"install", "tidy", "done"}
    /\ spoilt \in [Procs -> BOOLEAN] /\ calm \in [Procs -> BOOLEAN] /\ came \in [Procs -> BOOLEAN]
    /\ raced \in BOOLEAN /\ missed \in BOOLEAN

Init ==
    /\ kind \in Kinds
    /\ source \in IF kind \in {"mirror", "env"} THEN Values \cup {Absent} ELSE Values
    /\ staged = Absent /\ final = Absent
    /\ pc = [p \in Procs |-> "idle"] /\ want = [p \in Procs |-> Absent]
    /\ where = [p \in Procs |-> "closed"]
    /\ spoilt = [p \in Procs |-> FALSE] /\ calm = [p \in Procs |-> FALSE]
    /\ came = [p \in Procs |-> FALSE] /\ raced = FALSE /\ missed = FALSE

-----------------------------------------------------------------------------
Step(p, from, to) == pc[p] = from /\ pc' = [pc EXCEPT ![p] = to]

\* The run is over; a file it had open is closed as it is.
End(p) ==
    /\ pc' = [pc EXCEPT ![p] = "idle"] /\ want' = [want EXCEPT ![p] = Absent]
    /\ where' = [where EXCEPT ![p] = "closed"] /\ spoilt' = [spoilt EXCEPT ![p] = FALSE]
    /\ came' = [came EXCEPT ![p] = FALSE]

Disturbs(p)  == calm' = [q \in Procs |-> q = p /\ calm[q] /\ pc'[q] # "idle"]
KeepsCalm(p) == calm' = [calm EXCEPT ![p] = @ /\ pc'[p] # "idle"]

\* For every process that has it open, the file at a moves to b.
Moved(a, b) == [q \in Procs |-> IF where[q] = a THEN b ELSE where[q]]

\* Whoever found the file missing was too early, if it is there now.
Comes == came' = [q \in Procs |-> came[q] \/ (pc[q] # "idle" /\ final = Absent /\ final' # Absent)]

\* Mutant of Needed: only what differs is sent.
NeededIfOther == final # source

\* Whether there is anything to do: images and installers go by the file's
\* presence, vm.env by its digest, and the drop-in is written every time.
Needed ==
    CASE kind \in {"image", "installer"} -> final = Absent
      [] kind = "mirror"                 -> TRUE
      [] kind = "env"                    -> source # Absent /\ final # source

(* A run looks at what is there and what should be.                        *)
Look(p) ==
    /\ Step(p, "idle", CASE ~ Needed                           -> "done"
                         [] kind = "mirror" /\ source = Absent -> "clear"
                         [] OTHER                              -> "open")
    /\ want' = [want EXCEPT ![p] = source]
    /\ calm' = [calm EXCEPT ![p] = TRUE]
    /\ UNCHANGED <<kind, source, files, where, spoilt, came, raced, missed>>

\* Mutant of Target: no temporary name.
TargetFinal == "final"

\* vm.env is copied over itself (host.Install), the others under a temporary name.
Target == IF kind = "env" THEN "final" ELSE "staged"

(* curl and scp create or truncate the file, and scp opens the one on the  *)
(* host, which by now may be another ...                                   *)
Open(p) ==
    /\ Step(p, "open", "copy")
    /\ kind \in {"installer", "env"} => source # Absent
    /\ want' = [want EXCEPT ![p] = IF kind \in {"installer", "env"} THEN source ELSE @]
    /\ IF Target = "final" THEN final' = Torn /\ UNCHANGED staged
                           ELSE staged' = Torn /\ UNCHANGED final
    /\ where' = [where EXCEPT ![p] = Target]
    /\ spoilt' = [q \in Procs |-> spoilt[q] \/ where[q] = Target \/ pc[q] = "install"]
    /\ raced' = \/ \E q \in Procs : q # p /\ pc[q] \in Busy
                \/ raced /\ final # Absent
    /\ Disturbs(p) /\ Comes
    /\ UNCHANGED <<kind, source, missed>>

\* What comes after the copy.
AfterCopy == CASE kind = "image" -> "verify" [] kind = "env" -> "done" [] OTHER -> "place"

(* ... and fill it.  A download may deliver anything.  If somebody else    *)
(* truncated or wrote the same file, what is in it now may be neither's.   *)
Finish(p) ==
    /\ Step(p, "copy", AfterCopy)
    /\ \E v \in IF kind = "image" THEN Values ELSE {want[p]} :
          LET result == {v} \cup (IF spoilt[p] THEN {Torn} ELSE {})
          IN  /\ staged' \in IF where[p] = "staged" THEN result ELSE {staged}
              /\ final'  \in IF where[p] = "final" THEN result ELSE {final}
              /\ spoilt' = [q \in Procs |->
                    q # p /\ \/ spoilt[q] \/ pc[q] = "install"
                             \/ where[q] = where[p] /\ (kind = "image" \/ want[q] # v)]
    /\ where' = [where EXCEPT ![p] = "closed"]
    /\ Disturbs(p) /\ Comes
    /\ UNCHANGED <<kind, source, want, raced, missed>>

\* The temporary file is removed, whoever writes it.
Discard(p) ==
    /\ staged' = Absent
    /\ pc' = [pc EXCEPT ![p] = "idle"] /\ want' = [want EXCEPT ![p] = Absent]
    /\ where' = [Moved("staged", "gone") EXCEPT ![p] = "closed"]
    /\ spoilt' = [spoilt EXCEPT ![p] = FALSE] /\ came' = [came EXCEPT ![p] = FALSE]
    /\ Disturbs(p)
    /\ UNCHANGED <<kind, source, final, raced, missed>>

(* curl says that it failed.                                               *)
CurlFails(p) == pc[p] = "copy" /\ kind = "image" /\ Discard(p)

(* The digest of what is under the temporary name by now.                  *)
Verify(p) ==
    /\ pc[p] = "verify"
    /\ IF staged = source
       THEN /\ Step(p, "verify", "place")
            /\ UNCHANGED <<kind, source, files, want, where, spoilt, calm, came, raced, missed>>
       ELSE Discard(p)

(* Image and installer are renamed, with whoever still writes them.        *)
Rename(p) ==
    /\ kind \in {"image", "installer"} /\ staged # Absent
    /\ Step(p, "place", "done")
    /\ final' = staged /\ staged' = Absent
    /\ where' = [q \in Procs |-> CASE where[q] = "staged" -> "final"
                                   [] where[q] = "final"  -> "gone"
                                   [] OTHER               -> where[q]]
    /\ Disturbs(p) /\ Comes
    /\ UNCHANGED <<kind, source, want, spoilt, raced, missed>>

\* Mutant of Install: a drop-in that is there stays.
InstallIfAbsent(p) ==
    /\ kind = "mirror" /\ staged # Absent
    /\ IF final = Absent
       THEN /\ Step(p, "place", "install")
            /\ final' = Torn /\ where' = [Moved("final", "gone") EXCEPT ![p] = "final"]
       ELSE Step(p, "place", "tidy") /\ UNCHANGED <<final, where>>
    /\ want' = [want EXCEPT ![p] = staged]
    /\ Disturbs(p) /\ Comes
    /\ UNCHANGED <<kind, source, staged, spoilt, raced, missed>>

(* The drop-in is copied as root: `install` unlinks the file that is there,*)
(* creates another, ...                                                    *)
Install(p) ==
    /\ kind = "mirror" /\ staged # Absent
    /\ Step(p, "place", "install")
    /\ final' = Torn /\ where' = [Moved("final", "gone") EXCEPT ![p] = "final"]
    /\ want' = [want EXCEPT ![p] = staged]
    /\ Disturbs(p) /\ Comes
    /\ UNCHANGED <<kind, source, staged, spoilt, raced, missed>>

(* ... and fills it with what is under the temporary name, which may be any*)
(* thing if that was written to meanwhile.                                 *)
Installed(p) ==
    /\ Step(p, "install", "tidy")
    /\ final' \in IF where[p] # "final" THEN {final}
                  ELSE {want[p]} \cup (IF spoilt[p] THEN Values \cup {Torn} ELSE {})
    /\ where' = [where EXCEPT ![p] = "closed"] /\ spoilt' = [spoilt EXCEPT ![p] = FALSE]
    /\ Disturbs(p) /\ Comes
    /\ UNCHANGED <<kind, source, staged, want, raced, missed>>

(* Then the temporary file goes, whoever writes it.                        *)
Tidy(p) ==
    /\ Step(p, "tidy", "done")
    /\ staged' = Absent /\ where' = Moved("staged", "gone")
    /\ Disturbs(p)
    /\ UNCHANGED <<kind, source, final, want, spoilt, came, raced, missed>>

(* No mirror is configured: what an earlier setting left is removed, and   *)
(* what the removal says is not looked at.                                 *)
Clear(p) ==
    /\ Step(p, "clear", "done")
    /\ \/ final' = Absent /\ missed' = FALSE /\ where' = Moved("final", "gone")
       \/ final' = final /\ missed' = (final # Absent) /\ UNCHANGED where
    /\ Disturbs(p)
    /\ UNCHANGED <<kind, source, staged, want, spoilt, came, raced>>

(* A run ends where it is: done, failed, or interrupted, a full disk, or a *)
(* VM that goes off.                                                       *)
Stop(p) ==
    /\ pc[p] # "idle" /\ End(p)
    /\ KeepsCalm(p)
    /\ UNCHANGED <<kind, source, files, raced, missed>>

-----------------------------------------------------------------------------
(* The developer puts another file in place on the host, also over one that*)
(* scp reads, or changes the setting; the VM makes an installer archive    *)
(* itself.                                                                 *)
EditSource ==
    /\ kind # "image"
    /\ source' \in (IF kind = "installer" THEN Values ELSE Values \cup {Absent}) \ {source}
    /\ spoilt' = [p \in Procs |-> spoilt[p] \/ (kind \in {"installer", "env"} /\ pc[p] = "copy")]
    /\ raced' = (raced \/ (kind = "installer" /\ \E p \in Procs : pc[p] = "copy"))
    /\ calm' = [p \in Procs |-> FALSE]
    /\ UNCHANGED <<kind, files, pc, want, where, came, missed>>

MakeArchive ==
    /\ kind = "installer" /\ final = Absent
    /\ final' \in Values
    /\ calm' = [p \in Procs |-> FALSE] /\ Comes
    /\ UNCHANGED <<kind, source, staged, pc, want, where, spoilt, raced, missed>>

Next ==
    \/ \E p \in Procs :
          \/ Look(p) \/ Open(p) \/ Finish(p) \/ CurlFails(p) \/ Verify(p)
          \/ Rename(p) \/ Install(p) \/ Installed(p) \/ Tidy(p) \/ Clear(p) \/ Stop(p)
    \/ EditSource \/ MakeArchive

Spec == Init /\ [][Next]_vars

-----------------------------------------------------------------------------
(* Properties.                                                             *)

\* The two kinds that are put in place once, by a rename.
Placed == kind \in {"image", "installer"}

\* A file that is renamed into place never looks complete before it is: under
\* its own name an image or an installer is whole, and an image is the one whose
\* digest is pinned, wherever runs were interrupted and whatever was downloaded -
\* unless a run opened the temporary file while another was at it, or an
\* installer was replaced on the host while it was copied.  The drop-in and
\* vm.env are copied over what is there, and a copy cut short stays as it is
\* till the next run.
FinalIsWhole ==
    /\ Placed /\ ~ raced => final # Torn
    /\ kind = "image" /\ ~ raced => final \in {source, Absent}

\* An image in the cache and an installer on the VM are never replaced, not
\* even by one the VM made itself in the meantime - but by a run that had
\* looked for it before it came.
NothingReplaced ==
    [][final # Absent /\ final' # final /\ kind \in {"image", "installer"}
       => \E p \in Procs : came[p] /\ pc'[p] # pc[p]]_vars

\* When a run is over that nobody disturbed, drop-in and vm.env say what is
\* configured, whatever earlier runs had left or cut short: it gave way, also to
\* nothing - unless the removal failed - except that vm.env, once there, is not
\* taken away.
PlacedIsWanted ==
    \A p \in Procs :
        pc[p] = "done" /\ calm[p] /\ ~ missed =>
            /\ kind = "mirror" => final = source
            /\ kind = "env" => source \in {final, Absent}
            /\ kind \in {"image", "installer"} => final # Absent

-----------------------------------------------------------------------------
(* Why they hold.                                                          *)

\* Where the file a run writes can be.
WhereInv ==
    \A p \in Procs :
        /\ spoilt[p] => pc[p] \in {"copy", "install"}
        /\ where[p] = "final" => \/ kind = "env"
                                 \/ Placed /\ raced /\ final # Absent
                                 \/ kind = "mirror" /\ pc[p] = "install"
        /\ kind = "env" => where[p] # "staged" /\ pc[p] \notin {"verify", "place", "clear"}
        /\ pc[p] \in {"install", "tidy"} => kind = "mirror"
        /\ pc[p] = "verify" => kind = "image"
        /\ pc[p] = "clear" => kind = "mirror" /\ want[p] = Absent

\* While no two runs overlapped, a run has the temporary file to itself.
AloneInv ==
    ~ raced /\ kind # "env" =>
        \A p \in Procs :
            /\ \A q \in Procs : {pc[p], pc[q]} \subseteq Busy => p = q
            /\ ~ spoilt[p]
            /\ pc[p] = "copy" => where[p] = "staged"
            /\ pc[p] = "place" => /\ staged # Torn
                                  /\ kind = "image" => staged = source

\* What an undisturbed run rests on.
CalmInv ==
    \A p \in Procs : calm[p] =>
        /\ pc[p] # "idle" => want[p] = source
        /\ pc[p] = "copy" => where[p] = Target /\ ~ spoilt[p]
        /\ pc[p] = "place" /\ kind = "mirror" => staged = want[p]
        /\ pc[p] = "install" => where[p] = "final" /\ ~ spoilt[p]
        /\ pc[p] = "tidy" => final = want[p]

\* A run still at work found the file missing; if it is there, it came since.
CameInv ==
    \A p \in Procs : Placed =>
        /\ pc[p] \in {"open"} \cup Busy /\ final # Absent => came[p]
        /\ pc[p] = "done" => final # Absent

IInv == /\ TypeOK /\ FinalIsWhole /\ PlacedIsWanted
        /\ WhereInv /\ AloneInv /\ CalmInv /\ CameInv
=============================================================================
