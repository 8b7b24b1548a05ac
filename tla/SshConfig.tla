------------------------------ MODULE SshConfig ------------------------------
(***************************************************************************)
(* ~/.ssh/config, shared by every VM's managed block and the developer's   *)
(* own lines, and rewritten whole: Write and Strip read it, rebuild it     *)
(* without the VM's block, and write it back, unlocked.  Both run in any   *)
(* number of concurrent mpd-virt processes, each of which may stop in the  *)
(* middle of its write.  Beside it, the records of which VMs there are: by *)
(* them uninstall knows the blocks to strip, and it and remove take them   *)
(* away once the blocks are gone.                                          *)
(*                                                                         *)
(* The file is a sequence of lines; blank lines are left out, and the two  *)
(* stanzas of a block are one line.                                        *)
(***************************************************************************)
EXTENDS Naturals, Sequences, FiniteSets

CONSTANTS Procs,   \* the running mpd-virt processes
          VMs,     \* the adopted VMs
          IPs,     \* the addresses they are found at
          Own,     \* the developer's own lines
          None     \* no VM, no address

ASSUME SshAssumption == None \notin IPs \cup VMs /\ VMs \cap Own = {}

Line(kind, of, ip) == [kind |-> kind, of |-> of, ip |-> ip]
Begin(v)      == Line("begin", v, None)
Stanza(v, ip) == Line("stanza", v, ip)
End(v)        == Line("end", v, None)
OwnLine(o)    == Line("own", o, None)

VARIABLES
    file,      \* the lines of ~/.ssh/config, in order
    rec,       \* each VM's record: none, one that loads, or a broken one
    pc,        \* each process: its stage
    job,       \* each process: the VM, and its address or None for Strip
    buf,       \* each process: the lines it is writing
    todo,      \* each process: the VMs whose blocks it has yet to strip
    drop,      \* each process: the VMs whose records go after that
    \* History variables, read by the properties and never by a guard.
    latest,    \* the address of each VM's block, as last written
    own,       \* the developer's lines, as last edited
    stale,     \* [p] the file changed since p read it
    torn,      \* a write was cut short, or two wrote at once
    lost,      \* a write was torn or based on a stale read
    met,       \* [p] another run recorded or wrote a VM whose record p is to drop,
               \*     or was writing the file as p looked for its block
    adrift     \* the VMs whose record was cut short, or taken away by a run that
               \* was not alone at it or failed to strip them, since their block
               \* was last stripped

sshfile == <<file, buf, latest, own, stale, torn, lost>>
records == <<rec, todo, drop, met, adrift>>
vars    == <<sshfile, records, pc, job>>

NoJob == [vm |-> None, ip |-> None]

Init ==
    /\ file = <<>> /\ rec = [v \in VMs |-> "none"]
    /\ pc = [p \in Procs |-> "idle"]
    /\ job = [p \in Procs |-> NoJob]
    /\ buf = [p \in Procs |-> <<>>]
    /\ todo = [p \in Procs |-> {}] /\ drop = [p \in Procs |-> {}]
    /\ latest = [v \in VMs |-> None]
    /\ own = {}
    /\ stale = [p \in Procs |-> FALSE] /\ torn = FALSE /\ lost = FALSE
    /\ met = [p \in Procs |-> FALSE] /\ adrift = {}

-----------------------------------------------------------------------------
(* stripBlock drops from a begin marker of v to the next end marker of v,  *)
(* or to the end of the file if there is none; render makes a new block.   *)

\* The lines of s at the places in keep, in their order.
Place(keep, i) == Cardinality({j \in keep : j <= i})
Lines(s, keep) ==
    [n \in 1..Cardinality(keep) |-> s[CHOOSE i \in keep : Place(keep, i) = n]]

\* Whether line i of s is inside a block of v, its markers included.
InBlock(s, v, i) ==
    \E b \in 1..i : s[b] = Begin(v) /\ \A k \in b..(i - 1) : s[k] # End(v)

\* Mutant of stripBlock: the end marker is not looked for.
StripToEOF(s, v) ==
    LET keep == {i \in DOMAIN s : \A b \in 1..i : s[b] # Begin(v)}
    IN  SubSeq(s, 1, Cardinality(keep))

\* Mutant of stripBlock: the old block stays.
StripNothing(s, v) == s

stripBlock(s, v) == Lines(s, {i \in DOMAIN s : ~ InBlock(s, v, i)})

\* Mutant of render: no end marker.
RenderOpen(v, ip) == <<Begin(v), Stanza(v, ip)>>

render(v, ip) == <<Begin(v), Stanza(v, ip), End(v)>>

-----------------------------------------------------------------------------
Goto(p, to) == pc' = [pc EXCEPT ![p] = to]

Quit(p) ==
    /\ Goto(p, "idle")
    /\ job' = [job EXCEPT ![p] = NoJob]
    /\ todo' = [todo EXCEPT ![p] = {}] /\ drop' = [drop EXCEPT ![p] = {}]

\* Somebody is about to write v's block.
AtIt(v) == \E q \in Procs : pc[q] # "idle" /\ drop[q] = {} /\ job[q].vm = v

Meets(v) == met' = [q \in Procs |-> met[q] \/ v \in drop[q]]

(* adopt saves the VM's record; start loads it, and saves it if it moved.  *)
Record(p, v) ==
    /\ pc[p] = "idle"
    /\ Goto(p, "block")
    /\ job' = [job EXCEPT ![p].vm = v]
    /\ rec' = [rec EXCEPT ![v] = "loads"]
    /\ IF rec[v] = "loads" THEN UNCHANGED <<met, adrift>>
       ELSE Meets(v) /\ adrift' = adrift \ {v}
    /\ UNCHANGED <<sshfile, todo, drop>>

(* A save truncates first, and may end there.                              *)
RecordCut(p, v) ==
    /\ pc[p] = "idle"
    /\ rec' = [rec EXCEPT ![v] = "broken"]
    /\ adrift' = adrift \cup {v}
    /\ UNCHANGED <<sshfile, pc, job, todo, drop, met>>

\* Mutant of List: the first record that does not load ends the list.
ListUnlessBroken ==
    IF \E v \in VMs : rec[v] = "broken" THEN {} ELSE {v \in VMs : rec[v] = "loads"}

\* What does not load is skipped.
List == {v \in VMs : rec[v] = "loads"}

BeginStrip(p, strips, drops) ==
    /\ pc[p] = "idle"
    /\ Goto(p, "strip")
    /\ todo' = [todo EXCEPT ![p] = strips] /\ drop' = [drop EXCEPT ![p] = drops]
    /\ met' = [met EXCEPT ![p] = FALSE]
    /\ UNCHANGED <<sshfile, job, rec, adrift>>

\* remove asks for no record; uninstall wipes them all; create clears what is
\* left of a VM that has none.
BeginRemove(p)    == \E v \in VMs : BeginStrip(p, {v}, {v})
BeginUninstall(p) == BeginStrip(p, List, VMs)
BeginCreate(p)    == \E v \in VMs : rec[v] = "none" /\ BeginStrip(p, {}, {v})

Rewrite(p, content) ==
    /\ Goto(p, "open")
    /\ buf' = [buf EXCEPT ![p] = content]
    /\ stale' = [stale EXCEPT ![p] = FALSE]
    /\ UNCHANGED <<file, latest, own, torn, lost>>

(* Write: adopt and start put the block of a VM last.                      *)
Write(p, ip) ==
    /\ pc[p] = "block"
    /\ LET v == job[p].vm
       IN  Rewrite(p, stripBlock(file, v) \o render(v, ip))
    /\ job' = [job EXCEPT ![p].ip = ip]
    /\ UNCHANGED records

\* p found v without a block, or left it so - unless another run has the file
\* truncated, or is about to write that block.
Stripped(p, v) ==
    LET blind == \E q \in Procs \ {p} : pc[q] = "write"
    IN  /\ adrift' = IF blind \/ AtIt(v) THEN adrift ELSE adrift \ {v}
        /\ met' = [met EXCEPT ![p] = @ \/ blind]

(* Strip: remove and uninstall; a file without the block may be left alone,*)
(* or written again for its blank lines.                                   *)
Strip(p) ==
    /\ pc[p] = "strip"
    /\ \E v \in todo[p] :
          /\ todo' = [todo EXCEPT ![p] = @ \ {v}]
          /\ \/ /\ stripBlock(file, v) = file
                /\ Stripped(p, v) /\ UNCHANGED <<sshfile, pc, job>>
             \/ /\ Rewrite(p, stripBlock(file, v))
                /\ job' = [job EXCEPT ![p].vm = v]
                /\ UNCHANGED <<met, adrift>>
    /\ UNCHANGED <<rec, drop>>

(* uninstall, which drops every record, goes on when a strip fails.        *)
StripFails(p) ==
    /\ pc[p] = "strip" /\ drop[p] = VMs
    /\ \E v \in todo[p] :
          /\ todo' = [todo EXCEPT ![p] = @ \ {v}]
          /\ adrift' = adrift \cup {v}
    /\ UNCHANGED <<sshfile, pc, job, rec, drop, met>>

\* Of the VMs whose records p drops, those that may keep a block.
Leaves(p, vs) == {v \in vs : rec[v] = "loads" /\ (met[p] \/ AtIt(v))}

(* Then the records go, one directory after the other: to the last of them,*)
(* or as far as it gets.                                                   *)
Forget(p) ==
    /\ pc[p] = "strip" /\ todo[p] = {}
    /\ \E vs \in SUBSET drop[p] :
          /\ rec' = [v \in VMs |-> IF v \in vs THEN "none" ELSE rec[v]]
          /\ adrift' = adrift \cup Leaves(p, vs)
    /\ Quit(p) /\ met' = [met EXCEPT ![p] = FALSE]
    /\ UNCHANGED sshfile

\* p changed the file under those who have read it.
Changed(p) ==
    stale' = [q \in Procs |-> IF q = p THEN stale[q] /\ pc[q] = "open"
                              ELSE stale[q] \/ pc[q] \in {"open", "write"}]

(* os.WriteFile: truncate ...                                              *)
Open(p) ==
    /\ pc[p] = "open"
    /\ Goto(p, "write")
    /\ file' = <<>>
    /\ Changed(p)
    /\ UNCHANGED <<records, job, buf, latest, own, torn, lost>>

\* ... and write from the start: what another run has written since, and is
\* longer, shows behind it.
Over(s) == s \o SubSeq(file, Len(s) + 1, Len(file))

Overlaps(p) == file # <<>> \/ \E q \in Procs \ {p} : pc[q] = "write"

Fill(p) ==
    /\ pc[p] = "write"
    /\ file' = Over(buf[p])
    /\ latest' = [latest EXCEPT ![job[p].vm] = job[p].ip]
    /\ torn' = (torn \/ Overlaps(p))
    /\ lost' = (lost \/ torn' \/ stale[p])
    /\ buf' = [buf EXCEPT ![p] = <<>>]
    /\ Changed(p)
    /\ IF drop[p] = {}
       THEN Quit(p) /\ Meets(job[p].vm) /\ UNCHANGED adrift
       ELSE /\ Goto(p, "strip") /\ job' = [job EXCEPT ![p] = NoJob]
            /\ Stripped(p, job[p].vm) /\ UNCHANGED <<todo, drop>>
    /\ UNCHANGED <<rec, own>>

(* Interrupted before the write, or with any part of it done.              *)
Stop(p) ==
    /\ pc[p] # "idle"
    /\ Quit(p)
    /\ \/ /\ pc[p] # "write" /\ UNCHANGED <<file, torn, lost>>
          /\ stale' = [stale EXCEPT ![p] = FALSE]
       \/ /\ pc[p] = "write"
          /\ \E n \in 0..(Len(buf[p]) - 1) : file' = Over(SubSeq(buf[p], 1, n))
          /\ torn' = TRUE /\ lost' = TRUE
          /\ Changed(p)
    /\ buf' = [buf EXCEPT ![p] = <<>>]
    /\ met' = [met EXCEPT ![p] = FALSE]
    /\ UNCHANGED <<latest, own, rec, adrift>>

(* The developer adds or deletes a line of their own - not in the instant  *)
(* in which a run has the file truncated.                                  *)
EditOwn(o) ==
    /\ \A p \in Procs : pc[p] # "write"
    /\ IF \E i \in DOMAIN file : file[i] = OwnLine(o)
       THEN own' = own \ {o} /\ file' = Lines(file, {i \in DOMAIN file : file[i] # OwnLine(o)})
       ELSE own' = own \cup {o} /\ file' = Append(file, OwnLine(o))
    /\ stale' = [p \in Procs |-> pc[p] = "open"]
    /\ UNCHANGED <<records, pc, job, buf, latest, torn, lost>>

Next ==
    \/ \E p \in Procs :
          \/ \E v \in VMs : Record(p, v) \/ RecordCut(p, v)
          \/ BeginRemove(p) \/ BeginUninstall(p) \/ BeginCreate(p)
          \/ \E ip \in IPs : Write(p, ip)
          \/ Open(p) \/ Fill(p) \/ Strip(p) \/ StripFails(p)
          \/ Forget(p) \/ Stop(p)
    \/ \E o \in Own : EditOwn(o)

Spec == Init /\ [][Next]_vars

-----------------------------------------------------------------------------
(* Properties.                                                             *)

AtRest == \A p \in Procs : pc[p] # "write"

\* Every VM written and not stripped since has its one block, with the address
\* written last, whole; every other has none - unless a write was torn or
\* based on a stale read.
BlocksAreLatest ==
    AtRest /\ ~ lost =>
        \A v \in VMs :
            LET mine == {i \in DOMAIN file : file[i].of = v}
            IN  Lines(file, mine) = IF latest[v] = None THEN <<>> ELSE render(v, latest[v])

\* No block is left behind: a VM that has one has a record, by which uninstall
\* finds it, whatever was adopted, removed and wiped at once - unless its
\* record was cut short, uninstall failed to strip it, or its record went while
\* another run was recording or writing that VM.
BlocksAreRecorded ==
    AtRest /\ ~ lost =>
        \A v \in VMs :
            (\E i \in DOMAIN file : file[i].of = v) => rec[v] = "loads" \/ v \in adrift

\* The developer's own lines survive every rewrite, once each.
OwnLinesKept ==
    AtRest /\ ~ lost =>
        \A o \in Own :
            Cardinality({i \in DOMAIN file : file[i] = OwnLine(o)}) = IF o \in own THEN 1 ELSE 0

\* Whatever stale reads bring back or lose, unless a write was cut short or
\* two wrote at once each block can be taken out without touching a line of
\* another VM or of the developer.
StripsCleanly ==
    ~ torn =>
        \A v \in VMs :
            stripBlock(file, v) = Lines(file, {i \in DOMAIN file : file[i].of # v})

-----------------------------------------------------------------------------
(* Why they hold: what the file shows, and what each run is about to write.*)

AnyLine ==
    {Begin(v) : v \in VMs} \cup {Stanza(v, ip) : v \in VMs, ip \in IPs}
        \cup {End(v) : v \in VMs} \cup {OwnLine(o) : o \in Own}

FileType ==
    /\ file \in Seq(AnyLine) /\ buf \in [Procs -> Seq(AnyLine)]
    /\ latest \in [VMs -> IPs \cup {None}] /\ own \subseteq Own
    /\ stale \in [Procs -> BOOLEAN] /\ torn \in BOOLEAN /\ lost \in BOOLEAN

RecordType ==
    /\ rec \in [VMs -> {"none", "loads", "broken"}]
    /\ todo \in [Procs -> SUBSET VMs] /\ drop \in [Procs -> SUBSET VMs]
    /\ met \in [Procs -> BOOLEAN] /\ adrift \subseteq VMs

RunType ==
    /\ pc \in [Procs -> {"idle", "block", "strip", "open", "write"}]
    /\ job \in [Procs -> [vm : VMs \cup {None}, ip : IPs \cup {None}]]

TypeOK == FileType /\ RecordType /\ RunType

Writing(p) == pc[p] \in {"open", "write"}

\* What a run works on, stage by stage: whoever records and writes a VM's block
\* drops no record, and whoever strips blocks drops those VMs' records.
StageInv ==
    \A p \in Procs :
        /\ todo[p] \subseteq drop[p]
        /\ pc[p] \in {"idle", "block"} => drop[p] = {}
        /\ pc[p] \in {"idle", "strip"} => job[p] = NoJob
        /\ pc[p] = "block" => job[p].vm \in VMs
        /\ Writing(p) /\ job[p].ip # None => job[p].vm \in VMs /\ drop[p] = {}
        /\ Writing(p) /\ job[p].ip = None => job[p].vm \in drop[p] \ todo[p]

\* v's block is at b: its marker, its stanzas, its marker.
Block(s, b, v, ip) ==
    /\ b + 2 \in DOMAIN s
    /\ s[b] = Begin(v) /\ s[b + 1] = Stanza(v, ip) /\ s[b + 2] = End(v)

\* Every line is the developer's or one of a whole block.
Whole(s) ==
    \A i \in DOMAIN s :
        s[i].kind # "own" =>
            \E b \in 1..i, ip \in IPs : i <= b + 2 /\ Block(s, b, s[i].of, ip)

\* Until a write is torn, writers find an empty file, and write whole blocks.
WholeInv ==
    ~ torn =>
        /\ Whole(file)
        /\ \A p \in Procs : pc[p] = "write" => file = <<>>
        /\ \A p \in Procs : Writing(p) => Whole(buf[p])

\* v has this one block, or none; the developer's lines are these, once each.
Shows(s, v, ip) ==
    IF ip = None THEN \A i \in DOMAIN s : s[i].of # v
    ELSE \E b \in 1..Len(s) :
            Block(s, b, v, ip) /\ \A i \in DOMAIN s : s[i].of = v => i \in b..(b + 2)

Holds(s, lines) ==
    \A o \in Own :
        /\ o \in lines <=> \E i \in DOMAIN s : s[i] = OwnLine(o)
        /\ \A i, j \in DOMAIN s : s[i] = OwnLine(o) /\ s[j] = OwnLine(o) => i = j

\* Until an update is lost, the file at rest shows what was written last, and so
\* will it once a run that read it so has written.
LatestInv ==
    /\ torn => lost
    /\ ~ lost =>
          /\ AtRest => Holds(file, own) /\ \A v \in VMs : Shows(file, v, latest[v])
          /\ \A p \in Procs :
                /\ Writing(p) /\ ~ stale[p]
                /\ \A q \in Procs \ {p} : pc[q] # "write"
                => /\ Holds(buf[p], own)
                   /\ \A v \in VMs :
                         Shows(buf[p], v, IF v = job[p].vm THEN job[p].ip ELSE latest[v])

Recorded(v) == rec[v] = "loads" \/ v \in adrift

\* Whoever writes a block does so under a record.
WriterInv ==
    \A p \in Procs :
        pc[p] = "block" \/ (Writing(p) /\ job[p].ip # None) => Recorded(job[p].vm)

\* A record that a run is to drop, if nobody met it there, has no block any more
\* once the run is past it.
DropInv ==
    ~ lost =>
        \A p \in Procs : ~ met[p] =>
            \A v \in drop[p] \ (todo[p] \cup {job[p].vm}) :
                rec[v] = "loads" /\ latest[v] # None => v \in adrift

\* What is shown has a record.
RecordInv == ~ lost => \A v \in VMs : latest[v] # None => Recorded(v)

IInv == TypeOK /\ StageInv /\ WholeInv /\ LatestInv /\ WriterInv /\ DropInv /\ RecordInv
=============================================================================
