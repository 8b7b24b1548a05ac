------------------------------ MODULE Adoption -------------------------------
(***************************************************************************)
(* Host-key continuity of one VM id: every verb of mpd-virt that opens an  *)
(* ssh connection to the VM, or creates or destroys what is kept for it in *)
(* ~/.mpd-virt/<NNN>/, run by any number of concurrent mpd-virt processes  *)
(* that take no lock.                                                      *)
(*                                                                         *)
(* A machine stands for its ssh host key: a rebuilt VM is another machine. *)
(* An address is not an identity: every connection reaches whichever       *)
(* machine the network delivers it to, so each contact chooses one.        *)
(***************************************************************************)
CONSTANTS Procs,        \* the running mpd-virt processes
          Machines,     \* the machines that can answer, by host key
          Named,        \* those whose hostname is mpd-<NNN>
          Authorized,   \* those that let this host's key in
          None          \* no machine

ASSUME MachineAssumption ==
    /\ None \notin Machines
    /\ Named \subseteq Machines
    /\ Authorized \subseteq Machines

VARIABLES
    dir,       \* ~/.mpd-virt/<NNN>/ exists
    rec,       \* vm.json is in it
    pin,       \* the host key in known_hosts, or None
    ca,        \* the per-VM CA certificate and key are in ca/
    holders,   \* the machines that were sent the per-VM CA key
    pc,        \* where each process is
    seen,      \* the machine a run last identified, or None
    todo,      \* the directory entries a running RemoveAll has left
    \* Two history variables, read by the properties and never by a guard.
    fresh,     \* [p] no pin was discarded since the run computed its target
    vouched    \* vm.json was written by an adoption and its pin was kept since

files == <<dir, rec, pin, ca>>
vars  == <<dir, rec, pin, ca, holders, pc, seen, todo, fresh, vouched>>

Entries == {"rec", "pin", "ca"}

Stages == {"idle",
           "ask", "clear",                               \* create
           "target", "reach", "hostname", "conform",     \* adopt and create
           "keys", "boot", "push", "setup", "record",
           "locate", "aim", "gate", "use", "renote",     \* start, update, server sync
           "note",                                       \* list
           "halt", "wipe"}                               \* stop, remove and uninstall

TypeOK ==
    /\ dir \in BOOLEAN /\ rec \in BOOLEAN /\ ca \in BOOLEAN /\ vouched \in BOOLEAN
    /\ pin \in Machines \cup {None}
    /\ holders \in SUBSET Machines
    /\ pc \in [Procs -> Stages]
    /\ seen \in [Procs -> Machines \cup {None}]
    /\ todo \in [Procs -> SUBSET Entries]
    /\ fresh \in [Procs -> BOOLEAN]

Init ==
    /\ dir = FALSE /\ rec = FALSE /\ pin = None /\ ca = FALSE /\ holders = {}
    /\ pc = [p \in Procs |-> "idle"]
    /\ seen = [p \in Procs |-> None]
    /\ todo = [p \in Procs |-> {}]
    /\ fresh = [p \in Procs |-> FALSE]
    /\ vouched = FALSE

Step(p, from, to) == pc[p] = from /\ pc' = [pc EXCEPT ![p] = to]

-----------------------------------------------------------------------------
(* One ssh connection, StrictHostKeyChecking=accept-new: a pinned key      *)
(* admits only its machine; with none pinned any machine is accepted, and  *)
(* recorded if the directory is there, for ssh never creates it.           *)

\* Mutant of Accepts: StrictHostKeyChecking=no.
AcceptsAnyone(m) == TRUE

Accepts(m) == pin \in {None, m}

\* Mutants of Contact: a key recorded under something that is no machine, and
\* a changed key that is accepted and replaces the one on file.
ContactRecordsAlias(m) ==
    /\ Accepts(m)
    /\ pin' = IF pin = None /\ dir THEN "mpd-NNN" ELSE pin
    /\ UNCHANGED <<dir, rec, ca>>

ContactReplacesPin(m) ==
    /\ pin' = IF dir THEN m ELSE pin
    /\ UNCHANGED <<dir, rec, ca>>

Contact(m) ==
    /\ Accepts(m)
    /\ pin' = IF pin = None /\ dir THEN m ELSE pin
    /\ UNCHANGED <<dir, rec, ca>>

(* A run is over: forget its local state.                                  *)
End(p) ==
    /\ pc' = [pc EXCEPT ![p] = "idle"]
    /\ seen' = [seen EXCEPT ![p] = None]
    /\ todo' = [todo EXCEPT ![p] = {}]
    /\ fresh' = [fresh EXCEPT ![p] = FALSE]

Connected == {"reach", "hostname", "conform", "boot", "push", "setup", "gate", "use"}

(* A run stops: at its end, or at any point before it - no answer, a       *)
(* refused host key, a failed local step, Ctrl-C or a crash.               *)
Stop(p) ==
    /\ pc[p] # "idle"
    /\ End(p)
    /\ UNCHANGED <<dir, rec, pin, ca, holders, vouched>>

(* The machine answered and its key was recorded, and only then did the    *)
(* connection fail: refused key auth, or a remote command that failed.     *)
FailAfterContact(p) ==
    /\ pc[p] \in Connected
    /\ \E m \in Machines : Contact(m)
    /\ End(p)
    /\ UNCHANGED <<holders, vouched>>

-----------------------------------------------------------------------------
(* adopt, and the adoption create ends with.                               *)

BeginAdopt(p) ==
    /\ Step(p, "idle", "target")
    /\ UNCHANGED <<dir, rec, pin, ca, holders, seen, todo, fresh, vouched>>

\* Mutant of AdoptTarget: the known_hosts path is used without making the directory.
AdoptTargetWithoutDir(p) ==
    /\ Step(p, "target", "reach")
    /\ fresh' = [fresh EXCEPT ![p] = TRUE]
    /\ UNCHANGED <<dir, rec, pin, ca, holders, seen, todo, vouched>>

(* vmTarget: the directory is made so that ssh can record the pin in it.   *)
AdoptTarget(p) ==
    /\ Step(p, "target", "reach")
    /\ dir' = TRUE
    /\ fresh' = [fresh EXCEPT ![p] = TRUE]
    /\ UNCHANGED <<rec, pin, ca, holders, seen, todo, vouched>>

CheckReachable(p) ==
    /\ \/ Step(p, "reach", "hostname")
       \/ Step(p, "gate", "use")
    /\ \E m \in Authorized : Contact(m) /\ seen' = [seen EXCEPT ![p] = m]
    /\ UNCHANGED <<holders, todo, fresh, vouched>>

\* Mutant of CheckHostname: any hostname will do.
CheckHostnameOfAnyone(p) ==
    /\ Step(p, "hostname", "conform")
    /\ \E m \in Authorized : Contact(m) /\ seen' = [seen EXCEPT ![p] = m]
    /\ UNCHANGED <<holders, todo, fresh, vouched>>

(* The machine must call itself mpd-<NNN>; a mismatch refuses and keeps    *)
(* whatever key the first contact recorded.                                *)
CheckHostname(p) ==
    /\ pc[p] = "hostname"
    /\ \E m \in Authorized :
          /\ Contact(m)
          /\ \/ /\ m \in Named
                /\ Step(p, "hostname", "conform")
                /\ seen' = [seen EXCEPT ![p] = m]
                /\ UNCHANGED <<todo, fresh>>
             \/ m \notin Named /\ End(p)
    /\ UNCHANGED <<holders, vouched>>

(* Passwordless sudo and the OS release, two commands.                     *)
CheckConformance(p) ==
    /\ pc[p] = "conform"
    /\ \E next \in {"conform", "keys"} : Step(p, "conform", next)
    /\ \E m \in Authorized : Contact(m)
    /\ UNCHANGED <<holders, seen, todo, fresh, vouched>>

(* The root CA and the per-VM CA, generated where missing.                 *)
LoadOrGenerateVM(p) ==
    /\ Step(p, "keys", "boot")
    /\ dir' = TRUE /\ ca' = TRUE
    /\ UNCHANGED <<rec, pin, holders, seen, todo, fresh, vouched>>

(* The four bootstrap steps and the two CA certificates.                   *)
Bootstrap(p) ==
    /\ \E next \in {"boot", "push"} : Step(p, "boot", next)
    /\ \E m \in Authorized : Contact(m)
    /\ UNCHANGED <<holders, seen, todo, fresh, vouched>>

(* scp of the per-VM CA key; without the local file there is no copy.      *)
PushCAKey(p) ==
    /\ Step(p, "push", "setup")
    /\ ca
    /\ \E m \in Authorized : Contact(m) /\ holders' = holders \cup {m}
    /\ UNCHANGED <<seen, todo, fresh, vouched>>

(* LAN names, assets, installers, env, image mirror, then mpd --vm-setup.  *)
SetUp(p) ==
    /\ \E next \in {"setup", "record"} : Step(p, "setup", next)
    /\ \E m \in Authorized : Contact(m)
    /\ UNCHANGED <<holders, seen, todo, fresh, vouched>>

(* registry.Save, then the notes, the ssh-config block and the overlay.    *)
RecordAdopted(p) ==
    /\ Step(p, "record", "use")
    /\ dir' = TRUE /\ rec' = TRUE
    /\ vouched' = fresh[p]
    /\ UNCHANGED <<pin, ca, holders, seen, todo, fresh>>

-----------------------------------------------------------------------------
(* start, update and server sync: an adopted VM, reached by its record.    *)

BeginStart(p) ==
    /\ Step(p, "idle", "locate")
    /\ rec
    /\ UNCHANGED <<dir, rec, pin, ca, holders, seen, todo, fresh, vouched>>

(* The VM answers at the recorded address, or has moved and is re-recorded.*)
SaveMoved(p) ==
    /\ Step(p, "locate", "aim")
    /\ \/ UNCHANGED <<dir, rec>>
       \/ dir' = TRUE /\ rec' = TRUE
    /\ UNCHANGED <<pin, ca, holders, seen, todo, fresh, vouched>>

BeginUpdateOrSync(p) ==
    /\ Step(p, "idle", "aim")
    /\ rec
    /\ UNCHANGED <<dir, rec, pin, ca, holders, seen, todo, fresh, vouched>>

UseTarget(p) ==
    /\ Step(p, "aim", "gate")
    /\ dir' = TRUE
    /\ fresh' = [fresh EXCEPT ![p] = TRUE]
    /\ UNCHANGED <<rec, pin, ca, holders, seen, todo, vouched>>

(* Pushes, upgrades and overlay wiring: any number of connections.         *)
Use(p) ==
    /\ pc[p] = "use"
    /\ \E m \in Authorized : Contact(m)
    /\ UNCHANGED <<holders, pc, seen, todo, fresh, vouched>>

(* syncNotes: reload the record, and write it back when the note changed.  *)
ReloadNote(p) ==
    /\ Step(p, "use", "renote")
    /\ rec
    /\ UNCHANGED <<dir, rec, pin, ca, holders, seen, todo, fresh, vouched>>

SaveReloadedNote(p) ==
    /\ Step(p, "renote", "use")
    /\ dir' = TRUE /\ rec' = TRUE
    /\ UNCHANGED <<pin, ca, holders, seen, todo, fresh, vouched>>

-----------------------------------------------------------------------------
(* stop, and what remove and uninstall do first: gracefulShutdown's two    *)
(* connections, to a target computed without making the directory.         *)

BeginStop(p) ==
    /\ Step(p, "idle", "halt")
    /\ rec
    /\ UNCHANGED <<dir, rec, pin, ca, holders, seen, todo, fresh, vouched>>

GracefulShutdown(p) ==
    /\ pc[p] = "halt"
    /\ \E m \in Machines : Contact(m)
    /\ UNCHANGED <<holders, pc, seen, todo, fresh, vouched>>

-----------------------------------------------------------------------------
(* list: the record is loaded, the network probed, and a changed note      *)
(* written back with the record loaded before.                             *)

ListLoad(p) ==
    /\ Step(p, "idle", "note")
    /\ rec
    /\ UNCHANGED <<dir, rec, pin, ca, holders, seen, todo, fresh, vouched>>

CachedNotes(p) ==
    /\ pc[p] = "note"
    /\ End(p)
    /\ dir' = TRUE /\ rec' = TRUE
    /\ UNCHANGED <<pin, ca, holders, vouched>>

-----------------------------------------------------------------------------
(* RemoveAll of the directory: its entries are read, unlinked one by one   *)
(* in the order they were read, and the directory removed if then empty.   *)

OnDisk == {e \in Entries : \/ e = "rec" /\ rec
                           \/ e = "pin" /\ pin # None
                           \/ e = "ca"  /\ ca}

(* The pin is gone, or the directory that could hold one.                  *)
Discarded == fresh' = [p \in Procs |-> FALSE] /\ vouched' = FALSE

(* remove and uninstall's wipe, at once or after the VM was powered off.   *)
BeginRemove(p) ==
    /\ Step(p, "idle", "wipe") \/ Step(p, "halt", "wipe")
    /\ todo' = [todo EXCEPT ![p] = OnDisk]
    /\ UNCHANGED <<dir, rec, pin, ca, holders, seen, fresh, vouched>>

(* create: nothing on disk, or no record and the clean-up is offered.      *)
BeginCreate(p) ==
    /\ ~ rec
    /\ Step(p, "idle", IF dir THEN "ask" ELSE "target")
    /\ UNCHANGED <<dir, rec, pin, ca, holders, seen, todo, fresh, vouched>>

ConfirmClear(p) ==
    /\ Step(p, "ask", "clear")
    /\ todo' = [todo EXCEPT ![p] = OnDisk]
    /\ UNCHANGED <<dir, rec, pin, ca, holders, seen, fresh, vouched>>

Unlink(p, e) ==
    /\ pc[p] \in {"wipe", "clear"}
    /\ e \in todo[p]
    /\ todo' = [todo EXCEPT ![p] = @ \ {e}]
    /\ \/ e = "rec" /\ rec' = FALSE /\ vouched' = FALSE /\ UNCHANGED <<pin, ca, fresh>>
       \/ e = "pin" /\ pin' = None /\ Discarded /\ UNCHANGED <<rec, ca>>
       \/ e = "ca"  /\ ca' = FALSE /\ UNCHANGED <<rec, pin, fresh, vouched>>
    /\ UNCHANGED <<dir, holders, pc, seen>>

(* An entry that appeared meanwhile keeps the directory: RemoveAll fails.  *)
Rmdir(p) ==
    /\ todo[p] = {}
    /\ OnDisk = {}
    /\ \/ Step(p, "wipe", "idle")
       \/ Step(p, "clear", "target")
    /\ dir' = FALSE
    /\ Discarded
    /\ UNCHANGED <<rec, pin, ca, holders, seen, todo>>

(* ssh-keygen -R, the remedy the refusal names.                            *)
RetirePin ==
    /\ pin # None
    /\ pin' = None
    /\ Discarded
    /\ UNCHANGED <<dir, rec, ca, holders, pc, seen, todo>>

-----------------------------------------------------------------------------
Adopt(p) ==
    \/ BeginAdopt(p) \/ AdoptTarget(p) \/ CheckReachable(p) \/ CheckHostname(p)
    \/ CheckConformance(p) \/ LoadOrGenerateVM(p) \/ Bootstrap(p)
    \/ PushCAKey(p) \/ SetUp(p) \/ RecordAdopted(p)

Operate(p) ==
    \/ BeginStart(p) \/ SaveMoved(p) \/ BeginUpdateOrSync(p) \/ UseTarget(p)
    \/ Use(p) \/ ReloadNote(p) \/ SaveReloadedNote(p)
    \/ BeginStop(p) \/ GracefulShutdown(p) \/ ListLoad(p) \/ CachedNotes(p)

Discarding(p) ==
    \/ BeginRemove(p) \/ BeginCreate(p) \/ ConfirmClear(p) \/ Rmdir(p)
    \/ \E e \in Entries : Unlink(p, e)

Next ==
    \/ \E p \in Procs : \/ Adopt(p) \/ Operate(p) \/ Discarding(p)
                        \/ Stop(p) \/ FailAfterContact(p)
    \/ RetirePin

Spec == Init /\ [][Next]_vars

-----------------------------------------------------------------------------
(* Properties.                                                             *)

\* Stages that follow the run's first contact, and those that follow the
\* hostname check.
Identified == {"hostname", "conform", "keys", "boot", "push", "setup", "record",
               "use", "renote"}
Checked    == {"conform", "keys", "boot", "push", "setup", "record"}

\* vmTarget's promise: after the first contact of a run, every machine it
\* could still reach is that same one, whatever address the connection is
\* sent to and whatever else runs - unless the pin was discarded meanwhile.
SameMachineAfterFirst ==
    \A p \in Procs, m \in Machines :
        pc[p] \in Identified /\ fresh[p] /\ Accepts(m) => m = seen[p]

\* adopt's promise: the per-VM CA key can only land on the machine whose
\* hostname was checked, and that machine called itself mpd-<NNN> - unless
\* the pin was discarded between the check and the copy.
CAKeyOnlyToChecked ==
    \A p \in Procs, m \in Machines :
        pc[p] = "push" /\ fresh[p] /\ Accepts(m) => m = seen[p] /\ m \in Named

\* An adoption outlives its process: until somebody discards the pin, a
\* record written by an adoption is backed by the key of a machine that
\* called itself mpd-<NNN> and let this host in, so no later verb makes a
\* silent first contact.
VouchedRecordIsPinned == vouched => rec /\ pin \in Named \cap Authorized

\* The directory is there whenever something is kept in it; so a connection
\* that has a CA key to send always pins the machine it sends it to.
KeptInDir == rec \/ pin # None \/ ca => dir

\* A run whose pin was not discarded has its directory, and from its first
\* contact on the machine it saw is the pinned one.
RunInv ==
    \A p \in Procs :
        /\ fresh[p] => dir /\ pc[p] \in Identified \cup {"reach", "gate"}
        /\ fresh[p] /\ pc[p] \in Identified => pin = seen[p] /\ pin \in Authorized
        /\ fresh[p] /\ pc[p] \in Checked => pin \in Named

\* The inductive invariant the theorems rest on.
IInv == TypeOK /\ KeptInDir /\ RunInv /\ VouchedRecordIsPinned

\* The files and the connections implement the abstract promise: one trusted
\* machine at a time, and the CA key goes to it alone.
Trust == INSTANCE HostTrust WITH trusted <- pin
TrustSpec == Trust!Spec
=============================================================================
