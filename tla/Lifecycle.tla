------------------------------ MODULE Lifecycle ------------------------------
(***************************************************************************)
(* The VM object at its hypervisor - made by create, powered by start, stop*)
(* and remove, destroyed by remove --full and by a failed create's clean-  *)
(* up - against the record mpd-virt keeps of it.  One VM, on any of the six*)
(* backends.  Every question to a hypervisor may go unanswered (its CLI,   *)
(* its API or its token fails), and is then taken for a VM in an unknown   *)
(* state, or for none; concurrent runs, and the user in the hypervisor's   *)
(* own UI, change the object in between.                                   *)
(***************************************************************************)
EXTENDS Naturals

CONSTANTS Procs,     \* the running mpd-virt processes
          Backends,  \* the backends the VM may be of
          MaxPolls,  \* polls before a wait gives up
          None       \* no process

Known == {"container", "utm", "libvirt", "proxmox", "parallels", "generic"}

ASSUME LifecycleAssumption ==
    /\ Backends \subseteq Known
    /\ MaxPolls \in Nat
    /\ None \notin Procs

VARIABLES
    be,         \* the VM's backend
    silent,     \* whether its hypervisor may leave a question unanswered
    obj,        \* the object: absent, off, suspended or active
    defined,    \* libvirt still has the definition of an active object
    maker,      \* the create that made the object, or None: made by hand
    disk,       \* libvirt, utm: the create whose files are under the VM's name
    rec,        \* vm.json is on file
    pc, verb,   \* each process: its stage and its verb
    prior,      \* each process: the state its backend reported last
    left,       \* each process: polls left
    \* History variables, read by the properties and never by a guard.
    calm,       \* [p] nobody but p and the guest changed the object since p began
    blind       \* a create or a delete took a silent hypervisor for one without
                \* the VM, or a create's files were replaced by another's

env    == <<be, silent>>
object == <<env, obj, defined, maker, disk>>
vars   == <<object, rec, pc, verb, prior, left, calm, blind>>

Active    == {"running", "stopping", "paused"}
Answers   == {"unknown", "running", "stopped", "suspended", "paused", "absent"}
Deletable == {"container", "utm", "libvirt", "proxmox"}  \* create makes these, too
Verbs     == {"none", "create", "adopt", "start", "stop", "remove", "full"}
Ends      == {"refused", "failed", "kept", "late", "done", "removed"}
Stages    == {"idle", "exists", "wipe", "files", "make", "boot", "await", "cleanup",
              "adopt", "probe", "poweron", "locate", "poweroff", "shutdown", "waitoff",
              "delete", "kill", "killed", "destroy", "unlink", "forget", "hung"} \cup Ends

TypeOK ==
    /\ be \in Backends /\ silent \in BOOLEAN
    /\ obj \in {"absent", "off", "suspended"} \cup Active
    /\ defined \in BOOLEAN /\ (obj = "absent" => ~ defined)
    /\ obj # "absent" /\ ~ defined => obj \in Active /\ be = "libvirt"
    /\ maker \in Procs \cup {None} /\ disk \in Procs \cup {None}
    /\ rec \in BOOLEAN /\ blind \in BOOLEAN
    /\ pc \in [Procs -> Stages] /\ verb \in [Procs -> Verbs]
    /\ prior \in [Procs -> Answers]
    /\ left \in [Procs -> 0..MaxPolls] /\ calm \in [Procs -> BOOLEAN]

\* There may be a VM, made by hand, to adopt.
Init ==
    /\ be \in Backends /\ silent \in BOOLEAN
    /\ obj \in {"absent", "off", "running"} /\ defined = (obj # "absent")
    /\ maker = None /\ disk = None /\ rec = FALSE
    /\ pc = [p \in Procs |-> "idle"] /\ verb = [p \in Procs |-> "none"]
    /\ prior = [p \in Procs |-> "unknown"] /\ left = [p \in Procs |-> 0]
    /\ calm = [p \in Procs |-> FALSE] /\ blind = FALSE

-----------------------------------------------------------------------------
(* What each backend's State makes of the object: the hypervisor's word,   *)
(* normalized.  A word in between is unknown, and so is "shut off".        *)

Normalize ==
    CASE obj = "off"      -> {"stopped"}
      [] obj = "stopping" -> {"running", "unknown"}
      [] OTHER            -> {obj}

UTMStatus == IF obj = "absent" THEN {"absent"} ELSE Normalize

LibvirtState == IF obj \in {"absent", "off"} THEN {"unknown"} ELSE Normalize

ProxmoxState ==
    CASE obj = "absent" -> {"unknown"}
      [] obj = "off"    -> {"stopped"}
      [] OTHER          -> {"running"}

ParallelsState == IF obj = "absent" THEN {"unknown"} ELSE Normalize
ContainerState == IF obj = "absent" THEN {"unknown"} ELSE Normalize

State ==
    (CASE be = "container" -> ContainerState
       [] be = "utm"       -> UTMStatus
       [] be = "libvirt"   -> LibvirtState
       [] be = "proxmox"   -> ProxmoxState
       [] be = "parallels" -> ParallelsState
       [] OTHER            -> {"unknown"})
    \cup (IF silent THEN {"unknown"} ELSE {})

\* The answers to "is there a VM of that name?": silence is taken for no.
Exists == {obj # "absent"} \cup (IF silent THEN {FALSE} ELSE {})

\* Whether the VM is off, as waitOff asks: by its state, or by a quiet ssh port.
Off ==
    IF be = "generic"
    THEN {~ rec \/ obj # "running"} \cup (IF silent \/ obj = "stopping" THEN BOOLEAN ELSE {})
    ELSE {(st \in {"stopped", "absent"}) : st \in State}

Goto(p, to) == pc' = [pc EXCEPT ![p] = to]

\* The object becomes o; one that goes off undefined is gone.
Moves(o) ==
    /\ obj' = IF o = "off" /\ ~ defined THEN "absent" ELSE o
    /\ defined' = (defined /\ o # "absent")
    /\ maker' = IF obj' = "absent" THEN None ELSE maker
    /\ UNCHANGED <<env, disk>>

\* It does so at p's hand, which the runs other than p did not expect.
Disturbs(p) == calm' = [q \in Procs |-> q = p /\ calm[q]]

Becomes(p, o) == Moves(o) /\ (IF obj' = obj THEN UNCHANGED calm ELSE Disturbs(p))

Same == UNCHANGED <<object, calm>>

Begin(p, v, to) ==
    /\ pc[p] = "idle"
    /\ Goto(p, to)
    /\ verb' = [verb EXCEPT ![p] = v]
    /\ calm' = [calm EXCEPT ![p] = TRUE]
    /\ UNCHANGED <<object, rec, prior, left, blind>>

Leave(p, to) ==
    /\ Goto(p, to)
    /\ verb' = [verb EXCEPT ![p] = "none"]
    /\ prior' = [prior EXCEPT ![p] = "unknown"]
    /\ left' = [left EXCEPT ![p] = 0]
    /\ calm' = [calm EXCEPT ![p] = FALSE]
    /\ UNCHANGED <<object, rec, blind>>

(* A run ends by itself, or is interrupted anywhere, with no clean-up.     *)
Finish(p) == pc[p] \in Ends /\ Leave(p, "idle")

Crash(p) == pc[p] \notin Ends \cup {"idle"} /\ Leave(p, "idle")

(* A command it runs never returns, whatever it did, and nobody waits with *)
(* a deadline: the run stays where it is until the user interrupts it.     *)
Hang(p) == pc[p] \notin Ends \cup {"idle", "hung"} /\ Leave(p, "hung")

-----------------------------------------------------------------------------
(* create.                                                                 *)

\* clearLeftoverState turns back an adopted VM; a backend whose VMs are only
\* adopted turns back the rest.
BeginCreate(p) ==
    /\ ~ rec
    /\ Begin(p, "create", IF be \in Deletable THEN "exists" ELSE "refused")

\* Mutant of CheckExists: what is there is not asked.
CheckNothing(p) ==
    /\ pc[p] = "exists"
    /\ Goto(p, IF be \in {"utm", "libvirt"} THEN "wipe" ELSE "make")
    /\ UNCHANGED <<blind, object, rec, verb, prior, left, calm>>

CheckExists(p) ==
    /\ pc[p] = "exists"
    /\ \E there \in Exists :
          /\ Goto(p, IF there THEN "refused"
                     ELSE IF be \in {"utm", "libvirt"} THEN "wipe" ELSE "make")
          /\ blind' = (blind \/ (obj # "absent" /\ ~ there))
    /\ UNCHANGED <<object, rec, verb, prior, left, calm>>

\* The files p is about to replace or remove became another create's since p began.
Crossed(p) == \/ obj # "absent" /\ ~ calm[p]
              \/ \E q \in Procs \ {p} : pc[q] = "make"

(* The directory of a create's files is emptied first ...                  *)
WipeFiles(p) ==
    /\ pc[p] = "wipe"
    /\ disk' = None
    /\ blind' = (blind \/ Crossed(p))
    /\ Goto(p, "files")
    /\ UNCHANGED <<env, obj, defined, maker, rec, verb, prior, left, calm>>

(* ... and filled: utm does not go on over a disk that is there by then,   *)
(* libvirt's is converted over it; either may fail, also half-way.         *)
MaterializeDisk(p) ==
    /\ pc[p] = "files"
    /\ \/ /\ be = "utm" => disk = None
          /\ disk' = p
          /\ Goto(p, "make") \/ Goto(p, "failed")
          /\ blind' = (blind \/ Crossed(p))
       \/ UNCHANGED <<disk, blind>> /\ Goto(p, "failed")
    /\ UNCHANGED <<env, obj, defined, maker, rec, verb, prior, left, calm>>

\* Mutant of Make: the object is made without a definition, as virsh create does.
MakeTransient(p) ==
    /\ pc[p] = "make"
    /\ obj = "absent"
    /\ obj' = IF be = "container" THEN "running" ELSE "off"
    /\ maker' = p /\ Disturbs(p)
    /\ Goto(p, IF be = "container" THEN "await" ELSE "boot")
    /\ UNCHANGED <<env, defined, disk, rec, verb, prior, left, blind>>

(* container run, make new virtual machine, virsh define, or the clone: no *)
(* two objects have one name.  A container runs at once.  A command that   *)
(* did its work may still be reported as failed.                           *)
Make(p) ==
    /\ pc[p] = "make"
    /\ obj = "absent"
    /\ obj' = IF be = "container" THEN "running" ELSE "off"
    /\ defined' = TRUE /\ maker' = p /\ Disturbs(p)
    /\ \/ Goto(p, IF be = "container" THEN "await" ELSE "boot")
       \/ silent /\ Goto(p, "failed")
    /\ UNCHANGED <<env, disk, rec, verb, prior, left, blind>>

MakeFailed(p) ==
    /\ pc[p] = "make"
    /\ Goto(p, "failed")
    /\ UNCHANGED <<object, rec, verb, prior, left, calm, blind>>

(* Configured and started.                                                 *)
Boot(p) ==
    /\ pc[p] = "boot"
    /\ obj = "off"
    /\ Goto(p, "await")
    /\ Becomes(p, "running")
    /\ UNCHANGED <<rec, verb, prior, left, blind>>

(* The VM answers on ssh and its cloud-init is done, or the container has  *)
(* its user and an address: it is adopted.  UTM's copy of the files is in  *)
(* its bundle, and the staged ones go.                                     *)
Await(p) ==
    /\ pc[p] = "await"
    /\ obj = "running"
    /\ Goto(p, "adopt")
    /\ disk' = IF be = "utm" THEN None ELSE disk
    /\ UNCHANGED <<env, obj, defined, maker, rec, verb, prior, left, calm, blind>>

\* Mutant of CreateFailed: nobody cleans up.
LeaveHalfBuilt(p) ==
    /\ pc[p] \in {"boot", "await"}
    /\ Goto(p, "failed")
    /\ UNCHANGED <<object, rec, verb, prior, left, calm, blind>>

(* Either took too long, or failed: utm and libvirt remove what they made. *)
CreateFailed(p) ==
    /\ pc[p] \in {"boot", "await"}
    /\ Goto(p, CASE be = "libvirt" -> "delete"
                 [] be = "utm"     -> "cleanup"
                 [] OTHER          -> "failed")
    /\ UNCHANGED <<object, rec, verb, prior, left, calm, blind>>

(* One delete command, its outcome ignored; UTM may refuse it for a VM that*)
(* is not off.  The staged files go in any case.                           *)
CleanUp(p) ==
    /\ pc[p] = "cleanup"
    /\ disk' = None
    /\ Goto(p, "failed")
    /\ \/ /\ obj' = "absent" /\ defined' = FALSE /\ maker' = None
          /\ IF obj = "absent" THEN UNCHANGED calm ELSE Disturbs(p)
       \/ /\ silent \/ obj # "off"
          /\ UNCHANGED <<obj, defined, maker, calm>>
    /\ UNCHANGED <<env, rec, verb, prior, left, blind>>

(* runAdopt (see Adoption): the record is written last, or never.          *)
BeginAdopt(p) == Begin(p, "adopt", "adopt")

Adopt(p) ==
    /\ pc[p] = "adopt"
    /\ Goto(p, "done")
    /\ \/ obj = "running" /\ rec' = TRUE
       \/ UNCHANGED rec
    /\ UNCHANGED <<object, verb, prior, left, calm, blind>>

-----------------------------------------------------------------------------
(* Each backend's Power: what its verb does to the VM, if it is obeyed.    *)

ContainerPower(p, v) ==
    \/ v = "start" /\ obj = "off" /\ Becomes(p, "running")
    \/ v = "stop" /\ obj \in Active /\ Becomes(p, "off")

\* UTM starts a paused VM, too, and stops one by asking its guest.
UTMPower(p, v) ==
    \/ v = "start" /\ obj \in {"off", "paused"} /\ Becomes(p, "running")
    \/ v = "stop" /\ obj = "running" /\ Becomes(p, "stopping")

\* virsh start, virsh shutdown.
LibvirtPower(p, v) ==
    \/ v = "start" /\ obj = "off" /\ Becomes(p, "running")
    \/ v = "stop" /\ obj = "running" /\ Becomes(p, "stopping")

\* The API's start and shutdown, of a VM findVM finds.
ProxmoxPower(p, v) ==
    \/ v = "start" /\ obj = "off" /\ Becomes(p, "running")
    \/ v = "stop" /\ obj = "running" /\ Becomes(p, "stopping")

\* A VM last seen suspended or paused is resumed; whether start wakes a
\* suspended one depends on the release.
ParallelsPower(p, v) ==
    \/ /\ v = "start" /\ Becomes(p, "running")
       /\ IF prior[p] \in {"suspended", "paused"} THEN obj \in {"suspended", "paused"}
                                                  ELSE obj \in {"off", "suspended"}
    \/ v = "stop" /\ obj = "running" /\ Becomes(p, "stopping")

\* It may always be refused, unheard or to no effect; generic has no verbs.
IssueVerb(p, v) ==
    \/ Same
    \/ be = "container" /\ ContainerPower(p, v)
    \/ be = "utm" /\ UTMPower(p, v)
    \/ be = "libvirt" /\ LibvirtPower(p, v)
    \/ be = "proxmox" /\ ProxmoxPower(p, v)
    \/ be = "parallels" /\ ParallelsPower(p, v)

-----------------------------------------------------------------------------
(* start and stop.                                                         *)

BeginStart(p) == rec /\ Begin(p, "start", "probe")
BeginStop(p)  == rec /\ Begin(p, "stop", "poweroff")

(* A VM that is known to run is left alone.                                *)
ProbeState(p) ==
    /\ pc[p] = "probe"
    /\ \E st \in State :
          /\ prior' = [prior EXCEPT ![p] = st]
          /\ Goto(p, IF st = "running" THEN "locate" ELSE "poweron")
    /\ left' = [left EXCEPT ![p] = MaxPolls]
    /\ UNCHANGED <<object, rec, verb, calm, blind>>

PowerOn(p) ==
    /\ pc[p] = "poweron"
    /\ Goto(p, "locate")
    /\ IssueVerb(p, "start")
    /\ UNCHANGED <<rec, verb, prior, left, blind>>

(* The address is looked for until the VM answers at one (see Overlay for  *)
(* who else may), or the time is up.                                       *)
Locate(p) ==
    /\ pc[p] = "locate"
    /\ \/ obj = "running" /\ Goto(p, "done") /\ UNCHANGED left
       \/ left[p] > 0 /\ left' = [left EXCEPT ![p] = @ - 1] /\ UNCHANGED pc
       \/ left[p] = 0 /\ Goto(p, "late") /\ UNCHANGED left
    /\ UNCHANGED <<object, rec, verb, prior, calm, blind>>

\* Where a verb goes once the VM is off, or has been waited for in vain.
AfterOff(p) ==
    CASE verb[p] = "stop"   -> "done"
      [] verb[p] = "remove" -> "forget"
      [] OTHER              -> "delete"

PowerOff(p) ==
    /\ pc[p] = "poweroff"
    /\ \E st \in State :
          Goto(p, IF st \in {"stopped", "absent"} THEN AfterOff(p) ELSE "shutdown")
    /\ UNCHANGED <<object, rec, verb, prior, left, calm, blind>>

(* systemctl poweroff in a guest that is on record and answers, or the     *)
(* backend's stop verb; the outcome of neither is looked at.               *)
GracefulShutdown(p) ==
    /\ pc[p] = "shutdown"
    /\ Goto(p, "waitoff")
    /\ left' = [left EXCEPT ![p] = MaxPolls]
    /\ \/ rec /\ obj = "running" /\ Becomes(p, "stopping")
       \/ IssueVerb(p, "stop")
    /\ UNCHANGED <<rec, verb, prior, blind>>

\* Mutant of WaitOff: no deadline.
WaitOffForever(p) ==
    /\ pc[p] = "waitoff"
    /\ \E off \in Off : IF off THEN Goto(p, AfterOff(p)) ELSE UNCHANGED pc
    /\ UNCHANGED <<object, rec, verb, prior, left, calm, blind>>

\* Mutant of WaitOff: whatever is not known to run is off.
WaitNotRunning(p) ==
    /\ pc[p] = "waitoff"
    /\ \E st \in State : st # "running"
    /\ Goto(p, AfterOff(p))
    /\ UNCHANGED <<object, rec, verb, prior, left, calm, blind>>

\* A remove goes on from a vain wait; a stop is over.
WaitOff(p) ==
    /\ pc[p] = "waitoff"
    /\ \/ TRUE \in Off /\ Goto(p, AfterOff(p)) /\ UNCHANGED left
       \/ FALSE \in Off /\ left[p] > 0
          /\ left' = [left EXCEPT ![p] = @ - 1] /\ UNCHANGED pc
       \/ FALSE \in Off /\ left[p] = 0
          /\ Goto(p, IF verb[p] = "stop" THEN "late" ELSE AfterOff(p)) /\ UNCHANGED left
    /\ UNCHANGED <<object, rec, verb, prior, calm, blind>>

-----------------------------------------------------------------------------
(* remove and remove --full.                                               *)

BeginRemove(p) == Begin(p, "remove", IF rec THEN "poweroff" ELSE "forget")

\* Without a record the backend is unknown; not every one can delete.
BeginFull(p) ==
    Begin(p, "full", IF ~ rec \/ be \notin Deletable THEN "kept"
                     ELSE IF be = "container" THEN "poweroff" ELSE "delete")

Deleted(p)    == Goto(p, IF verb[p] = "full" THEN "forget" ELSE "failed")
NotDeleted(p) == Goto(p, IF verb[p] = "full" THEN "kept" ELSE "failed")

\* Mutant of ContainerDelete: the command's exit code is not looked at.
ContainerDeleteUnchecked(p) ==
    /\ pc[p] = "delete" /\ be = "container"
    /\ Deleted(p)
    /\ \/ obj = "off" /\ Becomes(p, "absent")
       \/ (obj # "off" \/ silent) /\ Same
    /\ UNCHANGED <<rec, verb, prior, left, blind>>

(* container delete: no container, or one that runs, is an error, and one  *)
(* that was deleted may be reported as one, too.                           *)
ContainerDelete(p) ==
    /\ pc[p] = "delete" /\ be = "container"
    /\ \/ obj = "off" /\ Becomes(p, "absent") /\ (Deleted(p) \/ (silent /\ NotDeleted(p)))
       \/ (obj # "off" \/ silent) /\ Same /\ NotDeleted(p)
    /\ UNCHANGED <<rec, verb, prior, left, blind>>

(* utm and proxmox look for the VM first, and take none for a deleted one; *)
(* one that is not off is stopped hard.                                    *)
LookForVM(p) ==
    /\ pc[p] = "delete" /\ be \in {"utm", "proxmox"}
    /\ \E there \in Exists, st \in IF be = "utm" THEN State ELSE ProxmoxState :
          /\ blind' = (blind \/ (obj # "absent" /\ ~ there))
          /\ IF ~ there THEN Deleted(p)
             ELSE Goto(p, IF st = "stopped" THEN "destroy" ELSE "kill")
    /\ UNCHANGED <<object, rec, verb, prior, left, calm>>

(* stop by force, its outcome ignored; then UTM is asked until it says the *)
(* VM is stopped.                                                          *)
UTMKill(p) ==
    /\ pc[p] = "kill" /\ be = "utm"
    /\ Goto(p, "killed")
    /\ left' = [left EXCEPT ![p] = MaxPolls]
    /\ \/ obj \in Active /\ Becomes(p, "off")
       \/ (obj \notin Active \/ silent) /\ Same
    /\ UNCHANGED <<rec, verb, prior, blind>>

WaitVMStopped(p) ==
    /\ pc[p] = "killed"
    /\ \E st \in State :
          \/ st = "stopped" /\ Goto(p, "destroy") /\ UNCHANGED left
          \/ st # "stopped" /\ left[p] > 0
             /\ left' = [left EXCEPT ![p] = @ - 1] /\ UNCHANGED pc
          \/ st # "stopped" /\ left[p] = 0 /\ NotDeleted(p) /\ UNCHANGED left
    /\ UNCHANGED <<object, rec, verb, prior, calm, blind>>

\* A Proxmox task is waited for: it did its work, and may not be heard of.
WaitTask(p, done) == done \/ (silent /\ NotDeleted(p))

ProxmoxKill(p) ==
    /\ pc[p] = "kill" /\ be = "proxmox"
    /\ \/ obj \in Active \cup {"off"} /\ Becomes(p, "off") /\ WaitTask(p, Goto(p, "destroy"))
       \/ (obj = "absent" \/ silent) /\ Same /\ NotDeleted(p)
    /\ UNCHANGED <<rec, verb, prior, left, blind>>

(* The object and its disks go, if it is off.                              *)
Destroy(p) ==
    /\ pc[p] = "destroy" /\ be \in {"utm", "proxmox"}
    /\ \/ obj = "off" /\ Becomes(p, "absent") /\ WaitTask(p, Deleted(p))
       \/ (obj # "off" \/ silent) /\ Same /\ NotDeleted(p)
    /\ UNCHANGED <<rec, verb, prior, left, blind>>

(* libvirt: only a domain virsh calls running is destroyed first.          *)
LookForRunning(p) ==
    /\ pc[p] = "delete" /\ be = "libvirt"
    /\ \E st \in State : Goto(p, IF st = "running" THEN "kill" ELSE "destroy")
    /\ UNCHANGED <<object, rec, verb, prior, left, calm, blind>>

\* virsh destroy, its outcome ignored.
VirshDestroy(p) ==
    /\ pc[p] = "kill" /\ be = "libvirt"
    /\ Goto(p, "destroy")
    /\ \/ obj \in Active /\ Becomes(p, "off")
       \/ (obj \notin Active \/ silent) /\ Same
    /\ UNCHANGED <<rec, verb, prior, left, blind>>

(* virsh undefine, of a domain that dominfo knows: one that is active goes *)
(* on without a definition, and then has none to take away.                *)
Undefine(p) ==
    /\ pc[p] = "destroy" /\ be = "libvirt"
    /\ \/ /\ FALSE \in Exists
          /\ Same /\ Goto(p, "unlink")
          /\ blind' = (blind \/ obj # "absent")
       \/ /\ obj = "off" /\ Becomes(p, "absent") /\ Goto(p, "unlink")
          /\ UNCHANGED blind
       \/ /\ obj \in Active /\ defined
          /\ defined' = FALSE /\ Disturbs(p) /\ UNCHANGED <<env, obj, maker, disk>>
          /\ Goto(p, "unlink") /\ UNCHANGED blind
       \/ /\ (obj \in Active /\ ~ defined) \/ (obj # "absent" /\ silent)
          /\ Same /\ NotDeleted(p) /\ UNCHANGED blind
    /\ UNCHANGED <<rec, verb, prior, left>>

Unlink(p) ==
    /\ pc[p] = "unlink"
    /\ disk' = None
    /\ Deleted(p)
    /\ blind' = (blind \/ Crossed(p))
    /\ UNCHANGED <<env, obj, defined, maker, rec, verb, prior, left, calm>>

(* The ssh-config block and ~/.mpd-virt/<NNN>/.                            *)
Forget(p) ==
    /\ pc[p] = "forget"
    /\ rec' = FALSE
    /\ Goto(p, "removed")
    /\ UNCHANGED <<object, verb, prior, left, calm, blind>>

-----------------------------------------------------------------------------
(* The guest goes off when told to, and the user uses the hypervisor.      *)

GuestOff ==
    /\ obj = "stopping" /\ Moves("off")
    /\ UNCHANGED <<rec, pc, verb, prior, left, calm, blind>>

ByHand(from, to) ==
    /\ obj = from /\ Becomes(None, to)
    /\ UNCHANGED <<rec, pc, verb, prior, left, blind>>

User ==
    \/ ByHand("off", "running") \/ ByHand("off", "absent")
    \/ be \in {"utm", "libvirt", "parallels"} /\ ByHand("running", "paused")
    \/ ByHand("paused", "running") \/ ByHand("paused", "off")
    \/ be = "parallels" /\ ByHand("running", "suspended")
    \/ ByHand("suspended", "running") \/ ByHand("suspended", "off")

Create(p) ==
    \/ CheckExists(p) \/ WipeFiles(p) \/ MaterializeDisk(p) \/ Make(p) \/ MakeFailed(p)
    \/ Boot(p) \/ Await(p) \/ CreateFailed(p) \/ CleanUp(p) \/ Adopt(p)

Power(p) ==
    \/ ProbeState(p) \/ PowerOn(p) \/ Locate(p)
    \/ PowerOff(p) \/ GracefulShutdown(p) \/ WaitOff(p)

Delete(p) ==
    \/ ContainerDelete(p) \/ LookForVM(p) \/ UTMKill(p) \/ WaitVMStopped(p) \/ ProxmoxKill(p)
    \/ Destroy(p) \/ LookForRunning(p) \/ VirshDestroy(p) \/ Undefine(p)
    \/ Unlink(p) \/ Forget(p)

Run(p) == Create(p) \/ Power(p) \/ Delete(p) \/ Finish(p)

Next ==
    \/ \E p \in Procs :
          \/ BeginCreate(p) \/ BeginAdopt(p) \/ BeginStart(p) \/ BeginStop(p)
          \/ BeginRemove(p) \/ BeginFull(p)
          \/ Run(p) \/ Crash(p) \/ Hang(p)
    \/ GuestOff
    \/ User

Spec == Init /\ [][Next]_vars

\* A run goes on, unless a command it waits for never returns.
FairSpec == Spec /\ \A p \in Procs : WF_vars(Run(p))

-----------------------------------------------------------------------------
(* Properties.                                                             *)

\* A VM has the disk that was made for it: no create, clean-up or delete takes
\* the files from under a libvirt VM, as long as none took a silent hypervisor
\* for one without the VM, and none wiped, filled or removed the files while
\* another create was about to hand them over, or after one had.
DiskIsItsOwn ==
    be = "libvirt" /\ obj # "absent" /\ maker # None /\ defined /\ ~ blind => disk = maker

\* remove --full forgets the record of a VM only once it is gone: a run with
\* nobody else at the VM, and with answers whenever it asked whether there is
\* one, leaves none behind - unless libvirt could not stop it.
FullDeletes ==
    \A p \in Procs :
        pc[p] = "removed" /\ verb[p] = "full" /\ calm[p] /\ ~ blind =>
            obj = "absent" \/ ~ defined

\* A stop that ends without a warning left the VM off, whether or not its
\* hypervisor answered; of a VM that is not mpd-virt's to power it only says
\* that nobody answers there.  (A stop under libvirt always warns: "shut off" is
\* no state it knows.)
StopMeansOff ==
    \A p \in Procs :
        pc[p] = "done" /\ verb[p] = "stop" /\ calm[p] /\ be # "generic" =>
            obj \notin Active \cup {"suspended"}

\* A create that failed leaves no VM for the next one to trip over, where the
\* backend cleans up, the hypervisor answers and nobody else was at the VM:
\* libvirt never, and UTM none that is off.
FailedCreateLeavesNone ==
    \A p \in Procs :
        /\ pc[p] = "failed" /\ verb[p] = "create" /\ calm[p] /\ ~ silent
        /\ be = "libvirt" \/ (be = "utm" /\ obj = "off")
        => maker # p

\* Every verb comes to an end, whatever the hypervisor answers and the guest
\* does, as long as they answer: what mpd-virt itself waits for has a deadline.
\* A command that never returns holds its verb up till the user steps in.
Terminates == \A p \in Procs : pc[p] # "idle" ~> pc[p] \in {"idle", "hung"}

-----------------------------------------------------------------------------
(* The inductive invariant (see LifecycleProofs).                          *)

\* No object, no maker.
MakerInv == obj = "absent" => maker = None

\* Which verb takes a run to which stage.
Staged(p) ==
    /\ pc[p] \in {"exists", "wipe", "files", "make", "boot", "await", "cleanup", "refused",
                  "failed"} => verb[p] = "create"
    /\ pc[p] = "adopt" => verb[p] \in {"create", "adopt"}
    /\ pc[p] \in {"probe", "poweron", "locate"} => verb[p] = "start"
    /\ pc[p] \in {"poweroff", "shutdown", "waitoff"} => verb[p] \in {"stop", "remove", "full"}
    /\ pc[p] \in {"delete", "kill", "killed", "destroy", "unlink"} =>
          verb[p] = "full" \/ (verb[p] = "create" /\ be = "libvirt")
    /\ pc[p] \in {"cleanup", "killed"} => be = "utm"
    /\ pc[p] = "unlink" => be = "libvirt"

\* How far a create with nobody else at the VM has come.
Made(p) ==
    calm[p] /\ verb[p] = "create" =>
        /\ pc[p] \in {"wipe", "files", "make"} /\ ~ (blind /\ silent) => obj = "absent"
        /\ ~ silent =>
              /\ pc[p] = "boot" => obj = "off"
              /\ pc[p] = "await" => obj = "running"
              /\ pc[p] \in {"delete", "cleanup"} => obj \in {"off", "running"}
              /\ pc[p] = "kill" => obj = "running"
              /\ pc[p] = "destroy" => obj \in {"off", "absent"}
              /\ pc[p] = "unlink" => obj = "absent"
              /\ pc[p] = "failed" /\ be \in {"utm", "libvirt"} =>
                    obj = "absent" \/ (be = "utm" /\ obj = "running")

\* What a delete with nobody else at the VM has achieved.
Gone(p) ==
    calm[p] /\ ~ blind /\ (pc[p] = "unlink" \/ (pc[p] \in {"forget", "removed"} /\ verb[p] = "full"))
        => obj = "absent" \/ ~ defined

\* What an undisturbed stop found before it ended without a warning.
Stopped(p) ==
    pc[p] = "done" /\ verb[p] = "stop" /\ calm[p] /\ be # "generic" => obj \in {"absent", "off"}

\* The files a create is about to hand to libvirt are its own.
Filed(p) == be = "libvirt" /\ pc[p] = "make" /\ ~ blind => disk = p

IInv ==
    /\ TypeOK /\ MakerInv /\ DiskIsItsOwn
    /\ \A p \in Procs : Staged(p) /\ Made(p) /\ Gone(p) /\ Stopped(p) /\ Filed(p)
=============================================================================
