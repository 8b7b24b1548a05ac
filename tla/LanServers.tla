------------------------------ MODULE LanServers ------------------------------
(***************************************************************************)
(* The LAN machines that get a name under mpd.test: a record of each       *)
(* (servers/<name>/env) beside its certificate's private key, the hosts    *)
(* file rendered from the records (conf/lan-hosts), the copy of that file  *)
(* on one VM, and the names the VM serves.  server add, delete and cert    *)
(* change records and keys; add, delete, sync, adopt, start and update     *)
(* render the file, and the last four push it and have it served.  Any     *)
(* number of mpd-virt processes do so at once, and may end anywhere.       *)
(***************************************************************************)
CONSTANTS Procs,   \* the running mpd-virt processes
          Names,   \* the names of servers
          Addrs,   \* their addresses on the LAN
          Absent,  \* no record, no file, no name
          Torn     \* a file opened for writing and not filled, or garbled

\* What a hosts file can say: the address of each name, or nothing of it.
Renderings == [Names -> Addrs \cup {Absent}]

ASSUME LanAssumption ==
    /\ Absent # Torn
    /\ {Absent, Torn} \cap (Addrs \cup Renderings \cup Names) = {}

VARIABLES
    env, key,           \* [n] the server's record, and whether there is a private key
    hosts,              \* conf/lan-hosts
    vmHosts, served,    \* the copy of it on the VM, and what the VM serves
    pc, verb,           \* each process: its stage and its verb
    name, body,         \* each process: the server it is about, what it rendered
    \* History variables, read by the properties and never by a guard.
    calm,               \* [p] nobody but p changed the records, or a hosts file,
                        \*     since p began to render
    unserved,           \* a run ended between putting a file and having it served
    unrendered,         \* a record was edited by hand, a run ended between changing
                        \*     one and rendering it, or two renders overlapped
    orphaned            \* the names whose directory was left half removed, or
                        \*     written to after it was removed

records == <<env, key, orphaned>>
files   == <<hosts, unrendered>>
onVM    == <<vmHosts, served, unserved>>
local   == <<verb, name, body>>
vars    == <<records, files, onVM, pc, local, calm>>

\* sync renders for its own list, and renders again as it pushes; start only
\* pushes; update whose push failed goes on with mpd's own upgrade alone.
Pushes == {"sync", "push", "adopt", "update"}
Verbs  == {"none", "add", "delete", "cert", "upgrade"} \cup Pushes
Stages == {"idle", "save", "prompt", "purge", "issue", "load", "fill",
           "compare", "install", "setup", "done"}

TypeOK ==
    /\ env \in [Names -> Addrs \cup {Absent, Torn}] /\ key \in [Names -> BOOLEAN]
    /\ hosts \in Renderings \cup {Absent, Torn}
    /\ vmHosts \in Renderings \cup {Absent, Torn}
    /\ served \in Renderings \cup {Absent, Torn}
    /\ pc \in [Procs -> Stages] /\ verb \in [Procs -> Verbs]
    /\ name \in [Procs -> Names \cup {Absent}]
    /\ body \in [Procs -> Renderings \cup {Absent}]
    /\ calm \in [Procs -> BOOLEAN] /\ unserved \in BOOLEAN /\ unrendered \in BOOLEAN
    /\ orphaned \subseteq Names

Init ==
    /\ env = [n \in Names |-> Absent] /\ key = [n \in Names |-> FALSE]
    /\ hosts = Absent /\ vmHosts = Absent /\ served = Absent
    /\ pc = [p \in Procs |-> "idle"] /\ verb = [p \in Procs |-> "none"]
    /\ name = [p \in Procs |-> Absent] /\ body = [p \in Procs |-> Absent]
    /\ calm = [p \in Procs |-> FALSE]
    /\ unserved = FALSE /\ unrendered = FALSE /\ orphaned = {}

-----------------------------------------------------------------------------
Goto(p, to) == pc' = [pc EXCEPT ![p] = to]

Step(p, from, to) == pc[p] = from /\ Goto(p, to)

End(p) ==
    /\ Goto(p, "idle")
    /\ verb' = [verb EXCEPT ![p] = "none"]
    /\ name' = [name EXCEPT ![p] = Absent]
    /\ body' = [body EXCEPT ![p] = Absent]

\* p changed something another run may be relying on; over, it relies on nothing.
Disturbs(p)  == calm' = [q \in Procs |-> q = p /\ calm[q] /\ pc'[q] # "idle"]
KeepsCalm(p) == calm' = [calm EXCEPT ![p] = @ /\ pc'[p] # "idle"]

Begin(p, v, to, n) ==
    /\ Step(p, "idle", to)
    /\ verb' = [verb EXCEPT ![p] = v] /\ name' = [name EXCEPT ![p] = n]
    /\ UNCHANGED <<records, files, onVM, body, calm>>

\* Load parses the record; Exists only asks for the file.
Loads(n)  == env[n] \in Addrs
Exists(n) == env[n] # Absent

BeginAdd(p)    == \E n \in Names : ~ Exists(n) /\ Begin(p, "add", "save", n)
BeginDelete(p) == \E n \in Names : Loads(n) /\ Begin(p, "delete", "prompt", n)
BeginCert(p)   == \E n \in Names : Loads(n) /\ Begin(p, "cert", "issue", n)
BeginPush(p)   == \E v \in Pushes : Begin(p, v, "load", Absent)

(* A run ends where it is: declined at the prompt, failed, or interrupted. *)
Stop(p) ==
    /\ pc[p] # "idle"
    /\ End(p)
    /\ orphaned' = IF pc[p] = "purge" THEN orphaned \cup {name[p]} ELSE orphaned
    /\ unrendered' = (unrendered \/ pc[p] \in {"purge", "fill"}
                                 \/ (pc[p] = "load" /\ verb[p] \in {"add", "delete"}))
    /\ unserved' = (unserved \/ (pc[p] = "setup" /\ vmHosts # served))
    /\ KeepsCalm(p)
    /\ UNCHANGED <<env, key, hosts, vmHosts, served>>

-----------------------------------------------------------------------------
\* The server is done with; what is left is to render.
Changed(p, from) ==
    /\ Step(p, from, "load")
    /\ name' = [name EXCEPT ![p] = Absent]
    /\ Disturbs(p)
    /\ UNCHANGED <<files, onVM, verb, body>>

(* server add: Save creates the directory and writes the env file.         *)
Save(p) ==
    /\ Changed(p, "save")
    /\ \E ip \in Addrs : env' = [env EXCEPT ![name[p]] = ip]
    /\ UNCHANGED <<key, orphaned>>

(* It truncates the file first, and may end there.                         *)
SaveCut(p) ==
    /\ pc[p] = "save" /\ End(p)
    /\ env' = [env EXCEPT ![name[p]] = Torn]
    /\ unrendered' = TRUE
    /\ Disturbs(p)
    /\ UNCHANGED <<key, orphaned, hosts, onVM>>

(* server delete: RemoveAll takes the files of the directory one by one ...*)
RemoveFirst(p) ==
    /\ Step(p, "prompt", "purge")
    /\ \/ env' = [env EXCEPT ![name[p]] = Absent] /\ UNCHANGED key
       \/ key' = [key EXCEPT ![name[p]] = FALSE] /\ UNCHANGED env
    /\ Disturbs(p)
    /\ UNCHANGED <<orphaned, files, onVM, local>>

\* Mutant of RemoveAll: the record goes, and the key stays.
RemoveEnv(p) ==
    /\ Changed(p, "purge")
    /\ env' = [env EXCEPT ![name[p]] = Absent]
    /\ orphaned' = orphaned \ {name[p]}
    /\ UNCHANGED key

\* Mutant of RemoveAll: the delete ends there, and the hosts file is left as it is.
RemoveUnrendered(p) ==
    /\ pc[p] = "purge" /\ End(p)
    /\ env' = [env EXCEPT ![name[p]] = Absent] /\ key' = [key EXCEPT ![name[p]] = FALSE]
    /\ orphaned' = orphaned \ {name[p]}
    /\ Disturbs(p)
    /\ UNCHANGED <<files, onVM>>

(* ... until the directory is empty, and then it.                          *)
RemoveAll(p) ==
    /\ Changed(p, "purge")
    /\ env' = [env EXCEPT ![name[p]] = Absent]
    /\ key' = [key EXCEPT ![name[p]] = FALSE]
    /\ orphaned' = orphaned \ {name[p]}

(* server cert, where one is due (see CertAuthority): IssueLeaf creates the*)
(* directory if need be, and writes the pair.                              *)
IssueLeaf(p) ==
    /\ pc[p] = "issue"
    /\ End(p)
    /\ key' = [key EXCEPT ![name[p]] = TRUE]
    /\ orphaned' = IF ~ Exists(name[p]) THEN orphaned \cup {name[p]} ELSE orphaned
    /\ KeepsCalm(p)
    /\ UNCHANGED <<env, files, onVM>>

-----------------------------------------------------------------------------
(* WriteHostsFile.                                                         *)

\* Mutant of Rendered: a record that does not parse is not skipped.
RenderedUnparsed == env

\* LoadAll skips what does not parse.
Rendered == [n \in Names |-> IF Loads(n) THEN env[n] ELSE Absent]

(* The records are read, and the file is opened and truncated ...          *)
OpenHosts(p) ==
    /\ Step(p, "load", "fill")
    /\ body' = [body EXCEPT ![p] = Rendered]
    /\ hosts' = Torn
    /\ calm' = [q \in Procs |-> q = p]
    /\ UNCHANGED <<records, unrendered, onVM, verb, name>>

\* Where a verb goes once it has rendered: add and delete are over.
AfterRender(p) ==
    IF verb[p] \in {"add", "delete"} THEN End(p)
    ELSE /\ Goto(p, IF verb[p] = "sync" THEN "load" ELSE "compare")
         /\ verb' = [verb EXCEPT ![p] = IF @ = "sync" THEN "push" ELSE @]
         /\ body' = [body EXCEPT ![p] = Absent]
         /\ UNCHANGED name

(* ... and filled.  Over what another has written meanwhile, it may come   *)
(* out garbled.                                                            *)
FillHosts(p) ==
    /\ pc[p] = "fill"
    /\ \/ hosts' = body[p]
       \/ hosts # Torn /\ hosts' = Torn
    /\ unrendered' = ~ calm[p]
    /\ AfterRender(p)
    /\ Disturbs(p)
    /\ UNCHANGED <<records, onVM>>

-----------------------------------------------------------------------------
(* pushLanHosts and syncLanHosts.                                          *)

\* A push that failed: adopt gives up, and sync gives up this VM; update goes
\* on with mpd's own upgrade, which ends in vm-setup, and start with its wiring.
PushFailed(p) ==
    IF verb[p] = "update"
    THEN /\ Goto(p, "setup")
         /\ verb' = [verb EXCEPT ![p] = "upgrade"]
         /\ UNCHANGED <<name, body>>
    ELSE End(p)

(* The file is read back and its digest compared with the VM's.  adopt and *)
(* update run vm-setup in any case.                                        *)
Compare(p) ==
    /\ pc[p] = "compare"
    /\ \/ /\ vmHosts # hosts \/ hosts = Torn
          /\ Goto(p, "install") /\ UNCHANGED local
       \/ /\ vmHosts = hosts
          /\ Goto(p, IF verb[p] \in {"adopt", "update"} THEN "setup" ELSE "done")
          /\ UNCHANGED local
       \/ PushFailed(p)
    /\ KeepsCalm(p)
    /\ UNCHANGED <<records, files, onVM>>

\* Mutant of Install: the file is put in place, and mpd not told.
InstallOnly(p) ==
    /\ Step(p, "install", "done")
    /\ vmHosts' = hosts
    /\ Disturbs(p)
    /\ UNCHANGED <<records, files, served, unserved, local>>

(* scp copies whatever the file says by now.                               *)
Install(p) ==
    /\ Step(p, "install", "setup")
    /\ vmHosts' = hosts
    /\ Disturbs(p)
    /\ UNCHANGED <<records, files, served, unserved, local>>

(* The copy failed: before it, in the middle, or at the chmod after it.    *)
InstallFailed(p) ==
    /\ pc[p] = "install"
    /\ PushFailed(p)
    /\ vmHosts' \in {vmHosts, Torn, hosts}
    /\ unserved' = (unserved \/ vmHosts' # vmHosts)
    /\ Disturbs(p)
    /\ UNCHANGED <<records, files, served>>

(* mpd --vm-setup serves what the file on the VM says.                     *)
VMSetup(p) ==
    /\ Step(p, "setup", "done")
    /\ served' = vmHosts /\ unserved' = FALSE
    /\ UNCHANGED <<records, files, vmHosts, local, calm>>

(* It failed, having done that or not.                                     *)
VMSetupFailed(p) ==
    /\ pc[p] = "setup"
    /\ End(p)
    /\ served' \in {served, vmHosts}
    /\ unserved' = (served' # vmHosts)
    /\ KeepsCalm(p)
    /\ UNCHANGED <<records, files, vmHosts>>

-----------------------------------------------------------------------------
(* "Edit at your own risk", says the record: whatever the developer makes  *)
(* of one, nothing renders it till the next run that does.                 *)
EditRecord ==
    /\ \E n \in Names, v \in Addrs \cup {Torn} : Exists(n) /\ env' = [env EXCEPT ![n] = v]
    /\ unrendered' = TRUE
    /\ calm' = [p \in Procs |-> FALSE]
    /\ UNCHANGED <<key, orphaned, hosts, onVM, pc, local>>

Next ==
    \/ EditRecord
    \/ \E p \in Procs :
          \/ BeginAdd(p) \/ BeginDelete(p) \/ BeginCert(p) \/ BeginPush(p) \/ Stop(p)
          \/ Save(p) \/ SaveCut(p) \/ RemoveFirst(p) \/ RemoveAll(p) \/ IssueLeaf(p)
          \/ OpenHosts(p) \/ FillHosts(p)
          \/ Compare(p) \/ Install(p) \/ InstallFailed(p) \/ VMSetup(p) \/ VMSetupFailed(p)

Spec == Init /\ [][Next]_vars

-----------------------------------------------------------------------------
(* Properties.                                                             *)

\* A run that reports the LAN names as current or published is right - the VM
\* serves what the records say - if nobody else changed a record or a hosts
\* file since it rendered them, and no other run is, or ended, between putting
\* a file on the VM and having it served.
NamesServed ==
    \A p \in Procs :
        /\ pc[p] = "done" /\ verb[p] # "upgrade" /\ calm[p]
        /\ ~ unserved /\ \A q \in Procs : pc[q] # "setup"
        => served = Rendered

\* A private key on this host belongs to a registered server, whatever adds,
\* deletes and renewals overlapped - unless a delete was broken off, or a
\* renewal that had read the record wrote its key after the delete.
KeysAccountedFor ==
    \A n \in Names :
        key[n] => \/ Exists(n) \/ n \in orphaned
                  \/ \E p \in Procs : pc[p] = "purge" /\ name[p] = n

\* At rest the rendered file says what the records say: whichever of two runs
\* changed and rendered first, nothing is lost - unless a record was edited by
\* hand, a run ended before it had rendered its change, or two renders
\* overlapped.
HostsFileIsRecords ==
    (\A p \in Procs : pc[p] \notin {"purge", "load", "fill"})
    /\ ~ unrendered /\ hosts # Absent => hosts = Rendered

-----------------------------------------------------------------------------
(* Why they hold.                                                          *)

\* A run knows the server it is about, and has rendered what it fills in.
LocalInv ==
    \A p \in Procs :
        /\ pc[p] \in {"save", "prompt", "purge", "issue"} => name[p] \in Names
        /\ pc[p] \in {"save", "prompt", "purge"} => verb[p] \in {"add", "delete"}
        /\ pc[p] = "fill" => body[p] \in Renderings

\* What the file of an undisturbed run says, from opening it to serving it.
CalmInv ==
    \A p \in Procs : calm[p] =>
        /\ pc[p] = "fill" => hosts = Torn /\ body[p] = Rendered
        /\ pc[p] \in {"compare", "install"} => hosts = Rendered
        /\ pc[p] \in {"setup", "done"} /\ verb[p] # "upgrade" => vmHosts = Rendered

\* The VM serves its file, unless somebody is to see to that.
ServedInv == ~ unserved /\ (\A q \in Procs : pc[q] # "setup") => served = vmHosts

\* The rendered file lags behind the records only while somebody is to render.
RenderInv ==
    /\ \A p \in Procs : /\ pc[p] \notin {"purge", "fill"}
                        /\ pc[p] = "load" => verb[p] \notin {"add", "delete"}
    /\ ~ unrendered /\ hosts # Absent
    => hosts = Rendered

IInv == TypeOK /\ LocalInv /\ CalmInv /\ ServedInv /\ RenderInv /\ KeysAccountedFor
=============================================================================
