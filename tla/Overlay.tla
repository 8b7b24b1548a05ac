------------------------------- MODULE Overlay -------------------------------
(***************************************************************************)
(* One adopted VM in service: where the host thinks it is (vm.json, the    *)
(* ~/.ssh/config block, the mpd-proxy peer's endpoint) and the two halves  *)
(* of its WireGuard tunnel (that peer, and the proxy's peer on the VM's    *)
(* wg0).  adopt, start, update, server sync, stop, remove and uninstall    *)
(* change these one at a time, from any number of concurrent mpd-virt      *)
(* processes, while the VM moves and reboots and mpd-proxy comes and goes. *)
(* What the LAN names say is LanServers' business; here, pushing them is   *)
(* what may run mpd --vm-setup, which drops the VM's half of the tunnel.   *)
(***************************************************************************)
CONSTANTS Procs,     \* the running mpd-virt processes
          IPs,       \* the addresses the VM may be given
          NoIP       \* no address

ASSUME OverlayAssumption == NoIP \notin IPs

VARIABLES
    addr, up,           \* the VM's current address, and whether it runs
    wg, saved,          \* mpd-proxy is a peer of wg0, and of its saved wg0.conf
    proxyUp, peer,      \* mpd-proxy runs, and the endpoint it has for the VM
    rec, block,         \* the address in vm.json and in the ssh-config block
    pc, verb, ip,       \* each process: stage, verb, the VM's address
    \* History variables, read by the properties and never by a guard.
    calm,               \* [p] p is on its way to wiring the tunnel, and
                        \*     nothing else changed any of this since it began
    wired,              \* a calm run wired the tunnel and nothing undid it since
    outrun              \* since then a run that was not calm added an endpoint

vm    == <<addr, up>>
tun   == <<wg, saved>>
proxy == <<proxyUp, peer>>
host  == <<rec, block>>
run   == <<pc, verb, ip>>
seen  == <<wired, outrun>>
vars  == <<vm, tun, proxy, host, run, calm, seen>>

Verbs  == {"none", "adopt", "start", "update", "sync", "stop", "remove", "uninstall"}
Stages == {"idle", "locate", "save", "block", "lan", "setup",
           "record", "wire", "setpeer", "add", "verify",
           "detach", "poweroff", "strip", "forget"}

TypeOK ==
    /\ addr \in IPs /\ up \in BOOLEAN /\ wg \in BOOLEAN /\ saved \in BOOLEAN
    /\ proxyUp \in BOOLEAN
    /\ {peer, rec, block} \subseteq IPs \cup {NoIP}
    /\ pc \in [Procs -> Stages] /\ verb \in [Procs -> Verbs]
    /\ ip \in [Procs -> IPs \cup {NoIP}]
    /\ calm \in [Procs -> BOOLEAN] /\ wired \in BOOLEAN /\ outrun \in BOOLEAN

Init ==
    /\ addr \in IPs /\ up \in BOOLEAN /\ wg = FALSE /\ saved = FALSE
    /\ proxyUp \in BOOLEAN /\ peer = NoIP
    /\ rec = NoIP /\ block = NoIP
    /\ pc = [p \in Procs |-> "idle"] /\ verb = [p \in Procs |-> "none"]
    /\ ip = [p \in Procs |-> NoIP]
    /\ calm = [p \in Procs |-> FALSE] /\ wired = FALSE /\ outrun = FALSE

-----------------------------------------------------------------------------
Goto(p, to) == pc' = [pc EXCEPT ![p] = to]

Step(p, from, to) == pc[p] = from /\ Goto(p, to)

End(p) ==
    /\ Goto(p, "idle")
    /\ verb' = [verb EXCEPT ![p] = "none"]
    /\ ip' = [ip EXCEPT ![p] = NoIP]

\* p changed something another run may be relying on; over, it relies on nothing.
Disturbs(p) == calm' = [q \in Procs |-> q = p /\ calm[q] /\ pc'[q] # "idle"]
KeepsCalm(p) == calm' = [calm EXCEPT ![p] = @ /\ pc'[p] # "idle"]
DisturbsAll == calm' = [q \in Procs |-> FALSE]

\* An ssh connection reaches the VM only where it runs: anything else that
\* answers there is refused by the pinned host key (see Adoption).
Reaches(p) == up /\ addr = ip[p]

(* The VM boots: systemd brings wg0 up from its saved configuration.       *)
Boot(a) == up' = TRUE /\ addr' = a /\ wg' = saved /\ saved' = saved

\* The tunnel a calm run wired outlives a boot at the same address only.
KeepsWired(a) == wired' = (wired /\ a = addr) /\ outrun' = (outrun /\ a = addr)

Unwired == wired' = FALSE /\ outrun' = FALSE

-----------------------------------------------------------------------------
(* How each verb begins.                                                   *)

Begin(p, v, to, a) ==
    /\ Step(p, "idle", to)
    /\ verb' = [verb EXCEPT ![p] = v]
    /\ ip' = [ip EXCEPT ![p] = a]
    /\ calm' = [calm EXCEPT ![p] = v \in {"adopt", "start", "update"}]
    /\ UNCHANGED <<vm, tun, proxy, host, seen>>

BeginAdopt(p)  == \E a \in IPs : Begin(p, "adopt", "lan", a)
BeginStart(p)  == rec # NoIP /\ Begin(p, "start", "locate", rec)
BeginUpdate(p) == rec # NoIP /\ Begin(p, "update", "lan", rec)
BeginSync(p)   == rec # NoIP /\ Begin(p, "sync", "lan", rec)
BeginStop(p)   == rec # NoIP /\ Begin(p, "stop", "detach", NoIP)
BeginRemove(p) == Begin(p, "remove", "detach", NoIP)

\* uninstall is remove without the detach.
BeginUninstall(p) == rec # NoIP /\ Begin(p, "uninstall", "poweroff", NoIP)

(* A run ends: done, failed, unreachable, interrupted or crashed.          *)
Stop(p) ==
    /\ pc[p] # "idle"
    /\ End(p)
    /\ KeepsCalm(p)
    /\ UNCHANGED <<vm, tun, proxy, host, seen>>

-----------------------------------------------------------------------------
(* start: power the VM on, find it, record where it is.                    *)

(* A VM that is off boots, perhaps at a new address; the first candidate   *)
(* that answers on the ssh port is where it is taken to be.                *)
StartLocate(p) ==
    /\ pc[p] = "locate"
    /\ \E a \in IPs :
          /\ ip' = [ip EXCEPT ![p] = a]
          /\ Goto(p, IF a = ip[p] THEN "block" ELSE "save")
    /\ IF up
       THEN UNCHANGED <<vm, tun, seen, calm>>
       ELSE \E a \in IPs : Boot(a) /\ KeepsWired(a) /\ Disturbs(p)
    /\ UNCHANGED <<proxy, host, verb>>

\* Mutant of SaveMoved: a VM that moved is used where it is, but not recorded.
ForgetMoved(p) ==
    /\ Step(p, "save", "block")
    /\ Disturbs(p)
    /\ UNCHANGED <<vm, tun, proxy, host, verb, ip, seen>>

\* Mutant of SaveMoved: the endpoint goes to vm.json in place of the address.
SaveEndpoint(p) ==
    /\ Step(p, "save", "block")
    /\ rec' = <<ip[p], 51820>>
    /\ Disturbs(p)
    /\ UNCHANGED <<vm, tun, proxy, block, verb, ip, seen>>

SaveMoved(p) ==
    /\ Step(p, "save", "block")
    /\ rec' = ip[p]
    /\ Disturbs(p)
    /\ UNCHANGED <<vm, tun, proxy, block, verb, ip, seen>>

WriteBlock(p) ==
    /\ Step(p, "block", IF verb[p] = "start" THEN "lan" ELSE "wire")
    /\ block' = ip[p]
    /\ Disturbs(p)
    /\ UNCHANGED <<vm, tun, proxy, rec, verb, ip, seen>>

-----------------------------------------------------------------------------
(* The LAN names: pushLanHosts, then mpd --vm-setup.                       *)

\* Where a verb goes once the file on the VM is the wanted one and nothing
\* had to be copied: adopt and update run vm-setup in any case.
Current(v) == IF v \in {"adopt", "update"} THEN "setup" ELSE "wire"

(* The gate before anything is changed: somebody lets this host in.        *)
CheckReachable(p) == Reaches(p)

(* The file is rendered and compared with the VM's: it is copied, or it is *)
(* current, or the push fails - anywhere, as when the VM goes away behind  *)
(* the gate.  adopt and sync give up then; update goes on with the upgrade *)
(* and start with the wiring, as if the file were current.                 *)
PushLanHosts(p) ==
    /\ pc[p] = "lan"
    /\ CheckReachable(p)
    /\ \/ Goto(p, "setup") /\ UNCHANGED <<verb, ip>>
       \/ verb[p] # "sync" /\ Goto(p, Current(verb[p])) /\ UNCHANGED <<verb, ip>>
       \/ verb[p] \in {"adopt", "sync"} /\ End(p)
    /\ KeepsCalm(p)
    /\ UNCHANGED <<vm, tun, proxy, host, seen>>

(* mpd --vm-setup restarts wg0 without the proxy.                          *)
Unpeered == wg' = FALSE /\ saved' = FALSE

\* sync is over here, adopt records the VM, update and start wire it.
VMSetup(p) ==
    /\ pc[p] = "setup"
    /\ Reaches(p)
    /\ Unpeered /\ Unwired
    /\ CASE verb[p] = "sync"  -> End(p)
         [] verb[p] = "adopt" -> Goto(p, "record") /\ UNCHANGED <<verb, ip>>
         [] OTHER             -> Goto(p, "wire") /\ UNCHANGED <<verb, ip>>
    /\ Disturbs(p)
    /\ UNCHANGED <<vm, proxy, host>>

(* It failed, having done any part of that; start alone goes on.           *)
VMSetupFailed(p) ==
    /\ pc[p] = "setup"
    /\ \/ UNCHANGED <<tun, seen>>
       \/ Reaches(p) /\ Unpeered /\ Unwired
    /\ IF verb[p] = "start"
       THEN Goto(p, "wire") /\ UNCHANGED <<verb, ip>>
       ELSE End(p)
    /\ Disturbs(p)
    /\ UNCHANGED <<vm, proxy, host>>

(* adopt's registry.Save, once the VM is set up.                           *)
RecordAdopted(p) ==
    /\ Step(p, "record", "block")
    /\ rec' = ip[p]
    /\ Disturbs(p)
    /\ UNCHANGED <<vm, tun, proxy, block, verb, ip, seen>>

-----------------------------------------------------------------------------
(* mpd-proxy's control socket: a request is answered if the proxy runs.    *)

Call      == proxyUp
Add(a)    == Call /\ peer' = a
Remove    == peer' = IF Call THEN NoIP ELSE peer

-----------------------------------------------------------------------------
(* setupReachability.                                                      *)

(* Without mpd-proxy the wiring is skipped.                                *)
AskPubkey(p) ==
    /\ Step(p, "wire", "setpeer")
    /\ Call
    /\ UNCHANGED <<vm, tun, proxy, host, verb, ip, calm, seen>>

\* Mutant of SetPeer: the peer is set but not saved to wg0.conf.
SetPeerUnsaved(p) ==
    /\ Step(p, "setpeer", "add")
    /\ Reaches(p)
    /\ wg' = TRUE /\ UNCHANGED saved
    /\ Disturbs(p)
    /\ UNCHANGED <<vm, proxy, host, verb, ip, seen>>

(* wg set, ip route replace and wg-quick save, then wg show.               *)
SetPeer(p) ==
    /\ Step(p, "setpeer", "add")
    /\ Reaches(p)
    /\ wg' = TRUE /\ saved' = TRUE
    /\ Disturbs(p)
    /\ UNCHANGED <<vm, proxy, host, verb, ip, seen>>

(* The save, or reading the VM's key back, failed after the peer was set.  *)
SetPeerFailed(p) ==
    /\ pc[p] = "setpeer"
    /\ Reaches(p)
    /\ wg' = TRUE /\ (saved' = TRUE \/ UNCHANGED saved)
    /\ End(p)
    /\ Disturbs(p)
    /\ UNCHANGED <<vm, proxy, host, seen>>

(* The endpoint is registered with mpd-proxy: the address this run found   *)
(* when it began, whatever has happened to the VM or its tunnel since.     *)
AddPeer(p) ==
    /\ Step(p, "add", "verify")
    /\ Add(ip[p])
    /\ wired' = (wired \/ calm[p])
    /\ outrun' = (wired /\ ~ calm[p])
    /\ Disturbs(p)
    /\ UNCHANGED <<vm, tun, proxyUp, host, verb, ip>>

-----------------------------------------------------------------------------
(* stop and remove.                                                        *)

(* Best effort: without mpd-proxy there is nothing to detach.              *)
Detach(p) ==
    /\ Step(p, "detach", "poweroff")
    /\ Remove
    /\ Unwired
    /\ Disturbs(p)
    /\ UNCHANGED <<vm, tun, proxyUp, host, verb, ip>>

(* The guest, or its hypervisor, shuts the VM down; or the wait runs out.  *)
PowerOff(p) ==
    /\ pc[p] = "poweroff"
    /\ \/ up' = FALSE /\ wg' = FALSE
       \/ UNCHANGED <<up, wg>>
    /\ IF verb[p] = "stop"
       THEN End(p)
       ELSE Goto(p, "strip") /\ UNCHANGED <<verb, ip>>
    /\ Disturbs(p)
    /\ UNCHANGED <<addr, saved, proxy, host, seen>>

(* uninstall forgets the VM even where the strip failed.                   *)
Strip(p) ==
    /\ Step(p, "strip", "forget")
    /\ block' = NoIP \/ (verb[p] = "uninstall" /\ UNCHANGED block)
    /\ Disturbs(p)
    /\ UNCHANGED <<vm, tun, proxy, rec, verb, ip, seen>>

Forget(p) ==
    /\ pc[p] = "forget"
    /\ End(p)
    /\ rec' = NoIP
    /\ Disturbs(p)
    /\ UNCHANGED <<vm, tun, proxy, block, seen>>

-----------------------------------------------------------------------------
(* The world: the VM restarts or moves, mpd-proxy stops or starts anew.    *)

Restart ==
    /\ \E a \in IPs : Boot(a) /\ KeepsWired(a)
    /\ DisturbsAll
    /\ UNCHANGED <<proxy, host, run>>

Proxy(on) ==
    /\ proxyUp' = on
    /\ peer' = NoIP
    /\ Unwired
    /\ DisturbsAll
    /\ UNCHANGED <<vm, tun, host, run>>

-----------------------------------------------------------------------------
Verb(p) ==
    \/ BeginAdopt(p) \/ BeginStart(p) \/ BeginUpdate(p) \/ BeginSync(p)
    \/ BeginStop(p) \/ BeginRemove(p) \/ BeginUninstall(p) \/ Stop(p)
    \/ StartLocate(p) \/ SaveMoved(p) \/ WriteBlock(p)
    \/ PushLanHosts(p) \/ VMSetup(p) \/ VMSetupFailed(p) \/ RecordAdopted(p)
    \/ AskPubkey(p) \/ SetPeer(p) \/ SetPeerFailed(p) \/ AddPeer(p)
    \/ Detach(p) \/ PowerOff(p) \/ Strip(p) \/ Forget(p)

World == Restart \/ \E on \in BOOLEAN : Proxy(on)

Next == World \/ \E p \in Procs : Verb(p)

Spec == Init /\ [][Next]_vars

-----------------------------------------------------------------------------
(* Properties.                                                             *)

\* A tunnel wired by a run nothing interfered with keeps working - the proxy
\* has the VM's address and the VM has the proxy as a peer - through every
\* later verb and every reboot, until the VM moves, vm-setup runs, the proxy
\* stops or a stop or remove detaches it.  What a run that was itself overtaken
\* adds late may be an address the VM has left: that costs the tunnel the
\* proxy's half, until the next start, and nothing else does.
OverlaySurvives ==
    wired => /\ proxyUp /\ saved /\ (up => wg)
             /\ peer = addr \/ (outrun /\ peer # NoIP)

\* A start or an adoption that gets to its end with nothing interfering has
\* everything in step: record, ssh-config block and proxy peer all hold the
\* VM's address, and no vm-setup of its own came after the wiring.
StartWiresAll ==
    \A p \in Procs :
        pc[p] = "verify" /\ calm[p] /\ verb[p] \in {"adopt", "start"} =>
            wired /\ peer = addr /\ rec = addr /\ block = addr

\* How far a calm run has come in bringing host and tunnel in step: start
\* loads the record, both verbs write it and then the block, and the VM's half
\* of the tunnel is in place when the proxy's is added.
RunInv ==
    \A p \in Procs :
        calm[p] =>
            /\ pc[p] = "locate" => rec = ip[p]
            /\ pc[p] \in {"block", "wire", "setpeer", "add", "verify"}
               /\ verb[p] \in {"adopt", "start"} => rec = ip[p]
            /\ pc[p] \in {"wire", "setpeer", "add", "verify"}
               /\ verb[p] \in {"adopt", "start"} => block = ip[p]
            /\ verb[p] = "start" /\ pc[p] \in {"lan", "setup"} =>
                  rec = ip[p] /\ block = ip[p]
            /\ pc[p] \in {"add", "verify"} => addr = ip[p] /\ saved /\ (up => wg)
            /\ pc[p] = "verify" => wired /\ ~ outrun

\* A run that works with the VM has an address for it.
Located ==
    \A p \in Procs :
        pc[p] \in {"locate", "save", "block", "lan", "setup", "record",
                  "wire", "setpeer", "add"} => ip[p] # NoIP

\* The inductive invariant the theorems rest on.
IInv == TypeOK /\ OverlaySurvives /\ RunInv /\ Located
=============================================================================
