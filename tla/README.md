# A TLA+ verification of mpd-virt

mpd-virt is a command-line orchestrator, written in Go, for Debian VMs called `mpd-<NNN>`. It creates them on
a hypervisor or adopts VMs that exist, keeps a record of each in `~/.mpd-virt/<NNN>/`, powers them, wires
them into a WireGuard overlay (mpd-proxy), and copies to each a certificate authority, the LAN names, ssh
keys and developer assets.

There is no daemon and no lock. Every verb (`create`, `adopt`, `start`, `stop`, `update`, `remove`,
`uninstall`, `list`, `server …`) is a process of its own that changes a dozen places one after the other:
files on the host, an external proxy, files and services on the VM, an object at the hypervisor. Verbs
overlap, are interrupted, fail half way, and are run again; the developer edits the same files; VMs move,
reboot and are rebuilt. That is what these modules are about: *what is true of all those places after any
interleaving of any such steps*.

All paths below are under `src/go/internal/` unless they start with `src/`.

## 1. Inventory

| Component (source) | State it keeps | Operations | What is hard | What makes it correct |
|---|---|---|---|---|
| Adoption, host-key pinning (`cli/adopt.go`, `cli/target.go`, `host/ssh.go`, `paths/paths.go`) | `<NNN>/known_hosts`, the directory it lives in, `<NNN>/ca`, `vm.json`'s existence | first contact (accept-new), pinned contact, hostname check, CA push, wipe | an address is not an identity; a directory that is missing means no pinning; a wipe under a run in flight | one run talks to one machine; the CA key goes to the checked one; an adopted VM stays pinned |
| Registry (`registry/registry.go`, `cli/list.go`) | `vm.json` | Load, sticky-merging Save, Remove, hand edits | read-modify-write with a network probe in the middle; truncate-then-write | the record is what was last set on purpose; a save changes its own field only; it loads |
| Reachability (`cli/reachability.go`, `cli/server.go`, `cli/update.go`, `proxy/proxy.go`, `backend/orchestrate.go`) | `vm.json`'s address, the ssh-config block, the proxy's peer, the VM's wg0 and its saved configuration | start, stop, adopt, update, server sync, remove, uninstall | two ends of a tunnel change separately, `mpd --vm-setup` undoes one of them; moves, reboots, proxy restarts | after a run all agree; nothing but a named event undoes a tunnel |
| LAN servers (`server/server.go`, `cli/server.go`) | `servers/<name>/env` and the key beside it, `conf/lan-hosts`, its copy on a VM, what dnsmasq serves | add, delete, cert; render; push and publish | a change and its rendering are two steps of any number of runs; the file is read back while others rewrite it | the rendered file says what the records say; a run that reports the names is right; no key without a server |
| Certificate authority (`ca/ca.go`, `cli/ca.go`, `cli/server.go`) | root, per-VM and leaf pairs, the list of a leaf's names, copies on the VM | generate, sign, copy, delete, renew | a pair is two files; only existence is checked; two first runs; a directory is deleted file by file; days counted in hours and added in calendar days | certificate and key belong together; the VM gets a usable chain; nothing outlives its issuer; "current" means usable |
| ssh config (`sshconfig/sshconfig.go`, `cli/uninstall.go`) | `~/.ssh/config`, shared by every VM and the developer; the records that say which VMs there are | Write, Strip; record, list, forget | whole-file rewrite without a lock, markers that may be cut off; blocks found by records that may be broken or gone | own lines survive, one block per VM, each strippable, none left without a record |
| Managed keys (`cli/authkeys.go`) | `authorized_keys` on the VM, a staging file | read, rebuild, stage, install | an ssh failure is an empty answer; one staging name; `install` removes before it copies | own keys survive, the block converges |
| Assets (`cli/assets.go`) | overlay tree, exclude block and digest on the VM | list, digest, compare, copy, overlay script | a tree that changes while it is read; a script that stops half way, and records nothing off a git checkout | "current" and "pushed" mean it |
| One-file pushes, image cache (`cli/installers.go`, `cli/mpdenv.go`, `cli/ocimirror.go`, `backend/cloudinit.go`, `host/ssh.go`) | an installer, vm.env, the registry mirror drop-in on the VM; the Debian image on the host | look, download or copy, verify, rename or copy into place, remove | one temporary name for every run; a question asked long before the answer is used; a copy that may be cut short | what is renamed into place is whole and never replaced; what is configured is there |
| VM lifecycle (`backend/orchestrate.go`, `backends/*.go`, `cli/create.go`, `cli/remove.go`) | the hypervisor's object, its disk files, the record, on six backends | create, start, stop, remove, remove --full, clean-up of a failed create | a hypervisor that does not answer; an object changed by hand; waits; words for states | a VM keeps its disk; "stopped" means off; a record is forgotten after the VM; no debris; every wait of its own ends |
| Address search (`backend/orchestrate.go` `locate`) | none | candidates, probe | order, stale candidates | its outcome and its deadline only: `Locate` in `Lifecycle`, `StartLocate` in `Overlay` |
| Command runner, configuration, CA trust check, ids, list output, Containerfile, scripts | little or none | – | – | not modelled, section 9 |

The components interact through files and through the VM, never by calls between processes. Inside a run
the order is fixed: `create` ends in `adopt`; `adopt` and `start` end in `setupReachability`; `remove`
detaches, powers off, deletes, strips and forgets in that order. A non-zero exit of a remote command is *not*
an error to `exec.Capture` and `exec.Run`; who forgets to look at it reads an empty answer. Nor has a command a time
limit. Several of the hazards in `PROJECT.json` come from there.

## 2. Modules

| Module | Models | State | Actions |
|---|---|---|---|
| `HostTrust` | abstract specification: what pinning promises | the trusted machine, who was handed the CA key | `FirstContact`, `Discard`, `Deliver` |
| `Adoption` | every ssh contact of every verb and every change to `<NNN>/` that decides whom it reaches | pin, directory, record, CA, who holds the key, stages of the runs | one per step of `runAdopt`, of start / update / sync / list as far as they connect and save, of stop's and remove's way into the guest (`BeginStop`, `GracefulShutdown`), of remove and create's clean-up; `RetirePin` is ssh-keygen -R by hand |
| `Registry` | `vm.json` and everything that writes it | the file (absent, empty, garbled or a record), the entry each process holds | `Adopt`, `StartLoad`, `StartLocate`, `SyncNotes`, `ListLoad`, `CachedNotes`, then `Merge`, `Open` (truncate), `Write`; `Crash`, `EditKeys`, `Remove` |
| `Overlay` | the reachability component: the tunnel and the two places that name its address | the VM's address and power, wg0 and its saved configuration, proxy and peer, record, ssh block | `Begin…` for each verb, one action per remote or local step, a failure action wherever the step may be half done; `Restart` and `Proxy` are the world |
| `LanServers` | LAN servers: from the record to the name served on a VM | record and key of each server, the rendered file, its copy, what is served | `Save`, `SaveCut`, `RemoveFirst`, `RemoveAll`, `IssueLeaf`; `OpenHosts`, `FillHosts`; `Compare`, `Install`, `VMSetup` and their failures; `EditRecord` |
| `CertAuthority` | root, intermediate and leaf, their dates, and the names a leaf covers | the time, file contents (absent, torn, certificate, key, list), copies on the VM | `Begin`, `BeginCert`, `LoadOrGenerateRoot`, `CheckVM`, `LoadAndSign`, `Open`, `Fill`, `Push`, `Stop`, `Delete` (one file of `os.RemoveAll`); `Tick` |
| `SshConfig` | `Write`, `Strip`, `stripBlock`, `render`, and the verbs that use them: adopt and start, remove, uninstall, create's clean-up | the file as a sequence of lines, each VM's record (none, loads, broken), each run's buffer and what it has yet to strip and forget | `Record`, `RecordCut`, `Write`; `BeginRemove`, `BeginUninstall`, `BeginCreate`, `Strip`, `StripFails`, `Forget`; `Open` (truncate), `Fill`, `Stop`, `EditOwn` |
| `AuthKeys` | `syncAuthorizedKeys` | the file on the VM, the staging file, what `vm.json` lists | `syncAuthorizedKeys`, `Read`, `ReadNothing` (ssh failed), `StageKeys` (truncate), `Staged`, `Install` (unlink and create), `Installed`, `CutShort`, `SyncEnds`; `EditListed`, `EditKeys` |
| `Assets` | `pushAssets` and the overlay script | the two trees, the block, the digest, the staging tree, whether mpd is a git checkout | `BeginPush`, `ListTree`, `Digest`, `Compare`, `StageTree`, `Remove`, `Overlay`, `RecordExclude`, `RecordDigest`, `RecordNothing` (no checkout), `ScriptFails`, `PushEnds`; `EditTree` |
| `Staging` | how one file is put in place: image, installer, mirror drop-in, vm.env | the file under its temporary and its own name, and which of them each run has open | `Look`, `Open`, `Finish`, `CurlFails`, `Verify`, `Rename`, `Install` (unlink and create), `Installed`, `Tidy`, `Clear`, `Stop`; `EditSource` and `MakeArchive` are the developer and the VM |
| `Lifecycle` | the VM object on each of the six backends | the object, whether libvirt still has its definition, whose disk files lie there, the record | create, power and delete steps; `Hang`, a command that never returns; `GuestOff` and `User` are the guest and the hypervisor's UI |
| `AdoptionProofs`, `RegistryProofs`, `OverlayProofs`, `LanServersProofs`, `CertAuthorityProofs`, `StagingProofs`, `LifecycleProofs` | theorems about the module in their name | | |
| `ManagedBlocksProofs` | theorems about `SshConfig`, `AuthKeys` and `Assets`, the files in which mpd-virt keeps lines of its own beside the developer's; it extends all three, whose names therefore differ (`Spec`, `SyncSpec`, `PushSpec`) | | |
| `MC*` | small instances for TLC: symmetry and constraints only | | |

Conventions. A process has a stage, `pc[p]` (`sync[p]` in `AuthKeys`, `push[p]` in `Assets`); a stage is named after the step it is about to do, and a step
that changes two places is two stages. A handler's early return is a disjunct that ends the run. Every run may
be broken off at any stage (`Stop`, `Crash`, `SyncEnds`, `CutShort`, `PushEnds`). Machines stand for host keys, keys and files for model values,
contents for versions. History variables (`calm`, `fresh`, `stale`, `tainted`, `blind`, `cut`, `pruned`, `raced`, `halved`, `outrun`, …) are
set by the actions and read by the properties only, never by a guard, so they add no behaviour and remove none;
`Disturbs`, `Unsettles`, `KeepsCalm`, `Crossed`, `Changed`, `AtIt`, `Meets`, `Stripped` and `Leaves` only serve them.
Definitions introduced by "Mutant of X" are forms of X with a plausible bug in them; nothing else refers to them.

**`Lifecycle` and the six backends.** Where their code differs, each has definitions of its own:

| | container | UTM | libvirt | Proxmox | Parallels | generic |
|---|---|---|---|---|---|---|
| its word for the state | `ContainerState` | `UTMStatus` | `LibvirtState` | `ProxmoxState` | `ParallelsState` | none, unknown |
| power verbs | `ContainerPower` | `UTMPower` | `LibvirtPower` | `ProxmoxPower` | `ParallelsPower` | none |
| whether it is off | `State` | `State` | `State` | `State` | `State` | `Off`: a quiet ssh port |
| delete | `ContainerDelete` | `LookForVM`, `UTMKill`, `WaitVMStopped`, `Destroy` | `LookForRunning`, `VirshDestroy`, `Undefine`, `Unlink` | `LookForVM`, `ProxmoxKill`, `Destroy` | refused | refused |

Where it has one shape, a definition stands for a function in each: `CheckExists` for `containerExists`,
`utmVMExists`, `libvirtDomainExists` and `findVM`; `WipeFiles` and `MaterializeDisk` for UTM and libvirt;
`Make` and `Boot` for the body of container's `Create`, `utmCreate`, `libvirtCreate` and `cloneFromTemplate` with
what follows it; `Normalize` for `backend.Normalize`. The map names one of them. Two things are the
hypervisor's business, and both outcomes are allowed: whether UTM deletes a VM that runs (`CleanUp`), and
whether `prlctl start` wakes a suspended one (`ParallelsPower`).

**Where modules meet.** A verb whose steps belong to two components appears in both, each time with the steps that
component is about and a stage in which the other's happen: `syncLanHosts` is `LanServers`' from
`OpenHosts` to `VMSetup`, and in `Overlay` the one step that may drop the VM's end of the tunnel; a server's
certificate is `CertAuthority`'s, and in `LanServers` the one step `IssueLeaf` that creates a key beside the record;
`runAdopt` is `Adoption`'s, and in `Lifecycle` the step after which a record exists. Where a step may fail in
the other module, it may fail in this one.

External parts are modelled from how the code uses them: mpd-proxy (`Proxy`, a peer table that is lost when it stops;
`Call`, `Add` and `Remove` are the code's side of its control socket), the VM's own `mpd --vm-setup` (`VMSetup` in
`LanServers`, `Unpeered` in `Overlay`), systemd and wg-quick (`Boot` in `Overlay`), what a rename or a removal means
to whoever has the file open (`Moved` in `Staging`), and how a hypervisor's object changes when told to (`Moves` and
`Becomes` in `Lifecycle`).

## 3. Runs

| Run | Bounds | Question | Distinct states |
|---|---|---|---|
| `adoption` | 2 runs; the VM, its rebuilt self, a stranger | does a run keep to one machine, does the CA key go only to the checked one, do the files implement `HostTrust`? | 133,892 |
| `registry` | 2 writers, 2 addresses, 2 notes, 1 key | is the record what was last set, loadable, and does a save touch only its own? | 482,305 |
| `overlay` | 2 runs, 3 addresses | do all places agree after an undisturbed run, and what may undo a tunnel? | 451,954 |
| `servers` | 2 runs, 1 name, 2 addresses | is the rendered file what the records say, does a VM serve it when a run says so, is every key accounted for? | 770,959 |
| `certs` | 2 runs, 3 key pairs, 2 lists of names; 2 ticks a day, root 2 days, leaves at most 3, warning 1; the clocks go back at the 2nd tick | are certificate and key of one pair, is the pushed chain usable, do dates nest, is "current" usable? | 1,513,644 |
| `sshconfig` | 2 runs, 2 VMs, 2 addresses, 1 own line; records that load, are broken or gone | blocks and own lines after any rewrites; is there a record for every block, so that uninstall finds it? | 2,133,394 |
| `authkeys` | 2 runs, 1 own key, 1 key to manage, 1 malformed | own keys, convergence | 318,678 |
| `assets` | 2 pushes, 2 files, 1 version | what "current" and "pushed" mean | 358,137 |
| `staging` | 3 runs, 2 contents, the four kinds of file | is a file whole where it is renamed into place, the wanted one, and never replaced? | 452,742 |
| `lifecycle` | 2 runs, 6 backends, 1 poll, hypervisors that answer and ones that may not | disks, what "stopped" means, deletion, debris | 1,576,508 |
| `lifecycle_ends` | 1 run, 6 backends, 2 polls, fair | does every verb end, or wait for a command that never returns? | 17,314 |
| `authkeys_misread` | 1 run | finds the violation of section 5 | – |

**Why the bounds are enough.** The properties relate what one run read or did to what another did meanwhile;
two processes give every such pair, and one process starting anew after `Stop` gives any number of
sequential ones, since a process keeps nothing between runs. A staged file has a third run, which comes upon what two
overlapping ones left of their one temporary name. Two values of a kind tell "the same" from
"another" (an address that moved, a note that changed, a download that is not the pinned image); three machines
give the right one, its successor of the same name and a stranger; three addresses give a VM that moves away from
where record and peer, which may differ, have it. Three key pairs give a root, its successor and the
intermediate under either, or a leaf and its renewal under one root. One version of an asset gives present and
absent, which is all the script's remove, copy and record can confuse; two files let one be in the block and not
the other. One server is enough for `servers`: different servers meet only in the rendered file, which every run reads and
writes whole; its properties are stated per name, and the proofs of section 6 are for any number of them.

The dates of `certs` are as small as the arithmetic allows: a tick is the hour by which a calendar
day may differ from 24 hours, two of them make a day that can be cut down to whole days with a remainder, and a root of two
days leaves room for a leaf of two, of one, and of none. A leaf's own maximum is above the root's days, so the root bounds
it, which is the case the code comments on. `MaxPolls` replaces the 45 polls of `stopWait`, `Start`'s time to find an
address and UTM's wait for a stopped VM; the run at its end behaves the same whatever their number, and with 2 there is
a first, a middle and a last poll.

**Symmetry** is used over process names and, where no constant is singled out, over addresses, VMs, lines,
files and versions; never in the run with a liveness property. **Deadlock** is checked in every run.
Two runs have a **constraint**. `assets` does not explore beyond overlapping pushes, nor `sshconfig` beyond a torn file:
the properties checked there are all conditional on the negation of that very variable, which never turns back, so
no violation can lie beyond. `sshconfig` also goes no further once an update was lost *and* a VM may be without its
record. Three of its properties say nothing there either; `StripsCleanly`, which is about the file alone, does, and is
checked after a loss with every other run of reads, writes and strips.

**Fairness.** Only `lifecycle_ends` assumes any: weak fairness of `Run(p)`, "a running process goes on". The code
is sequential Go with a deadline at each wait of its own (`waitOff`, `Start`'s search for an address, `waitVMStopped`,
`waitTask`, `WaitReachable`). The commands it runs have none (`exec/exec.go:84,113`, under a context nobody cancels; and
`host/ssh.go:42-55` bounds the connecting, not what follows; a call of mpd-proxy has none either), so that a command returns is *not* assumed: at any stage the
run may take the step `Hang` instead, to a stage `hung` in which it is no longer a running process and which only
the user's `Crash` ends. `Terminates` then says that a verb ends or is hung, with a guest that never goes off, a hypervisor whose
answers are errors and a user who keeps changing the VM: what holds it up for ever can only be a command or a call, never one of the
loops. No fairness is assumed of the guest, the network or the user.

## 4. What the properties say

- **Adoption.** `SameMachineAfterFirst`: after its first contact a run can only reach the machine it saw, though the
  network may deliver each connection anywhere. `CAKeyOnlyToChecked`: the per-VM CA key, pushed minutes and
  seven connections after the hostname check, can only land on the machine that passed it. Both hold unless the pin is
  discarded in between, and the model has the discards (remove, uninstall, create's clean-up, ssh-keygen -R, each
  in the middle of another run). `VouchedRecordIsPinned`: an adopted VM never meets a silent first contact later.
  `TrustSpec`: refinement of `HostTrust`.
- **Registry.** `RecordIsLatest`: across verbs, probes, notes and hand edits, each field is what was last
  set on purpose, while no save is interrupted or overlapped. `LoadableAtRest`: an unloadable file at rest means a save cut
  short or overlapped. `SaveTouchesOnlyItsOwn`: every save, alone, changes its own field only (the sticky merge
  carries neither too little nor too much).
- **Overlay.** `StartWiresAll`: an undisturbed start or adoption leaves record, ssh block, proxy peer and VM agreeing,
  and its own vm-setup came before the wiring. `OverlaySurvives`: from then on the tunnel works through reboots
  and other verbs until one of the named events undoes it. A run that was overtaken may add, late, an address the VM has left:
  then the proxy's half is lost till the next start, and the VM's is not.
- **LanServers.** `HostsFileIsRecords`: whichever of several runs changed and rendered first, at rest the file says what
  the records say, but for records edited by hand and runs that ended before they rendered. `NamesServed`: a run that reports the names current or published is right, although it read the rendered
  file back from disk, compared digests and copied it while others rewrote it. `KeysAccountedFor`: no add, delete or
  renewal leaves a private key without a server, but a delete that was broken off or crossed by a renewal.
- **CertAuthority.** `PairsMatch`: after any crash, and any delete that stopped at any file, the halves of a CA pair are absent, torn or of one
  pair; generated again over a key such a delete had left, and cut short, they may not be.
  `AdoptedChainVerifies`: what an adopt leaves on the VM verifies. `NothingOutlivesIssuer`: a leaf's last tick against its
  root's. `CurrentLeafUsable`: "nothing to do" is said of a leaf with life left, its own key, the names it lists and this
  host's root, unless its writing or its deletion was cut short or overlapped.
- **SshConfig.** `BlocksAreLatest`, `OwnLinesKept`, and `StripsCleanly`, which holds even after lost updates.
  `BlocksAreRecorded`: whatever is adopted, removed and wiped at once, a VM with a block has a record that loads, so
  that uninstall, which lists records, finds every block it promises to remove.
- **AuthKeys.** `OwnKeysKept`: whatever is staged or installed by failed runs, but for a read that failed, an install cut short
  between its removal and its copy, and one that was overtaken. `BlockConverges`: keys removed from
  `vm.json` are gone from the VM.
- **Assets.** `CurrentIsCurrent`, and `PushedIsLocal`: a complete push is right whatever broken ones came before,
  but for files copied and never recorded, which is every file where mpd is no git checkout.
- **Staging.** `FinalIsWhole`: an image or an installer, which are renamed into place, is whole, and an image the one whose digest is pinned,
  wherever a run was cut off. The drop-in and vm.env are copied, and a copy cut short stays till the next run. `NothingReplaced`: an installer or image that has come is kept. `PlacedIsWanted`: what is
  configured is what is there, also when nothing is.
- **Lifecycle.** `DiskIsItsOwn`: a libvirt VM has the disk made for it. `StopMeansOff`: a stop without a warning left the
  VM off, on every backend that has a state (a libvirt stop always warns, so of it this says nothing). `FullDeletes`: a record is forgotten once the VM is gone.
  `FailedCreateLeavesNone`: where libvirt cleans up, or UTM does while the VM is off, and the hypervisor answers, the next
  create does not trip. `Terminates`: no loop of mpd-virt's own goes on for ever.

Each of these carries its exceptions in its statement ("unless …"). An exception is there because without it
the code violates the property; the important ones are in section 5. A hazard whose own failure is such an exception says so in its note in `PROJECT.json`: the
property then shows that nothing *else* leads there, not that it cannot happen. A mutant of a mapped definition breaks each
property under its own run (`PROJECT.json`, "mutants").

## 5. Disagreements between the code and what is said of it

One has a run that exhibits it:

- **`authkeys_misread` / `NeverTouched`.** `cli/authkeys.go:20-23` says keys outside the block "are never touched". An ssh
  that fails (exit 255) is no error to `Run`; its empty output is taken for an empty file, and the block alone
  is installed over it (`authkeys.go:119`). `OwnKeysKept` is the statement that holds.

The rest are behaviours the modules have, most of which TLC showed while the properties were being found. They
have no run of their own; most are why a property carries an exception.

| Where | What is said | What happens |
|---|---|---|
| `cli/adopt.go:184` | `host/ssh.go:131`: a refused key means the VM was rolled back or rebuilt | an adopt at a wrong address pins that machine and keeps the pin when the hostname check refuses; the right VM is refused afterwards |
| `cli/create.go:134` | `create.go:113-115`: a registry entry stops create | looked for before the prompt, deleted after it: a VM adopted meanwhile loses record, pin and CA |
| `cli/list.go:159` | `list.go:141-142`: a note's Save leaves the rest untouched | the entry saved was read before the probe: a change made meanwhile is undone, a removed record comes back |
| `registry/registry.go:102` | `registry.go:59-66`: hand-edited keys are not wiped | after a save cut short, the next one has nothing to carry over |
| `cli/server.go:294` | `server.go:310-312`, `src/docs/lan-servers.md:168-169`: the next start picks the names up | once the file is copied its digest matches: if vm-setup then failed, no start publishes it |
| `cli/server.go:351` | `list.go:224-225`: the peers are the VMs this host reaches | server sync runs vm-setup, which drops the VM's end, and never wires it again |
| `cli/server.go:212` | `cli/server.go:206-207`: the list of names is recorded "so a re-issue can reproduce it" | it is never read: a renewal without `--san` issues a certificate without them, and overwrites the list |
| `cli/server.go:193` | `server.go:168`: issue or renew | a certificate whose key was never written, or taken by a delete that was broken off, is "nothing to do" |
| `server/server.go:197`, `registry/registry.go:158` | `server.go:193`: deletes a server and everything issued for it | the directory goes file by file: broken off, it leaves a certificate without its key or a key without its certificate, over which the next generation, broken off too, puts a certificate that is not the key's |
| `cli/reachability.go:94` | `reachability.go:145-150`: start finds the address the VM came up on and registers it | a run overtaken by a start, after the VM has moved, registers the address it had found before: the tunnel loses the proxy's half |
| `cli/authkeys.go:136` | `authkeys.go:20-23`: keys outside the block are never touched | `install` removes the file before it writes the new one: a disk that is full, or a VM that goes off, leaves part of the developer's keys, or none |
| `cli/assets.go:263-279` | `assets.go:31-33`: the block says what to remove | off a git checkout there is no block and no digest: a complete push records nothing, and what the developer has deleted since stays on the VM |
| `cli/ocimirror.go:75` | `ocimirror.go:50-53`: the setting is honoured on the next verb | the drop-in is copied over itself: cut short, half a file stands under its own name until that verb |
| `exec/exec.go:84,113` | `orchestrate.go:171-172`: polls until the VM is off "or stopWait elapses" | only the polling has a deadline: a command that does not return holds the verb up until the user interrupts it |
| `server/server.go:197` | `server.go:193-195`: the key goes with the server, so that none is unaccounted for | a renewal that read the record before writes its key after: the directory is back, with a key and no record |
| `ca/ca.go:109` | `src/docs/security.md:156-157`: re-adopting recovers from a regenerated root | adopt only asks whether the per-VM pair exists and pushes the old intermediate |
| `ca/ca.go:79` | `ca.go:76-77`: "ensures the root CA exists" | a write cut short leaves a file that exists and is no CA |
| `ca/ca.go:122` | `ca.go:44`: nothing may outlive its issuer | hours left are counted out in days and added as calendar days: a leaf valid across the autumn change of clocks may outlive its root by an hour |
| `ca/ca.go:229` | `ca.go:213-214`: whole days until it expires, "negative once past" | cut toward zero: 0 on the first day after, and 0 on the last day before, when a root signs nothing any more |
| `sshconfig/sshconfig.go:146,155` | `sshconfig.go:1-5`: one block per VM, each stripped cleanly | overlapping rewrites lose a block; a torn block takes what follows it along |
| `cli/uninstall.go:61` | `uninstall.go:38-39`: wipes every managed block | only blocks of VMs whose record loads are stripped, a strip that fails is passed over, and then every record goes: what is left is found by nothing but a `remove` of that id |
| `cli/assets.go:91` | `assets.go:60`: the VM carries this exact tree | the digest of the push before a failed one survives it |
| `cli/assets.go:250` | `assets.go:31-33`: the block says what to remove | files copied by a push that failed before recording are in no block |
| `backend/cloudinit.go:75` | `cloudinit.go:63-66`: an interrupted download never looks complete | two downloads share one `.partial`: one renames what the other has truncated |
| `cli/installers.go:74` | `installers.go:31-33`: an archive the VM has is not replaced | asked once, gigabytes earlier, and then moved over whatever has come |
| `cli/ocimirror.go:65` | `ocimirror.go:50-53`: clearing the setting is honoured on the next verb | a removal that fails is not noticed |
| `backend/orchestrate.go:177` | `orchestrate.go:171-172`: stop waits until the backend reports it stopped | libvirt's "shut off" is unknown to `Normalize`: every stop waits out its deadline and warns |
| `backend/orchestrate.go:151` | `cli/remove.go:43-44`: powering off is a no-op for generic | a generic VM that answers is sent `systemctl poweroff` |
| `backends/proxmox.go:489`, `utm.go:198`, `libvirt.go:296` | `cli/remove.go:108-110`: a failed `--full` leaves a re-runnable state | a question that fails is taken for "no such VM": the VM stays, its record goes |
| `backends/libvirt.go:293` | `libvirt.go:289-290`: a running domain is stopped first | only the word "running" is: a paused one is undefined and its disk unlinked while it is active |
| `backends/proxmox.go:263` | `cli/reachability.go:146-147`: proxmox VMs are assumed already running | start sends the API's start verb |
| `backends/container.go:97` | `cli/remove.go:65-66`: a half-removed VM clears on re-run | deleting a container that is gone is an error, every time |
| `backends/libvirt.go:82` | its message names `remove --full` as the remedy | create got there because there is no record, and without one `remove --full` refuses |

## 6. Proofs

Checked by TLAPS (Z3, Zenon, LS4), for any number of processes and any values of the other constants.

| Theorem | Says | Rests on |
|---|---|---|
| `AdoptionProofs!Inductive` | `Spec => []IInv` | `MachineAssumption` |
| `TypeCorrect`, `SameMachine`, `CAKeyToChecked`, `VouchedRecord` | the invariants of the run `adoption` | `Inductive` |
| `ImplementsHostTrust` | `Spec => TrustSpec`: every step maps to a step of `HostTrust` or a stutter | `Inductive` |
| `RegistryProofs!Inductive`, `TypeCorrect`, `RecordLatest`, `Loadable`, `SaveTouches` | the properties of the run `registry` | `ValueAssumption` |
| `OverlayProofs!Inductive`, `TypeCorrect`, `Survives`, `WiresAll` | the properties of the run `overlay` | `OverlayAssumption` |
| `LanServersProofs!Inductive`, `TypeCorrect`, `Reported`, `NoStrayKeys`, `Rendering` | the properties of the run `servers`, for any number of servers | `LanAssumption` |
| `CertAuthorityProofs!Inductive`, `TypeCorrect`, `PairsMatchAlways`, `NothingOutlives`, `AdoptedChain`, `CurrentIsUsable` | the properties of the run `certs`, for any number of runs and keys and any lengths of time | `KeysAssumption`, `DaysAssumption` |
| `StagingProofs!Inductive`, `TypeCorrect`, `Whole`, `Wanted`, `NeverReplaced` | the properties of the run `staging`, for any number of runs | `StagingAssumption` |
| `LifecycleProofs!Inductive`, `TypeCorrect`, `OwnDisk`, `FullIsGone`, `StopIsOff`, `NothingHalfBuilt` | the invariants of the run `lifecycle`, for any number of runs and polls | `LifecycleAssumption` |
| `ManagedBlocksProofs!Inductive`, `LatestBlocks`, `NoneLeftBehind`, `OwnLinesSafe`, `CleanStrips` | the properties of the run `sshconfig`, for files of any length | `SshAssumption` |
| `SyncInductive`, `SyncTypeCorrect`, `OwnKeysSafe`, `Converges` | the properties of the run `authkeys` | `AuthAssumption` |
| `PushInductive`, `CurrentTree`, `PushedTree` | the properties of the run `assets`, also where pushes overlap | `AssetsAssumption` |

The assumptions say no more than that "no machine", "no address", "no file", "no directory" and the like are none of
the values, that the named and the authorized machines are machines and the valid keys are keys, that no VM is a line of the
developer's, that `Lifecycle`'s backends are among the six and the number of polls is one, that there is a key to make, and
that days and lives are positive and a root's life is at most what a leaf may ask for (365 and 397 days, in the
code, which is why a leaf is cut to what the root has left).

**Why the invariants need strengthening.**

- *Adoption.* That a run can reach only one machine is not inductive: it says nothing of how the pin came to be.
  `IInv` adds `KeptInDir` (whatever is kept has its directory, so a contact that has a CA key to send pins whom it sends
  it to) and `RunInv` (a run whose pin was not discarded has its directory, the pin is the machine it saw, and past the
  hostname check that machine has the name). Accepting is then accepting the pin, and the three properties follow.
- *Registry.* `IInv` adds what each writer in flight rests on (`Rests`): while it is not stale, the entry it
  holds agrees with the file and with what was last set, in every field but its own; and that without a
  file nothing was set. `Merge` and `Write` then carry it over to the file.
- *Overlay.* `IInv` adds how far a calm run has come: record, block, the VM's end of the tunnel and the
  proxy's are in step up to the run's stage. `Located` adds that a run that works with the VM has an address for it, so that what is added late is at least
  one. At the last stage that is `StartWiresAll`; `AddPeer` is where
  `OverlaySurvives` begins to hold and every other action has to keep it.
- *LanServers.* `CalmInv` follows the records of an undisturbed run from what it rendered to the file, to the copy, to the
  moment before they are served; `ServedInv` says that what is served is the copy unless somebody is to see to that; and
  `RenderInv` that the file lags behind the records only while somebody is to render. `LocalInv` says what each stage
  knows of its server.
- *CertAuthority.* What a pair is depends on who is in the middle of writing it. `WriterInv`: until two runs write
  the same pair it has one writer, what that has written is there, and the rest is not. `RestInv`: a pair nobody writes is
  none, half of one, or one, except that what a broken delete left (`pruned`) is any part of one, until it is written whole. `KeysInv`: nothing is signed with a key that is only being written, and no key is made twice.
  `ChainInv`: what is under a root was signed by the one that is there. `ExpiryInv` follows a leaf's date from the days read
  off the root, over the calendar day they are counted from, to the file. `CalmInv` says what an adopt has copied.
- *SshConfig.* Nothing can be said of what `stripBlock` does to any file whatever, so `WholeInv` says first that until a
  write is torn the file, and what runs are about to make of it, consists of whole blocks; there stripping takes out one VM's
  lines (lemma `Stripping`) and keeps neighbours together (`KeptLines`). `LatestInv` says that what an undisturbed run is about
  to write shows what the file will have to show. `WriterInv` and `DropInv` are about the records: blocks are written
  under one, and a record that is to go is of a VM whose block is gone, unless another run met it there. `Lines`, from
  which `stripBlock` is made, is defined by counting (a kept line's place is the number of kept lines up to it), so that
  what it does follows from facts about cardinalities and needs no induction over the file.
- *AuthKeys.* `SyncInv` says what a run holds at each stage: the keys it was asked for, the file it read with the block
  replaced, and, before it installs, that the staging file is its own; and that nobody else is at the copy while a calm run is.
- *Assets.* `PushInv`: a push nobody disturbed has the tree as it is, and a script that was not crossed runs alone and
  from the tree that was digested. `OverlayInv`: what is on the VM is named in the exclude block or stray, at rest and at each
  step of a script, which is why a broken push does no lasting harm. `DigestInv`: the digest is that of what is there. `RecordsInv`: off a checkout there is neither block nor digest.
- *Staging.* `AloneInv`: until two runs have overlapped, at most one has the temporary name, and it is whole (for an
  image: verified) when it is renamed. `WhereInv` says where a file that is open can have got to by others' renames and removals,
  `CalmInv` what an undisturbed run writes, `CameInv` that a run at work had found the file missing.
- *Lifecycle.* Each property is about the end of a verb, so `IInv` says how far an undisturbed run has come at each of its
  stages: `Made` a create and its clean-up, `Gone` a delete, `Stopped` a stop, `Filed` a create about to hand its
  files to libvirt; `Staged` says which verb, on which backend, is at which stage. The lemma `ActsFrame` states what any
  action may do to another run's part, so that the thirty actions are gone through once per conjunct they can disturb.

Each `IInv` was also given to TLC as an invariant on the bounds of section 3 before it was proved.

**Out of the prover's reach**, and left to TLC: `Terminates` (liveness under fairness, and ENABLED). Every other property of
a passing run is a theorem. No module declares a RECURSIVE operator.

## 7. How to run

In this directory: `tlc -config adoption.cfg MCAdoption.tla`, and so on for each row of section 3 (`lifecycle.cfg`,
`lifecycle_ends.cfg` with `MCLifecycle`, `servers.cfg` with `MCLanServers`, `certs.cfg` with `MCCertAuthority`);
`tlapm AdoptionProofs.tla` for the proofs. Most runs take seconds; `sshconfig`, `servers`, `certs`, `staging` and `lifecycle`
take up to two or three minutes, and so do the proofs of `LifecycleProofs`, `CertAuthorityProofs` and `ManagedBlocksProofs`.

## 8. Abstractions to keep in mind

- Whether a machine answers at an address is a choice at each contact (`Adoption`); in `Overlay` a machine that is not the
  pinned VM does not answer at all, which is what `Adoption` shows of it.
- `vm.json` is a set of fields with a merge rule each; JSON itself is not modelled. A record cut short does not load.
- A write is truncate, then content. That a write is cut in the middle is a torn file; two writers overlapping give a
  garbled one. `install` is unlink, create, content; a rename is one step. A writer whose file was unlinked writes on into one that
  has no name (`gone`, `orphan`).
- `Overlay`, `Lifecycle`, `CertAuthority`'s per-VM pair, `AuthKeys`, `Assets`, `Staging` and the VM of `LanServers` are about
  one VM each: the verbs of different VMs share only `~/.ssh/config`, the root CA, the image cache and the rendered hosts
  file, which `SshConfig`, `CertAuthority`, `Staging` and `LanServers` treat as shared.
- Time in `CertAuthority` passes for leaves only: a CA pair is never renewed by its date, and its own expiry does not pass in the runs: that an
  adopted chain verifies is about keys and signatures. A tick is an hour of a day that has
  two, and a calendar day differs from it by one when the clocks go back; the spring change only shortens.
- `silent` in `Lifecycle` is a hypervisor whose CLI or API may fail at any call, at each call anew; without it every question is
  answered, though a command may still be refused. Answering late is answering; never is `Hang`.
- In `Assets` no asset has the name of one of mpd's own files.

## 9. Not modelled

Configuration, ids, output and prompts (no state of their own; a prompt is a stage where it matters); the allow-list of
commands, the terminal filter and the name and address rules of LAN servers (pure); the parsers of hypervisors'
output beyond the words for a state; the keychain check (reads only); name constraints and fingerprints of
certificates; the order of `locate`'s candidates and its DNS lookups; the text of cloud-init seeds; the Containerfile and
one-off shell scripts; guest provisioning over ssh beyond its order in `adopt`; `uninstall`'s removal of the proxy's
socket directory; mpd-proxy and mpd themselves (outside the repository).

## 10. Plan

Done, in this order: `Adoption` with `HostTrust`, `Registry`, `Overlay`, `CertAuthority`, `SshConfig`, `AuthKeys`, `Assets`,
`Lifecycle`, then `LanServers`, `Staging`, the dates and names of `CertAuthority`, `Lifecycle` on all backends, and in
`SshConfig` uninstall over several VMs with records that do not load; theorems about all of them. Last, what is not done
in one piece: `os.RemoveAll`, `install`, a push off a checkout, a command that never returns.

Next, most important first:

1. An abstract specification of the tunnel (wired or not) that `Overlay` implements, as `HostTrust` is for `Adoption`.
2. The order of `locate`'s candidates, as far as a stale one may be preferred.
3. The expiry of root and per-VM pair themselves, which the code never renews.
