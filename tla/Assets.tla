-------------------------------- MODULE Assets -------------------------------
(***************************************************************************)
(* The developer's assets: ~/.mpd-virt/assets on the host, overlaid onto   *)
(* mpd's own tree on a VM by adopt and update.  The VM carries two records *)
(* of the last overlay: the managed exclude block, which names the files   *)
(* to take out next time, and a digest, which says that nothing need be    *)
(* copied.  The push lists the tree, digests it and copies it one after    *)
(* the other; the script on the VM removes, copies and records in steps    *)
(* any of which may fail.  Both records live in the .git of mpd's checkout *)
(* on the VM: without one nothing is recorded.  mpd's own files are not    *)
(* modelled: no asset has the name of one.                                 *)
(***************************************************************************)
EXTENDS FiniteSets

CONSTANTS Pushes,    \* the runs that push
          Files,     \* the paths an asset can have
          Versions,  \* what an asset can hold, mode included
          NoAsset,   \* no such asset
          NoDir,     \* the host has no assets directory
          NoDigest   \* the VM has no digest, or the empty one

Trees == [Files -> Versions \cup {NoAsset}]

ASSUME AssetsAssumption == NoAsset \notin Versions /\ NoDir \notin Trees /\ NoDigest \notin Trees

Present(t) == {f \in Files : t[f] # NoAsset}
Only(t, fs) == [f \in Files |-> IF f \in fs THEN t[f] ELSE NoAsset]

VARIABLES
    checkout,  \* mpd is a git checkout on this VM
    local,     \* the tree on the host, or NoDir
    vm,        \* the overlaid files on the VM
    exclude,   \* the paths the VM's managed exclude block names
    digest,    \* the tree the VM's digest is of
    push,      \* each process: its stage
    rels,      \* each process: the paths it listed
    sum,       \* each process: the tree its digest is of
    copy,      \* each process: the tree it staged on the VM
    \* History variables, read by the properties and never by a guard.
    quiet,     \* [p] neither tree nor record was changed by another since p began
    broken,    \* a script stopped half way, and none was completed since
    strays,    \* the files copied by a script that did not record them: it was
               \*     broken off before, or had no checkout to record them in
    crossed    \* a script overlapped another, or the tree changed before its copy

pushVars == <<checkout, local, vm, exclude, digest, push, rels, sum, copy, quiet, broken, strays, crossed>>

Script == {"remove", "overlay", "record", "digest"}

NoTree == [f \in Files |-> NoAsset]

PushInit ==
    /\ checkout \in BOOLEAN
    /\ local \in Trees \cup {NoDir}
    /\ vm = NoTree /\ exclude = {} /\ digest = NoDigest
    /\ push = [p \in Pushes |-> "idle"]
    /\ rels = [p \in Pushes |-> {}]
    /\ sum = [p \in Pushes |-> NoTree] /\ copy = [p \in Pushes |-> NoTree]
    /\ quiet = [p \in Pushes |-> FALSE]
    /\ broken = FALSE /\ strays = {} /\ crossed = FALSE

-----------------------------------------------------------------------------
PushTo(p, to) == push' = [push EXCEPT ![p] = to]
ClearPush(p) ==
    /\ PushTo(p, "idle")
    /\ rels' = [rels EXCEPT ![p] = {}]
    /\ sum' = [sum EXCEPT ![p] = NoTree] /\ copy' = [copy EXCEPT ![p] = NoTree]
Unsettles(p) == quiet' = [q \in Pushes |-> q = p /\ quiet[q]]

BeginPush(p) ==
    /\ push[p] = "idle"
    /\ PushTo(p, IF local = NoDir THEN "none" ELSE "list")
    /\ quiet' = [quiet EXCEPT ![p] = TRUE]
    /\ UNCHANGED <<checkout, local, vm, exclude, digest, rels, sum, copy, broken, strays, crossed>>

(* assetRelPaths.                                                          *)
ListTree(p) ==
    /\ push[p] = "list" /\ local # NoDir
    /\ PushTo(p, "sum")
    /\ rels' = [rels EXCEPT ![p] = Present(local)]
    /\ UNCHANGED <<checkout, local, vm, exclude, digest, sum, copy, quiet, broken, strays, crossed>>

(* assetDigest, of the files listed: one that is gone is an error.         *)
Digest(p) ==
    /\ push[p] = "sum" /\ local # NoDir
    /\ rels[p] \subseteq Present(local)
    /\ PushTo(p, "compare")
    /\ sum' = [sum EXCEPT ![p] = Only(local, rels[p])]
    /\ UNCHANGED <<checkout, local, vm, exclude, digest, rels, copy, quiet, broken, strays, crossed>>

(* The VM's digest is read over ssh; an unreadable one means a full push.  *)
Compare(p) ==
    /\ push[p] = "compare"
    /\ \/ digest = sum[p] /\ rels[p] # {} /\ PushTo(p, "current")
       \/ PushTo(p, "scp")
    /\ UNCHANGED <<checkout, local, vm, exclude, digest, rels, sum, copy, quiet, broken, strays, crossed>>

(* The whole tree is copied to the VM as it is by now, and the list, the   *)
(* digest and the exclude block beside it.                                 *)
StageTree(p) ==
    /\ push[p] = "scp" /\ local # NoDir
    /\ PushTo(p, "remove")
    /\ copy' = [copy EXCEPT ![p] = local]
    /\ crossed' = (crossed \/ local # sum[p] \/ \E q \in Pushes \ {p} : push[q] \in Script)
    /\ UNCHANGED <<checkout, local, vm, exclude, digest, rels, sum, quiet, broken, strays>>

-----------------------------------------------------------------------------
(* The script on the VM.                                                   *)

\* Mutant of Remove: what the last overlay dropped stays.
RemoveNothing(p) ==
    /\ push[p] = "remove"
    /\ PushTo(p, "overlay")
    /\ Unsettles(p)
    /\ UNCHANGED <<checkout, local, vm, exclude, digest, rels, sum, copy, broken, strays, crossed>>

(* 1. What the last overlay dropped is removed.                            *)
Remove(p) ==
    /\ push[p] = "remove"
    /\ PushTo(p, "overlay")
    /\ vm' = Only(vm, Files \ exclude)
    /\ Unsettles(p)
    /\ UNCHANGED <<checkout, local, exclude, digest, rels, sum, copy, broken, strays, crossed>>

(* 2, 3. The staged tree is copied over, and its modes set.                *)
Overlay(p) ==
    /\ push[p] = "overlay"
    /\ PushTo(p, "record")
    /\ vm' = [f \in Files |-> IF copy[p][f] # NoAsset THEN copy[p][f] ELSE vm[f]]
    /\ Unsettles(p)
    /\ UNCHANGED <<checkout, local, exclude, digest, rels, sum, copy, broken, strays, crossed>>

(* 4. The exclude block is replaced, in a checkout.                        *)
RecordExclude(p) ==
    /\ push[p] = "record" /\ checkout
    /\ PushTo(p, "digest")
    /\ exclude' = rels[p]
    /\ Unsettles(p)
    /\ UNCHANGED <<checkout, local, vm, digest, rels, sum, copy, broken, strays, crossed>>

(* Last, the digest; the digest of an empty tree is empty.                 *)
RecordDigest(p) ==
    /\ push[p] = "digest"
    /\ PushTo(p, "pushed")
    /\ digest' = IF rels[p] = {} THEN NoDigest ELSE sum[p]
    /\ broken' = FALSE
    /\ Unsettles(p)
    /\ UNCHANGED <<checkout, local, vm, exclude, rels, sum, copy, strays, crossed>>

(* Off a git checkout both records are skipped, and the script is done.    *)
RecordNothing(p) ==
    /\ push[p] = "record" /\ ~ checkout
    /\ PushTo(p, "pushed")
    /\ strays' = strays \cup (Present(copy[p]) \ exclude)
    /\ broken' = FALSE
    /\ Unsettles(p)
    /\ UNCHANGED <<checkout, local, vm, exclude, digest, rels, sum, copy, crossed>>

(* A step fails, having done some of its work: set -e ends the script.     *)
ScriptFails(p) ==
    /\ push[p] \in {"remove", "overlay"}
    /\ \E fs \in SUBSET Files :
          LET touched == IF push[p] = "remove" THEN fs \cap exclude ELSE fs \cap Present(copy[p])
          IN  /\ vm' = [f \in Files |->
                          IF f \notin touched THEN vm[f]
                          ELSE IF push[p] = "remove" THEN NoAsset ELSE copy[p][f]]
              /\ strays' = IF push[p] = "remove" THEN strays ELSE strays \cup (touched \ exclude)
    /\ ClearPush(p)
    /\ broken' = TRUE
    /\ Unsettles(p)
    /\ UNCHANGED <<checkout, local, exclude, digest, crossed>>

(* The run ends: done, failed or interrupted between two steps; the VM may *)
(* be switched off under a script.                                         *)
PushEnds(p) ==
    /\ push[p] # "idle"
    /\ ClearPush(p)
    /\ broken' = (broken \/ push[p] \in Script)
    /\ strays' = IF push[p] = "record" THEN strays \cup (Present(copy[p]) \ exclude) ELSE strays
    /\ quiet' = [quiet EXCEPT ![p] = FALSE]
    /\ UNCHANGED <<checkout, local, vm, exclude, digest, crossed>>

(* The developer changes the tree, or loses the directory.                 *)
EditTree ==
    /\ local' \in Trees \cup {NoDir}
    /\ quiet' = [p \in Pushes |-> FALSE]
    /\ UNCHANGED <<checkout, vm, exclude, digest, push, rels, sum, copy, broken, strays, crossed>>

PushNext ==
    \/ \E p \in Pushes :
          \/ BeginPush(p) \/ ListTree(p) \/ Digest(p) \/ Compare(p) \/ StageTree(p)
          \/ Remove(p) \/ Overlay(p) \/ RecordExclude(p) \/ RecordDigest(p)
          \/ RecordNothing(p) \/ ScriptFails(p) \/ PushEnds(p)
    \/ EditTree

PushSpec == PushInit /\ [][PushNext]_pushVars

-----------------------------------------------------------------------------
(* Properties.                                                             *)

NoScript == \A p \in Pushes : push[p] \notin Script

\* A push that says the VM carries this very tree is right - if nothing
\* interfered with it, no script is running on the VM or was broken off since
\* the last complete one, and none ever copied a tree that had changed since it
\* was digested.
CurrentIsCurrent ==
    \A p \in Pushes :
        push[p] = "current" /\ quiet[p] /\ NoScript /\ ~ broken /\ ~ crossed /\ strays = {} => vm = local

\* A complete push leaves the developer's tree and nothing of an earlier one -
\* whatever broken pushes came before it, but for files that were copied and
\* not recorded: by a push that was broken off, or by any push to a VM whose
\* mpd is no git checkout.
PushedIsLocal ==
    \A p \in Pushes :
        push[p] = "pushed" /\ quiet[p] /\ ~ crossed =>
            \A f \in Files : vm[f] = local[f] \/ (local[f] = NoAsset /\ f \in strays)
-----------------------------------------------------------------------------
(* Why they hold: what a run has in hand, and what the VM has of it.       *)

PushTypeOK ==
    /\ checkout \in BOOLEAN
    /\ local \in Trees \cup {NoDir} /\ vm \in Trees
    /\ exclude \subseteq Files /\ digest \in Trees \cup {NoDigest}
    /\ push \in [Pushes -> {"idle", "none", "list", "sum", "compare", "current", "scp", "pushed"}
                            \cup Script]
    /\ rels \in [Pushes -> SUBSET Files]
    /\ sum \in [Pushes -> Trees] /\ copy \in [Pushes -> Trees]
    /\ quiet \in [Pushes -> BOOLEAN] /\ broken \in BOOLEAN /\ crossed \in BOOLEAN
    /\ strays \subseteq Files

\* A run nobody disturbed has the tree as it is; and scripts that were not
\* raced run alone, from the tree that was digested.
PushInv ==
    \A p \in Pushes :
        /\ quiet[p] /\ push[p] = "sum" => rels[p] = Present(local)
        /\ quiet[p] /\ push[p] \in {"compare", "scp"} => sum[p] = local
        /\ quiet[p] /\ push[p] \in Script => copy[p] = local
        /\ push[p] \in {"compare", "scp"} \cup Script => rels[p] = Present(sum[p])
        /\ ~ crossed /\ push[p] \in Script =>
              copy[p] = sum[p] /\ \A q \in Pushes \ {p} : push[q] \notin Script

\* The VM has the tree t, and strays.
Overlaid(t) == \A f \in Files : vm[f] = t[f] \/ (t[f] = NoAsset /\ f \in strays)

\* What there is on the VM is in the exclude block, or stray; a script takes out
\* the former and brings in what it then records.
OverlayInv ==
    ~ crossed =>
        /\ NoScript => Present(vm) \subseteq exclude \cup strays
        /\ \A p \in Pushes :
              /\ push[p] = "remove" => Present(vm) \subseteq exclude \cup strays
              /\ push[p] = "overlay" => Present(vm) \subseteq strays
              /\ push[p] \in {"record", "digest"} => Overlaid(copy[p])
              /\ push[p] = "digest" => exclude = rels[p]

\* The digest is that of what the VM has.
DigestInv ==
    NoScript /\ ~ crossed /\ ~ broken /\ strays = {} /\ digest # NoDigest => vm = digest

\* Off a git checkout there is neither record.
RecordsInv ==
    ~ checkout =>
        exclude = {} /\ digest = NoDigest /\ \A p \in Pushes : push[p] # "digest"

PushIInv == PushTypeOK /\ PushInv /\ RecordsInv /\ OverlayInv /\ DigestInv /\ CurrentIsCurrent /\ PushedIsLocal
=============================================================================
