------------------------------- MODULE AuthKeys ------------------------------
(***************************************************************************)
(* The VM's ~/.ssh/authorized_keys: the block mpd-virt manages, converged  *)
(* on vm.json's authorized_keys by start and update, beside the keys that  *)
(* are the developer's own - the one adoption came in with, and any added  *)
(* by hand.  The file is read, rebuilt on the host, staged under one fixed *)
(* name in /tmp and installed, by any number of concurrent runs.  Neither  *)
(* copy is atomic: scp empties the staging file before it fills it, and    *)
(* install removes authorized_keys before it writes another in its place.  *)
(***************************************************************************)
CONSTANTS Syncs,    \* the running start and update processes
          OwnKeys,  \* keys that may be in the file outside the block
          Keys,     \* what vm.json can list
          Valid,    \* those of them that are plain public keys
          Nothing   \* nothing is staged

\* The managed block is never left empty: without keys there is none.
Content == [own : SUBSET OwnKeys, block : SUBSET Valid]

ASSUME AuthAssumption == Valid \subseteq Keys /\ Nothing \notin Content

VARIABLES
    authorized, \* authorized_keys on the VM
    staged,     \* the staging file on the VM
    listed,     \* vm.json's authorized_keys
    sync,       \* each process: idle, or about to read, stage, install, or done
    keys,       \* each process: the keys to manage, as loaded and checked
    new,        \* each process: the content it computed
    \* History variables, read by the properties and never by a guard.
    byHand,     \* the developer's keys, as last edited by hand
    calm,       \* [p] nothing else changed the file, the stage or vm.json
    misread,    \* a run took an ssh connection that failed for an empty file
    overtaken,  \* a run installed over a change it had not read
    halved      \* an install was cut short between the two halves of its work

told     == <<misread, overtaken, halved>>
syncVars == <<authorized, staged, listed, sync, keys, new, byHand, calm, told>>

SyncStages == {"idle", "read", "stage", "send", "install", "copy", "orphan", "done"}

SyncTypeOK ==
    /\ authorized \in Content
    /\ staged \in Content \cup {Nothing}
    /\ listed \subseteq Keys
    /\ sync \in [Syncs -> SyncStages]
    /\ keys \in [Syncs -> SUBSET Valid]
    /\ new \in [Syncs -> Content \cup {Nothing}]
    /\ byHand \subseteq OwnKeys
    /\ calm \in [Syncs -> BOOLEAN] /\ misread \in BOOLEAN
    /\ overtaken \in BOOLEAN /\ halved \in BOOLEAN

Empty == [own |-> {}, block |-> {}]

SyncInit ==
    /\ byHand \in SUBSET OwnKeys
    /\ authorized = [own |-> byHand, block |-> {}]
    /\ staged = Nothing
    /\ listed \in SUBSET Keys
    /\ sync = [p \in Syncs |-> "idle"]
    /\ keys = [p \in Syncs |-> {}]
    /\ new = [p \in Syncs |-> Nothing]
    /\ calm = [p \in Syncs |-> FALSE] /\ misread = FALSE
    /\ overtaken = FALSE /\ halved = FALSE

-----------------------------------------------------------------------------
\* Mutants of applyManagedKeys: keys are added to the block, never taken out;
\* the file becomes the block.
AddManagedKeys(content, managed) == [content EXCEPT !.block = @ \cup managed]

OnlyManagedKeys(content, managed) == [own |-> {}, block |-> managed]

(* The block is cut out and, if there are keys for it, put back at the end.*)
(* A block that was cut short counts as the keys it has: it is at the end  *)
(* of the file, and cutting it out takes nothing else along.               *)
applyManagedKeys(content, managed) == [content EXCEPT !.block = managed]

SyncTo(p, to) == sync' = [sync EXCEPT ![p] = to]
Disturbs(p) == calm' = [q \in Syncs |-> q = p /\ calm[q]]

\* A run begins calm unless authorized_keys is just being replaced.
BeginsCalm(p) == calm' = [calm EXCEPT ![p] = \A q \in Syncs : sync[q] # "copy"]

\* Mutant of syncAuthorizedKeys: a malformed entry is passed on.
SyncUnchecked(p) ==
    /\ sync[p] = "idle"
    /\ SyncTo(p, "read")
    /\ keys' = [keys EXCEPT ![p] = listed]
    /\ BeginsCalm(p)
    /\ UNCHANGED <<authorized, staged, listed, new, byHand, told>>

(* start and update loaded vm.json; malformed entries are skipped.         *)
syncAuthorizedKeys(p) ==
    /\ sync[p] = "idle"
    /\ SyncTo(p, "read")
    /\ keys' = [keys EXCEPT ![p] = listed \cap Valid]
    /\ BeginsCalm(p)
    /\ UNCHANGED <<authorized, staged, listed, new, byHand, told>>

\* With nothing to change the run is over, and otherwise it has its content.
Decide(p, existing) ==
    LET updated == applyManagedKeys(existing, keys[p])
    IN  /\ SyncTo(p, IF updated = existing THEN "done" ELSE "stage")
        /\ new' = [new EXCEPT ![p] = IF updated = existing THEN Nothing ELSE updated]

(* cat over ssh: its exit code is not looked at.                           *)
Read(p) ==
    /\ sync[p] = "read"
    /\ Decide(p, authorized)
    /\ UNCHANGED <<authorized, staged, listed, keys, byHand, calm, told>>

(* ssh itself failed: exit 255, no output, no error - no file.             *)
ReadNothing(p) ==
    /\ sync[p] = "read"
    /\ Decide(p, Empty)
    /\ misread' = (misread \/ authorized # Empty)
    /\ UNCHANGED <<authorized, staged, listed, keys, byHand, calm, overtaken, halved>>

(* WriteRemote: scp to the one staging name empties the file, then fills it.*)
StageKeys(p) ==
    /\ sync[p] = "stage"
    /\ SyncTo(p, "send")
    /\ staged' = Empty
    /\ Disturbs(p)
    /\ UNCHANGED <<authorized, listed, keys, new, byHand, told>>

Staged(p) ==
    /\ sync[p] = "send"
    /\ SyncTo(p, "install")
    /\ staged' = new[p]
    /\ Disturbs(p)
    /\ UNCHANGED <<authorized, listed, keys, new, byHand, told>>

(* install opens whatever is staged by now, removes authorized_keys and    *)
(* creates it anew; what another install is still writing into is gone.    *)
Install(p) ==
    /\ sync[p] = "install"
    /\ staged # Nothing
    /\ sync' = [q \in Syncs |-> IF q = p THEN "copy"
                               ELSE IF sync[q] = "copy" THEN "orphan" ELSE sync[q]]
    /\ new' = [new EXCEPT ![p] = staged]
    /\ authorized' = Empty
    /\ overtaken' = (overtaken \/ ~ calm[p])
    /\ Disturbs(p)
    /\ UNCHANGED <<staged, listed, keys, byHand, misread, halved>>

(* It has written the file, or the one that was removed, and then rm.      *)
Installed(p) ==
    /\ sync[p] \in {"copy", "orphan"}
    /\ SyncTo(p, "done")
    /\ authorized' = IF sync[p] = "copy" THEN new[p] ELSE authorized
    /\ staged' = Nothing
    /\ overtaken' = (overtaken \/ ~ calm[p])
    /\ Disturbs(p)
    /\ UNCHANGED <<listed, keys, new, byHand, misread, halved>>

Ends(p) ==
    /\ SyncTo(p, "idle")
    /\ keys' = [keys EXCEPT ![p] = {}]
    /\ new' = [new EXCEPT ![p] = Nothing]

\* What may be there of a file that was not written to its end.
Part(content) == [own : SUBSET content.own, block : SUBSET content.block]

(* The VM goes off, its disk is full or the run is broken off while a file *)
(* is written: part of it stays.                                           *)
CutShort(p) ==
    /\ \/ sync[p] = "send" /\ staged' \in Part(new[p]) /\ UNCHANGED <<authorized, halved>>
       \/ sync[p] = "copy" /\ authorized' \in Part(new[p]) /\ halved' = TRUE /\ UNCHANGED staged
    /\ Ends(p)
    /\ calm' = [q \in Syncs |-> FALSE]
    /\ UNCHANGED <<listed, byHand, misread, overtaken>>

(* A run ends: done, or it failed, with a warning, between two of these.   *)
SyncEnds(p) ==
    /\ sync[p] \notin {"idle", "send", "copy"}
    /\ Ends(p)
    /\ calm' = [calm EXCEPT ![p] = FALSE]
    /\ UNCHANGED <<authorized, staged, listed, byHand, told>>

(* The developer edits vm.json, or the VM's file outside the block.        *)
EditListed ==
    /\ listed' \in SUBSET Keys
    /\ calm' = [p \in Syncs |-> FALSE]
    /\ UNCHANGED <<authorized, staged, sync, keys, new, byHand, told>>

EditKeys ==
    /\ byHand' \in SUBSET OwnKeys
    /\ authorized' = [authorized EXCEPT !.own = byHand']
    /\ calm' = [p \in Syncs |-> FALSE]
    /\ UNCHANGED <<staged, listed, sync, keys, new, told>>

SyncNext ==
    \/ \E p \in Syncs :
          \/ syncAuthorizedKeys(p) \/ Read(p) \/ ReadNothing(p)
          \/ StageKeys(p) \/ Staged(p) \/ Install(p) \/ Installed(p)
          \/ CutShort(p) \/ SyncEnds(p)
    \/ EditListed \/ EditKeys

SyncSpec == SyncInit /\ [][SyncNext]_syncVars

-----------------------------------------------------------------------------
(* Properties.                                                             *)

\* The keys outside the block are the developer's, or a run that has them all
\* in hand is just putting them back, whatever is staged, installed or left
\* behind by runs that failed - unless a failed connection was read as an empty
\* file, a run installed over a change it had not read, or the VM went off or
\* ran out of disk between an install's removal and its copy.
OwnKeysKept ==
    ~ misread /\ ~ overtaken /\ ~ halved =>
        \/ authorized.own = byHand
        \/ \E p \in Syncs : sync[p] = "copy" /\ new[p].own = byHand

\* A run that ends without a warning, without interference and without such a
\* failure leaves the block with exactly the valid keys of vm.json, those
\* removed from it gone.
BlockConverges ==
    \A p \in Syncs :
        sync[p] = "done" /\ calm[p] /\ ~ misread => authorized.block = listed \cap Valid

-----------------------------------------------------------------------------
(* Why they hold: what a run in flight rests on, stage by stage.           *)

SyncInv ==
    \A p \in Syncs :
        /\ sync[p] \in {"stage", "send", "install", "copy", "orphan"} => new[p] # Nothing
        /\ calm[p] /\ sync[p] # "idle" => keys[p] = listed \cap Valid
        /\ calm[p] => \A q \in Syncs \ {p} : sync[q] # "copy"
        /\ calm[p] /\ sync[p] \in {"stage", "send", "install"} /\ ~ misread =>
              new[p] = [own |-> authorized.own, block |-> keys[p]]
        /\ calm[p] /\ sync[p] = "install" => staged = new[p]
        /\ calm[p] => sync[p] # "orphan"
        /\ calm[p] /\ sync[p] = "copy" /\ ~ misread =>
              /\ new[p].block = keys[p]
              /\ ~ overtaken /\ ~ halved => new[p].own = byHand

SyncIInv == SyncTypeOK /\ OwnKeysKept /\ BlockConverges /\ SyncInv

-----------------------------------------------------------------------------
(* What a comment says, and the program does not do.                       *)

\* authkeys.go: the keys outside the block are never touched.
NeverTouched ==
    ~ overtaken /\ ~ halved /\ (\A p \in Syncs : sync[p] # "copy") => authorized.own = byHand
=============================================================================
