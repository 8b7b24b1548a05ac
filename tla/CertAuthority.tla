---------------------------- MODULE CertAuthority ----------------------------
(***************************************************************************)
(* The local certificate authority: the root pair in conf/caroot and, below*)
(* it, one VM's intermediate pair in <NNN>/ca, of which adopt copies the   *)
(* chain to the VM, or one LAN server's leaf in servers/<name>, with the   *)
(* list of the names it covers.  The files are written one after the other *)
(* by any number of concurrent mpd-virt processes that may be interrupted  *)
(* anywhere.  Whether a CA pair is generated is decided from the existence *)
(* of its files; a leaf is issued anew once its days run out.              *)
(***************************************************************************)
EXTENDS Naturals, Sequences

CONSTANTS Procs,     \* the running mpd-virt processes
          MaxKeys,   \* how many key pairs are generated, in all
          Sans,      \* the names --san can ask for, and that it asked for none
          None,      \* what a file that is no certificate covers
          Day,       \* the ticks in a day of 24 hours
          RootDays,  \* rootValidDays
          LeafDays,  \* leafMaxDays
          WarnDays,  \* expiryWarningDays
          Autumn,    \* when the clocks go back by a tick (forward only shortens)
          Horizon    \* how far time goes

ASSUME KeysAssumption == MaxKeys \in Nat \ {0} /\ None \notin Sans
ASSUME DaysAssumption ==
    /\ {Day, RootDays, LeafDays, WarnDays} \subseteq Nat \ {0}
    /\ RootDays <= LeafDays /\ {Autumn, Horizon} \subseteq Nat

PairFiles == [root |-> {"rootCA.pem", "rootCA-key.pem"},
              vm   |-> {"vmCA.pem", "vmCA-key.pem"},
              leaf |-> {"cert.pem", "key.pem", "sans"}]
Pairs == DOMAIN PairFiles
Files == UNION {PairFiles[pair] : pair \in Pairs}

\* The files of a pair, in the order in which they are written.
Order == [root |-> <<"rootCA.pem", "rootCA-key.pem">>,
          vm   |-> <<"vmCA.pem", "vmCA-key.pem">>,
          leaf |-> <<"cert.pem", "key.pem", "sans">>]

CertFile == [root |-> "rootCA.pem", vm |-> "vmCA.pem", leaf |-> "cert.pem"]
KeyFile  == [root |-> "rootCA-key.pem", vm |-> "vmCA-key.pem", leaf |-> "key.pem"]

\* The content of a file: none, cut short, a private key, a list of names, or
\* a certificate - for a key, signed by one, until a time, for names.
Other(k, signer) == [key |-> k, by |-> signer, exp |-> 0, sans |-> None]
Absent  == Other(0, 0)
Torn    == Other(0, 1)
Key(k)  == Other(k, 0)
List(names) == [Absent EXCEPT !.sans = names]
Cert(k, signer, days, names) ==
    [key |-> k, by |-> signer, exp |-> days, sans |-> names]

Content == [key : 0..MaxKeys, by : 0..MaxKeys, exp : Nat, sans : Sans \cup {None}]

VARIABLES
    now,       \* the time
    subject,   \* what is below the root: the VM's pair, or the server's leaf
    file,      \* the files on the host
    onVM,      \* the three files adopt copied to the VM
    made,      \* how many keys were generated
    pc, job,   \* each process: its stage, and the pair it is after
    after,     \* each process: its stage once the files are written
    todo,      \* each process: the files it has left to write, or to copy
    new,       \* each process: its new certificate, with days for its time until it is
               \* dated; the private key and the list of names are written from it too
    opened,    \* each process: the first of the files is truncated
    gone,      \* each process: the file it has open was removed, and is no file any more
    \* History variables, read by the properties and never by a guard.
    calm,      \* [p] p adopts, and nothing else changed any file since it began
    raced,     \* the pairs written by two runs at once, or over a pair completed since
               \* the check, or deleted under a writer; of the others,
    cut,       \* those one of whose writers was interrupted
    pruned,    \* those some of whose files were removed, and others left, since they
               \* were last written whole
    rerooted,  \* the root was generated anew since the subject was
    slept,     \* [p] time went by since p read how many days the root has left
    late,      \* it did before the leaf for so many days was dated
    hour       \* the clocks go back while the leaf is valid

vars == <<now, subject, file, onVM, made, pc, job, after, todo, new, opened, gone,
          calm, cut, pruned, raced, rerooted, slept, late, hour>>
times == <<now, subject, slept, late, hour>>

Stages == {"idle", "root", "check", "ensure", "load", "write", "push", "current", "done"}
Pushed == <<"rootCA.pem", "vmCA.pem", "vmCA-key.pem">>
VMFiles == {"rootCA.pem", "vmCA.pem", "vmCA-key.pem"}

\* What a process may have left to write, or to copy.
Rests(files) == {SubSeq(files, i, Len(files)) : i \in 1..Len(files)}
Todos == {<<>>} \cup Rests(Pushed) \cup (UNION {Rests(Order[pair]) : pair \in Pairs})

TypeOK ==
    /\ now \in 0..Horizon /\ subject \in {"vm", "leaf"}
    /\ file \in [Files -> Content]
    /\ onVM \in [VMFiles -> Content]
    /\ made \in 0..MaxKeys
    /\ pc \in [Procs -> Stages]
    /\ job \in [Procs -> Pairs \cup {"none"}]
    /\ after \in [Procs -> Stages \ {"write"}]
    /\ todo \in [Procs -> Todos]
    /\ \A p \in Procs : todo[p] # <<>> <=> pc[p] \in {"write", "push"}
    /\ new \in [Procs -> Content]
    /\ opened \in [Procs -> BOOLEAN] /\ gone \in [Procs -> BOOLEAN]
    /\ calm \in [Procs -> BOOLEAN]
    /\ cut \subseteq Pairs /\ pruned \subseteq Pairs /\ raced \subseteq Pairs
    /\ rerooted \in BOOLEAN
    /\ slept \in [Procs -> BOOLEAN] /\ late \in BOOLEAN /\ hour \in BOOLEAN

Init ==
    /\ now = 0 /\ subject \in {"vm", "leaf"}
    /\ file = [f \in Files |-> Absent]
    /\ onVM = [f \in VMFiles |-> Absent]
    /\ made = 0
    /\ pc = [p \in Procs |-> "idle"]
    /\ job = [p \in Procs |-> "none"]
    /\ after = [p \in Procs |-> "idle"]
    /\ todo = [p \in Procs |-> <<>>]
    /\ new = [p \in Procs |-> Absent]
    /\ opened = [p \in Procs |-> FALSE] /\ gone = [p \in Procs |-> FALSE]
    /\ calm = [p \in Procs |-> FALSE]
    /\ cut = {} /\ pruned = {} /\ raced = {} /\ rerooted = FALSE
    /\ slept = [p \in Procs |-> FALSE] /\ late = FALSE /\ hour = FALSE

-----------------------------------------------------------------------------
(* Dates.                                                                  *)

\* Mutant of DaysLeft: a day that has begun counts.
DaysLeftBegun(exp) == IF exp > now THEN (exp - now + Day - 1) \div Day ELSE 0

\* Hours until then, divided by 24 and cut to a whole number.
DaysLeft(exp) == IF exp > now THEN (exp - now) \div Day ELSE 0

\* Calendar days: as long as they are between the same hours of two dates.
GoBack(days) == now < Autumn /\ Autumn <= now + days * Day
AddDays(days) == now + days * Day + (IF GoBack(days) THEN 1 ELSE 0)

-----------------------------------------------------------------------------
Exists(pair) == \A f \in PairFiles[pair] : file[f] # Absent

\* The two files are a certificate and a private key ...
WellFormed(cert, key) == cert.key # 0 /\ key.key # 0
\* ... of the same pair.
Matching(cert, key) == cert.key = key.key

\* The pair p is in the middle of writing.
Writing(p, pair) == pc[p] = "write" /\ Head(todo[p]) \in PairFiles[pair]

Goto(p, to) == pc' = [pc EXCEPT ![p] = to]

\* The same, or the run is over; adopt lingers in "done".
GoOn(p, to) ==
    /\ Goto(p, to)
    /\ job' = [job EXCEPT ![p] = IF to = "idle" THEN "none" ELSE @]
Disturbs(p) == calm' = [q \in Procs |-> q = p /\ calm[q]]

\* What goes into a file that belongs with a certificate.
Put(f, cert) ==
    IF f = "sans" THEN List(cert.sans)
    ELSE IF \E pair \in Pairs : f = KeyFile[pair] THEN Key(cert.key)
    ELSE cert

\* Mutant of Generate: of a half pair, only the missing file is written.
GenerateMissing(p, pair, signer, days, names, next) ==
    /\ made < MaxKeys
    /\ made' = made + 1
    /\ todo' = [todo EXCEPT ![p] =
           IF file[CertFile[pair]] # Absent /\ file[KeyFile[pair]] = Absent
           THEN <<KeyFile[pair]>> ELSE Order[pair]]
    /\ new' = [new EXCEPT ![p] = Cert(made + 1, signer, days, names)]
    /\ Goto(p, "write") /\ after' = [after EXCEPT ![p] = next]
    /\ UNCHANGED <<cut, raced, rerooted>>

(* A fresh key, and its certificate: two files to write, certificate first,*)
(* and a leaf's names.                                                     *)
Generate(p, pair, signer, days, names, next) ==
    /\ made < MaxKeys
    /\ made' = made + 1
    /\ todo' = [todo EXCEPT ![p] = Order[pair]]
    /\ new' = [new EXCEPT ![p] = Cert(made + 1, signer, days, names)]
    /\ Goto(p, "write") /\ after' = [after EXCEPT ![p] = next]
    /\ raced' = IF \/ \E q \in Procs : Writing(q, pair)
                   \/ pair = "vm" /\ Exists("vm")
                THEN raced \cup {pair}
                ELSE raced
    /\ cut' = IF Exists(pair) THEN cut \ {pair} ELSE cut
    /\ rerooted' = IF pair = "root"
                   THEN \/ rerooted
                        \/ file[CertFile[subject]] # Absent
                        \/ \E q \in Procs : Writing(q, subject)
                   ELSE \E q \in Procs : Writing(q, "root")

(* ca export is after the root, adopt after the VM's pair.                 *)
Begin(p, pair) ==
    /\ pc[p] = "idle" /\ subject = "vm"
    /\ Goto(p, "root")
    /\ job' = [job EXCEPT ![p] = pair]
    /\ calm' = [calm EXCEPT ![p] = pair = "vm"]
    /\ UNCHANGED <<times, file, onVM, made, after, todo, new, opened, gone, cut, pruned, raced, rerooted>>

\* Mutant of Current: a certificate that is there will do.
CurrentIfThere == file["cert.pem"].key # 0

\* There is nothing to do if the certificate has plenty of life left; one that
\* does not parse has none.
Current == DaysLeft(file["cert.pem"].exp) > WarnDays

(* server cert issues a leaf if it is due, or with --force.                *)
BeginCert(p) ==
    /\ pc[p] = "idle" /\ subject = "leaf"
    /\ \/ Current /\ Goto(p, "current")
       \/ Goto(p, "ensure")
    /\ job' = [job EXCEPT ![p] = "leaf"]
    /\ UNCHANGED <<times, file, onVM, made, after, todo, new, opened, gone, calm, cut, pruned, raced, rerooted>>

(* The root is generated unless both its files exist.                      *)
LoadOrGenerateRoot(p) ==
    /\ pc[p] \in {"root", "ensure"}
    /\ LET next == IF pc[p] = "ensure" THEN "load"
                   ELSE IF job[p] = "vm" THEN "check" ELSE "idle"
       IN  IF Exists("root")
           THEN GoOn(p, next) /\ UNCHANGED <<made, after, todo, new, cut, raced, rerooted>>
           ELSE Generate(p, "root", made + 1, RootDays, None, next) /\ UNCHANGED job
    /\ UNCHANGED <<times, file, onVM, opened, gone, calm, pruned>>

(* So is the VM's intermediate: whether it still fits is not asked.        *)
CheckVM(p) ==
    /\ pc[p] = "check"
    /\ Goto(p, IF Exists("vm") THEN "push" ELSE "ensure")
    /\ todo' = [todo EXCEPT ![p] = IF Exists("vm") THEN Pushed ELSE <<>>]
    /\ UNCHANGED <<times, file, onVM, made, job, after, new, opened, gone, calm, cut, pruned, raced, rerooted>>

(* The root is read, and signs: a torn file does not parse, a key that is  *)
(* not the certificate's is refused by x509.CreateCertificate, and so is a *)
(* root with no day left.                                                  *)
LoadAndSign(p) ==
    /\ pc[p] = "load"
    /\ WellFormed(file["rootCA.pem"], file["rootCA-key.pem"])
    /\ Matching(file["rootCA.pem"], file["rootCA-key.pem"])
    /\ LET left == DaysLeft(file["rootCA.pem"].exp)
           days == IF left < LeafDays THEN left ELSE LeafDays
       IN  /\ left > 0
           /\ \E names \in IF job[p] = "leaf" THEN Sans ELSE {None} :
                 Generate(p, job[p], file["rootCA-key.pem"].key, days, names,
                          IF job[p] = "vm" THEN "push" ELSE "idle")
    /\ UNCHANGED <<times, file, onVM, job, opened, gone, calm, pruned>>

(* os.WriteFile: the file is created or truncated ...  A certificate gets  *)
(* its dates when it is made, right before.                                *)
Open(p) ==
    /\ pc[p] = "write" /\ ~ opened[p]
    /\ LET f == Head(todo[p])
       IN  /\ file' = [file EXCEPT ![f] = Torn]
           /\ new'   = IF \E pair \in Pairs : f = CertFile[pair]
                       THEN [new EXCEPT ![p].exp = AddDays(@)] ELSE new
           /\ late'  = IF f = "cert.pem" THEN slept[p] ELSE late
           /\ hour'  = IF f = "cert.pem" THEN GoBack(new[p].exp) ELSE hour
    /\ opened' = [opened EXCEPT ![p] = TRUE]
    /\ slept' = [slept EXCEPT ![p] = FALSE]
    /\ Disturbs(p)
    /\ UNCHANGED <<now, subject, onVM, made, pc, job, after, todo, gone, cut, pruned, raced, rerooted>>

\* The content goes into the file opened, which is not there if it was removed.
FillFile(p) ==
    file' = [file EXCEPT ![Head(todo[p])] = IF gone[p] THEN @ ELSE Put(Head(todo[p]), new[p])]

\* Mutant of Fill: the run goes on after the certificate.
FillCertOnly(p) ==
    /\ pc[p] = "write" /\ opened[p]
    /\ FillFile(p)
    /\ GoOn(p, after[p]) /\ after' = [after EXCEPT ![p] = "idle"]
    /\ todo' = [todo EXCEPT ![p] = IF after[p] = "push" THEN Pushed ELSE Tail(@)]
    /\ new' = [new EXCEPT ![p] = Absent]
    /\ opened' = [opened EXCEPT ![p] = FALSE] /\ gone' = [gone EXCEPT ![p] = FALSE]
    /\ Disturbs(p)
    /\ UNCHANGED <<times, onVM, made, cut, pruned, raced, rerooted>>

(* ... and filled.  The last file written, the run goes on: adopt copies   *)
(* three files to the VM.                                                  *)
Fill(p) ==
    /\ pc[p] = "write" /\ opened[p]
    /\ FillFile(p)
    /\ IF Tail(todo[p]) # <<>>
       THEN todo' = [todo EXCEPT ![p] = Tail(@)] /\ UNCHANGED <<pc, job, after, new, pruned>>
       ELSE /\ GoOn(p, after[p]) /\ after' = [after EXCEPT ![p] = "idle"]
            /\ todo' = [todo EXCEPT ![p] = IF after[p] = "push" THEN Pushed ELSE <<>>]
            /\ new' = [new EXCEPT ![p] = Absent]
            /\ pruned' = {pair \in pruned : ~ Writing(p, pair)}
    /\ opened' = [opened EXCEPT ![p] = FALSE] /\ gone' = [gone EXCEPT ![p] = FALSE]
    /\ Disturbs(p)
    /\ UNCHANGED <<times, onVM, made, cut, raced, rerooted>>

\* Mutant of Push: a file the VM has already is not copied again.
PushMissing(p) ==
    /\ pc[p] = "push"
    /\ LET f == Head(todo[p])
       IN  /\ file[f] # Absent
           /\ onVM' = IF onVM[f] = Absent THEN [onVM EXCEPT ![f] = file[f]] ELSE onVM
    /\ todo' = [todo EXCEPT ![p] = Tail(@)]
    /\ Goto(p, IF Tail(todo[p]) = <<>> THEN "done" ELSE "push")
    /\ Disturbs(p)
    /\ UNCHANGED <<times, file, made, job, after, new, opened, gone, cut, pruned, raced, rerooted>>

(* One scp: whatever the file holds by now.                                *)
Push(p) ==
    /\ pc[p] = "push"
    /\ LET f == Head(todo[p])
       IN  file[f] # Absent /\ onVM' = [onVM EXCEPT ![f] = file[f]]
    /\ todo' = [todo EXCEPT ![p] = Tail(@)]
    /\ Goto(p, IF Tail(todo[p]) = <<>> THEN "done" ELSE "push")
    /\ Disturbs(p)
    /\ UNCHANGED <<times, file, made, job, after, new, opened, gone, cut, pruned, raced, rerooted>>

(* The run ends: done, failed, or interrupted wherever it is.              *)
Stop(p) ==
    /\ pc[p] # "idle"
    /\ Goto(p, "idle")
    /\ job' = [job EXCEPT ![p] = "none"]
    /\ after' = [after EXCEPT ![p] = "idle"]
    /\ todo' = [todo EXCEPT ![p] = <<>>]
    /\ new' = [new EXCEPT ![p] = Absent]
    /\ opened' = [opened EXCEPT ![p] = FALSE] /\ gone' = [gone EXCEPT ![p] = FALSE]
    /\ cut' = cut \cup {pair \in Pairs \ raced : Writing(p, pair)}
    /\ calm' = [calm EXCEPT ![p] = FALSE]
    /\ slept' = [slept EXCEPT ![p] = FALSE]
    /\ UNCHANGED <<now, subject, late, hour, file, onVM, made, pruned, raced, rerooted>>

(* remove, server delete, or the loss of conf/caroot: os.RemoveAll takes   *)
(* file after file, in no order, may be broken off between any two, and    *)
(* leaves what is written behind its back.                                 *)
Delete(pair, f) ==
    LET busy == \E p \in Procs : Writing(p, pair)
        left == \E g \in PairFiles[pair] \ {f} : file[g] # Absent
    IN  /\ file[f] # Absent
        /\ file' = [file EXCEPT ![f] = Absent]
        /\ gone' = [p \in Procs |-> gone[p] \/ (opened[p] /\ Head(todo[p]) = f)]
        /\ raced' = IF busy THEN raced \cup {pair} ELSE IF left THEN raced ELSE raced \ {pair}
        /\ pruned' = IF left /\ pair \notin raced' THEN pruned \cup {pair} ELSE pruned \ {pair}
        /\ cut' = IF left /\ pair \notin raced' THEN cut ELSE cut \ {pair}
        /\ calm' = [p \in Procs |-> FALSE]
        /\ UNCHANGED <<times, onVM, made, pc, job, after, todo, new, opened, rerooted>>

\* p knows for how many days its leaf will be, and has not dated it.
Undated(p) == pc[p] = "write" /\ Head(todo[p]) = "cert.pem" /\ ~ opened[p]

\* Only a leaf has its days counted again.
Tick ==
    /\ subject = "leaf" /\ now < Horizon
    /\ now' = now + 1
    /\ slept' = [p \in Procs |-> slept[p] \/ Undated(p)]
    /\ UNCHANGED <<subject, file, onVM, made, pc, job, after, todo, new, opened, gone,
                   calm, cut, pruned, raced, rerooted, late, hour>>

Next ==
    \/ \E p \in Procs :
          \/ \E pair \in {"root", "vm"} : Begin(p, pair)
          \/ BeginCert(p) \/ LoadOrGenerateRoot(p) \/ CheckVM(p) \/ LoadAndSign(p)
          \/ Open(p) \/ Fill(p) \/ Push(p) \/ Stop(p)
    \/ \E pair \in Pairs : \E f \in PairFiles[pair] : Delete(pair, f)
    \/ Tick

Spec == Init /\ [][Next]_vars

-----------------------------------------------------------------------------
(* Properties.                                                             *)

\* The files of a pair belong together, whatever was interrupted - the root's
\* and the VM's because half a pair is generated again whole - unless two
\* runs generated it at once, or it was removed under a run generating it.
\* What is written over another is the exception: an interrupted renewal leaves
\* a leaf's new certificate with the old key, and so does the interrupted
\* generation of a pair of which a removal, broken off, had left the key.
PairsMatch ==
    \A pair \in Pairs :
        LET cert == file[CertFile[pair]]
            key  == file[KeyFile[pair]]
        IN  (/\ WellFormed(cert, key)
             /\ pair \notin raced
             /\ pair = "leaf" \/ pair \in pruned => pair \notin cut
             /\ \A p \in Procs : ~ Writing(p, pair)) => Matching(cert, key)

\* What adopt leaves on the VM is a chain the VM can serve: the intermediate
\* is signed by the root beside it and comes with its own key - if nothing
\* interfered, no earlier run was interrupted or raced and no other is writing,
\* and the root is still the one the intermediate was made under.
AdoptedChainVerifies ==
    \A p \in Procs :
        pc[p] = "done" /\ job[p] = "vm" /\ calm[p] /\ ~ rerooted
        /\ cut = {} /\ raced = {} /\ (\A q \in Procs : pc[q] # "write") =>
            /\ onVM["vmCA.pem"].by = onVM["rootCA.pem"].key
            /\ Matching(onVM["vmCA.pem"], onVM["vmCA-key.pem"])

\* Nothing outlives its issuer: a leaf expires with the root that signed it at
\* the latest - but for the hour the clocks go back while it is valid, as the
\* root's remaining hours are counted out again in calendar days, and unless
\* the run slept between reading the root and dating the leaf.
NothingOutlivesIssuer ==
    LET root == file["rootCA.pem"]
        leaf == file["cert.pem"]
    IN  leaf.by = root.key /\ leaf.exp # 0 /\ ~ late /\ "leaf" \notin raced
        => leaf.exp <= root.exp + (IF hour THEN 1 ELSE 0)

\* A leaf reported as current, with nothing to do, is one the server can use:
\* it has more than the days of the warning left, its key is the one beside
\* it, the list beside it names what it covers, and the root that signed it
\* is the root of this host - unless one of its renewals was cut short or two
\* overlapped, or a server delete left some of its files, or overlapped a
\* renewal, or the root was generated anew: the report asks none of these.
CurrentLeafUsable ==
    [][\A p \in Procs :
          LET leaf == file["cert.pem"]
          IN  /\ pc[p] = "idle" /\ pc'[p] = "current"
              /\ \A q \in Procs : pc[q] # "write"
              /\ cut = {} /\ raced = {} /\ "leaf" \notin pruned
              => /\ leaf.exp > now + WarnDays * Day
                 /\ Matching(leaf, file["key.pem"])
                 /\ leaf.sans = file["sans"].sans
                 /\ Exists("root") /\ ~ rerooted => leaf.by = file["rootCA-key.pem"].key]_vars

-----------------------------------------------------------------------------
(* Why they hold.                                                          *)

\* A run is after what is below the root, or the root itself, writes the files
\* of a pair in their order and copies three in theirs.
StageOf(p) ==
    /\ job[p] \in {"root", "vm"} => subject = "vm"
    /\ job[p] = "leaf" => subject = "leaf"
    /\ pc[p] = "root" => job[p] \in {"root", "vm"}
    /\ pc[p] \in {"ensure", "load"} => job[p] \in {"vm", "leaf"}
    /\ pc[p] \in {"check", "push", "done"} => job[p] = "vm"
    /\ pc[p] = "push" => todo[p] \in Rests(Pushed)
    /\ opened[p] => pc[p] = "write"
    /\ gone[p] => opened[p]
    /\ pc[p] = "write" =>
          /\ \/ /\ todo[p] \in Rests(Order["root"])
                /\ \/ after[p] = "load" /\ job[p] \in {"vm", "leaf"}
                   \/ after[p] = "check" /\ job[p] = "vm"
                   \/ after[p] = "idle" /\ job[p] = "root"
             \/ todo[p] \in Rests(Order["vm"]) /\ job[p] = "vm" /\ after[p] = "push"
             \/ todo[p] \in Rests(Order["leaf"]) /\ job[p] = "leaf" /\ after[p] = "idle"
          /\ new[p].key # 0 /\ new[p].by # 0 /\ new[p].exp # 0
StageInv == \A p \in Procs : StageOf(p)

\* No key is made twice, and nothing is signed with one that is being written.
KeysInv ==
    /\ \A f \in Files : file[f].key <= made
    /\ file["cert.pem"].exp # 0 => file["cert.pem"].by \in 1..made
    /\ \A p \in Procs :
          pc[p] = "write" =>
              /\ new[p].key <= made /\ new[p].by <= made
              /\ \A q \in Procs : pc[q] = "write" /\ new[q].key = new[p].key => q = p
    /\ \A p \in Procs :
          pc[p] = "write" /\ Head(todo[p]) = "rootCA.pem" =>
              /\ file["rootCA.pem"].key # new[p].key
              /\ file["cert.pem"].exp # 0 => file["cert.pem"].by # new[p].key
              /\ \A q \in Procs : Writing(q, "leaf") => new[q].by # new[p].key

\* Unless it was raced, a pair has one writer, and what that has written is
\* there; the files of the root and the VM's pair that it has not are not, but
\* for what a removal left.
WriterOf(p, pair) ==
    /\ \A q \in Procs : Writing(q, pair) => q = p
    /\ ~ gone[p]
    /\ Head(todo[p]) # CertFile[pair] => file[CertFile[pair]] = new[p]
    /\ Head(todo[p]) = "sans" => file["key.pem"].key = new[p].key
    /\ pair # "leaf" /\ pair \notin pruned =>
          /\ file[KeyFile[pair]].key = 0
          /\ Head(todo[p]) = CertFile[pair] => file[KeyFile[pair]] = Absent
WriterInv ==
    \A p \in Procs, pair \in Pairs : Writing(p, pair) /\ pair \notin raced => WriterOf(p, pair)

\* Unless it was raced, a pair nobody writes is none, half of one, or one; and
\* if no writer was interrupted either, it is all there or not at all - but for
\* what a removal left, which is of one pair still if no writer was interrupted.
RestOf(pair) ==
    LET cert == file[CertFile[pair]]
        key  == file[KeyFile[pair]]
    IN  /\ pair # "leaf" /\ pair \notin pruned =>
              /\ key.key \in {0, cert.key}
              /\ cert = Absent => key = Absent
        /\ pair \notin cut =>
              /\ cert.key = 0 => cert = Absent
              /\ key.key = 0 => key = Absent
              /\ WellFormed(cert, key) => Matching(cert, key)
              /\ pair \notin pruned =>
                    /\ Matching(cert, key)
                    /\ pair = "leaf" => file["sans"].sans = cert.sans
RestInv ==
    \A pair \in Pairs : pair \notin raced /\ (\A p \in Procs : ~ Writing(p, pair)) => RestOf(pair)

\* What was made under the root is signed by the root that is there, if any is.
UnderRoot(cert) == \A f \in PairFiles["root"] : file[f].key \in {0, cert.by}
ChainInv ==
    LET signed == file[CertFile[subject]]
    IN  ~ rerooted /\ subject \notin raced \cup cut =>
            /\ signed # Absent \/ (\E q \in Procs : Writing(q, subject)) =>
                   \A p \in Procs : ~ Writing(p, "root")
            /\ \A p \in Procs : Writing(p, subject) => UnderRoot(new[p])
            /\ signed # Absent /\ (\A p \in Procs : ~ Writing(p, subject)) => UnderRoot(signed)

\* The days a run has read are left, the date it has put in is no later than
\* the root's, but for the hour, and so is that of the leaf that is there.
ExpiryInv ==
    LET root  == file["rootCA.pem"]
        leaf  == file["cert.pem"]
        extra == IF hour THEN 1 ELSE 0
    IN  /\ \A p \in Procs : Undated(p) /\ ~ slept[p] /\ new[p].by = root.key =>
               now + new[p].exp * Day <= root.exp
        /\ "leaf" \notin raced /\ ~ late =>
              /\ leaf.by = root.key /\ leaf.exp # 0 => leaf.exp <= root.exp + extra
              /\ \A p \in Procs :
                    /\ pc[p] = "write" /\ Head(todo[p]) = "cert.pem" /\ opened[p]
                    /\ new[p].by = root.key
                    => new[p].exp <= root.exp + extra

\* What an undisturbed adopt has copied is what the host has.
Among(f, files) == \E i \in 1..Len(files) : files[i] = f
CalmInv ==
    \A p \in Procs : calm[p] /\ pc[p] \in {"push", "done"} =>
        \A f \in VMFiles :
            \/ Among(f, todo[p])
            \/ file[f] # Absent /\ onVM[f] = file[f]

IInv ==
    TypeOK /\ StageInv /\ KeysInv /\ WriterInv /\ RestInv /\ ChainInv /\ ExpiryInv /\ CalmInv
=============================================================================
