------------------------- MODULE CertAuthorityProofs -------------------------
(***************************************************************************)
(* What interrupted, overlapping and repeated runs leave of the root, the  *)
(* VM's pair and a leaf, proved for any number of runs and of keys, any    *)
(* names and any lengths of time.                                          *)
(***************************************************************************)
EXTENDS CertAuthority, TLAPS

USE KeysAssumption, DaysAssumption

\* The files by name.
LEMMA Named ==
    /\ Pairs = {"root", "vm", "leaf"}
    /\ PairFiles["root"] = {"rootCA.pem", "rootCA-key.pem"}
    /\ PairFiles["vm"] = {"vmCA.pem", "vmCA-key.pem"}
    /\ PairFiles["leaf"] = {"cert.pem", "key.pem", "sans"}
    /\ Files = {"rootCA.pem", "rootCA-key.pem", "vmCA.pem", "vmCA-key.pem",
                "cert.pem", "key.pem", "sans"}
    /\ CertFile["root"] = "rootCA.pem" /\ KeyFile["root"] = "rootCA-key.pem"
    /\ CertFile["vm"] = "vmCA.pem" /\ KeyFile["vm"] = "vmCA-key.pem"
    /\ CertFile["leaf"] = "cert.pem" /\ KeyFile["leaf"] = "key.pem"
<1>1. Pairs = {"root", "vm", "leaf"}
  BY DEF Pairs, PairFiles
<1>2. Files = PairFiles["root"] \cup PairFiles["vm"] \cup PairFiles["leaf"]
  BY <1>1 DEF Files
<1>3. QED
  BY <1>1, <1>2 DEF PairFiles, CertFile, KeyFile

\* What may be left to write or to copy, and what comes after its first file.
LEMMA RestsOf ==
    /\ Rests(Order["root"]) = {<<"rootCA.pem", "rootCA-key.pem">>, <<"rootCA-key.pem">>}
    /\ Rests(Order["vm"]) = {<<"vmCA.pem", "vmCA-key.pem">>, <<"vmCA-key.pem">>}
    /\ Rests(Order["leaf"]) = {<<"cert.pem", "key.pem", "sans">>, <<"key.pem", "sans">>, <<"sans">>}
    /\ Rests(Pushed) = {Pushed, <<"vmCA.pem", "vmCA-key.pem">>, <<"vmCA-key.pem">>}
<1>1. Rests(Order["root"]) = {SubSeq(Order["root"], 1, 2), SubSeq(Order["root"], 2, 2)}
  BY DEF Rests, Order
<1>2. QED
  BY <1>1 DEF Rests, Order, Pushed

\* No two pairs share a file.
LEMMA FileOf ==
    ASSUME NEW pair \in Pairs, NEW f \in PairFiles[pair]
    PROVE  f \in Files /\ \A r \in Pairs : f \in PairFiles[r] <=> r = pair
<1>1. CASE pair = "root"
  BY <1>1, Named
<1>2. CASE pair = "vm"
  BY <1>2, Named
<1>3. CASE pair = "leaf"
  BY <1>3, Named
<1>4. QED
  BY <1>1, <1>2, <1>3, Named

LEMMA CertFileOf ==
    ASSUME NEW pair \in Pairs
    PROVE  /\ CertFile[pair] \in PairFiles[pair] /\ KeyFile[pair] \in PairFiles[pair]
           /\ CertFile[pair] # KeyFile[pair]
           /\ \A r \in Pairs : CertFile[pair] \in PairFiles[r] <=> r = pair
           /\ \A r \in Pairs : CertFile[r] # KeyFile[pair]
           /\ \A r \in Pairs : CertFile[r] = CertFile[pair] => r = pair
<1>1. CertFile[pair] \in PairFiles[pair] /\ KeyFile[pair] \in PairFiles[pair]
  BY Named
<1>2. \A r \in Pairs : CertFile[pair] \in PairFiles[r] <=> r = pair
  BY <1>1, FileOf
<1>3. \A r \in Pairs : CertFile[r] \in PairFiles[r]
  BY Named
<1>4. \A r \in Pairs : CertFile[r] # KeyFile[pair]
  BY Named
<1>5. QED
  BY <1>1, <1>2, <1>3, <1>4

LEMMA NextFile ==
    ASSUME NEW pair \in Pairs, NEW rest \in Rests(Order[pair])
    PROVE  /\ rest # <<>> /\ Head(rest) \in PairFiles[pair]
           /\ Head(rest) = CertFile[pair] =>
                 Tail(rest) # <<>> /\ Head(Tail(rest)) = KeyFile[pair]
           /\ Head(rest) = KeyFile[pair] =>
                 IF pair = "leaf" THEN Tail(rest) # <<>> /\ Head(Tail(rest)) = "sans"
                                  ELSE Tail(rest) = <<>>
           /\ Head(rest) = "sans" => Tail(rest) = <<>>
           /\ Tail(rest) # <<>> => Tail(rest) \in Rests(Order[pair])
<1>1. ASSUME NEW a, NEW b, rest = <<a, b>>
      PROVE  rest # <<>> /\ Head(rest) = a /\ Tail(rest) = <<b>>
  BY <1>1
<1>2. ASSUME NEW a, rest = <<a>>
      PROVE  rest # <<>> /\ Head(rest) = a /\ Tail(rest) = <<>>
  BY <1>2
<1>3. ASSUME NEW a, NEW b, NEW c, rest = <<a, b, c>>
      PROVE  rest # <<>> /\ Head(rest) = a /\ Tail(rest) = <<b, c>>
  BY <1>3
<1>4. \A a : <<a>> # <<>> /\ Head(<<a>>) = a
  OBVIOUS
<1>5. \A a, b : <<a, b>> # <<>> /\ Head(<<a, b>>) = a
  OBVIOUS
<1>6. CASE pair = "root"
  <2>1. CASE rest = <<"rootCA.pem", "rootCA-key.pem">>
    BY <1>6, <2>1, <1>1, <1>4, Named, RestsOf
  <2>2. CASE rest = <<"rootCA-key.pem">>
    BY <1>6, <2>2, <1>2, Named, RestsOf
  <2>3. QED
    BY <1>6, <2>1, <2>2, RestsOf
<1>7. CASE pair = "vm"
  <2>1. CASE rest = <<"vmCA.pem", "vmCA-key.pem">>
    BY <1>7, <2>1, <1>1, <1>4, Named, RestsOf
  <2>2. CASE rest = <<"vmCA-key.pem">>
    BY <1>7, <2>2, <1>2, Named, RestsOf
  <2>3. QED
    BY <1>7, <2>1, <2>2, RestsOf
<1>8. CASE pair = "leaf"
  <2>1. CASE rest = <<"cert.pem", "key.pem", "sans">>
    BY <1>8, <2>1, <1>3, <1>5, Named, RestsOf
  <2>2. CASE rest = <<"key.pem", "sans">>
    BY <1>8, <2>2, <1>1, <1>4, Named, RestsOf
  <2>3. CASE rest = <<"sans">>
    BY <1>8, <2>3, <1>2, Named, RestsOf
  <2>4. QED
    BY <1>8, <2>1, <2>2, <2>3, RestsOf
<1>9. QED
  BY <1>6, <1>7, <1>8, Named

\* What is to be copied is the first file and the rest.
LEMMA NextPushed ==
    ASSUME NEW rest \in Rests(Pushed)
    PROVE  /\ rest # <<>> /\ Head(rest) \in VMFiles /\ Head(rest) \in Files
           /\ Tail(rest) # <<>> => Tail(rest) \in Rests(Pushed)
           /\ \A f : Among(f, rest) <=> f = Head(rest) \/ Among(f, Tail(rest))
<1>1. CASE rest = Pushed
  BY <1>1, RestsOf, Named DEF Pushed, VMFiles, Among
<1>2. CASE rest = <<"vmCA.pem", "vmCA-key.pem">>
  BY <1>2, RestsOf, Named DEF VMFiles, Among
<1>3. CASE rest = <<"vmCA-key.pem">>
  BY <1>3, RestsOf, Named DEF VMFiles, Among
<1>4. QED
  BY <1>1, <1>2, <1>3, RestsOf

LEMMA AllPushed ==
    /\ Pushed \in Rests(Pushed)
    /\ \A f \in VMFiles : Among(f, Pushed)
    /\ \A pair \in Pairs : Order[pair] \in Rests(Order[pair]) /\ Head(Order[pair]) = CertFile[pair]
<1>1. Pushed \in Rests(Pushed)
  BY RestsOf
<1>2. \A f \in VMFiles : Among(f, Pushed)
  BY DEF Pushed, VMFiles, Among
<1>3. Order["root"] \in Rests(Order["root"]) /\ Head(Order["root"]) = CertFile["root"]
  BY RestsOf, Named DEF Order
<1>4. Order["vm"] \in Rests(Order["vm"]) /\ Head(Order["vm"]) = CertFile["vm"]
  BY RestsOf, Named DEF Order
<1>5. Order["leaf"] \in Rests(Order["leaf"]) /\ Head(Order["leaf"]) = CertFile["leaf"]
  BY RestsOf, Named DEF Order
<1>6. QED
  BY <1>1, <1>2, <1>3, <1>4, <1>5, Named

\* A day counted is a whole day that is left.
LEMMA WholeDays ==
    ASSUME NEW d \in Nat \ {0}, NEW left \in Nat, NEW n \in Nat
    PROVE  /\ left \div d \in Nat
           /\ n <= left \div d => n * d <= left
           /\ n < left \div d => n * d < left
<1>1. left \div d \in Nat /\ d * (left \div d) <= left
  OBVIOUS
<1>2. ASSUME NEW m \in Nat, n <= m PROVE n * d <= d * m
  BY <1>2
<1>3. ASSUME NEW m \in Nat, n < m PROVE n * d < d * m
  BY <1>3
<1>4. n * d \in Nat
  OBVIOUS
<1>5. ASSUME NEW m \in Nat, d * m <= left, d * m \in Nat
      PROVE  (n <= m => n * d <= left) /\ (n < m => n * d < left)
  BY <1>2, <1>3, <1>4, <1>5
<1>6. d * (left \div d) \in Nat
  BY <1>1
<1>7. QED
  BY <1>1, <1>5, <1>6

LEMMA DaysRead ==
    ASSUME now \in Nat, NEW exp \in Nat, NEW n \in Nat
    PROVE  /\ DaysLeft(exp) \in Nat
           /\ 0 < n /\ n <= DaysLeft(exp) => now + n * Day <= exp
           /\ n < DaysLeft(exp) => now + n * Day < exp
<1>1. Day \in Nat \ {0} /\ n * Day \in Nat
  OBVIOUS
<1>2. CASE exp > now
  <2>1. PICK left \in Nat : left = exp - now
    BY <1>2
  <2>2. DaysLeft(exp) = left \div Day
    BY <1>2, <2>1 DEF DaysLeft
  <2>3. /\ left \div Day \in Nat
        /\ n <= left \div Day => n * Day <= left
        /\ n < left \div Day => n * Day < left
    BY <1>1, WholeDays
  <2>4. \A m \in Nat : /\ m <= left => now + m <= exp
                       /\ m < left => now + m < exp
    BY <2>1
  <2>5. QED
    BY <1>1, <2>2, <2>3, <2>4
<1>3. CASE ~ exp > now
  BY <1>3 DEF DaysLeft
<1>4. QED
  BY <1>2, <1>3

\* A date is later than now by its days, and by an hour if the clocks go back.
LEMMA DaysAdded ==
    ASSUME now \in Nat, NEW n \in Nat \ {0}
    PROVE  /\ AddDays(n) \in Nat \ {0} /\ n * Day \in Nat
           /\ AddDays(n) = now + n * Day + (IF GoBack(n) THEN 1 ELSE 0)
<1>1. n * Day \in Nat \ {0}
  OBVIOUS
<1>2. QED
  BY <1>1 DEF AddDays

-----------------------------------------------------------------------------
LEMMA InitInv == Init => IInv
<1> SUFFICES ASSUME Init PROVE IInv
  OBVIOUS
<1>1. TypeOK
  <2>1. Absent \in Content
    BY DEF Content, Absent, Other
  <2>2. 0 \in 0..Horizon /\ 0 \in 0..MaxKeys
    OBVIOUS
  <2>3. \A p \in Procs : todo[p] = <<>> /\ pc[p] = "idle"
    BY DEF Init
  <2>4. <<>> \in Todos
    BY DEF Todos
  <2>5. QED
    BY <2>1, <2>2, <2>3, <2>4 DEF Init, TypeOK, Stages
<1>2. StageInv /\ KeysInv /\ WriterInv /\ CalmInv
  BY Named DEF Init, StageInv, StageOf, KeysInv, WriterInv, CalmInv, Writing, Absent, Other
<1>3. RestInv /\ ChainInv /\ ExpiryInv
  BY Named DEF Init, RestInv, RestOf, WellFormed, Matching, ChainInv, ExpiryInv, Writing, Undated, Absent, Other
<1>4. QED
  BY <1>1, <1>2, <1>3 DEF IInv

-----------------------------------------------------------------------------
\* The steps by what they do to the files and to who writes them.
Quiet(p) ==
    \/ \E pair \in {"root", "vm"} : Begin(p, pair)
    \/ BeginCert(p) \/ CheckVM(p) \/ Push(p)
    \/ LoadOrGenerateRoot(p) /\ Exists("root")
Generating(p) == (LoadOrGenerateRoot(p) /\ ~ Exists("root")) \/ LoadAndSign(p)

LEMMA Kinds ==
    ASSUME [Next]_vars
    PROVE  \/ UNCHANGED vars
           \/ \E p \in Procs : Quiet(p) \/ Generating(p) \/ Open(p) \/ Fill(p) \/ Stop(p)
           \/ \E pair \in Pairs : \E f \in PairFiles[pair] : Delete(pair, f)
           \/ Tick
BY DEF Next, Quiet, Generating

\* A step that writes nothing.
LEMMA QuietStep ==
    ASSUME IInv, NEW p \in Procs, Quiet(p)
    PROVE  /\ UNCHANGED <<times, file, made, new, opened, gone, cut, pruned, raced, rerooted>>
           /\ pc[p] # "write" /\ pc'[p] # "write"
           /\ \A q \in Procs \ {p} : pc'[q] = pc[q] /\ todo'[q] = todo[q] /\ after'[q] = after[q]
           /\ \A q \in Procs, pair \in Pairs : Writing(q, pair)' <=> Writing(q, pair)
<1> USE DEF IInv, TypeOK, times
<1>1. CASE \E pair \in {"root", "vm"} : Begin(p, pair)
  BY <1>1 DEF Begin, Goto, Writing
<1>2. CASE BeginCert(p)
  BY <1>2 DEF BeginCert, Goto, Writing
<1>3. CASE CheckVM(p)
  BY <1>3 DEF CheckVM, Goto, Writing
<1>4. CASE Push(p)
  BY <1>4 DEF Push, Goto, Writing
<1>5. CASE LoadOrGenerateRoot(p) /\ Exists("root")
  BY <1>5 DEF LoadOrGenerateRoot, GoOn, Goto, Writing
<1>6. QED
  BY <1>1, <1>2, <1>3, <1>4, <1>5 DEF Quiet

\* A run that generates has read that the root is missing, or has read a root
\* that is whole and has days left.
LEMMA Generates ==
    ASSUME IInv, NEW p \in Procs, Generating(p)
    PROVE  \E pair \in {"root", subject}, signer \in 1..(made + 1), days \in Nat \ {0},
              names \in Sans \cup {None}, next \in Stages \ {"write"} :
              /\ Generate(p, pair, signer, days, names, next)
              /\ pc[p] # "write" /\ UNCHANGED <<times, file, onVM, job, opened, gone, calm, pruned>>
              /\ pair = "root" => /\ ~ Exists("root") /\ signer = made + 1
                                  /\ \/ next = "load" /\ job[p] \in {"vm", "leaf"}
                                     \/ next = "check" /\ job[p] = "vm"
                                     \/ next = "idle" /\ job[p] = "root"
              /\ pair # "root" => /\ job[p] = pair
                                  /\ next = IF pair = "vm" THEN "push" ELSE "idle"
                                  /\ signer = file["rootCA.pem"].key
                                  /\ signer = file["rootCA-key.pem"].key
                                  /\ now + days * Day <= file["rootCA.pem"].exp
<1> USE DEF IInv, TypeOK
<1>1. CASE LoadOrGenerateRoot(p) /\ ~ Exists("root")
  <2>1. PICK next \in {"load", "check", "idle"} :
           /\ Generate(p, "root", made + 1, RootDays, None, next)
           /\ pc[p] # "write" /\ UNCHANGED <<times, file, onVM, job, opened, gone, calm, pruned>>
           /\ \/ next = "load" /\ job[p] \in {"vm", "leaf"}
              \/ next = "check" /\ job[p] = "vm"
              \/ next = "idle" /\ job[p] = "root"
    BY <1>1 DEF LoadOrGenerateRoot, StageInv, StageOf
  <2>2. made + 1 \in 1..(made + 1) /\ RootDays \in Nat \ {0} /\ next \in Stages \ {"write"}
    BY DEF Stages
  <2>3. QED
    BY <1>1, <2>1, <2>2
<1>2. CASE LoadAndSign(p)
  <2> DEFINE left == DaysLeft(file["rootCA.pem"].exp)
             days == IF left < LeafDays THEN left ELSE LeafDays
             next == IF job[p] = "vm" THEN "push" ELSE "idle"
  <2>1. PICK names \in Sans \cup {None} :
           Generate(p, job[p], file["rootCA-key.pem"].key, days, names, next) /\ left > 0
    BY <1>2 DEF LoadAndSign
  <2>2. /\ pc[p] = "load" /\ UNCHANGED <<times, file, onVM, job, opened, gone, calm, pruned>>
        /\ file["rootCA.pem"].key # 0 /\ file["rootCA.pem"].key = file["rootCA-key.pem"].key
    BY <1>2 DEF LoadAndSign, WellFormed, Matching
  <2>3. file["rootCA.pem"] \in Content
    BY Named
  <2>4. days \in Nat \ {0} /\ now + days * Day <= file["rootCA.pem"].exp
    <3>1. now \in Nat /\ file["rootCA.pem"].exp \in Nat
      BY <2>3 DEF Content
    <3>2. DaysLeft(file["rootCA.pem"].exp) \in Nat
      BY <3>1, DaysRead
    <3>3. \A n \in Nat : n > 0 =>
             LET d == IF n < LeafDays THEN n ELSE LeafDays
             IN  d \in Nat \ {0} /\ d <= n
      OBVIOUS
    <3>4. days \in Nat \ {0} /\ days <= DaysLeft(file["rootCA.pem"].exp)
      BY <2>1, <3>2, <3>3
    <3>5. \A n \in Nat : 0 < n /\ n <= DaysLeft(file["rootCA.pem"].exp) =>
             now + n * Day <= file["rootCA.pem"].exp
      BY <3>1, DaysRead
    <3>6. QED
      BY <3>4, <3>5
  <2>5. file["rootCA.pem"].key \in 1..(made + 1)
    <3>1. file["rootCA.pem"].key \in Nat /\ file["rootCA.pem"].key <= made /\ made \in Nat
      BY <2>3, Named DEF KeysInv, Content
    <3>2. QED
      BY <2>2, <3>1
  <2>6. /\ job[p] \in {"vm", "leaf"} /\ job[p] = subject
        /\ next \in Stages \ {"write"} /\ next = IF job[p] = "vm" THEN "push" ELSE "idle"
    BY <2>1, <2>2 DEF StageInv, StageOf, Stages
  <2> HIDE DEF left, days, next
  <2>7. QED
    BY <2>1, <2>2, <2>4, <2>5, <2>6
<1>3. QED
  BY <1>1, <1>2 DEF Generating

LEMMA GenerateStep ==
    ASSUME IInv, NEW p \in Procs, NEW pair \in Pairs,
           NEW signer, NEW days, NEW names, NEW next,
           Generate(p, pair, signer, days, names, next), pc[p] # "write"
    PROVE  /\ made' = made + 1 /\ made < MaxKeys
           /\ pc'[p] = "write" /\ after'[p] = next
           /\ todo'[p] = Order[pair] /\ Head(todo'[p]) = CertFile[pair]
           /\ new'[p] = Cert(made + 1, signer, days, names)
           /\ \A q \in Procs \ {p} : /\ pc'[q] = pc[q] /\ todo'[q] = todo[q]
                                     /\ after'[q] = after[q] /\ new'[q] = new[q]
           /\ \A q \in Procs, r \in Pairs :
                 Writing(q, r)' <=> IF q = p THEN r = pair ELSE Writing(q, r)
<1> USE DEF IInv, TypeOK
<1>1. Head(Order[pair]) = CertFile[pair]
  BY Named DEF Order, CertFile
<1>2. /\ made' = made + 1 /\ made < MaxKeys
      /\ pc'[p] = "write" /\ after'[p] = next
      /\ todo'[p] = Order[pair]
      /\ new'[p] = Cert(made + 1, signer, days, names)
      /\ \A q \in Procs \ {p} : /\ pc'[q] = pc[q] /\ todo'[q] = todo[q]
                                /\ after'[q] = after[q] /\ new'[q] = new[q]
  BY DEF Generate, Goto
<1>3. \A r \in Pairs : CertFile[pair] \in PairFiles[r] <=> r = pair
  BY CertFileOf
<1>4. QED
  BY <1>1, <1>2, <1>3 DEF Writing

\* What it does for a pair, with the key that signs it and the days it is for.
GeneratesFor(p, pair, signer, days, names) ==
    /\ pc[p] # "write" /\ UNCHANGED <<times, file, onVM, job, opened, gone, calm, pruned>>
    /\ pair \in Pairs /\ made' = made + 1 /\ made < MaxKeys
    /\ pc'[p] = "write" /\ todo'[p] = Order[pair] /\ Head(todo'[p]) = CertFile[pair]
    /\ new'[p] = Cert(made + 1, signer, days, names)
    /\ \A q \in Procs \ {p} : /\ pc'[q] = pc[q] /\ todo'[q] = todo[q]
                              /\ after'[q] = after[q] /\ new'[q] = new[q]
    /\ \A q \in Procs, r \in Pairs :
          Writing(q, r)' <=> IF q = p THEN r = pair ELSE Writing(q, r)
    /\ raced' = IF \/ \E q \in Procs : Writing(q, pair)
                   \/ pair = "vm" /\ Exists("vm")
                THEN raced \cup {pair} ELSE raced
    /\ cut' = IF Exists(pair) THEN cut \ {pair} ELSE cut
    /\ IF pair = "root"
       THEN /\ ~ Exists("root") /\ signer = made + 1
            /\ \/ after'[p] = "load" /\ job[p] \in {"vm", "leaf"}
               \/ after'[p] = "check" /\ job[p] = "vm"
               \/ after'[p] = "idle" /\ job[p] = "root"
            /\ rerooted' = \/ rerooted
                           \/ file[CertFile[subject]] # Absent
                           \/ \E q \in Procs : Writing(q, subject)
       ELSE /\ job[p] = pair /\ after'[p] = IF pair = "vm" THEN "push" ELSE "idle"
            /\ signer = file["rootCA.pem"].key /\ signer = file["rootCA-key.pem"].key
            /\ now + days * Day <= file["rootCA.pem"].exp
            /\ rerooted' = \E q \in Procs : Writing(q, "root")

LEMMA GeneratingStep ==
    ASSUME IInv, NEW p \in Procs, Generating(p)
    PROVE  \E pair \in {"root", subject}, signer \in 1..(made + 1), days \in Nat \ {0},
              names \in Sans \cup {None} : GeneratesFor(p, pair, signer, days, names)
<1>1. PICK pair \in {"root", subject}, signer \in 1..(made + 1), days \in Nat \ {0},
           names \in Sans \cup {None}, next \in Stages \ {"write"} :
         /\ Generate(p, pair, signer, days, names, next)
         /\ pc[p] # "write" /\ UNCHANGED <<times, file, onVM, job, opened, gone, calm, pruned>>
         /\ pair = "root" => /\ ~ Exists("root") /\ signer = made + 1
                             /\ \/ next = "load" /\ job[p] \in {"vm", "leaf"}
                                \/ next = "check" /\ job[p] = "vm"
                                \/ next = "idle" /\ job[p] = "root"
         /\ pair # "root" => /\ job[p] = pair
                             /\ next = IF pair = "vm" THEN "push" ELSE "idle"
                             /\ signer = file["rootCA.pem"].key
                             /\ signer = file["rootCA-key.pem"].key
                             /\ now + days * Day <= file["rootCA.pem"].exp
  BY Generates
<1>2. pair \in Pairs
  BY Named DEF IInv, TypeOK
<1>3. /\ made' = made + 1 /\ made < MaxKeys
      /\ pc'[p] = "write" /\ after'[p] = next
      /\ todo'[p] = Order[pair] /\ Head(todo'[p]) = CertFile[pair]
      /\ new'[p] = Cert(made + 1, signer, days, names)
      /\ \A q \in Procs \ {p} : /\ pc'[q] = pc[q] /\ todo'[q] = todo[q]
                                /\ after'[q] = after[q] /\ new'[q] = new[q]
      /\ \A q \in Procs, r \in Pairs :
            Writing(q, r)' <=> IF q = p THEN r = pair ELSE Writing(q, r)
  BY <1>1, <1>2, GenerateStep
<1>4. /\ raced' = IF \/ \E q \in Procs : Writing(q, pair)
                     \/ pair = "vm" /\ Exists("vm")
                  THEN raced \cup {pair} ELSE raced
      /\ cut' = IF Exists(pair) THEN cut \ {pair} ELSE cut
      /\ rerooted' = IF pair = "root"
                     THEN \/ rerooted
                          \/ file[CertFile[subject]] # Absent
                          \/ \E q \in Procs : Writing(q, subject)
                     ELSE \E q \in Procs : Writing(q, "root")
  BY <1>1 DEF Generate
<1>5. QED
  BY <1>1, <1>2, <1>3, <1>4 DEF GeneratesFor

\* Who writes, writes the next of one pair's files: the root's, or those of what
\* is below it.
LEMMA WriterIs ==
    ASSUME IInv, NEW p \in Procs, pc[p] = "write"
    PROVE  \E pair \in {"root", subject} :
              /\ todo[p] \in Rests(Order[pair]) /\ Head(todo[p]) \in PairFiles[pair]
              /\ \A r \in Pairs : Writing(p, r) <=> r = pair
              /\ IF pair = "root"
                 THEN \/ after[p] = "load" /\ job[p] \in {"vm", "leaf"}
                      \/ after[p] = "check" /\ job[p] = "vm"
                      \/ after[p] = "idle" /\ job[p] = "root"
                 ELSE job[p] = pair /\ after[p] = IF pair = "vm" THEN "push" ELSE "idle"
<1>1. PICK pair \in {"root", subject} :
         /\ todo[p] \in Rests(Order[pair])
         /\ IF pair = "root"
            THEN \/ after[p] = "load" /\ job[p] \in {"vm", "leaf"}
                 \/ after[p] = "check" /\ job[p] = "vm"
                 \/ after[p] = "idle" /\ job[p] = "root"
            ELSE job[p] = pair /\ after[p] = IF pair = "vm" THEN "push" ELSE "idle"
  BY DEF IInv, StageInv, StageOf
<1>2. pair \in Pairs
  BY <1>1, Named DEF IInv, TypeOK
<1>3. Head(todo[p]) \in PairFiles[pair]
  BY <1>1, <1>2, NextFile
<1>4. \A r \in Pairs : Head(todo[p]) \in PairFiles[r] <=> r = pair
  BY <1>2, <1>3, FileOf
<1>5. QED
  BY <1>1, <1>3, <1>4 DEF Writing

\* A file is cut short, and a certificate is dated.
Opens(p, pair) ==
    /\ pair \in Pairs
    /\ todo[p] \in Rests(Order[pair]) /\ Head(todo[p]) \in PairFiles[pair]
    /\ Writing(p, pair) /\ ~ opened[p] /\ Head(todo[p]) \in Files
    /\ file' = [file EXCEPT ![Head(todo[p])] = Torn]
    /\ UNCHANGED <<now, subject, onVM, made, pc, job, after, todo, gone, cut, pruned, raced, rerooted>>
    /\ opened' = [opened EXCEPT ![p] = TRUE]
    /\ \A q \in Procs \ {p} : new'[q] = new[q]
    /\ new'[p].key = new[p].key /\ new'[p].by = new[p].by /\ new'[p].sans = new[p].sans
    /\ Head(todo[p]) # CertFile[pair] => new'[p] = new[p]
    /\ Head(todo[p]) = CertFile[pair] => new'[p].exp = AddDays(new[p].exp)
    /\ new'[p] \in Content /\ new'[p].exp # 0 /\ new' \in [Procs -> Content]

LEMMA OpenStep ==
    ASSUME IInv, NEW p \in Procs, Open(p)
    PROVE  \E pair \in {"root", subject} : Opens(p, pair)
<1>1. PICK pair \in {"root", subject} :
         /\ todo[p] \in Rests(Order[pair]) /\ Head(todo[p]) \in PairFiles[pair]
         /\ \A r \in Pairs : Writing(p, r) <=> r = pair
  BY WriterIs DEF Open
<1>2. pair \in Pairs /\ Head(todo[p]) \in Files
  BY <1>1, Named, FileOf DEF IInv, TypeOK
<1>3. (\E r \in Pairs : Head(todo[p]) = CertFile[r]) <=> Head(todo[p]) = CertFile[pair]
  BY <1>1, <1>2, FileOf, CertFileOf
<1>4. /\ new' = IF Head(todo[p]) = CertFile[pair]
                THEN [new EXCEPT ![p].exp = AddDays(@)] ELSE new
      /\ file' = [file EXCEPT ![Head(todo[p])] = Torn]
      /\ ~ opened[p] /\ opened' = [opened EXCEPT ![p] = TRUE] /\ pc[p] = "write"
      /\ UNCHANGED <<now, subject, onVM, made, pc, job, after, todo, gone, cut, pruned, raced, rerooted>>
  BY <1>3 DEF Open
<1>5. new \in [Procs -> Content] /\ new[p].exp \in Nat \ {0} /\ now \in Nat
  BY <1>4 DEF IInv, TypeOK, StageInv, StageOf, Content
<1>6. AddDays(new[p].exp) \in Nat \ {0}
  BY <1>5, DaysAdded
<1>7. /\ new' \in [Procs -> Content] /\ new'[p].exp # 0
      /\ \A q \in Procs \ {p} : new'[q] = new[q]
      /\ new'[p].key = new[p].key /\ new'[p].by = new[p].by /\ new'[p].sans = new[p].sans
      /\ Head(todo[p]) # CertFile[pair] => new'[p] = new[p]
      /\ Head(todo[p]) = CertFile[pair] => new'[p].exp = AddDays(new[p].exp)
  BY <1>4, <1>5, <1>6 DEF Content
<1>8. QED
  BY <1>1, <1>2, <1>4, <1>7 DEF Opens

\* A file is complete, and it was the last one or it was not.
Fills(p, pair) ==
    /\ pair \in Pairs
    /\ todo[p] \in Rests(Order[pair]) /\ Head(todo[p]) \in PairFiles[pair]
    /\ Writing(p, pair) /\ opened[p] /\ Head(todo[p]) \in Files
    /\ file' = IF gone[p] THEN file
               ELSE [file EXCEPT ![Head(todo[p])] = Put(Head(todo[p]), new[p])]
    /\ ~ gone[p] =>
          /\ Head(todo[p]) = CertFile[pair] => file'[CertFile[pair]] = new[p]
          /\ Head(todo[p]) = KeyFile[pair] => file'[KeyFile[pair]] = Key(new[p].key)
          /\ Head(todo[p]) = "sans" => file'["sans"] = List(new[p].sans)
    /\ Head(todo[p]) = CertFile[pair] => Tail(todo[p]) # <<>> /\ Head(todo'[p]) = KeyFile[pair]
    /\ Head(todo[p]) = KeyFile[pair] =>
          IF pair = "leaf" THEN Tail(todo[p]) # <<>> /\ Head(todo'[p]) = "sans"
                           ELSE Tail(todo[p]) = <<>>
    /\ Head(todo[p]) = "sans" => Tail(todo[p]) = <<>>
    /\ UNCHANGED <<times, onVM, made, cut, raced, rerooted>>
    /\ opened' = [opened EXCEPT ![p] = FALSE] /\ gone' = [gone EXCEPT ![p] = FALSE]
    /\ \A q \in Procs \ {p} :
          /\ pc'[q] = pc[q] /\ todo'[q] = todo[q] /\ job'[q] = job[q]
          /\ after'[q] = after[q] /\ new'[q] = new[q]
    /\ IF Tail(todo[p]) # <<>>
       THEN /\ todo' = [todo EXCEPT ![p] = Tail(@)]
            /\ UNCHANGED <<pc, job, after, new, pruned>>
            /\ Tail(todo[p]) \in Rests(Order[pair])
            /\ Head(todo'[p]) \in PairFiles[pair] /\ Writing(p, pair)'
            /\ \A q \in Procs, r \in Pairs : Writing(q, r)' <=> Writing(q, r)
       ELSE /\ pc'[p] = after[p] /\ pc'[p] # "write" /\ new'[p] = Absent
            /\ pruned' = pruned \ {pair}
            /\ \A q \in Procs, r \in Pairs : Writing(q, r)' <=> q # p /\ Writing(q, r)

LEMMA FillStep ==
    ASSUME IInv, NEW p \in Procs, Fill(p)
    PROVE  \E pair \in {"root", subject} : Fills(p, pair)
<1>1. PICK pair \in {"root", subject} :
         /\ todo[p] \in Rests(Order[pair]) /\ Head(todo[p]) \in PairFiles[pair]
         /\ \A r \in Pairs : Writing(p, r) <=> r = pair
  BY WriterIs DEF Fill
<1>2. pair \in Pairs /\ Head(todo[p]) \in Files
  BY <1>1, Named, FileOf DEF IInv, TypeOK
<1>3. /\ IF Tail(todo[p]) # <<>>
         THEN todo' = [todo EXCEPT ![p] = Tail(@)] /\ UNCHANGED <<pc, job, after, new, pruned>>
         ELSE /\ GoOn(p, after[p]) /\ after' = [after EXCEPT ![p] = "idle"]
              /\ todo' = [todo EXCEPT ![p] = IF after[p] = "push" THEN Pushed ELSE <<>>]
              /\ new' = [new EXCEPT ![p] = Absent]
              /\ pruned' = {r \in pruned : ~ Writing(p, r)}
      /\ opened[p] /\ opened' = [opened EXCEPT ![p] = FALSE]
      /\ gone' = [gone EXCEPT ![p] = FALSE]
      /\ UNCHANGED <<times, onVM, made, cut, raced, rerooted>>
      /\ Writing(p, pair)
  BY <1>1, <1>2 DEF Fill
<1>4. /\ file \in [Files -> Content] /\ pc \in [Procs -> Stages] /\ new \in [Procs -> Content]
      /\ after \in [Procs -> Stages \ {"write"}] /\ DOMAIN todo = Procs
      /\ job \in [Procs -> Pairs \cup {"none"}] /\ pruned \subseteq Pairs
  BY DEF IInv, TypeOK
<1>5. \A q \in Procs \ {p} : /\ pc'[q] = pc[q] /\ todo'[q] = todo[q] /\ job'[q] = job[q]
                             /\ after'[q] = after[q] /\ new'[q] = new[q]
  BY <1>3, <1>4 DEF GoOn, Goto
<1>6. /\ file' = IF gone[p] THEN file
                 ELSE [file EXCEPT ![Head(todo[p])] = Put(Head(todo[p]), new[p])]
      /\ ~ gone[p] =>
            /\ Head(todo[p]) = CertFile[pair] => file'[CertFile[pair]] = new[p]
            /\ Head(todo[p]) = KeyFile[pair] => file'[KeyFile[pair]] = Key(new[p].key)
            /\ Head(todo[p]) = "sans" => file'["sans"] = List(new[p].sans)
  <2>0. file' = IF gone[p] THEN file
                ELSE [file EXCEPT ![Head(todo[p])] = Put(Head(todo[p]), new[p])]
    BY <1>4 DEF Fill, FillFile
  <2>1. /\ CertFile[pair] # "sans" /\ KeyFile[pair] # "sans"
        /\ ~ \E r \in Pairs : CertFile[pair] = KeyFile[r]
    BY <1>2, Named
  <2>2. ~ gone[p] => file'[Head(todo[p])] = Put(Head(todo[p]), new[p])
    BY <1>2, <1>4, <2>0
  <2>3. QED
    BY <1>2, <2>0, <2>1, <2>2 DEF Put
<1>7. /\ Head(todo[p]) = CertFile[pair] =>
            Tail(todo[p]) # <<>> /\ Head(Tail(todo[p])) = KeyFile[pair]
      /\ Head(todo[p]) = KeyFile[pair] =>
            IF pair = "leaf" THEN Tail(todo[p]) # <<>> /\ Head(Tail(todo[p])) = "sans"
                             ELSE Tail(todo[p]) = <<>>
      /\ Head(todo[p]) = "sans" => Tail(todo[p]) = <<>>
  BY <1>1, <1>2, NextFile
<1>8. CASE Tail(todo[p]) # <<>>
  <2>1. Tail(todo[p]) \in Rests(Order[pair]) /\ Head(Tail(todo[p])) \in PairFiles[pair]
    BY <1>1, <1>2, <1>8, NextFile
  <2>2. todo'[p] = Tail(todo[p])
    BY <1>3, <1>4, <1>8
  <2>3. \A r \in Pairs : Head(todo'[p]) \in PairFiles[r] <=> r = pair
    BY <1>2, <2>1, <2>2, FileOf
  <2>4. \A q \in Procs, r \in Pairs : Writing(q, r)' <=> Writing(q, r)
    BY <1>1, <1>3, <1>5, <1>8, <2>3 DEF Writing
  <2>5. QED
    BY <1>7, <1>1, <1>2, <1>3, <1>5, <1>6, <1>8, <2>1, <2>2, <2>4 DEF Fills
<1>9. CASE ~ Tail(todo[p]) # <<>>
  <2>1. pc'[p] = after[p] /\ pc'[p] # "write" /\ new'[p] = Absent
    BY <1>3, <1>4, <1>9 DEF GoOn, Goto
  <2>2. \A q \in Procs, r \in Pairs : Writing(q, r)' <=> q # p /\ Writing(q, r)
    BY <1>5, <2>1 DEF Writing
  <2>3. pruned' = pruned \ {pair}
    BY <1>1, <1>3, <1>4, <1>9
  <2>4. QED
    BY <1>7, <1>1, <1>2, <1>3, <1>5, <1>6, <1>9, <2>1, <2>2, <2>3 DEF Fills
<1>10. QED
  BY <1>8, <1>9

\* An interrupted run leaves the files as they are.
LEMMA StopStep ==
    ASSUME IInv, NEW p \in Procs, Stop(p)
    PROVE  /\ UNCHANGED <<now, subject, late, hour, file, onVM, made, pruned, raced, rerooted>>
           /\ cut' = cut \cup {pair \in Pairs \ raced : Writing(p, pair)}
           /\ pc'[p] = "idle" /\ job'[p] = "none" /\ todo'[p] = <<>> /\ ~ opened'[p] /\ ~ gone'[p]
           /\ ~ slept'[p] /\ ~ calm'[p] /\ new'[p] = Absent
           /\ \A q \in Procs \ {p} :
                 /\ pc'[q] = pc[q] /\ todo'[q] = todo[q] /\ job'[q] = job[q]
                 /\ after'[q] = after[q] /\ new'[q] = new[q] /\ opened'[q] = opened[q]
                 /\ calm'[q] = calm[q] /\ slept'[q] = slept[q] /\ gone'[q] = gone[q]
           /\ \A q \in Procs, r \in Pairs : Writing(q, r)' <=> q # p /\ Writing(q, r)
<1>1. /\ UNCHANGED <<now, subject, late, hour, file, onVM, made, pruned, raced, rerooted>>
      /\ cut' = cut \cup {pair \in Pairs \ raced : Writing(p, pair)}
      /\ pc'[p] = "idle" /\ job'[p] = "none" /\ todo'[p] = <<>> /\ ~ opened'[p] /\ ~ gone'[p]
      /\ ~ slept'[p] /\ ~ calm'[p] /\ new'[p] = Absent
      /\ \A q \in Procs \ {p} :
            /\ pc'[q] = pc[q] /\ todo'[q] = todo[q] /\ job'[q] = job[q]
            /\ after'[q] = after[q] /\ new'[q] = new[q] /\ opened'[q] = opened[q]
            /\ calm'[q] = calm[q] /\ slept'[q] = slept[q] /\ gone'[q] = gone[q]
  BY DEF IInv, TypeOK, Stop, Goto
<1>2. \A q \in Procs, r \in Pairs : Writing(q, r)' <=> q # p /\ Writing(q, r)
  BY <1>1 DEF Writing
<1>3. QED
  BY <1>1, <1>2

-----------------------------------------------------------------------------
\* Each part of the invariant in the next state.

LEMMA StepType ==
    ASSUME IInv, [Next]_vars
    PROVE  TypeOK'
<1>1. /\ <<>> \in Todos /\ Pushed \in Todos /\ Rests(Pushed) \subseteq Todos /\ Pushed # <<>>
      /\ \A pair \in Pairs : /\ Rests(Order[pair]) \subseteq Todos
                             /\ Order[pair] \in Todos /\ Order[pair] # <<>>
  BY AllPushed, NextPushed, NextFile DEF Todos
<1>2. Absent \in Content /\ Torn \in Content
  BY DEF Content, Absent, Torn, Other
<1>3. TypeOK
  BY DEF IInv
<1>4. ASSUME UNCHANGED vars PROVE TypeOK'
  BY <1>3, <1>4 DEF TypeOK, vars
<1>5. ASSUME NEW p \in Procs, Quiet(p) PROVE TypeOK'
  <2>1. CASE \E pair \in {"root", "vm"} : Begin(p, pair)
    BY <1>3, <2>1, Named DEF TypeOK, Begin, Goto, times, Stages
  <2>2. CASE BeginCert(p)
    BY <1>3, <2>2, Named DEF TypeOK, BeginCert, Goto, times, Stages
  <2>3. CASE CheckVM(p)
    BY <1>1, <1>3, <2>3 DEF TypeOK, CheckVM, Goto, times, Stages
  <2>4. CASE LoadOrGenerateRoot(p) /\ Exists("root")
    BY <1>3, <2>4 DEF TypeOK, LoadOrGenerateRoot, GoOn, Goto, times, Stages
  <2>5. CASE Push(p)
    <3>1. todo[p] \in Rests(Pushed) /\ pc[p] = "push"
      BY <2>5 DEF IInv, StageInv, StageOf, Push
    <3>2. /\ Head(todo[p]) \in VMFiles /\ Head(todo[p]) \in Files
          /\ Tail(todo[p]) # <<>> => Tail(todo[p]) \in Todos
      BY <1>1, <3>1, NextPushed
    <3>3. file[Head(todo[p])] \in Content /\ Tail(todo[p]) \in Todos
      BY <1>1, <1>3, <3>2 DEF TypeOK
    <3>4. onVM' \in [VMFiles -> Content]
      BY <1>3, <2>5, <3>3 DEF TypeOK, Push
    <3>5. /\ todo' \in [Procs -> Todos] /\ pc' \in [Procs -> Stages]
          /\ \A q \in Procs : todo'[q] # <<>> <=> pc'[q] \in {"write", "push"}
      BY <1>3, <2>5, <3>3 DEF TypeOK, Push, Goto, Stages
    <3>6. QED
      BY <1>3, <2>5, <3>4, <3>5 DEF TypeOK, Push, Disturbs, times
  <2>6. QED
    BY <1>5, <2>1, <2>2, <2>3, <2>4, <2>5 DEF Quiet
<1>6. ASSUME NEW p \in Procs, Generating(p) PROVE TypeOK'
  <2>1. PICK pair \in Pairs, signer \in 1..(made + 1), days \in Nat \ {0},
             names \in Sans \cup {None}, next \in Stages \ {"write"} :
           /\ Generate(p, pair, signer, days, names, next)
           /\ UNCHANGED <<times, file, onVM, job, opened, gone, calm, pruned>>
    <3>1. {"root", subject} \subseteq Pairs
      BY <1>3, Named DEF TypeOK
    <3>2. QED
      BY <1>6, <3>1, Generates
  <2>2. Cert(made + 1, signer, days, names) \in Content /\ made + 1 \in 0..MaxKeys
    <3>1. made + 1 \in 0..MaxKeys
      BY <1>3, <2>1 DEF TypeOK, Generate
    <3>2. signer \in 0..MaxKeys
      BY <1>3, <2>1, <3>1 DEF TypeOK
    <3>3. QED
      BY <3>1, <3>2 DEF Cert, Content
  <2>3. QED
    BY <1>1, <1>3, <2>1, <2>2 DEF TypeOK, Generate, Goto, Stages, times
<1>7. ASSUME NEW p \in Procs, Open(p) PROVE TypeOK'
  <2>1. new' \in [Procs -> Content]
    BY <1>7, OpenStep DEF Opens
  <2>2. QED
    BY <1>2, <1>3, <1>7, <2>1 DEF TypeOK, Open, Disturbs, GoBack, times
<1>8. ASSUME NEW p \in Procs, Fill(p) PROVE TypeOK'
  <2>1. PICK pair \in {"root", subject} :
           /\ todo[p] \in Rests(Order[pair])
           /\ Tail(todo[p]) # <<>> => Tail(todo[p]) \in Rests(Order[pair])
           /\ pc[p] = "write"
    BY <1>8, FillStep DEF Fill, Fills
  <2>2. pair \in Pairs
    BY <1>3, <2>1, Named DEF TypeOK
  <2>3. Put(Head(todo[p]), new[p]) \in Content
    <3>1. new[p] \in Content
      BY <1>3 DEF TypeOK
    <3>2. ASSUME NEW c \in Content PROVE List(c.sans) \in Content /\ Key(c.key) \in Content
      BY DEF List, Key, Other, Absent, Content
    <3>3. QED
      BY <3>1, <3>2 DEF Put
  <2>4. file' \in [Files -> Content]
    BY <1>3, <1>8, <2>3 DEF TypeOK, Fill, FillFile
  <2>5. CASE Tail(todo[p]) # <<>>
    <3>1. UNCHANGED <<pc, job, after, new>> /\ todo' = [todo EXCEPT ![p] = Tail(@)]
      BY <1>8, <2>5 DEF Fill
    <3>2. Tail(todo[p]) \in Todos
      BY <1>1, <2>1, <2>2, <2>5
    <3>3. /\ todo' \in [Procs -> Todos]
          /\ \A q \in Procs : todo'[q] # <<>> <=> pc'[q] \in {"write", "push"}
      BY <1>3, <2>1, <2>5, <3>1, <3>2 DEF TypeOK
    <3>4. QED
      BY <1>3, <1>8, <2>4, <3>1, <3>3 DEF TypeOK, Fill, Disturbs, times
  <2>6. CASE ~ Tail(todo[p]) # <<>>
    <3>1. pc' \in [Procs -> Stages] /\ job' \in [Procs -> Pairs \cup {"none"}]
      BY <1>3, <1>8, <2>6 DEF TypeOK, Fill, GoOn, Goto
    <3>2. after' \in [Procs -> Stages \ {"write"}] /\ new' \in [Procs -> Content]
      <4>1. after' = [after EXCEPT ![p] = "idle"] /\ new' = [new EXCEPT ![p] = Absent]
        BY <1>8, <2>6 DEF Fill
      <4>2. QED
        BY <1>2, <1>3, <4>1 DEF TypeOK, Stages
    <3>3. todo' \in [Procs -> Todos]
      BY <1>1, <1>3, <1>8, <2>6 DEF TypeOK, Fill
    <3>4. \A q \in Procs : todo'[q] # <<>> <=> pc'[q] \in {"write", "push"}
      BY <1>1, <1>3, <1>8, <2>6 DEF TypeOK, Fill, GoOn, Goto
    <3>5. QED
      BY <1>3, <1>8, <2>4, <3>1, <3>2, <3>3, <3>4 DEF TypeOK, Fill, Disturbs, times
  <2>7. QED
    BY <2>5, <2>6
<1>9. ASSUME NEW p \in Procs, Stop(p) PROVE TypeOK'
  BY <1>1, <1>2, <1>3, <1>9 DEF TypeOK, Stop, Goto, Stages
<1>10. ASSUME NEW pair \in Pairs, NEW f \in PairFiles[pair], Delete(pair, f) PROVE TypeOK'
  BY <1>2, <1>3, <1>10 DEF TypeOK, Delete, times
<1>11. ASSUME Tick PROVE TypeOK'
  BY <1>3, <1>11 DEF TypeOK, Tick
<1>12. QED
  BY <1>4, <1>5, <1>6, <1>7, <1>8, <1>9, <1>10, <1>11, Kinds

LEMMA StepStage ==
    ASSUME IInv, [Next]_vars
    PROVE  StageInv'
<1>1. StageInv /\ TypeOK
  BY DEF IInv
<1>2. ASSUME NEW q \in Procs, pc'[q] = pc[q], job'[q] = job[q], todo'[q] = todo[q],
             after'[q] = after[q], new'[q] = new[q], opened'[q] = opened[q], gone'[q] = gone[q],
             subject' = subject
      PROVE  StageOf(q)'
  BY <1>1, <1>2 DEF StageInv, StageOf
<1>3. ASSUME UNCHANGED vars PROVE StageInv'
  BY <1>2, <1>3 DEF StageInv, vars
<1>4. ASSUME NEW p \in Procs, Quiet(p) PROVE StageInv'
  <2>1. /\ pc \in [Procs -> Stages] /\ job \in [Procs -> Pairs \cup {"none"}] /\ DOMAIN todo = Procs
        /\ StageOf(p)
    BY <1>1 DEF TypeOK, StageInv
  <2>2. \A q \in Procs \ {p} : job'[q] = job[q]
    BY <1>4, <2>1 DEF Quiet, Begin, BeginCert, CheckVM, Push, LoadOrGenerateRoot, GoOn
  <2>3. \A q \in Procs \ {p} : StageOf(q)'
    BY <1>2, <1>4, <2>2, QuietStep DEF times
  <2>4. StageOf(p)'
    <3>1. CASE \E pair \in {"root", "vm"} : Begin(p, pair)
      BY <2>1, <3>1 DEF StageOf, Begin, Goto, times
    <3>2. CASE BeginCert(p)
      BY <2>1, <3>2 DEF StageOf, BeginCert, Goto, times
    <3>3. CASE CheckVM(p)
      BY <2>1, <3>3, AllPushed DEF StageOf, CheckVM, Goto, times
    <3>4. CASE Push(p)
      <4>1. todo[p] \in Rests(Pushed)
        BY <2>1, <3>4 DEF StageOf, Push
      <4>2. Tail(todo[p]) # <<>> => Tail(todo[p]) \in Rests(Pushed)
        BY <4>1, NextPushed
      <4>3. QED
        BY <2>1, <3>4, <4>2 DEF StageOf, Push, Goto, times
    <3>5. CASE LoadOrGenerateRoot(p) /\ Exists("root")
      BY <2>1, <3>5 DEF StageOf, LoadOrGenerateRoot, GoOn, Goto, times
    <3>6. QED
      BY <1>4, <3>1, <3>2, <3>3, <3>4, <3>5 DEF Quiet
  <2>5. QED
    BY <2>3, <2>4 DEF StageInv
<1>5. ASSUME NEW p \in Procs, Generating(p) PROVE StageInv'
  <2>1. PICK pair \in {"root", subject}, signer \in 1..(made + 1), days \in Nat \ {0},
             names \in Sans \cup {None} : GeneratesFor(p, pair, signer, days, names)
    BY <1>5, GeneratingStep
  <2>2. /\ UNCHANGED <<times, job, opened, gone>> /\ pc[p] # "write" /\ pc'[p] = "write"
        /\ todo'[p] = Order[pair] /\ new'[p] = Cert(made + 1, signer, days, names)
        /\ \A q \in Procs \ {p} : /\ pc'[q] = pc[q] /\ todo'[q] = todo[q]
                                  /\ after'[q] = after[q] /\ new'[q] = new[q]
        /\ IF pair = "root"
           THEN \/ after'[p] = "load" /\ job[p] \in {"vm", "leaf"}
                \/ after'[p] = "check" /\ job[p] = "vm"
                \/ after'[p] = "idle" /\ job[p] = "root"
           ELSE job[p] = pair /\ after'[p] = IF pair = "vm" THEN "push" ELSE "idle"
    BY <2>1 DEF GeneratesFor
  <2>3. \A q \in Procs \ {p} : StageOf(q)'
    BY <1>2, <2>2 DEF times
  <2>4. new'[p].key # 0 /\ new'[p].by # 0 /\ new'[p].exp # 0
    <3>1. made + 1 # 0 /\ signer # 0 /\ days # 0
      BY <1>1 DEF TypeOK
    <3>2. QED
      BY <2>2, <3>1 DEF Cert
  <2>5. subject \in {"vm", "leaf"} /\ \A r \in {"root", "vm", "leaf"} : Order[r] \in Rests(Order[r])
    BY <1>1, AllPushed, Named DEF TypeOK
  <2>6. StageOf(p)'
    <3>1. UNCHANGED <<job, subject, opened, gone>> /\ StageOf(p)
      BY <1>1, <2>2 DEF times, StageInv
    <3>2. CASE pair = "root"
      BY <2>2, <2>4, <2>5, <3>1, <3>2 DEF StageOf
    <3>3. CASE pair # "root"
      BY <2>2, <2>4, <2>5, <3>1, <3>3 DEF StageOf
    <3>4. QED
      BY <3>2, <3>3
  <2>7. QED
    BY <2>3, <2>6 DEF StageInv
<1>6. ASSUME NEW p \in Procs, Open(p) PROVE StageInv'
  <2>1. /\ UNCHANGED <<subject, pc, job, after, todo, gone>> /\ opened' = [opened EXCEPT ![p] = TRUE]
        /\ \A q \in Procs \ {p} : new'[q] = new[q]
        /\ new'[p].key = new[p].key /\ new'[p].by = new[p].by /\ new'[p].exp # 0 /\ pc[p] = "write"
    BY <1>6, OpenStep DEF Open, Opens
  <2>2. \A q \in Procs \ {p} : StageOf(q)'
    BY <1>1, <1>2, <2>1 DEF TypeOK
  <2>3. StageOf(p)'
    BY <1>1, <2>1 DEF StageInv, StageOf
  <2>4. QED
    BY <2>2, <2>3 DEF StageInv
<1>7. ASSUME NEW p \in Procs, Fill(p) PROVE StageInv'
  <2>1. PICK pair \in {"root", subject} :
           /\ todo[p] \in Rests(Order[pair])
           /\ \A q \in Procs \ {p} :
                 /\ pc'[q] = pc[q] /\ todo'[q] = todo[q] /\ job'[q] = job[q]
                 /\ after'[q] = after[q] /\ new'[q] = new[q]
           /\ opened' = [opened EXCEPT ![p] = FALSE] /\ gone' = [gone EXCEPT ![p] = FALSE]
           /\ UNCHANGED times
           /\ Tail(todo[p]) # <<>> =>
                 /\ todo' = [todo EXCEPT ![p] = Tail(@)] /\ UNCHANGED <<pc, job, after, new>>
                 /\ Tail(todo[p]) \in Rests(Order[pair])
    BY <1>7, FillStep DEF Fills
  <2>2. \A q \in Procs \ {p} : StageOf(q)'
    BY <1>1, <1>2, <2>1 DEF TypeOK, times
  <2>3. /\ StageOf(p) /\ pc[p] = "write" /\ ~ opened'[p] /\ ~ gone'[p] /\ subject' = subject
        /\ pc \in [Procs -> Stages] /\ job \in [Procs -> Pairs \cup {"none"}]
        /\ DOMAIN todo = Procs
    BY <1>1, <1>7, <2>1 DEF Fill, StageInv, TypeOK, times
  <2>4. CASE Tail(todo[p]) # <<>>
    <3>1. todo'[p] \in Rests(Order[pair]) /\ todo'[p] = Tail(todo[p])
      BY <2>1, <2>3, <2>4
    <3>2. PICK r \in {"root", subject} :
             /\ todo[p] \in Rests(Order[r])
             /\ IF r = "root"
                THEN \/ after[p] = "load" /\ job[p] \in {"vm", "leaf"}
                     \/ after[p] = "check" /\ job[p] = "vm"
                     \/ after[p] = "idle" /\ job[p] = "root"
                ELSE job[p] = r /\ after[p] = IF r = "vm" THEN "push" ELSE "idle"
      BY <2>3, WriterIs
    <3>3. pair \in Pairs /\ r \in Pairs /\ subject \in {"vm", "leaf"}
      BY <1>1, Named DEF TypeOK
    <3>4. Tail(todo[p]) \in Rests(Order[r])
      BY <2>4, <3>2, <3>3, NextFile
    <3>5. /\ pc'[p] = "write" /\ job'[p] = job[p] /\ after'[p] = after[p] /\ new'[p] = new[p]
          /\ todo'[p] \in Rests(Order[r])
      BY <2>1, <2>3, <2>4, <3>1, <3>4
    <3>6. CASE r = "root"
      BY <2>2, <2>3, <3>2, <3>5, <3>6 DEF StageInv, StageOf
    <3>7. CASE r # "root"
      BY <2>2, <2>3, <3>2, <3>3, <3>5, <3>7 DEF StageInv, StageOf
    <3>8. QED
      BY <3>6, <3>7
  <2>5. CASE ~ Tail(todo[p]) # <<>>
    <3>1. /\ GoOn(p, after[p])
          /\ todo' = [todo EXCEPT ![p] = IF after[p] = "push" THEN Pushed ELSE <<>>]
      BY <1>7, <2>5 DEF Fill
    <3>2. /\ pc'[p] = after[p] /\ job'[p] = IF after[p] = "idle" THEN "none" ELSE job[p]
          /\ todo'[p] = IF after[p] = "push" THEN Pushed ELSE <<>>
      BY <2>3, <3>1 DEF GoOn, Goto
    <3>3. QED
      BY <2>2, <2>3, <3>2, AllPushed DEF StageInv, StageOf
  <2>6. QED
    BY <2>4, <2>5
<1>8. ASSUME NEW p \in Procs, Stop(p) PROVE StageInv'
  BY <1>2, <1>8, StopStep DEF StageInv, StageOf
<1>9. ASSUME NEW pair \in Pairs, NEW f \in PairFiles[pair], Delete(pair, f) PROVE StageInv'
  <2>1. /\ UNCHANGED <<subject, pc, job, todo, after, new, opened>>
        /\ \A q \in Procs : gone'[q] => gone[q] \/ opened[q]
    BY <1>9 DEF Delete, times
  <2>2. QED
    BY <1>1, <2>1 DEF StageInv, StageOf
<1>10. ASSUME Tick PROVE StageInv'
  BY <1>2, <1>10 DEF StageInv, Tick
<1>11. QED
  BY <1>3, <1>4, <1>5, <1>6, <1>7, <1>8, <1>9, <1>10, Kinds

\* A private key and a list of names carry no date.
LEMMA PutFile ==
    ASSUME NEW f \in Files, NEW c \in Content
    PROVE  /\ Put(f, c) \in Content /\ Put(f, c).key \in {0, c.key}
           /\ (\A pair \in Pairs : f # CertFile[pair]) => Put(f, c).exp = 0
<1>1. /\ List(c.sans) \in Content /\ List(c.sans).key = 0 /\ List(c.sans).exp = 0
      /\ Key(c.key) \in Content /\ Key(c.key).key = c.key /\ Key(c.key).exp = 0
  BY DEF List, Key, Other, Absent, Content
<1>2. \/ f = "sans" \/ \E pair \in Pairs : f = KeyFile[pair]
      \/ \E pair \in Pairs : f = CertFile[pair]
  BY Named
<1>3. QED
  BY <1>1, <1>2 DEF Put

LEMMA StepKeys ==
    ASSUME IInv, [Next]_vars
    PROVE  KeysInv'
<1>1. KeysInv /\ TypeOK /\ StageInv
  BY DEF IInv
<1>2. /\ made \in Nat /\ "rootCA.pem" \in Files /\ "cert.pem" \in Files
      /\ \A f \in Files : file[f].key \in Nat
      /\ Absent.key = 0 /\ Absent.exp = 0 /\ Torn.key = 0 /\ Torn.exp = 0
  <2>1. Absent.key = 0 /\ Absent.exp = 0 /\ Torn.key = 0 /\ Torn.exp = 0
    BY DEF Absent, Torn, Other
  <2>2. \A c \in Content : c.key \in Nat
    BY DEF Content
  <2>3. file \in [Files -> Content] /\ made \in Nat
    BY <1>1 DEF TypeOK
  <2>4. QED
    BY <2>1, <2>2, <2>3, Named
<1>3. ASSUME made' = made,
             \A f \in Files : \/ file'[f] = file[f]
                              \/ file'[f].key = 0 /\ file'[f].exp = 0,
             \A q \in Procs : pc'[q] = "write" =>
                 /\ pc[q] = "write" /\ todo'[q] = todo[q]
                 /\ new'[q].key = new[q].key /\ new'[q].by = new[q].by
      PROVE  KeysInv'
  <2>1. \A f \in Files : file'[f].key <= made'
    BY <1>1, <1>2, <1>3 DEF KeysInv
  <2>2. \A q \in Procs : pc'[q] = "write" /\ Head(todo'[q]) = "rootCA.pem" => new'[q].key # 0
    BY <1>1, <1>3 DEF StageInv, StageOf
  <2>3. QED
    BY <1>1, <1>2, <1>3, <2>1, <2>2 DEF KeysInv, Writing
<1>4. ASSUME UNCHANGED vars PROVE KeysInv'
  BY <1>3, <1>4 DEF vars
<1>5. ASSUME NEW p \in Procs, Quiet(p) PROVE KeysInv'
  BY <1>3, <1>5, QuietStep
<1>6. ASSUME NEW p \in Procs, Generating(p) PROVE KeysInv'
  <2>1. PICK pair \in {"root", subject}, signer \in 1..(made + 1), days \in Nat \ {0},
             names \in Sans \cup {None} : GeneratesFor(p, pair, signer, days, names)
    BY <1>6, GeneratingStep
  <2>2. /\ file' = file /\ made' = made + 1
        /\ new'[p].key = made + 1 /\ new'[p].by = signer
        /\ pc'[p] = "write" /\ pc[p] # "write" /\ Head(todo'[p]) = CertFile[pair]
        /\ \A q \in Procs \ {p} : pc'[q] = pc[q] /\ todo'[q] = todo[q] /\ new'[q] = new[q]
        /\ \A q \in Procs, r \in Pairs : Writing(q, r)' <=> IF q = p THEN r = pair ELSE Writing(q, r)
        /\ pair # "root" => signer = file["rootCA.pem"].key
        /\ pair \in Pairs
    <3>1. new'[p] = Cert(made + 1, signer, days, names)
      BY <2>1 DEF GeneratesFor
    <3>2. new'[p].key = made + 1 /\ new'[p].by = signer
      BY <3>1 DEF Cert
    <3>3. QED
      BY <2>1, <3>2 DEF GeneratesFor
  <2>3. \A f \in Files : file'[f].key <= made'
    BY <1>1, <1>2, <2>2 DEF KeysInv
  <2>4. file'["cert.pem"].exp # 0 => file'["cert.pem"].by \in 1..made'
    BY <1>1, <1>2, <2>2 DEF KeysInv
  <2>5. \A q \in Procs : pc'[q] = "write" =>
              /\ new'[q].key <= made' /\ new'[q].by <= made'
              /\ q # p => new'[q].key <= made /\ new'[q].by <= made
    <3>1. \A q \in Procs : new[q].key \in Nat /\ new[q].by \in Nat
      BY <1>1 DEF TypeOK, Content
    <3>2. QED
      BY <1>1, <1>2, <2>2, <3>1 DEF KeysInv
  <2>6. \A q, r \in Procs : pc'[q] = "write" /\ pc'[r] = "write" /\ new'[q].key = new'[r].key => q = r
    <3>1. ASSUME NEW q \in Procs \ {p}, pc'[q] = "write" PROVE new'[q].key # made + 1
      BY <1>2, <2>5, <3>1
    <3>2. QED
      BY <1>1, <2>2, <3>1 DEF KeysInv
  <2>7. ASSUME NEW q \in Procs, pc'[q] = "write", Head(todo'[q]) = "rootCA.pem"
        PROVE  /\ file'["rootCA.pem"].key # new'[q].key
               /\ file'["cert.pem"].exp # 0 => file'["cert.pem"].by # new'[q].key
               /\ \A r \in Procs : Writing(r, "leaf")' => new'[r].by # new'[q].key
    <3>1. CASE q = p
      <4>1. pair = "root" /\ "leaf" \in Pairs
        BY <2>2, <2>7, <3>1, Named
      <4>2. \A r \in Procs : Writing(r, "leaf")' => r # p /\ pc'[r] = "write"
        BY <2>2, <4>1, Named DEF Writing
      <4>3. \A r \in Procs : Writing(r, "leaf")' => new'[r].by <= made
        BY <2>5, <4>2
      <4>4. new'[q].key = made + 1 /\ file["rootCA.pem"].key <= made
            /\ (file["cert.pem"].exp # 0 => file["cert.pem"].by \in 1..made)
        BY <1>1, <1>2, <2>2, <3>1 DEF KeysInv
      <4>5. \A r \in Procs : new'[r].by = made + 1 => ~ new'[r].by <= made
        BY <1>2
      <4>6. QED
        BY <1>2, <2>2, <4>3, <4>4, <4>5
    <3>2. CASE q # p
      <4>1. /\ pc[q] = "write" /\ Head(todo[q]) = "rootCA.pem" /\ new'[q] = new[q]
        BY <2>2, <2>7, <3>2
      <4>2. /\ file["rootCA.pem"].key # new[q].key
            /\ file["cert.pem"].exp # 0 => file["cert.pem"].by # new[q].key
            /\ \A r \in Procs : Writing(r, "leaf") => new[r].by # new[q].key
        BY <1>1, <4>1 DEF KeysInv
      <4>3. \A r \in Procs \ {p} : Writing(r, "leaf")' => Writing(r, "leaf")
        BY <2>2, Named
      <4>4. Writing(p, "leaf")' => new'[p].by = file["rootCA.pem"].key
        BY <2>2, Named
      <4>5. QED
        BY <2>2, <4>1, <4>2, <4>3, <4>4
    <3>3. QED
      BY <3>1, <3>2
  <2>8. QED
    BY <2>3, <2>4, <2>5, <2>6, <2>7 DEF KeysInv
<1>7. ASSUME NEW p \in Procs, Open(p) PROVE KeysInv'
  <2>1. PICK pair \in {"root", subject} : Opens(p, pair)
    BY <1>7, OpenStep
  <2>2. \A f \in Files : file'[f] = file[f] \/ file'[f] = Torn
    BY <1>1, <2>1 DEF Opens, TypeOK
  <2>3. QED
    BY <1>2, <1>3, <2>1, <2>2 DEF Opens
<1>8. ASSUME NEW p \in Procs, Fill(p) PROVE KeysInv'
  <2>1. PICK pair \in {"root", subject} : Fills(p, pair)
    BY <1>8, FillStep
  <2>2. pc[p] = "write" /\ new[p] \in Content /\ new[p].key # 0 /\ new[p].by # 0
    BY <1>1, <2>1 DEF TypeOK, StageInv, StageOf, Fills, Writing
  <2>3. \A f \in Files : \/ file'[f] = file[f]
                         \/ f = Head(todo[p]) /\ file'[f] = Put(f, new[p])
    BY <1>1, <2>1 DEF Fills, TypeOK
  <2>4. made' = made /\ new[p].key <= made /\ new[p].by \in 1..made
    <3>1. new[p].by <= made /\ new[p].key <= made /\ new[p].by \in Nat
      BY <1>1, <2>2 DEF KeysInv, Content
    <3>2. QED
      BY <1>2, <2>1, <2>2, <3>1 DEF Fills
  <2>5. \A f \in Files : file'[f].key <= made'
    BY <1>1, <1>2, <2>2, <2>3, <2>4, PutFile DEF KeysInv
  <2>6. \A q \in Procs : pc'[q] = "write" => pc[q] = "write" /\ new'[q] = new[q]
    BY <2>1, <2>2 DEF Fills
  <2>7. \A q \in Procs : pc'[q] = "write" /\ Head(todo'[q]) = "rootCA.pem" =>
           q # p /\ Head(todo[q]) = "rootCA.pem"
    <3>1. \A q \in Procs \ {p} : pc'[q] = pc[q] /\ todo'[q] = todo[q]
      BY <2>1 DEF Fills
    <3>2. pc'[p] = "write" => Head(todo'[p]) # "rootCA.pem"
      BY <2>1, Named DEF Fills
    <3>3. QED
      BY <3>1, <3>2
  <2>8. \/ file'["cert.pem"] = file["cert.pem"]
        \/ file'["cert.pem"] = new[p] /\ Writing(p, "leaf")
    <3>1. CASE Head(todo[p]) = "cert.pem"
      <4>1. pair = "leaf" /\ CertFile["leaf"] = "cert.pem"
        BY <2>1, <3>1, Named DEF Fills
      <4>2. CASE gone[p]
        BY <2>1, <4>2 DEF Fills
      <4>3. CASE ~ gone[p]
        BY <2>1, <3>1, <4>1, <4>3 DEF Fills
      <4>4. QED
        BY <4>2, <4>3
    <3>2. CASE Head(todo[p]) # "cert.pem"
      BY <1>2, <2>3, <3>2
    <3>3. QED
      BY <3>1, <3>2
  <2>9. file'["rootCA.pem"].key \in {0, file["rootCA.pem"].key, new[p].key}
    BY <1>2, <2>2, <2>3, PutFile
  <2>10. \A q \in Procs, r \in Pairs : Writing(q, r)' => Writing(q, r)
    BY <2>1 DEF Fills
  <2>11. ASSUME NEW q \in Procs, pc'[q] = "write", Head(todo'[q]) = "rootCA.pem"
         PROVE  /\ file'["rootCA.pem"].key # new'[q].key
                /\ file'["cert.pem"].exp # 0 => file'["cert.pem"].by # new'[q].key
                /\ \A r \in Procs : Writing(r, "leaf")' => new'[r].by # new'[q].key
    <3>1. q # p /\ pc[q] = "write" /\ Head(todo[q]) = "rootCA.pem" /\ new'[q] = new[q]
      BY <2>6, <2>7, <2>11
    <3>2. /\ file["rootCA.pem"].key # new[q].key
          /\ file["cert.pem"].exp # 0 => file["cert.pem"].by # new[q].key
          /\ \A r \in Procs : Writing(r, "leaf") => new[r].by # new[q].key
      BY <1>1, <3>1 DEF KeysInv
    <3>3. new[q].key # 0 /\ new[q].key # new[p].key
      BY <1>1, <2>2, <3>1 DEF KeysInv, StageInv, StageOf
    <3>4. \A r \in Procs : Writing(r, "leaf")' => Writing(r, "leaf") /\ new'[r] = new[r]
      BY <2>6, <2>10, Named DEF Writing
    <3>5. QED
      BY <2>8, <2>9, <3>1, <3>2, <3>3, <3>4
  <2>12. file'["cert.pem"].exp # 0 => file'["cert.pem"].by \in 1..made'
    BY <1>1, <2>4, <2>8 DEF KeysInv
  <2>13. QED
    BY <1>1, <2>4, <2>5, <2>6, <2>11, <2>12 DEF KeysInv
<1>9. ASSUME NEW p \in Procs, Stop(p) PROVE KeysInv'
  BY <1>3, <1>9, StopStep
<1>10. ASSUME NEW pair \in Pairs, NEW f \in PairFiles[pair], Delete(pair, f) PROVE KeysInv'
  <2>1. /\ \A g \in Files : file'[g] = file[g] \/ file'[g] = Absent
        /\ UNCHANGED <<made, pc, todo, new>>
    BY <1>1, <1>10 DEF Delete, TypeOK
  <2>2. QED
    BY <1>2, <1>3, <2>1
<1>11. ASSUME Tick PROVE KeysInv'
  BY <1>3, <1>11 DEF Tick
<1>12. QED
  BY <1>4, <1>5, <1>6, <1>7, <1>8, <1>9, <1>10, <1>11, Kinds

\* A step on one pair's files leaves what was written of another's.
LEMMA OtherWriters ==
    ASSUME IInv, NEW pair \in Pairs,
           \A f \in Files \ PairFiles[pair] : file'[f] = file[f],
           NEW q \in Procs, NEW r \in Pairs, r # pair,
           Writing(q, r), r \notin raced, todo'[q] = todo[q], new'[q] = new[q],
           gone'[q] = gone[q], r \in pruned => r \in pruned',
           \A o \in Procs : Writing(o, r)' => Writing(o, r)
    PROVE  WriterOf(q, r)'
<1>1. WriterOf(q, r)
  BY DEF IInv, WriterInv
<1>2. \A f \in PairFiles[r] : f \in Files /\ f \notin PairFiles[pair]
  BY FileOf
<1>3. /\ CertFile[r] \in PairFiles[r] /\ KeyFile[r] \in PairFiles[r]
      /\ r = "leaf" => "key.pem" \in PairFiles[r]
  BY CertFileOf, Named
<1>4. Head(todo[q]) = "sans" => r = "leaf"
  BY Named DEF Writing
<1>5. QED
  BY <1>1, <1>2, <1>3, <1>4 DEF WriterOf

LEMMA StepWriter ==
    ASSUME IInv, [Next]_vars
    PROVE  WriterInv'
<1>1. WriterInv /\ TypeOK /\ StageInv
  BY DEF IInv
<1>2. Absent.key = 0 /\ Torn.key = 0 /\ \A k : Key(k).key = k
  BY DEF Absent, Torn, Key, Other
<1>3. ASSUME file' = file, raced' = raced, pruned' = pruned,
             \A q \in Procs, r \in Pairs :
                 Writing(q, r)' => /\ Writing(q, r) /\ todo'[q] = todo[q] /\ new'[q] = new[q]
                                   /\ gone'[q] = gone[q]
      PROVE  WriterInv'
  BY <1>1, <1>3 DEF WriterInv, WriterOf
<1>4. ASSUME UNCHANGED vars PROVE WriterInv'
  BY <1>3, <1>4 DEF vars, Writing
<1>5. ASSUME NEW p \in Procs, Quiet(p) PROVE WriterInv'
  BY <1>3, <1>5, QuietStep DEF Writing
<1>6. ASSUME NEW p \in Procs, Generating(p) PROVE WriterInv'
  <2>1. PICK pair \in {"root", subject}, signer \in 1..(made + 1), days \in Nat \ {0},
             names \in Sans \cup {None} : GeneratesFor(p, pair, signer, days, names)
    BY <1>6, GeneratingStep
  <2>2. /\ file' = file /\ pair \in Pairs /\ Head(todo'[p]) = CertFile[pair]
        /\ pruned' = pruned /\ gone' = gone /\ ~ gone[p]
        /\ \A q \in Procs \ {p} : todo'[q] = todo[q] /\ new'[q] = new[q]
        /\ \A q \in Procs, r \in Pairs : Writing(q, r)' <=> IF q = p THEN r = pair ELSE Writing(q, r)
        /\ raced' = IF \/ \E q \in Procs : Writing(q, pair)
                       \/ pair = "vm" /\ Exists("vm")
                    THEN raced \cup {pair} ELSE raced
        /\ pair = "root" => ~ Exists("root")
    BY <1>1, <2>1 DEF GeneratesFor, StageInv, StageOf
  <2>3. ASSUME pair \notin raced' PROVE WriterOf(p, pair)'
    <3>1. pair \notin raced /\ ~ (\E q \in Procs : Writing(q, pair))
          /\ (pair # "leaf" => ~ Exists(pair))
      BY <2>2, <2>3, Named
    <3>2. pair # "leaf" /\ pair \notin pruned => file[KeyFile[pair]] = Absent
      <4>1. RestOf(pair)
        BY <2>2, <3>1 DEF IInv, RestInv
      <4>2. pair # "leaf" => PairFiles[pair] = {CertFile[pair], KeyFile[pair]}
        BY <2>2, Named
      <4>3. QED
        BY <3>1, <4>1, <4>2 DEF RestOf, Exists
    <3>3. CertFile[pair] # "sans"
      BY <2>2, Named
    <3>4. QED
      BY <1>2, <2>2, <3>1, <3>2, <3>3 DEF WriterOf
  <2>4. ASSUME NEW q \in Procs, NEW r \in Pairs, Writing(q, r)', r \notin raced', r # pair
        PROVE  WriterOf(q, r)'
    <3>1. /\ q # p /\ Writing(q, r) /\ r \notin raced /\ todo'[q] = todo[q] /\ new'[q] = new[q]
          /\ \A o \in Procs : Writing(o, r)' => Writing(o, r)
      BY <2>2, <2>4
    <3>2. QED
      BY <2>2, <2>4, <3>1, OtherWriters
  <2>5. ASSUME NEW q \in Procs, Writing(q, pair)', pair \notin raced' PROVE q = p
    BY <2>2, <2>5
  <2>6. QED
    BY <2>3, <2>4, <2>5 DEF WriterInv
<1>7. ASSUME NEW p \in Procs, Open(p) PROVE WriterInv'
  <2>1. PICK pair \in {"root", subject} : Opens(p, pair)
    BY <1>7, OpenStep
  <2>2. /\ pair \in Pairs /\ Head(todo[p]) \in PairFiles[pair] /\ Writing(p, pair)
        /\ UNCHANGED <<todo, raced, pc, gone, pruned>>
        /\ \A q \in Procs \ {p} : new'[q] = new[q]
        /\ new'[p].key = new[p].key
        /\ Head(todo[p]) # CertFile[pair] => new'[p] = new[p]
    BY <2>1 DEF Opens
  <2>3. \A f \in Files : IF f = Head(todo[p]) THEN file'[f] = Torn ELSE file'[f] = file[f]
    BY <1>1, <2>1 DEF Opens, TypeOK
  <2>4. \A q \in Procs, r \in Pairs : Writing(q, r)' <=> Writing(q, r)
    BY <2>2 DEF Writing
  <2>5. ASSUME pair \notin raced' PROVE WriterOf(p, pair)'
    <3>1. WriterOf(p, pair)
      BY <1>1, <2>2, <2>5 DEF WriterInv
    <3>2. CertFile[pair] \in Files /\ KeyFile[pair] \in Files /\ "key.pem" \in Files
          /\ CertFile[pair] # KeyFile[pair]
      BY <2>2, Named
    <3>3. QED
      BY <1>2, <2>2, <2>3, <2>4, <3>1, <3>2 DEF WriterOf
  <2>6. ASSUME NEW q \in Procs, NEW r \in Pairs, Writing(q, r)', r \notin raced', r # pair
        PROVE  WriterOf(q, r)'
    <3>1. Writing(q, r) /\ q # p
      BY <2>2, <2>4, <2>6, FileOf DEF Writing
    <3>2. QED
      BY <2>2, <2>3, <2>4, <2>6, <3>1, OtherWriters
  <2>7. ASSUME NEW q \in Procs, Writing(q, pair)', pair \notin raced' PROVE q = p
    BY <1>1, <2>2, <2>4, <2>7 DEF WriterInv, WriterOf
  <2>8. QED
    BY <2>5, <2>6, <2>7 DEF WriterInv
<1>8. ASSUME NEW p \in Procs, Fill(p) PROVE WriterInv'
  <2>1. PICK pair \in {"root", subject} : Fills(p, pair)
    BY <1>8, FillStep
  <2>2. /\ pair \in Pairs /\ Head(todo[p]) \in PairFiles[pair] /\ Writing(p, pair)
        /\ raced' = raced /\ pruned' \in {pruned, pruned \ {pair}}
        /\ \A q \in Procs \ {p} : todo'[q] = todo[q] /\ new'[q] = new[q] /\ gone'[q] = gone[q]
        /\ ~ gone'[p]
        /\ \A q \in Procs, r \in Pairs : Writing(q, r)' => Writing(q, r)
    BY <1>1, <2>1 DEF Fills, TypeOK
  <2>3. \A f \in Files : f # Head(todo[p]) => file'[f] = file[f]
    BY <1>1, <2>1 DEF Fills, TypeOK
  <2>4. ASSUME pair \notin raced', Writing(p, pair)' PROVE WriterOf(p, pair)'
    <3>1. WriterOf(p, pair)
      BY <1>1, <2>2, <2>4 DEF WriterInv
    <3>2. CertFile[pair] \in Files /\ KeyFile[pair] \in Files /\ "key.pem" \in Files
          /\ CertFile[pair] # KeyFile[pair] /\ CertFile[pair] # "sans" /\ KeyFile[pair] # "sans"
      BY <2>2, Named
    <3>3. Tail(todo[p]) # <<>> /\ new'[p] = new[p] /\ pruned' = pruned /\ ~ gone[p]
      BY <2>1, <2>4, <3>1 DEF Fills, Writing, WriterOf
    <3>4. CASE Head(todo[p]) = CertFile[pair]
      <4>1. file'[CertFile[pair]] = new[p] /\ Head(todo'[p]) = KeyFile[pair]
        BY <2>1, <3>3, <3>4 DEF Fills
      <4>2. QED
        BY <2>2, <2>3, <3>1, <3>2, <3>3, <3>4, <4>1 DEF WriterOf
    <3>5. CASE Head(todo[p]) = KeyFile[pair]
      <4>1. /\ pair = "leaf" /\ Head(todo'[p]) = "sans" /\ file'[KeyFile[pair]] = Key(new[p].key)
            /\ KeyFile["leaf"] = "key.pem"
        BY <2>1, <3>3, <3>5, Named DEF Fills
      <4>2. QED
        BY <1>2, <2>2, <2>3, <3>1, <3>2, <3>3, <3>5, <4>1 DEF WriterOf
    <3>6. Head(todo[p]) # "sans"
      BY <2>1, <3>3 DEF Fills
    <3>7. QED
      BY <2>2, <3>4, <3>5, <3>6, Named
  <2>5. ASSUME NEW q \in Procs, NEW r \in Pairs, Writing(q, r)', r \notin raced', r # pair
        PROVE  WriterOf(q, r)'
    <3>1. Writing(q, r) /\ q # p
      BY <2>2, <2>5, FileOf DEF Writing
    <3>2. QED
      BY <2>2, <2>3, <2>5, <3>1, OtherWriters
  <2>6. ASSUME NEW q \in Procs, Writing(q, pair)', pair \notin raced' PROVE q = p
    BY <1>1, <2>2, <2>6 DEF WriterInv, WriterOf
  <2>7. QED
    BY <2>4, <2>5, <2>6 DEF WriterInv
<1>9. ASSUME NEW p \in Procs, Stop(p) PROVE WriterInv'
  BY <1>3, <1>9, StopStep
<1>10. ASSUME NEW pair \in Pairs, NEW f \in PairFiles[pair], Delete(pair, f) PROVE WriterInv'
  <2>1. /\ \A g \in Files \ PairFiles[pair] : file'[g] = file[g]
        /\ UNCHANGED <<pc, todo, new>> /\ pruned \ {pair} \subseteq pruned'
        /\ raced \ {pair} \subseteq raced'
        /\ (\E p \in Procs : Writing(p, pair)) => pair \in raced'
        /\ \A q \in Procs : gone'[q] = (gone[q] \/ (opened[q] /\ Head(todo[q]) = f))
    BY <1>1, <1>10 DEF Delete, TypeOK
  <2>2. \A q \in Procs, r \in Pairs : Writing(q, r)' <=> Writing(q, r)
    BY <2>1 DEF Writing
  <2>3. ASSUME NEW q \in Procs, NEW r \in Pairs, Writing(q, r)', r \notin raced'
        PROVE  WriterOf(q, r)'
    <3>1. Writing(q, r) /\ r # pair /\ r \notin raced
      BY <2>1, <2>2, <2>3
    <3>2. f \notin PairFiles[r] /\ Head(todo[q]) \in PairFiles[r]
      BY <3>1, FileOf DEF Writing
    <3>3. gone'[q] = gone[q]
      BY <1>1, <2>1, <3>2 DEF TypeOK
    <3>4. QED
      BY <2>1, <2>2, <3>1, <3>3, OtherWriters
  <2>4. QED
    BY <2>3 DEF WriterInv
<1>11. ASSUME Tick PROVE WriterInv'
  BY <1>3, <1>11 DEF Tick, Writing
<1>12. QED
  BY <1>4, <1>5, <1>6, <1>7, <1>8, <1>9, <1>10, <1>11, Kinds

\* Nor does it change what another pair, that nobody writes, is.
LEMMA OtherRests ==
    ASSUME NEW pair \in Pairs,
           \A f \in Files \ PairFiles[pair] : file'[f] = file[f],
           NEW r \in Pairs, r # pair, r \notin cut' => r \notin cut,
           r \in pruned => r \in pruned', RestOf(r)
    PROVE  RestOf(r)'
<1>1. \A f \in PairFiles[r] : f \in Files /\ f \notin PairFiles[pair]
  BY FileOf
<1>2. /\ CertFile[r] \in PairFiles[r] /\ KeyFile[r] \in PairFiles[r]
      /\ r = "leaf" => "sans" \in PairFiles[r]
  BY CertFileOf, Named
<1>3. QED
  BY <1>1, <1>2 DEF RestOf, WellFormed, Matching

LEMMA StepRest ==
    ASSUME IInv, [Next]_vars
    PROVE  RestInv'
<1>1. RestInv /\ WriterInv /\ TypeOK /\ StageInv
  BY DEF IInv
<1>2. Absent.key = 0 /\ Absent.sans = None /\ \A k : Key(k).key = k
  BY DEF Absent, Key, Other
<1>3. ASSUME file' = file, raced' = raced, cut' = cut, pruned' = pruned,
             \A q \in Procs, r \in Pairs : Writing(q, r)' <=> Writing(q, r)
      PROVE  RestInv'
  BY <1>1, <1>3 DEF RestInv, RestOf, WellFormed, Matching
<1>4. ASSUME UNCHANGED vars PROVE RestInv'
  BY <1>3, <1>4 DEF vars, Writing
<1>5. ASSUME NEW p \in Procs, Quiet(p) PROVE RestInv'
  BY <1>3, <1>5, QuietStep
<1>6. ASSUME NEW p \in Procs, Generating(p) PROVE RestInv'
  <2>1. PICK pair \in {"root", subject}, signer \in 1..(made + 1), days \in Nat \ {0},
             names \in Sans \cup {None} : GeneratesFor(p, pair, signer, days, names)
    BY <1>6, GeneratingStep
  <2>2. /\ file' = file /\ pair \in Pairs /\ pruned' = pruned
        /\ \A q \in Procs, r \in Pairs : Writing(q, r)' <=> IF q = p THEN r = pair ELSE Writing(q, r)
        /\ \A r \in Pairs : Writing(p, r) <=> FALSE
        /\ raced' \in {raced, raced \cup {pair}} /\ cut' \in {cut, cut \ {pair}}
    BY <2>1 DEF GeneratesFor, Writing
  <2>3. ASSUME NEW r \in Pairs, r \notin raced', \A q \in Procs : ~ Writing(q, r)'
        PROVE  RestOf(r)'
    <3>1. r # pair /\ r \notin raced /\ (\A q \in Procs : ~ Writing(q, r))
          /\ (r \notin cut' => r \notin cut)
      BY <2>2, <2>3
    <3>2. RestOf(r)
      BY <1>1, <3>1 DEF RestInv
    <3>3. QED
      BY <2>2, <3>1, <3>2, OtherRests
  <2>4. QED
    BY <2>3 DEF RestInv
<1>7. ASSUME NEW p \in Procs, Open(p) PROVE RestInv'
  <2>1. PICK pair \in {"root", subject} : Opens(p, pair)
    BY <1>7, OpenStep
  <2>2. /\ pair \in Pairs /\ Head(todo[p]) \in PairFiles[pair] /\ Writing(p, pair)
        /\ raced' = raced /\ cut' = cut /\ pruned' = pruned
        /\ \A q \in Procs, r \in Pairs : Writing(q, r)' <=> Writing(q, r)
    BY <2>1 DEF Opens, Writing
  <2>3. \A f \in Files \ PairFiles[pair] : file'[f] = file[f]
    BY <1>1, <2>1 DEF Opens, TypeOK
  <2>4. ASSUME NEW r \in Pairs, r \notin raced', \A q \in Procs : ~ Writing(q, r)'
        PROVE  RestOf(r)'
    <3>1. r # pair /\ r \notin raced /\ \A q \in Procs : ~ Writing(q, r)
      BY <2>2, <2>4
    <3>2. RestOf(r)
      BY <1>1, <3>1 DEF RestInv
    <3>3. QED
      BY <2>2, <2>3, <3>1, <3>2, OtherRests
  <2>5. QED
    BY <2>4 DEF RestInv
<1>8. ASSUME NEW p \in Procs, Fill(p) PROVE RestInv'
  <2>1. PICK pair \in {"root", subject} : Fills(p, pair)
    BY <1>8, FillStep
  <2>2. /\ pair \in Pairs /\ Head(todo[p]) \in PairFiles[pair] /\ Writing(p, pair)
        /\ raced' = raced /\ cut' = cut /\ pruned' \in {pruned, pruned \ {pair}}
        /\ \A q \in Procs, r \in Pairs : q # p => (Writing(q, r)' <=> Writing(q, r))
    BY <2>1 DEF Fills
  <2>3. \A f \in Files : f # Head(todo[p]) => file'[f] = file[f]
    BY <1>1, <2>1 DEF Fills, TypeOK
  <2>4. ASSUME NEW r \in Pairs \ {pair}, r \notin raced', \A q \in Procs : ~ Writing(q, r)'
        PROVE  RestOf(r)'
    <3>1. ~ Writing(p, r)
      BY <2>2, FileOf DEF Writing
    <3>2. RestOf(r)
      BY <1>1, <2>2, <2>4, <3>1 DEF RestInv
    <3>3. QED
      BY <2>2, <2>3, <3>2, OtherRests
  <2>5. ASSUME pair \notin raced', \A q \in Procs : ~ Writing(q, pair)' PROVE RestOf(pair)'
    <3>1. Tail(todo[p]) = <<>>
      BY <2>1, <2>2, <2>5 DEF Fills
    <3>2. WriterOf(p, pair) /\ ~ gone[p] /\ new[p].key # 0 /\ pruned' = pruned \ {pair}
      BY <1>1, <2>1, <2>2, <2>5, <3>1 DEF WriterInv, WriterOf, StageInv, StageOf, Writing, Fills
    <3>3. /\ CertFile[pair] \in Files /\ KeyFile[pair] \in Files /\ CertFile[pair] # KeyFile[pair]
          /\ CertFile[pair] # "sans" /\ KeyFile["leaf"] = "key.pem" /\ "key.pem" \in Files
      BY <2>2, Named
    <3>4. Head(todo[p]) # CertFile[pair]
      BY <2>1, <3>1 DEF Fills
    <3>5. file'[CertFile[pair]] = new[p] /\ file'[CertFile[pair]] # Absent
      BY <1>2, <2>3, <3>2, <3>3, <3>4 DEF WriterOf
    <3>6. CASE pair = "leaf"
      <4>1. Head(todo[p]) = "sans"
        <5>1. Head(todo[p]) # "key.pem"
          BY <2>1, <3>1, <3>3, <3>6 DEF Fills
        <5>2. QED
          BY <2>2, <3>4, <3>6, <5>1, Named
      <4>2. file'["sans"].sans = new[p].sans
        <5>1. \A names : List(names).sans = names
          BY DEF List, Absent, Other
        <5>2. QED
          BY <2>1, <3>2, <4>1, <5>1 DEF Fills
      <4>3. file'["key.pem"].key = new[p].key
        BY <2>3, <3>2, <3>3, <4>1 DEF WriterOf
      <4>4. QED
        BY <3>2, <3>3, <3>5, <3>6, <4>2, <4>3 DEF RestOf, WellFormed, Matching
    <3>7. CASE pair # "leaf"
      <4>1. Head(todo[p]) = KeyFile[pair]
        BY <2>2, <3>4, <3>7, Named
      <4>2. file'[KeyFile[pair]].key = new[p].key
        BY <1>2, <2>1, <3>2, <4>1 DEF Fills
      <4>3. QED
        BY <3>2, <3>5, <3>7, <4>2 DEF RestOf, WellFormed, Matching
    <3>8. QED
      BY <3>6, <3>7
  <2>6. QED
    BY <2>4, <2>5 DEF RestInv
<1>9. ASSUME NEW p \in Procs, Stop(p) PROVE RestInv'
  <2>1. /\ file' = file /\ raced' = raced /\ pruned' = pruned
        /\ cut' = cut \cup {pair \in Pairs \ raced : Writing(p, pair)}
        /\ \A q \in Procs, r \in Pairs : Writing(q, r)' <=> q # p /\ Writing(q, r)
    BY <1>9, StopStep
  <2>2. ASSUME NEW r \in Pairs, r \notin raced', \A q \in Procs : ~ Writing(q, r)'
        PROVE  RestOf(r)'
    <3>1. CASE ~ Writing(p, r)
      BY <1>1, <2>1, <2>2, <3>1 DEF RestInv, RestOf, WellFormed, Matching
    <3>2. CASE Writing(p, r)
      <4>1. WriterOf(p, r) /\ new[p].key # 0 /\ r \in cut'
        BY <1>1, <2>1, <2>2, <3>2 DEF WriterInv, StageInv, StageOf, Writing
      <4>2. QED
        BY <1>2, <2>1, <4>1 DEF WriterOf, RestOf
    <3>3. QED
      BY <3>1, <3>2
  <2>3. QED
    BY <2>2 DEF RestInv
<1>10. ASSUME NEW pair \in Pairs, NEW f \in PairFiles[pair], Delete(pair, f) PROVE RestInv'
  <2>1. /\ f \in Files /\ \A g \in Files : file'[g] = IF g = f THEN Absent ELSE file[g]
        /\ UNCHANGED <<pc, todo>>
        /\ cut \ {pair} \subseteq cut' /\ raced \ {pair} \subseteq raced'
        /\ pruned \ {pair} \subseteq pruned'
    BY <1>1, <1>10, FileOf DEF Delete, TypeOK
  <2>2. \A q \in Procs, r \in Pairs : Writing(q, r)' <=> Writing(q, r)
    BY <2>1 DEF Writing
  <2>3. ASSUME NEW r \in Pairs \ {pair}, r \notin raced', \A q \in Procs : ~ Writing(q, r)'
        PROVE  RestOf(r)'
    <3>1. /\ RestOf(r) /\ (r \notin cut' => r \notin cut) /\ (r \in pruned => r \in pruned')
          /\ \A g \in Files \ PairFiles[pair] : file'[g] = file[g]
      BY <1>1, <2>1, <2>2, <2>3 DEF RestInv
    <3>2. QED
      BY <3>1, OtherRests
  <2>4. ASSUME pair \notin raced', \A q \in Procs : ~ Writing(q, pair)' PROVE RestOf(pair)'
    <3>1. /\ CertFile[pair] \in PairFiles[pair] /\ KeyFile[pair] \in PairFiles[pair]
          /\ pair = "leaf" => "sans" \in PairFiles[pair]
          /\ PairFiles[pair] \subseteq Files
      BY CertFileOf, FileOf, Named
    <3>2. CASE \A g \in PairFiles[pair] \ {f} : file[g] = Absent
      <4>1. \A g \in PairFiles[pair] : file'[g] = Absent
        BY <2>1, <3>1, <3>2
      <4>2. QED
        BY <1>2, <3>1, <4>1 DEF RestOf, WellFormed, Matching
    <3>3. CASE \E g \in PairFiles[pair] \ {f} : file[g] # Absent
      <4>1. pair \in pruned' /\ pair \notin raced /\ cut' = cut /\ RestOf(pair)
        BY <1>1, <1>10, <2>2, <2>4, <3>3 DEF Delete, RestInv
      <4>2. \A g \in PairFiles[pair] : file'[g] \in {Absent, file[g]}
        BY <2>1, <3>1
      <4>3. QED
        BY <1>2, <3>1, <4>1, <4>2 DEF RestOf, WellFormed, Matching
    <3>4. QED
      BY <3>2, <3>3
  <2>5. QED
    BY <2>3, <2>4 DEF RestInv
<1>11. ASSUME Tick PROVE RestInv'
  BY <1>3, <1>11 DEF Tick, Writing
<1>12. QED
  BY <1>4, <1>5, <1>6, <1>7, <1>8, <1>9, <1>10, <1>11, Kinds

LEMMA StepChain ==
    ASSUME IInv, [Next]_vars
    PROVE  ChainInv'
<1>1. ChainInv /\ WriterInv /\ TypeOK /\ StageInv
  BY DEF IInv
<1>2. /\ subject \in Pairs /\ subject # "root" /\ "root" \in Pairs
      /\ CertFile[subject] \in PairFiles[subject] /\ CertFile[subject] \in Files
      /\ CertFile[subject] \notin PairFiles["root"] /\ PairFiles["root"] \subseteq Files
  <2>1. subject \in Pairs /\ subject # "root" /\ "root" \in Pairs
    BY <1>1, Named DEF TypeOK
  <2>2. QED
    BY <2>1, CertFileOf, FileOf
<1>3. Absent.key = 0 /\ Torn.key = 0
  BY DEF Absent, Torn, Other

\* Nothing new is signed or written, and the files of the root only get lost.
<1>4. ASSUME subject' = subject, rerooted' = rerooted, subject \notin raced' => subject \notin raced,
             subject \notin raced' \cup cut' => subject \notin cut,
             \A f \in PairFiles["root"] : file'[f] = file[f] \/ file'[f].key = 0,
             file'[CertFile[subject]] = file[CertFile[subject]],
             \A q \in Procs, r \in Pairs : Writing(q, r)' => Writing(q, r) /\ new'[q].by = new[q].by,
             subject \notin raced' \cup cut' =>
                \A q \in Procs : Writing(q, subject) => Writing(q, subject)'
      PROVE  ChainInv'
  <2>1. ASSUME NEW c, NEW d, d.by = c.by, UnderRoot(c) PROVE UnderRoot(d)'
    BY <1>4, <2>1 DEF UnderRoot
  <2>2. SUFFICES ASSUME ~ rerooted', subject \notin raced' \cup cut'
                 PROVE  LET signed == file'[CertFile[subject]]
                        IN  /\ signed # Absent \/ (\E q \in Procs : Writing(q, subject)') =>
                                   \A p \in Procs : ~ Writing(p, "root")'
                            /\ \A p \in Procs : Writing(p, subject)' => UnderRoot(new[p])'
                            /\ signed # Absent /\ (\A p \in Procs : ~ Writing(p, subject)')
                                  => UnderRoot(file[CertFile[subject]])'
    BY <1>4 DEF ChainInv
  <2>3. ~ rerooted /\ subject \notin raced \cup cut
    BY <1>4, <2>2
  <2>4. /\ file[CertFile[subject]] # Absent \/ (\E q \in Procs : Writing(q, subject)) =>
              \A p \in Procs : ~ Writing(p, "root")
        /\ \A p \in Procs : Writing(p, subject) => UnderRoot(new[p])
        /\ file[CertFile[subject]] # Absent /\ (\A p \in Procs : ~ Writing(p, subject))
              => UnderRoot(file[CertFile[subject]])
    BY <1>1, <2>3 DEF ChainInv
  <2>5. \A p \in Procs : Writing(p, subject)' <=> Writing(p, subject)
    BY <1>2, <1>4, <2>2
  <2>6. \A p \in Procs : Writing(p, "root")' => Writing(p, "root")
    BY <1>2, <1>4
  <2>7. \A p \in Procs : Writing(p, subject)' => UnderRoot(new[p])'
    BY <1>2, <1>4, <2>1, <2>4, <2>5
  <2>8. UnderRoot(file[CertFile[subject]]) => UnderRoot(file[CertFile[subject]])'
    BY <1>4 DEF UnderRoot
  <2>9. QED
    BY <1>4, <2>4, <2>5, <2>6, <2>7, <2>8

\* Nothing is left to be signed, or nothing is under way.
<1>5. ASSUME subject' = subject, file'[CertFile[subject]] = Absent,
             \A q \in Procs : ~ Writing(q, subject)'
      PROVE  ChainInv'
  BY <1>5 DEF ChainInv
<1>6. ASSUME UNCHANGED vars PROVE ChainInv'
  BY <1>4, <1>6 DEF vars, Writing
<1>7. ASSUME NEW p \in Procs, Quiet(p) PROVE ChainInv'
  <2>1. /\ UNCHANGED <<subject, file, new, cut, raced, rerooted>>
        /\ \A q \in Procs, r \in Pairs : Writing(q, r)' <=> Writing(q, r)
    BY <1>7, QuietStep DEF times
  <2>2. QED
    BY <1>2, <1>4, <2>1
<1>8. ASSUME NEW p \in Procs, Generating(p) PROVE ChainInv'
  <2>1. PICK pair \in {"root", subject}, signer \in 1..(made + 1), days \in Nat \ {0},
             names \in Sans \cup {None} : GeneratesFor(p, pair, signer, days, names)
    BY <1>8, GeneratingStep
  <2>2. /\ file' = file /\ subject' = subject
        /\ \A q \in Procs, r \in Pairs : Writing(q, r)' <=> IF q = p THEN r = pair ELSE Writing(q, r)
        /\ raced' = IF \/ \E q \in Procs : Writing(q, pair)
                       \/ pair = "vm" /\ Exists("vm")
                    THEN raced \cup {pair} ELSE raced
    BY <2>1 DEF GeneratesFor, times
  <2>3. CASE pair = "root"
    <3>1. rerooted' = \/ rerooted
                      \/ file[CertFile[subject]] # Absent
                      \/ \E q \in Procs : Writing(q, subject)
      BY <2>1, <2>3 DEF GeneratesFor
    <3>2. CASE rerooted'
      BY <3>2 DEF ChainInv
    <3>3. CASE ~ rerooted'
      <4>1. file'[CertFile[subject]] = Absent /\ \A q \in Procs : ~ Writing(q, subject)
        BY <2>2, <3>1, <3>3
      <4>2. \A q \in Procs : ~ Writing(q, subject)'
        BY <1>2, <2>2, <2>3, <4>1
      <4>3. QED
        BY <1>5, <2>2, <4>1, <4>2
    <3>4. QED
      BY <3>2, <3>3
  <2>4. CASE pair # "root"
    <3>1. /\ signer = file["rootCA.pem"].key /\ signer = file["rootCA-key.pem"].key
          /\ rerooted' = \E q \in Procs : Writing(q, "root")
          /\ new'[p] = Cert(made + 1, signer, days, names)
      BY <2>1, <2>4 DEF GeneratesFor
    <3>2. new'[p].by = signer
      BY <3>1 DEF Cert
    <3>3. UnderRoot(new[p])'
      BY <2>2, <3>1, <3>2, Named DEF UnderRoot
    <3>4. pair = subject
      BY <2>1, <2>4
    <3>5. ASSUME ~ rerooted', subject \notin raced'
          PROVE  /\ \A q \in Procs : ~ Writing(q, "root")'
                 /\ \A q \in Procs : Writing(q, subject)' <=> q = p
      BY <1>2, <2>2, <3>1, <3>4, <3>5
    <3>6. QED
      BY <2>2, <3>3, <3>5 DEF ChainInv
  <2>5. QED
    BY <2>3, <2>4
<1>9. ASSUME NEW p \in Procs, Open(p) PROVE ChainInv'
  <2>1. PICK pair \in {"root", subject} : Opens(p, pair)
    BY <1>9, OpenStep
  <2>2. /\ pair \in Pairs /\ Head(todo[p]) \in PairFiles[pair] /\ Writing(p, pair)
        /\ UNCHANGED <<subject, raced, cut, rerooted>>
        /\ \A q \in Procs, r \in Pairs : Writing(q, r)' <=> Writing(q, r)
        /\ \A q \in Procs : new'[q].by = new[q].by
    BY <2>1 DEF Opens, Writing
  <2>3. \A f \in Files : IF f = Head(todo[p]) THEN file'[f] = Torn ELSE file'[f] = file[f]
    BY <1>1, <2>1 DEF Opens, TypeOK
  <2>4. CASE pair = "root"
    BY <1>2, <1>3, <1>4, <2>2, <2>3, <2>4
  <2>5. CASE pair # "root"
    <3>1. pair = subject /\ \A f \in PairFiles["root"] : file'[f] = file[f]
      BY <1>2, <2>2, <2>3, <2>5, FileOf
    <3>2. \A c, d : UnderRoot(c) /\ d.by = c.by => UnderRoot(d)'
      BY <3>1 DEF UnderRoot
    <3>3. ASSUME ~ rerooted', subject \notin raced' \cup cut'
          PROVE  /\ \A q \in Procs : ~ Writing(q, "root")'
                 /\ \A q \in Procs : Writing(q, subject)' => UnderRoot(new[q])'
                 /\ Writing(p, subject)'
      <4>1. /\ \A q \in Procs : ~ Writing(q, "root")
            /\ \A q \in Procs : Writing(q, subject) => UnderRoot(new[q])
        BY <1>1, <2>2, <3>1, <3>3 DEF ChainInv
      <4>2. \A q \in Procs : UnderRoot(new[q]) => UnderRoot(new[q])'
        BY <2>2, <3>1 DEF UnderRoot
      <4>3. QED
        BY <1>2, <2>2, <3>1, <4>1, <4>2
    <3>4. QED
      BY <2>2, <3>3 DEF ChainInv
  <2>6. QED
    BY <2>4, <2>5
<1>10. ASSUME NEW p \in Procs, Fill(p) PROVE ChainInv'
  <2>1. PICK pair \in {"root", subject} : Fills(p, pair)
    BY <1>10, FillStep
  <2>2. /\ pair \in Pairs /\ Head(todo[p]) \in PairFiles[pair] /\ Writing(p, pair)
        /\ subject' = subject /\ UNCHANGED <<raced, cut, rerooted>>
        /\ \A q \in Procs, r \in Pairs : Writing(q, r)' => Writing(q, r)
        /\ \A q \in Procs, r \in Pairs : Writing(q, r)' => new'[q] = new[q]
    BY <2>1 DEF Fills, times, Writing
  <2>3. \A f \in Files : f # Head(todo[p]) => file'[f] = file[f]
    BY <1>1, <2>1 DEF Fills, TypeOK
  <2>4. SUFFICES ASSUME ~ rerooted', subject \notin raced' \cup cut' PROVE ChainInv'
    <3>1. rerooted' \/ subject' \in raced' \cup cut' => ChainInv'
      BY DEF ChainInv
    <3>2. QED
      BY <2>2, <3>1
  <2>5. /\ file[CertFile[subject]] # Absent \/ (\E q \in Procs : Writing(q, subject)) =>
              \A q \in Procs : ~ Writing(q, "root")
        /\ \A q \in Procs : Writing(q, subject) => UnderRoot(new[q])
    BY <1>1, <2>2, <2>4 DEF ChainInv
  <2>6. CASE pair = "root"
    <3>1. file[CertFile[subject]] = Absent /\ \A q \in Procs : ~ Writing(q, subject)
      BY <2>2, <2>5, <2>6
    <3>2. file'[CertFile[subject]] = Absent
      BY <1>2, <2>2, <2>3, <2>6, <3>1
    <3>3. QED
      BY <1>2, <1>5, <2>2, <3>1, <3>2
  <2>7. CASE pair # "root"
    <3>1. pair = subject /\ \A f \in PairFiles["root"] : file'[f] = file[f]
      BY <1>2, <2>2, <2>3, <2>7, FileOf
    <3>2. \A q \in Procs : ~ Writing(q, "root")'
      BY <1>2, <2>2, <2>5, <3>1
    <3>3. \A q \in Procs : Writing(q, subject)' => UnderRoot(new[q])'
      <4>1. \A q \in Procs : Writing(q, subject)' => UnderRoot(new[q]) /\ new'[q] = new[q]
        BY <1>2, <2>2, <2>5
      <4>2. QED
        BY <3>1, <4>1 DEF UnderRoot
    <3>4. ASSUME \A q \in Procs : ~ Writing(q, subject)' PROVE UnderRoot(file[CertFile[subject]])'
      <4>1. Tail(todo[p]) = <<>> /\ Head(todo[p]) # CertFile[subject]
        <5>1. Tail(todo[p]) # <<>> => Writing(p, pair)'
          BY <2>1 DEF Fills
        <5>2. Head(todo[p]) = CertFile[pair] => Tail(todo[p]) # <<>>
          BY <2>1 DEF Fills
        <5>3. QED
          BY <2>2, <3>1, <3>4, <5>1, <5>2
      <4>2. WriterOf(p, subject) /\ UnderRoot(new[p])
        BY <1>1, <1>2, <2>2, <2>4, <2>5, <3>1 DEF WriterInv
      <4>3. file'[CertFile[subject]] = new[p]
        BY <1>2, <2>3, <4>1, <4>2 DEF WriterOf
      <4>4. QED
        BY <2>2, <3>1, <4>2, <4>3 DEF UnderRoot
    <3>5. QED
      BY <2>2, <3>2, <3>3, <3>4 DEF ChainInv
  <2>8. QED
    BY <2>6, <2>7
<1>11. ASSUME NEW p \in Procs, Stop(p) PROVE ChainInv'
  <2>1. /\ UNCHANGED <<subject, file, raced, rerooted>>
        /\ cut' = cut \cup {pair \in Pairs \ raced : Writing(p, pair)}
        /\ \A q \in Procs, r \in Pairs : Writing(q, r)' <=> q # p /\ Writing(q, r)
        /\ \A q \in Procs \ {p} : new'[q] = new[q]
    BY <1>11, StopStep
  <2>2. QED
    BY <1>2, <1>4, <2>1
<1>12. ASSUME NEW pair \in Pairs, NEW f \in PairFiles[pair], Delete(pair, f) PROVE ChainInv'
  <2>1. /\ f \in Files /\ \A g \in Files : file'[g] = IF g = f THEN Absent ELSE file[g]
        /\ UNCHANGED <<subject, pc, todo, new, rerooted>>
        /\ raced \ {pair} \subseteq raced' /\ cut \ {pair} \subseteq cut'
        /\ (\E p \in Procs : Writing(p, pair)) => pair \in raced'
        /\ (\E g \in PairFiles[pair] \ {f} : file[g] # Absent) =>
              raced \subseteq raced' /\ (pair \in raced' \/ cut' = cut)
    BY <1>1, <1>12, FileOf DEF Delete, TypeOK, times
  <2>2. \A q \in Procs, r \in Pairs : Writing(q, r)' <=> Writing(q, r)
    BY <2>1 DEF Writing
  <2>3. CASE subject \in raced'
    BY <2>1, <2>3 DEF ChainInv
  <2>4. CASE pair = subject /\ subject \notin raced' /\ file'[CertFile[subject]] = Absent
    BY <1>2, <1>5, <2>1, <2>2, <2>4
  <2>5. CASE \/ pair # subject
             \/ subject \notin raced' /\ file'[CertFile[subject]] # Absent
    <3>1. file'[CertFile[subject]] = file[CertFile[subject]]
      BY <1>2, <2>1, <2>5, FileOf
    <3>2. \A g \in PairFiles["root"] : file'[g] = file[g] \/ file'[g].key = 0
      BY <1>2, <1>3, <2>1
    <3>3. pair = subject => \E g \in PairFiles[pair] \ {f} : file[g] # Absent
      BY <1>2, <2>1, <2>5
    <3>4. (subject \notin raced' => subject \notin raced) /\ (subject \notin cut' => subject \notin cut)
      <4>1. CASE pair # subject
        BY <2>1, <4>1
      <4>2. CASE pair = subject
        BY <2>1, <2>5, <3>3, <4>2
      <4>3. QED
        BY <4>1, <4>2
    <3>5. QED
      BY <1>2, <1>4, <2>1, <2>2, <3>1, <3>2, <3>4
  <2>6. QED
    BY <2>3, <2>4, <2>5
<1>13. ASSUME Tick PROVE ChainInv'
  BY <1>4, <1>13 DEF Tick, Writing
<1>14. QED
  BY <1>6, <1>7, <1>8, <1>9, <1>10, <1>11, <1>12, <1>13, Kinds

LEMMA StepExpiry ==
    ASSUME IInv, [Next]_vars
    PROVE  ExpiryInv'
<1>1. ExpiryInv /\ WriterInv /\ KeysInv /\ TypeOK /\ StageInv
  BY DEF IInv
<1>2. /\ Absent.key = 0 /\ Absent.exp = 0 /\ Torn.key = 0 /\ Torn.exp = 0
      /\ {"root", "vm", "leaf"} = Pairs /\ {"rootCA.pem", "cert.pem"} \subseteq Files
      /\ \A q \in Procs : pc[q] = "write" /\ Head(todo[q]) = "cert.pem" => Writing(q, "leaf")
  BY Named DEF Absent, Torn, Other, Writing
<1>3. /\ file["cert.pem"].exp # 0 => file["cert.pem"].by # 0
      /\ \A q \in Procs : pc[q] = "write" => new[q].by # 0
  BY <1>1 DEF KeysInv, StageInv, StageOf

\* No certificate is, or is to be, signed by the root that is there.
<1>4. ASSUME file'["cert.pem"].exp # 0 => file'["cert.pem"].by # file'["rootCA.pem"].key,
             \A q \in Procs : pc'[q] = "write" /\ Head(todo'[q]) = "cert.pem" =>
                 new'[q].by # file'["rootCA.pem"].key
      PROVE  ExpiryInv'
  BY <1>4 DEF ExpiryInv, Undated

\* No certificate is made, dated or put in its file.
<1>5. ASSUME file'["rootCA.pem"] = file["rootCA.pem"], late' = late, hour' = hour,
             "leaf" \notin raced' => "leaf" \notin raced,
             file'["cert.pem"] = file["cert.pem"] \/ file'["cert.pem"].exp = 0,
             \A q \in Procs : pc'[q] = "write" /\ Head(todo'[q]) = "cert.pem" =>
                 /\ pc[q] = "write" /\ Head(todo[q]) = "cert.pem"
                 /\ new'[q] = new[q] /\ opened'[q] = opened[q] /\ (slept[q] => slept'[q])
                 /\ now' = now \/ slept'[q] \/ opened[q]
      PROVE  ExpiryInv'
  <2>1. ASSUME NEW q \in Procs, Undated(q)', ~ slept'[q], new'[q].by = file'["rootCA.pem"].key
        PROVE  now' + new'[q].exp * Day <= file'["rootCA.pem"].exp
    <3>1. Undated(q) /\ ~ slept[q] /\ new'[q] = new[q] /\ now' = now
      BY <1>5, <2>1 DEF Undated
    <3>2. now + new[q].exp * Day <= file["rootCA.pem"].exp
      BY <1>1, <1>5, <2>1, <3>1 DEF ExpiryInv
    <3>3. QED
      BY <1>5, <3>1, <3>2
  <2>2. "leaf" \notin raced' /\ ~ late' =>
           /\ file'["cert.pem"].by = file'["rootCA.pem"].key /\ file'["cert.pem"].exp # 0
                 => file'["cert.pem"].exp <= file'["rootCA.pem"].exp + (IF hour' THEN 1 ELSE 0)
           /\ \A q \in Procs :
                 /\ pc'[q] = "write" /\ Head(todo'[q]) = "cert.pem" /\ opened'[q]
                 /\ new'[q].by = file'["rootCA.pem"].key
                 => new'[q].exp <= file'["rootCA.pem"].exp + (IF hour' THEN 1 ELSE 0)
    BY <1>1, <1>5 DEF ExpiryInv
  <2>3. QED
    BY <2>1, <2>2 DEF ExpiryInv
<1>6. ASSUME UNCHANGED vars PROVE ExpiryInv'
  BY <1>5, <1>6 DEF vars
<1>7. ASSUME NEW p \in Procs, Quiet(p) PROVE ExpiryInv'
  <2>1. /\ UNCHANGED <<now, slept, late, hour, file, new, opened, raced>>
        /\ \A q \in Procs : pc'[q] = "write" => pc[q] = "write" /\ todo'[q] = todo[q]
    BY <1>7, QuietStep DEF times
  <2>2. QED
    BY <1>5, <2>1
<1>8. ASSUME NEW p \in Procs, Generating(p) PROVE ExpiryInv'
  <2>1. PICK pair \in {"root", subject}, signer \in 1..(made + 1), days \in Nat \ {0},
             names \in Sans \cup {None} : GeneratesFor(p, pair, signer, days, names)
    BY <1>8, GeneratingStep
  <2>2. /\ UNCHANGED <<now, slept, late, hour, file, opened>> /\ pc[p] # "write"
        /\ pair \in Pairs /\ Head(todo'[p]) = CertFile[pair]
        /\ new'[p] = Cert(made + 1, signer, days, names)
        /\ \A q \in Procs \ {p} : pc'[q] = pc[q] /\ todo'[q] = todo[q] /\ new'[q] = new[q]
        /\ raced \subseteq raced'
        /\ pair # "root" => now + days * Day <= file["rootCA.pem"].exp
    BY <2>1 DEF GeneratesFor, times
  <2>3. ~ opened'[p] /\ new'[p].exp = days
    BY <1>1, <2>2 DEF StageInv, StageOf, Cert
  <2>4. Head(todo'[p]) = "cert.pem" => now + new'[p].exp * Day <= file["rootCA.pem"].exp
    BY <2>2, <2>3, Named
  <2>5. ASSUME NEW q \in Procs, Undated(q)', ~ slept'[q], new'[q].by = file'["rootCA.pem"].key
        PROVE  now' + new'[q].exp * Day <= file'["rootCA.pem"].exp
    <3>1. CASE q = p
      BY <2>2, <2>4, <2>5, <3>1 DEF Undated
    <3>2. CASE q # p
      <4>1. Undated(q) /\ ~ slept[q] /\ new'[q] = new[q]
        BY <2>2, <2>5, <3>2 DEF Undated
      <4>2. now + new[q].exp * Day <= file["rootCA.pem"].exp
        BY <1>1, <2>2, <2>5, <4>1 DEF ExpiryInv
      <4>3. QED
        BY <2>2, <4>1, <4>2
    <3>3. QED
      BY <3>1, <3>2
  <2>6. ASSUME NEW q \in Procs, pc'[q] = "write", Head(todo'[q]) = "cert.pem", opened'[q]
        PROVE  pc[q] = "write" /\ Head(todo[q]) = "cert.pem" /\ opened[q] /\ new'[q] = new[q]
    BY <2>2, <2>3, <2>6
  <2>7. QED
    BY <1>1, <2>2, <2>5, <2>6 DEF ExpiryInv
<1>9. ASSUME NEW p \in Procs, Open(p) PROVE ExpiryInv'
  <2>1. PICK pair \in {"root", subject} : Opens(p, pair)
    BY <1>9, OpenStep
  <2>2. /\ pair \in Pairs /\ Head(todo[p]) \in PairFiles[pair] /\ Writing(p, pair)
        /\ UNCHANGED <<now, pc, todo, raced>> /\ ~ opened[p]
        /\ \A q \in Procs \ {p} : new'[q] = new[q]
        /\ new'[p].by = new[p].by /\ (Head(todo[p]) # CertFile[pair] => new'[p] = new[p])
        /\ Head(todo[p]) = CertFile[pair] => new'[p].exp = AddDays(new[p].exp)
    BY <2>1 DEF Opens
  <2>3. /\ late' = IF Head(todo[p]) = "cert.pem" THEN slept[p] ELSE late
        /\ hour' = IF Head(todo[p]) = "cert.pem" THEN GoBack(new[p].exp) ELSE hour
        /\ opened' = [opened EXCEPT ![p] = TRUE] /\ slept' = [slept EXCEPT ![p] = FALSE]
    BY <1>9 DEF Open
  <2>4. \A f \in Files : IF f = Head(todo[p]) THEN file'[f] = Torn ELSE file'[f] = file[f]
    BY <1>1, <2>1 DEF Opens, TypeOK
  <2>5. \A q \in Procs \ {p} : opened'[q] = opened[q] /\ slept'[q] = slept[q]
    BY <1>1, <2>3 DEF TypeOK
  <2>6. opened'[p]
    BY <1>1, <2>3 DEF TypeOK
  <2>7. CASE Head(todo[p]) = "rootCA.pem"
    <3>1. file'["rootCA.pem"].key = 0 /\ file'["cert.pem"] = file["cert.pem"]
      BY <1>2, <2>4, <2>7
    <3>2. \A q \in Procs : new'[q].by = new[q].by
      BY <2>2
    <3>3. QED
      BY <1>3, <1>4, <2>2, <3>1, <3>2
  <2>8. CASE Head(todo[p]) = "cert.pem"
    <3>1. pair = "leaf" /\ CertFile["leaf"] = "cert.pem"
      BY <2>2, <2>8, Named
    <3>2. file'["rootCA.pem"] = file["rootCA.pem"] /\ file'["cert.pem"].exp = 0
      BY <1>2, <2>4, <2>8
    <3>3. ASSUME NEW q \in Procs, Undated(q)', ~ slept'[q], new'[q].by = file'["rootCA.pem"].key
          PROVE  now' + new'[q].exp * Day <= file'["rootCA.pem"].exp
      <4>1. q # p
        BY <2>6, <3>3 DEF Undated
      <4>2. Undated(q) /\ ~ slept[q] /\ new'[q] = new[q]
        BY <2>2, <2>5, <3>3, <4>1 DEF Undated
      <4>3. now + new[q].exp * Day <= file["rootCA.pem"].exp
        BY <1>1, <3>2, <3>3, <4>2 DEF ExpiryInv
      <4>4. QED
        BY <2>2, <3>2, <4>2, <4>3
    <3>4. ASSUME NEW q \in Procs, "leaf" \notin raced', ~ late', pc'[q] = "write",
                 Head(todo'[q]) = "cert.pem", opened'[q], new'[q].by = file'["rootCA.pem"].key
          PROVE  new'[q].exp <= file'["rootCA.pem"].exp + (IF hour' THEN 1 ELSE 0)
      <4>1. q = p
        <5>1. Writing(q, "leaf") /\ "leaf" \notin raced /\ "leaf" \in Pairs
          BY <1>2, <2>2, <3>4
        <5>2. QED
          BY <1>1, <2>2, <3>1, <5>1 DEF WriterInv, WriterOf
      <4>2. Undated(p) /\ ~ slept[p] /\ new[p].by = file["rootCA.pem"].key
        BY <2>2, <2>3, <2>8, <3>2, <3>4, <4>1 DEF Undated
      <4>3. now + new[p].exp * Day <= file["rootCA.pem"].exp
        BY <1>1, <4>2 DEF ExpiryInv
      <4>4. /\ now \in Nat /\ new[p].exp \in Nat \ {0} /\ file["rootCA.pem"].exp \in Nat
        BY <1>1, <1>2, <4>2 DEF TypeOK, Content, StageInv, StageOf, Undated
      <4>5. /\ AddDays(new[p].exp) = now + new[p].exp * Day + (IF GoBack(new[p].exp) THEN 1 ELSE 0)
            /\ new[p].exp * Day \in Nat
        BY <4>4, DaysAdded
      <4>6. /\ new'[p].exp = AddDays(new[p].exp) /\ hour' = GoBack(new[p].exp)
            /\ file'["rootCA.pem"].exp = file["rootCA.pem"].exp
        BY <2>2, <2>3, <2>8, <3>1, <3>2
      <4>7. \A days \in Nat, g \in {0, 1} :
               now + days <= file["rootCA.pem"].exp => now + days + g <= file["rootCA.pem"].exp + g
        BY <4>4
      <4>8. QED
        BY <4>1, <4>3, <4>5, <4>6, <4>7
    <3>5. QED
      BY <3>2, <3>3, <3>4 DEF ExpiryInv
  <2>9. CASE Head(todo[p]) \notin {"rootCA.pem", "cert.pem"}
    BY <1>2, <1>5, <2>2, <2>3, <2>4, <2>5, <2>9
  <2>10. QED
    BY <2>7, <2>8, <2>9
<1>10. ASSUME NEW p \in Procs, Fill(p) PROVE ExpiryInv'
  <2>1. PICK pair \in {"root", subject} : Fills(p, pair)
    BY <1>10, FillStep
  <2>2. /\ pair \in Pairs /\ Head(todo[p]) \in PairFiles[pair] /\ Writing(p, pair)
        /\ UNCHANGED <<now, slept, late, hour, raced>> /\ opened[p]
        /\ opened' = [opened EXCEPT ![p] = FALSE]
        /\ \A q \in Procs \ {p} : pc'[q] = pc[q] /\ todo'[q] = todo[q] /\ new'[q] = new[q]
        /\ ~ gone[p] /\ Head(todo[p]) = CertFile[pair] => file'[CertFile[pair]] = new[p]
        /\ gone[p] => file' = file
    BY <2>1 DEF Fills, times
  <2>3. \A f \in Files : f # Head(todo[p]) => file'[f] = file[f]
    BY <1>1, <2>1 DEF Fills, TypeOK
  <2>4. ASSUME NEW q \in Procs, pc'[q] = "write", Head(todo'[q]) = "cert.pem"
        PROVE  /\ q # p /\ pc[q] = "write" /\ Head(todo[q]) = "cert.pem"
               /\ new'[q] = new[q] /\ opened'[q] = opened[q]
    <3>1. pc'[p] = "write" => Head(todo'[p]) # "cert.pem"
      BY <2>1, Named DEF Fills
    <3>2. \A r \in Procs \ {p} : opened'[r] = opened[r]
      BY <1>1, <2>2 DEF TypeOK
    <3>3. QED
      BY <2>2, <2>4, <3>1, <3>2
  <2>5. CASE ~ gone[p] /\ Head(todo[p]) = "rootCA.pem"
    <3>1. pair = "root" /\ CertFile["root"] = "rootCA.pem"
      BY <2>2, <2>5, Named
    <3>2. file'["rootCA.pem"] = new[p] /\ file'["cert.pem"] = file["cert.pem"]
      BY <1>2, <2>2, <2>3, <2>5, <3>1
    <3>3. /\ file["cert.pem"].exp # 0 => file["cert.pem"].by # new[p].key
          /\ \A q \in Procs : Writing(q, "leaf") => new[q].by # new[p].key
      BY <1>1, <2>2, <2>5 DEF KeysInv, Writing
    <3>4. QED
      BY <1>2, <1>4, <2>4, <3>2, <3>3
  <2>6. CASE ~ gone[p] /\ Head(todo[p]) = "cert.pem"
    <3>1. pair = "leaf" /\ CertFile["leaf"] = "cert.pem" /\ pc[p] = "write"
      BY <2>2, <2>6, Named DEF Writing
    <3>2. file'["rootCA.pem"] = file["rootCA.pem"] /\ file'["cert.pem"] = new[p]
      BY <1>2, <2>2, <2>3, <2>6, <3>1
    <3>3. ASSUME NEW q \in Procs, Undated(q)', ~ slept'[q], new'[q].by = file'["rootCA.pem"].key
          PROVE  now' + new'[q].exp * Day <= file'["rootCA.pem"].exp
      <4>1. Undated(q) /\ ~ slept[q] /\ new'[q] = new[q]
        BY <2>2, <2>4, <3>3 DEF Undated
      <4>2. now + new[q].exp * Day <= file["rootCA.pem"].exp
        BY <1>1, <3>2, <3>3, <4>1 DEF ExpiryInv
      <4>3. QED
        BY <2>2, <3>2, <4>1, <4>2
    <3>4. "leaf" \notin raced' /\ ~ late' =>
             /\ file'["cert.pem"].by = file'["rootCA.pem"].key /\ file'["cert.pem"].exp # 0
                   => file'["cert.pem"].exp <= file'["rootCA.pem"].exp + (IF hour' THEN 1 ELSE 0)
             /\ \A q \in Procs :
                   /\ pc'[q] = "write" /\ Head(todo'[q]) = "cert.pem" /\ opened'[q]
                   /\ new'[q].by = file'["rootCA.pem"].key
                   => new'[q].exp <= file'["rootCA.pem"].exp + (IF hour' THEN 1 ELSE 0)
      <4>1. SUFFICES ASSUME "leaf" \notin raced', ~ late'
                     PROVE  /\ file'["cert.pem"].by = file'["rootCA.pem"].key /\ file'["cert.pem"].exp # 0
                                  => file'["cert.pem"].exp <= file'["rootCA.pem"].exp + (IF hour' THEN 1 ELSE 0)
                            /\ \A q \in Procs :
                                  /\ pc'[q] = "write" /\ Head(todo'[q]) = "cert.pem" /\ opened'[q]
                                  /\ new'[q].by = file'["rootCA.pem"].key
                                  => new'[q].exp <= file'["rootCA.pem"].exp + (IF hour' THEN 1 ELSE 0)
        OBVIOUS
      <4>2. \A q \in Procs :
               /\ pc[q] = "write" /\ Head(todo[q]) = "cert.pem" /\ opened[q]
               /\ new[q].by = file["rootCA.pem"].key
               => new[q].exp <= file["rootCA.pem"].exp + (IF hour THEN 1 ELSE 0)
        BY <1>1, <2>2, <4>1 DEF ExpiryInv
      <4>3. hour' = hour
        BY <2>2
      <4>4. new[p].by = file["rootCA.pem"].key =>
               new[p].exp <= file["rootCA.pem"].exp + (IF hour THEN 1 ELSE 0)
        BY <2>2, <2>6, <3>1, <4>2
      <4>5. ASSUME NEW q \in Procs, pc'[q] = "write", Head(todo'[q]) = "cert.pem", opened'[q],
                   new'[q].by = file'["rootCA.pem"].key
            PROVE  new'[q].exp <= file'["rootCA.pem"].exp + (IF hour' THEN 1 ELSE 0)
        <5>1. /\ pc[q] = "write" /\ Head(todo[q]) = "cert.pem" /\ opened[q]
              /\ new'[q] = new[q] /\ new[q].by = file["rootCA.pem"].key
          BY <2>4, <3>2, <4>5
        <5>2. new[q].exp <= file["rootCA.pem"].exp + (IF hour THEN 1 ELSE 0)
          BY <4>2, <5>1
        <5>3. QED
          BY <3>2, <4>3, <5>1, <5>2
      <4>6. QED
        BY <3>2, <4>3, <4>4, <4>5
    <3>5. QED
      BY <3>3, <3>4 DEF ExpiryInv
  <2>7. CASE gone[p] \/ Head(todo[p]) \notin {"rootCA.pem", "cert.pem"}
    BY <1>2, <1>5, <2>2, <2>3, <2>4, <2>7
  <2>8. QED
    BY <2>5, <2>6, <2>7
<1>11. ASSUME NEW p \in Procs, Stop(p) PROVE ExpiryInv'
  <2>1. /\ UNCHANGED <<now, late, hour, file, raced>> /\ pc'[p] = "idle"
        /\ \A q \in Procs \ {p} : /\ pc'[q] = pc[q] /\ todo'[q] = todo[q] /\ new'[q] = new[q]
                                  /\ opened'[q] = opened[q] /\ slept'[q] = slept[q]
    BY <1>11, StopStep
  <2>2. QED
    BY <1>5, <2>1
<1>12. ASSUME NEW pair \in Pairs, NEW f \in PairFiles[pair], Delete(pair, f) PROVE ExpiryInv'
  <2>1. /\ f \in Files /\ \A g \in Files : file'[g] = IF g = f THEN Absent ELSE file[g]
        /\ UNCHANGED <<now, slept, late, hour, pc, todo, new, opened>>
        /\ raced \ {pair} \subseteq raced'
        /\ (\E p \in Procs : Writing(p, pair)) => pair \in raced'
        /\ (\E g \in PairFiles[pair] \ {f} : file[g] # Absent) => raced \subseteq raced'
    BY <1>1, <1>12, FileOf DEF Delete, TypeOK, times
  <2>2. CASE f = "rootCA.pem"
    <3>1. file'["rootCA.pem"].key = 0 /\ file'["cert.pem"] = file["cert.pem"]
      BY <1>2, <2>1, <2>2
    <3>2. QED
      BY <1>3, <1>4, <2>1, <3>1
  <2>3. CASE f # "rootCA.pem" /\ ("leaf" \notin raced' => "leaf" \notin raced)
    <3>1. /\ file'["rootCA.pem"] = file["rootCA.pem"]
          /\ file'["cert.pem"] = file["cert.pem"] \/ file'["cert.pem"].exp = 0
      BY <1>2, <2>1, <2>3
    <3>2. QED
      BY <1>5, <2>1, <2>3, <3>1
  <2>4. CASE "leaf" \notin raced' /\ "leaf" \in raced
    <3>1. /\ pair = "leaf" /\ ~ \E q \in Procs : Writing(q, "leaf")
          /\ ~ \E g \in PairFiles[pair] \ {f} : file[g] # Absent
      BY <2>1, <2>4
    <3>2. "cert.pem" \in PairFiles[pair]
      BY <3>1, Named
    <3>3. file'["cert.pem"].exp = 0
      BY <1>2, <2>1, <3>1, <3>2
    <3>4. \A q \in Procs : ~ (pc'[q] = "write" /\ Head(todo'[q]) = "cert.pem")
      BY <1>2, <2>1, <3>1
    <3>5. QED
      BY <1>4, <3>3, <3>4
  <2>5. QED
    BY <2>2, <2>3, <2>4
<1>13. ASSUME Tick PROVE ExpiryInv'
  <2>1. /\ UNCHANGED <<file, pc, todo, new, opened, raced, late, hour>>
        /\ \A q \in Procs : slept'[q] = (slept[q] \/ Undated(q))
    BY <1>13 DEF Tick
  <2>2. QED
    BY <1>5, <2>1 DEF Undated
<1>14. QED
  BY <1>6, <1>7, <1>8, <1>9, <1>10, <1>11, <1>12, <1>13, Kinds

LEMMA StepCalm ==
    ASSUME IInv, [Next]_vars
    PROVE  CalmInv'
<1>1. CalmInv /\ TypeOK /\ StageInv
  BY DEF IInv
<1>2. \A q \in Procs : pc[q] = "push" => todo[q] \in Rests(Pushed)
  BY <1>1 DEF StageInv, StageOf

\* Whoever is still calm has copied nothing, is to copy it all, or is where it was.
<1>3. ASSUME \A q \in Procs : calm'[q] /\ pc'[q] \in {"push", "done"} =>
                 \/ todo'[q] = Pushed
                 \/ /\ file' = file /\ onVM' = onVM
                    /\ calm[q] /\ pc[q] \in {"push", "done"} /\ todo'[q] = todo[q]
      PROVE  CalmInv'
  BY <1>1, <1>3, AllPushed DEF CalmInv
<1>4. ASSUME UNCHANGED vars PROVE CalmInv'
  BY <1>3, <1>4 DEF vars
<1>5. ASSUME NEW p \in Procs, Quiet(p) PROVE CalmInv'
  <2>1. CASE \E pair \in {"root", "vm"} : Begin(p, pair)
    <3>1. /\ UNCHANGED <<file, onVM, todo>> /\ pc'[p] = "root"
          /\ \A q \in Procs \ {p} : pc'[q] = pc[q] /\ calm'[q] = calm[q]
      BY <1>1, <2>1 DEF Begin, Goto, TypeOK
    <3>2. QED
      BY <1>3, <3>1
  <2>2. CASE BeginCert(p)
    <3>1. /\ UNCHANGED <<file, onVM, todo, calm>> /\ pc'[p] \in {"current", "ensure"}
          /\ \A q \in Procs \ {p} : pc'[q] = pc[q]
      BY <1>1, <2>2 DEF BeginCert, Goto, TypeOK
    <3>2. QED
      BY <1>3, <3>1
  <2>3. CASE LoadOrGenerateRoot(p) /\ Exists("root")
    <3>1. /\ UNCHANGED <<file, onVM, todo, calm>> /\ pc'[p] \in {"load", "check", "idle"}
          /\ \A q \in Procs \ {p} : pc'[q] = pc[q]
      BY <1>1, <2>3 DEF LoadOrGenerateRoot, GoOn, Goto, TypeOK
    <3>2. QED
      BY <1>3, <3>1
  <2>4. CASE CheckVM(p)
    <3>1. /\ UNCHANGED <<file, onVM, calm>>
          /\ pc'[p] = "push" => todo'[p] = Pushed
          /\ pc'[p] \in {"push", "ensure"}
          /\ \A q \in Procs \ {p} : pc'[q] = pc[q] /\ todo'[q] = todo[q]
      BY <1>1, <2>4 DEF CheckVM, Goto, TypeOK
    <3>2. QED
      BY <1>3, <3>1
  <2>5. CASE Push(p)
    <3>1. /\ pc[p] = "push" /\ file' = file
          /\ file[Head(todo[p])] # Absent /\ todo'[p] = Tail(todo[p])
          /\ onVM' = [onVM EXCEPT ![Head(todo[p])] = file[Head(todo[p])]]
          /\ \A q \in Procs : calm'[q] = (q = p /\ calm[q])
      BY <1>1, <2>5 DEF Push, Goto, Disturbs, TypeOK
    <3>2. todo[p] \in Rests(Pushed)
      BY <1>2, <3>1
    <3>3. /\ Head(todo[p]) \in VMFiles
          /\ \A f : Among(f, todo[p]) <=> f = Head(todo[p]) \/ Among(f, todo'[p])
      BY <3>1, <3>2, NextPushed
    <3>4. \A f \in VMFiles :
             onVM'[f] = IF f = Head(todo[p]) THEN file[f] ELSE onVM[f]
      BY <1>1, <3>1 DEF TypeOK
    <3>5. ASSUME NEW f \in VMFiles, calm[p],
                 ~ Among(f, todo'[p])
          PROVE  file[f] # Absent /\ onVM'[f] = file[f]
      <4>1. CASE f = Head(todo[p])
        BY <3>1, <3>4, <3>5, <4>1
      <4>2. CASE f # Head(todo[p])
        BY <1>1, <3>1, <3>3, <3>4, <3>5, <4>2 DEF CalmInv
      <4>3. QED
        BY <4>1, <4>2
    <3>6. QED
      BY <3>1, <3>5 DEF CalmInv
  <2>6. QED
    BY <1>5, <2>1, <2>2, <2>3, <2>4, <2>5 DEF Quiet
<1>6. ASSUME NEW p \in Procs, Generating(p) PROVE CalmInv'
  <2>1. PICK pair \in {"root", subject}, signer \in 1..(made + 1), days \in Nat \ {0},
             names \in Sans \cup {None} : GeneratesFor(p, pair, signer, days, names)
    BY <1>6, GeneratingStep
  <2>2. /\ UNCHANGED <<file, onVM, calm>> /\ pc'[p] = "write"
        /\ \A q \in Procs \ {p} : pc'[q] = pc[q] /\ todo'[q] = todo[q]
    BY <2>1 DEF GeneratesFor
  <2>3. QED
    BY <1>3, <2>2
<1>7. ASSUME NEW p \in Procs, Open(p) PROVE CalmInv'
  <2>1. pc'[p] = "write" /\ \A q \in Procs : calm'[q] = (q = p /\ calm[q])
    BY <1>7 DEF Open, Disturbs
  <2>2. QED
    BY <1>3, <2>1
<1>8. ASSUME NEW p \in Procs, Fill(p) PROVE CalmInv'
  <2>1. \A q \in Procs : calm'[q] = (q = p /\ calm[q])
    BY <1>8 DEF Fill, Disturbs
  <2>2. CASE Tail(todo[p]) # <<>>
    <3>1. pc'[p] = "write"
      BY <1>8, <2>2 DEF Fill
    <3>2. QED
      BY <1>3, <2>1, <3>1
  <2>3. CASE ~ Tail(todo[p]) # <<>>
    <3>1. after[p] \in {"load", "check", "idle", "push"}
      BY <1>8, WriterIs DEF Fill
    <3>2. pc'[p] = after[p] /\ (after[p] = "push" => todo'[p] = Pushed)
      BY <1>1, <1>8, <2>3 DEF Fill, GoOn, Goto, TypeOK
    <3>3. QED
      BY <1>3, <2>1, <3>1, <3>2
  <2>4. QED
    BY <2>2, <2>3
<1>9. ASSUME NEW p \in Procs, Stop(p) PROVE CalmInv'
  <2>1. /\ UNCHANGED <<file, onVM>> /\ ~ calm'[p]
        /\ \A q \in Procs \ {p} : pc'[q] = pc[q] /\ todo'[q] = todo[q] /\ calm'[q] = calm[q]
    BY <1>9, StopStep
  <2>2. QED
    BY <1>3, <2>1
<1>10. ASSUME NEW pair \in Pairs, NEW f \in PairFiles[pair], Delete(pair, f) PROVE CalmInv'
  <2>1. \A q \in Procs : ~ calm'[q]
    BY <1>10 DEF Delete
  <2>2. QED
    BY <1>3, <2>1
<1>11. ASSUME Tick PROVE CalmInv'
  BY <1>3, <1>11 DEF Tick
<1>12. QED
  BY <1>4, <1>5, <1>6, <1>7, <1>8, <1>9, <1>10, <1>11, Kinds

-----------------------------------------------------------------------------
\* The invariant from which everything below follows: it holds initially and
\* every step, whoever takes it and wherever it is interrupted, keeps it.
THEOREM Inductive == Spec => []IInv
<1>1. IInv /\ [Next]_vars => IInv'
  <2> SUFFICES ASSUME IInv, [Next]_vars PROVE IInv'
    OBVIOUS
  <2>1. TypeOK' /\ StageInv' /\ KeysInv' /\ WriterInv'
    BY StepType, StepStage, StepKeys, StepWriter
  <2>2. RestInv' /\ ChainInv' /\ ExpiryInv' /\ CalmInv'
    BY StepRest, StepChain, StepExpiry, StepCalm
  <2>3. QED
    BY <2>1, <2>2 DEF IInv
<1>2. QED
  BY <1>1, InitInv, PTL DEF Spec

\* Every file holds nothing, half of something, or a key, a certificate or a
\* list, and every process has files left to write or to copy exactly when it
\* is at it: the states of EnsureVMCA, IssueLeaf and adopt are all there are.
THEOREM TypeCorrect == Spec => []TypeOK
BY Inductive, PTL DEF IInv

\* A certificate never stays beside another pair's key: whatever was cut short
\* in writePEM and writeKeyPEM, the root and a VM's pair are generated again
\* whole; two generating runs at once, a removal under a run that generates, and
\* the interrupted rewriting of what a renewal or a removal had left, are the
\* exceptions.
THEOREM PairsMatchAlways == Spec => []PairsMatch
<1>1. IInv => PairsMatch
  <2> SUFFICES ASSUME IInv, NEW pair \in Pairs,
                      WellFormed(file[CertFile[pair]], file[KeyFile[pair]]),
                      pair \notin raced, pair = "leaf" \/ pair \in pruned => pair \notin cut,
                      \A p \in Procs : ~ Writing(p, pair)
               PROVE  Matching(file[CertFile[pair]], file[KeyFile[pair]])
    BY DEF PairsMatch
  <2>1. RestOf(pair)
    BY DEF IInv, RestInv
  <2>2. QED
    BY <2>1 DEF RestOf, WellFormed, Matching
<1>2. QED
  BY <1>1, Inductive, PTL

\* A leaf that LoadAndSign limits to the root's days expires with the root at
\* the latest, the hour of the clocks and a late date apart.
THEOREM NothingOutlives == Spec => []NothingOutlivesIssuer
<1>1. IInv => NothingOutlivesIssuer
  BY DEF IInv, ExpiryInv, NothingOutlivesIssuer
<1>2. QED
  BY <1>1, Inductive, PTL

\* What adopt leaves on the VM is a chain the VM can serve: no interleaving of
\* runs that pushVMCA could have noticed puts an intermediate on it that the
\* root beside it did not sign, or one without its own key.
THEOREM AdoptedChain == Spec => []AdoptedChainVerifies
<1>1. IInv => AdoptedChainVerifies
  <2>1. SUFFICES ASSUME IInv, NEW p \in Procs,
                        pc[p] = "done", job[p] = "vm", calm[p], ~ rerooted,
                        cut = {}, raced = {}, \A q \in Procs : pc[q] # "write"
                 PROVE  /\ onVM["vmCA.pem"].by = onVM["rootCA.pem"].key
                        /\ Matching(onVM["vmCA.pem"], onVM["vmCA-key.pem"])
    BY DEF AdoptedChainVerifies
  <2>2. \A f \in VMFiles : file[f] # Absent /\ onVM[f] = file[f]
    <3>1. todo[p] = <<>>
      BY <2>1 DEF IInv, TypeOK
    <3>2. \A f : ~ Among(f, todo[p])
      BY <3>1 DEF Among
    <3>3. QED
      BY <2>1, <3>2 DEF IInv, CalmInv
  <2>3. \A pair \in Pairs : RestOf(pair)
    BY <2>1 DEF IInv, RestInv, Writing
  <2>4. /\ file["vmCA.pem"] # Absent /\ file["rootCA.pem"] # Absent /\ file["vmCA-key.pem"] # Absent
        /\ \A f \in {"rootCA.pem", "vmCA.pem", "vmCA-key.pem"} : onVM[f] = file[f]
    BY <2>2 DEF VMFiles
  <2>5. /\ file["rootCA.pem"].key # 0
        /\ file["vmCA-key.pem"].key = file["vmCA.pem"].key
    BY <2>1, <2>3, <2>4, Named DEF RestOf, WellFormed, Matching
  <2>6. UnderRoot(file["vmCA.pem"])
    <3>1. subject = "vm"
      BY <2>1 DEF IInv, StageInv, StageOf
    <3>2. QED
      BY <2>1, <2>4, <3>1, Named DEF IInv, ChainInv, Writing
  <2>7. file["rootCA.pem"].key = file["vmCA.pem"].by
    BY <2>5, <2>6, Named DEF UnderRoot
  <2>8. QED
    BY <2>4, <2>5, <2>7 DEF Matching
<1>2. QED
  BY <1>1, Inductive, PTL

\* Only a run of server cert that found days enough reports a current leaf.
LEMMA ReportsCurrent ==
    ASSUME IInv, [Next]_vars, NEW p \in Procs, pc[p] = "idle", pc'[p] = "current"
    PROVE  Current /\ subject = "leaf"
<1>1. CASE UNCHANGED vars
  BY <1>1 DEF vars
<1>2. ASSUME NEW q \in Procs, Quiet(q) PROVE Current /\ subject = "leaf"
  <2>1. q = p
    BY <1>2, QuietStep
  <2>2. pc \in [Procs -> Stages]
    BY DEF IInv, TypeOK
  <2>3. BeginCert(p)
    <3>1. ~ \E pair \in {"root", "vm"} : Begin(p, pair)
      BY <2>2 DEF Begin, Goto
    <3>2. ~ CheckVM(p) /\ ~ Push(p) /\ ~ LoadOrGenerateRoot(p)
      BY DEF CheckVM, Push, LoadOrGenerateRoot
    <3>3. QED
      BY <1>2, <2>1, <3>1, <3>2 DEF Quiet
  <2>4. QED
    BY <2>2, <2>3 DEF BeginCert, Goto
<1>3. ASSUME NEW q \in Procs, Generating(q) PROVE FALSE
  BY <1>3, GeneratingStep DEF GeneratesFor
<1>4. ASSUME NEW q \in Procs, Open(q) PROVE FALSE
  BY <1>4 DEF Open
<1>5. ASSUME NEW q \in Procs, Fill(q) PROVE FALSE
  <2>1. pc[q] = "write" /\ \A r \in Procs \ {q} : pc'[r] = pc[r]
    BY <1>5, FillStep DEF Fill, Fills
  <2>2. QED
    BY <2>1
<1>6. ASSUME NEW q \in Procs, Stop(q) PROVE FALSE
  BY <1>6, StopStep
<1>7. ASSUME (\E pair \in Pairs : \E f \in PairFiles[pair] : Delete(pair, f)) \/ Tick PROVE FALSE
  BY <1>7 DEF Delete, Tick
<1>8. QED
  BY <1>1, <1>2, <1>3, <1>4, <1>5, <1>6, <1>7, Kinds

\* The answer that there is nothing to do is right, although server cert looks
\* at the days alone: the leaf has the days, its key, its names and this host's
\* root, unless one of the events CurrentLeafUsable names befell the files.
THEOREM CurrentIsUsable == Spec => CurrentLeafUsable
<1> DEFINE leaf == file["cert.pem"]
           Usable(p) ==
             /\ pc[p] = "idle" /\ pc'[p] = "current"
             /\ \A q \in Procs : pc[q] # "write"
             /\ cut = {} /\ raced = {} /\ "leaf" \notin pruned
             => /\ leaf.exp > now + WarnDays * Day
                /\ Matching(leaf, file["key.pem"])
                /\ leaf.sans = file["sans"].sans
                /\ Exists("root") /\ ~ rerooted => leaf.by = file["rootCA-key.pem"].key
<1>1. ASSUME IInv, [Next]_vars, NEW p \in Procs PROVE Usable(p)
  <2>1. SUFFICES ASSUME pc[p] = "idle", pc'[p] = "current",
                        \A q \in Procs : pc[q] # "write", cut = {}, raced = {},
                        "leaf" \notin pruned
                 PROVE  /\ leaf.exp > now + WarnDays * Day
                        /\ Matching(leaf, file["key.pem"])
                        /\ leaf.sans = file["sans"].sans
                        /\ Exists("root") /\ ~ rerooted => leaf.by = file["rootCA-key.pem"].key
    OBVIOUS
  <2>2. DaysLeft(leaf.exp) > WarnDays /\ subject = "leaf"
    BY <1>1, <2>1, ReportsCurrent DEF Current
  <2>3. now \in Nat /\ leaf.exp \in Nat /\ WarnDays \in Nat
    BY <1>1, Named DEF IInv, TypeOK, Content
  <2>4. leaf.exp > now + WarnDays * Day /\ leaf # Absent
    <3>1. now + WarnDays * Day < leaf.exp
      BY <2>2, <2>3, DaysRead
    <3>2. WarnDays * Day \in Nat
      OBVIOUS
    <3>3. leaf.exp # 0 /\ leaf.exp > now + WarnDays * Day
      BY <2>3, <3>1, <3>2
    <3>4. QED
      BY <3>3 DEF Absent, Other
  <2>5. \A pair \in Pairs : RestOf(pair)
    BY <1>1, <2>1 DEF IInv, RestInv, Writing
  <2>6. Matching(leaf, file["key.pem"]) /\ leaf.sans = file["sans"].sans
    BY <2>1, <2>4, <2>5, Named DEF RestOf, Matching
  <2>7. ASSUME Exists("root"), ~ rerooted PROVE leaf.by = file["rootCA-key.pem"].key
    <3>1. UnderRoot(leaf)
      BY <1>1, <2>1, <2>2, <2>4, <2>7, Named DEF IInv, ChainInv, Writing
    <3>2. file["rootCA-key.pem"] # Absent
      BY <2>7, Named DEF Exists
    <3>3. file["rootCA-key.pem"].key # 0
      BY <2>1, <2>5, <3>2, Named DEF RestOf
    <3>4. QED
      BY <3>1, <3>3, Named DEF UnderRoot
  <2>8. QED
    BY <2>4, <2>6, <2>7
<1>2. IInv /\ [Next]_vars => [\A p \in Procs : Usable(p)]_vars
  BY <1>1
<1>3. QED
  BY <1>2, Inductive, PTL DEF Spec, CurrentLeafUsable
=============================================================================
