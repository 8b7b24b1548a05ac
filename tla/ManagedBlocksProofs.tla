-------------------------- MODULE ManagedBlocksProofs -------------------------
(***************************************************************************)
(* What mpd-virt promises of the files in which it keeps lines of its own  *)
(* beside the developer's: ~/.ssh/config on the host, and authorized_keys  *)
(* and the overlaid assets on the VM.  Proved for any processes, VMs,      *)
(* addresses, lines, keys and assets.                                      *)
(*                                                                         *)
(* For ~/.ssh/config the invariant IInv says that, until a write is torn,  *)
(* the file consists of whole blocks, from which stripBlock takes exactly  *)
(* one VM's lines; that an undisturbed run holds in hand a file that shows *)
(* what was written last; and under which record each block is written or  *)
(* taken away.  For the other two it follows an undisturbed run from what  *)
(* it loaded to what it leaves on the VM.                                  *)
(***************************************************************************)
EXTENDS SshConfig, AuthKeys, Assets, FiniteSetTheorems, TLAPS

\* The places of what is kept are numbers from 1 to how much is kept.
LEMMA PlaceType ==
    ASSUME NEW n \in Nat, NEW keep \in SUBSET (1..n)
    PROVE  /\ IsFiniteSet(keep) /\ Cardinality(keep) \in Nat
           /\ Cardinality(keep) <= n
           /\ \A i \in keep : Place(keep, i) \in 1..Cardinality(keep)
<1>1. IsFiniteSet(1..n) /\ Cardinality(1..n) = n
  BY FS_Interval
<1>2. IsFiniteSet(keep) /\ Cardinality(keep) <= n
  BY <1>1, FS_Subset
<1>3. Cardinality(keep) \in Nat
  BY <1>2, FS_CardinalityType
<1>4. ASSUME NEW i \in keep PROVE Place(keep, i) \in 1..Cardinality(keep)
  <2>1. {j \in keep : j <= i} \in SUBSET keep /\ i \in {j \in keep : j <= i}
    OBVIOUS
  <2>2. IsFiniteSet({j \in keep : j <= i}) /\ Place(keep, i) <= Cardinality(keep)
    BY <1>2, <2>1, FS_Subset DEF Place
  <2>3. Place(keep, i) \in Nat /\ Place(keep, i) # 0
    BY <2>1, <2>2, FS_CardinalityType, FS_EmptySet DEF Place
  <2>4. QED
    BY <1>3, <2>2, <2>3
<1>5. QED
  BY <1>2, <1>3, <1>4

\* Places keep the order, and neighbours stay neighbours.
LEMMA PlaceOrder ==
    ASSUME NEW n \in Nat, NEW keep \in SUBSET (1..n), NEW i \in keep, NEW j \in keep, i < j
    PROVE  /\ Place(keep, i) < Place(keep, j)
           /\ j = i + 1 => Place(keep, j) = Place(keep, i) + 1
<1> DEFINE upto(k) == {l \in keep : l <= k}
<1>1. i \in Int /\ j \in Int /\ keep \subseteq Int /\ i <= j /\ j <= j /\ ~ (j <= i)
      /\ \A l \in keep : l <= i => l <= j
  OBVIOUS
<1>2. IsFiniteSet(keep) /\ Place(keep, i) \in Nat /\ Place(keep, j) \in Nat
  BY PlaceType
<1>3. upto(i) \in SUBSET keep /\ upto(j) \in SUBSET keep /\ upto(i) \in SUBSET upto(j)
  BY <1>1
<1>4. IsFiniteSet(upto(i)) /\ IsFiniteSet(upto(j))
  BY <1>2, <1>3, FS_Subset
<1>5. j \in upto(j) /\ j \notin upto(i)
  BY <1>1
<1>6. Place(keep, i) <= Place(keep, j) /\ Place(keep, i) # Place(keep, j)
  BY <1>3, <1>4, <1>5, FS_Subset DEF Place
<1>7. ASSUME j = i + 1 PROVE Place(keep, j) = Place(keep, i) + 1
  <2>1. upto(j) = upto(i) \cup {j}
    <3>1. \A l \in keep : l <= j <=> l <= i \/ l = j
      BY <1>1, <1>7
    <3>2. QED
      BY <1>1, <3>1
  <2>2. QED
    BY <1>4, <1>5, <2>1, FS_AddElement DEF Place
<1>8. QED
  BY <1>2, <1>6, <1>7

\* Each has a place of its own.
LEMMA PlaceOnce ==
    ASSUME NEW n \in Nat, NEW keep \in SUBSET (1..n), NEW i \in keep, NEW j \in keep, i # j
    PROVE  Place(keep, i) # Place(keep, j)
<1>1. Place(keep, i) \in Int /\ Place(keep, j) \in Int
  BY PlaceType
<1>2. CASE i < j
  <2>1. Place(keep, i) < Place(keep, j)
    BY <1>2, PlaceOrder
  <2>2. QED
    BY <1>1, <2>1
<1>3. CASE j < i
  <2>1. Place(keep, j) < Place(keep, i)
    BY <1>3, PlaceOrder
  <2>2. QED
    BY <1>1, <2>1
<1>4. QED
  BY <1>2, <1>3

\* Every place is taken.
LEMMA PlaceTaken ==
    ASSUME NEW n \in Nat, NEW keep \in SUBSET (1..n), NEW m \in 1..Cardinality(keep)
    PROVE  \E i \in keep : Place(keep, i) = m
<1> DEFINE f == [i \in keep |-> Place(keep, i)]
<1>1. IsFiniteSet(keep) /\ Cardinality(keep) \in Nat
  BY PlaceType
<1>2. IsFiniteSet(1..Cardinality(keep)) /\ Cardinality(1..Cardinality(keep)) = Cardinality(keep)
  BY <1>1, FS_Interval
<1>3. f \in [keep -> 1..Cardinality(keep)]
  BY PlaceType
<1>4. ASSUME NEW i \in keep, NEW j \in keep, i # j PROVE Place(keep, i) # Place(keep, j)
  BY <1>4, PlaceOnce
<1>5. f \in Injection(keep, 1..Cardinality(keep))
  BY <1>3, <1>4 DEF Injection, IsInjective
<1>6. f \in Surjection(keep, 1..Cardinality(keep))
  BY <1>2, <1>5, FS_Injection
<1>7. QED
  BY <1>6 DEF Surjection

\* What Lines does: it keeps each line in keep, and no other, and their order.
LEMMA LinesOf ==
    ASSUME NEW S, NEW s \in Seq(S), NEW keep \in SUBSET DOMAIN s
    PROVE  /\ Lines(s, keep) \in Seq(S)
           /\ DOMAIN Lines(s, keep) = 1..Cardinality(keep)
           /\ \A i \in keep : /\ Place(keep, i) \in DOMAIN Lines(s, keep)
                              /\ Lines(s, keep)[Place(keep, i)] = s[i]
           /\ \A m \in DOMAIN Lines(s, keep) : \E i \in keep : m = Place(keep, i)
<1> DEFINE t == Lines(s, keep)
<1>1. Len(s) \in Nat /\ keep \in SUBSET (1..Len(s)) /\ s \in [1..Len(s) -> S]
  OBVIOUS
<1>2. Cardinality(keep) \in Nat /\ \A i \in keep : Place(keep, i) \in 1..Cardinality(keep)
  BY <1>1, PlaceType
<1>3. DOMAIN t = 1..Cardinality(keep)
  BY DEF Lines
<1>4. ASSUME NEW i \in keep PROVE t[Place(keep, i)] = s[i]
  <2>1. \A j \in keep : Place(keep, j) = Place(keep, i) => j = i
    BY <1>1, PlaceOnce
  <2>2. (CHOOSE j \in keep : Place(keep, j) = Place(keep, i)) = i
    BY <2>1
  <2>3. QED
    BY <1>2, <2>2 DEF Lines
<1>5. ASSUME NEW m \in DOMAIN t PROVE \E i \in keep : m = Place(keep, i)
  BY <1>1, <1>3, <1>5, PlaceTaken
<1>6. t \in Seq(S)
  <2>1. \A m \in 1..Cardinality(keep) : t[m] \in S
    BY <1>1, <1>3, <1>4, <1>5
  <2>2. t \in [1..Cardinality(keep) -> S]
    BY <2>1 DEF Lines
  <2>3. QED
    BY <1>2, <2>2
<1>7. QED
  BY <1>2, <1>3, <1>4, <1>5, <1>6

\* PlaceOrder, for the lines of a file.
LEMMA LinesPlaces ==
    ASSUME NEW S, NEW s \in Seq(S), NEW keep \in SUBSET DOMAIN s
    PROVE  /\ \A i \in keep : Place(keep, i) \in Nat \ {0}
           /\ \A i, j \in keep : i < j => Place(keep, i) < Place(keep, j)
           /\ \A i, j \in keep : j = i + 1 => Place(keep, j) = Place(keep, i) + 1
<1>1. Len(s) \in Nat /\ keep \in SUBSET (1..Len(s)) /\ s \in [1..Len(s) -> S]
  OBVIOUS
<1>2. ASSUME NEW i \in keep PROVE Place(keep, i) \in Nat \ {0}
  <2>1. Place(keep, i) \in 1..Cardinality(keep)
    BY <1>1, PlaceType
  <2>2. QED
    BY <2>1
<1>3. ASSUME NEW i \in keep, NEW j \in keep, i < j
      PROVE  /\ Place(keep, i) < Place(keep, j)
             /\ j = i + 1 => Place(keep, j) = Place(keep, i) + 1
  BY <1>1, <1>3, PlaceOrder
<1>4. \A i, j \in keep : j = i + 1 => i < j
  BY <1>1
<1>5. QED
  BY <1>2, <1>3, <1>4

-----------------------------------------------------------------------------
(* Lines of ~/.ssh/config.                                                 *)

\* The kinds of lines, and whose they are, tell them apart.
LEMMA LineKinds ==
    /\ \A v \in VMs : /\ Begin(v) \in AnyLine /\ Begin(v).kind = "begin" /\ Begin(v).of = v
                      /\ End(v) \in AnyLine /\ End(v).kind = "end" /\ End(v).of = v
    /\ \A v \in VMs, ip \in IPs :
          Stanza(v, ip) \in AnyLine /\ Stanza(v, ip).kind = "stanza" /\ Stanza(v, ip).of = v
    /\ \A o \in Own : OwnLine(o) \in AnyLine /\ OwnLine(o).kind = "own" /\ OwnLine(o).of = o
    /\ \A l \in AnyLine : l.kind # "own" <=> l.of \in VMs
    /\ \A l \in AnyLine : l.kind = "own" => \E o \in Own : l = OwnLine(o)
<1> USE SshAssumption DEF Begin, End, Stanza, OwnLine, Line
<1>1. \A v \in VMs : /\ Begin(v) \in AnyLine /\ Begin(v).kind = "begin" /\ Begin(v).of = v
                     /\ End(v) \in AnyLine /\ End(v).kind = "end" /\ End(v).of = v
  BY DEF AnyLine
<1>2. ASSUME NEW v \in VMs, NEW ip \in IPs
      PROVE  Stanza(v, ip) \in AnyLine /\ Stanza(v, ip).kind = "stanza" /\ Stanza(v, ip).of = v
  <2>1. Stanza(v, ip) \in {Stanza(w, a) : w \in VMs, a \in IPs}
    OBVIOUS
  <2>2. QED
    BY <2>1 DEF AnyLine
<1>3. \A o \in Own : OwnLine(o) \in AnyLine /\ OwnLine(o).kind = "own" /\ OwnLine(o).of = o
  BY DEF AnyLine
<1>4. ASSUME NEW l \in AnyLine
      PROVE  /\ l.kind # "own" <=> l.of \in VMs
             /\ l.kind = "own" => \E o \in Own : l = OwnLine(o)
  <2>1. CASE \E v \in VMs : l = Begin(v) \/ l = End(v)
    BY <2>1
  <2>2. CASE \E v \in VMs, ip \in IPs : l = Stanza(v, ip)
    BY <2>2
  <2>3. CASE \E o \in Own : l = OwnLine(o)
    BY <2>3
  <2>4. QED
    BY <2>1, <2>2, <2>3 DEF AnyLine
<1>5. QED
  BY <1>1, <1>2, <1>3, <1>4

\* In a file of whole blocks, v's block is the lines of v.
LEMMA InBlockOf ==
    ASSUME NEW s \in Seq(AnyLine), Whole(s), NEW v \in VMs, NEW i \in DOMAIN s
    PROVE  InBlock(s, v, i) <=> s[i].of = v
<1>1. s[i] \in AnyLine /\ i \in Nat /\ DOMAIN s = 1..Len(s) /\ Len(s) \in Nat
  OBVIOUS
<1>2. ASSUME s[i].of = v PROVE InBlock(s, v, i)
  <2>1. PICK b \in 1..i, ip \in IPs : i <= b + 2 /\ Block(s, b, v, ip)
    BY <1>1, <1>2, LineKinds DEF Whole
  <2>2. \A k \in b..(i - 1) : s[k] # End(v)
    BY <1>1, <2>1, LineKinds DEF Block
  <2>3. QED
    BY <2>1, <2>2 DEF InBlock, Block
<1>3. ASSUME InBlock(s, v, i) PROVE s[i].of = v
  <2>1. PICK b \in 1..i : s[b] = Begin(v) /\ \A k \in b..(i - 1) : s[k] # End(v)
    BY <1>3 DEF InBlock
  <2>2. b \in DOMAIN s /\ s[b].kind = "begin" /\ s[b].of = v
    BY <1>1, <2>1, LineKinds
  <2>3. PICK a \in 1..b, ip \in IPs : b <= a + 2 /\ Block(s, a, v, ip)
    BY <2>2 DEF Whole
  <2>4. a = b
    BY <2>2, <2>3, LineKinds DEF Block
  <2>5. i <= b + 2
    BY <1>1, <2>1, <2>3, <2>4 DEF Block
  <2>6. QED
    BY <1>1, <2>3, <2>4, <2>5, LineKinds DEF Block
<1>4. QED
  BY <1>2, <1>3

\* Lines that are kept keep their neighbours.
LEMMA KeptBlock ==
    ASSUME NEW s \in Seq(AnyLine), NEW keep \in SUBSET DOMAIN s,
           NEW v \in VMs, NEW ip \in IPs, NEW b \in keep, b + 1 \in keep, b + 2 \in keep,
           Block(s, b, v, ip)
    PROVE  /\ Block(Lines(s, keep), Place(keep, b), v, ip)
           /\ Place(keep, b + 1) = Place(keep, b) + 1 /\ Place(keep, b + 2) = Place(keep, b) + 2
<1>1. b \in Nat /\ b + 2 = (b + 1) + 1
  OBVIOUS
<1>2. /\ \A i, j \in keep : j = i + 1 => Place(keep, j) = Place(keep, i) + 1
      /\ \A i \in keep : /\ Place(keep, i) \in Nat \ {0}
                         /\ Place(keep, i) \in DOMAIN Lines(s, keep)
                         /\ Lines(s, keep)[Place(keep, i)] = s[i]
  <2>1. \A i \in keep : /\ Place(keep, i) \in DOMAIN Lines(s, keep)
                        /\ Lines(s, keep)[Place(keep, i)] = s[i]
    BY LinesOf
  <2>2. /\ \A i, j \in keep : j = i + 1 => Place(keep, j) = Place(keep, i) + 1
        /\ \A i \in keep : Place(keep, i) \in Nat \ {0}
    BY LinesPlaces
  <2>3. QED
    BY <2>1, <2>2
<1>3. Place(keep, b + 1) = Place(keep, b) + 1 /\ Place(keep, b + 2) = Place(keep, b + 1) + 1
  BY <1>1, <1>2
<1>4. Place(keep, b + 2) = Place(keep, b) + 2
  BY <1>2, <1>3
<1>5. QED
  BY <1>2, <1>3, <1>4 DEF Block

\* Keeping all lines of some VMs and none of others keeps blocks whole, and
\* shows what was there of those that are kept.
LEMMA KeptLines ==
    ASSUME NEW s \in Seq(AnyLine), Whole(s), NEW keep \in SUBSET DOMAIN s,
           \A i, j \in DOMAIN s : i \in keep /\ s[j].of = s[i].of => j \in keep
    PROVE  /\ Lines(s, keep) \in Seq(AnyLine)
           /\ Whole(Lines(s, keep))
           /\ \A v \in VMs, ip \in IPs \cup {None} :
                 /\ \A i \in DOMAIN s : s[i].of = v => i \in keep
                 /\ Shows(s, v, ip)
                 => Shows(Lines(s, keep), v, ip)
<1> DEFINE t == Lines(s, keep)
<1>1. DOMAIN s = 1..Len(s) /\ Len(s) \in Nat
  OBVIOUS
<1>2. /\ t \in Seq(AnyLine)
      /\ \A i \in keep : Place(keep, i) \in DOMAIN t /\ t[Place(keep, i)] = s[i]
      /\ \A m \in DOMAIN t : \E i \in keep : m = Place(keep, i)
  BY LinesOf
<1>3. \A i \in keep : Place(keep, i) \in Nat \ {0}
  BY LinesPlaces
<1>4. \A i, j \in keep : i < j => Place(keep, i) < Place(keep, j)
  BY LinesPlaces
<1>5. ASSUME NEW v \in VMs, NEW ip \in IPs, NEW b \in DOMAIN s, Block(s, b, v, ip),
             NEW i \in keep, s[i].of = v
      PROVE  /\ b \in keep /\ b + 1 \in keep /\ b + 2 \in keep
             /\ Block(t, Place(keep, b), v, ip)
             /\ \A j \in keep : j \in b..(b + 2) =>
                   Place(keep, j) \in Place(keep, b)..(Place(keep, b) + 2)
  <2>1. b + 1 \in DOMAIN s /\ b + 2 \in DOMAIN s
    BY <1>1, <1>5 DEF Block
  <2>2. s[b].of = v /\ s[b + 1].of = v /\ s[b + 2].of = v
    BY <1>5, LineKinds DEF Block
  <2>3. b \in keep /\ b + 1 \in keep /\ b + 2 \in keep
    BY <1>5, <2>1, <2>2
  <2>4. /\ Block(t, Place(keep, b), v, ip)
        /\ Place(keep, b + 1) = Place(keep, b) + 1 /\ Place(keep, b + 2) = Place(keep, b) + 2
    BY <1>5, <2>3, KeptBlock
  <2>5. \A j \in keep : j \in b..(b + 2) => j = b \/ j = b + 1 \/ j = b + 2
    BY <1>1
  <2>6. Place(keep, b) \in Nat
    BY <1>3, <2>3
  <2>7. \A j \in keep : j \in b..(b + 2) =>
           Place(keep, j) \in Place(keep, b)..(Place(keep, b) + 2)
    BY <2>4, <2>5, <2>6
  <2>8. QED
    BY <2>3, <2>4, <2>7
<1>6. Whole(t)
  <2>1. SUFFICES ASSUME NEW m \in DOMAIN t, t[m].kind # "own"
                 PROVE  \E b \in 1..m, ip \in IPs : m <= b + 2 /\ Block(t, b, t[m].of, ip)
    BY DEF Whole
  <2>2. PICK i \in keep : m = Place(keep, i)
    BY <1>2
  <2>3. t[m] = s[i] /\ s[i] \in AnyLine
    BY <1>2, <2>2
  <2>4. s[i].of \in VMs
    BY <2>1, <2>3, LineKinds
  <2>5. PICK b \in 1..i, ip \in IPs : i <= b + 2 /\ Block(s, b, s[i].of, ip)
    BY <2>1, <2>3 DEF Whole
  <2>6. b \in DOMAIN s /\ i \in b..(b + 2)
    BY <1>1, <2>5
  <2>7. /\ Block(t, Place(keep, b), s[i].of, ip) /\ b \in keep
        /\ m \in Place(keep, b)..(Place(keep, b) + 2)
    BY <1>5, <2>2, <2>4, <2>5, <2>6
  <2>8. Place(keep, b) \in 1..m /\ m <= Place(keep, b) + 2
    BY <1>3, <2>2, <2>7
  <2>9. QED
    BY <2>3, <2>7, <2>8
<1>7. ASSUME NEW v \in VMs, NEW ip \in IPs \cup {None},
             \A i \in DOMAIN s : s[i].of = v => i \in keep, Shows(s, v, ip)
      PROVE  Shows(t, v, ip)
  <2>1. CASE ip = None
    BY <1>2, <1>7, <2>1 DEF Shows
  <2>2. CASE ip # None
    <3>1. PICK b \in DOMAIN s :
             Block(s, b, v, ip) /\ \A i \in DOMAIN s : s[i].of = v => i \in b..(b + 2)
      BY <1>1, <1>7, <2>2 DEF Shows
    <3>2. ip \in IPs /\ s[b].of = v
      BY <2>2, <3>1, LineKinds DEF Block
    <3>3. b \in keep
      BY <1>7, <3>2
    <3>4. /\ Block(t, Place(keep, b), v, ip)
          /\ \A j \in keep : j \in b..(b + 2) =>
                Place(keep, j) \in Place(keep, b)..(Place(keep, b) + 2)
      BY <1>5, <3>1, <3>2, <3>3
    <3>5. \A m \in DOMAIN t : t[m].of = v => m \in Place(keep, b)..(Place(keep, b) + 2)
      BY <1>2, <3>1, <3>4
    <3>6. Place(keep, b) \in 1..Len(t)
      BY <1>2, <3>3
    <3>7. QED
      BY <2>2, <3>4, <3>5, <3>6 DEF Shows
  <2>3. QED
    BY <2>1, <2>2
<1>8. QED
  BY <1>2, <1>6, <1>7

\* A line of the developer's that is kept is there as often as before.
LEMMA KeptOwn ==
    ASSUME NEW s \in Seq(AnyLine), NEW keep \in SUBSET DOMAIN s, NEW o \in Own,
           \A i \in DOMAIN s : s[i] = OwnLine(o) => i \in keep
    PROVE  LET t == Lines(s, keep)
           IN  /\ (\E i \in DOMAIN t : t[i] = OwnLine(o)) <=> \E i \in DOMAIN s : s[i] = OwnLine(o)
               /\ (\A i, j \in DOMAIN s : s[i] = OwnLine(o) /\ s[j] = OwnLine(o) => i = j)
                  => \A i, j \in DOMAIN t : t[i] = OwnLine(o) /\ t[j] = OwnLine(o) => i = j
<1> DEFINE t == Lines(s, keep)
<1>1. /\ \A i \in keep : Place(keep, i) \in DOMAIN t /\ t[Place(keep, i)] = s[i]
      /\ \A m \in DOMAIN t : \E i \in keep : m = Place(keep, i)
  BY LinesOf
<1> HIDE DEF t
<1>2. QED
  BY <1>1 DEF t

\* stripBlock takes out what is v's, and nothing else.
LEMMA Stripping ==
    ASSUME NEW s \in Seq(AnyLine), Whole(s), NEW v \in VMs
    PROVE  /\ stripBlock(s, v) = Lines(s, {i \in DOMAIN s : s[i].of # v})
           /\ stripBlock(s, v) \in Seq(AnyLine) /\ Whole(stripBlock(s, v))
           /\ Shows(stripBlock(s, v), v, None)
           /\ \A w \in VMs \ {v}, ip \in IPs \cup {None} :
                 Shows(s, w, ip) => Shows(stripBlock(s, v), w, ip)
           /\ \A lines : Holds(s, lines) => Holds(stripBlock(s, v), lines)
<1> DEFINE keep == {i \in DOMAIN s : s[i].of # v}
           t == Lines(s, keep)
<1>1. stripBlock(s, v) = t
  <2>1. {i \in DOMAIN s : ~ InBlock(s, v, i)} = keep
    BY InBlockOf
  <2>2. QED
    BY <2>1 DEF stripBlock
<1>2. keep \in SUBSET DOMAIN s /\ \A i, j \in DOMAIN s : i \in keep /\ s[j].of = s[i].of => j \in keep
  OBVIOUS
<1>3. t \in Seq(AnyLine) /\ Whole(t)
  BY <1>2, KeptLines
<1>4. ASSUME NEW w \in VMs \ {v}, NEW ip \in IPs \cup {None}, Shows(s, w, ip) PROVE Shows(t, w, ip)
  <2>1. \A i \in DOMAIN s : s[i].of = w => i \in keep
    OBVIOUS
  <2>2. QED
    BY <1>2, <1>4, <2>1, KeptLines
<1>5. Shows(t, v, None)
  <2> HIDE DEF keep
  <2>1. /\ \A i \in keep : t[Place(keep, i)] = s[i]
        /\ \A m \in DOMAIN t : \E i \in keep : m = Place(keep, i)
    BY <1>2, LinesOf
  <2>2. \A m \in DOMAIN t : t[m].of # v
    BY <2>1 DEF keep
  <2>3. QED
    BY <2>2 DEF Shows
<1>6. ASSUME NEW lines, Holds(s, lines) PROVE Holds(t, lines)
  <2>1. SUFFICES ASSUME NEW o \in Own
                 PROVE  /\ o \in lines <=> \E i \in DOMAIN t : t[i] = OwnLine(o)
                        /\ \A i, j \in DOMAIN t : t[i] = OwnLine(o) /\ t[j] = OwnLine(o) => i = j
    BY DEF Holds
  <2>2. \A i \in DOMAIN s : s[i] = OwnLine(o) => i \in keep
    BY LineKinds, SshAssumption
  <2>3. QED
    BY <1>2, <1>6, <2>2, KeptOwn DEF Holds
<1> HIDE DEF t
<1>7. QED
  BY <1>1, <1>3, <1>4, <1>5, <1>6 DEF t

\* More lines behind a file do not disturb its blocks.
LEMMA LongerFile ==
    ASSUME NEW s \in Seq(AnyLine), NEW t \in Seq(AnyLine), Len(s) <= Len(t),
           \A i \in DOMAIN s : t[i] = s[i]
    PROVE  /\ \A b \in DOMAIN s : \A v, ip : Block(s, b, v, ip) => Block(t, b, v, ip)
           /\ \A v \in VMs, ip \in IPs \cup {None} :
                 /\ Shows(s, v, ip)
                 /\ \A i \in DOMAIN t \ DOMAIN s : t[i].of # v
                 => Shows(t, v, ip)
<1>1. /\ DOMAIN s = 1..Len(s) /\ DOMAIN t = 1..Len(t) /\ Len(s) \in Nat /\ Len(t) \in Nat
      /\ DOMAIN s \subseteq DOMAIN t
  OBVIOUS
<1>2. ASSUME NEW b \in DOMAIN s, NEW v, NEW ip, Block(s, b, v, ip) PROVE Block(t, b, v, ip)
  <2>1. b + 1 \in DOMAIN s /\ b + 2 \in DOMAIN s
    BY <1>1, <1>2 DEF Block
  <2>2. QED
    BY <1>1, <1>2, <2>1 DEF Block
<1>3. ASSUME NEW v \in VMs, NEW ip \in IPs \cup {None}, Shows(s, v, ip),
             \A i \in DOMAIN t \ DOMAIN s : t[i].of # v
      PROVE  Shows(t, v, ip)
  <2>1. CASE ip = None
    BY <1>1, <1>3, <2>1 DEF Shows
  <2>2. CASE ip # None
    <3>1. PICK b \in DOMAIN s :
             Block(s, b, v, ip) /\ \A i \in DOMAIN s : s[i].of = v => i \in b..(b + 2)
      BY <1>1, <1>3, <2>2 DEF Shows
    <3>2. b \in 1..Len(t) /\ Block(t, b, v, ip)
      BY <1>1, <1>2, <3>1
    <3>3. \A i \in DOMAIN t : t[i].of = v => i \in b..(b + 2)
      BY <1>1, <1>3, <3>1
    <3>4. QED
      BY <2>2, <3>2, <3>3 DEF Shows
  <2>3. QED
    BY <2>1, <2>2
<1>4. QED
  BY <1>2, <1>3

\* A new block at the end of a file that has none is the VM's one block.
LEMMA Rendering ==
    ASSUME NEW s \in Seq(AnyLine), Whole(s), NEW v \in VMs, NEW ip \in IPs, Shows(s, v, None)
    PROVE  LET t == s \o render(v, ip)
           IN  /\ t \in Seq(AnyLine) /\ Whole(t) /\ Shows(t, v, ip)
               /\ \A w \in VMs \ {v}, a \in IPs \cup {None} : Shows(s, w, a) => Shows(t, w, a)
               /\ \A lines : Holds(s, lines) => Holds(t, lines)
<1> DEFINE t == s \o render(v, ip)
           n == Len(s)
<1>1. n \in Nat /\ DOMAIN s = 1..n /\ s \in Seq(AnyLine)
  OBVIOUS
<1>2. render(v, ip) \in Seq(AnyLine) /\ Len(render(v, ip)) = 3
  BY LineKinds DEF render
<1>3. /\ t \in Seq(AnyLine) /\ DOMAIN t = 1..(n + 3) /\ Len(t) = n + 3
      /\ \A i \in DOMAIN s : t[i] = s[i]
  <2>1. t \in Seq(AnyLine)
    BY <1>1, <1>2
  <2>2. Len(t) = n + 3
    <3>1. \A r \in Seq(AnyLine) : Len(s \o r) = Len(s) + Len(r)
      OBVIOUS
    <3>2. QED
      BY <1>2, <3>1
  <2>3. \A i \in DOMAIN s : t[i] = s[i]
    BY <1>1, <1>2
  <2> HIDE DEF t
  <2>4. QED
    BY <2>1, <2>2, <2>3
<1>4. t[n + 1] = Begin(v) /\ t[n + 2] = Stanza(v, ip) /\ t[n + 3] = End(v)
  BY <1>1, <1>2 DEF render
<1> HIDE DEF t, n
<1>5. Block(t, n + 1, v, ip)
  BY <1>1, <1>3, <1>4 DEF Block
<1>6. \A i \in DOMAIN t \ DOMAIN s : i \in (n + 1)..(n + 3) /\ t[i].of = v /\ t[i].kind # "own"
  BY <1>1, <1>3, <1>4, LineKinds
<1>7. \A b \in DOMAIN s : \A w, a : Block(s, b, w, a) => Block(t, b, w, a)
  BY <1>1, <1>3, LongerFile DEF n
<1>8. Whole(t)
  <2>1. SUFFICES ASSUME NEW i \in DOMAIN t, t[i].kind # "own"
                 PROVE  \E b \in 1..i, a \in IPs : i <= b + 2 /\ Block(t, b, t[i].of, a)
    BY DEF Whole
  <2>2. CASE i \in DOMAIN s
    <3>1. PICK b \in 1..i, a \in IPs : i <= b + 2 /\ Block(s, b, s[i].of, a)
      BY <1>3, <2>1, <2>2 DEF Whole
    <3>2. b \in DOMAIN s
      BY <1>1, <2>2
    <3>3. QED
      BY <1>3, <1>7, <2>2, <3>1, <3>2
  <2>3. CASE i \notin DOMAIN s
    <3>1. n + 1 \in 1..i /\ i <= (n + 1) + 2 /\ t[i].of = v
      BY <1>1, <1>6, <2>1, <2>3
    <3>2. QED
      BY <1>5, <3>1
  <2>4. QED
    BY <2>2, <2>3
<1>9. Shows(t, v, ip)
  <2>1. \A i \in DOMAIN t : t[i].of = v => i \in (n + 1)..((n + 1) + 2)
    BY <1>1, <1>3, <1>6 DEF Shows
  <2>2. n + 1 \in 1..Len(t) /\ ip # None
    BY <1>1, <1>3, SshAssumption
  <2>3. QED
    BY <1>5, <2>1, <2>2 DEF Shows
<1>10. ASSUME NEW w \in VMs \ {v}, NEW a \in IPs \cup {None}, Shows(s, w, a) PROVE Shows(t, w, a)
  BY <1>1, <1>3, <1>6, <1>10, LongerFile DEF n
<1>11. ASSUME NEW lines, Holds(s, lines) PROVE Holds(t, lines)
  <2>1. ASSUME NEW o \in Own PROVE \A i \in DOMAIN t : t[i] = OwnLine(o) <=> i \in DOMAIN s /\ s[i] = OwnLine(o)
    BY <1>1, <1>3, <1>6, LineKinds
  <2>2. DOMAIN s \subseteq DOMAIN t
    BY <1>1, <1>3
  <2>3. QED
    BY <1>11, <2>1, <2>2 DEF Holds
<1>12. QED
  BY <1>3, <1>8, <1>9, <1>10, <1>11 DEF t

\* A line of the developer's added at the end.
LEMMA OwnAdded ==
    ASSUME NEW s \in Seq(AnyLine), NEW o \in Own, \A i \in DOMAIN s : s[i] # OwnLine(o)
    PROVE  LET t == Append(s, OwnLine(o))
           IN  /\ t \in Seq(AnyLine) /\ (Whole(s) => Whole(t))
               /\ \A v \in VMs, ip \in IPs \cup {None} : Shows(s, v, ip) => Shows(t, v, ip)
               /\ \A lines : Holds(s, lines) => Holds(t, lines \cup {o})
<1> DEFINE t == Append(s, OwnLine(o))
           n == Len(s)
<1>1. n \in Nat /\ DOMAIN s = 1..n /\ OwnLine(o) \in AnyLine
  BY LineKinds
<1>2. /\ t \in Seq(AnyLine) /\ DOMAIN t = 1..(n + 1) /\ Len(t) = n + 1
      /\ \A i \in DOMAIN s : t[i] = s[i]
      /\ t[n + 1] = OwnLine(o)
  BY <1>1
<1> HIDE DEF t, n
<1>3. \A i \in DOMAIN t \ DOMAIN s : i = n + 1
  BY <1>1, <1>2
<1>4. OwnLine(o).kind = "own" /\ OwnLine(o).of = o /\ o \notin VMs
  BY LineKinds, SshAssumption
<1>5. \A b \in DOMAIN s : \A w, a : Block(s, b, w, a) => Block(t, b, w, a)
  <2>1. Len(s) <= Len(t)
    BY <1>1, <1>2 DEF n
  <2>2. QED
    BY <1>2, <2>1, LongerFile
<1>6. ASSUME Whole(s) PROVE Whole(t)
  <2>1. SUFFICES ASSUME NEW i \in DOMAIN t, t[i].kind # "own"
                 PROVE  \E b \in 1..i, a \in IPs : i <= b + 2 /\ Block(t, b, t[i].of, a)
    BY DEF Whole
  <2>2. i \in DOMAIN s
    BY <1>2, <1>3, <1>4, <2>1
  <2>3. PICK b \in 1..i, a \in IPs : i <= b + 2 /\ Block(s, b, s[i].of, a)
    BY <1>2, <1>6, <2>1, <2>2 DEF Whole
  <2>4. b \in DOMAIN s
    BY <1>1, <2>2
  <2>5. QED
    BY <1>2, <1>5, <2>2, <2>3, <2>4
<1>7. ASSUME NEW w \in VMs, NEW a \in IPs \cup {None}, Shows(s, w, a) PROVE Shows(t, w, a)
  <2>1. \A i \in DOMAIN t \ DOMAIN s : t[i].of # w
    BY <1>2, <1>3, <1>4
  <2>2. Len(s) <= Len(t)
    BY <1>1, <1>2 DEF n
  <2>3. QED
    BY <1>2, <1>7, <2>1, <2>2, LongerFile
<1>8. ASSUME NEW lines, Holds(s, lines) PROVE Holds(t, lines \cup {o})
  <2>1. SUFFICES ASSUME NEW q \in Own
                 PROVE  /\ q \in lines \cup {o} <=> \E i \in DOMAIN t : t[i] = OwnLine(q)
                        /\ \A i, j \in DOMAIN t : t[i] = OwnLine(q) /\ t[j] = OwnLine(q) => i = j
    BY DEF Holds
  <2>2. DOMAIN s \subseteq DOMAIN t /\ n + 1 \in DOMAIN t
    BY <1>1, <1>2
  <2>3. CASE q = o
    <3>1. \A i \in DOMAIN t : t[i] = OwnLine(q) <=> i = n + 1
      BY <1>2, <1>3, <2>3
    <3>2. QED
      BY <2>2, <2>3, <3>1
  <2>4. CASE q # o
    <3>1. \A i \in DOMAIN t : t[i] = OwnLine(q) <=> i \in DOMAIN s /\ s[i] = OwnLine(q)
      BY <1>2, <1>3, <2>4, LineKinds
    <3>2. QED
      BY <1>8, <2>2, <2>4, <3>1 DEF Holds
  <2>5. QED
    BY <2>3, <2>4
<1>9. QED
  BY <1>2, <1>6, <1>7, <1>8 DEF t

\* A line of the developer's taken out.
LEMMA OwnTaken ==
    ASSUME NEW s \in Seq(AnyLine), NEW o \in Own
    PROVE  LET t == Lines(s, {i \in DOMAIN s : s[i] # OwnLine(o)})
           IN  /\ t \in Seq(AnyLine) /\ (Whole(s) => Whole(t))
               /\ Whole(s) => \A v \in VMs, ip \in IPs \cup {None} : Shows(s, v, ip) => Shows(t, v, ip)
               /\ \A lines : Holds(s, lines) => Holds(t, lines \ {o})
<1> DEFINE keep == {i \in DOMAIN s : s[i] # OwnLine(o)}
           t == Lines(s, keep)
<1>1. /\ t \in Seq(AnyLine)
      /\ \A i \in keep : Place(keep, i) \in DOMAIN t /\ t[Place(keep, i)] = s[i]
      /\ \A m \in DOMAIN t : \E i \in keep : m = Place(keep, i)
  <2>1. keep \in SUBSET DOMAIN s
    OBVIOUS
  <2> HIDE DEF keep
  <2>2. QED
    BY <2>1, LinesOf
<1>2. \A i \in DOMAIN s : s[i] \in AnyLine
  OBVIOUS
<1>3. \A i, j \in DOMAIN s : i \in keep /\ s[j].of = s[i].of => j \in keep
  <2>1. SUFFICES ASSUME NEW i \in DOMAIN s, NEW j \in DOMAIN s, s[j] = OwnLine(o), s[j].of = s[i].of
                 PROVE  s[i] = OwnLine(o)
    OBVIOUS
  <2>2. s[i].of = o /\ o \notin VMs
    BY <2>1, LineKinds, SshAssumption
  <2>3. QED
    BY <1>2, <2>2, LineKinds
<1>4. ASSUME NEW v \in VMs, NEW i \in DOMAIN s, s[i].of = v PROVE i \in keep
  BY <1>4, LineKinds, SshAssumption
<1>5. ASSUME Whole(s) PROVE Whole(t)
  BY <1>3, <1>5, KeptLines
<1>6. ASSUME Whole(s), NEW v \in VMs, NEW ip \in IPs \cup {None}, Shows(s, v, ip) PROVE Shows(t, v, ip)
  BY <1>3, <1>4, <1>6, KeptLines
<1>7. ASSUME NEW lines, Holds(s, lines) PROVE Holds(t, lines \ {o})
  <2>1. SUFFICES ASSUME NEW q \in Own
                 PROVE  /\ q \in lines \ {o} <=> \E i \in DOMAIN t : t[i] = OwnLine(q)
                        /\ \A i, j \in DOMAIN t : t[i] = OwnLine(q) /\ t[j] = OwnLine(q) => i = j
    BY DEF Holds
  <2>2. CASE q = o
    BY <1>1, <2>2
  <2>3. CASE q # o
    <3>1. \A i \in DOMAIN s : s[i] = OwnLine(q) => i \in keep
      BY <2>3, LineKinds
    <3>2. QED
      BY <1>7, <2>3, <3>1, KeptOwn DEF Holds
  <2>4. QED
    BY <2>2, <2>3
<1> HIDE DEF t
<1>8. QED
  BY <1>1, <1>5, <1>6, <1>7 DEF t

-----------------------------------------------------------------------------
(* The invariant.                                                          *)

\* A file and records not there yet.
LEMMA InitInv == Init => IInv
<1>1. SUFFICES ASSUME Init PROVE IInv
  OBVIOUS
<1>2. TypeOK
  <2>1. <<>> \in Seq(AnyLine)
    OBVIOUS
  <2>2. FileType
    BY <1>1, <2>1 DEF Init, FileType
  <2>3. RecordType
    BY <1>1 DEF Init, RecordType
  <2>4. RunType
    BY <1>1 DEF Init, RunType, NoJob
  <2>5. QED
    BY <2>2, <2>3, <2>4 DEF TypeOK
<1>3. StageInv
  BY <1>1 DEF Init, StageInv, NoJob, Writing
<1>4. /\ Whole(file) /\ \A o \in Own : o \notin own
      /\ \A i \in DOMAIN file : FALSE
  BY <1>1 DEF Init, Whole
<1>5. \A v \in VMs : Shows(file, v, latest[v])
  BY <1>1, <1>4 DEF Init, Shows
<1>6. Holds(file, own)
  BY <1>4 DEF Holds
<1>7. \A p \in Procs : ~ Writing(p) /\ pc[p] # "block" /\ drop[p] = {}
  BY <1>1 DEF Init, Writing
<1>8. \A v \in VMs : latest[v] = None
  BY <1>1 DEF Init
<1>9. ~ torn /\ ~ lost /\ \A p \in Procs : pc[p] # "write"
  BY <1>1 DEF Init
<1>10. QED
  BY <1>3, <1>2, <1>4, <1>5, <1>6, <1>7, <1>8, <1>9
     DEF IInv, WholeInv, LatestInv, WriterInv, DropInv, RecordInv

\* What a write leaves: its lines, and what others wrote behind them.
LEMMA Overwritten ==
    ASSUME TypeOK, NEW s \in Seq(AnyLine)
    PROVE  Over(s) \in Seq(AnyLine) /\ (file = <<>> => Over(s) = s)
<1>1. file \in Seq(AnyLine) /\ Len(s) \in Nat /\ Len(file) \in Nat
  BY DEF TypeOK, FileType
<1>2. SubSeq(file, Len(s) + 1, Len(file)) \in Seq(AnyLine)
  BY <1>1
<1>3. ASSUME file = <<>> PROVE Over(s) = s
  <2>1. SubSeq(file, Len(s) + 1, Len(file)) = <<>>
    BY <1>1, <1>3
  <2>2. s \o <<>> = s
    OBVIOUS
  <2>3. QED
    BY <2>1, <2>2 DEF Over
<1>4. QED
  BY <1>2, <1>3 DEF Over

\* What stripBlock leaves is a file.
LEMMA StripType ==
    ASSUME NEW s \in Seq(AnyLine), NEW v
    PROVE  stripBlock(s, v) \in Seq(AnyLine)
<1> DEFINE keep == {i \in DOMAIN s : ~ InBlock(s, v, i)}
<1>1. keep \in SUBSET DOMAIN s
  OBVIOUS
<1> HIDE DEF keep
<1>2. Lines(s, keep) \in Seq(AnyLine)
  BY <1>1, LinesOf
<1>3. QED
  BY <1>2 DEF keep, stripBlock

\* The stages of the runs, the records, and the file keep their types, and each
\* run its stage's work.
LEMMA StepRun ==
    ASSUME TypeOK, StageInv, [Next]_vars
    PROVE  RunType'
<1>1. /\ pc \in [Procs -> {"idle", "block", "strip", "open", "write"}]
      /\ job \in [Procs -> [vm : VMs \cup {None}, ip : IPs \cup {None}]]
      /\ \A p \in Procs : todo[p] \subseteq VMs
  BY DEF TypeOK, RunType, RecordType
<1>2. ASSUME NEW p \in Procs, NEW v \in VMs, job' = [job EXCEPT ![p].vm = v]
      PROVE  job' \in [Procs -> [vm : VMs \cup {None}, ip : IPs \cup {None}]]
  BY <1>1, <1>2
<1>3. ASSUME NEW p \in Procs, NEW ip \in IPs, job' = [job EXCEPT ![p].ip = ip]
      PROVE  job' \in [Procs -> [vm : VMs \cup {None}, ip : IPs \cup {None}]]
  BY <1>1, <1>3
<1>4. ASSUME NEW p \in Procs, job' = [job EXCEPT ![p] = NoJob]
      PROVE  job' \in [Procs -> [vm : VMs \cup {None}, ip : IPs \cup {None}]]
  BY <1>1, <1>4 DEF NoJob
<1>5. ASSUME NEW p \in Procs, NEW to \in {"idle", "block", "strip", "open", "write"}, Goto(p, to)
      PROVE  pc' \in [Procs -> {"idle", "block", "strip", "open", "write"}]
  BY <1>1, <1>5 DEF Goto
<1>6. ASSUME UNCHANGED vars PROVE RunType'
  BY <1>1, <1>6 DEF vars, RunType
<1>7. ASSUME NEW p \in Procs, NEW v \in VMs, Record(p, v) PROVE RunType'
  BY <1>2, <1>5, <1>7 DEF Record, RunType
<1>8. ASSUME NEW p \in Procs, NEW v \in VMs, RecordCut(p, v) PROVE RunType'
  BY <1>1, <1>8 DEF RecordCut, RunType
<1>9. ASSUME NEW p \in Procs, BeginRemove(p) \/ BeginUninstall(p) \/ BeginCreate(p) PROVE RunType'
  BY <1>1, <1>5, <1>9 DEF BeginRemove, BeginUninstall, BeginCreate, BeginStrip, RunType
<1>10. ASSUME NEW p \in Procs, NEW ip \in IPs, Write(p, ip) PROVE RunType'
  BY <1>3, <1>5, <1>10 DEF Write, Rewrite, RunType
<1>11. ASSUME NEW p \in Procs, Strip(p) PROVE RunType'
  <2>1. PICK v \in VMs : UNCHANGED <<pc, job>> \/ (Goto(p, "open") /\ job' = [job EXCEPT ![p].vm = v])
    BY <1>1, <1>11 DEF Strip, Rewrite
  <2>2. QED
    BY <1>1, <1>2, <1>5, <2>1 DEF RunType
<1>12. ASSUME NEW p \in Procs, StripFails(p) PROVE RunType'
  BY <1>1, <1>12 DEF StripFails, RunType
<1>13. ASSUME NEW p \in Procs, Forget(p) \/ Stop(p) PROVE RunType'
  BY <1>4, <1>5, <1>13 DEF Forget, Stop, Quit, RunType
<1>14. ASSUME NEW p \in Procs, Open(p) PROVE RunType'
  BY <1>1, <1>5, <1>14 DEF Open, RunType
<1>15. ASSUME NEW p \in Procs, Fill(p) PROVE RunType'
  BY <1>4, <1>5, <1>15 DEF Fill, Quit, RunType
<1>16. ASSUME NEW o \in Own, EditOwn(o) PROVE RunType'
  BY <1>1, <1>16 DEF EditOwn, RunType
<1>17. QED
  BY <1>6, <1>7, <1>8, <1>9, <1>10, <1>11, <1>12, <1>13, <1>14, <1>15, <1>16 DEF Next

LEMMA StepRecords ==
    ASSUME TypeOK, StageInv, [Next]_vars
    PROVE  RecordType'
<1>1. RecordType
  BY DEF TypeOK
<1> USE DEF RecordType
<1>2. ASSUME UNCHANGED records PROVE RecordType'
  BY <1>1, <1>2 DEF records
<1>3. ASSUME NEW p \in Procs, NEW v \in VMs, Record(p, v) PROVE RecordType'
  BY <1>1, <1>3 DEF Record, Meets
<1>4. ASSUME NEW p \in Procs, NEW v \in VMs, RecordCut(p, v) PROVE RecordType'
  BY <1>1, <1>4 DEF RecordCut
<1>5. ASSUME NEW p \in Procs, BeginRemove(p) \/ BeginUninstall(p) \/ BeginCreate(p) PROVE RecordType'
  <2>1. PICK strips \in SUBSET VMs, drops \in SUBSET VMs : BeginStrip(p, strips, drops)
    BY <1>5 DEF BeginRemove, BeginUninstall, BeginCreate, List
  <2>2. QED
    BY <1>1, <2>1 DEF BeginStrip
<1>6. ASSUME NEW p \in Procs, Strip(p) PROVE RecordType'
  BY <1>1, <1>6 DEF Strip, Stripped
<1>7. ASSUME NEW p \in Procs, StripFails(p) PROVE RecordType'
  BY <1>1, <1>7 DEF StripFails
<1>8. ASSUME NEW p \in Procs, Forget(p) PROVE RecordType'
  BY <1>1, <1>8 DEF Forget, Leaves, Quit
<1>9. ASSUME NEW p \in Procs, Fill(p) PROVE RecordType'
  BY <1>1, <1>9 DEF Fill, Meets, Stripped, Quit
<1>10. ASSUME NEW p \in Procs, Stop(p) PROVE RecordType'
  BY <1>1, <1>10 DEF Stop, Quit
<1>11. ASSUME \/ \E p \in Procs : Open(p) \/ \E ip \in IPs : Write(p, ip)
              \/ \E o \in Own : EditOwn(o)
              \/ UNCHANGED vars
       PROVE  RecordType'
  BY <1>2, <1>11 DEF Open, Write, EditOwn, vars
<1>12. QED
  BY <1>3, <1>4, <1>5, <1>6, <1>7, <1>8, <1>9, <1>10, <1>11 DEF Next

LEMMA StepFile ==
    ASSUME TypeOK, StageInv, [Next]_vars
    PROVE  FileType'
<1>1. FileType
  BY DEF TypeOK
<1>2. ASSUME UNCHANGED sshfile PROVE FileType'
  BY <1>1, <1>2 DEF sshfile, FileType
<1>3. ASSUME NEW p \in Procs, NEW content \in Seq(AnyLine), Rewrite(p, content) PROVE FileType'
  BY <1>1, <1>3 DEF Rewrite, FileType
<1>4. ASSUME NEW p \in Procs, NEW ip \in IPs, Write(p, ip) PROVE FileType'
  <2>1. job[p].vm \in VMs
    BY <1>4 DEF Write, StageInv
  <2>2. render(job[p].vm, ip) \in Seq(AnyLine)
    BY <2>1, LineKinds DEF render
  <2>3. stripBlock(file, job[p].vm) \in Seq(AnyLine)
    BY <1>1, StripType DEF FileType
  <2>4. stripBlock(file, job[p].vm) \o render(job[p].vm, ip) \in Seq(AnyLine)
    BY <2>2, <2>3
  <2>5. QED
    BY <1>3, <1>4, <2>4 DEF Write
<1>5. ASSUME NEW p \in Procs, Strip(p) PROVE FileType'
  <2>1. PICK v : UNCHANGED sshfile \/ Rewrite(p, stripBlock(file, v))
    BY <1>5 DEF Strip
  <2>2. stripBlock(file, v) \in Seq(AnyLine)
    BY <1>1, StripType DEF FileType
  <2>3. QED
    BY <1>2, <1>3, <2>1, <2>2
<1>6. ASSUME NEW p \in Procs, Changed(p) PROVE stale' \in [Procs -> BOOLEAN]
  BY <1>1, <1>6 DEF Changed, FileType
<1>7. ASSUME NEW p \in Procs, Open(p) PROVE FileType'
  BY <1>1, <1>6, <1>7 DEF Open, FileType
<1>8. ASSUME NEW p \in Procs, Fill(p) PROVE FileType'
  <2>1. Over(buf[p]) \in Seq(AnyLine)
    BY <1>1, Overwritten DEF FileType
  <2>2. job[p].vm \in VMs /\ job[p].ip \in IPs \cup {None}
    BY <1>8 DEF Fill, StageInv, Writing, TypeOK, RunType, RecordType
  <2>3. latest' \in [VMs -> IPs \cup {None}]
    BY <1>1, <1>8, <2>2 DEF Fill, FileType
  <2>4. torn' \in BOOLEAN /\ lost' \in BOOLEAN
    BY <1>1, <1>8 DEF Fill, Overlaps, FileType
  <2>5. QED
    BY <1>1, <1>6, <1>8, <2>1, <2>3, <2>4 DEF Fill, FileType
<1>9. ASSUME NEW p \in Procs, Stop(p) PROVE FileType'
  <2>1. buf[p] \in Seq(AnyLine)
    BY <1>1, <1>9 DEF FileType
  <2>2. ASSUME NEW n \in 0..(Len(buf[p]) - 1) PROVE Over(SubSeq(buf[p], 1, n)) \in Seq(AnyLine)
    <3>1. SubSeq(buf[p], 1, n) \in Seq(AnyLine)
      BY <2>1
    <3>2. QED
      BY <3>1, Overwritten
  <2>3. file' \in Seq(AnyLine) /\ torn' \in BOOLEAN /\ lost' \in BOOLEAN
    BY <1>1, <1>9, <2>2 DEF Stop, FileType
  <2>4. stale' \in [Procs -> BOOLEAN]
    BY <1>1, <1>6, <1>9 DEF Stop, FileType
  <2>5. buf' \in [Procs -> Seq(AnyLine)]
    BY <1>1, <1>9 DEF Stop, FileType
  <2>6. UNCHANGED <<latest, own>>
    BY <1>9 DEF Stop
  <2>7. QED
    BY <1>1, <2>3, <2>4, <2>5, <2>6 DEF FileType
<1>10. ASSUME NEW o \in Own, EditOwn(o) PROVE FileType'
  <2>1. CASE \E i \in DOMAIN file : file[i] = OwnLine(o)
    <3>1. file' \in Seq(AnyLine) /\ own' \subseteq Own
      BY <1>1, <1>10, <2>1, OwnTaken DEF EditOwn, FileType
    <3>2. QED
      BY <1>1, <1>10, <3>1 DEF EditOwn, FileType
  <2>2. CASE ~ \E i \in DOMAIN file : file[i] = OwnLine(o)
    <3>1. OwnLine(o) \in AnyLine /\ file \in Seq(AnyLine)
      BY <1>1, LineKinds DEF FileType
    <3>2. file' = Append(file, OwnLine(o)) /\ own' = own \cup {o}
      BY <1>10, <2>2 DEF EditOwn
    <3>3. file' \in Seq(AnyLine)
      BY <3>1, <3>2
    <3>4. own' \subseteq Own
      BY <1>1, <3>2 DEF FileType
    <3>5. QED
      BY <1>1, <1>10, <3>3, <3>4 DEF EditOwn, FileType
  <2>3. QED
    BY <2>1, <2>2
<1>11. ASSUME \/ \E p \in Procs :
                    \/ \E v \in VMs : Record(p, v) \/ RecordCut(p, v)
                    \/ BeginRemove(p) \/ BeginUninstall(p) \/ BeginCreate(p)
                    \/ StripFails(p) \/ Forget(p)
              \/ UNCHANGED vars
       PROVE  FileType'
  BY <1>2, <1>11
     DEF Record, RecordCut, BeginRemove, BeginUninstall, BeginCreate, BeginStrip, StripFails, Forget, vars
<1>12. QED
  BY <1>4, <1>5, <1>7, <1>8, <1>9, <1>10, <1>11 DEF Next

LEMMA StepStage ==
    ASSUME TypeOK, StageInv, [Next]_vars
    PROVE  StageInv'
<1>1. /\ pc \in [Procs -> {"idle", "block", "strip", "open", "write"}]
      /\ job \in [Procs -> [vm : VMs \cup {None}, ip : IPs \cup {None}]]
      /\ todo \in [Procs -> SUBSET VMs] /\ drop \in [Procs -> SUBSET VMs]
  BY DEF TypeOK, RunType, RecordType
<1> USE DEF StageInv, Writing
<1>2. ASSUME UNCHANGED <<pc, job, drop>>,
             NEW p \in Procs, NEW vs, todo' = [todo EXCEPT ![p] = @ \ vs] \/ UNCHANGED todo,
             pc[p] = "strip"
      PROVE  StageInv'
  BY <1>1, <1>2
<1>3. ASSUME UNCHANGED <<pc, job, drop, todo>> PROVE StageInv'
  BY <1>1, <1>3
<1>4. ASSUME NEW p \in Procs, Quit(p) PROVE StageInv'
  BY <1>1, <1>4, SshAssumption DEF Quit, Goto, NoJob
<1>5. ASSUME NEW p \in Procs, NEW v \in VMs, Record(p, v) PROVE StageInv'
  BY <1>1, <1>5 DEF Record, Goto
<1>6. ASSUME NEW p \in Procs, BeginRemove(p) \/ BeginUninstall(p) \/ BeginCreate(p) PROVE StageInv'
  <2>1. PICK strips \in SUBSET VMs, drops \in SUBSET VMs :
           BeginStrip(p, strips, drops) /\ strips \subseteq drops
    <3>1. CASE BeginRemove(p)
      BY <3>1 DEF BeginRemove
    <3>2. CASE BeginUninstall(p)
      BY <3>2 DEF BeginUninstall, List
    <3>3. CASE BeginCreate(p)
      BY <3>3 DEF BeginCreate
    <3>4. QED
      BY <1>6, <3>1, <3>2, <3>3
  <2>2. QED
    BY <1>1, <2>1 DEF BeginStrip, Goto
<1>7. ASSUME NEW p \in Procs, NEW ip \in IPs, Write(p, ip) PROVE StageInv'
  BY <1>1, <1>7, SshAssumption DEF Write, Rewrite, Goto, records
<1>8. ASSUME NEW p \in Procs, Strip(p) PROVE StageInv'
  <2>1. PICK v \in todo[p] :
           /\ pc[p] = "strip" /\ drop' = drop /\ todo' = [todo EXCEPT ![p] = @ \ {v}]
           /\ UNCHANGED <<pc, job>> \/ (Goto(p, "open") /\ job' = [job EXCEPT ![p].vm = v])
    BY <1>8 DEF Strip, Rewrite
  <2>2. CASE UNCHANGED <<pc, job>>
    BY <1>2, <2>1, <2>2
  <2>3. CASE Goto(p, "open") /\ job' = [job EXCEPT ![p].vm = v]
    BY <1>1, <2>1, <2>3 DEF Goto, NoJob
  <2>4. QED
    BY <2>1, <2>2, <2>3
<1>9. ASSUME NEW p \in Procs, StripFails(p) PROVE StageInv'
  <2>1. PICK v \in todo[p] : todo' = [todo EXCEPT ![p] = @ \ {v}]
    BY <1>9 DEF StripFails
  <2>2. QED
    BY <1>2, <1>9, <2>1 DEF StripFails
<1>10. ASSUME NEW p \in Procs, Forget(p) \/ Stop(p) PROVE StageInv'
  BY <1>4, <1>10 DEF Forget, Stop
<1>11. ASSUME NEW p \in Procs, Open(p) PROVE StageInv'
  BY <1>1, <1>11 DEF Open, Goto, records
<1>12. ASSUME NEW p \in Procs, Fill(p) PROVE StageInv'
  <2>1. CASE drop[p] = {}
    BY <1>4, <1>12, <2>1 DEF Fill
  <2>2. CASE drop[p] # {}
    BY <1>1, <1>12, <2>2, SshAssumption DEF Fill, Goto, NoJob
  <2>3. QED
    BY <2>1, <2>2
<1>13. ASSUME \/ \E p \in Procs, v \in VMs : RecordCut(p, v)
              \/ \E o \in Own : EditOwn(o)
              \/ UNCHANGED vars
       PROVE  StageInv'
  BY <1>3, <1>13 DEF RecordCut, EditOwn, vars, records
<1>14. QED
  BY <1>5, <1>6, <1>7, <1>8, <1>9, <1>10, <1>11, <1>12, <1>13 DEF Next

\* The steps that neither touch the file nor set out to.
Aside ==
    /\ UNCHANGED sshfile
    /\ pc' \in [Procs -> {"idle", "block", "strip", "open", "write"}]
    /\ \A p \in Procs : pc'[p] \in {"open", "write"} \/ pc[p] \in {"open", "write"} =>
           pc'[p] = pc[p] /\ job'[p] = job[p]

\* Such are the steps that only records and stages take part in.
LEMMA AsideSteps ==
    ASSUME TypeOK, NEW p \in Procs,
           \/ \E v \in VMs : Record(p, v) \/ RecordCut(p, v)
           \/ BeginRemove(p) \/ BeginUninstall(p) \/ BeginCreate(p)
           \/ StripFails(p) \/ Forget(p)
    PROVE  Aside
<1>1. /\ pc \in [Procs -> {"idle", "block", "strip", "open", "write"}]
      /\ job \in [Procs -> [vm : VMs \cup {None}, ip : IPs \cup {None}]]
  BY DEF TypeOK, RunType
<1>2. ASSUME UNCHANGED sshfile, pc[p] \in {"idle", "block", "strip"},
             NEW to \in {"idle", "block", "strip"}, Goto(p, to) \/ UNCHANGED pc,
             NEW j, job' = [job EXCEPT ![p] = j] \/ UNCHANGED job
      PROVE  Aside
  BY <1>1, <1>2 DEF Aside, Goto
<1>3. ASSUME NEW v \in VMs, Record(p, v) PROVE Aside
  <2>1. UNCHANGED sshfile /\ Goto(p, "block") /\ pc[p] = "idle"
    BY <1>3 DEF Record
  <2>2. job' = [job EXCEPT ![p] = [job[p] EXCEPT !.vm = v]]
    BY <1>3 DEF Record
  <2>3. QED
    BY <1>2, <2>1, <2>2
<1>4. ASSUME NEW v \in VMs, RecordCut(p, v) PROVE Aside
  BY <1>1, <1>4 DEF RecordCut, Aside
<1>5. ASSUME BeginRemove(p) \/ BeginUninstall(p) \/ BeginCreate(p) PROVE Aside
  <2>1. pc[p] = "idle" /\ Goto(p, "strip") /\ UNCHANGED <<sshfile, job>>
    BY <1>5 DEF BeginRemove, BeginUninstall, BeginCreate, BeginStrip
  <2>2. QED
    BY <1>2, <2>1
<1>6. ASSUME StripFails(p) PROVE Aside
  BY <1>1, <1>6 DEF StripFails, Aside
<1>7. ASSUME Forget(p) PROVE Aside
  <2>1. pc[p] = "strip" /\ Goto(p, "idle") /\ job' = [job EXCEPT ![p] = NoJob] /\ UNCHANGED sshfile
    BY <1>7 DEF Forget, Quit
  <2>2. QED
    BY <1>2, <2>1
<1>8. QED
  BY <1>3, <1>4, <1>5, <1>6, <1>7

\* What adopt and start are about to write.
LEMMA Rewritten ==
    ASSUME TypeOK, StageInv, NEW p \in Procs, NEW ip \in IPs, Write(p, ip)
    PROVE  /\ job[p].vm \in VMs /\ pc[p] = "block"
           /\ job' = [job EXCEPT ![p].ip = ip]
           /\ Rewrite(p, stripBlock(file, job[p].vm) \o render(job[p].vm, ip))
BY DEF Write, StageInv

\* What remove and uninstall do with the block of a VM.
LEMMA StripLatest ==
    ASSUME TypeOK, StageInv, NEW p \in Procs, Strip(p)
    PROVE  /\ pc[p] = "strip" /\ job[p] = NoJob
           /\ \E v \in todo[p] :
                 /\ v \in VMs /\ todo' = [todo EXCEPT ![p] = @ \ {v}]
                 /\ \/ /\ stripBlock(file, v) = file
                       /\ Stripped(p, v) /\ UNCHANGED <<sshfile, pc, job>>
                    \/ /\ Rewrite(p, stripBlock(file, v))
                       /\ job' = [job EXCEPT ![p].vm = v]
                       /\ UNCHANGED <<met, adrift>>
<1>1. pc[p] = "strip" /\ job[p] = NoJob
  BY DEF Strip, StageInv
<1>2. todo[p] \subseteq VMs
  BY DEF TypeOK, RecordType
<1>3. QED
  BY <1>1, <1>2 DEF Strip

\* A whole file stays whole: stripped, with a new block, or edited by hand.
LEMMA StepWhole ==
    ASSUME TypeOK, StageInv, WholeInv, [Next]_vars
    PROVE  WholeInv'
<1>1. /\ pc \in [Procs -> {"idle", "block", "strip", "open", "write"}]
      /\ job \in [Procs -> [vm : VMs \cup {None}, ip : IPs \cup {None}]]
      /\ file \in Seq(AnyLine) /\ buf \in [Procs -> Seq(AnyLine)]
  BY DEF TypeOK, RunType, FileType
<1> USE DEF Writing
<1>2. ASSUME UNCHANGED <<file, buf, torn>>,
             \A p \in Procs : pc'[p] \in {"open", "write"} => pc'[p] = pc[p]
      PROVE  WholeInv'
  BY <1>2 DEF WholeInv
<1>3. ASSUME NEW p \in Procs, NEW content, Rewrite(p, content), ~ torn => Whole(content),
             pc[p] \notin {"open", "write"}
      PROVE  WholeInv'
  BY <1>1, <1>3 DEF WholeInv, Rewrite, Goto
<1>4. ASSUME NEW p \in Procs, NEW ip \in IPs, Write(p, ip) PROVE WholeInv'
  <2>1. ~ torn => Whole(stripBlock(file, job[p].vm) \o render(job[p].vm, ip))
    BY <1>1, <1>4, Rewritten, Stripping, Rendering DEF WholeInv
  <2>2. QED
    BY <1>3, <1>4, <2>1, Rewritten
<1>5. ASSUME NEW p \in Procs, Strip(p) PROVE WholeInv'
  <2>1. PICK v \in VMs : UNCHANGED <<sshfile, pc>> \/ Rewrite(p, stripBlock(file, v))
    BY <1>5, StripLatest
  <2>2. ~ torn => Whole(stripBlock(file, v))
    BY <1>1, Stripping DEF WholeInv
  <2>3. CASE UNCHANGED <<sshfile, pc>>
    BY <1>2, <2>3 DEF sshfile
  <2>4. CASE Rewrite(p, stripBlock(file, v))
    BY <1>3, <1>5, <2>2, <2>4, StripLatest
  <2>5. QED
    BY <2>1, <2>3, <2>4
<1>6. Whole(<<>>)
  BY DEF Whole
<1>7. ASSUME NEW p \in Procs, Open(p) PROVE WholeInv'
  BY <1>1, <1>6, <1>7 DEF Open, WholeInv, Goto
<1>8. ASSUME NEW p \in Procs, Fill(p) PROVE WholeInv'
  <2>1. SUFFICES ASSUME ~ torn' PROVE WholeInv'
    BY DEF WholeInv
  <2>2. ~ torn /\ file = <<>> /\ \A q \in Procs \ {p} : pc[q] # "write"
    BY <1>8, <2>1 DEF Fill, Overlaps
  <2>3. file' = buf[p]
    BY <1>1, <1>8, <2>2, Overwritten DEF Fill
  <2>4. \E to \in {"idle", "strip"} : pc' = [pc EXCEPT ![p] = to]
    BY <1>8 DEF Fill, Quit, Goto
  <2>5. Whole(buf[p])
    BY <1>8, <2>2 DEF Fill, WholeInv
  <2>6. \A q \in Procs \ {p} : buf'[q] = buf[q]
    BY <1>1, <1>8 DEF Fill
  <2>7. QED
    BY <1>1, <2>2, <2>3, <2>4, <2>5, <2>6 DEF WholeInv
<1>9. ASSUME NEW p \in Procs, Stop(p) PROVE WholeInv'
  <2>1. CASE pc[p] = "write"
    BY <1>9, <2>1 DEF Stop, WholeInv
  <2>2. CASE pc[p] # "write"
    BY <1>1, <1>9, <2>2 DEF Stop, Quit, Goto, WholeInv
  <2>3. QED
    BY <2>1, <2>2
<1>10. ASSUME NEW o \in Own, EditOwn(o) PROVE WholeInv'
  <2>1. ~ torn => Whole(file')
    <3>1. CASE \E i \in DOMAIN file : file[i] = OwnLine(o)
      BY <1>1, <1>10, <3>1, OwnTaken DEF EditOwn, WholeInv
    <3>2. CASE ~ \E i \in DOMAIN file : file[i] = OwnLine(o)
      BY <1>1, <1>10, <3>2, OwnAdded DEF EditOwn, WholeInv
    <3>3. QED
      BY <3>1, <3>2
  <2>2. QED
    BY <1>10, <2>1 DEF EditOwn, WholeInv
<1>11. ASSUME Aside PROVE WholeInv'
  BY <1>2, <1>11 DEF Aside, sshfile
<1>12. ASSUME UNCHANGED vars PROVE WholeInv'
  BY <1>2, <1>12 DEF vars, sshfile
<1>13. QED
  BY <1>4, <1>5, <1>7, <1>8, <1>9, <1>10, <1>11, <1>12, AsideSteps DEF Next

\* What p is about to write is right, if nobody comes between.
WillShow(p) ==
    /\ Holds(buf[p], own)
    /\ \A v \in VMs : Shows(buf[p], v, IF v = job[p].vm THEN job[p].ip ELSE latest[v])

\* LatestInv, in these words.
LEMMA LatestParts ==
    LatestInv <=>
        /\ torn => lost
        /\ ~ lost =>
              /\ AtRest => Holds(file, own) /\ \A v \in VMs : Shows(file, v, latest[v])
              /\ \A p \in Procs :
                    /\ Writing(p) /\ ~ stale[p]
                    /\ \A q \in Procs \ {p} : pc[q] # "write"
                    => WillShow(p)
BY DEF LatestInv, WillShow

\* A run that sets out to write what the file at rest should become.
LEMMA RewriteLatest ==
    ASSUME TypeOK, LatestInv, NEW p \in Procs, NEW content \in Seq(AnyLine), Rewrite(p, content),
           pc[p] \notin {"open", "write"}, NEW v \in VMs, NEW ip \in IPs \cup {None},
           job' = [job EXCEPT ![p] = [vm |-> v, ip |-> ip]],
           ~ lost /\ AtRest =>
               /\ Holds(content, own) /\ Shows(content, v, ip)
               /\ \A w \in VMs \ {v} : Shows(content, w, latest[w])
    PROVE  LatestInv'
<1>1. /\ pc \in [Procs -> {"idle", "block", "strip", "open", "write"}]
      /\ job \in [Procs -> [vm : VMs \cup {None}, ip : IPs \cup {None}]]
      /\ buf \in [Procs -> Seq(AnyLine)] /\ stale \in [Procs -> BOOLEAN]
  BY DEF TypeOK, RunType, FileType
<1>2. /\ UNCHANGED <<file, latest, own, torn, lost>>
      /\ pc' = [pc EXCEPT ![p] = "open"] /\ buf' = [buf EXCEPT ![p] = content]
      /\ stale' = [stale EXCEPT ![p] = FALSE]
  BY DEF Rewrite, Goto
<1>3. \A q \in Procs : pc'[q] = "write" <=> pc[q] = "write"
  BY <1>1, <1>2
<1>4. AtRest' <=> AtRest
  BY <1>3 DEF AtRest
<1>5. SUFFICES ASSUME ~ lost PROVE LatestInv'
  BY <1>2 DEF LatestInv
<1>6. ASSUME NEW q \in Procs, Writing(q)', ~ stale'[q], \A r \in Procs \ {q} : pc'[r] # "write"
      PROVE  WillShow(q)'
  <2>1. CASE q = p
    <3>1. AtRest
      BY <1>1, <1>2, <1>3, <1>6, <2>1 DEF AtRest
    <3>2. buf'[p] = content /\ job'[p].vm = v /\ job'[p].ip = ip
      BY <1>1, <1>2
    <3>3. \A w \in VMs : Shows(content, w, IF w = v THEN ip ELSE latest[w])
      BY <1>5, <3>1
    <3>4. QED
      BY <1>2, <1>5, <2>1, <3>1, <3>2, <3>3 DEF WillShow
  <2>2. CASE q # p
    <3>1. pc'[q] = pc[q] /\ buf'[q] = buf[q] /\ stale'[q] = stale[q] /\ job'[q] = job[q]
      BY <1>1, <1>2, <2>2
    <3>2. WillShow(q)
      BY <1>3, <1>5, <1>6, <3>1, LatestParts DEF Writing
    <3>3. QED
      BY <1>2, <3>1, <3>2 DEF WillShow
  <2>3. QED
    BY <2>1, <2>2
<1>7. QED
  BY <1>2, <1>4, <1>5, <1>6 DEF LatestInv, WillShow

\* What an undisturbed run read, and writes, shows what was written last.
LEMMA StepLatest ==
    ASSUME TypeOK, StageInv, WholeInv, LatestInv, [Next]_vars
    PROVE  LatestInv'
<1>1. /\ pc \in [Procs -> {"idle", "block", "strip", "open", "write"}]
      /\ job \in [Procs -> [vm : VMs \cup {None}, ip : IPs \cup {None}]]
      /\ file \in Seq(AnyLine) /\ buf \in [Procs -> Seq(AnyLine)]
      /\ latest \in [VMs -> IPs \cup {None}] /\ stale \in [Procs -> BOOLEAN]
  BY DEF TypeOK, RunType, FileType
<1>2. torn => lost
  BY DEF LatestInv
<1>3. ASSUME UNCHANGED sshfile,
             \A p \in Procs :
                 pc'[p] \in {"open", "write"} \/ pc[p] \in {"open", "write"} =>
                     pc'[p] = pc[p] /\ job'[p] = job[p]
      PROVE  LatestInv'
  <2>1. \A p \in Procs : pc'[p] = "write" <=> pc[p] = "write"
    BY <1>3
  <2>2. AtRest' <=> AtRest
    BY <2>1 DEF AtRest
  <2>3. \A p \in Procs : Writing(p)' => Writing(p) /\ job'[p] = job[p]
    BY <1>3 DEF Writing
  <2>4. QED
    BY <1>3, <2>1, <2>2, <2>3 DEF LatestInv, sshfile
<1>4. ASSUME NEW p \in Procs, NEW ip \in IPs, Write(p, ip) PROVE LatestInv'
  <2> DEFINE v == job[p].vm
             content == stripBlock(file, v) \o render(v, ip)
  <2>1. v \in VMs /\ Rewrite(p, content) /\ pc[p] = "block"
    BY <1>4, Rewritten
  <2>2. job' = [job EXCEPT ![p] = [vm |-> v, ip |-> ip]]
    BY <1>1, <1>4, Rewritten
  <2>3. content \in Seq(AnyLine)
    <3>1. render(v, ip) \in Seq(AnyLine)
      BY <2>1, LineKinds DEF render
    <3>2. stripBlock(file, v) \in Seq(AnyLine)
      BY <1>1, StripType
    <3>3. QED
      BY <3>1, <3>2
  <2>4. ASSUME ~ lost, AtRest
        PROVE  /\ Holds(content, own) /\ Shows(content, v, ip)
               /\ \A w \in VMs \ {v} : Shows(content, w, latest[w])
    <3>1. Whole(file) /\ Holds(file, own) /\ \A w \in VMs : Shows(file, w, latest[w])
      BY <1>2, <2>4 DEF WholeInv, LatestInv
    <3>2. /\ stripBlock(file, v) \in Seq(AnyLine) /\ Whole(stripBlock(file, v))
          /\ Shows(stripBlock(file, v), v, None) /\ Holds(stripBlock(file, v), own)
          /\ \A w \in VMs \ {v} : Shows(stripBlock(file, v), w, latest[w])
      BY <1>1, <2>1, <3>1, Stripping
    <3>3. QED
      BY <1>1, <2>1, <3>2, Rendering
  <2> HIDE DEF v, content
  <2>5. QED
    BY <2>1, <2>2, <2>3, <2>4, RewriteLatest
<1>5. ASSUME NEW p \in Procs, Strip(p) PROVE LatestInv'
  <2>1. pc[p] = "strip" /\ job[p] = NoJob
    BY <1>5, StripLatest
  <2>2. PICK v \in VMs : \/ UNCHANGED <<sshfile, pc, job>>
                         \/ Rewrite(p, stripBlock(file, v)) /\ job' = [job EXCEPT ![p].vm = v]
    BY <1>5, StripLatest
  <2>3. CASE UNCHANGED <<sshfile, pc, job>>
    BY <1>3, <2>3
  <2>4. CASE Rewrite(p, stripBlock(file, v)) /\ job' = [job EXCEPT ![p].vm = v]
    <3>1. job' = [job EXCEPT ![p] = [vm |-> v, ip |-> None]]
      <4>1. job' = [job EXCEPT ![p] = [job[p] EXCEPT !.vm = v]]
        BY <2>4
      <4>2. [job[p] EXCEPT !.vm = v] = [vm |-> v, ip |-> None]
        BY <2>1 DEF NoJob
      <4>3. QED
        BY <4>1, <4>2
    <3>2. stripBlock(file, v) \in Seq(AnyLine)
      BY <1>1, StripType
    <3>3. ASSUME ~ lost, AtRest
          PROVE  /\ Holds(stripBlock(file, v), own) /\ Shows(stripBlock(file, v), v, None)
                 /\ \A w \in VMs \ {v} : Shows(stripBlock(file, v), w, latest[w])
      <4>1. Whole(file) /\ Holds(file, own) /\ \A w \in VMs : Shows(file, w, latest[w])
        BY <1>2, <3>3 DEF WholeInv, LatestInv
      <4>2. QED
        BY <1>1, <4>1, Stripping
    <3>4. QED
      BY <2>1, <2>4, <3>1, <3>2, <3>3, RewriteLatest
  <2>5. QED
    BY <2>2, <2>3, <2>4
<1>6. ASSUME NEW p \in Procs, Open(p) PROVE LatestInv'
  <2>1. /\ pc[p] = "open" /\ pc' = [pc EXCEPT ![p] = "write"]
        /\ UNCHANGED <<job, buf, latest, own, torn, lost>>
        /\ stale' = [q \in Procs |-> IF q = p THEN stale[q] /\ pc[q] = "open"
                                     ELSE stale[q] \/ pc[q] \in {"open", "write"}]
    BY <1>6 DEF Open, Changed, Goto
  <2>2. ~ AtRest'
    BY <1>1, <2>1 DEF AtRest
  <2>3. ASSUME ~ lost, NEW q \in Procs, Writing(q)', ~ stale'[q], \A r \in Procs \ {q} : pc'[r] # "write"
        PROVE  WillShow(q)'
    <3>1. q = p
      BY <1>1, <2>1, <2>3
    <3>2. Writing(p) /\ ~ stale[p] /\ \A r \in Procs \ {p} : pc[r] # "write"
      BY <1>1, <2>1, <2>3, <3>1 DEF Writing
    <3>3. WillShow(p)
      BY <2>3, <3>2, LatestParts
    <3>4. QED
      BY <2>1, <3>1, <3>3 DEF WillShow
  <2>4. QED
    BY <1>2, <2>1, <2>2, <2>3 DEF LatestInv, WillShow
<1>7. ASSUME NEW p \in Procs, Fill(p) PROVE LatestInv'
  <2>1. /\ pc[p] = "write" /\ own' = own
        /\ stale' = [q \in Procs |-> IF q = p THEN stale[q] /\ pc[q] = "open"
                                     ELSE stale[q] \/ pc[q] \in {"open", "write"}]
        /\ latest' = [latest EXCEPT ![job[p].vm] = job[p].ip]
    BY <1>7 DEF Fill, Changed
  <2>2. \E to \in {"idle", "strip"} : pc' = [pc EXCEPT ![p] = to]
    BY <1>7 DEF Fill, Quit, Goto
  <2>3. torn' => lost'
    BY <1>2, <1>7 DEF Fill
  <2>4. SUFFICES ASSUME ~ lost' PROVE LatestInv'
    BY <2>3 DEF LatestInv
  <2>5. ~ lost /\ ~ stale[p] /\ file = <<>> /\ \A q \in Procs \ {p} : pc[q] # "write"
    BY <1>7, <2>4 DEF Fill, Overlaps
  <2>6. file' = buf[p]
    BY <1>1, <1>7, <2>5, Overwritten DEF Fill
  <2>7. WillShow(p)
    BY <2>1, <2>5, LatestParts DEF Writing
  <2>8. Holds(file, own)' /\ \A v \in VMs : Shows(file', v, latest'[v])
    BY <1>1, <2>1, <2>6, <2>7 DEF WillShow
  <2>9. ASSUME NEW q \in Procs, Writing(q)' PROVE stale'[q]
    BY <1>1, <2>1, <2>2, <2>9 DEF Writing
  <2>10. QED
    BY <2>3, <2>8, <2>9 DEF LatestInv
<1>8. ASSUME NEW p \in Procs, Stop(p) PROVE LatestInv'
  <2>1. CASE pc[p] = "write"
    BY <1>8, <2>1 DEF Stop, LatestInv
  <2>2. CASE pc[p] # "write"
    <3>1. /\ UNCHANGED <<file, torn, lost, latest, own>>
          /\ pc' = [pc EXCEPT ![p] = "idle"] /\ job' = [job EXCEPT ![p] = NoJob]
          /\ buf' = [buf EXCEPT ![p] = <<>>] /\ stale' = [stale EXCEPT ![p] = FALSE]
      BY <1>8, <2>2 DEF Stop, Quit, Goto
    <3>2. \A q \in Procs : pc'[q] = "write" <=> pc[q] = "write"
      BY <1>1, <2>2, <3>1
    <3>3. AtRest' <=> AtRest
      BY <3>2 DEF AtRest
    <3>4. ASSUME NEW q \in Procs, Writing(q)'
          PROVE  /\ Writing(q) /\ buf'[q] = buf[q] /\ stale'[q] = stale[q] /\ job'[q] = job[q]
      BY <1>1, <3>1, <3>4 DEF Writing
    <3>5. ASSUME ~ lost, NEW q \in Procs, Writing(q)', ~ stale'[q],
                 \A r \in Procs \ {q} : pc'[r] # "write"
          PROVE  WillShow(q)'
      <4>1. WillShow(q)
        BY <3>2, <3>4, <3>5, LatestParts
      <4>2. QED
        BY <3>1, <3>4, <3>5, <4>1 DEF WillShow
    <3>6. QED
      BY <1>2, <3>1, <3>3, <3>5 DEF LatestInv, WillShow
  <2>3. QED
    BY <2>1, <2>2
<1>9. ASSUME NEW o \in Own, EditOwn(o) PROVE LatestInv'
  <2>1. /\ AtRest /\ stale' = [p \in Procs |-> pc[p] = "open"]
        /\ UNCHANGED <<pc, job, buf, latest, torn, lost>>
    BY <1>9 DEF EditOwn, AtRest
  <2>2. ASSUME ~ lost PROVE Holds(file, own)' /\ \A v \in VMs : Shows(file', v, latest[v])
    <3>1. Whole(file) /\ Holds(file, own) /\ \A v \in VMs : Shows(file, v, latest[v])
      BY <1>2, <2>1, <2>2 DEF WholeInv, LatestInv
    <3>2. CASE \E i \in DOMAIN file : file[i] = OwnLine(o)
      <4>1. own' = own \ {o} /\ file' = Lines(file, {i \in DOMAIN file : file[i] # OwnLine(o)})
        BY <1>9, <3>2 DEF EditOwn
      <4>2. QED
        BY <1>1, <3>1, <4>1, OwnTaken
    <3>3. CASE ~ \E i \in DOMAIN file : file[i] = OwnLine(o)
      <4>1. own' = own \cup {o} /\ file' = Append(file, OwnLine(o))
        BY <1>9, <3>3 DEF EditOwn
      <4>2. QED
        BY <1>1, <3>1, <3>3, <4>1, OwnAdded
    <3>4. QED
      BY <3>2, <3>3
  <2>3. \A p \in Procs : Writing(p)' => stale'[p]
    BY <1>1, <2>1 DEF Writing, AtRest
  <2>4. QED
    BY <1>2, <2>1, <2>2, <2>3 DEF LatestInv
<1>10. ASSUME Aside PROVE LatestInv'
  BY <1>3, <1>10 DEF Aside
<1>11. ASSUME UNCHANGED vars PROVE LatestInv'
  BY <1>3, <1>11 DEF vars
<1>12. QED
  BY <1>4, <1>5, <1>6, <1>7, <1>8, <1>9, <1>10, <1>11, AsideSteps DEF Next

\* A VM of which nothing is shown was written last without a block.
LEMMA NothingShown ==
    ASSUME NEW s \in Seq(AnyLine), NEW v \in VMs, NEW ip \in IPs \cup {None},
           Shows(s, v, None), Shows(s, v, ip)
    PROVE  ip = None
<1>1. SUFFICES ASSUME ip # None PROVE FALSE
  OBVIOUS
<1>2. PICK b \in 1..Len(s) : Block(s, b, v, ip)
  BY <1>1 DEF Shows
<1>3. b \in DOMAIN s /\ s[b].of = v
  BY <1>2, LineKinds DEF Block
<1>4. QED
  BY <1>3 DEF Shows

\* A run that finds v without a block, when nobody has the file truncated, is
\* right about it.
LEMMA FoundNone ==
    ASSUME TypeOK, WholeInv, LatestInv, NEW p \in Procs, pc[p] # "write",
           \A q \in Procs \ {p} : pc[q] # "write", ~ lost,
           NEW v \in VMs, stripBlock(file, v) = file
    PROVE  latest[v] = None
<1>1. AtRest /\ ~ torn
  BY DEF AtRest, LatestInv
<1>2. file \in Seq(AnyLine) /\ Whole(file) /\ Shows(file, v, latest[v]) /\ latest[v] \in IPs \cup {None}
  BY <1>1 DEF TypeOK, FileType, WholeInv, LatestInv
<1>3. Shows(file, v, None)
  BY <1>2, Stripping
<1>4. QED
  BY <1>2, <1>3, NothingShown

\* Whoever is about to write v's block is at it.
LEMMA Writers ==
    ASSUME StageInv, NEW q \in Procs, pc[q] = "block" \/ (Writing(q) /\ job[q].ip # None)
    PROVE  job[q].vm \in VMs /\ AtIt(job[q].vm)
BY DEF StageInv, Writing, AtIt

Records == WriterInv /\ DropInv /\ RecordInv

\* Where v is found, or left, without a block.
LEMMA StrippedStep ==
    ASSUME TypeOK, StageInv, Records, NEW p \in Procs, NEW v \in VMs, Stripped(p, v),
           rec' = rec, drop' = drop, lost => lost',
           \A w \in VMs \ {v} : latest'[w] = latest[w],
           ~ lost' /\ (\A q \in Procs \ {p} : pc[q] # "write") => latest'[v] = None,
           latest'[v] = latest[v] \/ latest'[v] = None,
           todo' = [todo EXCEPT ![p] = @ \ {v}],
           \A q \in Procs \ {p} : pc'[q] = pc[q] /\ job'[q] = job[q],
           pc'[p] = "strip", job[p].vm \in {v, None}, job'[p].vm = None
    PROVE  Records'
<1>1. /\ pc \in [Procs -> {"idle", "block", "strip", "open", "write"}]
      /\ todo \in [Procs -> SUBSET VMs] /\ drop \in [Procs -> SUBSET VMs]
      /\ met \in [Procs -> BOOLEAN] /\ adrift \subseteq VMs
      /\ rec \in [VMs -> {"none", "loads", "broken"}]
  BY DEF TypeOK, RunType, RecordType
<1> DEFINE blind == \E q \in Procs \ {p} : pc[q] = "write"
<1>2. /\ adrift' = IF blind \/ AtIt(v) THEN adrift ELSE adrift \ {v}
      /\ met' = [met EXCEPT ![p] = @ \/ blind]
  BY DEF Stripped
<1>3. ~ lost' /\ ~ blind => latest'[v] = None
  OBVIOUS
<1> HIDE DEF blind
<1>4. \A w \in VMs \ {v} : w \in adrift' <=> w \in adrift
  BY <1>2
<1>5. v \in adrift => v \in adrift' \/ (~ blind /\ ~ AtIt(v))
  BY <1>2
<1>6. WriterInv'
  <2>1. SUFFICES ASSUME NEW q \in Procs, (pc[q] = "block" \/ (Writing(q) /\ job[q].ip # None))'
                 PROVE  Recorded(job[q].vm)'
    BY DEF WriterInv
  <2>2. q # p
    BY <2>1 DEF Writing
  <2>3. pc[q] = "block" \/ (Writing(q) /\ job[q].ip # None)
    BY <2>1, <2>2 DEF Writing
  <2>4. job[q].vm \in VMs /\ AtIt(job[q].vm) /\ Recorded(job[q].vm)
    BY <2>3, Writers DEF Records, WriterInv
  <2>5. QED
    BY <1>4, <1>5, <2>2, <2>4 DEF Recorded
<1>7. RecordInv'
  BY <1>2, <1>3, <1>4, <1>5 DEF Records, RecordInv, Recorded
<1>8. DropInv'
  <2>1. SUFFICES ASSUME ~ lost', NEW q \in Procs, ~ met'[q],
                        NEW w \in drop[q] \ (todo'[q] \cup {job'[q].vm}),
                        rec[w] = "loads", latest'[w] # None
                 PROVE  w \in adrift'
    BY DEF DropInv
  <2>2. w \in VMs
    BY <1>1
  <2>3. CASE w = v
    <3>1. blind
      BY <1>3, <2>1, <2>3
    <3>2. adrift' = adrift /\ q # p
      BY <1>1, <1>2, <2>1, <3>1
    <3>3. w \in drop[q] \ (todo[q] \cup {job[q].vm}) /\ ~ met[q]
      BY <1>1, <1>2, <2>1, <3>2
    <3>4. latest[w] # None /\ ~ lost
      BY <2>1, <2>3
    <3>5. QED
      BY <2>1, <3>2, <3>3, <3>4 DEF Records, DropInv
  <2>4. CASE w # v
    <3>1. w \in drop[q] \ (todo[q] \cup {job[q].vm}) /\ ~ met[q]
      BY <1>1, <1>2, <2>1, <2>2, <2>4, SshAssumption
    <3>2. latest[w] # None /\ ~ lost
      BY <2>1, <2>2, <2>4
    <3>3. QED
      BY <1>4, <2>1, <2>2, <2>4, <3>1, <3>2 DEF Records, DropInv
  <2>5. QED
    BY <2>3, <2>4
<1>9. QED
  BY <1>6, <1>7, <1>8 DEF Records

\* Blocks are written under a record, and records taken away from VMs without a
\* block, but for those adrift.
LEMMA StepRecorded ==
    ASSUME IInv, [Next]_vars
    PROVE  Records'
<1>1. /\ pc \in [Procs -> {"idle", "block", "strip", "open", "write"}]
      /\ job \in [Procs -> [vm : VMs \cup {None}, ip : IPs \cup {None}]]
      /\ todo \in [Procs -> SUBSET VMs] /\ drop \in [Procs -> SUBSET VMs]
      /\ met \in [Procs -> BOOLEAN] /\ adrift \subseteq VMs
      /\ rec \in [VMs -> {"none", "loads", "broken"}]
      /\ latest \in [VMs -> IPs \cup {None}]
  BY DEF IInv, TypeOK, RunType, RecordType, FileType
<1>2. TypeOK /\ StageInv /\ WholeInv /\ LatestInv /\ WriterInv /\ DropInv /\ RecordInv /\ Records
  BY DEF IInv, Records
<1> USE DEF Records, Writing
<1>3. ASSUME UNCHANGED <<records, latest, lost>>,
             \A q \in Procs : \/ pc'[q] \in {"idle", "strip"} /\ job'[q] = job[q]
                              \/ pc'[q] \in {"open", "write"} /\ Writing(q) /\ job'[q] = job[q]
                              \/ pc'[q] = pc[q] /\ job'[q] = job[q]
      PROVE  Records'
  BY <1>2, <1>3 DEF records, WriterInv, DropInv, RecordInv, Recorded
<1>4. ASSUME NEW p \in Procs, NEW v \in VMs, Record(p, v) PROVE Records'
  <2>1. /\ pc[p] = "idle" /\ drop[p] = {} /\ pc' = [pc EXCEPT ![p] = "block"]
        /\ rec' = [rec EXCEPT ![v] = "loads"]
        /\ UNCHANGED <<todo, drop, latest, lost>>
        /\ job'[p].vm = v /\ \A q \in Procs \ {p} : job'[q] = job[q]
    BY <1>1, <1>2, <1>4 DEF Record, Goto, StageInv, sshfile
  <2>2. CASE rec[v] = "loads"
    <3>1. UNCHANGED <<met, adrift, rec>>
      BY <1>1, <1>4, <2>1, <2>2 DEF Record
    <3>2. QED
      BY <1>1, <1>2, <2>1, <2>2, <3>1 DEF WriterInv, DropInv, RecordInv, Recorded
  <2>3. CASE rec[v] # "loads"
    <3>1. met' = [q \in Procs |-> met[q] \/ v \in drop[q]] /\ adrift' = adrift \ {v}
      BY <1>4, <2>3 DEF Record, Meets
    <3>2. \A w \in VMs : Recorded(w) => Recorded(w)'
      BY <1>1, <2>1, <3>1 DEF Recorded
    <3>3. WriterInv'
      <4>1. Recorded(v)'
        BY <1>1, <2>1 DEF Recorded
      <4>2. \A q \in Procs \ {p} : pc[q] = "block" \/ (Writing(q) /\ job[q].ip # None) => job[q].vm \in VMs
        BY <1>2, Writers
      <4>3. QED
        BY <1>1, <1>2, <2>1, <3>2, <4>1, <4>2 DEF WriterInv
    <3>4. RecordInv'
      BY <1>2, <2>1, <3>2 DEF RecordInv
    <3>5. DropInv'
      BY <1>1, <1>2, <2>1, <3>1 DEF DropInv
    <3>6. QED
      BY <3>3, <3>4, <3>5
  <2>4. QED
    BY <2>2, <2>3
<1>5. ASSUME NEW p \in Procs, NEW v \in VMs, RecordCut(p, v) PROVE Records'
  <2>1. /\ rec' = [rec EXCEPT ![v] = "broken"] /\ adrift' = adrift \cup {v}
        /\ UNCHANGED <<pc, job, todo, drop, met, latest, lost>>
    BY <1>5 DEF RecordCut, sshfile
  <2>2. \A w : Recorded(w) => Recorded(w)'
    BY <1>1, <2>1 DEF Recorded
  <2>3. QED
    BY <1>1, <1>2, <2>1, <2>2 DEF WriterInv, DropInv, RecordInv
<1>6. ASSUME NEW p \in Procs, BeginRemove(p) \/ BeginUninstall(p) \/ BeginCreate(p) PROVE Records'
  <2>1. PICK strips \in SUBSET VMs, drops \in SUBSET VMs :
           /\ BeginStrip(p, strips, drops)
           /\ \A v \in drops \ strips : rec[v] # "loads"
    <3>1. CASE BeginRemove(p)
      BY <3>1 DEF BeginRemove
    <3>2. CASE BeginUninstall(p)
      BY <3>2 DEF BeginUninstall, List
    <3>3. CASE BeginCreate(p)
      BY <3>3 DEF BeginCreate
    <3>4. QED
      BY <1>6, <3>1, <3>2, <3>3
  <2>2. /\ pc' = [pc EXCEPT ![p] = "strip"]
        /\ todo' = [todo EXCEPT ![p] = strips] /\ drop' = [drop EXCEPT ![p] = drops]
        /\ met' = [met EXCEPT ![p] = FALSE]
        /\ UNCHANGED <<job, rec, adrift, latest, lost>>
    BY <2>1 DEF BeginStrip, Goto, sshfile
  <2>3. QED
    BY <1>1, <1>2, <2>1, <2>2 DEF WriterInv, DropInv, RecordInv, Recorded
<1>7. ASSUME NEW p \in Procs, NEW ip \in IPs, Write(p, ip) PROVE Records'
  <2>1. /\ pc[p] = "block" /\ pc' = [pc EXCEPT ![p] = "open"]
        /\ job' = [job EXCEPT ![p].ip = ip]
        /\ UNCHANGED <<records, latest, lost>>
    BY <1>7 DEF Write, Rewrite, Goto
  <2>2. /\ \A q \in Procs : job'[q].vm = job[q].vm
        /\ \A q \in Procs \ {p} : job'[q] = job[q] /\ pc'[q] = pc[q]
    BY <1>1, <2>1
  <2>3. QED
    BY <1>1, <1>2, <2>1, <2>2 DEF WriterInv, DropInv, RecordInv, Recorded, records
<1>8. ASSUME NEW p \in Procs, Strip(p) PROVE Records'
  <2>1. pc[p] = "strip" /\ job[p] = NoJob /\ UNCHANGED <<rec, drop>>
    BY <1>2, <1>8, StripLatest DEF Strip
  <2>2. PICK v \in VMs :
           /\ todo' = [todo EXCEPT ![p] = @ \ {v}]
           /\ \/ /\ stripBlock(file, v) = file
                 /\ Stripped(p, v) /\ UNCHANGED <<sshfile, pc, job>>
              \/ /\ Rewrite(p, stripBlock(file, v))
                 /\ job' = [job EXCEPT ![p].vm = v]
                 /\ UNCHANGED <<met, adrift>>
    BY <1>2, <1>8, StripLatest
  <2>3. CASE stripBlock(file, v) = file /\ Stripped(p, v) /\ UNCHANGED <<sshfile, pc, job>>
    <3>1. UNCHANGED <<latest, lost>>
      BY <2>3 DEF sshfile
    <3>2. ~ lost' /\ (\A q \in Procs \ {p} : pc[q] # "write") => latest'[v] = None
      BY <1>2, <2>1, <2>3, <3>1, FoundNone
    <3>3. job[p].vm = None
      BY <2>1 DEF NoJob
    <3>4. QED
      BY <1>2, <2>1, <2>2, <2>3, <3>1, <3>2, <3>3, StrippedStep
  <2>4. CASE /\ Rewrite(p, stripBlock(file, v))
             /\ job' = [job EXCEPT ![p].vm = v]
             /\ UNCHANGED <<met, adrift>>
    <3>1. pc' = [pc EXCEPT ![p] = "open"] /\ UNCHANGED <<latest, lost>>
      BY <2>4 DEF Rewrite, Goto
    <3>2. /\ job'[p].vm = v /\ job'[p].ip = None
          /\ \A q \in Procs \ {p} : job'[q] = job[q] /\ pc'[q] = pc[q] /\ todo'[q] = todo[q]
      BY <1>1, <2>1, <2>2, <2>4, <3>1 DEF NoJob
    <3>3. WriterInv' /\ RecordInv'
      BY <1>1, <1>2, <2>1, <2>4, <3>1, <3>2 DEF WriterInv, RecordInv, Recorded
    <3>4. \A q \in Procs : drop'[q] \ (todo'[q] \cup {job'[q].vm}) \subseteq drop[q] \ (todo[q] \cup {job[q].vm})
      BY <1>1, <2>1, <2>2, <3>2, SshAssumption DEF NoJob
    <3>5. DropInv'
      BY <1>2, <2>1, <2>4, <3>1, <3>4 DEF DropInv
    <3>6. QED
      BY <3>3, <3>5
  <2>5. QED
    BY <2>2, <2>3, <2>4
<1>9. ASSUME NEW p \in Procs, StripFails(p) PROVE Records'
  <2>1. PICK v \in todo[p] :
           /\ todo' = [todo EXCEPT ![p] = @ \ {v}] /\ adrift' = adrift \cup {v}
           /\ UNCHANGED <<latest, lost, pc, job, rec, drop, met>>
    BY <1>9 DEF StripFails, sshfile
  <2>2. QED
    BY <1>1, <1>2, <2>1 DEF WriterInv, DropInv, RecordInv, Recorded
<1>10. ASSUME NEW p \in Procs, Forget(p) PROVE Records'
  <2>1. PICK vs \in SUBSET drop[p] :
           /\ rec' = [v \in VMs |-> IF v \in vs THEN "none" ELSE rec[v]]
           /\ adrift' = adrift \cup Leaves(p, vs)
    BY <1>10 DEF Forget
  <2>2. /\ pc[p] = "strip" /\ todo[p] = {} /\ job[p] = NoJob
        /\ pc' = [pc EXCEPT ![p] = "idle"] /\ job' = [job EXCEPT ![p] = NoJob]
        /\ todo' = [todo EXCEPT ![p] = {}] /\ drop' = [drop EXCEPT ![p] = {}]
        /\ met' = [met EXCEPT ![p] = FALSE] /\ UNCHANGED <<latest, lost>>
    BY <1>2, <1>10 DEF Forget, Quit, Goto, sshfile, StageInv
  <2>3. \A v \in VMs : Recorded(v) => Recorded(v)' \/ (v \in drop[p] /\ rec[v] = "loads" /\ ~ met[p] /\ ~ AtIt(v))
    BY <1>1, <2>1 DEF Recorded, Leaves
  <2>4. WriterInv'
    <3>1. SUFFICES ASSUME NEW q \in Procs, (pc[q] = "block" \/ (Writing(q) /\ job[q].ip # None))'
                   PROVE  Recorded(job[q].vm)'
      BY DEF WriterInv
    <3>2. q # p /\ job'[q] = job[q] /\ pc'[q] = pc[q]
      BY <1>1, <2>2, <3>1
    <3>3. job[q].vm \in VMs /\ AtIt(job[q].vm) /\ Recorded(job[q].vm)
      BY <1>2, <3>1, <3>2, Writers DEF WriterInv
    <3>4. PICK v \in VMs : v = job[q].vm
      BY <3>3
    <3>5. Recorded(v)'
      BY <2>3, <3>3, <3>4
    <3>6. QED
      BY <3>2, <3>4, <3>5 DEF Recorded
  <2>5. RecordInv'
    <3>1. SUFFICES ASSUME ~ lost, NEW v \in VMs, latest[v] # None PROVE Recorded(v)'
      BY <2>2 DEF RecordInv
    <3>2. CASE v \in adrift
      BY <2>1, <3>2 DEF Recorded
    <3>3. CASE v \notin adrift
      <4>1. rec[v] = "loads" /\ Recorded(v)
        BY <1>2, <3>1, <3>3 DEF RecordInv, Recorded
      <4>2. v \in drop[p] /\ ~ met[p] => v \in adrift
        BY <1>2, <2>2, <3>1, <4>1, SshAssumption DEF DropInv, NoJob
      <4>3. QED
        BY <2>3, <3>3, <4>1, <4>2
    <3>4. QED
      BY <3>2, <3>3
  <2>6. DropInv'
    <3>1. \A v \in VMs : rec'[v] = "loads" => rec[v] = "loads"
      BY <1>1, <2>1
    <3>2. drop'[p] = {} /\ \A q \in Procs \ {p} : /\ drop'[q] = drop[q] /\ todo'[q] = todo[q]
                                                  /\ job'[q] = job[q] /\ met'[q] = met[q]
      BY <1>1, <2>2
    <3>3. QED
      BY <1>1, <1>2, <2>1, <2>2, <3>1, <3>2 DEF DropInv
  <2>7. QED
    BY <2>4, <2>5, <2>6
<1>11. ASSUME NEW p \in Procs, Open(p) PROVE Records'
  <2>1. pc[p] = "open" /\ pc' = [pc EXCEPT ![p] = "write"] /\ UNCHANGED <<records, job, latest, lost>>
    BY <1>11 DEF Open, Goto
  <2>2. QED
    BY <1>1, <1>3, <2>1
<1>12. ASSUME NEW p \in Procs, Fill(p) PROVE Records'
  <2>1. /\ pc[p] = "write" /\ rec' = rec /\ (lost => lost')
        /\ latest' = [latest EXCEPT ![job[p].vm] = job[p].ip]
    BY <1>12 DEF Fill
  <2>2. CASE drop[p] = {}
    <3>1. job[p].vm \in VMs /\ job[p].ip # None /\ Recorded(job[p].vm)
      BY <1>2, <2>1, <2>2 DEF StageInv, WriterInv
    <3>2. /\ pc' = [pc EXCEPT ![p] = "idle"] /\ job' = [job EXCEPT ![p] = NoJob]
          /\ todo' = [todo EXCEPT ![p] = {}] /\ drop' = [drop EXCEPT ![p] = {}]
          /\ met' = [q \in Procs |-> met[q] \/ job[p].vm \in drop[q]] /\ adrift' = adrift
      BY <1>12, <2>2 DEF Fill, Quit, Goto, Meets
    <3>3. WriterInv'
      BY <1>1, <1>2, <2>1, <3>2 DEF WriterInv, Recorded
    <3>4. RecordInv'
      BY <1>1, <1>2, <2>1, <3>1, <3>2 DEF RecordInv, Recorded
    <3>5. DropInv'
      <4>1. SUFFICES ASSUME ~ lost', NEW q \in Procs, ~ met'[q],
                            NEW w \in drop'[q] \ (todo'[q] \cup {job'[q].vm}),
                            rec[w] = "loads", latest'[w] # None
                     PROVE  w \in adrift
        BY <2>1, <3>2 DEF DropInv
      <4>2. q # p /\ w \in VMs
        BY <1>1, <3>2, <4>1
      <4>3. ~ met[q] /\ w \in drop[q] \ (todo[q] \cup {job[q].vm}) /\ w # job[p].vm
        BY <1>1, <3>2, <4>1, <4>2
      <4>4. latest[w] # None /\ ~ lost
        BY <1>1, <2>1, <4>1, <4>2, <4>3
      <4>5. QED
        BY <1>2, <4>1, <4>3, <4>4 DEF DropInv
    <3>6. QED
      BY <3>3, <3>4, <3>5
  <2>3. CASE drop[p] # {}
    <3>1. job[p].ip = None /\ job[p].vm \in drop[p] \ todo[p] /\ job[p].vm \in VMs
      BY <1>1, <1>2, <2>1, <2>3 DEF StageInv
    <3>2. /\ pc' = [pc EXCEPT ![p] = "strip"] /\ job' = [job EXCEPT ![p] = NoJob]
          /\ Stripped(p, job[p].vm) /\ UNCHANGED <<todo, drop>>
      BY <1>12, <2>3 DEF Fill, Goto
    <3>3. /\ latest'[job[p].vm] = None
          /\ \A w \in VMs \ {job[p].vm} : latest'[w] = latest[w]
      BY <1>1, <2>1, <3>1
    <3>4. todo' = [todo EXCEPT ![p] = @ \ {job[p].vm}]
      BY <1>1, <3>1, <3>2
    <3>5. /\ pc'[p] = "strip" /\ job'[p].vm = None
          /\ \A q \in Procs \ {p} : pc'[q] = pc[q] /\ job'[q] = job[q]
      BY <1>1, <3>2 DEF NoJob
    <3>6. QED
      BY <1>2, <2>1, <3>1, <3>2, <3>3, <3>4, <3>5, StrippedStep
  <2>4. QED
    BY <2>2, <2>3
<1>13. ASSUME NEW p \in Procs, Stop(p) PROVE Records'
  <2>1. /\ pc' = [pc EXCEPT ![p] = "idle"] /\ job' = [job EXCEPT ![p] = NoJob]
        /\ todo' = [todo EXCEPT ![p] = {}] /\ drop' = [drop EXCEPT ![p] = {}]
        /\ met' = [met EXCEPT ![p] = FALSE] /\ UNCHANGED <<latest, rec, adrift>>
        /\ lost => lost'
    BY <1>13 DEF Stop, Quit, Goto
  <2>2. QED
    BY <1>1, <1>2, <2>1 DEF WriterInv, DropInv, RecordInv, Recorded
<1>14. ASSUME (\E o \in Own : EditOwn(o)) \/ UNCHANGED vars PROVE Records'
  <2>1. UNCHANGED <<records, latest, lost, pc, job>>
    BY <1>14 DEF EditOwn, vars, sshfile
  <2>2. QED
    BY <1>3, <2>1
<1>15. QED
  BY <1>4, <1>5, <1>6, <1>7, <1>8, <1>9, <1>10, <1>11, <1>12, <1>13, <1>14 DEF Next

\* Together: every step preserves the invariant.
LEMMA NextInv == IInv /\ [Next]_vars => IInv'
<1>1. SUFFICES ASSUME IInv, [Next]_vars PROVE IInv'
  OBVIOUS
<1>2. TypeOK /\ StageInv /\ WholeInv /\ LatestInv
  BY <1>1 DEF IInv
<1>3. TypeOK'
  BY <1>1, <1>2, StepFile, StepRecords, StepRun DEF TypeOK
<1>4. StageInv' /\ WholeInv' /\ LatestInv'
  BY <1>1, <1>2, StepStage, StepWhole, StepLatest
<1>5. WriterInv' /\ DropInv' /\ RecordInv'
  BY <1>1, StepRecorded DEF Records
<1>6. QED
  BY <1>3, <1>4, <1>5 DEF IInv

\* The inductive invariant holds in every interleaving of verbs, cut writes and
\* edits by hand.
THEOREM Inductive == Spec => []IInv
<1>1. Init => IInv
  BY InitInv
<1>2. IInv /\ [Next]_vars => IInv'
  BY NextInv
<1>3. QED
  BY <1>1, <1>2, PTL DEF Spec

-----------------------------------------------------------------------------
(* What a reader should take away.                                         *)

\* The lines of a VM that shows one block are that block, as render makes it.
LEMMA OneBlock ==
    ASSUME NEW s \in Seq(AnyLine), NEW v \in VMs, NEW ip \in IPs \cup {None}, Shows(s, v, ip)
    PROVE  Lines(s, {i \in DOMAIN s : s[i].of = v}) = IF ip = None THEN <<>> ELSE render(v, ip)
<1> DEFINE mine == {i \in DOMAIN s : s[i].of = v}
           t == Lines(s, mine)
<1>1. mine \in SUBSET DOMAIN s /\ DOMAIN s = 1..Len(s) /\ Len(s) \in Nat
  OBVIOUS
<1>2. CASE ip = None
  <2>1. mine = {}
    BY <1>2 DEF Shows
  <2>2. Cardinality(mine) = 0
    BY <2>1, FS_EmptySet
  <2>3. t = [n \in 1..0 |-> s[CHOOSE i \in mine : Place(mine, i) = n]]
    BY <2>2 DEF Lines
  <2>4. t = <<>>
    BY <2>3
  <2>5. QED
    BY <1>2, <2>4
<1>3. CASE ip # None
  <2>1. PICK b \in 1..Len(s) :
           Block(s, b, v, ip) /\ \A i \in DOMAIN s : s[i].of = v => i \in b..(b + 2)
    BY <1>3 DEF Shows
  <2>2. b \in Nat /\ b + 1 \in DOMAIN s /\ b + 2 \in DOMAIN s /\ ip \in IPs
    BY <1>1, <1>3, <2>1 DEF Block
  <2>3. s[b] = Begin(v) /\ s[b + 1] = Stanza(v, ip) /\ s[b + 2] = End(v)
    BY <2>1 DEF Block
  <2>4. b \in mine /\ b + 1 \in mine /\ b + 2 \in mine
    BY <1>1, <2>1, <2>2, <2>3, LineKinds
  <2>5. \A i \in mine : i = b \/ i = b + 1 \/ i = b + 2
    BY <1>1, <2>1, <2>2
  <2> HIDE DEF mine
  <2>6. /\ t \in Seq(AnyLine) /\ DOMAIN t = 1..Cardinality(mine)
        /\ \A i \in mine : Place(mine, i) \in DOMAIN t /\ t[Place(mine, i)] = s[i]
        /\ \A m \in DOMAIN t : \E i \in mine : m = Place(mine, i)
    BY <1>1, LinesOf
  <2>7. /\ Place(mine, b) \in Nat \ {0}
        /\ Place(mine, b + 1) = Place(mine, b) + 1 /\ Place(mine, b + 2) = Place(mine, b) + 2
    <3>1. Place(mine, b) \in Nat \ {0}
      BY <1>1, <2>4, LinesPlaces
    <3>2. \A i, j \in mine : j = i + 1 => Place(mine, j) = Place(mine, i) + 1
      BY <1>1, LinesPlaces
    <3>3. b + 2 = (b + 1) + 1
      BY <2>2
    <3>4. QED
      BY <2>4, <3>1, <3>2, <3>3
  <2> HIDE DEF t
  <2>8. Len(t) \in Nat /\ DOMAIN t = 1..Len(t)
    BY <2>6
  <2>9. \A m \in DOMAIN t : m \in Place(mine, b)..(Place(mine, b) + 2)
    BY <2>5, <2>6, <2>7
  <2>10. Place(mine, b) + 2 \in DOMAIN t
    BY <2>4, <2>6, <2>7
  <2>11. 1 \in DOMAIN t
    BY <2>7, <2>8, <2>10
  <2>12. Place(mine, b) = 1
    BY <2>7, <2>9, <2>11
  <2>13. Len(t) = 3
    BY <2>8, <2>9, <2>10, <2>12
  <2>14. t[1] = Begin(v) /\ t[2] = Stanza(v, ip) /\ t[3] = End(v)
    BY <2>3, <2>4, <2>6, <2>7, <2>12
  <2>15. t = render(v, ip)
    <3>1. t = <<t[1], t[2], t[3]>>
      <4>1. \A u \in Seq(AnyLine) : Len(u) = 3 => u = <<u[1], u[2], u[3]>>
        OBVIOUS
      <4>2. QED
        BY <2>6, <2>13, <4>1
    <3>2. QED
      BY <2>14, <3>1 DEF render
  <2>16. QED
    BY <1>3, <2>15 DEF t, mine
<1>4. QED
  BY <1>2, <1>3

\* Write leaves each VM the one block it was given last, and Strip none.
THEOREM LatestBlocks == Spec => []BlocksAreLatest
<1>1. IInv => BlocksAreLatest
  <2>1. SUFFICES ASSUME IInv, AtRest, ~ lost, NEW v \in VMs
                 PROVE  Lines(file, {i \in DOMAIN file : file[i].of = v})
                           = IF latest[v] = None THEN <<>> ELSE render(v, latest[v])
    BY DEF BlocksAreLatest
  <2>2. file \in Seq(AnyLine) /\ latest[v] \in IPs \cup {None} /\ Shows(file, v, latest[v])
    BY <2>1 DEF IInv, TypeOK, FileType, LatestInv
  <2>3. QED
    BY <2>2, OneBlock
<1>2. QED
  BY <1>1, Inductive, PTL

\* uninstall finds, by the records, every block there is, but for the runs that
\* BlocksAreRecorded names.
THEOREM NoneLeftBehind == Spec => []BlocksAreRecorded
<1>1. IInv => BlocksAreRecorded
  <2>1. SUFFICES ASSUME IInv, AtRest, ~ lost, NEW v \in VMs, NEW i \in DOMAIN file, file[i].of = v
                 PROVE  rec[v] = "loads" \/ v \in adrift
    BY DEF BlocksAreRecorded
  <2>2. Shows(file, v, latest[v])
    BY <2>1 DEF IInv, LatestInv
  <2>3. latest[v] # None
    BY <2>1, <2>2 DEF Shows
  <2>4. QED
    BY <2>1, <2>3 DEF IInv, RecordInv, Recorded
<1>2. QED
  BY <1>1, Inductive, PTL

\* Rewriting the file keeps the developer's own lines, each once.
THEOREM OwnLinesSafe == Spec => []OwnLinesKept
<1>1. IInv => OwnLinesKept
  <2>1. SUFFICES ASSUME IInv, AtRest, ~ lost, NEW o \in Own
                 PROVE  Cardinality({i \in DOMAIN file : file[i] = OwnLine(o)})
                           = IF o \in own THEN 1 ELSE 0
    BY DEF OwnLinesKept
  <2> DEFINE there == {i \in DOMAIN file : file[i] = OwnLine(o)}
  <2>2. Holds(file, own)
    BY <2>1 DEF IInv, LatestInv
  <2>3. CASE o \in own
    <3>1. PICK i \in DOMAIN file : file[i] = OwnLine(o)
      BY <2>2, <2>3 DEF Holds
    <3>2. there = {i}
      BY <2>2, <3>1 DEF Holds
    <3>3. QED
      BY <2>3, <3>2, FS_Singleton
  <2>4. CASE o \notin own
    <3>1. there = {}
      BY <2>2, <2>4 DEF Holds
    <3>2. QED
      BY <2>4, <3>1, FS_EmptySet
  <2>5. QED
    BY <2>3, <2>4
<1>2. QED
  BY <1>1, Inductive, PTL

\* As long as no write was torn, stripBlock takes out a VM's lines and no other.
THEOREM CleanStrips == Spec => []StripsCleanly
<1>1. IInv => StripsCleanly
  <2>1. SUFFICES ASSUME IInv, ~ torn, NEW v \in VMs
                 PROVE  stripBlock(file, v) = Lines(file, {i \in DOMAIN file : file[i].of # v})
    BY DEF StripsCleanly
  <2>2. file \in Seq(AnyLine) /\ Whole(file)
    BY <2>1 DEF IInv, TypeOK, FileType, WholeInv
  <2>3. QED
    BY <2>2, Stripping
<1>2. QED
  BY <1>1, Inductive, PTL

-----------------------------------------------------------------------------
(* authorized_keys on the VM.                                             *)

\* A VM with no key in the block.
LEMMA SyncInitInv == SyncInit => SyncIInv
<1> USE DEF SyncStages
<1>1. SUFFICES ASSUME SyncInit PROVE SyncIInv
  OBVIOUS
<1>2. authorized \in Content
  BY <1>1 DEF SyncInit, Content
<1>3. SyncTypeOK
  BY <1>1, <1>2 DEF SyncInit, SyncTypeOK
<1>4. OwnKeysKept
  <2>1. authorized.own = byHand
    BY <1>1 DEF SyncInit
  <2>2. QED
    BY <2>1 DEF OwnKeysKept
<1>5. BlockConverges /\ SyncInv
  BY <1>1 DEF SyncInit, BlockConverges, SyncInv
<1>6. QED
  BY <1>3, <1>4, <1>5 DEF SyncIInv

\* Putting the managed block into a file leaves the rest of it as it is.
LEMMA SyncBlockOnly ==
    ASSUME NEW content \in Content, NEW managed \in SUBSET Valid
    PROVE  /\ applyManagedKeys(content, managed) \in Content
           /\ applyManagedKeys(content, managed) = [own |-> content.own, block |-> managed]
BY DEF applyManagedKeys, Content

\* A run begins: it has the valid keys of the record in hand.
LEMMA SyncStepBegin ==
    ASSUME SyncIInv, NEW p \in Syncs, syncAuthorizedKeys(p)
    PROVE  SyncIInv'
BY DEF syncAuthorizedKeys, BeginsCalm, SyncIInv, SyncTypeOK, SyncStages, OwnKeysKept, BlockConverges,
       SyncInv, SyncTo, told

\* It computes the content from what it read, or is done, nothing being different.
LEMMA SyncStepRead ==
    ASSUME SyncIInv, NEW p \in Syncs, Read(p) \/ ReadNothing(p)
    PROVE  SyncIInv'
<1> DEFINE updated(existing) == applyManagedKeys(existing, keys[p])
<1>1. PICK existing \in Content :
         /\ sync[p] = "read"
         /\ Decide(p, existing)
         /\ misread' \/ existing = authorized
         /\ misread => misread'
         /\ misread' \in BOOLEAN
         /\ UNCHANGED <<authorized, staged, listed, keys, byHand, calm, overtaken, halved>>
  <2>1. Empty \in Content /\ authorized \in Content
    BY DEF Empty, Content, SyncIInv, SyncTypeOK
  <2>2. CASE Read(p)
    BY <2>1, <2>2 DEF Read, told, SyncIInv, SyncTypeOK
  <2>3. CASE ReadNothing(p)
    BY <2>1, <2>3 DEF ReadNothing, SyncIInv, SyncTypeOK
  <2>4. QED
    BY <2>2, <2>3
<1>2. /\ updated(existing) \in Content
      /\ updated(existing) = [own |-> existing.own, block |-> keys[p]]
  BY SyncBlockOnly DEF SyncIInv, SyncTypeOK
<1>3. \/ /\ updated(existing) = existing
         /\ SyncTo(p, "done") /\ new' = [new EXCEPT ![p] = Nothing]
      \/ /\ SyncTo(p, "stage") /\ new' = [new EXCEPT ![p] = updated(existing)]
  BY <1>1 DEF Decide
<1> HIDE DEF updated
<1>4. SyncTypeOK'
  BY <1>1, <1>2, <1>3 DEF SyncTo, SyncIInv, SyncTypeOK, SyncStages
<1>5. OwnKeysKept'
  BY <1>1, <1>3 DEF SyncTo, SyncIInv, SyncTypeOK, OwnKeysKept
<1>6. BlockConverges'
  <2>1. SUFFICES ASSUME NEW q \in Syncs, sync'[q] = "done", calm[q], ~ misread'
                 PROVE  authorized.block = listed \cap Valid
    BY <1>1 DEF BlockConverges
  <2>2. CASE q # p
    BY <1>1, <1>3, <2>1, <2>2 DEF SyncTo, SyncIInv, SyncTypeOK, BlockConverges
  <2>3. CASE q = p
    <3>1. updated(existing) = existing /\ existing = authorized
      BY <1>1, <1>3, <2>1, <2>3 DEF SyncTo, SyncIInv, SyncTypeOK
    <3>2. keys[p] = listed \cap Valid
      BY <1>1, <2>1, <2>3 DEF SyncIInv, SyncInv
    <3>3. QED
      BY <1>2, <3>1, <3>2
  <2>4. QED
    BY <2>2, <2>3
<1>7. SyncInv'
  BY <1>1, <1>2, <1>3, AuthAssumption DEF SyncTo, SyncIInv, SyncTypeOK, SyncInv, Content
<1>8. QED
  BY <1>4, <1>5, <1>6, <1>7 DEF SyncIInv

\* It stages that content, and installs what is staged.
LEMMA SyncStepStage ==
    ASSUME SyncIInv, NEW p \in Syncs, StageKeys(p) \/ Staged(p)
    PROVE  SyncIInv'
<1> USE DEF SyncIInv, SyncTypeOK, SyncStages, SyncInv, SyncTo, Disturbs, told
<1>1. Empty \in Content
  BY DEF Empty, Content
<1>2. SyncTypeOK'
  BY <1>1 DEF StageKeys, Staged
<1>3. OwnKeysKept' /\ BlockConverges'
  BY DEF StageKeys, Staged, OwnKeysKept, BlockConverges
<1>4. SyncInv'
  <2>1. CASE StageKeys(p)
    BY <2>1 DEF StageKeys
  <2>2. CASE Staged(p)
    BY <2>2 DEF Staged
  <2>3. QED
    BY <2>1, <2>2
<1>5. QED
  BY <1>2, <1>3, <1>4

\* The old file is gone; the run that has the new one in hand is the only one.
LEMMA SyncStepInstall ==
    ASSUME SyncIInv, NEW p \in Syncs, Install(p)
    PROVE  SyncIInv'
<1> USE DEF Install, SyncIInv, SyncTypeOK, SyncStages, SyncInv, SyncTo, Disturbs
<1>1. Empty \in Content
  BY DEF Empty, Content
<1>2. SyncTypeOK'
  BY <1>1
<1>3. sync'[p] = "copy" /\ new'[p] = staged
  OBVIOUS
<1>4. ASSUME ~ misread, ~ overtaken', ~ halved
      PROVE  calm[p] /\ new'[p].own = byHand
  <2>1. calm[p] /\ ~ overtaken
    BY <1>4
  <2>2. authorized.own = byHand
    BY <2>1, <1>4 DEF OwnKeysKept
  <2>3. staged = [own |-> authorized.own, block |-> keys[p]]
    BY <2>1, <1>4
  <2>4. QED
    BY <1>3, <2>1, <2>2, <2>3
<1>5. OwnKeysKept'
  BY <1>3, <1>4 DEF OwnKeysKept
<1>6. BlockConverges'
  BY DEF BlockConverges
<1>7. SyncInv'
  <2>1. SUFFICES ASSUME NEW q \in Syncs PROVE SyncInv!(q)'
    BY DEF SyncInv
  <2>2. CASE q # p
    BY <2>2
  <2>3. CASE q = p
    <3>1. ASSUME calm[p] PROVE \A r \in Syncs \ {p} : sync'[r] # "copy"
      OBVIOUS
    <3>2. calm[p] /\ ~ misread => new'[p].block = keys[p]
      OBVIOUS
    <3>3. QED
      BY <1>3, <1>4, <2>3, <3>1, <3>2, AuthAssumption
  <2>4. QED
    BY <2>2, <2>3
<1>8. QED
  BY <1>2, <1>5, <1>6, <1>7

\* What it had in hand is there, unless its file was removed in turn.
LEMMA SyncStepInstalled ==
    ASSUME SyncIInv, NEW p \in Syncs, Installed(p)
    PROVE  SyncIInv'
<1> USE DEF Installed, SyncIInv, SyncTypeOK, SyncStages, SyncInv, SyncTo, Disturbs
<1>1. SyncTypeOK'
  OBVIOUS
<1>2. calm[p] => sync[p] = "copy" /\ authorized' = new[p]
  OBVIOUS
<1>3. OwnKeysKept'
  <2>1. SUFFICES ASSUME ~ misread, ~ overtaken', ~ halved
                 PROVE  authorized'.own = byHand
    BY DEF OwnKeysKept
  <2>2. calm[p] /\ ~ overtaken
    BY <2>1
  <2>3. QED
    BY <1>2, <2>1, <2>2
<1>4. BlockConverges'
  BY <1>2 DEF BlockConverges
<1>5. SyncInv'
  OBVIOUS
<1>6. QED
  BY <1>1, <1>3, <1>4, <1>5

\* It ends, between two steps or in the middle of one; and vm.json and the
\* file are edited by hand.
LEMMA SyncStepCut ==
    ASSUME SyncIInv, NEW p \in Syncs, CutShort(p)
    PROVE  SyncIInv'
<1> USE DEF CutShort, Ends, SyncIInv, SyncTypeOK, SyncStages, SyncInv, SyncTo
<1>1. Part(new[p]) \subseteq Content
  BY DEF Part, Content
<1>2. SyncTypeOK'
  BY <1>1
<1>3. OwnKeysKept'
  BY DEF OwnKeysKept
<1>4. BlockConverges' /\ SyncInv'
  BY DEF BlockConverges
<1>5. QED
  BY <1>2, <1>3, <1>4

LEMMA SyncStepStop ==
    ASSUME SyncIInv, NEW p \in Syncs, SyncEnds(p)
    PROVE  SyncIInv'
BY DEF SyncEnds, Ends, told, SyncIInv, SyncTypeOK, SyncStages, OwnKeysKept, BlockConverges, SyncInv, SyncTo

LEMMA SyncStepEdit ==
    ASSUME SyncIInv, EditListed \/ EditKeys \/ UNCHANGED syncVars
    PROVE  SyncIInv'
<1> USE DEF SyncIInv, SyncTypeOK, OwnKeysKept, BlockConverges, SyncInv, told
<1>1. CASE EditListed
  BY <1>1 DEF EditListed
<1>2. CASE EditKeys
  BY <1>2 DEF EditKeys, Content
<1>3. CASE UNCHANGED syncVars
  BY <1>3 DEF syncVars
<1>4. QED
  BY <1>1, <1>2, <1>3

LEMMA SyncNextInv == SyncIInv /\ [SyncNext]_syncVars => SyncIInv'
BY SyncStepBegin, SyncStepRead, SyncStepStage, SyncStepInstall, SyncStepInstalled, SyncStepCut, SyncStepStop,
   SyncStepEdit DEF SyncNext

\* The inductive invariant holds in every interleaving of runs, failed
\* connections and edits by hand.
THEOREM SyncInductive == SyncSpec => []SyncIInv
<1>1. SyncInit => SyncIInv
  BY SyncInitInv
<1>2. SyncIInv /\ [SyncNext]_syncVars => SyncIInv'
  BY SyncNextInv
<1>3. QED
  BY <1>1, <1>2, PTL DEF SyncSpec

-----------------------------------------------------------------------------
(* What a reader should take away.                                         *)

\* The file, the staging file and the processes are well typed; in particular
\* no malformed key of vm.json reaches the VM.
THEOREM SyncTypeCorrect == SyncSpec => []SyncTypeOK
<1>1. SyncIInv => SyncTypeOK
  BY DEF SyncIInv
<1>2. QED
  BY <1>1, SyncInductive, PTL

\* pushAuthorizedKeys never touches the keys outside the managed block, but
\* for the failed connection and the overtaken run that OwnKeysKept names.
THEOREM OwnKeysSafe == SyncSpec => []OwnKeysKept
<1>1. SyncIInv => OwnKeysKept
  BY DEF SyncIInv
<1>2. QED
  BY <1>1, SyncInductive, PTL

\* An undisturbed start or update leaves exactly the valid keys of vm.json in
\* the managed block.
THEOREM Converges == SyncSpec => []BlockConverges
<1>1. SyncIInv => BlockConverges
  BY DEF SyncIInv
<1>2. QED
  BY <1>1, SyncInductive, PTL

-----------------------------------------------------------------------------
(* The assets, recorded on the VM in an exclude block.                     *)

\* A part of a tree has the files of the tree that are in the part.
LEMMA PartOf ==
    ASSUME NEW t \in Trees, NEW fs \in SUBSET Files
    PROVE  /\ Only(t, fs) \in Trees
           /\ Present(Only(t, fs)) = Present(t) \cap fs
           /\ fs = Present(t) => Only(t, fs) = t
<1>1. /\ Only(t, fs) \in Trees
      /\ Present(Only(t, fs)) = Present(t) \cap fs
  BY DEF Only, Trees, Present
<1>2. ASSUME fs = Present(t)
      PROVE  Only(t, fs) = t
  <2>1. \A f \in Files : Only(t, fs)[f] = t[f]
    BY <1>2 DEF Only, Present
  <2>2. QED
    BY <2>1, <1>1 DEF Trees
<1>3. QED
  BY <1>1, <1>2

\* A VM nothing was pushed to.
LEMMA PushInitInv == PushInit => PushIInv
<1>1. SUFFICES ASSUME PushInit PROVE PushIInv
  OBVIOUS
<1>2. NoTree \in Trees /\ Present(NoTree) = {}
  BY DEF NoTree, Trees, Present
<1>3. PushTypeOK
  BY <1>1, <1>2 DEF PushInit, PushTypeOK
<1>4. PushInv /\ RecordsInv /\ OverlayInv /\ DigestInv
  BY <1>1, <1>2 DEF PushInit, PushInv, RecordsInv, OverlayInv, DigestInv, Script
<1>5. CurrentIsCurrent /\ PushedIsLocal
  BY <1>1 DEF PushInit, CurrentIsCurrent, PushedIsLocal
<1>6. QED
  BY <1>3, <1>4, <1>5 DEF PushIInv

\* What the host does before a script runs: nothing changes but what the run
\* itself has in hand.
LEMMA PushStepHost ==
    ASSUME PushIInv, NEW p \in Pushes, BeginPush(p) \/ ListTree(p) \/ Digest(p)
    PROVE  PushIInv'
<1> USE DEF PushIInv, PushTypeOK, PushTo, Script
<1>1. /\ push' \in [Pushes -> {"idle", "none", "list", "sum", "compare", "current", "scp", "pushed"}
                                 \cup Script]
      /\ push[p] \notin Script /\ push'[p] \in {"none", "list", "sum", "compare"}
      /\ \A q \in Pushes \ {p} : push'[q] = push[q] /\ rels'[q] = rels[q] /\ sum'[q] = sum[q]
                                /\ quiet'[q] = quiet[q]
      /\ UNCHANGED <<checkout, local, vm, exclude, digest, copy, broken, strays, crossed>>
  BY DEF BeginPush, ListTree, Digest
<1>2. local # NoDir => local \in Trees
  OBVIOUS
<1>3. Present(local) \subseteq Files
  BY DEF Present
<1>4. PushTypeOK'
  <2>1. CASE BeginPush(p)
    BY <2>1 DEF BeginPush
  <2>2. CASE ListTree(p)
    BY <1>3, <2>2 DEF ListTree
  <2>3. CASE Digest(p)
    BY <1>2, <2>3, PartOf DEF Digest
  <2>4. QED
    BY <2>1, <2>2, <2>3
<1>5. PushInv'
  <2>1. CASE BeginPush(p)
    BY <2>1 DEF BeginPush, PushInv
  <2>2. CASE ListTree(p)
    BY <2>2 DEF ListTree, PushInv
  <2>3. CASE Digest(p)
    <3>1. rels[p] \subseteq Present(local) /\ push[p] = "sum" /\ local \in Trees
      BY <2>3 DEF Digest
    <3>2. /\ Present(Only(local, rels[p])) = rels[p]
          /\ quiet[p] => Only(local, rels[p]) = local
      <4>1. rels[p] \in SUBSET Files /\ rels[p] = Present(local) \cap rels[p]
        BY <3>1
      <4>2. quiet[p] => rels[p] = Present(local)
        BY <3>1 DEF PushInv
      <4>3. QED
        BY <3>1, <4>1, <4>2, PartOf
    <3>3. QED
      BY <2>3, <3>2 DEF Digest, PushInv
  <2>4. QED
    BY <2>1, <2>2, <2>3
<1>6. NoScript' <=> NoScript
  BY <1>1 DEF NoScript
<1>7. OverlayInv' /\ DigestInv'
  BY <1>1, <1>6 DEF OverlayInv, DigestInv, Overlaid, Present
<1>8. CurrentIsCurrent' /\ PushedIsLocal'
  BY <1>1, <1>6 DEF CurrentIsCurrent, PushedIsLocal
<1>9. RecordsInv'
  BY <1>1 DEF RecordsInv
<1>10. QED
  BY <1>4, <1>5, <1>7, <1>8, <1>9

\* A push that finds its digest on the VM: so the tree it digested is there.
LEMMA PushStepCompare ==
    ASSUME PushIInv, NEW p \in Pushes, Compare(p)
    PROVE  PushIInv'
<1> USE DEF PushIInv, PushTypeOK, PushTo, Script, Compare
<1>1. PushTypeOK'
  OBVIOUS
<1>2. PushInv'
  BY DEF PushInv
<1>3. NoScript' <=> NoScript
  BY DEF NoScript
<1>4. OverlayInv' /\ DigestInv'
  BY <1>3 DEF OverlayInv, DigestInv, Overlaid, Present
<1>5. CurrentIsCurrent'
  <2>1. SUFFICES ASSUME NEW q \in Pushes, push'[q] = "current", quiet[q], NoScript,
                        ~ broken, ~ crossed, strays = {}
                 PROVE  vm = local
    BY <1>3 DEF CurrentIsCurrent
  <2>2. CASE push[q] = "current"
    BY <2>1, <2>2 DEF CurrentIsCurrent
  <2>3. CASE push[q] # "current"
    <3>1. q = p /\ digest = sum[p]
      BY <2>1, <2>3
    <3>2. digest \in Trees /\ digest # NoDigest /\ sum[p] = local
      BY <2>1, <3>1, AssetsAssumption DEF PushInv
    <3>3. QED
      BY <2>1, <3>1, <3>2 DEF DigestInv
  <2>4. QED
    BY <2>2, <2>3
<1>6. PushedIsLocal'
  BY DEF PushedIsLocal
<1>7. RecordsInv'
  BY DEF RecordsInv
<1>8. QED
  BY <1>1, <1>2, <1>4, <1>5, <1>6, <1>7

\* The tree goes to the VM; a script begins, alone or else crossed.
LEMMA PushStepStage ==
    ASSUME PushIInv, NEW p \in Pushes, StageTree(p)
    PROVE  PushIInv'
<1> USE DEF PushIInv, PushTypeOK, PushTo, Script, StageTree
<1>1. PushTypeOK'
  OBVIOUS
<1>2. ~ crossed' => ~ crossed /\ local = sum[p] /\ NoScript
  BY DEF NoScript
<1>3. PushInv'
  BY <1>2 DEF PushInv, NoScript
<1>4. ~ NoScript'
  BY DEF NoScript
<1>5. OverlayInv'
  BY <1>2, <1>4 DEF OverlayInv, NoScript, Overlaid, Present
<1>6. DigestInv' /\ CurrentIsCurrent'
  BY <1>4 DEF DigestInv, CurrentIsCurrent
<1>7. PushedIsLocal'
  BY <1>2 DEF PushedIsLocal
<1>8. RecordsInv'
  BY DEF RecordsInv
<1>9. QED
  BY <1>1, <1>3, <1>5, <1>6, <1>7, <1>8

\* A step of a script of a run: of those that were not crossed it is the only
\* one there is, and nobody else is quiet after it.
LEMMA ScriptStep ==
    ASSUME PushIInv, NEW p \in Pushes, push[p] \in Script, Unsettles(p),
           \A q \in Pushes \ {p} : push'[q] = push[q], UNCHANGED <<local, crossed>>
    PROVE  /\ ~ NoScript
           /\ ~ crossed => \A q \in Pushes \ {p} : push[q] \notin Script /\ push'[q] \notin Script
           /\ \A q \in Pushes \ {p} : ~ quiet'[q]
           /\ quiet'[p] = quiet[p]
BY DEF PushIInv, PushTypeOK, PushInv, Unsettles, NoScript

\* The script, step by step: what was recorded goes, so only strays are left ...
LEMMA PushStepRemove ==
    ASSUME PushIInv, NEW p \in Pushes, Remove(p)
    PROVE  PushIInv'
<1> USE DEF PushIInv, PushTypeOK, PushTo, Script, Remove
<1>1. /\ Only(vm, Files \ exclude) \in Trees
      /\ Present(Only(vm, Files \ exclude)) = Present(vm) \ exclude
  <2>1. Files \ exclude \in SUBSET Files /\ vm \in Trees
    OBVIOUS
  <2>2. Present(vm) \cap (Files \ exclude) = Present(vm) \ exclude
    BY DEF Present
  <2>3. QED
    BY <2>1, <2>2, PartOf
<1>2. PushTypeOK'
  BY <1>1 DEF Unsettles
<1>3. /\ ~ crossed => \A q \in Pushes \ {p} : push[q] \notin Script /\ push'[q] \notin Script
      /\ \A q \in Pushes \ {p} : ~ quiet'[q]
      /\ quiet'[p] = quiet[p]
  BY ScriptStep
<1>4. PushInv'
  BY <1>3 DEF PushInv
<1>5. ~ NoScript'
  BY DEF NoScript
<1>6. ~ crossed => Present(vm') \subseteq strays
  BY <1>1 DEF OverlayInv
<1>7. OverlayInv'
  BY <1>3, <1>5, <1>6 DEF OverlayInv
<1>8. DigestInv' /\ CurrentIsCurrent'
  BY <1>5 DEF DigestInv, CurrentIsCurrent
<1>9. PushedIsLocal'
  BY <1>3 DEF PushedIsLocal
<1>10. RecordsInv'
  BY DEF RecordsInv
<1>11. QED
  BY <1>2, <1>4, <1>7, <1>8, <1>9, <1>10

\* ... the tree comes, beside the strays ...
LEMMA PushStepOverlay ==
    ASSUME PushIInv, NEW p \in Pushes, Overlay(p)
    PROVE  PushIInv'
<1> USE DEF PushIInv, PushTypeOK, PushTo, Script, Overlay
<1>1. vm' \in Trees
  BY DEF Trees
<1>2. PushTypeOK'
  BY <1>1 DEF Unsettles
<1>3. /\ ~ crossed => \A q \in Pushes \ {p} : push[q] \notin Script /\ push'[q] \notin Script
      /\ \A q \in Pushes \ {p} : ~ quiet'[q]
      /\ quiet'[p] = quiet[p]
  BY ScriptStep
<1>4. PushInv'
  BY <1>3 DEF PushInv
<1>5. ~ NoScript'
  BY DEF NoScript
<1>6. ~ crossed => \A f \in Files : vm'[f] = copy[p][f] \/ (copy[p][f] = NoAsset /\ f \in strays)
  <2>1. ASSUME ~ crossed, NEW f \in Files, copy[p][f] = NoAsset, f \notin strays
        PROVE  vm'[f] = NoAsset
    <3>1. Present(vm) \subseteq strays
      BY <2>1 DEF OverlayInv
    <3>2. vm[f] = NoAsset
      BY <2>1, <3>1 DEF Present
    <3>3. QED
      BY <2>1, <3>2
  <2>2. QED
    BY <2>1
<1>7. OverlayInv'
  BY <1>3, <1>5, <1>6 DEF OverlayInv, Overlaid
<1>8. DigestInv' /\ CurrentIsCurrent'
  BY <1>5 DEF DigestInv, CurrentIsCurrent
<1>9. PushedIsLocal'
  BY <1>3 DEF PushedIsLocal
<1>10. RecordsInv'
  BY DEF RecordsInv
<1>11. QED
  BY <1>2, <1>4, <1>7, <1>8, <1>9, <1>10

\* ... and it is recorded, in the exclude block and with its digest.
LEMMA PushStepRecord ==
    ASSUME PushIInv, NEW p \in Pushes, RecordExclude(p)
    PROVE  PushIInv'
<1> USE DEF PushIInv, PushTypeOK, PushTo, Script, RecordExclude
<1>1. PushTypeOK'
  BY DEF Unsettles
<1>2. /\ ~ crossed => \A q \in Pushes \ {p} : push[q] \notin Script /\ push'[q] \notin Script
      /\ \A q \in Pushes \ {p} : ~ quiet'[q]
      /\ quiet'[p] = quiet[p]
  BY ScriptStep
<1>3. PushInv'
  BY <1>2 DEF PushInv
<1>4. ~ NoScript'
  BY DEF NoScript
<1>5. OverlayInv'
  BY <1>2, <1>4 DEF OverlayInv, Overlaid
<1>6. DigestInv' /\ CurrentIsCurrent'
  BY <1>4 DEF DigestInv, CurrentIsCurrent
<1>7. PushedIsLocal'
  BY <1>2 DEF PushedIsLocal
<1>8. RecordsInv'
  BY DEF RecordsInv
<1>9. QED
  BY <1>1, <1>3, <1>5, <1>6, <1>7, <1>8

\* What was overlaid is what was listed, and strays.
LEMMA OverlaidPresent ==
    ASSUME NEW t \in Trees, Overlaid(t)
    PROVE  Present(vm) \subseteq Present(t) \cup strays
BY DEF Overlaid, Present

LEMMA PushStepRecordDigest ==
    ASSUME PushIInv, NEW p \in Pushes, RecordDigest(p)
    PROVE  PushIInv'
<1> USE DEF PushIInv, PushTypeOK, PushTo, Script, RecordDigest
<1>1. PushTypeOK'
  BY DEF Unsettles
<1>2. /\ ~ crossed => \A q \in Pushes \ {p} : push[q] \notin Script /\ push'[q] \notin Script
      /\ \A q \in Pushes \ {p} : ~ quiet'[q]
      /\ quiet'[p] = quiet[p]
  BY ScriptStep
<1>3. PushInv'
  BY <1>2 DEF PushInv
<1>4. ~ crossed => Overlaid(copy[p]) /\ exclude = rels[p] /\ copy[p] = sum[p]
                   /\ rels[p] = Present(sum[p])
  BY DEF OverlayInv, PushInv
<1>5. OverlayInv'
  <2>1. ~ crossed => Present(vm) \subseteq exclude \cup strays
    BY <1>4, OverlaidPresent
  <2>2. QED
    BY <1>2, <2>1 DEF OverlayInv, Present
<1>6. DigestInv'
  <2>1. ASSUME ~ crossed, strays = {}
        PROVE  vm = sum[p]
    <3>1. \A f \in Files : vm[f] = sum[p][f]
      BY <1>4, <2>1 DEF Overlaid
    <3>2. QED
      BY <3>1 DEF Trees
  <2>2. QED
    BY <2>1 DEF DigestInv
<1>7. CurrentIsCurrent'
  BY <1>2 DEF CurrentIsCurrent
<1>8. PushedIsLocal'
  <2>1. SUFFICES ASSUME NEW q \in Pushes, push'[q] = "pushed", quiet'[q], ~ crossed, NEW f \in Files
                 PROVE  vm[f] = local[f] \/ (local[f] = NoAsset /\ f \in strays)
    BY DEF PushedIsLocal
  <2>2. q = p /\ copy[p] = local
    BY <1>2, <2>1 DEF PushInv
  <2>3. QED
    BY <1>4, <2>1, <2>2 DEF Overlaid
<1>9. RecordsInv'
  BY DEF RecordsInv
<1>10. QED
  BY <1>1, <1>3, <1>5, <1>6, <1>7, <1>8, <1>9

\* Off a git checkout the script is done with the tree in place, and all of it
\* that no record names is stray.
LEMMA PushStepRecordNothing ==
    ASSUME PushIInv, NEW p \in Pushes, RecordNothing(p)
    PROVE  PushIInv'
<1> USE DEF PushIInv, PushTypeOK, PushTo, Script, RecordNothing
<1>1. strays \subseteq strays' /\ strays' \subseteq Files
  BY DEF Present
<1>2. PushTypeOK'
  BY <1>1 DEF Unsettles
<1>3. /\ ~ crossed => \A q \in Pushes \ {p} : push[q] \notin Script /\ push'[q] \notin Script
      /\ \A q \in Pushes \ {p} : ~ quiet'[q]
      /\ quiet'[p] = quiet[p]
  BY ScriptStep
<1>4. PushInv' /\ RecordsInv'
  BY <1>3 DEF PushInv, RecordsInv
<1>5. ~ crossed => Overlaid(copy[p])
  BY DEF OverlayInv
<1>6. OverlayInv'
  <2>1. ~ crossed => Present(vm) \subseteq exclude \cup strays'
    BY <1>5, OverlaidPresent
  <2>2. QED
    BY <1>3, <2>1 DEF OverlayInv, Present
<1>7. DigestInv'
  BY DEF RecordsInv, DigestInv
<1>8. CurrentIsCurrent'
  BY <1>3 DEF CurrentIsCurrent
<1>9. PushedIsLocal'
  <2>1. SUFFICES ASSUME NEW q \in Pushes, push'[q] = "pushed", quiet'[q], ~ crossed, NEW f \in Files
                 PROVE  vm[f] = local[f] \/ (local[f] = NoAsset /\ f \in strays')
    BY DEF PushedIsLocal
  <2>2. q = p /\ copy[p] = local
    BY <1>3, <2>1 DEF PushInv
  <2>3. QED
    BY <1>1, <1>5, <2>1, <2>2 DEF Overlaid
<1>10. QED
  BY <1>2, <1>4, <1>6, <1>7, <1>8, <1>9

\* A script that fails, or ends under way, leaves what is recorded, or strays.
LEMMA PushStepScriptFails ==
    ASSUME PushIInv, NEW p \in Pushes, ScriptFails(p)
    PROVE  PushIInv'
<1> USE DEF PushIInv, PushTypeOK, PushTo, Script, ClearPush
<1>1. PICK fs \in SUBSET Files :
         LET touched == IF push[p] = "remove" THEN fs \cap exclude ELSE fs \cap Present(copy[p])
         IN  /\ vm' = [f \in Files |->
                         IF f \notin touched THEN vm[f]
                         ELSE IF push[p] = "remove" THEN NoAsset ELSE copy[p][f]]
             /\ strays' = IF push[p] = "remove" THEN strays ELSE strays \cup (touched \ exclude)
  BY DEF ScriptFails
<1>2. /\ push[p] \in {"remove", "overlay"} /\ ClearPush(p) /\ broken' = TRUE /\ Unsettles(p)
      /\ UNCHANGED <<checkout, local, exclude, digest, crossed>>
  BY DEF ScriptFails
<1>3. NoTree \in Trees
  BY DEF NoTree, Trees
<1>4. vm' \in Trees /\ strays' \subseteq Files
  BY <1>1, <1>2 DEF Trees, Present
<1>5. PushTypeOK'
  BY <1>2, <1>3, <1>4 DEF Unsettles
<1>6. /\ ~ crossed => \A q \in Pushes \ {p} : push[q] \notin Script /\ push'[q] \notin Script
      /\ \A q \in Pushes \ {p} : ~ quiet'[q]
      /\ quiet'[p] = quiet[p]
  BY <1>2, ScriptStep
<1>7. PushInv'
  BY <1>2, <1>6 DEF PushInv
<1>8. ~ crossed => Present(vm') \subseteq exclude \cup strays'
  <2>1. CASE push[p] = "remove"
    BY <1>1, <2>1 DEF OverlayInv, Present
  <2>2. CASE push[p] = "overlay"
    BY <1>1, <2>2 DEF OverlayInv, Present
  <2>3. QED
    BY <1>2, <2>1, <2>2
<1>9. OverlayInv'
  BY <1>2, <1>6, <1>8 DEF OverlayInv
<1>10. DigestInv' /\ CurrentIsCurrent'
  BY <1>2 DEF DigestInv, CurrentIsCurrent
<1>11. PushedIsLocal'
  BY <1>2, <1>6 DEF PushedIsLocal
<1>12. RecordsInv'
  BY <1>2 DEF RecordsInv
<1>13. QED
  BY <1>5, <1>7, <1>9, <1>10, <1>11, <1>12

LEMMA PushStepStop ==
    ASSUME PushIInv, NEW p \in Pushes, PushEnds(p)
    PROVE  PushIInv'
<1> USE DEF PushIInv, PushTypeOK, PushTo, Script, ClearPush, PushEnds
<1>1. NoTree \in Trees
  BY DEF NoTree, Trees
<1>2. Present(copy[p]) \subseteq Files
  BY DEF Present
<1>3. PushTypeOK'
  BY <1>1, <1>2
<1>4. PushInv'
  BY DEF PushInv
<1>5. strays \subseteq strays' /\ Present(vm') = Present(vm) /\ Script' = Script
  BY DEF Present
<1>6. ASSUME push[p] \in Script
      PROVE  OverlayInv' /\ DigestInv' /\ CurrentIsCurrent'
  <2>1. ~ crossed => \A q \in Pushes \ {p} : push[q] \notin Script
    BY <1>6 DEF PushInv
  <2>2. ~ crossed => Present(vm) \subseteq exclude \cup strays'
    <3>1. CASE push[p] \in {"remove", "overlay"}
      BY <1>5, <3>1 DEF OverlayInv
    <3>2. CASE push[p] \in {"record", "digest"}
      <4>1. ~ crossed => Present(vm) \subseteq Present(copy[p]) \cup strays
        BY <3>2, OverlaidPresent DEF OverlayInv
      <4>2. CASE push[p] = "record"
        BY <4>1, <4>2
      <4>3. CASE push[p] = "digest"
        <5>1. ~ crossed => exclude = Present(copy[p])
          BY <4>3 DEF OverlayInv, PushInv
        <5>2. QED
          BY <1>5, <4>1, <5>1
      <4>4. QED
        BY <3>2, <4>2, <4>3
    <3>3. QED
      BY <1>6, <3>1, <3>2
  <2>3. OverlayInv'
    BY <1>5, <2>1, <2>2 DEF OverlayInv
  <2>4. DigestInv' /\ CurrentIsCurrent'
    BY <1>6 DEF DigestInv, CurrentIsCurrent
  <2>5. QED
    BY <2>3, <2>4
<1>7. ASSUME push[p] \notin Script
      PROVE  OverlayInv' /\ DigestInv' /\ CurrentIsCurrent'
  <2>1. NoScript' <=> NoScript
    BY <1>7 DEF NoScript
  <2>2. broken' = broken /\ strays' = strays
    BY <1>7
  <2>3. QED
    BY <1>5, <2>1, <2>2 DEF OverlayInv, DigestInv, CurrentIsCurrent, Overlaid
<1>8. PushedIsLocal'
  BY <1>5 DEF PushedIsLocal
<1>9. RecordsInv'
  BY DEF RecordsInv
<1>10. QED
  BY <1>3, <1>4, <1>6, <1>7, <1>8, <1>9

LEMMA PushStepEdit ==
    ASSUME PushIInv, EditTree \/ UNCHANGED pushVars
    PROVE  PushIInv'
<1> USE DEF PushIInv, Script
<1>1. CASE EditTree
  <2> USE DEF EditTree
  <2>1. PushTypeOK'
    BY <1>1 DEF PushTypeOK
  <2>2. PushInv' /\ RecordsInv'
    BY <1>1 DEF PushInv, RecordsInv
  <2>3. NoScript' <=> NoScript
    BY <1>1 DEF NoScript
  <2>4. OverlayInv' /\ DigestInv'
    BY <1>1, <2>3 DEF OverlayInv, DigestInv, Overlaid, Present
  <2>5. CurrentIsCurrent' /\ PushedIsLocal'
    BY <1>1 DEF CurrentIsCurrent, PushedIsLocal
  <2>6. QED
    BY <2>1, <2>2, <2>4, <2>5
<1>2. CASE UNCHANGED pushVars
  BY <1>2 DEF pushVars, PushTypeOK, PushInv, RecordsInv, NoScript, OverlayInv, DigestInv, Overlaid,
              Present, CurrentIsCurrent, PushedIsLocal
<1>3. QED
  BY <1>1, <1>2

LEMMA PushNextInv == PushIInv /\ [PushNext]_pushVars => PushIInv'
BY PushStepHost, PushStepCompare, PushStepStage, PushStepRemove, PushStepOverlay, PushStepRecord,
   PushStepRecordDigest, PushStepRecordNothing, PushStepScriptFails, PushStepStop, PushStepEdit
   DEF PushNext

\* The inductive invariant holds however pushes are interrupted, repeated and
\* overlap, and whenever the developer's tree changes.
THEOREM PushInductive == PushSpec => []PushIInv
<1>1. PushInit => PushIInv
  BY PushInitInv
<1>2. PushIInv /\ [PushNext]_pushVars => PushIInv'
  BY PushNextInv
<1>3. QED
  BY <1>1, <1>2, PTL DEF PushSpec

\* A push that finds the VM's digest to be that of the tree, and copies nothing,
\* leaves the VM with that very tree, unless a script is at work or was broken
\* off, or one of the events happened that CurrentIsCurrent names.
THEOREM CurrentTree == PushSpec => []CurrentIsCurrent
<1>1. PushIInv => CurrentIsCurrent
  BY DEF PushIInv
<1>2. QED
  BY <1>1, PushInductive, PTL

\* A push that ran to its end takes out what is no longer in the tree, whatever
\* broken pushes came before it, but for strays.
THEOREM PushedTree == PushSpec => []PushedIsLocal
<1>1. PushIInv => PushedIsLocal
  BY DEF PushIInv
<1>2. QED
  BY <1>1, PushInductive, PTL
=============================================================================
