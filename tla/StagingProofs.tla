---------------------------- MODULE StagingProofs ----------------------------
(***************************************************************************)
(* What staging a file promises, proved for any processes and contents.    *)
(* AloneInv is the argument for FinalIsWhole: until two runs overlap, the  *)
(* temporary file is the business of one run only, so what that run renames*)
(* is what it wrote or verified.  CalmInv carries an undisturbed run from  *)
(* what it read to what it put in place, and CameInv remembers that a run  *)
(* which is still at work had found the file missing.                      *)
(***************************************************************************)
EXTENDS Staging, TLAPS

USE StagingAssumption

LEMMA InitInv == Init => IInv
<1>1. SUFFICES ASSUME Init PROVE IInv
  OBVIOUS
<1>2. source \in Values \cup {Absent} /\ kind \in Kinds
  BY <1>1 DEF Init
<1>3. TypeOK
  BY <1>1, <1>2 DEF Init, TypeOK, Stages, Busy
<1>4. FinalIsWhole /\ PlacedIsWanted
  BY <1>1 DEF Init, FinalIsWhole, PlacedIsWanted
<1>5. WhereInv /\ AloneInv /\ CalmInv /\ CameInv
  BY <1>1 DEF Init, WhereInv, AloneInv, CalmInv, CameInv, Busy, Placed
<1>6. QED
  BY <1>3, <1>4, <1>5 DEF IInv

LEMMA StepLook ==
    ASSUME IInv, NEW p \in Procs, Look(p)
    PROVE  IInv'
<1> USE DEF Look, Step, Needed, IInv, TypeOK, Busy, Placed, files
<1>1. TypeOK'
  <2>1. pc'[p] \in {"done", "clear", "open"} /\ (pc'[p] = "open" => source # Absent)
    BY DEF Kinds
  <2>2. pc' \in [Procs -> Stages] /\ want' \in [Procs -> Values \cup {Absent, Torn}]
    BY <2>1 DEF Stages
  <2>3. QED
    BY <2>1, <2>2 DEF Kinds
<1>2. FinalIsWhole'
  BY DEF FinalIsWhole, WhereInv
<1>3. PlacedIsWanted'
  <2>1. SUFFICES ASSUME NEW q \in Procs, pc'[q] = "done", calm'[q], ~ missed'
                 PROVE  /\ kind' = "mirror" => final' = source'
                        /\ kind' = "env" => source' \in {final', Absent}
                        /\ kind' \in {"image", "installer"} => final' # Absent
    BY DEF PlacedIsWanted
  <2>2. CASE q # p
    BY <2>1, <2>2 DEF PlacedIsWanted
  <2>3. CASE q = p
    BY <2>1, <2>3 DEF PlacedIsWanted, WhereInv, CalmInv, CameInv
  <2>4. QED
    BY <2>2, <2>3
<1>4. WhereInv'
  BY DEF WhereInv
<1>5. AloneInv'
  BY DEF AloneInv, WhereInv
<1>6. CalmInv'
  <2>1. SUFFICES ASSUME NEW q \in Procs, calm'[q]
                 PROVE  /\ pc'[q] # "idle" => want'[q] = source'
                        /\ pc'[q] = "copy" => where'[q] = Target' /\ ~ spoilt'[q]
                        /\ pc'[q] = "place" /\ kind' = "mirror" => staged' = want'[q]
                        /\ pc'[q] = "install" => where'[q] = "final" /\ ~ spoilt'[q]
                        /\ pc'[q] = "tidy" => final' = want'[q]
    BY DEF CalmInv
  <2>2. CASE q # p
    BY <2>1, <2>2 DEF CalmInv, Target
  <2>3. CASE q = p
    BY <2>1, <2>3 DEF CalmInv, WhereInv, Target
  <2>4. QED
    BY <2>2, <2>3
<1>7. CameInv'
  BY DEF CameInv, WhereInv
<1>8. QED
  BY <1>1, <1>2, <1>3, <1>4, <1>5, <1>6, <1>7

LEMMA StepOpen ==
    ASSUME IInv, NEW p \in Procs, Open(p)
    PROVE  IInv'
<1> USE DEF Open, Step, Target, Disturbs, Comes, IInv, TypeOK, Busy, Placed, files
<1>1. TypeOK'
  BY DEF Stages, Kinds, WhereInv
<1>2. FinalIsWhole'
  BY DEF FinalIsWhole, WhereInv
<1>3. PlacedIsWanted'
  BY DEF PlacedIsWanted, WhereInv
<1>4. WhereInv'
  BY DEF WhereInv
<1>5. AloneInv'
  BY DEF AloneInv, WhereInv
<1>6. CalmInv'
  BY DEF CalmInv, WhereInv
<1>7. CameInv'
  BY DEF CameInv, WhereInv
<1>8. QED
  BY <1>1, <1>2, <1>3, <1>4, <1>5, <1>6, <1>7

LEMMA StepFinish ==
    ASSUME IInv, NEW p \in Procs, Finish(p)
    PROVE  IInv'
<1> USE DEF Finish, Step, AfterCopy, Disturbs, Comes, IInv, TypeOK, Busy, Placed, files
<1>1. TypeOK'
  BY DEF Stages, Kinds, WhereInv
<1>2. FinalIsWhole'
  BY DEF FinalIsWhole, WhereInv
<1>3. PlacedIsWanted'
  <2>1. SUFFICES ASSUME NEW q \in Procs, pc'[q] = "done", calm'[q], ~ missed'
                 PROVE  /\ kind' = "mirror" => final' = source'
                        /\ kind' = "env" => source' \in {final', Absent}
                        /\ kind' \in {"image", "installer"} => final' # Absent
    BY DEF PlacedIsWanted
  <2>2. CASE q # p
    BY <2>1, <2>2 DEF PlacedIsWanted
  <2>3. CASE q = p
    <3>1. kind = "env" /\ final' = source
      <4>1. kind = "env" /\ pc[p] = "copy" /\ calm[p]
        BY <2>1, <2>3
      <4>2. want[p] = source /\ where[p] = "final" /\ ~ spoilt[p]
        BY <4>1 DEF CalmInv, Target
      <4>3. final' \in {want[p]}
        BY <4>1, <4>2
      <4>4. QED
        BY <4>1, <4>2, <4>3
    <3>2. QED
      BY <3>1
  <2>4. QED
    BY <2>2, <2>3
<1>4. WhereInv'
  <2>1. SUFFICES ASSUME NEW q \in Procs
                 PROVE  /\ spoilt'[q] => pc'[q] \in {"copy", "install"}
                        /\ where'[q] = "final" => \/ kind' = "env"
                                                  \/ Placed' /\ raced' /\ final' # Absent
                                                  \/ kind' = "mirror" /\ pc'[q] = "install"
                        /\ pc'[q] \in {"install", "tidy"} => kind' = "mirror"
                        /\ kind' = "env" => where'[q] # "staged" /\ pc'[q] \notin {"verify", "place", "clear"}
                        /\ pc'[q] = "verify" => kind' = "image"
                        /\ pc'[q] = "clear" => kind' = "mirror" /\ want'[q] = Absent
    BY DEF WhereInv
  <2>2. CASE q # p
    BY <2>1, <2>2 DEF WhereInv
  <2>3. CASE q = p
    BY <2>1, <2>3 DEF WhereInv
  <2>4. QED
    BY <2>2, <2>3
<1>5. AloneInv'
  <2>1. SUFFICES ASSUME ~ raced', kind' # "env", NEW r \in Procs
                 PROVE  /\ \A q \in Procs : {pc'[r], pc'[q]} \subseteq Busy => r = q
                        /\ ~ spoilt'[r]
                        /\ pc'[r] = "copy" => where'[r] = "staged"
                        /\ pc'[r] = "place" => /\ staged' # Torn
                                               /\ kind' = "image" => staged' = source'
    BY DEF AloneInv
  <2>2. /\ ~ raced /\ kind # "env"
        /\ \A q \in Procs : pc[q] \in Busy => q = p
    BY <2>1 DEF AloneInv
  <2>3. /\ \A q \in Procs : pc'[q] \in Busy => pc[q] \in Busy
        /\ \A q \in Procs : ~ spoilt[q]
    BY <2>1 DEF AloneInv
  <2>4. ~ spoilt'[r]
    BY <2>2, <2>3 DEF WhereInv
  <2>5. CASE r # p
    BY <2>2, <2>3, <2>4, <2>5
  <2>6. CASE r = p
    <3>1. pc'[p] = "place" => staged' # Torn /\ kind # "image"
      <4>1. where[p] = "staged" /\ ~ spoilt[p] /\ want[p] \in Values \cup {Absent, Torn}
        BY <2>1, <2>2, <2>3 DEF AloneInv
      <4>2. pc'[p] = "place" => kind # "image" /\ staged' = want[p]
        BY <4>1
      <4>3. want[p] # Torn
        BY <2>2
      <4>4. QED
        BY <4>2, <4>3
    <3>2. QED
      BY <2>1, <2>2, <2>3, <2>4, <2>6, <3>1
  <2>7. QED
    BY <2>5, <2>6
<1>6. CalmInv'
  <2>1. SUFFICES ASSUME NEW q \in Procs, calm'[q]
                 PROVE  /\ pc'[q] # "idle" => want'[q] = source'
                        /\ pc'[q] = "copy" => where'[q] = Target' /\ ~ spoilt'[q]
                        /\ pc'[q] = "place" /\ kind' = "mirror" => staged' = want'[q]
                        /\ pc'[q] = "install" => where'[q] = "final" /\ ~ spoilt'[q]
                        /\ pc'[q] = "tidy" => final' = want'[q]
    BY DEF CalmInv
  <2>2. CASE q # p
    BY <2>1, <2>2 DEF CalmInv, Target
  <2>3. CASE q = p
    BY <2>1, <2>3 DEF CalmInv, WhereInv, Target
  <2>4. QED
    BY <2>2, <2>3
<1>7. CameInv'
  BY DEF CameInv, WhereInv
<1>8. QED
  BY <1>1, <1>2, <1>3, <1>4, <1>5, <1>6, <1>7

LEMMA StepCurlFails ==
    ASSUME IInv, NEW p \in Procs, CurlFails(p)
    PROVE  IInv'
<1> USE DEF CurlFails, Discard, Disturbs, Moved, IInv, TypeOK, Busy, Placed, files
<1>1. TypeOK'
  BY DEF Stages, Kinds, WhereInv
<1>2. FinalIsWhole'
  BY DEF FinalIsWhole, WhereInv
<1>3. PlacedIsWanted'
  BY DEF PlacedIsWanted, WhereInv
<1>4. WhereInv'
  <2>1. SUFFICES ASSUME NEW q \in Procs
                 PROVE  /\ spoilt'[q] => pc'[q] \in {"copy", "install"}
                        /\ where'[q] = "final" => \/ kind' = "env"
                                                  \/ Placed' /\ raced' /\ final' # Absent
                                                  \/ kind' = "mirror" /\ pc'[q] = "install"
                        /\ pc'[q] \in {"install", "tidy"} => kind' = "mirror"
                        /\ kind' = "env" => where'[q] # "staged" /\ pc'[q] \notin {"verify", "place", "clear"}
                        /\ pc'[q] = "verify" => kind' = "image"
                        /\ pc'[q] = "clear" => kind' = "mirror" /\ want'[q] = Absent
    BY DEF WhereInv
  <2>2. CASE q # p
    BY <2>1, <2>2 DEF WhereInv
  <2>3. CASE q = p
    BY <2>1, <2>3 DEF WhereInv
  <2>4. QED
    BY <2>2, <2>3
<1>5. AloneInv'
  BY DEF AloneInv, WhereInv
<1>6. CalmInv'
  BY DEF CalmInv, WhereInv
<1>7. CameInv'
  BY DEF CameInv, WhereInv
<1>8. QED
  BY <1>1, <1>2, <1>3, <1>4, <1>5, <1>6, <1>7

LEMMA StepVerify ==
    ASSUME IInv, NEW p \in Procs, Verify(p)
    PROVE  IInv'
<1> USE DEF Verify, Discard, Disturbs, Moved, Step, IInv, TypeOK, Busy, Placed, files
<1>1. TypeOK'
  <2>1. CASE staged = source
    BY <2>1 DEF Stages, Kinds
  <2>2. CASE staged # source
    <3>1. /\ staged' = Absent /\ UNCHANGED <<kind, source, final, raced, missed>>
          /\ pc' = [pc EXCEPT ![p] = "idle"] /\ want' = [want EXCEPT ![p] = Absent]
          /\ where' = [[q \in Procs |-> IF where[q] = "staged" THEN "gone" ELSE where[q]]
                         EXCEPT ![p] = "closed"]
          /\ spoilt' = [spoilt EXCEPT ![p] = FALSE] /\ came' = [came EXCEPT ![p] = FALSE]
          /\ calm' = [q \in Procs |-> q = p /\ calm[q] /\ pc'[q] # "idle"]
      BY <2>2
    <3>2. /\ where' \in [Procs -> {"closed", "staged", "final", "gone"}]
          /\ \A q \in Procs : where'[q] # "closed" <=> pc'[q] \in {"copy", "install"}
      BY <3>1
    <3>3. pc' \in [Procs -> Stages] /\ want' \in [Procs -> Values \cup {Absent, Torn}]
      BY <3>1 DEF Stages
    <3>4. \A q \in Procs : pc'[q] \in {"open"} \cup Busy => want'[q] # Absent
      BY <3>1
    <3>5. spoilt' \in [Procs -> BOOLEAN] /\ calm' \in [Procs -> BOOLEAN] /\ came' \in [Procs -> BOOLEAN]
      BY <3>1
    <3>6. QED
      BY <3>1, <3>2, <3>3, <3>4, <3>5 DEF Kinds
  <2>3. QED
    BY <2>1, <2>2
<1>2. FinalIsWhole'
  <2>1. UNCHANGED <<kind, source, final, raced>>
    OBVIOUS
  <2>2. QED
    BY <2>1 DEF FinalIsWhole
<1>3. PlacedIsWanted'
  BY DEF PlacedIsWanted, WhereInv
<1>4. WhereInv'
  <2>1. SUFFICES ASSUME NEW q \in Procs
                 PROVE  /\ spoilt'[q] => pc'[q] \in {"copy", "install"}
                        /\ where'[q] = "final" => \/ kind' = "env"
                                                  \/ Placed' /\ raced' /\ final' # Absent
                                                  \/ kind' = "mirror" /\ pc'[q] = "install"
                        /\ pc'[q] \in {"install", "tidy"} => kind' = "mirror"
                        /\ kind' = "env" => where'[q] # "staged" /\ pc'[q] \notin {"verify", "place", "clear"}
                        /\ pc'[q] = "verify" => kind' = "image"
                        /\ pc'[q] = "clear" => kind' = "mirror" /\ want'[q] = Absent
    BY DEF WhereInv
  <2>2. CASE q # p
    BY <2>1, <2>2 DEF WhereInv
  <2>3. CASE q = p
    BY <2>1, <2>3 DEF WhereInv
  <2>4. QED
    BY <2>2, <2>3
<1>5. AloneInv'
  BY DEF AloneInv, WhereInv
<1>6. CalmInv'
  <2>1. SUFFICES ASSUME NEW q \in Procs, calm'[q]
                 PROVE  /\ pc'[q] # "idle" => want'[q] = source'
                        /\ pc'[q] = "copy" => where'[q] = Target' /\ ~ spoilt'[q]
                        /\ pc'[q] = "place" /\ kind' = "mirror" => staged' = want'[q]
                        /\ pc'[q] = "install" => where'[q] = "final" /\ ~ spoilt'[q]
                        /\ pc'[q] = "tidy" => final' = want'[q]
    BY DEF CalmInv
  <2>2. CASE q # p
    BY <2>1, <2>2 DEF CalmInv, Target
  <2>3. CASE q = p
    BY <2>1, <2>3 DEF CalmInv, WhereInv, Target
  <2>4. QED
    BY <2>2, <2>3
<1>7. CameInv'
  BY DEF CameInv, WhereInv
<1>8. QED
  BY <1>1, <1>2, <1>3, <1>4, <1>5, <1>6, <1>7

LEMMA StepRename ==
    ASSUME IInv, NEW p \in Procs, Rename(p)
    PROVE  IInv'
<1> USE DEF Rename, Step, Disturbs, Comes, IInv, TypeOK, Busy, Placed, files
<1>1. TypeOK'
  BY DEF Stages, Kinds, WhereInv
<1>2. FinalIsWhole'
  <2>1. ~ raced => staged # Torn /\ (kind = "image" => staged = source)
    BY DEF AloneInv
  <2>2. QED
    BY <2>1 DEF FinalIsWhole
<1>3. PlacedIsWanted'
  <2>1. SUFFICES ASSUME NEW q \in Procs, pc'[q] = "done", calm'[q], ~ missed'
                 PROVE  /\ kind' = "mirror" => final' = source'
                        /\ kind' = "env" => source' \in {final', Absent}
                        /\ kind' \in {"image", "installer"} => final' # Absent
    BY DEF PlacedIsWanted
  <2>2. CASE q # p
    BY <2>1, <2>2 DEF PlacedIsWanted
  <2>3. CASE q = p
    BY <2>1, <2>3 DEF PlacedIsWanted, WhereInv, CalmInv, CameInv
  <2>4. QED
    BY <2>2, <2>3
<1>4. WhereInv'
  <2>1. SUFFICES ASSUME NEW q \in Procs
                 PROVE  /\ spoilt'[q] => pc'[q] \in {"copy", "install"}
                        /\ where'[q] = "final" => \/ kind' = "env"
                                                  \/ Placed' /\ raced' /\ final' # Absent
                                                  \/ kind' = "mirror" /\ pc'[q] = "install"
                        /\ pc'[q] \in {"install", "tidy"} => kind' = "mirror"
                        /\ kind' = "env" => where'[q] # "staged" /\ pc'[q] \notin {"verify", "place", "clear"}
                        /\ pc'[q] = "verify" => kind' = "image"
                        /\ pc'[q] = "clear" => kind' = "mirror" /\ want'[q] = Absent
    BY DEF WhereInv
  <2>2. where'[q] = "final" => where[q] = "staged" /\ pc[q] = "copy" /\ q # p
    BY DEF WhereInv
  <2>3. pc[q] = "copy" /\ q # p => raced
    BY DEF AloneInv
  <2>4. QED
    BY <2>2, <2>3 DEF WhereInv
<1>5. AloneInv'
  BY DEF AloneInv, WhereInv
<1>6. CalmInv'
  BY DEF CalmInv, WhereInv
<1>7. CameInv'
  BY DEF CameInv, WhereInv
<1>8. QED
  BY <1>1, <1>2, <1>3, <1>4, <1>5, <1>6, <1>7

LEMMA StepInstall ==
    ASSUME IInv, NEW p \in Procs, Install(p)
    PROVE  IInv'
<1> USE DEF Install, Step, Disturbs, Comes, Moved, IInv, TypeOK, Busy, Placed, files
<1>1. TypeOK'
  <2>1. want' \in [Procs -> Values \cup {Absent, Torn}] /\ want'[p] # Absent
    OBVIOUS
  <2>2. /\ where' \in [Procs -> {"closed", "staged", "final", "gone"}]
        /\ \A q \in Procs : where'[q] # "closed" <=> pc'[q] \in {"copy", "install"}
    OBVIOUS
  <2>3. pc' \in [Procs -> Stages]
    BY DEF Stages
  <2>4. \A q \in Procs : pc'[q] \in {"open"} \cup Busy => want'[q] # Absent
    BY <2>1
  <2>5. QED
    BY <2>1, <2>2, <2>3, <2>4 DEF Kinds
<1>2. FinalIsWhole'
  <2>1. kind' = "mirror"
    OBVIOUS
  <2>2. QED
    BY <2>1 DEF FinalIsWhole
<1>3. PlacedIsWanted'
  <2>1. SUFFICES ASSUME NEW q \in Procs, pc'[q] = "done", calm'[q], ~ missed'
                 PROVE  /\ kind' = "mirror" => final' = source'
                        /\ kind' = "env" => source' \in {final', Absent}
                        /\ kind' \in {"image", "installer"} => final' # Absent
    BY DEF PlacedIsWanted
  <2>2. CASE q # p
    BY <2>1, <2>2 DEF PlacedIsWanted
  <2>3. CASE q = p
    BY <2>1, <2>3 DEF PlacedIsWanted, WhereInv, CalmInv, CameInv
  <2>4. QED
    BY <2>2, <2>3
<1>4. WhereInv'
  <2>1. SUFFICES ASSUME NEW q \in Procs
                 PROVE  /\ spoilt'[q] => pc'[q] \in {"copy", "install"}
                        /\ where'[q] = "final" => \/ kind' = "env"
                                                  \/ Placed' /\ raced' /\ final' # Absent
                                                  \/ kind' = "mirror" /\ pc'[q] = "install"
                        /\ pc'[q] \in {"install", "tidy"} => kind' = "mirror"
                        /\ kind' = "env" => where'[q] # "staged" /\ pc'[q] \notin {"verify", "place", "clear"}
                        /\ pc'[q] = "verify" => kind' = "image"
                        /\ pc'[q] = "clear" => kind' = "mirror" /\ want'[q] = Absent
    BY DEF WhereInv
  <2>2. CASE q # p
    BY <2>1, <2>2 DEF WhereInv
  <2>3. CASE q = p
    BY <2>1, <2>3 DEF WhereInv
  <2>4. QED
    BY <2>2, <2>3
<1>5. AloneInv'
  BY DEF AloneInv, WhereInv
<1>6. CalmInv'
  BY DEF CalmInv, WhereInv
<1>7. CameInv'
  BY DEF CameInv, WhereInv
<1>8. QED
  BY <1>1, <1>2, <1>3, <1>4, <1>5, <1>6, <1>7

LEMMA StepInstalled ==
    ASSUME IInv, NEW p \in Procs, Installed(p)
    PROVE  IInv'
<1> USE DEF Installed, Step, Disturbs, Comes, IInv, TypeOK, Busy, Placed, files
<1>1. TypeOK'
  BY DEF Stages, Kinds, WhereInv
<1>2. FinalIsWhole'
  <2>1. kind' = "mirror"
    BY DEF WhereInv
  <2>2. QED
    BY <2>1 DEF FinalIsWhole
<1>3. PlacedIsWanted'
  <2>1. SUFFICES ASSUME NEW q \in Procs, pc'[q] = "done", calm'[q], ~ missed'
                 PROVE  /\ kind' = "mirror" => final' = source'
                        /\ kind' = "env" => source' \in {final', Absent}
                        /\ kind' \in {"image", "installer"} => final' # Absent
    BY DEF PlacedIsWanted
  <2>2. CASE q # p
    BY <2>1, <2>2 DEF PlacedIsWanted
  <2>3. CASE q = p
    BY <2>1, <2>3 DEF PlacedIsWanted, WhereInv, CalmInv, CameInv
  <2>4. QED
    BY <2>2, <2>3
<1>4. WhereInv'
  <2>1. SUFFICES ASSUME NEW q \in Procs
                 PROVE  /\ spoilt'[q] => pc'[q] \in {"copy", "install"}
                        /\ where'[q] = "final" => \/ kind' = "env"
                                                  \/ Placed' /\ raced' /\ final' # Absent
                                                  \/ kind' = "mirror" /\ pc'[q] = "install"
                        /\ pc'[q] \in {"install", "tidy"} => kind' = "mirror"
                        /\ kind' = "env" => where'[q] # "staged" /\ pc'[q] \notin {"verify", "place", "clear"}
                        /\ pc'[q] = "verify" => kind' = "image"
                        /\ pc'[q] = "clear" => kind' = "mirror" /\ want'[q] = Absent
    BY DEF WhereInv
  <2>2. CASE q # p
    BY <2>1, <2>2 DEF WhereInv
  <2>3. CASE q = p
    BY <2>1, <2>3 DEF WhereInv
  <2>4. QED
    BY <2>2, <2>3
<1>5. AloneInv'
  BY DEF AloneInv, WhereInv
<1>6. CalmInv'
  <2>1. SUFFICES ASSUME NEW q \in Procs, calm'[q]
                 PROVE  /\ pc'[q] # "idle" => want'[q] = source'
                        /\ pc'[q] = "copy" => where'[q] = Target' /\ ~ spoilt'[q]
                        /\ pc'[q] = "place" /\ kind' = "mirror" => staged' = want'[q]
                        /\ pc'[q] = "install" => where'[q] = "final" /\ ~ spoilt'[q]
                        /\ pc'[q] = "tidy" => final' = want'[q]
    BY DEF CalmInv
  <2>2. CASE q # p
    BY <2>1, <2>2 DEF CalmInv, Target
  <2>3. CASE q = p
    BY <2>1, <2>3 DEF CalmInv, WhereInv, Target
  <2>4. QED
    BY <2>2, <2>3
<1>7. CameInv'
  BY DEF CameInv, WhereInv
<1>8. QED
  BY <1>1, <1>2, <1>3, <1>4, <1>5, <1>6, <1>7

LEMMA StepTidy ==
    ASSUME IInv, NEW p \in Procs, Tidy(p)
    PROVE  IInv'
<1> USE DEF Tidy, Step, Disturbs, Moved, IInv, TypeOK, Busy, Placed, files
<1>1. TypeOK'
  BY DEF Stages, Kinds, WhereInv
<1>2. FinalIsWhole'
  BY DEF FinalIsWhole
<1>3. PlacedIsWanted'
  <2>1. SUFFICES ASSUME NEW q \in Procs, pc'[q] = "done", calm'[q], ~ missed'
                 PROVE  /\ kind' = "mirror" => final' = source'
                        /\ kind' = "env" => source' \in {final', Absent}
                        /\ kind' \in {"image", "installer"} => final' # Absent
    BY DEF PlacedIsWanted
  <2>2. CASE q # p
    BY <2>1, <2>2 DEF PlacedIsWanted
  <2>3. CASE q = p
    BY <2>1, <2>3 DEF PlacedIsWanted, WhereInv, CalmInv, CameInv
  <2>4. QED
    BY <2>2, <2>3
<1>4. WhereInv'
  <2>1. SUFFICES ASSUME NEW q \in Procs
                 PROVE  /\ spoilt'[q] => pc'[q] \in {"copy", "install"}
                        /\ where'[q] = "final" => \/ kind' = "env"
                                                  \/ Placed' /\ raced' /\ final' # Absent
                                                  \/ kind' = "mirror" /\ pc'[q] = "install"
                        /\ pc'[q] \in {"install", "tidy"} => kind' = "mirror"
                        /\ kind' = "env" => where'[q] # "staged" /\ pc'[q] \notin {"verify", "place", "clear"}
                        /\ pc'[q] = "verify" => kind' = "image"
                        /\ pc'[q] = "clear" => kind' = "mirror" /\ want'[q] = Absent
    BY DEF WhereInv
  <2>2. CASE q # p
    BY <2>1, <2>2 DEF WhereInv
  <2>3. CASE q = p
    BY <2>1, <2>3 DEF WhereInv
  <2>4. QED
    BY <2>2, <2>3
<1>5. AloneInv'
  BY DEF AloneInv, WhereInv
<1>6. CalmInv'
  <2>1. SUFFICES ASSUME NEW q \in Procs, calm'[q]
                 PROVE  /\ pc'[q] # "idle" => want'[q] = source'
                        /\ pc'[q] = "copy" => where'[q] = Target' /\ ~ spoilt'[q]
                        /\ pc'[q] = "place" /\ kind' = "mirror" => staged' = want'[q]
                        /\ pc'[q] = "install" => where'[q] = "final" /\ ~ spoilt'[q]
                        /\ pc'[q] = "tidy" => final' = want'[q]
    BY DEF CalmInv
  <2>2. CASE q # p
    BY <2>1, <2>2 DEF CalmInv, Target
  <2>3. CASE q = p
    BY <2>1, <2>3 DEF CalmInv, WhereInv, Target
  <2>4. QED
    BY <2>2, <2>3
<1>7. CameInv'
  BY DEF CameInv, WhereInv
<1>8. QED
  BY <1>1, <1>2, <1>3, <1>4, <1>5, <1>6, <1>7

LEMMA StepClear ==
    ASSUME IInv, NEW p \in Procs, Clear(p)
    PROVE  IInv'
<1> USE DEF Clear, Step, Disturbs, Moved, IInv, TypeOK, Busy, Placed, files
<1>1. TypeOK'
  <2>1. /\ where' \in [Procs -> {"closed", "staged", "final", "gone"}]
        /\ \A q \in Procs : where'[q] # "closed" <=> pc'[q] \in {"copy", "install"}
    OBVIOUS
  <2>2. pc' \in [Procs -> Stages]
    BY DEF Stages
  <2>3. \A q \in Procs : pc'[q] \in {"open"} \cup Busy => want'[q] # Absent
    OBVIOUS
  <2>4. QED
    BY <2>1, <2>2, <2>3 DEF Kinds
<1>2. FinalIsWhole'
  BY DEF FinalIsWhole, WhereInv
<1>3. PlacedIsWanted'
  <2>1. SUFFICES ASSUME NEW q \in Procs, pc'[q] = "done", calm'[q], ~ missed'
                 PROVE  /\ kind' = "mirror" => final' = source'
                        /\ kind' = "env" => source' \in {final', Absent}
                        /\ kind' \in {"image", "installer"} => final' # Absent
    BY DEF PlacedIsWanted
  <2>2. CASE q # p
    BY <2>1, <2>2 DEF PlacedIsWanted
  <2>3. CASE q = p
    BY <2>1, <2>3 DEF PlacedIsWanted, WhereInv, CalmInv, CameInv
  <2>4. QED
    BY <2>2, <2>3
<1>4. WhereInv'
  <2>1. SUFFICES ASSUME NEW q \in Procs
                 PROVE  /\ spoilt'[q] => pc'[q] \in {"copy", "install"}
                        /\ where'[q] = "final" => \/ kind' = "env"
                                                  \/ Placed' /\ raced' /\ final' # Absent
                                                  \/ kind' = "mirror" /\ pc'[q] = "install"
                        /\ pc'[q] \in {"install", "tidy"} => kind' = "mirror"
                        /\ kind' = "env" => where'[q] # "staged" /\ pc'[q] \notin {"verify", "place", "clear"}
                        /\ pc'[q] = "verify" => kind' = "image"
                        /\ pc'[q] = "clear" => kind' = "mirror" /\ want'[q] = Absent
    BY DEF WhereInv
  <2>2. CASE q # p
    BY <2>1, <2>2 DEF WhereInv
  <2>3. CASE q = p
    BY <2>1, <2>3 DEF WhereInv
  <2>4. QED
    BY <2>2, <2>3
<1>5. AloneInv'
  <2>1. SUFFICES ASSUME ~ raced', kind' # "env", NEW r \in Procs
                 PROVE  /\ \A q \in Procs : {pc'[r], pc'[q]} \subseteq Busy => r = q
                        /\ ~ spoilt'[r]
                        /\ pc'[r] = "copy" => where'[r] = "staged"
                        /\ pc'[r] = "place" => /\ staged' # Torn
                                               /\ kind' = "image" => staged' = source'
    BY DEF AloneInv
  <2>2. \A q \in Procs : pc'[q] \in Busy => pc'[q] = pc[q]
    OBVIOUS
  <2>3. pc'[r] = "copy" => pc[r] = "copy" /\ where[r] = "staged"
    BY <2>1, <2>2 DEF AloneInv
  <2>4. QED
    BY <2>1, <2>2, <2>3 DEF AloneInv
<1>6. CalmInv'
  BY DEF CalmInv, WhereInv
<1>7. CameInv'
  BY DEF CameInv, WhereInv
<1>8. QED
  BY <1>1, <1>2, <1>3, <1>4, <1>5, <1>6, <1>7

LEMMA StepStop ==
    ASSUME IInv, NEW p \in Procs, Stop(p)
    PROVE  IInv'
<1> USE DEF Stop, End, KeepsCalm, IInv, TypeOK, Busy, Placed, files
<1>1. TypeOK'
  BY DEF Stages, Kinds, WhereInv
<1>2. FinalIsWhole'
  BY DEF FinalIsWhole, WhereInv
<1>3. PlacedIsWanted'
  BY DEF PlacedIsWanted, WhereInv
<1>4. WhereInv'
  BY DEF WhereInv
<1>5. AloneInv'
  BY DEF AloneInv, WhereInv
<1>6. CalmInv'
  <2>1. SUFFICES ASSUME NEW q \in Procs, calm'[q]
                 PROVE  /\ pc'[q] # "idle" => want'[q] = source'
                        /\ pc'[q] = "copy" => where'[q] = Target' /\ ~ spoilt'[q]
                        /\ pc'[q] = "place" /\ kind' = "mirror" => staged' = want'[q]
                        /\ pc'[q] = "install" => where'[q] = "final" /\ ~ spoilt'[q]
                        /\ pc'[q] = "tidy" => final' = want'[q]
    BY DEF CalmInv
  <2>2. CASE q # p
    BY <2>1, <2>2 DEF CalmInv, Target
  <2>3. CASE q = p
    BY <2>1, <2>3 DEF CalmInv, WhereInv, Target
  <2>4. QED
    BY <2>2, <2>3
<1>7. CameInv'
  BY DEF CameInv, WhereInv
<1>8. QED
  BY <1>1, <1>2, <1>3, <1>4, <1>5, <1>6, <1>7

LEMMA StepWorld ==
    ASSUME IInv, EditSource \/ MakeArchive \/ UNCHANGED vars
    PROVE  IInv'
<1> USE DEF IInv, TypeOK, FinalIsWhole, PlacedIsWanted, WhereInv, AloneInv, CalmInv, CameInv,
            Placed, Target, files
<1>1. CASE EditSource
  BY <1>1 DEF EditSource
<1>2. CASE MakeArchive
  <2>1. TypeOK'
    BY <1>2 DEF MakeArchive, Comes, Busy
  <2>2. FinalIsWhole' /\ PlacedIsWanted' /\ CalmInv'
    BY <1>2 DEF MakeArchive, Comes, Busy
  <2>3. WhereInv'
    BY <1>2 DEF MakeArchive
  <2>4. AloneInv'
    BY <1>2 DEF MakeArchive, Busy
  <2>5. CameInv'
    BY <1>2 DEF MakeArchive, Comes, Busy
  <2>6. QED
    BY <2>1, <2>2, <2>3, <2>4, <2>5
<1>3. CASE UNCHANGED vars
  BY <1>3 DEF vars
<1>4. QED
  BY <1>1, <1>2, <1>3

LEMMA NextInv == IInv /\ [Next]_vars => IInv'
BY StepLook, StepOpen, StepFinish, StepCurlFails, StepVerify, StepRename, StepInstall, StepInstalled,
   StepTidy, StepClear, StepStop, StepWorld DEF Next

\* The inductive invariant holds for all four kinds of file, in every
\* interleaving of runs that end anywhere.
THEOREM Inductive == Spec => []IInv
<1>1. Init => IInv
  BY InitInv
<1>2. IInv /\ [Next]_vars => IInv'
  BY NextInv
<1>3. QED
  BY <1>1, <1>2, PTL DEF Spec

-----------------------------------------------------------------------------
(* What a reader should take away.                                         *)

\* Files and processes are well typed, and a run that copies has something to
\* copy.
THEOREM TypeCorrect == Spec => []TypeOK
<1>1. IInv => TypeOK
  BY DEF IInv
<1>2. QED
  BY <1>1, Inductive, PTL

\* ensureBaseArchive and pushInstallers never show a file under its own name
\* before it is whole (and the archive verified), unless two of them overlap or
\* the installer is replaced on the host while scp reads it.
THEOREM Whole == Spec => []FinalIsWhole
<1>1. IInv => FinalIsWhole
  BY DEF IInv
<1>2. QED
  BY <1>1, Inductive, PTL

\* An undisturbed pushOCIMirror or pushEnvFile leaves what is configured.
THEOREM Wanted == Spec => []PlacedIsWanted
<1>1. IInv => PlacedIsWanted
  BY DEF IInv
<1>2. QED
  BY <1>1, Inductive, PTL

\* A process that changes an installer or an image that is there had looked
\* before it came.
LEMMA ReplacedBy ==
    ASSUME IInv, [Next]_vars, final # Absent, final' # final, Placed
    PROVE  \E p \in Procs : came[p] /\ pc'[p] # pc[p]
<1> USE DEF IInv, TypeOK, CameInv, Placed, Busy, Step
<1>1. CASE UNCHANGED vars \/ EditSource \/ MakeArchive
  BY <1>1 DEF EditSource, MakeArchive, files, vars
<1>2. CASE ~ (UNCHANGED vars \/ EditSource \/ MakeArchive)
  <2>1. PICK p \in Procs : \/ Look(p) \/ Verify(p) \/ CurlFails(p) \/ Stop(p)
                           \/ Open(p) \/ Install(p) \/ Clear(p)
                           \/ Installed(p) \/ Tidy(p) \/ Finish(p) \/ Rename(p)
    BY <1>2 DEF Next
  <2>2. CASE Look(p) \/ Verify(p) \/ CurlFails(p) \/ Stop(p)
    BY <2>2 DEF Look, Verify, CurlFails, Discard, Stop, files
  <2>3. CASE Open(p) \/ Install(p) \/ Installed(p) \/ Tidy(p) \/ Clear(p)
    BY <2>3 DEF Open, Target, Install, Installed, Tidy, Clear, WhereInv
  <2>4. CASE Finish(p)
    <3>1. pc[p] = "copy" /\ pc'[p] # "copy"
      BY <2>4 DEF Finish, AfterCopy
    <3>2. QED
      BY <3>1
  <2>5. CASE Rename(p)
    <3>1. pc[p] = "place" /\ pc'[p] # "place"
      BY <2>5 DEF Rename
    <3>2. QED
      BY <3>1
  <2>6. QED
    BY <2>1, <2>2, <2>3, <2>4, <2>5
<1>3. QED
  BY <1>1, <1>2

\* Nothing is ever removed or replaced, as pushInstallers says, but by a run
\* that was overtaken while it copied.
THEOREM NeverReplaced == Spec => NothingReplaced
<1>1. IInv /\ [Next]_vars =>
        [final # Absent /\ final' # final /\ kind \in {"image", "installer"}
         => \E p \in Procs : came[p] /\ pc'[p] # pc[p]]_vars
  BY ReplacedBy DEF Placed
<1>2. QED
  BY <1>1, Inductive, PTL DEF Spec, NothingReplaced
=============================================================================
