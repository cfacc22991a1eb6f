--------------------------- MODULE RecoveryProofs ---------------------------
(***************************************************************************)
(* Proofs about the end of the process and the next Open, for every value  *)
(* of the constants.                                                       *)
(***************************************************************************)
EXTENDS RecoveryInv, EngineProofs, WellFoundedInduction

USE DEF dirVars, dbVars, writerVars, compactorVars, recVars, Writing

----------------------------------------------------------------------------
(* Induction.  The provers cannot instantiate an induction theorem with a  *)
(* predicate, but they can with a set: every non-empty set of naturals has *)
(* a least element.                                                        *)

\* A non-empty set of natural numbers has a least element.
LEMMA Least ==
  ASSUME NEW S \in SUBSET Nat, S # {}
  PROVE  \E m \in S : \A n \in S : m <= n
  <1> DEFINE R == {ss \in Nat \X Nat : ss[1] < ss[2]}
  <1>1. IsWellFoundedOn(R, Nat)
    BY NatLessThanWellFounded DEF OpToRel
  <1> HIDE DEF R
  <1>2. PICK m \in S : \A y \in S : ~(<<y, m>> \in R)
    BY <1>1, WFMin
  <1>3. \A y \in S : ~(y < m)
    <2> SUFFICES ASSUME NEW y \in S, y < m
                 PROVE  <<y, m>> \in R
      BY <1>2
    <2>1. <<y, m>> \in Nat \X Nat
      OBVIOUS
    <2>2. QED
      BY <2>1 DEF R
  <1>4. QED
    BY <1>3

\* Induction up to n: a set that has 0 and with p - 1 also p has them all.
LEMMA UpTo ==
  ASSUME NEW n \in Nat, NEW P, 0 \in P, \A p \in 1 .. n : p - 1 \in P => p \in P
  PROVE  \A p \in 0 .. n : p \in P
  <1> DEFINE S == (0 .. n) \ P
  <1> SUFFICES ASSUME S # {}
               PROVE  FALSE
    OBVIOUS
  <1>1. S \in SUBSET Nat
    OBVIOUS
  <1>2. PICK m \in S : \A p \in S : m <= p
    BY <1>1, Least
  <1>3. m \in 1 .. n
    BY <1>2
  <1>4. m - 1 \in 0 .. n /\ m - 1 \notin S
    BY <1>2, <1>3
  <1>5. QED
    BY <1>2, <1>3, <1>4

\* F gives the next of a series of members of V from the last, and its
\* number.
IsStep(F, V, n) == F \in [V \X (1 .. n) -> V]

\* g is the series up to n that starts with a.
IsSeries(g, V, a, n, F) ==
  /\ g \in [0 .. n -> V]
  /\ g[0] = a
  /\ \A p \in 1 .. n : g[p] = F[<<g[p - 1], p>>]

\* A function defined by recursion exists, and has the type of its step.
LEMMA Recursion ==
  ASSUME NEW V, NEW a \in V, NEW n \in Nat, NEW F, IsStep(F, V, n)
  PROVE  \E g : IsSeries(g, V, a, n, F)
  <1> USE DEF IsStep, IsSeries
  <1> DEFINE Up(g, m) == IsSeries(g, V, a, m, F)
  <1> DEFINE P == {m \in 0 .. n : \E g : Up(g, m)}
  <1>1. 0 \in P
    <2> DEFINE z == [p \in 0 .. 0 |-> a]
    <2>1. z \in [0 .. 0 -> V] /\ z[0] = a
      OBVIOUS
    <2>2. \A p \in 1 .. 0 : FALSE
      OBVIOUS
    <2> HIDE DEF z
    <2>3. Up(z, 0)
      BY <2>1, <2>2
    <2>4. QED
      BY <2>3
  <1>2. ASSUME NEW m \in 1 .. n, m - 1 \in P
        PROVE  m \in P
    <2>1. PICK g : Up(g, m - 1)
      BY <1>2
    <2> DEFINE w == F[<<g[m - 1], m>>]
    <2> DEFINE h == [p \in 0 .. m |-> IF p = m THEN w ELSE g[p]]
    <2>2. g[m - 1] \in V
      BY <2>1
    <2>3. w \in V
      BY <2>2
    <2>4. \A p \in 0 .. m - 1 : g[p] \in V
      BY <2>1
    <2> HIDE DEF w
    <2>5. h \in [0 .. m -> V]
      BY <2>3, <2>4
    <2>6. h[0] = a
      BY <2>1
    <2>7. ASSUME NEW p \in 1 .. m
          PROVE  h[p] = F[<<h[p - 1], p>>]
      <3>1. h[p - 1] = g[p - 1]
        <4>1. p - 1 \in 0 .. m /\ p - 1 # m
          OBVIOUS
        <4>2. QED
          BY <4>1
      <3>2. CASE p = m
        <4>1. h[p] = w
          BY <3>2
        <4>2. QED
          BY <3>1, <3>2, <4>1 DEF w
      <3>3. CASE p # m
        <4>1. p \in 1 .. m - 1
          BY <3>3
        <4>2. QED
          BY <2>1, <3>1, <3>3, <4>1
      <3>4. QED
        BY <3>2, <3>3
    <2> HIDE DEF h
    <2>8. Up(h, m)
      BY <2>5, <2>6, <2>7
    <2>9. QED
      BY <2>8
  <1>3. n \in P
    <2> HIDE DEF P
    <2>1. \A p \in 0 .. n : p \in P
      BY <1>1, <1>2, UpTo
    <2>2. QED
      BY <2>1
  <1>4. QED
    BY <1>3

\* A set of integers with a lower and an upper bound has a maximum.
LEMMA MaxFacts ==
  ASSUME NEW S \in SUBSET Int, S # {}, NEW n \in Nat, \A x \in S : x >= -1 /\ x <= n
  PROVE  Max(S) \in S /\ \A x \in S : Max(S) >= x
  <1> DEFINE U == {m \in Nat : \A x \in S : x <= m - 1}
  <1>1. n + 1 \in U
    OBVIOUS
  <1>2. PICK m \in U : \A u \in U : m <= u
    BY <1>1, Least
  <1>3. \E x \in S : x = m - 1
    <2> SUFFICES ASSUME \A x \in S : x # m - 1
                 PROVE  FALSE
      OBVIOUS
    <2>1. m # 0
      <3>1. PICK x \in S : x >= -1
        OBVIOUS
      <3>2. m \in Nat /\ x <= m - 1 /\ x \in Int /\ x # m - 1
        BY <1>2
      <3>3. QED
        BY <3>1, <3>2
    <2>2. m - 1 \in U
      <3>1. m \in Nat /\ m - 1 \in Nat /\ \A x \in S : x <= m - 1
        BY <1>2, <2>1
      <3>2. \A x \in S : x \in Int /\ x # m - 1
        OBVIOUS
      <3>3. \A x \in S : x <= m - 1 - 1
        BY <3>1, <3>2
      <3>4. QED
        BY <3>1, <3>3
    <2>3. QED
      BY <1>2, <2>2
  <1>4. m - 1 \in S /\ \A x \in S : m - 1 >= x
    BY <1>2, <1>3
  <1>5. QED
    BY <1>4 DEF Max

----------------------------------------------------------------------------
(* What replay computes.                                                   *)

\* Where the entry at position p of segment i is.
Spot(i, p) == [file |-> i, pos |-> p, t |-> file[i][p].t]

\* The entries of a well typed directory.
LEMMA DirEntry ==
  ASSUME RTypeOK, NEW i \in Ids, NEW p \in DOMAIN file[i]
  PROVE  /\ file[i][p] \in Entry
         /\ file[i][p].key \in Keys
         /\ file[i][p].t \in Nat
         /\ p \in Nat \ {0}
         /\ p <= Len(file[i])
         /\ Spot(i, p) \in Loc
  <1>1. file[i] \in Seq(Entry)
    BY DEF RTypeOK
  <1>2. file[i][p] \in Entry /\ p \in Nat \ {0} /\ p <= Len(file[i])
    BY <1>1
  <1>3. QED
    BY <1>2 DEF Entry, Spot, Loc

\* The positions of a segment file.
LEMMA DirDomain ==
  ASSUME RTypeOK, NEW i \in Ids
  PROVE  Len(file[i]) \in Nat /\ DOMAIN file[i] = 1 .. Len(file[i])
  <1>1. file[i] \in Seq(Entry)
    BY DEF RTypeOK
  <1>2. QED
    BY <1>1

\* Replaying one entry leaves a keydir.
LEMMA EntryStep ==
  ASSUME NEW kd \in [Keys -> Loc], NEW e \in Entry, NEW loc \in Loc
  PROVE  ReplayEntry(kd, e, loc) \in [Keys -> Loc]
  BY NoEntryType DEF ReplayEntry, Entry

\* recoverSegment goes through the entries of a file one by one.
LEMMA DataUnfolds ==
  ASSUME RTypeOK, NEW i \in Ids, NEW kd \in [Keys -> Loc]
  PROVE  \E f \in [0 .. Len(file[i]) -> [Keys -> Loc]] :
           /\ f[0] = kd
           /\ \A p \in 1 .. Len(file[i]) :
                f[p] = ReplayEntry(f[p - 1], file[i][p], Spot(i, p))
           /\ ReplayData(kd, i) = f[Len(file[i])]
  <1> DEFINE V == [Keys -> Loc]
  <1>1. PICK n \in Nat : n = Len(file[i]) /\ DOMAIN file[i] = 1 .. n
    BY DirDomain
  <1> DEFINE F == [vp \in V \X (1 .. n) |->
                     ReplayEntry(vp[1], file[i][vp[2]], Spot(i, vp[2]))]
  <1>2. \A v \in V : \A p \in 1 .. n : ReplayEntry(v, file[i][p], Spot(i, p)) \in V
    <2> HIDE DEF V
    <2> SUFFICES ASSUME NEW v \in V, NEW p \in 1 .. n
                 PROVE  ReplayEntry(v, file[i][p], Spot(i, p)) \in V
      OBVIOUS
    <2>1. file[i][p] \in Entry /\ Spot(i, p) \in Loc
      BY <1>1, DirEntry
    <2>2. QED
      BY <2>1, EntryStep DEF V
  <1> HIDE DEF V
  <1>3. IsStep(F, V, n)
    BY <1>2 DEF IsStep
  <1>4. \A v \in V : \A p \in 1 .. n :
          F[<<v, p>>] = ReplayEntry(v, file[i][p], Spot(i, p))
    OBVIOUS
  <1> HIDE DEF F
  <1>5. PICK g \in [0 .. n -> V] :
          g[0] = kd /\ \A p \in 1 .. n : g[p] = F[<<g[p - 1], p>>]
    <2>1. kd \in V
      BY DEF V
    <2>2. QED
      BY <1>1, <1>3, <2>1, Recursion DEF IsSeries
  <1>6. \A p \in 1 .. n : g[p - 1] \in V
    BY <1>5
  <1>7. \A p \in 1 .. n : g[p] = ReplayEntry(g[p - 1], file[i][p], Spot(i, p))
    BY <1>4, <1>5, <1>6
  <1>8. \A p \in 0 .. n :
          g[p] = IF p = 0 THEN kd ELSE ReplayEntry(g[p - 1], file[i][p], Spot(i, p))
    BY <1>5, <1>7
  <1>9. g = [p \in 0 .. n |->
               IF p = 0 THEN kd ELSE ReplayEntry(g[p - 1], file[i][p], Spot(i, p))]
    BY <1>5, <1>8
  <1>10. PICK f : /\ f = [p \in 0 .. n |->
                       IF p = 0 THEN kd ELSE ReplayEntry(f[p - 1], file[i][p], Spot(i, p))]
                  /\ ReplayData(kd, i) = f[n]
    BY <1>1, <1>9, Zenon DEF ReplayData, Spot
  <1>11. /\ f[0] = kd
         /\ \A p \in 1 .. n : f[p] = ReplayEntry(f[p - 1], file[i][p], Spot(i, p))
    BY <1>10
  <1>12. \A p \in 0 .. n : f[p] \in V
    <2> DEFINE P == {p \in 0 .. n : f[p] \in V}
    <2>1. 0 \in P
      BY <1>11 DEF V
    <2>2. \A p \in 1 .. n : p - 1 \in P => p \in P
      BY <1>2, <1>11
    <2> HIDE DEF P
    <2>3. \A p \in 0 .. n : p \in P
      BY <2>1, <2>2, UpTo
    <2>4. QED
      BY <2>3 DEF P
  <1>13. f \in [0 .. n -> V]
    BY <1>10, <1>12
  <1>14. QED
    BY <1>1, <1>10, <1>11, <1>13 DEF V

\* What a hint does to one key.
LEMMA HintStep ==
  ASSUME NEW i, NEW kd, NEW k \in Keys
  PROVE  \/ /\ ReplayHint(kd, i)[k] = kd[k]
            /\ \A h \in hint[i] : ~(h.key = k /\ h.t >= kd[k].t)
         \/ \E h \in hint[i] :
               /\ h.key = k /\ h.t >= kd[k].t
               /\ ReplayHint(kd, i)[k] = [file |-> i, pos |-> h.pos, t |-> h.t]
  <1> DEFINE H == {h \in hint[i] : h.key = k /\ h.t >= kd[k].t}
  <1> DEFINE c == CHOOSE h \in H : TRUE
  <1>1. ReplayHint(kd, i)[k] = IF H = {} THEN kd[k]
                               ELSE [file |-> i, pos |-> c.pos, t |-> c.t]
    BY DEF ReplayHint
  <1>2. CASE H = {}
    BY <1>1, <1>2
  <1>3. CASE H # {}
    <2>1. c \in H
      BY <1>3
    <2> HIDE DEF c
    <2>2. QED
      BY <1>1, <1>3, <2>1
  <1>4. QED
    BY <1>2, <1>3

\* Replaying one segment, from its hint or its data, leaves a keydir.
LEMMA SegmentStep ==
  ASSUME RTypeOK, NEW i \in Ids, NEW kd \in [Keys -> Loc], NEW act
  PROVE  ReplaySegment(kd, i, act) \in [Keys -> Loc]
  <1>1. ReplayData(kd, i) \in [Keys -> Loc]
    <2>1. PICK f \in [0 .. Len(file[i]) -> [Keys -> Loc]] :
            ReplayData(kd, i) = f[Len(file[i])]
      BY DataUnfolds
    <2>2. QED
      BY <2>1, DirDomain
  <1>2. ReplayHint(kd, i) \in [Keys -> Loc]
    <2>1. ReplayHint(kd, i) = [k \in Keys |-> ReplayHint(kd, i)[k]]
      BY DEF ReplayHint
    <2>2. \A h \in hint[i] : [file |-> i, pos |-> h.pos, t |-> h.t] \in Loc
      BY DEF RTypeOK, HintEntry, Loc
    <2>3. \A k \in Keys : ReplayHint(kd, i)[k] \in Loc
      <3> SUFFICES ASSUME NEW k \in Keys
                   PROVE  ReplayHint(kd, i)[k] \in Loc
        OBVIOUS
      <3>1. kd[k] \in Loc
        OBVIOUS
      <3>2. \/ ReplayHint(kd, i)[k] = kd[k]
            \/ \E h \in hint[i] :
                  ReplayHint(kd, i)[k] = [file |-> i, pos |-> h.pos, t |-> h.t]
        BY HintStep
      <3>3. QED
        BY <2>2, <3>1, <3>2
    <2>4. QED
      BY <2>1, <2>3
  <1>3. QED
    BY <1>1, <1>2 DEF ReplaySegment

\* recover goes through the live segments by ascending id.
LEMMA ReplayUnfolds ==
  ASSUME RTypeOK, NEW live \in SUBSET Ids, NEW act
  PROVE  \E f \in [0 .. MaxSegId + 1 -> [Keys -> Loc]] :
           /\ f[0] = [k \in Keys |-> NoEntry]
           /\ \A n \in 1 .. MaxSegId + 1 :
                f[n] = IF n - 1 \notin live THEN f[n - 1]
                       ELSE ReplaySegment(f[n - 1], n - 1, act)
           /\ Replay(live, act) = f[MaxSegId + 1]
  <1> DEFINE V == [Keys -> Loc]
  <1> DEFINE a == [k \in Keys |-> NoEntry]
  <1> DEFINE Step(v, n) == IF n - 1 \notin live THEN v ELSE ReplaySegment(v, n - 1, act)
  <1>1. PICK m \in Nat : m = MaxSegId + 1 /\ Ids = 0 .. m - 1
    BY IdAssumption DEF Ids
  <1>2. \A v \in V : \A n \in 1 .. m : Step(v, n) \in V
    BY <1>1, SegmentStep
  <1>3. a \in V
    BY NoEntryType
  <1> DEFINE F == [vp \in V \X (1 .. m) |-> Step(vp[1], vp[2])]
  <1> HIDE DEF V, Step
  <1>4. IsStep(F, V, m)
    BY <1>2 DEF IsStep
  <1>5. \A v \in V : \A n \in 1 .. m : F[<<v, n>>] = Step(v, n)
    OBVIOUS
  <1> HIDE DEF F, a
  <1>6. PICK g \in [0 .. m -> V] :
          g[0] = a /\ \A n \in 1 .. m : g[n] = F[<<g[n - 1], n>>]
    BY <1>1, <1>3, <1>4, Recursion DEF IsSeries
  <1>7. \A n \in 1 .. m : g[n - 1] \in V
    BY <1>6
  <1>8. \A n \in 0 .. m : g[n] = IF n = 0 THEN a ELSE Step(g[n - 1], n)
    <2>1. \A n \in 1 .. m : g[n] = Step(g[n - 1], n)
      BY <1>5, <1>6, <1>7
    <2>2. QED
      BY <1>1, <1>6, <2>1
  <1>9. g = [n \in 0 .. m |-> IF n = 0 THEN a ELSE Step(g[n - 1], n)]
    BY <1>6, <1>8
  <1>10. g = [n \in 0 .. MaxSegId + 1 |->
                IF n = 0 THEN [k \in Keys |-> NoEntry]
                ELSE IF n - 1 \notin live THEN g[n - 1]
                ELSE ReplaySegment(g[n - 1], n - 1, act)]
    BY <1>1, <1>9, Zenon DEF Step, a
  <1>11. PICK f : /\ f = [n \in 0 .. MaxSegId + 1 |->
                            IF n = 0 THEN [k \in Keys |-> NoEntry]
                            ELSE IF n - 1 \notin live THEN f[n - 1]
                            ELSE ReplaySegment(f[n - 1], n - 1, act)]
                  /\ Replay(live, act) = f[MaxSegId + 1]
    BY <1>10, Zenon DEF Replay
  <1>12. f = [n \in 0 .. m |-> IF n = 0 THEN a ELSE Step(f[n - 1], n)]
    BY <1>1, <1>11, Zenon DEF Step, a
  <1>13. f[0] = a /\ \A n \in 1 .. m : f[n] = Step(f[n - 1], n)
    BY <1>12
  <1>14. \A n \in 0 .. m : f[n] \in V
    <2> DEFINE P == {n \in 0 .. m : f[n] \in V}
    <2>1. 0 \in P
      BY <1>3, <1>13
    <2>2. \A n \in 1 .. m : n - 1 \in P => n \in P
      BY <1>2, <1>13
    <2> HIDE DEF P
    <2>3. \A n \in 0 .. m : n \in P
      BY <2>1, <2>2, UpTo
    <2>4. QED
      BY <2>3 DEF P
  <1>15. f \in [0 .. m -> V]
    BY <1>12, <1>14
  <1>16. QED
    BY <1>1, <1>11, <1>13, <1>15 DEF V, a, Step

\* Replay leaves a keydir.
LEMMA ReplayType ==
  ASSUME RTypeOK, NEW live \in SUBSET Ids, NEW act
  PROVE  Replay(live, act) \in [Keys -> Loc]
  <1>1. PICK f \in [0 .. MaxSegId + 1 -> [Keys -> Loc]] :
          Replay(live, act) = f[MaxSegId + 1]
    BY ReplayUnfolds
  <1>2. QED
    BY <1>1, IdAssumption

----------------------------------------------------------------------------
(* First layer: the directory.                                             *)

\* What the running engine keeps true of the directory for the next Open.
LEMMA UpDisk ==
  ASSUME CoreInv
  PROVE  /\ manifest # NoManifest
         /\ manifest.active \in manifest.segs
         /\ manifest.segs \subseteq segFiles
         /\ torn \subseteq {manifest.active}
  <1> USE DEF CoreInv
  <1>1. manifest.active \in Ids
    BY DEF TypeOK
  <1>2. manifest # NoManifest
    BY <1>1, IdFacts DEF NoManifest
  <1>3. next # NoSeg => next \in segFiles /\ torn = {}
    BY DEF OwnershipInv
  <1>4. Publishing => Merged \subseteq segFiles
    BY DEF OwnershipInv, ControlInv, Merged
  <1>5. segments \subseteq segFiles /\ active \in segments \ candidates /\ torn \subseteq {active}
    BY DEF OwnershipInv
  <1>6. wpc = "rotatePublish" => next # NoSeg
    BY DEF ControlInv
  <1>7. manifest.active \in manifest.segs
    BY <1>5, <1>6 DEF ManifestInv
  <1>8. manifest.segs \subseteq segFiles
    BY <1>3, <1>4, <1>5, <1>6 DEF ManifestInv
  <1>9. torn \subseteq {manifest.active}
    BY <1>3, <1>5, <1>6 DEF ManifestInv
  <1>10. QED
    BY <1>2, <1>7, <1>8, <1>9

\* While the engine runs it answers for the directory.
LEMMA UpDiskInv == CoreInv => DiskInv
  BY UpDisk DEF DiskInv

\* The merged segment has entries of candidates, so no step of the engine
\* makes a timestamp out of nothing.
LEMMA StampsStep == CoreInv /\ StampsBounded /\ [Next]_vars => StampsBounded'
  <1> SUFFICES ASSUME CoreInv, StampsBounded, [Next]_vars
               PROVE  StampsBounded'
    OBVIOUS
  <1> USE DEF StampsBounded
  <1>0. /\ file \in [Ids -> Seq(Entry)]
        /\ hint \in [Ids -> SUBSET HintEntry]
        /\ lastTstamp \in Nat /\ nextID \in Nat /\ active \in Ids
        /\ newSeg \in Ids \cup {NoSeg} /\ next \in Ids \cup {NoSeg}
        /\ rewrites \subseteq Rewrite
    BY DEF CoreInv, TypeOK
  <1>a. ASSUME NEW i \in Ids, file' = [file EXCEPT ![i] = <<>>]
        PROVE  \A j \in Ids : \A p \in DOMAIN file'[j] : file'[j][p].t <= MaxWrites
    <2>1. \A j \in Ids : file'[j] = IF j = i THEN <<>> ELSE file[j]
      BY <1>0, <1>a
    <2>2. \A p \in DOMAIN <<>> : FALSE
      OBVIOUS
    <2>3. QED
      BY <2>1, <2>2
  <1>b. ASSUME NEW i \in Ids, hint' = [hint EXCEPT ![i] = {}]
        PROVE  \A j \in Ids : \A h \in hint'[j] : h.t <= MaxWrites
    BY <1>0, <1>b
  <1>c. ASSUME NEW i \in Ids, hint' = [hint EXCEPT ![i] = HintOf(rewrites)]
        PROVE  \A j \in Ids : \A h \in hint'[j] : h.t <= MaxWrites
    <2>1. \A h \in HintOf(rewrites) : h.t <= MaxWrites
      BY DEF HintOf
    <2>2. QED
      BY <1>0, <1>c, <2>1
  <1>1. ASSUME NEW ops \in Batches, StartWrite(ops)
        PROVE  StampsBounded'
    BY <1>0, <1>1, WritesAssumption DEF StartWrite
  <1>2. CASE RotateCreate
    BY <1>2, <1>a DEF RotateCreate, CreateSegment
  <1>3. CASE RotateFail
    BY <1>3 DEF RotateFail
  <1>4. CASE RotateManifest
    BY <1>4 DEF RotateManifest
  <1>5. CASE RotateAbort
    <2>1. next \in Ids
      BY <1>0, <1>5 DEF RotateAbort, CoreInv, ControlInv
    <2>2. QED
      BY <1>5, <1>a, <2>1 DEF RotateAbort, RemoveSegment
  <1>6. CASE RotateUncertain
    BY <1>6 DEF RotateUncertain
  <1>7. CASE RotatePublish
    BY <1>7 DEF RotatePublish
  <1>8. CASE AppendRecord
    <2>1. wreq \in Batches
      BY <1>8 DEF AppendRecord, CoreInv, ControlInv
    <2> DEFINE s == file[active]
    <2> DEFINE u == EntriesOf(wreq)
    <2>2. s \in Seq(Entry) /\ u \in Seq(Entry) /\ Len(u) = Len(wreq)
      BY <1>0, <2>1, EntriesType DEF CoreInv
    <2>3. \A p \in DOMAIN u : u[p].t <= MaxWrites
      BY DEF EntriesOf
    <2>4. \A p \in DOMAIN s : s[p].t <= MaxWrites
      BY <1>0
    <2> HIDE DEF s, u
    <2>5. \A p \in DOMAIN (s \o u) : (s \o u)[p].t <= MaxWrites
      <3> SUFFICES ASSUME NEW p \in DOMAIN (s \o u)
                   PROVE  (s \o u)[p].t <= MaxWrites
        OBVIOUS
      <3>1. CASE p <= Len(s)
        BY <2>2, <2>4, <3>1
      <3>2. CASE p > Len(s)
        BY <2>2, <2>3, <3>2
      <3>3. QED
        BY <2>2, <3>1, <3>2
    <2>6. \A j \in Ids : file'[j] = IF j = active THEN s \o u ELSE file[j]
      BY <1>0, <1>8 DEF AppendRecord, s, u
    <2>7. QED
      BY <1>8, <2>5, <2>6 DEF AppendRecord
  <1>9. CASE AppendFail
    BY <1>9 DEF AppendFail
  <1>10. CASE ApplyKeydir
    BY <1>10 DEF ApplyKeydir
  <1>11. CASE CommitManifest
    BY <1>11 DEF CommitManifest
  <1>12. CASE CommitFail
    BY <1>12 DEF CommitFail
  <1>13. CASE CommitPublish
    BY <1>13 DEF CommitPublish, ResetCompactor
  <1>14. ASSUME NEW c \in Ids, UnlinkSegment(c)
        PROVE  StampsBounded'
    BY <1>14, <1>a DEF UnlinkSegment, RemoveSegment
  <1>15. ASSUME NEW c \in Ids, UnlinkHint(c)
        PROVE  StampsBounded'
    BY <1>15, <1>b DEF UnlinkHint, RemoveHint, ResetCompactor
  <1>16. CASE CompactSnapshot
    BY <1>16 DEF CompactSnapshot
  <1>17. CASE CompactCreate
    BY <1>17, <1>a DEF CompactCreate, CreateSegment
  <1>18. CASE CompactCreateFail
    BY <1>18 DEF CompactCreateFail, ResetCompactor
  <1>19. ASSUME NEW c \in Ids, ScanEntry(c)
        PROVE  StampsBounded'
    <2>1. newSeg \in Ids
      BY <1>0, <1>19 DEF ScanEntry, CoreInv, ControlInv
    <2>2. PICK p : p = scanPos + 1 /\ p \in DOMAIN file[c]
      BY <1>0, <1>19 DEF ScanEntry, CoreInv, TypeOK
    <2> DEFINE s == file[newSeg]
    <2> DEFINE e == file[c][p]
    <2>3. s \in Seq(Entry) /\ e \in Entry /\ e.t <= MaxWrites
      BY <1>0, <2>1, <2>2
    <2>4. \A q \in DOMAIN s : s[q].t <= MaxWrites
      BY <2>1
    <2>5. \A j \in Ids : file'[j] = file[j] \/ (j = newSeg /\ file'[j] = Append(s, e))
      BY <1>0, <1>19, <2>1, <2>2 DEF ScanEntry
    <2>6. \A r \in rewrites' : r \in rewrites \/ r.new.t = e.t
      BY <1>19, <2>2 DEF ScanEntry
    <2> HIDE DEF s, e
    <2>7. \A q \in DOMAIN Append(s, e) : Append(s, e)[q].t <= MaxWrites
      BY <2>3, <2>4
    <2>8. QED
      BY <1>19, <2>3, <2>5, <2>6, <2>7 DEF ScanEntry
  <1>20. ASSUME NEW c \in Ids, ScanNext(c)
        PROVE  StampsBounded'
    BY <1>20 DEF ScanNext
  <1>21. CASE CompactFail
    <2>1. newSeg \in Ids
      BY <1>0, <1>21 DEF CompactFail, CoreInv, ControlInv
    <2>2. \A j \in Ids : \A p \in DOMAIN file'[j] : file'[j][p].t <= MaxWrites
      BY <1>21, <1>a, <2>1 DEF CompactFail, RemoveSegment
    <2>3. \A j \in Ids : \A h \in hint'[j] : h.t <= MaxWrites
      BY <1>21, <1>c, <2>1 DEF CompactFail
    <2>4. QED
      BY <1>21, <2>2, <2>3 DEF CompactFail, ResetCompactor
  <1>22. CASE RetireOnly
    <2>1. newSeg \in Ids
      BY <1>0, <1>22 DEF RetireOnly, CoreInv, ControlInv
    <2>2. QED
      BY <1>22, <1>a, <2>1 DEF RetireOnly, RemoveSegment
  <1>23. CASE WriteHintFile
    <2>1. newSeg \in Ids
      BY <1>0, <1>23 DEF WriteHintFile, CoreInv, ControlInv
    <2>2. QED
      BY <1>23, <1>c, <2>1 DEF WriteHintFile
  <1>24. CASE CleanupSegment
    BY <1>0, <1>24, <1>a DEF CleanupSegment, RemoveSegment, ResetCompactor
  <1>25. CASE CleanupHint
    <2>1. newSeg \in Ids
      BY <1>0, <1>25 DEF CleanupHint, CoreInv, ControlInv
    <2>2. QED
      BY <1>25, <1>b, <2>1 DEF CleanupHint, RemoveHint, ResetCompactor
  <1>26. ASSUME NEW r \in Readers, NEW K \in SUBSET Keys \ {{}}, ReadStart(r, K)
        PROVE  StampsBounded'
    BY <1>26 DEF ReadStart
  <1>27. ASSUME NEW r \in Readers, NEW k \in Keys, ReadValue(r, k)
        PROVE  StampsBounded'
    BY <1>27 DEF ReadValue
  <1>28. CASE UNCHANGED vars
    BY <1>28 DEF vars
  <1>29. QED
    BY <1>1, <1>2, <1>3, <1>4, <1>5, <1>6, <1>7, <1>8, <1>9, <1>10, <1>11,
       <1>12, <1>13, <1>14, <1>15, <1>16, <1>17, <1>18, <1>19, <1>20,
       <1>21, <1>22, <1>23, <1>24, <1>25, <1>26, <1>27, <1>28
       DEF Next, Writer, Compactor, Reader

\* recover takes the clock past every timestamp it comes across.
LEMMA TstampFacts ==
  ASSUME RTypeOK, StampsBounded, NEW live \in SUBSET Ids, NEW act
  PROVE  /\ ReplayTstamp(live, act) \in Nat
         /\ ReplayTstamp(live, act) <= MaxWrites
         /\ \A i \in live :
              IF i # act /\ HintUsable(i)
              THEN \A h \in hint[i] : h.t <= ReplayTstamp(live, act)
              ELSE \A p \in DOMAIN file[i] : file[i][p].t <= ReplayTstamp(live, act)
         /\ \/ ReplayTstamp(live, act) = 0
            \/ \E i \in live :
                 IF i # act /\ HintUsable(i)
                 THEN \E h \in hint[i] : h.t = ReplayTstamp(live, act)
                 ELSE \E p \in DOMAIN file[i] : file[i][p].t = ReplayTstamp(live, act)
  <1> DEFINE Seen(i) == IF i # act /\ HintUsable(i) THEN {h.t : h \in hint[i]}
                        ELSE {file[i][p].t : p \in DOMAIN file[i]}
  <1> DEFINE T == {0} \cup UNION {Seen(i) : i \in live}
  <1>1. \A i \in live : \A t \in Seen(i) : t \in Nat /\ t <= MaxWrites
    <2> SUFFICES ASSUME NEW i \in live
                 PROVE  \A t \in Seen(i) : t \in Nat /\ t <= MaxWrites
      OBVIOUS
    <2>1. \A h \in hint[i] : h.t \in Nat /\ h.t <= MaxWrites
      BY DEF RTypeOK, HintEntry, StampsBounded
    <2>2. \A p \in DOMAIN file[i] : file[i][p].t \in Nat /\ file[i][p].t <= MaxWrites
      BY DirEntry DEF StampsBounded
    <2>3. QED
      BY <2>1, <2>2
  <1>2. \A t \in T : t \in Nat /\ t <= MaxWrites
    <2> HIDE DEF Seen
    <2>1. QED
      BY <1>1, WritesAssumption
  <1>3. ReplayTstamp(live, act) = Max(T)
    BY DEF ReplayTstamp
  <1>4. 0 \in T
    OBVIOUS
  <1>5. \A i \in live : \A t \in Seen(i) : t \in T
    <2> HIDE DEF Seen
    <2>1. QED
      OBVIOUS
  <1> HIDE DEF T
  <1>6. Max(T) \in T /\ \A t \in T : Max(T) >= t
    <2>1. T \in SUBSET Int /\ T # {} /\ \A t \in T : t >= -1 /\ t <= MaxWrites
      BY <1>2, <1>4
    <2>2. QED
      BY <2>1, MaxFacts, WritesAssumption
  <1>7. \A i \in live : \A t \in Seen(i) : t <= Max(T)
    BY <1>2, <1>5, <1>6
  <1>8. Max(T) = 0 \/ \E i \in live : Max(T) \in Seen(i)
    <2> HIDE DEF Seen
    <2>1. QED
      BY <1>6 DEF T
  <1>9. QED
    BY <1>2, <1>3, <1>6, <1>7, <1>8

\* Open gives out ids above every segment file, and without a manifest takes
\* the highest one for the active segment.
LEMMA HighestFacts ==
  ASSUME RTypeOK
  PROVE  /\ Max(segFiles \cup {-1}) + 1 \in Nat
         /\ \A i \in segFiles : i < Max(segFiles \cup {-1}) + 1
         /\ Max(segFiles \cup {NoSeg}) \in segFiles \cup {NoSeg}
         /\ \A i \in segFiles : i <= Max(segFiles \cup {NoSeg})
  <1> DEFINE S == segFiles \cup {-1}
  <1>1. S \in SUBSET Int /\ S # {} /\ \A x \in S : x >= -1 /\ x <= MaxSegId
    BY IdAssumption DEF RTypeOK, Ids
  <1>2. Max(S) \in S /\ \A x \in S : Max(S) >= x
    BY <1>1, MaxFacts, IdAssumption
  <1>3. NoSeg = -1
    BY DEF NoSeg
  <1>4. Max(S) \in Int /\ Max(S) >= -1
    BY <1>1, <1>2
  <1>5. \A i \in segFiles : i \in Int /\ Max(S) >= i
    BY <1>1, <1>2
  <1> HIDE DEF S
  <1>6. Max(S) + 1 \in Nat /\ \A i \in segFiles : i < Max(S) + 1 /\ i <= Max(S)
    BY <1>4, <1>5
  <1>7. QED
    BY <1>2, <1>3, <1>6 DEF S

\* An empty directory.
LEMMA DirInit == RInit => DirInv
  <1> SUFFICES ASSUME RInit
               PROVE  DirInv
    OBVIOUS
  <1> USE DEF RInit
  <1>1. RTypeOK
    <2>1. file \in [Ids -> Seq(Entry)]
      OBVIOUS
    <2>2. manifest \in [segs : SUBSET Ids, active : Ids \cup {NoSeg}]
      BY DEF NoManifest
    <2>3. QED
      BY <2>1, <2>2, NoEntryType DEF RTypeOK
  <1>2. DiskInv
    BY DEF DiskInv
  <1>3. OpenInv
    BY DEF OpenInv, Stopped, Opening
  <1>4. StampsBounded
    <2>1. \A i \in Ids : DOMAIN file[i] = {} /\ hint[i] = {}
      OBVIOUS
    <2>2. QED
      BY <2>1, WritesAssumption DEF StampsBounded
  <1>5. QED
    BY <1>1, <1>2, <1>3, <1>4 DEF DirInv

\* The running engine keeps the directory fit for Open.
LEMMA DirRunning == DirInv /\ Running => DirInv'
  <1> SUFFICES ASSUME DirInv, Running
               PROVE  DirInv'
    OBVIOUS
  <1>1. mode = "up" /\ CoreInv /\ StampsBounded /\ Next /\ UNCHANGED <<mode, saved>>
    BY DEF DirInv, Running
  <1>2. CoreInv' /\ StampsBounded'
    BY <1>1, CoreStep, StampsStep
  <1>3. RTypeOK'
    BY <1>1, <1>2 DEF DirInv, RTypeOK, CoreInv, TypeOK
  <1>5. DiskInv'
    BY <1>2, UpDiskInv, PTL
  <1>6. OpenInv'
    BY <1>1 DEF OpenInv, Opening
  <1>7. QED
    BY <1>1, <1>2, <1>3, <1>5, <1>6 DEF DirInv

\* Resetting the memory leaves nothing running.
LEMMA ResetStops == ResetMemory => Stopped' /\ lastTstamp' \in Nat /\ keydir' \in [Keys -> Loc]
  BY NoEntryType DEF ResetMemory, ResetCompactor, Stopped, IdleReader

\* A kill at any step, of the engine or of Open.
LEMMA DirKill == DirInv /\ Kill => DirInv'
  <1> SUFFICES ASSUME DirInv, Kill
               PROVE  DirInv'
    OBVIOUS
  <1>1. /\ mode' = "down" /\ ResetMemory
        /\ UNCHANGED <<file, segFiles, hint, hintFiles, manifest>>
        /\ torn' = torn \/ (wpc = "append" /\ torn' = torn \cup {active})
    BY DEF Kill
  <1>2. Stopped' /\ lastTstamp' \in Nat /\ keydir' \in [Keys -> Loc]
    BY <1>1, ResetStops
  <1>3. wpc = "append" => mode = "up" /\ manifest.active = active
    <2>1. wpc = "append" => mode = "up"
      BY DEF DirInv, OpenInv, Stopped
    <2>2. QED
      BY <2>1 DEF DirInv, CoreInv, ManifestInv, ControlInv, Publishing
  <1>4. torn' \subseteq torn \cup {manifest.active}
    BY <1>1, <1>3
  <1>5. saved' \in [Keys -> Values \cup {Tombstone}]
    <2>1. CASE mode # "up"
      BY <2>1 DEF Kill, DirInv, RTypeOK
    <2>2. CASE mode = "up"
      <3>1. TypeOK /\ View \in [Keys -> Values \cup {Tombstone}]
        BY <2>2, ViewType DEF DirInv, CoreInv
      <3>2. CASE wpc = "keydir"
        <4>1. wreq \in Batches
          BY <2>2, <3>2 DEF DirInv, CoreInv, ControlInv
        <4>2. \A k \in Keys : Store!Touches(wreq, k) =>
                wreq[Store!LastOp(wreq, k)].val \in Values \cup {Tombstone}
          BY <4>1, LastOpFacts, RequestFacts
        <4>3. Store!ApplyOps(View, wreq) \in [Keys -> Values \cup {Tombstone}]
          BY <3>1, <4>2 DEF Store!ApplyOps
        <4>4. QED
          BY <2>2, <3>2, <4>3 DEF Kill
      <3>3. CASE wpc # "keydir"
        BY <2>2, <3>1, <3>3 DEF Kill
      <3>4. QED
        BY <3>2, <3>3
    <2>3. QED
      BY <2>1, <2>2
  <1>6. /\ torn \subseteq Ids
        /\ manifest # NoManifest => manifest.active \in Ids /\ torn \subseteq {manifest.active}
        /\ manifest = NoManifest => torn = {}
    BY DEF DirInv, RTypeOK, DiskInv
  <1>7. manifest = NoManifest => torn' = {}
    <2>1. mode = "up" => manifest # NoManifest
      BY UpDisk DEF DirInv
    <2>2. QED
      BY <1>1, <1>3, <1>6, <2>1
  <1>8. torn' \subseteq Ids
    BY <1>4, <1>6, <1>7
  <1>9. RTypeOK'
    BY <1>1, <1>2, <1>5, <1>8 DEF DirInv, RTypeOK
  <1>10. DiskInv'
    BY <1>1, <1>4, <1>6, <1>7 DEF DirInv, DiskInv, NoManifest
  <1>11. StampsBounded'
    BY <1>1, WritesAssumption DEF DirInv, StampsBounded, ResetMemory, ResetCompactor
  <1>12. QED
    BY <1>1, <1>2, <1>9, <1>10, <1>11 DEF DirInv, OpenInv, Opening

\* The segments Open will read exist; if there is an active one it is live.
LEMMA LiveFacts ==
  ASSUME RTypeOK, DiskInv
  PROVE  /\ LiveOnDisk \subseteq segFiles
         /\ LiveOnDisk \subseteq Ids
         /\ ActiveOnDisk # NoSeg => ActiveOnDisk \in LiveOnDisk
         /\ torn \subseteq {ActiveOnDisk}
  <1>1. CASE manifest = NoManifest
    BY <1>1, HighestFacts DEF LiveOnDisk, ActiveOnDisk, DiskInv, RTypeOK
  <1>2. CASE manifest # NoManifest
    BY <1>2 DEF LiveOnDisk, ActiveOnDisk, DiskInv, RTypeOK
  <1>3. QED
    BY <1>1, <1>2

\* recover, up to the choice of the active segment.
LEMMA DirRecover == DirInv /\ OpenRecover => DirInv'
  <1> SUFFICES ASSUME DirInv, OpenRecover
               PROVE  DirInv'
    OBVIOUS
  <1> USE DEF DirInv
  <1>1. /\ UNCHANGED <<file, segFiles, hint, hintFiles, manifest, writesDisabled,
                       wpc, wreq, next, cpc, candidates, newSeg, todo, scanPos,
                       rewrites, rd, saved>>
        /\ mode' \in {"fresh", "manifest", "sweep"}
        /\ segments' = LiveOnDisk
        /\ nextID' = Max(segFiles \cup {-1}) + 1
        /\ keydir' = Replay(LiveOnDisk, ActiveOnDisk)
        /\ lastTstamp' = ReplayTstamp(LiveOnDisk, ActiveOnDisk)
        /\ torn' = torn \ {ActiveOnDisk}
    BY DEF OpenRecover
  <1>2. IF mode' = "fresh" THEN active' = NoSeg
        ELSE /\ active' = ActiveOnDisk /\ ActiveOnDisk # NoSeg
             /\ mode' = "sweep" => manifest # NoManifest
    BY DEF OpenRecover
  <1>3. torn' = {}
    BY <1>1, LiveFacts
  <1>4. keydir' \in [Keys -> Loc]
    BY <1>1, LiveFacts, ReplayType
  <1>5. lastTstamp' \in Nat /\ lastTstamp' <= MaxWrites
    BY <1>1, LiveFacts, TstampFacts
  <1>6. RTypeOK'
    BY <1>1, <1>3, <1>4, <1>5 DEF RTypeOK
  <1>7. DiskInv'
    BY <1>1, <1>3 DEF DiskInv, NoManifest
  <1>8. StampsBounded'
    BY <1>1, <1>5 DEF StampsBounded
  <1>9. Stopped'
    BY <1>1 DEF OpenInv, Stopped, OpenRecover, IdleReader
  <1>10. nextID' \in Nat /\ \A i \in segFiles : i < nextID'
    BY <1>1, HighestFacts
  <1>11. segments' \subseteq segFiles /\ (mode' # "fresh" => active' \in segments')
    BY <1>1, <1>2, LiveFacts
  <1>12. mode' = "sweep" => manifest' = [segs |-> segments', active |-> active']
    <2>1. manifest \in [segs : SUBSET Ids, active : Ids \cup {NoSeg}]
      BY DEF RTypeOK
    <2>2. manifest = [segs |-> manifest.segs, active |-> manifest.active]
      BY <2>1
    <2>3. QED
      BY <1>1, <1>2, <2>2 DEF LiveOnDisk, ActiveOnDisk
  <1>13. OpenInv'
    BY <1>1, <1>2, <1>3, <1>9, <1>10, <1>11, <1>12 DEF OpenInv, Opening
  <1>14. QED
    BY <1>1, <1>6, <1>7, <1>8, <1>13

\* A fresh active segment takes an id no file has.
LEMMA DirFresh == DirInv /\ OpenFresh => DirInv'
  <1> SUFFICES ASSUME DirInv, OpenFresh
               PROVE  DirInv'
    OBVIOUS
  <1> USE DEF DirInv
  <1>1. /\ mode = "fresh" /\ mode' = "manifest"
        /\ nextID \in Ids /\ nextID \notin segFiles
        /\ segFiles' = segFiles \cup {nextID}
        /\ file' = [file EXCEPT ![nextID] = <<>>]
        /\ segments' = segments \cup {nextID}
        /\ active' = nextID /\ nextID' = nextID + 1
        /\ UNCHANGED <<torn, hint, hintFiles, manifest, lastTstamp, keydir,
                       writesDisabled, wpc, wreq, next, cpc, candidates, newSeg,
                       todo, scanPos, rewrites, rd, saved>>
    BY DEF OpenFresh, CreateSegment
  <1>2. /\ Stopped /\ torn = {} /\ segments \subseteq segFiles /\ nextID \in Nat
        /\ \A i \in segFiles : i < nextID
    BY <1>1 DEF OpenInv, Opening
  <1>3. file \in [Ids -> Seq(Entry)] /\ segFiles \subseteq Ids
    BY DEF RTypeOK
  <1>4. file' \in [Ids -> Seq(Entry)]
    <2>1. <<>> \in Seq(Entry)
      BY EmptySeq
    <2>2. QED
      BY <1>1, <1>3, <2>1
  <1>5. \A i \in Ids : file'[i] = IF i = nextID THEN <<>> ELSE file[i]
    BY <1>1, <1>3
  <1>6. RTypeOK'
    BY <1>1, <1>3, <1>4 DEF RTypeOK
  <1>7. DiskInv'
    BY <1>1, <1>5 DEF DiskInv, NoManifest
  <1>8. StampsBounded'
    <2>1. \A p \in DOMAIN <<>> : FALSE
      OBVIOUS
    <2>2. QED
      BY <1>1, <1>5, <2>1 DEF StampsBounded
  <1>9. Stopped'
    BY <1>1, <1>2 DEF Stopped, IdleReader
  <1>10. \A i \in segFiles' : i < nextID'
    BY <1>1, <1>2, <1>3, IdFacts
  <1>11. OpenInv'
    BY <1>1, <1>2, <1>9, <1>10 DEF OpenInv, Opening
  <1>12. QED
    BY <1>1, <1>6, <1>7, <1>8, <1>11

\* The manifest Open writes names the live segments, whether or not the call
\* reports success.
LEMMA DirManifest == DirInv /\ (OpenManifest \/ OpenManifestFail) => DirInv'
  <1> SUFFICES ASSUME DirInv, OpenManifest \/ OpenManifestFail
               PROVE  DirInv'
    OBVIOUS
  <1> USE DEF DirInv
  <1>1. /\ mode = "manifest"
        /\ \/ manifest' = manifest
           \/ manifest' = [segs |-> segments, active |-> active]
        /\ UNCHANGED <<file, segFiles, torn, hint, hintFiles, saved>>
    BY DEF OpenManifest, OpenManifestFail, WriteManifest
  <1>2. /\ Stopped /\ torn = {} /\ segments \subseteq segFiles /\ nextID \in Nat
        /\ \A i \in segFiles : i < nextID
        /\ active \in segments /\ segFiles \subseteq Ids
    BY <1>1 DEF OpenInv, Opening, RTypeOK
  <1>3. DiskInv'
    <2>1. CASE manifest' = manifest
      BY <1>1, <2>1 DEF DiskInv, NoManifest
    <2>2. CASE manifest' = [segs |-> segments, active |-> active]
      <3>1. manifest' # NoManifest /\ manifest'.active = active /\ manifest'.segs = segments
        BY <1>2, <2>2, IdFacts DEF NoManifest
      <3>2. QED
        BY <1>1, <1>2, <3>1 DEF DiskInv, NoManifest
    <2>3. QED
      BY <1>1, <2>1, <2>2
  <1>4. manifest' \in [segs : SUBSET Ids, active : Ids \cup {NoSeg}]
    BY <1>1, <1>2 DEF RTypeOK
  <1>5. CASE OpenManifest
    <2>1. /\ mode' = "sweep"
          /\ manifest' = [segs |-> segments, active |-> active]
          /\ UNCHANGED <<segments, active, nextID, lastTstamp, keydir, writesDisabled,
                         wpc, wreq, next, cpc, candidates, newSeg, todo, scanPos,
                         rewrites, rd>>
      BY <1>5 DEF OpenManifest, WriteManifest
    <2>2. Stopped'
      BY <1>2, <2>1 DEF Stopped, IdleReader
    <2>3. OpenInv'
      BY <1>1, <1>2, <2>1, <2>2 DEF OpenInv, Opening
    <2>4. RTypeOK' /\ StampsBounded'
      BY <1>1, <1>4, <2>1 DEF RTypeOK, StampsBounded
    <2>5. QED
      BY <1>3, <2>1, <2>3, <2>4
  <1>6. CASE OpenManifestFail
    <2>1. mode' = "down" /\ ResetMemory
      BY <1>6 DEF OpenManifestFail
    <2>2. Stopped' /\ lastTstamp' \in Nat /\ keydir' \in [Keys -> Loc]
      BY <2>1, ResetStops
    <2>3. OpenInv'
      BY <2>1, <2>2 DEF OpenInv, Opening
    <2>4. RTypeOK'
      BY <1>1, <1>4, <2>1, <2>2 DEF RTypeOK
    <2>5. StampsBounded'
      BY <1>1, <2>1, WritesAssumption DEF StampsBounded, ResetMemory, ResetCompactor
    <2>6. QED
      BY <1>3, <2>1, <2>3, <2>4, <2>5
  <1>7. QED
    BY <1>5, <1>6

\* The sweep removes only what the manifest does not name.
LEMMA DirSweep ==
  ASSUME DirInv, NEW i \in Ids, SweepOne(i)
  PROVE  DirInv'
  <1> USE DEF DirInv
  <1>1. /\ mode = "sweep" /\ i \notin manifest.segs
        /\ \/ hintFiles' = hintFiles \ {i} /\ hint' = [hint EXCEPT ![i] = {}]
              /\ UNCHANGED <<file, segFiles>>
           \/ segFiles' = segFiles \ {i} /\ file' = [file EXCEPT ![i] = <<>>]
              /\ UNCHANGED <<hint, hintFiles>>
        /\ UNCHANGED <<torn, manifest, segments, active, nextID, lastTstamp, keydir,
                       writesDisabled, wpc, wreq, next, cpc, candidates, newSeg,
                       todo, scanPos, rewrites, rd, mode, saved>>
    BY DEF SweepOne, Orphans
  <1>2. /\ Stopped /\ torn = {} /\ segments \subseteq segFiles /\ nextID \in Nat
        /\ \A j \in segFiles : j < nextID
        /\ active \in segments
        /\ manifest = [segs |-> segments, active |-> active]
    BY <1>1 DEF OpenInv, Opening
  <1>3. /\ file \in [Ids -> Seq(Entry)] /\ segFiles \subseteq Ids
        /\ hint \in [Ids -> SUBSET HintEntry] /\ hintFiles \subseteq Ids
    BY DEF RTypeOK
  <1>4. /\ file' \in [Ids -> Seq(Entry)] /\ segFiles' \subseteq segFiles
        /\ hint' \in [Ids -> SUBSET HintEntry] /\ hintFiles' \subseteq hintFiles
    <2>1. <<>> \in Seq(Entry)
      BY EmptySeq
    <2>2. QED
      BY <1>1, <1>3, <2>1
  <1>5. \A j \in Ids : /\ file'[j] = <<>> \/ file'[j] = file[j]
                       /\ hint'[j] = {} \/ hint'[j] = hint[j]
    BY <1>1, <1>3
  <1>6. segments \subseteq segFiles'
    BY <1>1, <1>2
  <1>7. RTypeOK'
    BY <1>1, <1>3, <1>4 DEF RTypeOK
  <1>8. DiskInv'
    <2>1. manifest' # NoManifest /\ manifest'.segs = segments /\ manifest'.active = active
      BY <1>1, <1>2, <1>3, IdFacts DEF NoManifest
    <2>2. QED
      BY <1>1, <1>2, <1>6, <2>1 DEF DiskInv, NoManifest
  <1>9. StampsBounded'
    <2>1. \A p \in DOMAIN <<>> : FALSE
      OBVIOUS
    <2>2. QED
      BY <1>1, <1>5, <2>1 DEF StampsBounded
  <1>10. Stopped'
    BY <1>1, <1>2 DEF Stopped, IdleReader
  <1>11. OpenInv'
    BY <1>1, <1>2, <1>4, <1>6, <1>10 DEF OpenInv, Opening
  <1>12. QED
    BY <1>1, <1>7, <1>8, <1>9, <1>11

\* What Open hands to the writer is a state of the engine.
LEMMA OpenedCore ==
  ASSUME DirInv, mode = "sweep"
  PROVE  CoreInv
  <1> USE DEF DirInv
  <1>1. /\ Stopped /\ torn = {} /\ segments \subseteq segFiles /\ nextID \in Nat
        /\ \A j \in segFiles : j < nextID
        /\ active \in segments
        /\ manifest = [segs |-> segments, active |-> active]
    BY DEF OpenInv, Opening
  <1>2. segments \subseteq Ids /\ active \in Ids
    BY <1>1 DEF RTypeOK
  <1>3. rd \in [Readers -> [keys : SUBSET Keys, snap : [Keys -> Loc],
                            view : [Keys -> Values \cup {Tombstone}]]]
    BY <1>1, IdleReaderType DEF Stopped
  <1>4. TypeOK
    <2>1. manifest \in [segs : SUBSET Ids, active : Ids]
      BY <1>1, <1>2
    <2>2. /\ file \in [Ids -> Seq(Entry)] /\ segFiles \subseteq Ids /\ torn \subseteq Ids
          /\ hint \in [Ids -> SUBSET HintEntry] /\ hintFiles \subseteq Ids
          /\ lastTstamp \in Nat /\ keydir \in [Keys -> Loc]
      BY DEF RTypeOK
    <2>3. /\ writesDisabled = FALSE
          /\ wpc = "idle" /\ wreq = <<>> /\ next = NoSeg
          /\ cpc = "idle" /\ candidates = {} /\ newSeg = NoSeg
          /\ todo = {} /\ scanPos = 0 /\ rewrites = {}
      BY <1>1 DEF Stopped
    <2>4. QED
      BY <1>1, <1>2, <1>3, <2>1, <2>2, <2>3 DEF TypeOK
  <1>5. ControlInv
    BY <1>1 DEF Stopped, ControlInv, Publishing, Unlinking
  <1>6. OwnershipInv
    BY <1>1 DEF Stopped, OwnershipInv, Unlinking
  <1>7. ManifestInv
    BY <1>1 DEF Stopped, ManifestInv, Publishing
  <1>8. AppendedInv
    BY <1>1 DEF Stopped, AppendedInv
  <1>9. QED
    BY <1>4, <1>5, <1>6, <1>7, <1>8 DEF CoreInv

\* The writer starts.
LEMMA DirDone == DirInv /\ OpenDone => DirInv'
  <1> SUFFICES ASSUME DirInv, OpenDone
               PROVE  DirInv'
    OBVIOUS
  <1>1. mode = "sweep" /\ mode' = "up" /\ UNCHANGED vars /\ saved' = saved
    BY DEF OpenDone
  <1>2. CoreInv
    BY <1>1, OpenedCore
  <1>3. CoreInv'
    BY <1>1, <1>2, CoreStep
  <1>4. RTypeOK' /\ DiskInv' /\ StampsBounded'
    BY <1>1 DEF vars, DirInv, RTypeOK, DiskInv, NoManifest, StampsBounded
  <1>5. OpenInv'
    BY <1>1 DEF OpenInv, Opening
  <1>6. QED
    BY <1>3, <1>4, <1>5 DEF DirInv

\* Every step, of the engine, of Open, and the kill between any two of them,
\* leaves a directory that Open can take up.
LEMMA DirStep == DirInv /\ [RNext]_allVars => DirInv'
  <1> SUFFICES ASSUME DirInv, [RNext]_allVars
               PROVE  DirInv'
    OBVIOUS
  <1>1. CASE UNCHANGED allVars
    <2>1. UNCHANGED vars /\ mode' = mode /\ saved' = saved
      BY <1>1 DEF allVars
    <2>2. mode = "up" => CoreInv'
      BY <2>1, CoreStep DEF DirInv
    <2>3. RTypeOK' /\ DiskInv' /\ StampsBounded'
      BY <2>1 DEF vars, DirInv, RTypeOK, DiskInv, NoManifest, StampsBounded
    <2>4. Stopped <=> Stopped'
      BY <2>1 DEF vars, Stopped, IdleReader
    <2>5. OpenInv'
      BY <2>1, <2>4 DEF vars, DirInv, OpenInv, Opening
    <2>6. QED
      BY <2>1, <2>2, <2>3, <2>5 DEF DirInv
  <1>2. QED
    BY <1>1, DirRunning, DirKill, DirRecover, DirFresh, DirManifest, DirSweep, DirDone
       DEF RNext, Open

\* What holds of the directory, and of Open, always does.
THEOREM DirectoryInvariance == RSpec => []DirInv
  BY DirInit, DirStep, PTL DEF RSpec

\* Open never refuses a directory the engine left behind: whichever calls
\* failed and at whatever step of the engine or of an earlier Open the
\* process was killed, the manifest names existing files, and a partial
\* record is only at the end of the segment it calls active.
THEOREM OpenAlwaysSucceeds == RSpec => []OpenSucceeds
  <1>1. DirInv => OpenSucceeds
    BY LiveFacts DEF DirInv, OpenSucceeds, Unopenable
  <1>2. QED
    BY <1>1, DirectoryInvariance, PTL

----------------------------------------------------------------------------
(* Second layer: hints.                                                    *)

\* The copies in the merged segment are what its hint says, and a merged
\* segment is all PUTs, with no key twice.
LEMMA HintOfCopies ==
  ASSUME IndInv, CopiesInv, Pending, newSeg # NoSeg
  PROVE  HintOf(rewrites) = Puts(newSeg) /\ IsMerged(newSeg)
  <1>1. \A r \in rewrites : RewriteOK(r)
    BY DEF IndInv, DataInv, RewritesInv
  <1>2. \A p \in DOMAIN file[newSeg] : \E r \in rewrites : r.new.pos = p
    BY DEF CopiesInv
  <1>3. \A r, s \in rewrites : r.key = s.key => r = s
    BY DEF CopiesInv
  <1>4. IsMerged(newSeg)
    <2>1. \A p \in DOMAIN file[newSeg] : file[newSeg][p].val # Tombstone
      BY <1>1, <1>2 DEF RewriteOK
    <2>2. ASSUME NEW p \in DOMAIN file[newSeg], NEW q \in DOMAIN file[newSeg],
                 file[newSeg][p].key = file[newSeg][q].key
          PROVE  p = q
      <3>1. PICK r \in rewrites : r.new.pos = p
        BY <1>2
      <3>2. PICK s \in rewrites : s.new.pos = q
        BY <1>2
      <3>3. r.key = s.key
        BY <1>1, <2>2, <3>1, <3>2 DEF RewriteOK
      <3>4. QED
        BY <1>3, <3>1, <3>2, <3>3
    <2>3. QED
      BY <2>1, <2>2 DEF IsMerged
  <1>5. \A r \in rewrites :
          /\ r.new.pos \in DOMAIN file[newSeg]
          /\ file[newSeg][r.new.pos].val # Tombstone
          /\ [key |-> r.key, pos |-> r.new.pos, t |-> r.new.t] =
             [key |-> file[newSeg][r.new.pos].key, pos |-> r.new.pos,
              t |-> file[newSeg][r.new.pos].t]
    BY <1>1 DEF RewriteOK
  <1>6. HintOf(rewrites) \subseteq Puts(newSeg)
    <2> SUFFICES ASSUME NEW r \in rewrites
                 PROVE  [key |-> r.key, pos |-> r.new.pos, t |-> r.new.t] \in Puts(newSeg)
      BY DEF HintOf
    <2>1. r.new.pos \in {q \in DOMAIN file[newSeg] : file[newSeg][q].val # Tombstone}
      BY <1>5
    <2>2. QED
      BY <1>5, <2>1 DEF Puts
  <1>7. Puts(newSeg) \subseteq HintOf(rewrites)
    <2> SUFFICES ASSUME NEW p \in DOMAIN file[newSeg]
                 PROVE  [key |-> file[newSeg][p].key, pos |-> p, t |-> file[newSeg][p].t]
                           \in HintOf(rewrites)
      BY DEF Puts
    <2>1. PICK r \in rewrites : r.new.pos = p
      BY <1>2
    <2>2. QED
      BY <1>5, <2>1 DEF HintOf
  <1>8. QED
    BY <1>4, <1>6, <1>7

\* No step of the engine makes a hint differ from its segment.
LEMMA HintFilesStep ==
  ASSUME IndInv, CopiesInv, HintFilesInv, mode # "down", mode' # "down", [Next]_vars
  PROVE  HintFilesInv'
  <1> USE IdFacts DEF HintFilesInv
  <1>0. /\ file \in [Ids -> Seq(Entry)] /\ segFiles \subseteq Ids
        /\ hint \in [Ids -> SUBSET HintEntry] /\ hintFiles \subseteq Ids
        /\ nextID \in Nat /\ active \in Ids
        /\ newSeg \in Ids \cup {NoSeg} /\ next \in Ids \cup {NoSeg}
    BY DEF IndInv, CoreInv, TypeOK
  <1>f. \A i : file'[i] = file[i] => /\ Puts(i)' = Puts(i)
                                     /\ IsMerged(i)' <=> IsMerged(i)
    BY DEF Puts, IsMerged
  <1>g. file' = file => /\ \A i : Puts(i)' = Puts(i)
                        /\ \A i : IsMerged(i)' <=> IsMerged(i)
    BY <1>f
  <1>n. nextID \notin hintFiles
    BY <1>0
  <1>c. IndInv => ControlInv /\ OwnershipInv /\ ManifestInv
    BY DEF IndInv, CoreInv
  <1>1. ASSUME NEW ops \in Batches, StartWrite(ops)
        PROVE  HintFilesInv'
    BY <1>1, <1>g DEF StartWrite, Publishing
  <1>2. CASE RotateCreate
    <2>1. \A i \in hintFiles : file'[i] = file[i]
      BY <1>0, <1>2, <1>n DEF RotateCreate, CreateSegment
    <2>2. QED
      BY <1>0, <1>2, <1>f, <1>n, <2>1 DEF RotateCreate, CreateSegment, Publishing
  <1>3. CASE RotateFail
    BY <1>0, <1>3, <1>g DEF RotateFail, FailWrite, Publishing
  <1>4. CASE RotateManifest
    BY <1>4, <1>g DEF RotateManifest, WriteManifest, Publishing
  <1>5. CASE RotateAbort
    <2>1. next \in Ids
      BY <1>0, <1>5, <1>c DEF RotateAbort, ControlInv
    <2>2. /\ segFiles' \subseteq segFiles
          /\ \A i \in segFiles' : file'[i] = file[i]
      BY <1>0, <1>5, <2>1 DEF RotateAbort, RemoveSegment
    <2>3. UNCHANGED <<hint, hintFiles, nextID, active, manifest, cpc, newSeg>> /\ next' = NoSeg
      BY <1>5 DEF RotateAbort
    <2>4. ~Publishing'
      BY <1>5 DEF RotateAbort, FailWrite, Publishing
    <2>5. QED
      BY <1>0, <1>f, <2>2, <2>3, <2>4
  <1>6. CASE RotateUncertain
    BY <1>0, <1>6, <1>g DEF RotateUncertain, WriteManifest, FailWrite, Publishing
  <1>7. CASE RotatePublish
    BY <1>0, <1>7, <1>g DEF RotatePublish, Publishing
  <1>8. CASE AppendRecord
    <2>1. \A i \in hintFiles : file'[i] = file[i]
      BY <1>0, <1>8 DEF AppendRecord
    <2>2. QED
      BY <1>8, <1>f, <2>1 DEF AppendRecord, Publishing
  <1>9. CASE AppendFail
    BY <1>9, <1>g DEF AppendFail, FailWrite, Publishing
  <1>10. CASE ApplyKeydir
    BY <1>10, <1>g DEF ApplyKeydir, Publishing
  <1>11. CASE CommitManifest
    BY <1>11, <1>g DEF CommitManifest, WriteManifest, Publishing
  <1>12. CASE CommitFail
    BY <1>12, <1>g DEF CommitFail, Publishing
  <1>13. CASE CommitPublish
    BY <1>13, <1>g, <1>c DEF CommitPublish, ResetCompactor, Publishing, ControlInv
  <1>14. ASSUME NEW c \in Ids, UnlinkSegment(c)
        PROVE  HintFilesInv'
    <2>1. /\ segFiles' \subseteq segFiles
          /\ \A i \in segFiles' : file'[i] = file[i]
      BY <1>0, <1>14 DEF UnlinkSegment, RemoveSegment
    <2>2. UNCHANGED <<hint, hintFiles, nextID, active, next, manifest, cpc, newSeg>>
      BY <1>14 DEF UnlinkSegment
    <2>3. cpc = "committing" /\ ~Publishing'
      BY <1>14, <1>c DEF UnlinkSegment, ControlInv, Unlinking, Publishing
    <2>4. QED
      BY <1>f, <2>1, <2>2, <2>3
  <1>15. ASSUME NEW c \in Ids, UnlinkHint(c)
        PROVE  HintFilesInv'
    <2>1. /\ hintFiles' \subseteq hintFiles
          /\ \A i \in hintFiles' : hint'[i] = hint[i]
      BY <1>0, <1>15 DEF UnlinkHint, RemoveHint
    <2>2. UNCHANGED <<file, segFiles, nextID, active, next, manifest>>
      BY <1>15 DEF UnlinkHint
    <2>3. ~Publishing' /\ cpc' \in {"idle", "committing"}
      BY <1>15, <1>c DEF UnlinkHint, ResetCompactor, ControlInv, Unlinking, Publishing
    <2>4. QED
      BY <1>g, <2>1, <2>2, <2>3
  <1>16. CASE CompactSnapshot
    BY <1>16, <1>g, <1>c DEF CompactSnapshot, ControlInv, Publishing
  <1>17. CASE CompactCreate
    <2>1. \A i \in hintFiles : file'[i] = file[i]
      BY <1>0, <1>17, <1>n DEF CompactCreate, CreateSegment
    <2>2. ~Publishing
      BY <1>17, <1>c DEF CompactCreate, ControlInv
    <2>3. QED
      BY <1>0, <1>17, <1>f, <1>n, <2>1, <2>2 DEF CompactCreate, CreateSegment, Publishing
  <1>18. CASE CompactCreateFail
    BY <1>0, <1>18, <1>g DEF CompactCreateFail, ResetCompactor, Publishing
  <1>19. ASSUME NEW c \in Ids, ScanEntry(c)
        PROVE  HintFilesInv'
    <2>1. \A i \in hintFiles : file'[i] = file[i]
      BY <1>0, <1>19 DEF ScanEntry
    <2>2. QED
      BY <1>19, <1>f, <2>1 DEF ScanEntry, Publishing
  <1>20. ASSUME NEW c \in Ids, ScanNext(c)
        PROVE  HintFilesInv'
    BY <1>20, <1>g DEF ScanNext, Publishing
  <1>21. CASE CompactFail
    <2>1. newSeg \in Ids /\ newSeg < nextID /\ newSeg # active /\ newSeg # next
          /\ newSeg # manifest.active /\ ~Publishing
      <3>1. newSeg \in Ids /\ newSeg < nextID /\ newSeg # active /\ ~Publishing
        BY <1>0, <1>21, <1>c DEF CompactFail, ControlInv, OwnershipInv
      <3>2. newSeg # next
        BY <1>0, <1>21, <1>c, <3>1 DEF CompactFail, OwnershipInv
      <3>3. newSeg # manifest.active
        BY <1>c, <3>1, <3>2 DEF ManifestInv
      <3>4. QED
        BY <3>1, <3>2, <3>3
    <2>2. /\ segFiles' \subseteq segFiles
          /\ \A i \in segFiles' : file'[i] = file[i]
      BY <1>0, <1>21, <2>1 DEF CompactFail, RemoveSegment
    <2>3. hintFiles' \subseteq hintFiles \cup {newSeg}
      BY <1>21 DEF CompactFail
    <2>4. newSeg \in hintFiles' => hint'[newSeg] = HintOf(rewrites)
      BY <1>0, <1>21, <2>1 DEF CompactFail
    <2>5. \A i \in hintFiles' \ {newSeg} : i \in hintFiles /\ hint'[i] = hint[i]
      BY <1>0, <1>21, <2>1 DEF CompactFail
    <2>6. HintOf(rewrites) = Puts(newSeg) /\ IsMerged(newSeg)
      BY <1>21, <2>1, HintOfCopies DEF CompactFail, Pending
    <2>7. \A i \in hintFiles' \cap segFiles' : (hint[i] = Puts(i) /\ IsMerged(i))'
      BY <1>f, <2>2, <2>4, <2>5, <2>6
    <2>8. /\ UNCHANGED <<nextID, active, next, manifest, wpc>>
          /\ cpc' = "idle"
      BY <1>21 DEF CompactFail, ResetCompactor
    <2>9. ~Publishing'
      BY <2>1, <2>8 DEF Publishing
    <2>10. \A i \in hintFiles' : i < nextID'
      BY <1>0, <2>1, <2>3, <2>8
    <2>11. QED
      BY <2>1, <2>3, <2>7, <2>8, <2>9, <2>10
  <1>22. CASE RetireOnly
    <2>1. newSeg \in Ids
      BY <1>0, <1>22, <1>c DEF RetireOnly, ControlInv
    <2>2. /\ segFiles' \subseteq segFiles
          /\ \A i \in segFiles' : file'[i] = file[i]
      BY <1>0, <1>22, <2>1 DEF RetireOnly, RemoveSegment
    <2>3. /\ UNCHANGED <<hint, hintFiles, nextID, active, next, manifest>>
          /\ newSeg' = NoSeg /\ cpc' = "submitted"
      BY <1>22 DEF RetireOnly
    <2>4. QED
      BY <1>f, <2>2, <2>3
  <1>23. CASE WriteHintFile
    <2>1. newSeg \in Ids /\ newSeg < nextID /\ newSeg # active /\ newSeg # next
          /\ newSeg # manifest.active
      <3>1. newSeg \in Ids /\ newSeg < nextID /\ newSeg # active /\ ~Publishing
        BY <1>0, <1>23, <1>c DEF WriteHintFile, ControlInv, OwnershipInv
      <3>2. newSeg # next
        BY <1>0, <1>23, <1>c, <3>1 DEF WriteHintFile, OwnershipInv
      <3>3. newSeg # manifest.active
        BY <1>c, <3>1, <3>2 DEF ManifestInv
      <3>4. QED
        BY <3>1, <3>2, <3>3
    <2>2. /\ hintFiles' = hintFiles \cup {newSeg}
          /\ hint' = [hint EXCEPT ![newSeg] = HintOf(rewrites)]
          /\ UNCHANGED <<file, segFiles, nextID, active, next, manifest, wpc, newSeg>>
          /\ cpc' = "submitted"
      BY <1>23 DEF WriteHintFile
    <2>3. HintOf(rewrites) = Puts(newSeg) /\ IsMerged(newSeg)
      BY <1>23, <2>1, HintOfCopies DEF WriteHintFile, Pending
    <2>4. \A i \in Ids : hint'[i] = IF i = newSeg THEN HintOf(rewrites) ELSE hint[i]
      BY <1>0, <2>1, <2>2
    <2>5. \A i \in hintFiles' \cap segFiles' : (hint[i] = Puts(i) /\ IsMerged(i))'
      BY <1>0, <1>g, <2>1, <2>2, <2>3, <2>4
    <2>6. \A i \in hintFiles' : i < nextID'
      BY <1>0, <2>1, <2>2
    <2>7. QED
      BY <2>1, <2>2, <2>5, <2>6
  <1>24. CASE CleanupSegment
    <2>1. CASE newSeg = NoSeg
      BY <1>24, <1>g, <2>1, <1>c DEF CleanupSegment, ResetCompactor, ControlInv, Publishing
    <2>2. CASE newSeg # NoSeg
      <3>1. /\ segFiles' \subseteq segFiles
            /\ \A i \in segFiles' : file'[i] = file[i]
        BY <1>0, <1>24, <2>2 DEF CleanupSegment, RemoveSegment
      <3>2. /\ UNCHANGED <<hint, hintFiles, nextID, active, next, manifest, newSeg, wpc>>
            /\ cpc' = "cleanupHint" /\ ~Publishing
        BY <1>24, <2>2, <1>c DEF CleanupSegment, ControlInv
      <3>3. QED
        BY <1>f, <3>1, <3>2 DEF Publishing
    <2>3. QED
      BY <2>1, <2>2
  <1>25. CASE CleanupHint
    <2>1. newSeg \in Ids /\ ~Publishing
      BY <1>0, <1>25, <1>c DEF CleanupHint, ControlInv
    <2>2. /\ hintFiles' \subseteq hintFiles
          /\ \A i \in hintFiles' : hint'[i] = hint[i]
      BY <1>0, <1>25, <2>1 DEF CleanupHint, RemoveHint
    <2>3. UNCHANGED <<file, segFiles, nextID, active, next, manifest, wpc>> /\ cpc' = "idle"
      BY <1>25 DEF CleanupHint, ResetCompactor
    <2>4. ~Publishing'
      BY <2>1, <2>3 DEF Publishing
    <2>5. QED
      BY <1>g, <2>2, <2>3, <2>4
  <1>26. ASSUME NEW r \in Readers, NEW K \in SUBSET Keys \ {{}}, ReadStart(r, K)
        PROVE  HintFilesInv'
    BY <1>26, <1>g DEF ReadStart, Publishing
  <1>27. ASSUME NEW r \in Readers, NEW k \in Keys, ReadValue(r, k)
        PROVE  HintFilesInv'
    BY <1>27, <1>g DEF ReadValue, Publishing
  <1>28. CASE UNCHANGED vars
    BY <1>28, <1>g DEF vars, Publishing
  <1>29. QED
    BY <1>1, <1>2, <1>3, <1>4, <1>5, <1>6, <1>7, <1>8, <1>9, <1>10, <1>11,
       <1>12, <1>13, <1>14, <1>15, <1>16, <1>17, <1>18, <1>19, <1>20,
       <1>21, <1>22, <1>23, <1>24, <1>25, <1>26, <1>27, <1>28
       DEF Next, Writer, Compactor, Reader

\* The rewrites stay one for each copy, and one for each key.
LEMMA CopiesStep ==
  ASSUME IndInv, CopiesInv, [Next]_vars
  PROVE  CopiesInv'
  <1> USE IdFacts
  <1>0. /\ file \in [Ids -> Seq(Entry)] /\ segFiles \subseteq Ids
        /\ nextID \in Nat /\ active \in Ids /\ scanPos \in Nat
        /\ todo \subseteq candidates /\ candidates \subseteq Ids
        /\ newSeg \in Ids \cup {NoSeg} /\ next \in Ids \cup {NoSeg}
        /\ rewrites \subseteq Rewrite /\ keydir \in [Keys -> Loc]
    BY DEF IndInv, CoreInv, TypeOK
  <1>c. ControlInv /\ OwnershipInv
    BY DEF IndInv, CoreInv
  <1>f. ASSUME Pending' => Pending,
               UNCHANGED <<newSeg, rewrites, todo, scanPos, candidates, keydir>>,
               newSeg # NoSeg => file'[newSeg] = file[newSeg]
        PROVE  CopiesInv'
    BY <1>f DEF CopiesInv, Unscanned, Lowest
  <1>1. ASSUME NEW ops \in Batches, StartWrite(ops)
        PROVE  CopiesInv'
    BY <1>1, <1>f DEF StartWrite, Pending, Publishing
  <1>2. CASE RotateCreate
    <2>1. newSeg # NoSeg => file'[newSeg] = file[newSeg]
      BY <1>0, <1>2, <1>c DEF RotateCreate, CreateSegment, OwnershipInv
    <2>2. QED
      BY <1>2, <1>f, <2>1 DEF RotateCreate, Pending, Publishing
  <1>3. CASE RotateFail
    BY <1>3, <1>f DEF RotateFail, FailWrite, Pending, Publishing
  <1>4. CASE RotateManifest
    BY <1>4, <1>f DEF RotateManifest, Pending, Publishing
  <1>5. CASE RotateAbort
    <2>1. next \in Ids /\ next # newSeg
      BY <1>0, <1>5, <1>c DEF RotateAbort, ControlInv, OwnershipInv
    <2>2. newSeg # NoSeg => file'[newSeg] = file[newSeg]
      BY <1>0, <1>5, <2>1 DEF RotateAbort, RemoveSegment
    <2>3. QED
      BY <1>5, <1>f, <2>2 DEF RotateAbort, FailWrite, Pending, Publishing
  <1>6. CASE RotateUncertain
    BY <1>6, <1>f DEF RotateUncertain, FailWrite, Pending, Publishing
  <1>7. CASE RotatePublish
    BY <1>7, <1>f DEF RotatePublish, Pending, Publishing
  <1>8. CASE AppendRecord
    <2>1. newSeg # NoSeg => file'[newSeg] = file[newSeg]
      BY <1>0, <1>8, <1>c DEF AppendRecord, OwnershipInv
    <2>2. QED
      BY <1>8, <1>f, <2>1 DEF AppendRecord, Pending, Publishing
  <1>9. CASE AppendFail
    BY <1>9, <1>f DEF AppendFail, FailWrite, Pending, Publishing
  <1>10. CASE ApplyKeydir
    <2>1. /\ UNCHANGED <<file, cpc, newSeg, rewrites, todo, scanPos, candidates>>
          /\ keydir' = ApplyBatch(wreq) /\ ~Publishing /\ ~Publishing'
      BY <1>10 DEF ApplyKeydir, Publishing
    <2>2. \A k \in Keys : \/ keydir'[k] = keydir[k] \/ keydir'[k] = NoEntry
                          \/ keydir'[k].file = active
      BY <2>1 DEF ApplyBatch, LocOf
    <2>3. \A r \in rewrites : r.key \in Keys
      BY <1>0 DEF Rewrite
    <2>4. active \notin candidates
      BY <1>c DEF OwnershipInv
    <2>5. QED
      BY <2>1, <2>2, <2>3, <2>4 DEF CopiesInv, Pending, Unscanned, Lowest
  <1>11. CASE CommitManifest
    BY <1>11, <1>f DEF CommitManifest, Pending, Publishing
  <1>12. CASE CommitFail
    BY <1>12, <1>f DEF CommitFail, Pending, Publishing
  <1>13. CASE CommitPublish
    BY <1>13, <1>c DEF CommitPublish, ResetCompactor, ControlInv, CopiesInv, Pending, Publishing
  <1>14. ASSUME NEW c \in Ids, UnlinkSegment(c)
        PROVE  CopiesInv'
    BY <1>14, <1>c DEF UnlinkSegment, ControlInv, CopiesInv, Pending, Publishing, Unlinking
  <1>15. ASSUME NEW c \in Ids, UnlinkHint(c)
        PROVE  CopiesInv'
    BY <1>15, <1>c DEF UnlinkHint, ResetCompactor, ControlInv, CopiesInv, Pending, Publishing,
                       Unlinking
  <1>16. CASE CompactSnapshot
    BY <1>16, <1>c DEF CompactSnapshot, ControlInv, CopiesInv, Pending, Publishing, Unlinking
  <1>17. CASE CompactCreate
    <2>1. /\ newSeg' = nextID /\ nextID \in Ids /\ file' = [file EXCEPT ![nextID] = <<>>]
          /\ rewrites' = rewrites
      BY <1>17 DEF CompactCreate, CreateSegment
    <2>2. rewrites = {}
      BY <1>17, <1>c DEF CompactCreate, ControlInv
    <2>3. file'[newSeg'] = <<>>
      BY <1>0, <2>1
    <2>4. \A p \in DOMAIN <<>> : FALSE
      OBVIOUS
    <2>5. QED
      BY <2>1, <2>2, <2>3, <2>4 DEF CopiesInv
  <1>18. CASE CompactCreateFail
    BY <1>18, <1>c DEF CompactCreateFail, ResetCompactor, ControlInv, CopiesInv, Pending,
                       Publishing, Unlinking
  <1>19. ASSUME NEW c \in Ids, ScanEntry(c)
        PROVE  CopiesInv'
    <2>1. newSeg \in Ids /\ Pending /\ c \in todo /\ c \in candidates
      BY <1>0, <1>19, <1>c DEF ScanEntry, ControlInv, Pending, Lowest
    <2>2. PICK p \in Nat : p = scanPos + 1
      BY <1>0
    <2>3. p \in DOMAIN file[c] /\ scanPos' = p
      BY <1>0, <1>19, <2>2 DEF ScanEntry
    <2>4. UNCHANGED <<newSeg, todo, candidates, keydir, cpc, wpc>>
      BY <1>19 DEF ScanEntry
    <2>5. \A r \in rewrites : r.old.pos \in Nat /\ r.key \in Keys /\ r.old.file \in Ids
      BY <1>0 DEF Rewrite, Loc
    <2>6. \A r \in rewrites : ~Unscanned(r.old)'
      <3> SUFFICES ASSUME NEW r \in rewrites
                   PROVE  ~Unscanned(r.old)'
        OBVIOUS
      <3>1. ~Unscanned(r.old)
        BY <2>1 DEF CopiesInv
      <3>2. QED
        BY <1>0, <2>2, <2>3, <2>4, <2>5, <3>1 DEF Unscanned, Lowest
    <2>7. CASE ~IsLive(c, p)
      <3>1. UNCHANGED <<file, rewrites>>
        BY <1>19, <2>2, <2>7 DEF ScanEntry
      <3>2. QED
        BY <2>1, <2>4, <2>6, <3>1 DEF CopiesInv
    <2>8. CASE IsLive(c, p)
      <3> DEFINE e == file[c][p]
      <3> DEFINE s == file[newSeg]
      <3>1. PICK r0 : r0 = [key |-> e.key, old |-> [file |-> c, pos |-> p, t |-> e.t],
                            new |-> [file |-> newSeg, pos |-> Len(s) + 1, t |-> e.t]]
        OBVIOUS
      <3>2. rewrites' = rewrites \cup {r0} /\ file' = [file EXCEPT ![newSeg] = Append(s, e)]
        BY <1>19, <2>2, <2>8, <3>1 DEF ScanEntry
      <3>3. s \in Seq(Entry) /\ e \in Entry
        BY <1>0, <2>1, <2>3
      <3>4. file'[newSeg] = Append(s, e)
        BY <1>0, <2>1, <3>2
      <3>5. e.key \in Keys /\ keydir[e.key].file = c /\ keydir[e.key].pos = p /\ p # 0
        BY <2>2, <1>0, <2>8, <3>3 DEF IsLive, Entry
      <3>6. keydir[e.key] # NoEntry
        BY <3>5 DEF NoEntry
      <3>7. keydir[e.key] \in Loc /\ keydir[e.key].t = e.t
        BY <1>0, <3>5, <3>6 DEF IndInv, DataInv, KeydirResolves, Locates
      <3>8. keydir[e.key] = r0.old
        BY <3>1, <3>5, <3>7 DEF Loc
      <3>9. r0.key = e.key /\ r0.new.pos = Len(s) + 1 /\ r0.new.t = r0.old.t
            /\ r0.old.file = c /\ r0.old.pos = p
        BY <3>1
      <3>10. \A r \in rewrites : r.key # r0.key
        <4> SUFFICES ASSUME NEW r \in rewrites, r.key = r0.key
                     PROVE  FALSE
          OBVIOUS
        <4>1. r.old = keydir[e.key]
          BY <2>1, <3>5, <3>6, <3>9 DEF CopiesInv
        <4>2. ~Unscanned(r.old)
          BY <2>1 DEF CopiesInv
        <4>3. QED
          BY <1>0, <2>1, <2>2, <3>5, <4>1, <4>2 DEF Unscanned
      <3>11. ~Unscanned(r0.old)'
        <4>1. Lowest(todo', r0.old.file) /\ scanPos' = r0.old.pos
          BY <1>19, <2>3, <2>4, <3>9 DEF ScanEntry
        <4>2. ~(r0.old.pos > scanPos')
          BY <2>2, <3>9, <4>1
        <4>3. QED
          BY <4>1, <4>2 DEF Unscanned
      <3> HIDE DEF e, s
      <3>12. \A q \in DOMAIN Append(s, e) : q \in DOMAIN s \/ q = Len(s) + 1
        BY <3>3
      <3>13. \A q \in DOMAIN file'[newSeg] : \E r \in rewrites' : r.new.pos = q
        <4>1. \A q \in DOMAIN s : \E r \in rewrites : r.new.pos = q
          BY <2>1 DEF CopiesInv, s
        <4>2. QED
          BY <3>2, <3>4, <3>9, <3>12, <4>1
      <3>14. \A r, x \in rewrites' : r.key = x.key => r = x
        BY <2>1, <3>2, <3>10 DEF CopiesInv
      <3>15. \A r \in rewrites' :
               /\ ~Unscanned(r.old)'
               /\ r.new.t = r.old.t
               /\ keydir[r.key] # NoEntry /\ keydir[r.key].file \in candidates =>
                    keydir[r.key] = r.old
        <4>1. \A r \in rewrites :
                /\ r.new.t = r.old.t
                /\ keydir[r.key] # NoEntry /\ keydir[r.key].file \in candidates =>
                     keydir[r.key] = r.old
          BY <2>1 DEF CopiesInv
        <4>2. QED
          BY <2>6, <3>2, <3>8, <3>9, <3>11, <4>1
      <3>16. QED
        BY <2>1, <2>4, <3>13, <3>14, <3>15 DEF CopiesInv
    <2>9. QED
      BY <2>7, <2>8
  <1>20. ASSUME NEW c \in Ids, ScanNext(c)
        PROVE  CopiesInv'
    <2>1. /\ Pending /\ Lowest(todo, c) /\ todo' = todo \ {c}
          /\ UNCHANGED <<file, newSeg, rewrites, candidates, keydir>>
      BY <1>20 DEF ScanNext, Pending
    <2>2. \A r \in rewrites : ~Unscanned(r.old)'
      <3> SUFFICES ASSUME NEW r \in rewrites
                   PROVE  ~Unscanned(r.old)'
        OBVIOUS
      <3>1. ~Unscanned(r.old)
        BY <2>1 DEF CopiesInv
      <3>2. r.old.file \in Ids
        BY <1>0 DEF Rewrite, Loc
      <3>3. r.old.file \in todo => r.old.file = c
        <4> SUFFICES ASSUME r.old.file \in todo
                     PROVE  r.old.file = c
          OBVIOUS
        <4>1. Lowest(todo, r.old.file)
          BY <3>1 DEF Unscanned
        <4>2. c <= r.old.file /\ r.old.file <= c
          BY <2>1, <4>1 DEF Lowest
        <4>3. c \in Nat /\ r.old.file \in Nat
          BY <3>2
        <4>4. QED
          BY <4>2, <4>3
      <3>4. QED
        BY <2>1, <3>3 DEF Unscanned
    <2>3. QED
      BY <2>1, <2>2 DEF CopiesInv
  <1>21. CASE CompactFail
    BY <1>21, <1>c DEF CompactFail, ResetCompactor, ControlInv, CopiesInv, Pending,
                       Publishing, Unlinking
  <1>22. CASE RetireOnly
    BY <1>22, <1>0 DEF RetireOnly, CopiesInv
  <1>23. CASE WriteHintFile
    BY <1>23, <1>f DEF WriteHintFile, Pending, Publishing
  <1>24. CASE CleanupSegment
    BY <1>24, <1>c DEF CleanupSegment, ResetCompactor, ControlInv, CopiesInv, Pending,
                       Publishing, Unlinking
  <1>25. CASE CleanupHint
    BY <1>25, <1>c DEF CleanupHint, ResetCompactor, ControlInv, CopiesInv, Pending,
                       Publishing, Unlinking
  <1>26. ASSUME NEW r \in Readers, NEW K \in SUBSET Keys \ {{}}, ReadStart(r, K)
        PROVE  CopiesInv'
    BY <1>26, <1>f DEF ReadStart, Pending, Publishing
  <1>27. ASSUME NEW r \in Readers, NEW k \in Keys, ReadValue(r, k)
        PROVE  CopiesInv'
    BY <1>27, <1>f DEF ReadValue, Pending, Publishing
  <1>28. CASE UNCHANGED vars
    BY <1>28, <1>f DEF vars, Pending, Publishing
  <1>29. QED
    BY <1>1, <1>2, <1>3, <1>4, <1>5, <1>6, <1>7, <1>8, <1>9, <1>10, <1>11,
       <1>12, <1>13, <1>14, <1>15, <1>16, <1>17, <1>18, <1>19, <1>20,
       <1>21, <1>22, <1>23, <1>24, <1>25, <1>26, <1>27, <1>28
       DEF Next, Writer, Compactor, Reader

\* e is the location of a PUT of key k in the segments S.
PutIn(S, k, e) ==
    /\ e.file \in S
    /\ e.pos \in DOMAIN file[e.file]
    /\ file[e.file][e.pos].key = k
    /\ file[e.file][e.pos].t = e.t
    /\ file[e.file][e.pos].val # Tombstone

\* The keydir kd has only locations of PUTs in S.
Sound(S, kd) == \A k \in Keys : kd[k] = NoEntry \/ PutIn(S, k, kd[k])

\* Hints that describe their segments.
TrueHints == \A i \in hintFiles \cap segFiles : hint[i] = Puts(i) /\ IsMerged(i)

\* What an entry of a true hint stands for.
LEMMA HintEntryFacts ==
  ASSUME NEW i \in hintFiles \cap segFiles, TrueHints, NEW h \in hint[i]
  PROVE  /\ h.pos \in DOMAIN file[i]
         /\ file[i][h.pos].key = h.key
         /\ file[i][h.pos].t = h.t
         /\ file[i][h.pos].val # Tombstone
  <1>1. h \in Puts(i)
    BY DEF TrueHints
  <1>2. PICK p \in DOMAIN file[i] :
          /\ file[i][p].val # Tombstone
          /\ h = [key |-> file[i][p].key, pos |-> p, t |-> file[i][p].t]
    BY <1>1 DEF Puts
  <1>3. QED
    BY <1>2

\* Replaying a segment, from its data or its hint, finds PUTs of it.
LEMMA SoundSegment ==
  ASSUME RTypeOK, TrueHints, NEW S \in SUBSET (Ids \cap segFiles), NEW i \in S, NEW act,
         NEW kd \in [Keys -> Loc], Sound(S, kd)
  PROVE  Sound(S, ReplaySegment(kd, i, act))
  <1>0. i \in Ids /\ i \in segFiles
    OBVIOUS
  <1>1. CASE i # act /\ HintUsable(i)
    <2>1. ReplaySegment(kd, i, act) = ReplayHint(kd, i) /\ i \in hintFiles
      BY <1>1 DEF ReplaySegment, HintUsable
    <2>2. ASSUME NEW k \in Keys
          PROVE  ReplayHint(kd, i)[k] = NoEntry \/ PutIn(S, k, ReplayHint(kd, i)[k])
      <3>1. CASE ReplayHint(kd, i)[k] = kd[k]
        BY <3>1 DEF Sound
      <3>2. ASSUME NEW h \in hint[i], h.key = k,
                   ReplayHint(kd, i)[k] = [file |-> i, pos |-> h.pos, t |-> h.t]
            PROVE  PutIn(S, k, ReplayHint(kd, i)[k])
        <4>1. /\ h.pos \in DOMAIN file[i] /\ file[i][h.pos].key = h.key
              /\ file[i][h.pos].t = h.t /\ file[i][h.pos].val # Tombstone
          BY <1>0, <2>1, HintEntryFacts
        <4>2. QED
          BY <3>2, <4>1 DEF PutIn
      <3>3. \/ ReplayHint(kd, i)[k] = kd[k]
            \/ \E h \in hint[i] :
                  /\ h.key = k
                  /\ ReplayHint(kd, i)[k] = [file |-> i, pos |-> h.pos, t |-> h.t]
        BY HintStep
      <3>4. QED
        BY <3>1, <3>2, <3>3
    <2>3. QED
      BY <2>1, <2>2 DEF Sound
  <1>2. CASE ~(i # act /\ HintUsable(i))
    <2>1. ReplaySegment(kd, i, act) = ReplayData(kd, i)
      BY <1>2 DEF ReplaySegment
    <2>2. PICK n \in Nat : n = Len(file[i]) /\ DOMAIN file[i] = 1 .. n
      BY <1>0, DirDomain
    <2>3. PICK f \in [0 .. n -> [Keys -> Loc]] :
            /\ f[0] = kd
            /\ \A p \in 1 .. n : f[p] = ReplayEntry(f[p - 1], file[i][p], Spot(i, p))
            /\ ReplayData(kd, i) = f[n]
      BY <1>0, <2>2, DataUnfolds
    <2> DEFINE P == {p \in 0 .. n : Sound(S, f[p])}
    <2>4. 0 \in P
      BY <2>2, <2>3
    <2>5. ASSUME NEW p \in 1 .. n, p - 1 \in P
          PROVE  p \in P
      <3>1. Sound(S, f[p - 1]) /\ f[p - 1] \in [Keys -> Loc]
        BY <2>3, <2>5
      <3>2. file[i][p] \in Entry /\ file[i][p].key \in Keys
        BY <1>0, <2>2, DirEntry
      <3>3. f[p] = ReplayEntry(f[p - 1], file[i][p], Spot(i, p))
        BY <2>3
      <3>4. file[i][p].val # Tombstone => PutIn(S, file[i][p].key, Spot(i, p))
        BY <2>2 DEF PutIn, Spot
      <3>5. \A k \in Keys : \/ f[p][k] = f[p - 1][k]
                            \/ f[p][k] = NoEntry
                            \/ /\ k = file[i][p].key /\ file[i][p].val # Tombstone
                               /\ f[p][k] = Spot(i, p)
        BY <3>1, <3>2, <3>3 DEF ReplayEntry
      <3>6. Sound(S, f[p])
        BY <3>1, <3>4, <3>5 DEF Sound
      <3>7. QED
        BY <3>6
    <2> HIDE DEF P
    <2>6. \A p \in 0 .. n : p \in P
      BY <2>4, <2>5, UpTo
    <2>7. n \in P
      BY <2>6
    <2>8. QED
      BY <2>1, <2>3, <2>7 DEF P
  <1>3. QED
    BY <1>1, <1>2

\* What replay puts into the keydir leads to PUTs in the live segments.
LEMMA ReplaySound ==
  ASSUME RTypeOK, TrueHints, NEW S \in SUBSET (Ids \cap segFiles), NEW act
  PROVE  Sound(S, Replay(S, act))
  <1>1. PICK m \in Nat : m = MaxSegId + 1
    BY IdAssumption
  <1>2. PICK f \in [0 .. m -> [Keys -> Loc]] :
          /\ f[0] = [k \in Keys |-> NoEntry]
          /\ \A n \in 1 .. m : f[n] = IF n - 1 \notin S THEN f[n - 1]
                                      ELSE ReplaySegment(f[n - 1], n - 1, act)
          /\ Replay(S, act) = f[m]
    <2>1. S \in SUBSET Ids
      OBVIOUS
    <2>2. QED
      BY <1>1, <2>1, ReplayUnfolds
  <1> DEFINE P == {n \in 0 .. m : Sound(S, f[n])}
  <1>3. 0 \in P
    BY <1>2 DEF Sound
  <1>4. ASSUME NEW n \in 1 .. m, n - 1 \in P
        PROVE  n \in P
    <2>1. Sound(S, f[n - 1]) /\ f[n - 1] \in [Keys -> Loc]
      BY <1>2, <1>4
    <2>2. n - 1 \in S => Sound(S, ReplaySegment(f[n - 1], n - 1, act))
      BY <2>1, SoundSegment
    <2>3. Sound(S, f[n])
      BY <1>2, <2>1, <2>2
    <2>4. QED
      BY <2>3
  <1> HIDE DEF P
  <1>5. \A n \in 0 .. m : n \in P
    BY <1>3, <1>4, UpTo
  <1>6. m \in P
    BY <1>5
  <1>7. QED
    BY <1>2, <1>6 DEF P

\* Hints are only as good as the segments beside them: a running engine.
LEMMA HintRunning == HintInv /\ Running => HintInv'
  <1> SUFFICES ASSUME HintInv, Running
               PROVE  HintInv'
    OBVIOUS
  <1>1. mode = "up" /\ mode' = "up" /\ Next
    BY DEF Running
  <1>2. IndInv /\ CopiesInv /\ HintFilesInv /\ DirInv
    BY <1>1 DEF HintInv, DirInv, IndInv
  <1>3. IndInv' /\ CopiesInv' /\ HintFilesInv' /\ DirInv'
    BY <1>1, <1>2, IndStep, CopiesStep, HintFilesStep, DirRunning
  <1>4. QED
    BY <1>1, <1>3 DEF HintInv, IndInv, Opening

\* Hints and segments stay as they are and nothing runs any more.
LEMMA HintStops ==
  ASSUME HintInv, DirInv', mode' = "down", ResetMemory,
         UNCHANGED <<file, segFiles, hint, hintFiles>>, manifest'.active \notin hintFiles
  PROVE  HintInv'
  <1>1. /\ active' = NoSeg /\ next' = NoSeg /\ newSeg' = NoSeg /\ cpc' = "idle"
    BY DEF ResetMemory, ResetCompactor
  <1>2. NoSeg \notin hintFiles
    BY IdFacts DEF HintInv, DirInv, RTypeOK
  <1>3. \A i : Puts(i)' = Puts(i) /\ (IsMerged(i)' <=> IsMerged(i))
    BY DEF Puts, IsMerged
  <1>4. HintFilesInv'
    BY <1>1, <1>2, <1>3 DEF HintInv, HintFilesInv
  <1>5. QED
    BY <1>4 DEF HintInv, Opening

\* A kill.
LEMMA HintKill == HintInv /\ Kill => HintInv'
  <1> SUFFICES ASSUME HintInv, Kill
               PROVE  HintInv'
    OBVIOUS
  <1>1. DirInv'
    BY DirKill DEF HintInv
  <1>2. /\ mode' = "down" /\ ResetMemory
        /\ UNCHANGED <<file, segFiles, hint, hintFiles, manifest>>
    BY DEF Kill
  <1>3. manifest.active \notin hintFiles
    BY DEF HintInv, HintFilesInv
  <1>4. QED
    BY <1>1, <1>2, <1>3, HintStops

\* recover: the new ids are above every hint, and the keydir is sound.
LEMMA HintRecover == HintInv /\ HintsHaveSegments /\ OpenRecover => HintInv'
  <1> SUFFICES ASSUME HintInv, HintsHaveSegments, OpenRecover
               PROVE  HintInv'
    OBVIOUS
  <1>1. DirInv' /\ DirInv /\ RTypeOK /\ DiskInv
    BY DirRecover DEF HintInv, DirInv
  <1>2. /\ mode = "down" /\ mode' \in {"fresh", "manifest", "sweep"}
        /\ UNCHANGED <<file, segFiles, hint, hintFiles, manifest, wpc, next, cpc, newSeg>>
        /\ segments' = LiveOnDisk
        /\ nextID' = Max(segFiles \cup {-1}) + 1
        /\ keydir' = Replay(LiveOnDisk, ActiveOnDisk)
        /\ active' \in {ActiveOnDisk, NoSeg}
    BY DEF OpenRecover
  <1>3. hintFiles \subseteq segFiles
    BY <1>2 DEF HintsHaveSegments
  <1>4. \A i \in hintFiles : i < nextID'
    BY <1>1, <1>2, <1>3, HighestFacts
  <1>5. active' \notin hintFiles
    <2>1. NoSeg \notin hintFiles
      BY <1>1, IdFacts DEF RTypeOK
    <2>2. ActiveOnDisk \notin hintFiles
      BY <1>1 DEF HintInv, HintFilesInv, ActiveOnDisk, DiskInv
    <2>3. QED
      BY <1>2, <2>1, <2>2
  <1>6. \A i : Puts(i)' = Puts(i) /\ (IsMerged(i)' <=> IsMerged(i))
    BY <1>2 DEF Puts, IsMerged
  <1>7. next = NoSeg /\ newSeg = NoSeg /\ cpc = "idle"
    BY <1>1, <1>2 DEF DirInv, OpenInv, Stopped
  <1>8. HintFilesInv'
    BY <1>2, <1>4, <1>5, <1>6, <1>7, IdFacts DEF HintInv, HintFilesInv
  <1>9. KeydirResolves'
    <2>1. LiveOnDisk \in SUBSET (Ids \cap segFiles)
      BY <1>1, LiveFacts
    <2>2. TrueHints
      BY DEF HintInv, HintFilesInv, TrueHints
    <2>3. Sound(LiveOnDisk, Replay(LiveOnDisk, ActiveOnDisk))
      BY <1>1, <2>1, <2>2, ReplaySound
    <2>4. QED
      BY <1>2, <2>3 DEF Sound, PutIn, KeydirResolves, Locates, Resolves
  <1>10. QED
    BY <1>1, <1>2, <1>8, <1>9 DEF HintInv, Opening

\* The fresh active segment has no hint.
LEMMA HintFresh == HintInv /\ OpenFresh => HintInv'
  <1> SUFFICES ASSUME HintInv, OpenFresh
               PROVE  HintInv'
    OBVIOUS
  <1>1. DirInv' /\ DirInv
    BY DirFresh DEF HintInv
  <1>2. /\ mode = "fresh" /\ mode' = "manifest"
        /\ nextID \in Ids /\ nextID \notin segFiles
        /\ segFiles' = segFiles \cup {nextID}
        /\ file' = [file EXCEPT ![nextID] = <<>>]
        /\ segments' = segments \cup {nextID}
        /\ active' = nextID /\ nextID' = nextID + 1
        /\ UNCHANGED <<hint, hintFiles, manifest, keydir, wpc, next, cpc, newSeg>>
    BY DEF OpenFresh, CreateSegment
  <1>3. /\ file \in [Ids -> Seq(Entry)] /\ segFiles \subseteq Ids /\ hintFiles \subseteq Ids
    BY <1>1 DEF DirInv, RTypeOK
  <1>4. /\ segments \subseteq segFiles /\ nextID \in Nat
        /\ next = NoSeg /\ newSeg = NoSeg /\ cpc = "idle"
    BY <1>1, <1>2 DEF DirInv, OpenInv, Stopped, Opening
  <1>5. \A i \in hintFiles : i < nextID /\ i \in Nat
    BY <1>2, <1>3, IdFacts DEF HintInv, HintFilesInv
  <1>6. nextID \notin hintFiles /\ \A i \in hintFiles : i < nextID'
    BY <1>2, <1>4, <1>5
  <1>7. \A i \in hintFiles : file'[i] = file[i]
    BY <1>2, <1>3, <1>6
  <1>8. \A i \in hintFiles : Puts(i)' = Puts(i) /\ (IsMerged(i)' <=> IsMerged(i))
    BY <1>7 DEF Puts, IsMerged
  <1>9. HintFilesInv'
    BY <1>2, <1>4, <1>6, <1>8, IdFacts DEF HintInv, HintFilesInv
  <1>10. KeydirResolves'
    <2>1. KeydirResolves
      BY <1>2 DEF HintInv, Opening
    <2>2. \A i \in segments : file'[i] = file[i]
      BY <1>2, <1>3, <1>4
    <2>3. QED
      BY <1>2, <2>1, <2>2 DEF KeydirResolves, Locates, Resolves
  <1>11. QED
    BY <1>1, <1>2, <1>9, <1>10 DEF HintInv, Opening

\* The manifest Open writes calls a segment without hint active.
LEMMA HintManifest == HintInv /\ (OpenManifest \/ OpenManifestFail) => HintInv'
  <1> SUFFICES ASSUME HintInv, OpenManifest \/ OpenManifestFail
               PROVE  HintInv'
    OBVIOUS
  <1>1. DirInv' /\ DirInv
    BY DirManifest DEF HintInv
  <1>2. /\ mode = "manifest"
        /\ \/ manifest' = manifest
           \/ manifest' = [segs |-> segments, active |-> active]
        /\ UNCHANGED <<file, segFiles, torn, hint, hintFiles, saved>>
    BY DEF OpenManifest, OpenManifestFail, WriteManifest
  <1>3. manifest'.active \notin hintFiles
    BY <1>2 DEF HintInv, HintFilesInv
  <1>4. CASE OpenManifest
    <2>1. /\ mode' = "sweep"
          /\ UNCHANGED <<segments, active, nextID, keydir, wpc, next, cpc, newSeg>>
      BY <1>4 DEF OpenManifest
    <2>2. \A i : Puts(i)' = Puts(i) /\ (IsMerged(i)' <=> IsMerged(i))
      BY <1>2 DEF Puts, IsMerged
    <2>3. HintFilesInv'
      BY <1>2, <1>3, <2>1, <2>2 DEF HintInv, HintFilesInv, Publishing
    <2>4. KeydirResolves'
      BY <1>2, <2>1 DEF HintInv, Opening, KeydirResolves, Locates, Resolves
    <2>5. QED
      BY <1>1, <2>1, <2>3, <2>4 DEF HintInv
  <1>5. CASE OpenManifestFail
    BY <1>1, <1>2, <1>3, <1>5, HintStops DEF OpenManifestFail
  <1>6. QED
    BY <1>4, <1>5

\* The sweep leaves the live segments and their hints alone.
LEMMA HintSweep ==
  ASSUME HintInv, NEW i \in Ids, SweepOne(i)
  PROVE  HintInv'
  <1>1. DirInv' /\ DirInv
    BY DirSweep DEF HintInv
  <1>2. /\ mode = "sweep" /\ i \notin manifest.segs
        /\ \/ hintFiles' = hintFiles \ {i} /\ hint' = [hint EXCEPT ![i] = {}]
              /\ UNCHANGED <<file, segFiles>>
           \/ segFiles' = segFiles \ {i} /\ file' = [file EXCEPT ![i] = <<>>]
              /\ UNCHANGED <<hint, hintFiles>>
        /\ UNCHANGED <<manifest, segments, active, nextID, keydir, wpc, next, cpc,
                       newSeg, mode>>
    BY DEF SweepOne, Orphans
  <1>3. /\ file \in [Ids -> Seq(Entry)] /\ segFiles \subseteq Ids
        /\ hint \in [Ids -> SUBSET HintEntry] /\ hintFiles \subseteq Ids
    BY <1>1 DEF DirInv, RTypeOK
  <1>4. /\ manifest.segs = segments /\ segments \subseteq segFiles
        /\ next = NoSeg /\ newSeg = NoSeg /\ cpc = "idle"
    BY <1>1, <1>2 DEF DirInv, OpenInv, Stopped, Opening
  <1>5. /\ hintFiles' \subseteq hintFiles /\ segFiles' \subseteq segFiles
        /\ \A j \in hintFiles' \cap segFiles' : hint'[j] = hint[j] /\ file'[j] = file[j]
    BY <1>2, <1>3
  <1>6. \A j \in hintFiles' \cap segFiles' : Puts(j)' = Puts(j) /\ (IsMerged(j)' <=> IsMerged(j))
    BY <1>5 DEF Puts, IsMerged
  <1>7. HintFilesInv'
    <2>1. mode' # "down" => \A j \in hintFiles' : j < nextID'
      BY <1>2, <1>5 DEF HintInv, HintFilesInv
    <2>2. \A j \in hintFiles' \cap segFiles' : hint'[j] = Puts(j)' /\ IsMerged(j)'
      BY <1>5, <1>6 DEF HintInv, HintFilesInv
    <2>3. {active', next', manifest'.active} \cap hintFiles' = {}
      BY <1>2, <1>5 DEF HintInv, HintFilesInv
    <2>4. QED
      BY <1>2, <1>4, <2>1, <2>2, <2>3 DEF HintFilesInv
  <1>8. KeydirResolves'
    <2>1. KeydirResolves
      BY <1>2 DEF HintInv, Opening
    <2>2. \A j \in segments : file'[j] = file[j]
      BY <1>2, <1>3, <1>4
    <2>3. QED
      BY <1>2, <2>1, <2>2 DEF KeydirResolves, Locates, Resolves
  <1>9. QED
    BY <1>1, <1>2, <1>7, <1>8 DEF HintInv, Opening

\* The writer starts with a sound keydir, and no compaction under way.
LEMMA HintDone == HintInv /\ OpenDone => HintInv'
  <1> SUFFICES ASSUME HintInv, OpenDone
               PROVE  HintInv'
    OBVIOUS
  <1>1. DirInv' /\ DirInv
    BY DirDone DEF HintInv
  <1>2. mode = "sweep" /\ mode' = "up" /\ UNCHANGED vars
    BY DEF OpenDone
  <1>3. KeydirResolves
    BY <1>2 DEF HintInv, Opening
  <1>4. /\ cpc = "idle" /\ ~Pending /\ rd = [r \in Readers |-> IdleReader]
    BY <1>1, <1>2 DEF DirInv, OpenInv, Stopped, Pending, Publishing
  <1>5. DataInv /\ CopiesInv
    <2>1. \A r \in Readers : rd[r].keys = {}
      BY <1>4 DEF IdleReader
    <2>2. QED
      BY <1>3, <1>4, <2>1 DEF DataInv, CopiesInv, RewritesInv, CoverageInv, ReadersInv
  <1>6. IndInv
    BY <1>1, <1>2, <1>5, OpenedCore DEF IndInv
  <1>7. IndInv' /\ CopiesInv' /\ HintFilesInv'
    BY <1>2, <1>5, <1>6, IndStep, CopiesStep, HintFilesStep DEF HintInv
  <1>8. QED
    BY <1>1, <1>2, <1>7 DEF HintInv, IndInv, Opening

\* Nothing happens.
LEMMA HintStutter == HintInv /\ UNCHANGED allVars => HintInv'
  <1> SUFFICES ASSUME HintInv, UNCHANGED allVars
               PROVE  HintInv'
    OBVIOUS
  <1>1. DirInv' /\ DirInv
    BY DirStep DEF HintInv
  <1>2. mode' = mode /\ UNCHANGED vars
    BY DEF allVars
  <1>3. mode = "up" => IndInv' /\ CopiesInv'
    BY <1>1, <1>2, IndStep, CopiesStep DEF HintInv, DirInv, IndInv
  <1>4. HintFilesInv'
    BY <1>2 DEF HintInv, HintFilesInv, vars, Puts, IsMerged, Publishing
  <1>5. KeydirResolves => KeydirResolves'
    BY <1>2 DEF vars, KeydirResolves, Locates, Resolves
  <1>6. QED
    BY <1>1, <1>2, <1>3, <1>4, <1>5 DEF HintInv, IndInv, Opening

\* Every step, of the engine, of Open, and the kill between any two of them,
\* leaves hints that describe their segments, as long as Open finds no hint
\* without its segment.
LEMMA HintInvStep == HintInv /\ HintsHaveSegments /\ [RNext]_allVars => HintInv'
  BY HintStutter, HintRunning, HintKill, HintRecover, HintFresh, HintManifest,
     HintSweep, HintDone DEF RNext, Open

\* No hint in an empty directory.
LEMMA HintInit == RInit => HintInv
  <1> SUFFICES ASSUME RInit
               PROVE  HintInv
    OBVIOUS
  <1>1. DirInv
    BY DirInit
  <1>2. HintFilesInv
    BY DEF RInit, HintFilesInv, Publishing
  <1>3. QED
    BY <1>1, <1>2 DEF RInit, HintInv, Opening

\* If no process leaves a hint without its segment, every hint describes its
\* segment, and the keydir leads to PUTs of the live segments.
THEOREM HintInvariance == RSpec /\ []HintsHaveSegments => []HintInv
  BY HintInit, HintInvStep, PTL DEF RSpec

\* A hint that recovery would use has exactly the PUTs of its segment.
THEOREM HintsAlwaysDescribeData == RSpec /\ []HintsHaveSegments => []HintsDescribeData
  <1>1. HintInv => HintsDescribeData
    <2> SUFFICES ASSUME HintInv, NEW i \in (manifest.segs \cap hintFiles) \ {manifest.active}
                 PROVE  hint[i] = Puts(i)
      BY DEF HintsDescribeData, Puts
    <2>1. i \in segFiles
      BY DEF HintInv, DirInv, DiskInv, NoManifest
    <2>2. QED
      BY <2>1 DEF HintInv, HintFilesInv
  <1>2. QED
    BY <1>1, HintInvariance, PTL

\* What Open rebuilds leads to PUTs of the live segments, before the writer
\* starts and ever after.
THEOREM OpenAlwaysResolves == RSpec /\ []HintsHaveSegments => []OpenResolves
  <1>1. HintInv => OpenResolves
    BY DEF HintInv, DataInv, OpenResolves, Opening
  <1>2. QED
    BY <1>1, HintInvariance, PTL

\* No call fails that would leave a hint without its segment, and no process
\* is killed between the removal of a segment and of its hint.
HintsSafe == Faults \cap {"midUnlink", "hint", "unlink"} = {}

\* The running engine leaves no hint behind.
LEMMA OwnersStep ==
  ASSUME HintsSafe, IndInv, HintFilesInv, HintOwners, [Next]_vars
  PROVE  HintOwners'
  <1> USE IdFacts
  <1>0. /\ segFiles \subseteq Ids /\ hintFiles \subseteq Ids /\ candidates \subseteq Ids
        /\ newSeg \in Ids \cup {NoSeg} /\ next \in Ids \cup {NoSeg}
    BY DEF IndInv, CoreInv, TypeOK
  <1>c. ControlInv /\ OwnershipInv
    BY DEF IndInv, CoreInv
  <1>f. ASSUME hintFiles' = hintFiles, segFiles \subseteq segFiles',
               wpc = "unlinkHint" => wpc' = wpc /\ candidates' = candidates,
               cpc = "cleanupHint" => cpc' = cpc /\ newSeg' = newSeg
        PROVE  HintOwners'
    BY <1>f DEF HintOwners, Lowest
  <1>u. wpc = "unlinkHint" => cpc = "committing"
    BY <1>c DEF ControlInv, Unlinking
  <1>r. ASSUME NEW i, RemoveSegment(i)
        PROVE  segFiles' = segFiles \ {i}
    BY <1>r DEF RemoveSegment, HintsSafe
  <1>h. ASSUME NEW i, RemoveHint(i)
        PROVE  hintFiles' = hintFiles \ {i}
    BY <1>h DEF RemoveHint, HintsSafe
  <1>1. ASSUME NEW ops \in Batches, StartWrite(ops)
        PROVE  HintOwners'
    BY <1>1, <1>f DEF StartWrite
  <1>2. CASE RotateCreate
    BY <1>2, <1>f DEF RotateCreate, CreateSegment
  <1>3. CASE RotateFail
    BY <1>3, <1>f DEF RotateFail, FailWrite
  <1>4. CASE RotateManifest
    BY <1>4, <1>f DEF RotateManifest
  <1>5. CASE RotateAbort
    <2>1. /\ hintFiles' = hintFiles /\ segFiles' = segFiles \ {next}
          /\ UNCHANGED <<candidates, cpc, newSeg>> /\ wpc # "unlinkHint"
      BY <1>5, <1>r DEF RotateAbort
    <2>2. next \notin hintFiles
      BY DEF HintFilesInv
    <2>3. QED
      BY <2>1, <2>2 DEF HintOwners
  <1>6. CASE RotateUncertain
    BY <1>6, <1>f DEF RotateUncertain, FailWrite
  <1>7. CASE RotatePublish
    BY <1>7, <1>f DEF RotatePublish
  <1>8. CASE AppendRecord
    BY <1>8, <1>f DEF AppendRecord
  <1>9. CASE AppendFail
    BY <1>9, <1>f DEF AppendFail, FailWrite
  <1>10. CASE ApplyKeydir
    BY <1>10, <1>f DEF ApplyKeydir
  <1>11. CASE CommitManifest
    BY <1>11, <1>f DEF CommitManifest
  <1>12. CASE CommitFail
    BY <1>12, <1>f DEF CommitFail
  <1>13. CASE CommitPublish
    <2>1. cpc = "committing" /\ wpc # "unlinkHint" /\ UNCHANGED <<hintFiles, segFiles>>
      BY <1>13, <1>c DEF CommitPublish, ControlInv, Publishing
    <2>2. QED
      BY <2>1, <1>f
  <1>14. ASSUME NEW c \in Ids, UnlinkSegment(c)
        PROVE  HintOwners'
    <2>1. /\ hintFiles' = hintFiles /\ segFiles' = segFiles \ {c}
          /\ UNCHANGED <<candidates, cpc, newSeg>> /\ wpc = "unlink" /\ wpc' = "unlinkHint"
          /\ Lowest(candidates, c)
      BY <1>14, <1>r DEF UnlinkSegment
    <2>2. QED
      BY <2>1 DEF HintOwners, Lowest
  <1>15. ASSUME NEW c \in Ids, UnlinkHint(c)
        PROVE  HintOwners'
    <2>1. /\ hintFiles' = hintFiles \ {c} /\ segFiles' = segFiles
          /\ wpc = "unlinkHint" /\ cpc = "committing" /\ Lowest(candidates, c)
      BY <1>15, <1>h, <1>u DEF UnlinkHint
    <2>2. \A i \in Ids : Lowest(candidates, i) => i = c
      <3> SUFFICES ASSUME NEW i \in Ids, Lowest(candidates, i)
                   PROVE  i = c
        OBVIOUS
      <3>1. c <= i /\ i <= c /\ i \in Nat /\ c \in Nat
        BY <2>1 DEF Lowest
      <3>2. QED
        BY <3>1
    <2>3. \A i \in hintFiles \ segFiles : i = c
      BY <1>0, <2>1, <2>2 DEF HintOwners
    <2>4. QED
      BY <2>1, <2>3 DEF HintOwners
  <1>16. CASE CompactSnapshot
    BY <1>16, <1>f, <1>u DEF CompactSnapshot
  <1>17. CASE CompactCreate
    BY <1>17, <1>f, <1>u DEF CompactCreate, CreateSegment
  <1>18. CASE CompactCreateFail
    BY <1>18, <1>f, <1>u DEF CompactCreateFail
  <1>19. ASSUME NEW c \in Ids, ScanEntry(c)
        PROVE  HintOwners'
    BY <1>19, <1>f DEF ScanEntry
  <1>20. ASSUME NEW c \in Ids, ScanNext(c)
        PROVE  HintOwners'
    BY <1>20, <1>f DEF ScanNext
  <1>21. CASE CompactFail
    <2>1. cpc = "scan" /\ hintFiles' = hintFiles /\ segFiles' = segFiles \ {newSeg}
      BY <1>21, <1>r DEF CompactFail, HintsSafe
    <2>2. newSeg \notin hintFiles /\ wpc # "unlinkHint"
      BY <1>u, <2>1 DEF HintFilesInv
    <2>3. QED
      BY <2>1, <2>2 DEF HintOwners
  <1>22. CASE RetireOnly
    <2>1. cpc = "scan" /\ hintFiles' = hintFiles /\ segFiles' = segFiles \ {newSeg}
      BY <1>22, <1>r DEF RetireOnly
    <2>2. newSeg \notin hintFiles /\ wpc # "unlinkHint"
      BY <1>u, <2>1 DEF HintFilesInv
    <2>3. QED
      BY <2>1, <2>2 DEF HintOwners
  <1>23. CASE WriteHintFile
    <2>1. /\ cpc = "scan" /\ hintFiles' = hintFiles \cup {newSeg}
          /\ UNCHANGED segFiles /\ wpc # "unlinkHint"
      BY <1>23, <1>u DEF WriteHintFile
    <2>2. newSeg \in segFiles
      BY <1>c, <2>1 DEF OwnershipInv, ControlInv
    <2>3. QED
      BY <2>1, <2>2 DEF HintOwners
  <1>24. CASE CleanupSegment
    <2>1. cpc = "cleanup" /\ wpc # "unlinkHint" /\ hintFiles' = hintFiles
      BY <1>24, <1>u DEF CleanupSegment
    <2>2. hintFiles \subseteq segFiles
      BY <2>1 DEF HintOwners
    <2>3. CASE newSeg = NoSeg
      BY <1>24, <2>1, <2>2, <2>3 DEF CleanupSegment, HintOwners
    <2>4. CASE newSeg # NoSeg
      <3>1. segFiles' = segFiles \ {newSeg} /\ cpc' = "cleanupHint" /\ newSeg' = newSeg
        BY <1>24, <1>r, <2>4 DEF CleanupSegment
      <3>2. QED
        BY <2>1, <2>2, <3>1 DEF HintOwners
    <2>5. QED
      BY <2>3, <2>4
  <1>25. CASE CleanupHint
    <2>1. /\ cpc = "cleanupHint" /\ hintFiles' = hintFiles \ {newSeg}
          /\ segFiles' = segFiles /\ wpc # "unlinkHint"
      BY <1>25, <1>h, <1>u DEF CleanupHint
    <2>2. QED
      BY <2>1 DEF HintOwners
  <1>26. ASSUME NEW r \in Readers, NEW K \in SUBSET Keys \ {{}}, ReadStart(r, K)
        PROVE  HintOwners'
    BY <1>26, <1>f DEF ReadStart
  <1>27. ASSUME NEW r \in Readers, NEW k \in Keys, ReadValue(r, k)
        PROVE  HintOwners'
    BY <1>27, <1>f DEF ReadValue
  <1>28. CASE UNCHANGED vars
    BY <1>28, <1>f DEF vars
  <1>29. QED
    BY <1>1, <1>2, <1>3, <1>4, <1>5, <1>6, <1>7, <1>8, <1>9, <1>10, <1>11,
       <1>12, <1>13, <1>14, <1>15, <1>16, <1>17, <1>18, <1>19, <1>20,
       <1>21, <1>22, <1>23, <1>24, <1>25, <1>26, <1>27, <1>28
       DEF Next, Writer, Compactor, Reader

\* Nor does Open, which removes the hint of an orphan before its segment.
LEMMA OwnersInvStep ==
  ASSUME HintsSafe, HintInv, HintOwners, [RNext]_allVars
  PROVE  HintOwners'
  <1>0. DirInv /\ HintFilesInv
    BY DEF HintInv
  <1>s. mode # "up" => hintFiles \subseteq segFiles
    BY <1>0 DEF DirInv, OpenInv, Stopped, HintOwners
  <1>1. CASE Running \/ (mode = "up" /\ UNCHANGED allVars)
    <2>1. IndInv /\ [Next]_vars
      BY <1>1 DEF HintInv, DirInv, IndInv, Running, allVars
    <2>2. QED
      BY <1>0, <2>1, OwnersStep
  <1>2. CASE Kill
    <2>1. UNCHANGED <<segFiles, hintFiles>> /\ wpc # "unlinkHint" /\ cpc # "cleanupHint"
      BY <1>2 DEF Kill, HintsSafe
    <2>2. QED
      BY <2>1 DEF HintOwners
  <1>3. CASE OpenRecover \/ OpenFresh \/ OpenManifest \/ OpenManifestFail \/ OpenDone
             \/ (mode # "up" /\ UNCHANGED allVars)
    <2>1. mode # "up" /\ hintFiles' = hintFiles /\ segFiles \subseteq segFiles'
      BY <1>3 DEF OpenRecover, OpenFresh, CreateSegment, OpenManifest, OpenManifestFail,
                  OpenDone, allVars, vars
    <2>2. QED
      BY <1>s, <2>1 DEF HintOwners
  <1>4. ASSUME NEW i \in Ids, SweepOne(i)
        PROVE  HintOwners'
    <2>1. /\ mode # "up"
          /\ \/ hintFiles' = hintFiles \ {i} /\ segFiles' = segFiles
             \/ segFiles' = segFiles \ {i} /\ hintFiles' = hintFiles /\ i \notin hintFiles
      BY <1>4 DEF SweepOne, HintsSafe
    <2>2. QED
      BY <1>s, <2>1 DEF HintOwners
  <1>5. QED
    BY <1>1, <1>2, <1>3, <1>4 DEF RNext, Open

\* No process leaves a hint without its segment, if no call fails that would
\* and no kill falls between the removal of the two.
THEOREM HintsKeepSegments ==
  ASSUME HintsSafe
  PROVE  RSpec => []HintsHaveSegments
  <1>1. RInit => HintInv /\ HintOwners
    BY HintInit DEF RInit, HintOwners
  <1>2. HintInv /\ HintOwners => HintsHaveSegments
    BY DEF HintInv, DirInv, OpenInv, Stopped, HintOwners, HintsHaveSegments
  <1>3. HintInv /\ HintOwners /\ [RNext]_allVars => (HintInv /\ HintOwners)'
    BY <1>2, HintInvStep, OwnersInvStep
  <1>4. QED
    BY <1>1, <1>2, <1>3, PTL DEF RSpec

\* Then hints describe their data, and what Open rebuilds resolves.
THEOREM HintsSound ==
  ASSUME HintsSafe
  PROVE  RSpec => [](HintsDescribeData /\ OpenResolves)
  BY HintsKeepSegments, HintsAlwaysDescribeData, OpenAlwaysResolves, PTL

----------------------------------------------------------------------------
(* Third layer: what the log says.                                         *)

\* At most one entry decides a key.
LEMMA DecidesUnique ==
  ASSUME RTypeOK, NEW S \in SUBSET Ids, NEW k, NEW i, NEW p, NEW j, NEW q,
         Decides(S, k, i, p), Decides(S, k, j, q)
  PROVE  i = j /\ p = q
  <1>1. /\ i \in Ids /\ p \in DOMAIN file[i] /\ file[i][p].key = k
        /\ j \in Ids /\ q \in DOMAIN file[j] /\ file[j][q].key = k
    BY DEF Decides
  <1>2. /\ file[i][p].t \in Nat /\ p \in Nat
        /\ file[j][q].t \in Nat /\ q \in Nat
    BY <1>1, DirEntry
  <1>3. file[j][q].t <= file[i][p].t /\ (file[j][q].t = file[i][p].t => j = i /\ q <= p)
    BY <1>1 DEF Decides
  <1>4. file[i][p].t <= file[j][q].t /\ (file[i][p].t = file[j][q].t => i = j /\ p <= q)
    BY <1>1 DEF Decides
  <1>5. file[j][q].t = file[i][p].t
    BY <1>2, <1>3, <1>4
  <1>6. QED
    BY <1>2, <1>3, <1>4, <1>5

\* The segments give a key one value.
LEMMA GivesUnique ==
  ASSUME RTypeOK, NEW S \in SUBSET Ids, NEW k, NEW v, NEW w, Gives(S, k, v), Gives(S, k, w)
  PROVE  v = w
  <1>1. CASE ~Occurs(S, k)
    <2>1. \A i, p : ~Decides(S, k, i, p)
      BY <1>1 DEF Decides, Occurs
    <2>2. QED
      BY <2>1 DEF Gives
  <1>2. CASE Occurs(S, k)
    <2>1. PICK i, p : Decides(S, k, i, p) /\ v = file[i][p].val
      BY <1>2 DEF Gives
    <2>2. PICK j, q : Decides(S, k, j, q) /\ w = file[j][q].val
      BY <1>2 DEF Gives
    <2>3. QED
      BY <2>1, <2>2, DecidesUnique
  <1>3. QED
    BY <1>1, <1>2

\* The value at a location.
Held(e) == IF e.pos = 0 THEN Tombstone ELSE file[e.file][e.pos].val

\* Segments that put a key at a location give it the value there.
LEMMA PutsGives ==
  ASSUME RTypeOK, NEW S \in SUBSET Ids, NEW k, NEW e, PutsAt(S, k, e)
  PROVE  /\ Gives(S, k, Held(e))
         /\ e # NoEntry => e.file \in S /\ e.pos \in DOMAIN file[e.file] /\ e.pos # 0
  <1>1. CASE ~Occurs(S, k) /\ e = NoEntry
    BY <1>1 DEF Gives, Held, NoEntry
  <1>2. ASSUME NEW i \in S, NEW p \in DOMAIN file[i], Decides(S, k, i, p), e = LocAt(i, p)
        PROVE  /\ Gives(S, k, Held(e))
               /\ e # NoEntry => e.file \in S /\ e.pos \in DOMAIN file[e.file] /\ e.pos # 0
    <2>1. p # 0
      BY DirEntry
    <2>2. CASE file[i][p].val = Tombstone
      BY <1>2, <2>2 DEF Gives, Held, NoEntry, LocAt
    <2>3. CASE file[i][p].val # Tombstone
      BY <1>2, <2>1, <2>3 DEF Gives, Held, LocAt
    <2>4. QED
      BY <2>2, <2>3
  <1>3. QED
    BY <1>1, <1>2 DEF PutsAt

\* What Get returns for a key is what the live segments give it.
LEMMA PutsView ==
  ASSUME RTypeOK, segments \in SUBSET Ids, NEW k, NEW e, PutsAt(segments, k, e)
  PROVE  Gives(segments, k, ValueAt(e)) /\ Held(e) = ValueAt(e)
  <1>1. Gives(segments, k, Held(e))
    BY PutsGives
  <1>2. CASE e = NoEntry
    <2>1. NoEntry.pos \notin DOMAIN file[NoEntry.file]
      BY IdFacts, DirEntry DEF NoEntry
    <2>2. Held(e) = Tombstone /\ ValueAt(e) = Tombstone
      BY <1>2, <2>1 DEF Held, ValueAt, Resolves, NoEntry
    <2>3. QED
      BY <1>1, <2>2
  <1>3. CASE e # NoEntry
    <2>1. e.file \in segments /\ e.pos \in DOMAIN file[e.file] /\ e.pos # 0
      BY <1>3, PutsGives
    <2>2. Held(e) = ValueAt(e)
      BY <2>1 DEF Held, ValueAt, Resolves
    <2>3. QED
      BY <1>1, <2>2
  <1>4. QED
    BY <1>2, <1>3

\* Position q of segment j is not before position p of segment i.
Past(i, p, j, q) == j > i \/ (j = i /\ q >= p)

\* The keydir kd, after position q of segment j, has the entry that decides
\* key k if that was passed, and nothing newer.
Ahead(kd, k, i, p, j, q) ==
    /\ kd[k].t <= file[i][p].t
    /\ Past(i, p, j, q) => kd[k] = LocAt(i, p)

\* Replaying one entry: nothing outbids the entry that decides, which
\* replaces whatever came before it.
LEMMA WinnerEntry ==
  ASSUME RTypeOK, NEW S \in SUBSET Ids, NEW k \in Keys, NEW i, NEW p, Decides(S, k, i, p),
         NEW j \in S, NEW q \in DOMAIN file[j], NEW kd \in [Keys -> Loc],
         NEW o, o = q - 1, Ahead(kd, k, i, p, j, o)
  PROVE  Ahead(ReplayEntry(kd, file[j][q], Spot(j, q)), k, i, p, j, q)
  <1> USE DEF Ahead
  <1> DEFINE r == ReplayEntry(kd, file[j][q], Spot(j, q))
  <1>1. /\ i \in S /\ i \in Ids /\ p \in DOMAIN file[i] /\ file[i][p].key = k
    BY DEF Decides
  <1>2. /\ i \in Nat /\ j \in Nat /\ p \in Nat \ {0} /\ q \in Nat \ {0}
        /\ file[i][p].t \in Nat /\ file[j][q].t \in Nat /\ file[j][q].key \in Keys
    BY <1>1, DirEntry, IdFacts
  <1>3. kd[k] \in Loc /\ kd[k].t \in Nat
    BY DEF Loc
  <1>4. r[k] = IF file[j][q].key = k /\ file[j][q].t >= kd[k].t
               THEN IF file[j][q].val = Tombstone THEN NoEntry ELSE Spot(j, q)
               ELSE kd[k]
    BY <1>2 DEF ReplayEntry
  <1> HIDE DEF r
  <1>5. CASE file[j][q].key # k
    <2>1. r[k] = kd[k]
      BY <1>4, <1>5
    <2>2. Past(i, p, j, q) => Past(i, p, j, q - 1)
      BY <1>1, <1>2, <1>5 DEF Past
    <2>3. QED
      BY <2>1, <2>2 DEF r
  <1>6. CASE file[j][q].key = k
    <2>1. /\ file[j][q].t <= file[i][p].t
          /\ file[j][q].t = file[i][p].t => j = i /\ q <= p
          /\ file[i][p].val = Tombstone => j < i \/ (j = i /\ q <= p)
      BY <1>6 DEF Decides
    <2>2. r[k].t <= file[i][p].t
      BY <1>2, <1>4, <2>1 DEF NoEntry, Spot
    <2>3. CASE ~Past(i, p, j, q)
      BY <2>2, <2>3 DEF r
    <2>4. CASE j = i /\ q = p
      <3>1. file[j][q].t >= kd[k].t
        BY <1>2, <1>3, <2>4
      <3>2. r[k] = IF file[i][p].val = Tombstone THEN NoEntry ELSE Spot(i, p)
        BY <1>4, <1>6, <2>4, <3>1
      <3>3. QED
        BY <2>2, <3>2 DEF LocAt, Spot, r
    <2>5. CASE Past(i, p, j, q) /\ ~(j = i /\ q = p)
      <3>1. Past(i, p, j, q - 1) /\ ~(j = i /\ q <= p) /\ ~(j < i)
        BY <1>2, <2>5 DEF Past
      <3>2. file[i][p].val # Tombstone /\ file[j][q].t # file[i][p].t
        BY <2>1, <3>1
      <3>3. kd[k].t = file[i][p].t
        BY <3>1, <3>2 DEF LocAt
      <3>4. r[k] = kd[k]
        BY <1>2, <1>3, <1>4, <2>1, <3>2, <3>3
      <3>5. QED
        BY <2>2, <3>1, <3>4 DEF r
    <2>6. QED
      BY <2>3, <2>4, <2>5
  <1>7. QED
    BY <1>5, <1>6

\* Replaying one segment.
LEMMA WinnerSegment ==
  ASSUME RTypeOK, TrueHints, NEW S \in SUBSET (Ids \cap segFiles), NEW act,
         NEW k \in Keys, NEW i, NEW p, Decides(S, k, i, p),
         NEW j \in S, NEW kd \in [Keys -> Loc],
         kd[k].t <= file[i][p].t, j > i => kd[k] = LocAt(i, p)
  PROVE  /\ ReplaySegment(kd, j, act)[k].t <= file[i][p].t
         /\ j >= i => ReplaySegment(kd, j, act)[k] = LocAt(i, p)
  <1>0. S \in SUBSET Ids /\ j \in Ids /\ j \in segFiles
    OBVIOUS
  <1>1. /\ i \in S /\ i \in Ids /\ p \in DOMAIN file[i] /\ file[i][p].key = k
    BY DEF Decides
  <1>2. i \in Nat /\ j \in Nat /\ p \in Nat \ {0} /\ file[i][p].t \in Nat
    BY <1>0, <1>1, DirEntry, IdFacts
  <1>3. kd[k] \in Loc /\ kd[k].t \in Nat
    BY DEF Loc
  <1>4. CASE j # act /\ HintUsable(j)
    <2> DEFINE r == ReplayHint(kd, j)
    <2>1. ReplaySegment(kd, j, act) = r /\ j \in hintFiles
      BY <1>4 DEF ReplaySegment, HintUsable
    <2>2. hint[j] = Puts(j) /\ IsMerged(j)
      BY <1>0, <2>1 DEF TrueHints
    <2>3. ASSUME r[k] = kd[k], \A h \in hint[j] : ~(h.key = k /\ h.t >= kd[k].t)
          PROVE  r[k].t <= file[i][p].t /\ (j >= i => r[k] = LocAt(i, p))
      <3>1. j # i
        <4> SUFFICES ASSUME j = i
                     PROVE  FALSE
          OBVIOUS
        <4>1. file[j][p].val # Tombstone
          BY <1>1, <2>2 DEF IsMerged
        <4>2. [key |-> k, pos |-> p, t |-> file[j][p].t] \in hint[j]
          BY <1>1, <2>2, <4>1 DEF Puts
        <4>3. ~(file[j][p].t >= kd[k].t)
          BY <2>3, <4>2
        <4>4. QED
          BY <1>2, <1>3, <4>3
      <3>2. QED
        BY <1>2, <2>3, <3>1
    <2>4. ASSUME NEW h \in hint[j], h.key = k, h.t >= kd[k].t,
                 r[k] = [file |-> j, pos |-> h.pos, t |-> h.t]
          PROVE  r[k].t <= file[i][p].t /\ (j >= i => r[k] = LocAt(i, p))
      <3>1. /\ h.pos \in DOMAIN file[j] /\ file[j][h.pos].key = k
            /\ file[j][h.pos].t = h.t /\ file[j][h.pos].val # Tombstone
        BY <1>0, <2>1, <2>4, HintEntryFacts
      <3>2. /\ h.t <= file[i][p].t
            /\ h.t = file[i][p].t => j = i
            /\ file[i][p].val = Tombstone => j < i \/ j = i
        BY <3>1 DEF Decides
      <3>3. h.t \in Nat
        BY <1>0, <3>1, DirEntry
      <3>4. CASE j = i
        <4>1. h.pos = p
          BY <1>1, <2>2, <3>1, <3>4 DEF IsMerged
        <4>2. r[k] = LocAt(i, p)
          BY <2>4, <3>1, <3>4, <4>1 DEF LocAt
        <4>3. QED
          BY <2>4, <3>2, <4>2
      <3>5. CASE j > i
        <4>1. file[i][p].val # Tombstone
          BY <1>2, <3>2, <3>5
        <4>2. kd[k].t = file[i][p].t
          BY <3>5, <4>1 DEF LocAt
        <4>3. h.t = file[i][p].t
          BY <1>2, <2>4, <3>2, <3>3, <4>2
        <4>4. QED
          BY <1>2, <3>2, <3>5, <4>3
      <3>6. CASE j < i
        BY <1>2, <2>4, <3>2, <3>6
      <3>7. QED
        BY <1>2, <3>4, <3>5, <3>6
    <2> HIDE DEF r
    <2>5. \/ /\ r[k] = kd[k]
             /\ \A h \in hint[j] : ~(h.key = k /\ h.t >= kd[k].t)
          \/ \E h \in hint[j] :
                /\ h.key = k /\ h.t >= kd[k].t
                /\ r[k] = [file |-> j, pos |-> h.pos, t |-> h.t]
      BY HintStep DEF r
    <2>6. r[k].t <= file[i][p].t /\ (j >= i => r[k] = LocAt(i, p))
      BY <2>3, <2>4, <2>5
    <2>7. QED
      BY <2>1, <2>6
  <1>5. CASE ~(j # act /\ HintUsable(j))
    <2>1. ReplaySegment(kd, j, act) = ReplayData(kd, j)
      BY <1>5 DEF ReplaySegment
    <2>2. PICK n \in Nat : n = Len(file[j]) /\ DOMAIN file[j] = 1 .. n
      BY <1>0, DirDomain
    <2>3. PICK f \in [0 .. n -> [Keys -> Loc]] :
            /\ f[0] = kd
            /\ \A q \in 1 .. n : f[q] = ReplayEntry(f[q - 1], file[j][q], Spot(j, q))
            /\ ReplayData(kd, j) = f[n]
      BY <1>0, <2>2, DataUnfolds
    <2> DEFINE P == {q \in 0 .. n : /\ f[q][k].t <= file[i][p].t
                                    /\ Past(i, p, j, q) => f[q][k] = LocAt(i, p)}
    <2>4. 0 \in P
      <3>1. Past(i, p, j, 0) => j > i
        BY <1>2 DEF Past
      <3>2. QED
        BY <2>2, <2>3, <3>1
    <2>5. ASSUME NEW q \in 1 .. n, q - 1 \in P
          PROVE  q \in P
      <3>1. /\ f[q - 1] \in [Keys -> Loc] /\ q \in DOMAIN file[j]
            /\ f[q - 1][k].t <= file[i][p].t
            /\ Past(i, p, j, q - 1) => f[q - 1][k] = LocAt(i, p)
        BY <2>2, <2>3, <2>5
      <3>2. Ahead(ReplayEntry(f[q - 1], file[j][q], Spot(j, q)), k, i, p, j, q)
        <4>1. PICK x \in [Keys -> Loc] : x = f[q - 1]
          BY <3>1
        <4>2. PICK o : o = q - 1
          OBVIOUS
        <4>3. Ahead(x, k, i, p, j, o)
          BY <3>1, <4>1, <4>2 DEF Ahead
        <4>4. Ahead(ReplayEntry(x, file[j][q], Spot(j, q)), k, i, p, j, q)
          BY <1>0, <3>1, <4>2, <4>3, WinnerEntry
        <4>5. QED
          BY <4>1, <4>4
      <3>3. f[q] = ReplayEntry(f[q - 1], file[j][q], Spot(j, q))
        BY <2>3
      <3>4. QED
        BY <3>2, <3>3 DEF Ahead
    <2> HIDE DEF P
    <2>6. \A q \in 0 .. n : q \in P
      BY <2>4, <2>5, UpTo
    <2>7. n \in P
      BY <2>6
    <2>8. j >= i => Past(i, p, j, n)
      <3>1. j = i => n >= p
        BY <1>1, <1>2, <2>2
      <3>2. QED
        BY <1>2, <2>2, <3>1 DEF Past
    <2>9. QED
      BY <2>1, <2>3, <2>7, <2>8 DEF P
  <1>6. QED
    BY <1>4, <1>5

\* Replay puts a key where the entry that decides it is.
LEMMA ReplayWinner ==
  ASSUME RTypeOK, TrueHints, NEW S \in SUBSET (Ids \cap segFiles), NEW act,
         NEW k \in Keys, NEW i, NEW p, Decides(S, k, i, p)
  PROVE  Replay(S, act)[k] = LocAt(i, p)
  <1>0. S \in SUBSET Ids
    OBVIOUS
  <1>1. PICK m \in Nat : m = MaxSegId + 1 /\ Ids = 0 .. m - 1
    BY IdAssumption DEF Ids
  <1>2. PICK f \in [0 .. m -> [Keys -> Loc]] :
          /\ f[0] = [x \in Keys |-> NoEntry]
          /\ \A n \in 1 .. m : f[n] = IF n - 1 \notin S THEN f[n - 1]
                                      ELSE ReplaySegment(f[n - 1], n - 1, act)
          /\ Replay(S, act) = f[m]
    BY <1>0, <1>1, ReplayUnfolds
  <1>3. i \in S /\ i \in Nat /\ file[i][p].t \in Nat
    <2>1. i \in S /\ p \in DOMAIN file[i]
      BY DEF Decides
    <2>2. QED
      BY <1>0, <2>1, DirEntry, IdFacts
  <1> DEFINE P == {n \in 0 .. m : /\ f[n][k].t <= file[i][p].t
                                  /\ n > i => f[n][k] = LocAt(i, p)}
  <1>4. 0 \in P
    BY <1>2, <1>3 DEF NoEntry
  <1>5. ASSUME NEW n \in 1 .. m, n - 1 \in P
        PROVE  n \in P
    <2>1. /\ f[n - 1] \in [Keys -> Loc]
          /\ f[n - 1][k].t <= file[i][p].t
          /\ n - 1 > i => f[n - 1][k] = LocAt(i, p)
      BY <1>2, <1>5
    <2>2. CASE n - 1 \notin S
      <3>1. f[n] = f[n - 1] /\ n - 1 # i
        BY <1>2, <1>3, <2>2
      <3>2. QED
        BY <1>3, <2>1, <3>1
    <2>3. CASE n - 1 \in S
      <3>1. f[n] = ReplaySegment(f[n - 1], n - 1, act)
        BY <1>2, <2>3
      <3>2. /\ ReplaySegment(f[n - 1], n - 1, act)[k].t <= file[i][p].t
            /\ n - 1 >= i => ReplaySegment(f[n - 1], n - 1, act)[k] = LocAt(i, p)
        <4>1. PICK x \in [Keys -> Loc] : x = f[n - 1]
          BY <2>1
        <4>2. PICK j \in S : j = n - 1
          BY <2>3
        <4>3. x[k].t <= file[i][p].t /\ (j > i => x[k] = LocAt(i, p))
          BY <2>1, <4>1, <4>2
        <4>4. /\ ReplaySegment(x, j, act)[k].t <= file[i][p].t
              /\ j >= i => ReplaySegment(x, j, act)[k] = LocAt(i, p)
          BY <4>3, WinnerSegment
        <4>5. QED
          BY <4>1, <4>2, <4>4
      <3>3. QED
        BY <1>3, <3>1, <3>2
    <2>4. QED
      BY <2>2, <2>3
  <1> HIDE DEF P
  <1>6. \A n \in 0 .. m : n \in P
    BY <1>4, <1>5, UpTo
  <1>7. m \in P /\ m > i
    BY <1>0, <1>1, <1>3, <1>6
  <1>8. QED
    BY <1>2, <1>7 DEF P

\* The keydir that replay builds is what the segments say.
LEMMA ReplayPuts ==
  ASSUME RTypeOK, TrueHints, NEW S \in SUBSET (Ids \cap segFiles), NEW act,
         NEW k \in Keys, NEW v, Gives(S, k, v)
  PROVE  PutsAt(S, k, Replay(S, act)[k])
  <1>1. CASE ~Occurs(S, k)
    <2>1. Replay(S, act)[k] = NoEntry \/ PutIn(S, k, Replay(S, act)[k])
      BY ReplaySound DEF Sound
    <2>2. ~PutIn(S, k, Replay(S, act)[k])
      BY <1>1 DEF PutIn, Occurs
    <2>3. QED
      BY <1>1, <2>1, <2>2 DEF PutsAt
  <1>2. CASE Occurs(S, k)
    <2>1. PICK i \in S : \E p \in DOMAIN file[i] : Decides(S, k, i, p)
      BY <1>2 DEF Gives
    <2>2. PICK p \in DOMAIN file[i] : Decides(S, k, i, p)
      BY <2>1
    <2>3. Replay(S, act)[k] = LocAt(i, p)
      BY <2>2, ReplayWinner
    <2>4. QED
      BY <2>2, <2>3 DEF PutsAt
  <1>3. QED
    BY <1>1, <1>2

\* What segments say depends on nothing but their entries.
LEMMA LogFrame ==
  ASSUME NEW S, \A i \in S : file'[i] = file[i]
  PROVE  /\ \A k, e : PutsAt(S, k, e)' <=> PutsAt(S, k, e)
         /\ \A k, v : Gives(S, k, v)' <=> Gives(S, k, v)
  <1>1. \A k : Occurs(S, k)' <=> Occurs(S, k)
    BY DEF Occurs
  <1>2. \A k : \A i \in S : \A p : Decides(S, k, i, p)' <=> Decides(S, k, i, p)
    BY DEF Decides
  <1>3. \A i \in S : \A p : LocAt(i, p)' = LocAt(i, p)
    BY DEF LocAt
  <1>4. QED
    BY <1>1, <1>2, <1>3 DEF PutsAt, Gives

\* An empty segment says nothing.
LEMMA AddEmpty ==
  ASSUME NEW S, NEW j, file[j] = <<>>
  PROVE  /\ \A k, e : PutsAt(S, k, e) => PutsAt(S \cup {j}, k, e)
         /\ \A k, v : Gives(S, k, v) => Gives(S \cup {j}, k, v)
  <1>1. DOMAIN file[j] = {}
    OBVIOUS
  <1>2. \A k : Occurs(S \cup {j}, k) => Occurs(S, k)
    BY <1>1 DEF Occurs
  <1>3. \A k, i, p : Decides(S, k, i, p) => Decides(S \cup {j}, k, i, p)
    BY <1>1 DEF Decides
  <1>4. QED
    BY <1>2, <1>3 DEF PutsAt, Gives

\* An operation of a request on a key makes the request touch it.
LEMMA TouchFacts ==
  ASSUME NEW ops \in Batches, NEW k, NEW l \in DOMAIN ops, ops[l].key = k
  PROVE  Store!Touches(ops, k)
  <1>1. PICK n \in Nat : n = Len(ops) /\ DOMAIN ops = 1 .. n
    BY RequestFacts
  <1> DEFINE L == {x \in 1 .. n : ops[x].key = k}
  <1>2. L \in SUBSET Int /\ L # {} /\ \A x \in L : x >= -1 /\ x <= n
    BY <1>1
  <1>3. Max(L) \in L /\ \A x \in L : Max(L) >= x
    <2> HIDE DEF L
    <2>1. QED
      BY <1>2, MaxFacts
  <1>4. PICK m \in L : \A x \in L : m >= x
    BY <1>3
  <1>5. m \in DOMAIN ops /\ Store!IsLastOp(ops, k, m)
    BY <1>1, <1>4 DEF Store!IsLastOp
  <1>6. QED
    BY <1>5 DEF Store!Touches

\* The last operation on a key is after every other.
LEMMA LastOpLast ==
  ASSUME NEW ops \in Batches, NEW k, Store!Touches(ops, k)
  PROVE  Store!IsLastOp(ops, k, Store!LastOp(ops, k))
  BY DEF Store!Touches, Store!LastOp

\* The commit puts each key where the merged set of segments says: the copy
\* takes the place of what it is a copy of, or something newer is outside the
\* candidates.
LEMMA MergedPuts ==
  ASSUME RTypeOK, IndInv, CopiesInv, DeletesApart, Publishing,
         NEW k \in Keys, PutsAt(segments, k, keydir[k])
  PROVE  /\ PutsAt((segments \ candidates) \cup Merged, k, SwapAll[k])
         /\ Held(SwapAll[k]) = Held(keydir[k])
  <1> DEFINE M == (segments \ candidates) \cup Merged
  <1>0. /\ cpc = "committing" /\ Pending /\ candidates \subseteq segments
        /\ segments \subseteq Ids /\ newSeg \in Ids \cup {NoSeg}
    BY DEF IndInv, CoreInv, TypeOK, ControlInv, OwnershipInv, Pending, Publishing, Unlinking
  <1>1. \A i \in Ids : \A p \in DOMAIN file[i] : file[i][p].val # Tombstone
    BY <1>0 DEF DeletesApart
  <1>2. \A r \in rewrites : RewriteOK(r)
    BY <1>0 DEF IndInv, DataInv, RewritesInv
  <1>3. ASSUME NEW p \in DOMAIN file[newSeg], newSeg # NoSeg
        PROVE  \E c \in candidates : \E q \in DOMAIN file[c] : file[newSeg][p] = file[c][q]
    <2>1. PICK r \in rewrites : r.new.pos = p
      BY <1>0, <1>3 DEF CopiesInv
    <2>2. QED
      BY <1>2, <2>1 DEF RewriteOK
  <1>4. \A j \in M : j \in segments \ candidates \/ (j = newSeg /\ newSeg # NoSeg)
    BY DEF Merged
  <1>5. M \in SUBSET Ids
    BY <1>0, <1>4
  <1>6. CASE ~Occurs(segments, k) /\ keydir[k] = NoEntry
    <2>1. ~Occurs(M, k)
      BY <1>0, <1>3, <1>4, <1>6 DEF Occurs
    <2>2. SwapAll[k] = NoEntry
      BY <1>6, AbsentStays
    <2>3. QED
      BY <1>6, <2>1, <2>2 DEF PutsAt
  <1>7. ASSUME NEW i \in segments, NEW p \in DOMAIN file[i], Decides(segments, k, i, p),
               keydir[k] = LocAt(i, p)
        PROVE  PutsAt(M, k, SwapAll[k]) /\ Held(SwapAll[k]) = Held(keydir[k])
    <2>1. /\ p \in Nat \ {0} /\ i \in Ids /\ file[i][p].t \in Nat
          /\ file[i][p].key = k /\ file[i][p].val # Tombstone
      BY <1>0, <1>1, <1>7, DirEntry DEF Decides
    <2>2. keydir[k] = [file |-> i, pos |-> p, t |-> file[i][p].t]
      BY <1>7, <2>1 DEF LocAt
    <2>3. keydir[k] # NoEntry
      BY <2>1, <2>2 DEF NoEntry
    <2>4. ASSUME NEW j \in segments, NEW q \in DOMAIN file[j], file[j][q].key = k
          PROVE  /\ file[j][q].t <= file[i][p].t
                 /\ file[j][q].t = file[i][p].t => j = i /\ q <= p
      BY <1>7, <2>4 DEF Decides
    <2>5. CASE SwapAll[k] = keydir[k] /\ keydir[k].file \in segments \ candidates
      <3>1. i \in segments \ candidates
        BY <2>2, <2>5
      <3>2. ASSUME NEW j \in M, NEW q \in DOMAIN file[j], file[j][q].key = k
            PROVE  /\ file[j][q].t <= file[i][p].t
                   /\ file[j][q].t = file[i][p].t => j = i /\ q <= p
        <4>1. CASE j \in segments
          BY <2>4, <3>2, <4>1
        <4>2. CASE j = newSeg /\ newSeg # NoSeg
          <5>1. PICK c \in candidates : \E x \in DOMAIN file[c] : file[newSeg][q] = file[c][x]
            BY <1>3, <3>2, <4>2
          <5>2. PICK x \in DOMAIN file[c] : file[newSeg][q] = file[c][x]
            BY <5>1
          <5>3. c \in segments /\ c # i
            BY <1>0, <3>1
          <5>4. file[c][x].t <= file[i][p].t /\ file[c][x].t # file[i][p].t
            BY <2>4, <3>2, <4>2, <5>2, <5>3
          <5>5. QED
            BY <4>2, <5>2, <5>4
        <4>3. QED
          BY <1>4, <3>2, <4>1, <4>2
      <3>3. i \in M
        BY <3>1
      <3>4. Decides(M, k, i, p)
        BY <2>1, <3>2, <3>3 DEF Decides
      <3>5. QED
        BY <1>7, <2>5, <3>3, <3>4 DEF PutsAt
    <2>6. ASSUME NEW r \in rewrites, r.old = keydir[k], SwapAll[k] = r.new, RewriteOK(r),
                 newSeg \in Ids \ candidates
          PROVE  PutsAt(M, k, SwapAll[k]) /\ Held(SwapAll[k]) = Held(keydir[k])
      <3>1. newSeg # NoSeg /\ newSeg \in M
        BY <2>6, IdFacts DEF Merged
      <3>2. i \in candidates /\ r.old.file = i /\ r.old.pos = p
        BY <2>2, <2>6 DEF RewriteOK
      <3>3. r.new \in Loc
        BY DEF IndInv, CoreInv, TypeOK, Rewrite
      <3>4. PICK y : y = r.new.pos
        OBVIOUS
      <3>5. /\ r.new.file = newSeg /\ y \in DOMAIN file[newSeg]
            /\ file[newSeg][y] = file[i][p] /\ file[newSeg][y].t = r.new.t
        BY <2>6, <3>2, <3>4 DEF RewriteOK
      <3>6. r.new = LocAt(newSeg, y)
        BY <2>1, <3>3, <3>4, <3>5 DEF Loc, LocAt
      <3>7. y \in Nat \ {0} /\ file[newSeg][y].t \in Nat
        BY <2>6, <3>5, DirEntry
      <3>8. ASSUME NEW j \in M, NEW q \in DOMAIN file[j], file[j][q].key = k
            PROVE  /\ file[j][q].t <= file[newSeg][y].t
                   /\ file[j][q].t = file[newSeg][y].t => j = newSeg /\ q <= y
        <4>1. CASE j \in segments \ candidates
          <5>1. j # i
            BY <3>2, <4>1
          <5>2. QED
            BY <2>4, <3>5, <3>8, <4>1, <5>1
        <4>2. CASE j = newSeg
          <5>1. IsMerged(newSeg)
            BY <1>0, <3>1, HintOfCopies
          <5>2. q = y
            BY <2>1, <3>5, <3>8, <4>2, <5>1 DEF IsMerged
          <5>3. QED
            BY <3>7, <4>2, <5>2
        <4>3. QED
          BY <1>4, <3>8, <4>1, <4>2
      <3>9. Decides(M, k, newSeg, y)
        BY <2>1, <3>1, <3>5, <3>8 DEF Decides
      <3>10. PutsAt(M, k, SwapAll[k])
        BY <2>6, <3>1, <3>5, <3>6, <3>9 DEF PutsAt
      <3>11. Held(r.new) = file[newSeg][y].val /\ Held(r.old) = file[i][p].val
        BY <2>1, <3>2, <3>4, <3>5, <3>7 DEF Held
      <3>12. QED
        BY <2>6, <3>5, <3>10, <3>11
    <2> HIDE DEF M
    <2>7. QED
      BY <2>3, <2>5, <2>6, CommitCovers
  <1>8. QED
    BY <1>6, <1>7 DEF PutsAt

\* The file after an append, entry by entry.
LEMMA AppendFacts ==
  ASSUME CoreInv, AppendRecord
  PROVE  LET n == Len(file[active]) IN
         /\ n \in Nat /\ wreq \in Batches /\ active \in segments
         /\ DOMAIN file[active] = 1 .. n
         /\ DOMAIN file'[active] = 1 .. n + Len(wreq)
         /\ Len(file'[active]) = n + Len(wreq)
         /\ \A q \in 1 .. n : file'[active][q] = file[active][q]
         /\ \A l \in 1 .. Len(wreq) : file'[active][n + l] =
              [key |-> wreq[l].key, val |-> wreq[l].val, t |-> lastTstamp]
         /\ \A i \in segments \ {active} : file'[i] = file[i]
         /\ UNCHANGED <<active, segments, keydir, lastTstamp, wreq, hintFiles>>
         /\ wpc = "append" /\ wpc' = "keydir"
  <1> DEFINE E == EntriesOf(wreq)
  <1>1. /\ file \in [Ids -> Seq(Entry)] /\ active \in Ids /\ segments \subseteq Ids
        /\ active \in segments /\ wreq \in Batches
    BY DEF CoreInv, TypeOK, OwnershipInv, ControlInv, AppendRecord
  <1>2. PICK s \in Seq(Entry) : s = file[active]
    BY <1>1
  <1>3. E \in Seq(Entry) /\ Len(E) = Len(wreq) /\ DOMAIN wreq = 1 .. Len(wreq)
        /\ Len(wreq) \in Nat
    <2>1. E \in Seq(Entry)
      BY <1>1, EntriesType DEF CoreInv
    <2>2. Len(wreq) \in Nat /\ DOMAIN wreq = 1 .. Len(wreq)
      BY <1>1, RequestFacts
    <2>3. DOMAIN E = 1 .. Len(wreq)
      BY <2>2 DEF EntriesOf
    <2>4. Len(E) = Len(wreq)
      <3> HIDE DEF E
      <3>1. QED
        BY <2>1, <2>2, <2>3
    <2>5. QED
      BY <2>1, <2>2, <2>4
  <1>4. \A l \in 1 .. Len(wreq) :
          E[l] = [key |-> wreq[l].key, val |-> wreq[l].val, t |-> lastTstamp]
    BY <1>3 DEF EntriesOf
  <1>5. /\ file' = [file EXCEPT ![active] = @ \o E]
        /\ UNCHANGED <<active, segments, keydir, lastTstamp, wreq, hintFiles>>
        /\ wpc = "append" /\ wpc' = "keydir"
    BY DEF AppendRecord
  <1> HIDE DEF E
  <1>6. file'[active] = s \o E /\ \A i \in segments \ {active} : file'[i] = file[i]
    BY <1>1, <1>2, <1>5
  <1>7. /\ Len(s) \in Nat /\ DOMAIN s = 1 .. Len(s)
        /\ Len(s \o E) = Len(s) + Len(E) /\ DOMAIN (s \o E) = 1 .. Len(s) + Len(E)
        /\ \A q \in 1 .. Len(s) : (s \o E)[q] = s[q]
        /\ \A l \in 1 .. Len(E) : (s \o E)[Len(s) + l] = E[l]
    BY <1>3
  <1>8. QED
    BY <1>1, <1>2, <1>3, <1>4, <1>5, <1>6, <1>7

\* After an append the live segments say what the keydir is about to: the
\* last operation of the request on a key is newer than all there was, and a
\* tombstone is beyond every other entry, as all that comes after the active
\* segment are merged ones.
LEMMA AppendPuts ==
  ASSUME RTypeOK, CoreInv, ClockInv, OrderInv, mode = "up", DeletesApart', AppendRecord,
         NEW k \in Keys, PutsAt(segments, k, keydir[k])
  PROVE  PutsAt(segments, k, ApplyBatch(wreq)[k])'
  <1>1. PICK S, a, w, n, T : /\ S = segments /\ a = active /\ w = wreq
                             /\ n = Len(file[active]) /\ T = lastTstamp
    OBVIOUS
  <1>2. /\ n \in Nat /\ w \in Batches /\ a \in S
        /\ DOMAIN file[a] = 1 .. n /\ DOMAIN file'[a] = 1 .. n + Len(w)
        /\ Len(file'[a]) = n + Len(w)
        /\ \A q \in 1 .. n : file'[a][q] = file[a][q]
        /\ \A l \in 1 .. Len(w) : file'[a][n + l] =
             [key |-> w[l].key, val |-> w[l].val, t |-> T]
        /\ \A i \in S \ {a} : file'[i] = file[i]
        /\ active' = a /\ segments' = S /\ keydir' = keydir /\ lastTstamp' = T /\ wreq' = w
        /\ hintFiles' = hintFiles /\ wpc = "append"
    BY <1>1, AppendFacts
  <1>3. Len(w) \in Nat \ {0} /\ DOMAIN w = 1 .. Len(w)
    BY <1>2, RequestFacts
  <1>4. S \subseteq Ids /\ S \subseteq Nat /\ T \in Nat
    BY <1>1, IdFacts DEF CoreInv, TypeOK
  <1>5. \A i \in S : \A q \in DOMAIN file[i] : file[i][q].t < T
    BY <1>1, <1>2 DEF ClockInv, Stamped
  <1>6. ASSUME NEW q \in DOMAIN file'[a]
        PROVE  q \in 1 .. n \/ \E l \in 1 .. Len(w) : q = n + l
    <2>1. q \in 1 .. n \/ q - n \in 1 .. Len(w)
      BY <1>2, <1>3
    <2>2. QED
      BY <1>2, <2>1
  <1>7. (ApplyBatch(wreq)[k])' =
           IF ~Store!Touches(w, k) THEN keydir[k]
           ELSE IF w[Store!LastOp(w, k)].val = Tombstone THEN NoEntry
           ELSE [file |-> a, pos |-> n + Len(w) - Len(w) + Store!LastOp(w, k), t |-> T]
    BY <1>2 DEF ApplyBatch, LocOf
  <1>8. PICK e : e = (ApplyBatch(wreq)[k])'
    OBVIOUS
  <1>9. CASE Store!Touches(w, k)
    <2>1. PICK l \in 1 .. Len(w) : l = Store!LastOp(w, k) /\ w[l].key = k
      BY <1>2, <1>3, <1>9, LastOpFacts
    <2>2. \A x \in 1 .. Len(w) : w[x].key = k => x <= l
      BY <1>2, <1>3, <1>9, <2>1, LastOpLast DEF Store!IsLastOp
    <2>3. PICK P : P = n + l
      OBVIOUS
    <2>4. /\ P \in DOMAIN file'[a] /\ P \in Nat
          /\ file'[a][P] = [key |-> k, val |-> w[l].val, t |-> T]
      BY <1>2, <1>3, <2>1, <2>3
    <2>5. e = LocAt(a, P)'
      <3>1. n + Len(w) - Len(w) + l = P
        BY <1>2, <1>3, <2>3
      <3>2. QED
        BY <1>7, <1>8, <1>9, <2>1, <2>4, <3>1 DEF LocAt
    <2>6. file'[a][P].val = Tombstone => \A j \in S : j <= a
      <3> SUFFICES ASSUME file'[a][P].val = Tombstone
                   PROVE  \A j \in S : j <= a
        OBVIOUS
      <3>1. hintFiles' = {}
        BY <1>2, <1>4, <2>4 DEF DeletesApart
      <3>2. QED
        BY <1>1, <1>2, <3>1 DEF OrderInv
    <2>7. ASSUME NEW j \in S, NEW q \in DOMAIN file'[j], file'[j][q].key = k
          PROVE  /\ file'[j][q].t <= T
                 /\ file'[j][q].t = T => j = a /\ q <= P
                 /\ file'[a][P].val = Tombstone => j < a \/ (j = a /\ q <= P)
      <3>1. CASE j # a
        <4>1. file'[j] = file[j]
          BY <1>2, <3>1
        <4>2. file'[j][q].t < T
          BY <1>5, <2>7, <4>1
        <4>3. file'[j][q].t \in Nat
          BY <1>4, <2>7, <4>1, DirEntry
        <4>4. file'[a][P].val = Tombstone => j < a
          <5>1. j \in Nat /\ a \in Nat
            BY <1>2, <1>4
          <5>2. QED
            BY <2>6, <3>1, <5>1
        <4>5. QED
          BY <1>4, <4>2, <4>3, <4>4
      <3>2. CASE j = a /\ q \in 1 .. n
        <4>1. file'[j][q] = file[a][q] /\ q \in DOMAIN file[a]
          BY <1>2, <3>2
        <4>2. file'[j][q].t < T /\ file'[j][q].t \in Nat
          BY <1>2, <1>4, <1>5, <4>1, DirEntry
        <4>3. q <= P
          BY <1>2, <2>3, <3>2
        <4>4. QED
          BY <1>4, <3>2, <4>2, <4>3
      <3>3. ASSUME j = a, NEW x \in 1 .. Len(w), q = n + x
            PROVE  /\ file'[j][q].t <= T
                   /\ file'[j][q].t = T => j = a /\ q <= P
                   /\ file'[a][P].val = Tombstone => j < a \/ (j = a /\ q <= P)
        <4>1. file'[j][q] = [key |-> w[x].key, val |-> w[x].val, t |-> T]
          BY <1>2, <3>3
        <4>2. x <= l
          BY <2>2, <2>7, <4>1
        <4>3. q <= P
          BY <1>2, <1>3, <2>3, <3>3, <4>2
        <4>4. QED
          BY <1>4, <3>3, <4>1, <4>3
      <3>4. QED
        BY <1>6, <2>7, <3>1, <3>2, <3>3
    <2>8. Decides(S, k, a, P)'
      BY <1>2, <2>4, <2>7 DEF Decides
    <2>9. PutsAt(S, k, e)'
      BY <1>2, <2>4, <2>5, <2>8 DEF PutsAt
    <2>10. QED
      BY <1>2, <1>8, <2>9
  <1>10. CASE ~Store!Touches(w, k)
    <2>1. \A l \in 1 .. Len(w) : w[l].key # k
      BY <1>2, <1>3, <1>10, TouchFacts
    <2>2. e = keydir[k]
      BY <1>7, <1>8, <1>10
    <2>3. ASSUME NEW j \in S, NEW q \in DOMAIN file'[j], file'[j][q].key = k
          PROVE  q \in DOMAIN file[j] /\ file'[j][q] = file[j][q]
      <3>1. CASE j # a
        BY <1>2, <2>3, <3>1
      <3>2. CASE j = a
        <4>1. ~\E l \in 1 .. Len(w) : q = n + l
          <5> SUFFICES ASSUME NEW l \in 1 .. Len(w), q = n + l
                       PROVE  FALSE
            OBVIOUS
          <5>1. file'[j][q] = [key |-> w[l].key, val |-> w[l].val, t |-> T]
            BY <1>2, <3>2
          <5>2. QED
            BY <2>1, <2>3, <5>1
        <4>2. q \in 1 .. n
          BY <1>6, <2>3, <3>2, <4>1
        <4>3. QED
          BY <1>2, <3>2, <4>2
      <3>3. QED
        BY <3>1, <3>2
    <2>4. \A j \in S : \A q \in DOMAIN file[j] : q \in DOMAIN file'[j] /\ file'[j][q] = file[j][q]
      <3> SUFFICES ASSUME NEW j \in S, NEW q \in DOMAIN file[j]
                   PROVE  q \in DOMAIN file'[j] /\ file'[j][q] = file[j][q]
        OBVIOUS
      <3>1. CASE j # a
        BY <1>2, <3>1
      <3>2. CASE j = a
        BY <1>2, <1>3, <3>2
      <3>3. QED
        BY <3>1, <3>2
    <2>5. Occurs(S, k)' => Occurs(S, k)
      BY <2>3 DEF Occurs
    <2>6. ASSUME NEW i \in S, NEW p \in DOMAIN file[i], Decides(S, k, i, p)
          PROVE  /\ p \in DOMAIN file'[i] /\ Decides(S, k, i, p)'
                 /\ LocAt(i, p)' = LocAt(i, p)
      <3>1. p \in DOMAIN file'[i] /\ file'[i][p] = file[i][p]
        BY <2>4
      <3>2. Decides(S, k, i, p)'
        BY <2>3, <2>6, <3>1 DEF Decides
      <3>3. QED
        BY <3>1, <3>2 DEF LocAt
    <2>7. PutsAt(S, k, e)
      BY <1>1, <2>2
    <2>8. PutsAt(S, k, e)'
      <3>1. CASE ~Occurs(S, k) /\ e = NoEntry
        BY <2>5, <3>1 DEF PutsAt
      <3>2. ASSUME NEW i \in S, NEW p \in DOMAIN file[i], Decides(S, k, i, p), e = LocAt(i, p)
            PROVE  PutsAt(S, k, e)'
        BY <2>6, <3>2 DEF PutsAt
      <3>3. QED
        BY <2>7, <3>1, <3>2 DEF PutsAt
    <2>9. QED
      BY <1>2, <1>8, <2>8
  <1>11. QED
    BY <1>9, <1>10

\* Only five kinds of steps touch the live segments, the keydir or the clock.
LEMMA LogSteps ==
  ASSUME [Next]_vars
  PROVE  \/ AppendRecord \/ ApplyKeydir \/ CommitPublish \/ RotatePublish
         \/ \E ops \in Batches : StartWrite(ops)
         \/ /\ UNCHANGED <<segments, active, keydir, lastTstamp>>
            /\ wpc' = "keydir" <=> wpc = "keydir"
            /\ wpc = "keydir" => wreq' = wreq
            /\ Stamped' => Stamped
  BY DEF vars, Next, Writer, Compactor, Reader, StartWrite, RotateCreate,
         RotateFail, RotateManifest, RotateAbort, RotateUncertain,
         RotatePublish, AppendFail, CommitManifest, FailWrite,
         CommitFail, UnlinkSegment, UnlinkHint, CompactSnapshot,
         CompactCreate, CompactCreateFail, ScanEntry, ScanNext,
         CompactFail, RetireOnly, WriteHintFile, CleanupSegment,
         CleanupHint, ReadStart, ReadValue, Stamped

\* The files of live segments change only by appends.
LEMMA LiveFrame ==
  ASSUME CoreInv, [Next]_vars, ~AppendRecord, ~CommitPublish
  PROVE  \A i \in segments : file'[i] = file[i]
  BY GrowsStep DEF CoreInv, Grows

\* The keydir stays what the live segments say.
LEMMA LoggedStep ==
  ASSUME LogInv, DeletesApart, DeletesApart', mode = "up", [Next]_vars
  PROVE  \A k \in Keys : PutsAt(segments, k, LoggedKeydir[k])'
  <1> SUFFICES ASSUME NEW k \in Keys
               PROVE  PutsAt(segments, k, LoggedKeydir[k])'
    OBVIOUS
  <1>0. /\ RTypeOK /\ CoreInv /\ IndInv /\ CopiesInv /\ OrderInv /\ ClockInv
        /\ PutsAt(segments, k, LoggedKeydir[k])
    BY DEF LogInv, HintInv, DirInv, IndInv, LoggedInv
  <1>1. PICK S, e : S = segments /\ e = LoggedKeydir[k]
    OBVIOUS
  <1>2. PutsAt(S, k, e)
    BY <1>0, <1>1
  <1>3. CASE AppendRecord
    <2>1. LoggedKeydir = keydir /\ LoggedKeydir' = ApplyBatch(wreq)'
      BY <1>3 DEF AppendRecord, LoggedKeydir
    <2>2. PutsAt(segments, k, ApplyBatch(wreq)[k])'
      BY <1>0, <1>3, <2>1, AppendPuts
    <2>3. QED
      BY <2>1, <2>2
  <1>4. CASE CommitPublish
    <2>1. /\ Publishing /\ wpc # "keydir" /\ wpc' # "keydir"
          /\ file' = file /\ keydir' = SwapAll
          /\ segments' = (segments \cup Merged) \ candidates
      BY <1>4 DEF CommitPublish, Publishing
    <2>2. LoggedKeydir = keydir /\ LoggedKeydir' = SwapAll
      BY <2>1 DEF LoggedKeydir
    <2>3. Merged \cap candidates = {}
      BY <1>0 DEF Merged, CoreInv, OwnershipInv
    <2>4. PICK M, x : M = (segments \ candidates) \cup Merged /\ x = SwapAll[k]
      OBVIOUS
    <2>5. M = segments' /\ x = LoggedKeydir'[k]
      BY <2>1, <2>2, <2>3, <2>4
    <2>6. PutsAt(M, k, x)
      BY <1>0, <2>1, <2>2, <2>4, MergedPuts
    <2>7. PutsAt(M, k, x)'
      BY <2>1, <2>6, LogFrame
    <2>8. QED
      BY <2>5, <2>7
  <1>5. CASE ~AppendRecord /\ ~CommitPublish
    <2>1. \A i \in S : file'[i] = file[i]
      BY <1>0, <1>1, <1>5, LiveFrame
    <2>2. PutsAt(S, k, e)'
      BY <1>2, <2>1, LogFrame
    <2>3. CASE ApplyKeydir
      <3>1. LoggedKeydir' = LoggedKeydir /\ segments' = segments
        BY <2>3 DEF ApplyKeydir, LoggedKeydir
      <3>2. QED
        BY <1>1, <2>2, <3>1
    <2>4. CASE RotatePublish
      <3>1. /\ LoggedKeydir' = LoggedKeydir /\ segments' = segments \cup {next}
            /\ file' = file /\ file[next] = <<>>
        BY <1>0, <2>4, IdFacts DEF RotatePublish, LoggedKeydir, CoreInv, ControlInv, OwnershipInv
      <3>2. PICK j : j = next
        OBVIOUS
      <3>3. PutsAt(S \cup {j}, k, e)
        BY <1>2, <3>1, <3>2, AddEmpty
      <3>4. PutsAt(S \cup {j}, k, e)'
        BY <3>1, <3>3, LogFrame
      <3>5. S \cup {j} = segments' /\ e = LoggedKeydir'[k]
        BY <1>1, <3>1, <3>2
      <3>6. QED
        BY <3>4, <3>5
    <2>5. ASSUME NEW ops \in Batches, StartWrite(ops)
          PROVE  PutsAt(segments, k, LoggedKeydir[k])'
      <3>1. LoggedKeydir' = LoggedKeydir /\ segments' = segments
        BY <2>5 DEF StartWrite, LoggedKeydir
      <3>2. QED
        BY <1>1, <2>2, <3>1
    <2>6. CASE /\ UNCHANGED <<segments, active, keydir, lastTstamp>>
               /\ wpc' = "keydir" <=> wpc = "keydir"
               /\ wpc = "keydir" => wreq' = wreq
      <3>1. file'[active] = file[active]
        BY <1>0, <1>1, <2>1 DEF CoreInv, OwnershipInv
      <3>2. LoggedKeydir' = LoggedKeydir
        <4>1. CASE wpc # "keydir"
          BY <2>6, <4>1 DEF LoggedKeydir
        <4>2. CASE wpc = "keydir"
          <5>1. PICK w : w = wreq
            OBVIOUS
          <5>2. ApplyBatch(w)' = ApplyBatch(w)
            BY <2>6, <3>1 DEF ApplyBatch, LocOf
          <5>3. wreq' = w
            BY <2>6, <4>2, <5>1
          <5>4. LoggedKeydir' = ApplyBatch(w)' /\ LoggedKeydir = ApplyBatch(w)
            BY <2>6, <4>2, <5>1, <5>3 DEF LoggedKeydir
          <5>5. QED
            BY <5>2, <5>4
        <4>3. QED
          BY <4>1, <4>2
      <3>3. QED
        BY <1>1, <2>2, <2>6, <3>2
    <2>7. QED
      BY <1>5, <2>3, <2>4, <2>5, <2>6, LogSteps
  <1>6. QED
    BY <1>3, <1>4, <1>5

\* No entry of a live segment is ever newer than the clock, and a request in
\* hand is newer than all of them.
LEMMA ClockStep ==
  ASSUME LogInv, mode = "up", [Next]_vars
  PROVE  ClockInv'
  <1>0. /\ RTypeOK /\ CoreInv /\ IndInv /\ CopiesInv
        /\ segments \subseteq Ids /\ lastTstamp \in Nat
    BY DEF LogInv, HintInv, DirInv, IndInv, CoreInv, TypeOK
  <1>1. \A i \in segments : \A p \in DOMAIN file[i] :
          /\ file[i][p].t \in Nat /\ file[i][p].t <= lastTstamp
          /\ Stamped => file[i][p].t < lastTstamp
    BY <1>0, DirEntry DEF LogInv, ClockInv
  <1>2. CASE AppendRecord
    <2>1. ~Stamped' /\ UNCHANGED <<segments, lastTstamp, active>>
      BY <1>2, AppendFacts, <1>0 DEF Stamped
    <2>2. ASSUME NEW i \in segments, NEW p \in DOMAIN file'[i]
          PROVE  file'[i][p].t <= lastTstamp
      <3>1. CASE i # active
        BY <1>0, <1>1, <1>2, <2>2, <3>1, AppendFacts
      <3>2. CASE i = active
        <4>1. Len(wreq) \in Nat /\ Len(file[active]) \in Nat
          BY <1>0, <1>2, AppendFacts, RequestFacts
        <4>2. PICK n \in Nat, m \in Nat : n = Len(file[active]) /\ m = Len(wreq)
          BY <4>1
        <4>3. /\ DOMAIN file[active] = 1 .. n /\ DOMAIN file'[active] = 1 .. n + m
              /\ \A q \in 1 .. n : file'[active][q] = file[active][q]
              /\ \A l \in 1 .. m : file'[active][n + l] =
                   [key |-> wreq[l].key, val |-> wreq[l].val, t |-> lastTstamp]
          BY <1>0, <1>2, <4>2, AppendFacts
        <4>4. CASE p \in 1 .. n
          BY <1>1, <3>2, <4>3, <4>4
        <4>5. CASE p \notin 1 .. n
          <5>1. p - n \in 1 .. m /\ p = n + (p - n)
            BY <2>2, <3>2, <4>3, <4>5
          <5>2. PICK l \in 1 .. m : p = n + l
            BY <5>1
          <5>3. file'[i][p] = [key |-> wreq[l].key, val |-> wreq[l].val, t |-> lastTstamp]
            BY <3>2, <4>3, <5>2
          <5>4. file'[i][p].t = lastTstamp
            BY <5>3
          <5>5. QED
            BY <1>0, <5>4
        <4>6. QED
          BY <4>4, <4>5
      <3>3. QED
        BY <3>1, <3>2
    <2>3. QED
      BY <2>1, <2>2 DEF ClockInv
  <1>3. CASE CommitPublish
    <2>1. /\ Publishing /\ ~Stamped' /\ file' = file /\ lastTstamp' = lastTstamp
          /\ segments' = (segments \cup Merged) \ candidates
      BY <1>3 DEF CommitPublish, Publishing, Stamped
    <2>2. ASSUME NEW p \in DOMAIN file[newSeg], newSeg # NoSeg
          PROVE  file[newSeg][p].t <= lastTstamp
      <3>1. Pending /\ candidates \subseteq segments
        BY <1>0, <2>1 DEF Pending, CoreInv, OwnershipInv, Publishing, Unlinking
      <3>2. PICK r \in rewrites : r.new.pos = p
        BY <1>0, <2>2, <3>1 DEF CopiesInv
      <3>3. RewriteOK(r)
        BY <1>0, <3>1 DEF IndInv, DataInv, RewritesInv
      <3>4. QED
        BY <1>1, <3>1, <3>2, <3>3 DEF RewriteOK
    <2>3. QED
      BY <1>1, <2>1, <2>2 DEF ClockInv, Merged
  <1>4. CASE ~AppendRecord /\ ~CommitPublish
    <2>1. \A i \in segments : file'[i] = file[i]
      BY <1>0, <1>4, LiveFrame
    <2>2. CASE ApplyKeydir
      BY <1>1, <2>1, <2>2 DEF ApplyKeydir, ClockInv, Stamped
    <2>3. CASE RotatePublish
      <3>1. /\ segments' = segments \cup {next} /\ lastTstamp' = lastTstamp /\ Stamped
            /\ file' = file /\ file[next] = <<>>
        BY <1>0, <2>3, IdFacts DEF RotatePublish, CoreInv, ControlInv, OwnershipInv, Stamped
      <3>2. \A p \in DOMAIN file[next] : FALSE
        BY <3>1
      <3>3. QED
        BY <1>1, <3>1, <3>2 DEF ClockInv
    <2>4. ASSUME NEW ops \in Batches, StartWrite(ops)
          PROVE  ClockInv'
      <3>1. UNCHANGED <<segments, file>> /\ lastTstamp' = lastTstamp + 1
        BY <2>4 DEF StartWrite
      <3>2. \A i \in segments : \A p \in DOMAIN file[i] : file[i][p].t < lastTstamp + 1
        BY <1>0, <1>1
      <3>3. \A i \in segments : \A p \in DOMAIN file[i] : file[i][p].t <= lastTstamp + 1
        BY <1>0, <1>1
      <3>4. QED
        BY <3>1, <3>2, <3>3 DEF ClockInv
    <2>5. CASE UNCHANGED <<segments, lastTstamp>> /\ (Stamped' => Stamped)
      BY <1>1, <2>1, <2>5 DEF ClockInv
    <2>6. QED
      BY <1>4, <2>2, <2>3, <2>4, <2>5, LogSteps
  <1>5. QED
    BY <1>2, <1>3, <1>4

\* Only merged segments, which have hints, come after the active one.
LEMMA OrderStep ==
  ASSUME LogInv, mode = "up", mode' = "up", [Next]_vars
  PROVE  OrderInv'
  <1> USE IdFacts
  <1>0. /\ file \in [Ids -> Seq(Entry)] /\ segFiles \subseteq Ids /\ hintFiles \subseteq Ids
        /\ nextID \in Nat /\ active \in Ids /\ segments \subseteq Ids
        /\ newSeg \in Ids \cup {NoSeg} /\ next \in Ids \cup {NoSeg}
        /\ manifest.active \in Ids /\ manifest.segs \subseteq Ids
    BY DEF LogInv, HintInv, DirInv, CoreInv, TypeOK
  <1>c. ControlInv /\ OwnershipInv /\ ManifestInv /\ HintFilesInv
    BY DEF LogInv, HintInv, DirInv, CoreInv
  <1>o. /\ \A i \in manifest.segs : i \in hintFiles \/ i <= manifest.active
        /\ \A i \in segments : i \in hintFiles \/ i <= active
        /\ next # NoSeg => active < next
        /\ writesDisabled => file[manifest.active] = <<>>
    BY DEF LogInv, OrderInv
  <1>f. ASSUME UNCHANGED <<manifest, segments, active, writesDisabled>>,
               next' = next \/ next' = NoSeg,
               \A i \in segments \cup manifest.segs : i \in hintFiles => i \in hintFiles',
               writesDisabled => file'[manifest.active] = file[manifest.active]
        PROVE  OrderInv'
    BY <1>f, <1>o DEF OrderInv
  <1>d. ASSUME writesDisabled
        PROVE  /\ manifest.active \in segFiles \ segments
               /\ manifest.active # newSeg /\ wpc = "idle"
    BY <1>d, <1>c DEF ManifestInv, ControlInv
  <1>s. ~writesDisabled /\ wpc # "rotatePublish" /\ ~Publishing =>
          manifest.segs = segments /\ manifest.active = active
    BY <1>c DEF ManifestInv
  <1>n. cpc \notin {"committing"} /\ newSeg # NoSeg =>
          newSeg \notin segments /\ newSeg \notin manifest.segs
    BY <1>c DEF ManifestInv, OwnershipInv, ControlInv
  <1>1. ASSUME NEW ops \in Batches, StartWrite(ops)
        PROVE  OrderInv'
    BY <1>1, <1>f DEF StartWrite
  <1>2. CASE RotateCreate
    <2>1. UNCHANGED <<manifest, segments, active, writesDisabled, hintFiles>> /\ next' = nextID
      BY <1>2 DEF RotateCreate
    <2>2. active < nextID /\ ~writesDisabled
      BY <1>2, <1>c DEF RotateCreate, OwnershipInv, ControlInv
    <2>3. QED
      BY <1>o, <2>1, <2>2 DEF OrderInv
  <1>3. CASE RotateFail
    BY <1>3, <1>f DEF RotateFail
  <1>4. CASE RotateManifest
    <2>1. /\ UNCHANGED <<segments, active, writesDisabled, hintFiles, next>>
          /\ manifest'.segs = segments \cup {next} /\ manifest'.active = next
      BY <1>4 DEF RotateManifest, WriteManifest
    <2>2. next \in Ids /\ ~writesDisabled
      BY <1>0, <1>4, <1>c DEF RotateManifest, ControlInv
    <2>3. active < next /\ active \in Nat /\ next \in Nat
      BY <1>0, <1>o, <2>2
    <2>4. \A i \in segments : i \in Nat
      BY <1>0
    <2>5. \A i \in segments \cup {next} : i \in hintFiles \/ i <= next
      BY <1>o, <2>3, <2>4
    <2>6. QED
      BY <1>o, <2>1, <2>2, <2>5 DEF OrderInv
  <1>5. CASE RotateAbort
    <2>1. ~writesDisabled
      BY <1>5, <1>c DEF RotateAbort, ControlInv
    <2>2. QED
      BY <1>5, <1>f, <2>1 DEF RotateAbort
  <1>6. CASE RotateUncertain
    <2>1. /\ UNCHANGED <<segments, active, hintFiles, file>> /\ next' = NoSeg
          /\ manifest'.segs = segments \cup {next} /\ manifest'.active = next
      BY <1>6 DEF RotateUncertain, WriteManifest
    <2>2. next \in Ids /\ file[next] = <<>>
      BY <1>0, <1>6, <1>c DEF RotateUncertain, ControlInv, OwnershipInv
    <2>3. active < next /\ active \in Nat /\ next \in Nat
      BY <1>0, <1>o, <2>2
    <2>4. \A i \in segments : i \in Nat
      BY <1>0
    <2>5. \A i \in segments \cup {next} : i \in hintFiles \/ i <= next
      BY <1>o, <2>3, <2>4
    <2>6. QED
      BY <1>o, <2>1, <2>2, <2>5 DEF OrderInv
  <1>7. CASE RotatePublish
    <2>1. /\ UNCHANGED <<manifest, hintFiles, file, writesDisabled>> /\ next' = NoSeg
          /\ segments' = segments \cup {next} /\ active' = next
      BY <1>7 DEF RotatePublish
    <2>2. next \in Ids
      BY <1>0, <1>7, <1>c DEF RotatePublish, ControlInv
    <2>3. active < next /\ active \in Nat /\ next \in Nat
      BY <1>0, <1>o, <2>2
    <2>4. \A i \in segments : i \in Nat
      BY <1>0
    <2>5. \A i \in segments \cup {next} : i \in hintFiles \/ i <= next
      BY <1>o, <2>3, <2>4
    <2>6. QED
      BY <1>o, <2>1, <2>5 DEF OrderInv
  <1>8. CASE AppendRecord
    <2>1. ~writesDisabled
      BY <1>8, <1>c DEF AppendRecord, ControlInv
    <2>2. QED
      BY <1>8, <1>f, <2>1 DEF AppendRecord
  <1>9. CASE AppendFail
    BY <1>9, <1>f DEF AppendFail
  <1>10. CASE ApplyKeydir
    BY <1>10, <1>f DEF ApplyKeydir
  <1>11. CASE CommitManifest
    <2>1. /\ UNCHANGED <<segments, active, writesDisabled, hintFiles, next>>
          /\ manifest'.segs = (segments \ candidates) \cup Merged
          /\ manifest'.active = active /\ ~writesDisabled /\ cpc = "submitted"
      BY <1>11 DEF CommitManifest, WriteManifest
    <2>2. \A i \in Merged : i \in hintFiles
      BY <1>c, <2>1 DEF Merged, HintFilesInv
    <2>3. QED
      BY <1>o, <2>1, <2>2 DEF OrderInv
  <1>12. CASE CommitFail
    BY <1>12, <1>f DEF CommitFail
  <1>13. CASE CommitPublish
    <2>1. /\ UNCHANGED <<manifest, active, writesDisabled, hintFiles, next, file>>
          /\ segments' = (segments \cup Merged) \ candidates /\ Publishing
      BY <1>13 DEF CommitPublish, Publishing
    <2>2. \A i \in Merged : i \in hintFiles
      BY <1>c, <2>1 DEF Merged, HintFilesInv
    <2>3. QED
      BY <1>o, <2>1, <2>2 DEF OrderInv
  <1>14. ASSUME NEW c \in Ids, UnlinkSegment(c)
        PROVE  OrderInv'
    <2>1. ~writesDisabled
      BY <1>14, <1>c DEF UnlinkSegment, ControlInv
    <2>2. QED
      BY <1>14, <1>f, <2>1 DEF UnlinkSegment
  <1>15. ASSUME NEW c \in Ids, UnlinkHint(c)
        PROVE  OrderInv'
    <2>1. /\ UNCHANGED <<manifest, segments, active, writesDisabled, next, file>>
          /\ wpc = "unlinkHint" /\ c \in candidates /\ hintFiles \ {c} \subseteq hintFiles'
      BY <1>15 DEF UnlinkHint, RemoveHint, Lowest
    <2>2. c \notin segments /\ ~writesDisabled /\ ~Publishing
      BY <1>c, <2>1 DEF OwnershipInv, ControlInv, Unlinking, Publishing
    <2>3. c \notin manifest.segs
      BY <1>s, <2>1, <2>2
    <2>4. QED
      BY <1>f, <2>1, <2>2, <2>3
  <1>16. CASE CompactSnapshot
    BY <1>16, <1>f DEF CompactSnapshot
  <1>17. CASE CompactCreate
    <2>1. writesDisabled => file'[manifest.active] = file[manifest.active]
      BY <1>0, <1>17, <1>d DEF CompactCreate, CreateSegment
    <2>2. QED
      BY <1>17, <1>f, <2>1 DEF CompactCreate
  <1>18. CASE CompactCreateFail
    BY <1>18, <1>f DEF CompactCreateFail
  <1>19. ASSUME NEW c \in Ids, ScanEntry(c)
        PROVE  OrderInv'
    <2>1. writesDisabled => file'[manifest.active] = file[manifest.active]
      BY <1>0, <1>19, <1>d DEF ScanEntry
    <2>2. QED
      BY <1>19, <1>f, <2>1 DEF ScanEntry
  <1>20. ASSUME NEW c \in Ids, ScanNext(c)
        PROVE  OrderInv'
    BY <1>20, <1>f DEF ScanNext
  <1>21. CASE CompactFail
    <2>1. writesDisabled => file'[manifest.active] = file[manifest.active]
      BY <1>0, <1>21, <1>d DEF CompactFail, RemoveSegment
    <2>2. UNCHANGED <<manifest, segments, active, writesDisabled, next>>
          /\ hintFiles \subseteq hintFiles'
      BY <1>21 DEF CompactFail
    <2>3. QED
      BY <1>f, <2>1, <2>2
  <1>22. CASE RetireOnly
    <2>1. writesDisabled => file'[manifest.active] = file[manifest.active]
      BY <1>0, <1>22, <1>d DEF RetireOnly, RemoveSegment
    <2>2. QED
      BY <1>22, <1>f, <2>1 DEF RetireOnly
  <1>23. CASE WriteHintFile
    <2>1. /\ UNCHANGED <<manifest, segments, active, writesDisabled, next, file>>
          /\ hintFiles \subseteq hintFiles'
      BY <1>23 DEF WriteHintFile
    <2>2. QED
      BY <1>f, <2>1
  <1>24. CASE CleanupSegment
    <2>1. writesDisabled => file'[manifest.active] = file[manifest.active]
      BY <1>0, <1>24, <1>d DEF CleanupSegment, RemoveSegment
    <2>2. QED
      BY <1>24, <1>f, <2>1 DEF CleanupSegment
  <1>25. CASE CleanupHint
    <2>1. /\ UNCHANGED <<manifest, segments, active, writesDisabled, next, file>>
          /\ cpc = "cleanupHint" /\ hintFiles \ {newSeg} \subseteq hintFiles'
      BY <1>25 DEF CleanupHint, RemoveHint
    <2>2. newSeg # NoSeg
      BY <1>c, <2>1 DEF ControlInv
    <2>3. newSeg \notin segments /\ newSeg \notin manifest.segs
      BY <1>n, <2>1, <2>2
    <2>4. QED
      BY <1>f, <2>1, <2>3
  <1>26. ASSUME NEW r \in Readers, NEW K \in SUBSET Keys \ {{}}, ReadStart(r, K)
        PROVE  OrderInv'
    BY <1>26, <1>f DEF ReadStart
  <1>27. ASSUME NEW r \in Readers, NEW k \in Keys, ReadValue(r, k)
        PROVE  OrderInv'
    BY <1>27, <1>f DEF ReadValue
  <1>28. CASE UNCHANGED vars
    BY <1>28, <1>f DEF vars
  <1>29. QED
    BY <1>1, <1>2, <1>3, <1>4, <1>5, <1>6, <1>7, <1>8, <1>9, <1>10, <1>11,
       <1>12, <1>13, <1>14, <1>15, <1>16, <1>17, <1>18, <1>19, <1>20,
       <1>21, <1>22, <1>23, <1>24, <1>25, <1>26, <1>27, <1>28
       DEF Next, Writer, Compactor, Reader

\* The running engine keeps the log and the keydir in step.
LEMMA LogRunning == LogInv /\ DeletesApart /\ DeletesApart' /\ Running => LogInv'
  <1> SUFFICES ASSUME LogInv, DeletesApart, DeletesApart', Running
               PROVE  LogInv'
    OBVIOUS
  <1>1. mode = "up" /\ mode' = "up" /\ [Next]_vars
    BY DEF Running
  <1>2. HintInv'
    BY HintRunning DEF LogInv
  <1>3. OrderInv' /\ ClockInv' /\ \A k \in Keys : PutsAt(segments, k, LoggedKeydir[k])'
    BY <1>1, OrderStep, ClockStep, LoggedStep
  <1>4. QED
    BY <1>1, <1>2, <1>3 DEF LogInv, SavedInv, LoggedInv, RecoveredView

\* What the segments of the manifest give at any step of the engine: what the
\* live ones do, whether a rotation or a compaction is being published or an
\* uncertain manifest has disabled writes.
LEMMA ManifestGives ==
  ASSUME LogInv, DeletesApart, mode = "up", NEW k \in Keys
  PROVE  Gives(manifest.segs, k, ValueAt(LoggedKeydir[k]))
  <1>0. /\ RTypeOK /\ IndInv /\ CopiesInv /\ segments \in SUBSET Ids
        /\ ControlInv /\ OwnershipInv /\ ManifestInv
        /\ PutsAt(segments, k, LoggedKeydir[k])
    BY DEF LogInv, HintInv, DirInv, IndInv, CoreInv, TypeOK, LoggedInv
  <1>1. Gives(segments, k, ValueAt(LoggedKeydir[k]))
    BY <1>0, PutsView
  <1>e. ASSUME NEW j, file[j] = <<>>
        PROVE  Gives(segments \cup {j}, k, ValueAt(LoggedKeydir[k]))
    <2>1. PICK S, v : S = segments /\ v = ValueAt(LoggedKeydir[k])
      OBVIOUS
    <2>2. Gives(S, k, v)
      BY <1>1, <2>1
    <2>3. Gives(S \cup {j}, k, v)
      BY <1>e, <2>2, AddEmpty
    <2>4. QED
      BY <2>1, <2>3
  <1>2. CASE writesDisabled
    <2>1. manifest.segs = segments \cup {manifest.active} /\ file[manifest.active] = <<>>
      BY <1>0, <1>2 DEF ManifestInv, LogInv, OrderInv
    <2>2. QED
      BY <1>e, <2>1
  <1>3. CASE ~writesDisabled /\ wpc = "rotatePublish"
    <2>1. manifest.segs = segments \cup {next} /\ file[next] = <<>>
      BY <1>0, <1>3, IdFacts DEF ManifestInv, ControlInv, OwnershipInv
    <2>2. QED
      BY <1>e, <2>1
  <1>4. CASE ~writesDisabled /\ Publishing
    <2>1. /\ manifest.segs = (segments \ candidates) \cup Merged
          /\ LoggedKeydir = keydir
      BY <1>0, <1>4 DEF ManifestInv, Publishing, LoggedKeydir
    <2>2. /\ PutsAt(manifest.segs, k, SwapAll[k])
          /\ Held(SwapAll[k]) = Held(keydir[k])
      BY <1>0, <1>4, <2>1, MergedPuts
    <2>3. manifest.segs \in SUBSET Ids
      BY <1>0 DEF RTypeOK
    <2>4. Gives(manifest.segs, k, Held(SwapAll[k]))
      BY <1>0, <2>2, <2>3, PutsGives
    <2>5. Held(keydir[k]) = ValueAt(keydir[k])
      BY <1>0, <2>1, PutsView
    <2>6. QED
      BY <2>1, <2>2, <2>4, <2>5
  <1>5. CASE ~writesDisabled /\ wpc # "rotatePublish" /\ ~Publishing
    <2>1. manifest.segs = segments
      BY <1>0, <1>5 DEF ManifestInv
    <2>2. QED
      BY <1>1, <2>1
  <1>6. QED
    BY <1>2, <1>3, <1>4, <1>5

\* A kill loses nothing that took effect, and nothing that is in the log.
LEMMA LogKill == LogInv /\ DeletesApart /\ Kill => LogInv'
  <1> SUFFICES ASSUME LogInv, DeletesApart, Kill
               PROVE  LogInv'
    OBVIOUS
  <1>1. /\ mode' = "down" /\ next' = NoSeg
        /\ UNCHANGED <<file, segFiles, hint, hintFiles, manifest>>
    BY DEF Kill, ResetMemory
  <1>2. HintInv'
    BY HintKill DEF LogInv
  <1>3. OrderInv'
    BY <1>1 DEF LogInv, OrderInv
  <1>4. ASSUME NEW k \in Keys
        PROVE  Gives(LiveOnDisk, k, saved[k])'
    <2>1. Gives(LiveOnDisk, k, saved'[k])
      <3>1. CASE mode # "up"
        <4>1. saved' = saved
          BY <3>1 DEF Kill
        <4>2. QED
          BY <3>1, <4>1 DEF LogInv, SavedInv
      <3>2. CASE mode = "up"
        <4>1. IndInv /\ CoreInv
          BY <3>2 DEF LogInv, HintInv, DirInv, IndInv
        <4>2. LiveOnDisk = manifest.segs
          BY <4>1, UpDisk DEF LiveOnDisk
        <4>3. saved'[k] = ValueAt(LoggedKeydir[k])
          <5>1. CASE wpc = "keydir"
            BY <3>2, <4>1, <5>1, AppliedValue DEF Kill, LoggedKeydir
          <5>2. CASE wpc # "keydir"
            BY <3>2, <5>2 DEF Kill, LoggedKeydir, View
          <5>3. QED
            BY <5>1, <5>2
        <4>4. QED
          BY <3>2, <4>2, <4>3, ManifestGives
      <3>3. QED
        BY <3>1, <3>2
    <2>2. PICK L, v : L = LiveOnDisk /\ v = saved'[k]
      OBVIOUS
    <2>3. LiveOnDisk' = L
      BY <1>1, <2>2 DEF LiveOnDisk, NoManifest
    <2>4. Gives(L, k, v)'
      BY <1>1, <2>1, <2>2, LogFrame
    <2>5. QED
      BY <2>2, <2>3, <2>4
  <1>5. QED
    BY <1>1, <1>2, <1>3, <1>4 DEF LogInv, SavedInv, LoggedInv, ClockInv, RecoveredView

\* What Get returns once Open has replayed the segments S is what they give.
LEMMA ReplayView ==
  ASSUME RTypeOK, TrueHints, NEW S \in SUBSET (Ids \cap segFiles), NEW act,
         NEW k \in Keys, NEW v, Gives(S, k, v)
  PROVE  LET e == Replay(S, act)[k]
         IN  v = IF e.file \in S /\ e.pos \in DOMAIN file[e.file]
                 THEN file[e.file][e.pos].val ELSE Tombstone
  <1>1. PICK e : e = Replay(S, act)[k]
    OBVIOUS
  <1>2. PutsAt(S, k, e)
    BY <1>1, ReplayPuts
  <1>3. /\ Gives(S, k, Held(e)) /\ S \in SUBSET Ids
        /\ e # NoEntry => e.file \in S /\ e.pos \in DOMAIN file[e.file] /\ e.pos # 0
    BY <1>2, PutsGives
  <1>4. Held(e) = v
    BY <1>3, GivesUnique
  <1>5. CASE e = NoEntry
    <2>1. NoEntry.pos \notin DOMAIN file[NoEntry.file] /\ NoEntry.pos = 0
      BY IdFacts, DirEntry DEF NoEntry
    <2>2. QED
      BY <1>1, <1>4, <1>5, <2>1 DEF Held
  <1>6. CASE e # NoEntry
    BY <1>1, <1>3, <1>4, <1>6 DEF Held
  <1>7. QED
    BY <1>5, <1>6

\* recover finds what callers are entitled to.
LEMMA LogRecover == LogInv /\ HintsHaveSegments /\ OpenRecover => LogInv'
  <1> SUFFICES ASSUME LogInv, HintsHaveSegments, OpenRecover
               PROVE  LogInv'
    OBVIOUS
  <1>1. /\ mode = "down" /\ mode' \in {"fresh", "manifest", "sweep"}
        /\ UNCHANGED <<file, segFiles, hint, hintFiles, manifest, wpc, next, saved>>
        /\ segments' = LiveOnDisk
        /\ keydir' = Replay(LiveOnDisk, ActiveOnDisk)
        /\ lastTstamp' = ReplayTstamp(LiveOnDisk, ActiveOnDisk)
        /\ mode' # "fresh" => active' = ActiveOnDisk
    BY DEF OpenRecover
  <1>2. HintInv' /\ RTypeOK /\ DiskInv /\ StampsBounded /\ TrueHints
    BY HintRecover DEF LogInv, HintInv, DirInv, HintFilesInv, TrueHints
  <1>3. wpc = "idle" /\ next = NoSeg
    BY <1>1 DEF LogInv, HintInv, DirInv, OpenInv, Stopped
  <1>4. PICK L : L = LiveOnDisk
    OBVIOUS
  <1>5. L \in SUBSET (Ids \cap segFiles) /\ L \in SUBSET Ids
    BY <1>2, <1>4, LiveFacts
  <1>6. \A k \in Keys : Gives(L, k, saved[k])
    BY <1>1, <1>4 DEF LogInv, SavedInv
  <1>7. LiveOnDisk' = L /\ segments' = L
    BY <1>1, <1>4 DEF LiveOnDisk, NoManifest
  <1>8. SavedInv'
    <2> SUFFICES ASSUME NEW k \in Keys
                 PROVE  Gives(LiveOnDisk, k, saved[k])'
      BY DEF SavedInv
    <2>1. PICK v : v = saved[k]
      OBVIOUS
    <2>2. Gives(L, k, v)'
      BY <1>1, <1>6, <2>1, LogFrame
    <2>3. QED
      BY <1>1, <1>7, <2>1, <2>2
  <1>9. \A k \in Keys : PutsAt(L, k, keydir'[k])
    BY <1>1, <1>2, <1>4, <1>5, <1>6, ReplayPuts
  <1>10. LoggedInv'
    <2> SUFFICES ASSUME NEW k \in Keys
                 PROVE  PutsAt(segments, k, LoggedKeydir[k])'
      BY DEF LoggedInv
    <2>1. PICK e : e = keydir'[k]
      OBVIOUS
    <2>2. PutsAt(L, k, e)'
      BY <1>1, <1>9, <2>1, LogFrame
    <2>3. LoggedKeydir' = keydir'
      BY <1>1, <1>3 DEF LoggedKeydir
    <2>4. QED
      BY <1>7, <2>1, <2>2, <2>3
  <1>11. RecoveredView'
    <2>1. ASSUME NEW k \in Keys
          PROVE  View'[k] = saved[k]
      <3>1. View'[k] = IF keydir'[k].file \in L /\ keydir'[k].pos \in DOMAIN file[keydir'[k].file]
                       THEN file[keydir'[k].file][keydir'[k].pos].val ELSE Tombstone
        BY <1>1, <1>7 DEF View, ValueAt, Resolves
      <3>2. QED
        BY <1>1, <1>2, <1>4, <1>5, <1>6, <3>1, ReplayView
    <2>2. saved \in [Keys -> Values \cup {Tombstone}]
      BY <1>2 DEF RTypeOK
    <2>3. View' = saved
      BY <2>1, <2>2 DEF View
    <2>4. QED
      BY <1>1, <2>3 DEF RecoveredView
  <1>12. ClockInv'
    <2>1. ASSUME NEW i \in L, NEW p \in DOMAIN file[i]
          PROVE  file[i][p].t <= lastTstamp'
      <3>1. CASE i # ActiveOnDisk /\ HintUsable(i)
        <4>1. \A h \in hint[i] : h.t <= lastTstamp'
          BY <1>1, <1>2, <1>4, <1>5, <3>1, TstampFacts
        <4>2. i \in hintFiles \cap segFiles
          BY <1>5, <3>1 DEF HintUsable
        <4>3. hint[i] = Puts(i) /\ file[i][p].val # Tombstone
          BY <1>2, <4>2 DEF TrueHints, IsMerged
        <4>4. [key |-> file[i][p].key, pos |-> p, t |-> file[i][p].t] \in hint[i]
          BY <4>3 DEF Puts
        <4>5. QED
          BY <4>1, <4>4
      <3>2. CASE ~(i # ActiveOnDisk /\ HintUsable(i))
        BY <1>1, <1>2, <1>4, <1>5, <3>2, TstampFacts
      <3>3. QED
        BY <3>1, <3>2
    <2>2. ~Stamped'
      BY <1>1, <1>3 DEF Stamped
    <2>3. QED
      BY <1>1, <1>7, <2>1, <2>2 DEF ClockInv
  <1>13. OrderInv'
    <2>1. mode' # "fresh" => \A i \in L : i \in hintFiles \/ i <= active'
      <3>1. CASE manifest = NoManifest
        BY <1>1, <1>2, <1>4, <3>1, HighestFacts DEF LiveOnDisk, ActiveOnDisk
      <3>2. CASE manifest # NoManifest
        BY <1>1, <1>4, <3>2 DEF LiveOnDisk, ActiveOnDisk, LogInv, OrderInv
      <3>3. QED
        BY <3>1, <3>2
    <2>2. QED
      BY <1>1, <1>3, <1>7, <2>1 DEF LogInv, OrderInv
  <1>14. QED
    BY <1>2, <1>8, <1>10, <1>11, <1>12, <1>13 DEF LogInv

\* A new segment is empty.
LEMMA GrowEmpty ==
  ASSUME NEW S, NEW j, \A i \in S : file'[i] = file[i], file'[j] = <<>>
  PROVE  /\ \A k, e : PutsAt(S, k, e) => PutsAt(S \cup {j}, k, e)'
         /\ \A k, v : Gives(S, k, v) => Gives(S \cup {j}, k, v)'
  <1>1. DOMAIN file'[j] = {}
    OBVIOUS
  <1>2. \A k : Occurs(S \cup {j}, k)' => Occurs(S, k)
    BY <1>1 DEF Occurs
  <1>3. \A k : \A i \in S : \A p : Decides(S, k, i, p) => Decides(S \cup {j}, k, i, p)'
    BY <1>1 DEF Decides
  <1>4. \A i \in S : \A p : LocAt(i, p)' = LocAt(i, p)
    BY DEF LocAt
  <1>5. QED
    BY <1>2, <1>3, <1>4 DEF PutsAt, Gives

\* The fresh active segment is empty, and above all others.
LEMMA LogFresh == LogInv /\ OpenFresh => LogInv'
  <1> SUFFICES ASSUME LogInv, OpenFresh
               PROVE  LogInv'
    OBVIOUS
  <1>1. /\ mode = "fresh" /\ mode' = "manifest"
        /\ nextID \in Ids /\ nextID \notin segFiles
        /\ segFiles' = segFiles \cup {nextID}
        /\ file' = [file EXCEPT ![nextID] = <<>>]
        /\ segments' = segments \cup {nextID}
        /\ active' = nextID
        /\ UNCHANGED <<hintFiles, manifest, lastTstamp, keydir, wpc, next, saved>>
    BY DEF OpenFresh, CreateSegment
  <1>2. HintInv' /\ RTypeOK /\ DiskInv /\ KeydirResolves
    BY <1>1, HintFresh DEF LogInv, HintInv, DirInv, Opening
  <1>3. /\ wpc = "idle" /\ next = NoSeg /\ segments \subseteq segFiles
        /\ nextID \in Nat /\ \A i \in segFiles : i < nextID
    BY <1>1 DEF LogInv, HintInv, DirInv, OpenInv, Stopped, Opening
  <1>4. file \in [Ids -> Seq(Entry)] /\ segFiles \subseteq Ids
    BY <1>2 DEF RTypeOK
  <1>5. file'[nextID] = <<>> /\ \A i \in segFiles : file'[i] = file[i]
    BY <1>1, <1>4
  <1>6. PICK j, L, S : j = nextID /\ L = LiveOnDisk /\ S = segments
    OBVIOUS
  <1>7. L \subseteq segFiles /\ S \subseteq segFiles
    BY <1>2, <1>3, <1>6, LiveFacts
  <1>8. SavedInv'
    <2> SUFFICES ASSUME NEW k \in Keys
                 PROVE  Gives(LiveOnDisk, k, saved[k])'
      BY DEF SavedInv
    <2>1. PICK v : v = saved[k]
      OBVIOUS
    <2>2. Gives(L, k, v)
      BY <1>1, <1>6, <2>1 DEF LogInv, SavedInv
    <2>3. Gives(L, k, v)' /\ Gives(L \cup {j}, k, v)'
      BY <1>5, <1>6, <1>7, <2>2, LogFrame, GrowEmpty
    <2>4. LiveOnDisk' = L \/ LiveOnDisk' = L \cup {j}
      BY <1>1, <1>6 DEF LiveOnDisk, NoManifest
    <2>5. v = saved'[k]
      BY <1>1, <2>1
    <2>6. QED
      BY <2>3, <2>4, <2>5
  <1>9. LoggedInv'
    <2> SUFFICES ASSUME NEW k \in Keys
                 PROVE  PutsAt(segments, k, LoggedKeydir[k])'
      BY DEF LoggedInv
    <2>1. LoggedKeydir = keydir /\ LoggedKeydir' = keydir
      BY <1>1, <1>3 DEF LoggedKeydir
    <2>2. PICK e : e = keydir[k]
      OBVIOUS
    <2>3. PutsAt(S, k, e)
      BY <1>1, <1>6, <2>1, <2>2 DEF LogInv, LoggedInv
    <2>4. PutsAt(S \cup {j}, k, e)'
      BY <1>5, <1>6, <1>7, <2>3, GrowEmpty
    <2>5. S \cup {j} = segments' /\ e = LoggedKeydir'[k]
      BY <1>1, <1>6, <2>1, <2>2
    <2>6. QED
      BY <2>4, <2>5
  <1>10. ClockInv'
    <2>1. \A p \in DOMAIN file'[nextID] : FALSE
      BY <1>5
    <2>2. ~Stamped'
      BY <1>1, <1>3 DEF Stamped
    <2>3. \A i \in segments : \A p \in DOMAIN file'[i] : file'[i][p].t <= lastTstamp
      BY <1>1, <1>3, <1>5 DEF LogInv, ClockInv
    <2>4. QED
      BY <1>1, <2>1, <2>2, <2>3 DEF ClockInv
  <1>11. RecoveredView'
    <2>1. \A k \in Keys : keydir[k] = NoEntry \/ Resolves(keydir[k])
      BY <1>2 DEF KeydirResolves, Locates
    <2>2. /\ NoEntry.pos = 0 /\ NoEntry.file \in Ids
      BY IdFacts DEF NoEntry
    <2>3. 0 \notin DOMAIN file[NoEntry.file] /\ 0 \notin DOMAIN file'[NoEntry.file]
      <3>1. file[NoEntry.file] \in Seq(Entry)
        BY <1>4, <2>2
      <3>2. file'[NoEntry.file] = file[NoEntry.file] \/ file'[NoEntry.file] = <<>>
        BY <1>1, <1>4, <2>2
      <3>3. QED
        BY <3>1, <3>2
    <2>4. \A k \in Keys : View'[k] = View[k]
      BY <1>1, <1>3, <1>5, <2>1, <2>2, <2>3 DEF View, ValueAt, Resolves
    <2>5. View' = View
      BY <2>4 DEF View
    <2>6. QED
      BY <1>1, <2>5 DEF LogInv, RecoveredView
  <1>12. OrderInv'
    <2>1. \A i \in segments' : i <= nextID
      BY <1>1, <1>3, <1>4, IdFacts
    <2>2. QED
      BY <1>1, <1>3, <2>1 DEF LogInv, OrderInv
  <1>13. QED
    BY <1>2, <1>8, <1>9, <1>10, <1>11, <1>12 DEF LogInv

\* The later steps of Open leave the live segments and the keydir alone.
LEMMA OpenFrame ==
  ASSUME LogInv, Opening, UNCHANGED <<segments, keydir, lastTstamp, wpc>>,
         \A i \in segments : file'[i] = file[i]
  PROVE  LoggedInv' /\ ClockInv' /\ View' = View
  <1>1. wpc = "idle" /\ RTypeOK
    BY DEF LogInv, HintInv, DirInv, OpenInv, Stopped, Opening
  <1>2. LoggedInv'
    <2> SUFFICES ASSUME NEW k \in Keys
                 PROVE  PutsAt(segments, k, LoggedKeydir[k])'
      BY DEF LoggedInv
    <2>1. LoggedKeydir = keydir /\ LoggedKeydir' = keydir
      BY <1>1 DEF LoggedKeydir
    <2>2. PICK S, e : S = segments /\ e = keydir[k]
      OBVIOUS
    <2>3. PutsAt(S, k, e)
      BY <2>1, <2>2 DEF LogInv, LoggedInv, Opening
    <2>4. PutsAt(S, k, e)'
      BY <2>2, <2>3, LogFrame
    <2>5. S = segments' /\ e = LoggedKeydir'[k]
      BY <2>1, <2>2
    <2>6. QED
      BY <2>4, <2>5
  <1>3. ClockInv'
    BY <1>1 DEF LogInv, ClockInv, Stamped, Opening
  <1>4. View' = View
    BY DEF View, ValueAt, Resolves
  <1>5. QED
    BY <1>2, <1>3, <1>4

\* While Open runs, the live segments give what callers are entitled to.
LEMMA OpenGives ==
  ASSUME LogInv, Opening, NEW k \in Keys
  PROVE  Gives(segments, k, saved[k])
  <1>1. /\ wpc = "idle" /\ RTypeOK /\ segments \in SUBSET Ids
        /\ View = saved /\ PutsAt(segments, k, LoggedKeydir[k])
    BY DEF LogInv, HintInv, DirInv, OpenInv, Stopped, Opening, RTypeOK, RecoveredView, LoggedInv
  <1>2. Gives(segments, k, ValueAt(keydir[k]))
    BY <1>1, PutsView DEF LoggedKeydir
  <1>3. QED
    BY <1>1, <1>2 DEF View

\* The manifest Open writes, whether or not it reports success.
LEMMA LogManifest == LogInv /\ (OpenManifest \/ OpenManifestFail) => LogInv'
  <1> SUFFICES ASSUME LogInv, OpenManifest \/ OpenManifestFail
               PROVE  LogInv'
    OBVIOUS
  <1>1. /\ mode = "manifest" /\ Opening /\ mode' # "up"
        /\ \/ manifest' = manifest
           \/ manifest' = [segs |-> segments, active |-> active]
        /\ UNCHANGED <<file, segFiles, hintFiles, saved>>
    BY DEF OpenManifest, OpenManifestFail, WriteManifest, Opening
  <1>2. HintInv'
    BY HintManifest DEF LogInv
  <1>3. active \in segments /\ next = NoSeg /\ active \in Ids
    BY <1>1 DEF LogInv, HintInv, DirInv, RTypeOK, OpenInv, Stopped
  <1>4. SavedInv'
    <2> SUFFICES ASSUME NEW k \in Keys
                 PROVE  Gives(LiveOnDisk, k, saved[k])'
      BY DEF SavedInv
    <2>1. PICK L, S, v : L = LiveOnDisk /\ S = segments /\ v = saved[k]
      OBVIOUS
    <2>2. Gives(L, k, v) /\ Gives(S, k, v)
      BY <1>1, <2>1, OpenGives DEF LogInv, SavedInv
    <2>3. Gives(L, k, v)' /\ Gives(S, k, v)'
      BY <1>1, <2>2, LogFrame
    <2>4. LiveOnDisk' = L \/ LiveOnDisk' = S
      <3>1. CASE manifest' = manifest
        BY <1>1, <2>1, <3>1 DEF LiveOnDisk, NoManifest
      <3>2. CASE manifest' = [segs |-> segments, active |-> active]
        <4>1. manifest' # NoManifest /\ manifest'.segs = segments
          BY <1>3, <3>2, IdFacts DEF NoManifest
        <4>2. QED
          BY <2>1, <4>1 DEF LiveOnDisk, NoManifest
      <3>3. QED
        BY <1>1, <3>1, <3>2
    <2>5. v = saved'[k]
      BY <1>1, <2>1
    <2>6. QED
      BY <2>3, <2>4, <2>5
  <1>5. \A i \in manifest'.segs : i \in hintFiles' \/ i <= manifest'.active
    BY <1>1 DEF LogInv, OrderInv
  <1>6. CASE OpenManifest
    <2>1. /\ mode' = "sweep" /\ UNCHANGED <<segments, active, keydir, lastTstamp, wpc, next>>
      BY <1>6 DEF OpenManifest
    <2>2. LoggedInv' /\ ClockInv' /\ View' = View
      BY <1>1, <2>1, OpenFrame
    <2>3. RecoveredView'
      BY <1>1, <2>1, <2>2 DEF LogInv, RecoveredView
    <2>4. OrderInv'
      BY <1>1, <1>3, <1>5, <2>1 DEF LogInv, OrderInv
    <2>5. QED
      BY <1>2, <1>4, <2>2, <2>3, <2>4 DEF LogInv
  <1>7. CASE OpenManifestFail
    <2>1. mode' = "down" /\ next' = NoSeg
      BY <1>7 DEF OpenManifestFail, ResetMemory
    <2>2. QED
      BY <1>2, <1>4, <1>5, <2>1 DEF LogInv, OrderInv, LoggedInv, ClockInv, RecoveredView
  <1>8. QED
    BY <1>6, <1>7

\* The sweep touches no live segment and no hint of one.
LEMMA LogSweep ==
  ASSUME LogInv, NEW i \in Ids, SweepOne(i)
  PROVE  LogInv'
  <1>1. /\ mode = "sweep" /\ Opening /\ i \notin manifest.segs
        /\ \/ hintFiles' = hintFiles \ {i} /\ UNCHANGED <<file, segFiles>>
           \/ file' = [file EXCEPT ![i] = <<>>] /\ UNCHANGED hintFiles
        /\ UNCHANGED <<manifest, segments, active, lastTstamp, keydir, wpc, next, mode, saved>>
    BY DEF SweepOne, Orphans, Opening
  <1>2. HintInv' /\ RTypeOK
    BY HintSweep DEF LogInv, HintInv, DirInv
  <1>3. /\ manifest.segs = segments /\ manifest # NoManifest /\ next = NoSeg
        /\ segments \subseteq Ids
    <2>1. /\ manifest = [segs |-> segments, active |-> active] /\ active \in segments
          /\ next = NoSeg
      BY <1>1 DEF LogInv, HintInv, DirInv, OpenInv, Stopped
    <2>2. QED
      BY <1>2, <2>1 DEF NoManifest, RTypeOK
  <1>4. \A j \in segments : file'[j] = file[j]
    BY <1>1, <1>2, <1>3 DEF RTypeOK
  <1>5. LoggedInv' /\ ClockInv' /\ View' = View
    BY <1>1, <1>4, OpenFrame
  <1>6. SavedInv'
    <2> SUFFICES ASSUME NEW k \in Keys
                 PROVE  Gives(LiveOnDisk, k, saved[k])'
      BY DEF SavedInv
    <2>1. PICK S, v : S = segments /\ v = saved[k]
      OBVIOUS
    <2>2. Gives(S, k, v)
      BY <1>1, <2>1, OpenGives
    <2>3. Gives(S, k, v)'
      BY <1>4, <2>1, <2>2, LogFrame
    <2>4. LiveOnDisk' = S /\ v = saved'[k]
      BY <1>1, <1>3, <2>1 DEF LiveOnDisk, NoManifest
    <2>5. QED
      BY <2>3, <2>4
  <1>7. RecoveredView'
    BY <1>1, <1>5 DEF LogInv, RecoveredView
  <1>8. OrderInv'
    BY <1>1, <1>3 DEF LogInv, OrderInv
  <1>9. QED
    BY <1>2, <1>5, <1>6, <1>7, <1>8 DEF LogInv

\* The writer starts with what callers are entitled to.
LEMMA LogDone == LogInv /\ OpenDone => LogInv'
  <1> SUFFICES ASSUME LogInv, OpenDone
               PROVE  LogInv'
    OBVIOUS
  <1>1. mode = "sweep" /\ Opening /\ mode' = "up" /\ UNCHANGED vars
    BY DEF OpenDone, Opening
  <1>2. HintInv'
    BY HintDone DEF LogInv
  <1>3. LoggedInv' /\ ClockInv'
    BY <1>1, OpenFrame DEF vars
  <1>4. ~writesDisabled
    BY <1>1 DEF LogInv, HintInv, DirInv, OpenInv, Stopped
  <1>5. OrderInv'
    BY <1>1, <1>4 DEF vars, LogInv, OrderInv
  <1>6. QED
    BY <1>1, <1>2, <1>3, <1>5 DEF LogInv, SavedInv, RecoveredView

\* Nothing happens.
LEMMA LogStutter == LogInv /\ DeletesApart /\ DeletesApart' /\ UNCHANGED allVars => LogInv'
  <1> SUFFICES ASSUME LogInv, DeletesApart, DeletesApart', UNCHANGED allVars
               PROVE  LogInv'
    OBVIOUS
  <1>1. mode' = mode /\ saved' = saved /\ UNCHANGED vars
    BY DEF allVars
  <1>2. HintInv'
    BY HintStutter DEF LogInv
  <1>3. OrderInv'
    BY <1>1 DEF vars, LogInv, OrderInv
  <1>4. SavedInv'
    <2> SUFFICES ASSUME NEW k \in Keys, mode # "up"
                 PROVE  Gives(LiveOnDisk, k, saved[k])'
      BY <1>1 DEF SavedInv
    <2>1. PICK L, v : L = LiveOnDisk /\ v = saved[k]
      OBVIOUS
    <2>2. Gives(L, k, v)
      BY <2>1 DEF LogInv, SavedInv
    <2>3. Gives(L, k, v)'
      BY <1>1, <2>2, LogFrame DEF vars
    <2>4. LiveOnDisk' = L /\ v = saved'[k]
      BY <1>1, <2>1 DEF vars, LiveOnDisk, NoManifest
    <2>5. QED
      BY <2>3, <2>4
  <1>5. LoggedInv' /\ ClockInv'
    <2>1. CASE mode = "down"
      BY <1>1, <2>1 DEF LoggedInv, ClockInv
    <2>2. CASE mode = "up"
      BY <1>1, <2>2, LoggedStep, ClockStep DEF LoggedInv
    <2>3. CASE Opening
      BY <1>1, <2>3, OpenFrame DEF vars
    <2>4. QED
      BY <2>1, <2>2, <2>3 DEF LogInv, HintInv, DirInv, RTypeOK, Opening
  <1>6. RecoveredView'
    BY <1>1 DEF vars, LogInv, RecoveredView, View, ValueAt, Resolves
  <1>7. QED
    BY <1>2, <1>3, <1>4, <1>5, <1>6 DEF LogInv

\* An empty directory gives every key no value.
LEMMA LogInit == RInit => LogInv
  <1> SUFFICES ASSUME RInit
               PROVE  LogInv
    OBVIOUS
  <1>1. HintInv
    BY HintInit
  <1>2. mode = "down" /\ LiveOnDisk = {}
    BY DEF RInit, LiveOnDisk
  <1>3. SavedInv
    BY <1>2 DEF RInit, SavedInv, Gives, Occurs
  <1>4. OrderInv
    BY DEF RInit, OrderInv, NoManifest
  <1>5. QED
    BY <1>1, <1>2, <1>3, <1>4 DEF LogInv, LoggedInv, ClockInv, RecoveredView

\* Every step preserves what the log says.
LEMMA LogInvStep ==
  /\ LogInv /\ DeletesApart /\ HintsHaveSegments
  /\ DeletesApart'
  /\ [RNext]_allVars
  => LogInv'
  BY LogStutter, LogRunning, LogKill, LogRecover, LogFresh, LogManifest,
     LogSweep, LogDone DEF RNext, Open

\* The circumstances in which the log determines the map.
LogSafe == DeletesApart /\ HintsHaveSegments

\* Then the live segments determine the map, at every step of every process.
THEOREM LogInvariance == RSpec /\ []LogSafe => []LogInv
  BY LogInit, LogInvStep, PTL DEF RSpec, LogSafe

\* Lookups give after Open what they gave before the process ended.
THEOREM ViewRecovered == RSpec /\ []LogSafe => []RecoveredView
  <1>1. LogInv => RecoveredView
    BY DEF LogInv
  <1>2. QED
    BY <1>1, LogInvariance, PTL

----------------------------------------------------------------------------
(* The refinement: across kills and opens, still one map.                  *)

\* The abstract map: what lookups give, or will give after Open.
Entitled == IF mode = "up" THEN View ELSE saved

\* The two instances of the abstract specification apply a request alike.
LEMMA SameOps ==
  ASSUME NEW s, NEW ops
  PROVE  DurableStore!ApplyOps(s, ops) = Store!ApplyOps(s, ops)
  BY DEF DurableStore!ApplyOps, DurableStore!Touches, DurableStore!LastOp,
         DurableStore!IsLastOp, Store!ApplyOps, Store!Touches, Store!LastOp, Store!IsLastOp

\* A step of the running engine is one of the map, or none.
LEMMA DurableRunning ==
  LogInv /\ Running => DurableStore!Next \/ UNCHANGED <<Entitled, wreq>>
  <1> SUFFICES ASSUME LogInv, Running
               PROVE  DurableStore!Next \/ UNCHANGED <<Entitled, wreq>>
    OBVIOUS
  <1>1. mode = "up" /\ mode' = "up" /\ Next
    BY DEF Running, recVars
  <1>2. IndInv
    BY <1>1 DEF LogInv, HintInv, DirInv, IndInv
  <1>3. Store!Next \/ UNCHANGED <<View, wreq>>
    BY <1>1, <1>2, ViewStep
  <1>4. CASE UNCHANGED <<View, wreq>>
    BY <1>1, <1>4 DEF Entitled
  <1>5. CASE \E ops \in Batches : Store!Accept(ops)
    BY <1>1, <1>5 DEF Store!Accept, DurableStore!Next, DurableStore!Accept
  <1>6. CASE Store!Write
    <2>1. View' = DurableStore!ApplyOps(View, wreq)
      BY <1>6, SameOps DEF Store!Write
    <2>2. QED
      BY <1>1, <1>6, <2>1 DEF Store!Write, DurableStore!Next, DurableStore!Write
  <1>7. CASE Store!Refuse
    BY <1>1, <1>7 DEF Store!Refuse, DurableStore!Next, DurableStore!Refuse
  <1>8. QED
    BY <1>3, <1>4, <1>5, <1>6, <1>7 DEF Store!Next

\* A kill ends the request under way: it takes effect if its record is in the
\* log, and fails otherwise.
LEMMA DurableKill ==
  LogInv /\ Kill => DurableStore!Next \/ UNCHANGED <<Entitled, wreq>>
  <1> SUFFICES ASSUME LogInv, Kill
               PROVE  DurableStore!Next \/ UNCHANGED <<Entitled, wreq>>
    OBVIOUS
  <1>1. mode' = "down" /\ wreq' = <<>>
    BY DEF Kill, ResetMemory
  <1>2. CASE mode # "up"
    <2>1. saved' = saved /\ wreq = <<>>
      BY <1>2 DEF Kill, LogInv, HintInv, DirInv, OpenInv, Stopped
    <2>2. QED
      BY <1>1, <1>2, <2>1 DEF Entitled
  <1>3. CASE mode = "up" /\ wreq = <<>>
    <2>1. wpc # "keydir"
      BY <1>3, BatchesAssumption DEF LogInv, HintInv, DirInv, CoreInv, ControlInv, Writing
    <2>2. saved' = View
      BY <1>3, <2>1 DEF Kill
    <2>3. QED
      BY <1>1, <1>3, <2>2 DEF Entitled
  <1>4. CASE mode = "up" /\ wreq # <<>> /\ wpc = "keydir"
    <2>1. saved' = DurableStore!ApplyOps(View, wreq)
      BY <1>4, SameOps DEF Kill
    <2>2. QED
      BY <1>1, <1>4, <2>1 DEF DurableStore!Next, DurableStore!Write
  <1>5. CASE mode = "up" /\ wreq # <<>> /\ wpc # "keydir"
    <2>1. saved' = View
      BY <1>5 DEF Kill
    <2>2. QED
      BY <1>1, <1>5, <2>1 DEF DurableStore!Next, DurableStore!Refuse
  <1>6. QED
    BY <1>2, <1>3, <1>4, <1>5

\* Open changes nothing callers can see, and ends with what they are entitled to.
LEMMA DurableOpen ==
  LogInv /\ Open => UNCHANGED <<Entitled, wreq>>
  <1> SUFFICES ASSUME LogInv, Open
               PROVE  UNCHANGED <<Entitled, wreq>>
    OBVIOUS
  <1>1. mode # "up" /\ saved' = saved
    BY DEF Open, OpenRecover, OpenFresh, OpenManifest, OpenManifestFail, OpenDone,
           SweepOne, recVars
  <1>2. wreq = <<>>
    BY <1>1 DEF LogInv, HintInv, DirInv, OpenInv, Stopped
  <1>3. wreq' = <<>>
    BY <1>2 DEF Open, OpenRecover, OpenFresh, OpenManifest, OpenManifestFail, OpenDone,
           SweepOne, ResetMemory, writerVars, vars
  <1>4. CASE OpenDone
    <2>1. mode = "sweep" /\ mode' = "up" /\ View' = View
      BY <1>4 DEF OpenDone, vars, View, ValueAt, Resolves
    <2>2. View = saved
      BY <2>1 DEF LogInv, RecoveredView
    <2>3. QED
      BY <1>1, <1>2, <1>3, <2>1, <2>2 DEF Entitled
  <1>5. CASE ~OpenDone
    <2>1. mode' # "up"
      BY <1>1, <1>5 DEF Open, OpenRecover, OpenFresh, OpenManifest, OpenManifestFail,
           SweepOne, recVars
    <2>2. QED
      BY <1>1, <1>2, <1>3, <2>1 DEF Entitled
  <1>6. QED
    BY <1>4, <1>5

\* Kill and Open, in any order and at any step, leave one map in which every
\* request takes effect once, as a whole, or not at all.
THEOREM NothingIsLost == RSpec /\ []LogSafe => NothingLost
  <1>1. RInit => DurableStore!Init
    BY DEF RInit, DurableStore!Init
  <1>2. LogInv /\ [RNext]_allVars => [DurableStore!Next]_<<Entitled, wreq>>
    <2> SUFFICES ASSUME LogInv, [RNext]_allVars
                 PROVE  DurableStore!Next \/ UNCHANGED <<Entitled, wreq>>
      OBVIOUS
    <2>1. CASE RNext
      BY <2>1, DurableRunning, DurableKill, DurableOpen DEF RNext
    <2>2. CASE UNCHANGED allVars
      BY <2>2 DEF allVars, recVars, vars, Entitled, View, ValueAt, Resolves
    <2>3. QED
      BY <2>1, <2>2
  <1>3. QED
    BY <1>1, <1>2, LogInvariance, PTL DEF RSpec, NothingLost, DurableStore!Spec, Entitled

----------------------------------------------------------------------------
(* Two ways of running the engine in which the circumstances are met.      *)

\* Without the compactor no step writes a hint.
LEMMA NoHintsStep ==
  ASSUME ~Compaction, DirInv, NoHints, [RNext]_allVars
  PROVE  NoHints'
  <1>1. CASE Running \/ (mode = "up" /\ UNCHANGED allVars)
    <2>1. CoreInv /\ [Next]_vars
      BY <1>1 DEF DirInv, Running, allVars
    <2>2. wpc \notin {"commitPublish", "commitPublishKeep", "unlink", "unlinkHint"}
      BY <2>1 DEF NoHints, CoreInv, ControlInv, Publishing, Unlinking
    <2>3. CASE Writer
      BY <2>2, <2>3 DEF NoHints, Writer, StartWrite, RotateCreate, RotateFail,
           RotateManifest, RotateAbort, RotateUncertain, RotatePublish, AppendRecord,
           AppendFail, ApplyKeydir, CommitManifest, CommitFail, CommitPublish,
           UnlinkSegment, UnlinkHint, dirVars, compactorVars
    <2>4. CASE Compactor
      BY <2>4 DEF NoHints, Compactor, CompactSnapshot, CompactCreate, CompactCreateFail,
           ScanEntry, ScanNext, CompactFail, RetireOnly, WriteHintFile, CleanupSegment,
           CleanupHint
    <2>5. CASE Reader
      BY <2>5 DEF NoHints, Reader, ReadStart, ReadValue, dirVars, compactorVars
    <2>6. CASE UNCHANGED vars
      BY <2>6 DEF NoHints, vars, dirVars, compactorVars
    <2>7. QED
      BY <2>1, <2>3, <2>4, <2>5, <2>6 DEF Next
  <1>2. CASE Kill
    BY <1>2 DEF NoHints, Kill, ResetMemory, ResetCompactor
  <1>3. CASE Open \/ UNCHANGED allVars
    BY <1>3 DEF NoHints, Open, OpenRecover, OpenFresh, OpenManifest, OpenManifestFail,
         OpenDone, SweepOne, ResetMemory, ResetCompactor, allVars, vars, dirVars, compactorVars
  <1>4. QED
    BY <1>1, <1>2, <1>3 DEF RNext

\* With compaction turned off nothing is lost and no deleted key returns,
\* whatever call fails and wherever the process is killed.
THEOREM NothingLostWithoutCompaction ==
  ASSUME ~Compaction
  PROVE  RSpec => NothingLost
  <1>1. RInit => NoHints
    BY DEF RInit, NoHints
  <1>2. DirInv /\ NoHints /\ [RNext]_allVars => NoHints'
    BY NoHintsStep
  <1>3. NoHints => LogSafe
    BY DEF NoHints, LogSafe, DeletesApart, HintsHaveSegments
  <1>4. QED
    BY <1>1, <1>2, <1>3, DirectoryInvariance, NothingIsLost, PTL DEF RSpec

\* Callers never delete.
PutsOnly == \A ops \in Batches : \A j \in DOMAIN ops : ops[j].val # Tombstone

\* No file has a tombstone.
NoTombstones == \A i \in Ids : \A p \in DOMAIN file[i] : file[i][p].val # Tombstone

\* Files kept as they were or emptied have no tombstone either.
LEMMA TombstoneFrame ==
  ASSUME NoTombstones, \A i \in Ids : file'[i] = file[i] \/ file'[i] = <<>>
  PROVE  NoTombstones'
  BY DEF NoTombstones

\* An entry at the end of a file.
LEMMA LastEntry ==
  ASSUME NEW s \in Seq(Entry), NEW e \in Entry,
         NEW p \in DOMAIN Append(s, e)
  PROVE  Append(s, e)[p] = e \/ (p \in DOMAIN s /\ Append(s, e)[p] = s[p])
  OBVIOUS

\* The running engine writes the entries of requests and copies of entries.
LEMMA TombstoneStep ==
  ASSUME PutsOnly, CoreInv, NoTombstones, [Next]_vars
  PROVE  NoTombstones'
  <1> USE IdFacts
  <1>0. /\ file \in [Ids -> Seq(Entry)] /\ active \in Ids
        /\ newSeg \in Ids \cup {NoSeg} /\ next \in Ids \cup {NoSeg}
        /\ ControlInv
    BY DEF CoreInv, TypeOK, OwnershipInv
  <1>1. CASE AppendRecord
    <2>1. LET n == Len(file[active]) IN
          /\ n \in Nat /\ wreq \in Batches
          /\ DOMAIN file[active] = 1 .. n
          /\ DOMAIN file'[active] = 1 .. n + Len(wreq)
          /\ \A q \in 1 .. n : file'[active][q] = file[active][q]
          /\ \A l \in 1 .. Len(wreq) : file'[active][n + l] =
               [key |-> wreq[l].key, val |-> wreq[l].val, t |-> lastTstamp]
      BY <1>1, AppendFacts
    <2>2. PICK n \in Nat : n = Len(file[active])
      BY <2>1
    <2>3. Len(wreq) \in Nat /\ DOMAIN wreq = 1 .. Len(wreq)
      BY <2>1, RequestFacts
    <2>4. ASSUME NEW p \in DOMAIN file'[active]
          PROVE  file'[active][p].val # Tombstone
      <3>1. p \in 1 .. n \/ p - n \in 1 .. Len(wreq)
        BY <2>1, <2>2, <2>3
      <3>2. CASE p \in 1 .. n
        BY <1>0, <2>1, <2>2, <3>2 DEF NoTombstones
      <3>3. CASE p - n \in 1 .. Len(wreq)
        <4>1. PICK l \in 1 .. Len(wreq) : p = n + l
          BY <2>1, <2>2, <2>3, <3>3
        <4>2. file'[active][p].val = wreq[l].val
          <5>1. file'[active][n + l] =
                  [key |-> wreq[l].key, val |-> wreq[l].val, t |-> lastTstamp]
            BY <2>1, <2>2
          <5>2. QED
            BY <4>1, <5>1
        <4>3. QED
          BY <2>1, <2>3, <4>1, <4>2 DEF PutsOnly
      <3>4. QED
        BY <3>1, <3>2, <3>3
    <2>5. \A i \in Ids \ {active} : file'[i] = file[i]
      BY <1>0, <1>1 DEF AppendRecord
    <2>6. QED
      BY <2>4, <2>5 DEF NoTombstones
  <1>2. ASSUME NEW c \in Ids, ScanEntry(c)
        PROVE  NoTombstones'
    <2>1. CASE file' = file
      BY <2>1, TombstoneFrame
    <2>2. CASE file' # file
      <3>1. PICK e : e = file[c][scanPos + 1]
        OBVIOUS
      <3>2. /\ file' = [file EXCEPT ![newSeg] = Append(@, e)] /\ e.val # Tombstone
            /\ scanPos < Len(file[c]) /\ cpc = "scan"
        BY <1>2, <2>2, <3>1 DEF ScanEntry, IsLive
      <3>3. newSeg \in Ids /\ scanPos \in Nat
        BY <1>0, <3>2 DEF ControlInv, CoreInv, TypeOK
      <3>4. e \in Entry
        BY <1>0, <3>1, <3>2, <3>3
      <3>5. PICK s \in Seq(Entry) : s = file[newSeg]
        BY <1>0, <3>3
      <3>6. file'[newSeg] = Append(s, e)
        BY <1>0, <3>2, <3>3, <3>5
      <3>7. \A p \in DOMAIN file'[newSeg] : file'[newSeg][p].val # Tombstone
        BY <3>2, <3>3, <3>4, <3>5, <3>6, LastEntry DEF NoTombstones
      <3>8. \A i \in Ids \ {newSeg} : file'[i] = file[i]
        BY <1>0, <3>2
      <3>9. QED
        BY <3>7, <3>8 DEF NoTombstones
    <2>3. QED
      BY <2>1, <2>2
  <1>3. ASSUME NEW i, CreateSegment(i) \/ RemoveSegment(i)
        PROVE  NoTombstones'
    <2>1. \A j \in Ids : file'[j] = file[j] \/ file'[j] = <<>>
      BY <1>0, <1>3 DEF CreateSegment, RemoveSegment
    <2>2. QED
      BY <2>1, TombstoneFrame
  <1>4. CASE file' = file
    BY <1>4, TombstoneFrame
  <1>5. CASE Writer
    <2>1. \/ AppendRecord \/ file' = file
          \/ \E i \in Ids \cup {NoSeg} : CreateSegment(i) \/ RemoveSegment(i)
      BY <1>0, <1>5 DEF Writer, StartWrite, RotateCreate, RotateFail, RotateManifest,
           RotateAbort, RotateUncertain, RotatePublish, AppendFail, ApplyKeydir,
           CommitManifest, CommitFail, CommitPublish, UnlinkSegment, UnlinkHint, dirVars
    <2>2. QED
      BY <1>1, <1>3, <1>4, <2>1
  <1>6. CASE Compactor
    <2>1. \/ (\E c \in Ids : ScanEntry(c)) \/ file' = file
          \/ \E i \in Ids \cup {NoSeg} : CreateSegment(i) \/ RemoveSegment(i)
      BY <1>0, <1>6 DEF Compactor, CompactSnapshot, CompactCreate, CompactCreateFail,
           ScanNext, CompactFail, RetireOnly, WriteHintFile, CleanupSegment, CleanupHint, dirVars
    <2>2. QED
      BY <1>2, <1>3, <1>4, <2>1
  <1>7. CASE Reader \/ UNCHANGED vars
    BY <1>4, <1>7 DEF Reader, ReadStart, ReadValue, vars, dirVars
  <1>8. QED
    BY <1>5, <1>6, <1>7 DEF Next

\* Nor do kills and opens write one.
LEMMA NoTombstonesStep ==
  ASSUME PutsOnly, DirInv, NoTombstones, [RNext]_allVars
  PROVE  NoTombstones'
  <1>1. CASE Running
    BY <1>1, TombstoneStep DEF DirInv, Running
  <1>2. CASE Kill \/ OpenRecover \/ OpenManifest \/ OpenManifestFail \/ OpenDone
             \/ UNCHANGED allVars
    <2>1. file' = file
      BY <1>2 DEF Kill, OpenRecover, OpenManifest, OpenManifestFail, OpenDone,
                  allVars, vars, dirVars
    <2>2. QED
      BY <2>1, TombstoneFrame
  <1>3. CASE OpenFresh \/ \E i \in Ids : SweepOne(i)
    <2>1. \A j \in Ids : file'[j] = file[j] \/ file'[j] = <<>>
      BY <1>3 DEF OpenFresh, CreateSegment, SweepOne, DirInv, RTypeOK
    <2>2. QED
      BY <2>1, TombstoneFrame
  <1>4. QED
    BY <1>1, <1>2, <1>3 DEF RNext, Open

\* Where keys are only put, nothing is lost with compaction running either,
\* as long as every hint goes with its segment.
THEOREM NothingLostWithoutDeletes ==
  ASSUME PutsOnly, HintsSafe
  PROVE  RSpec => NothingLost
  <1>1. RInit => NoTombstones
    BY DEF RInit, NoTombstones
  <1>2. DirInv /\ NoTombstones /\ [RNext]_allVars => NoTombstones'
    BY NoTombstonesStep
  <1>3. NoTombstones => DeletesApart
    BY DEF NoTombstones, DeletesApart
  <1>4. DeletesApart /\ HintsHaveSegments => LogSafe
    BY DEF LogSafe
  <1>5. QED
    BY <1>1, <1>2, <1>3, <1>4, DirectoryInvariance, HintsKeepSegments, NothingIsLost,
       PTL DEF RSpec
=============================================================================
