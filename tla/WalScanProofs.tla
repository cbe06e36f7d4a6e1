---------------------------- MODULE WalScanProofs ----------------------------
(***************************************************************************)
(* wal_scan finds the committed prefix of every file, of any length.       *)
(***************************************************************************)
EXTENDS WalPrefix, FiniteSetTheorems, SequenceTheorems, WellFoundedInduction, TLAPS

---------------------------------------------------------------------------
(* Induction over the natural numbers, stated of sets, and the greatest of a set of them *)

\* Every nonempty set of natural numbers has a least element.
LEMMA LeastNat ==
  ASSUME NEW T \in SUBSET Nat, T # {}
  PROVE  \E x \in T : \A y \in T : x <= y
<1> DEFINE less == {p \in Nat \X Nat : p[1] < p[2]}
<1>1. IsWellFoundedOn(less, Nat)
  BY NatLessThanWellFounded DEF OpToRel
<1> HIDE DEF less
<1>2. PICK x \in T : \A y \in T : ~(<<y, x>> \in less)
  BY <1>1, WFMin
<1>3. ASSUME NEW y \in T, y < x PROVE FALSE
  BY <1>2, <1>3 DEF less
<1> QED BY <1>3

\* A set that holds 0 and, with each number, the next one, holds every number.
LEMMA SetInduction ==
  ASSUME NEW S, 0 \in S, \A n \in Nat : n \in S => n + 1 \in S
  PROVE  \A n \in Nat : n \in S
<1> SUFFICES ASSUME NEW n \in Nat, n \notin S PROVE FALSE
  OBVIOUS
<1> DEFINE T == {k \in Nat : k \notin S}
<1>1. T \in SUBSET Nat /\ T # {}
  OBVIOUS
<1>2. PICK x \in T : \A y \in T : x <= y
  <2> HIDE DEF T
  <2> QED BY <1>1, LeastNat
<1>3. x - 1 \in Nat /\ x - 1 \in S
  BY <1>2
<1> QED BY <1>3

\* What Max gives for a set of natural numbers with a bound.
LEMMA MaxOfNats ==
  ASSUME NEW k \in Nat, NEW T \in SUBSET (0 .. k), T # {}
  PROVE  Max(T) \in T /\ \A y \in T : y <= Max(T)
<1> DEFINE U == {k - x : x \in T}
<1>0. \A x \in T : x \in Nat /\ x <= k /\ k - x \in Nat
  OBVIOUS
<1>1. U \in SUBSET Nat /\ U # {}
  BY <1>0
<1>2. PICK u \in U : \A v \in U : u <= v
  <2> HIDE DEF U
  <2> QED BY <1>1, LeastNat
<1>3. PICK x \in T : u = k - x
  BY <1>2
<1>4. \A y \in T : x >= y
  <2> SUFFICES ASSUME NEW y \in T PROVE x >= y
    OBVIOUS
  <2>1. k - x <= k - y
    BY <1>2, <1>3
  <2> QED BY <1>0, <2>1
<1>5. \A z \in T : (\A y \in T : z >= y) => \A y \in T : y <= z
  BY <1>0
<1> QED BY <1>4, <1>5 DEF Max

LEMMA MaxIs ==
  ASSUME NEW k \in Nat, NEW T \in SUBSET (0 .. k), NEW m \in T, \A y \in T : y <= m
  PROVE  Max(T) = m
<1>1. Max(T) \in T /\ m <= Max(T)
  BY MaxOfNats
<1>2. \A x \in T : x \in Nat /\ x <= m
  OBVIOUS
<1> DEFINE z == Max(T)
<1>3. z \in Nat /\ z <= m /\ m <= z /\ m \in Nat
  BY <1>1, <1>2
<1> HIDE DEF z
<1>4. z = m
  BY <1>3
<1> QED BY <1>4 DEF z

---------------------------------------------------------------------------
(* The loop, turn by turn *)

\* The state of the loop after i records.
At(f, i) == CHOOSE a \in ScanStates(f)[i] : TRUE

\* One turn on a state that is alone in its set.
Turn(f, F, i) == IF i = 0 THEN {ScanStart} ELSE {ScanStep(a, f[i], i) : a \in F[i - 1]}

\* There is a function that follows the loop: the recursive definition means something.
LEMMA StatesExist ==
  ASSUME NEW f, NEW n \in Nat
  PROVE  \E F : F = [i \in 0 .. n |-> Turn(f, F, i)]
<1> DEFINE S == {m \in Nat : \E F : F = [i \in 0 .. m |-> Turn(f, F, i)]}
<1>1. 0 \in S
  <2> DEFINE F == [i \in 0 .. 0 |-> {ScanStart}]
  <2>1. F = [i \in 0 .. 0 |-> Turn(f, F, i)]
    BY DEF Turn
  <2> QED BY <2>1
<1>2. ASSUME NEW m \in Nat, m \in S PROVE m + 1 \in S
  <2>1. PICK F : F = [i \in 0 .. m |-> Turn(f, F, i)]
    BY <1>2
  <2> DEFINE G == [i \in 0 .. (m + 1) |-> IF i <= m THEN F[i] ELSE {ScanStep(a, f[i], i) : a \in F[m]}]
  <2>2. ASSUME NEW i \in 0 .. (m + 1) PROVE G[i] = Turn(f, G, i)
    <3>1. CASE i = 0
      BY <2>1, <3>1 DEF Turn
    <3>2. CASE i \in 1 .. m
      <4>1. G[i] = F[i] /\ G[i - 1] = F[i - 1]
        BY <3>2
      <4>2. F[i] = Turn(f, F, i)
        BY <2>1, <3>2
      <4> QED BY <3>2, <4>1, <4>2 DEF Turn
    <3>3. CASE i = m + 1
      <4>1. G[i] = {ScanStep(a, f[i], i) : a \in F[m]} /\ G[i - 1] = F[i - 1] /\ i - 1 = m
        BY <3>3
      <4> HIDE DEF G
      <4> QED BY <3>3, <4>1 DEF Turn
    <3> QED BY <3>1, <3>2, <3>3
  <2>3. G = [i \in 0 .. (m + 1) |-> Turn(f, G, i)]
    <3>1. G = [i \in 0 .. (m + 1) |-> G[i]]
      OBVIOUS
    <3> HIDE DEF G
    <3> QED BY <2>2, <3>1
  <2> HIDE DEF G
  <2> QED BY <2>3
<1>3. \A m \in Nat : m \in S
  <2> HIDE DEF S
  <2> QED BY <1>1, <1>2, SetInduction
<1> QED BY <1>3

LEMMA StatesUnfold ==
  ASSUME NEW R, NEW f \in Seq(R)
  PROVE  ScanStates(f) = [i \in 0 .. Len(f) |-> Turn(f, ScanStates(f), i)]
<1> DEFINE P(F) == F = [i \in 0 .. Len(f) |->
             IF i = 0 THEN {ScanStart} ELSE {ScanStep(a, f[i], i) : a \in F[i - 1]}]
<1>1. \E F : P(F)
  <2>1. Len(f) \in Nat
    OBVIOUS
  <2>2. PICK F : F = [i \in 0 .. Len(f) |-> Turn(f, F, i)]
    BY <2>1, StatesExist
  <2>3. P(F)
    BY <2>2 DEF Turn
  <2> QED BY <2>3
<1>2. ScanStates(f) = CHOOSE F : P(F)
  BY DEF ScanStates
<1>3. P(CHOOSE F : P(F))
  BY <1>1
<1> QED BY <1>2, <1>3 DEF Turn

\* The loop starts from memset's state and takes one turn per record.
LEMMA AtStart == ASSUME NEW R, NEW f \in Seq(R) PROVE At(f, 0) = ScanStart /\ ScanStates(f)[0] = {At(f, 0)}
<1>1. 0 \in 0 .. Len(f)
  OBVIOUS
<1>2. ScanStates(f)[0] = {ScanStart}
  BY <1>1, StatesUnfold DEF Turn
<1> QED BY <1>2 DEF At

LEMMA AtTurn ==
  ASSUME NEW R, NEW f \in Seq(R), NEW i \in 1 .. Len(f), ScanStates(f)[i - 1] = {At(f, i - 1)}
  PROVE  At(f, i) = ScanStep(At(f, i - 1), f[i], i) /\ ScanStates(f)[i] = {At(f, i)}
<1>1. i \in 0 .. Len(f) /\ i # 0
  OBVIOUS
<1>2. ScanStates(f)[i] = {ScanStep(a, f[i], i) : a \in ScanStates(f)[i - 1]}
  BY <1>1, StatesUnfold DEF Turn
<1>3. ScanStates(f)[i] = {ScanStep(At(f, i - 1), f[i], i)}
  BY <1>2
<1> QED BY <1>3 DEF At

LEMMA AtStep ==
  ASSUME NEW R, NEW f \in Seq(R), NEW i \in 1 .. Len(f)
  PROVE  At(f, i) = ScanStep(At(f, i - 1), f[i], i)
<1> DEFINE S == {m \in Nat : m <= Len(f) => ScanStates(f)[m] = {At(f, m)}}
<1>1. 0 \in S
  BY AtStart
<1>2. ASSUME NEW m \in Nat, m \in S PROVE m + 1 \in S
  <2> SUFFICES ASSUME m + 1 <= Len(f) PROVE ScanStates(f)[m + 1] = {At(f, m + 1)}
    OBVIOUS
  <2>1. m + 1 \in 1 .. Len(f) /\ (m + 1) - 1 = m /\ ScanStates(f)[m] = {At(f, m)}
    BY <1>2
  <2> QED BY <2>1, AtTurn
<1>3. \A m \in Nat : m \in S
  <2> HIDE DEF S
  <2> QED BY <1>1, <1>2, SetInduction
<1>4. i - 1 \in S
  BY <1>3
<1> QED BY <1>4, AtTurn

\* The first k records decide the first k turns.
LEMMA AtPrefix ==
  ASSUME NEW R, NEW f \in Seq(R), NEW k \in 0 .. Len(f), NEW i \in 0 .. k
  PROVE  At(SubSeq(f, 1, k), i) = At(f, i)
<1> DEFINE g == SubSeq(f, 1, k)
           S == {m \in Nat : m <= k => At(g, m) = At(f, m)}
<1>1. g \in Seq(R) /\ Len(g) = k /\ \A j \in 1 .. k : g[j] = f[j]
  OBVIOUS
<1> HIDE DEF g
<1>2. 0 \in S
  BY <1>1, AtStart
<1>3. ASSUME NEW m \in Nat, m \in S PROVE m + 1 \in S
  <2> SUFFICES ASSUME m + 1 <= k PROVE At(g, m + 1) = At(f, m + 1)
    OBVIOUS
  <2>1. m + 1 \in 1 .. Len(g) /\ m + 1 \in 1 .. Len(f) /\ (m + 1) - 1 = m /\ g[m + 1] = f[m + 1]
        /\ At(g, m) = At(f, m)
    BY <1>1, <1>3
  <2>2. At(g, m + 1) = ScanStep(At(g, m), g[m + 1], m + 1)
    BY <1>1, <2>1, AtStep
  <2>3. At(f, m + 1) = ScanStep(At(f, m), f[m + 1], m + 1)
    BY <2>1, AtStep
  <2> QED BY <2>1, <2>2, <2>3
<1>4. \A m \in Nat : m \in S
  <2> HIDE DEF S
  <2> QED BY <1>2, <1>3, SetInduction
<1> QED BY <1>4 DEF g

---------------------------------------------------------------------------
(* Types *)

Recs == [kind : Kinds, seq : Nat, boot : Nat, ns : Nat, gen : Nat, val : Nat]
Mark == [has : BOOLEAN, seq : Nat]

ScanType ==
  [committed_len : Nat, any_committed : BOOLEAN, ended_clean : BOOLEAN,
   last_seq : Nat, last_txn : Nat, last_boot_id : Nat,
   samples_committed : Nat, records_lost : Nat,
   ring_gen : [NS -> Nat], ring_seq : [NS -> Mark],
   in_batch : BOOLEAN, txn : Nat, samples : Nat, gen : [NS -> Nat], rseq : [NS -> Mark],
   last_kind : Kinds, stop : BOOLEAN]

LEMMA StartType == ScanStart \in ScanType
BY DEF ScanStart, ScanType, NoGen, NoSeq, Mark, Kinds

\* What each kind of turn sets and leaves.
LEMMA BeginTurn ==
  ASSUME NEW a \in ScanType, NEW r \in Recs
  PROVE  LET b == ScanBegin(a, r)
         IN  /\ b \in ScanType /\ b.stop = a.stop
             /\ b.committed_len = a.committed_len /\ b.any_committed = a.any_committed
             /\ b.ended_clean = a.ended_clean /\ b.last_seq = a.last_seq /\ b.last_txn = a.last_txn
             /\ b.last_boot_id = a.last_boot_id /\ b.samples_committed = a.samples_committed
             /\ b.ring_gen = a.ring_gen /\ b.ring_seq = a.ring_seq
             /\ b.in_batch = TRUE /\ b.txn = r.val /\ b.samples = 0
             /\ b.gen = a.ring_gen /\ b.rseq = a.ring_seq /\ b.last_kind = r.kind
BY DEF ScanBegin, ScanType, Recs

CommitSets(a, r, i, b) ==
  /\ b \in ScanType /\ b.stop = a.stop
  /\ b.committed_len = i /\ b.any_committed = TRUE
  /\ b.ended_clean = (a.last_kind = "SHUTDOWN")
  /\ b.last_seq = r.seq /\ b.last_txn = a.txn /\ b.last_boot_id = r.boot
  /\ b.samples_committed = a.samples_committed + a.samples
  /\ b.ring_gen = a.gen /\ b.ring_seq = a.rseq
  /\ b.in_batch = FALSE /\ b.last_kind = r.kind

LEMMA CommitTurn ==
  ASSUME NEW a \in ScanType, NEW r \in Recs, NEW i \in Nat
  PROVE  CommitSets(a, r, i, ScanCommit(a, r, i))
<1>1. EndedClean(a) \in BOOLEAN /\ EndedClean(a) = (a.last_kind = "SHUTDOWN")
  BY DEF EndedClean
<1>2. a.samples_committed + a.samples \in Nat
  BY DEF ScanType
<1> QED BY <1>1, <1>2 DEF ScanCommit, ScanType, Recs, CommitSets

BodySets(a, r, b) ==
  /\ b \in ScanType /\ b.stop = a.stop
  /\ b.committed_len = a.committed_len /\ b.any_committed = a.any_committed
  /\ b.ended_clean = a.ended_clean /\ b.last_seq = a.last_seq /\ b.last_txn = a.last_txn
  /\ b.last_boot_id = a.last_boot_id /\ b.samples_committed = a.samples_committed
  /\ b.ring_gen = a.ring_gen /\ b.ring_seq = a.ring_seq
  /\ b.in_batch = a.in_batch /\ b.txn = a.txn /\ b.last_kind = r.kind
  /\ b.samples = (IF r.kind = "SAMPLE" THEN a.samples + 1 ELSE a.samples)
  /\ \A n \in NS :
       /\ b.gen[n] = IF r.kind = "GEN" /\ r.ns = n THEN r.gen ELSE a.gen[n]
       /\ b.rseq[n] = IF r.kind = "RSEQ" /\ r.ns = n THEN [has |-> TRUE, seq |-> r.val] ELSE a.rseq[n]

LEMMA BodyTurn ==
  ASSUME NEW a \in ScanType, NEW r \in Recs
  PROVE  BodySets(a, r, ScanBody(a, r))
<1> DEFINE k == IF r.kind = "SAMPLE" THEN a.samples + 1 ELSE a.samples
           g == IF r.kind = "GEN" THEN [a.gen EXCEPT ![r.ns] = r.gen] ELSE a.gen
           m == [has |-> TRUE, seq |-> r.val]
           q == IF r.kind = "RSEQ" THEN [a.rseq EXCEPT ![r.ns] = m] ELSE a.rseq
<1>1. a.samples \in Nat /\ a.gen \in [NS -> Nat] /\ a.rseq \in [NS -> Mark]
      /\ r.gen \in Nat /\ m \in Mark /\ r.kind \in Kinds
  BY DEF ScanType, Recs, Mark
<1>2. k \in Nat
  BY <1>1
<1>3. g \in [NS -> Nat] /\ \A n \in NS : g[n] = IF r.kind = "GEN" /\ r.ns = n THEN r.gen ELSE a.gen[n]
  BY <1>1
<1>4. q \in [NS -> Mark] /\ \A n \in NS : q[n] = IF r.kind = "RSEQ" /\ r.ns = n THEN m ELSE a.rseq[n]
  <2> HIDE DEF m
  <2> QED BY <1>1
<1>5. ScanBody(a, r) = [a EXCEPT !.samples = k, !.gen = g, !.rseq = q, !.last_kind = r.kind]
  BY DEF ScanBody
<1> HIDE DEF k, g, q, m
<1>6. LET b == [a EXCEPT !.samples = k, !.gen = g, !.rseq = q, !.last_kind = r.kind]
      IN  /\ b \in ScanType /\ b.stop = a.stop
          /\ b.committed_len = a.committed_len /\ b.any_committed = a.any_committed
          /\ b.ended_clean = a.ended_clean /\ b.last_seq = a.last_seq /\ b.last_txn = a.last_txn
          /\ b.last_boot_id = a.last_boot_id /\ b.samples_committed = a.samples_committed
          /\ b.ring_gen = a.ring_gen /\ b.ring_seq = a.ring_seq
          /\ b.in_batch = a.in_batch /\ b.txn = a.txn /\ b.last_kind = r.kind
          /\ b.samples = k /\ b.gen = g /\ b.rseq = q
  BY <1>1, <1>2, <1>3, <1>4 DEF ScanType
<1> QED BY <1>3, <1>4, <1>5, <1>6 DEF k, m, BodySets

LEMMA StopTurn ==
  ASSUME NEW a \in ScanType
  PROVE  LET b == [a EXCEPT !.stop = TRUE]
         IN  /\ b \in ScanType /\ b.stop = TRUE
             /\ b.committed_len = a.committed_len /\ b.any_committed = a.any_committed
             /\ b.ended_clean = a.ended_clean /\ b.last_seq = a.last_seq /\ b.last_txn = a.last_txn
             /\ b.last_boot_id = a.last_boot_id /\ b.samples_committed = a.samples_committed
             /\ b.ring_gen = a.ring_gen /\ b.ring_seq = a.ring_seq
             /\ b.in_batch = a.in_batch /\ b.txn = a.txn /\ b.samples = a.samples
             /\ b.gen = a.gen /\ b.rseq = a.rseq /\ b.last_kind = a.last_kind
BY DEF ScanType

LEMMA StepType ==
  ASSUME NEW a \in ScanType, NEW r \in Recs, NEW i \in Nat
  PROVE  ScanStep(a, r, i) \in ScanType
BY BeginTurn, CommitTurn, BodyTurn, StopTurn DEF ScanStep, CommitSets, BodySets

LEMMA AtType ==
  ASSUME NEW f \in Seq(Recs), NEW i \in 0 .. Len(f)
  PROVE  At(f, i) \in ScanType
<1> DEFINE S == {m \in Nat : m <= Len(f) => At(f, m) \in ScanType}
<1>1. 0 \in S
  BY AtStart, StartType
<1>2. ASSUME NEW m \in Nat, m \in S PROVE m + 1 \in S
  <2> SUFFICES ASSUME m + 1 <= Len(f) PROVE At(f, m + 1) \in ScanType
    OBVIOUS
  <2>1. m + 1 \in 1 .. Len(f) /\ (m + 1) - 1 = m /\ At(f, m) \in ScanType /\ f[m + 1] \in Recs
    BY <1>2
  <2>2. At(f, m + 1) = ScanStep(At(f, m), f[m + 1], m + 1)
    BY <2>1, AtStep
  <2> QED BY <2>1, <2>2, StepType
<1>3. \A m \in Nat : m \in S
  <2> HIDE DEF S
  <2> QED BY <1>1, <1>2, SetInduction
<1> QED BY <1>3

---------------------------------------------------------------------------
(* Recovery is idempotent *)

\* Two states of the loop report the same committed prefix.
SameReport(a, b) ==
  /\ a.committed_len = b.committed_len /\ a.ended_clean = b.ended_clean
  /\ a.last_seq = b.last_seq /\ a.last_txn = b.last_txn
  /\ a.ring_gen = b.ring_gen /\ a.ring_seq = b.ring_seq

\* A turn leaves the report alone or commits at its own record.
LEMMA ReportTurn ==
  ASSUME NEW a \in ScanType, NEW r \in Recs, NEW i \in Nat
  PROVE  LET b == ScanStep(a, r, i)
         IN  SameReport(b, a) \/ (b.committed_len = i /\ b.in_batch = FALSE)
<1>1. SameReport(a, a)
  BY DEF SameReport
<1>2. SameReport([a EXCEPT !.stop = TRUE], a)
  BY StopTurn DEF SameReport
<1>3. SameReport(ScanBegin(a, r), a)
  BY BeginTurn DEF SameReport
<1>4. SameReport(ScanBody(a, r), a)
  BY BodyTurn DEF SameReport, BodySets
<1>5. ScanCommit(a, r, i).committed_len = i /\ ScanCommit(a, r, i).in_batch = FALSE
  BY CommitTurn DEF CommitSets
<1> QED BY <1>1, <1>2, <1>3, <1>4, <1>5 DEF ScanStep

\* What the loop reports after i records it reported at the last COMMIT, outside a batch.
LEMMA ReportIsOld ==
  ASSUME NEW f \in Seq(Recs), NEW i \in 0 .. Len(f)
  PROVE  LET a == At(f, i)
         IN  /\ a.committed_len \in 0 .. i
             /\ SameReport(At(f, a.committed_len), a)
             /\ At(f, a.committed_len).in_batch = FALSE
<1> DEFINE Old(m) == /\ At(f, m).committed_len \in 0 .. m
                     /\ SameReport(At(f, At(f, m).committed_len), At(f, m))
                     /\ At(f, At(f, m).committed_len).in_batch = FALSE
           S == {m \in Nat : m <= Len(f) => Old(m)}
<1>1. Old(0)
  <2>1. At(f, 0) = ScanStart
    BY AtStart
  <2>2. ScanStart.committed_len = 0 /\ ScanStart.in_batch = FALSE
    BY DEF ScanStart
  <2> QED BY <2>1, <2>2 DEF SameReport
<1>2. ASSUME NEW m \in Nat, m + 1 <= Len(f), Old(m) PROVE Old(m + 1)
  <2> DEFINE a == At(f, m)
             b == At(f, m + 1)
             r == f[m + 1]
  <2>1. m + 1 \in 1 .. Len(f) /\ (m + 1) - 1 = m /\ m \in 0 .. Len(f) /\ r \in Recs
    BY <1>2
  <2>2. b = ScanStep(a, r, m + 1) /\ a \in ScanType
    BY <2>1, AtStep, AtType
  <2>3. SameReport(b, a) \/ (b.committed_len = m + 1 /\ b.in_batch = FALSE)
    <3> HIDE DEF a, b, r
    <3>1. m + 1 \in Nat
      OBVIOUS
    <3> QED BY <2>1, <2>2, <3>1, ReportTurn
  <2>4. CASE SameReport(b, a)
    BY <1>2, <2>4 DEF SameReport
  <2>5. CASE b.committed_len = m + 1 /\ b.in_batch = FALSE
    BY <2>5 DEF SameReport
  <2> QED BY <2>3, <2>4, <2>5
<1> HIDE DEF Old
<1>3. \A m \in Nat : m \in S
  <2>1. 0 \in S /\ \A m \in Nat : m \in S => m + 1 \in S
    BY <1>1, <1>2
  <2> HIDE DEF S
  <2> QED BY <2>1, SetInduction
<1> QED BY <1>3 DEF Old

\* wal_scan's result is the state after the last record, with the open batch counted.
LEMMA ScanIsAt ==
  ASSUME NEW f \in Seq(Recs)
  PROVE  LET a == At(f, Len(f))
             s == Scan(f)
         IN  /\ s.committed_len = a.committed_len /\ s.any_committed = a.any_committed
             /\ s.ended_clean = a.ended_clean /\ s.last_seq = a.last_seq /\ s.last_txn = a.last_txn
             /\ s.last_boot_id = a.last_boot_id /\ s.samples_committed = a.samples_committed
             /\ s.ring_gen = a.ring_gen /\ s.ring_seq = a.ring_seq
             /\ s.records_lost = IF a.in_batch THEN a.samples ELSE 0
<1> DEFINE a == At(f, Len(f))
<1>1. a \in ScanType
  <2>1. Len(f) \in 0 .. Len(f)
    OBVIOUS
  <2> QED BY <2>1, AtType
<1>2. Scan(f) = [a EXCEPT !.records_lost = IF a.in_batch THEN a.samples ELSE 0]
  BY DEF Scan, At
<1> HIDE DEF a
<1> QED BY <1>1, <1>2 DEF ScanType, a

\* For every file, whole or damaged: what recover_segment leaves of it scans to the
\* same report, and there is nothing more to cut or to lose.
THEOREM EveryRecoverySettles == ASSUME NEW f \in Seq(Recs) PROVE Settles(f)
<1> DEFINE a == At(f, Len(f))
           k == a.committed_len
           g == SubSeq(f, 1, k)
<1>1. k \in 0 .. Len(f) /\ SameReport(At(f, k), a) /\ At(f, k).in_batch = FALSE
  <2>1. Len(f) \in 0 .. Len(f)
    OBVIOUS
  <2> QED BY <2>1, ReportIsOld
<1>2. Kept(f) = g
  BY ScanIsAt DEF Kept
<1>3. g \in Seq(Recs) /\ Len(g) = k
  <2> HIDE DEF k
  <2> QED BY <1>1
<1>4. At(g, Len(g)) = At(f, k)
  <2>1. k \in 0 .. k
    BY <1>1
  <2> HIDE DEF k
  <2> QED BY <1>1, <1>3, <2>1, AtPrefix
<1>5. /\ Scan(g).committed_len = At(f, k).committed_len /\ Scan(g).ended_clean = At(f, k).ended_clean
      /\ Scan(g).last_seq = At(f, k).last_seq /\ Scan(g).last_txn = At(f, k).last_txn
      /\ Scan(g).ring_gen = At(f, k).ring_gen /\ Scan(g).ring_seq = At(f, k).ring_seq
      /\ Scan(g).records_lost = 0
  <2> HIDE DEF g, k
  <2> QED BY <1>1, <1>3, <1>4, ScanIsAt
<1>6. /\ Scan(f).committed_len = k /\ Scan(f).ended_clean = a.ended_clean
      /\ Scan(f).last_seq = a.last_seq /\ Scan(f).last_txn = a.last_txn
      /\ Scan(f).ring_gen = a.ring_gen /\ Scan(f).ring_seq = a.ring_seq
  BY ScanIsAt
<1> HIDE DEF a, k, g
<1> QED BY <1>1, <1>2, <1>3, <1>5, <1>6 DEF SameReport, Settles, k

---------------------------------------------------------------------------
(* The committed prefix *)

\* Every one of the first k records is in a whole batch among them.
Whole(f, k) == \A p \in 1 .. k : \E i \in 1 .. p, j \in p .. k : IsBatch(f, i, j)

Plain(r) == r.kind \notin {"BEGIN", "COMMIT", "TORN"}

Samples(f, i, j) == {p \in i .. j : f[p].kind = "SAMPLE"}
Gens(f, k, n)    == {p \in 1 .. k : f[p].kind = "GEN" /\ f[p].ns = n}
Rseqs(f, k, n)   == {p \in 1 .. k : f[p].kind = "RSEQ" /\ f[p].ns = n}
Latest(T)          == Max({0} \cup T)

\* The generation and the ring seq the first k records leave for namespace n.
GenAfter(f, k, n) == LET g == Latest(Gens(f, k, n)) IN IF g = 0 THEN 0 ELSE f[g].gen
SeqAfter(f, k, n) ==
  LET q == Latest(Rseqs(f, k, n))
  IN  [has |-> q > 0, seq |-> IF q = 0 THEN 0 ELSE f[q].val]

\* The last element of a set of positions, as positions are added.
LEMMA LastType == ASSUME NEW k \in Nat, NEW T \in SUBSET (1 .. k) PROVE Latest(T) \in T \cup {0}
<1>1. {0} \cup T \in SUBSET (0 .. k) /\ {0} \cup T # {}
  OBVIOUS
<1> QED BY <1>1, MaxOfNats DEF Latest

LEMMA LastNone == Latest({}) = 0
<1>1. {0} \in SUBSET (0 .. 0)
  OBVIOUS
<1>2. Max({0}) = 0
  BY <1>1, MaxIs
<1> QED BY <1>2 DEF Latest

LEMMA LastAdd == ASSUME NEW k \in Nat, NEW T \in SUBSET (1 .. k) PROVE Latest(T \cup {k + 1}) = k + 1
<1> DEFINE U == {0} \cup (T \cup {k + 1})
<1>1. U \in SUBSET (0 .. (k + 1)) /\ k + 1 \in U /\ \A y \in U : y <= k + 1
  OBVIOUS
<1> HIDE DEF U
<1>2. Max(U) = k + 1
  BY <1>1, MaxIs
<1> QED BY <1>2 DEF Latest, U

\* One more record.
LEMMA GenAfterNext ==
  ASSUME NEW f, NEW k \in Nat, NEW n
  PROVE  GenAfter(f, k + 1, n) = IF f[k + 1].kind = "GEN" /\ f[k + 1].ns = n THEN f[k + 1].gen
                                 ELSE GenAfter(f, k, n)
<1> DEFINE T == Gens(f, k, n)
<1>1. T \in SUBSET (1 .. k)
  BY DEF Gens
<1>2. CASE f[k + 1].kind = "GEN" /\ f[k + 1].ns = n
  <2>1. Gens(f, k + 1, n) = T \cup {k + 1}
    BY <1>2 DEF Gens
  <2> HIDE DEF T
  <2> QED BY <1>1, <1>2, <2>1, LastAdd DEF GenAfter
<1>3. CASE ~(f[k + 1].kind = "GEN" /\ f[k + 1].ns = n)
  <2>1. Gens(f, k + 1, n) = T
    BY <1>3 DEF Gens
  <2> QED BY <1>3, <2>1 DEF GenAfter
<1> QED BY <1>2, <1>3

LEMMA SeqAfterNext ==
  ASSUME NEW f, NEW k \in Nat, NEW n
  PROVE  SeqAfter(f, k + 1, n) = IF f[k + 1].kind = "RSEQ" /\ f[k + 1].ns = n
                                 THEN [has |-> TRUE, seq |-> f[k + 1].val]
                                 ELSE SeqAfter(f, k, n)
<1> DEFINE T == Rseqs(f, k, n)
<1>1. T \in SUBSET (1 .. k)
  BY DEF Rseqs
<1>2. CASE f[k + 1].kind = "RSEQ" /\ f[k + 1].ns = n
  <2>1. Rseqs(f, k + 1, n) = T \cup {k + 1}
    BY <1>2 DEF Rseqs
  <2> HIDE DEF T
  <2>2. Latest(Rseqs(f, k + 1, n)) = k + 1 /\ k + 1 > 0 /\ k + 1 # 0
    BY <1>1, <2>1, LastAdd
  <2> QED BY <1>2, <2>2 DEF SeqAfter
<1>3. CASE ~(f[k + 1].kind = "RSEQ" /\ f[k + 1].ns = n)
  <2>1. Rseqs(f, k + 1, n) = T
    BY <1>3 DEF Rseqs
  <2> QED BY <1>3, <2>1 DEF SeqAfter
<1> QED BY <1>2, <1>3

LEMMA AfterNone == ASSUME NEW f, NEW n PROVE GenAfter(f, 0, n) = 0 /\ SeqAfter(f, 0, n) = [has |-> FALSE, seq |-> 0]
<1>1. Gens(f, 0, n) = {} /\ Rseqs(f, 0, n) = {}
  BY DEF Gens, Rseqs
<1>2. Latest({}) = 0
  BY LastNone
<1>3. GenAfter(f, 0, n) = 0
  BY <1>1, <1>2 DEF GenAfter
<1>4. Latest(Rseqs(f, 0, n)) = 0 /\ (0 > 0) = FALSE
  BY <1>1, <1>2
<1> QED BY <1>3, <1>4 DEF SeqAfter

LEMMA SamplesFinite ==
  ASSUME NEW f, NEW i \in Int, NEW j \in Int
  PROVE  IsFiniteSet(Samples(f, i, j)) /\ Cardinality(Samples(f, i, j)) \in Nat
<1>1. IsFiniteSet(i .. j)
  BY FS_Interval
<1>2. IsFiniteSet(Samples(f, i, j))
  BY <1>1, FS_Subset DEF Samples
<1> QED BY <1>2, FS_CardinalityType

LEMMA SamplesNext ==
  ASSUME NEW f, NEW i \in Int, NEW j \in Int, i <= j + 1
  PROVE  Cardinality(Samples(f, i, j + 1)) =
           IF f[j + 1].kind = "SAMPLE" THEN Cardinality(Samples(f, i, j)) + 1
           ELSE Cardinality(Samples(f, i, j))
<1> DEFINE T == Samples(f, i, j)
<1>1. IsFiniteSet(T) /\ j + 1 \notin T
  BY SamplesFinite DEF Samples
<1>2. Samples(f, i, j + 1) = IF f[j + 1].kind = "SAMPLE" THEN T \cup {j + 1} ELSE T
  BY DEF Samples
<1> HIDE DEF T
<1>3. Cardinality(T \cup {j + 1}) = Cardinality(T) + 1
  BY <1>1, FS_AddElement
<1> QED BY <1>2, <1>3 DEF T

\* What the state of the loop reports, read off the first k records.
Reports(f, k, a) ==
  /\ a.committed_len = k
  /\ Whole(f, k)
  /\ k > 0 => /\ k > 1 /\ f[k].kind = "COMMIT"
              /\ a.last_seq = f[k].seq /\ a.last_txn = f[k].val /\ a.last_boot_id = f[k].boot
  /\ a.any_committed = (k > 0)
  /\ a.ended_clean = (k > 0 /\ f[k - 1].kind = "SHUTDOWN")
  /\ a.samples_committed = Cardinality(Samples(f, 1, k))
  /\ \A n \in NS : /\ a.ring_gen[n] = GenAfter(f, k, n)
                   /\ a.ring_seq[n] = SeqAfter(f, k, n)

\* The batch that is open after e records: it began after the k committed ones.
Opened(f, k, e, a) ==
  /\ e > k
  /\ f[k + 1].kind = "BEGIN" /\ f[k + 1].val = a.txn
  /\ \A p \in k + 2 .. e : Plain(f[p])
  /\ a.samples = Cardinality(Samples(f, k + 2, e))
  /\ \A n \in NS : a.gen[n] = GenAfter(f, e, n) /\ a.rseq[n] = SeqAfter(f, e, n)

\* What the state of the loop says of the first e records, which it has accepted.
Accepted(f, e, a) ==
  /\ a.committed_len \in 0 .. e
  /\ Reports(f, a.committed_len, a)
  /\ IF a.in_batch THEN Opened(f, a.committed_len, e, a) ELSE e = a.committed_len
  /\ e > 0 => a.last_kind = f[e].kind

\* It accepted every record up to i, or all before the one it stopped at.
Follows(f, i, a) ==
  \E e \in 0 .. i : /\ Accepted(f, e, a)
                    /\ IF a.stop THEN e < i /\ ScanBreaks(a, f[e + 1]) ELSE e = i

LEMMA StartFollows == ASSUME NEW f PROVE Follows(f, 0, ScanStart)
<1>1. Samples(f, 1, 0) = {}
  BY DEF Samples
<1>2. Cardinality(Samples(f, 1, 0)) = 0
  BY <1>1, FS_EmptySet
<1>3. \A n \in NS : /\ ScanStart.ring_gen[n] = GenAfter(f, 0, n)
                   /\ ScanStart.ring_seq[n] = SeqAfter(f, 0, n)
  BY AfterNone DEF ScanStart, NoGen, NoSeq
<1>4. /\ ScanStart.committed_len = 0 /\ ScanStart.any_committed = FALSE /\ ScanStart.ended_clean = FALSE
      /\ ScanStart.samples_committed = 0 /\ ScanStart.in_batch = FALSE /\ ScanStart.stop = FALSE
  BY DEF ScanStart
<1>5. Whole(f, 0)
  BY DEF Whole
<1>6. (0 > 0) = FALSE
  OBVIOUS
<1>7. Reports(f, 0, ScanStart)
  BY <1>2, <1>3, <1>4, <1>5, <1>6 DEF Reports
<1>8. Accepted(f, 0, ScanStart)
  BY <1>4, <1>7 DEF Accepted
<1> QED BY <1>4, <1>8 DEF Follows

LEMMA BeginAccepts ==
  ASSUME NEW f, NEW e \in Nat, NEW a \in ScanType, Accepted(f, e, a), NEW r \in Recs, r = f[e + 1],
         r.kind = "BEGIN", ~a.in_batch
  PROVE  Accepted(f, e + 1, ScanBegin(a, r))
<1> DEFINE b == ScanBegin(a, r)
<1>1. e = a.committed_len /\ Reports(f, e, a)
  BY DEF Accepted
<1>2. /\ b.committed_len = a.committed_len /\ b.any_committed = a.any_committed
      /\ b.ended_clean = a.ended_clean /\ b.last_seq = a.last_seq /\ b.last_txn = a.last_txn
      /\ b.last_boot_id = a.last_boot_id /\ b.samples_committed = a.samples_committed
      /\ b.ring_gen = a.ring_gen /\ b.ring_seq = a.ring_seq
      /\ b.in_batch = TRUE /\ b.txn = r.val /\ b.samples = 0
      /\ b.gen = a.ring_gen /\ b.rseq = a.ring_seq /\ b.last_kind = r.kind
  BY BeginTurn
<1> HIDE DEF b
<1>3. Reports(f, e, b)
  BY <1>1, <1>2 DEF Reports
<1>4. Samples(f, e + 2, e + 1) = {} /\ e + 2 .. e + 1 = {} /\ e + 1 > e /\ e \in 0 .. e + 1
  BY DEF Samples
<1>5. Cardinality(Samples(f, e + 2, e + 1)) = 0
  BY <1>4, FS_EmptySet
<1>6. \A n \in NS : GenAfter(f, e + 1, n) = GenAfter(f, e, n) /\ SeqAfter(f, e + 1, n) = SeqAfter(f, e, n)
  BY GenAfterNext, SeqAfterNext
<1>7. \A n \in NS : b.gen[n] = GenAfter(f, e + 1, n) /\ b.rseq[n] = SeqAfter(f, e + 1, n)
  BY <1>1, <1>2, <1>6 DEF Reports
<1>8. Opened(f, e, e + 1, b)
  BY <1>2, <1>4, <1>5, <1>7 DEF Opened
<1>9. Accepted(f, e + 1, b)
  BY <1>1, <1>2, <1>3, <1>4, <1>8 DEF Accepted
<1> QED BY <1>9 DEF b

LEMMA BodyAccepts ==
  ASSUME NEW f, NEW e \in Nat, NEW a \in ScanType, Accepted(f, e, a), NEW r \in Recs, r = f[e + 1],
         Plain(r), a.in_batch
  PROVE  Accepted(f, e + 1, ScanBody(a, r))
<1> DEFINE b == ScanBody(a, r)
           k == a.committed_len
<1>0. BodySets(a, r, b)
  BY BodyTurn
<1>1. /\ b.committed_len = k /\ b.any_committed = a.any_committed
      /\ b.ended_clean = a.ended_clean /\ b.last_seq = a.last_seq /\ b.last_txn = a.last_txn
      /\ b.last_boot_id = a.last_boot_id /\ b.samples_committed = a.samples_committed
      /\ b.ring_gen = a.ring_gen /\ b.ring_seq = a.ring_seq
      /\ b.in_batch = a.in_batch /\ b.txn = a.txn /\ b.last_kind = r.kind
      /\ b.samples = (IF r.kind = "SAMPLE" THEN a.samples + 1 ELSE a.samples)
  BY <1>0 DEF BodySets
<1>2. \A n \in NS :
        /\ b.gen[n] = IF r.kind = "GEN" /\ r.ns = n THEN r.gen ELSE a.gen[n]
        /\ b.rseq[n] = IF r.kind = "RSEQ" /\ r.ns = n THEN [has |-> TRUE, seq |-> r.val] ELSE a.rseq[n]
  BY <1>0 DEF BodySets
<1>3. k \in Nat /\ k <= e /\ Reports(f, k, a) /\ Opened(f, k, e, a)
  BY DEF Accepted
<1> HIDE DEF b, k
<1>4. Reports(f, k, b)
  BY <1>1, <1>3 DEF Reports
<1>5. b.samples = Cardinality(Samples(f, k + 2, e + 1))
  <2>1. k + 2 \in Int /\ e \in Int /\ k + 2 <= e + 1 /\ a.samples = Cardinality(Samples(f, k + 2, e))
    BY <1>3 DEF Opened
  <2>2. Cardinality(Samples(f, k + 2, e + 1)) =
          IF r.kind = "SAMPLE" THEN Cardinality(Samples(f, k + 2, e)) + 1
          ELSE Cardinality(Samples(f, k + 2, e))
    BY <2>1, SamplesNext
  <2> QED BY <1>1, <2>1, <2>2
<1>6. ASSUME NEW n \in NS PROVE b.gen[n] = GenAfter(f, e + 1, n) /\ b.rseq[n] = SeqAfter(f, e + 1, n)
  <2>1. a.gen[n] = GenAfter(f, e, n) /\ a.rseq[n] = SeqAfter(f, e, n)
    BY <1>3 DEF Opened
  <2>2. GenAfter(f, e + 1, n) = IF r.kind = "GEN" /\ r.ns = n THEN r.gen ELSE GenAfter(f, e, n)
    BY GenAfterNext
  <2>3. SeqAfter(f, e + 1, n) = IF r.kind = "RSEQ" /\ r.ns = n THEN [has |-> TRUE, seq |-> r.val]
                                ELSE SeqAfter(f, e, n)
    BY SeqAfterNext
  <2> QED BY <1>2, <2>1, <2>2, <2>3
<1>7. \A p \in k + 2 .. e + 1 : Plain(f[p])
  <2>1. \A p \in k + 2 .. e : Plain(f[p])
    BY <1>3 DEF Opened
  <2>2. \A p \in k + 2 .. e + 1 : p \in k + 2 .. e \/ p = e + 1
    BY <1>3
  <2> QED BY <2>1, <2>2
<1>8. Opened(f, k, e + 1, b)
  <2>1. e > k /\ e + 1 > k /\ f[k + 1].kind = "BEGIN" /\ f[k + 1].val = b.txn
    BY <1>1, <1>3 DEF Opened
  <2> QED BY <1>5, <1>6, <1>7, <2>1 DEF Opened
<1>9. k \in 0 .. e + 1
  BY <1>3
<1>10. Accepted(f, e + 1, b)
  BY <1>1, <1>4, <1>8, <1>9 DEF Accepted
<1> QED BY <1>10 DEF b

LEMMA CommitAccepts ==
  ASSUME NEW f, NEW e \in Nat, NEW a \in ScanType, Accepted(f, e, a), NEW r \in Recs, r = f[e + 1],
         r.kind = "COMMIT", r.val = a.txn, a.in_batch
  PROVE  Accepted(f, e + 1, ScanCommit(a, r, e + 1))
<1> DEFINE b == ScanCommit(a, r, e + 1)
           k == a.committed_len
<1>1. /\ b.committed_len = e + 1 /\ b.any_committed = TRUE
      /\ b.ended_clean = (a.last_kind = "SHUTDOWN")
      /\ b.last_seq = r.seq /\ b.last_txn = a.txn /\ b.last_boot_id = r.boot
      /\ b.samples_committed = a.samples_committed + a.samples
      /\ b.ring_gen = a.gen /\ b.ring_seq = a.rseq
      /\ b.in_batch = FALSE /\ b.last_kind = r.kind
  <2>1. CommitSets(a, r, e + 1, b)
    BY CommitTurn
  <2> HIDE DEF b
  <2> QED BY <2>1 DEF CommitSets
<1>2. k \in Nat /\ k <= e /\ Reports(f, k, a) /\ Opened(f, k, e, a) /\ (e > 0 => a.last_kind = f[e].kind)
  BY DEF Accepted
<1> HIDE DEF b, k
<1>3. /\ e > k /\ Whole(f, k)
      /\ f[k + 1].kind = "BEGIN" /\ f[k + 1].val = a.txn
      /\ \A p \in k + 2 .. e : Plain(f[p])
      /\ a.samples = Cardinality(Samples(f, k + 2, e))
      /\ a.samples_committed = Cardinality(Samples(f, 1, k))
      /\ \A n \in NS : a.gen[n] = GenAfter(f, e, n) /\ a.rseq[n] = SeqAfter(f, e, n)
      /\ a.last_kind = f[e].kind
  BY <1>2 DEF Opened, Reports
<1>4. IsBatch(f, k + 1, e + 1)
  <2>1. k + 1 < e + 1 /\ (k + 1) + 1 = k + 2 /\ (e + 1) - 1 = e
    BY <1>2, <1>3
  <2> QED BY <1>3, <2>1 DEF IsBatch, Plain
<1>5. Whole(f, e + 1)
  <2> SUFFICES ASSUME NEW p \in 1 .. e + 1
               PROVE  \E i \in 1 .. p, j \in p .. e + 1 : IsBatch(f, i, j)
    BY DEF Whole
  <2>1. CASE p <= k
    <3>1. PICK i \in 1 .. p, j \in p .. k : IsBatch(f, i, j)
      BY <1>2, <1>3, <2>1 DEF Whole
    <3>2. j \in p .. e + 1
      BY <1>2, <3>1
    <3> QED BY <3>1, <3>2
  <2>2. CASE p > k
    <3>1. k + 1 \in 1 .. p /\ e + 1 \in p .. e + 1
      BY <1>2, <2>2
    <3> QED BY <1>4, <3>1
  <2> QED BY <1>2, <2>1, <2>2
<1>6. Cardinality(Samples(f, 1, e + 1)) = a.samples_committed + a.samples
  <2> DEFINE S == Samples(f, 1, k)
             T == Samples(f, k + 2, e)
  <2>1. IsFiniteSet(S) /\ IsFiniteSet(T) /\ Cardinality(S) \in Nat /\ Cardinality(T) \in Nat
    <3>1. 1 \in Int /\ k \in Int /\ k + 2 \in Int /\ e \in Int
      BY <1>2
    <3> QED BY <3>1, SamplesFinite
  <2>2. S \cap T = {}
    BY <1>2 DEF Samples
  <2>3. Samples(f, 1, e + 1) = S \cup T
    <3>1. ASSUME NEW p \in 1 .. e + 1, f[p].kind = "SAMPLE" PROVE p \in 1 .. k \/ p \in k + 2 .. e
      BY <1>2, <1>3, <3>1
    <3>2. \A p : p \in 1 .. k \/ p \in k + 2 .. e => p \in 1 .. e + 1
      BY <1>2
    <3> QED BY <3>1, <3>2 DEF Samples
  <2>4. a.samples_committed = Cardinality(S) /\ a.samples = Cardinality(T)
    BY <1>3
  <2> HIDE DEF S, T
  <2>5. Cardinality(S \cup T) = Cardinality(S) + Cardinality(T) - Cardinality(S \cap T)
    BY <2>1, FS_Union
  <2>6. Cardinality(S \cap T) = 0
    BY <2>2, FS_EmptySet
  <2>7. Cardinality(S \cup T) = Cardinality(S) + Cardinality(T)
    BY <2>1, <2>5, <2>6
  <2> QED BY <2>3, <2>4, <2>7
<1>7. \A n \in NS : GenAfter(f, e + 1, n) = GenAfter(f, e, n) /\ SeqAfter(f, e + 1, n) = SeqAfter(f, e, n)
  BY GenAfterNext, SeqAfterNext
<1>8. \A n \in NS : b.ring_gen[n] = GenAfter(f, e + 1, n) /\ b.ring_seq[n] = SeqAfter(f, e + 1, n)
  BY <1>1, <1>3, <1>7
<1>9. e + 1 > 1 /\ (e + 1) - 1 = e /\ (e + 1 > 0) = TRUE /\ e + 1 \in 0 .. e + 1
  BY <1>2, <1>3
<1>10. Reports(f, e + 1, b)
  BY <1>1, <1>3, <1>5, <1>6, <1>8, <1>9 DEF Reports
<1>11. Accepted(f, e + 1, b)
  BY <1>1, <1>9, <1>10 DEF Accepted
<1> QED BY <1>11 DEF b

\* A turn of the loop follows the file one record further.
LEMMA StepFollows ==
  ASSUME NEW f \in Seq(Recs), NEW i \in Nat, i + 1 <= Len(f), NEW a \in ScanType, Follows(f, i, a)
  PROVE  Follows(f, i + 1, ScanStep(a, f[i + 1], i + 1))
<1> DEFINE r == f[i + 1]
           b == ScanStep(a, r, i + 1)
<1>1. PICK e \in 0 .. i : /\ Accepted(f, e, a)
                         /\ IF a.stop THEN e < i /\ ScanBreaks(a, f[e + 1]) ELSE e = i
  BY DEF Follows
<1>2. r \in Recs /\ i + 1 \in Nat
  OBVIOUS
<1> HIDE DEF r
<1>3. CASE a.stop
  BY <1>1, <1>3 DEF ScanStep, Follows
<1>4. CASE ~a.stop /\ ScanBreaks(a, r)
  <2> DEFINE c == [a EXCEPT !.stop = TRUE]
  <2>1. b = c
    BY <1>4 DEF ScanStep
  <2>2. /\ c.stop = TRUE
        /\ c.committed_len = a.committed_len /\ c.any_committed = a.any_committed
        /\ c.ended_clean = a.ended_clean /\ c.last_seq = a.last_seq /\ c.last_txn = a.last_txn
        /\ c.last_boot_id = a.last_boot_id /\ c.samples_committed = a.samples_committed
        /\ c.ring_gen = a.ring_gen /\ c.ring_seq = a.ring_seq
        /\ c.in_batch = a.in_batch /\ c.txn = a.txn /\ c.samples = a.samples
        /\ c.gen = a.gen /\ c.rseq = a.rseq /\ c.last_kind = a.last_kind
    BY StopTurn
  <2> HIDE DEF c
  <2>3. e = i /\ Accepted(f, i, c)
    <3>1. e = i /\ Accepted(f, i, a)
      BY <1>1, <1>4
    <3>2. Reports(f, a.committed_len, c)
      BY <2>2, <3>1 DEF Accepted, Reports
    <3>3. a.in_batch => Opened(f, a.committed_len, i, c)
      BY <2>2, <3>1 DEF Accepted, Opened
    <3> QED BY <2>2, <3>1, <3>2, <3>3 DEF Accepted
  <2>4. ScanBreaks(c, r)
    BY <1>4, <2>2 DEF ScanBreaks
  <2>5. i \in 0 .. i + 1 /\ i < i + 1
    OBVIOUS
  <2>6. Follows(f, i + 1, c)
    BY <2>2, <2>3, <2>4, <2>5 DEF Follows, r
  <2> QED BY <2>1, <2>6 DEF r
<1>5. CASE ~a.stop /\ ~ScanBreaks(a, r)
  <2>1. e = i /\ Accepted(f, i, a) /\ a.stop = FALSE /\ i + 1 \in 0 .. i + 1
    BY <1>1, <1>5 DEF ScanType
  <2>2. CASE r.kind = "BEGIN"
    <3>1. b = ScanBegin(a, r) /\ ~a.in_batch /\ b.stop = a.stop
      BY <1>2, <1>5, <2>2, BeginTurn DEF ScanStep, ScanBreaks
    <3>2. Accepted(f, i + 1, b)
      BY <1>2, <2>1, <2>2, <3>1, BeginAccepts DEF r
    <3> HIDE DEF b
    <3>3. Follows(f, i + 1, b)
      BY <2>1, <3>1, <3>2 DEF Follows
    <3> QED BY <3>3 DEF b, r
  <2>3. CASE r.kind = "COMMIT"
    <3>1. b = ScanCommit(a, r, i + 1) /\ a.in_batch /\ r.val = a.txn /\ b.stop = a.stop
      <4>1. b = ScanCommit(a, r, i + 1) /\ a.in_batch /\ r.val = a.txn
        BY <1>2, <1>5, <2>3 DEF ScanStep, ScanBreaks
      <4>2. CommitSets(a, r, i + 1, ScanCommit(a, r, i + 1))
        BY <1>2, <2>1, CommitTurn
      <4> QED BY <4>1, <4>2 DEF CommitSets
    <3>2. Accepted(f, i + 1, b)
      BY <1>2, <2>1, <2>3, <3>1, CommitAccepts DEF r
    <3> HIDE DEF b
    <3>3. Follows(f, i + 1, b)
      BY <2>1, <3>1, <3>2 DEF Follows
    <3> QED BY <3>3 DEF b, r
  <2>4. CASE r.kind \notin {"BEGIN", "COMMIT"}
    <3>1. b = ScanBody(a, r) /\ a.in_batch /\ Plain(r) /\ b.stop = a.stop
      BY <1>2, <1>5, <2>4, BodyTurn DEF ScanStep, ScanBreaks, Plain, BodySets
    <3>2. Accepted(f, i + 1, b)
      BY <1>2, <2>1, <3>1, BodyAccepts DEF r
    <3> HIDE DEF b
    <3>3. Follows(f, i + 1, b)
      BY <2>1, <3>1, <3>2 DEF Follows
    <3> QED BY <3>3 DEF b, r
  <2> QED BY <2>2, <2>3, <2>4
<1> QED BY <1>3, <1>4, <1>5

LEMMA AtFollows == ASSUME NEW f \in Seq(Recs), NEW i \in 0 .. Len(f) PROVE Follows(f, i, At(f, i))
<1> DEFINE S == {m \in Nat : m <= Len(f) => Follows(f, m, At(f, m))}
<1>1. 0 \in S
  BY AtStart, StartFollows
<1>2. ASSUME NEW m \in Nat, m \in S PROVE m + 1 \in S
  <2> SUFFICES ASSUME m + 1 <= Len(f) PROVE Follows(f, m + 1, At(f, m + 1))
    OBVIOUS
  <2>1. m + 1 \in 1 .. Len(f) /\ (m + 1) - 1 = m /\ m \in 0 .. Len(f) /\ Follows(f, m, At(f, m))
    BY <1>2
  <2>2. At(f, m + 1) = ScanStep(At(f, m), f[m + 1], m + 1) /\ At(f, m) \in ScanType
    BY <2>1, AtStep, AtType
  <2> QED BY <2>1, <2>2, StepFollows
<1>3. \A m \in Nat : m \in S
  <2> HIDE DEF S
  <2> QED BY <1>1, <1>2, SetInduction
<1> QED BY <1>3

\* No whole prefix is longer than the one the loop found.
LEMMA NoneLonger ==
  ASSUME NEW f \in Seq(Recs), NEW a \in ScanType, Follows(f, Len(f), a),
         NEW m \in 0 .. Len(f), Whole(f, m)
  PROVE  m <= a.committed_len
<1> DEFINE k == a.committed_len
<1>1. PICK e \in 0 .. Len(f) : /\ Accepted(f, e, a)
                              /\ IF a.stop THEN e < Len(f) /\ ScanBreaks(a, f[e + 1]) ELSE e = Len(f)
  BY DEF Follows
<1>2. k \in Nat /\ k <= e /\ Reports(f, k, a)
  BY <1>1 DEF Accepted
<1> SUFFICES ASSUME m > k PROVE FALSE
  BY <1>2
<1> HIDE DEF k
<1>3. k + 1 \in 1 .. m /\ k + 1 \in 1 .. Len(f)
  BY <1>2
\* The first record after the committed ones is in a batch [i, j]; the record at k is a
\* COMMIT, so the batch starts there.
<1>4. PICK i \in 1 .. k + 1, j \in k + 1 .. m : IsBatch(f, i, j)
  BY <1>3 DEF Whole
<1>5. i = k + 1
  <2> SUFFICES ASSUME i # k + 1 PROVE FALSE
    OBVIOUS
  <2>1. i <= k /\ k > 0 /\ i \in Nat /\ j \in Nat
    BY <1>2, <1>4
  <2>2. f[k].kind = "COMMIT" /\ f[i].kind = "BEGIN"
    BY <1>2, <1>4, <2>1 DEF Reports, IsBatch
  <2>3. i # k
    BY <2>2
  <2>4. k \in i + 1 .. j - 1
    BY <1>2, <1>4, <2>1, <2>3
  <2> QED BY <1>4, <2>2, <2>4 DEF IsBatch
<1>6. /\ j > k + 1 /\ j <= m /\ j \in Nat
      /\ f[k + 1].kind = "BEGIN" /\ f[j].kind = "COMMIT" /\ f[k + 1].val = f[j].val
      /\ \A p \in k + 2 .. j - 1 : f[p].kind \notin {"BEGIN", "COMMIT", "TORN"}
  <2>1. (k + 1) + 1 = k + 2
    BY <1>2
  <2> QED BY <1>2, <1>4, <1>5, <2>1 DEF IsBatch
<1>7. CASE ~a.in_batch
  <2>1. e = k
    BY <1>1, <1>7 DEF Accepted, k
  <2>2. a.stop
    BY <1>1, <1>3, <2>1
  <2> QED BY <1>1, <1>6, <1>7, <2>1, <2>2 DEF ScanBreaks
<1>8. CASE a.in_batch
  <2>1. e > k /\ f[k + 1].val = a.txn /\ \A p \in k + 2 .. e : Plain(f[p])
    BY <1>1, <1>8 DEF Accepted, Opened, k
  <2>2. j > e
    <3> SUFFICES ASSUME j <= e PROVE FALSE
      BY <1>6
    <3>1. j \in k + 2 .. e
      BY <1>2, <1>6
    <3> QED BY <1>6, <2>1, <3>1 DEF Plain
  <2>3. a.stop /\ ScanBreaks(a, f[e + 1])
    BY <1>1, <1>6, <2>2
  <2>4. e + 1 \in k + 2 .. j
    BY <1>2, <1>6, <2>1, <2>2
  <2>5. CASE e + 1 = j
    BY <1>6, <1>8, <2>1, <2>3, <2>5 DEF ScanBreaks
  <2>6. CASE e + 1 # j
    <3>1. e + 1 \in k + 2 .. j - 1
      BY <1>2, <1>6, <2>4, <2>6
    <3> QED BY <1>6, <1>8, <2>3, <3>1 DEF ScanBreaks
  <2> QED BY <2>5, <2>6
<1> QED BY <1>7, <1>8

\* The samples of the open batch are the ones recovery loses.
LEMMA LostAre ==
  ASSUME NEW f \in Seq(Recs), NEW a \in ScanType, Follows(f, Len(f), a)
  PROVE  LostSamples(f, a.committed_len) = IF a.in_batch THEN a.samples ELSE 0
<1> DEFINE k == a.committed_len
           n == Len(f)
           L == {p \in k + 2 .. n : /\ f[p].kind = "SAMPLE"
                                    /\ \A q \in k + 2 .. p : f[q].kind \notin {"BEGIN", "COMMIT", "TORN"}}
<1>1. PICK e \in 0 .. n : /\ Accepted(f, e, a)
                         /\ IF a.stop THEN e < n /\ ScanBreaks(a, f[e + 1]) ELSE e = n
  BY DEF Follows
<1>2. k \in Nat /\ k <= e /\ n \in Nat /\ DOMAIN f = 1 .. n /\ e <= n /\ e \in Nat
  BY <1>1 DEF Accepted
<1>3. LostSamples(f, k) = IF k + 1 \in 1 .. n /\ f[k + 1].kind = "BEGIN" THEN Cardinality(L) ELSE 0
  BY <1>2 DEF LostSamples
<1> HIDE DEF k, n
<1>4. CASE ~a.in_batch
  <2>1. e = k
    BY <1>1, <1>4 DEF Accepted, k
  <2>2. ~(k + 1 \in 1 .. n /\ f[k + 1].kind = "BEGIN")
    BY <1>1, <1>2, <1>4, <2>1 DEF ScanBreaks
  <2> QED BY <1>3, <1>4, <2>2 DEF k
<1>5. CASE a.in_batch
  <2>1. /\ e > k /\ f[k + 1].kind = "BEGIN" /\ f[k + 1].val = a.txn
        /\ \A p \in k + 2 .. e : Plain(f[p])
        /\ a.samples = Cardinality(Samples(f, k + 2, e))
    BY <1>1, <1>5 DEF Accepted, Opened, k
  <2>2. k + 1 \in 1 .. n
    BY <1>2, <2>1
  <2>3. L = Samples(f, k + 2, e)
    <3>1. ASSUME NEW p \in Samples(f, k + 2, e) PROVE p \in L
      <4>1. p \in k + 2 .. n /\ p \in k + 2 .. e /\ f[p].kind = "SAMPLE"
        BY <1>2 DEF Samples
      <4>2. \A q \in k + 2 .. p : q \in k + 2 .. e
        BY <1>2, <4>1
      <4> QED BY <2>1, <4>1, <4>2 DEF Plain
    <3>2. ASSUME NEW p \in L PROVE p \in k + 2 .. e
      <4> SUFFICES ASSUME p > e PROVE FALSE
        BY <1>2
      <4>1. e + 1 \in k + 2 .. p /\ e < n
        BY <1>2, <2>1
      <4>2. f[e + 1].kind \notin {"BEGIN", "COMMIT", "TORN"}
        BY <4>1
      <4>3. ScanBreaks(a, f[e + 1])
        BY <1>1, <1>2, <4>1
      <4> QED BY <1>5, <4>2, <4>3 DEF ScanBreaks
    <3> QED BY <3>1, <3>2 DEF Samples
  <2> HIDE DEF L
  <2> QED BY <1>3, <1>5, <2>1, <2>2, <2>3 DEF k
<1> QED BY <1>4, <1>5

\* The loop found the longest prefix of whole batches.
LEMMA FoundLongest ==
  ASSUME NEW f \in Seq(Recs), NEW a \in ScanType, Follows(f, Len(f), a)
  PROVE  GoodLength(f) = a.committed_len
<1> DEFINE T == {m \in 0 .. Len(f) : Whole(f, m)}
           k == a.committed_len
<1>1. GoodLength(f) = Max(T)
  BY DEF GoodLength, Whole
<1>2. k \in T
  <2>1. PICK e \in 0 .. Len(f) : Accepted(f, e, a)
    BY DEF Follows
  <2> QED BY <2>1 DEF Accepted, Reports
<1>3. \A m \in T : m <= k
  BY NoneLonger
<1>4. Len(f) \in Nat /\ T \in SUBSET (0 .. Len(f))
  OBVIOUS
<1> HIDE DEF T, k
<1>5. Max(T) = k
  BY <1>2, <1>3, <1>4, MaxIs
<1> QED BY <1>1, <1>5 DEF k

\* For every file, whole or damaged: wal_scan finds the longest prefix of whole batches and
\* reports what those batches say, and nothing of the tail.
THEOREM EveryScanFindsPrefix == ASSUME NEW f \in Seq(Recs) PROVE FindsPrefix(f)
<1> DEFINE a == At(f, Len(f))
           k == a.committed_len
           s == Scan(f)
<1>1. a \in ScanType /\ Follows(f, Len(f), a)
  <2>1. Len(f) \in 0 .. Len(f)
    OBVIOUS
  <2> QED BY <2>1, AtType, AtFollows
<1>2. GoodLength(f) = k /\ LostSamples(f, k) = IF a.in_batch THEN a.samples ELSE 0
  <2> HIDE DEF a
  <2> QED BY <1>1, FoundLongest, LostAre
<1>3. Reports(f, k, a) /\ k \in Nat
  <2> HIDE DEF a
  <2> QED BY <1>1 DEF Follows, Accepted
<1>4. /\ s.committed_len = k /\ s.any_committed = a.any_committed
      /\ s.ended_clean = a.ended_clean /\ s.last_seq = a.last_seq /\ s.last_txn = a.last_txn
      /\ s.last_boot_id = a.last_boot_id /\ s.samples_committed = a.samples_committed
      /\ s.ring_gen = a.ring_gen /\ s.ring_seq = a.ring_seq
      /\ s.records_lost = IF a.in_batch THEN a.samples ELSE 0
  BY ScanIsAt
<1> HIDE DEF a, k, s
<1>5. ASSUME NEW n \in NS
      PROVE  LET g == LastOf(k, LAMBDA p : f[p].kind = "GEN" /\ f[p].ns = n)
                 q == LastOf(k, LAMBDA p : f[p].kind = "RSEQ" /\ f[p].ns = n)
             IN  /\ s.ring_gen[n] = (IF g = 0 THEN 0 ELSE f[g].gen)
                 /\ s.ring_seq[n].has = (q > 0)
                 /\ q > 0 => s.ring_seq[n].seq = f[q].val
  <2> DEFINE g == Latest(Gens(f, k, n))
             q == Latest(Rseqs(f, k, n))
  <2>1. /\ LastOf(k, LAMBDA p : f[p].kind = "GEN" /\ f[p].ns = n) = g
        /\ LastOf(k, LAMBDA p : f[p].kind = "RSEQ" /\ f[p].ns = n) = q
    BY DEF LastOf, Latest, Gens, Rseqs
  <2>2. s.ring_gen[n] = GenAfter(f, k, n) /\ s.ring_seq[n] = SeqAfter(f, k, n)
    BY <1>3, <1>4 DEF Reports
  <2>3. GenAfter(f, k, n) = IF g = 0 THEN 0 ELSE f[g].gen
    BY DEF GenAfter
  <2>4. SeqAfter(f, k, n) = [has |-> q > 0, seq |-> IF q = 0 THEN 0 ELSE f[q].val]
    BY DEF SeqAfter
  <2> HIDE DEF g, q
  <2>5. q > 0 => q # 0
    OBVIOUS
  <2> QED BY <2>1, <2>2, <2>3, <2>4, <2>5
<1>6. /\ s.any_committed = (k > 0)
      /\ s.ended_clean = (k > 0 /\ f[k - 1].kind = "SHUTDOWN")
      /\ k > 0 => s.last_seq = f[k].seq /\ s.last_txn = f[k].val /\ s.last_boot_id = f[k].boot
      /\ s.samples_committed = Cardinality({p \in 1 .. k : f[p].kind = "SAMPLE"})
  BY <1>3, <1>4 DEF Reports, Samples
<1> QED BY <1>2, <1>4, <1>5, <1>6 DEF FindsPrefix, s, k, a

\* wal_scan's result has the type of the loop's state.
LEMMA ScanHasType == ASSUME NEW f \in Seq(Recs) PROVE Scan(f) \in ScanType
<1> DEFINE a == At(f, Len(f))
<1>1. a \in ScanType
  <2>1. Len(f) \in 0 .. Len(f)
    OBVIOUS
  <2> QED BY <2>1, AtType
<1>2. Scan(f) = [a EXCEPT !.records_lost = IF a.in_batch THEN a.samples ELSE 0]
  BY DEF Scan, At
<1> HIDE DEF a
<1>3. (IF a.in_batch THEN a.samples ELSE 0) \in Nat
  BY <1>1 DEF ScanType
<1> QED BY <1>1, <1>2, <1>3 DEF ScanType

---------------------------------------------------------------------------
(* Whole prefixes *)

\* The good length is the longest whole prefix.
LEMMA GoodLengthIs ==
  ASSUME NEW f \in Seq(Recs)
  PROVE  /\ GoodLength(f) \in 0 .. Len(f) /\ Whole(f, GoodLength(f))
         /\ \A m \in 0 .. Len(f) : Whole(f, m) => m <= GoodLength(f)
<1> DEFINE T == {m \in 0 .. Len(f) : Whole(f, m)}
<1>1. GoodLength(f) = Max(T)
  BY DEF GoodLength, Whole
<1>2. 0 \in T
  BY DEF Whole
<1>3. Len(f) \in Nat /\ T \in SUBSET (0 .. Len(f)) /\ T # {}
  BY <1>2
<1> HIDE DEF T
<1>4. Max(T) \in T /\ \A y \in T : y <= Max(T)
  BY <1>3, MaxOfNats
<1> QED BY <1>1, <1>4 DEF T

\* Only the records of a prefix decide whether it is whole.
LEMMA WholeSame ==
  ASSUME NEW f, NEW g, NEW k \in Nat, \A p \in 1 .. k : f[p] = g[p], Whole(f, k)
  PROVE  Whole(g, k)
<1> SUFFICES ASSUME NEW p \in 1 .. k PROVE \E i \in 1 .. p, j \in p .. k : IsBatch(g, i, j)
  BY DEF Whole
<1>1. PICK i \in 1 .. p, j \in p .. k : IsBatch(f, i, j)
  BY DEF Whole
<1>2. i \in 1 .. k /\ j \in 1 .. k /\ \A q \in i + 1 .. j - 1 : q \in 1 .. k
  OBVIOUS
<1>3. IsBatch(g, i, j)
  BY <1>1, <1>2 DEF IsBatch
<1> QED BY <1>3

\* A whole prefix ends with a COMMIT, which its BEGIN precedes.
LEMMA WholeEnds ==
  ASSUME NEW f, NEW k \in Nat, k > 0, Whole(f, k)
  PROVE  k > 1 /\ f[k].kind = "COMMIT"
<1>1. k \in 1 .. k
  OBVIOUS
<1>2. PICK i \in 1 .. k, j \in k .. k : IsBatch(f, i, j)
  BY <1>1 DEF Whole
<1> QED BY <1>2 DEF IsBatch

\* A whole prefix and the batch behind it make a whole prefix.
LEMMA WholeGrows ==
  ASSUME NEW f, NEW k \in Nat, NEW m \in Nat, Whole(f, k), IsBatch(f, k + 1, m)
  PROVE  Whole(f, m)
<1>1. k + 1 < m
  BY DEF IsBatch
<1> SUFFICES ASSUME NEW p \in 1 .. m PROVE \E i \in 1 .. p, j \in p .. m : IsBatch(f, i, j)
  BY DEF Whole
<1>2. CASE p <= k
  <2>1. PICK i \in 1 .. p, j \in p .. k : IsBatch(f, i, j)
    BY <1>2 DEF Whole
  <2>2. j \in p .. m
    BY <1>1, <2>1
  <2> QED BY <2>1, <2>2
<1>3. CASE p > k
  <2>1. k + 1 \in 1 .. p /\ m \in p .. m
    BY <1>3
  <2> QED BY <2>1
<1> QED BY <1>2, <1>3

\* A longer whole prefix goes on with a batch.
LEMMA WholeGoesOn ==
  ASSUME NEW f, NEW k \in Nat, NEW m \in Nat, m > k, Whole(f, k), Whole(f, m)
  PROVE  \E j \in k + 2 .. m : IsBatch(f, k + 1, j)
<1>1. k + 1 \in 1 .. m
  OBVIOUS
<1>2. PICK i \in 1 .. k + 1, j \in k + 1 .. m : IsBatch(f, i, j)
  BY <1>1 DEF Whole
<1>3. i = k + 1
  <2> SUFFICES ASSUME i # k + 1 PROVE FALSE
    OBVIOUS
  <2>1. i <= k /\ k > 0 /\ i \in Nat /\ j \in Nat
    BY <1>2
  <2>2. f[k].kind = "COMMIT" /\ f[i].kind = "BEGIN"
    BY <1>2, <2>1, WholeEnds DEF IsBatch
  <2>3. i # k
    BY <2>2
  <2>4. k \in i + 1 .. j - 1
    BY <1>2, <2>1, <2>3
  <2> QED BY <1>2, <2>2, <2>4 DEF IsBatch
<1>4. j \in k + 2 .. m
  BY <1>2, <1>3 DEF IsBatch
<1> QED BY <1>2, <1>3, <1>4

\* Batch b is being written behind the first k records of f, which are whole: n of its
\* records are in the file and, when h, half of one more.
Writing(f, b, k, n, h) ==
  /\ f \in Seq(Recs) /\ b \in Seq(Recs) /\ IsBatch(b, 1, Len(b)) /\ k \in Nat /\ n \in 0 .. Len(b)
  /\ h \in BOOLEAN /\ (h => n < Len(b) /\ f[Len(f)].kind = "TORN")
  /\ Len(f) = k + n + (IF h THEN 1 ELSE 0) /\ \A p \in 1 .. n : f[k + p] = b[p]
  /\ Whole(f, k)

\* The prefix grows when the last record is in, not before.
LEMMA WholeWhenWritten ==
  ASSUME NEW f, NEW b, NEW k, NEW d, NEW h, Writing(f, b, k, d, h), NEW m \in 0 .. Len(f), m > k, Whole(f, m)
  PROVE  m = Len(f) /\ d = Len(b) /\ ~h
<1> USE DEF Writing
<1>1. m \in Nat
  OBVIOUS
<1>2. PICK j \in k + 2 .. m : IsBatch(f, k + 1, j)
  BY <1>1, WholeGoesOn
<1>3. f[j].kind = "COMMIT" /\ j \in k + 2 .. Len(f)
  BY <1>2 DEF IsBatch
<1>4. ~(h /\ j = Len(f))
  BY <1>3
<1>5. j - k \in 2 .. d /\ j = k + (j - k)
  BY <1>3, <1>4
<1>6. b[j - k].kind = "COMMIT"
  BY <1>3, <1>5
<1>7. j - k = Len(b)
  <2> SUFFICES ASSUME j - k # Len(b) PROVE FALSE
    OBVIOUS
  <2>1. d \in 0 .. Len(b) /\ Len(b) \in Nat
    OBVIOUS
  <2>2. j - k \in 1 + 1 .. Len(b) - 1
    <3> DEFINE q == j - k
               c == Len(b)
    <3>1. q \in 2 .. d /\ d \in 0 .. c /\ c \in Nat /\ q # c
      BY <1>5, <2>1
    <3> HIDE DEF q, c, Writing
    <3>2. q \in 1 + 1 .. c - 1
      BY <3>1
    <3> QED BY <3>2 DEF q, c
  <2> QED BY <1>6, <2>2 DEF IsBatch
<1>8. d = Len(b)
  <2>1. d \in 0 .. Len(b) /\ Len(b) \in Nat
    OBVIOUS
  <2> QED BY <1>5, <1>7, <2>1
<1>9. ~h
  BY <1>8
<1>10. m = Len(f)
  <2>1. Len(f) = k + Len(b)
    BY <1>8, <1>9
  <2> QED BY <1>1, <1>2, <1>5, <1>7, <2>1
<1> QED BY <1>8, <1>9, <1>10

\* And then it does grow.
LEMMA WrittenIsWhole ==
  ASSUME NEW f \in Seq(Recs), NEW b \in Seq(Recs), IsBatch(b, 1, Len(b)), NEW k \in Nat,
         Len(f) = k + Len(b), \A p \in 1 .. Len(b) : f[k + p] = b[p], Whole(f, k)
  PROVE  Whole(f, Len(f))
<1>1. Len(b) \in Nat /\ 1 < Len(b) /\ b[1].kind = "BEGIN" /\ b[Len(b)].kind = "COMMIT"
      /\ b[1].val = b[Len(b)].val /\ \A p \in 2 .. Len(b) - 1 : b[p].kind \notin {"BEGIN", "COMMIT", "TORN"}
  <2>1. Len(b) \in Nat /\ 1 + 1 = 2
    OBVIOUS
  <2> DEFINE n == Len(b)
  <2>2. /\ 1 < n /\ b[1].kind = "BEGIN" /\ b[n].kind = "COMMIT" /\ b[1].val = b[n].val
        /\ \A p \in 1 + 1 .. n - 1 : b[p].kind \notin {"BEGIN", "COMMIT", "TORN"}
    BY Zenon DEF IsBatch
  <2> HIDE DEF n
  <2>3. \A p \in 2 .. n - 1 : b[p].kind \notin {"BEGIN", "COMMIT", "TORN"}
    BY <2>1, <2>2
  <2> QED BY <2>1, <2>2, <2>3 DEF n
<1>2. f[k + 1] = b[1] /\ f[Len(f)] = b[Len(b)]
  <2>1. 1 \in 1 .. Len(b) /\ Len(b) \in 1 .. Len(b)
    BY <1>1
  <2> QED BY <2>1
<1>3. ASSUME NEW p \in (k + 1) + 1 .. Len(f) - 1 PROVE f[p].kind \notin {"BEGIN", "COMMIT", "TORN"}
  <2>1. p - k \in 2 .. Len(b) - 1 /\ p = k + (p - k)
    BY <1>1
  <2>2. f[p] = b[p - k]
    BY <2>1
  <2> QED BY <1>1, <2>1, <2>2
<1>4. IsBatch(f, k + 1, Len(f))
  BY <1>1, <1>2, <1>3 DEF IsBatch
<1>5. Len(f) \in Nat
  OBVIOUS
<1> QED BY <1>4, <1>5, WholeGrows
=============================================================================
