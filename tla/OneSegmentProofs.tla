-------------------------- MODULE OneSegmentProofs --------------------------
(***************************************************************************)
(* What storaged promises as long as its log is in one segment: boots      *)
(* count up, a clean stop is reported and whole, a failed batch leaves no  *)
(* trace, no sample is logged twice, and, while the power stays on, the    *)
(* log has the samples of every ring as Recorder has them.                 *)
(***************************************************************************)
EXTENDS StoragedProofs

---------------------------------------------------------------------------
(* The log before the first segment is full: one file *)

\* No segment has filled up: create_segment has only been called by wal_open, for the first one.
Unrolled == wpc = "create" => disk = <<>>

\* The only segment's records, and what recovery would keep of them.
File(d)    == IF Len(d) = 0 THEN <<>> ELSE d[Len(d)].recs
CardLog(d) == Kept(File(d))

\* The committed records the process counts on, in the log's order.
Sure(d, x) == IF x.fd = 0 THEN CardLog(d) ELSE SubSeq(File(d), 1, x.seg_bytes)
SureNow    == Sure(disk, w)

\* The system calls of wal_commit on a batch, and those of wal_open in front of the boot batch.
Sealing == {"write", "fsync", "undo"}
Opening == {"create", "dirsync", "cut", "cutsync"}

\* There is one segment at most, and a call in progress is the one main waits for.
OneInv ==
  /\ Len(disk) <= 1
  /\ wpc \in Calls
  /\ wpc \in Opening => pc = "opening"
  /\ wpc # "idle" => \/ pc = "opening" /\ wop = "open"
                     \/ pc \in {"gen_wait", "commit_wait", "stop_wait"} /\ wop = "commit"
                     \/ pc = "closing" /\ wop = "shut"
  /\ pc \in {"note_gen", "release", "stop_release"} => w.open_batch = FALSE

LEMMA FileType == ASSUME NEW d \in Seq(Segs) PROVE File(d) \in Seq(Recs)
<1>1. CASE Len(d) = 0
  BY <1>1 DEF File
<1>2. CASE Len(d) # 0
  <2>1. Len(d) \in 1 .. Len(d)
    BY <1>2
  <2>2. d[Len(d)] \in Segs
    BY <2>1
  <2> QED BY <1>2, <2>2 DEF File, Segs
<1> QED BY <1>1, <1>2

\* What recovery keeps of a file.
LEMMA CardIsPrefix ==
  ASSUME NEW d \in Seq(Segs)
  PROVE  LET f == File(d)
             k == GoodLength(f)
         IN  /\ CardLog(d) \in Seq(Recs) /\ CardLog(d) = SubSeq(f, 1, k) /\ Len(CardLog(d)) = k
             /\ k \in 0 .. Len(f) /\ Whole(f, k)
             /\ \A p \in 1 .. k : CardLog(d)[p] = f[p]
<1> DEFINE f == File(d)
           k == GoodLength(f)
<1>1. f \in Seq(Recs)
  BY FileType
<1> HIDE DEF f
<1>2. Kept(f) \in Seq(Recs) /\ Len(Kept(f)) = k /\ k \in 0 .. Len(f) /\ Whole(f, k) /\ \A p \in 1 .. k : Kept(f)[p] = f[p]
  BY <1>1, KeptIs
<1>3. Kept(f) = SubSeq(f, 1, k)
  <2>1. SubSeq(f, 1, k) \in Seq(Recs) /\ Len(SubSeq(f, 1, k)) = k /\ \A p \in 1 .. k : SubSeq(f, 1, k)[p] = f[p]
    BY <1>1, <1>2
  <2> DEFINE a == Kept(f)
             b == SubSeq(f, 1, k)
  <2>2. a \in Seq(Recs) /\ b \in Seq(Recs) /\ Len(a) = Len(b) /\ \A p \in 1 .. Len(a) : a[p] = b[p]
    BY <1>2, <2>1
  <2> HIDE DEF a, b
  <2>3. a = b
    BY <2>2
  <2> QED BY <2>3 DEF a, b
<1> QED BY <1>2, <1>3 DEF CardLog, f

\* One sequence behind another.
LEMMA CatIs ==
  ASSUME NEW R, NEW a \in Seq(R), NEW b \in Seq(R)
  PROVE  /\ a \o b \in Seq(R) /\ Len(a \o b) = Len(a) + Len(b)
         /\ \A p \in 1 .. Len(a) : (a \o b)[p] = a[p]
         /\ \A p \in 1 .. Len(b) : (a \o b)[Len(a) + p] = b[p]
OBVIOUS

LEMMA SplitIs ==
  ASSUME NEW R, NEW f \in Seq(R), NEW b \in Seq(R), NEW k \in Nat, Len(f) = k + Len(b),
         \A p \in 1 .. Len(b) : f[k + p] = b[p]
  PROVE  f = SubSeq(f, 1, k) \o b
<1> DEFINE a == SubSeq(f, 1, k)
           c == a \o b
           n == Len(b)
           l == Len(f)
<1>1. n \in Nat /\ l = k + n
  OBVIOUS
<1>2. a \in Seq(R) /\ Len(a) = k /\ \A p \in 1 .. k : a[p] = f[p]
  BY <1>1
<1> HIDE DEF a
<1>3. c \in Seq(R) /\ Len(c) = k + n /\ (\A p \in 1 .. k : c[p] = a[p]) /\ \A p \in 1 .. n : c[k + p] = b[p]
  <2>1. c \in Seq(R) /\ Len(c) = Len(a) + n
    BY <1>2, CatIs
  <2>1a. \A p \in 1 .. Len(a) : c[p] = a[p]
    BY <1>2, CatIs
  <2>1b. \A p \in 1 .. n : c[Len(a) + p] = b[p]
    BY <1>2, CatIs
  <2> HIDE DEF c, n
  <2> QED BY <1>2, <2>1, <2>1a, <2>1b
<1>4. \A p \in 1 .. n : f[k + p] = b[p]
  OBVIOUS
<1> HIDE DEF c, n
<1>5. ASSUME NEW p \in 1 .. l PROVE f[p] = c[p]
  <2>1. p \in 1 .. k \/ p - k \in 1 .. n
    BY <1>1
  <2>2. CASE p \in 1 .. k
    BY <1>2, <1>3, <2>2
  <2>3. CASE p - k \in 1 .. n
    <3>1. p = k + (p - k)
      BY <1>1
    <3> QED BY <1>3, <1>4, <2>3, <3>1
  <2> QED BY <2>1, <2>2, <2>3
<1>6. f = c
  BY <1>1, <1>3, <1>5
<1> QED BY <1>6 DEF c, a

\* The log is what recovery keeps of the one segment.
LEMMA LogIsCard == ASSUME disk \in Seq(Segs), Len(disk) <= 1 PROVE Log = CardLog(disk)
<1>1. PICK F : IsJoin(KeptOf(disk), Len(disk), F) /\ Log = F[Len(disk)]
  BY LogIs
<1>2. Len(disk) \in Nat
  OBVIOUS
<1>3. F[0] = <<>> /\ \A i \in 1 .. Len(disk) : F[i] = F[i - 1] \o KeptOf(disk)[i]
  BY <1>1, <1>2, JoinIs
<1>4. CardLog(disk) \in Seq(Recs) /\ Len(CardLog(disk)) \in 0 .. Len(File(disk))
  BY CardIsPrefix
<1>5. CASE Len(disk) = 0
  <2>1. Len(File(disk)) = 0
    BY <1>5 DEF File
  <2>2. CardLog(disk) = <<>>
    BY <1>4, <2>1
  <2>3. Log = F[0]
    BY <1>1, <1>5, Zenon
  <2> QED BY <1>3, <2>2, <2>3
<1>6. CASE Len(disk) = 1
  <2>1. F[1] = F[0] \o KeptOf(disk)[1]
    <3>1. 1 \in 1 .. Len(disk) /\ 1 - 1 = 0
      BY <1>6
    <3> QED BY <1>3, <3>1
  <2>2. KeptOf(disk)[1] = CardLog(disk)
    BY <1>6 DEF KeptOf, CardLog, File
  <2>3. <<>> \o CardLog(disk) = CardLog(disk)
    BY <1>4
  <2> QED BY <1>1, <1>3, <1>6, <2>1, <2>2, <2>3
<1>7. Len(disk) = 0 \/ Len(disk) = 1
  <2> DEFINE l == Len(disk)
  <2>1. l \in Nat /\ l <= 1
    BY <1>2
  <2> HIDE DEF l
  <2>2. l = 0 \/ l = 1
    BY <2>1
  <2> QED BY <2>2 DEF l
<1> QED BY <1>5, <1>6, <1>7, Zenon

\* The segment is open at its end: what is acknowledged is all recovery would keep.
LEMMA EndIsSure ==
  ASSUME NEW d, DiskOK(d), NEW x \in WType, Placed(d, x), x.fd # 0 => x.seg_bytes = GoodLength(File(d))
  PROVE  Sure(d, x) = CardLog(d)
<1> SUFFICES ASSUME x.fd # 0 PROVE Sure(d, x) = CardLog(d)
  BY DEF Sure
<1>1. d \in Seq(Segs)
  BY DEF DiskOK
<1> QED BY <1>1, CardIsPrefix DEF Sure

\* Nothing of the batch is in the file.
LEMMA UnwrittenIsSure ==
  ASSUME NEW d, DiskOK(d), NEW x \in WType, Placed(d, x), OnCard(d, x), x.done = 0, x.half = FALSE
  PROVE  Sure(d, x) = CardLog(d)
<1> SUFFICES ASSUME x.fd # 0 PROVE x.seg_bytes = GoodLength(File(d))
  BY EndIsSure
<1> DEFINE f == d[Len(d)].recs
<1>2. d \in Seq(Segs) /\ Len(d) \in Nat /\ x.fd = Len(d) /\ x.fd \in Nat /\ x.seg_bytes \in Nat
  BY DEF DiskOK, Placed, WType
<1>3. Len(d) > 0 /\ d[Len(d)] \in Segs
  BY <1>2
<1>4. f \in Seq(Recs) /\ File(d) = f
  BY <1>3 DEF Segs, File
<1>5. Len(f) = x.seg_bytes + x.done + (IF x.half THEN 1 ELSE 0) /\ Whole(f, x.seg_bytes)
  BY <1>2 DEF OnCard, Placed
<1>6. Len(f) = x.seg_bytes
  BY <1>2, <1>5
<1>7. GoodLength(f) = x.seg_bytes
  BY <1>4, <1>5, <1>6, WholeLength
<1> QED BY <1>4, <1>7

LEMMA ReadyIsSure == ASSUME NEW d, DiskOK(d), NEW x, Ready(d, x) PROVE Sure(d, x) = CardLog(d)
BY UnwrittenIsSure DEF Ready, Filling

\* While a batch is on its way the card holds it or not, and in front of the fsync it does.
LEMMA SealedIsSure ==
  ASSUME NEW d, DiskOK(d), NEW x, Sealed(d, x)
  PROVE  /\ Sure(d, x) \in Seq(Recs)
         /\ CardLog(d) = Sure(d, x) \/ CardLog(d) = Sure(d, x) \o x.buf
         /\ x.fd # 0 /\ x.done = Len(x.buf) /\ x.half = FALSE =>
              CardLog(d) = Sure(d, x) \o x.buf /\ File(d) = CardLog(d)
<1>0. d \in Seq(Segs)
  BY DEF DiskOK
<1> DEFINE f == File(d)
           b == x.buf
           k == x.seg_bytes
           m == GoodLength(f)
<1>1. CASE x.fd = 0
  BY <1>0, <1>1, CardIsPrefix DEF Sure
<1>2. CASE x.fd # 0
  <2>1. x.fd = Len(d) /\ Len(d) > 0 /\ Writing(f, b, k, x.done, x.half)
    BY <1>2, SealedIs DEF File
  <2>2. /\ f \in Seq(Recs) /\ b \in Seq(Recs) /\ k \in Nat /\ x.done \in 0 .. Len(b) /\ Whole(f, k)
        /\ Len(f) = k + x.done + (IF x.half THEN 1 ELSE 0) /\ x.half \in BOOLEAN /\ IsBatch(b, 1, Len(b))
        /\ \A p \in 1 .. x.done : f[k + p] = b[p]
    BY <2>1 DEF Writing
  <2>3. m \in 0 .. Len(f) /\ Whole(f, m) /\ \A q \in 0 .. Len(f) : Whole(f, q) => q <= m
    BY <2>2, GoodLengthIs
  <2>4. CardLog(d) = SubSeq(f, 1, m)
    BY <1>0, CardIsPrefix
  <2>5. Sure(d, x) = SubSeq(f, 1, k)
    BY <1>2 DEF Sure
  <2>6. Len(f) \in Nat /\ Len(b) \in Nat
    BY <2>2
  <2> HIDE DEF f, k, m, b
  <2>7. k \in 0 .. Len(f) /\ k <= m
    BY <2>2, <2>3, <2>6
  <2>8. SubSeq(f, 1, k) \in Seq(Recs)
    BY <2>2, <2>7
  <2>9. ASSUME x.done = Len(b), x.half = FALSE PROVE m = Len(f) /\ SubSeq(f, 1, m) = SubSeq(f, 1, k) \o b /\ SubSeq(f, 1, m) = f
    <3>0. (IF x.half THEN 1 ELSE 0) = 0 /\ \A p \in 1 .. Len(b) : f[k + p] = b[p]
      BY <2>2, <2>9
    <3>1. Len(f) = k + Len(b)
      <4> DEFINE l == Len(f)
                 n == Len(b)
                 h == IF x.half THEN 1 ELSE 0
      <4>1. l = k + n + h /\ h = 0 /\ l \in Nat /\ n \in Nat /\ k \in Nat
        BY <2>2, <2>6, <2>9, <3>0
      <4> HIDE DEF l, n, h
      <4>2. l = k + n
        BY <4>1
      <4> QED BY <4>2 DEF l, n
    <3>2. Whole(f, Len(f))
      BY <2>2, <3>0, <3>1, WrittenIsWhole
    <3>3. m = Len(f)
      BY <2>2, <3>2, WholeLength DEF m
    <3>4. SubSeq(f, 1, m) = f
      BY <2>2, <3>3
    <3>5. f = SubSeq(f, 1, k) \o b
      BY <2>2, <3>0, <3>1, SplitIs
    <3> QED BY <3>3, <3>4, <3>5
  <2>9a. ASSUME x.done = Len(b), x.half = FALSE PROVE m > k
    <3>1. 1 < Len(b) /\ m = Len(f) /\ SubSeq(f, 1, m) = SubSeq(f, 1, k) \o b /\ SubSeq(f, 1, m) = f
      BY <2>2, <2>9, <2>9a DEF IsBatch
    <3> DEFINE a == SubSeq(f, 1, k)
    <3>2. Len(a) = k /\ a \in Seq(Recs)
      BY <2>2, <2>7
    <3>3. Len(a \o b) = Len(a) + Len(b) /\ f = a \o b
      <4> HIDE DEF a
      <4> QED BY <2>2, <3>1, <3>2, CatIs DEF a
    <3>4. Len(f) = k + Len(b)
      BY <3>2, <3>3, Zenon
    <3> QED BY <2>2, <2>6, <3>1, <3>4
  <2>10. CASE m = k
    <3>1. ASSUME x.done = Len(b), x.half = FALSE PROVE FALSE
      <4>1. m > k
        BY <2>9a, <3>1
      <4> QED BY <2>2, <2>10, <4>1
    <3> QED BY <2>4, <2>5, <2>8, <2>10, <3>1 DEF b
  <2>11. CASE m > k
    <3>1. m = Len(f) /\ x.done = Len(b) /\ ~x.half
      BY <2>1, <2>3, <2>11, WholeWhenWritten DEF f, b, k
    <3>2. x.half = FALSE
      BY <2>2, <3>1
    <3>3. SubSeq(f, 1, m) = SubSeq(f, 1, k) \o b /\ SubSeq(f, 1, m) = f
      BY <2>9, <3>1, <3>2
    <3>4. CardLog(d) = Sure(d, x) \o x.buf /\ CardLog(d) = File(d)
      BY <2>4, <2>5, <3>3 DEF b, f
    <3>5. Sure(d, x) \in Seq(Recs)
      BY <2>5, <2>8
    <3> QED BY <3>4, <3>5, Zenon
  <2>12. m = k \/ m > k
    BY <2>2, <2>3, <2>6, <2>7
  <2> QED BY <2>10, <2>11, <2>12, Zenon
<1> QED BY <1>1, <1>2

---------------------------------------------------------------------------
(* What a system call does to the one file *)

\* A batch of one record, made in this boot, between BEGIN and COMMIT.
Triple(b, boot, kind, ns, gen) ==
  /\ b \in Seq(Recs) /\ Len(b) = 3 /\ b[1].kind = "BEGIN" /\ b[3].kind = "COMMIT"
  /\ b[2].kind = kind /\ b[2].ns = ns /\ b[2].gen = gen
  /\ \A p \in 1 .. 3 : b[p].boot = boot

\* The call in progress goes on; wal_open comes to its boot batch; the batch is accepted; the call fails.
GoesOn ==
  /\ SureNow' = SureNow /\ w'.buf = w.buf /\ wret' = "none" /\ wop' = wop
  /\ (wpc \in Sealing /\ wpc' \in Sealing) \/ (wpc \in Opening /\ wpc' \in Opening)
BootsNow ==
  /\ SureNow' = SureNow /\ wret' = "none" /\ wop' = "open" /\ wpc \in Opening /\ wpc' = "write"
  /\ Triple(w'.buf, w.boot_id, "BOOT", 0, 0)
Accepts ==
  /\ SureNow' = SureNow \o w.buf /\ File(disk') = SureNow' /\ w'.buf = <<>> /\ wret' = "ok" /\ wpc' = "idle"
  /\ wpc \in Sealing
GivesUp ==
  SureNow' = SureNow /\ w'.buf = <<>> /\ wret' = "fail" /\ wpc' = "idle"

SeqMoves ==
  /\ SameScan(w, w') /\ Len(disk') <= 1
  /\ GoesOn \/ BootsNow \/ Accepts \/ GivesUp

\* COMMIT makes such a batch of y, which is x with one record added.
SealsOne(x, y, kind, ns, gen) ==
  LET z == AppendRec(y, "COMMIT", 0, 0, y.next_txn)
  IN  /\ Triple(z.buf, x.boot_id, kind, ns, gen)
      /\ SameScan(x, z) /\ z.done = 0 /\ z.half = FALSE /\ z \in WType /\ y.open_batch = TRUE

LEMMA TripleIs ==
  ASSUME NEW x, NoBatch(x), NEW kind \in Kinds \ {"BEGIN", "COMMIT", "TORN"},
         NEW ns \in Nat, NEW gen \in Nat, NEW val \in Nat
  PROVE  SealsOne(x, WalAdd(x, kind, ns, gen, val), kind, ns, gen)
<1> DEFINE u == OpenBatch(x)
           y == WalAdd(x, kind, ns, gen, val)
           z == AppendRec(y, "COMMIT", 0, 0, y.next_txn)
           r == Rec(kind, u.next_seq, u.boot_id, ns, gen, val)
           t == Rec("COMMIT", y.next_seq, y.boot_id, 0, 0, y.next_txn)
<1>1. Filling(x) /\ ~x.open_batch
  BY DEF NoBatch
<1>2. Filling(u) /\ SameLog(x, u) /\ Len(u.buf) = 1 /\ Begun(u) /\ Numbered(u) /\ u \in WType
  BY <1>1, OpenBatchIs DEF Filling
<1>3. Adds1(u, y, r) /\ r.kind = kind /\ r.ns = ns /\ r.gen = gen
  BY <1>1, WalAddIs
<1>4. Filling(y) /\ y \in WType /\ SameLog(u, y) /\ Numbered(y) /\ y.open_batch = TRUE /\ y.done = 0 /\ y.half = FALSE
  BY <1>3 DEF Adds1, Filling
<1> HIDE DEF u, r, y
<1>5. y.next_seq \in Nat /\ y.boot_id \in Nat /\ y.next_txn \in Nat /\ y.buf \in Seq(Recs) /\ u.buf \in Seq(Recs)
  BY <1>2, <1>4 DEF WType
<1>6. Len(y.buf) = 2 /\ y.buf[2].kind = kind /\ y.buf[2].ns = ns /\ y.buf[2].gen = gen /\ y.buf[1].kind = "BEGIN"
  <2>1. Len(y.buf) = Len(u.buf) + 1 /\ y.buf[Len(y.buf)] = r /\ \A p \in 1 .. Len(u.buf) : y.buf[p] = u.buf[p]
    BY <1>3 DEF Adds1
  <2>2. Len(y.buf) = 2 /\ y.buf[2] = r /\ y.buf[1] = u.buf[1]
    BY <1>2, <2>1
  <2> QED BY <1>2, <1>3, <2>2 DEF Begun
<1>7. y.buf[1].boot = x.boot_id /\ y.buf[2].boot = x.boot_id /\ y.boot_id = x.boot_id
  BY <1>2, <1>4, <1>6 DEF Numbered, SameLog
<1>8. t \in Recs /\ t.kind = "COMMIT" /\ t.boot = y.boot_id /\ "COMMIT" \in Kinds
  BY <1>5 DEF Rec, Recs, Kinds
<1>9. Appended(y, z, t)
  BY <1>4, <1>5, <1>8, AppendRecIs
<1> HIDE DEF t, z
<1>10. z \in WType /\ SameLog(y, z) /\ z.buf = Append(y.buf, t)
  BY <1>9 DEF Appended
<1>11. /\ z.buf \in Seq(Recs) /\ Len(z.buf) = 3 /\ z.buf[3] = t /\ z.buf[1] = y.buf[1] /\ z.buf[2] = y.buf[2]
  <2> DEFINE b == y.buf
             c == z.buf
  <2>1. b \in Seq(Recs) /\ Len(b) = 2 /\ c = Append(b, t)
    BY <1>5, <1>6, <1>10
  <2> HIDE DEF b, c
  <2>2. c \in Seq(Recs) /\ Len(c) = Len(b) + 1 /\ c[Len(b) + 1] = t /\ \A p \in 1 .. Len(b) : c[p] = b[p]
    <3>1. b \in Seq(Recs) /\ t \in Recs /\ c = Append(b, t)
      BY <1>8, <2>1
    <3> QED BY <3>1
  <2>3. 1 \in 1 .. Len(b) /\ 2 \in 1 .. Len(b) /\ Len(b) + 1 = 3
    BY <2>1
  <2>4. c \in Seq(Recs) /\ Len(c) = 3 /\ c[3] = t /\ c[1] = b[1] /\ c[2] = b[2]
    BY <2>2, <2>3
  <2> QED BY <2>4 DEF b, c
<1>12. Triple(z.buf, x.boot_id, kind, ns, gen)
  <2>1. \A p \in 1 .. 3 : z.buf[p].boot = x.boot_id
    <3>1. \A p \in 1 .. 3 : p = 1 \/ p = 2 \/ p = 3
      OBVIOUS
    <3> QED BY <1>7, <1>8, <1>11, <3>1
  <2> QED BY <1>6, <1>8, <1>11, <2>1 DEF Triple
<1>13. SameScan(x, z)
  BY <1>2, <1>4, <1>10 DEF SameLog, SameScan
<1> QED BY <1>4, <1>10, <1>12, <1>13 DEF SameLog, SealsOne, y, z

\* A call that has just begun to write, or has none to make, counts on all that is on the card.
LEMMA StartIsSure ==
  ASSUME WalInv', wpc' \in Sealing \cup {"idle"}, w'.done = 0, w'.half = FALSE
  PROVE  SureNow' = CardLog(disk')
<1>1. DiskOK(disk') /\ w' \in WType /\ Placed(disk', w') /\ OnCard(disk', w')
  BY DEF WalInv, WalOK, Sealing, Ready, Sealed, Filling, Filled
<1> QED BY <1>1, UnwrittenIsSure DEF SureNow

LEMMA IdleIsSure == ASSUME WalInv, wpc = "idle" PROVE SureNow = CardLog(disk)
BY ReadyIsSure DEF SureNow, WalInv, WalOK

LEMMA IdleIsSureNext == ASSUME WalInv', wpc' = "idle" PROVE SureNow' = CardLog(disk')
BY ReadyIsSure DEF SureNow, WalInv, WalOK

\* wal_commit is back in its caller, but in wal_close on its way to the SHUTDOWN batch.
LEMMA BackIs ==
  ASSUME NEW x, NoBatch(x), NEW res, Committed(x, res), wop \in {"open", "commit", "shut"}
  PROVE  wpc' = "idle" /\ wret' = res /\ w'.buf = <<>> /\ SameScan(x, w')
<1>1. Return(x, res) \/ Return([x EXCEPT !.fd = 0], res)
  BY DEF Committed
<1>2. x \in WType /\ x.buf = <<>>
  BY DEF NoBatch, Filling
<1>3. [x EXCEPT !.fd = 0].buf = <<>> /\ SameScan(x, [x EXCEPT !.fd = 0])
  BY <1>2, ScanKept DEF WType
<1> QED BY <1>1, <1>2, <1>3 DEF Return, SameScan

LEMMA SameSure ==
  ASSUME NEW f \in Seq(Recs), NEW g \in Seq(Recs), NEW k \in Nat, k <= Len(f), k <= Len(g),
         \A p \in 1 .. k : g[p] = f[p]
  PROVE  SubSeq(g, 1, k) = SubSeq(f, 1, k)
<1> DEFINE a == SubSeq(g, 1, k)
           b == SubSeq(f, 1, k)
<1>1. a \in Seq(Recs) /\ Len(a) = k /\ \A p \in 1 .. k : a[p] = g[p]
  OBVIOUS
<1>2. b \in Seq(Recs) /\ Len(b) = k /\ \A p \in 1 .. k : b[p] = f[p]
  OBVIOUS
<1> HIDE DEF a, b
<1>3. a = b
  BY <1>1, <1>2
<1> QED BY <1>3 DEF a, b

\* The file a segment change leaves.
LEMMA NewestFile ==
  ASSUME NEW d \in Seq(Segs), Len(d) > 0, NEW g \in Segs
  PROVE  LET e == [d EXCEPT ![Len(d)] = g] IN File(e) = g.recs /\ Len(e) = Len(d) /\ e \in Seq(Segs)
<1> DEFINE e == [d EXCEPT ![Len(d)] = g]
<1>1. Len(d) \in 1 .. Len(d) /\ Len(d) \in Nat
  OBVIOUS
<1>2. e \in Seq(Segs) /\ Len(e) = Len(d) /\ e[Len(d)] = g
  BY <1>1
<1> HIDE DEF e
<1> QED BY <1>1, <1>2 DEF File, e

LEMMA SameFilesFile == ASSUME NEW d, NEW e, d \in Seq(Segs), SameFiles(d, e) PROVE File(e) = File(d)
<1>1. Len(e) = Len(d) /\ Len(d) \in Nat
  BY DEF SameFiles
<1>2. CASE Len(d) = 0
  BY <1>1, <1>2 DEF File
<1>3. CASE Len(d) # 0
  <2>1. Len(d) \in 1 .. Len(d)
    BY <1>1, <1>3
  <2> QED BY <1>1, <1>3, <2>1 DEF File, SameFiles
<1> QED BY <1>2, <1>3

\* A file cut back to n records that are whole.
CutIs(d, e, n) ==
  Len(e) = Len(d) /\ CardLog(e) = SubSeq(File(d), 1, n) /\ File(e) = SubSeq(File(d), 1, n)

LEMMA CutFile ==
  ASSUME NEW d \in Seq(Segs), Len(d) > 0, NEW n \in Nat, n <= Len(d[Len(d)].recs), NEW e, CutTo(d, e, n)
  PROVE  CutIs(d, e, n)
<1> DEFINE f == d[Len(d)].recs
           g == e[Len(d)].recs
<1>1. Len(e) = Len(d) /\ Len(g) = n /\ Whole(g, n) /\ (\A p \in 1 .. n : g[p] = f[p]) /\ e \in Seq(Segs)
  BY DEF CutTo, DiskOK
<1>2. Len(d) \in 1 .. Len(d) /\ Len(d) \in Nat
  OBVIOUS
<1>3. d[Len(d)] \in Segs /\ e[Len(d)] \in Segs
  BY <1>1, <1>2
<1>4. f \in Seq(Recs) /\ g \in Seq(Recs) /\ File(d) = f /\ File(e) = g
  BY <1>1, <1>2, <1>3 DEF Segs, File
<1>5. n <= Len(f)
  OBVIOUS
<1> HIDE DEF f, g
<1>6. SubSeq(g, 1, n) = SubSeq(f, 1, n)
  BY <1>1, <1>4, <1>5, SameSure
<1>7. SubSeq(g, 1, n) = g
  BY <1>1, <1>4
<1>8. GoodLength(g) = n
  BY <1>1, <1>4, WholeLength
<1>9. CardLog(e) = SubSeq(g, 1, n)
  BY <1>1, <1>4, <1>8, CardIsPrefix
<1> QED BY <1>1, <1>4, <1>6, <1>7, <1>9 DEF CutIs

LEMMA WriteSeq == ASSUME WalInv, OneInv, Write PROVE SeqMoves
<1> DEFINE a == disk[Len(disk)]
           k == w.seg_bytes
<1>1. DiskOK(disk) /\ Sealed(disk, w) /\ w.fd # 0 /\ wpc = "write" /\ wret = "none"
  BY DEF WalInv, WalOK, Write
<1>2. w.fd = Len(disk) /\ Len(disk) > 0 /\ a \in Segs /\ Writing(a.recs, w.buf, k, w.done, w.half) /\ w \in WType
      /\ disk \in Seq(Segs)
  BY Zenon, <1>1, SealedIs DEF Sealed, Filled, DiskOK
<1>3. PICK m \in w.done .. Len(w.buf), j \in BOOLEAN :
        /\ j => m < Len(w.buf)
        /\ disk' = [disk EXCEPT ![w.fd].recs =
                      SubSeq(@, 1, Len(@) - (IF w.half THEN 1 ELSE 0))
                        \o SubSeq(w.buf, w.done + 1, m)
                        \o (IF j THEN <<Torn>> ELSE <<>>)]
        /\ w' = [w EXCEPT !.done = m, !.half = j]
  BY DEF Write
<1>3a. wpc' \in {"fsync", "write"} /\ wop' = wop /\ wret' = wret
  BY DEF Write
<1> DEFINE g == NewFile(a.recs, w.buf, w.done, w.half, m, j)
           b == [a EXCEPT !.recs = g]
<1>4. /\ a.recs \in Seq(Recs) /\ w.buf \in Seq(Recs) /\ k \in Nat /\ w.done \in 0 .. Len(w.buf) /\ w.half \in BOOLEAN
      /\ Len(a.recs) = k + w.done + (IF w.half THEN 1 ELSE 0) /\ Whole(a.recs, k)
      /\ \A p \in 1 .. w.done : a.recs[k + p] = w.buf[p]
  BY <1>2 DEF Writing
<1>5. /\ g \in Seq(Recs) /\ Len(g) = k + m + (IF j THEN 1 ELSE 0)
      /\ \A p \in 1 .. k + w.done : g[p] = a.recs[p]
  <2>1. Wrote(a.recs, g, w.buf, k, w.done, m, j)
    BY <1>3, <1>4, WriteFile
  <2> QED BY <2>1 DEF Wrote
<1>6. disk' = [disk EXCEPT ![Len(disk)] = b]
  BY <1>2, <1>3 DEF NewFile
<1> HIDE DEF g
<1>7. b \in Segs /\ b.recs = g
  BY <1>2, <1>5 DEF Segs
<1>8. (\A p \in 1 .. k : g[p] = a.recs[p]) /\ k <= Len(g) /\ k <= Len(a.recs)
  <2>1. \A p \in 1 .. k : p \in 1 .. k + w.done
    BY <1>4
  <2>2. k <= Len(g)
    <3>1. m \in Nat
      BY <1>4
    <3> QED BY <1>4, <1>5, <3>1
  <2>3. k <= Len(a.recs)
    BY <1>4
  <2> QED BY <1>5, <2>1, <2>2, <2>3
<1> HIDE DEF b
<1>9. w'.fd = w.fd /\ w'.seg_bytes = k /\ w'.buf = w.buf /\ SameScan(w, w')
  BY <1>2, <1>3 DEF WType, SameScan
<1>10. File(disk') = g /\ Len(disk') = Len(disk) /\ File(disk) = a.recs
  BY <1>2, <1>6, <1>7, NewestFile DEF File
<1>11. SureNow' = SureNow
  <2>1. SubSeq(g, 1, k) = SubSeq(a.recs, 1, k)
    BY <1>4, <1>5, <1>8, SameSure
  <2> QED BY <1>1, <1>9, <1>10, <2>1 DEF SureNow, Sure
<1>12. Len(disk') <= 1
  BY <1>10 DEF OneInv
<1> QED BY <1>1, <1>3a, <1>9, <1>11, <1>12 DEF SeqMoves, GoesOn, Sealing

LEMMA FailsSeq == ASSUME WalInv, OneInv, WriteFails \/ FsyncFails PROVE SeqMoves
<1>1. wpc \in Sealing /\ wpc' = "undo" /\ UNCHANGED <<disk, w, wop, wret>>
  BY DEF WriteFails, FsyncFails, Sealing
<1>2. wret = "none"
  BY <1>1 DEF WalInv, WalOK, Sealing
<1> QED BY <1>1, <1>2 DEF SeqMoves, GoesOn, Sealing, SureNow, OneInv, SameScan

LEMMA FsyncSeq == ASSUME WalInv, WalInv', OneInv, Unrolled', Fsync PROVE SeqMoves
<1> DEFINE x == Accept(w)
<1>1. DiskOK(disk) /\ Sealed(disk, w) /\ w.fd # 0 /\ w.done = Len(w.buf) /\ w.half = FALSE /\ wpc = "fsync" /\ w \in WType
      /\ disk \in Seq(Segs)
  BY DEF WalInv, WalOK, Fsync, Sealed, Filled, DiskOK
<1>2. w.fd = Len(disk) /\ Len(disk) > 0 /\ Len(disk) \in Nat
  BY <1>1, SealedIs
<1>3. SameFiles(disk, disk')
  <2>1. Len(disk) \in 1 .. Len(disk) /\ disk' = [disk EXCEPT ![Len(disk)].synced = Len(disk[Len(disk)].recs)]
    BY <1>2 DEF Fsync
  <2> QED BY <1>1, <2>1, SyncIs
<1>4. Len(disk') = Len(disk) /\ File(disk') = File(disk)
  BY <1>1, <1>3, SameFilesFile DEF SameFiles
<1>5. ~(x.seg_bytes >= SegmentRecords)
  <2>1. wpc' # "create"
    <3>1. disk' # <<>>
      BY <1>2, <1>4
    <3> QED BY <3>1 DEF Unrolled
  <2> QED BY <2>1 DEF Fsync
<1>6. Committed(x, "ok")
  BY <1>5 DEF Fsync
<1>7. NoBatch(x) /\ SameScan(w, x)
  BY <1>1, AcceptIs, ScanKept
<1>8. wop \in {"open", "commit", "shut"}
  BY <1>1 DEF OneInv
<1> HIDE DEF x
<1>9. wpc' = "idle" /\ wret' = "ok" /\ w'.buf = <<>> /\ SameScan(x, w')
  BY <1>6, <1>7, <1>8, BackIs
<1>10. SureNow' = CardLog(disk')
  BY <1>9, IdleIsSureNext
<1>11. CardLog(disk') = SureNow \o w.buf /\ File(disk') = CardLog(disk')
  BY <1>1, <1>4, SealedIsSure DEF CardLog, SureNow
<1> QED BY <1>1, <1>4, <1>7, <1>9, <1>10, <1>11 DEF SeqMoves, Accepts, SameScan, OneInv, Sealing

LEMMA UndoSeq == ASSUME WalInv, WalInv', OneInv, Undo PROVE SeqMoves
<1> DEFINE a == disk[Len(disk)]
           x == DropBatch(w)
           k == w.seg_bytes
<1>1. DiskOK(disk) /\ Sealed(disk, w) /\ w.fd # 0 /\ w \in WType /\ disk \in Seq(Segs) /\ wpc = "undo"
  BY DEF WalInv, WalOK, Undo, Sealed, Filled, DiskOK
<1>2. w.fd = Len(disk) /\ Len(disk) > 0 /\ k <= Len(a.recs) /\ k \in Nat /\ Whole(a.recs, k)
      /\ Len(disk) \in Nat /\ a \in Segs
  BY <1>1, SealedIs DEF Writing
<1>3. disk' = [disk EXCEPT ![Len(disk)] = Truncate(@, k)]
  BY <1>2 DEF Undo
<1>4. CutTo(disk, disk', k)
  BY <1>1, <1>2, <1>3, TruncateIs
<1>5. NoBatch(x) /\ SameScan(w, x)
  BY <1>1, DropIs, ScanKept
<1>6. Committed(x, "fail") /\ wop \in {"open", "commit", "shut"}
  BY <1>1 DEF Undo, OneInv
<1> HIDE DEF x
<1>7. wpc' = "idle" /\ wret' = "fail" /\ w'.buf = <<>> /\ SameScan(x, w')
  BY <1>5, <1>6, BackIs
<1>8. SureNow' = CardLog(disk')
  BY <1>7, IdleIsSureNext
<1>9. Len(disk') = Len(disk) /\ CardLog(disk') = SubSeq(a.recs, 1, k)
  <2>1. CutIs(disk, disk', k)
    BY <1>1, <1>2, <1>4, CutFile
  <2> QED BY <1>2, <2>1 DEF CutIs, File
<1>10. SureNow = SubSeq(a.recs, 1, k)
  BY <1>1, <1>2 DEF SureNow, Sure, File
<1> QED BY <1>5, <1>7, <1>8, <1>9, <1>10 DEF SeqMoves, GivesUp, SameScan, OneInv

LEMMA UndoFailsSeq == ASSUME WalInv, WalInv', OneInv, UndoFails, "undo" \notin Accidents PROVE SeqMoves
<1> DEFINE x == DropBatch(w)
<1>1. w.fd = 0 /\ disk' = disk /\ Committed(x, "fail") /\ w \in WType /\ wpc = "undo"
  BY DEF WalInv, WalOK, UndoFails, Befalls, Sealed, Filled
<1>2. NoBatch(x) /\ SameScan(w, x)
  BY <1>1, DropIs, ScanKept
<1>3. wop \in {"open", "commit", "shut"}
  BY <1>1 DEF OneInv
<1> HIDE DEF x
<1>4. wpc' = "idle" /\ wret' = "fail" /\ w'.buf = <<>> /\ SameScan(x, w')
  BY <1>1, <1>2, <1>3, BackIs
<1>5. SureNow' = CardLog(disk') /\ SureNow = CardLog(disk)
  BY <1>1, <1>4, IdleIsSureNext DEF SureNow, Sure
<1> QED BY <1>1, <1>2, <1>4, <1>5 DEF SeqMoves, GivesUp, SameScan, OneInv

LEMMA CreateSeq == ASSUME WalInv, OneInv, Unrolled, Create PROVE SeqMoves
<1>1. wpc = "create" /\ wpc' = "dirsync" /\ w' = w /\ wop' = wop /\ wret' = wret /\ disk = <<>>
      /\ disk' = Append(disk, Segment(w.next_seq)) /\ w.fd = 0 /\ wret = "none"
  BY DEF Create, Unrolled, WalInv, WalOK
<1>2. Len(disk') = 1 /\ disk'[1] = Segment(w.next_seq)
  BY <1>1
<1>3. File(disk') = <<>> /\ File(disk) = <<>>
  BY <1>1, <1>2 DEF File, Segment
<1>4. SureNow' = SureNow
  BY <1>1, <1>3 DEF SureNow, Sure, CardLog
<1> QED BY <1>1, <1>2, <1>4 DEF SeqMoves, GoesOn, SameScan, Opening

LEMMA NotMadeSeq == ASSUME WalInv, WalInv', OneInv, CreateFails \/ DirSyncFails PROVE SeqMoves
<1>1. wpc \in {"create", "dirsync"} /\ Committed(w, "fail") /\ disk' = disk
  BY DEF CreateFails, DirSyncFails
<1>2. NoBatch(w) /\ w.fd = 0 /\ wop \in {"open", "commit", "shut"}
  BY <1>1 DEF WalInv, WalOK, OneInv
<1>3. wpc' = "idle" /\ wret' = "fail" /\ w'.buf = <<>> /\ SameScan(w, w')
  BY <1>1, <1>2, BackIs
<1>5. SureNow' = CardLog(disk') /\ SureNow = CardLog(disk)
  BY <1>2, <1>3, IdleIsSureNext DEF SureNow, Sure
<1> QED BY <1>1, <1>3, <1>5 DEF SeqMoves, GivesUp, OneInv

\* wal_open comes to its boot batch.
LEMMA BootSeq ==
  ASSUME WalInv', NEW x, NoBatch(x), StartBoot(x)
  PROVE  /\ wpc' = "write" /\ wret' = "none" /\ wop' = "open" /\ SameScan(x, w')
         /\ Triple(w'.buf, x.boot_id, "BOOT", 0, 0) /\ SureNow' = CardLog(disk')
<1> DEFINE y == WalAdd(x, "BOOT", 0, 0, x.prev_end)
           z == AppendRec(y, "COMMIT", 0, 0, y.next_txn)
<1>1. "BOOT" \in Kinds \ {"BEGIN", "COMMIT", "TORN"} /\ x.prev_end \in Nat
  BY DEF Kinds, NoBatch, Filling, WType
<1>2. w' = z /\ wop' = "open" /\ wpc' = "write" /\ wret' = "none"
  BY DEF StartBoot, StartCommit
<1>3. Triple(z.buf, x.boot_id, "BOOT", 0, 0) /\ SameScan(x, z) /\ z.done = 0 /\ z.half = FALSE
  <2>1. SealsOne(x, y, "BOOT", 0, 0)
    BY <1>1, TripleIs
  <2> QED BY <2>1 DEF SealsOne
<1> HIDE DEF y, z
<1>4. SureNow' = CardLog(disk')
  BY <1>2, <1>3, StartIsSure DEF Sealing
<1> QED BY <1>2, <1>3, <1>4

LEMMA DirSyncSeq == ASSUME WalInv, WalInv', OneInv, DirSync PROVE SeqMoves
<1> DEFINE x == [w EXCEPT !.fd = Len(disk), !.seg_bytes = 0]
<1>1. wpc = "dirsync" /\ NoBatch(w) /\ w.fd = 0 /\ Len(disk) > 0 /\ DiskOK(disk) /\ disk \in Seq(Segs)
  BY DEF WalInv, WalOK, Fresh, DirSync, DiskOK
<1>2. Len(disk) = 1
  <2> DEFINE l == Len(disk)
  <2>1. l \in Nat /\ l <= 1 /\ l > 0
    BY <1>1 DEF OneInv
  <2> HIDE DEF l
  <2>2. l = 1
    BY <2>1
  <2> QED BY <2>2 DEF l
<1>3. StartBoot(x)
  BY <1>2 DEF DirSync
<1>4. NoBatch(x) /\ SameScan(w, x)
  <2> DEFINE l == Len(disk)
  <2>1. l \in Nat
    BY <1>2
  <2>2. x = [w EXCEPT !.fd = l, !.seg_bytes = 0]
    OBVIOUS
  <2> HIDE DEF l, x
  <2> QED BY <1>1, <2>1, <2>2 DEF NoBatch, Filling, WType, SameScan
<1>5. SameFiles(disk, disk')
  BY <1>1, DirSyncIs DEF DirSync
<1>6. CardLog(disk') = CardLog(disk) /\ Len(disk') = Len(disk)
  BY <1>1, <1>5, SameFilesFile DEF CardLog, SameFiles
<1> HIDE DEF x
<1>7. /\ wpc' = "write" /\ wret' = "none" /\ wop' = "open" /\ SameScan(x, w')
      /\ Triple(w'.buf, x.boot_id, "BOOT", 0, 0) /\ SureNow' = CardLog(disk')
  BY <1>3, <1>4, BootSeq
<1>8. SureNow = CardLog(disk)
  BY <1>1 DEF SureNow, Sure
<1> QED BY <1>1, <1>2, <1>4, <1>6, <1>7, <1>8 DEF SeqMoves, BootsNow, SameScan, Opening

\* In front of the cut and of its fsync, all that recovery keeps is counted on.
LEMMA CutSure ==
  ASSUME NEW d, NEW x, NEW at \in {"cut", "cutsync"}, NEW res, WalOK(d, x, at, res)
  PROVE  Sure(d, x) = CardLog(d) /\ NoBatch(x) /\ DiskOK(d) /\ x \in WType /\ res = "none"
<1>1. DiskOK(d) /\ NoBatch(x) /\ x.fd # 0 /\ Placed(d, x) /\ x \in WType /\ res = "none"
  BY DEF WalOK, NoBatch, Filling
<1>2. CASE at = "cut"
  <2>1. x.seg_bytes = GoodLength(File(d))
    <3>1. x.seg_bytes = GoodLength(d[x.fd].recs) /\ x.fd = Len(d) /\ x.fd # 0
      BY <1>1, <1>2 DEF WalOK, Placed
    <3> QED BY <3>1 DEF File
  <2> QED BY <1>1, <2>1, EndIsSure
<1>3. CASE at = "cutsync"
  <2>1. OnCard(d, x) /\ x.done = 0 /\ x.half = FALSE
    BY <1>1, <1>3 DEF WalOK, NoBatch, Filling
  <2> QED BY <1>1, <2>1, UnwrittenIsSure
<1> QED BY <1>1, <1>2, <1>3

LEMMA CutIsSure ==
  ASSUME WalInv, wpc \in {"cut", "cutsync"}
  PROVE  SureNow = CardLog(disk) /\ NoBatch(w) /\ DiskOK(disk) /\ w \in WType /\ wret = "none"
BY CutSure DEF WalInv, SureNow

LEMMA CutIsSureNext == ASSUME WalInv', wpc' \in {"cut", "cutsync"} PROVE SureNow' = CardLog(disk')
BY CutSure DEF WalInv, SureNow

LEMMA CutTailSeq == ASSUME WalInv, OneInv, CutTail PROVE SeqMoves
<1> DEFINE a == disk[Len(disk)]
           k == w.seg_bytes
<1>1. wpc = "cut" /\ wpc' = "cutsync" /\ w' = w /\ wop' = wop /\ wret' = wret
      /\ disk' = [disk EXCEPT ![w.fd] = Truncate(@, w.seg_bytes)]
  BY DEF CutTail
<1>2. DiskOK(disk) /\ w \in WType /\ wret = "none"
  BY <1>1, CutIsSure
<1>3. w.fd # 0 /\ w.fd = Len(disk) /\ k <= Len(a.recs) /\ Whole(a.recs, k) /\ disk \in Seq(Segs) /\ k \in Nat
  BY <1>1, <1>2 DEF WalInv, WalOK, Placed, DiskOK, WType
<1>4. Len(disk) \in Nat /\ Len(disk) > 0
  BY <1>3
<1>5. CutTo(disk, disk', k)
  BY <1>1, <1>2, <1>3, <1>4, TruncateIs
<1>6. CutIs(disk, disk', k)
  BY <1>3, <1>4, <1>5, CutFile
<1>7. a \in Segs
  <2>1. Len(disk) \in 1 .. Len(disk)
    BY <1>4
  <2> QED BY <1>3, <2>1
<1>8. SureNow' = SureNow
  <2> DEFINE f == a.recs
             g == SubSeq(f, 1, k)
  <2>1. f \in Seq(Recs) /\ k <= Len(f) /\ k \in Nat
    BY <1>3, <1>7 DEF Segs
  <2>2. SubSeq(g, 1, k) = g
    <3> HIDE DEF f, k
    <3>1. g \in Seq(Recs) /\ Len(g) = k
      BY <2>1
    <3> HIDE DEF g
    <3> QED BY <3>1
  <2>3. File(disk) = f /\ File(disk') = g
    BY <1>4, <1>6 DEF CutIs, File
  <2> QED BY <1>1, <1>3, <2>2, <2>3 DEF SureNow, Sure
<1> QED BY <1>1, <1>2, <1>6, <1>8 DEF SeqMoves, GoesOn, SameScan, Opening, CutIs, OneInv

LEMMA CutSyncSeq == ASSUME WalInv, WalInv', OneInv, CutSync PROVE SeqMoves
<1>1. wpc = "cutsync" /\ StartBoot(w) /\ disk' = [disk EXCEPT ![w.fd].synced = Len(disk[w.fd].recs)]
  BY DEF CutSync
<1>2. SureNow = CardLog(disk) /\ NoBatch(w) /\ DiskOK(disk) /\ w \in WType
  BY <1>1, CutIsSure
<1>3. w.fd # 0 /\ w.fd = Len(disk) /\ disk \in Seq(Segs) /\ w.fd \in Nat
  BY <1>1, <1>2 DEF WalInv, WalOK, Placed, DiskOK, WType
<1>4. SameFiles(disk, disk')
  <2>1. w.fd \in 1 .. Len(disk)
    BY <1>3
  <2> QED BY <1>1, <1>3, <2>1, SyncIs
<1>5. CardLog(disk') = CardLog(disk) /\ Len(disk') = Len(disk)
  BY <1>3, <1>4, SameFilesFile DEF CardLog, SameFiles
<1>6. /\ wpc' = "write" /\ wret' = "none" /\ wop' = "open" /\ SameScan(w, w')
      /\ Triple(w'.buf, w.boot_id, "BOOT", 0, 0) /\ SureNow' = CardLog(disk')
  BY <1>1, <1>2, BootSeq
<1> QED BY <1>1, <1>2, <1>5, <1>6 DEF SeqMoves, BootsNow, Opening, OneInv

LEMMA CutFailsSeq == ASSUME WalInv, WalInv', OneInv, CutFails PROVE SeqMoves
<1>1. wpc \in {"cut", "cutsync"} /\ Return([w EXCEPT !.fd = 0], "fail") /\ disk' = disk
  BY DEF CutFails
<1>2. SureNow = CardLog(disk) /\ NoBatch(w) /\ w \in WType
  BY <1>1, CutIsSure
<1>3. w' = [w EXCEPT !.fd = 0] /\ wpc' = "idle" /\ wret' = "fail"
  BY <1>1 DEF Return
<1>4. w'.buf = <<>> /\ SameScan(w, w')
  BY <1>2, <1>3, ScanKept DEF NoBatch, Filling, WType
<1>5. SureNow' = CardLog(disk')
  BY <1>3, IdleIsSureNext
<1> QED BY <1>1, <1>2, <1>3, <1>4, <1>5 DEF SeqMoves, GivesUp, OneInv

LEMMA WalStepSeq ==
  ASSUME WalInv, WalInv', OneInv, Unrolled, Unrolled', WalStep, "undo" \notin Accidents
  PROVE  SeqMoves
BY WriteSeq, FailsSeq, FsyncSeq, UndoSeq, UndoFailsSeq, CreateSeq, NotMadeSeq, DirSyncSeq, CutTailSeq, CutSyncSeq,
   CutFailsSeq DEF WalStep

---------------------------------------------------------------------------
(* What main's steps do to it *)

\* The batch of z is that of x and e behind it.
Extended(x, z, e) == e \in Seq(Recs) /\ z.buf = x.buf \o e

\* What wal_add leaves: BEGIN if it is needed, and one record.
ExtendsBy(x, z, kind, ns, val) ==
  /\ Filling(z) /\ SameLog(x, z)
  /\ \E e : /\ Extended(x, z, e) /\ Len(e) > 0
            /\ e[Len(e)].kind = kind /\ e[Len(e)].ns = ns /\ e[Len(e)].val = val
            /\ \A p \in 1 .. Len(e) - 1 : e[p].kind = "BEGIN"

\* f is a with e behind it.
TailOf(f, a, e) == f = a \o e /\ Len(e) = Len(f) - Len(a) /\ \A p \in 1 .. Len(f) - Len(a) : e[p] = f[Len(a) + p]

LEMMA TailIs ==
  ASSUME NEW R, NEW f \in Seq(R), NEW a \in Seq(R), Len(a) <= Len(f), \A p \in 1 .. Len(a) : f[p] = a[p]
  PROVE  \E e \in Seq(R) : TailOf(f, a, e)
<1> DEFINE k == Len(a)
           l == Len(f)
           n == l - k
           e == [p \in 1 .. n |-> f[k + p]]
<1>1. k \in Nat /\ l \in Nat /\ n \in Nat /\ l = k + n
  OBVIOUS
<1>2. e \in Seq(R) /\ Len(e) = n /\ \A p \in 1 .. n : e[p] = f[k + p]
  <2>1. ASSUME NEW p \in 1 .. n PROVE f[k + p] \in R
    <3>1. k + p \in 1 .. l
      BY <1>1
    <3> QED BY <3>1
  <2>2. e \in [1 .. n -> R]
    BY <2>1
  <2>3. Len(e) = n
    <3> HIDE DEF n
    <3> QED BY <1>1
  <2> HIDE DEF n
  <2> QED BY <1>1, <2>2, <2>3
<1> HIDE DEF e
<1>3. \A p \in 1 .. Len(e) : f[k + p] = e[p]
  BY <1>2
<1>4. Len(f) = k + Len(e)
  BY <1>1, <1>2
<1>5. f = SubSeq(f, 1, k) \o e
  BY Zenon, <1>1, <1>2, <1>3, <1>4, SplitIs
<1>6. SubSeq(f, 1, k) = a
  <2> DEFINE b == SubSeq(f, 1, k)
  <2>1. b \in Seq(R) /\ Len(b) = k /\ \A p \in 1 .. k : b[p] = f[p]
    BY <1>1
  <2> HIDE DEF b
  <2>2. b = a
    BY <2>1
  <2> QED BY <2>2 DEF b
<1>7. TailOf(f, a, e)
  BY <1>2, <1>5, <1>6 DEF TailOf
<1> QED BY <1>2, <1>7

\* A commit that has just begun.
LEMMA BeginsSure ==
  ASSUME WalInv', NEW x, Filling(x), NEW op, StartCommit(op, x)
  PROVE  /\ SureNow' = CardLog(disk') /\ wpc' = "write" /\ wret' = "none" /\ wop' = op /\ SameScan(x, w')
         /\ \E e : Extended(x, w', e) /\ Len(e) = 1 /\ e[1].kind = "COMMIT"
<1> DEFINE r == Rec("COMMIT", x.next_seq, x.boot_id, 0, 0, x.next_txn)
           z == AppendRec(x, "COMMIT", 0, 0, x.next_txn)
<1>1. x \in WType /\ x.done = 0 /\ x.half = FALSE
  BY DEF Filling
<1>2. x.next_txn \in Nat /\ x.next_seq \in Nat /\ x.boot_id \in Nat /\ x.buf \in Seq(Recs)
  BY <1>1 DEF WType
<1>3. "COMMIT" \in Kinds /\ r \in Recs /\ r.kind = "COMMIT"
  BY <1>2 DEF Rec, Recs, Kinds
<1>4. Appended(x, z, r)
  BY <1>1, <1>2, <1>3, AppendRecIs
<1>5. w' = z /\ wop' = op /\ wpc' = "write" /\ wret' = "none"
  BY DEF StartCommit
<1> HIDE DEF z, r
<1>6. SameLog(x, z) /\ z.buf = Append(x.buf, r)
  BY <1>4 DEF Appended
<1>7. SureNow' = CardLog(disk')
  BY <1>1, <1>5, <1>6, StartIsSure DEF Sealing, SameLog
<1>8. SameScan(x, w')
  BY <1>5, <1>6 DEF SameLog, SameScan
<1>9. Extended(x, w', <<r>>) /\ Len(<<r>>) = 1 /\ <<r>>[1].kind = "COMMIT"
  <2> DEFINE b == x.buf
             e == <<r>>
  <2>1. b \in Seq(Recs) /\ r \in Recs
    BY <1>2, <1>3
  <2> HIDE DEF b
  <2>2. Append(b, r) = b \o e /\ e \in Seq(Recs) /\ Len(e) = 1 /\ e[1] = r
    BY <2>1
  <2>3. w'.buf = Append(b, r)
    BY <1>5, <1>6 DEF b
  <2> HIDE DEF e
  <2>4. w'.buf = b \o e
    BY <2>2, <2>3
  <2>5. Extended(x, w', e)
    BY <2>2, <2>4 DEF Extended, b
  <2> QED BY <1>3, <2>2, <2>5 DEF e
<1> QED BY <1>5, <1>7, <1>8, <1>9

\* One record, and BEGIN in front of it when no batch is open.
LEMMA AddExtends ==
  ASSUME NEW x, Filling(x), NEW kind \in Kinds \ {"BEGIN", "COMMIT", "TORN"},
         NEW ns \in Nat, NEW gen \in Nat, NEW val \in Nat
  PROVE  ExtendsBy(x, WalAdd(x, kind, ns, gen, val), kind, ns, val)
<1> DEFINE y == OpenBatch(x)
           z == WalAdd(x, kind, ns, gen, val)
           r == Rec(kind, y.next_seq, y.boot_id, ns, gen, val)
           a == x.buf
           f == z.buf
<1>1. Adds1(y, z, r) /\ r.kind = kind /\ r.ns = ns /\ r.val = val
  BY WalAddIs
<1>2. Filling(y) /\ SameLog(x, y) /\ (x.open_batch => y = x) /\ (~x.open_batch => Len(y.buf) = 1)
      /\ y \in WType /\ Begun(y)
  BY OpenBatchIs DEF Filling
<1>3. a \in Seq(Recs) /\ y.buf \in Seq(Recs) /\ f \in Seq(Recs) /\ Filling(z) /\ x \in WType /\ x.open_batch \in BOOLEAN
      /\ (~x.open_batch => a = <<>>)
  BY <1>1, <1>2 DEF Adds1, Filling, WType
<1> HIDE DEF y, r, z
<1>4. SameLog(x, z)
  BY <1>1, <1>2 DEF Adds1, SameLog
<1>5. Len(f) = Len(y.buf) + 1 /\ f[Len(f)] = r /\ \A p \in 1 .. Len(y.buf) : f[p] = y.buf[p]
  BY <1>1 DEF Adds1
<1>6. /\ Len(f) > Len(a) /\ (\A p \in 1 .. Len(a) : f[p] = a[p])
      /\ \A p \in Len(a) + 1 .. Len(f) - 1 : f[p].kind = "BEGIN"
  <2>1. CASE x.open_batch
    <3>1. Len(f) = Len(a) + 1 /\ \A p \in 1 .. Len(a) : f[p] = a[p]
      BY <1>2, <1>5, <2>1
    <3> QED BY <1>3, <3>1
  <2>2. CASE ~x.open_batch
    <3>1. Len(a) = 0 /\ Len(f) = 2 /\ f[1] = y.buf[1]
      BY <1>2, <1>3, <1>5, <2>2
    <3>2. y.buf[1].kind = "BEGIN"
      BY <1>2 DEF Begun
    <3>3. \A p \in Len(a) + 1 .. Len(f) - 1 : p = 1
      BY <3>1
    <3> QED BY <3>1, <3>2, <3>3
  <2> QED BY <2>1, <2>2
<1> DEFINE k == Len(a)
           m == Len(f)
<1>7a. \E e \in Seq(Recs) : TailOf(f, a, e)
  <2>1. Len(a) <= Len(f)
    BY <1>3, <1>6
  <2> QED BY <1>3, <1>6, <2>1, TailIs
<1>7. PICK e \in Seq(Recs) : f = a \o e /\ Len(e) = m - k /\ \A p \in 1 .. m - k : e[p] = f[k + p]
  BY <1>7a DEF TailOf
<1>8. k \in Nat /\ m \in Nat /\ m > k
  BY <1>3, <1>6
<1> HIDE DEF f, a, k, m
<1>9. Len(e) > 0 /\ e[Len(e)] = r
  <2>1. m - k \in 1 .. m - k /\ k + (m - k) = m
    BY <1>8
  <2> QED BY <1>5, <1>7, <2>1 DEF m
<1>10. ASSUME NEW p \in 1 .. Len(e) - 1 PROVE e[p].kind = "BEGIN"
  <2>1. p \in 1 .. m - k /\ k + p \in k + 1 .. m - 1
    BY <1>7, <1>8
  <2> QED BY <1>6, <1>7, <2>1 DEF k, m
<1>11. Extended(x, z, e)
  BY <1>7 DEF Extended, a, f
<1> QED BY <1>1, <1>3, <1>4, <1>9, <1>10, <1>11 DEF ExtendsBy, z

\* L is the front of K.
Begins(L, K) == L \in Seq(Recs) /\ Len(L) <= Len(K) /\ \A p \in 1 .. Len(L) : L[p] = K[p]

\* wal_open: the boot batch, or the cut or the first segment in front of it.
Reopens ==
  /\ SureNow' = CardLog(disk) /\ wop' = "open" /\ wret' = "none"
  /\ \/ wpc' \in Opening /\ w'.buf = <<>>
     \/ wpc' = "write" /\ Triple(w'.buf, w'.boot_id, "BOOT", 0, 0)

\* What it goes on from.
Rereads ==
  LET f == File(disk)
  IN  \/ CardLog(disk) = <<>> /\ Len(f) = 0 /\ w'.boot_id = 1 /\ w'.ring_gen = NoGen /\ w'.ring_seq = NoSeq
      \/ /\ w'.boot_id = Scan(f).last_boot_id + 1
         /\ w'.ring_gen = Scan(f).ring_gen /\ w'.ring_seq = Scan(f).ring_seq
         /\ GoodLength(f) = Len(f) /\ Len(f) > 1 /\ f[Len(f) - 1].kind = "SHUTDOWN" => w'.prev_end = PrevClean

LEMMA OpenSeq ==
  ASSUME WalInv, WalInv', CallOpen, disk' = disk
  PROVE  Reopens /\ Rereads
<1>1. DiskOK(disk) /\ disk \in Seq(Segs) /\ Len(disk) \in Nat
  BY DEF WalInv, WalOK, DiskOK
<1>2. CASE OpenFirst
  <2> DEFINE x == [Closed EXCEPT !.next_seq = 0, !.next_txn = 1, !.boot_id = 1]
  <2>1. Closed \in WType /\ Closed.buf = <<>> /\ Closed.fd = 0 /\ Closed.ring_gen = NoGen /\ Closed.ring_seq = NoSeq
    BY ClosedIs DEF NoBatch, Filling, Closed
  <2>2. x.buf = <<>> /\ x.fd = 0 /\ x.boot_id = 1 /\ x.ring_gen = NoGen /\ x.ring_seq = NoSeq
    BY <2>1 DEF WType
  <2>3. w' = x /\ wpc' = "create" /\ wret' = "none" /\ wop' = "open" /\ Len(disk) = 0
    BY <1>2 DEF OpenFirst
  <2> HIDE DEF x
  <2>4. SureNow' = CardLog(disk)
    BY <2>2, <2>3 DEF SureNow, Sure
  <2>5. File(disk) = <<>>
    BY <2>3 DEF File
  <2>6. CardLog(disk) = <<>>
    <3>1. Len(CardLog(disk)) \in 0 .. Len(File(disk)) /\ CardLog(disk) \in Seq(Recs)
      BY <1>1, CardIsPrefix
    <3> QED BY <2>5, <3>1
  <2> QED BY <2>2, <2>3, <2>4, <2>5, <2>6 DEF Reopens, Rereads, Opening
<1>3. CASE OpenRecover
  <2> DEFINE a == disk[Len(disk)]
             x == Recovered(a)
             f == a.recs
  <2>1. Len(disk) > 0 /\ Len(disk) \in 1 .. Len(disk) /\ Last(disk) = a
    BY <1>1, <1>3 DEF OpenRecover, Last
  <2>2. a \in Segs /\ SegOK(a) /\ File(disk) = f
    BY <1>1, <2>1 DEF DiskOK, File
  <2>3. /\ NoBatch(x) /\ x.boot_id = Scan(f).last_boot_id + 1
        /\ x.ring_gen = Scan(f).ring_gen /\ x.ring_seq = Scan(f).ring_seq
        /\ GoodLength(f) = Len(f) /\ Len(f) > 1 /\ f[Len(f) - 1].kind = "SHUTDOWN" => x.prev_end = PrevClean
    <3>1. RecoversTo(a, x)
      BY <1>1, <2>2, RecoveredIs
    <3> HIDE DEF x
    <3> QED BY <3>1 DEF RecoversTo
  <2>4. IF x.seg_bytes < Len(f)
        THEN w' = x /\ wop' = "open" /\ wpc' = "cut" /\ wret' = "none"
        ELSE StartBoot(x)
    BY <1>3, <2>1 DEF OpenRecover
  <2> HIDE DEF x
  <2>5. SameScan(x, w') => Rereads
    BY <2>2, <2>3 DEF Rereads, SameScan
  <2>6. CASE w' = x /\ wop' = "open" /\ wpc' = "cut" /\ wret' = "none"
    <3>1. SureNow' = CardLog(disk')
      BY <2>6, CutIsSureNext
    <3>2. w'.buf = <<>>
      BY <2>3, <2>6 DEF NoBatch, Filling
    <3> QED BY <2>5, <2>6, <3>1, <3>2 DEF Reopens, Opening, SameScan
  <2>7. CASE StartBoot(x)
    <3>1. /\ wpc' = "write" /\ wret' = "none" /\ wop' = "open" /\ SameScan(x, w')
          /\ Triple(w'.buf, x.boot_id, "BOOT", 0, 0) /\ SureNow' = CardLog(disk')
      BY <2>3, <2>7, BootSeq
    <3> QED BY <2>5, <3>1 DEF Reopens, SameScan
  <2> QED BY <2>4, <2>6, <2>7
<1> QED BY <1>2, <1>3 DEF CallOpen

LEMMA CommitSeq ==
  ASSUME WalInv', NEW x, Filling(x), CallCommit(x)
  PROVE  /\ SureNow' = CardLog(disk') /\ SameScan(x, w')
         /\ x.open_batch => wpc' = "write" /\ wop' = "commit" /\ wret' = "none"
         /\ ~x.open_batch => wpc' = "idle" /\ wret' = "ok" /\ w' = x
<1>1. CASE x.open_batch
  <2>1. StartCommit("commit", x)
    BY <1>1 DEF CallCommit
  <2> QED BY <1>1, <2>1, BeginsSure
<1>2. CASE ~x.open_batch
  <2>1. w' = x /\ wpc' = "idle" /\ wret' = "ok"
    BY <1>2 DEF CallCommit, Return
  <2> QED BY <1>2, <2>1, IdleIsSureNext DEF SameScan
<1> QED BY <1>1, <1>2

LEMMA CloseSeq ==
  ASSUME WalInv', NEW x, NoBatch(x), CallClose(x)
  PROVE  /\ SureNow' = CardLog(disk') /\ SameScan(x, w') /\ wpc' = "write" /\ wop' = "shut" /\ wret' = "none"
         /\ Triple(w'.buf, x.boot_id, "SHUTDOWN", 0, 0)
<1> DEFINE y == WalAdd(x, "SHUTDOWN", 0, 0, 0)
           z == AppendRec(y, "COMMIT", 0, 0, y.next_txn)
<1>1. "SHUTDOWN" \in Kinds \ {"BEGIN", "COMMIT", "TORN"} /\ x.open_batch = FALSE
  BY DEF Kinds, NoBatch
<1>2. w' = z /\ wop' = "shut" /\ wpc' = "write" /\ wret' = "none"
  BY <1>1 DEF CallClose, StartCommit
<1>3. Triple(z.buf, x.boot_id, "SHUTDOWN", 0, 0) /\ SameScan(x, z) /\ z.done = 0 /\ z.half = FALSE
  <2>1. SealsOne(x, y, "SHUTDOWN", 0, 0)
    BY <1>1, TripleIs
  <2> QED BY <2>1 DEF SealsOne
<1> HIDE DEF y, z
<1>4. SureNow' = CardLog(disk')
  BY <1>2, <1>3, StartIsSure DEF Sealing
<1> QED BY <1>2, <1>3, <1>4

\* note_generation's batch.
LEMMA GenSeq ==
  ASSUME WalInv', NEW x, NoBatch(x), NEW n \in Nat, NEW g \in Nat, CallCommit(WalAdd(x, "GEN", n, g, 0))
  PROVE  /\ SureNow' = CardLog(disk') /\ SameScan(x, w') /\ wpc' = "write" /\ wop' = "commit" /\ wret' = "none"
         /\ Triple(w'.buf, x.boot_id, "GEN", n, g)
<1> DEFINE y == WalAdd(x, "GEN", n, g, 0)
           z == AppendRec(y, "COMMIT", 0, 0, y.next_txn)
<1>1. "GEN" \in Kinds \ {"BEGIN", "COMMIT", "TORN"}
  BY DEF Kinds
<1>3. Triple(z.buf, x.boot_id, "GEN", n, g) /\ SameScan(x, z) /\ z.done = 0 /\ z.half = FALSE /\ y.open_batch = TRUE
  <2>1. SealsOne(x, y, "GEN", n, g)
    BY <1>1, TripleIs
  <2> QED BY <2>1 DEF SealsOne
<1>2. w' = z /\ wop' = "commit" /\ wpc' = "write" /\ wret' = "none"
  BY <1>3 DEF CallCommit, StartCommit
<1> HIDE DEF y, z
<1>4. SureNow' = CardLog(disk')
  BY <1>2, <1>3, StartIsSure DEF Sealing
<1> QED BY <1>2, <1>3, <1>4

\* note_ring_seq for the sources in S: BEGIN perhaps, and their ring seqs.
NotesOf(x, z, S) ==
  /\ Filling(z) /\ SameLog(x, z) /\ (x.open_batch => z.open_batch) /\ (z.open_batch \/ z = x)
  /\ \E e : /\ Extended(x, z, e) /\ \A p \in 1 .. Len(e) : e[p].kind = "BEGIN" \/ OwnMark(e[p])
            /\ \A n \in S : srcs[n].added => \E p \in 1 .. Len(e) : e[p].kind = "RSEQ" /\ e[p].ns = n
  /\ (\A n \in NS : ~srcs[n].added) => z = x

LEMMA NoteSeqIs ==
  ASSUME MainInv, NEW x, Filling(x), NEW n \in Nat
  PROVE  NotesOf(x, NoteRingSeq(x, n), {n} \cap NS)
<1>1. CASE n \in NS /\ srcs[n].added
  <2> DEFINE z == WalAdd(x, "RSEQ", n, 0, srcs[n].last_seq)
  <2>1. srcs[n].last_seq \in Nat /\ "RSEQ" \in Kinds \ {"BEGIN", "COMMIT", "TORN"} /\ 0 \in Nat
    BY <1>1 DEF MainInv, SrcType, Kinds
  <2>2. ExtendsBy(x, z, "RSEQ", n, srcs[n].last_seq)
    BY <2>1, AddExtends
  <2>3. z.open_batch = TRUE
    BY <2>1, WalAddIs DEF Adds1
  <2>4. NoteRingSeq(x, n) = z
    BY <1>1 DEF NoteRingSeq
  <2> HIDE DEF z
  <2>5. PICK e : /\ Extended(x, z, e) /\ Len(e) > 0
                 /\ e[Len(e)].kind = "RSEQ" /\ e[Len(e)].ns = n /\ e[Len(e)].val = srcs[n].last_seq
                 /\ \A p \in 1 .. Len(e) - 1 : e[p].kind = "BEGIN"
    BY <2>2 DEF ExtendsBy
  <2>6. Len(e) \in Nat
    BY <2>5 DEF Extended
  <2>7. Len(e) \in 1 .. Len(e)
    BY <2>5, <2>6
  <2>8. ASSUME NEW p \in 1 .. Len(e) PROVE e[p].kind = "BEGIN" \/ OwnMark(e[p])
    <3>1. p = Len(e) \/ p \in 1 .. Len(e) - 1
      BY <2>6
    <3> QED BY <1>1, <2>5, <3>1 DEF OwnMark
  <2> QED BY <1>1, <2>2, <2>3, <2>4, <2>5, <2>7, <2>8 DEF NotesOf, ExtendsBy
<1>2. CASE ~(n \in NS /\ srcs[n].added)
  <2>1. NoteRingSeq(x, n) = x
    BY <1>2 DEF NoteRingSeq
  <2>2. Extended(x, x, <<>>)
    <3> DEFINE b == x.buf
    <3>1. b \in Seq(Recs)
      BY DEF Filling, WType
    <3> HIDE DEF b
    <3>2. b = b \o <<>> /\ <<>> \in Seq(Recs)
      BY <3>1
    <3> QED BY <3>2 DEF Extended, b
  <2> QED BY <1>2, <2>1, <2>2 DEF NotesOf, SameLog
<1> QED BY <1>1, <1>2

\* One extension after another.
LEMMA ExtendedTwice ==
  ASSUME NEW x, x.buf \in Seq(Recs), NEW y, NEW z, NEW d, Extended(x, y, d), NEW e, Extended(y, z, e)
  PROVE  Extended(x, z, d \o e) /\ Len(d \o e) = Len(d) + Len(e)
         /\ (\A p \in 1 .. Len(d) : (d \o e)[p] = d[p]) /\ \A p \in 1 .. Len(e) : (d \o e)[Len(d) + p] = e[p]
<1> DEFINE b == x.buf
<1>1. b \in Seq(Recs) /\ d \in Seq(Recs) /\ e \in Seq(Recs) /\ z.buf = (b \o d) \o e
  BY DEF Extended
<1> HIDE DEF b
<1>2. (b \o d) \o e = b \o (d \o e)
  BY <1>1
<1>3. d \o e \in Seq(Recs)
  BY <1>1
<1>4. Extended(x, z, d \o e)
  BY <1>1, <1>2, <1>3 DEF Extended, b
<1> QED BY <1>1, <1>4, CatIs

LEMMA NoteSeqsIs == ASSUME MainInv, NEW x, Filling(x) PROVE NotesOf(x, NoteRingSeqs(x), NS)
<1> DEFINE y == NoteRingSeq(x, 0)
           z == NoteRingSeq(y, 1)
<1>1. NotesOf(x, y, {0} \cap NS)
  BY Zenon, NoteSeqIs
<1>2. Filling(y)
  BY <1>1 DEF NotesOf
<1>3. NotesOf(y, z, {1} \cap NS)
  <2> HIDE DEF y
  <2> QED BY Zenon, <1>2, NoteSeqIs
<1>4. NoteRingSeqs(x) = z
  BY DEF NoteRingSeqs
<1> HIDE DEF y, z
<1>5. PICK d : /\ Extended(x, y, d) /\ \A p \in 1 .. Len(d) : d[p].kind = "BEGIN" \/ OwnMark(d[p])
               /\ \A n \in {0} \cap NS : srcs[n].added => \E p \in 1 .. Len(d) : d[p].kind = "RSEQ" /\ d[p].ns = n
  BY <1>1 DEF NotesOf
<1>6. PICK e : /\ Extended(y, z, e) /\ \A p \in 1 .. Len(e) : e[p].kind = "BEGIN" \/ OwnMark(e[p])
               /\ \A n \in {1} \cap NS : srcs[n].added => \E p \in 1 .. Len(e) : e[p].kind = "RSEQ" /\ e[p].ns = n
  BY <1>3 DEF NotesOf
<1> DEFINE f == d \o e
<1>7. x.buf \in Seq(Recs) /\ Len(d) \in Nat /\ Len(e) \in Nat
  <2>1. d \in Seq(Recs) /\ e \in Seq(Recs)
    BY <1>5, <1>6 DEF Extended
  <2>2. x.buf \in Seq(Recs)
    BY DEF Filling, WType
  <2> QED BY <2>1, <2>2
<1>8. /\ Extended(x, z, f) /\ Len(f) = Len(d) + Len(e)
      /\ (\A p \in 1 .. Len(d) : f[p] = d[p]) /\ \A p \in 1 .. Len(e) : f[Len(d) + p] = e[p]
  BY <1>5, <1>6, <1>7, ExtendedTwice
<1> HIDE DEF f
<1> DEFINE k == Len(d)
           l == Len(e)
           m == Len(f)
<1>9. k \in Nat /\ l \in Nat /\ m = k + l
  BY <1>7, <1>8
<1>9a. /\ \A p \in 1 .. k : f[p] = d[p] /\ (d[p].kind = "BEGIN" \/ OwnMark(d[p]))
       /\ \A p \in 1 .. l : f[k + p] = e[p] /\ (e[p].kind = "BEGIN" \/ OwnMark(e[p]))
  BY <1>5, <1>6, <1>8
<1>10. ASSUME NEW p \in 1 .. m PROVE f[p].kind = "BEGIN" \/ OwnMark(f[p])
  <2> HIDE DEF k, l, m
  <2>1. CASE p \in 1 .. k
    BY <1>9a, <2>1
  <2>2. CASE p \notin 1 .. k
    <3>1. p - k \in 1 .. l /\ p = k + (p - k)
      BY <1>9, <2>2
    <3> QED BY <1>9a, <3>1
  <2> QED BY <2>1, <2>2
<1>11. ASSUME NEW n \in NS, srcs[n].added PROVE \E p \in 1 .. m : f[p].kind = "RSEQ" /\ f[p].ns = n
  <2>1. n \in {0} \cap NS \/ n \in {1} \cap NS
    BY NsIs
  <2>2. CASE n \in {0} \cap NS
    <3>1. PICK p \in 1 .. k : d[p].kind = "RSEQ" /\ d[p].ns = n
      BY <1>5, <1>11, <2>2
    <3> HIDE DEF k, l, m
    <3>2. p \in 1 .. m
      BY <1>9
    <3> QED BY <1>9a, <3>1, <3>2
  <2>3. CASE n \in {1} \cap NS
    <3>1. PICK p \in 1 .. l : e[p].kind = "RSEQ" /\ e[p].ns = n
      BY <1>6, <1>11, <2>3
    <3> HIDE DEF k, l, m
    <3>2. k + p \in 1 .. m
      BY <1>9
    <3> QED BY <1>9a, <3>1, <3>2
  <2> QED BY <2>1, <2>2, <2>3
<1>12. \E h : /\ Extended(x, z, h) /\ (\A p \in 1 .. Len(h) : h[p].kind = "BEGIN" \/ OwnMark(h[p]))
             /\ \A n \in NS : srcs[n].added => \E p \in 1 .. Len(h) : h[p].kind = "RSEQ" /\ h[p].ns = n
  BY <1>8, <1>10, <1>11
<1>13. Filling(z) /\ SameLog(x, z) /\ (x.open_batch => z.open_batch) /\ (z.open_batch \/ z = x)
       /\ ((\A n \in NS : ~srcs[n].added) => z = x)
  BY <1>1, <1>3 DEF NotesOf, SameLog
<1> QED BY <1>4, <1>12, <1>13 DEF NotesOf

\* Whatever main calls, what is on the card stays and is what it counts on.
LEMMA MainSure ==
  ASSUME WalInv, WalInv', MainInv, OneInv, MainStep
  PROVE  SureNow' = SureNow /\ SureNow = CardLog(disk) /\ disk' = disk
<1>1. wpc = "idle" /\ disk' = disk /\ DiskOK(disk) /\ Ready(disk, w) /\ Filling(w)
  BY MainIdle DEF Ready
<1>2. SureNow = CardLog(disk)
  BY <1>1, IdleIsSure
<1>3. SureNow' = CardLog(disk')
  <2>1. CASE wpc' = "idle"
    BY <2>1, IdleIsSureNext
  <2>2. CASE Start
    BY <1>1, <2>2, OpenSeq DEF Start, Reopens
  <2>3. CASE NoteGeneration
    <3>1. NoBatch(w)
      BY <1>1, <2>3 DEF NoteGeneration, OneInv, NoBatch
    <3>2. ni \in Nat /\ rings[ni].gen \in Nat
      BY NsIs DEF MainInv, RingType
    <3> QED BY <2>3, <3>1, <3>2, GenSeq DEF NoteGeneration
  <2>4. CASE Flush \/ Stop
    <3>1. Filling(NoteRingSeqs(w))
      BY <1>1, NoteSeqsIs DEF NotesOf
    <3> QED BY <2>4, <3>1, CommitSeq DEF Flush, Stop
  <2>5. CASE StopDone \/ StopRelease
    <3>1. NoBatch(w)
      BY <1>1, <2>5 DEF StopDone, StopRelease, OneInv, NoBatch, WalInv, WalOK
    <3>2. wpc' = wpc \/ CallClose(w)
      BY <2>5 DEF StopDone, StopRelease
    <3> QED BY <1>1, <2>1, <3>1, <3>2, CloseSeq
  <2>6. CASE OpenDone \/ NoteDone \/ Drain \/ Idle \/ FlushDone \/ Release \/ CloseDone
    <3>1. wpc' = "idle"
      BY Zenon, <1>1, <2>6 DEF OpenDone, NoteDone, Drain, Idle, FlushDone, Release, CloseDone, Exit, wvars
    <3> QED BY <2>1, <3>1
  <2> QED BY <2>2, <2>3, <2>4, <2>5, <2>6 DEF MainStep
<1> QED BY <1>1, <1>2, <1>3

LEMMA MainOne ==
  ASSUME WalInv, WalInv', MainInv, OneInv, MainStep
  PROVE  OneInv'
<1>1. wpc = "idle" /\ disk' = disk /\ DiskOK(disk) /\ Ready(disk, w) /\ Filling(w) /\ wpc' \in Calls
  BY MainIdle, MainCalls DEF Ready, OneInv
<1>2. CASE Start
  <2>1. Reopens
    BY <1>1, <1>2, OpenSeq DEF Start
  <2> QED BY <1>1, <1>2, <2>1 DEF Start, Reopens, OneInv, Opening
<1>3. CASE NoteGeneration
  <2>1. NoBatch(w)
    BY <1>1, <1>3 DEF NoteGeneration, OneInv, NoBatch
  <2>2. ni \in Nat /\ rings[ni].gen \in Nat
    BY NsIs DEF MainInv, RingType
  <2>3. wpc' = "write" /\ wop' = "commit"
    BY <1>3, <2>1, <2>2, GenSeq DEF NoteGeneration
  <2> QED BY <1>1, <1>3, <2>3 DEF NoteGeneration, OneInv, Opening
<1>4. CASE Flush \/ Stop
  <2>1. Filling(NoteRingSeqs(w))
    BY <1>1, NoteSeqsIs DEF NotesOf
  <2>2. (wpc' = "write" /\ wop' = "commit") \/ wpc' = "idle"
    BY <1>4, <2>1, CommitSeq DEF Flush, Stop
  <2> QED BY <1>1, <1>4, <2>2 DEF Flush, Stop, OneInv, Opening
<1>5. CASE StopDone \/ StopRelease
  <2>1. NoBatch(w)
    BY <1>1, <1>5 DEF StopDone, StopRelease, OneInv, NoBatch, WalInv, WalOK
  <2>2. CASE w' = w /\ wpc' = wpc /\ pc' \in {"stop_release"}
    BY <1>1, <2>1, <2>2 DEF OneInv, Opening, NoBatch
  <2>3. CASE CallClose(w) /\ pc' = "closing"
    <3>1. wpc' = "write" /\ wop' = "shut"
      BY <2>1, <2>3, CloseSeq
    <3> QED BY <1>1, <2>3, <3>1 DEF OneInv, Opening
  <2> QED BY <1>5, <2>2, <2>3 DEF StopDone, StopRelease
<1>6. CASE OpenDone \/ NoteDone \/ FlushDone
  <2>1. w.open_batch = FALSE
    BY Zenon, <1>1, <1>6 DEF OpenDone, NoteDone, FlushDone, WalInv, WalOK
  <2>2. wpc' = "idle" /\ (w' = w \/ pc' = "down")
    BY Zenon, <1>1, <1>6 DEF OpenDone, NoteDone, FlushDone, Exit
  <2> QED BY <1>1, <2>1, <2>2 DEF OneInv, Opening
<1>7. CASE Drain \/ Idle \/ Release \/ CloseDone
  <2>1. wpc' = "idle" /\ (pc' = "release" => pc = "release" /\ w' = w) /\ pc' \notin {"note_gen", "stop_release"}
    BY <1>1, <1>7 DEF Drain, Idle, Release, CloseDone, Exit, wvars, NextTurn
  <2> QED BY <1>1, <2>1 DEF OneInv, Opening
<1> QED BY <1>2, <1>3, <1>4, <1>5, <1>6, <1>7 DEF MainStep

---------------------------------------------------------------------------
(* What a power cut does to it *)

\* Segment b has the first n records of a, and perhaps half of the next.
LeftOf(a, b, n) ==
  /\ a.synced <= n /\ \A p \in 1 .. n : b.recs[p] = a.recs[p]
  /\ Len(b.recs) = n \/ (n < Len(a.recs) /\ Len(b.recs) = n + 1 /\ b.recs[n + 1].kind = "TORN")

\* What is left of one segment.
LEMMA AfterCutRecs ==
  ASSUME NEW a \in Segs, NEW b \in AfterCut(a)
  PROVE  /\ b.recs \in Seq(Recs) /\ b.synced = Len(b.recs) /\ b.entry = TRUE
         /\ \E n \in 0 .. Len(a.recs) : LeftOf(a, b, n)
<1>1. a.recs \in Seq(Recs) /\ a.synced \in Nat
  BY DEF Segs
<1>2. Len(a.recs) \in Nat /\ Torn \in Recs /\ Torn.kind = "TORN"
  BY <1>1 DEF Torn, Rec, Recs, Kinds
<1>3. PICK f \in {SubSeq(a.recs, 1, n) : n \in a.synced .. Len(a.recs)}
             \cup {Append(SubSeq(a.recs, 1, n), Torn) : n \in a.synced .. Len(a.recs) - 1} :
        b = [a EXCEPT !.recs = f, !.synced = Len(f), !.entry = TRUE]
  BY Zenon DEF AfterCut
<1>4. PICK n \in 0 .. Len(a.recs) :
        a.synced <= n /\ (f = SubSeq(a.recs, 1, n) \/ (n < Len(a.recs) /\ f = Append(SubSeq(a.recs, 1, n), Torn)))
  <2>1. CASE f \in {SubSeq(a.recs, 1, n) : n \in a.synced .. Len(a.recs)}
    <3>1. PICK n \in a.synced .. Len(a.recs) : f = SubSeq(a.recs, 1, n)
      BY <2>1
    <3>2. n \in 0 .. Len(a.recs) /\ a.synced <= n
      BY <1>1, <1>2
    <3> QED BY <3>1, <3>2
  <2>2. CASE f \in {Append(SubSeq(a.recs, 1, n), Torn) : n \in a.synced .. Len(a.recs) - 1}
    <3>1. PICK n \in a.synced .. Len(a.recs) - 1 : f = Append(SubSeq(a.recs, 1, n), Torn)
      BY <2>2
    <3>2. n \in 0 .. Len(a.recs) /\ a.synced <= n /\ n < Len(a.recs)
      BY <1>1, <1>2
    <3> QED BY <3>1, <3>2
  <2> QED BY <1>3, <2>1, <2>2
<1> DEFINE g == SubSeq(a.recs, 1, n)
<1>5. g \in Seq(Recs) /\ Len(g) = n /\ \A p \in 1 .. n : g[p] = a.recs[p]
  BY <1>1
<1> HIDE DEF g
<1>6. /\ f \in Seq(Recs) /\ \A p \in 1 .. n : f[p] = a.recs[p]
      /\ Len(f) = n \/ (n < Len(a.recs) /\ Len(f) = n + 1 /\ f[n + 1].kind = "TORN")
  <2>1. CASE f = g
    BY <1>5, <2>1
  <2>2. CASE n < Len(a.recs) /\ f = Append(g, Torn)
    BY <1>2, <1>5, <2>2
  <2> QED BY <1>4, <2>1, <2>2 DEF g
<1>8. b.entry = TRUE /\ b.recs = f /\ b.synced = Len(f)
  BY <1>3, <1>6 DEF Segs
<1>9. LeftOf(a, b, n)
  BY <1>4, <1>6, <1>8 DEF LeftOf
<1> QED BY <1>6, <1>8, <1>9

\* One segment, or none, and the file that is left of it.
CutsOne ==
  /\ disk' \in Seq(Segs) /\ Len(disk') <= 1
  /\ \/ Len(disk') = 0 /\ (Len(disk) = 0 \/ disk[1].entry # TRUE)
     \/ Len(disk') = 1 /\ Len(disk) = 1 /\ disk'[1] \in AfterCut(disk[1])

LEMMA PowerOne == ASSUME DiskOK(disk), Len(disk) <= 1, WalPowerCut PROVE CutsOne
<1>1. disk \in Seq(Segs) /\ Len(disk) \in Nat /\ DOMAIN disk = 1 .. Len(disk)
  BY DEF DiskOK
<1>2. CASE disk = <<>> /\ disk' = disk
  BY <1>1, <1>2 DEF CutsOne
<1>3. CASE disk # <<>> /\ ~(disk = <<>> /\ disk' = disk)
  <2>1. Len(disk) = 1
    <3> DEFINE l == Len(disk)
    <3>1. l \in Nat /\ l <= 1 /\ l # 0
      BY <1>1, <1>3
    <3> HIDE DEF l
    <3>2. l = 1
      BY <3>1
    <3> QED BY <3>2 DEF l
  <2>2. Last(disk) = disk[1] /\ disk[1] \in Segs /\ SegOK(disk[1]) /\ DOMAIN disk = 1 .. 1
    BY <1>1, <2>1 DEF Last, DiskOK
  <2>3. PICK gone \in SUBSET {i \in DOMAIN disk : ~disk[i].entry}, b \in AfterCut(disk[1]) :
          disk' = Surviving([i \in DOMAIN disk |->
                               IF i = Len(disk) THEN b ELSE [disk[i] EXCEPT !.entry = TRUE]],
                            DOMAIN disk \ gone)
    BY <1>3, <2>2 DEF WalPowerCut
  <2>4. b \in Segs
    BY <2>2, AfterCutIs
  <2> DEFINE e == [i \in 1 .. 1 |-> IF i = Len(disk) THEN b ELSE [disk[i] EXCEPT !.entry = TRUE]]
  <2>5. disk' = Surviving(e, (1 .. 1) \ gone) /\ e[1] = b
    BY <2>1, <2>2, <2>3
  <2> HIDE DEF e
  <2>6. CASE gone = {}
    <3>1. (1 .. 1) \ gone = 1 .. 1
      BY <2>6
    <3>2. disk' = [i \in 1 .. 1 |-> e[i]]
      BY <2>5, <3>1, SurvivingIs
    <3> DEFINE h == [i \in 1 .. 1 |-> e[i]]
    <3>2a. h \in [1 .. 1 -> Segs] /\ h[1] = b
      BY <2>4, <2>5
    <3> HIDE DEF h
    <3>2b. h \in Seq(Segs) /\ Len(h) = 1
      <4>1. ASSUME NEW n \in Nat, NEW k \in [1 .. n -> Segs] PROVE k \in Seq(Segs) /\ Len(k) = n
        OBVIOUS
      <4> QED BY <3>2a, <4>1
    <3>3. Len(disk') = 1 /\ disk'[1] = b /\ disk' \in Seq(Segs)
      BY <3>2, <3>2a, <3>2b DEF h
    <3> QED BY <2>1, <3>3 DEF CutsOne
  <2>7. CASE gone # {}
    <3>1. 1 \in gone /\ disk[1].entry # TRUE
      <4>1. PICK i \in gone : TRUE
        BY <2>7
      <4>2. i \in 1 .. 1 /\ ~disk[i].entry
        BY <2>2, <4>1
      <4>3. i = 1
        BY <4>2
      <4> QED BY <4>1, <4>2, <4>3
    <3>2. (1 .. 1) \ gone = 1 .. 0
      BY <3>1
    <3>3. disk' = [i \in 1 .. 0 |-> e[i]]
      BY <2>5, <3>2, SurvivingIs
    <3>4. Len(disk') = 0 /\ disk' \in Seq(Segs)
      BY <3>3
    <3>5. Len(disk') <= 1
      BY <3>4
    <3> QED BY <3>1, <3>4, <3>5 DEF CutsOne
  <2> QED BY <2>6, <2>7
<1> QED BY <1>2, <1>3 DEF WalPowerCut

\* A power cut leaves a front of the committed records.
LEMMA PowerSeq ==
  ASSUME WalInv, EntryOK, Len(disk) <= 1, WalPowerCut
  PROVE  Begins(CardLog(disk'), CardLog(disk))
<1>1. DiskOK(disk) /\ disk \in Seq(Segs) /\ Len(disk) \in Nat
  BY DEF WalInv, WalOK, DiskOK
<1>2. CutsOne /\ disk' \in Seq(Segs)
  BY <1>1, PowerOne DEF CutsOne
<1>3. CardLog(disk) \in Seq(Recs) /\ Len(CardLog(disk)) \in Nat
  BY <1>1, CardIsPrefix
<1>4. CASE Len(disk') = 0
  <2>1. File(disk') = <<>>
    BY <1>4 DEF File
  <2>2. CardLog(disk') \in Seq(Recs) /\ Len(CardLog(disk')) \in 0 .. 0
    BY <1>2, <2>1, CardIsPrefix
  <2> QED BY <1>3, <2>2 DEF Begins
<1>5. CASE Len(disk') = 1 /\ Len(disk) = 1 /\ disk'[1] \in AfterCut(disk[1])
  <2> DEFINE a == disk[1]
             b == disk'[1]
             f == a.recs
             g == b.recs
             k == GoodLength(g)
             m == GoodLength(f)
  <2>1. a \in Segs /\ b \in Segs /\ File(disk) = f /\ File(disk') = g
    BY <1>1, <1>2, <1>5 DEF File
  <2>2. PICK n \in 0 .. Len(f) : /\ \A p \in 1 .. n : g[p] = f[p]
                                 /\ Len(g) = n \/ (Len(g) = n + 1 /\ g[n + 1].kind = "TORN")
    <3>1. \E n \in 0 .. Len(f) : LeftOf(a, b, n)
      BY <1>5, <2>1, AfterCutRecs
    <3> QED BY <3>1 DEF LeftOf
  <2>3. f \in Seq(Recs) /\ g \in Seq(Recs)
    BY <2>1 DEF Segs
  <2>4. k \in 0 .. Len(g) /\ Whole(g, k) /\ \A q \in 0 .. Len(f) : Whole(f, q) => q <= m
    BY <2>3, GoodLengthIs
  <2>5. CardLog(disk') \in Seq(Recs) /\ Len(CardLog(disk')) = k /\ \A p \in 1 .. k : CardLog(disk')[p] = g[p]
    BY <1>2, <2>1, CardIsPrefix
  <2>6. CardLog(disk) \in Seq(Recs) /\ Len(CardLog(disk)) = m /\ \A p \in 1 .. m : CardLog(disk)[p] = f[p]
    BY <1>1, <2>1, CardIsPrefix
  <2>7. k \in 0 .. n /\ k \in Nat
    <3>1. k \in Nat /\ k <= Len(g) /\ Len(f) \in Nat
      BY <2>3, <2>4
    <3>2. CASE k = n + 1 /\ g[n + 1].kind = "TORN"
      <4>1. g[k].kind = "COMMIT"
        BY <2>4, <3>1, <3>2, WholeEnds
      <4> QED BY <3>2, <4>1
    <3> HIDE DEF k, g, f
    <3> QED BY <2>2, <3>1, <3>2
  <2>8. k <= m /\ m \in Nat
    <3>1. Whole(f, k)
      BY <2>2, <2>4, <2>7, WholeSame
    <3>2. k \in 0 .. Len(f) /\ m \in Nat
      BY <2>3, <2>6, <2>7
    <3> QED BY <2>4, <3>1, <3>2
  <2> HIDE DEF k, m, f, g
  <2>9. ASSUME NEW p \in 1 .. k PROVE CardLog(disk')[p] = CardLog(disk)[p]
    <3>1. p \in 1 .. m /\ p \in 1 .. n
      BY <2>7, <2>8
    <3> QED BY <2>2, <2>5, <2>6, <3>1
  <2> QED BY <2>5, <2>6, <2>8, <2>9 DEF Begins
<1> QED BY <1>2, <1>4, <1>5 DEF CutsOne

\* A file that is synced survives a power cut as it is.
LEMMA SyncedSurvives ==
  ASSUME WalInv, EntryOK, Len(disk) <= 1, WalPowerCut, wpc # "dirsync", SyncInv, ~InWrite
  PROVE  File(disk') = File(disk)
<1>1. DiskOK(disk) /\ disk \in Seq(Segs) /\ Len(disk) \in Nat
  BY DEF WalInv, WalOK, DiskOK
<1>2. CutsOne
  BY <1>1, PowerOne
<1>3. CASE Len(disk') = 0
  <2>1. Len(disk) = 0
    <3>1. ASSUME Len(disk) # 0 PROVE 1 \in 1 .. Len(disk)
      BY <1>1, <3>1
    <3> QED BY <1>2, <1>3, <3>1 DEF CutsOne, EntryOK
  <2> QED BY <1>3, <2>1 DEF File
<1>4. CASE Len(disk') = 1 /\ Len(disk) = 1 /\ disk'[1] \in AfterCut(disk[1])
  <2> DEFINE f == disk[1].recs
             g == disk'[1].recs
  <2>1. disk[1] \in Segs /\ disk[1].synced = Len(f) /\ f \in Seq(Recs)
    <3>1. 1 \in 1 .. Len(disk)
      BY <1>4
    <3>2. disk[1] \in Segs /\ SyncedAt(1)
      BY <1>1, <3>1 DEF SyncInv
    <3> QED BY <3>2 DEF SyncedAt, Segs
  <2>2. g \in Seq(Recs)
    BY <1>4, <2>1, AfterCutRecs
  <2>2a. PICK n \in 0 .. Len(f) :
           /\ disk[1].synced <= n /\ \A p \in 1 .. n : g[p] = f[p]
           /\ Len(g) = n \/ (n < Len(f) /\ Len(g) = n + 1)
    <3>1. \E n \in 0 .. Len(f) : LeftOf(disk[1], disk'[1], n)
      BY <1>4, <2>1, AfterCutRecs
    <3> QED BY <3>1 DEF LeftOf
  <2>3. File(disk) = f /\ File(disk') = g
    BY <1>4 DEF File
  <2>4. Len(g) = Len(f) /\ n = Len(f)
    <3> DEFINE l == Len(f)
    <3>1. l \in Nat /\ l <= n /\ n \in 0 .. l
      BY <2>1, <2>2a
    <3> HIDE DEF l
    <3>2. n = l /\ ~(n < l)
      BY <3>1
    <3> QED BY <2>2a, <3>2 DEF l
  <2> HIDE DEF f, g
  <2>5. f = g
    BY <2>1, <2>2, <2>2a, <2>4
  <2> QED BY <2>3, <2>5
<1> QED BY <1>2, <1>3, <1>4 DEF CutsOne

---------------------------------------------------------------------------
(* One segment *)

LEMMA OneNext ==
  ASSUME OrderAssumption, OrderInv, OrderInv', OneInv, Unrolled, Unrolled', [Next]_vars
  PROVE  OneInv'
<1>1. WalInv /\ WalInv' /\ MainInv /\ DiskOK(disk)
  BY DEF OrderInv, WalInv, WalOK
<1>2. CASE MainStep
  BY <1>1, <1>2, MainOne
<1>3. CASE LogStep
  <2>1. SeqMoves /\ pc' = pc /\ pc # "down" /\ wpc' \in Calls /\ wpc # "idle"
    BY <1>1, <1>3, WalStepSeq, WalCalls DEF LogStep, svars, OrderAssumption
  <2>2. pc \notin Quiet
    BY <1>1, <2>1 DEF MainInv
  <2>3. wpc' # "idle" => /\ wpc' \in Opening => wpc \in Opening
                         /\ wop' = wop \/ (wop' = "open" /\ wpc \in Opening)
    BY <2>1 DEF SeqMoves, GoesOn, BootsNow, Accepts, GivesUp, Opening, Sealing
  <2> QED BY <2>1, <2>2, <2>3 DEF OneInv, SeqMoves, Quiet, Opening
<1>4. CASE Kill \/ PowerCut
  <2>1. pc' = "down" /\ wpc' = "idle"
    BY <1>4 DEF Kill, PowerCut, Gone, WalKilled, WalPowerCut
  <2>2. Len(disk') <= 1
    BY <1>1, <1>4, PowerOne DEF Kill, PowerCut, WalKilled, CutsOne, OneInv
  <2> QED BY <2>1, <2>2 DEF OneInv, Calls, Opening
<1>5. CASE (\E n \in NS : Push(n)) \/ Tick \/ Signal \/ UNCHANGED vars
  <2>1. UNCHANGED <<disk, w, wop, wpc, pc>>
    BY <1>5 DEF Push, Tick, Signal, vars, wvars, svars
  <2> QED BY <2>1 DEF OneInv
<1> QED BY <1>2, <1>3, <1>4, <1>5 DEF Next

LEMMA OneInit == Init => OneInv
BY DEF Init, WalInit, OneInv, Calls, Opening, Closed

\* As long as nothing is killed, what is not on its way is synced.
SyncedInv == "kill" \notin Accidents => SyncInv

LEMMA SyncedNext ==
  ASSUME OrderAssumption, OrderInv, OrderInv', OneInv, SyncedInv, [Next]_vars
  PROVE  SyncedInv'
<1>1. CASE ~PowerCut
  BY <1>1, SyncNext DEF SyncedInv, OrderAssumption
<1>2. CASE PowerCut
  <2>1. CutsOne
    BY <1>2, PowerOne DEF PowerCut, OneInv, OrderInv, WalInv, WalOK
  <2>2. disk \in Seq(Segs)
    BY DEF OrderInv, WalInv, WalOK, DiskOK
  <2>3. ASSUME NEW i \in 1 .. Len(disk') PROVE disk'[i].synced = Len(disk'[i].recs) /\ Len(disk'[i].recs) \in Nat
    <3>1. Len(disk') = 1 /\ Len(disk) = 1 /\ disk'[1] \in AfterCut(disk[1])
      <4>1. ASSUME Len(disk') = 0 PROVE FALSE
        <5>1. i \in 1 .. 0
          BY <4>1, Zenon
        <5> QED BY <5>1
      <4> QED BY <2>1, <4>1, Zenon DEF CutsOne
    <3>2. disk[1] \in Segs /\ i = 1
      BY <2>2, <3>1
    <3>3. disk'[1].recs \in Seq(Recs) /\ disk'[1].synced = Len(disk'[1].recs)
      BY <3>1, <3>2, AfterCutRecs
    <3> QED BY <3>2, <3>3
  <2>4. \A i \in 1 .. Len(disk') : SyncedAt(i)'
    BY <2>3 DEF SyncedAt
  <2> QED BY <2>4 DEF SyncedInv, SyncInv
<1> QED BY <1>1, <1>2

LEMMA SyncedInit == Init => SyncedInv
BY DEF Init, WalInit, SyncedInv, SyncInv

\* o records that open the batch, then k samples of ring n from ring seq first on.
SamplesFrom(e, o, n, gen, first, k) ==
  /\ Len(e) = o + k /\ \A p \in 1 .. o : e[p].kind = "BEGIN"
  /\ \A i \in 1 .. k : /\ e[o + i].kind = "SAMPLE" /\ e[o + i].ns = n
                       /\ e[o + i].gen = gen /\ e[o + i].val = first + i - 1

AddsSamples(x, z, n, gen, first, k) ==
  Filling(z) /\ SameLog(x, z) /\ \E e : Extended(x, z, e) /\ \E o \in Nat : SamplesFrom(e, o, n, gen, first, k)

LEMMA SamplesExtend ==
  ASSUME NEW x, Filling(x), NEW n \in Nat, NEW gen \in Nat, NEW first \in Nat, NEW k \in Nat, k # 0
  PROVE  AddsSamples(x, WalAddSamples(x, n, gen, first, k), n, gen, first, k)
<1> DEFINE y == OpenBatch(x)
           z == WalAddSamples(x, n, gen, first, k)
           a == x.buf
           f == z.buf
<1>1. AddsMany(y, z, n, gen, first, k)
  BY WalAddSamplesIs
<1>2. Filling(y) /\ SameLog(x, y) /\ (x.open_batch => y = x) /\ (~x.open_batch => Len(y.buf) = 1)
      /\ y \in WType /\ Begun(y)
  BY OpenBatchIs DEF Filling
<1> HIDE DEF y, z
<1>3. Filling(z) /\ z \in WType /\ SameLog(y, z)
  BY <1>1 DEF AddsMany, Filling
<1>3a. a \in Seq(Recs) /\ y.buf \in Seq(Recs) /\ f \in Seq(Recs) /\ x.open_batch \in BOOLEAN
      /\ (~x.open_batch => a = <<>>)
  BY <1>2, <1>3 DEF Filling, WType
<1>4. SameLog(x, z)
  BY <1>2, <1>3 DEF SameLog
<1>5. /\ Len(f) = Len(y.buf) + k /\ \A p \in 1 .. Len(y.buf) : f[p] = y.buf[p]
      /\ \A i \in 1 .. k : /\ f[Len(y.buf) + i].kind = "SAMPLE" /\ f[Len(y.buf) + i].ns = n
                           /\ f[Len(y.buf) + i].gen = gen /\ f[Len(y.buf) + i].val = first + i - 1
  BY <1>1 DEF AddsMany
<1> DEFINE u == Len(a)
           v == Len(y.buf)
           m == Len(f)
           o == v - u
<1>6. u \in Nat /\ v \in Nat /\ m \in Nat /\ m = v + k /\ u <= v /\ o \in Nat /\ v = u + o
  <2>1. u \in Nat /\ v \in Nat /\ m \in Nat /\ m = v + k
    BY <1>3a, <1>5
  <2>2. u <= v
    <3>1. CASE x.open_batch
      BY <1>2, <2>1, <3>1
    <3>2. CASE ~x.open_batch
      BY <1>2, <1>3a, <3>2
    <3> QED BY <3>1, <3>2
  <2> HIDE DEF u, v, m
  <2> QED BY <2>1, <2>2
<1>7. (\A p \in 1 .. u : f[p] = a[p]) /\ \A p \in u + 1 .. v : f[p].kind = "BEGIN"
  <2>1. CASE x.open_batch
    <3>1. y.buf = a /\ v = u
      BY <1>2, <2>1
    <3>2. \A p \in u + 1 .. v : FALSE
      <4> HIDE DEF u, v
      <4> QED BY <1>6, <3>1
    <3> QED BY <1>5, <3>1, <3>2
  <2>2. CASE ~x.open_batch
    <3>1. u = 0 /\ v = 1 /\ f[1] = y.buf[1]
      BY <1>2, <1>3a, <1>5, <2>2
    <3>2. y.buf[1].kind = "BEGIN"
      BY <1>2 DEF Begun
    <3> HIDE DEF u, v
    <3>3. (\A p \in u + 1 .. v : p = 1) /\ \A p \in 1 .. u : FALSE
      BY <3>1
    <3> QED BY <3>1, <3>2, <3>3
  <2> QED BY <2>1, <2>2
<1>8. \E e \in Seq(Recs) : TailOf(f, a, e)
  <2>1. Len(a) <= Len(f)
    <3>1. u <= m
      <4> HIDE DEF u, v, m
      <4> QED BY <1>6
    <3> QED BY <3>1
  <2> QED BY <1>3a, <1>7, <2>1, TailIs
<1>9. PICK e \in Seq(Recs) : f = a \o e /\ Len(e) = m - u /\ \A p \in 1 .. m - u : e[p] = f[u + p]
  BY <1>8 DEF TailOf
<1>10. Extended(x, z, e)
  BY <1>9 DEF Extended
<1>5a. \A i \in 1 .. k : /\ f[v + i].kind = "SAMPLE" /\ f[v + i].ns = n
                         /\ f[v + i].gen = gen /\ f[v + i].val = first + i - 1
  BY <1>5
<1> HIDE DEF u, v, m, o, f, a
<1>11. SamplesFrom(e, o, n, gen, first, k)
  <2>1. Len(e) = o + k
    BY <1>6, <1>9
  <2>2. ASSUME NEW p \in 1 .. o PROVE e[p].kind = "BEGIN"
    <3>1. p \in 1 .. m - u /\ u + p \in u + 1 .. v
      BY <1>6
    <3> QED BY <1>7, <1>9, <3>1
  <2>3. ASSUME NEW i \in 1 .. k PROVE /\ e[o + i].kind = "SAMPLE" /\ e[o + i].ns = n
                                      /\ e[o + i].gen = gen /\ e[o + i].val = first + i - 1
    <3>1. o + i \in 1 .. m - u /\ u + (o + i) = v + i
      BY <1>6
    <3>2. e[o + i] = f[v + i]
      BY <1>9, <3>1
    <3> QED BY <1>5a, <3>2
  <2> QED BY <2>1, <2>2, <2>3 DEF SamplesFrom
<1>12. o \in Nat
  BY <1>6
<1> QED BY <1>3, <1>4, <1>10, <1>11, <1>12 DEF AddsSamples, z

\* What the card holds, and the boot a batch is of.
BatchOf(x) == \A p \in 1 .. Len(x.buf) : x.buf[p].boot = x.boot_id

LEMMA CardIs ==
  ASSUME NEW d, NEW x, NEW at \in Calls, NEW res, WalOK(d, x, at, res)
  PROVE  /\ Sure(d, x) \in Seq(Recs) /\ x.buf \in Seq(Recs) /\ x \in WType /\ x.boot_id \in Nat /\ BatchOf(x)
         /\ CardLog(d) = Sure(d, x) \/ (at \in Sealing /\ CardLog(d) = Sure(d, x) \o x.buf)
<1>1. DiskOK(d) /\ d \in Seq(Segs)
  BY DEF WalOK, DiskOK
<1>2. CardLog(d) \in Seq(Recs)
  BY <1>1, CardIsPrefix
<1>3. CASE at \in Sealing
  <2>1. Sealed(d, x)
    BY <1>3 DEF WalOK, Sealing
  <2>2. x \in WType /\ Numbered(x)
    BY <2>1 DEF Sealed, Filled
  <2> QED BY <1>1, <1>3, <2>1, <2>2, SealedIsSure DEF WType, BatchOf, Numbered
<1>4. CASE at \notin Sealing
  <2>1. Filling(x)
    BY <1>4 DEF Sealing, Calls, WalOK, Ready, NoBatch
  <2>2. x \in WType /\ x.open_batch \in BOOLEAN
    BY <2>1 DEF Filling, WType
  <2>3. BatchOf(x)
    <3>1. CASE x.open_batch
      BY <2>1, <3>1 DEF Filling, BatchOf, Numbered
    <3>2. CASE ~x.open_batch
      <4>1. x.buf = <<>>
        BY <2>1, <3>2 DEF Filling
      <4>2. Len(x.buf) = 0
        BY <4>1
      <4>3. \A p \in 1 .. Len(x.buf) : FALSE
        BY <4>2
      <4> QED BY <4>3 DEF BatchOf
    <3> QED BY <3>1, <3>2
  <2>4. Sure(d, x) = CardLog(d)
    <3>1. CASE at = "idle"
      BY <1>1, <3>1, ReadyIsSure DEF WalOK
    <3>2. CASE at \in {"create", "dirsync"}
      BY <3>2 DEF WalOK, Sure
    <3>3. CASE at \in {"cut", "cutsync"}
      BY <3>3, CutSure
    <3> QED BY <1>4, <3>1, <3>2, <3>3 DEF Sealing, Calls
  <2> QED BY <1>2, <2>2, <2>3, <2>4 DEF WType
<1> QED BY <1>3, <1>4

LEMMA CardNow ==
  ASSUME WalInv, OneInv
  PROVE  /\ SureNow \in Seq(Recs) /\ w.buf \in Seq(Recs) /\ w \in WType /\ w.boot_id \in Nat /\ BatchOf(w)
         /\ CardLog(disk) = SureNow \/ (wpc \in Sealing /\ CardLog(disk) = SureNow \o w.buf)
BY CardIs DEF WalInv, OneInv, SureNow

LEMMA CardNext ==
  ASSUME WalInv', OneInv'
  PROVE  /\ SureNow' \in Seq(Recs) /\ w'.buf \in Seq(Recs) /\ w' \in WType /\ w'.boot_id \in Nat /\ BatchOf(w')
         /\ CardLog(disk') = SureNow' \/ (wpc' \in Sealing /\ CardLog(disk') = SureNow' \o w'.buf)
BY CardIs DEF WalInv, OneInv, SureNow

---------------------------------------------------------------------------
(* Boots count up *)

\* Nothing is of an earlier boot than what is in front of it, and no two boots are the same.
Rising(f) ==
  \A i, j \in 1 .. Len(f) :
    i < j => f[i].boot <= f[j].boot /\ (f[i].kind = "BOOT" /\ f[j].kind = "BOOT" => f[i].boot < f[j].boot)

UpTo(f, m)  == \A i \in 1 .. Len(f) : f[i].boot <= m
Under(f, m) == \A i \in 1 .. Len(f) : f[i].boot < m
NoBoot(f)   == \A i \in 1 .. Len(f) : f[i].kind # "BOOT"

\* A batch of boot m that goes behind f.
FitsBehind(b, f, m) ==
  /\ \A i \in 1 .. Len(b) : b[i].boot = m
  /\ \/ NoBoot(b)
     \/ Under(f, m) /\ \A i, j \in 1 .. Len(b) : b[i].kind = "BOOT" /\ b[j].kind = "BOOT" => i = j

CountInv ==
  /\ Rising(SureNow)
  /\ pc # "down" => UpTo(SureNow, w.boot_id)
  /\ wpc \in Opening => Under(SureNow, w.boot_id)
  /\ wpc \notin Sealing => NoBoot(w.buf)
  /\ wpc \in Sealing => Rising(SureNow \o w.buf) /\ UpTo(SureNow \o w.buf, w.boot_id)

LEMMA RisingCat ==
  ASSUME NEW f \in Seq(Recs), NEW b \in Seq(Recs), NEW m \in Nat, Rising(f), UpTo(f, m), FitsBehind(b, f, m)
  PROVE  Rising(f \o b) /\ UpTo(f \o b, m)
<1> DEFINE h == f \o b
           k == Len(f)
           l == Len(b)
           z == Len(h)
<1>1. k \in Nat /\ l \in Nat /\ z = k + l
  BY CatIs
<1>2. (\A p \in 1 .. k : h[p] = f[p]) /\ \A p \in 1 .. l : h[k + p] = b[p]
  BY CatIs
<1>3. (\A p \in 1 .. k : f[p] \in Recs /\ f[p].boot \in Nat) /\ \A p \in 1 .. l : b[p] \in Recs /\ b[p].boot \in Nat
  <2>1. (\A p \in 1 .. k : f[p] \in Recs) /\ \A p \in 1 .. l : b[p] \in Recs
    OBVIOUS
  <2> HIDE DEF k, l
  <2> QED BY <2>1 DEF Recs
<1>4. (\A p \in 1 .. k : f[p].boot <= m) /\ \A p \in 1 .. l : b[p].boot = m
  BY DEF UpTo, FitsBehind
<1>5. \A i, j \in 1 .. k : i < j => f[i].boot <= f[j].boot /\ (f[i].kind = "BOOT" /\ f[j].kind = "BOOT" => f[i].boot < f[j].boot)
  BY DEF Rising
<1>6. \/ \A p \in 1 .. l : b[p].kind # "BOOT"
      \/ (\A p \in 1 .. k : f[p].boot < m) /\ \A i, j \in 1 .. l : b[i].kind = "BOOT" /\ b[j].kind = "BOOT" => i = j
  BY DEF FitsBehind, NoBoot, Under
<1> HIDE DEF h, k, l, z
<1>7. ASSUME NEW p \in 1 .. z PROVE p \in 1 .. k \/ (p - k \in 1 .. l /\ p = k + (p - k))
  BY <1>1
<1>8. ASSUME NEW p \in 1 .. z PROVE h[p].boot <= m
  BY <1>2, <1>3, <1>4, <1>7
<1>9. ASSUME NEW i \in 1 .. z, NEW j \in 1 .. z, i < j
      PROVE  h[i].boot <= h[j].boot /\ (h[i].kind = "BOOT" /\ h[j].kind = "BOOT" => h[i].boot < h[j].boot)
  <2>1. CASE j \in 1 .. k
    <3>1. i \in 1 .. k
      BY <1>1, <1>9, <2>1
    <3> QED BY <1>2, <1>5, <1>9, <2>1, <3>1
  <2>2. CASE j - k \in 1 .. l /\ j = k + (j - k)
    <3>1. h[j] = b[j - k] /\ h[j].boot = m
      BY <1>2, <1>4, <2>2
    <3>2. CASE i \in 1 .. k
      <4>1. h[i] = f[i] /\ h[i].boot <= m
        BY <1>2, <1>4, <3>2
      <4> QED BY <1>6, <2>2, <3>1, <3>2, <4>1
    <3>3. CASE i - k \in 1 .. l /\ i = k + (i - k)
      <4>1. h[i] = b[i - k] /\ h[i].boot = m
        BY <1>2, <1>4, <3>3
      <4>2. i - k # j - k
        BY <1>1, <1>9
      <4> QED BY <1>6, <2>2, <3>1, <3>3, <4>1, <4>2
    <3> QED BY <1>7, <3>2, <3>3
  <2> QED BY <1>7, <2>1, <2>2
<1>10. Rising(h) /\ UpTo(h, m)
  BY <1>8, <1>9 DEF Rising, UpTo, z
<1> QED BY <1>10 DEF h

\* The batches main makes.
LEMMA TripleFits ==
  ASSUME NEW b, NEW m, NEW kind, NEW ns, NEW gen, Triple(b, m, kind, ns, gen)
  PROVE  \A f : (kind # "BOOT" \/ Under(f, m)) => FitsBehind(b, f, m)
<1>1. Len(b) = 3 /\ b[1].kind = "BEGIN" /\ b[3].kind = "COMMIT" /\ b[2].kind = kind /\ \A p \in 1 .. 3 : b[p].boot = m
  BY DEF Triple
<1>2. \A p \in 1 .. 3 : p = 1 \/ p = 2 \/ p = 3
  OBVIOUS
<1>3. \A i \in 1 .. Len(b) : i \in 1 .. 3
  BY <1>1
<1>4. \A i \in 1 .. Len(b) : b[i].kind = "BOOT" => i = 2 /\ kind = "BOOT"
  BY <1>1, <1>2, <1>3
<1> QED BY <1>1, <1>3, <1>4 DEF FitsBehind, NoBoot

LEMMA PlainFits == ASSUME NEW x, BatchOf(x), NoBoot(x.buf) PROVE \A f : FitsBehind(x.buf, f, x.boot_id)
BY DEF FitsBehind, BatchOf

\* More of the batch that is no boot record.
LEMMA ExtendedNoBoot ==
  ASSUME NEW x, x.buf \in Seq(Recs), NEW z, NEW e, Extended(x, z, e), NoBoot(x.buf), NoBoot(e)
  PROVE  NoBoot(z.buf)
<1> DEFINE a == x.buf
           h == a \o e
           k == Len(a)
           l == Len(e)
<1>1. a \in Seq(Recs) /\ e \in Seq(Recs) /\ z.buf = h
  BY DEF Extended
<1>2. Len(h) = k + l /\ (\A p \in 1 .. k : h[p] = a[p]) /\ (\A p \in 1 .. l : h[k + p] = e[p]) /\ k \in Nat /\ l \in Nat
  BY <1>1, CatIs
<1>3. (\A p \in 1 .. k : a[p].kind # "BOOT") /\ \A p \in 1 .. l : e[p].kind # "BOOT"
  BY DEF NoBoot
<1> HIDE DEF a, h, k, l
<1>4. ASSUME NEW p \in 1 .. k + l PROVE h[p].kind # "BOOT"
  <2>1. p \in 1 .. k \/ (p - k \in 1 .. l /\ p = k + (p - k))
    BY <1>2
  <2> QED BY <1>2, <1>3, <2>1
<1> QED BY <1>1, <1>2, <1>4 DEF NoBoot

\* A front of it is as well.
LEMMA RisingFront == ASSUME NEW f, NEW g, Begins(g, f), Len(f) \in Nat, Rising(f) PROVE Rising(g)
<1> DEFINE k == Len(g)
           m == Len(f)
<1>1. k \in Nat /\ k <= m /\ m \in Nat
  BY DEF Begins
<1>2. \A i \in 1 .. k : i \in 1 .. m
  <2> HIDE DEF k, m
  <2> QED BY <1>1
<1> QED BY <1>2 DEF Begins, Rising

LEMMA NoneNoBoot == NoBoot(<<>>)
BY DEF NoBoot

\* A step of main that goes on with the same boot.
LEMMA CountKept ==
  ASSUME WalInv', OneInv', CountInv, SureNow' = SureNow, SameScan(w, w'), pc # "down", wpc' \notin Opening, NoBoot(w'.buf)
  PROVE  CountInv'
<1>1. SureNow' \in Seq(Recs) /\ w'.buf \in Seq(Recs) /\ w'.boot_id \in Nat /\ BatchOf(w')
  BY CardNext
<1>2. Rising(SureNow') /\ UpTo(SureNow', w'.boot_id)
  BY DEF CountInv, SameScan
<1>3. FitsBehind(w'.buf, SureNow', w'.boot_id)
  BY <1>1, PlainFits
<1>4. Rising(SureNow' \o w'.buf) /\ UpTo(SureNow' \o w'.buf, w'.boot_id)
  BY <1>1, <1>2, <1>3, RisingCat
<1> QED BY <1>2, <1>4 DEF CountInv

\* The process is gone.
LEMMA CountDown ==
  ASSUME WalInv', OneInv', pc' = "down", wpc' = "idle", w' = Closed, Rising(CardLog(disk'))
  PROVE  CountInv'
<1>1. SureNow' = CardLog(disk')
  BY IdleIsSureNext
<1>2. w'.buf = <<>>
  BY DEF Closed
<1> QED BY <1>1, <1>2, NoneNoBoot DEF CountInv, Opening, Sealing

\* wal_open's boot is above all that is in the log.
LEMMA RereadBoot ==
  ASSUME DiskOK(disk), Rereads, Rising(CardLog(disk))
  PROVE  Under(CardLog(disk), w'.boot_id)
<1> DEFINE f == File(disk)
           k == GoodLength(f)
           c == CardLog(disk)
<1>1. disk \in Seq(Segs) /\ f \in Seq(Recs)
  BY FileType DEF DiskOK
<1>2. c \in Seq(Recs) /\ Len(c) = k /\ k \in 0 .. Len(f) /\ Whole(f, k) /\ \A p \in 1 .. k : c[p] = f[p]
  BY <1>1, CardIsPrefix
<1>3. CASE k = 0
  BY <1>2, <1>3 DEF Under
<1>4. CASE k # 0
  <2>1. w'.boot_id = Scan(f).last_boot_id + 1
    <3>1. Len(c) # 0
      BY <1>2, <1>4
    <3>2. c # <<>>
      BY <3>1
    <3> QED BY <3>2 DEF Rereads
  <2>2. k \in Nat /\ k > 0 /\ k \in 1 .. k
    BY <1>1, <1>2, <1>4
  <2>3. Scan(f).last_boot_id = f[k].boot
    <3>1. FindsPrefix(f)
      BY <1>1, EveryScanFindsPrefix
    <3> HIDE DEF f
    <3> QED BY <2>2, <3>1 DEF FindsPrefix
  <2>4. \A p \in 1 .. k : c[p].boot \in Nat
    <3>1. \A p \in 1 .. Len(c) : c[p] \in Recs
      BY <1>2
    <3> QED BY <1>2, <3>1 DEF Recs
  <2>5. \A i, j \in 1 .. k : i < j => c[i].boot <= c[j].boot
    BY <1>2 DEF Rising
  <2>6. c[k] = f[k]
    BY <1>2, <2>2
  <2> HIDE DEF f, k, c
  <2>7. ASSUME NEW i \in 1 .. k PROVE c[i].boot < w'.boot_id
    <3>1. i = k \/ i < k
      BY <2>2
    <3>2. c[i].boot <= c[k].boot
      BY <2>2, <2>4, <2>5, <3>1
    <3> QED BY <2>1, <2>2, <2>3, <2>4, <2>6, <3>2
  <2> QED BY <1>2, <2>7 DEF Under, c
<1> QED BY <1>3, <1>4

LEMMA UnderUpTo == ASSUME NEW f \in Seq(Recs), NEW m \in Nat, Under(f, m) PROVE UpTo(f, m)
<1>1. \A i \in 1 .. Len(f) : f[i] \in Recs
  OBVIOUS
<1> QED BY <1>1 DEF Under, UpTo, Recs

LEMMA StartCount ==
  ASSUME WalInv, WalInv', MainInv, OneInv, OneInv', CountInv, Start
  PROVE  CountInv'
<1>1. SureNow' = SureNow /\ SureNow = CardLog(disk) /\ disk' = disk /\ DiskOK(disk)
  BY MainSure DEF MainStep, WalInv, WalOK
<1>2. Reopens /\ Rereads
  BY <1>1, OpenSeq DEF Start
<1>3. Rising(SureNow') /\ Under(SureNow', w'.boot_id)
  BY <1>1, <1>2, RereadBoot DEF CountInv
<1>4. SureNow' \in Seq(Recs) /\ w'.buf \in Seq(Recs) /\ w'.boot_id \in Nat
  BY CardNext
<1>5. UpTo(SureNow', w'.boot_id)
  BY <1>3, <1>4, UnderUpTo
<1>6. CASE wpc' \in Opening /\ w'.buf = <<>>
  BY <1>3, <1>5, <1>6, NoneNoBoot DEF CountInv, Opening, Sealing
<1>7. CASE wpc' = "write" /\ Triple(w'.buf, w'.boot_id, "BOOT", 0, 0)
  <2>1. FitsBehind(w'.buf, SureNow', w'.boot_id)
    BY <1>3, <1>7, TripleFits
  <2>2. Rising(SureNow' \o w'.buf) /\ UpTo(SureNow' \o w'.buf, w'.boot_id)
    BY <1>3, <1>4, <1>5, <2>1, RisingCat
  <2> QED BY <1>3, <1>5, <1>7, <2>2 DEF CountInv, Opening, Sealing
<1> QED BY <1>2, <1>6, <1>7 DEF Reopens

LEMMA TripleNoBoot ==
  ASSUME NEW b, NEW m, NEW kind, kind # "BOOT", NEW ns, NEW gen, Triple(b, m, kind, ns, gen)
  PROVE  NoBoot(b)
<1>1. Len(b) = 3 /\ b[1].kind = "BEGIN" /\ b[3].kind = "COMMIT" /\ b[2].kind = kind
  BY DEF Triple
<1>2. \A p \in 1 .. Len(b) : p = 1 \/ p = 2 \/ p = 3
  BY <1>1
<1> QED BY <1>1, <1>2 DEF NoBoot

\* The batch of a commit, as x was before it.
LEMMA CommitNoBoot ==
  ASSUME WalInv', MainInv, NEW x, Filling(x), NoBoot(x.buf), CallCommit(NoteRingSeqs(x))
  PROVE  NoBoot(w'.buf)
<1> DEFINE z == NoteRingSeqs(x)
<1>1. NotesOf(x, z, NS)
  BY NoteSeqsIs
<1> HIDE DEF z
<1>2. Filling(z) /\ x.buf \in Seq(Recs) /\ z.buf \in Seq(Recs) /\ CallCommit(z)
  BY <1>1 DEF NotesOf, Filling, WType, z
<1>3. NoBoot(z.buf)
  <2>1. PICK e : Extended(x, z, e) /\ \A p \in 1 .. Len(e) : e[p].kind = "BEGIN" \/ OwnMark(e[p])
    BY <1>1 DEF NotesOf
  <2>2. NoBoot(e)
    BY <2>1 DEF NoBoot, OwnMark
  <2> QED BY <1>2, <2>1, <2>2, ExtendedNoBoot
<1>4. CASE z.open_batch
  <2>1. StartCommit("commit", z)
    BY <1>2, <1>4 DEF CallCommit
  <2>2. PICK e : Extended(z, w', e) /\ Len(e) = 1 /\ e[1].kind = "COMMIT"
    BY <1>2, <2>1, BeginsSure
  <2>3. NoBoot(e)
    <3>1. \A p \in 1 .. Len(e) : p = 1
      BY <2>2
    <3> QED BY <2>2, <3>1 DEF NoBoot
  <2> QED BY <1>2, <1>3, <2>2, <2>3, ExtendedNoBoot
<1>5. CASE ~z.open_batch
  BY <1>2, <1>3, <1>5, CommitSeq
<1> QED BY <1>4, <1>5

LEMMA MainCount ==
  ASSUME WalInv, WalInv', MainInv, OneInv, OneInv', CountInv, MainStep
  PROVE  CountInv'
<1>1. SureNow' = SureNow /\ SureNow = CardLog(disk) /\ disk' = disk
  BY MainSure
<1>2. wpc = "idle" /\ Ready(disk, w) /\ Filling(w) /\ NoBoot(w.buf)
  BY MainIdle DEF Ready, CountInv, Sealing
<1>3. CASE Start
  BY <1>3, StartCount
<1>4. CASE NoteGeneration
  <2>1. NoBatch(w)
    BY <1>2, <1>4 DEF NoteGeneration, OneInv, NoBatch
  <2>2. ni \in Nat /\ rings[ni].gen \in Nat
    BY NsIs DEF MainInv, RingType
  <2>3. wpc' = "write" /\ SameScan(w, w') /\ Triple(w'.buf, w.boot_id, "GEN", ni, rings[ni].gen)
    BY <1>4, <2>1, <2>2, GenSeq DEF NoteGeneration
  <2>4. NoBoot(w'.buf)
    BY <2>3, TripleNoBoot
  <2> QED BY <1>1, <1>4, <2>3, <2>4, CountKept DEF NoteGeneration, Opening
<1>5. CASE Flush \/ Stop
  <2>1. CallCommit(NoteRingSeqs(w)) /\ pc # "down"
    BY <1>5 DEF Flush, Stop
  <2>2. NoBoot(w'.buf)
    BY <1>2, <2>1, CommitNoBoot
  <2>3. Filling(NoteRingSeqs(w)) /\ SameLog(w, NoteRingSeqs(w))
    BY <1>2, NoteSeqsIs DEF NotesOf
  <2>4. SameScan(NoteRingSeqs(w), w') /\ wpc' \in {"write", "idle"}
    BY <2>1, <2>3, CommitSeq
  <2> QED BY <1>1, <2>1, <2>2, <2>3, <2>4, CountKept DEF Opening, SameScan, SameLog
<1>6. CASE StopDone \/ StopRelease
  <2>1. NoBatch(w) /\ pc # "down"
    BY <1>2, <1>6 DEF StopDone, StopRelease, OneInv, NoBatch, WalInv, WalOK
  <2>2. CASE w' = w /\ wpc' = wpc
    BY <1>1, <1>2, <2>1, <2>2, CountKept DEF Opening, SameScan
  <2>3. CASE CallClose(w)
    <3>1. wpc' = "write" /\ SameScan(w, w') /\ Triple(w'.buf, w.boot_id, "SHUTDOWN", 0, 0)
      BY <2>1, <2>3, CloseSeq
    <3>2. NoBoot(w'.buf)
      BY <3>1, TripleNoBoot
    <3> QED BY <1>1, <2>1, <3>1, <3>2, CountKept DEF Opening
  <2> QED BY <1>6, <2>2, <2>3 DEF StopDone, StopRelease
<1>7. CASE OpenDone \/ NoteDone \/ CloseDone \/ Idle \/ FlushDone \/ Release
  <2>1. CASE w' = w /\ wpc' = wpc /\ pc # "down"
    BY <1>1, <1>2, <2>1, CountKept DEF Opening, SameScan
  <2>2. CASE pc' = "down" /\ wpc' = "idle" /\ w' = Closed
    BY <1>1, <2>2, CountDown DEF CountInv
  <2> QED BY Zenon, <1>7, <2>1, <2>2 DEF OpenDone, NoteDone, CloseDone, Idle, FlushDone, Release, Exit, wvars
<1>8. CASE Drain
  <2>1. wpc' = "idle" /\ pc # "down"
    BY <1>2, <1>8 DEF Drain
  <2>2. CASE w' = w
    BY <1>1, <1>2, <2>1, <2>2, CountKept DEF Opening, SameScan
  <2>3. CASE w' # w
    <3> DEFINE k == Adds(ni)
               s == rings[ni].tail + srcs[ni].taken + Skips(ni)
    <3>1. w' = WalAddSamples(w, ni, rings[ni].gen, s, k) /\ w.batch_samples < BatchSamples
      BY <1>8, <2>3 DEF Drain
    <3>2. w \in WType /\ ni \in NS /\ ~Freed(ni)
      BY <1>2, <1>8 DEF MainInv, Filling, Freed, Drain
    <3>3. DrainOK(ni)
      BY <3>1, <3>2, DrainAmounts
    <3>4. k \in Nat /\ Skips(ni) \in Nat /\ ni \in Nat /\ rings[ni] \in RingType /\ srcs[ni] \in SrcType
      BY <3>2, <3>3, NsIs DEF DrainOK, MainInv
    <3>5. s \in Nat /\ rings[ni].gen \in Nat
      BY <3>4 DEF RingType, SrcType
    <3> HIDE DEF k, s
    <3>6. k # 0
      BY <2>3, <3>1 DEF WalAddSamples
    <3>7. AddsSamples(w, w', ni, rings[ni].gen, s, k)
      BY <1>2, <3>1, <3>4, <3>5, <3>6, SamplesExtend
    <3>8. PICK e : Extended(w, w', e) /\ \E o \in Nat : SamplesFrom(e, o, ni, rings[ni].gen, s, k)
      BY <3>7 DEF AddsSamples
    <3>9. PICK o \in Nat : SamplesFrom(e, o, ni, rings[ni].gen, s, k)
      BY <3>8
    <3>10. NoBoot(e)
      <4>1. Len(e) = o + k /\ (\A p \in 1 .. o : e[p].kind = "BEGIN") /\ \A i \in 1 .. k : e[o + i].kind = "SAMPLE"
        BY <3>9 DEF SamplesFrom
      <4>2. ASSUME NEW p \in 1 .. o + k PROVE e[p].kind # "BOOT"
        <5>1. p \in 1 .. o \/ (p - o \in 1 .. k /\ p = o + (p - o))
          BY <3>4
        <5> QED BY <4>1, <5>1
      <4> QED BY <4>1, <4>2 DEF NoBoot
    <3>11. w.buf \in Seq(Recs) /\ SameScan(w, w')
      BY <3>2, <3>7 DEF WType, AddsSamples, SameLog, SameScan
    <3>12. NoBoot(w'.buf)
      BY <1>2, <3>8, <3>10, <3>11, ExtendedNoBoot
    <3> QED BY <1>1, <2>1, <3>11, <3>12, CountKept DEF Opening
  <2> QED BY <2>2, <2>3
<1> QED BY <1>3, <1>4, <1>5, <1>6, <1>7, <1>8 DEF MainStep

LEMMA LogCount ==
  ASSUME WalInv, WalInv', OneInv, OneInv', CountInv, SeqMoves, wpc \in Calls, pc' = pc, pc # "down"
  PROVE  CountInv'
<1>1. SameScan(w, w') /\ w'.boot_id = w.boot_id
  BY DEF SeqMoves, SameScan
<1>2. CASE GoesOn
  BY <1>1, <1>2 DEF GoesOn, CountInv, Sealing, Opening
<1>3. CASE BootsNow
  <2>1. SureNow' \in Seq(Recs) /\ w'.buf \in Seq(Recs) /\ w'.boot_id \in Nat
    BY CardNext
  <2>2. Rising(SureNow') /\ Under(SureNow', w'.boot_id) /\ UpTo(SureNow', w'.boot_id)
    BY <1>1, <1>3 DEF BootsNow, CountInv
  <2>3. FitsBehind(w'.buf, SureNow', w'.boot_id)
    BY <1>1, <1>3, <2>2, TripleFits DEF BootsNow
  <2>4. Rising(SureNow' \o w'.buf) /\ UpTo(SureNow' \o w'.buf, w'.boot_id)
    BY <2>1, <2>2, <2>3, RisingCat
  <2> QED BY <1>3, <2>2, <2>4 DEF BootsNow, CountInv, Opening, Sealing
<1>4. CASE Accepts
  BY <1>1, <1>4, NoneNoBoot DEF Accepts, CountInv, Opening, Sealing
<1>5. CASE GivesUp
  BY <1>1, <1>5, NoneNoBoot DEF GivesUp, CountInv, Opening, Sealing
<1> QED BY <1>2, <1>3, <1>4, <1>5 DEF SeqMoves

LEMMA CountNext ==
  ASSUME OrderAssumption, OrderInv, OrderInv', OneInv, OneInv', CountInv, Unrolled, Unrolled', [Next]_vars
  PROVE  CountInv'
<1>1. WalInv /\ WalInv' /\ MainInv /\ DiskOK(disk)
  BY DEF OrderInv, WalInv, WalOK
<1>2. CASE MainStep
  BY <1>1, <1>2, MainCount
<1>3. CASE LogStep
  <2>1. SeqMoves /\ pc' = pc /\ pc # "down" /\ wpc \in Calls
    BY <1>1, <1>3, WalStepSeq DEF LogStep, svars, OrderAssumption, OneInv
  <2> QED BY <1>1, <2>1, LogCount
<1>4. CASE Kill \/ PowerCut
  <2>1. pc' = "down" /\ wpc' = "idle" /\ w' = Closed
    BY <1>4 DEF Kill, PowerCut, Gone, WalKilled, WalPowerCut
  <2>2. Rising(CardLog(disk))
    BY <1>1, CardNow DEF CountInv
  <2>3. Rising(CardLog(disk'))
    <3>1. CASE Kill
      BY <2>2, <3>1 DEF Kill, WalKilled
    <3>2. CASE PowerCut
      <4>1. EntryOK /\ Len(disk) <= 1 /\ WalPowerCut
        BY <3>2 DEF PowerCut, WalPowerCut, Befalls, OrderAssumption, OrderInv, EntryInv, OneInv
      <4>2. Begins(CardLog(disk'), CardLog(disk))
        BY <1>1, <4>1, PowerSeq
      <4>3. Len(CardLog(disk)) \in Nat
        BY <1>1, CardIsPrefix DEF DiskOK
      <4> QED BY <2>2, <4>2, <4>3, RisingFront
    <3> QED BY <1>4, <3>1, <3>2
  <2> QED BY <1>1, <2>1, <2>3, CountDown
<1>5. CASE (\E n \in NS : Push(n)) \/ Tick \/ Signal \/ UNCHANGED vars
  <2>1. UNCHANGED <<disk, w, wpc, pc>>
    BY <1>5 DEF Push, Tick, Signal, vars, wvars, svars
  <2> QED BY <2>1 DEF CountInv, SureNow
<1> QED BY <1>2, <1>3, <1>4, <1>5 DEF Next

LEMMA EmptyCard == disk = <<>> => File(disk) = <<>> /\ CardLog(disk) = <<>>
<1> SUFFICES ASSUME disk = <<>> PROVE File(disk) = <<>> /\ CardLog(disk) = <<>>
  OBVIOUS
<1>1. disk \in Seq(Segs) /\ File(disk) = <<>>
  BY DEF File
<1>2. CardLog(disk) \in Seq(Recs) /\ Len(CardLog(disk)) \in 0 .. Len(File(disk))
  BY <1>1, CardIsPrefix
<1> QED BY <1>1, <1>2

LEMMA CountInit == Init => CountInv
<1> SUFFICES ASSUME Init PROVE CountInv
  OBVIOUS
<1>1. disk = <<>> /\ w = Closed /\ wpc = "idle" /\ pc = "down"
  BY DEF Init, WalInit
<1>2. SureNow = <<>> /\ w.buf = <<>>
  BY <1>1, EmptyCard DEF SureNow, Sure, Closed
<1> QED BY <1>1, <1>2, NoneNoBoot DEF CountInv, Rising, Opening, Sealing

LEMMA CountSafe == OrderInv /\ OneInv /\ CountInv => BootCountsUp
<1> SUFFICES ASSUME OrderInv, OneInv, CountInv PROVE BootCountsUp
  OBVIOUS
<1>1. WalInv /\ disk \in Seq(Segs) /\ Len(disk) <= 1
  BY DEF OrderInv, WalInv, WalOK, DiskOK, OneInv
<1>2. Log = CardLog(disk) /\ CardLog(disk) \in Seq(Recs)
  BY <1>1, LogIsCard, CardIsPrefix
<1>3. Rising(CardLog(disk))
  BY <1>1, CardNow DEF CountInv
<1>4. Rising(Log) /\ DOMAIN Log = 1 .. Len(Log)
  BY <1>2, <1>3
<1> QED BY <1>4 DEF BootCountsUp, Rising

---------------------------------------------------------------------------
(* A clean end is found *)

\* The file is whole and its last batch is a SHUTDOWN.
ShutEnd(d) ==
  LET f == File(d)
  IN  GoodLength(f) = Len(f) /\ Len(f) > 1 /\ f[Len(f) - 1].kind = "SHUTDOWN"

ShutInv ==
  /\ pc = "down" /\ ended = "clean" => ShutEnd(disk)
  /\ pc = "closing" /\ wret = "ok" => ShutEnd(disk)
  /\ pc = "closing" /\ wpc \in Sealing => Triple(w.buf, w.boot_id, "SHUTDOWN", 0, 0)
  /\ pc = "opening" /\ ended = "clean" => w.prev_end = PrevClean

LEMMA MainShut ==
  ASSUME WalInv, WalInv', MainInv, OneInv, ShutInv, MainStep
  PROVE  ShutInv'
<1>1. wpc = "idle" /\ disk' = disk /\ Ready(disk, w) /\ Filling(w)
  BY MainIdle DEF Ready
<1>2. CASE Start
  <2>1. Rereads
    BY <1>1, <1>2, OpenSeq DEF Start
  <2>2. ended = "clean" => w'.prev_end = PrevClean
    <3> SUFFICES ASSUME ended = "clean" PROVE w'.prev_end = PrevClean
      OBVIOUS
    <3>1. ShutEnd(disk)
      BY <1>2 DEF Start, ShutInv
    <3>2. ~(Len(File(disk)) = 0)
      BY <3>1 DEF ShutEnd
    <3> QED BY <2>1, <3>1, <3>2 DEF Rereads, ShutEnd
  <2> QED BY <1>2, <2>2 DEF Start, ShutInv
<1>3. CASE StopDone \/ StopRelease
  <2>1. NoBatch(w)
    BY <1>1, <1>3 DEF StopDone, StopRelease, OneInv, NoBatch, WalInv, WalOK
  <2>2. CASE pc' = "stop_release"
    BY <2>2 DEF ShutInv
  <2>3. CASE pc' = "closing" /\ CallClose(w)
    <3>1. wret' = "none" /\ SameScan(w, w') /\ Triple(w'.buf, w.boot_id, "SHUTDOWN", 0, 0)
      BY <2>1, <2>3, CloseSeq
    <3> QED BY <2>3, <3>1 DEF ShutInv, SameScan
  <2> QED BY <1>3, <2>2, <2>3 DEF StopDone, StopRelease
<1>4. CASE CloseDone
  <2>1. pc' = "down" /\ (ended' = "clean" => wret = "ok") /\ pc = "closing"
    BY <1>4 DEF CloseDone, Exit
  <2> QED BY <1>1, <2>1 DEF ShutInv
<1>5. CASE OpenDone \/ NoteDone \/ NoteGeneration \/ Drain \/ Flush \/ Idle \/ FlushDone \/ Release \/ Stop
  <2>1. pc' \notin {"closing", "opening"} /\ (pc' = "down" => ended' = "failed")
    BY Zenon, <1>5 DEF OpenDone, NoteDone, NoteGeneration, Drain, Flush, Idle, FlushDone, Release, Stop, Exit, NextTurn
  <2> QED BY <2>1 DEF ShutInv
<1> QED BY <1>2, <1>3, <1>4, <1>5 DEF MainStep

LEMMA CatAt ==
  ASSUME NEW R, NEW a \in Seq(R), NEW b \in Seq(R), NEW p \in 1 .. Len(b)
  PROVE  (a \o b)[Len(a) + p] = b[p] /\ Len(a) \in Nat
OBVIOUS

LEMMA CatThree ==
  ASSUME NEW R, NEW a \in Seq(R), NEW b \in Seq(R), Len(b) = 3
  PROVE  /\ Len(a \o b) = Len(a) + 3 /\ Len(a) \in Nat
         /\ (a \o b)[Len(a) + 2] = b[2]
<1>1. 2 \in 1 .. Len(b)
  OBVIOUS
<1>2. Len(a \o b) = Len(a) + Len(b)
  BY CatIs
<1>3. (a \o b)[Len(a) + 2] = b[2] /\ Len(a) \in Nat
  BY <1>1, CatAt
<1> QED BY <1>2, <1>3

\* A file that ends with a SHUTDOWN batch.
LEMMA TripleEnds ==
  ASSUME NEW d \in Seq(Segs), NEW a \in Seq(Recs), NEW b, NEW m, Triple(b, m, "SHUTDOWN", 0, 0), File(d) = a \o b,
         CardLog(d) = File(d)
  PROVE  ShutEnd(d)
<1> DEFINE f == File(d)
           k == Len(a)
           l == Len(f)
<1>1. b \in Seq(Recs) /\ Len(b) = 3 /\ b[2].kind = "SHUTDOWN"
  BY DEF Triple
<1>2. l = k + 3 /\ k \in Nat /\ f[k + 2] = b[2]
  BY <1>1, CatThree
<1>3. f[k + 2] = b[2]
  BY <1>2
<1>4. GoodLength(f) = l
  BY CardIsPrefix
<1> HIDE DEF k, l, f
<1>5. l > 1 /\ l - 1 = k + 2
  BY <1>2
<1> QED BY <1>1, <1>3, <1>4, <1>5 DEF ShutEnd, l, f

LEMMA ShutNext ==
  ASSUME OrderAssumption, OrderInv, OrderInv', OneInv, SyncedInv, ShutInv, Unrolled, Unrolled', [Next]_vars
  PROVE  ShutInv'
<1>1. WalInv /\ WalInv' /\ MainInv /\ DiskOK(disk)
  BY DEF OrderInv, WalInv, WalOK
<1>2. CASE MainStep
  BY <1>1, <1>2, MainShut
<1>3. CASE LogStep
  <2>1. SeqMoves /\ pc' = pc /\ pc # "down" /\ wpc \in Calls /\ ended' = ended
    BY <1>1, <1>3, WalStepSeq DEF LogStep, svars, hist, OrderAssumption, OneInv
  <2>2. pc = "opening" /\ ended = "clean" => w'.prev_end = PrevClean
    BY <2>1 DEF ShutInv, SeqMoves, SameScan
  <2>3. ASSUME pc = "closing", wpc' \in Sealing PROVE Triple(w'.buf, w'.boot_id, "SHUTDOWN", 0, 0)
    <3>1. wpc \notin Opening
      BY <2>3 DEF OneInv
    <3>2. GoesOn /\ wpc \in Sealing /\ w'.boot_id = w.boot_id
      BY <2>1, <2>3, <3>1 DEF SeqMoves, GoesOn, BootsNow, Accepts, GivesUp, Sealing, SameScan
    <3> QED BY <2>3, <3>2 DEF ShutInv, GoesOn
  <2>4. ASSUME pc = "closing", wret' = "ok" PROVE ShutEnd(disk')
    <3>1. Accepts
      BY <2>1, <2>4 DEF SeqMoves, GoesOn, BootsNow, GivesUp
    <3>2. Triple(w.buf, w.boot_id, "SHUTDOWN", 0, 0)
      BY <2>4, <3>1 DEF ShutInv, Accepts
    <3>3. SureNow' = CardLog(disk')
      BY <1>1, <3>1, IdleIsSureNext DEF Accepts
    <3>4. SureNow \in Seq(Recs) /\ disk' \in Seq(Segs)
      BY <1>1, CardNow DEF WalInv, WalOK, DiskOK
    <3>5. File(disk') = SureNow \o w.buf /\ CardLog(disk') = File(disk')
      BY <3>1, <3>3 DEF Accepts
    <3> QED BY <3>2, <3>4, <3>5, TripleEnds
  <2> QED BY <2>1, <2>2, <2>3, <2>4 DEF ShutInv
<1>4. CASE Kill
  BY <1>4 DEF Kill, Gone, ShutInv
<1>5. CASE PowerCut
  <2>1. pc' = "down" /\ (ended' = "clean" => pc = "down" /\ ended = "clean") /\ WalPowerCut
    BY <1>5 DEF PowerCut, Gone
  <2>2. ASSUME pc = "down", ended = "clean" PROVE ShutEnd(disk')
    <3>1. EntryOK /\ SyncInv /\ Len(disk) <= 1 /\ wpc = "idle"
      BY <1>1, <2>1, <2>2 DEF WalPowerCut, Befalls, OrderAssumption, OrderInv, EntryInv, OneInv, SyncedInv, MainInv, Quiet
    <3>2. File(disk') = File(disk)
      BY <1>1, <2>1, <3>1, SyncedSurvives DEF InWrite
    <3>3. ShutEnd(disk)
      BY <2>2 DEF ShutInv
    <3> QED BY <3>2, <3>3 DEF ShutEnd
  <2> QED BY <2>1, <2>2 DEF ShutInv
<1>6. CASE (\E n \in NS : Push(n)) \/ Tick \/ Signal \/ UNCHANGED vars
  <2>1. UNCHANGED <<disk, w, wpc, wret, pc, ended>>
    BY <1>6 DEF Push, Tick, Signal, vars, wvars, svars, hist
  <2> QED BY <2>1 DEF ShutInv
<1> QED BY <1>2, <1>3, <1>4, <1>5, <1>6 DEF Next

LEMMA ShutInit == Init => ShutInv
BY DEF Init, WalInit, ShutInv

LEMMA ShutSafe == ShutInv => CleanStopIsReported
BY DEF ShutInv, CleanStopIsReported

---------------------------------------------------------------------------
(* As long as no segment has filled up *)

OneSegment == OrderInv /\ OneInv /\ SyncedInv /\ CountInv /\ ShutInv

LEMMA OneSegmentHolds == ASSUME OrderAssumption PROVE Spec /\ []Unrolled => []OneSegment
<1>1. Init => OneSegment
  BY OrderInit, OneInit, SyncedInit, CountInit, ShutInit DEF OneSegment
<1>2. OneSegment /\ Unrolled /\ Unrolled' /\ [Next]_vars => OneSegment'
  <2> SUFFICES ASSUME OneSegment, Unrolled, Unrolled', [Next]_vars PROVE OneSegment'
    OBVIOUS
  <2>1. OrderInv'
    BY OrderNext DEF OneSegment
  <2>2. OneInv'
    BY <2>1, OneNext DEF OneSegment
  <2> QED BY <2>1, <2>2, SyncedNext, CountNext, ShutNext DEF OneSegment
<1> QED BY <1>1, <1>2, PTL DEF Spec

\* boot_id "increments every boot": as long as the log is in its first segment, every boot record has a
\* higher boot_id than all before it, through kills, failing system calls and power cuts (wal_open, wal_scan).
THEOREM EveryBootCountsUp == ASSUME OrderAssumption PROVE Spec /\ []Unrolled => []BootCountsUp
BY OneSegmentHolds, CountSafe, PTL DEF OneSegment

\* As long as the log is in its first segment, after an exit with status 0 the next wal_open finds a clean end,
\* even when the power goes in between (wal_close, recover_segment).
THEOREM EveryCleanStopIsReported == ASSUME OrderAssumption PROVE Spec /\ []Unrolled => []CleanStopIsReported
BY OneSegmentHolds, ShutSafe, PTL DEF OneSegment

---------------------------------------------------------------------------
(* What a sequence of records says of a ring *)

\* Record r notes something of kind about ring n; no record of f does; the last one that does is at p.
Notes(r, kind, n)     == r.kind = kind /\ r.ns = n
Lacks(f, kind, n)     == \A p \in 1 .. Len(f) : ~Notes(f[p], kind, n)
LastAt(f, kind, n, p) == /\ p \in 1 .. Len(f) /\ Notes(f[p], kind, n)
                         /\ \A q \in 1 .. Len(f) : Notes(f[q], kind, n) => q <= p

\* The generation and the ring seq that f gives last.
GenIs(f, n, g) == \E p \in 1 .. Len(f) : LastAt(f, "GEN", n, p) /\ f[p].gen = g
SeqIs(f, n, m) == \E p \in 1 .. Len(f) : LastAt(f, "RSEQ", n, p) /\ f[p].val = m

\* Sample v of generation g of ring n is in f.
Logs(f, n, g, v) == <<n, g, v>> \in SamplesOf(f)

\* What a restart reads off f covers every sample of the ring: its generation is the last one noted
\* and none of its samples is behind the last ring seq.
Covered(f, n, g) ==
  (\E v \in Nat : Logs(f, n, g, v))
    => GenIs(f, n, g) /\ \E m \in Nat : SeqIs(f, n, m) /\ \A v \in Nat : Logs(f, n, g, v) => v <= m

\* A position of two sequences in a row is in one of them.
LEMMA CatEither ==
  ASSUME NEW a \in Seq(Recs), NEW b \in Seq(Recs), NEW q \in 1 .. Len(a \o b)
  PROVE  \/ q \in 1 .. Len(a) /\ (a \o b)[q] = a[q]
         \/ \E p \in 1 .. Len(b) : q = Len(a) + p /\ (a \o b)[q] = b[p]
<1> DEFINE k == Len(a)
           l == Len(b)
           h == a \o b
<1>1. k \in Nat /\ l \in Nat /\ Len(h) = k + l
  BY CatIs
<1>2. (\A p \in 1 .. k : h[p] = a[p]) /\ \A p \in 1 .. l : h[k + p] = b[p]
  BY CatIs
<1> HIDE DEF k, l, h
<1>3. CASE q \in 1 .. k
  BY <1>2, <1>3 DEF k, h
<1>4. CASE q \notin 1 .. k
  <2>1. q \in 1 .. Len(h)
    BY DEF h
  <2>2. q - k \in 1 .. l /\ q = k + (q - k)
    BY <1>1, <1>4, <2>1
  <2>3. \E p \in 1 .. l : q = k + p /\ h[q] = b[p]
    BY <1>2, <2>2, Zenon
  <2> QED BY <2>3 DEF k, l, h
<1> QED BY <1>3, <1>4

\* A sample is in f when one of its records says so.
LEMMA LogsIs ==
  ASSUME NEW f \in Seq(Recs), NEW n, NEW g, NEW v
  PROVE  Logs(f, n, g, v) <=> \E p \in 1 .. Len(f) : f[p].kind = "SAMPLE" /\ f[p].ns = n /\ f[p].gen = g /\ f[p].val = v
<1>1. DOMAIN f = 1 .. Len(f)
  OBVIOUS
<1> QED BY <1>1 DEF Logs, SamplesOf

LEMMA LogsNat ==
  ASSUME NEW f \in Seq(Recs), NEW n, NEW g, NEW v, Logs(f, n, g, v)
  PROVE  n \in Nat /\ g \in Nat /\ v \in Nat
<1>1. PICK p \in 1 .. Len(f) : f[p].kind = "SAMPLE" /\ f[p].ns = n /\ f[p].gen = g /\ f[p].val = v
  BY LogsIs
<1>2. f[p] \in Recs
  OBVIOUS
<1> QED BY <1>1, <1>2 DEF Recs

LEMMA LogsCat ==
  ASSUME NEW a \in Seq(Recs), NEW b \in Seq(Recs), NEW n, NEW g, NEW v
  PROVE  Logs(a \o b, n, g, v) <=> Logs(a, n, g, v) \/ Logs(b, n, g, v)
<1> DEFINE Is(r) == r.kind = "SAMPLE" /\ r.ns = n /\ r.gen = g /\ r.val = v
           h == a \o b
<1>1. h \in Seq(Recs) /\ Len(h) = Len(a) + Len(b) /\ Len(a) \in Nat /\ Len(b) \in Nat
  BY CatIs
<1>2. (\A p \in 1 .. Len(a) : h[p] = a[p]) /\ \A p \in 1 .. Len(b) : h[Len(a) + p] = b[p]
  BY CatIs
<1>3. \A q \in 1 .. Len(h) : \/ q \in 1 .. Len(a) /\ h[q] = a[q]
                             \/ \E p \in 1 .. Len(b) : q = Len(a) + p /\ h[q] = b[p]
  BY CatEither
<1>4. (\A p \in 1 .. Len(a) : p \in 1 .. Len(h)) /\ \A p \in 1 .. Len(b) : Len(a) + p \in 1 .. Len(h)
  BY <1>1
<1> HIDE DEF h
<1>5. Logs(h, n, g, v) <=> \E p \in 1 .. Len(h) : Is(h[p])
  BY <1>1, LogsIs
<1>6. Logs(a, n, g, v) <=> \E p \in 1 .. Len(a) : Is(a[p])
  BY LogsIs
<1>7. Logs(b, n, g, v) <=> \E p \in 1 .. Len(b) : Is(b[p])
  BY LogsIs
<1> HIDE DEF Is
<1>8. (\E p \in 1 .. Len(h) : Is(h[p])) <=> (\E p \in 1 .. Len(a) : Is(a[p])) \/ \E p \in 1 .. Len(b) : Is(b[p])
  BY <1>2, <1>3, <1>4, Zenon
<1> QED BY <1>5, <1>6, <1>7, <1>8 DEF h

LEMMA LogsNone ==
  ASSUME NEW f \in Seq(Recs), \A p \in 1 .. Len(f) : f[p].kind # "SAMPLE", NEW n, NEW g, NEW v
  PROVE  ~Logs(f, n, g, v)
BY LogsIs

\* The last note of two sequences in a row.
LEMMA LastCat ==
  ASSUME NEW a \in Seq(Recs), NEW b \in Seq(Recs), NEW kind, NEW n
  PROVE  /\ \A p \in 1 .. Len(a) : LastAt(a, kind, n, p) /\ Lacks(b, kind, n) => LastAt(a \o b, kind, n, p)
         /\ \A p \in 1 .. Len(b) : LastAt(b, kind, n, p) => LastAt(a \o b, kind, n, Len(a) + p)
<1> DEFINE h == a \o b
           k == Len(a)
           l == Len(b)
<1>1. Len(h) = k + l /\ k \in Nat /\ l \in Nat
  BY CatIs
<1>2. (\A p \in 1 .. k : h[p] = a[p]) /\ \A p \in 1 .. l : h[k + p] = b[p]
  BY CatIs
<1>3. \A q \in 1 .. Len(h) : \/ q \in 1 .. k /\ h[q] = a[q]
                             \/ \E p \in 1 .. l : q = k + p /\ h[q] = b[p]
  BY CatEither
<1> HIDE DEF h, k, l
<1>4. ASSUME NEW p \in 1 .. k, LastAt(a, kind, n, p), Lacks(b, kind, n) PROVE LastAt(h, kind, n, p)
  <2>1. p \in 1 .. Len(h) /\ Notes(h[p], kind, n)
    BY <1>1, <1>2, <1>4 DEF LastAt
  <2>2. ASSUME NEW q \in 1 .. Len(h), Notes(h[q], kind, n) PROVE q <= p
    <3>1. q \in 1 .. k /\ h[q] = a[q]
      BY <1>3, <1>4, <2>2 DEF Lacks, l
    <3> QED BY <1>4, <2>2, <3>1 DEF LastAt, k
  <2> QED BY <2>1, <2>2 DEF LastAt
<1>5. ASSUME NEW p \in 1 .. l, LastAt(b, kind, n, p) PROVE LastAt(h, kind, n, k + p)
  <2>1. k + p \in 1 .. Len(h)
    BY <1>1
  <2>2. Notes(h[k + p], kind, n)
    BY <1>2, <1>5 DEF LastAt
  <2>3. ASSUME NEW q \in 1 .. Len(h), Notes(h[q], kind, n) PROVE q <= k + p
    <3>1. CASE q \in 1 .. k
      BY <1>1, <3>1
    <3>2. CASE \E i \in 1 .. l : q = k + i /\ h[q] = b[i]
      <4>1. PICK i \in 1 .. l : q = k + i /\ h[q] = b[i]
        BY <3>2
      <4>2. i <= p
        BY <1>5, <2>3, <4>1 DEF LastAt, l
      <4> QED BY <1>1, <4>1, <4>2
    <3> QED BY <1>3, <3>1, <3>2
  <2> QED BY <2>1, <2>2, <2>3 DEF LastAt
<1> QED BY <1>4, <1>5 DEF h, k, l

\* A note that b does not have is that of a; one that it has is its own.
LEMMA GenKept ==
  ASSUME NEW a \in Seq(Recs), NEW b \in Seq(Recs), NEW n, NEW g, GenIs(a, n, g), Lacks(b, "GEN", n)
  PROVE  GenIs(a \o b, n, g)
<1>1. PICK p \in 1 .. Len(a) : LastAt(a, "GEN", n, p) /\ a[p].gen = g
  BY DEF GenIs
<1>2. LastAt(a \o b, "GEN", n, p)
  BY <1>1, LastCat
<1>3. (a \o b)[p] = a[p]
  BY CatIs
<1> QED BY <1>1, <1>2, <1>3 DEF GenIs, LastAt

LEMMA GenNew ==
  ASSUME NEW a \in Seq(Recs), NEW b \in Seq(Recs), NEW n, NEW g, GenIs(b, n, g)
  PROVE  GenIs(a \o b, n, g)
<1>1. PICK p \in 1 .. Len(b) : LastAt(b, "GEN", n, p) /\ b[p].gen = g
  BY DEF GenIs
<1>2. LastAt(a \o b, "GEN", n, Len(a) + p)
  BY <1>1, LastCat
<1>3. (a \o b)[Len(a) + p] = b[p]
  BY CatAt
<1> QED BY <1>1, <1>2, <1>3 DEF GenIs, LastAt

LEMMA SeqKept ==
  ASSUME NEW a \in Seq(Recs), NEW b \in Seq(Recs), NEW n, NEW m, SeqIs(a, n, m), Lacks(b, "RSEQ", n)
  PROVE  SeqIs(a \o b, n, m)
<1>1. PICK p \in 1 .. Len(a) : LastAt(a, "RSEQ", n, p) /\ a[p].val = m
  BY DEF SeqIs
<1>2. LastAt(a \o b, "RSEQ", n, p)
  BY <1>1, LastCat
<1>3. (a \o b)[p] = a[p]
  BY CatIs
<1> QED BY <1>1, <1>2, <1>3 DEF SeqIs, LastAt

LEMMA SeqNew ==
  ASSUME NEW a \in Seq(Recs), NEW b \in Seq(Recs), NEW n, NEW m, SeqIs(b, n, m)
  PROVE  SeqIs(a \o b, n, m)
<1>1. PICK p \in 1 .. Len(b) : LastAt(b, "RSEQ", n, p) /\ b[p].val = m
  BY DEF SeqIs
<1>2. LastAt(a \o b, "RSEQ", n, Len(a) + p)
  BY <1>1, LastCat
<1>3. (a \o b)[Len(a) + p] = b[p]
  BY CatAt
<1> QED BY <1>1, <1>2, <1>3 DEF SeqIs, LastAt

\* A batch that says nothing of ring n, one that notes its generation, one with samples and their ring seq.
LEMMA CoveredKept ==
  ASSUME NEW a \in Seq(Recs), NEW b \in Seq(Recs), NEW n, NEW g, Covered(a, n, g),
         Lacks(b, "GEN", n) \/ GenIs(b, n, g), Lacks(b, "RSEQ", n), \A v \in Nat : ~Logs(b, n, g, v)
  PROVE  Covered(a \o b, n, g)
<1> SUFFICES ASSUME NEW u \in Nat, Logs(a \o b, n, g, u)
             PROVE  /\ GenIs(a \o b, n, g)
                    /\ \E m \in Nat : SeqIs(a \o b, n, m) /\ \A v \in Nat : Logs(a \o b, n, g, v) => v <= m
  BY DEF Covered
<1>1. \A v \in Nat : Logs(a \o b, n, g, v) <=> Logs(a, n, g, v)
  BY LogsCat
<1>2. GenIs(a, n, g) /\ \E m \in Nat : SeqIs(a, n, m) /\ \A v \in Nat : Logs(a, n, g, v) => v <= m
  BY <1>1 DEF Covered
<1>3. GenIs(a \o b, n, g)
  BY <1>2, GenKept, GenNew
<1>4. PICK m \in Nat : SeqIs(a, n, m) /\ \A v \in Nat : Logs(a, n, g, v) => v <= m
  BY <1>2
<1>5. SeqIs(a \o b, n, m)
  BY <1>4, SeqKept
<1> QED BY <1>1, <1>3, <1>4, <1>5

LEMMA CoveredMore ==
  ASSUME NEW a \in Seq(Recs), NEW b \in Seq(Recs), NEW n, NEW g, GenIs(a, n, g), Lacks(b, "GEN", n),
         NEW m \in Nat, SeqIs(b, n, m), \A v \in Nat : Logs(a, n, g, v) \/ Logs(b, n, g, v) => v <= m
  PROVE  Covered(a \o b, n, g)
<1>1. \A v \in Nat : Logs(a \o b, n, g, v) <=> Logs(a, n, g, v) \/ Logs(b, n, g, v)
  BY LogsCat
<1>2. GenIs(a \o b, n, g) /\ SeqIs(a \o b, n, m)
  BY GenKept, SeqNew
<1> QED BY <1>1, <1>2 DEF Covered

LEMMA CoveredNone == ASSUME NEW f, NEW n, NEW g, \A v \in Nat : ~Logs(f, n, g, v) PROVE Covered(f, n, g)
BY DEF Covered

\* A sequence that is the front of another says the same as far as it goes.
LEMMA LogsBegins ==
  ASSUME NEW L, NEW K \in Seq(Recs), Begins(L, K), NEW n, NEW g, NEW v, Logs(L, n, g, v)
  PROVE  Logs(K, n, g, v)
<1>1. L \in Seq(Recs) /\ Len(L) \in Nat /\ Len(K) \in Nat /\ Len(L) <= Len(K)
  BY DEF Begins
<1>2. PICK p \in 1 .. Len(L) : L[p].kind = "SAMPLE" /\ L[p].ns = n /\ L[p].gen = g /\ L[p].val = v
  BY <1>1, LogsIs
<1>3. p \in 1 .. Len(K) /\ K[p] = L[p]
  BY <1>1 DEF Begins
<1> QED BY <1>2, <1>3, LogsIs

\* The scan reports the last notes of what it keeps.
LEMMA ScanNotes ==
  ASSUME NEW d \in Seq(Segs), NEW n \in NS
  PROVE  /\ \A g : GenIs(CardLog(d), n, g) => Scan(File(d)).ring_gen[n] = g
         /\ \A m : SeqIs(CardLog(d), n, m) => Scan(File(d)).ring_seq[n].has /\ Scan(File(d)).ring_seq[n].seq = m
<1> DEFINE f == File(d)
           K == CardLog(d)
           k == GoodLength(f)
           s == Scan(f)
           Q(kind) == {0} \cup {p \in 1 .. k : f[p].kind = kind /\ f[p].ns = n}
<1>1. f \in Seq(Recs)
  BY FileType
<1>2. Len(K) = k /\ k \in Nat /\ \A p \in 1 .. k : K[p] = f[p]
  BY CardIsPrefix
<1>3. FindsPrefix(f)
  BY <1>1, EveryScanFindsPrefix
<1>4. /\ s.ring_gen[n] = IF Max(Q("GEN")) = 0 THEN 0 ELSE f[Max(Q("GEN"))].gen
      /\ s.ring_seq[n].has = (Max(Q("RSEQ")) > 0)
      /\ Max(Q("RSEQ")) > 0 => s.ring_seq[n].seq = f[Max(Q("RSEQ"))].val
  BY <1>3 DEF FindsPrefix, LastOf
<1>5. ASSUME NEW kind, NEW p \in 1 .. Len(K), LastAt(K, kind, n, p)
      PROVE  Max(Q(kind)) = p /\ p > 0 /\ K[p] = f[p]
  <2>1. p \in 1 .. k /\ K[p] = f[p]
    BY <1>2
  <2>2. p \in Q(kind)
    BY <1>5, <2>1 DEF LastAt, Notes
  <2>3. \A q \in Q(kind) : q <= p
    BY <1>2, <1>5, <2>1 DEF LastAt, Notes
  <2>4. Q(kind) \in SUBSET (0 .. k)
    BY <1>2
  <2> HIDE DEF Q
  <2>5. Max(Q(kind)) = p
    BY <1>2, <2>2, <2>3, <2>4, MaxIs
  <2> QED BY <2>1, <2>5
<1> HIDE DEF Q, f, K, s
<1>6. ASSUME NEW g, GenIs(K, n, g) PROVE s.ring_gen[n] = g
  <2>1. PICK p \in 1 .. Len(K) : LastAt(K, "GEN", n, p) /\ K[p].gen = g
    BY <1>6 DEF GenIs
  <2> QED BY <1>4, <1>5, <2>1
<1>7. ASSUME NEW m, SeqIs(K, n, m) PROVE s.ring_seq[n].has /\ s.ring_seq[n].seq = m
  <2>1. PICK p \in 1 .. Len(K) : LastAt(K, "RSEQ", n, p) /\ K[p].val = m
    BY <1>7 DEF SeqIs
  <2>2. Max(Q("RSEQ")) = p /\ p > 0 /\ K[p] = f[p]
    BY <1>5, <2>1
  <2> QED BY <1>4, <2>1, <2>2, Zenon
<1> QED BY <1>6, <1>7 DEF f, K, s

---------------------------------------------------------------------------
(* What storaged skips, what it takes and what the log has of it *)

\* Sample v of ring n is in front of what main takes; it is taken, skipped or released.
Passed(n, v)  == v < rings[n].tail \/ (srcs[n].skip /\ v <= srcs[n].skip_seq)
Reached(n, v) == v < rings[n].tail + srcs[n].taken \/ (srcs[n].skip /\ v <= srcs[n].skip_seq)

\* note_generation of ring n is still to come; it is done, or its GEN is on its way.
Unnoted(n)  == pc = "opening" \/ (pc = "note_gen" /\ n >= ni) \/ (pc = "gen_wait" /\ n > ni)
Starting(n) == (pc = "note_gen" /\ n < ni) \/ (pc = "gen_wait" /\ n <= ni)

Filing  == {"drain", "decide", "stop"}
Waiting == {"commit_wait", "stop_wait"}

\* The samples are of rings there have been.
Aged(f) == \A n \in NS : \A g, v \in Nat : Logs(f, n, g, v) => g <= rings[FirstNs].gen

AgeInv ==
  /\ \A n \in NS : rings[n].gen = rings[FirstNs].gen
  /\ Aged(SureNow) /\ Aged(w.buf)
  /\ pc \in {"decide", "commit_wait"} => ni = FirstNs

\* Whenever storaged is killed, what is left of the log covers the samples of the ring.
CoverInv(n) ==
  /\ Covered(SureNow, n, rings[n].gen)
  /\ wpc \in Sealing => Covered(SureNow \o w.buf, n, rings[n].gen)

\* What wal_open found covers them.
FoundInv(n) ==
  Unnoted(n) => \A v \in Nat : Logs(SureNow, n, rings[n].gen, v)
                  => w.ring_gen[n] = rings[n].gen /\ w.ring_seq[n].has /\ v <= w.ring_seq[n].seq

\* What is in the log will not be taken again.
MustPass(n) == Starting(n) \/ pc \in Filing \/ (pc \in Waiting /\ wret # "ok") \/ (pc = "release" /\ n < ni)
MayReach(n) == (pc = "commit_wait" /\ wret = "ok") \/ pc = "release"
PassInv(n) ==
  \A v \in Nat : Logs(SureNow, n, rings[n].gen, v) => (MustPass(n) => Passed(n, v)) /\ (MayReach(n) => Reached(n, v))

\* The log's last word on the ring's generation is this one.
GenKnown(n) ==
  \/ pc = "note_gen" /\ n < ni
  \/ pc = "gen_wait" /\ (n < ni \/ (n = ni /\ wret = "ok"))
  \/ pc \in Filing \cup {"commit_wait", "release"}
KnownInv(n) == GenKnown(n) => GenIs(SureNow, n, rings[n].gen)

\* Nothing is taken.
EmptyInv(n) ==
  pc = "down" \/ Unnoted(n) \/ Starting(n) \/ (pc = "release" /\ n < ni) => srcs[n].taken = 0 /\ srcs[n].added = FALSE

\* The open batch has the slots that are taken and were not skipped, and no others.
HeldOK(n) ==
  /\ Lacks(w.buf, "GEN", n) /\ Lacks(w.buf, "RSEQ", n)
  /\ \A g, v \in Nat : Logs(w.buf, n, g, v)
       => g = rings[n].gen /\ ~Passed(n, v) /\ srcs[n].added /\ v <= srcs[n].last_seq
  /\ srcs[n].added => /\ rings[n].tail <= srcs[n].last_seq
                      /\ srcs[n].last_seq < rings[n].tail + srcs[n].taken
                      /\ srcs[n].skip => srcs[n].skip_seq <= srcs[n].last_seq
  /\ \A v \in rings[n].tail .. rings[n].tail + srcs[n].taken - 1 : Passed(n, v) \/ Logs(w.buf, n, rings[n].gen, v)

\* A batch of wal_open, note_generation or wal_close has no sample, one of main no GEN.
Bare(b, n)     == Lacks(b, "RSEQ", n) /\ Lacks(b, "GEN", n) /\ \A k, v \in Nat : ~Logs(b, n, k, v)
Gives(b, n, g) == Lacks(b, "RSEQ", n) /\ GenIs(b, n, g) /\ \A k, v \in Nat : ~Logs(b, n, k, v)
Laden(n) == Lacks(w.buf, "GEN", n) /\ \A v \in Nat : Logs(w.buf, n, rings[n].gen, v) => Reached(n, v)

HeldInv(n) ==
  /\ pc \in Filing => HeldOK(n)
  /\ wpc \in Sealing => IF pc \in Waiting THEN Laden(n)
                        ELSE IF pc = "gen_wait" /\ n = ni THEN Gives(w.buf, n, rings[n].gen)
                        ELSE Bare(w.buf, n)

RingInv(n) == CoverInv(n) /\ FoundInv(n) /\ PassInv(n) /\ KnownInv(n) /\ EmptyInv(n) /\ HeldInv(n)

SkipInv == AgeInv /\ \A n \in NS : RingInv(n)

---------------------------------------------------------------------------
(* A system call of the log *)

\* The empty batch.
LEMMA NoneLogs ==
  ASSUME NEW n, NEW g, NEW v, NEW kind
  PROVE  ~Logs(<<>>, n, g, v) /\ Lacks(<<>>, kind, n)
<1>1. <<>> \in Seq(Recs) /\ Len(<<>>) = 0
  OBVIOUS
<1>2. \A p \in 1 .. Len(<<>>) : FALSE
  BY <1>1
<1> QED BY <1>1, <1>2, LogsIs DEF Lacks

\* A batch of one record that is no sample.
LEMMA TripleSays ==
  ASSUME NEW b, NEW m, NEW kind, kind \notin {"SAMPLE", "RSEQ"}, NEW ns, NEW gen, Triple(b, m, kind, ns, gen), NEW n
  PROVE  /\ Lacks(b, "RSEQ", n) /\ \A k, v \in Nat : ~Logs(b, n, k, v)
         /\ kind # "GEN" \/ n # ns => Lacks(b, "GEN", n)
         /\ kind = "GEN" /\ n = ns => GenIs(b, n, gen)
<1>1. b \in Seq(Recs) /\ Len(b) = 3 /\ b[1].kind = "BEGIN" /\ b[3].kind = "COMMIT" /\ b[2].kind = kind /\ b[2].ns = ns /\ b[2].gen = gen
  BY DEF Triple
<1>2. \A p \in 1 .. Len(b) : p = 1 \/ p = 2 \/ p = 3
  BY <1>1
<1>3. \A p \in 1 .. Len(b) : b[p].kind \notin {"SAMPLE", "RSEQ"}
  BY <1>1, <1>2
<1>4. Lacks(b, "RSEQ", n) /\ \A k, v \in Nat : ~Logs(b, n, k, v)
  BY <1>1, <1>3, LogsNone DEF Lacks, Notes
<1>5. kind # "GEN" \/ n # ns => Lacks(b, "GEN", n)
  BY <1>1, <1>2 DEF Lacks, Notes
<1>6. ASSUME kind = "GEN", n = ns PROVE GenIs(b, n, gen)
  <2>1. 2 \in 1 .. Len(b) /\ Notes(b[2], "GEN", n)
    BY <1>1, <1>6 DEF Notes
  <2>2. \A q \in 1 .. Len(b) : Notes(b[q], "GEN", n) => q <= 2
    BY <1>1, <1>2 DEF Notes
  <2> QED BY <1>1, <2>1, <2>2 DEF GenIs, LastAt
<1> QED BY <1>4, <1>5, <1>6

LEMMA TripleBare ==
  ASSUME NEW b, NEW m, NEW kind \in {"BOOT", "SHUTDOWN"}, NEW ns, NEW gen, Triple(b, m, kind, ns, gen), NEW n
  PROVE  Bare(b, n)
BY TripleSays DEF Bare

LEMMA TripleOther ==
  ASSUME NEW b, NEW m, NEW ns, NEW gen, Triple(b, m, "GEN", ns, gen), NEW n, n # ns
  PROVE  Bare(b, n)
BY TripleSays DEF Bare

LEMMA TripleGen ==
  ASSUME NEW b, NEW m, NEW n, NEW g, Triple(b, m, "GEN", n, g)
  PROVE  Gives(b, n, g)
BY TripleSays DEF Gives

LEMMA BareCovered ==
  ASSUME NEW a \in Seq(Recs), NEW b \in Seq(Recs), NEW n, NEW g \in Nat, Covered(a, n, g), Bare(b, n) \/ Gives(b, n, g)
  PROVE  Covered(a \o b, n, g)
<1>1. (Lacks(b, "GEN", n) \/ GenIs(b, n, g)) /\ Lacks(b, "RSEQ", n) /\ \A v \in Nat : ~Logs(b, n, g, v)
  BY DEF Bare, Gives
<1> QED BY <1>1, CoveredKept

\* The batch is accepted.
LEMMA AcceptRing ==
  ASSUME WalInv, OneInv, NEW n \in NS, RingInv(n), MainInv, rings[n].gen \in Nat, Accepts, SameScan(w, w'), wret = "none",
         rings' = rings, srcs' = srcs, pc' = pc, ni' = ni
  PROVE  RingInv(n)'
<1> DEFINE K == SureNow
           B == w.buf
           L == SureNow'
           g == rings[n].gen
<1>1. K \in Seq(Recs) /\ B \in Seq(Recs)
  BY CardNow
<1>2. L = K \o B /\ w'.buf = <<>> /\ wret' = "ok" /\ wpc' = "idle" /\ wpc \in Sealing
  BY DEF Accepts
<1>3. pc \in {"opening", "gen_wait", "commit_wait", "stop_wait", "closing"}
  BY <1>2 DEF OneInv, Sealing
<1>4. \A v \in Nat : Logs(L, n, g, v) <=> Logs(K, n, g, v) \/ Logs(B, n, g, v)
  BY <1>1, <1>2, LogsCat
<1>5. pc \notin Waiting => IF pc = "gen_wait" /\ n = ni THEN Gives(B, n, g) ELSE Bare(B, n)
  BY <1>2 DEF RingInv, HeldInv
<1>6. pc \notin Waiting => \A v \in Nat : Logs(L, n, g, v) => Logs(K, n, g, v)
  BY <1>4, <1>5 DEF Bare, Gives
<1>7. CoverInv(n)'
  BY <1>2 DEF RingInv, CoverInv, Sealing
<1>8. FoundInv(n)'
  BY <1>6 DEF RingInv, FoundInv, Unnoted, SameScan, Waiting
<1>9. PassInv(n)'
  <2> SUFFICES ASSUME NEW v \in Nat, Logs(L, n, g, v)
               PROVE  (MustPass(n)' => Passed(n, v)') /\ (MayReach(n)' => Reached(n, v)')
    BY DEF PassInv
  <2>1. CASE pc \in Waiting
    <3>1. ~MustPass(n)'
      BY <1>2, <1>3, <2>1 DEF MustPass, Starting, Filing, Waiting
    <3>2. CASE Logs(B, n, g, v)
      BY <1>2, <2>1, <3>1, <3>2 DEF RingInv, HeldInv, Laden, Reached
    <3>3. CASE Logs(K, n, g, v)
      <4>1. Passed(n, v)
        BY <2>1, <3>3 DEF RingInv, PassInv, MustPass
      <4>2. rings[n].tail \in Nat /\ srcs[n].taken \in Nat
        BY DEF MainInv, RingType, SrcType
      <4> QED BY <3>1, <4>1, <4>2 DEF Passed, Reached
    <3> QED BY <1>4, <3>2, <3>3
  <2>2. CASE pc \notin Waiting
    <3>1. ~MayReach(n)' /\ (MustPass(n)' => MustPass(n))
      BY <1>2, <1>3, <2>2 DEF MayReach, MustPass, Starting, Filing, Waiting
    <3>2. MustPass(n) => Passed(n, v)
      BY <1>6, <2>2 DEF RingInv, PassInv
    <3> QED BY <3>1, <3>2 DEF Passed
  <2> QED BY <2>1, <2>2
<1>10. KnownInv(n)'
  <2> SUFFICES ASSUME GenKnown(n)' PROVE GenIs(L, n, g)
    BY DEF KnownInv
  <2>1. CASE pc = "gen_wait" /\ n = ni
    BY <1>1, <1>2, <1>5, <2>1, GenNew DEF Gives, Waiting
  <2>2. CASE ~(pc = "gen_wait" /\ n = ni)
    <3>1. GenIs(K, n, g) /\ pc \in {"gen_wait", "commit_wait"}
      BY <1>3, <2>2 DEF RingInv, KnownInv, GenKnown, Filing
    <3>2. Lacks(B, "GEN", n)
      BY <1>2, <1>5, <2>2 DEF RingInv, HeldInv, Laden, Bare
    <3> QED BY <1>1, <1>2, <3>1, <3>2, GenKept
  <2> QED BY <2>1, <2>2
<1>11. EmptyInv(n)'
  BY DEF RingInv, EmptyInv, Unnoted, Starting
<1>12. HeldInv(n)'
  BY <1>2, <1>3 DEF HeldInv, Filing, Sealing
<1> QED BY <1>7, <1>8, <1>9, <1>10, <1>11, <1>12 DEF RingInv

\* The call goes on, comes to the boot batch or fails: the committed records stay.
LEMMA StayRing ==
  ASSUME WalInv, OneInv, NEW n \in NS, RingInv(n), rings[n].gen \in Nat, GoesOn \/ BootsNow \/ GivesUp, SameScan(w, w'),
         wpc # "idle", wret = "none", rings' = rings, srcs' = srcs, pc' = pc, ni' = ni
  PROVE  RingInv(n)'
<1> DEFINE K == SureNow
           g == rings[n].gen
<1>1. K \in Seq(Recs) /\ SureNow' = K /\ wret' # "ok"
  BY CardNow DEF GoesOn, BootsNow, GivesUp
<1>2. pc \in {"opening", "gen_wait", "commit_wait", "stop_wait", "closing"}
  BY DEF OneInv
<1>3. CoverInv(n)' /\ HeldInv(n)'
  <2>1. CASE GoesOn
    BY <1>1, <1>2, <2>1 DEF GoesOn, RingInv, CoverInv, HeldInv, Laden, Reached, Filing, Sealing, Opening
  <2>2. CASE BootsNow
    <3>1. Triple(w'.buf, w.boot_id, "BOOT", 0, 0) /\ pc = "opening" /\ w'.buf \in Seq(Recs)
      BY <2>2 DEF BootsNow, OneInv, Triple
    <3>2. Bare(w'.buf, n)
      BY <3>1, TripleBare
    <3>3. Covered(K \o w'.buf, n, g)
      BY <1>1, <3>1, <3>2, BareCovered DEF RingInv, CoverInv
    <3>4. (pc' = "gen_wait" /\ n = ni') = FALSE
      BY <3>1
    <3> QED BY <1>1, <3>1, <3>2, <3>3, <3>4 DEF RingInv, CoverInv, HeldInv, Filing, Waiting
  <2>3. CASE GivesUp
    BY <1>1, <1>2, <2>3 DEF GivesUp, RingInv, CoverInv, HeldInv, Filing, Sealing
  <2> QED BY <2>1, <2>2, <2>3
<1>4. FoundInv(n)' /\ EmptyInv(n)'
  BY <1>1 DEF RingInv, FoundInv, EmptyInv, Unnoted, Starting, SameScan
<1>5. PassInv(n)'
  BY <1>1 DEF RingInv, PassInv, MustPass, MayReach, Passed, Reached, Starting
<1>6. KnownInv(n)'
  BY <1>1 DEF RingInv, KnownInv, GenKnown
<1> QED BY <1>3, <1>4, <1>5, <1>6 DEF RingInv

LEMMA LogSkip ==
  ASSUME WalInv, OneInv, MainInv, SkipInv, SeqMoves, wpc # "idle", rings' = rings, srcs' = srcs, pc' = pc, ni' = ni
  PROVE  SkipInv'
<1>1. wret = "none" /\ \A n \in NS : rings[n].gen \in Nat
  BY DEF WalInv, WalOK, MainInv, RingType
<1>2. \A n \in NS : RingInv(n)'
  BY <1>1, AcceptRing, StayRing DEF SkipInv, SeqMoves
<1>3. SureNow \in Seq(Recs) /\ w.buf \in Seq(Recs)
  BY CardNow
<1>4. Aged(SureNow') /\ Aged(w'.buf)
  <2>1. CASE Accepts
    <3>1. SureNow' = SureNow \o w.buf /\ w'.buf = <<>>
      BY <2>1 DEF Accepts
    <3>2. Aged(SureNow) /\ Aged(w.buf)
      BY DEF SkipInv, AgeInv
    <3>3. ASSUME NEW n \in NS, NEW g \in Nat, NEW v \in Nat, Logs(SureNow \o w.buf, n, g, v)
          PROVE  g <= rings[FirstNs].gen
      <4>1. Logs(SureNow, n, g, v) \/ Logs(w.buf, n, g, v)
        BY <1>3, <3>3, LogsCat
      <4> QED BY <3>2, <4>1 DEF Aged
    <3>4. Aged(SureNow')
      BY <3>1, <3>3 DEF Aged
    <3>5. Aged(w'.buf)
      BY <3>1, NoneLogs DEF Aged
    <3> QED BY <3>4, <3>5
  <2>2. CASE GoesOn
    BY <2>2 DEF GoesOn, SkipInv, AgeInv
  <2>3. CASE GivesUp
    BY <2>3, NoneLogs DEF GivesUp, SkipInv, AgeInv, Aged
  <2>4. CASE BootsNow
    <3>1. Triple(w'.buf, w.boot_id, "BOOT", 0, 0)
      BY <2>4 DEF BootsNow
    <3>2. \A n \in NS : Bare(w'.buf, n)
      BY <3>1, TripleBare
    <3>3. Aged(w'.buf)
      BY <3>2 DEF Aged, Bare
    <3> QED BY <2>4, <3>3 DEF BootsNow, SkipInv, AgeInv
  <2> QED BY <2>1, <2>2, <2>3, <2>4 DEF SeqMoves
<1>5. Aged(SureNow)' /\ Aged(w.buf)'
  BY <1>4 DEF Aged
<1> QED BY <1>2, <1>5 DEF SkipInv, AgeInv

---------------------------------------------------------------------------
(* The process goes *)

\* Main is down, over a log that covers the samples of every ring.
LEMMA DownSkip ==
  ASSUME pc' = "down", wpc' = "idle", w'.buf = <<>>, srcs' = NoSources, \A n \in NS : rings'[n].gen = rings'[FirstNs].gen,
         \A n \in NS : Covered(SureNow', n, rings'[n].gen),
         \A n \in NS : \A g, v \in Nat : Logs(SureNow', n, g, v) => g <= rings'[FirstNs].gen
  PROVE  SkipInv'
<1>1. AgeInv'
  BY NoneLogs DEF AgeInv, Aged
<1>2. ASSUME NEW n \in NS PROVE RingInv(n)'
  <2>1. CoverInv(n)'
    BY DEF CoverInv, Sealing
  <2>2. FoundInv(n)' /\ EmptyInv(n)'
    BY DEF FoundInv, EmptyInv, Unnoted, Starting, NoSources, NoSource
  <2>3. PassInv(n)'
    BY DEF PassInv, MustPass, MayReach, Starting, Filing, Waiting
  <2>4. KnownInv(n)'
    BY DEF KnownInv, GenKnown, Filing
  <2>5. HeldInv(n)'
    BY DEF HeldInv, Filing, Sealing
  <2> QED BY <2>1, <2>2, <2>3, <2>4, <2>5 DEF RingInv
<1> QED BY <1>1, <1>2 DEF SkipInv

\* What is on the card, at any moment.
LEMMA CardCovered ==
  ASSUME WalInv, OneInv, SkipInv
  PROVE  /\ \A n \in NS : Covered(CardLog(disk), n, rings[n].gen)
         /\ \A n \in NS : \A g, v \in Nat : Logs(CardLog(disk), n, g, v) => g <= rings[FirstNs].gen
<1> DEFINE K == SureNow
           B == w.buf
           C == CardLog(disk)
<1>1. K \in Seq(Recs) /\ B \in Seq(Recs) /\ (C = K \/ (wpc \in Sealing /\ C = K \o B))
  BY CardNow
<1>2. \A n \in NS : Covered(K, n, rings[n].gen) /\ (wpc \in Sealing => Covered(K \o B, n, rings[n].gen))
  BY Zenon DEF SkipInv, RingInv, CoverInv
<1>3. Aged(K) /\ Aged(B)
  BY DEF SkipInv, AgeInv
<1> HIDE DEF K, B, C
<1>4. ASSUME NEW n \in NS, NEW g \in Nat, NEW v \in Nat, Logs(C, n, g, v) PROVE g <= rings[FirstNs].gen
  <2>0. Logs(K \o B, n, g, v) <=> Logs(K, n, g, v) \/ Logs(B, n, g, v)
    BY <1>1, LogsCat
  <2>1. Logs(K, n, g, v) \/ Logs(B, n, g, v)
    BY <1>1, <1>4, <2>0
  <2> QED BY <1>3, <2>1 DEF Aged
<1> QED BY <1>1, <1>2, <1>4 DEF C

LEMMA KillSkip ==
  ASSUME WalInv, WalInv', OneInv, SkipInv, disk' = disk, rings' = rings, srcs' = NoSources, pc' = "down", w' = Closed, wpc' = "idle"
  PROVE  SkipInv'
<1>1. SureNow' = CardLog(disk)
  BY IdleIsSureNext
<1>2. w'.buf = <<>>
  BY DEF Closed
<1>3. \A n \in NS : rings'[n].gen = rings'[FirstNs].gen
  BY DEF SkipInv, AgeInv
<1>4. /\ \A n \in NS : Covered(SureNow', n, rings'[n].gen)
      /\ \A n \in NS : \A g, v \in Nat : Logs(SureNow', n, g, v) => g <= rings'[FirstNs].gen
  BY <1>1, CardCovered
<1> QED BY <1>2, <1>3, <1>4, DownSkip

\* The rings of the next boot are new: the log has nothing of them.
LEMMA PowerSkip ==
  ASSUME OrderAssumption, OrderInv, OrderInv', OneInv, SkipInv, PowerCut
  PROVE  SkipInv'
<1> DEFINE L == SureNow'
           C == CardLog(disk)
           top == rings[FirstNs].gen
<1>1. WalInv /\ WalInv' /\ MainInv /\ EntryOK /\ Len(disk) <= 1 /\ WalPowerCut
  BY DEF PowerCut, WalPowerCut, Befalls, OrderAssumption, OrderInv, EntryInv, OneInv
<1>2. pc' = "down" /\ wpc' = "idle" /\ w'.buf = <<>> /\ srcs' = NoSources /\ rings' = NewRings(top + 1)
  BY <1>1 DEF PowerCut, Gone, WalPowerCut, Closed
<1>3. L = CardLog(disk')
  BY <1>1, <1>2, IdleIsSureNext
<1>4. Begins(L, C) /\ C \in Seq(Recs)
  <2>1. disk \in Seq(Segs)
    BY <1>1 DEF WalInv, WalOK, DiskOK
  <2> QED BY <1>1, <1>3, <2>1, PowerSeq, CardIsPrefix
<1>5. FirstNs \in NS /\ top \in Nat
  BY <1>1, NsIs DEF FirstNs, MainInv, RingType
<1>6. \A n \in NS : rings'[n].gen = top + 1
  BY <1>2 DEF NewRings
<1>7. ASSUME NEW n \in NS, NEW g \in Nat, NEW v \in Nat, Logs(L, n, g, v) PROVE g <= top
  <2>1. Logs(C, n, g, v)
    BY <1>4, <1>7, LogsBegins
  <2> QED BY <1>1, <2>1, CardCovered
<1> HIDE DEF L, C, top
<1>8. \A n \in NS : \A v \in Nat : ~Logs(L, n, top + 1, v)
  BY <1>5, <1>7
<1>9. \A n \in NS : Covered(L, n, rings'[n].gen)
  BY <1>6, <1>8, CoveredNone
<1>10. \A n \in NS : \A g, v \in Nat : Logs(L, n, g, v) => g <= rings'[FirstNs].gen
  BY <1>5, <1>6, <1>7
<1>11. \A n \in NS : rings'[n].gen = rings'[FirstNs].gen
  BY <1>5, <1>6
<1> QED BY <1>2, <1>9, <1>10, <1>11, DownSkip DEF L

---------------------------------------------------------------------------
(* Steps of others *)

\* The rings keep their generations and tails, and main is where it was.
LEMMA StandSkip ==
  ASSUME SkipInv, UNCHANGED <<disk, w, wpc, wret, srcs, pc, ni>>,
         \A n \in NS : rings'[n].gen = rings[n].gen /\ rings'[n].tail = rings[n].tail
  PROVE  SkipInv'
<1>1. SureNow' = SureNow
  BY DEF SureNow, Sure, CardLog
<1>2. FirstNs \in NS
  BY NsIs DEF FirstNs
<1>3. AgeInv'
  BY <1>1, <1>2 DEF SkipInv, AgeInv, Aged
<1>4. ASSUME NEW n \in NS PROVE RingInv(n)'
  <2>1. RingInv(n)
    BY DEF SkipInv
  <2>2. CoverInv(n)' /\ FoundInv(n)' /\ KnownInv(n)' /\ EmptyInv(n)'
    BY <1>1, <2>1 DEF RingInv, CoverInv, FoundInv, KnownInv, EmptyInv, Unnoted, Starting, GenKnown
  <2>3. PassInv(n)'
    BY <1>1, <2>1 DEF RingInv, PassInv, MustPass, MayReach, Passed, Reached, Starting
  <2>4. HeldInv(n)'
    BY <1>1, <2>1 DEF RingInv, HeldInv, HeldOK, Laden, Passed, Reached
  <2> QED BY <2>2, <2>3, <2>4 DEF RingInv
<1> QED BY <1>3, <1>4 DEF SkipInv

---------------------------------------------------------------------------
(* The steps of main *)

LEMMA NsTop == \A n \in NS : n \in Nat /\ n <= LastNs
<1>1. PICK k \in 1 .. 2 : NS = 0 .. k - 1
  BY StoragedAssumption
<1>2. Cardinality(NS) = k
  <2>1. Cardinality(0 .. k - 1) = (IF 0 > k - 1 THEN 0 ELSE (k - 1) - 0 + 1)
    BY FS_Interval
  <2> QED BY <1>1, <2>1
<1>3. LastNs = k - 1
  BY <1>2 DEF LastNs
<1> QED BY <1>1, <1>3

\* A step that leaves the committed records, the rings and what is in the batch: the generations stay.
LEMMA SameAge ==
  ASSUME SkipInv, SureNow' = SureNow, w'.buf = w.buf \/ (\A n \in NS : \A g, v \in Nat : ~Logs(w'.buf, n, g, v)),
         \A n \in NS : rings'[n].gen = rings[n].gen, pc' \in {"decide", "commit_wait"} => ni' = FirstNs
  PROVE  AgeInv'
<1>1. FirstNs \in NS
  BY NsIs DEF FirstNs
<1>2. rings'[FirstNs].gen = rings[FirstNs].gen
  BY <1>1
<1>3. Aged(SureNow) /\ Aged(w.buf) /\ \A n \in NS : rings[n].gen = rings[FirstNs].gen
  BY DEF SkipInv, AgeInv
<1>4. Aged(SureNow)'
  BY <1>2, <1>3 DEF Aged
<1>5. Aged(w.buf)'
  BY <1>2, <1>3 DEF Aged
<1> QED BY <1>2, <1>3, <1>4, <1>5 DEF AgeInv

\* The batch of a call other than wal_commit's for main.
LEMMA BareBatch ==
  ASSUME SkipInv, SureNow' = SureNow, SureNow \in Seq(Recs), rings' = rings, NEW n \in NS, rings[n].gen \in Nat,
         w'.buf \in Seq(Recs), pc' \notin Filing \cup Waiting,
         IF pc' = "gen_wait" /\ n = ni' THEN Gives(w'.buf, n, rings[n].gen) ELSE Bare(w'.buf, n)
  PROVE  CoverInv(n)' /\ HeldInv(n)'
<1>1. Covered(SureNow, n, rings[n].gen)
  BY DEF SkipInv, RingInv, CoverInv
<1>2. Covered(SureNow \o w'.buf, n, rings[n].gen)
  BY <1>1, BareCovered
<1>3. CoverInv(n)'
  BY <1>1, <1>2 DEF CoverInv
<1>4. HeldInv(n)'
  BY DEF HeldInv
<1> QED BY <1>3, <1>4

\* main is on its way out, or starts: only the log counts.
LEMMA OutRing ==
  ASSUME NEW n \in NS, CoverInv(n)', HeldInv(n)', pc' \in {"stop_release", "closing"}
  PROVE  RingInv(n)'
<1>1. FoundInv(n)' /\ EmptyInv(n)'
  BY DEF FoundInv, EmptyInv, Unnoted, Starting
<1>2. PassInv(n)'
  BY DEF PassInv, MustPass, MayReach, Starting, Filing, Waiting
<1>3. KnownInv(n)'
  BY DEF KnownInv, GenKnown, Filing
<1> QED BY <1>1, <1>2, <1>3 DEF RingInv

\* wal_open: what it finds covers the samples.
LEMMA StartSkip ==
  ASSUME WalInv, WalInv', MainInv, OneInv, SkipInv, Start
  PROVE  SkipInv'
<1> DEFINE K == SureNow
<1>1. pc = "down" /\ pc' = "opening" /\ CallOpen /\ disk' = disk /\ rings' = rings /\ srcs' = srcs
  BY DEF Start
<1>2. SureNow' = K /\ K = CardLog(disk) /\ disk \in Seq(Segs)
  BY MainSure DEF MainStep, WalInv, WalOK, DiskOK
<1>3. Reopens /\ Rereads
  BY <1>1, OpenSeq
<1>4. K \in Seq(Recs)
  BY <1>2, CardIsPrefix
<1>5. w'.buf = <<>> \/ Triple(w'.buf, w'.boot_id, "BOOT", 0, 0)
  BY <1>3 DEF Reopens
<1>6. w'.buf \in Seq(Recs) /\ \A n \in NS : Bare(w'.buf, n)
  <2>1. CASE w'.buf = <<>>
    BY <2>1, NoneLogs DEF Bare
  <2>2. CASE Triple(w'.buf, w'.boot_id, "BOOT", 0, 0)
    BY <2>2, TripleBare DEF Triple
  <2> QED BY <1>5, <2>1, <2>2
<1>7. AgeInv'
  BY <1>1, <1>2, <1>6, SameAge DEF Bare
<1>8. ASSUME NEW n \in NS PROVE RingInv(n)'
  <2> DEFINE g == rings[n].gen
  <2>0. RingInv(n) /\ g \in Nat
    BY DEF SkipInv, MainInv, RingType
  <2>1. CoverInv(n)' /\ HeldInv(n)'
    <3>1. (pc' = "gen_wait" /\ n = ni') = FALSE /\ pc' \notin Filing \cup Waiting
      BY <1>1 DEF Filing, Waiting
    <3> QED BY <1>1, <1>2, <1>4, <1>6, <2>0, <3>1, BareBatch
  <2>2. EmptyInv(n)'
    BY <1>1, <2>0 DEF RingInv, EmptyInv
  <2>3. FoundInv(n)'
    <3> SUFFICES ASSUME NEW v \in Nat, Logs(K, n, g, v)
                 PROVE  w'.ring_gen[n] = g /\ w'.ring_seq[n].has /\ v <= w'.ring_seq[n].seq
      BY <1>1, <1>2 DEF FoundInv
    <3>1. PICK m \in Nat : GenIs(K, n, g) /\ SeqIs(K, n, m) /\ v <= m
      BY <2>0 DEF RingInv, CoverInv, Covered
    <3>2. K # <<>>
      BY NoneLogs
    <3>3. w'.ring_gen = Scan(File(disk)).ring_gen /\ w'.ring_seq = Scan(File(disk)).ring_seq
      BY <1>2, <1>3, <3>2 DEF Rereads
    <3>4. Scan(File(disk)).ring_gen[n] = g /\ Scan(File(disk)).ring_seq[n].has /\ Scan(File(disk)).ring_seq[n].seq = m
      BY <1>2, <3>1, ScanNotes
    <3> QED BY <3>1, <3>3, <3>4
  <2>4. PassInv(n)'
    BY <1>1 DEF PassInv, MustPass, MayReach, Starting, Filing, Waiting
  <2>5. KnownInv(n)'
    BY <1>1 DEF KnownInv, GenKnown, Filing
  <2> QED BY <2>1, <2>2, <2>3, <2>4, <2>5 DEF RingInv
<1> QED BY <1>7, <1>8 DEF SkipInv

LEMMA NoteGenerationSkip ==
  ASSUME WalInv, WalInv', MainInv, OneInv, SkipInv, NoteGeneration
  PROVE  SkipInv'
<1> DEFINE K == SureNow
<1>1. /\ pc = "note_gen" /\ pc' = "gen_wait" /\ rings' = rings /\ ni' = ni /\ ni \in NS
      /\ srcs' = [srcs EXCEPT ![ni] = ResumeFrom(ni)] /\ srcs \in [NS -> SrcType]
  BY DEF NoteGeneration, MainInv
<1>2. SureNow' = K /\ K = CardLog(disk)
  BY MainSure DEF MainStep
<1>3. K \in Seq(Recs)
  BY CardNow
<1>4. rings[ni].gen \in Nat /\ ni \in Nat
  BY <1>1, NsTop DEF MainInv, RingType
<1>5. NoBatch(w)
  BY <1>1, MainIdle DEF MainStep, Ready, OneInv, NoBatch
<1>6. wret' = "none" /\ SameScan(w, w') /\ Triple(w'.buf, w.boot_id, "GEN", ni, rings[ni].gen)
  BY <1>4, <1>5, GenSeq DEF NoteGeneration
<1>7. w'.buf \in Seq(Recs) /\ \A n \in NS : IF n = ni THEN Gives(w'.buf, n, rings[n].gen) ELSE Bare(w'.buf, n)
  BY <1>6, TripleGen, TripleOther DEF Triple
<1>8. AgeInv'
  BY <1>1, <1>2, <1>7, SameAge DEF Bare, Gives
<1>9. ASSUME NEW n \in NS PROVE RingInv(n)'
  <2> DEFINE g == rings[n].gen
  <2>0. RingInv(n) /\ g \in Nat /\ n \in Nat
    BY NsTop DEF SkipInv, MainInv, RingType
  <2>1. CoverInv(n)' /\ HeldInv(n)'
    <3>1. (pc' = "gen_wait" /\ n = ni') = (n = ni) /\ pc' \notin Filing \cup Waiting
      BY <1>1 DEF Filing, Waiting
    <3> QED BY <1>1, <1>2, <1>3, <1>7, <2>0, <3>1, BareBatch
  <2>2. n # ni => srcs'[n] = srcs[n]
    BY <1>1
  <2>3. n = ni => srcs'[n] = ResumeFrom(n)
    BY <1>1
  <2>4. EmptyInv(n)'
    <3>1. CASE n = ni
      <4>1. ResumeFrom(n).taken = 0 /\ ResumeFrom(n).added = FALSE
        BY DEF ResumeFrom, NoSource
      <4> QED BY <2>3, <3>1, <4>1 DEF EmptyInv
    <3>2. CASE n # ni
      BY <1>1, <1>4, <2>0, <2>2, <3>2 DEF RingInv, EmptyInv, Unnoted, Starting
    <3> QED BY <3>1, <3>2
  <2>5. FoundInv(n)'
    BY <1>1, <1>2, <1>4, <1>6, <2>0 DEF RingInv, FoundInv, Unnoted, SameScan
  <2>6. PassInv(n)'
    <3> SUFFICES ASSUME NEW v \in Nat, Logs(K, n, g, v), n <= ni PROVE Passed(n, v)'
      BY <1>1, <1>2 DEF PassInv, MustPass, MayReach, Starting, Filing, Waiting
    <3>1. CASE n = ni
      <4>1. w.ring_gen[n] = g /\ w.ring_seq[n].has /\ v <= w.ring_seq[n].seq
        BY <1>1, <1>4, <2>0, <3>1 DEF RingInv, FoundInv, Unnoted
      <4>2. srcs'[n].skip /\ srcs'[n].skip_seq = w.ring_seq[n].seq
        BY <2>3, <3>1, <4>1 DEF ResumeFrom, NoSource
      <4> QED BY <4>1, <4>2 DEF Passed
    <3>2. CASE n < ni
      BY <1>1, <2>0, <2>2, <3>2 DEF RingInv, PassInv, MustPass, Starting, Passed
    <3> QED BY <1>4, <2>0, <3>1, <3>2
  <2>7. KnownInv(n)'
    BY <1>1, <1>2, <1>6, <2>0 DEF RingInv, KnownInv, GenKnown, Filing
  <2> QED BY <2>1, <2>4, <2>5, <2>6, <2>7 DEF RingInv
<1> QED BY <1>8, <1>9 DEF SkipInv

\* Between calls there is nothing on its way.
LEMMA IdleRing ==
  ASSUME NEW n \in NS, SkipInv, SureNow' = SureNow, rings'[n].gen = rings[n].gen, wpc' = "idle", pc' \notin Filing
  PROVE  CoverInv(n)' /\ HeldInv(n)'
<1>1. Covered(SureNow, n, rings[n].gen)
  BY DEF SkipInv, RingInv, CoverInv
<1>2. CoverInv(n)'
  BY <1>1 DEF CoverInv, Sealing
<1> QED BY <1>2 DEF HeldInv, Sealing

\* Into a turn of the loop with nothing taken and no batch.
LEMMA TurnRing ==
  ASSUME NEW n \in NS, MainInv', SkipInv, SureNow' = SureNow, rings'[n].gen = rings[n].gen, w'.buf = <<>>, wpc' = "idle", pc' \in {"drain", "stop"},
         srcs'[n].taken = 0, srcs'[n].added = FALSE, GenIs(SureNow, n, rings[n].gen),
         \A v \in Nat : Logs(SureNow, n, rings[n].gen, v) => Passed(n, v)'
  PROVE  RingInv(n)'
<1>1. CoverInv(n)'
  BY DEF SkipInv, RingInv, CoverInv, Sealing
<1>2. FoundInv(n)' /\ EmptyInv(n)'
  BY DEF FoundInv, EmptyInv, Unnoted, Starting
<1>3. PassInv(n)'
  BY DEF PassInv, MayReach
<1>4. KnownInv(n)'
  BY DEF KnownInv
<1>5. HeldOK(n)'
  <2>1. \A g, v \in Nat : ~Logs(w'.buf, n, g, v)
    BY NoneLogs
  <2>2. Lacks(w'.buf, "GEN", n) /\ Lacks(w'.buf, "RSEQ", n)
    BY NoneLogs
  <2>3. rings'[n].tail \in Nat
    BY DEF MainInv, RingType
  <2>4. \A v \in rings'[n].tail .. rings'[n].tail + srcs'[n].taken - 1 : FALSE
    BY <2>3
  <2> QED BY <2>1, <2>2, <2>4 DEF HeldOK
<1>6. HeldInv(n)'
  BY <1>5 DEF HeldInv, Sealing
<1> QED BY <1>1, <1>2, <1>3, <1>4, <1>6 DEF RingInv

\* A call has returned: there is no batch.
LEMMA DoneEmpty == ASSUME WalInv, wret # "none" PROVE wpc = "idle" /\ w.buf = <<>> /\ NoBatch(w)
<1>1. wpc = "idle" /\ w.open_batch = FALSE /\ Ready(disk, w)
  BY DEF WalInv, WalOK
<1>2. Filling(w)
  BY <1>1 DEF Ready
<1> QED BY <1>1, <1>2 DEF NoBatch, Filling

LEMMA ExitSkip ==
  ASSUME WalInv, WalInv', OneInv, SkipInv, NEW how, Exit(how), disk' = disk, rings' = rings
  PROVE  SkipInv'
BY KillSkip DEF Exit

LEMMA OpenDoneSkip ==
  ASSUME WalInv, WalInv', MainInv, OneInv, SkipInv, OpenDone
  PROVE  SkipInv'
<1>1. CASE Exit("failed")
  BY <1>1, ExitSkip DEF OpenDone
<1>2. CASE ~Exit("failed")
  <2>1. pc = "opening" /\ pc' = "note_gen" /\ ni' = FirstNs /\ w' = w /\ wpc' = wpc /\ rings' = rings /\ srcs' = srcs /\ wret # "none"
    BY <1>2 DEF OpenDone
  <2>2. SureNow' = SureNow /\ wpc = "idle"
    BY <2>1, MainSure, DoneEmpty DEF MainStep
  <2>3. AgeInv'
    BY <2>1, <2>2, SameAge
  <2>4. ASSUME NEW n \in NS PROVE RingInv(n)'
    <3>1. RingInv(n) /\ n \in Nat /\ ~(n < FirstNs)
      BY NsTop DEF SkipInv, FirstNs
    <3>2. CoverInv(n)' /\ HeldInv(n)'
      BY <2>1, <2>2, IdleRing DEF Filing
    <3>3. FoundInv(n)' /\ EmptyInv(n)'
      BY <2>1, <2>2, <3>1 DEF RingInv, FoundInv, EmptyInv, Unnoted, Starting
    <3>4. PassInv(n)'
      BY <2>1, <3>1 DEF PassInv, MustPass, MayReach, Starting, Filing, Waiting
    <3>5. KnownInv(n)'
      BY <2>1, <3>1 DEF KnownInv, GenKnown, Filing
    <3> QED BY <3>2, <3>3, <3>4, <3>5 DEF RingInv
  <2> QED BY <2>3, <2>4 DEF SkipInv
<1> QED BY <1>1, <1>2

LEMMA NoteDoneSkip ==
  ASSUME WalInv, WalInv', MainInv, MainInv', OneInv, SkipInv, NoteDone
  PROVE  SkipInv'
<1>1. CASE Exit("failed")
  BY <1>1, ExitSkip DEF NoteDone
<1>2. CASE ~Exit("failed")
  <2>1. /\ pc = "gen_wait" /\ w' = w /\ wpc' = wpc /\ rings' = rings /\ srcs' = srcs /\ wret = "ok"
        /\ \/ ni < LastNs /\ pc' = "note_gen" /\ ni' = ni + 1
           \/ ~(ni < LastNs) /\ pc' \in {"drain", "stop"}
    BY <1>2 DEF NoteDone, NextTurn
  <2>2. SureNow' = SureNow /\ wpc = "idle" /\ w.buf = <<>>
    BY <2>1, MainSure, DoneEmpty DEF MainStep
  <2>3. AgeInv'
    BY <2>1, <2>2, SameAge
  <2>4. ASSUME NEW n \in NS PROVE RingInv(n)'
    <3>1. RingInv(n) /\ n \in Nat /\ n <= LastNs /\ ni \in Nat /\ LastNs \in Nat
      BY NsTop, NsIs DEF SkipInv, MainInv
    <3>2. CASE pc' = "note_gen"
      <4>0. ni' = ni + 1
        BY <2>1, <3>2
      <4>1. CoverInv(n)' /\ HeldInv(n)'
        BY <2>1, <2>2, <3>2, IdleRing DEF Filing
      <4>2. FoundInv(n)' /\ EmptyInv(n)'
        BY <2>1, <2>2, <3>1, <3>2, <4>0 DEF RingInv, FoundInv, EmptyInv, Unnoted, Starting
      <4>3. PassInv(n)'
        BY <2>1, <2>2, <3>1, <3>2, <4>0 DEF RingInv, PassInv, MustPass, MayReach, Passed, Starting, Filing, Waiting
      <4>4. KnownInv(n)'
        BY <2>1, <2>2, <3>1, <3>2, <4>0 DEF RingInv, KnownInv, GenKnown, Filing
      <4> QED BY <4>1, <4>2, <4>3, <4>4 DEF RingInv
    <3>3. CASE pc' \in {"drain", "stop"}
      <4>1. n <= ni
        BY <2>1, <3>1, <3>3
      <4>2. srcs[n].taken = 0 /\ srcs[n].added = FALSE
        BY <2>1, <3>1, <4>1 DEF RingInv, EmptyInv, Starting
      <4>3. GenIs(SureNow, n, rings[n].gen)
        BY <2>1, <3>1, <4>1 DEF RingInv, KnownInv, GenKnown
      <4>4. \A v \in Nat : Logs(SureNow, n, rings[n].gen, v) => Passed(n, v)'
        BY <2>1, <3>1, <4>1 DEF RingInv, PassInv, MustPass, Starting, Passed
      <4> QED BY <2>1, <2>2, <3>3, <4>2, <4>3, <4>4, TurnRing
    <3> QED BY <2>1, <3>2, <3>3
  <2> QED BY <2>3, <2>4 DEF SkipInv
<1> QED BY <1>1, <1>2

LEMMA FlushDoneSkip ==
  ASSUME WalInv, WalInv', MainInv, MainInv', OneInv, SkipInv, FlushDone
  PROVE  SkipInv'
<1>1. /\ pc = "commit_wait" /\ w' = w /\ wpc' = wpc /\ rings' = rings /\ wret # "none" /\ ni' = ni /\ srcs \in [NS -> SrcType]
      /\ \/ wret = "ok" /\ pc' = "release" /\ srcs' = srcs
         \/ wret = "fail" /\ pc' \in {"drain", "stop"} /\ srcs' = [n \in NS |-> [srcs[n] EXCEPT !.taken = 0, !.added = FALSE]]
  BY Zenon DEF FlushDone, NextTurn, MainInv
<1>2. SureNow' = SureNow /\ wpc = "idle" /\ w.buf = <<>>
  BY Zenon, <1>1, MainSure, DoneEmpty DEF MainStep
<1>3. AgeInv'
  BY Zenon, <1>1, <1>2, SameAge
<1>4. ni = FirstNs /\ \A n \in NS : ~(n < FirstNs)
  <2>1. ni = FirstNs
    BY Zenon, <1>1 DEF SkipInv, AgeInv
  <2>2. \A n \in NS : ~(n < FirstNs)
    BY NsTop DEF FirstNs
  <2> QED BY <2>1, <2>2
<1>5. ASSUME NEW n \in NS PROVE RingInv(n)'
  <2>1. RingInv(n) /\ ~(n < ni')
    BY Zenon, <1>1, <1>4 DEF SkipInv
  <2>2. CASE wret = "ok"
    <3>1. CoverInv(n)' /\ HeldInv(n)'
      BY <1>1, <1>2, <2>2, IdleRing DEF Filing
    <3>2. FoundInv(n)' /\ EmptyInv(n)'
      BY <1>1, <2>1, <2>2 DEF FoundInv, EmptyInv, Unnoted, Starting
    <3>3. PassInv(n)'
      BY <1>1, <1>2, <2>1, <2>2 DEF RingInv, PassInv, MustPass, MayReach, Reached, Starting, Filing, Waiting
    <3>4. KnownInv(n)'
      BY <1>1, <1>2, <2>1, <2>2 DEF RingInv, KnownInv, GenKnown
    <3> QED BY <3>1, <3>2, <3>3, <3>4 DEF RingInv
  <2>3. CASE wret = "fail"
    <3>1. srcs'[n] = [srcs[n] EXCEPT !.taken = 0, !.added = FALSE] /\ srcs[n] \in SrcType
      BY Zenon, <1>1, <2>3
    <3>2. srcs'[n].taken = 0 /\ srcs'[n].added = FALSE /\ srcs'[n].skip = srcs[n].skip /\ srcs'[n].skip_seq = srcs[n].skip_seq
      BY <3>1 DEF SrcType
    <3>3. GenIs(SureNow, n, rings[n].gen)
      BY Zenon, <1>1, <2>1 DEF RingInv, KnownInv, GenKnown
    <3>4. \A v \in Nat : Logs(SureNow, n, rings[n].gen, v) => Passed(n, v)'
      BY Zenon, <1>1, <2>1, <2>3, <3>2 DEF RingInv, PassInv, MustPass, Passed, Waiting
    <3> QED BY Zenon, <1>1, <1>2, <2>3, <3>2, <3>3, <3>4, TurnRing
  <2> QED BY Zenon, <1>1, <2>2, <2>3
<1> QED BY <1>3, <1>5 DEF SkipInv

LEMMA IdleSkip ==
  ASSUME WalInv, WalInv', MainInv, OneInv, SkipInv, Idle
  PROVE  SkipInv'
<1>1. pc = "decide" /\ pc' \in {"drain", "stop"} /\ w' = w /\ wpc' = wpc /\ wret' = wret /\ rings' = rings /\ srcs' = srcs
  BY DEF Idle, NextTurn, wvars
<1>2. SureNow' = SureNow /\ wpc = "idle"
  BY <1>1, MainSure, MainIdle DEF MainStep
<1>3. AgeInv'
  BY <1>1, <1>2, SameAge
<1>4. ASSUME NEW n \in NS PROVE RingInv(n)'
  <2>1. RingInv(n)
    BY DEF SkipInv
  <2>2. CoverInv(n)'
    BY <1>1, <1>2, <2>1 DEF RingInv, CoverInv
  <2>3. FoundInv(n)' /\ EmptyInv(n)'
    BY <1>1 DEF FoundInv, EmptyInv, Unnoted, Starting
  <2>4. PassInv(n)'
    BY <1>1, <1>2, <2>1 DEF RingInv, PassInv, MustPass, MayReach, Passed, Filing
  <2>5. KnownInv(n)'
    BY <1>1, <1>2, <2>1 DEF RingInv, KnownInv, GenKnown, Filing
  <2>6. HeldInv(n)'
    BY <1>1, <1>2, <2>1 DEF RingInv, HeldInv, HeldOK, Passed, Filing, Sealing
  <2> QED BY <2>2, <2>3, <2>4, <2>5, <2>6 DEF RingInv
<1> QED BY <1>3, <1>4 DEF SkipInv

LEMMA ReleaseSkip ==
  ASSUME WalInv, WalInv', MainInv, MainInv', OneInv, SkipInv, Release
  PROVE  SkipInv'
<1>1. /\ pc = "release" /\ w' = w /\ wpc' = wpc /\ ni \in NS
      /\ rings' = [rings EXCEPT ![ni].tail = @ + srcs[ni].taken] /\ rings \in [NS -> RingType]
      /\ srcs' = [srcs EXCEPT ![ni].taken = 0, ![ni].added = FALSE] /\ srcs \in [NS -> SrcType]
      /\ \/ ni < LastNs /\ pc' = "release" /\ ni' = ni + 1
         \/ ~(ni < LastNs) /\ pc' \in {"drain", "stop"}
  BY DEF Release, ReleaseTaken, NextTurn, MainInv, wvars
<1>2. SureNow' = SureNow /\ wpc = "idle" /\ w.buf = <<>>
  <2>1. Ready(disk, w) /\ w.open_batch = FALSE /\ wpc = "idle"
    BY <1>1, MainIdle DEF MainStep, OneInv
  <2> QED BY <1>1, <2>1, MainSure DEF MainStep, Ready, Filling
<1>3. ASSUME NEW n \in NS
      PROVE  /\ rings'[n].gen = rings[n].gen /\ rings[n] \in RingType /\ srcs[n] \in SrcType
             /\ n # ni => rings'[n] = rings[n] /\ srcs'[n] = srcs[n]
             /\ n = ni => /\ rings'[n].tail = rings[n].tail + srcs[n].taken /\ srcs'[n].taken = 0 /\ srcs'[n].added = FALSE
                          /\ srcs'[n].skip = srcs[n].skip /\ srcs'[n].skip_seq = srcs[n].skip_seq
  <2>1. rings[n] \in RingType /\ srcs[n] \in SrcType
    BY <1>1
  <2>2. CASE n # ni
    BY <1>1, <2>1, <2>2
  <2>3. CASE n = ni
    <3>1. rings'[n] = [rings[n] EXCEPT !.tail = @ + srcs[n].taken]
      BY <1>1, <2>3
    <3>2. srcs'[n] = [srcs[n] EXCEPT !.taken = 0, !.added = FALSE]
      BY <1>1, <2>3
    <3> QED BY <2>1, <2>3, <3>1, <3>2 DEF RingType, SrcType
  <2> QED BY <2>2, <2>3
<1>4. AgeInv'
  BY <1>1, <1>2, <1>3, SameAge
<1>5. ASSUME NEW n \in NS PROVE RingInv(n)'
  <2>1. RingInv(n) /\ n \in Nat /\ n <= LastNs /\ ni \in Nat /\ LastNs \in Nat
    BY <1>1, NsTop, NsIs DEF SkipInv
  <2>2. rings[n].tail \in Nat /\ srcs[n].taken \in Nat
    BY <1>3 DEF RingType, SrcType
  <2>3. n <= ni => /\ srcs'[n].taken = 0 /\ srcs'[n].added = FALSE
                   /\ \A v \in Nat : Logs(SureNow, n, rings[n].gen, v) => Passed(n, v)'
    <3>1. CASE n = ni
      BY <1>1, <1>3, <2>1, <3>1 DEF RingInv, PassInv, MayReach, Reached, Passed
    <3>2. CASE n < ni
      <4>1. n # ni /\ srcs'[n] = srcs[n] /\ rings'[n] = rings[n]
        <5>1. n # ni
          BY <2>1, <3>2
        <5> QED BY <1>3, <5>1
      <4> QED BY <1>1, <2>1, <3>2, <4>1 DEF RingInv, PassInv, MustPass, Passed, EmptyInv
    <3>3. n <= ni => n = ni \/ n < ni
      BY <2>1
    <3> QED BY <3>1, <3>2, <3>3
  <2>4. GenIs(SureNow, n, rings[n].gen)
    BY <1>1, <2>1 DEF RingInv, KnownInv, GenKnown
  <2>5. CASE pc' = "release"
    <3>1. CoverInv(n)' /\ HeldInv(n)'
      BY <1>1, <1>2, <1>3, <2>5, IdleRing DEF Filing
    <3>2. n < ni' <=> n <= ni
      BY <1>1, <2>1, <2>5
    <3>3. FoundInv(n)' /\ EmptyInv(n)'
      BY <2>3, <2>5, <3>2 DEF FoundInv, EmptyInv, Unnoted, Starting
    <3>4. \A v \in Nat : Logs(SureNow, n, rings[n].gen, v) => Reached(n, v)'
      <4>1. CASE n = ni
        BY <1>1, <1>3, <2>1, <2>2, <4>1 DEF RingInv, PassInv, MayReach, Reached
      <4>2. CASE n # ni
        BY <1>1, <1>3, <2>1, <4>2 DEF RingInv, PassInv, MayReach, Reached
      <4> QED BY <4>1, <4>2
    <3>5. MustPass(n)' <=> n <= ni
      BY <2>5, <3>2 DEF MustPass, Starting, Filing, Waiting
    <3>6. PassInv(n)'
      BY <1>2, <1>3, <2>3, <3>4, <3>5 DEF PassInv
    <3>7. KnownInv(n)'
      BY <1>2, <1>3, <2>4 DEF KnownInv
    <3> QED BY <3>1, <3>3, <3>6, <3>7 DEF RingInv
  <2>6. CASE pc' \in {"drain", "stop"}
    <3>1. n <= ni
      BY <1>1, <2>1, <2>6
    <3> QED BY <1>1, <1>2, <1>3, <2>3, <2>4, <2>6, <3>1, TurnRing
  <2> QED BY <1>1, <2>5, <2>6
<1> QED BY <1>4, <1>5 DEF SkipInv

\* main stops: wal_close's batch has no sample.
LEMMA StopSkip ==
  ASSUME WalInv, WalInv', MainInv, OneInv, SkipInv, StopDone \/ StopRelease
  PROVE  SkipInv'
<1>1. /\ \A n \in NS : rings'[n].gen = rings[n].gen
      /\ \/ pc' = "stop_release" /\ w' = w /\ wpc' = wpc
         \/ pc' = "closing" /\ CallClose(w)
  BY DEF StopDone, StopRelease, ReleaseTaken, MainInv, RingType
<1>2. SureNow' = SureNow /\ wpc = "idle" /\ SureNow \in Seq(Recs) /\ NoBatch(w)
  <2>1. Ready(disk, w) /\ wpc = "idle"
    BY MainIdle DEF MainStep
  <2>2. w.open_batch = FALSE
    BY DEF StopDone, StopRelease, OneInv, WalInv, WalOK
  <2> QED BY <2>1, <2>2, MainSure, CardNow DEF MainStep, Ready, NoBatch
<1>3. CASE pc' = "stop_release"
  <2>1. w' = w /\ wpc' = "idle"
    BY <1>1, <1>2, <1>3
  <2>2. AgeInv'
    BY <1>1, <1>2, <1>3, <2>1, SameAge
  <2>3. \A n \in NS : RingInv(n)'
    BY <1>1, <1>2, <1>3, <2>1, IdleRing, OutRing DEF Filing
  <2> QED BY <2>2, <2>3 DEF SkipInv
<1>4. CASE pc' = "closing" /\ CallClose(w)
  <2>1. Triple(w'.buf, w.boot_id, "SHUTDOWN", 0, 0)
    BY <1>2, <1>4, CloseSeq
  <2>2. w'.buf \in Seq(Recs) /\ \A n \in NS : Bare(w'.buf, n)
    BY <2>1, TripleBare DEF Triple
  <2>3. AgeInv'
    BY <1>1, <1>2, <1>4, <2>2, SameAge DEF Bare
  <2>4. ASSUME NEW n \in NS PROVE RingInv(n)'
    <3>1. Covered(SureNow, n, rings[n].gen) /\ rings[n].gen \in Nat
      BY DEF SkipInv, RingInv, CoverInv, MainInv, RingType
    <3>2. Covered(SureNow \o w'.buf, n, rings[n].gen)
      BY <1>2, <2>2, <3>1, BareCovered
    <3>3. CoverInv(n)'
      BY <1>1, <1>2, <3>1, <3>2 DEF CoverInv
    <3>4. HeldInv(n)'
      BY <1>4, <2>2 DEF HeldInv, Filing, Waiting
    <3> QED BY <1>4, <3>3, <3>4, OutRing
  <2> QED BY <2>3, <2>4 DEF SkipInv
<1> QED BY <1>1, <1>3, <1>4

---------------------------------------------------------------------------
(* drain *)

\* Batch c is b with the k samples of ring n from first on.
Takes(b, c, n, gen, first, k) ==
  /\ \A m \in NS : \A g, v \in Nat :
       Logs(c, m, g, v) <=> Logs(b, m, g, v) \/ (m = n /\ g = gen /\ first <= v /\ v < first + k)
  /\ \A m \in NS : Lacks(b, "GEN", m) => Lacks(c, "GEN", m)
  /\ \A m \in NS : Lacks(b, "RSEQ", m) => Lacks(c, "RSEQ", m)

LEMMA LacksCat ==
  ASSUME NEW a \in Seq(Recs), NEW b \in Seq(Recs), NEW kind, NEW n, Lacks(a, kind, n), Lacks(b, kind, n)
  PROVE  Lacks(a \o b, kind, n)
<1> SUFFICES ASSUME NEW q \in 1 .. Len(a \o b) PROVE ~Notes((a \o b)[q], kind, n)
  BY DEF Lacks
<1>1. CASE q \in 1 .. Len(a) /\ (a \o b)[q] = a[q]
  BY <1>1 DEF Lacks
<1>2. CASE \E p \in 1 .. Len(b) : q = Len(a) + p /\ (a \o b)[q] = b[p]
  BY <1>2 DEF Lacks
<1> QED BY <1>1, <1>2, CatEither

SaysTaken(e, n, gen, first, k) ==
  /\ \A m : Lacks(e, "GEN", m) /\ Lacks(e, "RSEQ", m)
  /\ \A m, g : \A v \in Nat : Logs(e, m, g, v) <=> m = n /\ g = gen /\ first <= v /\ v < first + k

LEMMA SamplesSay ==
  ASSUME NEW e \in Seq(Recs), NEW o \in Nat, NEW n, NEW gen, NEW first \in Nat, NEW k \in Nat,
         SamplesFrom(e, o, n, gen, first, k)
  PROVE  SaysTaken(e, n, gen, first, k)
<1> DEFINE l == Len(e)
<1>1. l = o + k /\ (\A p \in 1 .. o : e[p].kind = "BEGIN")
      /\ \A i \in 1 .. k : e[o + i].kind = "SAMPLE" /\ e[o + i].ns = n /\ e[o + i].gen = gen /\ e[o + i].val = first + i - 1
  BY DEF SamplesFrom
<1>2. \A m, g, v : Logs(e, m, g, v) <=> \E p \in 1 .. l : e[p].kind = "SAMPLE" /\ e[p].ns = m /\ e[p].gen = g /\ e[p].val = v
  BY LogsIs
<1> HIDE DEF l
<1>4. ASSUME NEW p \in 1 .. l PROVE p \in 1 .. o \/ (p - o \in 1 .. k /\ p = o + (p - o))
  BY <1>1
<1>5. \A p \in 1 .. l : e[p].kind \in {"BEGIN", "SAMPLE"}
  BY <1>1, <1>4
<1>6. \A m : Lacks(e, "GEN", m) /\ Lacks(e, "RSEQ", m)
  BY <1>5 DEF Lacks, Notes, l
<1>7. ASSUME NEW m, NEW g, NEW v \in Nat, Logs(e, m, g, v) PROVE m = n /\ g = gen /\ first <= v /\ v < first + k
  <2>1. PICK p \in 1 .. l : e[p].kind = "SAMPLE" /\ e[p].ns = m /\ e[p].gen = g /\ e[p].val = v
    BY <1>2, <1>7
  <2>2. p - o \in 1 .. k /\ e[o + (p - o)] = e[p]
    BY <1>1, <1>4, <2>1
  <2>3. e[p].ns = n /\ e[p].gen = gen /\ e[p].val = first + (p - o) - 1
    BY <1>1, <2>2
  <2>4. v = first + (p - o) - 1 /\ p - o \in Int
    BY <2>1, <2>2, <2>3
  <2> QED BY <2>1, <2>2, <2>3, <2>4
<1>8. ASSUME NEW v \in Nat, first <= v, v < first + k PROVE Logs(e, n, gen, v)
  <2> DEFINE i == v - first + 1
  <2>1. i \in 1 .. k /\ o + i \in 1 .. l /\ first + i - 1 = v
    BY <1>1, <1>8
  <2> HIDE DEF i
  <2>2. e[o + i].kind = "SAMPLE" /\ e[o + i].ns = n /\ e[o + i].gen = gen /\ e[o + i].val = v
    BY <1>1, <2>1
  <2> QED BY <1>2, <2>1, <2>2
<1> QED BY <1>6, <1>7, <1>8 DEF SaysTaken

LEMMA DrainTakes ==
  ASSUME Filling(w), NEW n \in NS, n \in Nat, NEW gen \in Nat, NEW first \in Nat, NEW k \in Nat, w' = WalAddSamples(w, n, gen, first, k)
  PROVE  Takes(w.buf, w'.buf, n, gen, first, k)
<1>0. w.buf \in Seq(Recs)
  BY DEF Filling, WType
<1>1. CASE k = 0
  <2>1. w' = w
    BY <1>1 DEF WalAddSamples
  <2>2. \A v \in Nat : ~(first <= v /\ v < first + k)
    BY <1>1
  <2> QED BY <2>1, <2>2 DEF Takes
<1>2. CASE k # 0
  <2>1. AddsSamples(w, w', n, gen, first, k)
    BY <1>2, SamplesExtend
  <2>2. PICK e : Extended(w, w', e) /\ \E o \in Nat : SamplesFrom(e, o, n, gen, first, k)
    BY <2>1 DEF AddsSamples
  <2>3. PICK o \in Nat : SamplesFrom(e, o, n, gen, first, k)
    BY <2>2
  <2>4. e \in Seq(Recs) /\ w'.buf = w.buf \o e
    BY <2>2 DEF Extended
  <2>0. SaysTaken(e, n, gen, first, k)
    BY <2>3, <2>4, SamplesSay
  <2>5. \A m : Lacks(e, "GEN", m) /\ Lacks(e, "RSEQ", m)
    BY <2>0 DEF SaysTaken
  <2>6. \A m, g : \A v \in Nat : Logs(e, m, g, v) <=> m = n /\ g = gen /\ first <= v /\ v < first + k
    BY <2>0 DEF SaysTaken
  <2>7. \A m, g, v : Logs(w'.buf, m, g, v) <=> Logs(w.buf, m, g, v) \/ Logs(e, m, g, v)
    BY <1>0, <2>4, LogsCat
  <2>8. \A m : Lacks(w.buf, "GEN", m) => Lacks(w'.buf, "GEN", m)
    BY <1>0, <2>4, <2>5, LacksCat
  <2>9. \A m : Lacks(w.buf, "RSEQ", m) => Lacks(w'.buf, "RSEQ", m)
    BY <1>0, <2>4, <2>5, LacksCat
  <2> QED BY <2>6, <2>7, <2>8, <2>9 DEF Takes
<1> QED BY <1>1, <1>2

\* drain adds nothing before it is past what it is to skip.
LEMMA AddsBehind ==
  ASSUME MainInv, w \in WType, NEW n \in NS, DrainOK(n), Adds(n) > 0, srcs[n].skip
  PROVE  srcs[n].skip_seq < rings[n].tail + srcs[n].taken + Skips(n)
<1> DEFINE h == rings[n].head
           t == rings[n].tail
           k == srcs[n].taken
           q == srcs[n].skip_seq
           u == IF q < h THEN q + 1 ELSE h
           s == IF srcs[n].skip /\ u > t + k THEN u - (t + k) ELSE 0
           l == h - t - k - s
           r == BatchSamples - w.batch_samples
           a == IF l < r THEN l ELSE r
<1>1. Skips(n) = s /\ Adds(n) = a
  BY DEF Skips, Adds
<1>2. h \in Nat /\ t \in Nat /\ k \in Nat /\ q \in Nat /\ r \in Int
  <2>1. w.batch_samples \in Nat /\ BatchSamples \in Nat
    BY StoragedAssumption DEF WType
  <2>2. rings[n] \in RingType /\ srcs[n] \in SrcType
    BY DEF MainInv
  <2> QED BY <2>1, <2>2 DEF RingType, SrcType
<1>3. a > 0 /\ srcs[n].skip
  BY <1>1
<1> HIDE DEF h, t, k, q, r
<1>4. l > 0
  BY <1>2, <1>3
<1>5. q < t + k + s
  BY <1>2, <1>3, <1>4
<1> QED BY <1>1, <1>5 DEF q, t, k

\* Ring n when drain has not touched it, or another one: the batch has what it had of it.
LEMMA UntouchedRing ==
  ASSUME NEW n \in NS, RingInv(n), pc = "drain", pc' \in Filing, SureNow' = SureNow, rings' = rings, srcs'[n] = srcs[n],
         wpc' = "idle", \A g, v \in Nat : Logs(w'.buf, n, g, v) <=> Logs(w.buf, n, g, v), rings[n] \in RingType, srcs[n] \in SrcType,
         Lacks(w.buf, "GEN", n) => Lacks(w'.buf, "GEN", n), Lacks(w.buf, "RSEQ", n) => Lacks(w'.buf, "RSEQ", n)
  PROVE  RingInv(n)'
<1>1. CoverInv(n)'
  BY DEF RingInv, CoverInv, Sealing
<1>2. FoundInv(n)' /\ EmptyInv(n)'
  BY DEF FoundInv, EmptyInv, Unnoted, Starting, Filing
<1>3. PassInv(n)'
  BY DEF RingInv, PassInv, MustPass, MayReach, Passed, Filing
<1>4. KnownInv(n)'
  BY DEF RingInv, KnownInv, GenKnown, Filing
<1>5. HeldOK(n)
  BY DEF RingInv, HeldInv, Filing
<1>6. HeldOK(n)'
  <2>1. rings[n].gen \in Nat /\ rings[n].tail \in Nat /\ srcs[n].taken \in Nat
    BY DEF RingType, SrcType
  <2>2. \A v : Passed(n, v)' <=> Passed(n, v)
    BY DEF Passed
  <2>3. \A v \in rings[n].tail .. rings[n].tail + srcs[n].taken - 1 : Passed(n, v)' \/ Logs(w'.buf, n, rings[n].gen, v)
    BY <1>5, <2>1, <2>2 DEF HeldOK
  <2>4. \A g, v \in Nat : Logs(w'.buf, n, g, v)
          => g = rings[n].gen /\ ~Passed(n, v)' /\ srcs[n].added /\ v <= srcs[n].last_seq
    BY <1>5, <2>2 DEF HeldOK
  <2> QED BY <1>5, <2>3, <2>4 DEF HeldOK
<1>7. HeldInv(n)'
  BY <1>6 DEF HeldInv, Sealing
<1> QED BY <1>1, <1>2, <1>3, <1>4, <1>7 DEF RingInv

\* Ring n, of which drain has skipped s slots and added k.
LEMMA DrainedRing ==
  ASSUME NEW n \in NS, RingInv(n), pc = "drain", pc' \in Filing, SureNow' = SureNow, rings' = rings, wpc' = "idle",
         rings[n] \in RingType, srcs[n] \in SrcType, NEW s \in Nat, NEW k \in Nat, s + k > 0,
         srcs'[n].taken = srcs[n].taken + s + k, srcs'[n].added = (srcs[n].added \/ k > 0),
         srcs'[n].last_seq = rings[n].tail + srcs[n].taken + s + k - 1,
         srcs'[n].skip = srcs[n].skip, srcs'[n].skip_seq = srcs[n].skip_seq,
         s > 0 => srcs[n].skip /\ rings[n].tail + srcs[n].taken + s - 1 <= srcs[n].skip_seq,
         k > 0 /\ srcs[n].skip => srcs[n].skip_seq < rings[n].tail + srcs[n].taken + s,
         Takes(w.buf, w'.buf, n, rings[n].gen, rings[n].tail + srcs[n].taken + s, k)
  PROVE  RingInv(n)'
<1> DEFINE t == rings[n].tail
           a == srcs[n].taken
           g == rings[n].gen
           q == srcs[n].skip_seq
           e == srcs[n].last_seq
           f == t + a + s
<1>1. CoverInv(n)'
  BY DEF RingInv, CoverInv, Sealing
<1>2. FoundInv(n)' /\ EmptyInv(n)'
  BY DEF FoundInv, EmptyInv, Unnoted, Starting, Filing
<1>3. \A v : Passed(n, v)' <=> Passed(n, v)
  BY DEF Passed
<1>4. PassInv(n)'
  BY <1>3 DEF RingInv, PassInv, MustPass, MayReach, Filing
<1>5. KnownInv(n)'
  BY DEF RingInv, KnownInv, GenKnown, Filing
<1>6. HeldOK(n)
  BY DEF RingInv, HeldInv, Filing
<1>7. t \in Nat /\ a \in Nat /\ g \in Nat /\ q \in Nat /\ e \in Nat /\ srcs[n].added \in BOOLEAN /\ srcs[n].skip \in BOOLEAN
  BY DEF RingType, SrcType
<1>8. \A v : Passed(n, v) <=> v < t \/ (srcs[n].skip /\ v <= q)
  BY DEF Passed
<1>9. /\ srcs[n].added => t <= e /\ e < t + a /\ (srcs[n].skip => q <= e)
      /\ \A h, v \in Nat : Logs(w.buf, n, h, v) => h = g /\ ~Passed(n, v) /\ srcs[n].added /\ v <= e
      /\ \A v \in t .. t + a - 1 : Passed(n, v) \/ Logs(w.buf, n, g, v)
  BY <1>6 DEF HeldOK
<1>10. /\ \A h, v \in Nat : Logs(w'.buf, n, h, v) <=> Logs(w.buf, n, h, v) \/ (h = g /\ f <= v /\ v < f + k)
       /\ Lacks(w'.buf, "GEN", n) /\ Lacks(w'.buf, "RSEQ", n)
  BY <1>6 DEF Takes, HeldOK
<1>11. /\ srcs'[n].taken = a + s + k /\ srcs'[n].added = (srcs[n].added \/ k > 0) /\ srcs'[n].last_seq = f + k - 1
       /\ srcs'[n].skip = srcs[n].skip /\ srcs'[n].skip_seq = q
  BY <1>7
<1>12. (s > 0 => srcs[n].skip /\ f - 1 <= q) /\ (k > 0 /\ srcs[n].skip => q < f)
  <2>1. ASSUME s > 0 PROVE srcs[n].skip /\ f - 1 <= q
    <3>1. srcs[n].skip
      BY <2>1
    <3>2. rings[n].tail + srcs[n].taken + s - 1 <= srcs[n].skip_seq
      BY <2>1
    <3>3. f - 1 <= q
      BY <1>7, <3>2
    <3> QED BY <3>1, <3>3
  <2>2. k > 0 /\ srcs[n].skip => q < f
    BY Zenon
  <2> QED BY <2>1, <2>2
<1> HIDE DEF t, a, g, q, e
<1>13. ASSUME srcs[n].added \/ k > 0 PROVE t <= f + k - 1 /\ f + k - 1 < t + (a + s + k) /\ (srcs[n].skip => q <= f + k - 1)
  <2>1. t <= f + k - 1 /\ f + k - 1 < t + (a + s + k)
    BY <1>7
  <2>2. CASE k > 0
    BY <1>7, <1>12, <2>1, <2>2
  <2>3. CASE srcs[n].added
    BY <1>7, <1>9, <2>1, <2>3
  <2> QED BY <1>13, <2>2, <2>3
<1>14. ASSUME NEW h \in Nat, NEW v \in Nat, Logs(w'.buf, n, h, v)
       PROVE  h = g /\ ~Passed(n, v) /\ (srcs[n].added \/ k > 0) /\ v <= f + k - 1
  <2>1. CASE Logs(w.buf, n, h, v)
    <3>1. h = g /\ ~Passed(n, v) /\ srcs[n].added /\ v <= e /\ e < t + a
      BY <1>9, <2>1
    <3>2. v <= f + k - 1
      BY <1>7, <3>1
    <3> QED BY <3>1, <3>2
  <2>2. CASE h = g /\ f <= v /\ v < f + k
    <3>1. k > 0 /\ v <= f + k - 1 /\ ~(v < t)
      BY <1>7, <2>2
    <3>2. srcs[n].skip => ~(v <= q)
      BY <1>7, <1>12, <2>2, <3>1
    <3> QED BY <1>8, <2>2, <3>1, <3>2
  <2> QED BY <1>10, <1>14, <2>1, <2>2
<1>15. ASSUME NEW v \in t .. t + (a + s + k) - 1 PROVE Passed(n, v) \/ Logs(w'.buf, n, g, v)
  <2>0. v \in Nat
    BY <1>7
  <2>1. CASE v < t + a
    <3>1. v \in t .. t + a - 1
      BY <1>7, <2>1
    <3> QED BY <1>7, <1>9, <1>10, <2>0, <3>1
  <2>2. CASE t + a <= v /\ v < f
    <3>1. s > 0 /\ v <= f - 1
      BY <1>7, <2>0, <2>2
    <3>2. srcs[n].skip /\ v <= q
      BY <1>7, <1>12, <2>0, <3>1
    <3> QED BY <1>8, <3>2
  <2>3. CASE f <= v
    <3>1. v < f + k
      BY <1>7, <2>0
    <3> QED BY <1>7, <1>10, <2>0, <2>3, <3>1
  <2> QED BY <1>7, <2>0, <2>1, <2>2, <2>3
<1>16. HeldOK(n)'
  <2>1. rings'[n].tail = t /\ rings'[n].gen = g
    BY DEF t, g
  <2>2. srcs'[n].added => rings'[n].tail <= srcs'[n].last_seq /\ srcs'[n].last_seq < rings'[n].tail + srcs'[n].taken
                          /\ (srcs'[n].skip => srcs'[n].skip_seq <= srcs'[n].last_seq)
    BY <1>11, <1>13, <2>1
  <2>3. \A v \in rings'[n].tail .. rings'[n].tail + srcs'[n].taken - 1 : Passed(n, v)' \/ Logs(w'.buf, n, rings'[n].gen, v)
    BY <1>3, <1>11, <1>15, <2>1
  <2>4. \A h, v \in Nat : Logs(w'.buf, n, h, v)
          => h = rings'[n].gen /\ ~Passed(n, v)' /\ srcs'[n].added /\ v <= srcs'[n].last_seq
    BY <1>3, <1>11, <1>14, <2>1
  <2> QED BY <1>10, <2>2, <2>3, <2>4 DEF HeldOK
<1>17. HeldInv(n)'
  BY <1>16 DEF HeldInv, Sealing
<1> QED BY <1>1, <1>2, <1>4, <1>5, <1>17 DEF RingInv

LEMMA DrainSkip ==
  ASSUME WalInv, WalInv', MainInv, OneInv, SkipInv, Drain
  PROVE  SkipInv'
<1> DEFINE s == Skips(ni)
           k == Adds(ni)
           first == rings[ni].tail + srcs[ni].taken + s
<1>1. pc = "drain" /\ pc' \in Filing /\ rings' = rings /\ ni \in NS /\ (pc' = "decide" => ni' = FirstNs) /\ pc' # "commit_wait" /\ wpc' = wpc
  BY DEF Drain, Filing, MainInv
<1>2. SureNow' = SureNow /\ wpc = "idle" /\ Filling(w) /\ w \in WType
  BY <1>1, MainSure, MainIdle DEF MainStep, Ready, Filling
<1>3. \A n \in NS : RingInv(n) /\ rings[n] \in RingType /\ srcs[n] \in SrcType
  BY DEF SkipInv, MainInv
<1>4. CASE w' = w /\ srcs' = srcs
  <2>1. AgeInv'
    BY <1>1, <1>2, <1>4, SameAge
  <2>2. \A n \in NS : RingInv(n)'
    BY <1>1, <1>2, <1>3, <1>4, UntouchedRing
  <2> QED BY <2>1, <2>2 DEF SkipInv
<1>5. CASE /\ w.batch_samples < BatchSamples /\ s + k > 0
           /\ w' = WalAddSamples(w, ni, rings[ni].gen, first, k)
           /\ srcs' = [srcs EXCEPT ![ni].taken = @ + s + k, ![ni].added = @ \/ k > 0, ![ni].last_seq = first + k - 1]
  <2>1. DrainOK(ni)
    BY <1>1, <1>2, <1>5, DrainAmounts DEF Freed
  <2>2. s \in Nat /\ k \in Nat
    BY <2>1 DEF DrainOK
  <2>3. rings[ni].tail \in Nat /\ srcs[ni].taken \in Nat /\ rings[ni].gen \in Nat /\ first \in Nat /\ ni \in Nat
    BY <1>1, <1>3, <2>2, NsTop DEF RingType, SrcType
  <2>4. Takes(w.buf, w'.buf, ni, rings[ni].gen, first, k)
    BY <1>1, <1>2, <1>5, <2>2, <2>3, DrainTakes
  <2>5. s > 0 => srcs[ni].skip /\ rings[ni].tail + srcs[ni].taken + s - 1 <= srcs[ni].skip_seq
    BY <1>1, <2>2, SkipsAre
  <2>6. k > 0 /\ srcs[ni].skip => srcs[ni].skip_seq < rings[ni].tail + srcs[ni].taken + s
    BY <1>1, <1>2, <2>1, AddsBehind
  <2>7. AgeInv'
    <3>1. Aged(SureNow) /\ Aged(w.buf) /\ \A n \in NS : rings[n].gen = rings[FirstNs].gen
      BY DEF SkipInv, AgeInv
    <3>2. ASSUME NEW n \in NS, NEW g \in Nat, NEW v \in Nat, Logs(w'.buf, n, g, v) PROVE g <= rings[FirstNs].gen
      <4>1. CASE Logs(w.buf, n, g, v)
        BY <3>1, <4>1 DEF Aged
      <4>2. CASE g = rings[ni].gen
        BY <1>1, <2>3, <3>1, <4>2
      <4> QED BY <2>4, <3>2, <4>1, <4>2 DEF Takes
    <3>3. Aged(SureNow)' /\ Aged(w.buf)'
      BY <1>1, <1>2, <3>1, <3>2 DEF Aged
    <3> QED BY <1>1, <3>1, <3>3 DEF AgeInv
  <2> HIDE DEF s, k, first
  <2>8. ASSUME NEW n \in NS PROVE RingInv(n)'
    <3>1. CASE n # ni
      <4>1. srcs'[n] = srcs[n]
        BY <1>3, <1>5, <3>1 DEF MainInv
      <4>2. \A g, v \in Nat : Logs(w'.buf, n, g, v) <=> Logs(w.buf, n, g, v)
        BY <2>4, <3>1 DEF Takes
      <4>3. (Lacks(w.buf, "GEN", n) => Lacks(w'.buf, "GEN", n)) /\ (Lacks(w.buf, "RSEQ", n) => Lacks(w'.buf, "RSEQ", n))
        BY <2>4 DEF Takes
      <4> QED BY <1>1, <1>2, <1>3, <4>1, <4>2, <4>3, UntouchedRing
    <3>2. CASE n = ni
      <4>1. srcs'[n] = [srcs[n] EXCEPT !.taken = @ + s + k, !.added = @ \/ k > 0, !.last_seq = first + k - 1]
        BY <1>1, <1>5, <3>2 DEF MainInv
      <4>2. /\ srcs'[n].taken = srcs[n].taken + s + k /\ srcs'[n].added = (srcs[n].added \/ k > 0)
            /\ srcs'[n].last_seq = first + k - 1
            /\ srcs'[n].skip = srcs[n].skip /\ srcs'[n].skip_seq = srcs[n].skip_seq
        BY <1>3, <4>1 DEF SrcType
      <4>3. first = rings[n].tail + srcs[n].taken + s
        BY <3>2 DEF first
      <4> QED BY <1>1, <1>2, <1>3, <1>5, <2>2, <2>4, <2>5, <2>6, <3>2, <4>2, <4>3, DrainedRing
    <3> QED BY <3>1, <3>2
  <2> QED BY <2>7, <2>8 DEF SkipInv
<1> QED BY <1>4, <1>5 DEF Drain

---------------------------------------------------------------------------
(* Flush and Stop: the batch gets its ring seqs *)

\* What note_ring_seq and COMMIT put behind the batch.
Endings(e) ==
  /\ e \in Seq(Recs)
  /\ \A p \in 1 .. Len(e) : e[p].kind \in {"BEGIN", "COMMIT"} \/ OwnMark(e[p])
  /\ \A n \in NS : srcs[n].added => \E p \in 1 .. Len(e) : Notes(e[p], "RSEQ", n)

Ended(b, c) == \E e : Endings(e) /\ c = b \o e

LEMMA LastExists ==
  ASSUME NEW f \in Seq(Recs), NEW kind, NEW n, NEW i \in 1 .. Len(f), Notes(f[i], kind, n)
  PROVE  \E p \in 1 .. Len(f) : LastAt(f, kind, n, p)
<1> DEFINE T == {p \in 1 .. Len(f) : Notes(f[p], kind, n)}
           k == Len(f)
<1>1. k \in Nat /\ T \in SUBSET (0 .. k) /\ T # {}
  OBVIOUS
<1>2. Max(T) \in T /\ \A y \in T : y <= Max(T)
  <2> HIDE DEF T, k
  <2> QED BY <1>1, MaxOfNats
<1> DEFINE m == Max(T)
<1> HIDE DEF m
<1>3. m \in T /\ \A y \in T : y <= m
  BY <1>2 DEF m
<1> QED BY <1>3 DEF LastAt

LEMMA CommitEnds ==
  ASSUME WalInv', MainInv, Filling(w), CallCommit(NoteRingSeqs(w))
  PROVE  \/ wpc' = "idle" /\ wret' = "ok" /\ w' = w /\ w.buf = <<>>
         \/ wpc' = "write" /\ wret' = "none" /\ Ended(w.buf, w'.buf)
<1> DEFINE z == NoteRingSeqs(w)
<1>1. NotesOf(w, z, NS)
  BY NoteSeqsIs
<1> HIDE DEF z
<1>2. Filling(z) /\ w.buf \in Seq(Recs) /\ z.buf \in Seq(Recs) /\ CallCommit(z)
  BY <1>1 DEF NotesOf, Filling, WType, z
<1>3. CASE ~z.open_batch
  <2>1. z = w /\ w' = z /\ wpc' = "idle" /\ wret' = "ok"
    BY <1>1, <1>2, <1>3, CommitSeq DEF NotesOf
  <2>2. w.buf = <<>>
    BY <1>3, <2>1 DEF Filling
  <2> QED BY <2>1, <2>2
<1>4. CASE z.open_batch
  <2>1. PICK d : /\ Extended(w, z, d) /\ \A p \in 1 .. Len(d) : d[p].kind = "BEGIN" \/ OwnMark(d[p])
                 /\ \A n \in NS : srcs[n].added => \E p \in 1 .. Len(d) : d[p].kind = "RSEQ" /\ d[p].ns = n
    BY <1>1 DEF NotesOf
  <2>2. StartCommit("commit", z)
    BY <1>2, <1>4 DEF CallCommit
  <2>3. wpc' = "write" /\ wret' = "none" /\ \E c : Extended(z, w', c) /\ Len(c) = 1 /\ c[1].kind = "COMMIT"
    BY <1>2, <2>2, BeginsSure
  <2>4. PICK c : Extended(z, w', c) /\ Len(c) = 1 /\ c[1].kind = "COMMIT"
    BY <2>3
  <2> DEFINE e == d \o c
  <2>5. d \in Seq(Recs) /\ c \in Seq(Recs)
    BY <2>1, <2>4 DEF Extended
  <2>6. Extended(w, w', e)
    BY <1>2, <2>1, <2>4, <2>5, ExtendedTwice
  <2>7. ASSUME NEW q \in 1 .. Len(e) PROVE e[q].kind \in {"BEGIN", "COMMIT"} \/ OwnMark(e[q])
    <3>1. CASE q \in 1 .. Len(d) /\ e[q] = d[q]
      BY <2>1, <3>1
    <3>2. CASE \E p \in 1 .. Len(c) : q = Len(d) + p /\ e[q] = c[p]
      <4>1. PICK p \in 1 .. Len(c) : e[q] = c[p]
        BY <3>2
      <4>2. p = 1
        BY <2>4
      <4> QED BY <2>4, <4>1, <4>2
    <3> QED BY <2>5, <3>1, <3>2, CatEither
  <2>8. ASSUME NEW n \in NS, srcs[n].added PROVE \E p \in 1 .. Len(e) : Notes(e[p], "RSEQ", n)
    <3>1. PICK p \in 1 .. Len(d) : d[p].kind = "RSEQ" /\ d[p].ns = n
      BY <2>1, <2>8
    <3>2. p \in 1 .. Len(e) /\ e[p] = d[p]
      <4>1. Len(e) = Len(d) + Len(c) /\ Len(d) \in Nat /\ Len(c) \in Nat
        BY <2>5, CatIs
      <4>2. e[p] = d[p]
        BY <2>5, CatIs
      <4> QED BY <4>1, <4>2
    <3> QED BY <3>1, <3>2 DEF Notes
  <2> HIDE DEF e
  <2>9. Endings(e) /\ w'.buf = w.buf \o e
    BY <2>6, <2>7, <2>8 DEF Endings, Extended
  <2> QED BY <2>3, <2>9 DEF Ended
<1> QED BY <1>3, <1>4

\* What the ending says of ring n.
LEMMA EndingSays ==
  ASSUME NEW n \in NS, NEW e, Endings(e)
  PROVE  /\ e \in Seq(Recs) /\ Lacks(e, "GEN", n) /\ \A g, v : ~Logs(e, n, g, v)
         /\ srcs[n].added => SeqIs(e, n, srcs[n].last_seq)
         /\ ~srcs[n].added => Lacks(e, "RSEQ", n)
<1>1. /\ e \in Seq(Recs) /\ \A p \in 1 .. Len(e) : e[p].kind \in {"BEGIN", "COMMIT"} \/ OwnMark(e[p])
      /\ srcs[n].added => \E p \in 1 .. Len(e) : Notes(e[p], "RSEQ", n)
  BY DEF Endings
<1>2. Lacks(e, "GEN", n)
  BY <1>1 DEF Lacks, Notes, OwnMark
<1>3. \A g, v : ~Logs(e, n, g, v)
  BY <1>1, LogsNone DEF OwnMark
<1>4. ~srcs[n].added => Lacks(e, "RSEQ", n)
  BY <1>1 DEF Lacks, Notes, OwnMark
<1>5. ASSUME srcs[n].added PROVE SeqIs(e, n, srcs[n].last_seq)
  <2>1. PICK i \in 1 .. Len(e) : Notes(e[i], "RSEQ", n)
    BY <1>1, <1>5
  <2>2. PICK p \in 1 .. Len(e) : LastAt(e, "RSEQ", n, p)
    BY <1>1, <2>1, LastExists
  <2>3. e[p].val = srcs[n].last_seq
    BY <1>1, <2>2 DEF LastAt, Notes, OwnMark
  <2> QED BY <2>2, <2>3 DEF SeqIs
<1> QED BY <1>1, <1>2, <1>3, <1>4, <1>5

\* The batch on its way: it has the samples it had, and together with the log it covers them.
LEMMA EndedRing ==
  ASSUME NEW n \in NS, NEW K \in Seq(Recs), NEW b \in Seq(Recs), NEW c, Ended(b, c), w.buf = b, SureNow = K,
         RingInv(n), pc \in Filing, rings[n] \in RingType, srcs[n] \in SrcType
  PROVE  /\ c \in Seq(Recs) /\ Lacks(c, "GEN", n) /\ \A g, v : Logs(c, n, g, v) <=> Logs(b, n, g, v)
         /\ Covered(K \o c, n, rings[n].gen)
<1> DEFINE g == rings[n].gen
           t == rings[n].tail
           m == srcs[n].last_seq
           q == srcs[n].skip_seq
<1>1. PICK e : Endings(e) /\ c = b \o e
  BY DEF Ended
<1>2. /\ e \in Seq(Recs) /\ Lacks(e, "GEN", n) /\ \A h, v : ~Logs(e, n, h, v)
      /\ srcs[n].added => SeqIs(e, n, m)
      /\ ~srcs[n].added => Lacks(e, "RSEQ", n)
  BY <1>1, EndingSays
<1>3. HeldOK(n) /\ Covered(K, n, g) /\ GenIs(K, n, g) /\ \A v \in Nat : Logs(K, n, g, v) => Passed(n, v)
  BY DEF RingInv, HeldInv, CoverInv, KnownInv, GenKnown, PassInv, MustPass
<1>4. /\ Lacks(b, "GEN", n) /\ Lacks(b, "RSEQ", n)
      /\ \A h, v \in Nat : Logs(b, n, h, v) => srcs[n].added /\ v <= m
      /\ srcs[n].added => t <= m /\ (srcs[n].skip => q <= m)
  BY <1>3 DEF HeldOK
<1>5. g \in Nat /\ t \in Nat /\ m \in Nat /\ q \in Nat
  BY DEF RingType, SrcType
<1>6. c \in Seq(Recs)
  BY <1>1, <1>2, CatIs
<1>7. Lacks(c, "GEN", n)
  BY <1>1, <1>2, <1>4, LacksCat
<1>8. \A h, v : Logs(c, n, h, v) <=> Logs(b, n, h, v)
  BY <1>1, <1>2, LogsCat
<1>9. \A v : Passed(n, v) <=> v < t \/ (srcs[n].skip /\ v <= q)
  BY DEF Passed
<1> HIDE DEF g, t, m, q
<1>10. CASE srcs[n].added
  <2>1. SeqIs(c, n, m)
    BY <1>1, <1>2, <1>10, SeqNew
  <2>2. ASSUME NEW v \in Nat, Logs(K, n, g, v) \/ Logs(c, n, g, v) PROVE v <= m
    <3>1. CASE Logs(K, n, g, v)
      <4>1. v < t \/ (srcs[n].skip /\ v <= q)
        BY <1>3, <1>9, <3>1
      <4> QED BY <1>4, <1>5, <1>10, <4>1
    <3>2. CASE Logs(c, n, g, v)
      BY <1>4, <1>5, <1>8, <3>2
    <3> QED BY <2>2, <3>1, <3>2
  <2>3. Covered(K \o c, n, g)
    BY <1>3, <1>5, <1>6, <1>7, <2>1, <2>2, CoveredMore
  <2> QED BY <1>6, <1>7, <1>8, <2>3 DEF g
<1>11. CASE ~srcs[n].added
  <2>1. Lacks(c, "RSEQ", n)
    BY <1>1, <1>2, <1>4, <1>11, LacksCat
  <2>2. \A v \in Nat : ~Logs(c, n, g, v)
    BY <1>4, <1>5, <1>8, <1>11
  <2>3. Covered(K \o c, n, g)
    BY <1>3, <1>6, <1>7, <2>1, <2>2, CoveredKept
  <2> QED BY <1>6, <1>7, <1>8, <2>3 DEF g
<1> QED BY <1>10, <1>11

LEMMA CommitSkip ==
  ASSUME WalInv, WalInv', MainInv, OneInv, SkipInv, Flush \/ Stop
  PROVE  SkipInv'
<1>1. /\ pc \in Filing /\ pc' \in Waiting /\ rings' = rings /\ srcs' = srcs /\ (pc' = "commit_wait" => ni' = FirstNs) /\ pc' # "decide"
      /\ CallCommit(NoteRingSeqs(w))
  BY DEF Flush, Stop, Filing, Waiting, SkipInv, AgeInv
<1>2. SureNow' = SureNow /\ wpc = "idle" /\ SureNow \in Seq(Recs) /\ w.buf \in Seq(Recs) /\ Filling(w)
  BY MainSure, MainIdle, CardNow DEF MainStep, Ready
<1>3. \/ wpc' = "idle" /\ wret' = "ok" /\ w' = w /\ w.buf = <<>>
      \/ wpc' = "write" /\ wret' = "none" /\ Ended(w.buf, w'.buf)
  BY <1>1, <1>2, CommitEnds
<1>4. \A n \in NS : RingInv(n) /\ rings[n] \in RingType /\ srcs[n] \in SrcType
  BY DEF SkipInv, MainInv
<1>5. \A n \in NS : \A v \in Nat : Passed(n, v) => Reached(n, v)
  <2> SUFFICES ASSUME NEW n \in NS, NEW v \in Nat, Passed(n, v) PROVE Reached(n, v)
    OBVIOUS
  <2>1. rings[n].tail \in Nat /\ srcs[n].taken \in Nat
    BY <1>4 DEF RingType, SrcType
  <2> QED BY <2>1 DEF Passed, Reached
<1>6. ASSUME NEW n \in NS PROVE FoundInv(n)' /\ EmptyInv(n)' /\ PassInv(n)' /\ KnownInv(n)'
  <2>1. FoundInv(n)' /\ EmptyInv(n)'
    BY <1>1 DEF FoundInv, EmptyInv, Unnoted, Starting, Waiting
  <2>2. \A v \in Nat : (Passed(n, v)' <=> Passed(n, v)) /\ (Reached(n, v)' <=> Reached(n, v))
    BY <1>1 DEF Passed, Reached
  <2>3. \A v \in Nat : Logs(SureNow, n, rings[n].gen, v) => Passed(n, v)
    BY <1>1, <1>4 DEF RingInv, PassInv, MustPass
  <2>4. PassInv(n)'
    BY <1>1, <1>2, <1>5, <2>2, <2>3 DEF PassInv
  <2>5. KnownInv(n)'
    BY <1>1, <1>2, <1>4 DEF RingInv, KnownInv, GenKnown
  <2> QED BY <2>1, <2>4, <2>5
<1>7. CASE wpc' = "idle" /\ w' = w
  <2>1. AgeInv'
    BY <1>1, <1>2, <1>7, SameAge
  <2>2. \A n \in NS : CoverInv(n)' /\ HeldInv(n)'
    BY <1>1, <1>2, <1>7, IdleRing DEF Filing, Waiting
  <2> QED BY <1>6, <2>1, <2>2 DEF SkipInv, RingInv
<1>8. CASE wpc' = "write" /\ wret' = "none" /\ Ended(w.buf, w'.buf)
  <2>1. ASSUME NEW n \in NS
        PROVE  /\ Lacks(w'.buf, "GEN", n) /\ Covered(SureNow \o w'.buf, n, rings[n].gen)
               /\ \A g, v : Logs(w'.buf, n, g, v) <=> Logs(w.buf, n, g, v)
    BY <1>1, <1>2, <1>4, <1>8, EndedRing
  <2>2. AgeInv'
    <3>1. Aged(SureNow) /\ Aged(w.buf) /\ \A n \in NS : rings[n].gen = rings[FirstNs].gen
      BY DEF SkipInv, AgeInv
    <3>2. Aged(SureNow)' /\ Aged(w.buf)'
      BY <1>1, <1>2, <2>1, <3>1 DEF Aged
    <3> QED BY <1>1, <3>1, <3>2 DEF AgeInv
  <2>3. ASSUME NEW n \in NS PROVE CoverInv(n)' /\ HeldInv(n)'
    <3>1. CoverInv(n)'
      BY <1>1, <1>2, <1>4, <2>1 DEF RingInv, CoverInv
    <3>2. rings[n].tail \in Nat /\ srcs[n].taken \in Nat /\ srcs[n].last_seq \in Nat /\ rings[n].gen \in Nat
      BY <1>4 DEF RingType, SrcType
    <3>3. HeldOK(n)
      BY <1>1, <1>4 DEF RingInv, HeldInv
    <3>4. ASSUME NEW v \in Nat, Logs(w.buf, n, rings[n].gen, v) PROVE Reached(n, v)
      BY <3>2, <3>3, <3>4 DEF HeldOK, Reached
    <3>5. Laden(n)'
      BY <1>1, <2>1, <3>4 DEF Laden, Reached
    <3>6. HeldInv(n)'
      BY <1>1, <3>5 DEF HeldInv, Filing, Waiting
    <3> QED BY <3>1, <3>6
  <2> QED BY <1>6, <2>2, <2>3 DEF SkipInv, RingInv
<1> QED BY <1>3, <1>7, <1>8

LEMMA MainSkip ==
  ASSUME WalInv, WalInv', MainInv, MainInv', OneInv, SkipInv, MainStep
  PROVE  SkipInv'
<1>1. CASE CloseDone
  <2>1. disk' = disk /\ rings' = rings /\ \E how : Exit(how)
    BY <1>1 DEF CloseDone
  <2> QED BY <2>1, ExitSkip
<1>2. CASE ~CloseDone
  BY <1>2, StartSkip, OpenDoneSkip, NoteGenerationSkip, NoteDoneSkip, DrainSkip, CommitSkip, IdleSkip, FlushDoneSkip, ReleaseSkip,
     StopSkip DEF MainStep
<1> QED BY <1>1, <1>2

LEMMA SkipNext ==
  ASSUME OrderAssumption, OrderInv, OrderInv', OneInv, OneInv', SkipInv, Unrolled, Unrolled', [Next]_vars
  PROVE  SkipInv'
<1>1. WalInv /\ WalInv' /\ MainInv /\ MainInv'
  BY DEF OrderInv
<1>2. CASE MainStep
  BY <1>1, <1>2, MainSkip
<1>3. CASE LogStep
  <2>1. SeqMoves /\ pc' = pc /\ rings' = rings /\ srcs' = srcs /\ ni' = ni
    BY <1>1, <1>3, WalStepSeq DEF LogStep, svars, OrderAssumption
  <2>2. wpc # "idle"
    BY <1>3, WalCalls DEF LogStep
  <2> QED BY <1>1, <2>1, <2>2, LogSkip
<1>4. CASE Kill
  <2>1. disk' = disk /\ rings' = rings /\ srcs' = NoSources /\ pc' = "down" /\ w' = Closed /\ wpc' = "idle"
    BY <1>4 DEF Kill, Gone, WalKilled
  <2> QED BY <1>1, <2>1, KillSkip
<1>5. CASE PowerCut
  BY <1>5, PowerSkip
<1>6. CASE (\E n \in NS : Push(n)) \/ Tick \/ Signal \/ UNCHANGED vars
  <2>1. UNCHANGED <<disk, w, wpc, wret, srcs, pc, ni>>
    BY <1>6 DEF Push, Tick, Signal, vars, wvars, svars
  <2>2. \A n \in NS : rings'[n].gen = rings[n].gen /\ rings'[n].tail = rings[n].tail
    BY <1>1, <1>6 DEF Push, Tick, Signal, vars, MainInv, RingType
  <2> QED BY <2>1, <2>2, StandSkip
<1> QED BY <1>2, <1>3, <1>4, <1>5, <1>6 DEF Next

LEMMA SkipInit == Init => SkipInv
<1> SUFFICES ASSUME Init PROVE SkipInv
  OBVIOUS
<1>1. disk = <<>> /\ w = Closed /\ wpc = "idle" /\ pc = "down" /\ srcs = NoSources /\ rings = NewRings(1)
  BY DEF Init, WalInit
<1>2. SureNow = <<>> /\ w.buf = <<>>
  BY <1>1, EmptyCard DEF SureNow, Sure, Closed
<1>3. \A n \in NS : rings[n].gen = 1 /\ srcs[n].taken = 0 /\ srcs[n].added = FALSE
  BY Zenon, <1>1 DEF NewRings, NoSources, NoSource
<1>4. FirstNs \in NS
  BY NsIs DEF FirstNs
<1>5. AgeInv
  BY <1>1, <1>2, <1>3, <1>4, NoneLogs DEF AgeInv, Aged
<1>6. ASSUME NEW n \in NS PROVE RingInv(n)
  <2>1. \A v \in Nat : ~Logs(SureNow, n, rings[n].gen, v)
    BY <1>2, NoneLogs
  <2>2. CoverInv(n)
    BY <1>1, <2>1, CoveredNone DEF CoverInv, Sealing
  <2>3. FoundInv(n) /\ PassInv(n) /\ EmptyInv(n)
    BY <1>3, <2>1 DEF FoundInv, PassInv, EmptyInv
  <2>4. KnownInv(n)
    BY <1>1 DEF KnownInv, GenKnown, Filing
  <2>5. HeldInv(n)
    BY <1>1 DEF HeldInv, Filing, Sealing
  <2> QED BY <2>2, <2>3, <2>4, <2>5 DEF RingInv
<1> QED BY <1>5, <1>6 DEF SkipInv

LEMMA SkipHolds == ASSUME OrderAssumption PROVE Spec /\ []Unrolled => [](OneSegment /\ SkipInv)
<1>1. OneSegment /\ OneSegment' /\ SkipInv /\ Unrolled /\ Unrolled' /\ [Next]_vars => SkipInv'
  BY SkipNext DEF OneSegment
<1> QED BY <1>1, SkipInit, OneSegmentHolds, PTL DEF Spec

\* A batch that failed is not in the log: what is there of its rings is in front of what main takes.
LEMMA SkipSafe == OneSegment /\ SkipInv => FailedBatchIsCutBack
<1> SUFFICES ASSUME OneSegment, SkipInv, pc \in Waiting, wret = "fail", NEW n \in NS, NEW s \in Batched(n), s \in SamplesOf(Log)
             PROVE  FALSE
  BY Zenon DEF FailedBatchIsCutBack, Waiting
<1>1. WalInv /\ MainInv /\ Len(disk) <= 1 /\ disk \in Seq(Segs)
  BY DEF OneSegment, OrderInv, OneInv, WalInv, WalOK, DiskOK
<1>2. wpc = "idle"
  BY <1>1, DoneEmpty
<1>3. Log = SureNow
  BY <1>1, <1>2, LogIsCard, IdleIsSure
<1>4. rings[n].tail \in Nat /\ srcs[n].taken \in Nat /\ srcs[n].skip_seq \in Nat
  BY <1>1 DEF MainInv, RingType, SrcType
<1>5. PICK q \in rings[n].tail .. rings[n].tail + srcs[n].taken - 1 :
           s = <<n, rings[n].gen, q>> /\ ~(srcs[n].skip /\ s[3] <= srcs[n].skip_seq)
  BY DEF Batched, Taken
<1>6. q \in Nat /\ ~(q < rings[n].tail) /\ ~(srcs[n].skip /\ q <= srcs[n].skip_seq)
  BY <1>4, <1>5
<1>7. Logs(SureNow, n, rings[n].gen, q)
  BY <1>3, <1>5 DEF Logs
<1>8. MustPass(n) /\ RingInv(n)
  BY DEF MustPass, SkipInv
<1>9. Passed(n, q)
  BY <1>6, <1>7, <1>8 DEF RingInv, PassInv
<1> QED BY <1>6, <1>9 DEF Passed

\* wal_commit "cut[s] the file back to its last commit" when it returns -1: as long as the log is in its first
\* segment, no sample of the batch it gave up on is in the log, whatever was there of the same ring before
\* (drain, note_generation, wal_commit).
THEOREM EveryFailedBatchIsCutBack == ASSUME OrderAssumption PROVE Spec /\ []Unrolled => []FailedBatchIsCutBack
BY SkipHolds, SkipSafe, PTL

---------------------------------------------------------------------------
(* The batch that was open at the stop *)

Triples == NS \X Nat \X Nat

\* It is in the log; nothing of it is in the log or was freed.
In  == \A s \in owed : s \in SamplesOf(SureNow)
Out == \A s \in owed : s \notin SamplesOf(SureNow) /\ s \notin released

\* What was freed of a ring is in front of its tail, or of a ring before it.
FreedInv ==
  \A n \in NS : \A g, q \in Nat : <<n, g, q>> \in released
    => g <= rings[FirstNs].gen /\ (g = rings[n].gen => q < rings[n].tail)

Leaving == {"stop_wait", "stop_release", "closing", "down"}

OwedInv ==
  /\ owed \in SUBSET Triples
  /\ pc \notin Leaving => owed = {}
  /\ pc = "stop_wait" /\ wret = "none" => Out /\ \A s \in owed : s \in SamplesOf(w.buf)
  /\ (pc = "stop_wait" /\ wret = "ok") \/ pc = "stop_release" => In
  /\ pc = "stop_wait" /\ wret \notin {"none", "ok"} => Out
  /\ pc = "closing" \/ (pc = "down" /\ ended = "clean") => In \/ Out

LEMMA SamplesCat ==
  ASSUME NEW a \in Seq(Recs), NEW b \in Seq(Recs), NEW s \in Triples
  PROVE  s \in SamplesOf(a \o b) <=> s \in SamplesOf(a) \/ s \in SamplesOf(b)
<1>1. s = <<s[1], s[2], s[3]>>
  BY DEF Triples
<1>2. Logs(a \o b, s[1], s[2], s[3]) <=> Logs(a, s[1], s[2], s[3]) \/ Logs(b, s[1], s[2], s[3])
  BY LogsCat
<1> QED BY <1>1, <1>2 DEF Logs

LEMMA BareHas ==
  ASSUME NEW b, \A n \in NS : Bare(b, n), NEW s \in Triples
  PROVE  s \notin SamplesOf(b)
<1>1. s = <<s[1], s[2], s[3]>> /\ s[1] \in NS /\ s[2] \in Nat /\ s[3] \in Nat
  BY DEF Triples
<1>2. ~Logs(b, s[1], s[2], s[3])
  BY <1>1 DEF Bare
<1> QED BY <1>1, <1>2 DEF Logs

\* Slots are freed at the tail.
LEMMA ReleaseFreed ==
  ASSUME MainInv, SkipInv, FreedInv, ReleaseTaken(ni)
  PROVE  FreedInv'
<1>1. rings \in [NS -> RingType] /\ srcs \in [NS -> SrcType] /\ ni \in NS /\ FirstNs \in NS
  BY NsIs DEF MainInv, FirstNs
<1>2. rings' = [rings EXCEPT ![ni].tail = @ + srcs[ni].taken] /\ released' = released \cup Taken(ni)
  BY DEF ReleaseTaken
<1>3. \A n \in NS : rings'[n].gen = rings[n].gen /\ rings[n].gen = rings[FirstNs].gen
  BY <1>1, <1>2 DEF RingType, SkipInv, AgeInv
<1>4. rings[ni].tail \in Nat /\ srcs[ni].taken \in Nat /\ rings[ni].gen \in Nat
  BY <1>1 DEF RingType, SrcType
<1>5. rings'[ni].tail = rings[ni].tail + srcs[ni].taken /\ \A n \in NS : n # ni => rings'[n].tail = rings[n].tail
  <2>1. rings'[ni] = [rings[ni] EXCEPT !.tail = @ + srcs[ni].taken] /\ \A n \in NS : n # ni => rings'[n] = rings[n]
    BY <1>1, <1>2
  <2>2. rings[ni] \in RingType
    BY <1>1
  <2> QED BY <2>1, <2>2 DEF RingType
<1> SUFFICES ASSUME NEW n \in NS, NEW g \in Nat, NEW q \in Nat, <<n, g, q>> \in released'
             PROVE  g <= rings'[FirstNs].gen /\ (g = rings'[n].gen => q < rings'[n].tail)
  BY DEF FreedInv
<1>6. CASE <<n, g, q>> \in released
  <2>1. g <= rings[FirstNs].gen /\ (g = rings[n].gen => q < rings[n].tail)
    BY <1>6 DEF FreedInv
  <2>2. CASE n = ni
    BY <1>1, <1>3, <1>4, <1>5, <2>1, <2>2
  <2>3. CASE n # ni
    BY <1>1, <1>3, <1>5, <2>1, <2>3
  <2> QED BY <2>2, <2>3
<1>7. CASE <<n, g, q>> \in Taken(ni)
  <2>1. n = ni /\ g = rings[ni].gen /\ q \in rings[ni].tail .. rings[ni].tail + srcs[ni].taken - 1
    BY <1>7 DEF Taken
  <2>2. q < rings'[n].tail
    BY <1>4, <1>5, <2>1
  <2>3. g <= rings'[FirstNs].gen
    BY <1>1, <1>3, <1>4, <2>1
  <2> QED BY <2>2, <2>3
<1> QED BY <1>2, <1>6, <1>7

\* The rings of the next boot are new.
LEMMA PowerFreed ==
  ASSUME MainInv, FreedInv, PowerCut
  PROVE  FreedInv'
<1>1. rings' = NewRings(rings[FirstNs].gen + 1) /\ released' = released
  BY DEF PowerCut, Gone
<1>2. FirstNs \in NS /\ rings[FirstNs].gen \in Nat
  BY NsIs DEF MainInv, FirstNs, RingType
<1>3. \A n \in NS : rings'[n].gen = rings[FirstNs].gen + 1
  BY <1>1 DEF NewRings
<1> SUFFICES ASSUME NEW n \in NS, NEW g \in Nat, NEW q \in Nat, <<n, g, q>> \in released
             PROVE  g <= rings'[FirstNs].gen /\ g # rings'[n].gen
  BY <1>1 DEF FreedInv
<1>4. g <= rings[FirstNs].gen
  BY DEF FreedInv
<1> QED BY <1>2, <1>3, <1>4

LEMMA FreedNext ==
  ASSUME MainInv, SkipInv, FreedInv, [Next]_vars
  PROVE  FreedInv'
<1>0. FirstNs \in NS
  BY NsIs DEF FirstNs
<1>1. CASE ReleaseTaken(ni)
  BY <1>1, ReleaseFreed
<1>2. CASE PowerCut
  BY <1>2, PowerFreed
<1>3. CASE released' = released /\ \A n \in NS : rings'[n].gen = rings[n].gen /\ rings'[n].tail = rings[n].tail
  BY <1>0, <1>3 DEF FreedInv
<1>4. CASE \E n \in NS : Push(n)
  <2>1. released' = released /\ \A n \in NS : rings'[n].gen = rings[n].gen /\ rings'[n].tail = rings[n].tail
    BY <1>4 DEF Push, MainInv, RingType, hist
  <2> QED BY <1>3, <2>1
<1>5. CASE MainStep /\ ~ReleaseTaken(ni)
  <2>1. released' = released /\ rings' = rings
    BY Zenon, <1>5 DEF MainStep, Start, OpenDone, NoteGeneration, NoteDone, Drain, Flush, Idle, FlushDone, Release,
         Stop, StopDone, StopRelease, CloseDone, hist
  <2> QED BY <1>3, <2>1
<1>6. CASE LogStep \/ Tick \/ Signal \/ Kill \/ UNCHANGED vars
  <2>1. released' = released /\ rings' = rings
    BY <1>6 DEF LogStep, Tick, Signal, Kill, Gone, vars, hist
  <2> QED BY <1>3, <2>1
<1> QED BY <1>1, <1>2, <1>4, <1>5, <1>6 DEF Next

---------------------------------------------------------------------------

\* The stop: what is owed is in the batch on its way, and nowhere else.
LEMMA StopOwed ==
  ASSUME WalInv, WalInv', MainInv, OneInv, SkipInv, FreedInv, Stop
  PROVE  OwedInv'
<1>1. /\ pc = "stop" /\ pc' = "stop_wait" /\ CallCommit(NoteRingSeqs(w)) /\ released' = released
      /\ owed' = UNION {Batched(n) : n \in NS} /\ pc \in Filing
  BY DEF Stop, Filing
<1>2. SureNow' = SureNow /\ wpc = "idle" /\ SureNow \in Seq(Recs) /\ w.buf \in Seq(Recs) /\ Filling(w)
  BY MainSure, MainIdle, CardNow DEF MainStep, Ready
<1>3. \/ wpc' = "idle" /\ wret' = "ok" /\ w' = w /\ w.buf = <<>>
      \/ wpc' = "write" /\ wret' = "none" /\ Ended(w.buf, w'.buf)
  BY <1>1, <1>2, CommitEnds
<1>4. ASSUME NEW s \in owed'
      PROVE  \E n \in NS : \E q \in Nat : /\ s = <<n, rings[n].gen, q>> /\ rings[n].gen \in Nat
                                          /\ ~Passed(n, q) /\ Logs(w.buf, n, rings[n].gen, q) /\ ~(q < rings[n].tail)
  <2>1. PICK n \in NS : s \in Batched(n)
    BY <1>1
  <2>2. PICK q \in rings[n].tail .. rings[n].tail + srcs[n].taken - 1 :
           s = <<n, rings[n].gen, q>> /\ ~(srcs[n].skip /\ s[3] <= srcs[n].skip_seq)
    BY <2>1 DEF Batched, Taken
  <2>3. rings[n].tail \in Nat /\ srcs[n].taken \in Nat /\ srcs[n].skip_seq \in Nat /\ rings[n].gen \in Nat
    BY DEF MainInv, RingType, SrcType
  <2>4. q \in Nat /\ ~(q < rings[n].tail) /\ ~(srcs[n].skip /\ q <= srcs[n].skip_seq)
    BY <2>2, <2>3
  <2>5. ~Passed(n, q)
    BY <2>4 DEF Passed
  <2>6. HeldOK(n)
    BY <1>1 DEF SkipInv, RingInv, HeldInv
  <2>7. Logs(w.buf, n, rings[n].gen, q)
    BY <2>2, <2>5, <2>6 DEF HeldOK
  <2> QED BY <2>2, <2>3, <2>4, <2>5, <2>7
<1>5. owed' \in SUBSET Triples
  BY <1>4 DEF Triples
<1>6. ASSUME NEW s \in owed' PROVE s \notin SamplesOf(SureNow) /\ s \notin released /\ s \in SamplesOf(w.buf)
  <2>1. PICK n \in NS : \E q \in Nat : /\ s = <<n, rings[n].gen, q>> /\ rings[n].gen \in Nat
                                       /\ ~Passed(n, q) /\ Logs(w.buf, n, rings[n].gen, q) /\ ~(q < rings[n].tail)
    BY <1>4
  <2>2. PICK q \in Nat : /\ s = <<n, rings[n].gen, q>> /\ rings[n].gen \in Nat
                         /\ ~Passed(n, q) /\ Logs(w.buf, n, rings[n].gen, q) /\ ~(q < rings[n].tail)
    BY <2>1
  <2>3. RingInv(n) /\ MustPass(n)
    BY <1>1 DEF SkipInv, MustPass
  <2>4. ~Logs(SureNow, n, rings[n].gen, q)
    BY <2>2, <2>3 DEF RingInv, PassInv
  <2>5. s \notin released
    BY <2>2 DEF FreedInv
  <2> QED BY <2>2, <2>4, <2>5 DEF Logs
<1>7. CASE wret' = "ok" /\ w.buf = <<>>
  <2>1. \A s \in owed' : FALSE
    BY <1>4, <1>7, NoneLogs
  <2>2. In'
    BY <2>1 DEF In
  <2> QED BY <1>1, <1>5, <1>7, <2>2 DEF OwedInv, Leaving
<1>8. CASE wret' = "none" /\ Ended(w.buf, w'.buf)
  <2>1. PICK e : Endings(e) /\ w'.buf = w.buf \o e
    BY <1>8 DEF Ended
  <2>2. e \in Seq(Recs)
    BY <2>1 DEF Endings
  <2>3. \A s \in owed' : s \in SamplesOf(w'.buf)
    BY <1>2, <1>5, <1>6, <2>1, <2>2, SamplesCat
  <2>4. Out'
    BY <1>1, <1>2, <1>6 DEF Out
  <2> QED BY <1>1, <1>5, <1>8, <2>3, <2>4 DEF OwedInv, Leaving
<1> QED BY <1>3, <1>7, <1>8

\* The batch counts, or is given up; wal_close's batch has no sample.
LEMMA LogOwed ==
  ASSUME WalInv, OneInv, SkipInv, OwedInv, SeqMoves, wpc # "idle", rings' = rings, srcs' = srcs, pc' = pc, UNCHANGED <<owed, released, ended>>
  PROVE  OwedInv'
<1>1. wret = "none" /\ SureNow \in Seq(Recs) /\ w.buf \in Seq(Recs) /\ owed \in SUBSET Triples
  BY CardNow DEF WalInv, WalOK, OwedInv
<1>2. pc # "down" /\ pc # "stop_release"
  BY DEF OneInv
<1>3. CASE pc = "stop_wait"
  <2>1. Out /\ \A s \in owed : s \in SamplesOf(w.buf)
    BY <1>1, <1>3 DEF OwedInv
  <2>2. CASE Accepts
    <3>1. SureNow' = SureNow \o w.buf /\ wret' = "ok"
      BY <2>2 DEF Accepts
    <3>2. \A s \in owed : s \in SamplesOf(SureNow \o w.buf)
      BY <1>1, <2>1, SamplesCat
    <3>3. In'
      BY <3>1, <3>2 DEF In
    <3> QED BY <1>1, <1>3, <3>1, <3>3 DEF OwedInv, Leaving
  <2>3. CASE GivesUp
    <3>1. Out' /\ wret' = "fail"
      BY <2>1, <2>3 DEF GivesUp, Out
    <3> QED BY <1>1, <1>3, <3>1 DEF OwedInv, Leaving
  <2>4. CASE GoesOn
    <3>1. Out' /\ wret' = "none" /\ w'.buf = w.buf
      BY <2>1, <2>4 DEF GoesOn, Out
    <3> QED BY <1>1, <1>3, <2>1, <3>1 DEF OwedInv, Leaving
  <2>5. ~BootsNow
    BY <1>3 DEF BootsNow, OneInv
  <2> QED BY <2>2, <2>3, <2>4, <2>5 DEF SeqMoves
<1>4. CASE pc = "closing"
  <2>1. In \/ Out
    BY <1>4 DEF OwedInv
  <2>2. CASE SureNow' = SureNow
    <3>1. In' \/ Out'
      BY <2>1, <2>2 DEF In, Out
    <3> QED BY <1>1, <1>4, <3>1 DEF OwedInv, Leaving
  <2>3. CASE Accepts
    <3>1. SureNow' = SureNow \o w.buf /\ wpc \in Sealing
      BY <2>3 DEF Accepts
    <3>2. \A n \in NS : Bare(w.buf, n)
      BY <1>4, <3>1 DEF SkipInv, RingInv, HeldInv, Waiting
    <3>3. \A s \in owed : s \in SamplesOf(SureNow') <=> s \in SamplesOf(SureNow)
      BY <1>1, <3>1, <3>2, SamplesCat, BareHas
    <3>4. In' \/ Out'
      BY <2>1, <3>3 DEF In, Out
    <3> QED BY <1>1, <1>4, <3>4 DEF OwedInv, Leaving
  <2> QED BY <2>2, <2>3 DEF SeqMoves, GoesOn, BootsNow, GivesUp
<1>5. CASE pc \notin Leaving
  BY <1>5 DEF OwedInv, Leaving
<1> QED BY <1>2, <1>3, <1>4, <1>5 DEF Leaving

LEMMA NothingOwed == ASSUME owed' = {} PROVE OwedInv'
BY DEF OwedInv, In, Out

LEMMA MainOwed ==
  ASSUME WalInv, WalInv', MainInv, OneInv, SkipInv, FreedInv, OwedInv, MainStep
  PROVE  OwedInv'
<1>1. SureNow' = SureNow
  BY MainSure
<1>2. CASE Start
  BY <1>2, NothingOwed DEF Start
<1>3. CASE pc \notin Leaving /\ ~Stop
  <2>1. owed = {}
    BY <1>3 DEF OwedInv
  <2>2. owed' = owed
    BY Zenon, <1>3 DEF MainStep, Start, OpenDone, NoteGeneration, NoteDone, Drain, Flush, Idle, FlushDone, Release,
         StopDone, StopRelease, CloseDone, hist, Leaving
  <2> QED BY <2>1, <2>2, NothingOwed
<1>4. CASE Stop
  BY <1>4, StopOwed
<1>5. CASE StopDone
  <2>1. pc = "stop_wait" /\ owed' = owed /\ released' = released
        /\ ((wret = "ok" /\ pc' = "stop_release") \/ (wret = "fail" /\ pc' = "closing"))
    BY <1>5 DEF StopDone, hist
  <2>2. CASE wret = "ok" /\ pc' = "stop_release"
    <3>1. In'
      BY <1>1, <2>1, <2>2 DEF OwedInv, In
    <3> QED BY <2>1, <2>2, <3>1 DEF OwedInv, Leaving
  <2>3. CASE wret = "fail" /\ pc' = "closing"
    <3>1. Out'
      BY <1>1, <2>1, <2>3 DEF OwedInv, Out
    <3> QED BY <2>1, <2>3, <3>1 DEF OwedInv, Leaving
  <2> QED BY <2>1, <2>2, <2>3
<1>6. CASE StopRelease
  <2>1. pc = "stop_release" /\ owed' = owed /\ pc' \in {"stop_release", "closing"}
    BY <1>6 DEF StopRelease
  <2>2. In'
    BY <1>1, <2>1 DEF OwedInv, In
  <2> QED BY <2>1, <2>2 DEF OwedInv, Leaving
<1>7. CASE CloseDone
  <2>1. pc = "closing" /\ pc' = "down" /\ owed' = owed /\ released' = released
    BY <1>7 DEF CloseDone, Exit
  <2>2. In' \/ Out'
    BY <1>1, <2>1 DEF OwedInv, In, Out
  <2> QED BY <2>1, <2>2 DEF OwedInv, Leaving
<1>8. pc \in Leaving => Start \/ StopDone \/ StopRelease \/ CloseDone
  BY Zenon DEF MainStep, Start, OpenDone, NoteGeneration, NoteDone, Drain, Flush, Idle, FlushDone, Release, Stop, Leaving
<1> QED BY <1>2, <1>3, <1>4, <1>5, <1>6, <1>7, <1>8

LEMMA OwedNext ==
  ASSUME OrderAssumption, OrderInv, OrderInv', OneInv, OneInv', SkipInv, FreedInv, OwedInv, Unrolled, Unrolled', [Next]_vars
  PROVE  OwedInv'
<1>1. WalInv /\ WalInv' /\ MainInv
  BY DEF OrderInv
<1>2. CASE MainStep
  BY <1>1, <1>2, MainOwed
<1>3. CASE LogStep
  <2>1. SeqMoves /\ pc' = pc /\ rings' = rings /\ srcs' = srcs /\ UNCHANGED <<owed, released, ended>>
    BY <1>1, <1>3, WalStepSeq DEF LogStep, svars, hist, OrderAssumption
  <2>2. wpc # "idle"
    BY <1>3, WalCalls DEF LogStep
  <2> QED BY <1>1, <2>1, <2>2, LogOwed
<1>4. CASE Kill \/ PowerCut
  <2>1. owed' = {}
    BY <1>4 DEF Kill, PowerCut, Gone
  <2> QED BY <2>1, NothingOwed
<1>5. CASE (\E n \in NS : Push(n)) \/ Tick \/ Signal \/ UNCHANGED vars
  <2>1. UNCHANGED <<disk, w, wret, pc, owed, released, ended>>
    BY <1>5 DEF Push, Tick, Signal, vars, wvars, svars, hist
  <2>2. SureNow' = SureNow
    BY <2>1 DEF SureNow, Sure, CardLog
  <2>3. (In' <=> In) /\ (Out' <=> Out)
    BY <2>1, <2>2 DEF In, Out
  <2> QED BY <2>1, <2>3 DEF OwedInv
<1> QED BY <1>2, <1>3, <1>4, <1>5 DEF Next

LEMMA OwedInit == Init => FreedInv /\ OwedInv
BY DEF Init, FreedInv, OwedInv, In, Out

\* The log is the committed records, or these and the batch on its way.
LEMMA OwedSafe == OneSegment /\ SkipInv /\ OwedInv => CleanStopIsWhole
<1> SUFFICES ASSUME OneSegment, SkipInv, OwedInv, ended = "clean"
             PROVE  (\A s \in owed : s \in SamplesOf(Log)) \/ (\A s \in owed : s \notin SamplesOf(Log) /\ s \notin released)
  BY DEF CleanStopIsWhole
<1>1. WalInv /\ MainInv /\ OneInv /\ Len(disk) <= 1 /\ disk \in Seq(Segs)
  BY DEF OneSegment, OrderInv, OneInv, WalInv, WalOK, DiskOK
<1>2. /\ SureNow \in Seq(Recs) /\ w.buf \in Seq(Recs) /\ owed \in SUBSET Triples
      /\ Log = SureNow \/ (wpc \in Sealing /\ Log = SureNow \o w.buf)
  BY <1>1, LogIsCard, CardNow DEF OwedInv
<1>3. wpc \in Sealing => wret = "none" /\ pc \notin {"down", "stop_release"}
  BY <1>1 DEF WalInv, WalOK, Sealing, OneInv
<1>4. CASE pc \notin Leaving
  <2>1. owed = {}
    BY <1>4 DEF OwedInv
  <2> QED BY <2>1
<1>5. CASE pc \in Leaving /\ Log = SureNow
  <2>1. In \/ Out
    BY <1>5 DEF OwedInv, Leaving
  <2> QED BY <1>5, <2>1 DEF In, Out
<1>6. CASE pc = "stop_wait" /\ wpc \in Sealing /\ Log = SureNow \o w.buf
  <2>1. \A s \in owed : s \in SamplesOf(w.buf)
    BY <1>3, <1>6 DEF OwedInv
  <2>2. \A s \in owed : s \in SamplesOf(SureNow \o w.buf)
    BY <1>2, <2>1, SamplesCat
  <2> QED BY <1>6, <2>2
<1>7. CASE pc = "closing" /\ wpc \in Sealing /\ Log = SureNow \o w.buf
  <2>1. In \/ Out
    BY <1>7 DEF OwedInv
  <2>2. \A n \in NS : Bare(w.buf, n)
    BY Zenon, <1>7 DEF SkipInv, RingInv, HeldInv, Waiting
  <2>3. \A s \in owed : s \in SamplesOf(Log) <=> s \in SamplesOf(SureNow)
    BY <1>2, <1>7, <2>2, SamplesCat, BareHas
  <2> QED BY <2>1, <2>3 DEF In, Out
<1> QED BY <1>2, <1>3, <1>4, <1>5, <1>6, <1>7 DEF Leaving

LEMMA OwedHolds == ASSUME OrderAssumption PROVE Spec /\ []Unrolled => []OwedInv
<1> DEFINE I == OneSegment /\ SkipInv
<1>1. Spec /\ []Unrolled => []I
  BY SkipHolds
<1>2. I /\ I' /\ FreedInv /\ OwedInv /\ Unrolled /\ Unrolled' /\ [Next]_vars => FreedInv' /\ OwedInv'
  <2> SUFFICES ASSUME I, I', FreedInv, OwedInv, Unrolled, Unrolled', [Next]_vars PROVE FreedInv' /\ OwedInv'
    OBVIOUS
  <2>1. OrderInv /\ OrderInv' /\ OneInv /\ OneInv' /\ SkipInv /\ MainInv
    BY DEF OneSegment, OrderInv
  <2> QED BY <2>1, FreedNext, OwedNext
<1> HIDE DEF I
<1> QED BY <1>1, <1>2, OwedInit, PTL DEF Spec

\* "Clean stop: make the open batch durable, free its slots, and mark the end": as long as the log is in its
\* first segment, after an exit with status 0 the batch that was open at the stop is in the log or, its commit
\* having failed, all of it is still in the rings, and wal_close has left it so (main, wal_commit, wal_close).
THEOREM EveryCleanStopIsWhole == ASSUME OrderAssumption PROVE Spec /\ []Unrolled => []CleanStopIsWhole
BY SkipHolds, OwedHolds, OwedSafe, PTL

---------------------------------------------------------------------------
(* The samples of a ring are in the log in their order *)

\* Two samples of one ring.
Akin(r, s) == r.kind = "SAMPLE" /\ s.kind = "SAMPLE" /\ r.ns = s.ns /\ r.gen = s.gen

\* The samples of a ring go up in f; those of b are behind those of a.
Up(f)        == \A i, j \in 1 .. Len(f) : i < j /\ Akin(f[i], f[j]) => f[i].val < f[j].val
Before(a, b) == \A i \in 1 .. Len(a) : \A j \in 1 .. Len(b) : Akin(a[i], b[j]) => a[i].val < b[j].val
Plainly(e)   == \A p \in 1 .. Len(e) : e[p].kind # "SAMPLE"

UpInv == Up(SureNow) /\ Up(w.buf) /\ Before(SureNow, w.buf)

LEMMA UpCat ==
  ASSUME NEW a \in Seq(Recs), NEW b \in Seq(Recs), Up(a), Up(b), Before(a, b)
  PROVE  Up(a \o b)
<1> DEFINE h == a \o b
           k == Len(a)
           l == Len(b)
<1>1. Len(h) = k + l /\ k \in Nat /\ l \in Nat
  BY CatIs
<1>2. \A q \in 1 .. Len(h) : \/ q \in 1 .. k /\ h[q] = a[q]
                             \/ \E p \in 1 .. l : q = k + p /\ h[q] = b[p]
  BY CatEither
<1> HIDE DEF h, k, l
<1> SUFFICES ASSUME NEW i \in 1 .. Len(h), NEW j \in 1 .. Len(h), i < j, Akin(h[i], h[j]) PROVE h[i].val < h[j].val
  BY DEF Up, h
<1>3. CASE i \in 1 .. k /\ h[i] = a[i]
  <2>1. CASE j \in 1 .. k /\ h[j] = a[j]
    BY <1>3, <2>1 DEF Up, k
  <2>2. CASE \E p \in 1 .. l : j = k + p /\ h[j] = b[p]
    BY <1>3, <2>2 DEF Before, k, l
  <2> QED BY <1>2, <2>1, <2>2
<1>4. CASE \E p \in 1 .. l : i = k + p /\ h[i] = b[p]
  <2>1. PICK p \in 1 .. l : i = k + p /\ h[i] = b[p]
    BY <1>4
  <2>2. j \notin 1 .. k
    BY <1>1, <2>1
  <2>3. PICK q \in 1 .. l : j = k + q /\ h[j] = b[q]
    BY <1>2, <2>2
  <2>4. p < q
    BY <1>1, <2>1, <2>3
  <2> QED BY <2>1, <2>3, <2>4 DEF Up, l
<1> QED BY <1>2, <1>3, <1>4

LEMMA BeforeCat ==
  ASSUME NEW a, NEW b \in Seq(Recs), NEW c \in Seq(Recs), Before(a, b), Before(a, c)
  PROVE  Before(a, b \o c)
<1> SUFFICES ASSUME NEW i \in 1 .. Len(a), NEW j \in 1 .. Len(b \o c), Akin(a[i], (b \o c)[j]) PROVE a[i].val < (b \o c)[j].val
  BY DEF Before
<1>1. CASE j \in 1 .. Len(b) /\ (b \o c)[j] = b[j]
  BY <1>1 DEF Before
<1>2. CASE \E p \in 1 .. Len(c) : j = Len(b) + p /\ (b \o c)[j] = c[p]
  BY <1>2 DEF Before
<1> QED BY <1>1, <1>2, CatEither

LEMMA PlainUp == ASSUME NEW e, Plainly(e), NEW a PROVE Up(e) /\ Before(a, e)
BY DEF Plainly, Up, Before, Akin

LEMMA NonePlain == Plainly(<<>>)
<1>1. \A p \in 1 .. Len(<<>>) : FALSE
  OBVIOUS
<1> QED BY <1>1 DEF Plainly

LEMMA UpFront == ASSUME NEW f, NEW g, Begins(g, f), Len(f) \in Nat, Up(f) PROVE Up(g)
<1>1. Len(g) \in Nat /\ Len(g) <= Len(f) /\ \A p \in 1 .. Len(g) : g[p] = f[p]
  BY DEF Begins
<1>2. \A p \in 1 .. Len(g) : p \in 1 .. Len(f)
  BY <1>1
<1> QED BY <1>1, <1>2 DEF Up

LEMMA TriplePlain ==
  ASSUME NEW b, NEW m, NEW kind, kind # "SAMPLE", NEW ns, NEW gen, Triple(b, m, kind, ns, gen)
  PROVE  Plainly(b)
<1>1. Len(b) = 3 /\ b[1].kind = "BEGIN" /\ b[3].kind = "COMMIT" /\ b[2].kind = kind
  BY DEF Triple
<1>2. \A p \in 1 .. Len(b) : p = 1 \/ p = 2 \/ p = 3
  BY <1>1
<1> QED BY <1>1, <1>2 DEF Plainly

\* What drain adds goes up.
LEMMA SamplesUp ==
  ASSUME NEW e \in Seq(Recs), NEW o \in Nat, NEW n, NEW gen, NEW first \in Nat, NEW k \in Nat,
         SamplesFrom(e, o, n, gen, first, k)
  PROVE  Up(e)
<1> DEFINE l == Len(e)
<1>1. l = o + k /\ (\A p \in 1 .. o : e[p].kind = "BEGIN")
      /\ \A i \in 1 .. k : e[o + i].kind = "SAMPLE" /\ e[o + i].val = first + i - 1
  BY DEF SamplesFrom
<1> HIDE DEF l
<1>2. ASSUME NEW p \in 1 .. l, e[p].kind = "SAMPLE" PROVE p - o \in 1 .. k /\ e[p].val = first + (p - o) - 1
  <2>1. p \notin 1 .. o
    BY <1>1, <1>2
  <2>2. p - o \in 1 .. k /\ p = o + (p - o)
    BY <1>1, <2>1
  <2> QED BY <1>1, <2>2
<1> SUFFICES ASSUME NEW i \in 1 .. l, NEW j \in 1 .. l, i < j, Akin(e[i], e[j]) PROVE e[i].val < e[j].val
  BY DEF Up, l
<1>3. e[i].val = first + (i - o) - 1 /\ e[j].val = first + (j - o) - 1
  BY <1>2 DEF Akin
<1>4. i \in Int /\ j \in Int
  BY <1>1
<1> QED BY <1>3, <1>4

\* A sample that is in f is said by one of its records, and the other way round.
LEMMA SaysSo ==
  ASSUME NEW f \in Seq(Recs), NEW p \in 1 .. Len(f), f[p].kind = "SAMPLE"
  PROVE  Logs(f, f[p].ns, f[p].gen, f[p].val) /\ f[p].gen \in Nat /\ f[p].val \in Nat
<1>1. Logs(f, f[p].ns, f[p].gen, f[p].val)
  BY LogsIs
<1> QED BY <1>1, LogsNat

\* Every sample of a is in front of every one of b when the log says so.
LEMMA BeforeIs ==
  ASSUME NEW a \in Seq(Recs), NEW b \in Seq(Recs), NEW n, NEW g \in Nat, NEW m,
         \A i, h : \A v \in Nat : Logs(b, i, h, v) => i = n /\ h = g /\ m <= v,
         \A v \in Nat : Logs(a, n, g, v) => v < m, m \in Nat
  PROVE  Before(a, b)
<1> SUFFICES ASSUME NEW i \in 1 .. Len(a), NEW j \in 1 .. Len(b), Akin(a[i], b[j]) PROVE a[i].val < b[j].val
  BY DEF Before
<1>1. Logs(a, a[i].ns, a[i].gen, a[i].val) /\ a[i].val \in Nat
  BY SaysSo DEF Akin
<1>2. Logs(b, b[j].ns, b[j].gen, b[j].val) /\ b[j].val \in Nat
  BY SaysSo DEF Akin
<1>3. b[j].ns = n /\ b[j].gen = g /\ m <= b[j].val
  BY <1>2
<1>4. a[i].ns = n /\ a[i].gen = g
  BY <1>3 DEF Akin
<1>5. a[i].val < m
  BY <1>1, <1>4
<1> QED BY <1>1, <1>2, <1>3, <1>5

LEMMA DrainUp ==
  ASSUME WalInv, WalInv', MainInv, OneInv, SkipInv, UpInv, Drain
  PROVE  UpInv'
<1> DEFINE s == Skips(ni)
           k == Adds(ni)
           t == rings[ni].tail
           a == srcs[ni].taken
           g == rings[ni].gen
           first == t + a + s
<1>1. pc = "drain" /\ ni \in NS /\ pc \in Filing
  BY DEF Drain, Filing, MainInv
<1>2. SureNow' = SureNow /\ Filling(w) /\ w \in WType /\ SureNow \in Seq(Recs) /\ w.buf \in Seq(Recs)
  BY MainSure, MainIdle, CardNow DEF MainStep, Ready, Filling
<1>3. CASE w' = w
  BY <1>2, <1>3 DEF UpInv
<1>4. CASE w' # w /\ w.batch_samples < BatchSamples /\ w' = WalAddSamples(w, ni, g, first, k)
  <2>1. DrainOK(ni)
    BY <1>1, <1>2, <1>4, DrainAmounts DEF Freed
  <2>2. s \in Nat /\ k \in Nat /\ rings[ni] \in RingType /\ srcs[ni] \in SrcType
    BY <1>1, <2>1 DEF DrainOK, MainInv
  <2>3. t \in Nat /\ a \in Nat /\ g \in Nat /\ first \in Nat /\ ni \in Nat
    BY <1>1, <2>2, NsTop DEF RingType, SrcType
  <2>4. k # 0
    BY <1>4 DEF WalAddSamples
  <2>5. AddsSamples(w, w', ni, g, first, k)
    BY <1>2, <1>4, <2>2, <2>3, <2>4, SamplesExtend
  <2>6. HeldOK(ni) /\ \A v \in Nat : Logs(SureNow, ni, g, v) => Passed(ni, v)
    BY <1>1 DEF SkipInv, RingInv, HeldInv, PassInv, MustPass
  <2>7. srcs[ni].skip => srcs[ni].skip_seq < first
    BY <1>1, <1>2, <2>1, <2>2, <2>4, AddsBehind
  <2>8. srcs[ni].skip_seq \in Nat /\ srcs[ni].last_seq \in Nat
    BY <2>2 DEF SrcType
  <2>9. /\ \A v : Passed(ni, v) <=> v < t \/ (srcs[ni].skip /\ v <= srcs[ni].skip_seq)
        /\ \A v \in Nat : Logs(w.buf, ni, g, v) => srcs[ni].added /\ v <= srcs[ni].last_seq
        /\ srcs[ni].added => srcs[ni].last_seq < t + a
    BY <2>3, <2>6 DEF Passed, HeldOK
  <2>10. PICK e : Extended(w, w', e) /\ \E o \in Nat : SamplesFrom(e, o, ni, g, first, k)
    BY <2>5 DEF AddsSamples
  <2>11. PICK o \in Nat : SamplesFrom(e, o, ni, g, first, k)
    BY <2>10
  <2>12. e \in Seq(Recs) /\ w'.buf = w.buf \o e
    BY <2>10 DEF Extended
  <2> HIDE DEF s, k, first, t, a, g
  <2>13. Up(e)
    BY <2>2, <2>3, <2>11, <2>12, SamplesUp
  <2>14. SaysTaken(e, ni, g, first, k)
    BY <2>2, <2>3, <2>11, <2>12, SamplesSay
  <2>15. \A i, h : \A v \in Nat : Logs(e, i, h, v) => i = ni /\ h = g /\ first <= v
    BY <2>14 DEF SaysTaken
  <2>16. first = t + a + s
    BY DEF first
  <2>17. \A v \in Nat : Logs(SureNow, ni, g, v) => v < first
    BY <2>2, <2>3, <2>6, <2>7, <2>8, <2>9, <2>16
  <2>18. \A v \in Nat : Logs(w.buf, ni, g, v) => v < first
    BY <2>2, <2>3, <2>8, <2>9, <2>16
  <2>19. Before(SureNow, e)
    BY <1>2, <2>3, <2>12, <2>15, <2>17, BeforeIs
  <2>20. Before(w.buf, e)
    BY <1>2, <2>3, <2>12, <2>15, <2>18, BeforeIs
  <2>21. Up(w.buf \o e) /\ Before(SureNow, w.buf \o e)
    BY <1>2, <2>12, <2>13, <2>19, <2>20, UpCat, BeforeCat DEF UpInv
  <2> QED BY <1>2, <2>12, <2>21 DEF UpInv
<1> QED BY <1>3, <1>4 DEF Drain

LEMMA PlainInv == ASSUME UpInv, SureNow' = SureNow, Plainly(w'.buf) PROVE UpInv'
BY PlainUp DEF UpInv

LEMMA MainUp ==
  ASSUME WalInv, WalInv', MainInv, OneInv, SkipInv, UpInv, MainStep
  PROVE  UpInv'
<1>1. SureNow' = SureNow
  BY MainSure
<1>2. wpc = "idle" /\ disk' = disk /\ Ready(disk, w) /\ Filling(w) /\ SureNow \in Seq(Recs) /\ w.buf \in Seq(Recs)
  BY MainIdle, CardNow DEF Ready
<1>3. CASE Plainly(w'.buf)
  BY <1>1, <1>3, PlainInv
<1>4. CASE w' = w
  BY <1>1, <1>4 DEF UpInv
<1>5. CASE Start
  <2>1. Reopens
    BY <1>2, <1>5, OpenSeq DEF Start
  <2>2. Plainly(w'.buf)
    BY <2>1, NonePlain, TriplePlain DEF Reopens
  <2> QED BY <1>3, <2>2
<1>6. CASE NoteGeneration
  <2>1. NoBatch(w)
    BY <1>2, <1>6 DEF NoteGeneration, OneInv, NoBatch
  <2>2. ni \in Nat /\ rings[ni].gen \in Nat
    BY NsIs DEF MainInv, RingType
  <2>3. Triple(w'.buf, w.boot_id, "GEN", ni, rings[ni].gen)
    BY <1>6, <2>1, <2>2, GenSeq DEF NoteGeneration
  <2> QED BY <1>3, <2>3, TriplePlain
<1>7. CASE Flush \/ Stop
  <2>1. CallCommit(NoteRingSeqs(w))
    BY <1>7 DEF Flush, Stop
  <2>2. w' = w \/ Ended(w.buf, w'.buf)
    BY <1>2, <2>1, CommitEnds
  <2>3. CASE Ended(w.buf, w'.buf)
    <3>1. PICK e : Endings(e) /\ w'.buf = w.buf \o e
      BY <2>3 DEF Ended
    <3>2. e \in Seq(Recs) /\ Plainly(e)
      BY <3>1 DEF Endings, Plainly, OwnMark
    <3>3. Up(w.buf \o e) /\ Before(SureNow, w.buf \o e)
      BY <1>2, <3>2, PlainUp, UpCat, BeforeCat DEF UpInv
    <3> QED BY <1>1, <3>1, <3>3 DEF UpInv
  <2> QED BY <1>4, <2>2, <2>3
<1>8. CASE StopDone \/ StopRelease
  <2>1. NoBatch(w)
    BY <1>2, <1>8 DEF StopDone, StopRelease, OneInv, NoBatch, WalInv, WalOK
  <2>2. CASE CallClose(w)
    <3>1. Triple(w'.buf, w.boot_id, "SHUTDOWN", 0, 0)
      BY <2>1, <2>2, CloseSeq
    <3> QED BY <1>3, <3>1, TriplePlain
  <2> QED BY <1>4, <1>8, <2>2 DEF StopDone, StopRelease
<1>9. CASE OpenDone \/ NoteDone \/ CloseDone \/ Idle \/ FlushDone \/ Release
  <2>1. w' = w \/ w' = Closed
    BY Zenon, <1>9 DEF OpenDone, NoteDone, CloseDone, Idle, FlushDone, Release, Exit, wvars
  <2>2. Closed.buf = <<>>
    BY DEF Closed
  <2> QED BY <1>3, <1>4, <2>1, <2>2, NonePlain
<1>10. CASE Drain
  BY <1>10, DrainUp
<1> QED BY <1>5, <1>6, <1>7, <1>8, <1>9, <1>10 DEF MainStep

LEMMA LogUp ==
  ASSUME WalInv, OneInv, UpInv, SeqMoves
  PROVE  UpInv'
<1>1. SureNow \in Seq(Recs) /\ w.buf \in Seq(Recs)
  BY CardNow
<1>2. CASE GoesOn
  BY <1>2 DEF GoesOn, UpInv
<1>3. CASE BootsNow
  <2>1. SureNow' = SureNow /\ Triple(w'.buf, w.boot_id, "BOOT", 0, 0)
    BY <1>3 DEF BootsNow
  <2> QED BY <2>1, TriplePlain, PlainInv
<1>4. CASE GivesUp
  BY <1>4, NonePlain, PlainInv DEF GivesUp
<1>5. CASE Accepts
  <2>1. SureNow' = SureNow \o w.buf /\ w'.buf = <<>>
    BY <1>5 DEF Accepts
  <2>2. Up(SureNow \o w.buf)
    BY <1>1, UpCat DEF UpInv
  <2> QED BY <2>1, <2>2, NonePlain, PlainUp DEF UpInv
<1> QED BY <1>2, <1>3, <1>4, <1>5 DEF SeqMoves

\* The log, whatever of the batch on its way is in it.
LEMMA CardUp == ASSUME WalInv, OneInv, UpInv PROVE Up(CardLog(disk)) /\ CardLog(disk) \in Seq(Recs)
<1>1. disk \in Seq(Segs)
  BY DEF WalInv, WalOK, DiskOK
<1>2. CardLog(disk) \in Seq(Recs)
  BY <1>1, CardIsPrefix
<1>3. /\ SureNow \in Seq(Recs) /\ w.buf \in Seq(Recs)
      /\ CardLog(disk) = SureNow \/ CardLog(disk) = SureNow \o w.buf
  BY CardNow
<1>4. Up(SureNow \o w.buf) /\ Up(SureNow)
  BY <1>3, UpCat DEF UpInv
<1> QED BY <1>2, <1>3, <1>4

LEMMA UpNext ==
  ASSUME OrderAssumption, OrderInv, OrderInv', OneInv, SkipInv, UpInv, Unrolled, Unrolled', [Next]_vars
  PROVE  UpInv'
<1>1. WalInv /\ WalInv' /\ MainInv /\ DiskOK(disk)
  BY DEF OrderInv, WalInv, WalOK
<1>2. CASE MainStep
  BY <1>1, <1>2, MainUp
<1>3. CASE LogStep
  <2>1. SeqMoves
    BY <1>1, <1>3, WalStepSeq DEF LogStep, OrderAssumption
  <2> QED BY <1>1, <2>1, LogUp
<1>4. CASE Kill \/ PowerCut
  <2>1. wpc' = "idle" /\ w' = Closed
    BY <1>4 DEF Kill, PowerCut, Gone, WalKilled, WalPowerCut
  <2>2. Up(CardLog(disk')) /\ SureNow' = CardLog(disk')
    <3>0. SureNow' = CardLog(disk')
      BY <1>1, <2>1, IdleIsSureNext
    <3>1. CASE Kill
      BY <1>1, <3>0, <3>1, CardUp DEF Kill, WalKilled
    <3>2. CASE PowerCut
      <4>1. EntryOK /\ Len(disk) <= 1 /\ WalPowerCut
        BY <3>2 DEF PowerCut, WalPowerCut, Befalls, OrderAssumption, OrderInv, EntryInv, OneInv
      <4>2. Begins(CardLog(disk'), CardLog(disk))
        BY <1>1, <4>1, PowerSeq
      <4>3. Len(CardLog(disk)) \in Nat
        BY <1>1, CardIsPrefix DEF DiskOK
      <4> QED BY <1>1, <3>0, <4>2, <4>3, CardUp, UpFront
    <3> QED BY <1>4, <3>1, <3>2
  <2>3. w'.buf = <<>>
    BY <2>1 DEF Closed
  <2> QED BY <2>2, <2>3, NonePlain, PlainUp DEF UpInv
<1>5. CASE (\E n \in NS : Push(n)) \/ Tick \/ Signal \/ UNCHANGED vars
  <2>1. UNCHANGED <<disk, w>>
    BY <1>5 DEF Push, Tick, Signal, vars, wvars, svars
  <2>2. SureNow' = SureNow
    BY <2>1 DEF SureNow, Sure, CardLog
  <2> QED BY <2>1, <2>2 DEF UpInv
<1> QED BY <1>2, <1>3, <1>4, <1>5 DEF Next

LEMMA UpInit == Init => UpInv
<1> SUFFICES ASSUME Init PROVE UpInv
  OBVIOUS
<1>1. disk = <<>> /\ w = Closed
  BY DEF Init, WalInit
<1>2. SureNow = <<>> /\ w.buf = <<>>
  BY <1>1, EmptyCard DEF SureNow, Sure, Closed
<1> QED BY <1>2, NonePlain, PlainUp DEF UpInv

LEMMA UpHolds == ASSUME OrderAssumption PROVE Spec /\ []Unrolled => []UpInv
<1> DEFINE I == OneSegment /\ SkipInv
<1>1. Spec /\ []Unrolled => []I
  BY SkipHolds
<1>2. I /\ I' /\ UpInv /\ Unrolled /\ Unrolled' /\ [Next]_vars => UpInv'
  BY UpNext DEF OneSegment
<1> HIDE DEF I
<1> QED BY <1>1, <1>2, UpInit, PTL DEF Spec

\* As many elements on either side of a one-to-one function.
LEMMA SameSize ==
  ASSUME NEW S, NEW T, IsFiniteSet(S), NEW f \in [S -> T],
         \A x, y \in S : f[x] = f[y] => x = y, \A z \in T : \E x \in S : f[x] = z
  PROVE  IsFiniteSet(T) /\ Cardinality(T) = Cardinality(S)
<1>1. f \in Bijection(S, T)
  BY DEF Bijection, Injection, Surjection, IsInjective
<1>2. ExistsBijection(S, T)
  BY <1>1 DEF ExistsBijection
<1> QED BY <1>2, FS_Bijection

LEMMA UpOnce ==
  ASSUME NEW f \in Seq(Recs), Up(f)
  PROVE  Cardinality(SamplesOf(f)) = Cardinality({i \in DOMAIN f : f[i].kind = "SAMPLE"})
<1> DEFINE S == {i \in DOMAIN f : f[i].kind = "SAMPLE"}
           T == SamplesOf(f)
           b == [i \in S |-> <<f[i].ns, f[i].gen, f[i].val>>]
<1>1. DOMAIN f = 1 .. Len(f) /\ Len(f) \in Nat
  OBVIOUS
<1>2. T = {<<f[i].ns, f[i].gen, f[i].val>> : i \in S}
  BY DEF SamplesOf
<1>3. IsFiniteSet(S)
  <2>1. IsFiniteSet(1 .. Len(f))
    BY <1>1, FS_Interval
  <2>2. S \in SUBSET (1 .. Len(f))
    BY <1>1
  <2> QED BY <2>1, <2>2, FS_Subset
<1>4. b \in [S -> T] /\ \A z \in T : \E i \in S : b[i] = z
  BY <1>2
<1>5. ASSUME NEW i \in S, NEW j \in S, b[i] = b[j] PROVE i = j
  <2>1. i \in 1 .. Len(f) /\ j \in 1 .. Len(f) /\ f[i].kind = "SAMPLE" /\ f[j].kind = "SAMPLE"
    BY <1>1
  <2>2. f[i].ns = f[j].ns /\ f[i].gen = f[j].gen /\ f[i].val = f[j].val
    BY <1>5
  <2>3. Akin(f[i], f[j]) /\ Akin(f[j], f[i]) /\ f[i].val \in Nat
    BY <2>1, <2>2, SaysSo DEF Akin
  <2>4. ~(i < j) /\ ~(j < i)
    BY <2>1, <2>2, <2>3 DEF Up
  <2> QED BY <2>1, <2>4
<1> HIDE DEF S, T, b
<1>6. Cardinality(T) = Cardinality(S)
  BY <1>3, <1>4, <1>5, SameSize
<1> QED BY <1>6 DEF S, T

LEMMA UpSafe == OneSegment /\ UpInv => LoggedOnce
<1> SUFFICES ASSUME OneSegment, UpInv PROVE LoggedOnce
  OBVIOUS
<1>1. WalInv /\ OneInv /\ Len(disk) <= 1 /\ disk \in Seq(Segs)
  BY DEF OneSegment, OrderInv, OneInv, WalInv, WalOK, DiskOK
<1>2. Up(Log) /\ Log \in Seq(Recs)
  BY <1>1, LogIsCard, CardUp
<1> QED BY <1>2, UpOnce DEF LoggedOnce

\* "No sample is in the log twice": as long as the log is in its first segment, the samples of every ring stand
\* in it in the order they were pushed, none of them twice, however often storaged was killed or the power went
\* before its slots were freed (note_generation, drain, wal_scan).  A roll breaks it, as run roll_repeats shows.
THEOREM EverySampleIsLoggedOnce == ASSUME OrderAssumption PROVE Spec /\ []Unrolled => []LoggedOnce
BY OneSegmentHolds, UpHolds, UpSafe, PTL

---------------------------------------------------------------------------
(* The samples of a ring in the log have no gap *)

\* What is acknowledged is in the records the process counts on.
LEMMA PartLogs ==
  ASSUME NEW f \in Seq(Recs), NEW h \in Seq(Recs), NEW k \in Nat, Len(h) = k, \A p \in 1 .. k : h[p] = f[p],
         NEW n, NEW q, Said(Part(f, k), n, q)
  PROVE  Logs(h, n, 1, q)
<1>1. PICK r \in Part(f, k) : r.kind = "SAMPLE" /\ r.ns = n /\ r.gen = 1 /\ r.val = q
  BY DEF Said
<1>2. PICK p \in 1 .. k : r = f[p]
  BY <1>1 DEF Part
<1>3. p \in 1 .. Len(h) /\ h[p] = r
  BY <1>2
<1> QED BY <1>1, <1>3, LogsIs

LEMMA AckedIs ==
  ASSUME WalInv, OneInv
  PROVE  /\ AckedNow = {} \/ \E k \in Nat : AckedNow = Part(File(disk), k) /\ Len(SureNow) = k /\ \A p \in 1 .. k : SureNow[p] = File(disk)[p]
         /\ File(disk) \in Seq(Recs) /\ SureNow \in Seq(Recs)
<1>1. DiskOK(disk) /\ disk \in Seq(Segs) /\ Len(disk) \in Nat /\ Len(disk) <= 1 /\ wpc \in Calls
  BY DEF WalInv, WalOK, DiskOK, OneInv
<1>2. File(disk) \in Seq(Recs) /\ SureNow \in Seq(Recs)
  BY <1>1, FileType, CardNow
<1>3. Older(disk) = {}
  BY <1>1 DEF Older
<1>4. CASE w.fd = 0
  <2>1. SureNow = CardLog(disk) /\ AckedNow = Good(disk)
    BY <1>4 DEF SureNow, Sure, AckedNow, Acked
  <2>2. CASE Len(disk) = 0
    BY <1>2, <2>1, <2>2 DEF Good
  <2>3. CASE Len(disk) # 0
    <3>1. AckedNow = Part(File(disk), GoodLength(File(disk)))
      BY <1>3, <2>1, <2>3 DEF Good, File
    <3>2. /\ Len(CardLog(disk)) = GoodLength(File(disk)) /\ GoodLength(File(disk)) \in 0 .. Len(File(disk))
          /\ \A p \in 1 .. GoodLength(File(disk)) : CardLog(disk)[p] = File(disk)[p]
      BY <1>1, CardIsPrefix
    <3>3. GoodLength(File(disk)) \in Nat
      BY <1>2, <3>2
    <3> QED BY <1>2, <2>1, <3>1, <3>2, <3>3
  <2> QED BY <2>2, <2>3
<1>5. CASE w.fd # 0
  <2>1. Placed(disk, w) /\ w \in WType
    BY <1>1, <1>5, CardNow DEF WalInv, WalOK, Ready, Sealed, Calls
  <2>2. Len(disk) # 0 /\ File(disk) = disk[Len(disk)].recs /\ w.fd = Len(disk)
    BY <1>1, <1>5, <2>1 DEF Placed, File
  <2>3. w.seg_bytes \in Nat /\ w.seg_bytes <= Len(File(disk))
    BY <1>5, <2>1, <2>2 DEF Placed, WType
  <2>4. AckedNow = Part(File(disk), w.seg_bytes) /\ SureNow = SubSeq(File(disk), 1, w.seg_bytes)
    BY <1>3, <1>5, <2>2 DEF AckedNow, Acked, SureNow, Sure
  <2>5. Len(SureNow) = w.seg_bytes /\ \A p \in 1 .. w.seg_bytes : SureNow[p] = File(disk)[p]
    BY <1>2, <2>3, <2>4
  <2> QED BY <1>2, <2>3, <2>4, <2>5
<1> QED BY <1>4, <1>5

LEMMA SaidLogs ==
  ASSUME WalInv, OneInv, NEW n, NEW q
  PROVE  (Said(AckedNow, n, q) => Logs(SureNow, n, 1, q)) /\ (Said(HeldNow, n, q) => Logs(w.buf, n, 1, q))
<1>1. ASSUME Said(AckedNow, n, q) PROVE Logs(SureNow, n, 1, q)
  <2>1. CASE AckedNow = {}
    BY <1>1, <2>1 DEF Said
  <2>2. CASE AckedNow # {}
    <3>1. PICK k \in Nat : AckedNow = Part(File(disk), k) /\ Len(SureNow) = k /\ \A p \in 1 .. k : SureNow[p] = File(disk)[p]
      BY <2>2, AckedIs
    <3>2. File(disk) \in Seq(Recs) /\ SureNow \in Seq(Recs)
      BY AckedIs
    <3> QED BY <1>1, <3>1, <3>2, PartLogs
  <2> QED BY <2>1, <2>2
<1>2. ASSUME Said(HeldNow, n, q) PROVE Logs(w.buf, n, 1, q)
  <2>1. w.buf \in Seq(Recs)
    BY CardNow
  <2>2. Len(w.buf) \in Nat /\ Said(Part(w.buf, Len(w.buf)), n, q)
    BY <1>2, <2>1 DEF HeldNow, Held
  <2> QED BY <2>1, <2>2, PartLogs
<1> QED BY <1>1, <1>2

LEMMA SaidEither == ASSUME NEW A, NEW B, NEW n, NEW q, Said(A \cup B, n, q) PROVE Said(A, n, q) \/ Said(B, n, q)
BY DEF Said

\* The samples main has passed are in the log.
LEMMA PassedLogs ==
  ASSUME WalInv, OneInv, MainInv, LoggedInv, NEW n \in NS, NEW v \in Nat, Passed(n, v)
  PROVE  Logs(SureNow, n, rings[n].gen, v)
<1>1. SlotInv(n) /\ rings[n] \in RingType /\ srcs[n] \in SrcType
  BY DEF LoggedInv, MainInv
<1>2. rings[n].gen = 1 /\ SaidTo(AckedNow, n, rings[n].tail - 1) /\ (srcs[n].skip => SaidTo(AckedNow, n, srcs[n].skip_seq))
  BY <1>1 DEF SlotInv, SlotOK
<1>3. rings[n].tail \in Nat /\ srcs[n].skip_seq \in Nat
  BY <1>1 DEF RingType, SrcType
<1>4. Said(AckedNow, n, v)
  <2>1. CASE v < rings[n].tail
    <3>1. v \in 0 .. rings[n].tail - 1
      BY <1>3, <2>1
    <3> QED BY <1>2, <3>1 DEF SaidTo
  <2>2. CASE srcs[n].skip /\ v <= srcs[n].skip_seq
    <3>1. v \in 0 .. srcs[n].skip_seq
      BY <1>3, <2>2
    <3> QED BY <1>2, <2>2, <3>1 DEF SaidTo
  <2> QED BY <2>1, <2>2 DEF Passed
<1> QED BY <1>2, <1>4, SaidLogs

\* Those it has reached when it commits are in the log or in the batch.
LEMMA ReachedLogs ==
  ASSUME WalInv, OneInv, MainInv, LoggedInv, NEW n \in NS, NEW v \in Nat, Reached(n, v), wpc \in Sealing, pc \in Waiting
  PROVE  Logs(SureNow, n, rings[n].gen, v) \/ Logs(w.buf, n, rings[n].gen, v)
<1>1. SlotInv(n) /\ rings[n] \in RingType /\ srcs[n] \in SrcType
  BY DEF LoggedInv, MainInv
<1>2. Live(n)
  BY DEF Live, Freed, WalInv, WalOK, Sealing, Waiting
<1>3. rings[n].gen = 1 /\ \A q \in rings[n].tail .. rings[n].tail + srcs[n].taken - 1 : Said(AckedNow \cup HeldNow, n, q)
  BY <1>1, <1>2 DEF SlotInv, SlotOK
<1>4. rings[n].tail \in Nat /\ srcs[n].taken \in Nat
  BY <1>1 DEF RingType, SrcType
<1>5. CASE Passed(n, v)
  BY <1>5, PassedLogs
<1>6. CASE ~Passed(n, v)
  <2>1. v \in rings[n].tail .. rings[n].tail + srcs[n].taken - 1
    BY <1>4, <1>6 DEF Passed, Reached
  <2>2. Said(AckedNow, n, v) \/ Said(HeldNow, n, v)
    BY <1>3, <2>1, SaidEither
  <2> QED BY <1>3, <2>2, SaidLogs
<1> QED BY <1>5, <1>6

\* Of ring n, f has a sample only if it was pushed and all before it are in f.
DenseIn(f, n, r) ==
  \A v \in Nat : Logs(f, n, r.gen, v) => v < r.head /\ \A u \in 0 .. v : Logs(f, n, r.gen, u)
Dense(f, n) == DenseIn(f, n, rings[n])
DenseInv == \A n \in NS : Dense(SureNow, n)

LEMMA DensePlain ==
  ASSUME NEW a \in Seq(Recs), NEW b \in Seq(Recs), NEW n, NEW r, DenseIn(a, n, r), r.gen \in Nat,
         \A k, v \in Nat : ~Logs(b, n, k, v)
  PROVE  DenseIn(a \o b, n, r)
<1>1. \A v \in Nat : Logs(a \o b, n, r.gen, v) <=> Logs(a, n, r.gen, v)
  BY LogsCat
<1>2. \A v \in Nat : \A u \in 0 .. v : u \in Nat
  OBVIOUS
<1> QED BY <1>1, <1>2 DEF DenseIn

\* With the batch on its way the log has no gap either.
LEMMA DenseBatch ==
  ASSUME WalInv, OneInv, MainInv, SkipInv, LoggedInv, DenseInv, wpc \in Sealing, NEW n \in NS
  PROVE  Dense(SureNow \o w.buf, n)
<1> DEFINE g == rings[n].gen
           h == SureNow \o w.buf
<1>1. SureNow \in Seq(Recs) /\ w.buf \in Seq(Recs) /\ n \in Nat
  BY CardNow, NsIs
<1>2. rings[n] \in RingType /\ srcs[n] \in SrcType
  BY DEF MainInv
<1>3. g \in Nat /\ rings[n].tail \in Nat /\ rings[n].head \in Nat /\ srcs[n].taken \in Nat /\ srcs[n].skip_seq \in Nat
  BY <1>2 DEF RingType, SrcType
<1>4. Dense(SureNow, n)
  BY DEF DenseInv
<1>5. CASE pc \notin Waiting
  <2>1. \A k, v \in Nat : ~Logs(w.buf, n, k, v)
    BY <1>5 DEF SkipInv, RingInv, HeldInv, Gives, Bare
  <2> QED BY <1>1, <1>3, <1>4, <2>1, DensePlain DEF Dense
<1>6. CASE pc \in Waiting
  <2> SUFFICES ASSUME NEW v \in Nat, Logs(h, n, g, v)
               PROVE  v < rings[n].head /\ \A u \in 0 .. v : Logs(h, n, g, u)
    BY DEF Dense, DenseIn
  <2>1. \A u : Logs(h, n, g, u) <=> Logs(SureNow, n, g, u) \/ Logs(w.buf, n, g, u)
    BY <1>1, LogsCat
  <2> HIDE DEF h
  <2>2. CASE Logs(SureNow, n, g, v)
    BY <1>4, <2>1, <2>2 DEF Dense, DenseIn
  <2>3. CASE Reached(n, v)
    <3>1. \A u \in 0 .. v : u \in Nat /\ Reached(n, u)
      BY <1>3, <2>3 DEF Reached
    <3>2. \A u \in 0 .. v : Logs(h, n, g, u)
      BY <1>6, <2>1, <3>1, ReachedLogs
    <3>3. v < rings[n].head
      <4>1. CASE Passed(n, v)
        <5>1. Logs(SureNow, n, g, v)
          BY <4>1, PassedLogs
        <5> QED BY <1>4, <5>1 DEF Dense, DenseIn
      <4>2. CASE ~Passed(n, v)
        <5>1. ~Freed(n)
          BY <1>6 DEF Freed, Waiting
        <5>2. rings[n].tail + srcs[n].taken <= rings[n].head
          BY <5>1 DEF MainInv
        <5>3. v < rings[n].tail + srcs[n].taken
          BY <2>3, <4>2 DEF Passed, Reached
        <5> QED BY <1>3, <5>2, <5>3
      <4> QED BY <4>1, <4>2
    <3> QED BY <3>2, <3>3
  <2>4. Logs(w.buf, n, g, v) => Reached(n, v)
    BY <1>6 DEF SkipInv, RingInv, HeldInv, Laden
  <2> QED BY <2>1, <2>2, <2>3, <2>4
<1> QED BY <1>5, <1>6

\* Nor has what recovery would keep.
LEMMA DenseCard ==
  ASSUME WalInv, OneInv, MainInv, SkipInv, LoggedInv, DenseInv, NEW n \in NS
  PROVE  Dense(CardLog(disk), n)
<1>1. CardLog(disk) = SureNow \/ (wpc \in Sealing /\ CardLog(disk) = SureNow \o w.buf)
  BY CardNow
<1>2. CASE CardLog(disk) = SureNow
  BY <1>2 DEF DenseInv
<1>3. CASE wpc \in Sealing /\ CardLog(disk) = SureNow \o w.buf
  BY <1>3, DenseBatch
<1> QED BY <1>1, <1>2, <1>3

\* A ring of this boot keeps its generation, and more is pushed.
Ages(n) == rings'[n].gen = rings[n].gen /\ rings'[n].head >= rings[n].head

LEMMA RingsAge == ASSUME MainInv, [Next]_vars, ~PowerCut, NEW n \in NS PROVE Ages(n)
<1>1. rings \in [NS -> RingType] /\ ni \in NS /\ rings[n].head \in Nat
  BY DEF MainInv, RingType
<1>2. CASE rings' = rings
  BY <1>1, <1>2 DEF Ages
<1>3. CASE Release \/ StopRelease
  <2>1. rings' = [rings EXCEPT ![ni].tail = rings[ni].tail + srcs[ni].taken]
    BY <1>3 DEF Release, StopRelease, ReleaseTaken
  <2>2. rings'[n].gen = rings[n].gen /\ rings'[n].head = rings[n].head
    BY <1>1, <2>1 DEF RingType
  <2> QED BY <1>1, <2>2 DEF Ages
<1>4. ASSUME NEW m \in NS, Push(m) PROVE Ages(n)
  <2>1. rings' = [rings EXCEPT ![m].head = rings[m].head + 1]
    BY <1>4 DEF Push
  <2>2. rings'[n].gen = rings[n].gen /\ (rings'[n].head = rings[n].head \/ rings'[n].head = rings[n].head + 1)
    BY <1>1, <2>1 DEF RingType
  <2> QED BY <1>1, <2>2 DEF Ages
<1>5. ASSUME MainStep, ~(Release \/ StopRelease) PROVE rings' = rings
  BY <1>5, Zenon DEF MainStep, Start, OpenDone, NoteGeneration, NoteDone, Drain, Flush, Idle, FlushDone, Stop, StopDone, CloseDone
<1>6. ASSUME LogStep \/ Tick \/ Signal \/ Kill \/ UNCHANGED vars PROVE rings' = rings
  BY <1>6 DEF LogStep, Tick, Signal, Kill, vars
<1> QED BY <1>2, <1>3, <1>4, <1>5, <1>6 DEF Next

LEMMA DenseLater ==
  ASSUME NEW f, NEW n, Dense(f, n), Ages(n), rings[n].head \in Nat, rings'[n].head \in Nat
  PROVE  DenseIn(f, n, rings'[n])
<1>1. \A v \in Nat : v < rings[n].head => v < rings'[n].head
  BY DEF Ages
<1> QED BY <1>1 DEF Dense, DenseIn, Ages

\* The records counted on after a step are those before, with the batch, or what recovery keeps.
LEMMA SureMoves ==
  ASSUME "undo" \notin Accidents, OrderInv, OrderInv', OneInv, Unrolled, Unrolled', [Next]_vars, ~PowerCut
  PROVE  SureNow' = SureNow \/ (wpc \in Sealing /\ SureNow' = SureNow \o w.buf) \/ SureNow' = CardLog(disk)
<1>1. WalInv /\ WalInv' /\ MainInv
  BY DEF OrderInv
<1>2. CASE MainStep
  BY <1>1, <1>2, MainSure
<1>3. CASE LogStep
  <2>1. SeqMoves
    BY <1>1, <1>3, WalStepSeq DEF LogStep
  <2> QED BY <2>1 DEF SeqMoves, GoesOn, BootsNow, Accepts, GivesUp
<1>4. CASE Kill
  <2>1. wpc' = "idle" /\ w' = Closed /\ disk' = disk
    BY <1>4 DEF Kill, Gone, WalKilled
  <2>2. SureNow' = CardLog(disk')
    BY <1>1, <2>1, IdleIsSureNext
  <2> QED BY <2>1, <2>2 DEF CardLog
<1>5. CASE (\E n \in NS : Push(n)) \/ Tick \/ Signal \/ UNCHANGED vars
  <2>1. UNCHANGED <<disk, w>>
    BY <1>5 DEF Push, Tick, Signal, vars, wvars, svars
  <2> QED BY <2>1 DEF SureNow, Sure, CardLog
<1> QED BY <1>2, <1>3, <1>4, <1>5 DEF Next

LEMMA DenseNext ==
  ASSUME "undo" \notin Accidents, OrderInv, OrderInv', OneInv, SkipInv, LoggedInv, DenseInv, Unrolled, Unrolled',
         [Next]_vars, ~PowerCut
  PROVE  DenseInv'
<1>1. WalInv /\ WalInv' /\ MainInv /\ MainInv'
  BY DEF OrderInv
<1> SUFFICES ASSUME NEW n \in NS PROVE DenseIn(SureNow', n, rings'[n])
  BY DEF DenseInv, Dense
<1>2. Ages(n) /\ rings[n].head \in Nat /\ rings'[n].head \in Nat
  BY <1>1, RingsAge DEF MainInv, RingType
<1>3. Dense(SureNow', n)
  <2>1. CASE SureNow' = SureNow
    BY <2>1 DEF DenseInv
  <2>2. CASE wpc \in Sealing /\ SureNow' = SureNow \o w.buf
    BY <1>1, <2>2, DenseBatch
  <2>3. CASE SureNow' = CardLog(disk)
    BY <1>1, <2>3, DenseCard
  <2> QED BY <2>1, <2>2, <2>3, SureMoves
<1> QED BY <1>2, <1>3, DenseLater

LEMMA DenseInit == Init => DenseInv
<1> SUFFICES ASSUME Init PROVE DenseInv
  OBVIOUS
<1>1. disk = <<>> /\ w = Closed
  BY DEF Init, WalInit
<1>2. SureNow = <<>>
  BY <1>1, EmptyCard DEF SureNow, Sure, Closed
<1> QED BY <1>2, NoneLogs DEF DenseInv, Dense, DenseIn

---------------------------------------------------------------------------
(* What is recorded of a ring *)

\* The samples of one ring in log, as RecordedIn has them.
RecordedOf(log, n, g) ==
  LET at == {i \in DOMAIN log : log[i].kind = "SAMPLE" /\ log[i].ns = n /\ log[i].gen = g}
  IN  [k \in 1 .. Cardinality(at) |-> log[CHOOSE i \in at : Cardinality({m \in at : m <= i}) = k].val]

FirstOf(c) == [i \in 1 .. c |-> i - 1]

\* A log whose samples of a ring go up and are those below c has its first c samples in order.
LEMMA RecordedIs ==
  ASSUME NEW f \in Seq(Recs), Up(f), NEW n, NEW g, NEW c \in Nat, \A v \in Nat : Logs(f, n, g, v) <=> v < c
  PROVE  RecordedOf(f, n, g) = FirstOf(c)
<1> DEFINE at   == {i \in DOMAIN f : f[i].kind = "SAMPLE" /\ f[i].ns = n /\ f[i].gen = g}
           R(i) == {m \in at : m <= i}
           l    == Len(f)
           val  == [i \in 1 .. l |-> f[i].val]
<1>1. DOMAIN f = 1 .. l /\ l \in Nat /\ \A i \in 1 .. l : f[i].val \in Nat
  <2>1. DOMAIN f = 1 .. l /\ l \in Nat /\ \A i \in 1 .. l : f[i] \in Recs
    OBVIOUS
  <2>2. \A r \in Recs : r.val \in Nat
    BY DEF Recs
  <2> HIDE DEF l
  <2> QED BY <2>1, <2>2
<1>2. at \in SUBSET (1 .. l) /\ \A i \in at : i \in Nat /\ val[i] \in Nat
  BY <1>1
<1>3. \A v \in Nat : v < c <=> \E i \in at : val[i] = v
  <2> SUFFICES ASSUME NEW v \in Nat PROVE v < c <=> \E i \in at : val[i] = v
    OBVIOUS
  <2>1. v < c <=> \E p \in 1 .. l : f[p].kind = "SAMPLE" /\ f[p].ns = n /\ f[p].gen = g /\ f[p].val = v
    BY LogsIs
  <2> HIDE DEF l
  <2> QED BY <1>1, <2>1
<1>4. \A i, j \in at : i < j => val[i] < val[j]
  <2> SUFFICES ASSUME NEW i \in at, NEW j \in at, i < j PROVE val[i] < val[j]
    OBVIOUS
  <2>1. i \in 1 .. l /\ j \in 1 .. l /\ Akin(f[i], f[j])
    BY <1>1 DEF Akin
  <2> QED BY <2>1 DEF Up
<1>5. \A S \in SUBSET at : IsFiniteSet(S)
  <2>1. IsFiniteSet(1 .. l)
    BY <1>1, FS_Interval
  <2> HIDE DEF at, l
  <2> QED BY <1>2, <2>1, FS_Subset
<1>6. RecordedOf(f, n, g) = [k \in 1 .. Cardinality(at) |-> f[CHOOSE i \in at : Cardinality(R(i)) = k].val]
  BY DEF RecordedOf
<1>7. \A i \in at : f[i].val = val[i]
  BY <1>1
<1> HIDE DEF at, l, val
\* The samples with values up to k - 1 are k.
<1>8. ASSUME NEW S \in SUBSET at, NEW k \in Nat, \A i \in S : val[i] < k, \A v \in 0 .. k - 1 : \E i \in S : val[i] = v
      PROVE  Cardinality(S) = k
  <2> DEFINE T == 0 .. k - 1
             b == [i \in S |-> val[i]]
  <2>1. b \in [S -> T] /\ \A z \in T : \E i \in S : b[i] = z
    BY <1>2, <1>8
  <2>2. ASSUME NEW i \in S, NEW j \in S, b[i] = b[j] PROVE i = j
    <3>1. i \in at /\ j \in at /\ val[i] = val[j]
      BY <2>2
    <3>2. i \in Nat /\ j \in Nat /\ val[i] \in Nat /\ (i < j => val[i] < val[j]) /\ (j < i => val[j] < val[i])
      BY <1>2, <1>4, <3>1
    <3> QED BY <3>1, <3>2
  <2>3. IsFiniteSet(S)
    BY <1>5
  <2> HIDE DEF b, T
  <2>4. Cardinality(T) = Cardinality(S)
    BY <2>1, <2>2, <2>3, SameSize
  <2>5. Cardinality(0 .. k - 1) = (IF 0 > k - 1 THEN 0 ELSE (k - 1) - 0 + 1)
    BY FS_Interval
  <2> QED BY <2>4, <2>5 DEF T
<1>9. Cardinality(at) = c
  <2>1. \A i \in at : val[i] < c
    BY <1>2, <1>3
  <2>2. \A v \in 0 .. c - 1 : \E i \in at : val[i] = v
    BY <1>3
  <2>3. at \in SUBSET at
    OBVIOUS
  <2> QED BY <1>8, <2>1, <2>2, <2>3
<1>10. ASSUME NEW i \in at PROVE Cardinality(R(i)) = val[i] + 1
  <2>1. R(i) \in SUBSET at /\ val[i] + 1 \in Nat /\ val[i] < c
    BY <1>2, <1>3
  <2>2. ASSUME NEW m \in R(i) PROVE val[m] < val[i] + 1
    <3>1. m \in at /\ m <= i /\ m \in Nat /\ i \in Nat /\ val[m] \in Nat /\ val[i] \in Nat /\ (m < i => val[m] < val[i])
      BY <1>2, <1>4
    <3>2. m < i \/ m = i
      BY <3>1
    <3> QED BY <3>1, <3>2
  <2>3. ASSUME NEW v \in 0 .. (val[i] + 1) - 1 PROVE \E m \in R(i) : val[m] = v
    <3>1. v \in Nat /\ v <= val[i] /\ v < c
      BY <1>2, <2>1
    <3>2. PICK m \in at : val[m] = v
      BY <1>3, <3>1
    <3>3. m \in Nat /\ i \in Nat /\ val[i] \in Nat /\ (i < m => val[i] < val[m])
      BY <1>2, <1>4
    <3>4. m <= i
      BY <3>1, <3>2, <3>3
    <3> QED BY <3>2, <3>4
  <2> HIDE DEF R
  <2> QED BY <1>8, <2>1, <2>2, <2>3
<1> HIDE DEF R
<1>11. ASSUME NEW k \in 1 .. c PROVE f[CHOOSE i \in at : Cardinality(R(i)) = k].val = k - 1
  <2>1. PICK i \in at : val[i] = k - 1
    BY <1>3
  <2>2. Cardinality(R(i)) = k
    BY <1>10, <2>1
  <2> DEFINE j == CHOOSE m \in at : Cardinality(R(m)) = k
  <2>3. j \in at /\ Cardinality(R(j)) = k
    BY <2>1, <2>2
  <2> HIDE DEF j
  <2>4. val[j] = k - 1
    BY <1>2, <1>10, <2>3
  <2>5. f[j].val = k - 1
    BY <1>7, <2>3, <2>4
  <2> QED BY <2>5 DEF j
<1> QED BY <1>6, <1>9, <1>11 DEF FirstOf

\* Samples without a gap are those below some number.
LEMMA DenseCount ==
  ASSUME NEW f, NEW n, NEW r \in RingType, DenseIn(f, n, r), \A v \in Nat : v < r.tail => Logs(f, n, r.gen, v),
         r.tail <= r.head
  PROVE  \E c \in r.tail .. r.head : \A v \in Nat : Logs(f, n, r.gen, v) <=> v < c
<1> DEFINE T == {v \in Nat : ~Logs(f, n, r.gen, v)}
<1>1. r.tail \in Nat /\ r.head \in Nat
  BY DEF RingType
<1>2. r.head \in T
  BY <1>1 DEF DenseIn
<1>3. PICK c \in T : \A y \in T : c <= y
  <2>1. T \in SUBSET Nat /\ T # {}
    BY <1>2
  <2> HIDE DEF T
  <2> QED BY <2>1, LeastNat
<1>4. c \in Nat /\ c <= r.head
  BY <1>2, <1>3
<1>5. r.tail <= c
  BY <1>1, <1>3, <1>4
<1>6. ASSUME NEW v \in Nat PROVE Logs(f, n, r.gen, v) <=> v < c
  <2>1. ASSUME v < c PROVE Logs(f, n, r.gen, v)
    BY <1>3, <1>4, <2>1
  <2>2. ASSUME Logs(f, n, r.gen, v), c <= v PROVE FALSE
    <3>1. c \in 0 .. v
      BY <1>4, <2>2
    <3>2. Logs(f, n, r.gen, c)
      BY <2>2, <3>1 DEF DenseIn
    <3> QED BY <1>3, <3>2
  <2> QED BY <1>4, <2>1, <2>2
<1> QED BY <1>1, <1>4, <1>5, <1>6

NowIs == RecordedNow = [n \in NS |-> RecordedOf(Log, n, rings[n].gen)]

LEMMA NowIsSo == NowIs /\ NowIs'
<1>1. RecordedNow = RecordedIn(Log) /\ RecordedNow' = RecordedIn(Log)'
  BY Zenon DEF RecordedNow
<1> QED BY <1>1 DEF NowIs, RecordedIn, RecordedOf

\* The log as Recorder has it: the first samples of every ring, those freed among them.
Recorded(n) == \E c \in rings[n].tail .. rings[n].head : RecordedNow[n] = FirstOf(c)
RecordedInv == \A n \in NS : Recorded(n)

LEMMA AllRecorded ==
  ASSUME OrderInv, OneInv, SkipInv, UpInv, LoggedInv, DenseInv
  PROVE  RecordedInv
<1>1. WalInv /\ MainInv /\ disk \in Seq(Segs) /\ Len(disk) <= 1
  BY DEF OrderInv, WalInv, WalOK, DiskOK, OneInv
<1>2. Up(Log) /\ Log \in Seq(Recs) /\ Log = CardLog(disk)
  BY <1>1, LogIsCard, CardUp
<1> SUFFICES ASSUME NEW n \in NS PROVE Recorded(n)
  BY DEF RecordedInv
<1>3. rings[n] \in RingType /\ rings[n].tail <= rings[n].head
  BY <1>1 DEF MainInv
<1>4. DenseIn(Log, n, rings[n])
  BY <1>1, <1>2, DenseCard DEF Dense
<1>5. ASSUME NEW v \in Nat, v < rings[n].tail PROVE Logs(Log, n, rings[n].gen, v)
  <2>1. Logs(SureNow, n, rings[n].gen, v)
    BY <1>1, <1>5, PassedLogs DEF Passed
  <2>2. SureNow \in Seq(Recs) /\ w.buf \in Seq(Recs) /\ (CardLog(disk) = SureNow \/ CardLog(disk) = SureNow \o w.buf)
    BY <1>1, CardNow
  <2>3. Logs(SureNow \o w.buf, n, rings[n].gen, v)
    BY <2>1, <2>2, LogsCat
  <2> QED BY <1>2, <2>1, <2>2, <2>3
<1>6. PICK c \in rings[n].tail .. rings[n].head : \A v \in Nat : Logs(Log, n, rings[n].gen, v) <=> v < c
  BY <1>3, <1>4, <1>5, DenseCount
<1>7. c \in Nat
  BY <1>3, <1>6 DEF RingType
<1>8. RecordedOf(Log, n, rings[n].gen) = FirstOf(c)
  BY <1>2, <1>6, <1>7, RecordedIs
<1> QED BY <1>6, <1>8, NowIsSo DEF NowIs, Recorded

---------------------------------------------------------------------------
(* storaged implements Recorder *)

LEMMA FirstOfIs == ASSUME NEW c \in Nat PROVE Len(FirstOf(c)) = c /\ FirstOf(c) = Recorder!FirstOf(c)
BY DEF FirstOf, Recorder!FirstOf

LEMMA RecordedLen ==
  ASSUME NEW r \in RingType, NEW s, NEW c \in r.tail .. r.head, s = FirstOf(c)
  PROVE  Len(s) \in r.tail .. r.head /\ s = Recorder!FirstOf(Len(s))
<1>1. c \in Nat
  BY DEF RingType
<1> QED BY <1>1, FirstOfIs

\* Where the rings stay, whatever the log does is a Record.
LEMMA IsRecord == ASSUME MainInv, RecordedInv', rings' = rings PROVE Recorder!Record
<1>1. ASSUME NEW n \in NS
      PROVE  /\ Len(RecordedNow'[n]) \in rings[n].tail .. rings[n].head
             /\ RecordedNow'[n] = Recorder!FirstOf(Len(RecordedNow'[n]))
  <2>1. PICK c \in rings[n].tail .. rings[n].head : RecordedNow'[n] = FirstOf(c)
    BY DEF RecordedInv, Recorded
  <2>2. rings[n] \in RingType
    BY DEF MainInv
  <2> QED BY <2>1, <2>2, RecordedLen
<1> DEFINE log == RecordedNow'
<1> HIDE DEF log
<1>2. \A n \in NS : Len(log[n]) \in rings[n].tail .. rings[n].head /\ log[n] = Recorder!FirstOf(Len(log[n]))
  BY <1>1 DEF log
<1>3. \A n \in NS : [m \in NS |-> rings[m].tail][n] = rings[n].tail /\ [m \in NS |-> rings[m].head][n] = rings[n].head
  OBVIOUS
<1> QED BY <1>2, <1>3 DEF Recorder!Record, log

\* What is recorded stays while neither the segments nor the generations change.
LEMMA SameRecorded ==
  ASSUME disk' = disk, \A n \in NS : rings'[n].gen = rings[n].gen
  PROVE  RecordedNow' = RecordedNow
<1>1. Log' = Log
  BY DEF Log, Joined
<1>2. RecordedNow' = [n \in NS |-> RecordedOf(Log', n, rings'[n].gen)]
  BY NowIsSo DEF NowIs
<1> QED BY <1>1, <1>2, NowIsSo DEF NowIs

LEMMA IsPush == ASSUME MainInv, NEW n \in NS, Push(n) PROVE Recorder!Push(n)
<1>1. rings \in [NS -> RingType]
  BY DEF MainInv
<1>2. rings' = [rings EXCEPT ![n].head = rings[n].head + 1] /\ disk' = disk
  BY DEF Push, wvars
<1>3. ASSUME NEW m \in NS
      PROVE  /\ rings'[m].gen = rings[m].gen /\ rings'[m].tail = rings[m].tail
             /\ rings'[m].head = IF m = n THEN rings[n].head + 1 ELSE rings[m].head
  BY <1>1, <1>2 DEF RingType
<1>4. RecordedNow' = RecordedNow
  BY <1>2, <1>3, SameRecorded
<1>5. [m \in NS |-> rings'[m].tail] = [m \in NS |-> rings[m].tail]
  BY <1>3
<1>6. [m \in NS |-> rings'[m].head] = [[m \in NS |-> rings[m].head] EXCEPT ![n] = @ + 1]
  BY <1>3
<1> QED BY <1>4, <1>5, <1>6 DEF Recorder!Push

LEMMA IsFree ==
  ASSUME MainInv, MainInv', RecordedInv', NEW k \in NS, ReleaseTaken(k), disk' = disk
  PROVE  Recorder!Free(k) \/ UNCHANGED Recorder!vars
<1> DEFINE t  == [m \in NS |-> rings[m].tail]
           t1 == [m \in NS |-> rings'[m].tail]
<1>1. rings \in [NS -> RingType] /\ srcs[k].taken \in Nat /\ rings[k].tail \in Nat
  BY DEF MainInv, RingType, SrcType
<1>2. rings' = [rings EXCEPT ![k].tail = rings[k].tail + srcs[k].taken]
  BY DEF ReleaseTaken
<1>3. ASSUME NEW m \in NS
      PROVE  /\ rings'[m].gen = rings[m].gen /\ rings'[m].head = rings[m].head
             /\ rings'[m].tail = IF m = k THEN rings[k].tail + srcs[k].taken ELSE rings[m].tail
  BY <1>1, <1>2 DEF RingType
<1>4. RecordedNow' = RecordedNow
  BY <1>3, SameRecorded
<1>5. [m \in NS |-> rings'[m].head] = [m \in NS |-> rings[m].head]
  BY <1>3
<1>6. t1 = [t EXCEPT ![k] = t1[k]]
  BY <1>1, <1>3
<1>7. t[k] = rings[k].tail /\ t1[k] = rings[k].tail + srcs[k].taken
  BY <1>1, <1>3
<1>8. t1[k] <= Len(RecordedNow[k])
  <2>1. PICK c \in rings'[k].tail .. rings'[k].head : RecordedNow'[k] = FirstOf(c)
    BY <1>1 DEF RecordedInv, Recorded
  <2>2. rings'[k] \in RingType
    BY <1>1 DEF MainInv
  <2>3. Len(RecordedNow[k]) \in rings'[k].tail .. rings'[k].head
    BY <1>4, <2>1, <2>2, RecordedLen
  <2>4. t1[k] = rings'[k].tail
    BY <1>1
  <2> QED BY <2>2, <2>3, <2>4 DEF RingType
<1>9. CASE srcs[k].taken = 0
  <2>1. t1[k] = t[k]
    BY <1>1, <1>7, <1>9
  <2>2. t1 = t
    BY <1>6, <2>1
  <2> QED BY <1>4, <1>5, <2>2 DEF Recorder!vars
<1>10. CASE srcs[k].taken # 0
  <2>1. t[k] < t1[k]
    BY <1>1, <1>7, <1>10
  <2> HIDE DEF t, t1
  <2>2. /\ t1 = [t EXCEPT ![k] = t1[k]] /\ t[k] < t1[k] /\ t1[k] <= Len(RecordedNow[k])
    BY <1>6, <1>8, <2>1
  <2> QED BY <1>4, <1>5, <2>2 DEF Recorder!Free, t, t1
<1> QED BY <1>9, <1>10

LEMMA RecorderStep ==
  ASSUME MainInv, MainInv', WalInv, RecordedInv', [Next]_vars, ~PowerCut
  PROVE  [Recorder!Next]_(Recorder!vars)
<1>1. ni \in NS
  BY DEF MainInv
<1>2. CASE rings' = rings
  BY <1>2, IsRecord DEF Recorder!Next
<1>3. CASE Release \/ StopRelease
  <2>1. PICK k \in NS : k = ni
    BY <1>1
  <2>2. ReleaseTaken(k) /\ disk' = disk
    BY <1>3, <2>1 DEF Release, StopRelease, ReleaseTaken, Taken, wvars
  <2>3. Recorder!Free(k) \/ UNCHANGED Recorder!vars
    BY <2>2, IsFree
  <2> QED BY <2>3 DEF Recorder!Next
<1>4. ASSUME NEW n \in NS, Push(n) PROVE Recorder!Next
  BY <1>4, IsPush DEF Recorder!Next
<1>5. ASSUME MainStep, ~(Release \/ StopRelease) PROVE rings' = rings
  BY <1>5, Zenon DEF MainStep, Start, OpenDone, NoteGeneration, NoteDone, Drain, Flush, Idle, FlushDone, Stop, StopDone, CloseDone
<1>6. ASSUME LogStep \/ Tick \/ Signal \/ Kill \/ UNCHANGED vars PROVE rings' = rings
  BY <1>6 DEF LogStep, Tick, Signal, Kill, vars
<1> QED BY <1>2, <1>3, <1>4, <1>5, <1>6 DEF Next

LEMMA RecorderInit == ASSUME Init, RecordedInv PROVE Recorder!Init
<1>1. rings = NewRings(1)
  BY DEF Init
<1>2. \A n \in NS : rings[n].head = 0 /\ rings[n].tail = 0
  BY <1>1 DEF NewRings
<1>3. ASSUME NEW n \in NS PROVE RecordedNow[n] = <<>>
  <2>1. PICK c \in 0 .. 0 : RecordedNow[n] = FirstOf(c)
    BY <1>2 DEF RecordedInv, Recorded
  <2> QED BY <2>1 DEF FirstOf
<1>4. RecordedNow = [n \in NS |-> <<>>]
  BY <1>3, NowIsSo DEF NowIs
<1> QED BY <1>2, <1>4 DEF Recorder!Init, Recorder!Fresh

LEMMA NoPower == ASSUME "power" \notin Accidents PROVE ~PowerCut
BY DEF PowerCut, WalPowerCut, Befalls

\* storaged implements Recorder as long as the power stays on and the log is in its first segment: through kills,
\* restarts and failing system calls, the log has the first samples of every ring in the order they were pushed, each
\* once and without a gap, and a slot is freed only when its sample is among them (main, drain, note_generation, wal_commit).
THEOREM StoragedIsRecorder ==
  ASSUME "undo" \notin Accidents, "power" \notin Accidents
  PROVE  Spec /\ []Unrolled => IsRecorder
<1> DEFINE I == OneSegment /\ SkipInv /\ UpInv
           J == LoggedInv /\ DenseInv
<1>1. OrderAssumption
  BY DEF OrderAssumption
<1>2. Spec /\ []Unrolled => []I
  BY <1>1, SkipHolds, UpHolds, PTL
<1>3. I /\ I' /\ J /\ Unrolled /\ Unrolled' /\ [Next]_vars => J'
  <2> SUFFICES ASSUME I, I', J, Unrolled, Unrolled', [Next]_vars PROVE J'
    OBVIOUS
  <2> QED BY LoggedNext, DenseNext, NoPower DEF OneSegment
<1>4. Init => J
  BY LoggedInit, DenseInit
<1>5. I /\ J => RecordedInv
  BY AllRecorded DEF OneSegment
<1>6. I /\ I' /\ RecordedInv' /\ [Next]_vars => [Recorder!Next]_(Recorder!vars)
  BY RecorderStep, NoPower DEF OneSegment, OrderInv
<1>7. Init /\ RecordedInv => Recorder!Init
  BY RecorderInit
<1> HIDE DEF I, J
<1> QED BY <1>2, <1>3, <1>4, <1>5, <1>6, <1>7, PTL DEF Spec, IsRecorder, Recorder!Spec
=============================================================================
