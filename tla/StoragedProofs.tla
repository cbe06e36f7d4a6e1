--------------------------- MODULE StoragedProofs ---------------------------
(***************************************************************************)
(* What storaged's log holds, proved for every batch and segment size and  *)
(* any number of accidents.                                                *)
(***************************************************************************)
EXTENDS Storaged, WalScanProofs

---------------------------------------------------------------------------
(* The card *)

Segs == [first : Nat, recs : Seq(Recs), synced : Nat, entry : BOOLEAN]

\* The first k records of a segment are numbered from its name on.
InOrder(seg, k) == \A p \in 1 .. k : seg.recs[p].seq = seg.first + p - 1

\* Among the first k records, a boot that reports a clean end follows a SHUTDOWN batch.
Earned(f, k) ==
  \A p \in 1 .. k : f[p].kind = "BOOT" /\ f[p].val = PrevClean => p > 3 /\ f[p - 3].kind = "SHUTDOWN"

\* What is committed in a segment is numbered and its boots are honest.
SegOK(seg) ==
  \A k \in 0 .. Len(seg.recs) : Whole(seg.recs, k) => InOrder(seg, k) /\ Earned(seg.recs, k)

\* Every segment but the newest is whole, and the next one is named after its end.
DiskOK(d) ==
  /\ d \in Seq(Segs)
  /\ \A i \in 1 .. Len(d) : SegOK(d[i])
  /\ \A i \in 1 .. Len(d) - 1 : /\ Whole(d[i].recs, Len(d[i].recs))
                                /\ d[i + 1].first = d[i].first + Len(d[i].recs)
  /\ Len(d) > 0 => d[1].first = 0

\* The newest segment changes behind what is committed.
LEMMA DiskLast ==
  ASSUME NEW d, DiskOK(d), NEW e \in Seq(Segs), Len(e) = Len(d), Len(d) > 0,
         \A i \in 1 .. Len(d) - 1 : e[i].first = d[i].first /\ e[i].recs = d[i].recs,
         e[Len(d)].first = d[Len(d)].first, SegOK(e[Len(d)])
  PROVE  DiskOK(e)
<1>1. d \in Seq(Segs) /\ Len(d) \in Nat
  BY DEF DiskOK
<1>2. ASSUME NEW i \in 1 .. Len(e) PROVE SegOK(e[i])
  <2>1. CASE i = Len(d)
    BY <2>1
  <2>2. CASE i # Len(d)
    <3>1. i \in 1 .. Len(d) - 1 /\ i \in 1 .. Len(d)
      BY <1>1, <2>2
    <3>2. SegOK(d[i])
      BY <3>1 DEF DiskOK
    <3> QED BY <3>1, <3>2 DEF SegOK, InOrder
  <2> QED BY <2>1, <2>2
<1>3. ASSUME NEW i \in 1 .. Len(e) - 1
      PROVE  Whole(e[i].recs, Len(e[i].recs)) /\ e[i + 1].first = e[i].first + Len(e[i].recs)
  <2>1. i \in 1 .. Len(d) - 1 /\ (i + 1 \in 1 .. Len(d) - 1 \/ i + 1 = Len(d))
    BY <1>1
  <2>2. Whole(d[i].recs, Len(d[i].recs)) /\ d[i + 1].first = d[i].first + Len(d[i].recs)
    BY <2>1 DEF DiskOK
  <2>3. e[i].recs = d[i].recs /\ e[i].first = d[i].first /\ e[i + 1].first = d[i + 1].first
    BY <2>1
  <2> QED BY <2>2, <2>3
<1>4. e[1].first = 0
  <2>1. d[1].first = 0
    BY DEF DiskOK
  <2>2. 1 \in 1 .. Len(d) - 1 \/ 1 = Len(d)
    BY <1>1
  <2> QED BY <2>1, <2>2
<1> QED BY <1>2, <1>3, <1>4 DEF DiskOK

\* The newest segment goes.
LEMMA DiskFront ==
  ASSUME NEW d, DiskOK(d), Len(d) > 0
  PROVE  DiskOK(SubSeq(d, 1, Len(d) - 1))
<1> DEFINE e == SubSeq(d, 1, Len(d) - 1)
<1>1. d \in Seq(Segs) /\ Len(d) \in Nat
  BY DEF DiskOK
<1>2. e \in Seq(Segs) /\ Len(e) = Len(d) - 1 /\ \A i \in 1 .. Len(d) - 1 : e[i] = d[i]
  <2> DEFINE m == Len(d) - 1
  <2>1. m \in Nat /\ m <= Len(d)
    BY <1>1
  <2> HIDE DEF m
  <2>2. SubSeq(d, 1, m) \in Seq(Segs) /\ Len(SubSeq(d, 1, m)) = m /\ \A i \in 1 .. m : SubSeq(d, 1, m)[i] = d[i]
    BY <1>1, <2>1
  <2> QED BY <2>2 DEF m
<1> HIDE DEF e
<1>3. DiskOK(e)
  BY <1>1, <1>2 DEF DiskOK
<1> QED BY <1>3 DEF e

\* A new segment, named after the end of the newest.
LEMMA DiskAppend ==
  ASSUME NEW d, DiskOK(d), NEW s \in Nat,
         Len(d) = 0 => s = 0,
         Len(d) > 0 => /\ Whole(d[Len(d)].recs, Len(d[Len(d)].recs))
                       /\ s = d[Len(d)].first + Len(d[Len(d)].recs)
  PROVE  /\ DiskOK(Append(d, Segment(s))) /\ Len(Append(d, Segment(s))) = Len(d) + 1
         /\ Append(d, Segment(s))[Len(d) + 1] = Segment(s)
         /\ Segment(s).recs = <<>> /\ Segment(s).first = s
<1> DEFINE z == Segment(s)
           e == Append(d, z)
<1>1. z \in Segs /\ z.recs = <<>> /\ z.first = s
  BY DEF Segment, Segs
<1>2. SegOK(z)
  <2>1. Len(z.recs) = 0
    BY <1>1
  <2> QED BY <2>1 DEF SegOK, InOrder, Earned
<1>3. d \in Seq(Segs) /\ Len(d) \in Nat
  BY DEF DiskOK
<1> HIDE DEF z
<1>4. e \in Seq(Segs) /\ Len(e) = Len(d) + 1 /\ e[Len(d) + 1] = z /\ \A i \in 1 .. Len(d) : e[i] = d[i]
  BY <1>1, <1>3
<1> HIDE DEF e
<1>5. \A i \in 1 .. Len(e) : SegOK(e[i])
  <2>1. \A i \in 1 .. Len(e) : i \in 1 .. Len(d) \/ i = Len(d) + 1
    BY <1>3, <1>4
  <2> QED BY <1>2, <1>4, <2>1 DEF DiskOK
<1>6. ASSUME NEW i \in 1 .. Len(e) - 1
      PROVE  Whole(e[i].recs, Len(e[i].recs)) /\ e[i + 1].first = e[i].first + Len(e[i].recs)
  <2>1. CASE i = Len(d)
    BY <1>1, <1>3, <1>4, <2>1
  <2>2. CASE i # Len(d)
    <3>1. i \in 1 .. Len(d) - 1 /\ e[i] = d[i] /\ e[i + 1] = d[i + 1]
      BY <1>3, <1>4, <2>2
    <3> QED BY <3>1 DEF DiskOK
  <2> QED BY <2>1, <2>2
<1>7. e[1].first = 0
  <2>1. CASE Len(d) = 0
    BY <1>1, <1>4, <2>1
  <2>2. CASE Len(d) # 0
    <3>1. e[1] = d[1] /\ Len(d) > 0
      BY <1>3, <1>4, <2>2
    <3> QED BY <3>1 DEF DiskOK
  <2> QED BY <2>1, <2>2
<1>8. DiskOK(e)
  BY <1>4, <1>5, <1>6, <1>7 DEF DiskOK
<1> QED BY <1>1, <1>4, <1>8 DEF e, z

---------------------------------------------------------------------------
(* wal_t *)

WType ==
  [fd : Nat, seg_bytes : Nat, next_seq : Nat, next_txn : Nat, boot_id : Nat,
   prev_end : Nat, ring_gen : [NS -> Nat], ring_seq : [NS -> Mark],
   open_batch : BOOLEAN, batch_seq0 : Nat, batch_samples : Nat,
   buf : Seq(Recs), done : Nat, half : BOOLEAN]

\* The open batch is numbered from batch_seq0 on, and all of it is of this boot.
Numbered(x) ==
  /\ x.next_seq = x.batch_seq0 + Len(x.buf)
  /\ \A p \in 1 .. Len(x.buf) : x.buf[p].seq = x.batch_seq0 + p - 1
  /\ \A p \in 1 .. Len(x.buf) : x.buf[p].boot = x.boot_id

Begun(x) == Len(x.buf) > 0 /\ x.buf[1].kind = "BEGIN" /\ x.buf[1].val = x.next_txn

\* A batch is being collected, or there is none.
Filling(x) ==
  /\ x \in WType
  /\ x.done = 0 /\ x.half = FALSE
  /\ IF x.open_batch THEN Numbered(x) /\ Begun(x) /\ \A p \in 2 .. Len(x.buf) : Plain(x.buf[p])
     ELSE x.buf = <<>>

\* A batch is complete and on its way to the card.
Filled(x) == x \in WType /\ x.open_batch = TRUE /\ Numbered(x) /\ Begun(x) /\ IsBatch(x.buf, 1, Len(x.buf))

\* A boot that reports a clean end goes right behind a SHUTDOWN batch.
Honest(seg, x) ==
  \A p \in 1 .. Len(x.buf) :
    x.buf[p].kind = "BOOT" /\ x.buf[p].val = PrevClean =>
      p = 2 /\ x.seg_bytes > 1 /\ seg.recs[x.seg_bytes - 1].kind = "SHUTDOWN"

\* The open segment is the newest, the log is good up to seg_bytes, and the batch goes there.
Placed(d, x) ==
  x.fd # 0 =>
    /\ x.fd = Len(d)
    /\ x.seg_bytes <= Len(d[x.fd].recs) /\ Whole(d[x.fd].recs, x.seg_bytes)
    /\ (IF x.open_batch THEN x.batch_seq0 ELSE x.next_seq) = d[x.fd].first + x.seg_bytes
    /\ Honest(d[x.fd], x)

\* How much of the batch is in the file.
OnCard(d, x) ==
  x.fd # 0 =>
    /\ x.done <= Len(x.buf)
    /\ Len(d[x.fd].recs) = x.seg_bytes + x.done + (IF x.half THEN 1 ELSE 0)
    /\ \A p \in 1 .. x.done : d[x.fd].recs[x.seg_bytes + p] = x.buf[p]
    /\ x.half => x.done < Len(x.buf) /\ d[x.fd].recs[Len(d[x.fd].recs)].kind = "TORN"

\* Between calls, and during wal_commit.
Ready(d, x)  == Filling(x) /\ Placed(d, x) /\ OnCard(d, x)
Sealed(d, x) == Filled(x) /\ Placed(d, x) /\ OnCard(d, x)

\* The part of wal_t that building a batch leaves alone.
SameLog(x, y) ==
  /\ y.fd = x.fd /\ y.seg_bytes = x.seg_bytes /\ y.next_txn = x.next_txn /\ y.boot_id = x.boot_id
  /\ y.prev_end = x.prev_end /\ y.ring_gen = x.ring_gen /\ y.ring_seq = x.ring_seq
  /\ y.done = x.done /\ y.half = x.half

\* append: y is x with record r behind its buffer.
Appended(x, y, r) ==
  /\ y \in WType /\ SameLog(x, y)
  /\ y.open_batch = x.open_batch /\ y.batch_seq0 = x.batch_seq0 /\ y.batch_samples = x.batch_samples
  /\ y.next_seq = x.next_seq + 1
  /\ y.buf = Append(x.buf, r)

LEMMA AppendRecIs ==
  ASSUME NEW x \in WType, NEW kind \in Kinds, NEW ns \in Nat, NEW gen \in Nat, NEW val \in Nat
  PROVE  Appended(x, AppendRec(x, kind, ns, gen, val), Rec(kind, x.next_seq, x.boot_id, ns, gen, val))
<1> DEFINE r == Rec(kind, x.next_seq, x.boot_id, ns, gen, val)
           y == AppendRec(x, kind, ns, gen, val)
           b == Append(x.buf, r)
           s == x.next_seq + 1
<1>1. x.next_seq \in Nat /\ x.boot_id \in Nat /\ x.buf \in Seq(Recs)
  BY DEF WType
<1>2. r \in Recs
  BY <1>1 DEF Rec, Recs
<1>3. b \in Seq(Recs) /\ s \in Nat
  <2> HIDE DEF r
  <2> QED BY <1>1, <1>2
<1>4. y = [x EXCEPT !.buf = b, !.next_seq = s]
  BY DEF AppendRec
<1> HIDE DEF b, s, y
<1>5. y \in WType /\ y.buf = b /\ y.next_seq = s
  BY <1>3, <1>4 DEF WType
<1>6. SameLog(x, y) /\ y.open_batch = x.open_batch /\ y.batch_seq0 = x.batch_seq0 /\ y.batch_samples = x.batch_samples
  BY <1>4 DEF WType, SameLog
<1>7. Appended(x, y, r)
  BY <1>5, <1>6 DEF Appended, b, s
<1> QED BY <1>7 DEF y

\* wal_add's BEGIN: a batch is open.
LEMMA OpenBatchIs ==
  ASSUME NEW x, Filling(x)
  PROVE  LET y == OpenBatch(x)
         IN  /\ Filling(y) /\ SameLog(x, y) /\ y.open_batch = TRUE
             /\ y.batch_seq0 = IF x.open_batch THEN x.batch_seq0 ELSE x.next_seq
             /\ x.open_batch => y = x
             /\ ~x.open_batch => Len(y.buf) = 1 /\ y.batch_samples = 0
<1> DEFINE y == OpenBatch(x)
<1>1. CASE x.open_batch
  <2>1. y = x /\ x.open_batch = TRUE
    BY <1>1 DEF OpenBatch, Filling, WType
  <2> QED BY <1>1, <2>1 DEF SameLog
<1>2. CASE ~x.open_batch
  <2> DEFINE z == AppendRec(x, "BEGIN", 0, 0, x.next_txn)
             r == Rec("BEGIN", x.next_seq, x.boot_id, 0, 0, x.next_txn)
  <2>1. x \in WType /\ x.buf = <<>> /\ x.done = 0 /\ x.half = FALSE /\ x.next_txn \in Nat /\ x.next_seq \in Nat
        /\ x.boot_id \in Nat
    BY <1>2 DEF Filling, WType
  <2>2. "BEGIN" \in Kinds /\ r \in Recs /\ r.kind = "BEGIN" /\ r.seq = x.next_seq /\ r.val = x.next_txn
        /\ r.boot = x.boot_id
    BY <2>1 DEF Rec, Recs, Kinds
  <2>3. Appended(x, z, r)
    BY <2>1, <2>2, AppendRecIs
  <2>4. y = [z EXCEPT !.batch_seq0 = x.next_seq, !.open_batch = TRUE, !.batch_samples = 0]
    BY <1>2 DEF OpenBatch
  <2> HIDE DEF r, z, y
  <2>5. /\ y \in WType /\ y.batch_seq0 = x.next_seq /\ y.open_batch = TRUE /\ y.batch_samples = 0
        /\ y.next_seq = z.next_seq /\ y.buf = z.buf
    BY <2>1, <2>3, <2>4 DEF WType, Appended
  <2>6. SameLog(x, y)
    BY <2>3, <2>4 DEF SameLog, WType, Appended
  <2>7. Len(y.buf) = 1 /\ y.buf[1] = r
    BY <2>1, <2>2, <2>3, <2>5 DEF Appended
  <2>8. Numbered(y)
    BY <2>1, <2>2, <2>3, <2>5, <2>6, <2>7 DEF Numbered, Appended, SameLog
  <2>9. Begun(y)
    BY <2>2, <2>6, <2>7 DEF Begun, SameLog
  <2>10. \A p \in 2 .. Len(y.buf) : Plain(y.buf[p])
    BY <2>7
  <2>11. Filling(y)
    BY <2>1, <2>5, <2>6, <2>8, <2>9, <2>10 DEF Filling, SameLog
  <2> QED BY <1>2, <2>5, <2>6, <2>7, <2>11 DEF y
<1> QED BY <1>1, <1>2

\* One more plain record in the open batch y makes z of it.
Adds1(y, z, r) ==
  /\ Filling(z) /\ SameLog(y, z) /\ z.open_batch = TRUE /\ z.batch_seq0 = y.batch_seq0
  /\ Len(z.buf) = Len(y.buf) + 1 /\ z.buf[Len(z.buf)] = r
  /\ \A p \in 1 .. Len(y.buf) : z.buf[p] = y.buf[p]

\* wal_add of any record a batch may hold.
LEMMA WalAddIs ==
  ASSUME NEW x, Filling(x), NEW kind \in Kinds \ {"BEGIN", "COMMIT", "TORN"},
         NEW ns \in Nat, NEW gen \in Nat, NEW val \in Nat
  PROVE  LET y == OpenBatch(x)
             r == Rec(kind, y.next_seq, y.boot_id, ns, gen, val)
         IN  /\ Adds1(y, WalAdd(x, kind, ns, gen, val), r)
             /\ r \in Recs /\ r.kind = kind /\ r.ns = ns /\ r.gen = gen /\ r.val = val
<1> DEFINE y == OpenBatch(x)
           r == Rec(kind, y.next_seq, y.boot_id, ns, gen, val)
           u == AppendRec(y, kind, ns, gen, val)
           z == WalAdd(x, kind, ns, gen, val)
           n == IF kind = "SAMPLE" THEN u.batch_samples + 1 ELSE u.batch_samples
<1>1. Filling(y) /\ y.open_batch = TRUE
  BY OpenBatchIs
<1> HIDE DEF y
<1>2. y \in WType /\ y.next_seq \in Nat /\ y.boot_id \in Nat /\ y.done = 0 /\ y.half = FALSE /\ y.buf \in Seq(Recs)
      /\ y.batch_seq0 \in Nat
  BY <1>1 DEF Filling, WType
<1>3. kind \in Kinds /\ r \in Recs /\ r.kind = kind /\ r.seq = y.next_seq /\ r.ns = ns /\ r.gen = gen /\ r.val = val
      /\ r.boot = y.boot_id
  BY <1>2 DEF Rec, Recs
<1>4a. Appended(y, u, r)
  BY <1>2, <1>3, AppendRecIs
<1>4. /\ u \in WType /\ SameLog(y, u) /\ u.open_batch = y.open_batch /\ u.batch_seq0 = y.batch_seq0
      /\ u.next_seq = y.next_seq + 1 /\ u.buf = Append(y.buf, r)
  <2> HIDE DEF u, r
  <2> QED BY <1>4a DEF Appended
<1>5. z = [u EXCEPT !.batch_samples = n]
  BY DEF WalAdd, y
<1> HIDE DEF r, u, z
<1>6. n \in Nat
  BY <1>4 DEF WType
<1> HIDE DEF n
<1>7. /\ z \in WType /\ z.open_batch = u.open_batch /\ z.batch_seq0 = u.batch_seq0
      /\ z.next_seq = u.next_seq /\ z.buf = u.buf
  BY <1>4, <1>5, <1>6 DEF WType
<1>8. SameLog(u, z)
  BY <1>4, <1>5 DEF SameLog, WType
<1>9. SameLog(y, z)
  BY <1>4, <1>8 DEF SameLog
<1>10. /\ Len(z.buf) = Len(y.buf) + 1 /\ z.buf[Len(z.buf)] = r
       /\ \A p \in 1 .. Len(y.buf) : z.buf[p] = y.buf[p]
  BY <1>2, <1>3, <1>4, <1>7
<1>11. /\ Numbered(y) /\ Begun(y) /\ Len(y.buf) \in Nat /\ \A p \in 2 .. Len(y.buf) : Plain(y.buf[p])
  BY <1>1, <1>2 DEF Filling
<1>12. \A p \in 1 .. Len(z.buf) : p \in 1 .. Len(y.buf) \/ p = Len(y.buf) + 1
  BY <1>10, <1>11
<1>13. Numbered(z)
  <2>1. z.next_seq = z.batch_seq0 + Len(z.buf)
    BY <1>2, <1>4, <1>7, <1>10, <1>11 DEF Numbered
  <2>2. ASSUME NEW p \in 1 .. Len(z.buf) PROVE z.buf[p].seq = z.batch_seq0 + p - 1
    <3>1. CASE p \in 1 .. Len(y.buf)
      BY <1>4, <1>7, <1>10, <1>11, <3>1 DEF Numbered
    <3>2. CASE p = Len(y.buf) + 1
      BY <1>2, <1>3, <1>4, <1>7, <1>10, <1>11, <3>2 DEF Numbered
    <3> QED BY <1>12, <3>1, <3>2
  <2>3. ASSUME NEW p \in 1 .. Len(z.buf) PROVE z.buf[p].boot = z.boot_id
    <3>1. CASE p \in 1 .. Len(y.buf)
      BY <1>9, <1>10, <1>11, <3>1 DEF Numbered, SameLog
    <3>2. CASE p = Len(y.buf) + 1
      BY <1>3, <1>9, <1>10, <3>2 DEF SameLog
    <3> QED BY <1>12, <3>1, <3>2
  <2> QED BY <2>1, <2>2, <2>3 DEF Numbered
<1>14. Begun(z)
  BY <1>9, <1>10, <1>11 DEF Begun, SameLog
<1>15. ASSUME NEW p \in 2 .. Len(z.buf) PROVE Plain(z.buf[p])
  <2>1. CASE p \in 2 .. Len(y.buf)
    BY <1>10, <1>11, <2>1
  <2>2. CASE p = Len(y.buf) + 1
    BY <1>3, <1>10, <2>2 DEF Plain
  <2> QED BY <1>10, <1>11, <2>1, <2>2
<1>16. z.done = 0 /\ z.half = FALSE /\ z.open_batch = TRUE
  BY <1>1, <1>2, <1>4, <1>7, <1>9 DEF SameLog
<1>17. Filling(z)
  BY <1>7, <1>13, <1>14, <1>15, <1>16 DEF Filling
<1>18. Adds1(y, z, r)
  BY <1>4, <1>7, <1>9, <1>10, <1>16, <1>17 DEF Adds1
<1> QED BY <1>3, <1>18 DEF z, y, r

\* k samples of ring n, from ring seq first on, behind the batch y.
AddsMany(y, z, n, gen, first, k) ==
  /\ Filling(z) /\ SameLog(y, z) /\ z.open_batch = TRUE /\ z.batch_seq0 = y.batch_seq0
  /\ Len(z.buf) = Len(y.buf) + k
  /\ \A i \in 1 .. k : /\ z.buf[Len(y.buf) + i].kind = "SAMPLE" /\ z.buf[Len(y.buf) + i].ns = n
                       /\ z.buf[Len(y.buf) + i].gen = gen /\ z.buf[Len(y.buf) + i].val = first + i - 1
  /\ \A p \in 1 .. Len(y.buf) : z.buf[p] = y.buf[p]

LEMMA WalAddSamplesIs ==
  ASSUME NEW x, Filling(x), NEW n \in Nat, NEW gen \in Nat, NEW first \in Nat, NEW k \in Nat, k # 0
  PROVE  AddsMany(OpenBatch(x), WalAddSamples(x, n, gen, first, k), n, gen, first, k)
<1> DEFINE y == OpenBatch(x)
           z == WalAddSamples(x, n, gen, first, k)
           s == [i \in 1 .. k |-> Rec("SAMPLE", y.next_seq + i - 1, y.boot_id, n, gen, first + i - 1)]
           b == y.buf \o s
           ns == y.next_seq + k
           m == y.batch_samples + k
<1>1. Filling(y) /\ y.open_batch = TRUE
  BY OpenBatchIs
<1>2. z = [y EXCEPT !.buf = b, !.next_seq = ns, !.batch_samples = m]
  BY DEF WalAddSamples
<1> HIDE DEF y, z
<1>3. y \in WType /\ y.next_seq \in Nat /\ y.boot_id \in Nat /\ y.done = 0 /\ y.half = FALSE /\ y.buf \in Seq(Recs)
      /\ y.batch_seq0 \in Nat /\ y.batch_samples \in Nat /\ Len(y.buf) \in Nat
  <2> HIDE DEF s, b, ns, m
  <2>1. y \in WType /\ y.done = 0 /\ y.half = FALSE
    BY <1>1 DEF Filling
  <2>2. y.next_seq \in Nat /\ y.boot_id \in Nat /\ y.buf \in Seq(Recs) /\ y.batch_seq0 \in Nat /\ y.batch_samples \in Nat
    BY <2>1 DEF WType
  <2> QED BY <2>1, <2>2
<1>4. ASSUME NEW i \in 1 .. k
      PROVE  /\ s[i] \in Recs /\ s[i].kind = "SAMPLE" /\ s[i].seq = y.next_seq + i - 1
             /\ s[i].ns = n /\ s[i].gen = gen /\ s[i].val = first + i - 1 /\ s[i].boot = y.boot_id
  <2>1. y.next_seq + i - 1 \in Nat /\ first + i - 1 \in Nat /\ "SAMPLE" \in Kinds
    BY <1>3 DEF Kinds
  <2> QED BY <1>3, <2>1 DEF Rec, Recs
<1>5. s \in Seq(Recs) /\ Len(s) = k
  <2>1. s \in [1 .. k -> Recs]
    BY <1>4
  <2> HIDE DEF s
  <2> QED BY <2>1
<1> HIDE DEF s
<1>6. /\ b \in Seq(Recs) /\ Len(b) = Len(y.buf) + k
      /\ \A p \in 1 .. Len(y.buf) : b[p] = y.buf[p]
      /\ \A i \in 1 .. k : b[Len(y.buf) + i] = s[i]
  BY <1>3, <1>5
<1>7. ns \in Nat /\ m \in Nat
  BY <1>3
<1> HIDE DEF b, m, ns
<1>8. z \in WType /\ z.buf = b /\ z.next_seq = ns /\ z.open_batch = y.open_batch /\ z.batch_seq0 = y.batch_seq0
  BY <1>2, <1>3, <1>6, <1>7 DEF WType
<1>9. SameLog(y, z)
  BY <1>2, <1>3 DEF SameLog, WType
<1>10. Numbered(y) /\ Begun(y) /\ \A p \in 2 .. Len(y.buf) : Plain(y.buf[p])
  BY <1>1 DEF Filling
<1>11. \A p \in 1 .. Len(z.buf) : p \in 1 .. Len(y.buf) \/ (p - Len(y.buf) \in 1 .. k /\ p = Len(y.buf) + (p - Len(y.buf)))
  BY <1>3, <1>6, <1>8
<1>12. Numbered(z)
  <2>1. z.next_seq = z.batch_seq0 + Len(z.buf)
    <3>1. y.next_seq = y.batch_seq0 + Len(y.buf)
      BY <1>10 DEF Numbered
    <3>2. ns = y.next_seq + k
      BY DEF ns
    <3>3. z.next_seq = ns /\ z.batch_seq0 = y.batch_seq0 /\ Len(z.buf) = Len(y.buf) + k
      BY <1>6, <1>8
    <3> QED BY <1>3, <3>1, <3>2, <3>3
  <2>2. ASSUME NEW p \in 1 .. Len(z.buf) PROVE z.buf[p].seq = z.batch_seq0 + p - 1
    <3>1. CASE p \in 1 .. Len(y.buf)
      BY <1>6, <1>8, <1>10, <3>1 DEF Numbered
    <3>2. CASE p - Len(y.buf) \in 1 .. k /\ p = Len(y.buf) + (p - Len(y.buf))
      <4>1. z.buf[p].seq = y.next_seq + (p - Len(y.buf)) - 1
        BY <1>4, <1>6, <1>8, <3>2
      <4>2. y.next_seq = y.batch_seq0 + Len(y.buf)
        BY <1>10 DEF Numbered
      <4> DEFINE l == Len(y.buf)
                 q == p - l
                 s0 == y.batch_seq0
      <4>3. l \in Nat /\ s0 \in Nat /\ q \in 1 .. k /\ p = l + q
        BY <1>3, <3>2
      <4> HIDE DEF l, q, s0
      <4>4. (s0 + l) + q - 1 = s0 + p - 1
        BY <4>3
      <4>5. z.buf[p].seq = (s0 + l) + q - 1 /\ z.batch_seq0 = s0
        BY <1>8, <4>1, <4>2 DEF l, q, s0
      <4> QED BY <4>4, <4>5
    <3> QED BY <1>11, <3>1, <3>2
  <2>3. ASSUME NEW p \in 1 .. Len(z.buf) PROVE z.buf[p].boot = z.boot_id
    <3>1. CASE p \in 1 .. Len(y.buf)
      BY <1>6, <1>8, <1>9, <1>10, <3>1 DEF Numbered, SameLog
    <3>2. CASE p - Len(y.buf) \in 1 .. k /\ p = Len(y.buf) + (p - Len(y.buf))
      BY <1>4, <1>6, <1>8, <1>9, <3>2 DEF SameLog
    <3> QED BY <1>11, <3>1, <3>2
  <2> QED BY <2>1, <2>2, <2>3 DEF Numbered
<1>13. Begun(z)
  BY <1>3, <1>6, <1>8, <1>9, <1>10 DEF Begun, SameLog
<1>14. ASSUME NEW p \in 2 .. Len(z.buf) PROVE Plain(z.buf[p])
  <2>0. p \in 1 .. Len(z.buf)
    OBVIOUS
  <2>1. CASE p \in 1 .. Len(y.buf)
    <3>1. p \in 2 .. Len(y.buf)
      BY <2>1
    <3> QED BY <1>6, <1>8, <1>10, <2>1, <3>1
  <2>2. CASE p - Len(y.buf) \in 1 .. k /\ p = Len(y.buf) + (p - Len(y.buf))
    <3> DEFINE i == p - Len(y.buf)
    <3>1. i \in 1 .. k /\ p = Len(y.buf) + i
      BY <2>2
    <3> HIDE DEF i
    <3>2. z.buf[p].kind = "SAMPLE"
      BY <1>4, <1>6, <1>8, <3>1
    <3> QED BY <3>2 DEF Plain
  <2> QED BY <1>11, <2>0, <2>1, <2>2
<1>15. z.done = 0 /\ z.half = FALSE /\ z.open_batch = TRUE
  BY <1>1, <1>3, <1>8, <1>9 DEF SameLog
<1>16. Filling(z)
  BY <1>8, <1>12, <1>13, <1>14, <1>15 DEF Filling
<1>17. AddsMany(y, z, n, gen, first, k)
  BY <1>4, <1>6, <1>8, <1>9, <1>15, <1>16 DEF AddsMany
<1> QED BY <1>17 DEF y, z

\* Whatever is added, the batch still goes where it went.
LEMMA GrowReady ==
  ASSUME NEW d, NEW x, Ready(d, x), NEW z, Filling(z), SameLog(OpenBatch(x), z), z.open_batch = TRUE,
         z.batch_seq0 = OpenBatch(x).batch_seq0, x.fd # 0 => Honest(d[x.fd], z)
  PROVE  Ready(d, z) /\ SameLog(x, z)
<1> DEFINE y == OpenBatch(x)
<1>1. Filling(x) /\ Placed(d, x) /\ OnCard(d, x)
  BY DEF Ready
<1>2. SameLog(x, y) /\ y.batch_seq0 = IF x.open_batch THEN x.batch_seq0 ELSE x.next_seq
  BY <1>1, OpenBatchIs
<1> HIDE DEF y
<1>3. SameLog(x, z) /\ z.batch_seq0 = IF x.open_batch THEN x.batch_seq0 ELSE x.next_seq
  BY <1>2 DEF SameLog, y
<1>4. Placed(d, z)
  BY <1>1, <1>3 DEF Placed, SameLog
<1>5. OnCard(d, z)
  <2>1. z.done = 0 /\ z.half = FALSE /\ x.done = 0 /\ x.half = FALSE /\ Len(z.buf) \in Nat
    BY <1>1 DEF Filling, WType
  <2> QED BY <1>1, <1>3, <2>1 DEF OnCard, SameLog
<1> QED BY <1>3, <1>4, <1>5 DEF Ready

\* The buffer after wal_add's BEGIN is as honest as before.
LEMMA OpenHonest ==
  ASSUME NEW x, Filling(x), NEW seg, Honest(seg, x)
  PROVE  Honest(seg, OpenBatch(x))
<1> DEFINE y == OpenBatch(x)
<1>1. CASE x.open_batch
  <2>1. y = x
    BY <1>1, OpenBatchIs
  <2> QED BY <2>1
<1>2. CASE ~x.open_batch
  <2>1. Len(y.buf) = 1 /\ Filling(y) /\ y.open_batch = TRUE
    BY <1>2, OpenBatchIs
  <2> HIDE DEF y
  <2>2. y.buf[1].kind = "BEGIN"
    BY <2>1 DEF Filling, Begun
  <2>3. Honest(seg, y)
    BY <2>1, <2>2 DEF Honest
  <2> QED BY <2>3 DEF y
<1> QED BY <1>1, <1>2

\* wal_add between calls.
LEMMA WalAddReady ==
  ASSUME NEW d, NEW x, Ready(d, x), NEW kind \in Kinds \ {"BEGIN", "COMMIT", "TORN"},
         NEW ns \in Nat, NEW gen \in Nat, NEW val \in Nat,
         kind = "BOOT" /\ val = PrevClean /\ x.fd # 0 =>
           ~x.open_batch /\ x.seg_bytes > 1 /\ d[x.fd].recs[x.seg_bytes - 1].kind = "SHUTDOWN"
  PROVE  LET z == WalAdd(x, kind, ns, gen, val)
         IN  Ready(d, z) /\ z.open_batch = TRUE /\ SameLog(x, z)
<1> DEFINE y == OpenBatch(x)
           z == WalAdd(x, kind, ns, gen, val)
           r == Rec(kind, y.next_seq, y.boot_id, ns, gen, val)
<1>1. Filling(x) /\ Placed(d, x)
  BY DEF Ready
<1>2. Adds1(y, z, r) /\ r.kind = kind /\ r.val = val
  BY <1>1, WalAddIs
<1>3. Filling(y) /\ SameLog(x, y) /\ (~x.open_batch => Len(y.buf) = 1)
  BY <1>1, OpenBatchIs
<1>4. Len(y.buf) \in Nat
  BY <1>3 DEF Filling, WType
<1>5. ASSUME x.fd # 0 PROVE Honest(d[x.fd], z)
  <2>1. Honest(d[x.fd], y)
    <3>1. Honest(d[x.fd], x)
      BY <1>1, <1>5 DEF Placed
    <3> QED BY <1>1, <3>1, OpenHonest
  <2> HIDE DEF y, z, r
  <2>2. SameLog(x, z)
    BY <1>2, <1>3 DEF Adds1, SameLog
  <2> SUFFICES ASSUME NEW p \in 1 .. Len(z.buf), z.buf[p].kind = "BOOT", z.buf[p].val = PrevClean
               PROVE  p = 2 /\ z.seg_bytes > 1 /\ d[x.fd].recs[z.seg_bytes - 1].kind = "SHUTDOWN"
    BY DEF Honest
  <2>3. p \in 1 .. Len(y.buf) \/ p = Len(y.buf) + 1
    BY <1>2, <1>4 DEF Adds1
  <2>4. CASE p \in 1 .. Len(y.buf)
    <3>1. z.buf[p] = y.buf[p] /\ z.seg_bytes = y.seg_bytes
      BY <1>2, <2>4 DEF Adds1, SameLog
    <3> QED BY <2>1, <2>4, <3>1 DEF Honest
  <2>5. CASE p = Len(y.buf) + 1
    <3>1. z.buf[p] = r /\ z.seg_bytes = x.seg_bytes
      BY <1>2, <2>2, <2>5 DEF Adds1, SameLog
    <3>2. ~x.open_batch /\ x.seg_bytes > 1 /\ d[x.fd].recs[x.seg_bytes - 1].kind = "SHUTDOWN"
      BY <1>2, <1>5, <3>1
    <3>3. Len(y.buf) = 1
      BY <1>3, <3>2
    <3>4. p = 2
      BY <2>5, <3>3
    <3> QED BY <3>1, <3>2, <3>4
  <2> QED BY <2>3, <2>4, <2>5
<1> HIDE DEF z, r
<1>6. Ready(d, z) /\ SameLog(x, z)
  BY <1>2, <1>5, GrowReady DEF Adds1
<1> QED BY <1>2, <1>6 DEF Adds1, z

\* The same for the samples drain adds.
LEMMA WalAddSamplesReady ==
  ASSUME NEW d, NEW x, Ready(d, x), NEW n \in Nat, NEW gen \in Nat, NEW first \in Nat, NEW k \in Nat
  PROVE  LET z == WalAddSamples(x, n, gen, first, k)
         IN  Ready(d, z) /\ SameLog(x, z) /\ (k # 0 => z.open_batch = TRUE)
<1> DEFINE y == OpenBatch(x)
           z == WalAddSamples(x, n, gen, first, k)
<1>1. CASE k = 0
  <2>1. z = x
    BY <1>1 DEF WalAddSamples
  <2> QED BY <1>1, <2>1 DEF SameLog
<1>2. CASE k # 0
  <2>1. Filling(x) /\ Placed(d, x)
    BY DEF Ready
  <2>2. AddsMany(y, z, n, gen, first, k)
    BY <1>2, <2>1, WalAddSamplesIs
  <2>3. Filling(y)
    BY <2>1, OpenBatchIs
  <2>4. Len(y.buf) \in Nat
    BY <2>3 DEF Filling, WType
  <2>5. ASSUME x.fd # 0 PROVE Honest(d[x.fd], z)
    <3>1. Honest(d[x.fd], y)
      <4>1. Honest(d[x.fd], x)
        BY <2>1, <2>5 DEF Placed
      <4> QED BY <2>1, <4>1, OpenHonest
    <3> HIDE DEF y, z
    <3> SUFFICES ASSUME NEW p \in 1 .. Len(z.buf), z.buf[p].kind = "BOOT", z.buf[p].val = PrevClean
                 PROVE  p = 2 /\ z.seg_bytes > 1 /\ d[x.fd].recs[z.seg_bytes - 1].kind = "SHUTDOWN"
      BY DEF Honest
    <3>2. p \in 1 .. Len(y.buf) \/ (p - Len(y.buf) \in 1 .. k /\ p = Len(y.buf) + (p - Len(y.buf)))
      BY <2>2, <2>4 DEF AddsMany
    <3>3. p \in 1 .. Len(y.buf)
      BY <2>2, <3>2 DEF AddsMany
    <3>4. z.buf[p] = y.buf[p] /\ z.seg_bytes = y.seg_bytes
      BY <2>2, <3>3 DEF AddsMany, SameLog
    <3> QED BY <3>1, <3>3, <3>4 DEF Honest
  <2> HIDE DEF z
  <2>6. Ready(d, z) /\ SameLog(x, z)
    BY <2>2, <2>5, GrowReady DEF AddsMany
  <2> QED BY <2>2, <2>6 DEF AddsMany, z
<1> QED BY <1>1, <1>2

\* COMMIT completes the batch.
LEMMA SealReady ==
  ASSUME NEW d, NEW x, Ready(d, x), x.open_batch
  PROVE  Sealed(d, AppendRec(x, "COMMIT", 0, 0, x.next_txn))
<1> DEFINE y == AppendRec(x, "COMMIT", 0, 0, x.next_txn)
           r == Rec("COMMIT", x.next_seq, x.boot_id, 0, 0, x.next_txn)
           b == x.buf
<1>1. Filling(x) /\ Placed(d, x) /\ OnCard(d, x)
  BY DEF Ready
<1>2. /\ x \in WType /\ x.next_txn \in Nat /\ x.next_seq \in Nat /\ x.boot_id \in Nat /\ x.batch_seq0 \in Nat
      /\ b \in Seq(Recs) /\ Len(b) \in Nat /\ x.done = 0 /\ x.half = FALSE /\ x.open_batch = TRUE
  BY <1>1 DEF Filling, WType
<1>3. Numbered(x) /\ Begun(x) /\ \A p \in 2 .. Len(b) : Plain(b[p])
  BY <1>1 DEF Filling
<1>4. "COMMIT" \in Kinds /\ r \in Recs /\ r.kind = "COMMIT" /\ r.seq = x.next_seq /\ r.val = x.next_txn
      /\ r.boot = x.boot_id
  BY <1>2 DEF Rec, Recs, Kinds
<1>5. Appended(x, y, r)
  BY <1>2, <1>4, AppendRecIs
<1> HIDE DEF r, y
<1>6. /\ y \in WType /\ SameLog(x, y) /\ y.open_batch = TRUE /\ y.batch_seq0 = x.batch_seq0
      /\ y.next_seq = x.next_seq + 1 /\ y.buf = Append(b, r)
  BY <1>2, <1>5 DEF Appended
<1>7. Len(y.buf) = Len(b) + 1 /\ y.buf[Len(b) + 1] = r /\ \A p \in 1 .. Len(b) : y.buf[p] = b[p]
  BY <1>2, <1>4, <1>6
<1>8. \A p \in 1 .. Len(y.buf) : p \in 1 .. Len(b) \/ p = Len(b) + 1
  BY <1>2, <1>7
<1> HIDE DEF b
<1>9. Numbered(y)
  <2>1. x.next_seq = x.batch_seq0 + Len(b) /\ \A p \in 1 .. Len(b) : b[p].seq = x.batch_seq0 + p - 1
    BY <1>3 DEF Numbered, b
  <2>2. y.next_seq = y.batch_seq0 + Len(y.buf)
    BY <1>2, <1>6, <1>7, <2>1
  <2>3. ASSUME NEW p \in 1 .. Len(y.buf) PROVE y.buf[p].seq = y.batch_seq0 + p - 1
    <3>1. CASE p \in 1 .. Len(b)
      BY <1>6, <1>7, <2>1, <3>1
    <3>2. CASE p = Len(b) + 1
      BY <1>2, <1>4, <1>6, <1>7, <2>1, <3>2
    <3> QED BY <1>8, <3>1, <3>2
  <2>4. ASSUME NEW p \in 1 .. Len(y.buf) PROVE y.buf[p].boot = y.boot_id
    <3>1. CASE p \in 1 .. Len(b)
      BY <1>3, <1>6, <1>7, <3>1 DEF Numbered, SameLog, b
    <3>2. CASE p = Len(b) + 1
      BY <1>4, <1>6, <1>7, <3>2 DEF SameLog
    <3> QED BY <1>8, <3>1, <3>2
  <2> QED BY <2>2, <2>3, <2>4 DEF Numbered
<1>10. Len(b) > 0 /\ b[1].kind = "BEGIN" /\ b[1].val = x.next_txn /\ y.buf[1] = b[1]
  BY <1>2, <1>3, <1>7 DEF Begun, b
<1>11. Begun(y)
  BY <1>2, <1>6, <1>7, <1>10 DEF Begun, SameLog
<1>12. IsBatch(y.buf, 1, Len(y.buf))
  <2>1. ASSUME NEW p \in 1 + 1 .. Len(y.buf) - 1 PROVE y.buf[p].kind \notin {"BEGIN", "COMMIT", "TORN"}
    <3>1. p \in 2 .. Len(b) /\ p \in 1 .. Len(b)
      BY <1>2, <1>7
    <3> QED BY <1>3, <1>7, <3>1 DEF Plain, b
  <2> QED BY <1>2, <1>4, <1>7, <1>10, <2>1 DEF IsBatch
<1>13. Filled(y)
  BY <1>6, <1>9, <1>11, <1>12 DEF Filled
<1>14. Placed(d, y)
  <2> SUFFICES ASSUME y.fd # 0
               PROVE  /\ y.fd = Len(d)
                      /\ y.seg_bytes <= Len(d[y.fd].recs) /\ Whole(d[y.fd].recs, y.seg_bytes)
                      /\ y.batch_seq0 = d[y.fd].first + y.seg_bytes
                      /\ Honest(d[y.fd], y)
    BY <1>6 DEF Placed
  <2>1. /\ x.fd # 0 /\ y.fd = x.fd /\ y.seg_bytes = x.seg_bytes /\ x.fd = Len(d)
        /\ x.seg_bytes <= Len(d[x.fd].recs) /\ Whole(d[x.fd].recs, x.seg_bytes)
        /\ x.batch_seq0 = d[x.fd].first + x.seg_bytes
        /\ Honest(d[x.fd], x)
    BY <1>1, <1>2, <1>6 DEF Placed, SameLog
  <2>2. Honest(d[y.fd], y)
    <3> SUFFICES ASSUME NEW p \in 1 .. Len(y.buf), y.buf[p].kind = "BOOT", y.buf[p].val = PrevClean
                 PROVE  p = 2 /\ y.seg_bytes > 1 /\ d[y.fd].recs[y.seg_bytes - 1].kind = "SHUTDOWN"
      BY DEF Honest
    <3>1. p \in 1 .. Len(b)
      BY <1>4, <1>7, <1>8
    <3> QED BY <1>7, <2>1, <3>1 DEF Honest, b
  <2> QED BY <1>6, <2>1, <2>2
<1>15. OnCard(d, y)
  BY <1>1, <1>2, <1>6, <1>7 DEF OnCard, SameLog
<1> QED BY <1>13, <1>14, <1>15 DEF Sealed, y

\* drop_batch and the end of a commit both leave no batch.
NoBatch(y) == Filling(y) /\ y.open_batch = FALSE

\* What wal_open found is kept.
SameScan(x, y) ==
  y.boot_id = x.boot_id /\ y.prev_end = x.prev_end /\ y.ring_gen = x.ring_gen /\ y.ring_seq = x.ring_seq

LEMMA DropIs ==
  ASSUME NEW x \in WType
  PROVE  LET y == DropBatch(x)
         IN  /\ NoBatch(y) /\ y.fd = x.fd /\ y.seg_bytes = x.seg_bytes
             /\ y.next_seq = x.batch_seq0 /\ y.prev_end = x.prev_end
<1> DEFINE y == DropBatch(x)
           e == <<>>
<1>1. e \in Seq(Recs)
  OBVIOUS
<1>2. y = [x EXCEPT !.buf = e, !.open_batch = FALSE, !.batch_samples = 0,
                    !.next_seq = x.batch_seq0, !.done = 0, !.half = FALSE]
  BY DEF DropBatch
<1> HIDE DEF e, y
<1>3. y \in WType /\ y.done = 0 /\ y.half = FALSE /\ y.open_batch = FALSE /\ y.buf = e
  BY <1>1, <1>2 DEF WType
<1>4. y.fd = x.fd /\ y.seg_bytes = x.seg_bytes /\ y.next_seq = x.batch_seq0 /\ y.prev_end = x.prev_end
  BY <1>2 DEF WType
<1> QED BY <1>3, <1>4 DEF NoBatch, Filling, y, e

LEMMA AcceptIs ==
  ASSUME NEW x \in WType
  PROVE  LET y == Accept(x)
         IN  /\ NoBatch(y) /\ y.fd = x.fd /\ y.seg_bytes = x.seg_bytes + Len(x.buf)
             /\ y.next_seq = x.next_seq /\ y.prev_end = x.prev_end
<1> DEFINE y == Accept(x)
           n == x.seg_bytes + Len(x.buf)
           t == x.next_txn + 1
           e == <<>>
<1>1. n \in Nat /\ t \in Nat /\ e \in Seq(Recs)
  BY DEF WType
<1>2. y = [x EXCEPT !.seg_bytes = n, !.buf = e, !.open_batch = FALSE,
                    !.batch_samples = 0, !.next_txn = t, !.done = 0, !.half = FALSE]
  BY DEF Accept
<1> HIDE DEF n, t, e, y
<1>3. y \in WType /\ y.done = 0 /\ y.half = FALSE /\ y.open_batch = FALSE /\ y.buf = e
  BY <1>1, <1>2 DEF WType
<1>4. y.fd = x.fd /\ y.seg_bytes = n /\ y.next_seq = x.next_seq /\ y.prev_end = x.prev_end
  BY <1>2 DEF WType
<1> QED BY <1>3, <1>4 DEF NoBatch, Filling, n, e, y

\* close(fd)
LEMMA CloseIs ==
  ASSUME NEW x, NoBatch(x)
  PROVE  LET y == [x EXCEPT !.fd = 0]
         IN  NoBatch(y) /\ y.fd = 0 /\ y.next_seq = x.next_seq /\ y.prev_end = x.prev_end
BY DEF NoBatch, Filling, WType

LEMMA ScanKept ==
  ASSUME NEW x \in WType
  PROVE  SameScan(x, DropBatch(x)) /\ SameScan(x, Accept(x)) /\ SameScan(x, [x EXCEPT !.fd = 0])
BY DEF SameScan, DropBatch, Accept, WType

\* Without a batch and without a descriptor the log is ready: every commit will fail.
LEMMA ShutReady ==
  ASSUME NEW d, NEW x, NoBatch(x), x.fd = 0
  PROVE  Ready(d, x)
BY DEF Ready, Placed, OnCard, NoBatch

\* Without a batch, at the end of a segment that is whole.
LEMMA EndReady ==
  ASSUME NEW d, NEW x, NoBatch(x), x.fd = Len(d), x.seg_bytes = Len(d[Len(d)].recs),
         Whole(d[Len(d)].recs, Len(d[Len(d)].recs)), x.next_seq = d[Len(d)].first + x.seg_bytes
  PROVE  Ready(d, x)
<1>1. x.buf = <<>> /\ x.done = 0 /\ x.half = FALSE /\ x.open_batch = FALSE /\ x.seg_bytes \in Nat
  BY DEF NoBatch, Filling, WType
<1>2. Honest(d[Len(d)], x)
  BY <1>1 DEF Honest
<1>3. Placed(d, x)
  BY <1>1, <1>2 DEF Placed
<1>4. OnCard(d, x)
  <2>1. Len(x.buf) = 0 /\ d[x.fd] = d[Len(d)] /\ x.done + 0 = 0 /\ x.seg_bytes = x.seg_bytes + x.done + 0
    BY <1>1
  <2>2. Len(d[x.fd].recs) = x.seg_bytes + x.done + (IF x.half THEN 1 ELSE 0)
    BY <1>1, <2>1
  <2>3. 1 .. x.done = {} /\ x.done <= Len(x.buf)
    BY <1>1, <2>1
  <2> QED BY <1>1, <2>2, <2>3 DEF OnCard
<1> QED BY <1>3, <1>4 DEF Ready, NoBatch

---------------------------------------------------------------------------
(* A call of the log *)

\* A new segment would be named after the end of the log.
NextFree(d, x) ==
  /\ Len(d) = 0 => x.next_seq = 0 /\ x.prev_end # PrevClean
  /\ Len(d) > 0 => /\ Whole(d[Len(d)].recs, Len(d[Len(d)].recs))
                   /\ x.next_seq = d[Len(d)].first + Len(d[Len(d)].recs)

\* It has been made and is empty.
Fresh(d, x) ==
  /\ Len(d) > 0
  /\ d[Len(d)].recs = <<>> /\ x.next_seq = d[Len(d)].first
  /\ Len(d) = 1 => x.prev_end # PrevClean

\* What is true of the card and of wal_t in front of system call at, with result res.
WalOK(d, x, at, res) ==
  /\ DiskOK(d)
  /\ at = "idle" => Ready(d, x)
  /\ at \in {"write", "fsync", "undo"} => Sealed(d, x)
  /\ at = "fsync" => x.fd # 0 /\ x.done = Len(x.buf) /\ x.half = FALSE
  /\ at = "create" => NoBatch(x) /\ x.fd = 0 /\ NextFree(d, x)
  /\ at = "dirsync" => NoBatch(x) /\ x.fd = 0 /\ Fresh(d, x)
  /\ at \in {"cut", "cutsync"} => NoBatch(x) /\ x.fd # 0 /\ Placed(d, x) /\ x.prev_end # PrevClean
  /\ at = "cut" => x.seg_bytes = GoodLength(d[x.fd].recs)
  /\ at = "cutsync" => OnCard(d, x)
  /\ res # "none" => at = "idle" /\ x.open_batch = FALSE

WalInv == WalOK(disk, w, wpc, wret)

\* The call returns.
LEMMA ReturnOK ==
  ASSUME NEW d, NEW x, NEW res, DiskOK(d), Ready(d, x), x.open_batch = FALSE
  PROVE  WalOK(d, x, "idle", res)
BY DEF WalOK

\* The batch is complete, and the writes come next.
LEMMA SealOK ==
  ASSUME NEW d, NEW x, DiskOK(d), Ready(d, x), x.open_batch
  PROVE  WalOK(d, AppendRec(x, "COMMIT", 0, 0, x.next_txn), "write", "none")
<1> DEFINE y == AppendRec(x, "COMMIT", 0, 0, x.next_txn)
<1>1. Sealed(d, y)
  BY SealReady
<1> HIDE DEF y
<1>2. WalOK(d, y, "write", "none")
  BY <1>1 DEF WalOK
<1> QED BY <1>2 DEF y

\* A SHUTDOWN batch, complete.
LEMMA ShutdownOK ==
  ASSUME NEW d, NEW x, DiskOK(d), Ready(d, x)
  PROVE  LET z == WalAdd(x, "SHUTDOWN", 0, 0, 0)
         IN  WalOK(d, AppendRec(z, "COMMIT", 0, 0, z.next_txn), "write", "none")
<1> DEFINE z == WalAdd(x, "SHUTDOWN", 0, 0, 0)
<1>1. "SHUTDOWN" \in Kinds \ {"BEGIN", "COMMIT", "TORN"} /\ "SHUTDOWN" # "BOOT"
  BY DEF Kinds
<1>2. Ready(d, z) /\ z.open_batch = TRUE
  BY <1>1, WalAddReady
<1> HIDE DEF z
<1>3. WalOK(d, AppendRec(z, "COMMIT", 0, 0, z.next_txn), "write", "none")
  BY <1>2, SealOK
<1> QED BY <1>3 DEF z

\* The boot batch, complete.
LEMMA BootOK ==
  ASSUME NEW d, NEW x, DiskOK(d), Ready(d, x), x.open_batch = FALSE,
         x.prev_end = PrevClean /\ x.fd # 0 =>
           x.seg_bytes > 1 /\ d[x.fd].recs[x.seg_bytes - 1].kind = "SHUTDOWN"
  PROVE  LET z == WalAdd(x, "BOOT", 0, 0, x.prev_end)
         IN  WalOK(d, AppendRec(z, "COMMIT", 0, 0, z.next_txn), "write", "none")
<1> DEFINE z == WalAdd(x, "BOOT", 0, 0, x.prev_end)
<1>1. "BOOT" \in Kinds \ {"BEGIN", "COMMIT", "TORN"}
  BY DEF Kinds
<1>2. x.prev_end \in Nat
  BY DEF Ready, Filling, WType
<1>3. Ready(d, z) /\ z.open_batch = TRUE
  BY <1>1, <1>2, WalAddReady
<1> HIDE DEF z
<1>4. WalOK(d, AppendRec(z, "COMMIT", 0, 0, z.next_txn), "write", "none")
  BY <1>3, SealOK
<1> QED BY <1>4 DEF z

\* wal_commit is back, with nothing open, in wal_open, wal_close or the caller.
LEMMA CommittedOK ==
  ASSUME NEW x, NEW res, DiskOK(disk'), Ready(disk', x), x.open_batch = FALSE, Committed(x, res)
  PROVE  WalInv'
<1>1. CASE wop = "commit" \/ (wop = "open" /\ res = "ok")
  <2>1. Return(x, res)
    BY <1>1 DEF Committed
  <2> QED BY <2>1, ReturnOK DEF Return, WalInv
<1>2. CASE wop = "close" /\ res = "ok"
  <2>1. StartCommit("shut", WalAdd(x, "SHUTDOWN", 0, 0, 0))
    BY <1>2 DEF Committed
  <2> QED BY <2>1, ShutdownOK DEF StartCommit, WalInv
<1>3. CASE ~(wop = "commit" \/ (wop = "open" /\ res = "ok")) /\ ~(wop = "close" /\ res = "ok")
  <2>1. Return([x EXCEPT !.fd = 0], res)
    BY <1>3 DEF Committed
  <2>2. NoBatch([x EXCEPT !.fd = 0]) /\ [x EXCEPT !.fd = 0].fd = 0
    BY CloseIs DEF NoBatch, Ready
  <2> DEFINE y == [x EXCEPT !.fd = 0]
  <2> HIDE DEF y
  <2>3. Ready(disk', y) /\ y.open_batch = FALSE
    BY <2>2, ShutReady DEF NoBatch, y
  <2>4. WalOK(disk', y, "idle", res)
    BY <2>3, ReturnOK
  <2> QED BY <2>1, <2>4 DEF Return, WalInv, y
<1> QED BY <1>1, <1>2, <1>3

LEMMA CallCommitOK ==
  ASSUME NEW x, DiskOK(disk'), Ready(disk', x), CallCommit(x)
  PROVE  WalInv'
<1>1. x.open_batch \in BOOLEAN
  BY DEF Ready, Filling, WType
<1>2. CASE x.open_batch
  <2>1. StartCommit("commit", x)
    BY <1>2 DEF CallCommit
  <2> QED BY <1>2, <2>1, SealOK DEF StartCommit, WalInv
<1>3. CASE ~x.open_batch
  <2>1. Return(x, "ok") /\ x.open_batch = FALSE
    BY <1>1, <1>3 DEF CallCommit
  <2> QED BY <2>1, ReturnOK DEF Return, WalInv
<1> QED BY <1>2, <1>3

LEMMA CallCloseOK ==
  ASSUME NEW x, DiskOK(disk'), Ready(disk', x), CallClose(x)
  PROVE  WalInv'
<1>2. CASE x.open_batch
  <2>1. StartCommit("close", x)
    BY <1>2 DEF CallClose
  <2> QED BY <1>2, <2>1, SealOK DEF StartCommit, WalInv
<1>3. CASE ~x.open_batch
  <2>1. StartCommit("shut", WalAdd(x, "SHUTDOWN", 0, 0, 0))
    BY <1>3 DEF CallClose
  <2> QED BY <2>1, ShutdownOK DEF StartCommit, WalInv
<1> QED BY <1>2, <1>3

---------------------------------------------------------------------------
(* Files *)

\* The first m records are the same.
LEMMA SegPrefix ==
  ASSUME NEW a, NEW b, SegOK(a), b.first = a.first, NEW m \in Nat, m <= Len(a.recs), Len(a.recs) \in Nat,
         \A p \in 1 .. m : b.recs[p] = a.recs[p], Whole(b.recs, m)
  PROVE  InOrder(b, m) /\ Earned(b.recs, m)
<1>1. Whole(a.recs, m)
  <2>1. \A p \in 1 .. m : b.recs[p] = a.recs[p]
    OBVIOUS
  <2> QED BY <2>1, WholeSame
<1>2. InOrder(a, m) /\ Earned(a.recs, m)
  BY <1>1 DEF SegOK
<1>3. InOrder(b, m)
  BY <1>2 DEF InOrder
<1>4. ASSUME NEW p \in 1 .. m, b.recs[p].kind = "BOOT", b.recs[p].val = PrevClean
      PROVE  p > 3 /\ b.recs[p - 3].kind = "SHUTDOWN"
  <2>1. p > 3 /\ a.recs[p - 3].kind = "SHUTDOWN"
    BY <1>2, <1>4 DEF Earned
  <2>2. p - 3 \in 1 .. m
    BY <2>1
  <2> QED BY <2>1, <2>2
<1> QED BY <1>3, <1>4 DEF Earned

\* A file cut short, in the middle of a record or not.
LEMMA SegCut ==
  ASSUME NEW a \in Segs, NEW b \in Segs, SegOK(a), b.first = a.first, NEW n \in 0 .. Len(a.recs),
         \A p \in 1 .. n : b.recs[p] = a.recs[p],
         Len(b.recs) = n \/ (Len(b.recs) = n + 1 /\ b.recs[n + 1].kind = "TORN")
  PROVE  SegOK(b)
<1>1. Len(a.recs) \in Nat
  BY DEF Segs
<1> SUFFICES ASSUME NEW m \in 0 .. Len(b.recs), Whole(b.recs, m) PROVE InOrder(b, m) /\ Earned(b.recs, m)
  BY DEF SegOK
<1>2. m <= n
  <2> SUFFICES ASSUME m = n + 1, b.recs[n + 1].kind = "TORN" PROVE FALSE
    BY <1>1
  <2>1. m \in Nat /\ m > 0
    BY <1>1
  <2>2. b.recs[m].kind = "COMMIT"
    BY <2>1, WholeEnds
  <2> QED BY <2>2
<1>3. m \in Nat /\ m <= Len(a.recs) /\ \A p \in 1 .. m : b.recs[p] = a.recs[p]
  BY <1>1, <1>2
<1> QED BY <1>1, <1>3, SegPrefix

\* The batch of x, or part of it, behind the committed records.
LEMMA SegWritten ==
  ASSUME NEW a \in Segs, NEW b \in Segs, SegOK(a), b.first = a.first,
         NEW x, Filled(x), x.seg_bytes <= Len(a.recs), x.batch_seq0 = a.first + x.seg_bytes, Honest(a, x),
         \A p \in 1 .. x.seg_bytes : b.recs[p] = a.recs[p],
         NEW n, NEW h, Writing(b.recs, x.buf, x.seg_bytes, n, h)
  PROVE  SegOK(b)
<1> DEFINE k == x.seg_bytes
<1>1. k \in Nat /\ x.batch_seq0 \in Nat /\ x.buf \in Seq(Recs) /\ a.recs \in Seq(Recs) /\ b.recs \in Seq(Recs)
      /\ a.first \in Nat /\ Len(a.recs) \in Nat /\ Len(b.recs) \in Nat /\ Len(x.buf) \in Nat
  <2>1. a.recs \in Seq(Recs) /\ b.recs \in Seq(Recs) /\ a.first \in Nat
    BY DEF Segs
  <2>2. k \in Nat /\ x.batch_seq0 \in Nat /\ x.buf \in Seq(Recs)
    BY DEF Filled, WType
  <2> QED BY <2>1, <2>2
<1>2. Numbered(x)
  BY DEF Filled
<1> SUFFICES ASSUME NEW m \in 0 .. Len(b.recs), Whole(b.recs, m) PROVE InOrder(b, m) /\ Earned(b.recs, m)
  BY DEF SegOK
<1> HIDE DEF k
<1>3. Whole(b.recs, k)
  BY DEF Writing, k
<1>4. CASE m <= k
  <2>1. m \in Nat /\ m <= Len(a.recs) /\ \A p \in 1 .. m : b.recs[p] = a.recs[p]
    BY <1>1, <1>4 DEF k
  <2> QED BY <1>1, <2>1, SegPrefix
<1>5. CASE m > k
  <2>1. m = Len(b.recs) /\ n = Len(x.buf) /\ ~h
    BY <1>5, WholeWhenWritten DEF k
  <2>2. m = k + Len(x.buf) /\ \A p \in 1 .. m : p \in 1 .. k \/ (p - k \in 1 .. Len(x.buf) /\ k + (p - k) = p)
    <3>1. Len(b.recs) = k + n
      BY <1>1, <2>1 DEF Writing, k
    <3> QED BY <1>1, <2>1, <3>1
  <2>3. InOrder(b, k) /\ Earned(b.recs, k)
    <3>1. k <= Len(a.recs) /\ \A p \in 1 .. k : b.recs[p] = a.recs[p]
      BY DEF k
    <3> QED BY <1>1, <1>3, <3>1, SegPrefix
  <2>4. \A q \in 1 .. Len(x.buf) : b.recs[k + q] = x.buf[q]
    BY <2>1 DEF Writing, k
  <2>5. ASSUME NEW p \in 1 .. m PROVE b.recs[p].seq = b.first + p - 1
    <3>1. CASE p \in 1 .. k
      BY <2>3, <3>1 DEF InOrder
    <3>2. CASE p - k \in 1 .. Len(x.buf) /\ k + (p - k) = p
      <4>1. b.recs[p] = x.buf[p - k]
        BY <2>4, <3>2
      <4>2. x.buf[p - k].seq = x.batch_seq0 + (p - k) - 1
        BY <1>2, <3>2 DEF Numbered
      <4>3. x.batch_seq0 = b.first + k /\ b.first \in Nat
        BY <1>1 DEF k
      <4> QED BY <1>1, <4>1, <4>2, <4>3
    <3> QED BY <2>2, <3>1, <3>2
  <2>6. ASSUME NEW p \in 1 .. m, b.recs[p].kind = "BOOT", b.recs[p].val = PrevClean
        PROVE  p > 3 /\ b.recs[p - 3].kind = "SHUTDOWN"
    <3>1. CASE p \in 1 .. k
      BY <2>3, <2>6, <3>1 DEF Earned
    <3>2. CASE p - k \in 1 .. Len(x.buf) /\ k + (p - k) = p
      <4>1. b.recs[p] = x.buf[p - k]
        BY <2>4, <3>2
      <4>2. p - k = 2 /\ k > 1 /\ a.recs[k - 1].kind = "SHUTDOWN"
        BY <2>6, <3>2, <4>1 DEF Honest, k
      <4>3. p > 3 /\ p - 3 = k - 1 /\ k - 1 \in 1 .. k
        BY <1>1, <4>2
      <4>4. b.recs[k - 1] = a.recs[k - 1]
        BY <4>3 DEF k
      <4> QED BY <4>2, <4>3, <4>4
    <3> QED BY <2>2, <3>1, <3>2
  <2> QED BY <2>5, <2>6 DEF InOrder, Earned
<1> QED BY <1>1, <1>4, <1>5

\* The same files; what is synced may differ.
SameFiles(d, e) ==
  /\ e \in Seq(Segs) /\ Len(e) = Len(d)
  /\ \A i \in 1 .. Len(d) : e[i].first = d[i].first /\ e[i].recs = d[i].recs

LEMMA SameFilesOK ==
  ASSUME NEW d, NEW e, DiskOK(d), SameFiles(d, e)
  PROVE  DiskOK(e)
<1>1. d \in Seq(Segs) /\ Len(d) \in Nat
  BY DEF DiskOK
<1>2. CASE Len(d) = 0
  BY <1>2 DEF DiskOK, SameFiles
<1>3. CASE Len(d) # 0
  <2>1. Len(d) > 0 /\ Len(d) \in 1 .. Len(d)
    BY <1>1, <1>3
  <2>2. e[Len(d)].first = d[Len(d)].first /\ e[Len(d)].recs = d[Len(d)].recs /\ SegOK(d[Len(d)])
    BY <2>1 DEF SameFiles, DiskOK
  <2>3. SegOK(e[Len(d)])
    BY <2>2 DEF SegOK, InOrder
  <2>4. e \in Seq(Segs) /\ Len(e) = Len(d)
        /\ \A i \in 1 .. Len(d) - 1 : e[i].first = d[i].first /\ e[i].recs = d[i].recs
    BY <1>1 DEF SameFiles
  <2> QED BY <2>1, <2>2, <2>3, <2>4, DiskLast
<1> QED BY <1>2, <1>3

LEMMA SameFilesReady ==
  ASSUME NEW d, NEW e, d \in Seq(Segs), SameFiles(d, e), NEW x \in WType
  PROVE  (Placed(d, x) => Placed(e, x)) /\ (Placed(d, x) /\ OnCard(d, x) => OnCard(e, x))
<1>1. Len(d) \in Nat /\ x.fd \in Nat
  BY DEF WType
<1> SUFFICES ASSUME x.fd # 0, Placed(d, x) PROVE Placed(e, x) /\ (OnCard(d, x) => OnCard(e, x))
  BY DEF Placed, OnCard
<1>2. x.fd = Len(d) /\ x.fd \in 1 .. Len(d)
  BY <1>1 DEF Placed
<1>3. e[x.fd].first = d[x.fd].first /\ e[x.fd].recs = d[x.fd].recs /\ Len(e) = Len(d)
  BY <1>2 DEF SameFiles
<1>4. Placed(e, x)
  BY <1>2, <1>3 DEF Placed, Honest
<1>5. OnCard(d, x) => OnCard(e, x)
  BY <1>3 DEF OnCard
<1> QED BY <1>4, <1>5

\* The newest segment becomes g.
LEMMA NewestIs ==
  ASSUME NEW d, DiskOK(d), Len(d) > 0, NEW g \in Segs, g.first = d[Len(d)].first, SegOK(g)
  PROVE  LET e == [d EXCEPT ![Len(d)] = g] IN DiskOK(e) /\ Len(e) = Len(d) /\ e[Len(d)] = g
<1> DEFINE e == [d EXCEPT ![Len(d)] = g]
<1>1. d \in Seq(Segs) /\ Len(d) \in Nat /\ Len(d) \in 1 .. Len(d)
  BY DEF DiskOK
<1>2. e \in Seq(Segs) /\ Len(e) = Len(d) /\ e[Len(d)] = g /\ \A i \in 1 .. Len(d) - 1 : e[i] = d[i]
  BY <1>1
<1> HIDE DEF e
<1>3. DiskOK(e)
  BY <1>2, DiskLast
<1> QED BY Zenon, <1>2, <1>3 DEF e

\* One write(): a half record is overwritten, records n + 1 .. m of b follow, then perhaps half of the next.
NewFile(f, b, n, h, m, j) ==
  SubSeq(f, 1, Len(f) - (IF h THEN 1 ELSE 0)) \o SubSeq(b, n + 1, m) \o (IF j THEN <<Torn>> ELSE <<>>)

Wrote(f, g, b, k, n, m, j) ==
  /\ g \in Seq(Recs) /\ Len(g) = k + m + (IF j THEN 1 ELSE 0)
  /\ \A p \in 1 .. k + n : g[p] = f[p]
  /\ \A p \in n + 1 .. m : g[k + p] = b[p]
  /\ j => g[Len(g)].kind = "TORN"

LEMMA WriteFile ==
  ASSUME NEW f \in Seq(Recs), NEW b \in Seq(Recs), NEW k \in Nat, NEW n \in 0 .. Len(b), NEW h \in BOOLEAN,
         Len(f) = k + n + (IF h THEN 1 ELSE 0), NEW m \in n .. Len(b), NEW j \in BOOLEAN
  PROVE  Wrote(f, NewFile(f, b, n, h, m, j), b, k, n, m, j)
<1> DEFINE a == SubSeq(f, 1, k + n)
           c == SubSeq(b, n + 1, m)
           t == IF j THEN <<Torn>> ELSE <<>>
<1>1. Len(f) - (IF h THEN 1 ELSE 0) = k + n /\ k + n <= Len(f) /\ k + n \in Nat
  OBVIOUS
<1>2. a \in Seq(Recs) /\ Len(a) = k + n /\ \A p \in 1 .. k + n : a[p] = f[p]
  <2> DEFINE q == k + n
  <2>1. q \in Nat /\ q <= Len(f)
    BY <1>1
  <2> HIDE DEF q
  <2>2. SubSeq(f, 1, q) \in Seq(Recs) /\ Len(SubSeq(f, 1, q)) = q /\ \A p \in 1 .. q : SubSeq(f, 1, q)[p] = f[p]
    BY <2>1
  <2> QED BY <2>2 DEF q
<1>3. c \in Seq(Recs) /\ Len(c) = m - n /\ \A p \in 1 .. m - n : c[p] = b[n + p]
  <2>1. \A i \in n + 1 .. m : b[i] \in Recs
    OBVIOUS
  <2>2. c = [i \in 1 .. m - n |-> b[n + i]]
    OBVIOUS
  <2>3. m - n \in Nat /\ \A i \in 1 .. m - n : b[n + i] \in Recs
    BY <2>1
  <2> HIDE DEF c
  <2>4. c \in [1 .. m - n -> Recs]
    BY <2>2, <2>3
  <2> QED BY <2>2, <2>3, <2>4
<1>4. t \in Seq(Recs) /\ Len(t) = (IF j THEN 1 ELSE 0) /\ (j => t[1].kind = "TORN")
  <2>1. Torn \in Recs /\ Torn.kind = "TORN"
    BY DEF Torn, Rec, Recs, Kinds
  <2> QED BY <2>1
<1> HIDE DEF a, c, t
<1> DEFINE g == a \o c \o t
<1>5. g \in Seq(Recs) /\ Len(g) = k + m + (IF j THEN 1 ELSE 0) /\ Len(g) = k + m + Len(t) /\ (j => g[k + m + 1] = t[1])
  <2> DEFINE ac == a \o c
  <2>0. n \in Nat /\ m \in Nat /\ (k + n) + (m - n) = k + m /\ k + m \in Nat
    OBVIOUS
  <2>1. ac \in Seq(Recs) /\ Len(ac) = k + m
    <3>1. ac \in Seq(Recs) /\ Len(ac) = Len(a) + Len(c)
      BY <1>2, <1>3, ConcatProperties
    <3> QED BY <1>2, <1>3, <2>0, <3>1
  <2> HIDE DEF ac
  <2>2. ac \o t \in Seq(Recs) /\ Len(ac \o t) = k + m + Len(t) /\ \A i \in 1 .. Len(t) : (ac \o t)[k + m + i] = t[i]
    <3>0. t \in Seq(Recs) /\ Len(t) \in Nat
      <4>1. t \in Seq(Recs)
        BY <1>4
      <4> QED BY <4>1
    <3>1. ac \o t \in Seq(Recs) /\ Len(ac \o t) = Len(ac) + Len(t) /\ Len(t) \in Nat
      BY <2>1, <3>0, ConcatProperties
    <3>2. \A i \in 1 .. Len(t) : (ac \o t)[Len(ac) + i] = t[i]
      BY <1>4, <2>1
    <3> QED BY <2>0, <2>1, <3>1, <3>2
  <2>3. j => 1 \in 1 .. Len(t)
    BY <1>4
  <2>4. g = ac \o t
    BY DEF ac
  <2> QED BY <1>4, <2>2, <2>3, <2>4
<1>6. \A p \in 1 .. k + n : g[p] = f[p]
  BY <1>2, <1>3, <1>4
<1>7. ASSUME NEW p \in n + 1 .. m PROVE g[k + p] = b[p]
  <2>1. p - n \in 1 .. m - n /\ (k + n) + (p - n) = k + p /\ n + (p - n) = p
    OBVIOUS
  <2>2. g[k + p] = c[p - n]
    <3> DEFINE ac == a \o c
               i == p - n
    <3>1. i \in 1 .. Len(c) /\ Len(a) + i = k + p
      BY <1>2, <1>3, <2>1
    <3> HIDE DEF i
    <3>2. /\ ac \in Seq(Recs) /\ Len(ac) = Len(a) + Len(c) /\ Len(a) \in Nat /\ Len(c) \in Nat
          /\ ac[Len(a) + i] = c[i]
      <4>1. ac \in Seq(Recs) /\ Len(ac) = Len(a) + Len(c)
        BY <1>2, <1>3, ConcatProperties
      <4>2. Len(a) \in Nat /\ Len(c) \in Nat
        BY <1>2, <1>3
      <4>3. ac[Len(a) + i] = c[i]
        <5>1. ASSUME NEW S, NEW u \in Seq(S), NEW v \in Seq(S), NEW e \in 1 .. Len(v)
              PROVE  (u \o v)[Len(u) + e] = v[e]
          BY <5>1
        <5>2. a \in Seq(Recs) /\ c \in Seq(Recs)
          BY <1>2, <1>3
        <5> QED BY <3>1, <5>1, <5>2
      <4> QED BY <4>1, <4>2, <4>3
    <3> HIDE DEF ac
    <3>3. k + p \in 1 .. Len(ac)
      BY <3>1, <3>2
    <3>4. (ac \o t)[k + p] = ac[k + p]
      BY <1>4, <3>2, <3>3
    <3> QED BY <3>1, <3>2, <3>4 DEF ac, i
  <2> QED BY <1>3, <2>1, <2>2
<1>8. ASSUME j PROVE g[Len(g)].kind = "TORN"
  <2>1. g[Len(g)] = t[1]
    <3>1. Len(g) = k + m + 1
      BY <1>5, <1>8
    <3> QED BY <1>5, <1>8, <3>1
  <2> QED BY <1>4, <1>8, <2>1
<1>9. g = NewFile(f, b, n, h, m, j)
  BY <1>1 DEF a, c, t, NewFile
<1> HIDE DEF g
<1> QED BY <1>5, <1>6, <1>7, <1>8, <1>9 DEF Wrote

\* The state of a commit, taken apart.
LEMMA SealedIs ==
  ASSUME NEW d, DiskOK(d), NEW x, Sealed(d, x), x.fd # 0
  PROVE  LET a == d[Len(d)]
         IN  /\ x.fd = Len(d) /\ Len(d) > 0 /\ a \in Segs /\ SegOK(a)
             /\ x.seg_bytes <= Len(a.recs) /\ x.batch_seq0 = a.first + x.seg_bytes /\ Honest(a, x)
             /\ Writing(a.recs, x.buf, x.seg_bytes, x.done, x.half)
<1> DEFINE a == d[Len(d)]
<1>1. Filled(x) /\ Placed(d, x) /\ OnCard(d, x) /\ x \in WType /\ x.open_batch = TRUE
  BY DEF Sealed, Filled
<1>2. d \in Seq(Segs) /\ Len(d) \in Nat /\ x.fd \in Nat
  BY <1>1 DEF DiskOK, WType
<1>3. x.fd = Len(d) /\ Len(d) > 0 /\ Len(d) \in 1 .. Len(d)
  BY <1>1, <1>2 DEF Placed
<1>4. a \in Segs /\ SegOK(a)
  BY <1>2, <1>3 DEF DiskOK
<1>5. x.seg_bytes <= Len(a.recs) /\ Whole(a.recs, x.seg_bytes) /\ x.batch_seq0 = a.first + x.seg_bytes /\ Honest(a, x)
  BY <1>1, <1>3 DEF Placed
<1>6. /\ x.done <= Len(x.buf)
      /\ Len(a.recs) = x.seg_bytes + x.done + (IF x.half THEN 1 ELSE 0)
      /\ \A p \in 1 .. x.done : a.recs[x.seg_bytes + p] = x.buf[p]
      /\ x.half => x.done < Len(x.buf) /\ a.recs[Len(a.recs)].kind = "TORN"
  BY <1>1, <1>3 DEF OnCard
<1>7. x.buf \in Seq(Recs) /\ x.seg_bytes \in Nat /\ x.done \in Nat /\ x.half \in BOOLEAN
  BY <1>1 DEF WType
<1>8. a.recs \in Seq(Recs)
  BY <1>4 DEF Segs
<1>9. IsBatch(x.buf, 1, Len(x.buf))
  BY <1>1 DEF Filled
<1> HIDE DEF a
<1>10. Writing(a.recs, x.buf, x.seg_bytes, x.done, x.half)
  <2>1. x.done \in 0 .. Len(x.buf)
    BY <1>6, <1>7
  <2> QED BY <1>5, <1>6, <1>7, <1>8, <1>9, <2>1 DEF Writing
<1> QED BY <1>3, <1>4, <1>5, <1>10 DEF a

---------------------------------------------------------------------------
(* Every system call keeps the log in order *)

\* What wal_commit has written so far, when the file is the batch so far.
LEMMA WritingSealed ==
  ASSUME NEW d, NEW x, Filled(x), x.fd = Len(d), x.seg_bytes <= Len(d[Len(d)].recs),
         x.batch_seq0 = d[Len(d)].first + x.seg_bytes, Honest(d[Len(d)], x),
         Writing(d[Len(d)].recs, x.buf, x.seg_bytes, x.done, x.half)
  PROVE  Sealed(d, x)
<1>1. x.open_batch = TRUE
  BY DEF Filled
<1>2. Placed(d, x)
  BY <1>1 DEF Placed, Writing
<1>3. OnCard(d, x)
  BY DEF OnCard, Writing
<1> QED BY <1>2, <1>3 DEF Sealed

LEMMA WriteOK == ASSUME WalInv, Write PROVE WalInv'
<1> DEFINE a == disk[Len(disk)]
           k == w.seg_bytes
<1>1. DiskOK(disk) /\ Sealed(disk, w) /\ w.fd # 0 /\ wret' = wret
  BY DEF WalInv, WalOK, Write
<1>2. /\ w.fd = Len(disk) /\ Len(disk) > 0 /\ a \in Segs /\ SegOK(a)
      /\ k <= Len(a.recs) /\ w.batch_seq0 = a.first + k /\ Honest(a, w)
      /\ Writing(a.recs, w.buf, k, w.done, w.half)
  BY <1>1, SealedIs
<1>3. PICK m \in w.done .. Len(w.buf), j \in BOOLEAN :
        /\ j => m < Len(w.buf)
        /\ disk' = [disk EXCEPT ![w.fd].recs =
                      SubSeq(@, 1, Len(@) - (IF w.half THEN 1 ELSE 0))
                        \o SubSeq(w.buf, w.done + 1, m)
                        \o (IF j THEN <<Torn>> ELSE <<>>)]
        /\ w' = [w EXCEPT !.done = m, !.half = j]
        /\ wpc' = IF m = Len(w.buf) THEN "fsync" ELSE "write"
  BY Zenon DEF Write
<1> DEFINE g == NewFile(a.recs, w.buf, w.done, w.half, m, j)
           b == [a EXCEPT !.recs = g]
<1>4. /\ a.recs \in Seq(Recs) /\ w.buf \in Seq(Recs) /\ k \in Nat /\ w.done \in 0 .. Len(w.buf) /\ w.half \in BOOLEAN
      /\ Len(a.recs) = k + w.done + (IF w.half THEN 1 ELSE 0) /\ Whole(a.recs, k)
      /\ \A p \in 1 .. w.done : a.recs[k + p] = w.buf[p]
  BY <1>2 DEF Writing
<1>5. /\ g \in Seq(Recs) /\ Len(g) = k + m + (IF j THEN 1 ELSE 0)
      /\ \A p \in 1 .. k + w.done : g[p] = a.recs[p]
      /\ \A p \in w.done + 1 .. m : g[k + p] = w.buf[p]
      /\ j => g[Len(g)].kind = "TORN"
  <2>1. Wrote(a.recs, g, w.buf, k, w.done, m, j)
    BY <1>3, <1>4, WriteFile
  <2> QED BY <2>1 DEF Wrote
<1>6. disk' = [disk EXCEPT ![Len(disk)] = b]
  BY <1>2, <1>3 DEF NewFile
<1> HIDE DEF g
<1>7. b \in Segs /\ b.first = a.first /\ b.recs = g
  BY <1>2, <1>5 DEF Segs
<1>8. Writing(g, w.buf, k, m, j)
  <2>1. Whole(g, k)
    <3>1. \A p \in 1 .. k : p \in 1 .. k + w.done
      BY <1>4
    <3>2. \A p \in 1 .. k : a.recs[p] = g[p]
      BY <1>5, <3>1
    <3> DEFINE f == a.recs
    <3>3. k \in Nat /\ Whole(f, k) /\ \A p \in 1 .. k : f[p] = g[p]
      BY <1>4, <3>2
    <3> HIDE DEF f, k
    <3> QED BY <3>3, WholeSame
  <2>2. ASSUME NEW p \in 1 .. m PROVE g[k + p] = w.buf[p]
    <3>1. CASE p \in 1 .. w.done
      <4>1. k + p \in 1 .. k + w.done
        BY <1>4, <3>1
      <4> QED BY <1>4, <1>5, <3>1, <4>1
    <3>2. CASE p \in w.done + 1 .. m
      BY <1>5, <3>2
    <3> QED BY <1>4, <3>1, <3>2
  <2>3. IsBatch(w.buf, 1, Len(w.buf)) /\ m \in 0 .. Len(w.buf)
    BY <1>2, <1>4 DEF Writing
  <2> QED BY <1>3, <1>4, <1>5, <2>1, <2>2, <2>3 DEF Writing
<1> HIDE DEF b
<1>9. Filled(w) /\ w \in WType
  BY <1>1 DEF Sealed, Filled
<1>10. SegOK(b)
  <2>1. \A p \in 1 .. k : b.recs[p] = a.recs[p]
    BY <1>4, <1>5, <1>7
  <2> QED BY <1>2, <1>7, <1>8, <1>9, <2>1, SegWritten
<1>11. DiskOK(disk') /\ Len(disk') = Len(disk) /\ disk'[Len(disk)] = b
  BY <1>1, <1>2, <1>6, <1>7, <1>10, NewestIs
<1>12. /\ w' \in WType /\ w'.done = m /\ w'.half = j /\ w'.buf = w.buf /\ w'.seg_bytes = k /\ w'.fd = w.fd
       /\ w'.batch_seq0 = w.batch_seq0 /\ w'.next_seq = w.next_seq /\ w'.open_batch = w.open_batch
       /\ w'.next_txn = w.next_txn /\ w'.boot_id = w.boot_id
  <2>1. m \in Nat
    BY <1>4
  <2> QED BY <1>3, <1>9, <2>1 DEF WType
<1>13. Filled(w')
  BY <1>9, <1>12 DEF Filled, Numbered, Begun
<1>14. Honest(b, w')
  <2> SUFFICES ASSUME NEW p \in 1 .. Len(w.buf), w.buf[p].kind = "BOOT", w.buf[p].val = PrevClean
               PROVE  p = 2 /\ k > 1 /\ b.recs[k - 1].kind = "SHUTDOWN"
    BY <1>12 DEF Honest
  <2>1. p = 2 /\ k > 1 /\ a.recs[k - 1].kind = "SHUTDOWN"
    BY <1>2 DEF Honest
  <2>2. k - 1 \in 1 .. k + w.done
    BY <1>4, <2>1
  <2> QED BY <1>5, <1>7, <2>1, <2>2
<1>15. Sealed(disk', w')
  <2>1. k <= Len(b.recs)
    BY <1>4, <1>5, <1>7
  <2>2. Writing(b.recs, w'.buf, k, w'.done, w'.half)
    BY <1>7, <1>8, <1>12
  <2> QED BY <1>2, <1>7, <1>11, <1>12, <1>13, <1>14, <2>1, <2>2, WritingSealed
<1>16. wpc' = "fsync" => w'.fd # 0 /\ w'.done = Len(w'.buf) /\ w'.half = FALSE
  <2>1. wpc' = "fsync" => m = Len(w.buf)
    BY <1>3
  <2>2. m = Len(w.buf) => ~j
    BY <1>3, <1>4
  <2> QED BY <1>1, <1>12, <2>1, <2>2
<1>17. wpc' \in {"write", "fsync"} /\ wret' = "none"
  <2>1. wret = "none"
    BY DEF WalInv, WalOK, Write
  <2> QED BY <1>1, <1>3, <2>1
<1> QED BY <1>11, <1>15, <1>16, <1>17 DEF WalInv, WalOK

LEMMA FailsOK == ASSUME WalInv, WriteFails \/ FsyncFails PROVE WalInv'
<1>1. wpc \in {"write", "fsync"} /\ wpc' = "undo" /\ disk' = disk /\ w' = w /\ wret' = wret
  BY DEF WriteFails, FsyncFails
<1> QED BY <1>1 DEF WalInv, WalOK

LEMMA SyncIs ==
  ASSUME NEW d \in Seq(Segs), NEW i \in 1 .. Len(d)
  PROVE  SameFiles(d, [d EXCEPT ![i].synced = Len(d[i].recs)])
<1> DEFINE z == [d[i] EXCEPT !.synced = Len(d[i].recs)]
           e == [d EXCEPT ![i] = z]
<1>1. d[i] \in Segs
  OBVIOUS
<1>2. Len(d[i].recs) \in Nat
  BY <1>1 DEF Segs
<1>3. z \in Segs /\ z.first = d[i].first /\ z.recs = d[i].recs
  BY <1>1, <1>2 DEF Segs
<1> HIDE DEF z
<1>4. e \in Seq(Segs) /\ Len(e) = Len(d)
  BY <1>3
<1>5. \A p \in 1 .. Len(d) : e[p].first = d[p].first /\ e[p].recs = d[p].recs
  BY <1>3
<1>6. e = [d EXCEPT ![i].synced = Len(d[i].recs)]
  BY DEF z
<1> QED BY <1>4, <1>5, <1>6 DEF SameFiles

\* The batch is in the file: the segment is whole.
LEMMA WrittenEnds ==
  ASSUME NEW d, DiskOK(d), NEW x, Sealed(d, x), x.fd # 0, x.done = Len(x.buf), x.half = FALSE
  PROVE  LET a == d[Len(d)]
         IN  /\ x.fd = Len(d) /\ Len(d) > 0 /\ Len(a.recs) = x.seg_bytes + Len(x.buf)
             /\ Whole(a.recs, Len(a.recs)) /\ x.next_seq = a.first + Len(a.recs)
<1> DEFINE a == d[Len(d)]
<1>1. /\ x.fd = Len(d) /\ Len(d) > 0 /\ a \in Segs /\ SegOK(a)
      /\ x.seg_bytes <= Len(a.recs) /\ x.batch_seq0 = a.first + x.seg_bytes /\ Honest(a, x)
      /\ Writing(a.recs, x.buf, x.seg_bytes, x.done, x.half)
  BY SealedIs
<1>2. a.first \in Nat /\ x.next_seq = x.batch_seq0 + Len(x.buf)
  BY <1>1 DEF Segs, Sealed, Filled, Numbered
<1> HIDE DEF a
<1>3. /\ a.recs \in Seq(Recs) /\ x.buf \in Seq(Recs) /\ IsBatch(x.buf, 1, Len(x.buf)) /\ x.seg_bytes \in Nat
      /\ Len(a.recs) = x.seg_bytes + x.done + (IF x.half THEN 1 ELSE 0)
      /\ \A p \in 1 .. x.done : a.recs[x.seg_bytes + p] = x.buf[p]
      /\ Whole(a.recs, x.seg_bytes)
  BY <1>1 DEF Writing
<1>4. Len(a.recs) = x.seg_bytes + Len(x.buf)
  <2>1. Len(x.buf) \in Nat
    BY <1>3
  <2> QED BY <1>3, <2>1
<1>5. Whole(a.recs, Len(a.recs))
  BY <1>3, <1>4, WrittenIsWhole
<1>6. x.next_seq = a.first + Len(a.recs)
  <2>1. Len(x.buf) \in Nat
    BY <1>3
  <2> QED BY <1>1, <1>2, <1>3, <1>4, <2>1
<1> QED BY <1>1, <1>4, <1>5, <1>6 DEF a

LEMMA FsyncOK == ASSUME WalInv, Fsync PROVE WalInv'
<1> DEFINE a == disk[Len(disk)]
           x == Accept(w)
           y == [x EXCEPT !.fd = 0]
           b == disk'[Len(disk)]
<1>1. DiskOK(disk) /\ Sealed(disk, w) /\ w.fd # 0 /\ w.done = Len(w.buf) /\ w.half = FALSE /\ wret = "none"
  BY DEF WalInv, WalOK, Fsync
<1>2. /\ w.fd = Len(disk) /\ Len(disk) > 0 /\ Len(a.recs) = w.seg_bytes + Len(w.buf)
      /\ Whole(a.recs, Len(a.recs)) /\ w.next_seq = a.first + Len(a.recs)
  BY <1>1, WrittenEnds
<1>3. disk \in Seq(Segs) /\ Len(disk) \in 1 .. Len(disk)
  BY <1>1, <1>2 DEF DiskOK
<1>4. SameFiles(disk, disk')
  <2>1. disk' = [disk EXCEPT ![Len(disk)].synced = Len(disk[Len(disk)].recs)]
    BY <1>2 DEF Fsync
  <2> QED BY <1>3, <2>1, SyncIs
<1>5. DiskOK(disk') /\ Len(disk') = Len(disk) /\ b.first = a.first /\ b.recs = a.recs
  BY <1>1, <1>3, <1>4, SameFilesOK DEF SameFiles
<1>6. w \in WType
  BY <1>1 DEF Sealed, Filled
<1>7. NoBatch(x) /\ x.fd = w.fd /\ x.seg_bytes = w.seg_bytes + Len(w.buf) /\ x.next_seq = w.next_seq
  BY <1>6, AcceptIs
<1> HIDE DEF a, x, b
<1>8. CASE x.seg_bytes >= SegmentRecords
  <2>1. w' = y /\ wpc' = "create" /\ wret' = wret
    BY <1>8 DEF Fsync, x
  <2>2. NoBatch(y) /\ y.fd = 0 /\ y.next_seq = x.next_seq
    BY <1>7, CloseIs
  <2> HIDE DEF y
  <2>3. NextFree(disk', y)
    BY <1>2, <1>5, <1>7, <2>2 DEF NextFree, b
  <2> QED BY <1>1, <1>5, <2>1, <2>2, <2>3 DEF WalInv, WalOK
<1>9. CASE ~(x.seg_bytes >= SegmentRecords)
  <2>1. Committed(x, "ok")
    BY <1>9 DEF Fsync, x
  <2>2. Ready(disk', x)
    <3>1. x.fd = Len(disk') /\ x.seg_bytes = Len(b.recs) /\ Whole(b.recs, Len(b.recs)) /\ x.next_seq = b.first + x.seg_bytes
      BY <1>2, <1>5, <1>7
    <3> QED BY <1>5, <1>7, <3>1, EndReady DEF b
  <2> QED BY <1>5, <1>7, <2>1, <2>2, CommittedOK DEF NoBatch
<1> QED BY <1>8, <1>9

\* ftruncate of the newest segment to n records, which are whole.
CutTo(d, e, n) ==
  LET a == d[Len(d)]
      b == e[Len(d)]
  IN  /\ DiskOK(e) /\ Len(e) = Len(d) /\ b.first = a.first
      /\ Len(b.recs) = n /\ Whole(b.recs, n) /\ \A p \in 1 .. n : b.recs[p] = a.recs[p]

LEMMA TruncateIs ==
  ASSUME NEW d, DiskOK(d), Len(d) > 0, NEW n \in Nat, n <= Len(d[Len(d)].recs), Whole(d[Len(d)].recs, n)
  PROVE  CutTo(d, [d EXCEPT ![Len(d)] = Truncate(@, n)], n)
<1> DEFINE a == d[Len(d)]
           b == Truncate(a, n)
           f == SubSeq(a.recs, 1, n)
           s == IF a.synced > n THEN n ELSE a.synced
           e == [d EXCEPT ![Len(d)] = b]
<1>1. d \in Seq(Segs) /\ Len(d) \in 1 .. Len(d)
  BY DEF DiskOK
<1>2. a \in Segs /\ SegOK(a)
  BY <1>1 DEF DiskOK
<1>3. a.recs \in Seq(Recs) /\ a.synced \in Nat /\ s \in Nat
  BY <1>2 DEF Segs
<1>4. f \in Seq(Recs) /\ Len(f) = n /\ \A p \in 1 .. n : f[p] = a.recs[p]
  BY <1>3
<1> HIDE DEF f, s
<1>5. b = [a EXCEPT !.recs = f, !.synced = s]
  BY DEF Truncate, f, s
<1> HIDE DEF b
<1>6. b \in Segs /\ b.first = a.first /\ b.recs = f
  BY <1>2, <1>3, <1>4, <1>5 DEF Segs
<1>7. Whole(b.recs, n)
  <2>1. \A p \in 1 .. n : a.recs[p] = f[p]
    BY <1>4
  <2>2. Whole(f, n)
    BY <2>1, WholeSame
  <2> QED BY <1>6, <2>2
<1>8. SegOK(b)
  <2>1. n \in 0 .. Len(a.recs) /\ Len(b.recs) = n /\ \A p \in 1 .. n : b.recs[p] = a.recs[p]
    BY <1>3, <1>4, <1>6
  <2> QED BY <1>2, <1>6, <2>1, SegCut
<1>9. DiskOK(e) /\ Len(e) = Len(d) /\ e[Len(d)] = b
  BY <1>6, <1>8, NewestIs
<1>10. e = [d EXCEPT ![Len(d)] = Truncate(@, n)]
  BY DEF b
<1> HIDE DEF e
<1>11. CutTo(d, e, n)
  BY <1>4, <1>6, <1>7, <1>9 DEF CutTo
<1> QED BY <1>10, <1>11

LEMMA UndoOK == ASSUME WalInv, Undo PROVE WalInv'
<1> DEFINE a == disk[Len(disk)]
           x == DropBatch(w)
           b == disk'[Len(disk)]
<1>1. DiskOK(disk) /\ Sealed(disk, w) /\ w.fd # 0
  BY DEF WalInv, WalOK, Undo
<1>2. /\ w.fd = Len(disk) /\ Len(disk) > 0
      /\ w.seg_bytes <= Len(a.recs) /\ w.batch_seq0 = a.first + w.seg_bytes
      /\ w.seg_bytes \in Nat /\ Whole(a.recs, w.seg_bytes)
  BY <1>1, SealedIs DEF Writing
<1>3. CutTo(disk, disk', w.seg_bytes)
  <2>1. disk' = [disk EXCEPT ![Len(disk)] = Truncate(@, w.seg_bytes)]
    BY <1>2 DEF Undo
  <2> QED BY <1>1, <1>2, <2>1, TruncateIs
<1>4. /\ DiskOK(disk') /\ Len(disk') = Len(disk) /\ b.first = a.first
      /\ Len(b.recs) = w.seg_bytes /\ Whole(b.recs, w.seg_bytes)
  BY <1>3 DEF CutTo
<1>5. w \in WType
  BY <1>1 DEF Sealed, Filled
<1>6. NoBatch(x) /\ x.fd = w.fd /\ x.seg_bytes = w.seg_bytes /\ x.next_seq = w.batch_seq0
  BY <1>5, DropIs
<1> HIDE DEF a, x, b
<1>7. Ready(disk', x)
  <2>1. x.fd = Len(disk') /\ x.seg_bytes = Len(b.recs) /\ Whole(b.recs, Len(b.recs)) /\ x.next_seq = b.first + x.seg_bytes
    BY <1>2, <1>4, <1>6
  <2> QED BY <1>4, <1>6, <2>1, EndReady DEF b
<1>8. Committed(x, "fail")
  BY DEF Undo, x
<1> QED BY <1>4, <1>6, <1>7, <1>8, CommittedOK DEF NoBatch

LEMMA UndoFailsOK == ASSUME WalInv, UndoFails, "undo" \notin Accidents PROVE WalInv'
<1> DEFINE x == DropBatch(w)
<1>1. DiskOK(disk) /\ Sealed(disk, w) /\ w.fd = 0 /\ disk' = disk /\ Committed(x, "fail")
  BY DEF WalInv, WalOK, UndoFails, Befalls
<1>2. w \in WType
  BY <1>1 DEF Sealed, Filled
<1>3. NoBatch(x) /\ x.fd = 0
  BY <1>1, <1>2, DropIs
<1> HIDE DEF x
<1>4. Ready(disk', x)
  BY <1>3, ShutReady
<1> QED BY <1>1, <1>3, <1>4, CommittedOK DEF NoBatch

LEMMA CreateOK == ASSUME WalInv, Create PROVE WalInv'
<1> DEFINE e == Append(disk, Segment(w.next_seq))
<1>1. DiskOK(disk) /\ NoBatch(w) /\ w.fd = 0 /\ NextFree(disk, w) /\ wret = "none"
  BY DEF WalInv, WalOK, Create
<1>2. w.next_seq \in Nat /\ Len(disk) \in Nat
  BY <1>1 DEF NoBatch, Filling, WType, DiskOK
<1>3. /\ Len(disk) = 0 => w.next_seq = 0 /\ w.prev_end # PrevClean
      /\ Len(disk) > 0 => /\ Whole(disk[Len(disk)].recs, Len(disk[Len(disk)].recs))
                          /\ w.next_seq = disk[Len(disk)].first + Len(disk[Len(disk)].recs)
  BY <1>1 DEF NextFree
<1>4. /\ DiskOK(e) /\ Len(e) = Len(disk) + 1 /\ e[Len(disk) + 1] = Segment(w.next_seq)
      /\ Segment(w.next_seq).recs = <<>> /\ Segment(w.next_seq).first = w.next_seq
  BY <1>1, <1>2, <1>3, DiskAppend
<1> HIDE DEF e
<1>5. Fresh(e, w)
  BY <1>2, <1>3, <1>4 DEF Fresh
<1>6. disk' = e /\ w' = w /\ wpc' = "dirsync" /\ wret' = "none"
  BY <1>1 DEF Create, e
<1> QED BY <1>1, <1>4, <1>5, <1>6 DEF WalInv, WalOK

LEMMA NotMadeOK == ASSUME WalInv, CreateFails \/ DirSyncFails PROVE WalInv'
<1>1. DiskOK(disk) /\ NoBatch(w) /\ w.fd = 0 /\ disk' = disk /\ Committed(w, "fail")
  BY DEF WalInv, WalOK, CreateFails, DirSyncFails
<1>2. Ready(disk', w)
  BY <1>1, ShutReady
<1> QED BY <1>1, <1>2, CommittedOK DEF NoBatch

LEMMA DirSyncIs ==
  ASSUME NEW d \in Seq(Segs)
  PROVE  SameFiles(d, [i \in DOMAIN d |-> [d[i] EXCEPT !.entry = TRUE]])
<1> DEFINE e == [i \in 1 .. Len(d) |-> [d[i] EXCEPT !.entry = TRUE]]
<1>1. DOMAIN d = 1 .. Len(d) /\ Len(d) \in Nat
  OBVIOUS
<1>2. \A i \in 1 .. Len(d) : d[i] \in Segs
  OBVIOUS
<1>3. ASSUME NEW i \in 1 .. Len(d)
      PROVE  [d[i] EXCEPT !.entry = TRUE] \in Segs /\ [d[i] EXCEPT !.entry = TRUE].first = d[i].first
             /\ [d[i] EXCEPT !.entry = TRUE].recs = d[i].recs
  BY <1>2 DEF Segs
<1>4. e \in [1 .. Len(d) -> Segs] /\ \A i \in 1 .. Len(d) : e[i].first = d[i].first /\ e[i].recs = d[i].recs
  BY <1>3
<1>5. e = [i \in DOMAIN d |-> [d[i] EXCEPT !.entry = TRUE]]
  BY <1>1
<1> HIDE DEF e
<1>6. e \in Seq(Segs) /\ Len(e) = Len(d)
  BY <1>1, <1>4
<1> QED BY <1>4, <1>5, <1>6 DEF SameFiles

LEMMA DirSyncOK == ASSUME WalInv, DirSync PROVE WalInv'
<1> DEFINE x == [w EXCEPT !.fd = Len(disk), !.seg_bytes = 0]
           b == disk'[Len(disk)]
<1>1. DiskOK(disk) /\ NoBatch(w) /\ Fresh(disk, w) /\ w \in WType
  BY DEF WalInv, WalOK, DirSync, NoBatch, Filling
<1>2. disk \in Seq(Segs) /\ Len(disk) \in Nat
  BY <1>1 DEF DiskOK
<1>3. SameFiles(disk, disk')
  BY <1>2, DirSyncIs DEF DirSync
<1>4. /\ DiskOK(disk') /\ Len(disk') = Len(disk) /\ b.recs = <<>> /\ w.next_seq = b.first
      /\ (Len(disk) = 1 => w.prev_end # PrevClean)
  <2>1. Len(disk) \in 1 .. Len(disk) /\ disk[Len(disk)].recs = <<>> /\ w.next_seq = disk[Len(disk)].first
    BY <1>1, <1>2 DEF Fresh
  <2> QED BY <1>1, <1>3, <2>1, SameFilesOK DEF SameFiles, Fresh
<1>5. x \in WType /\ x.fd = Len(disk) /\ x.seg_bytes = 0 /\ x.next_seq = w.next_seq /\ x.prev_end = w.prev_end
      /\ x.open_batch = w.open_batch /\ x.buf = w.buf /\ x.done = w.done /\ x.half = w.half
  BY <1>1, <1>2 DEF WType
<1>6. CASE Len(disk) = 1
  <2>1. StartBoot(x)
    BY <1>6 DEF DirSync
  <2> HIDE DEF x
  <2>2. NoBatch(x)
    BY <1>1, <1>5 DEF NoBatch, Filling
  <2>3. x.seg_bytes = Len(b.recs) /\ Whole(b.recs, Len(b.recs)) /\ x.next_seq = b.first + x.seg_bytes
    <3>1. Len(b.recs) = 0 /\ b.first \in Nat
      BY <1>1, <1>4 DEF NoBatch, Filling, WType
    <3> QED BY <1>4, <1>5, <3>1 DEF Whole
  <2>4. Ready(disk', x) /\ x.open_batch = FALSE /\ x.prev_end # PrevClean
    BY <1>4, <1>5, <1>6, <2>2, <2>3, EndReady DEF NoBatch
  <2> DEFINE z == WalAdd(x, "BOOT", 0, 0, x.prev_end)
  <2>5. WalOK(disk', AppendRec(z, "COMMIT", 0, 0, z.next_txn), "write", "none")
    BY <1>4, <2>4, BootOK
  <2> QED BY <2>1, <2>5 DEF StartBoot, StartCommit, WalInv
<1>7. CASE Len(disk) # 1
  <2>1. Committed(x, "ok")
    BY <1>7 DEF DirSync
  <2> HIDE DEF x
  <2>2. NoBatch(x)
    BY <1>1, <1>5 DEF NoBatch, Filling
  <2>3. x.seg_bytes = Len(b.recs) /\ Whole(b.recs, Len(b.recs)) /\ x.next_seq = b.first + x.seg_bytes
    <3>1. Len(b.recs) = 0 /\ b.first \in Nat
      BY <1>1, <1>4 DEF NoBatch, Filling, WType
    <3> QED BY <1>4, <1>5, <3>1 DEF Whole
  <2>4. Ready(disk', x) /\ x.open_batch = FALSE
    BY <1>4, <1>5, <2>2, <2>3, EndReady DEF NoBatch
  <2> QED BY <1>4, <2>1, <2>4, CommittedOK
<1> QED BY <1>6, <1>7

LEMMA CutTailOK == ASSUME WalInv, CutTail PROVE WalInv'
<1> DEFINE a == disk[Len(disk)]
           b == disk'[Len(disk)]
<1>1. DiskOK(disk) /\ NoBatch(w) /\ w.fd # 0 /\ Placed(disk, w) /\ w.prev_end # PrevClean /\ wret = "none"
  BY DEF WalInv, WalOK, CutTail
<1>2. w.seg_bytes \in Nat /\ w.fd \in Nat /\ w.open_batch = FALSE
  BY <1>1 DEF NoBatch, Filling, WType
<1>3. /\ w.fd = Len(disk) /\ Len(disk) > 0 /\ w.seg_bytes <= Len(a.recs) /\ Whole(a.recs, w.seg_bytes)
      /\ w.next_seq = a.first + w.seg_bytes
  BY <1>1, <1>2 DEF Placed
<1>4. CutTo(disk, disk', w.seg_bytes)
  <2>1. disk' = [disk EXCEPT ![Len(disk)] = Truncate(@, w.seg_bytes)]
    BY <1>3 DEF CutTail
  <2> QED BY <1>1, <1>2, <1>3, <2>1, TruncateIs
<1>5. /\ DiskOK(disk') /\ Len(disk') = Len(disk) /\ b.first = a.first
      /\ Len(b.recs) = w.seg_bytes /\ Whole(b.recs, w.seg_bytes)
  BY <1>4 DEF CutTo
<1> HIDE DEF a, b
<1>6. Ready(disk', w)
  <2>1. w.fd = Len(disk') /\ w.seg_bytes = Len(b.recs) /\ Whole(b.recs, Len(b.recs)) /\ w.next_seq = b.first + w.seg_bytes
    BY <1>3, <1>5
  <2> QED BY <1>1, <1>5, <2>1, EndReady DEF b
<1>7. w' = w /\ wpc' = "cutsync" /\ wret' = wret
  BY DEF CutTail
<1> QED BY <1>1, <1>5, <1>6, <1>7 DEF WalInv, WalOK, Ready

LEMMA CutSyncOK == ASSUME WalInv, CutSync PROVE WalInv'
<1>1. /\ DiskOK(disk) /\ NoBatch(w) /\ w.fd # 0 /\ Placed(disk, w) /\ OnCard(disk, w) /\ w.prev_end # PrevClean
      /\ w \in WType
  BY DEF WalInv, WalOK, CutSync, NoBatch, Filling
<1>2. disk \in Seq(Segs) /\ w.fd \in 1 .. Len(disk)
  BY <1>1 DEF DiskOK, Placed, WType
<1>3. SameFiles(disk, disk')
  BY <1>2, SyncIs DEF CutSync
<1>4. DiskOK(disk') /\ Ready(disk', w) /\ w.open_batch = FALSE
  BY <1>1, <1>2, <1>3, SameFilesOK, SameFilesReady DEF Ready, NoBatch
<1> DEFINE z == WalAdd(w, "BOOT", 0, 0, w.prev_end)
<1>5. WalOK(disk', AppendRec(z, "COMMIT", 0, 0, z.next_txn), "write", "none")
  BY <1>1, <1>4, BootOK
<1>6. StartBoot(w)
  BY DEF CutSync
<1> QED BY <1>5, <1>6 DEF StartBoot, StartCommit, WalInv

LEMMA CutFailsOK == ASSUME WalInv, CutFails PROVE WalInv'
<1> DEFINE y == [w EXCEPT !.fd = 0]
<1>1. DiskOK(disk) /\ NoBatch(w) /\ disk' = disk /\ Return(y, "fail")
  BY DEF WalInv, WalOK, CutFails
<1>2. NoBatch(y) /\ y.fd = 0
  BY <1>1, CloseIs
<1> HIDE DEF y
<1>3. Ready(disk', y) /\ y.open_batch = FALSE
  BY <1>2, ShutReady DEF NoBatch
<1>4. WalOK(disk', y, "idle", "fail")
  BY <1>1, <1>3, ReturnOK
<1> QED BY <1>1, <1>4 DEF Return, WalInv

LEMMA WalStepOK == ASSUME WalInv, WalStep, "undo" \notin Accidents PROVE WalInv'
BY WriteOK, FailsOK, FsyncOK, UndoOK, UndoFailsOK, CreateOK, NotMadeOK, DirSyncOK, CutTailOK, CutSyncOK, CutFailsOK
   DEF WalStep

---------------------------------------------------------------------------
(* wal_open *)

LEMMA ClosedIs == NoBatch(Closed) /\ Closed.fd = 0
<1>1. PrevFirst \in Nat /\ NoGen \in [NS -> Nat] /\ NoSeq \in [NS -> Mark] /\ <<>> \in Seq(Recs)
  BY DEF PrevFirst, NoGen, NoSeq, Mark
<1> QED BY <1>1 DEF Closed, NoBatch, Filling, WType

\* What recover_segment makes of the newest segment a.
RecoversTo(a, x) ==
  LET k == GoodLength(a.recs)
  IN  /\ NoBatch(x) /\ x.fd = Len(disk) /\ x.seg_bytes = k /\ x.next_seq = a.first + k
      /\ x.prev_end = PrevClean => k = Len(a.recs) /\ k > 1 /\ a.recs[k - 1].kind = "SHUTDOWN"
      /\ k = Len(a.recs) /\ k > 1 /\ a.recs[k - 1].kind = "SHUTDOWN" => x.prev_end = PrevClean
      /\ x.ring_gen = Scan(a.recs).ring_gen /\ x.ring_seq = Scan(a.recs).ring_seq
      /\ x.boot_id = Scan(a.recs).last_boot_id + 1

LEMMA RecoveredIs ==
  ASSUME disk \in Seq(Segs), NEW a \in Segs, SegOK(a)
  PROVE  RecoversTo(a, Recovered(a))
<1> DEFINE f == a.recs
           s == Scan(f)
           k == GoodLength(f)
           x == Recovered(a)
           pe == IF s.ended_clean /\ s.committed_len = Len(f) THEN PrevClean ELSE PrevRecovered
           n == Len(disk)
           q == NextSeqAfter(s, a)
           t == s.last_txn + 1
           i == NextBootAfter(s)
<1>1. f \in Seq(Recs) /\ a.first \in Nat /\ Len(f) \in Nat
  <2>1. f \in Seq(Recs) /\ a.first \in Nat
    BY DEF Segs
  <2> QED BY <2>1
<1>2. s \in ScanType
  BY <1>1, ScanHasType
<1>3. k \in 0 .. Len(f) /\ Whole(f, k)
  BY <1>1, GoodLengthIs
<1>4. /\ s.committed_len = k /\ s.any_committed = (k > 0)
      /\ s.ended_clean = (k > 0 /\ f[k - 1].kind = "SHUTDOWN")
      /\ k > 0 => s.last_seq = f[k].seq
  <2>1. FindsPrefix(f)
    BY <1>1, EveryScanFindsPrefix
  <2> HIDE DEF f
  <2> QED BY <2>1 DEF FindsPrefix
<1>5. q = a.first + k
  <2> HIDE DEF s, k
  <2>1. CASE k = 0
    <3>1. ~s.any_committed
      <4>1. ~(k > 0)
        BY <2>1
      <4>2. s.any_committed = (k > 0)
        BY <1>4
      <4> QED BY <4>1, <4>2, Zenon
    <3>2. q = a.first
      BY <3>1 DEF NextSeqAfter
    <3> QED BY <1>1, <2>1, <3>2
  <2>2. CASE k # 0
    <3>1. k \in 1 .. k /\ k > 0 /\ k \in Nat
      BY <1>1, <1>3, <2>2
    <3>2. InOrder(a, k)
      BY <1>3 DEF SegOK
    <3>3. f[k].seq = a.first + k - 1
      BY <3>1, <3>2 DEF InOrder
    <3>4. q = f[k].seq + 1
      BY <1>4, <3>1 DEF NextSeqAfter
    <3> QED BY <1>1, <3>1, <3>3, <3>4
  <2> QED BY <2>1, <2>2
<1>6. pe = PrevClean => k = Len(f) /\ k > 1 /\ f[k - 1].kind = "SHUTDOWN"
  <2> SUFFICES ASSUME pe = PrevClean PROVE k = Len(f) /\ k > 1 /\ f[k - 1].kind = "SHUTDOWN"
    OBVIOUS
  <2>1. s.ended_clean /\ s.committed_len = Len(f)
    BY DEF PrevClean, PrevRecovered
  <2>2. k = Len(f) /\ k > 0 /\ f[k - 1].kind = "SHUTDOWN"
    BY <1>4, <2>1
  <2>3. k > 1
    BY <1>1, <1>3, <2>2, WholeEnds
  <2> QED BY <2>2, <2>3
<1>6a. k = Len(f) /\ k > 1 /\ f[k - 1].kind = "SHUTDOWN" => pe = PrevClean
  <2> SUFFICES ASSUME k = Len(f), k > 1, f[k - 1].kind = "SHUTDOWN" PROVE pe = PrevClean
    OBVIOUS
  <2>1. k > 0
    BY <1>1, <1>3
  <2>2. s.ended_clean
    BY <1>4, <2>1, Zenon
  <2>3. s.committed_len = Len(f)
    BY <1>4
  <2> QED BY <2>2, <2>3
<1>6b. i = s.last_boot_id + 1
  BY DEF NextBootAfter
<1>7. /\ pe \in Nat /\ n \in Nat /\ q \in Nat /\ t \in Nat /\ i \in Nat /\ s.committed_len \in Nat
      /\ s.ring_gen \in [NS -> Nat] /\ s.ring_seq \in [NS -> Mark]
  <2> HIDE DEF s, k, f
  <2>1. t \in Nat /\ i \in Nat /\ s.committed_len \in Nat /\ s.ring_gen \in [NS -> Nat] /\ s.ring_seq \in [NS -> Mark]
    BY <1>2 DEF ScanType, NextBootAfter
  <2>2. q \in Nat
    BY <1>1, <1>3, <1>5
  <2>3. pe \in Nat /\ n \in Nat
    BY DEF PrevClean, PrevRecovered
  <2> QED BY <2>1, <2>2, <2>3
<1>8. x = [Closed EXCEPT !.prev_end = pe, !.fd = n, !.seg_bytes = s.committed_len,
                         !.ring_gen = s.ring_gen, !.ring_seq = s.ring_seq,
                         !.next_seq = q, !.next_txn = t, !.boot_id = i]
  BY DEF Recovered
<1> HIDE DEF pe, n, q, t, i, s, k, f, x
<1>9. Closed \in WType /\ Closed.buf = <<>> /\ Closed.open_batch = FALSE /\ Closed.done = 0 /\ Closed.half = FALSE
  BY ClosedIs DEF NoBatch, Filling
<1>10. /\ x \in WType /\ x.buf = <<>> /\ x.open_batch = FALSE /\ x.done = 0 /\ x.half = FALSE
       /\ x.prev_end = pe /\ x.fd = n /\ x.seg_bytes = s.committed_len /\ x.next_seq = q
       /\ x.ring_gen = s.ring_gen /\ x.ring_seq = s.ring_seq /\ x.boot_id = i
  BY <1>7, <1>8, <1>9 DEF WType
<1>11. NoBatch(x)
  BY <1>10 DEF NoBatch, Filling
<1> QED BY <1>4, <1>5, <1>6, <1>6a, <1>6b, <1>10, <1>11 DEF RecoversTo, x, k, f, s, n

LEMMA CallOpenOK == ASSUME WalInv, CallOpen, UNCHANGED disk PROVE WalInv'
<1>1. DiskOK(disk) /\ disk \in Seq(Segs) /\ Len(disk) \in Nat
  BY DEF WalInv, WalOK, DiskOK
<1>2. CASE OpenFirst
  <2> DEFINE x == [Closed EXCEPT !.next_seq = 0, !.next_txn = 1, !.boot_id = 1]
  <2>1. Closed \in WType /\ Closed.buf = <<>> /\ Closed.open_batch = FALSE /\ Closed.done = 0 /\ Closed.half = FALSE
        /\ Closed.fd = 0 /\ Closed.prev_end # PrevClean
    BY ClosedIs DEF NoBatch, Filling, Closed, PrevFirst, PrevClean
  <2>2. x \in WType /\ x.buf = <<>> /\ x.open_batch = FALSE /\ x.done = 0 /\ x.half = FALSE
        /\ x.fd = 0 /\ x.next_seq = 0 /\ x.prev_end # PrevClean
    BY <2>1 DEF WType
  <2>3. w' = x /\ wpc' = "create" /\ wret' = "none" /\ Len(disk) = 0
    BY <1>2 DEF OpenFirst
  <2> HIDE DEF x
  <2>4. NoBatch(x) /\ NextFree(disk, x)
    BY <2>2, <2>3 DEF NoBatch, Filling, NextFree
  <2> QED BY <1>1, <2>2, <2>3, <2>4 DEF WalInv, WalOK
<1>3. CASE OpenRecover
  <2> DEFINE a == disk[Len(disk)]
             x == Recovered(a)
             k == GoodLength(a.recs)
  <2>1. Len(disk) > 0 /\ Len(disk) \in 1 .. Len(disk) /\ Last(disk) = a
    BY <1>1, <1>3 DEF OpenRecover, Last
  <2>2. a \in Segs /\ SegOK(a)
    BY <1>1, <2>1 DEF DiskOK
  <2>3. /\ NoBatch(x) /\ x.fd = Len(disk) /\ x.seg_bytes = k /\ x.next_seq = a.first + k
        /\ x.prev_end = PrevClean => k = Len(a.recs) /\ k > 1 /\ a.recs[k - 1].kind = "SHUTDOWN"
    BY <1>1, <2>2, RecoveredIs DEF RecoversTo
  <2>4. k \in 0 .. Len(a.recs) /\ Whole(a.recs, k)
    BY <2>2, GoodLengthIs DEF Segs
  <2>5. Len(a.recs) \in Nat
    BY <2>2 DEF Segs
  <2>6. IF x.seg_bytes < Len(a.recs)
        THEN w' = x /\ wop' = "open" /\ wpc' = "cut" /\ wret' = "none"
        ELSE StartBoot(x)
    BY <1>3, <2>1 DEF OpenRecover
  <2> HIDE DEF x, k
  <2>7. CASE k < Len(a.recs)
    <3>1. w' = x /\ wpc' = "cut" /\ wret' = "none"
      BY <2>3, <2>6, <2>7
    <3>2. x.prev_end # PrevClean /\ x.fd # 0
      BY <2>1, <2>3, <2>4, <2>5, <2>7
    <3>3. Placed(disk, x)
      <4>1. x.buf = <<>> /\ x.open_batch = FALSE
        BY <2>3 DEF NoBatch, Filling
      <4>2. Honest(a, x)
        BY <4>1 DEF Honest
      <4> QED BY <2>1, <2>3, <2>4, <2>5, <4>1, <4>2 DEF Placed
    <3>4. x.seg_bytes = GoodLength(disk[x.fd].recs)
      BY <2>3 DEF k
    <3> QED BY <1>1, <2>3, <3>1, <3>2, <3>3, <3>4 DEF WalInv, WalOK
  <2>8. CASE k = Len(a.recs)
    <3>1. StartBoot(x)
      BY <2>3, <2>5, <2>6, <2>8
    <3>2. Ready(disk, x)
      BY <2>3, <2>4, <2>8, EndReady
    <3>3. x.open_batch = FALSE
      BY <2>3 DEF NoBatch
    <3>4. x.prev_end = PrevClean /\ x.fd # 0 =>
            x.seg_bytes > 1 /\ disk[x.fd].recs[x.seg_bytes - 1].kind = "SHUTDOWN"
      BY <2>3
    <3> DEFINE z == WalAdd(x, "BOOT", 0, 0, x.prev_end)
    <3>5. WalOK(disk, AppendRec(z, "COMMIT", 0, 0, z.next_txn), "write", "none")
      BY <1>1, <3>2, <3>3, <3>4, BootOK
    <3> QED BY <3>1, <3>5 DEF StartBoot, StartCommit, WalInv
  <2> QED BY <2>4, <2>5, <2>7, <2>8
<1> QED BY <1>2, <1>3 DEF CallOpen

\* A process that starts, or has gone.
LEMMA ClosedOK == ASSUME NEW d, DiskOK(d) PROVE WalOK(d, Closed, "idle", "none")
BY ClosedIs, ShutReady, ReturnOK DEF NoBatch

---------------------------------------------------------------------------
(* A power cut *)

LEMMA SurvivingIs ==
  ASSUME NEW d, NEW m \in Nat
  PROVE  Surviving(d, 1 .. m) = [i \in 1 .. m |-> d[i]]
<1>1. Cardinality(1 .. m) = m
  BY FS_Interval
<1>2. ASSUME NEW p \in 1 .. m PROVE Cardinality({q \in 1 .. m : q <= p}) = p
  <2>1. {q \in 1 .. m : q <= p} = 1 .. p
    OBVIOUS
  <2>2. Cardinality(1 .. p) = p
    BY FS_Interval
  <2> QED BY <2>1, <2>2
<1> DEFINE at(i) == CHOOSE p \in 1 .. m : Cardinality({q \in 1 .. m : q <= p}) = i
<1>3. ASSUME NEW i \in 1 .. m PROVE at(i) = i
  BY <1>2
<1>4. Surviving(d, 1 .. m) = [i \in 1 .. Cardinality(1 .. m) |-> d[at(i)]]
  BY DEF Surviving
<1> HIDE DEF at
<1>5. [i \in 1 .. m |-> d[at(i)]] = [i \in 1 .. m |-> d[i]]
  BY <1>3
<1> QED BY <1>1, <1>4, <1>5

\* Segment b has all that is synced in a.
KeepsSynced(a, b) == a.synced <= Len(b.recs) /\ \A p \in 1 .. a.synced : b.recs[p] = a.recs[p]

\* What is left of the newest segment.
LEMMA AfterCutIs ==
  ASSUME NEW a \in Segs, SegOK(a), NEW b \in AfterCut(a)
  PROVE  b \in Segs /\ b.first = a.first /\ b.entry = TRUE /\ SegOK(b) /\ KeepsSynced(a, b)
<1>1. a.recs \in Seq(Recs) /\ a.synced \in Nat
  BY DEF Segs
<1>2. Len(a.recs) \in Nat /\ Torn \in Recs /\ Torn.kind = "TORN"
  BY <1>1 DEF Torn, Rec, Recs, Kinds
<1>3. PICK f \in {SubSeq(a.recs, 1, n) : n \in a.synced .. Len(a.recs)}
             \cup {Append(SubSeq(a.recs, 1, n), Torn) : n \in a.synced .. Len(a.recs) - 1} :
        b = [a EXCEPT !.recs = f, !.synced = Len(f), !.entry = TRUE]
  BY Zenon DEF AfterCut
<1>4. PICK n \in 0 .. Len(a.recs) :
        a.synced <= n /\ (f = SubSeq(a.recs, 1, n) \/ f = Append(SubSeq(a.recs, 1, n), Torn))
  <2>1. CASE f \in {SubSeq(a.recs, 1, n) : n \in a.synced .. Len(a.recs)}
    <3>1. PICK n \in a.synced .. Len(a.recs) : f = SubSeq(a.recs, 1, n)
      BY <2>1
    <3>2. n \in 0 .. Len(a.recs) /\ a.synced <= n
      BY <1>1, <1>2
    <3> QED BY <3>1, <3>2
  <2>2. CASE f \in {Append(SubSeq(a.recs, 1, n), Torn) : n \in a.synced .. Len(a.recs) - 1}
    <3>1. PICK n \in a.synced .. Len(a.recs) - 1 : f = Append(SubSeq(a.recs, 1, n), Torn)
      BY <2>2
    <3>2. n \in 0 .. Len(a.recs) /\ a.synced <= n
      BY <1>1, <1>2
    <3> QED BY <3>1, <3>2
  <2> QED BY <1>3, <2>1, <2>2
<1> DEFINE g == SubSeq(a.recs, 1, n)
<1>5. g \in Seq(Recs) /\ Len(g) = n /\ \A p \in 1 .. n : g[p] = a.recs[p]
  BY <1>1
<1> HIDE DEF g
<1>6. /\ f \in Seq(Recs) /\ \A p \in 1 .. n : f[p] = a.recs[p]
      /\ Len(f) = n \/ (Len(f) = n + 1 /\ f[n + 1].kind = "TORN")
  <2>1. CASE f = g
    BY <1>5, <2>1
  <2>2. CASE f = Append(g, Torn)
    BY <1>2, <1>5, <2>2
  <2> QED BY <1>4, <2>1, <2>2 DEF g
<1>7. Len(f) \in Nat
  BY <1>6
<1>8. b \in Segs /\ b.first = a.first /\ b.entry = TRUE /\ b.recs = f
  BY <1>3, <1>6, <1>7 DEF Segs
<1>9. SegOK(b)
  BY <1>6, <1>8, SegCut
<1>10. KeepsSynced(a, b)
  <2>1. a.synced <= Len(f) /\ \A p \in 1 .. a.synced : p \in 1 .. n
    BY <1>1, <1>4, <1>6, <1>7
  <2> QED BY <1>6, <1>8, <2>1 DEF KeepsSynced
<1> QED BY <1>8, <1>9, <1>10

\* Every directory entry is durable, but the one that is being made so.
EntryOK == \A i \in 1 .. Len(disk) : disk[i].entry = TRUE \/ (i = Len(disk) /\ wpc = "dirsync")

LEMMA PowerCutOK ==
  ASSUME DiskOK(disk), EntryOK, WalPowerCut
  PROVE  /\ DiskOK(disk') /\ \A i \in 1 .. Len(disk') : disk'[i].entry = TRUE
         /\ \A i \in 1 .. Len(disk) : disk[i].entry = TRUE /\ disk[i].synced <= Len(disk[i].recs)
                                        => i \in 1 .. Len(disk') /\ KeepsSynced(disk[i], disk'[i])
<1>1. disk \in Seq(Segs) /\ Len(disk) \in Nat /\ DOMAIN disk = 1 .. Len(disk)
  BY DEF DiskOK
<1>2. CASE disk = <<>> /\ disk' = disk
  BY <1>2
<1>3. CASE disk # <<>> /\ ~(disk = <<>> /\ disk' = disk)
  <2> DEFINE N == Len(disk)
  <2>1. N > 0 /\ N \in 1 .. N /\ Last(disk) = disk[N]
    BY <1>1, <1>3 DEF Last
  <2>2. PICK gone \in SUBSET {i \in DOMAIN disk : ~disk[i].entry}, b \in AfterCut(disk[N]) :
          disk' = Surviving([i \in DOMAIN disk |->
                               IF i = Len(disk) THEN b ELSE [disk[i] EXCEPT !.entry = TRUE]],
                            DOMAIN disk \ gone)
    BY <1>3, <2>1 DEF WalPowerCut
  <2> DEFINE e == [i \in 1 .. N |-> IF i = N THEN b ELSE [disk[i] EXCEPT !.entry = TRUE]]
  <2>3. b \in Segs /\ b.first = disk[N].first /\ b.entry = TRUE /\ SegOK(b) /\ KeepsSynced(disk[N], b)
    <3>1. disk[N] \in Segs /\ SegOK(disk[N])
      BY <1>1, <2>1 DEF DiskOK
    <3> QED BY <3>1, AfterCutIs
  <2>4. ASSUME NEW i \in 1 .. N
        PROVE  [disk[i] EXCEPT !.entry = TRUE] \in Segs /\ [disk[i] EXCEPT !.entry = TRUE].entry = TRUE
               /\ [disk[i] EXCEPT !.entry = TRUE].recs = disk[i].recs
               /\ [disk[i] EXCEPT !.entry = TRUE].first = disk[i].first
    <3>1. disk[i] \in Segs
      BY <1>1
    <3> QED BY <3>1 DEF Segs
  <2>5. e \in [1 .. N -> Segs] /\ e[N] = b /\ \A i \in 1 .. N : e[i].entry = TRUE
    BY <2>1, <2>3, <2>4
  <2>6. \A i \in 1 .. N - 1 : e[i].first = disk[i].first /\ e[i].recs = disk[i].recs
    <3>1. ASSUME NEW n \in Nat, NEW i \in 1 .. n - 1 PROVE i \in 1 .. n /\ i # n
      OBVIOUS
    <3>2. \A i \in 1 .. N - 1 : i \in 1 .. N /\ i # N
      BY Zenon, <1>1, <3>1
    <3> QED BY <2>4, <3>2
  <2>7. disk' = Surviving(e, (1 .. N) \ gone)
    BY <1>1, <2>2
  <2> HIDE DEF e
  <2>13. \A i \in 1 .. N : disk[i].synced <= Len(disk[i].recs) => KeepsSynced(disk[i], e[i])
    <3> TAKE i \in 1 .. N
    <3>1. CASE i = N
      BY <2>3, <2>5, <3>1
    <3>2. CASE i # N
      <4>1. ASSUME NEW n \in Nat, NEW j \in 1 .. n, j # n PROVE j \in 1 .. n - 1
        BY <4>1
      <4>2. i \in 1 .. N - 1
        BY Zenon, <1>1, <3>2, <4>1
      <4> QED BY <2>6, <4>2 DEF KeepsSynced
    <3> QED BY <3>1, <3>2
  <2>8. e \in Seq(Segs) /\ Len(e) = N
    BY <1>1, <2>5
  <2>9. DiskOK(e)
    BY <2>1, <2>3, <2>5, <2>6, <2>8, DiskLast
  <2>10. gone \subseteq {N}
    BY Zenon, <1>1 DEF EntryOK
  <2>11. CASE gone = {}
    <3>1. (1 .. N) \ gone = 1 .. N
      BY <2>11
    <3>2. disk' = [i \in 1 .. N |-> e[i]]
      BY <1>1, <2>7, <3>1, SurvivingIs
    <3>3. disk' = e
      BY <2>5, <3>2
    <3> QED BY <2>5, <2>8, <2>9, <2>13, <3>3
  <2>12. CASE gone = {N}
    <3> DEFINE M == N - 1
    <3>1. (1 .. N) \ gone = 1 .. M /\ M \in Nat /\ M <= N
      BY <1>1, <2>1, <2>12
    <3> HIDE DEF M
    <3>2. disk' = [i \in 1 .. M |-> e[i]]
      BY <2>7, <3>1, SurvivingIs
    <3>3. SubSeq(e, 1, M) = [i \in 1 .. M |-> e[i]]
      BY <2>8, <3>1
    <3>4. DiskOK(SubSeq(e, 1, M))
      BY <2>1, <2>8, <2>9, DiskFront DEF M
    <3>5. Len(SubSeq(e, 1, M)) = M
      BY <2>8, <3>1
    <3>6. DiskOK(disk') /\ Len(disk') = M /\ \A i \in 1 .. M : disk'[i] = e[i]
      BY <3>2, <3>3, <3>4, <3>5
    <3>7. \A i \in 1 .. M : i \in 1 .. N
      BY <1>1, <3>1
    <3>8. disk[N].entry # TRUE
      BY <2>12
    <3>9. \A i \in 1 .. N : i # N => i \in 1 .. M
      <4>1. ASSUME NEW n \in Nat, NEW j \in 1 .. n, j # n PROVE j \in 1 .. n - 1
        BY <4>1
      <4> QED BY Zenon, <1>1, <4>1 DEF M
    <3> QED BY <2>5, <2>13, <3>6, <3>7, <3>8, <3>9
  <2> QED BY <2>10, <2>11, <2>12
<1> QED BY <1>2, <1>3 DEF WalPowerCut

---------------------------------------------------------------------------
(* The log as one sequence *)

\* The sequences g[1] .. g[n], one after the other.
JoinTurn(g, F, i) == IF i = 0 THEN <<>> ELSE F[i - 1] \o g[i]

IsJoin(g, n, F) == F = [i \in 0 .. n |-> JoinTurn(g, F, i)]

LEMMA JoinExists == ASSUME NEW g, NEW n \in Nat PROVE \E F : IsJoin(g, n, F)
<1> DEFINE S == {m \in Nat : \E F : IsJoin(g, m, F)}
<1>1. 0 \in S
  <2> DEFINE F == [i \in 0 .. 0 |-> <<>>]
  <2>1. IsJoin(g, 0, F)
    BY DEF IsJoin, JoinTurn
  <2> QED BY <2>1
<1>2. ASSUME NEW m \in Nat, m \in S PROVE m + 1 \in S
  <2>1. PICK F : IsJoin(g, m, F)
    BY <1>2
  <2> DEFINE G == [i \in 0 .. (m + 1) |-> IF i <= m THEN F[i] ELSE F[m] \o g[i]]
  <2>2. ASSUME NEW i \in 0 .. (m + 1) PROVE G[i] = JoinTurn(g, G, i)
    <3>1. CASE i = 0
      BY <2>1, <3>1 DEF IsJoin, JoinTurn
    <3>2. CASE i \in 1 .. m
      <4>1. G[i] = F[i] /\ G[i - 1] = F[i - 1]
        BY <3>2
      <4>2. F[i] = JoinTurn(g, F, i)
        BY <2>1, <3>2 DEF IsJoin
      <4> QED BY <3>2, <4>1, <4>2 DEF JoinTurn
    <3>3. CASE i = m + 1
      <4>1. G[i] = F[m] \o g[i] /\ G[m] = F[m] /\ i - 1 = m /\ i # 0
        BY <3>3
      <4> HIDE DEF G
      <4>2. G[i - 1] = F[m]
        BY <4>1
      <4>3. JoinTurn(g, G, i) = G[i - 1] \o g[i]
        BY <4>1 DEF JoinTurn
      <4> QED BY <4>1, <4>2, <4>3
    <3>4. i = 0 \/ i \in 1 .. m \/ i = m + 1
      OBVIOUS
    <3> HIDE DEF G
    <3> QED BY <3>1, <3>2, <3>3, <3>4
  <2>3. G = [i \in 0 .. (m + 1) |-> JoinTurn(g, G, i)]
    <3>1. G = [i \in 0 .. (m + 1) |-> G[i]]
      OBVIOUS
    <3> HIDE DEF G
    <3> QED BY <2>2, <3>1
  <2> HIDE DEF G
  <2> QED BY <2>3 DEF IsJoin
<1>3. \A m \in Nat : m \in S
  <2> HIDE DEF S
  <2> QED BY <1>1, <1>2, SetInduction
<1> QED BY <1>3

LEMMA JoinIs ==
  ASSUME NEW g, NEW n \in Nat, NEW F, IsJoin(g, n, F)
  PROVE  F[0] = <<>> /\ \A i \in 1 .. n : F[i] = F[i - 1] \o g[i]
<1>1. \A i \in 0 .. n : F[i] = JoinTurn(g, F, i)
  BY DEF IsJoin
<1>2. F[0] = <<>>
  BY <1>1 DEF JoinTurn
<1>3. ASSUME NEW i \in 1 .. n PROVE F[i] = F[i - 1] \o g[i]
  <2>1. i \in 0 .. n /\ i # 0
    OBVIOUS
  <2>2. JoinTurn(g, F, i) = F[i - 1] \o g[i]
    BY <2>1 DEF JoinTurn
  <2> QED BY <1>1, <2>1, <2>2
<1> QED BY <1>2, <1>3

\* What recovery keeps of each segment.
KeptOf(d) == [i \in 1 .. Len(d) |-> Kept(d[i].recs)]

LEMMA LogIs ==
  ASSUME disk \in Seq(Segs)
  PROVE  \E F : IsJoin(KeptOf(disk), Len(disk), F) /\ Log = F[Len(disk)]
<1> DEFINE n == Len(disk)
           P(F) == F = [i \in 0 .. n |-> IF i = 0 THEN <<>> ELSE F[i - 1] \o Kept(disk[i].recs)]
<1>1. n \in Nat
  OBVIOUS
<1>2. ASSUME NEW F PROVE P(F) <=> IsJoin(KeptOf(disk), n, F)
  <2>1. \A i \in 0 .. n : (IF i = 0 THEN <<>> ELSE F[i - 1] \o Kept(disk[i].recs)) = JoinTurn(KeptOf(disk), F, i)
    BY <1>1 DEF JoinTurn, KeptOf
  <2>2. [i \in 0 .. n |-> IF i = 0 THEN <<>> ELSE F[i - 1] \o Kept(disk[i].recs)]
        = [i \in 0 .. n |-> JoinTurn(KeptOf(disk), F, i)]
    BY <2>1
  <2> QED BY <2>2 DEF IsJoin
<1>3. Log = (CHOOSE F : P(F))[n]
  BY DEF Log, Joined
<1>4. \E F : P(F)
  <2>1. PICK F : IsJoin(KeptOf(disk), n, F)
    BY <1>1, JoinExists
  <2> QED BY <1>2, <2>1
<1> DEFINE G == CHOOSE F : P(F)
<1> HIDE DEF P
<1>5. P(G)
  BY <1>4
<1> HIDE DEF G
<1> QED BY <1>2, <1>3, <1>5 DEF G

LEMMA KeptIs ==
  ASSUME NEW f \in Seq(Recs)
  PROVE  LET k == GoodLength(f)
         IN  /\ Kept(f) \in Seq(Recs) /\ Len(Kept(f)) = k /\ k \in 0 .. Len(f) /\ Whole(f, k)
             /\ \A p \in 1 .. k : Kept(f)[p] = f[p]
<1> DEFINE k == GoodLength(f)
<1>1. k \in 0 .. Len(f) /\ Whole(f, k)
  BY GoodLengthIs
<1>2. FindsPrefix(f)
  BY EveryScanFindsPrefix
<1>3. Scan(f).committed_len = k
  BY <1>2 DEF FindsPrefix
<1> HIDE DEF k
<1>4. Kept(f) = SubSeq(f, 1, k)
  BY <1>3 DEF Kept
<1> QED BY <1>1, <1>4 DEF k

\* The log is numbered and its boots are honest, on every card that is in order.
LogOK(log) ==
  /\ log \in Seq(Recs)
  /\ \A p \in 1 .. Len(log) :
       /\ log[p].seq = p - 1
       /\ log[p].kind = "BOOT" /\ log[p].val = PrevClean => p > 3 /\ log[p - 3].kind = "SHUTDOWN"

LEMMA DiskLog == ASSUME DiskOK(disk) PROVE LogOK(Log)
<1> DEFINE n == Len(disk)
           g == KeptOf(disk)
<1>1. disk \in Seq(Segs) /\ n \in Nat
  BY DEF DiskOK
<1>2. PICK F : IsJoin(g, n, F) /\ Log = F[n]
  BY <1>1, LogIs
<1>3. F[0] = <<>> /\ \A i \in 1 .. n : F[i] = F[i - 1] \o g[i]
  BY <1>1, <1>2, JoinIs
<1> DEFINE End(i) == disk[i].first + GoodLength(disk[i].recs)
           S == {m \in Nat : m <= n => LogOK(F[m]) /\ (IF m = 0 THEN Len(F[m]) = 0 ELSE Len(F[m]) = End(m))}
<1>4. 0 \in S
  <2>1. LogOK(<<>>) /\ Len(<<>>) = 0
    BY DEF LogOK
  <2> HIDE DEF End
  <2> QED BY <1>3, <2>1
<1>5. ASSUME NEW m \in Nat, m \in S PROVE m + 1 \in S
  <2> SUFFICES ASSUME m + 1 <= n PROVE LogOK(F[m + 1]) /\ Len(F[m + 1]) = End(m + 1)
    OBVIOUS
  <2> DEFINE a == disk[m + 1]
             k == GoodLength(a.recs)
             c == Kept(a.recs)
             z == F[m + 1]
             y == F[m]
  <2>1. m + 1 \in 1 .. n /\ (m + 1) - 1 = m /\ LogOK(y) /\ (IF m = 0 THEN Len(y) = 0 ELSE Len(y) = End(m))
    BY <1>1, <1>5
  <2>2. a \in Segs /\ SegOK(a)
    BY <1>1, <2>1 DEF DiskOK
  <2>3. a.recs \in Seq(Recs) /\ a.first \in Nat
    BY <2>2 DEF Segs
  <2>4. /\ c \in Seq(Recs) /\ Len(c) = k /\ k \in 0 .. Len(a.recs) /\ Whole(a.recs, k)
        /\ \A p \in 1 .. k : c[p] = a.recs[p]
    BY <2>3, KeptIs
  <2>5. z = y \o c
    <3>1. z = F[(m + 1) - 1] \o g[m + 1]
      BY <1>3, <2>1
    <3>2. g[m + 1] = c
      BY <2>1 DEF KeptOf
    <3> QED BY <2>1, <3>1, <3>2
  <2>6. Len(y) = a.first
    <3>1. CASE m = 0
      <4>1. disk[1].first = 0
        BY <1>1, <2>1, <3>1 DEF DiskOK
      <4> QED BY <2>1, <3>1, <4>1
    <3>2. CASE m # 0
      <4> DEFINE b == disk[m]
      <4>1. m \in 1 .. n - 1 /\ m \in 1 .. n
        BY <1>1, <2>1, <3>2
      <4>2. Whole(b.recs, Len(b.recs)) /\ disk[m + 1].first = b.first + Len(b.recs)
        BY <4>1 DEF DiskOK
      <4>3. b \in Segs
        BY <1>1, <4>1
      <4>4. b.recs \in Seq(Recs)
        BY <4>3 DEF Segs
      <4>5. GoodLength(b.recs) = Len(b.recs)
        <5>1. GoodLength(b.recs) \in 0 .. Len(b.recs) /\ \A q \in 0 .. Len(b.recs) : Whole(b.recs, q) => q <= GoodLength(b.recs)
          BY <4>4, GoodLengthIs
        <5>2. Len(b.recs) \in 0 .. Len(b.recs)
          BY <4>4
        <5>3. Len(b.recs) <= GoodLength(b.recs)
          BY <4>2, <5>1, <5>2
        <5> QED BY <4>4, <5>1, <5>3
      <4> QED BY <2>1, <3>2, <4>2, <4>5
    <3> QED BY <3>1, <3>2
  <2>7. InOrder(a, k) /\ Earned(a.recs, k)
    BY <2>2, <2>4 DEF SegOK
  <2> HIDE DEF k, c, y, z
  <2>8. y \in Seq(Recs)
    BY <2>1 DEF LogOK
  <2>9. /\ z \in Seq(Recs) /\ Len(z) = Len(y) + k
        /\ \A p \in 1 .. Len(y) : z[p] = y[p]
        /\ \A q \in 1 .. k : z[Len(y) + q] = c[q]
    <3>1. c \in Seq(Recs) /\ Len(c) = k
      BY <2>4
    <3>2. y \o c \in Seq(Recs) /\ Len(y \o c) = Len(y) + Len(c)
      BY <2>8, <3>1, ConcatProperties
    <3>3. \A p \in 1 .. Len(y) : (y \o c)[p] = y[p]
      BY <2>8, <3>1
    <3>4. \A q \in 1 .. Len(c) : (y \o c)[Len(y) + q] = c[q]
      BY <2>8, <3>1
    <3> QED BY <2>5, <3>1, <3>2, <3>3, <3>4
  <2>10. k \in Nat /\ Len(y) \in Nat
    BY <2>3, <2>4, <2>6
  <2>11. ASSUME NEW p \in 1 .. Len(z)
         PROVE  /\ z[p].seq = p - 1
                /\ z[p].kind = "BOOT" /\ z[p].val = PrevClean => p > 3 /\ z[p - 3].kind = "SHUTDOWN"
    <3>1. CASE p \in 1 .. Len(y)
      <4>1. z[p] = y[p] /\ y[p].seq = p - 1
        BY <2>1, <2>9, <3>1 DEF LogOK
      <4>2. ASSUME y[p].kind = "BOOT", y[p].val = PrevClean PROVE p > 3 /\ z[p - 3].kind = "SHUTDOWN"
        <5>1. p > 3 /\ y[p - 3].kind = "SHUTDOWN"
          BY <2>1, <3>1, <4>2 DEF LogOK
        <5>2. p - 3 \in 1 .. Len(y)
          BY <2>10, <3>1, <5>1
        <5> QED BY <2>9, <5>1, <5>2
      <4> QED BY <4>1, <4>2
    <3>2. CASE p - Len(y) \in 1 .. k /\ p = Len(y) + (p - Len(y))
      <4> DEFINE q == p - Len(y)
      <4>1. z[p] = a.recs[q] /\ q \in 1 .. k
        BY <2>4, <2>9, <3>2
      <4>2. a.recs[q].seq = a.first + q - 1
        BY <2>7, <4>1 DEF InOrder
      <4>3. z[p].seq = p - 1
        BY <2>3, <2>6, <2>10, <3>2, <4>1, <4>2
      <4>4. ASSUME a.recs[q].kind = "BOOT", a.recs[q].val = PrevClean PROVE p > 3 /\ z[p - 3].kind = "SHUTDOWN"
        <5>1. q > 3 /\ a.recs[q - 3].kind = "SHUTDOWN"
          BY <2>7, <4>1, <4>4 DEF Earned
        <5>2. q - 3 \in 1 .. k /\ p - 3 = Len(y) + (q - 3) /\ p > 3
          BY <2>10, <3>2, <5>1
        <5>3. z[p - 3] = a.recs[q - 3]
          BY <2>4, <2>9, <5>2
        <5> QED BY <5>1, <5>2, <5>3
      <4> QED BY <4>1, <4>3, <4>4
    <3>3. p \in 1 .. Len(y) \/ (p - Len(y) \in 1 .. k /\ p = Len(y) + (p - Len(y)))
      BY <2>9, <2>10
    <3> QED BY <3>1, <3>2, <3>3
  <2>12. LogOK(z)
    BY <2>9, <2>11 DEF LogOK
  <2>13. Len(z) = End(m + 1)
    BY <2>6, <2>9 DEF k
  <2> QED BY <2>12, <2>13 DEF z
<1>6. \A m \in Nat : m \in S
  <2> HIDE DEF S
  <2> QED BY <1>4, <1>5, SetInduction
<1>7. LogOK(F[n])
  BY <1>1, <1>6
<1> QED BY <1>2, <1>7

---------------------------------------------------------------------------
(* What is acknowledged *)

\* The samples and the ring seqs among the first k records of f.
Part(f, k) == {r \in Recs : r.kind \in {"SAMPLE", "RSEQ"} /\ \E p \in 1 .. k : r = f[p]}

\* Those in the segments behind the newest, and those that recovery would find.
Older(d) == {r \in Recs : \E i \in 1 .. Len(d) - 1 : r \in Part(d[i].recs, Len(d[i].recs))}
Good(d)  == IF Len(d) = 0 THEN {}
            ELSE Older(d) \cup Part(d[Len(d)].recs, GoodLength(d[Len(d)].recs))

\* Those that are committed as far as wal_t knows, and those in its batch.
Acked(d, x) == IF x.fd = 0 THEN Good(d) ELSE Older(d) \cup Part(d[Len(d)].recs, x.seg_bytes)
Held(x)     == Part(x.buf, Len(x.buf))

LEMMA PartSame ==
  ASSUME NEW f, NEW g, NEW k, \A p \in 1 .. k : f[p] = g[p]
  PROVE  Part(f, k) = Part(g, k)
BY DEF Part

LEMMA PartJoin ==
  ASSUME NEW f, NEW g, NEW k \in Nat, NEW n \in Nat, \A p \in 1 .. n : f[k + p] = g[p]
  PROVE  Part(f, k + n) = Part(f, k) \cup Part(g, n)
<1>1. ASSUME NEW r \in Part(f, k + n) PROVE r \in Part(f, k) \cup Part(g, n)
  <2>1. PICK p \in 1 .. k + n : r = f[p] /\ r \in Recs /\ r.kind \in {"SAMPLE", "RSEQ"}
    BY <1>1 DEF Part
  <2>2. CASE p \in 1 .. k
    BY <2>1, <2>2 DEF Part
  <2>3. CASE p - k \in 1 .. n /\ k + (p - k) = p
    <3>1. r = g[p - k]
      BY <2>1, <2>3
    <3> QED BY <2>1, <2>3, <3>1 DEF Part
  <2> QED BY <2>2, <2>3
<1>2. ASSUME NEW r \in Part(f, k) PROVE r \in Part(f, k + n)
  <2>1. \A p \in 1 .. k : p \in 1 .. k + n
    OBVIOUS
  <2> QED BY <1>2, <2>1 DEF Part
<1>3. ASSUME NEW r \in Part(g, n) PROVE r \in Part(f, k + n)
  <2>1. \A p \in 1 .. n : k + p \in 1 .. k + n
    OBVIOUS
  <2> QED BY <1>3, <2>1 DEF Part
<1> QED BY <1>1, <1>2, <1>3

LEMMA WholeLength ==
  ASSUME NEW f \in Seq(Recs), Whole(f, Len(f))
  PROVE  GoodLength(f) = Len(f)
<1>1. GoodLength(f) \in 0 .. Len(f) /\ \A q \in 0 .. Len(f) : Whole(f, q) => q <= GoodLength(f)
  BY GoodLengthIs
<1>2. Len(f) \in 0 .. Len(f)
  OBVIOUS
<1>3. Len(f) <= GoodLength(f)
  BY <1>1, <1>2
<1> QED BY <1>1, <1>3

LEMMA OlderSame ==
  ASSUME NEW d, NEW e, Len(e) = Len(d), \A i \in 1 .. Len(d) - 1 : e[i].recs = d[i].recs
  PROVE  Older(e) = Older(d)
BY DEF Older

\* Between calls everything recovery would find is acknowledged.
LEMMA ReadyAcked ==
  ASSUME NEW d, DiskOK(d), NEW x, Ready(d, x)
  PROVE  Acked(d, x) = Good(d)
<1> SUFFICES ASSUME x.fd # 0 PROVE Acked(d, x) = Good(d)
  BY DEF Acked
<1> DEFINE f == d[Len(d)].recs
<1>1. Filling(x) /\ Placed(d, x) /\ OnCard(d, x) /\ x.done = 0 /\ x.half = FALSE /\ x \in WType
  BY DEF Ready, Filling
<1>2. d \in Seq(Segs) /\ Len(d) \in Nat /\ x.fd = Len(d) /\ x.fd \in Nat /\ x.seg_bytes \in Nat
  BY <1>1 DEF DiskOK, Placed, WType
<1>3. Len(d) > 0 /\ d[Len(d)] \in Segs
  BY <1>2
<1>4. f \in Seq(Recs)
  BY <1>3 DEF Segs
<1>5. Len(f) = x.seg_bytes + x.done + (IF x.half THEN 1 ELSE 0) /\ Whole(f, x.seg_bytes)
  BY <1>1, <1>2 DEF OnCard, Placed
<1>6. Len(f) = x.seg_bytes
  BY <1>1, <1>2, <1>5
<1>7. GoodLength(f) = x.seg_bytes
  BY <1>4, <1>5, <1>6, WholeLength
<1> QED BY <1>3, <1>7 DEF Acked, Good

LEMMA SameFilesGood ==
  ASSUME NEW d \in Seq(Segs), NEW e, SameFiles(d, e)
  PROVE  Good(e) = Good(d)
<1>1. Len(e) = Len(d) /\ Len(d) \in Nat
  BY DEF SameFiles
<1>2. Older(e) = Older(d)
  BY <1>1, OlderSame DEF SameFiles
<1>3. Len(d) # 0 => e[Len(d)].recs = d[Len(d)].recs
  BY <1>1 DEF SameFiles
<1> QED BY <1>1, <1>2, <1>3 DEF Good

\* During a commit the card holds what is acknowledged and, once all of it is written, the batch.
LEMMA SealedGood ==
  ASSUME NEW d, DiskOK(d), NEW x, Sealed(d, x)
  PROVE  /\ Good(d) = Acked(d, x) \/ Good(d) = Acked(d, x) \cup Held(x)
         /\ x.fd # 0 /\ x.done = Len(x.buf) /\ x.half = FALSE => Good(d) = Acked(d, x) \cup Held(x)
<1> SUFFICES ASSUME x.fd # 0
             PROVE  /\ Good(d) = Acked(d, x) \/ Good(d) = Acked(d, x) \cup Held(x)
                    /\ x.done = Len(x.buf) /\ x.half = FALSE => Good(d) = Acked(d, x) \cup Held(x)
  BY DEF Acked
<1> DEFINE f == d[Len(d)].recs
           k == x.seg_bytes
           m == GoodLength(f)
<1>1. x.fd = Len(d) /\ Len(d) > 0 /\ Writing(f, x.buf, k, x.done, x.half)
  BY SealedIs
<1>2. /\ f \in Seq(Recs) /\ x.buf \in Seq(Recs) /\ k \in Nat /\ x.done \in 0 .. Len(x.buf) /\ Whole(f, k)
      /\ Len(f) = k + x.done + (IF x.half THEN 1 ELSE 0) /\ x.half \in BOOLEAN
      /\ \A p \in 1 .. x.done : f[k + p] = x.buf[p]
  BY <1>1 DEF Writing
<1>3. m \in 0 .. Len(f) /\ Whole(f, m) /\ \A q \in 0 .. Len(f) : Whole(f, q) => q <= m
  BY <1>2, GoodLengthIs
<1>4. Good(d) = Older(d) \cup Part(f, m) /\ Acked(d, x) = Older(d) \cup Part(f, k)
  BY <1>1 DEF Good, Acked
<1>5. Len(f) \in Nat /\ Len(x.buf) \in Nat
  BY <1>2
<1> HIDE DEF f, k, m
<1>6. k <= m
  <2>1. k \in 0 .. Len(f)
    BY <1>2, <1>5
  <2> QED BY <1>2, <1>3, <2>1
<1>7. ASSUME x.done = Len(x.buf), x.half = FALSE, m = Len(f) PROVE Good(d) = Acked(d, x) \cup Held(x)
  <2>1. m = k + Len(x.buf)
    <3>1. (IF x.half THEN 1 ELSE 0) = 0
      BY <1>7
    <3> QED BY <1>2, <1>5, <1>7, <3>1
  <2>2. \A p \in 1 .. Len(x.buf) : f[k + p] = x.buf[p]
    BY <1>2, <1>7
  <2>3. Part(f, k + Len(x.buf)) = Part(f, k) \cup Part(x.buf, Len(x.buf))
    <3> DEFINE b == x.buf
               n == Len(b)
    <3>1. k \in Nat /\ n \in Nat /\ \A p \in 1 .. n : f[k + p] = b[p]
      BY <1>2, <1>5, <2>2
    <3> HIDE DEF b, n
    <3>2. Part(f, k + n) = Part(f, k) \cup Part(b, n)
      BY <3>1, PartJoin
    <3> QED BY <3>2 DEF b, n
  <2> QED BY <1>4, <2>1, <2>3 DEF Held
<1>8. CASE m = k
  <2>1. ~(x.done = Len(x.buf) /\ x.half = FALSE)
    <3> SUFFICES ASSUME x.done = Len(x.buf), x.half = FALSE PROVE FALSE
      OBVIOUS
    <3>0. (IF x.half THEN 1 ELSE 0) = 0 /\ \A p \in 1 .. Len(x.buf) : f[k + p] = x.buf[p]
      BY <1>2
    <3>1a. Len(f) = k + Len(x.buf)
      <4>1. Len(f) = k + x.done + (IF x.half THEN 1 ELSE 0) /\ k \in Nat
        BY <1>2
      <4>2. (IF x.half THEN 1 ELSE 0) = 0
        BY <3>0
      <4> DEFINE l == Len(f)
                 n == Len(x.buf)
      <4>3. l = k + n + 0 /\ l \in Nat /\ n \in Nat /\ k \in Nat
        BY <1>5, <4>1, <4>2
      <4> HIDE DEF l, n
      <4>4. l = k + n
        BY <4>3
      <4> QED BY <4>4 DEF l, n
    <3>1. Len(f) = k + Len(x.buf) /\ \A p \in 1 .. Len(x.buf) : f[k + p] = x.buf[p]
      BY <3>0, <3>1a
    <3>2. IsBatch(x.buf, 1, Len(x.buf))
      BY <1>1 DEF Writing
    <3>3. Whole(f, Len(f))
      BY <1>2, <3>1, <3>2, WrittenIsWhole
    <3>4. Len(f) \in 0 .. Len(f) /\ 1 < Len(x.buf)
      BY <1>5, <3>2 DEF IsBatch
    <3>5. Len(f) <= m
      BY <1>3, <3>3, <3>4
    <3> QED BY <1>2, <1>5, <1>8, <3>1, <3>4, <3>5
  <2> QED BY <1>4, <1>8, <2>1
<1>9. CASE m > k
  <2>1. m = Len(f) /\ x.done = Len(x.buf) /\ ~x.half
    BY <1>1, <1>3, <1>9, WholeWhenWritten
  <2> QED BY <1>2, <1>7, <2>1
<1>10. m = k \/ m > k
  BY <1>2, <1>3, <1>5, <1>6
<1> QED BY <1>8, <1>9, <1>10
---------------------------------------------------------------------------
(* storaged *)

RingType == [gen : Nat, head : Nat, tail : Nat]
SrcType  == [taken : Nat, added : BOOLEAN, last_seq : Nat, skip : BOOLEAN, skip_seq : Nat]

\* The places where main has no call of the log to wait for.
Quiet == {"down", "note_gen", "drain", "decide", "release", "stop", "stop_release"}

\* What source n has taken has been released and not yet forgotten: main is on its way out.
Freed(n) == (pc = "stop_release" /\ n < ni) \/ pc = "closing"

MainInv ==
  /\ rings \in [NS -> RingType] /\ srcs \in [NS -> SrcType] /\ ni \in NS
  /\ pc \in Quiet => wpc = "idle" /\ wret = "none"
  /\ \A n \in NS : rings[n].tail <= rings[n].head
  /\ \A n \in NS : ~Freed(n) => rings[n].tail + srcs[n].taken <= rings[n].head

LEMMA NsIs == /\ NS \subseteq 0 .. 1 /\ 0 \in NS /\ LastNs \in Nat
              /\ \A m \in NS : m < LastNs => m + 1 \in NS
<1>1. PICK n \in 1 .. 2 : NS = 0 .. n - 1
  BY StoragedAssumption
<1>2. Cardinality(NS) = n
  <2>1. Cardinality(0 .. n - 1) = (IF 0 > n - 1 THEN 0 ELSE (n - 1) - 0 + 1)
    BY FS_Interval
  <2> QED BY <1>1, <2>1
<1>3. LastNs = n - 1
  BY <1>2 DEF LastNs
<1> QED BY <1>1, <1>3

LEMMA NoSourcesType == NoSources \in [NS -> SrcType] /\ \A n \in NS : NoSources[n].taken = 0
BY DEF NoSources, NoSource, SrcType

\* Between calls the log is ready.
LEMMA MainIdle == ASSUME WalInv, MainInv, MainStep PROVE wpc = "idle" /\ disk' = disk /\ DiskOK(disk) /\ Ready(disk, w)
<1>1. pc \in Quiet \/ wret # "none"
  BY Zenon DEF MainStep, Start, OpenDone, NoteGeneration, NoteDone, Drain, Flush, Idle, FlushDone, Release,
         Stop, StopDone, StopRelease, CloseDone, Quiet
<1>2. wpc = "idle"
  BY <1>1 DEF MainInv, WalInv, WalOK
<1>3. disk' = disk
  BY Zenon DEF MainStep, Start, OpenDone, NoteGeneration, NoteDone, Drain, Flush, Idle, FlushDone, Release,
         Stop, StopDone, StopRelease, CloseDone, wvars
<1> QED BY <1>2, <1>3 DEF WalInv, WalOK

\* How many slots drain takes.
DrainOK(n) ==
  /\ Skips(n) \in Nat /\ Adds(n) \in Nat
  /\ rings[n].tail + srcs[n].taken + Skips(n) + Adds(n) <= rings[n].head

LEMMA DrainAmounts ==
  ASSUME MainInv, w \in WType, w.batch_samples < BatchSamples, NEW n \in NS, ~Freed(n)
  PROVE  DrainOK(n)
<1> DEFINE h == rings[n].head
           t == rings[n].tail
           k == srcs[n].taken
           q == srcs[n].skip_seq
           u == IF q < h THEN q + 1 ELSE h
           s == IF srcs[n].skip /\ u > t + k THEN u - (t + k) ELSE 0
           l == h - t - k - s
           r == BatchSamples - w.batch_samples
           a == IF l < r THEN l ELSE r
<1>1. h \in Nat /\ t \in Nat /\ k \in Nat /\ q \in Nat /\ t + k <= h
  BY DEF MainInv, RingType, SrcType
<1>2. r \in Nat /\ r > 0
  <2>1. w.batch_samples \in Nat
    BY DEF WType
  <2>2. BatchSamples \in Nat
    BY StoragedAssumption
  <2> QED BY <2>1, <2>2
<1>3. Skips(n) = s
  BY DEF Skips
<1>4. Adds(n) = a
  BY <1>3 DEF Adds
<1> HIDE DEF h, t, k, q, r
<1>5. u \in Nat /\ u <= h
  BY <1>1
<1> HIDE DEF u
<1>6. s \in Nat /\ t + k + s <= h
  BY <1>1, <1>5
<1> HIDE DEF s
<1>7. l \in Nat /\ t + k + s + l = h
  BY <1>1, <1>6
<1>8. a \in Nat /\ a <= l
  BY <1>2, <1>7
<1> HIDE DEF a, l
<1>9. t + k + s + a <= h
  BY <1>1, <1>6, <1>7, <1>8
<1> QED BY <1>3, <1>4, <1>6, <1>8, <1>9 DEF DrainOK, h, t, k

LEMMA NoteRingSeqReady ==
  ASSUME MainInv, NEW d, NEW x, Ready(d, x), NEW n \in Nat
  PROVE  Ready(d, NoteRingSeq(x, n))
<1>1. CASE n \in NS /\ srcs[n].added
  <2>1. srcs[n].last_seq \in Nat
    BY <1>1 DEF MainInv, SrcType
  <2>2. "RSEQ" \in Kinds \ {"BEGIN", "COMMIT", "TORN"} /\ "RSEQ" # "BOOT"
    BY DEF Kinds
  <2>3. Ready(d, WalAdd(x, "RSEQ", n, 0, srcs[n].last_seq))
    BY <2>1, <2>2, WalAddReady
  <2> QED BY <1>1, <2>3 DEF NoteRingSeq
<1>2. CASE ~(n \in NS /\ srcs[n].added)
  BY <1>2 DEF NoteRingSeq
<1> QED BY <1>1, <1>2

LEMMA NoteRingSeqsReady == ASSUME MainInv, NEW d, NEW x, Ready(d, x) PROVE Ready(d, NoteRingSeqs(x))
<1> DEFINE y == NoteRingSeq(x, 0)
<1>1. Ready(d, y)
  BY NoteRingSeqReady
<1> HIDE DEF y
<1>2. Ready(d, NoteRingSeq(y, 1))
  BY <1>1, NoteRingSeqReady
<1> QED BY <1>2 DEF NoteRingSeqs, y

\* main's steps keep the log in order.
LEMMA MainWal == ASSUME WalInv, MainInv, MainStep PROVE WalInv'
<1>1. wpc = "idle" /\ disk' = disk /\ DiskOK(disk) /\ Ready(disk, w) /\ DiskOK(disk') /\ Ready(disk', w)
  BY MainIdle
<1>2. ASSUME NEW how, Exit(how) PROVE WalInv'
  BY <1>1, <1>2, ClosedOK DEF Exit, WalInv
<1>3. ASSUME w' = w, wpc' = wpc, wret' = "none" PROVE WalInv'
  BY <1>1, <1>3 DEF WalInv, WalOK
<1>4. CASE Start
  BY <1>1, <1>4, CallOpenOK DEF Start
<1>5. CASE OpenDone
  BY <1>2, <1>3, <1>5 DEF OpenDone
<1>6. CASE NoteGeneration
  <2> DEFINE x == WalAdd(w, "GEN", ni, rings[ni].gen, 0)
  <2>1. ni \in Nat /\ rings[ni].gen \in Nat
    BY NsIs DEF MainInv, RingType
  <2>2. "GEN" \in Kinds \ {"BEGIN", "COMMIT", "TORN"} /\ "GEN" # "BOOT"
    BY DEF Kinds
  <2>3. Ready(disk', x)
    BY <1>1, <2>1, <2>2, WalAddReady
  <2>4. CallCommit(x)
    BY <1>6 DEF NoteGeneration
  <2> HIDE DEF x
  <2> QED BY <1>1, <2>3, <2>4, CallCommitOK
<1>7. CASE NoteDone
  BY <1>2, <1>3, <1>7 DEF NoteDone
<1>8. CASE Drain
  <2>1. wret = "none" /\ wret' = wret /\ wpc' = wpc
    BY <1>8 DEF Drain, MainInv, Quiet
  <2>2. CASE w.batch_samples < BatchSamples /\ Skips(ni) + Adds(ni) > 0
    <3> DEFINE first == rings[ni].tail + srcs[ni].taken + Skips(ni)
               x == WalAddSamples(w, ni, rings[ni].gen, first, Adds(ni))
    <3>1. ni \in NS /\ ni \in Nat /\ rings[ni].gen \in Nat /\ rings[ni].tail \in Nat /\ srcs[ni].taken \in Nat
      BY NsIs DEF MainInv, RingType, SrcType
    <3>2. ~Freed(ni) /\ w \in WType
      BY <1>1, <1>8 DEF Freed, Drain, Ready, Filling
    <3>3. Skips(ni) \in Nat /\ Adds(ni) \in Nat
      BY <2>2, <3>1, <3>2, DrainAmounts DEF DrainOK
    <3>4. first \in Nat
      BY <3>1, <3>3
    <3>5. w' = x
      BY <1>8, <2>2 DEF Drain
    <3> HIDE DEF first
    <3>6. Ready(disk', x)
      BY <1>1, <3>1, <3>3, <3>4, WalAddSamplesReady
    <3> HIDE DEF x
    <3> QED BY <1>1, <2>1, <3>5, <3>6 DEF WalInv, WalOK
  <2>3. CASE ~(w.batch_samples < BatchSamples /\ Skips(ni) + Adds(ni) > 0)
    <3>1. w' = w
      BY <1>8, <2>3 DEF Drain
    <3> QED BY <1>3, <2>1, <3>1
  <2> QED BY <2>2, <2>3
<1>9. CASE Flush \/ Stop
  <2>1. Ready(disk', NoteRingSeqs(w))
    BY <1>1, NoteRingSeqsReady
  <2>2. CallCommit(NoteRingSeqs(w))
    BY <1>9 DEF Flush, Stop
  <2> QED BY <1>1, <2>1, <2>2, CallCommitOK
<1>10. CASE Idle \/ Release
  <2>1. w' = w /\ wpc' = wpc /\ wret' = "none"
    BY <1>10 DEF Idle, Release, wvars, MainInv, Quiet
  <2> QED BY <1>3, <2>1
<1>11. CASE FlushDone
  BY Zenon, <1>3, <1>11 DEF FlushDone
<1>12. CASE StopDone
  BY <1>1, <1>3, <1>12, CallCloseOK DEF StopDone
<1>13. CASE StopRelease
  <2>1. CASE ni < LastNs
    <3>1. w' = w /\ wpc' = wpc /\ wret' = "none"
      BY <1>13, <2>1 DEF StopRelease, MainInv, Quiet
    <3> QED BY <1>3, <3>1
  <2>2. CASE ~(ni < LastNs)
    BY <1>1, <1>13, <2>2, CallCloseOK DEF StopRelease
  <2> QED BY <2>1, <2>2
<1>14. CASE CloseDone
  BY <1>2, <1>14 DEF CloseDone
<1> QED BY <1>4, <1>5, <1>6, <1>7, <1>8, <1>9, <1>10, <1>11, <1>12, <1>13, <1>14 DEF MainStep

\* After Exit, kill -9 or a power cut nothing is taken.
LEMMA DownMain ==
  ASSUME rings' \in [NS -> RingType], \A n \in NS : rings'[n].tail <= rings'[n].head,
         srcs' = NoSources, pc' = "down", ni' = 0, wpc' = "idle", wret' = "none"
  PROVE  MainInv'
<1>1. ASSUME NEW n \in NS PROVE rings'[n].tail + srcs'[n].taken <= rings'[n].head
  BY NoSourcesType DEF RingType
<1> QED BY <1>1, NoSourcesType, NsIs DEF MainInv

\* main's steps that leave the rings and the sources alone.
LEMMA SameMain ==
  ASSUME MainInv, rings' = rings, srcs' = srcs, ni' \in NS, pc # "closing", pc # "stop_release" \/ ni = 0,
         pc' \in Quiet => wpc' = "idle" /\ wret' = "none"
  PROVE  MainInv'
<1>1. \A n \in NS : ~Freed(n)
  BY NsIs DEF Freed
<1> QED BY <1>1 DEF MainInv

LEMMA MainMain == ASSUME WalInv, MainInv, MainStep PROVE MainInv'
<1>1. wpc = "idle"
  BY MainIdle
<1>2. ASSUME NEW how, Exit(how), rings' = rings PROVE MainInv'
  BY <1>2, DownMain DEF Exit, MainInv
<1>3. ni \in NS /\ 0 \in NS /\ rings \in [NS -> RingType] /\ srcs \in [NS -> SrcType]
      /\ (ni < LastNs => ni + 1 \in NS) /\ NS \subseteq Nat
  BY NsIs DEF MainInv
<1>4. CASE Start
  <2>1. rings' = rings /\ srcs' = srcs /\ ni' = ni /\ pc' = "opening" /\ pc = "down"
    BY <1>4 DEF Start
  <2> QED BY <1>3, <2>1, SameMain DEF Quiet
<1>5. CASE OpenDone
  <2>1. CASE wret = "ok"
    <3>1. rings' = rings /\ srcs' = srcs /\ ni' = 0 /\ pc' = "note_gen" /\ pc = "opening" /\ wpc' = wpc /\ wret' = "none"
      BY <1>5, <2>1 DEF OpenDone, Exit, FirstNs
    <3> QED BY <1>1, <1>3, <3>1, SameMain
  <2>2. CASE wret # "ok"
    BY <1>2, <1>5, <2>2 DEF OpenDone
  <2> QED BY <2>1, <2>2
<1>6. CASE NoteGeneration
  <2>1. rings' = rings /\ ni' = ni /\ pc' = "gen_wait" /\ pc = "note_gen" /\ srcs' = [srcs EXCEPT ![ni] = ResumeFrom(ni)]
    BY <1>6 DEF NoteGeneration
  <2>2. ResumeFrom(ni) \in SrcType /\ ResumeFrom(ni).taken = 0
    <3>1. w \in WType
      BY MainIdle DEF Ready, Filling
    <3>2. w.ring_seq[ni].seq \in Nat
      BY <1>3, <3>1 DEF WType, Mark
    <3> QED BY <3>2 DEF ResumeFrom, NoSource, SrcType
  <2>3. srcs' \in [NS -> SrcType] /\ \A n \in NS : srcs'[n].taken = srcs[n].taken \/ srcs'[n].taken = 0
    BY <1>3, <2>1, <2>2
  <2>4. ASSUME NEW n \in NS PROVE rings[n].tail + srcs'[n].taken <= rings[n].head
    <3>1. rings[n].tail <= rings[n].head /\ rings[n].tail + srcs[n].taken <= rings[n].head /\ rings[n].tail \in Nat
      BY <1>3, <2>1 DEF MainInv, Freed, RingType
    <3> QED BY <2>3, <3>1
  <2> QED BY <1>3, <2>1, <2>3, <2>4 DEF MainInv, Quiet
<1>7. CASE NoteDone
  <2>1. CASE wret = "ok"
    <3>1. rings' = rings /\ srcs' = srcs /\ ni' \in NS /\ pc = "gen_wait" /\ wpc' = wpc /\ wret' = "none"
      BY <1>3, <1>7, <2>1 DEF NoteDone, Exit, FirstNs
    <3> QED BY <1>1, <3>1, SameMain
  <2>2. CASE wret # "ok"
    BY <1>2, <1>7, <2>2 DEF NoteDone
  <2> QED BY <2>1, <2>2
<1>8. CASE Drain
  <2>1. pc = "drain" /\ rings' = rings /\ ni' \in NS /\ wpc' = wpc /\ wret' = wret /\ pc' \in {"drain", "decide"} /\ wret = "none"
    BY <1>3, <1>8 DEF Drain, FirstNs, MainInv, Quiet
  <2>2. CASE w.batch_samples < BatchSamples /\ Skips(ni) + Adds(ni) > 0
    <3> DEFINE k == srcs[ni].taken + Skips(ni) + Adds(ni)
               l == rings[ni].tail + srcs[ni].taken + Skips(ni) + Adds(ni) - 1
               b == srcs[ni].added \/ Adds(ni) > 0
               z == [srcs[ni] EXCEPT !.taken = k, !.added = b, !.last_seq = l]
    <3>1. w \in WType /\ ~Freed(ni)
      BY <2>1, MainIdle DEF Ready, Filling, Freed
    <3>2. Skips(ni) \in Nat /\ Adds(ni) \in Nat
          /\ rings[ni].tail + srcs[ni].taken + Skips(ni) + Adds(ni) <= rings[ni].head
      BY <1>3, <2>2, <3>1, DrainAmounts DEF DrainOK
    <3>3. rings[ni].tail \in Nat /\ srcs[ni].taken \in Nat /\ srcs[ni] \in SrcType
      BY <1>3 DEF RingType, SrcType
    <3>4. k \in Nat /\ l \in Nat /\ b \in BOOLEAN /\ rings[ni].tail + k <= rings[ni].head
      BY <2>2, <3>2, <3>3
    <3>5. srcs' = [srcs EXCEPT ![ni] = z]
      <4>1. srcs' = [srcs EXCEPT ![ni].taken = @ + Skips(ni) + Adds(ni), ![ni].added = @ \/ Adds(ni) > 0,
                                 ![ni].last_seq = rings[ni].tail + srcs[ni].taken + Skips(ni) + Adds(ni) - 1]
        BY <1>8, <2>2 DEF Drain
      <4> HIDE DEF l
      <4>2. srcs' = [srcs EXCEPT ![ni].taken = @ + Skips(ni) + Adds(ni), ![ni].added = @ \/ Adds(ni) > 0,
                                 ![ni].last_seq = l]
        BY <4>1 DEF l
      <4> QED BY <1>3, <4>2
    <3> HIDE DEF k, l, b
    <3>6. z \in SrcType /\ z.taken = k
      BY <3>3, <3>4 DEF SrcType
    <3> HIDE DEF z
    <3>7. srcs' \in [NS -> SrcType] /\ srcs'[ni] = z /\ \A n \in NS : n # ni => srcs'[n] = srcs[n]
      BY <1>3, <3>5, <3>6
    <3>8. ASSUME NEW n \in NS PROVE rings[n].tail + srcs'[n].taken <= rings[n].head
      <4>1. CASE n = ni
        BY <3>4, <3>6, <3>7, <4>1
      <4>2. CASE n # ni
        BY <2>1, <3>7, <4>2 DEF MainInv, Freed
      <4> QED BY <4>1, <4>2
    <3> QED BY <1>1, <2>1, <3>7, <3>8 DEF MainInv
  <2>3. CASE ~(w.batch_samples < BatchSamples /\ Skips(ni) + Adds(ni) > 0)
    <3>1. srcs' = srcs
      BY <1>8, <2>3 DEF Drain
    <3> QED BY <1>1, <2>1, <3>1, SameMain
  <2> QED BY <2>2, <2>3
<1>9. CASE Flush \/ Stop
  <2>1. rings' = rings /\ srcs' = srcs /\ ni' = ni /\ pc' \in {"commit_wait", "stop_wait"} /\ pc \in {"decide", "stop"}
    BY <1>9 DEF Flush, Stop
  <2> QED BY <1>3, <2>1, SameMain DEF Quiet
<1>10. CASE Idle
  <2>1. rings' = rings /\ srcs' = srcs /\ ni' = ni /\ pc = "decide" /\ wpc' = wpc /\ wret' = wret /\ wret = "none"
    BY <1>10 DEF Idle, wvars, MainInv, Quiet
  <2> QED BY <1>1, <1>3, <2>1, SameMain
<1>11. CASE FlushDone
  <2>1. rings' = rings /\ ni' = ni /\ pc = "commit_wait" /\ wpc' = wpc /\ wret' = "none" /\ pc' \in {"release", "stop", "drain"}
    BY Zenon, <1>11 DEF FlushDone, NextTurn
  <2>2. CASE srcs' = srcs
    <3>1. ni' \in NS /\ pc # "closing" /\ pc # "stop_release"
      BY <1>3, <2>1
    <3> QED BY <1>1, <2>1, <2>2, <3>1, SameMain
  <2>3. CASE srcs' = [n \in NS |-> [srcs[n] EXCEPT !.taken = 0, !.added = FALSE]]
    <3>1. \A n \in NS : [srcs[n] EXCEPT !.taken = 0, !.added = FALSE] \in SrcType
                        /\ [srcs[n] EXCEPT !.taken = 0, !.added = FALSE].taken = 0
      BY <1>3 DEF SrcType
    <3>2. srcs' \in [NS -> SrcType] /\ \A n \in NS : srcs'[n].taken = 0
      BY Zenon, <2>3, <3>1
    <3>3. ASSUME NEW n \in NS PROVE rings[n].tail + srcs'[n].taken <= rings[n].head
      BY <1>3, <3>2 DEF MainInv, RingType
    <3> QED BY <1>1, <1>3, <2>1, <3>2, <3>3 DEF MainInv
  <2> QED BY Zenon, <1>11, <2>2, <2>3 DEF FlushDone
<1>12. CASE Release
  <2>1. /\ pc = "release" /\ ni' \in NS /\ wpc' = wpc /\ wret' = wret /\ wret = "none" /\ pc' \in {"release", "stop", "drain"}
        /\ (pc' = "release" \/ pc' # "stop_release")
        /\ rings' = [rings EXCEPT ![ni].tail = @ + srcs[ni].taken]
        /\ srcs' = [srcs EXCEPT ![ni].taken = 0, ![ni].added = FALSE]
    BY <1>3, <1>12 DEF Release, ReleaseTaken, NextTurn, FirstNs, wvars, MainInv, Quiet
  <2>2. rings[ni].tail + srcs[ni].taken <= rings[ni].head /\ rings[ni].tail + srcs[ni].taken \in Nat
    BY <1>3, <2>1 DEF MainInv, Freed, RingType, SrcType
  <2> DEFINE r == [rings[ni] EXCEPT !.tail = rings[ni].tail + srcs[ni].taken]
             z == [srcs[ni] EXCEPT !.taken = 0, !.added = FALSE]
  <2>3. r \in RingType /\ r.tail = rings[ni].tail + srcs[ni].taken /\ r.head = rings[ni].head
        /\ z \in SrcType /\ z.taken = 0
    BY <1>3, <2>2 DEF RingType, SrcType
  <2>4. rings' = [rings EXCEPT ![ni] = r] /\ srcs' = [srcs EXCEPT ![ni] = z]
    BY <1>3, <2>1
  <2> HIDE DEF r, z
  <2>5. /\ rings' \in [NS -> RingType] /\ srcs' \in [NS -> SrcType] /\ rings'[ni] = r /\ srcs'[ni] = z
        /\ \A n \in NS : n # ni => rings'[n] = rings[n] /\ srcs'[n] = srcs[n]
    BY <1>3, <2>3, <2>4
  <2>6. ASSUME NEW n \in NS PROVE rings'[n].tail <= rings'[n].head /\ rings'[n].tail + srcs'[n].taken <= rings'[n].head
    <3>1. CASE n = ni
      BY <2>2, <2>3, <2>5, <3>1
    <3>2. CASE n # ni
      BY <2>1, <2>5, <3>2 DEF MainInv, Freed
    <3> QED BY <3>1, <3>2
  <2> QED BY <1>1, <2>1, <2>5, <2>6 DEF MainInv
<1>13. CASE StopDone
  <2>1. rings' = rings /\ srcs' = srcs /\ ni' = ni /\ pc = "stop_wait"
        /\ ((pc' = "stop_release" /\ wpc' = wpc /\ wret' = "none") \/ pc' = "closing")
    BY <1>13 DEF StopDone
  <2> QED BY <1>1, <1>3, <2>1, SameMain DEF Quiet
<1>14. CASE StopRelease
  <2>1. /\ pc = "stop_release" /\ ni' \in NS /\ srcs' = srcs /\ wret = "none"
        /\ rings' = [rings EXCEPT ![ni].tail = @ + srcs[ni].taken]
        /\ (pc' = "stop_release" /\ ni' = ni + 1 /\ wpc' = wpc /\ wret' = wret) \/ pc' = "closing"
    BY <1>3, <1>14 DEF StopRelease, ReleaseTaken, FirstNs, MainInv, Quiet
  <2>2. rings[ni].tail + srcs[ni].taken <= rings[ni].head /\ rings[ni].tail + srcs[ni].taken \in Nat
    BY <1>3, <2>1 DEF MainInv, Freed, RingType, SrcType
  <2> DEFINE r == [rings[ni] EXCEPT !.tail = rings[ni].tail + srcs[ni].taken]
  <2>3. r \in RingType /\ r.tail = rings[ni].tail + srcs[ni].taken /\ r.head = rings[ni].head
    BY <1>3, <2>2 DEF RingType
  <2>4. rings' = [rings EXCEPT ![ni] = r]
    BY <1>3, <2>1
  <2> HIDE DEF r
  <2>5. /\ rings' \in [NS -> RingType] /\ rings'[ni] = r /\ \A n \in NS : n # ni => rings'[n] = rings[n]
    BY <1>3, <2>3, <2>4
  <2>6. ASSUME NEW n \in NS PROVE rings'[n].tail <= rings'[n].head
    <3>1. CASE n = ni
      BY <2>2, <2>3, <2>5, <3>1
    <3>2. CASE n # ni
      BY <2>5, <3>2 DEF MainInv
    <3> QED BY <3>1, <3>2
  <2>7. ASSUME NEW n \in NS, ~Freed(n)' PROVE rings'[n].tail + srcs'[n].taken <= rings'[n].head
    <3>1. pc' = "stop_release" /\ ni' = ni + 1 /\ ~(n < ni + 1)
      BY <2>1, <2>7 DEF Freed
    <3>2. n # ni /\ ~(n < ni)
      BY <1>3, <3>1
    <3> QED BY <2>1, <2>5, <3>2 DEF MainInv, Freed
  <2>8. pc' \in Quiet => wpc' = "idle" /\ wret' = "none"
    BY <1>1, <2>1 DEF Quiet
  <2> QED BY <1>3, <2>1, <2>5, <2>6, <2>7, <2>8 DEF MainInv
<1>15. CASE CloseDone
  BY <1>2, <1>15 DEF CloseDone
<1> QED BY <1>4, <1>5, <1>6, <1>7, <1>8, <1>9, <1>10, <1>11, <1>12, <1>13, <1>14, <1>15 DEF MainStep

---------------------------------------------------------------------------
(* The log is in order, whatever happens *)

\* A directory entry is lost only where kill -9 or a failing fsync of the directory left it.
EntryInv == "kill" \notin Accidents /\ "dirsync" \notin Accidents => EntryOK

\* No ftruncate fails, and a power cut is not combined with a kill -9 or a failing fsync of the
\* directory: those leave a directory entry unsynced, and nothing repairs that.
OrderAssumption ==
  /\ "undo" \notin Accidents
  /\ "power" \in Accidents => "kill" \notin Accidents /\ "dirsync" \notin Accidents

OrderInv == WalInv /\ MainInv /\ EntryInv

LEMMA WalStepEntry == ASSUME WalInv, EntryInv, WalStep PROVE EntryInv'
<1> SUFFICES ASSUME EntryOK, "dirsync" \notin Accidents PROVE EntryOK'
  BY DEF EntryInv
<1>0. disk \in Seq(Segs) /\ Len(disk) \in Nat /\ DOMAIN disk = 1 .. Len(disk)
  BY DEF WalInv, WalOK, DiskOK
<1>1. ASSUME wpc # "dirsync", disk' = disk PROVE EntryOK'
  BY <1>1 DEF EntryOK
<1>2. ASSUME wpc # "dirsync", NEW g, disk' = [disk EXCEPT ![w.fd] = g], w.fd \in 1 .. Len(disk) => g.entry = disk[w.fd].entry
      PROVE  EntryOK'
  <2>1. Len(disk') = Len(disk)
    BY <1>0, <1>2
  <2>2. \A i \in 1 .. Len(disk) : disk'[i].entry = disk[i].entry
    BY <1>0, <1>2
  <2> QED BY <1>2, <2>1, <2>2 DEF EntryOK
<1>3. \A i \in 1 .. Len(disk) : disk[i] \in Segs
  BY <1>0
<1>4. CASE Write
  <2>1. PICK g : disk' = [disk EXCEPT ![w.fd].recs = g]
    BY <1>4 DEF Write
  <2>2. disk' = [disk EXCEPT ![w.fd] = [disk[w.fd] EXCEPT !.recs = g]]
    BY <2>1
  <2>3. w.fd \in 1 .. Len(disk) => [disk[w.fd] EXCEPT !.recs = g].entry = disk[w.fd].entry
    BY <1>3 DEF Segs
  <2> QED BY <1>2, <1>4, <2>2, <2>3 DEF Write
<1>5. CASE Fsync \/ CutSync
  <2> DEFINE g == [disk[w.fd] EXCEPT !.synced = Len(disk[w.fd].recs)]
  <2>2. disk' = [disk EXCEPT ![w.fd] = g]
    BY <1>5 DEF Fsync, CutSync
  <2>3. w.fd \in 1 .. Len(disk) => g.entry = disk[w.fd].entry
    BY <1>3 DEF Segs
  <2> HIDE DEF g
  <2> QED BY <1>2, <1>5, <2>2, <2>3 DEF Fsync, CutSync
<1>6. CASE Undo \/ CutTail
  <2> DEFINE g == Truncate(disk[w.fd], w.seg_bytes)
  <2>2. disk' = [disk EXCEPT ![w.fd] = g]
    BY <1>6 DEF Undo, CutTail
  <2>3. w.fd \in 1 .. Len(disk) => g.entry = disk[w.fd].entry
    BY <1>3 DEF Segs, Truncate
  <2> HIDE DEF g
  <2> QED BY <1>2, <1>6, <2>2, <2>3 DEF Undo, CutTail
<1>7. CASE Create
  <2>1. disk' = Append(disk, Segment(w.next_seq)) /\ wpc' = "dirsync" /\ wpc = "create"
    BY <1>7 DEF Create
  <2> DEFINE z == Segment(w.next_seq)
  <2> HIDE DEF z
  <2>2. Len(disk') = Len(disk) + 1 /\ \A i \in 1 .. Len(disk) : disk'[i] = disk[i]
    BY <1>0, <2>1 DEF z
  <2>3. \A i \in 1 .. Len(disk') : i \in 1 .. Len(disk) \/ i = Len(disk')
    BY <1>0, <2>2
  <2> QED BY <2>1, <2>2, <2>3 DEF EntryOK
<1>8. CASE DirSync
  <2>1. disk' = [i \in 1 .. Len(disk) |-> [disk[i] EXCEPT !.entry = TRUE]]
    BY <1>0, <1>8 DEF DirSync
  <2>2. \A i \in 1 .. Len(disk) : disk'[i].entry = TRUE
    BY <1>3, <2>1 DEF Segs
  <2>3. Len(disk') = Len(disk)
    BY <1>0, <2>1
  <2> QED BY <2>2, <2>3 DEF EntryOK
<1>9. CASE WriteFails \/ FsyncFails \/ UndoFails \/ CreateFails \/ CutFails
  BY <1>1, <1>9 DEF WriteFails, FsyncFails, UndoFails, CreateFails, CutFails
<1>10. CASE DirSyncFails
  BY <1>10 DEF DirSyncFails, Befalls
<1> QED BY <1>4, <1>5, <1>6, <1>7, <1>8, <1>9, <1>10 DEF WalStep

LEMMA OrderInit == Init => OrderInv
<1> SUFFICES ASSUME Init PROVE OrderInv
  OBVIOUS
<1>1. DiskOK(disk) /\ Len(disk) = 0
  BY DEF Init, WalInit, DiskOK
<1>2. WalInv
  BY <1>1, ClosedOK DEF Init, WalInit, WalInv
<1>3. EntryInv
  BY <1>1 DEF EntryInv, EntryOK
<1>4. rings \in [NS -> RingType] /\ \A n \in NS : rings[n].tail = 0 /\ rings[n].head = 0
  BY DEF Init, NewRings, RingType
<1>5. MainInv
  BY <1>4, NoSourcesType, NsIs DEF Init, WalInit, MainInv, Quiet
<1> QED BY <1>2, <1>3, <1>5 DEF OrderInv

LEMMA OrderNext == ASSUME OrderAssumption, OrderInv, [Next]_vars PROVE OrderInv'
<1>1. WalInv /\ MainInv /\ EntryInv
  BY DEF OrderInv
<1>2. CASE MainStep
  <2>1. wpc = "idle" /\ disk' = disk
    BY <1>1, <1>2, MainIdle
  <2>2. EntryInv'
    BY <1>1, <2>1 DEF EntryInv, EntryOK
  <2> QED BY <1>1, <1>2, <2>2, MainWal, MainMain DEF OrderInv
<1>3. CASE LogStep
  <2>1. WalInv'
    BY <1>1, <1>3, WalStepOK DEF LogStep, OrderAssumption
  <2>2. EntryInv'
    BY <1>1, <1>3, WalStepEntry DEF LogStep
  <2>3. wpc # "idle" /\ rings' = rings /\ srcs' = srcs /\ pc' = pc /\ ni' = ni
    BY <1>3 DEF LogStep, WalStep, Write, WriteFails, Fsync, FsyncFails, Undo, UndoFails, Create, CreateFails,
                DirSync, DirSyncFails, CutTail, CutSync, CutFails, svars
  <2>4. MainInv'
    BY <1>1, <2>3 DEF MainInv, Freed
  <2> QED BY <2>1, <2>2, <2>4 DEF OrderInv
<1>4. ASSUME NEW n \in NS, Push(n) PROVE OrderInv'
  <2>1. disk' = disk /\ w' = w /\ wpc' = wpc /\ wret' = wret /\ pc' = pc /\ ni' = ni /\ srcs' = srcs
        /\ rings' = [rings EXCEPT ![n].head = @ + 1]
    BY <1>4 DEF Push, wvars, svars
  <2>2. WalInv' /\ EntryInv'
    BY <1>1, <2>1 DEF WalInv, EntryInv, EntryOK
  <2> DEFINE r == [rings[n] EXCEPT !.head = rings[n].head + 1]
  <2>3. r \in RingType /\ r.head = rings[n].head + 1 /\ r.tail = rings[n].tail /\ rings[n].head \in Nat
        /\ rings[n].tail \in Nat /\ srcs[n].taken \in Nat
    BY <1>1 DEF MainInv, RingType, SrcType
  <2>4. rings' = [rings EXCEPT ![n] = r]
    BY <2>1
  <2> HIDE DEF r
  <2>5. rings' \in [NS -> RingType] /\ rings'[n] = r /\ \A m \in NS : m # n => rings'[m] = rings[m]
    BY <1>1, <2>3, <2>4 DEF MainInv
  <2>6. ASSUME NEW m \in NS
        PROVE  rings'[m].tail <= rings'[m].head /\ (~Freed(m) => rings'[m].tail + srcs[m].taken <= rings'[m].head)
    <3>1. CASE m = n
      <4>1. rings[n].tail <= rings[n].head /\ (~Freed(n) => rings[n].tail + srcs[n].taken <= rings[n].head)
        BY <1>1 DEF MainInv
      <4> QED BY <2>3, <2>5, <3>1, <4>1
    <3>2. CASE m # n
      BY <1>1, <2>5, <3>2 DEF MainInv
    <3> QED BY <3>1, <3>2
  <2>7. MainInv'
    BY <1>1, <2>1, <2>5, <2>6 DEF MainInv, Freed
  <2> QED BY <2>2, <2>7 DEF OrderInv
<1>5. CASE Tick \/ Signal \/ UNCHANGED vars
  <2>1. disk' = disk /\ w' = w /\ wpc' = wpc /\ wret' = wret /\ pc' = pc /\ ni' = ni /\ srcs' = srcs /\ rings' = rings
    BY <1>5 DEF Tick, Signal, vars, wvars, svars
  <2> QED BY <1>1, <2>1 DEF OrderInv, WalInv, EntryInv, EntryOK, MainInv, Freed
<1>6. CASE Kill
  <2>1. disk' = disk /\ w' = Closed /\ wpc' = "idle" /\ wret' = "none" /\ rings' = rings /\ srcs' = NoSources
        /\ pc' = "down" /\ ni' = 0 /\ "kill" \in Accidents
    BY <1>6 DEF Kill, WalKilled, Gone, Befalls
  <2>2. WalInv'
    BY <1>1, <2>1, ClosedOK DEF WalInv, WalOK
  <2>3. MainInv'
    BY <1>1, <2>1, DownMain DEF MainInv
  <2> QED BY <2>1, <2>2, <2>3 DEF OrderInv, EntryInv
<1>7. CASE PowerCut
  <2>1. w' = Closed /\ wpc' = "idle" /\ wret' = "none" /\ rings' = NewRings(rings[FirstNs].gen + 1) /\ srcs' = NoSources
        /\ pc' = "down" /\ ni' = 0 /\ "power" \in Accidents /\ WalPowerCut
    BY <1>7 DEF PowerCut, WalPowerCut, Gone, Befalls
  <2>2. EntryOK /\ DiskOK(disk)
    BY <1>1, <2>1 DEF EntryInv, OrderAssumption, WalInv, WalOK
  <2>3. DiskOK(disk') /\ \A i \in 1 .. Len(disk') : disk'[i].entry = TRUE
    BY <2>1, <2>2, PowerCutOK
  <2>4. WalInv'
    BY <2>1, <2>3, ClosedOK DEF WalInv
  <2>5. rings' \in [NS -> RingType] /\ \A n \in NS : rings'[n].tail <= rings'[n].head
    <3>1. rings[FirstNs].gen + 1 \in Nat
      BY <1>1, NsIs DEF MainInv, RingType, FirstNs
    <3> QED BY <2>1, <3>1 DEF NewRings, RingType
  <2>6. MainInv'
    BY <2>1, <2>5, DownMain
  <2>7. EntryInv'
    BY <2>3 DEF EntryInv, EntryOK
  <2> QED BY <2>4, <2>6, <2>7 DEF OrderInv
<1> QED BY <1>2, <1>3, <1>4, <1>5, <1>6, <1>7 DEF Next

LEMMA OrderSafe == OrderInv => SeqContiguous /\ CleanIsEarned
<1> SUFFICES ASSUME OrderInv PROVE SeqContiguous /\ CleanIsEarned
  OBVIOUS
<1>1. LogOK(Log)
  BY DiskLog DEF OrderInv, WalInv, WalOK
<1>2. DOMAIN Log = 1 .. Len(Log)
  BY <1>1 DEF LogOK
<1> QED BY <1>1, <1>2 DEF LogOK, SeqContiguous, CleanIsEarned

\* The records of the log are numbered 0, 1, 2, ... across batches, segments and restarts, whatever
\* system calls fail, however often storaged is killed, and through power cuts (wal_commit,
\* wal_open, create_segment).
THEOREM SeqIsContiguous == ASSUME OrderAssumption PROVE Spec => []SeqContiguous
<1>1. OrderInv /\ [Next]_vars => OrderInv'
  BY OrderNext
<1> QED BY <1>1, OrderInit, OrderSafe, PTL DEF Spec

\* A boot record reports a clean end only right behind a SHUTDOWN batch (recover_segment).
THEOREM CleanEndIsEarned == ASSUME OrderAssumption PROVE Spec => []CleanIsEarned
<1>1. OrderInv /\ [Next]_vars => OrderInv'
  BY OrderNext
<1> QED BY <1>1, OrderInit, OrderSafe, PTL DEF Spec

\* What is not yet written is not on the card.
LEMMA FreshAcked ==
  ASSUME NEW d, DiskOK(d), NEW x \in WType, Placed(d, x), OnCard(d, x), x.done = 0, x.half = FALSE
  PROVE  Acked(d, x) = Good(d)
<1> SUFFICES ASSUME x.fd # 0 PROVE Acked(d, x) = Good(d)
  BY DEF Acked
<1> DEFINE f == d[Len(d)].recs
<1>2. d \in Seq(Segs) /\ Len(d) \in Nat /\ x.fd = Len(d) /\ x.fd \in Nat /\ x.seg_bytes \in Nat
  BY DEF DiskOK, Placed, WType
<1>3. Len(d) > 0 /\ d[Len(d)] \in Segs
  BY <1>2
<1>4. f \in Seq(Recs)
  BY <1>3 DEF Segs
<1>5. Len(f) = x.seg_bytes + x.done + (IF x.half THEN 1 ELSE 0) /\ Whole(f, x.seg_bytes)
  BY <1>2 DEF OnCard, Placed
<1>6. Len(f) = x.seg_bytes
  BY <1>2, <1>5
<1>7. GoodLength(f) = x.seg_bytes
  BY <1>4, <1>5, <1>6, WholeLength
<1> QED BY <1>3, <1>7 DEF Acked, Good

---------------------------------------------------------------------------
(* What a batch holds *)

Counted == {"SAMPLE", "RSEQ"}

LEMMA HeldNext ==
  ASSUME NEW y, NEW z, y.buf \in Seq(Recs), NEW r, Len(z.buf) = Len(y.buf) + 1, z.buf[Len(z.buf)] = r,
         \A p \in 1 .. Len(y.buf) : z.buf[p] = y.buf[p]
  PROVE  /\ r.kind \notin Counted => Held(z) = Held(y)
         /\ r.kind \in Counted /\ r \in Recs => Held(z) = Held(y) \cup {r}
<1> DEFINE l == Len(y.buf)
           f == z.buf
<1>1. l \in Nat /\ f[l + 1] = r /\ Len(f) = l + 1
  OBVIOUS
<1>2. Part(f, l) = Part(y.buf, l)
  BY PartSame
<1>3. \A p \in 1 .. l + 1 : p \in 1 .. l \/ p = l + 1
  BY <1>1
<1>4. \A p \in 1 .. l : p \in 1 .. l + 1
  BY <1>1
<1>5. l + 1 \in 1 .. l + 1
  BY <1>1
<1> HIDE DEF f, l
<1>6. Part(f, l + 1) = Part(f, l) \cup {x \in Recs : x = r /\ r.kind \in Counted}
  BY <1>1, <1>3, <1>4, <1>5 DEF Part, Counted
<1>7. Held(z) = Part(f, l + 1) /\ Held(y) = Part(y.buf, l)
  BY <1>1 DEF Held, f, l
<1> QED BY <1>2, <1>6, <1>7

LEMMA OpenHeld == ASSUME NEW x, Filling(x) PROVE Held(OpenBatch(x)) = Held(x)
<1> DEFINE y == OpenBatch(x)
<1>1. /\ Filling(y) /\ y.open_batch = TRUE /\ (x.open_batch => y = x)
      /\ (~x.open_batch => Len(y.buf) = 1)
  BY OpenBatchIs
<1> HIDE DEF y
<1>2. CASE x.open_batch
  BY <1>1, <1>2 DEF y
<1>3. CASE ~x.open_batch
  <2>1. x.buf = <<>> /\ Len(y.buf) = 1 /\ y.buf[1].kind = "BEGIN"
    BY <1>1, <1>3 DEF Filling, Begun
  <2>2. Held(x) = {}
    BY <2>1 DEF Held, Part
  <2>3. Held(y) = {}
    BY <2>1 DEF Held, Part
  <2> QED BY <2>2, <2>3 DEF y
<1> QED BY <1>2, <1>3

\* z is x with more in its batch.
Grown(x, z) == Filling(z) /\ z.open_batch = TRUE /\ z.ring_seq = x.ring_seq /\ z.done = 0 /\ z.half = FALSE

LEMMA WalAddHeld ==
  ASSUME NEW x, Filling(x), NEW kind \in Kinds \ {"BEGIN", "COMMIT", "TORN"},
         NEW ns \in Nat, NEW gen \in Nat, NEW val \in Nat
  PROVE  LET z == WalAdd(x, kind, ns, gen, val)
         IN  /\ Grown(x, z)
             /\ kind \notin Counted => Held(z) = Held(x)
             /\ kind = "RSEQ" => \E r \in Recs : /\ r.kind = "RSEQ" /\ r.ns = ns /\ r.val = val
                                                 /\ Held(z) = Held(x) \cup {r}
<1> DEFINE y == OpenBatch(x)
           r == Rec(kind, y.next_seq, y.boot_id, ns, gen, val)
           z == WalAdd(x, kind, ns, gen, val)
<1>1. Adds1(y, z, r) /\ r \in Recs /\ r.kind = kind /\ r.ns = ns /\ r.val = val
  BY WalAddIs
<1>2. Filling(y) /\ SameLog(x, y)
  BY OpenBatchIs
<1>3. Held(y) = Held(x)
  BY OpenHeld
<1> HIDE DEF y, r, z
<1>4. y.buf \in Seq(Recs)
  BY <1>2 DEF Filling, WType
<1>5. /\ Filling(z) /\ SameLog(y, z) /\ z.open_batch = TRUE
      /\ Len(z.buf) = Len(y.buf) + 1 /\ z.buf[Len(z.buf)] = r
      /\ \A p \in 1 .. Len(y.buf) : z.buf[p] = y.buf[p]
  BY <1>1 DEF Adds1
<1>6. Grown(x, z)
  BY <1>2, <1>5 DEF Grown, SameLog, Filling
<1>7. /\ r.kind \notin Counted => Held(z) = Held(y)
      /\ r.kind \in Counted /\ r \in Recs => Held(z) = Held(y) \cup {r}
  BY <1>4, <1>5, HeldNext
<1>8. kind = "RSEQ" => Held(z) = Held(x) \cup {r}
  BY <1>1, <1>3, <1>7 DEF Counted
<1> QED BY <1>1, <1>3, <1>6, <1>7, <1>8 DEF z

\* COMMIT seals a batch.
LEMMA SealHeld ==
  ASSUME NEW x \in WType, NEW z, z = AppendRec(x, "COMMIT", 0, 0, x.next_txn)
  PROVE  z \in WType /\ Held(z) = Held(x) /\ z.ring_seq = x.ring_seq /\ z.done = x.done /\ z.half = x.half
<1> DEFINE r == Rec("COMMIT", x.next_seq, x.boot_id, 0, 0, x.next_txn)
<1>1. x.next_txn \in Nat /\ x.buf \in Seq(Recs) /\ x.next_seq \in Nat /\ x.boot_id \in Nat
  BY DEF WType
<1>2. "COMMIT" \in Kinds /\ r \in Recs /\ r.kind = "COMMIT"
  BY <1>1 DEF Kinds, Rec, Recs
<1>3. Appended(x, z, r)
  BY <1>1, <1>2, AppendRecIs
<1> HIDE DEF r
<1>4. z.buf = Append(x.buf, r) /\ z \in WType /\ SameLog(x, z)
  BY <1>3 DEF Appended
<1>5. Len(z.buf) = Len(x.buf) + 1 /\ z.buf[Len(z.buf)] = r /\ \A p \in 1 .. Len(x.buf) : z.buf[p] = x.buf[p]
  BY <1>1, <1>2, <1>4
<1>6. Held(z) = Held(x)
  BY <1>1, <1>2, <1>5, HeldNext DEF Counted
<1> QED BY <1>4, <1>6 DEF SameLog

\* k samples more.
HoldsMany(x, z, n, gen, first, k) ==
  /\ Held(x) \subseteq Held(z) /\ z.ring_seq = x.ring_seq
  /\ \A r \in Held(z) : r \in Held(x) \/ r.kind = "SAMPLE"
  /\ \A i \in 1 .. k : \E r \in Held(z) : r.kind = "SAMPLE" /\ r.ns = n /\ r.gen = gen /\ r.val = first + i - 1

LEMMA WalAddSamplesHeld ==
  ASSUME NEW x, Filling(x), NEW n \in Nat, NEW gen \in Nat, NEW first \in Nat, NEW k \in Nat
  PROVE  HoldsMany(x, WalAddSamples(x, n, gen, first, k), n, gen, first, k)
<1> DEFINE y == OpenBatch(x)
           z == WalAddSamples(x, n, gen, first, k)
<1>1. CASE k = 0
  <2>1. z = x
    BY <1>1 DEF WalAddSamples
  <2> QED BY <1>1, <2>1 DEF HoldsMany
<1>2. CASE k # 0
  <2>1. AddsMany(y, z, n, gen, first, k)
    BY <1>2, WalAddSamplesIs
  <2>2. Filling(y) /\ SameLog(x, y)
    BY OpenBatchIs
  <2>3. Held(y) = Held(x)
    BY OpenHeld
  <2> HIDE DEF y, z
  <2>4. /\ Filling(z) /\ SameLog(y, z) /\ Len(z.buf) = Len(y.buf) + k
        /\ \A i \in 1 .. k : /\ z.buf[Len(y.buf) + i].kind = "SAMPLE" /\ z.buf[Len(y.buf) + i].ns = n
                             /\ z.buf[Len(y.buf) + i].gen = gen /\ z.buf[Len(y.buf) + i].val = first + i - 1
        /\ \A p \in 1 .. Len(y.buf) : z.buf[p] = y.buf[p]
    BY <2>1 DEF AddsMany
  <2>5. y.buf \in Seq(Recs) /\ z.buf \in Seq(Recs)
    BY <2>2, <2>4 DEF Filling, WType
  <2> DEFINE l == Len(y.buf)
             g == [i \in 1 .. k |-> z.buf[l + i]]
  <2>6. l \in Nat /\ Part(z.buf, l) = Part(y.buf, l)
    <3>1. l \in Nat /\ \A p \in 1 .. l : z.buf[p] = y.buf[p]
      BY <2>4, <2>5
    <3> HIDE DEF l
    <3> QED BY <3>1, PartSame
  <2>7. Part(z.buf, l + k) = Part(z.buf, l) \cup Part(g, k)
    <3>1. \A p \in 1 .. k : z.buf[l + p] = g[p]
      OBVIOUS
    <3> DEFINE f == z.buf
    <3>2. l \in Nat /\ \A p \in 1 .. k : f[l + p] = g[p]
      BY <2>6, <3>1
    <3> HIDE DEF f, g, l
    <3>3. Part(f, l + k) = Part(f, l) \cup Part(g, k)
      BY <3>2, PartJoin
    <3> QED BY <3>3 DEF f
  <2>8. Held(z) = Held(y) \cup Part(g, k)
    BY <2>4, <2>6, <2>7 DEF Held
  <2>9. ASSUME NEW i \in 1 .. k
        PROVE  /\ g[i] \in Part(g, k) /\ g[i].kind = "SAMPLE" /\ g[i].ns = n
               /\ g[i].gen = gen /\ g[i].val = first + i - 1
    <3>1. g[i] = z.buf[l + i] /\ l + i \in 1 .. Len(z.buf)
      BY <2>4, <2>6
    <3>2. g[i] \in Recs
      BY <2>5, <3>1
    <3>3. g[i].kind = "SAMPLE" /\ g[i].ns = n /\ g[i].gen = gen /\ g[i].val = first + i - 1
      BY <2>4, <3>1
    <3> HIDE DEF g
    <3> QED BY <3>2, <3>3 DEF Part
  <2> HIDE DEF g
  <2>10. \A r \in Part(g, k) : r.kind = "SAMPLE"
    BY <2>9 DEF Part
  <2>11. z.ring_seq = x.ring_seq
    BY <2>2, <2>4 DEF SameLog
  <2> QED BY <2>3, <2>8, <2>9, <2>10, <2>11 DEF z, HoldsMany
<1> QED BY <1>1, <1>2

---------------------------------------------------------------------------
(* What calls do to it *)

AckedNow == Acked(disk, w)
HeldNow  == Held(w)

\* The call ends with all of the good part acknowledged and what x holds in the batch.
Settled(x) == AckedNow' = Good(disk') /\ HeldNow' = Held(x) /\ w'.ring_seq = x.ring_seq

LEMMA StartSettles ==
  ASSUME WalInv', NEW z \in WType, z.done = 0, z.half = FALSE, NEW op, StartCommit(op, z)
  PROVE  Settled(z) /\ wret' = "none"
<1>1. w' = AppendRec(z, "COMMIT", 0, 0, z.next_txn) /\ wpc' = "write" /\ wret' = "none"
  BY DEF StartCommit
<1>2. w' \in WType /\ Held(w') = Held(z) /\ w'.ring_seq = z.ring_seq /\ w'.done = 0 /\ w'.half = FALSE
  BY <1>1, SealHeld
<1>3. DiskOK(disk') /\ Placed(disk', w') /\ OnCard(disk', w')
  BY <1>1 DEF WalInv, WalOK, Sealed
<1>4. Acked(disk', w') = Good(disk')
  BY <1>2, <1>3, FreshAcked
<1> QED BY <1>1, <1>2, <1>4 DEF Settled, AckedNow, HeldNow

LEMMA ReturnSettles ==
  ASSUME WalInv', NEW x, NEW res, Return(x, res)
  PROVE  Settled(x) /\ wret' = res
<1>1. w' = x /\ wpc' = "idle" /\ wret' = res
  BY DEF Return
<1>2. DiskOK(disk') /\ Ready(disk', w')
  BY <1>1 DEF WalInv, WalOK
<1>3. Acked(disk', w') = Good(disk')
  BY <1>2, ReadyAcked
<1> QED BY <1>1, <1>3 DEF Settled, AckedNow, HeldNow

\* A record that is neither a sample nor a ring seq, and its commit.
LEMMA MarkSettles ==
  ASSUME WalInv', NEW x, Filling(x), NEW kind \in Kinds \ ({"BEGIN", "COMMIT", "TORN"} \cup Counted),
         NEW ns \in Nat, NEW gen \in Nat, NEW val \in Nat, NEW op, StartCommit(op, WalAdd(x, kind, ns, gen, val))
  PROVE  Settled(x) /\ wret' = "none"
<1> DEFINE z == WalAdd(x, kind, ns, gen, val)
<1>1. Grown(x, z) /\ Held(z) = Held(x)
  BY WalAddHeld
<1>2. StartCommit(op, z)
  OBVIOUS
<1> HIDE DEF z
<1>3. z \in WType /\ z.done = 0 /\ z.half = FALSE /\ z.ring_seq = x.ring_seq
  BY <1>1 DEF Grown, Filling
<1>4. Settled(z) /\ wret' = "none"
  BY <1>2, <1>3, StartSettles
<1> QED BY <1>1, <1>3, <1>4 DEF Settled

LEMMA NoBatchHeld == ASSUME NEW x, NoBatch(x) PROVE Held(x) = {}
<1>1. x.buf = <<>>
  BY DEF NoBatch, Filling
<1> QED BY <1>1 DEF Held, Part

LEMMA CommittedSettles ==
  ASSUME WalInv', NEW x, NEW res, NoBatch(x), Committed(x, res)
  PROVE  Settled(x) /\ (res = "fail" => wret' = "fail")
<1>1. CASE wop = "commit" \/ (wop = "open" /\ res = "ok")
  <2>1. Return(x, res)
    BY <1>1 DEF Committed
  <2> QED BY <2>1, ReturnSettles
<1>2. CASE wop = "close" /\ res = "ok"
  <2>1. StartCommit("shut", WalAdd(x, "SHUTDOWN", 0, 0, 0)) /\ res # "fail"
    BY <1>2 DEF Committed
  <2>2. "SHUTDOWN" \in Kinds \ ({"BEGIN", "COMMIT", "TORN"} \cup Counted)
    BY DEF Kinds, Counted
  <2>3. Filling(x)
    BY DEF NoBatch
  <2> QED BY <2>1, <2>2, <2>3, MarkSettles
<1>3. CASE ~(wop = "commit" \/ (wop = "open" /\ res = "ok")) /\ ~(wop = "close" /\ res = "ok")
  <2> DEFINE y == [x EXCEPT !.fd = 0]
  <2>1. Return(y, res)
    BY <1>3 DEF Committed
  <2>2. y.buf = x.buf /\ y.ring_seq = x.ring_seq
    BY DEF NoBatch, Filling, WType
  <2> HIDE DEF y
  <2>3. Settled(y) /\ wret' = res
    BY <2>1, ReturnSettles
  <2> QED BY <2>2, <2>3 DEF Settled, Held
<1> QED BY <1>1, <1>2, <1>3

LEMMA BootSettles ==
  ASSUME WalInv', NEW x, NoBatch(x), StartBoot(x)
  PROVE  Settled(x)
<1>1. "BOOT" \in Kinds \ ({"BEGIN", "COMMIT", "TORN"} \cup Counted)
  BY DEF Kinds, Counted
<1>2. Filling(x) /\ x.prev_end \in Nat
  BY DEF NoBatch, Filling, WType
<1> QED BY <1>1, <1>2, MarkSettles DEF StartBoot

LEMMA CallCommitSettles ==
  ASSUME WalInv', NEW x, Filling(x), CallCommit(x)
  PROVE  Settled(x) /\ wret' # "fail"
<1>1. x \in WType /\ x.done = 0 /\ x.half = FALSE
  BY DEF Filling
<1>2. CASE x.open_batch
  <2>1. StartCommit("commit", x)
    BY <1>2 DEF CallCommit
  <2> QED BY <1>1, <2>1, StartSettles
<1>3. CASE ~x.open_batch
  <2>1. Return(x, "ok")
    BY <1>3 DEF CallCommit
  <2> QED BY <2>1, ReturnSettles
<1> QED BY <1>2, <1>3

LEMMA CallCloseSettles ==
  ASSUME WalInv', NEW x, Filling(x), CallClose(x)
  PROVE  Settled(x)
<1>1. x \in WType /\ x.done = 0 /\ x.half = FALSE
  BY DEF Filling
<1>2. CASE x.open_batch
  <2>1. StartCommit("close", x)
    BY <1>2 DEF CallClose
  <2> QED BY <1>1, <2>1, StartSettles
<1>3. CASE ~x.open_batch
  <2>1. StartCommit("shut", WalAdd(x, "SHUTDOWN", 0, 0, 0))
    BY <1>3 DEF CallClose
  <2>2. "SHUTDOWN" \in Kinds \ ({"BEGIN", "COMMIT", "TORN"} \cup Counted)
    BY DEF Kinds, Counted
  <2> QED BY <2>1, <2>2, MarkSettles
<1> QED BY <1>2, <1>3

---------------------------------------------------------------------------
(* What note_ring_seq adds *)

\* A ring seq of a source that has samples in the batch.
OwnMark(r) == r.kind = "RSEQ" /\ r.ns \in NS /\ srcs[r.ns].added /\ r.val = srcs[r.ns].last_seq

Noted(x, z) ==
  /\ Filling(z) /\ z.ring_seq = x.ring_seq /\ Held(x) \subseteq Held(z)
  /\ \A r \in Held(z) : r \in Held(x) \/ OwnMark(r)

LEMMA NoteRingSeqHeld ==
  ASSUME MainInv, NEW x, Filling(x), NEW n \in Nat
  PROVE  Noted(x, NoteRingSeq(x, n))
<1>1. CASE n \in NS /\ srcs[n].added
  <2> DEFINE z == WalAdd(x, "RSEQ", n, 0, srcs[n].last_seq)
  <2>1. srcs[n].last_seq \in Nat
    BY <1>1 DEF MainInv, SrcType
  <2>2. "RSEQ" \in Kinds \ {"BEGIN", "COMMIT", "TORN"}
    BY DEF Kinds
  <2>3. /\ Grown(x, z)
        /\ \E r \in Recs : r.kind = "RSEQ" /\ r.ns = n /\ r.val = srcs[n].last_seq /\ Held(z) = Held(x) \cup {r}
    BY <2>1, <2>2, WalAddHeld
  <2>4. NoteRingSeq(x, n) = z
    BY <1>1 DEF NoteRingSeq
  <2> HIDE DEF z
  <2> QED BY <1>1, <2>3, <2>4 DEF Noted, Grown, OwnMark
<1>2. CASE ~(n \in NS /\ srcs[n].added)
  <2>1. NoteRingSeq(x, n) = x
    BY <1>2 DEF NoteRingSeq
  <2> QED BY <2>1 DEF Noted
<1> QED BY <1>1, <1>2

LEMMA NoteRingSeqsHeld == ASSUME MainInv, NEW x, Filling(x) PROVE Noted(x, NoteRingSeqs(x))
<1> DEFINE y == NoteRingSeq(x, 0)
           z == NoteRingSeq(y, 1)
<1>1. Noted(x, y)
  BY NoteRingSeqHeld
<1> HIDE DEF y
<1>2. Filling(y)
  BY <1>1 DEF Noted
<1>3. Noted(y, z)
  BY <1>2, NoteRingSeqHeld
<1> HIDE DEF z
<1>4. Noted(x, z)
  BY <1>1, <1>3 DEF Noted
<1> QED BY <1>4 DEF NoteRingSeqs, y, z

---------------------------------------------------------------------------
(* What the card holds at any time *)

Calls == {"idle", "write", "fsync", "undo", "create", "dirsync", "cut", "cutsync"}

\* A segment open at its end, or cut back to what recovery found.
LEMMA CutAcked ==
  ASSUME WalInv, wpc \in {"cut", "cutsync"}
  PROVE  AckedNow = Good(disk) /\ HeldNow = {}
<1>1. DiskOK(disk) /\ NoBatch(w) /\ w.fd # 0 /\ Placed(disk, w) /\ w \in WType
  BY DEF WalInv, WalOK, NoBatch, Filling
<1>2. HeldNow = {}
  BY <1>1, NoBatchHeld DEF HeldNow
<1>3. CASE wpc = "cut"
  <2>1. w.seg_bytes = GoodLength(disk[w.fd].recs) /\ w.fd = Len(disk) /\ Len(disk) # 0
    BY <1>1, <1>3 DEF WalInv, WalOK, Placed
  <2> QED BY <1>1, <1>2, <2>1 DEF AckedNow, Acked, Good
<1>4. CASE wpc = "cutsync"
  <2>1. OnCard(disk, w) /\ w.done = 0 /\ w.half = FALSE
    BY <1>1, <1>4 DEF WalInv, WalOK, NoBatch, Filling
  <2> QED BY <1>1, <1>2, <2>1, FreshAcked DEF AckedNow
<1> QED BY <1>3, <1>4

LEMMA GoodIs ==
  ASSUME WalInv, wpc \in Calls
  PROVE  Good(disk) = AckedNow \/ Good(disk) = AckedNow \cup HeldNow
<1>1. DiskOK(disk)
  BY DEF WalInv, WalOK
<1>2. CASE wpc = "idle"
  BY <1>1, <1>2, ReadyAcked DEF WalInv, WalOK, AckedNow
<1>3. CASE wpc \in {"write", "fsync", "undo"}
  BY <1>1, <1>3, SealedGood DEF WalInv, WalOK, AckedNow, HeldNow
<1>4. CASE wpc \in {"create", "dirsync"}
  BY <1>4 DEF WalInv, WalOK, AckedNow, Acked
<1>5. CASE wpc \in {"cut", "cutsync"}
  BY <1>5, CutAcked
<1> QED BY <1>2, <1>3, <1>4, <1>5 DEF Calls

---------------------------------------------------------------------------
(* What a system call does to what is acknowledged *)

\* Nothing, or the batch is acknowledged, or it is given up and the call fails.
Moves ==
  /\ w'.ring_seq = w.ring_seq
  /\ \/ AckedNow' = AckedNow /\ HeldNow' = HeldNow
     \/ AckedNow' = AckedNow \cup HeldNow /\ HeldNow' = {}
     \/ AckedNow' = AckedNow /\ HeldNow' = {} /\ wret' = "fail"

\* The newest segment changes behind what is acknowledged.
LEMMA NewestAcked ==
  ASSUME NEW d \in Seq(Segs), Len(d) > 0, NEW g \in Segs, NEW x, x.fd # 0, NEW y, y.fd # 0, y.seg_bytes = x.seg_bytes,
         \A p \in 1 .. x.seg_bytes : g.recs[p] = d[Len(d)].recs[p]
  PROVE  LET e == [d EXCEPT ![Len(d)] = g]
         IN  Older(e) = Older(d) /\ Len(e) = Len(d) /\ e[Len(d)] = g /\ Acked(e, y) = Acked(d, x)
<1> DEFINE e == [d EXCEPT ![Len(d)] = g]
<1>1. Len(d) \in Nat /\ Len(d) \in 1 .. Len(d)
  OBVIOUS
<1>2. e \in Seq(Segs) /\ Len(e) = Len(d) /\ e[Len(d)] = g /\ \A i \in 1 .. Len(d) - 1 : e[i] = d[i]
  BY <1>1
<1> HIDE DEF e
<1>3. Older(e) = Older(d)
  BY <1>2, OlderSame
<1>4. Part(g.recs, x.seg_bytes) = Part(d[Len(d)].recs, x.seg_bytes)
  BY PartSame
<1>5. Acked(e, y) = Acked(d, x)
  BY <1>2, <1>3, <1>4 DEF Acked
<1> QED BY Zenon, <1>2, <1>3, <1>5 DEF e

LEMMA WriteMoves == ASSUME WalInv, Write PROVE Moves
<1> DEFINE a == disk[Len(disk)]
           k == w.seg_bytes
<1>1. DiskOK(disk) /\ Sealed(disk, w) /\ w.fd # 0
  BY DEF WalInv, WalOK, Write
<1>2. w.fd = Len(disk) /\ Len(disk) > 0 /\ a \in Segs /\ Writing(a.recs, w.buf, k, w.done, w.half) /\ w \in WType
      /\ disk \in Seq(Segs)
  BY <1>1, SealedIs DEF Sealed, Filled, DiskOK
<1>3. PICK m \in w.done .. Len(w.buf), j \in BOOLEAN :
        /\ j => m < Len(w.buf)
        /\ disk' = [disk EXCEPT ![w.fd].recs =
                      SubSeq(@, 1, Len(@) - (IF w.half THEN 1 ELSE 0))
                        \o SubSeq(w.buf, w.done + 1, m)
                        \o (IF j THEN <<Torn>> ELSE <<>>)]
        /\ w' = [w EXCEPT !.done = m, !.half = j]
  BY Zenon DEF Write
<1> DEFINE g == NewFile(a.recs, w.buf, w.done, w.half, m, j)
           b == [a EXCEPT !.recs = g]
<1>4. /\ a.recs \in Seq(Recs) /\ w.buf \in Seq(Recs) /\ k \in Nat /\ w.done \in 0 .. Len(w.buf) /\ w.half \in BOOLEAN
      /\ Len(a.recs) = k + w.done + (IF w.half THEN 1 ELSE 0) /\ Whole(a.recs, k)
      /\ \A p \in 1 .. w.done : a.recs[k + p] = w.buf[p]
  BY <1>2 DEF Writing
<1>5. g \in Seq(Recs) /\ \A p \in 1 .. k + w.done : g[p] = a.recs[p]
  <2>1. Wrote(a.recs, g, w.buf, k, w.done, m, j)
    BY <1>3, <1>4, WriteFile
  <2> QED BY <2>1 DEF Wrote
<1>6. disk' = [disk EXCEPT ![Len(disk)] = b]
  BY <1>2, <1>3 DEF NewFile
<1> HIDE DEF g
<1>7. b \in Segs /\ b.recs = g
  BY <1>2, <1>5 DEF Segs
<1>8. \A p \in 1 .. k : b.recs[p] = a.recs[p]
  <2>1. \A p \in 1 .. k : p \in 1 .. k + w.done
    BY <1>4
  <2> QED BY <1>5, <1>7, <2>1
<1> HIDE DEF b
<1>9. w'.fd = w.fd /\ w'.seg_bytes = k /\ w'.buf = w.buf /\ w'.ring_seq = w.ring_seq
  BY <1>2, <1>3 DEF WType
<1>10. AckedNow' = AckedNow
  <2>1. Acked([disk EXCEPT ![Len(disk)] = b], w') = Acked(disk, w)
    BY <1>1, <1>2, <1>7, <1>8, <1>9, NewestAcked
  <2> QED BY <1>6, <2>1 DEF AckedNow
<1>11. HeldNow' = HeldNow
  BY <1>9 DEF HeldNow, Held
<1> QED BY <1>9, <1>10, <1>11 DEF Moves

LEMMA FsyncMoves == ASSUME WalInv, WalInv', Fsync PROVE Moves
<1> DEFINE x == Accept(w)
           y == [x EXCEPT !.fd = 0]
<1>1. DiskOK(disk) /\ Sealed(disk, w) /\ w.fd # 0 /\ w.done = Len(w.buf) /\ w.half = FALSE /\ w \in WType
  BY DEF WalInv, WalOK, Fsync, Sealed, Filled
<1>2. disk \in Seq(Segs) /\ w.fd \in 1 .. Len(disk)
  BY <1>1 DEF DiskOK, Sealed, Placed, WType
<1>3. SameFiles(disk, disk')
  BY <1>2, SyncIs DEF Fsync
<1>4. Good(disk') = AckedNow \cup HeldNow
  BY <1>1, <1>2, <1>3, SameFilesGood, SealedGood DEF AckedNow, HeldNow
<1>5. NoBatch(x) /\ Held(x) = {}
  BY <1>1, AcceptIs, NoBatchHeld
<1>6. x.ring_seq = w.ring_seq
  BY <1>1 DEF Accept, WType
<1> HIDE DEF x
<1>7. CASE x.seg_bytes >= SegmentRecords
  <2>1. w' = y
    BY <1>7 DEF Fsync, x
  <2>2. NoBatch(y) /\ y.fd = 0
    BY <1>5, CloseIs
  <2>3. y.ring_seq = x.ring_seq
    BY <1>5 DEF NoBatch, Filling, WType
  <2> HIDE DEF y
  <2>4. Held(y) = {}
    BY <2>2, NoBatchHeld
  <2>5. AckedNow' = Good(disk')
    BY <2>1, <2>2 DEF AckedNow, Acked
  <2> QED BY <1>4, <1>6, <2>1, <2>3, <2>4, <2>5 DEF Moves, HeldNow
<1>8. CASE ~(x.seg_bytes >= SegmentRecords)
  <2>1. Committed(x, "ok")
    BY <1>8 DEF Fsync, x
  <2>2. Settled(x)
    BY <1>5, <2>1, CommittedSettles
  <2> QED BY <1>4, <1>5, <1>6, <2>2 DEF Settled, Moves
<1> QED BY <1>7, <1>8

\* What a cut leaves of the card.
LEMMA CutGood ==
  ASSUME NEW d \in Seq(Segs), Len(d) > 0, NEW n \in Nat, NEW e, e = [d EXCEPT ![Len(d)] = Truncate(@, n)],
         CutTo(d, e, n)
  PROVE  Good(e) = Older(d) \cup Part(d[Len(d)].recs, n)
<1> DEFINE b == e[Len(d)]
           f == d[Len(d)].recs
<1>1. Len(d) \in Nat /\ DOMAIN d = 1 .. Len(d)
  OBVIOUS
<1>2. \A i \in 1 .. Len(d) - 1 : e[i] = d[i]
  <2>1. \A i \in DOMAIN d : i # Len(d) => e[i] = d[i]
    OBVIOUS
  <2> DEFINE m == Len(d)
  <2>2. m \in Nat /\ DOMAIN d = 1 .. m
    BY <1>1
  <2> HIDE DEF m
  <2>3. \A i \in 1 .. m - 1 : i \in 1 .. m /\ i # m
    BY <2>2
  <2> QED BY <2>1, <2>2, <2>3 DEF m
<1>3. DiskOK(e) /\ Len(e) = Len(d) /\ Len(b.recs) = n /\ Whole(b.recs, n) /\ \A p \in 1 .. n : b.recs[p] = f[p]
  BY DEF CutTo
<1>4. Older(e) = Older(d)
  BY Zenon, <1>2, <1>3, OlderSame
<1>5. b.recs \in Seq(Recs)
  <2>1. e \in Seq(Segs)
    BY <1>3 DEF DiskOK
  <2>2. Len(d) \in 1 .. Len(e)
    BY <1>1, <1>3
  <2>3. b \in Segs
    BY <2>1, <2>2
  <2> QED BY <2>3 DEF Segs
<1> HIDE DEF b, f
<1>6. GoodLength(b.recs) = n
  BY <1>3, <1>5, WholeLength
<1>7. Part(b.recs, n) = Part(f, n)
  BY <1>3, PartSame
<1> QED BY <1>3, <1>4, <1>6, <1>7 DEF Good, b, f

LEMMA UndoMoves == ASSUME WalInv, WalInv', Undo PROVE Moves
<1> DEFINE a == disk[Len(disk)]
           x == DropBatch(w)
<1>1. DiskOK(disk) /\ Sealed(disk, w) /\ w.fd # 0 /\ w \in WType /\ disk \in Seq(Segs)
  BY DEF WalInv, WalOK, Undo, Sealed, Filled, DiskOK
<1>2. w.fd = Len(disk) /\ Len(disk) > 0 /\ w.seg_bytes <= Len(a.recs) /\ w.seg_bytes \in Nat /\ Whole(a.recs, w.seg_bytes)
  BY <1>1, SealedIs DEF Writing
<1>3. disk' = [disk EXCEPT ![Len(disk)] = Truncate(@, w.seg_bytes)]
  BY <1>2 DEF Undo
<1>4. CutTo(disk, disk', w.seg_bytes)
  BY <1>1, <1>2, <1>3, TruncateIs
<1>5. Good(disk') = AckedNow
  <2>1. Good(disk') = Older(disk) \cup Part(disk[Len(disk)].recs, w.seg_bytes)
    BY <1>1, <1>2, <1>3, <1>4, CutGood
  <2> QED BY <1>1, <2>1 DEF AckedNow, Acked
<1>6. NoBatch(x) /\ Held(x) = {} /\ x.ring_seq = w.ring_seq
  <2>1. NoBatch(x)
    BY <1>1, DropIs
  <2>2. x.ring_seq = w.ring_seq
    BY <1>1 DEF DropBatch, WType
  <2> HIDE DEF x
  <2> QED BY <2>1, <2>2, NoBatchHeld
<1>7. Committed(x, "fail")
  BY DEF Undo
<1> HIDE DEF x
<1>8. Settled(x) /\ wret' = "fail"
  BY <1>6, <1>7, CommittedSettles
<1> QED BY <1>5, <1>6, <1>8 DEF Settled, Moves

LEMMA UndoFailsMoves == ASSUME WalInv, WalInv', UndoFails, "undo" \notin Accidents PROVE Moves
<1> DEFINE x == DropBatch(w)
<1>1. w.fd = 0 /\ disk' = disk /\ Committed(x, "fail") /\ w \in WType
  BY DEF WalInv, WalOK, UndoFails, Befalls, Sealed, Filled
<1>2. NoBatch(x)
  BY <1>1, DropIs
<1>3. x.ring_seq = w.ring_seq
  BY <1>1 DEF DropBatch, WType
<1>4. AckedNow = Good(disk)
  BY <1>1 DEF AckedNow, Acked
<1> HIDE DEF x
<1>5. Held(x) = {} /\ Settled(x) /\ wret' = "fail"
  BY <1>1, <1>2, CommittedSettles, NoBatchHeld
<1> QED BY <1>1, <1>3, <1>4, <1>5 DEF Settled, Moves

\* A new segment has nothing in it.
LEMMA AppendGood ==
  ASSUME NEW d, DiskOK(d), NEW z \in Segs, z.recs = <<>>,
         Len(d) > 0 => Whole(d[Len(d)].recs, Len(d[Len(d)].recs))
  PROVE  Good(Append(d, z)) = Good(d)
<1> DEFINE e == Append(d, z)
<1>1. d \in Seq(Segs) /\ Len(d) \in Nat
  BY DEF DiskOK
<1>2. Len(e) = Len(d) + 1 /\ e[Len(d) + 1] = z /\ \A i \in 1 .. Len(d) : e[i] = d[i]
  BY <1>1
<1> HIDE DEF e
<1>3. Part(z.recs, GoodLength(z.recs)) = {}
  <2>1. z.recs \in Seq(Recs) /\ Len(z.recs) = 0
    BY DEF Segs
  <2>2. GoodLength(z.recs) \in 0 .. Len(z.recs)
    BY <2>1, GoodLengthIs
  <2>3. GoodLength(z.recs) = 0
    BY <2>1, <2>2
  <2> QED BY <2>3 DEF Part
<1>4. Good(e) = Older(e)
  <2>1. Len(e) # 0 /\ e[Len(e)] = z
    BY <1>1, <1>2
  <2> QED BY <1>3, <2>1 DEF Good
<1>5. CASE Len(d) = 0
  <2>1. 1 .. Len(e) - 1 = {}
    BY <1>2, <1>5
  <2>2. Older(e) = {}
    BY <2>1 DEF Older
  <2> QED BY <1>4, <1>5, <2>2 DEF Good, e
<1>6. CASE Len(d) # 0
  <2> DEFINE f == d[Len(d)].recs
  <2>1. Len(d) \in 1 .. Len(d) /\ Len(d) > 0 /\ Len(e) - 1 = Len(d)
    BY <1>1, <1>2, <1>6
  <2>2. f \in Seq(Recs)
    <3>1. d[Len(d)] \in Segs
      BY <1>1, <2>1
    <3> QED BY <3>1 DEF Segs
  <2>3. GoodLength(f) = Len(f)
    BY <2>1, <2>2, WholeLength
  <2>4. Good(d) = Older(d) \cup Part(f, Len(f))
    BY <1>6, <2>3 DEF Good
  <2>5. ASSUME NEW i \in 1 .. Len(e) - 1 PROVE e[i] = d[i] /\ (i \in 1 .. Len(d) - 1 \/ i = Len(d))
    <3>1. i \in 1 .. Len(d)
      BY <2>1
    <3> QED BY <1>1, <1>2, <3>1
  <2>6. \A i \in 1 .. Len(d) - 1 : e[i] = d[i] /\ i \in 1 .. Len(e) - 1
    BY <1>1, <1>2, <2>1
  <2>7. e[Len(d)] = d[Len(d)] /\ Len(d) \in 1 .. Len(e) - 1
    BY <1>2, <2>1
  <2>8. ASSUME NEW r \in Older(e) PROVE r \in Good(d)
    <3>1. PICK i \in 1 .. Len(e) - 1 : r \in Part(e[i].recs, Len(e[i].recs))
      BY <2>8 DEF Older
    <3>2. r \in Recs
      BY <2>8 DEF Older
    <3> QED BY <2>4, <2>5, <3>1, <3>2 DEF Older
  <2>9. ASSUME NEW r \in Good(d) PROVE r \in Older(e)
    <3>1. r \in Recs
      BY <2>4, <2>9 DEF Older, Part
    <3>2. CASE r \in Older(d)
      BY <2>6, <3>1, <3>2 DEF Older
    <3>3. CASE r \in Part(f, Len(f))
      BY <2>7, <3>1, <3>3 DEF Older
    <3> QED BY <2>4, <2>9, <3>2, <3>3
  <2> QED BY <1>4, <2>8, <2>9 DEF e
<1> QED BY <1>5, <1>6

LEMMA CreateMoves == ASSUME WalInv, Create PROVE Moves
<1>1. DiskOK(disk) /\ w.fd = 0 /\ NextFree(disk, w) /\ w.next_seq \in Nat
  BY DEF WalInv, WalOK, Create, NoBatch, Filling, WType
<1>2. disk' = Append(disk, Segment(w.next_seq)) /\ w' = w
  BY DEF Create
<1>3. Segment(w.next_seq) \in Segs /\ Segment(w.next_seq).recs = <<>>
  BY <1>1 DEF Segment, Segs
<1>4. Good(disk') = Good(disk)
  BY <1>1, <1>2, <1>3, AppendGood DEF NextFree
<1> QED BY <1>1, <1>2, <1>4 DEF Moves, AckedNow, Acked, HeldNow

LEMMA NotMadeMoves == ASSUME WalInv, WalInv', CreateFails \/ DirSyncFails PROVE Moves
<1>1. NoBatch(w) /\ w.fd = 0 /\ disk' = disk /\ Committed(w, "fail")
  BY DEF WalInv, WalOK, CreateFails, DirSyncFails
<1>2. Settled(w)
  BY <1>1, CommittedSettles
<1> QED BY <1>1, <1>2 DEF Settled, Moves, AckedNow, Acked, HeldNow

LEMMA DirSyncMoves == ASSUME WalInv, WalInv', DirSync PROVE Moves
<1> DEFINE x == [w EXCEPT !.fd = Len(disk), !.seg_bytes = 0]
<1>1. DiskOK(disk) /\ NoBatch(w) /\ w.fd = 0 /\ w \in WType
  BY DEF WalInv, WalOK, DirSync, NoBatch, Filling
<1>2. disk \in Seq(Segs) /\ Len(disk) \in Nat
  BY <1>1 DEF DiskOK
<1>3. Good(disk') = Good(disk)
  BY <1>2, DirSyncIs, SameFilesGood DEF DirSync
<1>4. x \in WType /\ x.ring_seq = w.ring_seq /\ x.open_batch = w.open_batch /\ x.buf = w.buf
      /\ x.done = w.done /\ x.half = w.half
  BY <1>1, <1>2 DEF WType
<1>5. StartBoot(x) \/ Committed(x, "ok")
  BY DEF DirSync
<1> HIDE DEF x
<1>6. NoBatch(x)
  BY <1>1, <1>4 DEF NoBatch, Filling
<1>7. Settled(x)
  BY <1>5, <1>6, BootSettles, CommittedSettles
<1>8. Held(x) = HeldNow
  BY <1>4 DEF Held, HeldNow
<1> QED BY <1>1, <1>3, <1>4, <1>7, <1>8 DEF Settled, Moves, AckedNow, Acked

LEMMA CutTailMoves == ASSUME WalInv, CutTail PROVE Moves
<1> DEFINE a == disk[Len(disk)]
           b == Truncate(a, w.seg_bytes)
<1>1. DiskOK(disk) /\ NoBatch(w) /\ w.fd # 0 /\ Placed(disk, w) /\ w \in WType
  BY DEF WalInv, WalOK, CutTail, NoBatch, Filling
<1>2. disk \in Seq(Segs) /\ w.seg_bytes \in Nat /\ w.fd \in Nat
  BY <1>1 DEF DiskOK, WType
<1>3. w.fd = Len(disk) /\ Len(disk) > 0 /\ w.seg_bytes <= Len(a.recs)
  BY <1>1, <1>2 DEF Placed
<1>4. a \in Segs
  BY <1>2, <1>3
<1>5. a.recs \in Seq(Recs)
  BY <1>4 DEF Segs
<1>6. disk' = [disk EXCEPT ![Len(disk)] = b] /\ w' = w
  BY <1>3 DEF CutTail
<1>7. b.recs = SubSeq(a.recs, 1, w.seg_bytes) /\ b \in Segs
  <2> DEFINE f == SubSeq(a.recs, 1, w.seg_bytes)
             s == IF a.synced > w.seg_bytes THEN w.seg_bytes ELSE a.synced
  <2>1. f \in Seq(Recs) /\ s \in Nat
    BY <1>2, <1>3, <1>4, <1>5 DEF Segs
  <2>2. b = [a EXCEPT !.recs = f, !.synced = s]
    BY DEF Truncate
  <2> HIDE DEF f, s, b
  <2> QED BY <1>4, <2>1, <2>2 DEF Segs, f
<1>8. \A p \in 1 .. w.seg_bytes : b.recs[p] = a.recs[p]
  BY <1>2, <1>3, <1>5, <1>7
<1> HIDE DEF b
<1>9. AckedNow' = AckedNow
  <2>1. disk \in Seq(Segs) /\ Len(disk) > 0 /\ b \in Segs /\ w.fd # 0
    BY <1>1, <1>2, <1>3, <1>7
  <2>2. Acked([disk EXCEPT ![Len(disk)] = b], w) = Acked(disk, w)
    BY <1>8, <2>1, NewestAcked
  <2> QED BY <1>6, <2>2 DEF AckedNow
<1> QED BY <1>6, <1>9 DEF Moves, HeldNow

LEMMA CutSyncMoves == ASSUME WalInv, WalInv', CutSync PROVE Moves
<1>1. DiskOK(disk) /\ NoBatch(w) /\ w.fd # 0 /\ Placed(disk, w) /\ w \in WType /\ StartBoot(w)
  BY DEF WalInv, WalOK, CutSync, NoBatch, Filling
<1>2. disk \in Seq(Segs) /\ w.fd \in 1 .. Len(disk)
  BY <1>1 DEF DiskOK, Placed, WType
<1>3. Good(disk') = Good(disk)
  BY <1>2, SyncIs, SameFilesGood DEF CutSync
<1>4. AckedNow = Good(disk)
  BY CutAcked DEF CutSync
<1>5. Settled(w)
  BY <1>1, BootSettles
<1> QED BY <1>3, <1>4, <1>5 DEF Settled, Moves, HeldNow

LEMMA CutFailsMoves == ASSUME WalInv, WalInv', CutFails PROVE Moves
<1> DEFINE y == [w EXCEPT !.fd = 0]
<1>1. NoBatch(w) /\ w \in WType /\ disk' = disk /\ Return(y, "fail")
  BY DEF WalInv, WalOK, CutFails, NoBatch, Filling
<1>2. y.ring_seq = w.ring_seq /\ y.buf = w.buf
  BY <1>1 DEF WType
<1> HIDE DEF y
<1>3. Settled(y)
  BY <1>1, ReturnSettles
<1>4. AckedNow = Good(disk)
  BY CutAcked DEF CutFails
<1> QED BY <1>1, <1>2, <1>3, <1>4 DEF Settled, Moves, HeldNow, Held

LEMMA WalStepMoves == ASSUME WalInv, WalInv', WalStep, "undo" \notin Accidents PROVE Moves
<1>1. CASE WriteFails \/ FsyncFails
  BY <1>1 DEF WriteFails, FsyncFails, Moves, AckedNow, HeldNow
<1> QED BY <1>1, WriteMoves, FsyncMoves, UndoMoves, UndoFailsMoves, CreateMoves, NotMadeMoves, DirSyncMoves,
           CutTailMoves, CutSyncMoves, CutFailsMoves DEF WalStep

---------------------------------------------------------------------------
(* What is released is in the log *)

\* S has the sample with number q of ring n; it has them all up to m.
Said(S, n, q)   == \E r \in S : r.kind = "SAMPLE" /\ r.ns = n /\ r.gen = 1 /\ r.val = q
SaidTo(S, n, m) == \A q \in 0 .. m : Said(S, n, q)

\* A ring seq in S is said only of samples that are in T.
Marked(S, T) == \A r \in S : r.kind = "RSEQ" => SaidTo(T, r.ns, r.val)

\* Ring n is r, its source s and its recovered seq m: everything in front of the tail is
\* acknowledged, what is taken is acknowledged or in the batch, what is to be skipped is acknowledged.
SlotOK(n, A, B, r, s, m, live) ==
  /\ r.gen = 1 /\ SaidTo(A, n, r.tail - 1)
  /\ live => \A q \in r.tail .. r.tail + s.taken - 1 : Said(A \cup B, n, q)
  /\ live /\ s.added => s.last_seq < r.tail + s.taken
  /\ s.skip => SaidTo(A, n, s.skip_seq)
  /\ m.has => SaidTo(A, n, m.seq)

\* What source n has taken still counts: it is not released and its commit has not failed.
Live(n) == ~Freed(n) /\ wret # "fail"

SlotInv(n) == SlotOK(n, AckedNow, HeldNow, rings[n], srcs[n], w.ring_seq[n], Live(n))

MarkInv == Marked(AckedNow, AckedNow) /\ Marked(HeldNow, AckedNow \cup HeldNow)

FreedIn(s) == \E n \in NS : \E q \in 0 .. rings[n].tail - 1 : s = <<n, 1, q>>

LoggedInv ==
  /\ wpc \in Calls
  /\ \A n \in NS : SlotInv(n)
  /\ MarkInv
  /\ \A s \in released : FreedIn(s)
  /\ pc = "down" => srcs = NoSources
  /\ pc \in {"release", "stop_release"} => w.open_batch = FALSE

LEMMA SaidMore ==
  ASSUME NEW S, NEW T, S \subseteq T, NEW n
  PROVE  (\A q : Said(S, n, q) => Said(T, n, q)) /\ (\A m : SaidTo(S, n, m) => SaidTo(T, n, m))
BY DEF Said, SaidTo

LEMMA MarkedMore ==
  ASSUME NEW S, NEW T, NEW U, T \subseteq U, Marked(S, T)
  PROVE  Marked(S, U)
<1> SUFFICES ASSUME NEW r \in S, r.kind = "RSEQ" PROVE SaidTo(U, r.ns, r.val)
  BY DEF Marked
<1>1. SaidTo(T, r.ns, r.val)
  BY DEF Marked
<1> QED BY <1>1, SaidMore

LEMMA SlotKept ==
  ASSUME NEW n, NEW A, NEW B, NEW r, NEW s, NEW m, NEW live, SlotOK(n, A, B, r, s, m, live),
         NEW C, NEW D, NEW z, NEW k, NEW alive, A \subseteq C, alive => live /\ A \cup B \subseteq C \cup D,
         z.gen = r.gen, z.tail = r.tail, k.has => SaidTo(C, n, k.seq)
  PROVE  SlotOK(n, C, D, z, s, k, alive)
<1>1. /\ r.gen = 1 /\ SaidTo(A, n, r.tail - 1) /\ (s.skip => SaidTo(A, n, s.skip_seq))
      /\ (live => \A q \in r.tail .. r.tail + s.taken - 1 : Said(A \cup B, n, q))
      /\ (live /\ s.added => s.last_seq < r.tail + s.taken)
  BY DEF SlotOK
<1>2. SaidTo(C, n, r.tail - 1) /\ (s.skip => SaidTo(C, n, s.skip_seq))
  BY <1>1, SaidMore
<1>3. alive => \A q \in r.tail .. r.tail + s.taken - 1 : Said(C \cup D, n, q)
  BY <1>1, SaidMore
<1> QED BY <1>1, <1>2, <1>3 DEF SlotOK

\* Nothing is taken.
LEMMA SlotNew ==
  ASSUME NEW n, NEW A, NEW B, NEW r, r.tail \in Nat, NEW s, NEW m, NEW live, SlotOK(n, A, B, r, s, m, live),
         NEW C, NEW D, NEW t, NEW k, NEW alive, A \subseteq C, t.taken = 0, t.added = FALSE,
         t.skip => SaidTo(C, n, t.skip_seq), k.has => SaidTo(C, n, k.seq)
  PROVE  SlotOK(n, C, D, r, t, k, alive)
<1>1. r.gen = 1 /\ SaidTo(A, n, r.tail - 1)
  BY DEF SlotOK
<1>2. SaidTo(C, n, r.tail - 1)
  BY <1>1, SaidMore
<1>3. r.tail .. r.tail + t.taken - 1 = {}
  OBVIOUS
<1> QED BY <1>1, <1>2, <1>3 DEF SlotOK

\* Every step ends some call or starts one.
LEMMA MainCalls == ASSUME wpc \in Calls, MainStep PROVE wpc' \in Calls
BY Zenon DEF MainStep, Start, OpenDone, NoteGeneration, NoteDone, Drain, Flush, Idle, FlushDone, Release, Stop, StopDone,
       StopRelease, CloseDone, Exit, CallOpen, OpenFirst, OpenRecover, StartBoot, StartCommit, CallCommit, CallClose,
       Return, wvars, Calls

LEMMA CommittedCalls == ASSUME NEW x, NEW res, Committed(x, res) PROVE wpc' \in Calls
<1>1. (\E y : Return(y, res)) \/ (\E y : StartCommit("shut", y))
  BY DEF Committed
<1> QED BY <1>1 DEF Return, StartCommit, Calls

LEMMA WalCalls == ASSUME WalStep PROVE wpc' \in Calls /\ wpc # "idle"
<1>1. CASE Write \/ WriteFails \/ FsyncFails \/ Create \/ CutTail \/ CutSync \/ CutFails
  BY <1>1 DEF Write, WriteFails, FsyncFails, Create, CutTail, CutSync, CutFails, StartBoot, StartCommit, Return, Calls
<1>2. CASE Fsync \/ Undo \/ UndoFails \/ CreateFails \/ DirSync \/ DirSyncFails
  <2>1. (\E x, res : Committed(x, res)) \/ wpc' = "create" \/ wpc' = "write"
    BY <1>2 DEF Fsync, Undo, UndoFails, CreateFails, DirSync, DirSyncFails, StartBoot, StartCommit
  <2>2. wpc # "idle"
    BY <1>2 DEF Fsync, Undo, UndoFails, CreateFails, DirSync, DirSyncFails
  <2> QED BY <2>1, <2>2, CommittedCalls DEF Calls
<1> QED BY <1>1, <1>2 DEF WalStep

---------------------------------------------------------------------------
(* The process goes *)

LEMMA DownLogged ==
  ASSUME LoggedInv, MainInv, disk' = disk, w' = Closed, wpc' = "idle", srcs' = NoSources, pc' = "down",
         rings' = rings, released' = released, Good(disk) = AckedNow \/ Good(disk) = AckedNow \cup HeldNow
  PROVE  LoggedInv'
<1>1. AckedNow' = Good(disk) /\ HeldNow' = {}
  BY ClosedIs, NoBatchHeld DEF AckedNow, Acked, HeldNow
<1>2. AckedNow \subseteq AckedNow'
  BY <1>1
<1>3. MarkInv'
  <2>1. Marked(AckedNow, AckedNow) /\ Marked(HeldNow, AckedNow \cup HeldNow)
    BY DEF LoggedInv, MarkInv
  <2>2. Marked(AckedNow \cup HeldNow, AckedNow \cup HeldNow)
    <3>1. Marked(AckedNow, AckedNow \cup HeldNow)
      BY <2>1, MarkedMore
    <3> QED BY <2>1, <3>1 DEF Marked
  <2>3. Marked(Good(disk), Good(disk))
    BY <2>1, <2>2
  <2>4. Marked({}, Good(disk) \cup {})
    BY DEF Marked
  <2> QED BY <1>1, <2>3, <2>4 DEF MarkInv
<1>4. ASSUME NEW n \in NS PROVE SlotInv(n)'
  <2>1. NoSources[n].taken = 0 /\ NoSources[n].added = FALSE /\ NoSources[n].skip = FALSE
    BY DEF NoSources, NoSource
  <2>2. Closed.ring_seq[n].has = FALSE
    BY DEF Closed, NoSeq
  <2>3. SlotOK(n, AckedNow, HeldNow, rings[n], srcs[n], w.ring_seq[n], Live(n)) /\ rings[n].tail \in Nat
    BY DEF LoggedInv, SlotInv, MainInv, RingType
  <2>4. SlotOK(n, AckedNow', HeldNow', rings[n], NoSources[n], Closed.ring_seq[n], Live(n)')
    BY <1>2, <2>1, <2>2, <2>3, SlotNew
  <2> QED BY <2>4 DEF SlotInv
<1>5. \A s \in released : FreedIn(s)'
  BY DEF LoggedInv, FreedIn
<1> QED BY <1>3, <1>4, <1>5 DEF LoggedInv, Calls

---------------------------------------------------------------------------
(* wal_open *)

LEMMA RecoveredMark ==
  ASSUME NEW f \in Seq(Recs), NEW n \in NS, Scan(f).ring_seq[n].has
  PROVE  \E r \in Part(f, GoodLength(f)) : r.kind = "RSEQ" /\ r.ns = n /\ r.val = Scan(f).ring_seq[n].seq
<1> DEFINE k == GoodLength(f)
           T == {0} \cup {p \in 1 .. k : f[p].kind = "RSEQ" /\ f[p].ns = n}
           q == Max(T)
           s == Scan(f).ring_seq[n]
<1>1. s.has = (q > 0) /\ (q > 0 => s.seq = f[q].val)
  <2>1. FindsPrefix(f)
    BY EveryScanFindsPrefix
  <2> QED BY <2>1 DEF FindsPrefix, LastOf
<1>2. k \in 0 .. Len(f)
  BY GoodLengthIs
<1>3. q \in T
  <2>1. k \in Nat /\ T \in SUBSET (0 .. k) /\ T # {}
    BY <1>2
  <2> HIDE DEF T, k
  <2> QED BY <2>1, MaxOfNats
<1> HIDE DEF q, s
<1>4. q > 0
  <2>1. s.has
    BY DEF s
  <2> QED BY <1>1, <2>1, Zenon
<1>5. q \in 1 .. k /\ f[q].kind = "RSEQ" /\ f[q].ns = n
  BY <1>3, <1>4
<1>6. q \in 1 .. Len(f)
  BY <1>2, <1>5
<1>7. f[q] \in Recs
  BY <1>6
<1>8. f[q] \in Part(f, k)
  BY <1>5, <1>7 DEF Part
<1> QED BY <1>1, <1>4, <1>5, <1>8 DEF s

\* What wal_open starts from.
OpenedAgain ==
  /\ AckedNow' = Good(disk) /\ HeldNow' = {}
  /\ \A n \in NS : w'.ring_seq[n].has => SaidTo(Good(disk), n, w'.ring_seq[n].seq)

LEMMA OpenMoves ==
  ASSUME WalInv, WalInv', CallOpen, disk' = disk, Marked(Good(disk), Good(disk))
  PROVE  OpenedAgain
<1>1. DiskOK(disk) /\ disk \in Seq(Segs) /\ Len(disk) \in Nat
  BY DEF WalInv, WalOK, DiskOK
<1>2. CASE OpenFirst
  <2> DEFINE x == [Closed EXCEPT !.next_seq = 0, !.next_txn = 1, !.boot_id = 1]
  <2>1. w' = x
    BY <1>2 DEF OpenFirst
  <2>2. x.fd = 0 /\ x.buf = <<>> /\ x.ring_seq = NoSeq
    BY DEF Closed
  <2> HIDE DEF x
  <2>3. AckedNow' = Good(disk)
    BY <2>1, <2>2 DEF AckedNow, Acked
  <2>4. HeldNow' = {}
    BY <2>1, <2>2 DEF HeldNow, Held, Part
  <2> QED BY <2>1, <2>2, <2>3, <2>4 DEF OpenedAgain, NoSeq
<1>3. CASE OpenRecover
  <2> DEFINE a == disk[Len(disk)]
             x == Recovered(a)
  <2>1. Len(disk) > 0 /\ Len(disk) \in 1 .. Len(disk) /\ Last(disk) = a
    BY <1>1, <1>3 DEF OpenRecover, Last
  <2>2. a \in Segs /\ SegOK(a)
    BY <1>1, <2>1 DEF DiskOK
  <2>3. NoBatch(x) /\ x.fd = Len(disk) /\ x.seg_bytes = GoodLength(a.recs) /\ x.ring_seq = Scan(a.recs).ring_seq
    BY <1>1, <2>2, RecoveredIs DEF RecoversTo
  <2>4. (w' = x /\ wpc' = "cut") \/ StartBoot(x)
    BY <1>3, <2>1 DEF OpenRecover
  <2> HIDE DEF x
  <2>5. AckedNow' = Good(disk) /\ HeldNow' = {} /\ w'.ring_seq = x.ring_seq
    <3>1. CASE w' = x
      BY <2>1, <2>3, <3>1, NoBatchHeld DEF AckedNow, Acked, Good, HeldNow
    <3>2. CASE StartBoot(x)
      BY <2>3, <3>2, BootSettles, NoBatchHeld DEF Settled
    <3> QED BY <2>4, <3>1, <3>2
  <2>6. ASSUME NEW n \in NS, x.ring_seq[n].has PROVE SaidTo(Good(disk), n, x.ring_seq[n].seq)
    <3>1. a.recs \in Seq(Recs)
      BY <2>2 DEF Segs
    <3>2. PICK r \in Part(a.recs, GoodLength(a.recs)) : r.kind = "RSEQ" /\ r.ns = n /\ r.val = x.ring_seq[n].seq
      BY <2>3, <2>6, <3>1, RecoveredMark
    <3>3. r \in Good(disk)
      BY <2>1, <3>2 DEF Good
    <3> QED BY <3>2, <3>3 DEF Marked
  <2> QED BY <2>5, <2>6 DEF OpenedAgain
<1> QED BY <1>2, <1>3 DEF CallOpen

---------------------------------------------------------------------------
(* Steps that take nothing and release nothing *)

\* The rings keep their tails, what was acknowledged stays, and so does the batch unless it has failed.
LEMMA SlotsKept ==
  ASSUME NEW n \in NS, SlotInv(n), rings'[n].gen = rings[n].gen, rings'[n].tail = rings[n].tail,
         srcs'[n] = srcs[n], w'.ring_seq = w.ring_seq, AckedNow \subseteq AckedNow',
         Live(n)' => Live(n) /\ AckedNow \cup HeldNow \subseteq AckedNow' \cup HeldNow'
  PROVE  SlotInv(n)'
<1>1. SlotOK(n, AckedNow, HeldNow, rings[n], srcs[n], w.ring_seq[n], Live(n))
  BY DEF SlotInv
<1>2. w.ring_seq[n].has => SaidTo(AckedNow', n, w.ring_seq[n].seq)
  BY <1>1, SaidMore DEF SlotOK
<1>3. SlotOK(n, AckedNow', HeldNow', rings'[n], srcs[n], w.ring_seq[n], Live(n)')
  BY <1>1, <1>2, SlotKept
<1> QED BY <1>3 DEF SlotInv

\* Such a step as a whole.
LEMMA SameLogged ==
  ASSUME LoggedInv, wpc' \in Calls, rings' = rings, srcs' = srcs, released' = released, pc' # "down",
         pc' \in {"release", "stop_release"} => w'.open_batch = FALSE,
         w'.ring_seq = w.ring_seq, AckedNow' = AckedNow, HeldNow' = HeldNow,
         \A n \in NS : Live(n)' => Live(n)
  PROVE  LoggedInv'
<1>1. \A n \in NS : SlotInv(n)'
  <2> TAKE n \in NS
  <2>1. SlotInv(n)
    BY DEF LoggedInv
  <2> QED BY <2>1, SlotsKept
<1>2. MarkInv'
  BY DEF LoggedInv, MarkInv
<1>3. \A s \in released : FreedIn(s)'
  BY DEF LoggedInv, FreedIn
<1> QED BY <1>1, <1>2, <1>3 DEF LoggedInv

\* w, the rings and the sources are as they were.
LEMMA StillLogged ==
  ASSUME LoggedInv, wpc' \in Calls, rings' = rings, srcs' = srcs, released' = released, pc' # "down",
         pc' \in {"release", "stop_release"} => w.open_batch = FALSE, w' = w, disk' = disk,
         \A n \in NS : Live(n)' => Live(n)
  PROVE  LoggedInv'
<1>1. AckedNow' = AckedNow /\ HeldNow' = HeldNow
  BY DEF AckedNow, HeldNow
<1> QED BY <1>1, SameLogged

\* A system call.
LEMMA WalLogged ==
  ASSUME LoggedInv, WalInv, WalInv', MainInv, LogStep, "undo" \notin Accidents
  PROVE  LoggedInv'
<1>1. WalStep /\ rings' = rings /\ srcs' = srcs /\ pc' = pc /\ ni' = ni /\ released' = released /\ pc # "down"
  BY DEF LogStep, svars, hist
<1>2. wpc' \in Calls /\ wpc # "idle"
  BY <1>1, WalCalls
<1>3. wret = "none"
  BY <1>2 DEF WalInv, WalOK
<1>4. Moves
  BY <1>1, WalStepMoves
<1>5. AckedNow \subseteq AckedNow'
  BY <1>4 DEF Moves
<1>6. wret' # "fail" => AckedNow \cup HeldNow \subseteq AckedNow' \cup HeldNow'
  BY <1>4 DEF Moves
<1>7. \A n \in NS : SlotInv(n)'
  <2> TAKE n \in NS
  <2>1. SlotInv(n) /\ w'.ring_seq = w.ring_seq
    BY <1>4 DEF LoggedInv, Moves
  <2>2. Live(n)' => Live(n) /\ wret' # "fail"
    BY <1>1, <1>3 DEF Live, Freed
  <2> QED BY <1>1, <1>5, <1>6, <2>1, <2>2, SlotsKept
<1>8. MarkInv'
  <2>1. Marked(AckedNow, AckedNow) /\ Marked(HeldNow, AckedNow \cup HeldNow)
    BY DEF LoggedInv, MarkInv
  <2>2. CASE AckedNow' = AckedNow /\ HeldNow' = HeldNow
    BY <2>1, <2>2 DEF MarkInv
  <2>3. CASE AckedNow' = AckedNow \cup HeldNow /\ HeldNow' = {}
    <3>1. Marked(AckedNow, AckedNow \cup HeldNow)
      BY <2>1, MarkedMore
    <3>2. Marked(AckedNow \cup HeldNow, AckedNow \cup HeldNow) /\ Marked({}, AckedNow \cup HeldNow \cup {})
      BY <2>1, <3>1 DEF Marked
    <3> QED BY <2>3, <3>2 DEF MarkInv
  <2>4. CASE AckedNow' = AckedNow /\ HeldNow' = {}
    <3>1. Marked({}, AckedNow \cup {})
      BY DEF Marked
    <3> QED BY <2>1, <2>4, <3>1 DEF MarkInv
  <2> QED BY <1>4, <2>2, <2>3, <2>4 DEF Moves
<1>9. \A s \in released : FreedIn(s)'
  BY <1>1 DEF LoggedInv, FreedIn
<1>10. pc \notin {"release", "stop_release"}
  BY <1>2 DEF MainInv, Quiet
<1> QED BY <1>1, <1>2, <1>7, <1>8, <1>9, <1>10 DEF LoggedInv

---------------------------------------------------------------------------
(* What drain takes *)

LEMMA SkipsAre ==
  ASSUME MainInv, NEW n \in NS, Skips(n) \in Nat, Skips(n) > 0
  PROVE  srcs[n].skip /\ rings[n].tail + srcs[n].taken + Skips(n) - 1 <= srcs[n].skip_seq
<1> DEFINE h == rings[n].head
           f == rings[n].tail + srcs[n].taken
           q == srcs[n].skip_seq
           u == IF q < h THEN q + 1 ELSE h
<1>1. h \in Nat /\ f \in Nat /\ q \in Nat
  BY DEF MainInv, RingType, SrcType
<1>2. Skips(n) = IF srcs[n].skip /\ u > f THEN u - f ELSE 0
  BY DEF Skips
<1> HIDE DEF h, f, q
<1>3. u \in Nat /\ u - 1 <= q
  BY <1>1
<1> HIDE DEF u
<1>4. srcs[n].skip /\ u > f
  BY <1>2
<1>5. Skips(n) = u - f
  BY <1>2, <1>4
<1>6. f + Skips(n) - 1 <= q
  BY <1>1, <1>3, <1>5
<1> QED BY <1>4, <1>6 DEF f, q

\* The slots of ring n that are taken after a drain of it.
LEMMA DrainSlot ==
  ASSUME NEW n, NEW A, NEW B, NEW r, NEW s, NEW m, SlotOK(n, A, B, r, s, m, TRUE),
         r.tail \in Nat, s.taken \in Nat, NEW k \in Nat, NEW a \in Nat,
         k > 0 => s.skip /\ r.tail + s.taken + k - 1 <= s.skip_seq /\ s.skip_seq \in Nat,
         NEW D, B \subseteq D, \A i \in 1 .. a : Said(D, n, r.tail + s.taken + k + i - 1),
         NEW t, t.taken = s.taken + k + a, t.last_seq = r.tail + s.taken + k + a - 1, t.skip = s.skip, t.skip_seq = s.skip_seq,
         NEW live
  PROVE  SlotOK(n, A, D, r, t, m, live)
<1> DEFINE b == r.tail
           c == s.taken
           l == s.skip_seq
<1>1. /\ r.gen = 1 /\ SaidTo(A, n, b - 1) /\ (s.skip => SaidTo(A, n, l)) /\ (m.has => SaidTo(A, n, m.seq))
      /\ \A q \in b .. b + c - 1 : Said(A \cup B, n, q)
  BY DEF SlotOK
<1>2. t.last_seq < b + t.taken
  BY DEF SlotOK
<1>3. ASSUME NEW q \in b .. b + t.taken - 1 PROVE Said(A \cup D, n, q)
  <2>0. b \in Nat /\ c \in Nat /\ t.taken = c + k + a
    OBVIOUS
  <2> HIDE DEF b, c, l
  <2>1. CASE q \in b .. b + c - 1
    <3>1. Said(A \cup B, n, q)
      BY <1>1, <2>1
    <3>2. A \cup B \subseteq A \cup D
      OBVIOUS
    <3> QED BY <3>1, <3>2, SaidMore
  <2>2. CASE q \in b + c .. b + c + k - 1
    <3>1. k > 0
      BY <2>0, <2>2
    <3>2. s.skip /\ b + c + k - 1 <= l /\ l \in Nat
      BY <3>1 DEF b, c, l
    <3>3. q \in 0 .. l
      BY <2>0, <2>2, <3>2
    <3>4. Said(A, n, q)
      BY <1>1, <3>2, <3>3 DEF SaidTo
    <3>5. A \subseteq A \cup D
      OBVIOUS
    <3> QED BY <3>4, <3>5, SaidMore
  <2>3. CASE q \in b + c + k .. b + c + k + a - 1
    <3> DEFINE i == q - (b + c + k) + 1
    <3>1. i \in 1 .. a /\ b + c + k + i - 1 = q
      BY <2>0, <2>3
    <3> HIDE DEF i
    <3>2. Said(D, n, b + c + k + i - 1)
      BY <3>1 DEF b, c
    <3>3. Said(D, n, q)
      BY <3>1, <3>2
    <3>4. D \subseteq A \cup D
      OBVIOUS
    <3> QED BY <3>3, <3>4, SaidMore
  <2>4. q \in b .. b + c - 1 \/ q \in b + c .. b + c + k - 1 \/ q \in b + c + k .. b + c + k + a - 1
    BY <1>3, <2>0
  <2> QED BY <2>1, <2>2, <2>3, <2>4
<1> HIDE DEF b, c, l
<1> QED BY <1>1, <1>2, <1>3 DEF SlotOK, b, l

LEMMA DrainLogged ==
  ASSUME LoggedInv, WalInv, WalInv', MainInv, Drain, Ready(disk, w)
  PROVE  LoggedInv'
<1>1. /\ disk' = disk /\ wpc' = wpc /\ wret' = wret /\ wret = "none" /\ wpc = "idle" /\ rings' = rings /\ released' = released
      /\ pc' \in {"drain", "decide"} /\ pc = "drain" /\ ni \in NS
  BY DEF Drain, hist, MainInv, Quiet
<1>2. \A n \in NS : Live(n) /\ Live(n)'
  BY <1>1 DEF Live, Freed
<1>3. CASE w' = w /\ srcs' = srcs
  <2>1. wpc' \in Calls
    BY <1>1 DEF LoggedInv
  <2> QED BY <1>1, <1>2, <1>3, <2>1, StillLogged
<1>4. CASE w.batch_samples < BatchSamples /\ Skips(ni) + Adds(ni) > 0
  <2> DEFINE k == Skips(ni)
             a == Adds(ni)
             first == rings[ni].tail + srcs[ni].taken + k
             z == WalAddSamples(w, ni, rings[ni].gen, first, a)
             s == srcs[ni]
             t == [s EXCEPT !.taken = s.taken + k + a, !.added = s.added \/ a > 0, !.last_seq = first + a - 1]
  <2>1. /\ ni \in Nat /\ rings[ni].gen \in Nat /\ rings[ni].tail \in Nat /\ srcs[ni] \in SrcType /\ srcs \in [NS -> SrcType]
    BY <1>1, NsIs DEF MainInv, RingType
  <2>2. ~Freed(ni) /\ w \in WType /\ Filling(w)
    BY <1>1 DEF Freed, Ready, Filling
  <2>3. k \in Nat /\ a \in Nat
    BY <1>1, <1>4, <2>2, DrainAmounts DEF DrainOK
  <2>4. s.taken \in Nat /\ s.skip_seq \in Nat /\ first \in Nat
    BY <2>1, <2>3 DEF SrcType
  <2>5. w' = z /\ srcs' = [srcs EXCEPT ![ni] = t]
    BY <1>4 DEF Drain
  <2>6. k > 0 => s.skip /\ rings[ni].tail + s.taken + k - 1 <= s.skip_seq /\ s.skip_seq \in Nat
    BY <1>1, <2>3, <2>4, SkipsAre
  <2>7. t.taken = s.taken + k + a /\ t.last_seq = first + a - 1 /\ t.skip = s.skip /\ t.skip_seq = s.skip_seq
    BY <2>1 DEF SrcType
  <2> HIDE DEF k, a, first
  <2>8. /\ Held(w) \subseteq Held(z) /\ z.ring_seq = w.ring_seq
        /\ \A r \in Held(z) : r \in Held(w) \/ r.kind = "SAMPLE"
        /\ \A i \in 1 .. a : \E r \in Held(z) : r.kind = "SAMPLE" /\ r.ns = ni /\ r.gen = rings[ni].gen /\ r.val = first + i - 1
    <3> DEFINE g == rings[ni].gen
    <3>1. ni \in Nat /\ g \in Nat /\ first \in Nat /\ a \in Nat /\ Filling(w) /\ z = WalAddSamples(w, ni, g, first, a)
      BY <2>1, <2>2, <2>3, <2>4
    <3> HIDE DEF g, z
    <3>2. HoldsMany(w, z, ni, g, first, a)
      BY <3>1, WalAddSamplesHeld
    <3> QED BY <3>2 DEF g, HoldsMany
  <2> HIDE DEF z, t, s
  <2>9. AckedNow' = AckedNow
    <3>1. AckedNow = Good(disk)
      BY ReadyAcked DEF WalInv, WalOK, AckedNow
    <3>2. DiskOK(disk') /\ Ready(disk', w')
      BY <1>1 DEF WalInv, WalOK
    <3>3. AckedNow' = Good(disk')
      BY <3>2, ReadyAcked DEF AckedNow
    <3> QED BY <1>1, <3>1, <3>3
  <2>10. HeldNow' = Held(z) /\ HeldNow = Held(w) /\ HeldNow \subseteq HeldNow' /\ w'.ring_seq = w.ring_seq
    BY <2>5, <2>8 DEF HeldNow
  <2>11. srcs'[ni] = t /\ \A n \in NS : n # ni => srcs'[n] = srcs[n]
    BY <1>1, <2>1, <2>5
  <2>12. ASSUME NEW n \in NS, n = ni PROVE SlotInv(n)'
    <3>1. SlotOK(ni, AckedNow, HeldNow, rings[ni], s, w.ring_seq[ni], TRUE)
      <4>1. SlotOK(ni, AckedNow, HeldNow, rings[ni], s, w.ring_seq[ni], Live(ni)) /\ Live(ni)
        BY <1>1, <1>2 DEF LoggedInv, SlotInv, s
      <4> QED BY <4>1 DEF SlotOK
    <3>2. rings[ni].gen = 1
      BY <3>1 DEF SlotOK
    <3>3. \A i \in 1 .. a : Said(HeldNow', ni, rings[ni].tail + s.taken + k + i - 1)
      BY <2>8, <2>10, <3>2 DEF Said, first, s
    <3>4. t.last_seq = rings[ni].tail + s.taken + k + a - 1
      BY <2>7 DEF first, s
    <3>5. SlotOK(ni, AckedNow, HeldNow', rings[ni], t, w.ring_seq[ni], Live(n)')
      BY <2>1, <2>3, <2>4, <2>6, <2>7, <2>10, <3>1, <3>3, <3>4, DrainSlot
    <3>6. rings' = rings /\ AckedNow' = AckedNow /\ srcs'[ni] = t /\ w'.ring_seq = w.ring_seq
      BY <1>1, <2>9, <2>10, <2>11
    <3>7. SlotOK(n, AckedNow', HeldNow', rings'[n], srcs'[n], w'.ring_seq[n], Live(n)')
      BY <2>12, <3>5, <3>6
    <3> QED BY <3>7 DEF SlotInv
  <2>13. ASSUME NEW n \in NS, n # ni PROVE SlotInv(n)'
    <3>1. SlotInv(n)
      BY DEF LoggedInv
    <3> QED BY <1>1, <1>2, <2>9, <2>10, <2>11, <2>13, <3>1, SlotsKept
  <2>14. MarkInv'
    <3>1. Marked(AckedNow, AckedNow) /\ Marked(HeldNow, AckedNow \cup HeldNow)
      BY DEF LoggedInv, MarkInv
    <3>2. Marked(HeldNow, AckedNow \cup HeldNow')
      BY <2>10, <3>1, MarkedMore
    <3>3. Marked(HeldNow', AckedNow \cup HeldNow')
      BY <2>8, <2>10, <3>2 DEF Marked
    <3> QED BY <2>9, <3>1, <3>3 DEF MarkInv
  <2>15. \A q \in released : FreedIn(q)'
    BY <1>1 DEF LoggedInv, FreedIn
  <2>16. \A n \in NS : SlotInv(n)'
    BY <2>12, <2>13
  <2>17. wpc' \in Calls /\ pc' # "down" /\ pc' \notin {"release", "stop_release"} /\ released' = released
    BY <1>1 DEF Calls
  <2> QED BY <2>14, <2>15, <2>16, <2>17 DEF LoggedInv
<1>5. CASE ~(w.batch_samples < BatchSamples /\ Skips(ni) + Adds(ni) > 0)
  BY <1>3, <1>5 DEF Drain
<1> QED BY <1>4, <1>5

---------------------------------------------------------------------------
(* The steps of main *)

\* No source has anything: the step starts them all afresh.
LEMMA FreshLogged ==
  ASSUME LoggedInv, MainInv, rings' = rings, released' = released, AckedNow \subseteq AckedNow', MarkInv', wpc' \in Calls,
         pc' \notin {"down", "release", "stop_release"},
         \A n \in NS : /\ srcs'[n].taken = 0 /\ srcs'[n].added = FALSE
                       /\ srcs'[n].skip => SaidTo(AckedNow', n, srcs'[n].skip_seq)
                       /\ w'.ring_seq[n].has => SaidTo(AckedNow', n, w'.ring_seq[n].seq)
  PROVE  LoggedInv'
<1>1. ASSUME NEW n \in NS PROVE SlotInv(n)'
  <2>1. SlotOK(n, AckedNow, HeldNow, rings[n], srcs[n], w.ring_seq[n], Live(n)) /\ rings[n].tail \in Nat
    BY DEF LoggedInv, SlotInv, MainInv, RingType
  <2> DEFINE t == srcs'[n]
             k == w'.ring_seq[n]
  <2>2. /\ t.taken = 0 /\ t.added = FALSE /\ (t.skip => SaidTo(AckedNow', n, t.skip_seq))
        /\ (k.has => SaidTo(AckedNow', n, k.seq))
    OBVIOUS
  <2> HIDE DEF t, k
  <2>3. SlotOK(n, AckedNow', HeldNow', rings[n], t, k, Live(n)')
    BY <2>1, <2>2, SlotNew
  <2> QED BY <2>3 DEF SlotInv, t, k
<1>2. \A s \in released : FreedIn(s)'
  BY DEF LoggedInv, FreedIn
<1> QED BY <1>1, <1>2 DEF LoggedInv

LEMMA IdleAcked == ASSUME WalInv, MainInv, MainStep PROVE AckedNow = Good(disk)
<1>1. DiskOK(disk) /\ Ready(disk, w)
  BY MainIdle
<1> QED BY <1>1, ReadyAcked DEF AckedNow

LEMMA StartLogged ==
  ASSUME LoggedInv, WalInv, WalInv', MainInv, Start
  PROVE  LoggedInv'
<1>1. /\ pc = "down" /\ CallOpen /\ pc' = "opening" /\ disk' = disk /\ rings' = rings /\ srcs' = srcs /\ released' = released
      /\ srcs = NoSources
  BY DEF Start, LoggedInv
<1>2. MainStep
  BY DEF MainStep
<1>3. AckedNow = Good(disk)
  BY <1>2, IdleAcked
<1>4. Marked(Good(disk), Good(disk))
  BY <1>3 DEF LoggedInv, MarkInv
<1>5. OpenedAgain
  BY <1>1, <1>4, OpenMoves
<1>6. AckedNow' = AckedNow /\ HeldNow' = {} /\ \A n \in NS : w'.ring_seq[n].has => SaidTo(AckedNow', n, w'.ring_seq[n].seq)
  BY <1>3, <1>5 DEF OpenedAgain
<1>7. MarkInv'
  <2>1. Marked(AckedNow, AckedNow) /\ Marked({}, AckedNow \cup {})
    BY DEF LoggedInv, MarkInv, Marked
  <2> QED BY <1>6, <2>1 DEF MarkInv
<1>8. \A n \in NS : NoSources[n].taken = 0 /\ NoSources[n].added = FALSE /\ NoSources[n].skip = FALSE
  BY DEF NoSources, NoSource
<1>9. wpc' \in Calls
  BY <1>2, MainCalls DEF LoggedInv
<1> QED BY <1>1, <1>6, <1>7, <1>8, <1>9, FreshLogged

\* The process exits.
LEMMA ExitLogged ==
  ASSUME LoggedInv, WalInv, MainInv, MainStep, NEW how, Exit(how), disk' = disk, rings' = rings, released' = released
  PROVE  LoggedInv'
<1>1. w' = Closed /\ wpc' = "idle" /\ srcs' = NoSources /\ pc' = "down"
  BY DEF Exit
<1> QED BY <1>1, IdleAcked, DownLogged

\* A call has returned and main goes on.
LEMMA ReturnLogged ==
  ASSUME LoggedInv, WalInv, MainInv, wret = "ok", pc \in {"opening", "gen_wait", "commit_wait", "stop_wait"},
         rings' = rings, srcs' = srcs, released' = released, w' = w, disk' = disk, wpc' = wpc, pc' # "down"
  PROVE  LoggedInv'
<1>1. w.open_batch = FALSE
  BY DEF WalInv, WalOK
<1>2. \A n \in NS : Live(n)
  BY DEF Live, Freed
<1>3. wpc' \in Calls
  BY DEF LoggedInv
<1> QED BY <1>1, <1>2, <1>3, StillLogged

LEMMA DoneLogged ==
  ASSUME LoggedInv, WalInv, MainInv, OpenDone \/ NoteDone
  PROVE  LoggedInv'
<1>1. MainStep
  BY DEF MainStep
<1>2. disk' = disk /\ rings' = rings /\ released' = released /\ pc \in {"opening", "gen_wait"}
  BY DEF OpenDone, NoteDone
<1>3. CASE wret = "fail"
  <2>1. Exit("failed")
    BY <1>3 DEF OpenDone, NoteDone
  <2> QED BY <1>1, <1>2, <2>1, ExitLogged
<1>4. CASE wret = "ok"
  <2>1. srcs' = srcs /\ w' = w /\ wpc' = wpc /\ pc' # "down"
    BY <1>4 DEF OpenDone, NoteDone, NextTurn
  <2> QED BY <1>2, <1>4, <2>1, ReturnLogged
<1> QED BY <1>3, <1>4 DEF OpenDone, NoteDone

LEMMA NoteGenerationLogged ==
  ASSUME LoggedInv, WalInv, WalInv', MainInv, NoteGeneration
  PROVE  LoggedInv'
<1> DEFINE g == rings[ni].gen
           z == WalAdd(w, "GEN", ni, g, 0)
           t == ResumeFrom(ni)
<1>1. /\ pc = "note_gen" /\ srcs' = [srcs EXCEPT ![ni] = t] /\ CallCommit(z) /\ pc' = "gen_wait"
      /\ rings' = rings /\ released' = released /\ ni' = ni
  BY DEF NoteGeneration, hist
<1>2. MainStep
  BY DEF MainStep
<1>3. ni \in NS /\ ni \in Nat /\ g \in Nat /\ wret = "none" /\ disk' = disk /\ Filling(w) /\ srcs \in [NS -> SrcType]
  BY <1>1, <1>2, NsIs, MainIdle DEF MainInv, RingType, Quiet, Ready
<1>4. t.taken = 0 /\ t.added = FALSE
      /\ (t.skip => w.ring_seq[ni].has /\ t.skip_seq = w.ring_seq[ni].seq)
  BY DEF ResumeFrom, NoSource
<1>5. srcs'[ni] = t /\ \A n \in NS : n # ni => srcs'[n] = srcs[n]
  BY <1>1, <1>3
<1>6. Grown(w, z) /\ Held(z) = Held(w)
  <2>1. "GEN" \in Kinds \ {"BEGIN", "COMMIT", "TORN"} /\ "GEN" \notin Counted
    BY DEF Kinds, Counted
  <2> HIDE DEF g
  <2> QED BY <1>3, <2>1, WalAddHeld
<1> HIDE DEF g, z, t
<1>7. Settled(z) /\ Filling(z)
  BY <1>1, <1>6, CallCommitSettles DEF Grown
<1>8. AckedNow' = AckedNow /\ HeldNow' = HeldNow /\ w'.ring_seq = w.ring_seq
  BY <1>2, <1>3, <1>6, <1>7, IdleAcked DEF Settled, Grown, HeldNow
<1>9. \A n \in NS : Live(n)
  BY <1>1, <1>3 DEF Live, Freed
<1>10. ASSUME NEW n \in NS, n = ni PROVE SlotInv(n)'
  <2>1. SlotOK(n, AckedNow, HeldNow, rings[n], srcs[n], w.ring_seq[n], Live(n)) /\ rings[n].tail \in Nat
    BY DEF LoggedInv, SlotInv, MainInv, RingType
  <2>2. w.ring_seq[n].has => SaidTo(AckedNow, n, w.ring_seq[n].seq)
    BY <2>1 DEF SlotOK
  <2>3. t.skip => SaidTo(AckedNow, n, t.skip_seq)
    BY <1>4, <1>10, <2>2
  <2>4. SlotOK(n, AckedNow, HeldNow, rings[n], t, w.ring_seq[n], Live(n)')
    BY <1>4, <2>1, <2>2, <2>3, SlotNew
  <2>5. rings'[n] = rings[n] /\ srcs'[n] = t /\ w'.ring_seq[n] = w.ring_seq[n]
    BY <1>1, <1>5, <1>8, <1>10
  <2>6. SlotOK(n, AckedNow', HeldNow', rings'[n], srcs'[n], w'.ring_seq[n], Live(n)')
    BY <1>8, <2>4, <2>5
  <2> QED BY <2>6 DEF SlotInv
<1>11. ASSUME NEW n \in NS, n # ni PROVE SlotInv(n)'
  <2>1. SlotInv(n) /\ rings'[n] = rings[n] /\ srcs'[n] = srcs[n]
    BY <1>1, <1>5, <1>11 DEF LoggedInv
  <2> QED BY <1>8, <1>9, <2>1, SlotsKept
<1>12. MarkInv'
  BY <1>8 DEF LoggedInv, MarkInv
<1>13. \A s \in released : FreedIn(s)'
  BY <1>1 DEF LoggedInv, FreedIn
<1>14. wpc' \in Calls /\ \A n \in NS : SlotInv(n)'
  BY <1>2, <1>10, <1>11, MainCalls DEF LoggedInv
<1> QED BY <1>1, <1>12, <1>13, <1>14 DEF LoggedInv

\* A ring seq is noted of samples that are acknowledged or in the batch.
LEMMA OwnMarkSaid ==
  ASSUME LoggedInv, MainInv, NEW r, OwnMark(r), Live(r.ns)
  PROVE  SaidTo(AckedNow \cup HeldNow, r.ns, r.val)
<1> DEFINE n == r.ns
           b == rings[n].tail
           c == srcs[n].taken
<1>1. n \in NS /\ srcs[n].added /\ r.val = srcs[n].last_seq
  BY DEF OwnMark
<1>2. b \in Nat /\ c \in Nat /\ r.val \in Nat
  BY <1>1 DEF MainInv, RingType, SrcType
<1>3. SlotOK(n, AckedNow, HeldNow, rings[n], srcs[n], w.ring_seq[n], Live(n))
  BY <1>1 DEF LoggedInv, SlotInv
<1>4. SaidTo(AckedNow, n, b - 1) /\ (\A q \in b .. b + c - 1 : Said(AckedNow \cup HeldNow, n, q)) /\ r.val < b + c
  BY <1>1, <1>3 DEF SlotOK
<1> HIDE DEF n, b, c
<1>5. ASSUME NEW q \in 0 .. r.val PROVE Said(AckedNow \cup HeldNow, n, q)
  <2>1. CASE q \in 0 .. b - 1
    <3>1. Said(AckedNow, n, q)
      BY <1>4, <2>1 DEF SaidTo
    <3> QED BY <3>1, SaidMore
  <2>2. CASE q \in b .. b + c - 1
    BY <1>4, <2>2
  <2>3. q \in 0 .. b - 1 \/ q \in b .. b + c - 1
    BY <1>2, <1>4, <1>5
  <2> QED BY <2>1, <2>2, <2>3
<1>6. SaidTo(AckedNow \cup HeldNow, n, r.val)
  BY <1>5 DEF SaidTo
<1> QED BY <1>6 DEF n

LEMMA CommitLogged ==
  ASSUME LoggedInv, WalInv, WalInv', MainInv, Flush \/ Stop
  PROVE  LoggedInv'
<1> DEFINE z == NoteRingSeqs(w)
<1>1. /\ pc \in {"decide", "stop"} /\ srcs' = srcs /\ CallCommit(z) /\ pc' \in {"commit_wait", "stop_wait"}
      /\ rings' = rings /\ released' = released /\ ni' = ni
  BY DEF Flush, Stop, hist
<1>2. MainStep
  BY DEF MainStep
<1>3. wret = "none" /\ disk' = disk /\ Filling(w)
  BY <1>1, <1>2, MainIdle DEF MainInv, Quiet, Ready
<1>4. Noted(w, z)
  BY <1>3, NoteRingSeqsHeld
<1> HIDE DEF z
<1>5. /\ Filling(z) /\ z.ring_seq = w.ring_seq /\ Held(w) \subseteq Held(z)
      /\ \A r \in Held(z) : r \in Held(w) \/ OwnMark(r)
  BY <1>4 DEF Noted
<1>6. Settled(z)
  BY <1>1, <1>5, CallCommitSettles
<1>7. AckedNow' = AckedNow /\ HeldNow' = Held(z) /\ HeldNow \subseteq HeldNow' /\ w'.ring_seq = w.ring_seq
  BY <1>2, <1>3, <1>5, <1>6, IdleAcked DEF Settled, HeldNow
<1>8. \A n \in NS : Live(n)
  BY <1>1, <1>3 DEF Live, Freed
<1>9. ASSUME NEW n \in NS PROVE SlotInv(n)'
  <2>1. SlotInv(n) /\ rings'[n] = rings[n] /\ srcs'[n] = srcs[n]
    BY <1>1 DEF LoggedInv
  <2> QED BY <1>7, <1>8, <2>1, SlotsKept
<1>10. MarkInv'
  <2>1. Marked(AckedNow, AckedNow) /\ Marked(HeldNow, AckedNow \cup HeldNow)
    BY DEF LoggedInv, MarkInv
  <2>2. Marked(HeldNow, AckedNow \cup HeldNow') /\ AckedNow \cup HeldNow \subseteq AckedNow \cup HeldNow'
    BY <1>7, <2>1, MarkedMore
  <2>3. ASSUME NEW r \in HeldNow', r.kind = "RSEQ" PROVE SaidTo(AckedNow \cup HeldNow', r.ns, r.val)
    <3>1. CASE r \in HeldNow
      BY <2>2, <2>3, <3>1 DEF Marked
    <3>2. CASE OwnMark(r)
      <4>1. SaidTo(AckedNow \cup HeldNow, r.ns, r.val)
        BY <1>8, <3>2, OwnMarkSaid DEF OwnMark
      <4> QED BY <2>2, <4>1, SaidMore
    <3> QED BY <1>5, <1>7, <3>1, <3>2 DEF HeldNow
  <2>4. Marked(HeldNow', AckedNow \cup HeldNow')
    BY <2>3 DEF Marked
  <2> QED BY <1>7, <2>1, <2>4 DEF MarkInv
<1>11. \A s \in released : FreedIn(s)'
  BY <1>1 DEF LoggedInv, FreedIn
<1>12. wpc' \in Calls
  BY <1>2, MainCalls DEF LoggedInv
<1> QED BY <1>1, <1>9, <1>10, <1>11, <1>12 DEF LoggedInv

LEMMA IdleLogged ==
  ASSUME LoggedInv, MainInv, Idle
  PROVE  LoggedInv'
<1>1. /\ pc = "decide" /\ wret = "none" /\ wpc' = wpc /\ rings' = rings /\ srcs' = srcs /\ released' = released
      /\ w' = w /\ disk' = disk /\ pc' \in {"stop", "drain"}
  BY DEF Idle, NextTurn, wvars, hist, MainInv, Quiet
<1>2. \A n \in NS : Live(n)
  BY <1>1 DEF Live, Freed
<1>3. wpc' \in Calls
  BY <1>1 DEF LoggedInv
<1> QED BY <1>1, <1>2, <1>3, StillLogged

LEMMA FlushDoneLogged ==
  ASSUME LoggedInv, WalInv, MainInv, FlushDone
  PROVE  LoggedInv'
<1>1. /\ pc = "commit_wait" /\ disk' = disk /\ w' = w /\ wpc' = wpc /\ rings' = rings /\ released' = released
  BY Zenon DEF FlushDone, hist
<1>2. CASE wret = "ok"
  <2>1. srcs' = srcs /\ pc' = "release"
    BY <1>2 DEF FlushDone
  <2> QED BY <1>1, <1>2, <2>1, ReturnLogged
<1>3. CASE wret = "fail"
  <2>1. srcs' = [n \in NS |-> [srcs[n] EXCEPT !.taken = 0, !.added = FALSE]] /\ pc' \in {"stop", "drain"}
    BY Zenon, <1>3 DEF FlushDone, NextTurn
  <2>2. AckedNow' = AckedNow /\ HeldNow' = HeldNow
    BY <1>1 DEF AckedNow, HeldNow
  <2>3. MarkInv'
    BY <2>2 DEF LoggedInv, MarkInv
  <2>4. ASSUME NEW n \in NS
        PROVE  /\ srcs'[n].taken = 0 /\ srcs'[n].added = FALSE
               /\ srcs'[n].skip => SaidTo(AckedNow', n, srcs'[n].skip_seq)
               /\ w'.ring_seq[n].has => SaidTo(AckedNow', n, w'.ring_seq[n].seq)
    <3>1. SlotOK(n, AckedNow, HeldNow, rings[n], srcs[n], w.ring_seq[n], Live(n))
      BY DEF LoggedInv, SlotInv
    <3>2. srcs'[n].taken = 0 /\ srcs'[n].added = FALSE /\ srcs'[n].skip = srcs[n].skip /\ srcs'[n].skip_seq = srcs[n].skip_seq
      BY Zenon, <2>1 DEF MainInv, SrcType
    <3> QED BY <1>1, <2>2, <3>1, <3>2 DEF SlotOK
  <2>5. wpc' \in Calls
    BY <1>1 DEF LoggedInv
  <2> QED BY Zenon, <1>1, <2>1, <2>2, <2>3, <2>4, <2>5, FreshLogged
<1> QED BY Zenon, <1>2, <1>3 DEF FlushDone

\* The slots of ring n are released: all of them are acknowledged.
LEMMA ReleaseSlot ==
  ASSUME NEW n, NEW A, NEW r, NEW s, NEW m, SlotOK(n, A, {}, r, s, m, TRUE), r.tail \in Nat, s.taken \in Nat,
         NEW z, z.gen = r.gen, z.tail = r.tail + s.taken, NEW t, t.skip = s.skip, t.skip_seq = s.skip_seq,
         NEW live, live => t.taken = 0 /\ t.added = FALSE
  PROVE  SlotOK(n, A, {}, z, t, m, live)
<1> DEFINE b == r.tail
           c == s.taken
<1>1. /\ r.gen = 1 /\ SaidTo(A, n, b - 1) /\ (s.skip => SaidTo(A, n, s.skip_seq)) /\ (m.has => SaidTo(A, n, m.seq))
      /\ \A q \in b .. b + c - 1 : Said(A \cup {}, n, q)
  BY DEF SlotOK
<1>2. b \in Nat /\ c \in Nat /\ z.tail = b + c
  OBVIOUS
<1> HIDE DEF b, c
<1>3. ASSUME NEW q \in 0 .. b + c - 1 PROVE Said(A, n, q)
  <2>1. CASE q \in 0 .. b - 1
    BY <1>1, <2>1 DEF SaidTo
  <2>2. CASE q \in b .. b + c - 1
    <3>1. Said(A \cup {}, n, q) /\ A \cup {} = A
      BY <1>1, <2>2
    <3> QED BY <3>1
  <2>3. q \in 0 .. b - 1 \/ q \in b .. b + c - 1
    BY <1>2, <1>3
  <2> QED BY <2>1, <2>2, <2>3
<1>4. SaidTo(A, n, z.tail - 1)
  BY <1>2, <1>3 DEF SaidTo
<1>5. live => z.tail .. z.tail + t.taken - 1 = {}
  BY <1>2
<1> QED BY <1>1, <1>4, <1>5 DEF SlotOK

LEMMA ReleaseLogged ==
  ASSUME LoggedInv, WalInv, WalInv', MainInv, Release \/ StopRelease
  PROVE  LoggedInv'
<1>1. MainStep
  BY DEF MainStep
<1>2. /\ pc \in {"release", "stop_release"} /\ rings' = [rings EXCEPT ![ni].tail = @ + srcs[ni].taken]
      /\ released' = released \cup Taken(ni)
      /\ wret = "none" /\ wpc = "idle" /\ disk' = disk
      /\ pc' \in {"release", "stop_release", "stop", "drain", "closing"}
  BY <1>1, MainIdle DEF Release, StopRelease, ReleaseTaken, NextTurn, MainInv, Quiet
<1>3. Ready(disk, w) /\ DiskOK(disk) /\ w.open_batch = FALSE /\ NoBatch(w) /\ Filling(w)
  BY <1>1, <1>2, MainIdle DEF LoggedInv, NoBatch, Ready
<1>4. HeldNow = {}
  BY <1>3, NoBatchHeld DEF HeldNow
<1>5. AckedNow' = AckedNow /\ HeldNow' = {} /\ w'.ring_seq = w.ring_seq
  <2>1. CASE w' = w
    BY <1>2, <1>4, <2>1 DEF AckedNow, HeldNow
  <2>2. CASE CallClose(w)
    <3>1. Settled(w)
      BY <1>3, <2>2, CallCloseSettles
    <3> QED BY <1>1, <1>2, <1>4, <3>1, IdleAcked DEF Settled, HeldNow
  <2> QED BY <2>1, <2>2 DEF Release, StopRelease, wvars
<1>6. pc' \in {"release", "stop_release"} => w'.open_batch = FALSE
  BY <1>3 DEF Release, StopRelease, wvars, NextTurn
<1>7. /\ ni \in NS /\ ni \in Nat /\ rings \in [NS -> RingType] /\ srcs \in [NS -> SrcType] /\ NS \subseteq Nat
      /\ \A n \in NS : rings[n].tail \in Nat /\ srcs[n].taken \in Nat
  BY NsIs DEF MainInv, RingType, SrcType
<1> DEFINE z == [rings[ni] EXCEPT !.tail = rings[ni].tail + srcs[ni].taken]
<1>8. z.gen = rings[ni].gen /\ z.tail = rings[ni].tail + srcs[ni].taken
  BY <1>7 DEF RingType
<1>9. rings'[ni] = z /\ \A n \in NS : n # ni => rings'[n] = rings[n]
  <2>1. rings' = [rings EXCEPT ![ni] = z]
    BY <1>2
  <2> HIDE DEF z
  <2> QED BY <1>7, <2>1
<1> HIDE DEF z
<1>10. \A n \in NS : n # ni => srcs'[n] = srcs[n]
  BY <1>7 DEF Release, StopRelease
<1>11. /\ srcs'[ni].skip = srcs[ni].skip /\ srcs'[ni].skip_seq = srcs[ni].skip_seq
       /\ (pc = "release" => srcs'[ni].taken = 0 /\ srcs'[ni].added = FALSE)
  <2>1. CASE Release
    <3> DEFINE t == [srcs[ni] EXCEPT !.taken = 0, !.added = FALSE]
    <3>1. srcs' = [srcs EXCEPT ![ni] = t]
      BY <2>1 DEF Release
    <3>2. t.skip = srcs[ni].skip /\ t.skip_seq = srcs[ni].skip_seq /\ t.taken = 0 /\ t.added = FALSE
      BY <1>7 DEF SrcType
    <3> HIDE DEF t
    <3> QED BY <1>7, <3>1, <3>2
  <2>2. CASE StopRelease
    BY <2>2 DEF StopRelease
  <2> QED BY <2>1, <2>2
<1>12. /\ \A n \in NS : Live(n)' => Live(n)
       /\ pc = "stop_release" => \A n \in NS : n = ni => ~Live(n)'
  <2>1. CASE Release
    BY <1>2, <2>1 DEF Release, Live, Freed
  <2>2. CASE StopRelease
    <3>1. (pc' = "stop_release" /\ ni' = ni + 1) \/ pc' = "closing"
      BY <2>2 DEF StopRelease
    <3>2. pc = "stop_release"
      BY <2>2 DEF StopRelease
    <3>3. \A n \in NS : (n < ni => n < ni + 1) /\ (n = ni => n < ni + 1)
      BY <1>7
    <3> QED BY <1>2, <3>1, <3>2, <3>3 DEF Live, Freed
  <2> QED BY <2>1, <2>2
<1>13. ASSUME NEW n \in NS, n = ni PROVE SlotInv(n)'
  <2>1. SlotOK(n, AckedNow, HeldNow, rings[n], srcs[n], w.ring_seq[n], Live(n))
    BY DEF LoggedInv, SlotInv
  <2>2. Live(n)
    BY <1>2, <1>7, <1>13 DEF Live, Freed
  <2>3. SlotOK(n, AckedNow, {}, rings[n], srcs[n], w.ring_seq[n], TRUE)
    BY <1>4, <2>1, <2>2 DEF SlotOK
  <2> DEFINE t == srcs'[n]
  <2>4. t.skip = srcs[n].skip /\ t.skip_seq = srcs[n].skip_seq /\ (Live(n)' => t.taken = 0 /\ t.added = FALSE)
    BY <1>2, <1>11, <1>12, <1>13
  <2>5. z.gen = rings[n].gen /\ z.tail = rings[n].tail + srcs[n].taken /\ rings[n].tail \in Nat /\ srcs[n].taken \in Nat
    BY <1>7, <1>8, <1>13
  <2> HIDE DEF t
  <2>6. SlotOK(n, AckedNow, {}, z, t, w.ring_seq[n], Live(n)')
    BY <2>3, <2>4, <2>5, ReleaseSlot
  <2>7. SlotOK(n, AckedNow', HeldNow', rings'[n], srcs'[n], w'.ring_seq[n], Live(n)')
    BY <1>5, <1>9, <1>13, <2>6 DEF t
  <2> QED BY <2>7 DEF SlotInv
<1>14. ASSUME NEW n \in NS, n # ni PROVE SlotInv(n)'
  <2>1. SlotInv(n) /\ rings'[n] = rings[n] /\ srcs'[n] = srcs[n]
    BY <1>9, <1>10, <1>14 DEF LoggedInv
  <2> QED BY <1>4, <1>5, <1>12, <2>1, SlotsKept
<1>15. MarkInv'
  BY <1>4, <1>5 DEF LoggedInv, MarkInv
<1>16. \A n \in NS : rings'[n].tail \in Nat /\ rings'[n].tail >= rings[n].tail
  <2> TAKE n \in NS
  <2>1. CASE n = ni
    BY <1>7, <1>8, <1>9, <2>1
  <2>2. CASE n # ni
    BY <1>7, <1>9, <2>2
  <2> QED BY <2>1, <2>2
<1>17. ASSUME NEW s \in released' PROVE FreedIn(s)'
  <2>1. CASE s \in released
    <3>0. PICK n \in NS : \E q \in 0 .. rings[n].tail - 1 : s = <<n, 1, q>>
      BY <2>1 DEF LoggedInv, FreedIn
    <3>1. PICK q \in 0 .. rings[n].tail - 1 : s = <<n, 1, q>>
      BY <3>0
    <3>2. q \in 0 .. rings'[n].tail - 1
      BY <1>7, <1>16
    <3> QED BY <3>1, <3>2 DEF FreedIn
  <2>2. CASE s \in Taken(ni)
    <3>1. PICK q \in rings[ni].tail .. rings[ni].tail + srcs[ni].taken - 1 : s = <<ni, rings[ni].gen, q>>
      BY <2>2 DEF Taken
    <3>2. rings[ni].gen = 1
      BY <1>7 DEF LoggedInv, SlotInv, SlotOK
    <3>3. q \in 0 .. rings'[ni].tail - 1
      BY <1>7, <1>8, <1>9
    <3>4. s = <<ni, 1, q>>
      BY <3>1, <3>2
    <3> QED BY <1>7, <3>3, <3>4 DEF FreedIn
  <2> QED BY <1>2, <2>1, <2>2
<1>18. wpc' \in Calls /\ \A n \in NS : SlotInv(n)'
  BY <1>1, <1>13, <1>14, MainCalls DEF LoggedInv
<1> QED BY <1>2, <1>6, <1>15, <1>17, <1>18 DEF LoggedInv

LEMMA StopDoneLogged ==
  ASSUME LoggedInv, WalInv, WalInv', MainInv, StopDone
  PROVE  LoggedInv'
<1>1. MainStep
  BY DEF MainStep
<1>2. pc = "stop_wait" /\ disk' = disk /\ rings' = rings /\ srcs' = srcs /\ released' = released
  BY DEF StopDone, hist
<1>3. CASE wret = "ok"
  <2>1. w' = w /\ wpc' = wpc /\ pc' = "stop_release"
    BY <1>3 DEF StopDone
  <2> QED BY <1>2, <1>3, <2>1, ReturnLogged
<1>4. CASE wret = "fail"
  <2>1. pc' = "closing" /\ CallClose(w)
    BY <1>4 DEF StopDone
  <2>2. Filling(w)
    BY <1>1, MainIdle DEF Ready
  <2>3. Settled(w)
    BY <2>1, <2>2, CallCloseSettles
  <2>4. AckedNow' = AckedNow /\ HeldNow' = HeldNow /\ w'.ring_seq = w.ring_seq
    BY <1>1, <1>2, <2>3, IdleAcked DEF Settled, HeldNow
  <2>5. \A n \in NS : ~Live(n)'
    BY <2>1 DEF Live, Freed
  <2>6. wpc' \in Calls
    BY <1>1, MainCalls DEF LoggedInv
  <2> QED BY <1>2, <2>1, <2>4, <2>5, <2>6, SameLogged
<1> QED BY <1>3, <1>4 DEF StopDone

LEMMA MainLogged ==
  ASSUME LoggedInv, WalInv, WalInv', MainInv, MainStep
  PROVE  LoggedInv'
<1>1. CASE Drain
  <2>1. Ready(disk, w)
    BY MainIdle
  <2> QED BY <1>1, <2>1, DrainLogged
<1>2. CASE CloseDone
  <2>1. PICK how : Exit(how)
    BY <1>2 DEF CloseDone
  <2>2. disk' = disk /\ rings' = rings /\ released' = released
    BY <1>2 DEF CloseDone
  <2> QED BY <2>1, <2>2, ExitLogged
<1> QED BY <1>1, <1>2, StartLogged, DoneLogged, NoteGenerationLogged, CommitLogged, IdleLogged, FlushDoneLogged,
           ReleaseLogged, StopDoneLogged DEF MainStep

LEMMA LoggedNext ==
  ASSUME "undo" \notin Accidents, OrderInv, OrderInv', LoggedInv, [Next]_vars, ~PowerCut
  PROVE  LoggedInv'
<1>1. WalInv /\ MainInv /\ WalInv'
  BY DEF OrderInv
<1>2. CASE MainStep
  BY <1>1, <1>2, MainLogged
<1>3. CASE LogStep
  BY <1>1, <1>3, WalLogged
<1>4. ASSUME NEW n \in NS, Push(n) PROVE LoggedInv'
  <2>1. disk' = disk /\ w' = w /\ wpc' = wpc /\ wret' = wret /\ pc' = pc /\ ni' = ni /\ srcs' = srcs
        /\ rings' = [rings EXCEPT ![n].head = @ + 1] /\ released' = released
    BY <1>4 DEF Push, wvars, svars, hist
  <2>2. \A m \in NS : rings'[m].gen = rings[m].gen /\ rings'[m].tail = rings[m].tail
    BY <1>1, <2>1 DEF MainInv, RingType
  <2>3. AckedNow' = AckedNow /\ HeldNow' = HeldNow /\ \A m \in NS : Live(m)' = Live(m)
    BY <2>1 DEF AckedNow, HeldNow, Live, Freed
  <2>4. ASSUME NEW m \in NS PROVE SlotInv(m)'
    <3>1. SlotInv(m)
      BY DEF LoggedInv
    <3> QED BY <2>1, <2>2, <2>3, <3>1, SlotsKept
  <2>5. MarkInv'
    BY <2>3 DEF LoggedInv, MarkInv
  <2>6. \A s \in released : FreedIn(s)'
    BY <2>2 DEF LoggedInv, FreedIn
  <2> QED BY <2>1, <2>4, <2>5, <2>6 DEF LoggedInv
<1>5. CASE Tick \/ Signal \/ UNCHANGED vars
  <2>1. disk' = disk /\ w' = w /\ wpc' = wpc /\ wret' = wret /\ pc' = pc /\ ni' = ni /\ srcs' = srcs /\ rings' = rings
        /\ released' = released
    BY <1>5 DEF Tick, Signal, vars, wvars, svars, hist
  <2> QED BY <2>1 DEF LoggedInv, SlotInv, MarkInv, AckedNow, HeldNow, Live, Freed, FreedIn
<1>6. CASE Kill
  <2>1. disk' = disk /\ w' = Closed /\ wpc' = "idle" /\ rings' = rings /\ srcs' = NoSources
        /\ pc' = "down" /\ released' = released
    BY <1>6 DEF Kill, WalKilled, Gone
  <2>2. Good(disk) = AckedNow \/ Good(disk) = AckedNow \cup HeldNow
    BY <1>1, GoodIs DEF LoggedInv
  <2> QED BY <1>1, <2>1, <2>2, DownLogged
<1> QED BY <1>2, <1>3, <1>4, <1>5, <1>6 DEF Next

LEMMA LoggedInit == Init => LoggedInv
<1> SUFFICES ASSUME Init PROVE LoggedInv
  OBVIOUS
<1>1. disk = <<>> /\ w = Closed /\ wpc = "idle" /\ wret = "none" /\ rings = NewRings(1) /\ srcs = NoSources /\ pc = "down"
      /\ released = {}
  BY DEF Init, WalInit
<1>2. AckedNow = {} /\ HeldNow = {}
  BY <1>1, ClosedIs, NoBatchHeld DEF AckedNow, Acked, Good, HeldNow
<1>3. ASSUME NEW n \in NS PROVE SlotInv(n)
  <2>1. rings[n].gen = 1 /\ rings[n].tail = 0 /\ srcs[n].taken = 0 /\ srcs[n].added = FALSE /\ srcs[n].skip = FALSE
        /\ w.ring_seq[n].has = FALSE
    BY <1>1 DEF NewRings, NoSources, NoSource, Closed, NoSeq
  <2>2. 0 .. 0 - 1 = {} /\ 0 .. 0 + 0 - 1 = {}
    OBVIOUS
  <2> QED BY <2>1, <2>2 DEF SlotInv, SlotOK, SaidTo
<1>4. MarkInv
  BY <1>2 DEF MarkInv, Marked
<1> QED BY <1>1, <1>3, <1>4 DEF LoggedInv, Calls

---------------------------------------------------------------------------
(* The log has every record that is acknowledged *)

\* Every record of a sequence of recs is somewhere in log.
AllIn(recs, log) == \A p \in 1 .. Len(recs) : \E j \in 1 .. Len(log) : log[j] = recs[p]

LEMMA JoinHolds ==
  ASSUME NEW g, NEW n \in Nat, NEW F, IsJoin(g, n, F), \A i \in 1 .. n : g[i] \in Seq(Recs)
  PROVE  F[n] \in Seq(Recs) /\ \A i \in 1 .. n : AllIn(g[i], F[n])
<1>1. F[0] = <<>> /\ \A i \in 1 .. n : F[i] = F[i - 1] \o g[i]
  BY JoinIs
<1> DEFINE S == {m \in Nat : m <= n => F[m] \in Seq(Recs) /\ \A i \in 1 .. m : AllIn(g[i], F[m])}
<1>2. 0 \in S
  <2>1. <<>> \in Seq(Recs) /\ 1 .. 0 = {}
    OBVIOUS
  <2> QED BY <1>1, <2>1
<1>3. ASSUME NEW m \in Nat, m \in S PROVE m + 1 \in S
  <2> SUFFICES ASSUME m + 1 <= n PROVE F[m + 1] \in Seq(Recs) /\ \A i \in 1 .. m + 1 : AllIn(g[i], F[m + 1])
    OBVIOUS
  <2> DEFINE a == F[m]
             b == g[m + 1]
             c == F[m + 1]
  <2>1. a \in Seq(Recs) /\ \A i \in 1 .. m : AllIn(g[i], a)
    BY <1>3
  <2>2. m + 1 \in 1 .. n /\ (m + 1) - 1 = m
    OBVIOUS
  <2>3. b \in Seq(Recs) /\ c = a \o b
    BY <1>1, <2>2
  <2> HIDE DEF a, b, c
  <2>4. c \in Seq(Recs) /\ Len(c) = Len(a) + Len(b) /\ Len(a) \in Nat /\ Len(b) \in Nat
        /\ (\A p \in 1 .. Len(a) : c[p] = a[p]) /\ (\A p \in 1 .. Len(b) : c[Len(a) + p] = b[p])
    BY <2>1, <2>3
  <2>5. ASSUME NEW i \in 1 .. m PROVE AllIn(g[i], c)
    <3>1. AllIn(g[i], a)
      BY <2>1
    <3>2. \A j \in 1 .. Len(a) : j \in 1 .. Len(c)
      BY <2>4
    <3> QED BY <2>4, <3>1, <3>2 DEF AllIn
  <2>6. AllIn(b, c)
    <3>1. \A p \in 1 .. Len(b) : Len(a) + p \in 1 .. Len(c)
      BY <2>4
    <3> QED BY <2>4, <3>1 DEF AllIn
  <2>7. ASSUME NEW i \in 1 .. m + 1 PROVE AllIn(g[i], c)
    <3>1. i \in 1 .. m \/ i = m + 1
      OBVIOUS
    <3> QED BY <2>5, <2>6, <3>1 DEF b
  <2> QED BY <2>4, <2>7 DEF c
<1>4. \A m \in Nat : m \in S
  <2> HIDE DEF S
  <2> QED BY <1>2, <1>3, SetInduction
<1>5. n \in S
  BY <1>4
<1> QED BY <1>5

\* What has all of the good part has the samples of it.
LEMMA GoodSamples ==
  ASSUME DiskOK(disk), NEW log \in Seq(Recs), \A i \in 1 .. Len(disk) : AllIn(Kept(disk[i].recs), log),
         NEW n, NEW q, Said(Good(disk), n, q)
  PROVE  <<n, 1, q>> \in SamplesOf(log)
<1>1. disk \in Seq(Segs) /\ Len(disk) \in Nat /\ \A i \in 1 .. Len(disk) : disk[i] \in Segs /\ disk[i].recs \in Seq(Recs)
  <2>1. disk \in Seq(Segs) /\ Len(disk) \in Nat
    BY DEF DiskOK
  <2>2. \A i \in 1 .. Len(disk) : disk[i] \in Segs
    BY <2>1
  <2> QED BY <2>1, <2>2 DEF Segs
<1>2. PICK r \in Good(disk) : r.kind = "SAMPLE" /\ r.ns = n /\ r.gen = 1 /\ r.val = q
  BY DEF Said
<1>3. \E i \in 1 .. Len(disk) : r \in Part(disk[i].recs, GoodLength(disk[i].recs))
  <2>1. Len(disk) > 0
    BY <1>2 DEF Good
  <2>2. CASE r \in Older(disk)
    <3>1. PICK i \in 1 .. Len(disk) - 1 : r \in Part(disk[i].recs, Len(disk[i].recs))
      BY <2>2 DEF Older
    <3>2. i \in 1 .. Len(disk) /\ Whole(disk[i].recs, Len(disk[i].recs))
      BY <1>1 DEF DiskOK
    <3>3. GoodLength(disk[i].recs) = Len(disk[i].recs)
      BY <1>1, <3>2, WholeLength
    <3> QED BY <3>1, <3>2, <3>3
  <2>3. CASE r \in Part(disk[Len(disk)].recs, GoodLength(disk[Len(disk)].recs))
    <3>1. Len(disk) \in 1 .. Len(disk)
      BY <1>1, <2>1
    <3> QED BY <2>3, <3>1
  <2> QED BY <1>2, <2>1, <2>2, <2>3 DEF Good
<1>4. PICK i \in 1 .. Len(disk) : r \in Part(disk[i].recs, GoodLength(disk[i].recs))
  BY <1>3
<1> DEFINE f == disk[i].recs
           k == GoodLength(f)
<1>5. f \in Seq(Recs) /\ AllIn(Kept(f), log)
  BY <1>1
<1>6. PICK p \in 1 .. k : r = f[p]
  BY <1>4 DEF Part
<1> HIDE DEF f
<1>7. Len(Kept(f)) = k /\ Kept(f)[p] = f[p]
  BY <1>5, <1>6, KeptIs
<1>8. PICK j \in 1 .. Len(log) : log[j] = r
  BY <1>5, <1>6, <1>7 DEF AllIn
<1>9. j \in DOMAIN log /\ log[j].kind = "SAMPLE" /\ <<log[j].ns, log[j].gen, log[j].val>> = <<n, 1, q>>
  BY <1>2, <1>8
<1> QED BY <1>9 DEF SamplesOf

\* What was freed is acknowledged.
LEMMA FreedSaid ==
  ASSUME LoggedInv, NEW s \in released
  PROVE  \E n \in NS : \E q \in Nat : s = <<n, 1, q>> /\ Said(AckedNow, n, q)
<1>1. PICK n \in NS : \E q \in 0 .. rings[n].tail - 1 : s = <<n, 1, q>>
  BY DEF LoggedInv, FreedIn
<1>2. PICK q \in 0 .. rings[n].tail - 1 : s = <<n, 1, q>>
  BY <1>1
<1>3. SaidTo(AckedNow, n, rings[n].tail - 1)
  BY DEF LoggedInv, SlotInv, SlotOK
<1>4. Said(AckedNow, n, q)
  BY <1>3 DEF SaidTo
<1> QED BY <1>2, <1>4

LEMMA LoggedSafe == OrderInv /\ LoggedInv => ReleasedIsLogged
<1> SUFFICES ASSUME OrderInv, LoggedInv, NEW s \in released PROVE s \in SamplesOf(Log)
  BY DEF ReleasedIsLogged
<1>1. WalInv /\ DiskOK(disk) /\ disk \in Seq(Segs) /\ Len(disk) \in Nat
  BY DEF OrderInv, WalInv, WalOK, DiskOK
<1>2. AckedNow \subseteq Good(disk)
  BY <1>1, GoodIs DEF LoggedInv
<1>3. PICK n \in NS, q \in Nat : s = <<n, 1, q>> /\ Said(AckedNow, n, q)
  BY FreedSaid
<1>4. Said(Good(disk), n, q)
  BY <1>2, <1>3, SaidMore
<1> DEFINE g == KeptOf(disk)
<1>5. PICK F : IsJoin(g, Len(disk), F) /\ Log = F[Len(disk)]
  BY <1>1, LogIs
<1>6. \A i \in 1 .. Len(disk) : g[i] = Kept(disk[i].recs) /\ disk[i].recs \in Seq(Recs)
  <2>1. \A i \in 1 .. Len(disk) : disk[i] \in Segs
    BY <1>1
  <2> QED BY <2>1 DEF KeptOf, Segs
<1>7. \A i \in 1 .. Len(disk) : g[i] \in Seq(Recs)
  BY <1>6, KeptIs
<1> HIDE DEF g
<1>8. Log \in Seq(Recs) /\ \A i \in 1 .. Len(disk) : AllIn(g[i], Log)
  BY <1>1, <1>5, <1>7, JoinHolds
<1>9. \A i \in 1 .. Len(disk) : AllIn(Kept(disk[i].recs), Log)
  BY <1>6, <1>8
<1>10. <<n, 1, q>> \in SamplesOf(Log)
  BY <1>1, <1>4, <1>8, <1>9, GoodSamples
<1> QED BY <1>3, <1>10

\* "A kill -9 at any instant loses nothing": however often storaged is killed, restarted and stopped, and
\* whatever system calls fail, every sample whose ring slot was freed is in the log (wal_commit, main).
THEOREM ReleasedSampleIsLogged ==
  ASSUME "undo" \notin Accidents, "power" \notin Accidents
  PROVE  Spec => []ReleasedIsLogged
<1>1. OrderInv /\ [Next]_vars => OrderInv'
  BY OrderNext DEF OrderAssumption
<1>2. OrderInv /\ OrderInv' /\ LoggedInv /\ [Next]_vars => LoggedInv'
  BY LoggedNext DEF PowerCut, WalPowerCut, Befalls
<1> QED BY <1>1, <1>2, OrderInit, LoggedInit, LoggedSafe, PTL DEF Spec

---------------------------------------------------------------------------
(* What is released is durable *)

\* wal_commit has a batch on its way to an open segment.
InWrite == wpc \in {"write", "fsync", "undo"} /\ w.fd # 0

\* Every segment is synced, but for the batch that is on its way.
SyncedAt(i) ==
  /\ disk[i].synced <= Len(disk[i].recs)
  /\ disk[i].synced # Len(disk[i].recs) => i = Len(disk) /\ InWrite /\ w.seg_bytes <= disk[i].synced

SyncInv == \A i \in 1 .. Len(disk) : SyncedAt(i)

LEMMA SyncSame ==
  ASSUME SyncInv, disk' = disk, InWrite => InWrite' /\ w'.seg_bytes = w.seg_bytes
  PROVE  SyncInv'
BY DEF SyncInv, SyncedAt

\* The newest segment changes.
LEMMA SyncNewest ==
  ASSUME SyncInv, disk \in Seq(Segs), Len(disk) > 0, NEW g, disk' = [disk EXCEPT ![Len(disk)] = g],
         g.synced <= Len(g.recs), g.synced # Len(g.recs) => InWrite' /\ w'.seg_bytes <= g.synced
  PROVE  SyncInv'
<1>1. Len(disk') = Len(disk) /\ disk'[Len(disk)] = g /\ \A i \in 1 .. Len(disk) : i # Len(disk) => disk'[i] = disk[i]
  OBVIOUS
<1> SUFFICES ASSUME NEW i \in 1 .. Len(disk) PROVE SyncedAt(i)'
  BY Zenon, <1>1 DEF SyncInv
<1>2. CASE i = Len(disk)
  BY Zenon, <1>1, <1>2 DEF SyncedAt
<1>3. CASE i # Len(disk)
  BY <1>1, <1>3 DEF SyncedAt, SyncInv
<1> QED BY <1>2, <1>3

\* The open segment is the newest.
LEMMA OpenIsNewest ==
  ASSUME WalInv, w.fd # 0, wpc \in {"write", "fsync", "undo", "cut", "cutsync"}
  PROVE  /\ disk \in Seq(Segs) /\ Len(disk) \in Nat /\ w.fd = Len(disk) /\ Len(disk) > 0 /\ disk[Len(disk)] \in Segs
         /\ w.seg_bytes \in Nat /\ w.seg_bytes <= Len(disk[Len(disk)].recs)
<1>1. Placed(disk, w) /\ w \in WType /\ disk \in Seq(Segs)
  BY DEF WalInv, WalOK, Sealed, Filled, NoBatch, Filling, DiskOK
<1>2. w.fd = Len(disk) /\ w.fd \in Nat /\ w.seg_bytes \in Nat /\ w.seg_bytes <= Len(disk[w.fd].recs)
  BY <1>1 DEF Placed, WType
<1>3. Len(disk) > 0
  BY <1>2
<1>4. disk[Len(disk)] \in Segs
  BY <1>1, <1>2, <1>3
<1> QED BY <1>1, <1>2, <1>3, <1>4

LEMMA NewestSynced ==
  ASSUME SyncInv, Len(disk) \in Nat, Len(disk) > 0, disk[Len(disk)] \in Segs, w.seg_bytes \in Nat,
         w.seg_bytes <= Len(disk[Len(disk)].recs)
  PROVE  w.seg_bytes <= disk[Len(disk)].synced /\ disk[Len(disk)].synced <= Len(disk[Len(disk)].recs)
<1>1. SyncedAt(Len(disk))
  BY DEF SyncInv
<1> QED BY <1>1 DEF SyncedAt

LEMMA WriteSync == ASSUME SyncInv, WalInv, WalInv', Write PROVE SyncInv'
<1> DEFINE N == Len(disk)
           a == disk[N]
<1>0. wpc = "write" /\ w.fd # 0
  BY DEF Write
<1>1. disk \in Seq(Segs) /\ N \in Nat /\ w.fd = N /\ N > 0 /\ a \in Segs /\ w.seg_bytes \in Nat /\ w.seg_bytes <= Len(a.recs)
  BY <1>0, OpenIsNewest
<1>2. w.seg_bytes <= a.synced /\ a.synced <= Len(a.recs)
  BY <1>1, NewestSynced
<1>3. PICK d \in w.done .. Len(w.buf), h \in BOOLEAN :
        /\ d > w.done \/ (h /\ ~w.half)
        /\ disk' = [disk EXCEPT ![w.fd].recs =
                      SubSeq(@, 1, Len(@) - (IF w.half THEN 1 ELSE 0))
                        \o SubSeq(w.buf, w.done + 1, d)
                        \o (IF h THEN <<Torn>> ELSE <<>>)]
        /\ w' = [w EXCEPT !.done = d, !.half = h]
        /\ wpc' = IF d = Len(w.buf) THEN "fsync" ELSE "write"
  BY Zenon DEF Write
<1> DEFINE f == SubSeq(a.recs, 1, Len(a.recs) - (IF w.half THEN 1 ELSE 0)) \o SubSeq(w.buf, w.done + 1, d)
                  \o (IF h THEN <<Torn>> ELSE <<>>)
           g == [a EXCEPT !.recs = f]
<1>4. disk' = [disk EXCEPT ![N] = g]
  BY <1>1, <1>3
<1> HIDE DEF f
<1>5. g.recs = f /\ g.synced = a.synced /\ a.synced \in Nat
  BY <1>1 DEF Segs
<1> HIDE DEF g
<1>6. w \in WType /\ w.done \in Nat /\ w.half \in BOOLEAN /\ w.buf \in Seq(Recs) /\ Len(w.buf) \in Nat
  BY <1>0 DEF WalInv, WalOK, Sealed, Filled, WType
<1>7. w'.done = d /\ w'.half = h /\ w'.fd = w.fd /\ w'.seg_bytes = w.seg_bytes /\ wpc' \in {"write", "fsync"}
  BY <1>3, <1>6 DEF WType
<1>8. Len(a.recs) = w.seg_bytes + w.done + (IF w.half THEN 1 ELSE 0)
  BY <1>0, <1>1 DEF WalInv, WalOK, Sealed, OnCard
<1>9. disk'[N] = g
  BY <1>1, <1>4
<1>10. Len(g.recs) = w.seg_bytes + d + (IF h THEN 1 ELSE 0)
  <2>1. OnCard(disk', w')
    BY <1>7 DEF WalInv, WalOK, Sealed
  <2> QED BY <1>0, <1>1, <1>7, <1>9, <2>1 DEF OnCard
<1>11. Len(a.recs) <= Len(g.recs)
  <2>1. d \in Nat /\ d >= w.done
    BY <1>6
  <2> DEFINE u == IF w.half THEN 1 ELSE 0
             v == IF h THEN 1 ELSE 0
             n == w.done
             b == w.seg_bytes
  <2>2. u \in Nat /\ v \in Nat /\ n \in Nat /\ b \in Nat /\ n + u <= d + v
    BY <1>1, <1>3, <1>6, <2>1
  <2>3. Len(a.recs) = b + n + u /\ Len(g.recs) = b + d + v
    BY <1>8, <1>10
  <2> HIDE DEF u, v, n, b
  <2> QED BY <2>1, <2>2, <2>3
<1>12. Len(a.recs) \in Nat /\ Len(g.recs) \in Nat
  <2>1. d \in Nat
    BY <1>6
  <2> QED BY <1>1, <1>6, <1>8, <1>10, <2>1
<1>13. g.synced <= Len(g.recs) /\ w'.seg_bytes <= g.synced /\ InWrite'
  BY <1>0, <1>2, <1>5, <1>7, <1>11, <1>12 DEF InWrite
<1> QED BY <1>1, <1>4, <1>13, SyncNewest

LEMMA FsyncSync == ASSUME SyncInv, WalInv, Fsync \/ CutSync PROVE SyncInv'
<1> DEFINE N == Len(disk)
           a == disk[N]
           g == [a EXCEPT !.synced = Len(a.recs)]
<1>0. wpc \in {"fsync", "cutsync"} /\ w.fd # 0
  BY DEF Fsync, CutSync, WalInv, WalOK
<1>1. disk \in Seq(Segs) /\ N \in Nat /\ w.fd = N /\ N > 0 /\ a \in Segs
  BY <1>0, OpenIsNewest
<1>2. disk' = [disk EXCEPT ![N] = g]
  BY <1>1 DEF Fsync, CutSync
<1>3. g.synced = Len(g.recs) /\ Len(g.recs) \in Nat
  BY <1>1 DEF Segs
<1> HIDE DEF g
<1>4. g.synced <= Len(g.recs)
  BY <1>3
<1> QED BY <1>1, <1>2, <1>3, <1>4, SyncNewest

LEMMA CutSynced == ASSUME SyncInv, WalInv, Undo \/ CutTail PROVE SyncInv'
<1> DEFINE N == Len(disk)
           a == disk[N]
           g == Truncate(a, w.seg_bytes)
<1>0. wpc \in {"undo", "cut"} /\ w.fd # 0
  BY DEF Undo, CutTail, WalInv, WalOK
<1>1. disk \in Seq(Segs) /\ N \in Nat /\ w.fd = N /\ N > 0 /\ a \in Segs /\ w.seg_bytes \in Nat /\ w.seg_bytes <= Len(a.recs)
  BY <1>0, OpenIsNewest
<1>2. w.seg_bytes <= a.synced /\ a.synced \in Nat
  BY <1>1, NewestSynced DEF Segs
<1>3. disk' = [disk EXCEPT ![N] = g]
  BY <1>1 DEF Undo, CutTail
<1>4. g.recs = SubSeq(a.recs, 1, w.seg_bytes) /\ g.synced = w.seg_bytes
  BY <1>1, <1>2 DEF Truncate, Segs
<1>5. Len(g.recs) = w.seg_bytes
  <2>1. a.recs \in Seq(Recs)
    BY <1>1 DEF Segs
  <2> QED BY <1>1, <1>4, <2>1
<1> HIDE DEF g
<1>6. g.synced <= Len(g.recs) /\ g.synced = Len(g.recs)
  BY <1>1, <1>4, <1>5
<1> QED BY <1>1, <1>3, <1>6, SyncNewest

LEMMA MadeSync == ASSUME SyncInv, WalInv, Create \/ DirSync PROVE SyncInv'
<1>0. disk \in Seq(Segs) /\ Len(disk) \in Nat /\ DOMAIN disk = 1 .. Len(disk)
  BY DEF WalInv, WalOK, DiskOK
<1>1. \A i \in 1 .. Len(disk) : disk[i] \in Segs
  BY <1>0
<1>2. \A i \in 1 .. Len(disk) : disk[i].synced = Len(disk[i].recs) /\ disk[i].synced \in Nat
  BY <1>1 DEF SyncInv, SyncedAt, InWrite, Create, DirSync, Segs
<1>3. CASE Create
  <2> DEFINE z == Segment(w.next_seq)
  <2>1. disk' = Append(disk, z) /\ z.synced = 0 /\ z.recs = <<>>
    BY <1>3 DEF Create, Segment
  <2> HIDE DEF z
  <2>2. Len(disk') = Len(disk) + 1 /\ disk'[Len(disk')] = z /\ \A i \in 1 .. Len(disk) : disk'[i] = disk[i]
    BY <1>0, <2>1
  <2>3. \A i \in 1 .. Len(disk') : i \in 1 .. Len(disk) \/ i = Len(disk')
    BY <1>0, <2>2
  <2>4. \A i \in 1 .. Len(disk') : disk'[i].synced = Len(disk'[i].recs) /\ disk'[i].synced \in Nat
    BY <1>2, <2>1, <2>2, <2>3
  <2> QED BY <2>4 DEF SyncInv, SyncedAt
<1>4. CASE DirSync
  <2>1. disk' = [i \in 1 .. Len(disk) |-> [disk[i] EXCEPT !.entry = TRUE]]
    BY <1>0, <1>4 DEF DirSync
  <2>2. Len(disk') = Len(disk)
    BY <1>0, <2>1
  <2>3. \A i \in 1 .. Len(disk) : disk'[i].synced = disk[i].synced /\ disk'[i].recs = disk[i].recs
    BY <1>1, <2>1 DEF Segs
  <2>4. \A i \in 1 .. Len(disk') : disk'[i].synced = Len(disk'[i].recs) /\ disk'[i].synced \in Nat
    BY <1>2, <2>2, <2>3
  <2> QED BY <2>4 DEF SyncInv, SyncedAt
<1> QED BY <1>3, <1>4

LEMMA WalStepSync == ASSUME SyncInv, WalInv, WalInv', WalStep, "undo" \notin Accidents PROVE SyncInv'
<1>1. CASE WriteFails \/ FsyncFails
  <2>1. disk' = disk /\ w' = w /\ wpc' = "undo"
    BY <1>1 DEF WriteFails, FsyncFails
  <2> QED BY <2>1, SyncSame DEF InWrite
<1>2. CASE UndoFails
  <2>1. disk' = disk /\ ~InWrite
    BY <1>2 DEF UndoFails, Befalls, InWrite
  <2> QED BY <2>1, SyncSame
<1>3. CASE CreateFails \/ DirSyncFails \/ CutFails
  <2>1. disk' = disk /\ ~InWrite
    BY <1>3 DEF CreateFails, DirSyncFails, CutFails, InWrite
  <2> QED BY <2>1, SyncSame
<1> QED BY <1>1, <1>2, <1>3, WriteSync, FsyncSync, CutSynced, MadeSync DEF WalStep

LEMMA SyncNext ==
  ASSUME "undo" \notin Accidents, "kill" \notin Accidents, OrderInv, OrderInv', SyncInv, [Next]_vars, ~PowerCut
  PROVE  SyncInv'
<1>1. WalInv /\ MainInv /\ WalInv'
  BY DEF OrderInv
<1>2. CASE MainStep
  <2>1. disk' = disk /\ ~InWrite
    BY <1>1, <1>2, MainIdle DEF InWrite
  <2> QED BY <2>1, SyncSame
<1>3. CASE LogStep
  BY <1>1, <1>3, WalStepSync DEF LogStep
<1>4. CASE (\E n \in NS : Push(n)) \/ Tick \/ Signal \/ UNCHANGED vars
  <2>1. disk' = disk /\ w' = w /\ wpc' = wpc
    BY <1>4 DEF Push, Tick, Signal, vars, wvars
  <2> QED BY <2>1, SyncSame DEF InWrite
<1>5. CASE Kill
  BY <1>5 DEF Kill, WalKilled, Befalls
<1> QED BY <1>2, <1>3, <1>4, <1>5 DEF Next

---------------------------------------------------------------------------
(* What a power cut leaves *)

\* Segment seg has record r in whole batches that are synced, and its directory entry is durable.
SafeIn(r, seg) ==
  seg.entry = TRUE /\ seg.synced <= Len(seg.recs) /\ \E b \in 0 .. seg.synced : Whole(seg.recs, b) /\ r \in Part(seg.recs, b)

LEMMA AckedIsSafe ==
  ASSUME WalInv, wpc \in Calls, EntryOK, SyncInv, NEW r \in AckedNow
  PROVE  \E i \in 1 .. Len(disk) : SafeIn(r, disk[i])
<1>1. DiskOK(disk) /\ disk \in Seq(Segs) /\ Len(disk) \in Nat
  BY DEF WalInv, WalOK, DiskOK
<1>2. \A i \in 1 .. Len(disk) : disk[i] \in Segs
  BY <1>1
<1>3. \A i \in 1 .. Len(disk) : disk[i].recs \in Seq(Recs) /\ disk[i].synced \in Nat /\ Len(disk[i].recs) \in Nat
  BY <1>2 DEF Segs
\* It is enough to find the batch: a segment that is being made is empty.
<1>4. ASSUME NEW i \in 1 .. Len(disk), NEW b \in Nat, b <= disk[i].synced, Whole(disk[i].recs, b), r \in Part(disk[i].recs, b)
      PROVE  SafeIn(r, disk[i])
  <2>1. SyncedAt(i)
    BY DEF SyncInv
  <2>2. disk[i].synced <= Len(disk[i].recs) /\ b \in 0 .. disk[i].synced
    BY <1>3, <1>4, <2>1 DEF SyncedAt
  <2>3. PICK p \in 1 .. b : r = disk[i].recs[p]
    BY <1>4 DEF Part
  <2>4. Len(disk[i].recs) > 0
    BY <1>3, <2>2, <2>3
  <2>5. ~(i = Len(disk) /\ wpc = "dirsync")
    BY <2>4 DEF WalInv, WalOK, Fresh
  <2>6. disk[i].entry = TRUE
    BY <2>5 DEF EntryOK
  <2> QED BY <1>4, <2>2, <2>6 DEF SafeIn
<1>5. CASE r \in Older(disk)
  <2>1. PICK i \in 1 .. Len(disk) - 1 : r \in Part(disk[i].recs, Len(disk[i].recs))
    BY <1>5 DEF Older
  <2>2. i \in 1 .. Len(disk) /\ i # Len(disk)
    BY <1>1
  <2>3. Whole(disk[i].recs, Len(disk[i].recs))
    BY <1>1 DEF DiskOK
  <2>4. SyncedAt(i)
    BY <2>2 DEF SyncInv
  <2>5. disk[i].synced = Len(disk[i].recs)
    BY <2>2, <2>4 DEF SyncedAt
  <2>6. SafeIn(r, disk[i])
    BY <1>3, <1>4, <2>1, <2>2, <2>3, <2>5
  <2> QED BY <2>2, <2>6
<1>6. CASE r \notin Older(disk)
  <2> DEFINE N == Len(disk)
             f == disk[N].recs
  <2>1. Len(disk) > 0
    <3>1. CASE w.fd = 0
      BY <1>1, <3>1 DEF AckedNow, Acked, Good
    <3>2. CASE w.fd # 0
      <4>1. Placed(disk, w) /\ w \in WType
        BY <3>2 DEF WalInv, WalOK, Ready, Sealed, Filled, NoBatch, Filling, Calls
      <4> QED BY <1>1, <3>2, <4>1 DEF Placed, WType
    <3> QED BY <3>1, <3>2
  <2>2. N \in 1 .. N /\ f \in Seq(Recs) /\ disk[N].synced \in Nat /\ Len(f) \in Nat
    BY <1>1, <1>3, <2>1
  <2>3. SyncedAt(N)
    BY <2>2 DEF SyncInv
  <2>4. CASE w.fd = 0
    <3>1. r \in Part(f, GoodLength(f))
      BY <1>6, <2>1, <2>4 DEF AckedNow, Acked, Good
    <3>2. GoodLength(f) \in 0 .. Len(f) /\ Whole(f, GoodLength(f))
      BY <2>2, GoodLengthIs
    <3>3. disk[N].synced = Len(f)
      BY <2>3, <2>4 DEF SyncedAt, InWrite
    <3>4. GoodLength(f) \in Nat /\ GoodLength(f) <= disk[N].synced
      BY <2>2, <3>2, <3>3
    <3>5. SafeIn(r, disk[N])
      BY <1>4, <2>2, <3>1, <3>2, <3>4
    <3> QED BY <2>2, <3>5
  <2>5. CASE w.fd # 0
    <3>1. r \in Part(f, w.seg_bytes)
      BY <1>6, <2>5 DEF AckedNow, Acked
    <3>2. Placed(disk, w) /\ w \in WType
      BY <2>5 DEF WalInv, WalOK, Ready, Sealed, Filled, NoBatch, Filling, Calls
    <3>3. w.seg_bytes \in Nat /\ w.seg_bytes <= Len(f) /\ Whole(f, w.seg_bytes)
      BY <2>5, <3>2 DEF Placed, WType
    <3>4. w.seg_bytes <= disk[N].synced
      BY <2>2, <2>3, <3>3 DEF SyncedAt
    <3>5. SafeIn(r, disk[N])
      BY <1>4, <2>2, <3>1, <3>3, <3>4
    <3> QED BY <2>2, <3>5
  <2> QED BY <2>4, <2>5
<1> QED BY <1>5, <1>6

\* Recovery of a file with the same synced records finds it.
LEMMA SafeKept ==
  ASSUME NEW a \in Segs, NEW r, SafeIn(r, a), NEW g \in Seq(Recs), a.synced <= Len(g),
         \A p \in 1 .. a.synced : g[p] = a.recs[p]
  PROVE  Kept(g) \in Seq(Recs) /\ \E p \in 1 .. Len(Kept(g)) : Kept(g)[p] = r
<1>1. a.synced \in Nat /\ Len(g) \in Nat
  BY DEF Segs
<1>2. PICK b \in 0 .. a.synced : Whole(a.recs, b) /\ r \in Part(a.recs, b)
  BY DEF SafeIn
<1>3. b \in Nat /\ b \in 0 .. Len(g) /\ \A p \in 1 .. b : p \in 1 .. a.synced
  BY <1>1
<1>4. \A p \in 1 .. b : a.recs[p] = g[p]
  BY <1>3
<1>5. Whole(g, b)
  BY <1>2, <1>3, <1>4, WholeSame
<1>6. b <= GoodLength(g) /\ GoodLength(g) \in Nat
  BY <1>3, <1>5, GoodLengthIs
<1>7. PICK p \in 1 .. b : r = a.recs[p]
  BY <1>2 DEF Part
<1>8. p \in 1 .. GoodLength(g) /\ g[p] = r
  BY <1>3, <1>4, <1>6, <1>7
<1>9. Kept(g) \in Seq(Recs) /\ Len(Kept(g)) = GoodLength(g) /\ Kept(g)[p] = g[p]
  BY <1>8, KeptIs
<1> QED BY <1>8, <1>9

LEMMA InSamples ==
  ASSUME NEW log \in Seq(Recs), NEW j \in 1 .. Len(log), log[j].kind = "SAMPLE"
  PROVE  <<log[j].ns, log[j].gen, log[j].val>> \in SamplesOf(log)
BY DEF SamplesOf

\* What a power cut cannot take from each segment.
SyncedOf(d) == [i \in 1 .. Len(d) |-> IF d[i].entry THEN Kept(SubSeq(d[i].recs, 1, d[i].synced)) ELSE <<>>]

LEMMA DurableIs ==
  ASSUME disk \in Seq(Segs)
  PROVE  \E F : IsJoin(SyncedOf(disk), Len(disk), F) /\ Durable = F[Len(disk)]
<1> DEFINE n == Len(disk)
           of(i) == IF disk[i].entry THEN Kept(SubSeq(disk[i].recs, 1, disk[i].synced)) ELSE <<>>
           P(F) == F = [i \in 0 .. n |-> IF i = 0 THEN <<>> ELSE F[i - 1] \o of(i)]
<1>1. n \in Nat
  OBVIOUS
<1>2. ASSUME NEW F PROVE P(F) <=> IsJoin(SyncedOf(disk), n, F)
  <2>0. \A i \in 1 .. n : SyncedOf(disk)[i] = of(i)
    BY <1>1 DEF SyncedOf
  <2> HIDE DEF of
  <2>1. \A i \in 0 .. n : (IF i = 0 THEN <<>> ELSE F[i - 1] \o of(i)) = JoinTurn(SyncedOf(disk), F, i)
    BY <1>1, <2>0 DEF JoinTurn
  <2>2. [i \in 0 .. n |-> IF i = 0 THEN <<>> ELSE F[i - 1] \o of(i)]
        = [i \in 0 .. n |-> JoinTurn(SyncedOf(disk), F, i)]
    BY <2>1
  <2> QED BY <2>2 DEF IsJoin
<1>3. Durable = (CHOOSE F : P(F))[n]
  BY DEF Durable, Joined
<1>4. \E F : P(F)
  <2>1. PICK F : IsJoin(SyncedOf(disk), n, F)
    BY <1>1, JoinExists
  <2> QED BY <1>2, <2>1
<1> DEFINE G == CHOOSE F : P(F)
<1> HIDE DEF P
<1>5. P(G)
  BY <1>4
<1> HIDE DEF G
<1> QED BY <1>2, <1>3, <1>5 DEF G

LEMMA SafeDurable ==
  ASSUME disk \in Seq(Segs), SyncInv, NEW i \in 1 .. Len(disk), NEW r, SafeIn(r, disk[i]), r.kind = "SAMPLE"
  PROVE  <<r.ns, r.gen, r.val>> \in SamplesOf(Durable)
<1> DEFINE g == SyncedOf(disk)
           N == Len(disk)
<1>1. N \in Nat /\ \A j \in 1 .. N : disk[j] \in Segs
  OBVIOUS
<1>2. \A j \in 1 .. N : disk[j].recs \in Seq(Recs) /\ disk[j].synced \in Nat /\ Len(disk[j].recs) \in Nat
                        /\ disk[j].synced <= Len(disk[j].recs)
  <2> TAKE j \in 1 .. N
  <2>1. disk[j].recs \in Seq(Recs) /\ disk[j].synced \in Nat
    BY <1>1 DEF Segs
  <2>2. SyncedAt(j)
    BY DEF SyncInv
  <2>3. disk[j].synced <= Len(disk[j].recs)
    BY <2>2 DEF SyncedAt
  <2> QED BY <2>1, <2>3
<1>3. \A j \in 1 .. N : /\ SubSeq(disk[j].recs, 1, disk[j].synced) \in Seq(Recs)
                        /\ Len(SubSeq(disk[j].recs, 1, disk[j].synced)) = disk[j].synced
                        /\ \A p \in 1 .. disk[j].synced : SubSeq(disk[j].recs, 1, disk[j].synced)[p] = disk[j].recs[p]
  <2> TAKE j \in 1 .. N
  <2> DEFINE f == disk[j].recs
             k == disk[j].synced
  <2>1. f \in Seq(Recs) /\ k \in Nat /\ k <= Len(f)
    BY <1>2
  <2> HIDE DEF f, k
  <2>2. SubSeq(f, 1, k) \in Seq(Recs) /\ Len(SubSeq(f, 1, k)) = k /\ \A p \in 1 .. k : SubSeq(f, 1, k)[p] = f[p]
    BY <2>1
  <2> QED BY <2>2 DEF f, k
<1>4. \A j \in 1 .. N : g[j] \in Seq(Recs)
  <2> TAKE j \in 1 .. N
  <2>1. Kept(SubSeq(disk[j].recs, 1, disk[j].synced)) \in Seq(Recs)
    BY <1>3, KeptIs
  <2>2. <<>> \in Seq(Recs)
    OBVIOUS
  <2> QED BY <2>1, <2>2 DEF SyncedOf
<1> DEFINE h == SubSeq(disk[i].recs, 1, disk[i].synced)
<1>5. h \in Seq(Recs) /\ Len(h) = disk[i].synced /\ \A p \in 1 .. disk[i].synced : h[p] = disk[i].recs[p]
  BY <1>3
<1>6. g[i] = Kept(h)
  BY DEF SyncedOf, SafeIn
<1>7. PICK F : IsJoin(g, N, F) /\ Durable = F[N]
  BY DurableIs
<1> HIDE DEF g, h
<1>8. \E p \in 1 .. Len(Kept(h)) : Kept(h)[p] = r
  <2>1. disk[i] \in Segs /\ disk[i].synced <= Len(h)
    BY <1>1, <1>2, <1>5
  <2> QED BY <1>5, <2>1, SafeKept
<1>9. Durable \in Seq(Recs) /\ AllIn(g[i], Durable)
  BY <1>1, <1>4, <1>7, JoinHolds
<1>10. PICK j \in 1 .. Len(Durable) : Durable[j] = r
  BY <1>6, <1>8, <1>9 DEF AllIn
<1> QED BY <1>9, <1>10, InSamples

LEMMA LogExists == disk \in Seq(Segs) => \E F : IsJoin(KeptOf(disk), Len(disk), F) /\ Log = F[Len(disk)]
BY LogIs

LEMMA LogExistsNext == disk' \in Seq(Segs) => \E F : IsJoin(KeptOf(disk'), Len(disk'), F) /\ Log' = F[Len(disk')]
<1>1. (disk \in Seq(Segs) => \E F : IsJoin(KeptOf(disk), Len(disk), F) /\ Log = F[Len(disk)])'
  BY LogExists, PTL
<1> QED BY <1>1

\* A power cut leaves it in the log.
LEMMA SafeSurvives ==
  ASSUME DiskOK(disk), EntryOK, WalPowerCut, NEW i \in 1 .. Len(disk), NEW r, SafeIn(r, disk[i]), r.kind = "SAMPLE"
  PROVE  <<r.ns, r.gen, r.val>> \in SamplesOf(Log)'
<1>1. disk[i].entry = TRUE /\ disk[i].synced <= Len(disk[i].recs) /\ disk[i] \in Segs
  BY DEF SafeIn, DiskOK
<1>2. DiskOK(disk') /\ i \in 1 .. Len(disk') /\ KeepsSynced(disk[i], disk'[i])
  BY <1>1, PowerCutOK
<1> DEFINE d == disk'
           N == Len(d)
           g == KeptOf(d)
<1>3. d \in Seq(Segs) /\ N \in Nat
  BY <1>2 DEF DiskOK
<1>4. PICK F : IsJoin(g, N, F) /\ Log' = F[N]
  BY <1>3, LogExistsNext
<1>5. \A j \in 1 .. N : g[j] = Kept(d[j].recs) /\ d[j].recs \in Seq(Recs)
  <2>1. \A j \in 1 .. N : d[j] \in Segs
    BY <1>3
  <2> QED BY <2>1 DEF KeptOf, Segs
<1>6. \A j \in 1 .. N : g[j] \in Seq(Recs)
  BY <1>5, KeptIs
<1> HIDE DEF g
<1>7. Log' \in Seq(Recs) /\ AllIn(g[i], Log')
  BY <1>2, <1>3, <1>4, <1>6, JoinHolds
<1>8. \E p \in 1 .. Len(Kept(d[i].recs)) : Kept(d[i].recs)[p] = r
  <2> DEFINE f == d[i].recs
  <2>1. f \in Seq(Recs) /\ disk[i].synced <= Len(f) /\ \A p \in 1 .. disk[i].synced : f[p] = disk[i].recs[p]
    BY <1>2, <1>5 DEF KeepsSynced
  <2> HIDE DEF f
  <2>2. \E p \in 1 .. Len(Kept(f)) : Kept(f)[p] = r
    BY <1>1, <2>1, SafeKept
  <2> QED BY <2>2 DEF f
<1>9. PICK j \in 1 .. Len(Log') : Log'[j] = r
  BY <1>2, <1>5, <1>7, <1>8 DEF AllIn
<1>10. <<Log'[j].ns, Log'[j].gen, Log'[j].val>> \in SamplesOf(Log')
  BY <1>7, <1>9, InSamples
<1> QED BY <1>9, <1>10

\* No ftruncate fails, and every directory entry is made durable: see OrderAssumption.
DurableAssumption == Accidents \cap {"undo", "kill", "dirsync"} = {}

\* A generation begins with every power cut: the first is still on.
FirstBoot == rings[FirstNs].gen = 1

BootInv == rings[FirstNs].gen >= 1 /\ (FirstBoot => LoggedInv /\ SyncInv)

LEMMA SameBoot ==
  ASSUME MainInv, [Next]_vars, ~PowerCut
  PROVE  rings'[FirstNs].gen = rings[FirstNs].gen
<1>1. FirstNs \in NS /\ ni \in NS /\ rings \in [NS -> RingType]
  BY NsIs DEF FirstNs, MainInv
<1>2. CASE rings' = rings
  BY <1>2
<1>3. ASSUME NEW n \in NS, NEW k, rings' = [rings EXCEPT ![n].tail = k] \/ rings' = [rings EXCEPT ![n].head = k]
      PROVE  rings'[FirstNs].gen = rings[FirstNs].gen
  BY <1>1, <1>3 DEF RingType
<1>4. CASE Release \/ StopRelease
  <2>1. rings' = [rings EXCEPT ![ni].tail = rings[ni].tail + srcs[ni].taken]
    BY <1>4 DEF Release, StopRelease, ReleaseTaken
  <2> QED BY <1>1, <1>3, <2>1
<1>5. ASSUME NEW n \in NS, Push(n) PROVE rings'[FirstNs].gen = rings[FirstNs].gen
  <2>1. rings' = [rings EXCEPT ![n].head = rings[n].head + 1]
    BY <1>5 DEF Push
  <2> QED BY <1>3, <2>1
<1>6. ASSUME MainStep, ~(Release \/ StopRelease) PROVE rings' = rings
  BY Zenon, <1>6 DEF MainStep, Start, OpenDone, NoteGeneration, NoteDone, Drain, Flush, Idle, FlushDone, Stop, StopDone, CloseDone
<1>7. ASSUME LogStep \/ Tick \/ Signal \/ Kill \/ UNCHANGED vars PROVE rings' = rings
  BY <1>7 DEF LogStep, Tick, Signal, Kill, vars
<1> QED BY <1>2, <1>4, <1>5, <1>6, <1>7 DEF Next

LEMMA BootInit == Init => BootInv
<1> SUFFICES ASSUME Init PROVE BootInv
  OBVIOUS
<1>1. rings[FirstNs].gen = 1
  BY NsIs DEF Init, NewRings, FirstNs
<1>2. Len(disk) = 0
  BY DEF Init, WalInit
<1>3. SyncInv
  BY <1>2 DEF SyncInv
<1> QED BY <1>1, <1>3, LoggedInit DEF BootInv

LEMMA BootNext == ASSUME DurableAssumption, OrderInv, OrderInv', BootInv, [Next]_vars PROVE BootInv'
<1>1. "undo" \notin Accidents /\ "kill" \notin Accidents
  BY DEF DurableAssumption
<1>2. rings[FirstNs].gen \in Nat
  BY NsIs DEF OrderInv, MainInv, RingType, FirstNs
<1>3. CASE PowerCut
  <2>1. rings' = NewRings(rings[FirstNs].gen + 1)
    BY <1>3 DEF PowerCut
  <2>2. rings'[FirstNs].gen = rings[FirstNs].gen + 1
    BY <2>1, NsIs DEF NewRings, FirstNs
  <2>3. rings[FirstNs].gen >= 1
    BY DEF BootInv
  <2>4. rings'[FirstNs].gen >= 1 /\ rings'[FirstNs].gen # 1
    BY <1>2, <2>2, <2>3
  <2> QED BY <2>4 DEF BootInv, FirstBoot
<1>4. CASE ~PowerCut
  <2>1. rings'[FirstNs].gen = rings[FirstNs].gen
    BY <1>4, SameBoot DEF OrderInv
  <2>2. FirstBoot => LoggedInv' /\ SyncInv'
    BY <1>1, <1>4, LoggedNext, SyncNext DEF BootInv
  <2>3. FirstBoot' = FirstBoot /\ FirstNs' = FirstNs
    BY <2>1 DEF FirstBoot, FirstNs
  <2> QED BY <2>1, <2>2, <2>3 DEF BootInv
<1> QED BY <1>3, <1>4

\* A freed sample is in a record that no power cut takes.
LEMMA FreedIsSafe ==
  ASSUME DurableAssumption, OrderInv, LoggedInv, SyncInv, NEW s \in released
  PROVE  \E i \in 1 .. Len(disk) : \E r : SafeIn(r, disk[i]) /\ r.kind = "SAMPLE" /\ s = <<r.ns, r.gen, r.val>>
<1>1. WalInv /\ EntryOK /\ wpc \in Calls
  BY DEF OrderInv, EntryInv, DurableAssumption, LoggedInv
<1>2. PICK n \in NS, q \in Nat : s = <<n, 1, q>> /\ Said(AckedNow, n, q)
  BY FreedSaid
<1>3. PICK r \in AckedNow : r.kind = "SAMPLE" /\ r.ns = n /\ r.gen = 1 /\ r.val = q
  BY <1>2 DEF Said
<1>4. PICK i \in 1 .. Len(disk) : SafeIn(r, disk[i])
  BY <1>1, AckedIsSafe
<1> QED BY <1>2, <1>3, <1>4

LEMMA BootSafe == ASSUME DurableAssumption PROVE OrderInv /\ BootInv => (FirstBoot => ReleasedIsDurable)
<1> SUFFICES ASSUME OrderInv, LoggedInv, SyncInv, NEW s \in released PROVE s \in SamplesOf(Durable)
  BY DEF BootInv, ReleasedIsDurable
<1>1. disk \in Seq(Segs)
  BY DEF OrderInv, WalInv, WalOK, DiskOK
<1>2. PICK i \in 1 .. Len(disk) : \E r : SafeIn(r, disk[i]) /\ r.kind = "SAMPLE" /\ s = <<r.ns, r.gen, r.val>>
  BY FreedIsSafe
<1>3. PICK r : SafeIn(r, disk[i]) /\ r.kind = "SAMPLE" /\ s = <<r.ns, r.gen, r.val>>
  BY <1>2
<1> QED BY <1>1, <1>3, SafeDurable

\* The power goes for the first time: what was freed is in the log that is left.
FirstCutLosesNothing == PowerCut /\ FirstBoot => released' \subseteq SamplesOf(Log)'

LEMMA CutSafe ==
  ASSUME DurableAssumption, OrderInv, BootInv
  PROVE  FirstCutLosesNothing
<1> SUFFICES ASSUME PowerCut, LoggedInv, SyncInv, NEW s \in released' PROVE s \in SamplesOf(Log)'
  BY DEF FirstCutLosesNothing, BootInv
<1>1. WalPowerCut /\ s \in released
  BY DEF PowerCut, Gone
<1>2. DiskOK(disk) /\ EntryOK
  BY DEF OrderInv, EntryInv, DurableAssumption, WalInv, WalOK
<1>3. PICK i \in 1 .. Len(disk) : \E r : SafeIn(r, disk[i]) /\ r.kind = "SAMPLE" /\ s = <<r.ns, r.gen, r.val>>
  BY <1>1, FreedIsSafe
<1>4. PICK r : SafeIn(r, disk[i]) /\ r.kind = "SAMPLE" /\ s = <<r.ns, r.gen, r.val>>
  BY <1>3
<1> QED BY <1>1, <1>2, <1>4, SafeSurvives

LEMMA DurableOrder == ASSUME DurableAssumption PROVE OrderAssumption
BY DEF DurableAssumption, OrderAssumption

\* "A ring slot is released only after the batch holding it is durable": until the power goes for the
\* first time, through restarts, stops and failing system calls, every sample whose slot was freed is
\* in synced batches of segments whose directory entries are synced (wal_commit, create_segment, main).
THEOREM ReleasedSampleIsDurable ==
  ASSUME DurableAssumption
  PROVE  Spec => [](FirstBoot => ReleasedIsDurable)
<1>1. OrderInv /\ [Next]_vars => OrderInv'
  BY OrderNext, DurableOrder
<1>2. OrderInv /\ OrderInv' /\ BootInv /\ [Next]_vars => BootInv'
  BY BootNext
<1>3. OrderInv /\ BootInv => (FirstBoot => ReleasedIsDurable)
  BY BootSafe
<1> QED BY <1>1, <1>2, <1>3, OrderInit, BootInit, PTL DEF Spec

\* And the power cut itself loses none of them: recovery of what it leaves finds every freed sample.
THEOREM PowerCutLosesNothing ==
  ASSUME DurableAssumption
  PROVE  Spec => [][FirstCutLosesNothing]_vars
<1>1. OrderInv /\ [Next]_vars => OrderInv'
  BY OrderNext, DurableOrder
<1>2. OrderInv /\ OrderInv' /\ BootInv /\ [Next]_vars => BootInv'
  BY BootNext
<1>3. OrderInv /\ BootInv => [FirstCutLosesNothing]_vars
  BY CutSafe
<1> QED BY <1>1, <1>2, <1>3, OrderInit, BootInit, PTL DEF Spec
=============================================================================
