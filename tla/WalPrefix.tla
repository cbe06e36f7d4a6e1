------------------------------ MODULE WalPrefix ------------------------------
(***************************************************************************)
(* What recovery should find in a file, said without a loop: the longest   *)
(* prefix of whole batches, and what those batches say.                    *)
(***************************************************************************)
EXTENDS WalScan, FiniteSets, FiniteSetsExt

\* Records i .. j are one whole batch.
IsBatch(f, i, j) ==
  /\ i < j
  /\ f[i].kind = "BEGIN" /\ f[j].kind = "COMMIT" /\ f[i].val = f[j].val
  /\ \A p \in i + 1 .. j - 1 : f[p].kind \notin {"BEGIN", "COMMIT", "TORN"}

\* The longest prefix in which every record is in a whole batch.
GoodLength(f) ==
  Max({k \in 0 .. Len(f) :
         \A p \in 1 .. k : \E i \in 1 .. p, j \in p .. k : IsBatch(f, i, j)})

\* The last of the first k records that satisfies P, or 0.
LastOf(k, P(_)) == Max({0} \cup {p \in 1 .. k : P(p)})

\* The samples after position k that can still be decoded as part of a batch.
LostSamples(f, k) ==
  IF k + 1 \in DOMAIN f /\ f[k + 1].kind = "BEGIN"
  THEN Cardinality({p \in k + 2 .. Len(f) :
         /\ f[p].kind = "SAMPLE"
         /\ \A q \in k + 2 .. p : f[q].kind \notin {"BEGIN", "COMMIT", "TORN"}})
  ELSE 0

\* wal_scan keeps the whole batches at the front of f, and reports what they say.
FindsPrefix(f) ==
  LET s == Scan(f)
      k == GoodLength(f)
  IN  /\ s.committed_len = k
      /\ s.any_committed = (k > 0)
      /\ s.ended_clean = (k > 0 /\ f[k - 1].kind = "SHUTDOWN")
      /\ k > 0 => /\ s.last_seq = f[k].seq
                  /\ s.last_txn = f[k].val
                  /\ s.last_boot_id = f[k].boot
      /\ s.samples_committed = Cardinality({p \in 1 .. k : f[p].kind = "SAMPLE"})
      /\ s.records_lost = LostSamples(f, k)
      /\ \A n \in NS :
           LET g == LastOf(k, LAMBDA p : f[p].kind = "GEN" /\ f[p].ns = n)
               q == LastOf(k, LAMBDA p : f[p].kind = "RSEQ" /\ f[p].ns = n)
           IN  /\ s.ring_gen[n] = (IF g = 0 THEN 0 ELSE f[g].gen)
               /\ s.ring_seq[n].has = (q > 0)
               /\ q > 0 => s.ring_seq[n].seq = f[q].val

\* A second recovery of f finds what the first one left.
Settles(f) ==
  LET s == Scan(f)
      t == Scan(Kept(f))
  IN  /\ t.committed_len = s.committed_len /\ t.committed_len = Len(Kept(f))
      /\ t.ring_gen = s.ring_gen /\ t.ring_seq = s.ring_seq
      /\ t.last_seq = s.last_seq /\ t.last_txn = s.last_txn
      /\ t.ended_clean = s.ended_clean /\ t.records_lost = 0
=============================================================================
