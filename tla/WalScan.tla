------------------------------ MODULE WalScan ------------------------------
(***************************************************************************)
(* The records of the write-ahead log (include/store/record.h) and         *)
(* wal_scan, the recovery scan of one segment (src/store/wal.c).           *)
(*                                                                         *)
(* A file is a sequence of records and a length is a number of records.    *)
(* TORN stands for bytes rec_decode refuses: a short record, a bad CRC.    *)
(***************************************************************************)
EXTENDS Integers, Sequences

CONSTANT NS   \* the sample namespaces, 0 .. WAL_NAMESPACES - 1

\* GEN and RSEQ are the events WAL_EV_RING_GEN and WAL_EV_RING_SEQ.
Kinds == {"SAMPLE", "BEGIN", "COMMIT", "BOOT", "SHUTDOWN", "GEN", "RSEQ", "TORN"}

\* rec_prev_end_t
PrevClean     == 0
PrevRecovered == 1
PrevFirst     == 2

\* A record: its header's seq and boot_id, and what its body says.  val is the
\* txn of BEGIN and COMMIT, the prev_end of BOOT, the ring seq of RSEQ and of
\* SAMPLE; gen is the generation in GEN, and for SAMPLE the ring the sample
\* came from, which the real record does not hold: it names the sample here.
Rec(kind, seq, boot, ns, gen, val) ==
  [kind |-> kind, seq |-> seq, boot |-> boot, ns |-> ns, gen |-> gen, val |-> val]

Torn == Rec("TORN", 0, 0, 0, 0, 0)

NoGen == [n \in NS |-> 0]
NoSeq == [n \in NS |-> [has |-> FALSE, seq |-> 0]]

\* wal_scan_t as memset leaves it, and the locals of wal_scan.
ScanStart ==
  [committed_len |-> 0, any_committed |-> FALSE, ended_clean |-> FALSE,
   last_seq |-> 0, last_txn |-> 0, last_boot_id |-> 0,
   samples_committed |-> 0, records_lost |-> 0,
   ring_gen |-> NoGen, ring_seq |-> NoSeq,
   in_batch |-> FALSE, txn |-> 0, samples |-> 0, gen |-> NoGen, rseq |-> NoSeq,
   last_kind |-> "TORN", stop |-> FALSE]

\* BEGIN: the batch starts from what is committed so far.
ScanBegin(a, r) ==
  [a EXCEPT !.in_batch = TRUE, !.txn = r.val, !.samples = 0,
            !.gen = a.ring_gen, !.rseq = a.ring_seq, !.last_kind = r.kind]

\* Mutant: a clean end is never forgotten.
EndedCleanSticky(a) == a.ended_clean \/ a.last_kind = "SHUTDOWN"

\* The batch that ends here is a SHUTDOWN batch.
EndedClean(a) == a.last_kind = "SHUTDOWN"

\* COMMIT: what the batch noted counts, and the file is good up to here.
ScanCommit(a, r, i) ==
  [a EXCEPT !.in_batch = FALSE, !.committed_len = i, !.any_committed = TRUE,
            !.ended_clean = EndedClean(a),
            !.last_seq = r.seq, !.last_txn = a.txn, !.last_boot_id = r.boot,
            !.samples_committed = a.samples_committed + a.samples,
            !.ring_gen = a.gen, !.ring_seq = a.rseq,
            !.samples = 0, !.last_kind = r.kind]

\* Mutant: a ring seq counts before its COMMIT.
ScanBodyEager(a, r) ==
  [a EXCEPT !.samples = IF r.kind = "SAMPLE" THEN @ + 1 ELSE @,
            !.gen = IF r.kind = "GEN" THEN [@ EXCEPT ![r.ns] = r.gen] ELSE @,
            !.ring_seq = IF r.kind = "RSEQ"
                         THEN [@ EXCEPT ![r.ns] = [has |-> TRUE, seq |-> r.val]] ELSE @,
            !.last_kind = r.kind]

\* Any other record of a batch.
ScanBody(a, r) ==
  [a EXCEPT !.samples = IF r.kind = "SAMPLE" THEN @ + 1 ELSE @,
            !.gen = IF r.kind = "GEN" THEN [@ EXCEPT ![r.ns] = r.gen] ELSE @,
            !.rseq = IF r.kind = "RSEQ"
                     THEN [@ EXCEPT ![r.ns] = [has |-> TRUE, seq |-> r.val]] ELSE @,
            !.last_kind = r.kind]

\* Mutant: any COMMIT closes any batch.
ScanBreaksAnyTxn(a, r) ==
  \/ r.kind = "TORN"
  \/ r.kind = "BEGIN" /\ a.in_batch
  \/ r.kind # "BEGIN" /\ ~a.in_batch

\* The record at which the loop breaks: damage.
ScanBreaks(a, r) ==
  \/ r.kind = "TORN"
  \/ r.kind = "BEGIN" /\ a.in_batch
  \/ r.kind # "BEGIN" /\ ~a.in_batch
  \/ r.kind = "COMMIT" /\ r.val # a.txn

\* One turn of the loop, at record i.
ScanStep(a, r, i) ==
  IF a.stop THEN a
  ELSE IF ScanBreaks(a, r) THEN [a EXCEPT !.stop = TRUE]
  ELSE CASE r.kind = "BEGIN"   -> ScanBegin(a, r)
         [] r.kind = "COMMIT"  -> ScanCommit(a, r, i)
         [] OTHER              -> ScanBody(a, r)

\* The loop: the state after each number of records, alone in its set, which makes
\* TLC evaluate every turn once.
ScanStates(file) ==
  LET after[i \in 0 .. Len(file)] ==
        IF i = 0 THEN {ScanStart} ELSE {ScanStep(a, file[i], i) : a \in after[i - 1]}
  IN  after

\* wal_scan
Scan(file) ==
  LET s == CHOOSE a \in ScanStates(file)[Len(file)] : TRUE
  IN  [s EXCEPT !.records_lost = IF s.in_batch THEN s.samples ELSE 0]

\* The records recovery keeps.
Kept(file) == SubSeq(file, 1, Scan(file).committed_len)
=============================================================================
