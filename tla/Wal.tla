-------------------------------- MODULE Wal --------------------------------
(***************************************************************************)
(* The write-ahead log of src/store/wal.c: the segments on the card, wal_t *)
(* and every system call of wal_open, wal_commit and wal_close, each of    *)
(* which may fail, be cut short by kill -9 or be overtaken by a power cut. *)
(* The module has no client: Storaged composes it with one.                *)
(***************************************************************************)
EXTENDS WalScan, FiniteSets, SequencesExt

CONSTANTS
  SegmentRecords,   \* WAL_SEGMENT_BYTES, counted in records
  Accidents,        \* what may happen: system calls that fail, "kill" and "power"
  MaxAccidents      \* bound: accidents, of all kinds together

ASSUME WalAssumption ==
  /\ SegmentRecords \in Nat \ {0}
  /\ Accidents \subseteq {"create", "dirsync", "cut", "cutsync", "write", "fsync", "undo",
                         "kill", "power"}
  /\ MaxAccidents \in Nat

VARIABLES
  disk,     \* the segments, oldest first
  w,        \* wal_t
  wop,      \* the call in progress: "none", "open", "commit", "close", "shut"
  wpc,      \* the system call it makes next
  wret,     \* the result of the last call
  accidents \* so far

wvars == <<disk, w, wop, wpc, wret>>

\* A segment: first is its name, recs what a read returns, synced how much of
\* it an fsync has made durable, entry whether its directory entry is durable.
Segment(first) == [first |-> first, recs |-> <<>>, synced |-> 0, entry |-> FALSE]

\* wal_t before wal_open, with the descriptor closed.  fd is the index of the
\* open segment; 0 stands for -1.  done and half are wal_commit's progress
\* through buf: whole records written, and whether one more is half written.
Closed ==
  [fd |-> 0, seg_bytes |-> 0, next_seq |-> 0, next_txn |-> 0, boot_id |-> 0,
   prev_end |-> PrevFirst, ring_gen |-> NoGen, ring_seq |-> NoSeq,
   open_batch |-> FALSE, batch_seq0 |-> 0, batch_samples |-> 0,
   buf |-> <<>>, done |-> 0, half |-> FALSE]

\* ftruncate
Truncate(seg, n) ==
  [seg EXCEPT !.recs = SubSeq(@, 1, n), !.synced = IF @ > n THEN n ELSE @]

WalInit ==
  /\ disk = <<>>
  /\ w = Closed
  /\ wop = "none" /\ wpc = "idle" /\ wret = "none"
  /\ accidents = 0

\* One more accident.
Befalls(a) == a \in Accidents /\ accidents < MaxAccidents /\ accidents' = accidents + 1
AllWell    == UNCHANGED accidents

---------------------------------------------------------------------------
(* Batches: append, wal_add, drop_batch *)

\* append: one record into buf, numbered.
AppendRec(x, kind, ns, gen, val) ==
  [x EXCEPT !.buf = Append(@, Rec(kind, x.next_seq, x.boot_id, ns, gen, val)),
            !.next_seq = @ + 1]

\* wal_add's BEGIN.
OpenBatch(x) ==
  IF x.open_batch THEN x
  ELSE [AppendRec(x, "BEGIN", 0, 0, x.next_txn)
          EXCEPT !.batch_seq0 = x.next_seq, !.open_batch = TRUE, !.batch_samples = 0]

\* wal_add.  The buffer is large enough for every batch storaged builds.
WalAdd(x, kind, ns, gen, val) ==
  LET y == AppendRec(OpenBatch(x), kind, ns, gen, val)
  IN  [y EXCEPT !.batch_samples = IF kind = "SAMPLE" THEN @ + 1 ELSE @]

\* wal_add of k samples of ring n, in order from ring seq first.
WalAddSamples(x, n, gen, first, k) ==
  LET y == OpenBatch(x)
  IN  IF k = 0 THEN x
      ELSE [y EXCEPT !.buf = @ \o [i \in 1 .. k |->
                                     Rec("SAMPLE", y.next_seq + i - 1, y.boot_id, n, gen, first + i - 1)],
                     !.next_seq = @ + k, !.batch_samples = @ + k]

DropBatch(x) ==
  [x EXCEPT !.buf = <<>>, !.open_batch = FALSE, !.batch_samples = 0,
            !.next_seq = x.batch_seq0, !.done = 0, !.half = FALSE]

---------------------------------------------------------------------------
(* wal_commit, called in x by operation op *)

\* The call in progress returns res.
Return(x, res) ==
  /\ w' = x
  /\ wop' = "none"
  /\ wpc' = "idle"
  /\ wret' = res

\* COMMIT closes the batch in buf; the writes come next.
StartCommit(op, x) ==
  /\ w' = AppendRec(x, "COMMIT", 0, 0, x.next_txn)
  /\ wop' = op
  /\ wpc' = "write"
  /\ wret' = "none"

\* wal_commit has finished in state x with result res: back in wal_open,
\* wal_close or the caller.
Committed(x, res) ==
  CASE wop = "commit" \/ (wop = "open" /\ res = "ok") -> Return(x, res)
    [] wop = "close" /\ res = "ok" -> StartCommit("shut", WalAdd(x, "SHUTDOWN", 0, 0, 0))
    [] OTHER -> Return([x EXCEPT !.fd = 0], res)

\* wal_commit's call: nothing to do without an open batch.
CallCommit(x) ==
  IF x.open_batch THEN StartCommit("commit", x) ELSE Return(x, "ok")

\* Mutant: no SHUTDOWN record.
CallCloseUnmarked(x) ==
  IF x.open_batch THEN StartCommit("shut", x) ELSE Return([x EXCEPT !.fd = 0], "ok")

\* wal_close's call: commit what is open, then the SHUTDOWN batch.
CallClose(x) ==
  IF x.open_batch THEN StartCommit("close", x)
  ELSE StartCommit("shut", WalAdd(x, "SHUTDOWN", 0, 0, 0))

\* write() takes some of what is left, possibly half a record.
Write ==
  /\ wpc = "write"
  /\ w.fd # 0
  /\ \E d \in w.done .. Len(w.buf), h \in BOOLEAN :
       /\ d > w.done \/ (h /\ ~w.half)
       /\ h => d < Len(w.buf)
       /\ disk' = [disk EXCEPT ![w.fd].recs =
                     SubSeq(@, 1, Len(@) - (IF w.half THEN 1 ELSE 0))
                       \o SubSeq(w.buf, w.done + 1, d)
                       \o (IF h THEN <<Torn>> ELSE <<>>)]
       /\ w' = [w EXCEPT !.done = d, !.half = h]
       /\ wpc' = IF d = Len(w.buf) THEN "fsync" ELSE "write"
  /\ AllWell
  /\ UNCHANGED <<wop, wret>>

\* write() fails: the card is full or gone, or the descriptor is -1.
WriteFails ==
  /\ wpc = "write"
  /\ \/ w.fd = 0 /\ AllWell
     \/ w.fd # 0 /\ Befalls("write")
  /\ wpc' = "undo"
  /\ UNCHANGED <<disk, w, wop, wret>>

\* The batch counts.
Accept(x) ==
  [x EXCEPT !.seg_bytes = @ + Len(x.buf), !.buf = <<>>, !.open_batch = FALSE,
            !.batch_samples = 0, !.next_txn = @ + 1, !.done = 0, !.half = FALSE]

\* Mutant: the batch is acknowledged when it is written.
FsyncSkipped ==
  /\ wpc = "fsync"
  /\ LET x == Accept(w)
     IN  IF x.seg_bytes >= SegmentRecords
         THEN /\ w' = [x EXCEPT !.fd = 0]
              /\ wpc' = "create"
              /\ UNCHANGED <<wop, wret>>
         ELSE Committed(x, "ok")
  /\ AllWell
  /\ UNCHANGED disk

\* fsync makes the batch durable; a full segment is closed and another made.
Fsync ==
  /\ wpc = "fsync"
  /\ disk' = [disk EXCEPT ![w.fd].synced = Len(disk[w.fd].recs)]
  /\ LET x == Accept(w)
     IN  IF x.seg_bytes >= SegmentRecords
         THEN /\ w' = [x EXCEPT !.fd = 0]
              /\ wpc' = "create"
              /\ UNCHANGED <<wop, wret>>
         ELSE Committed(x, "ok")
  /\ AllWell

FsyncFails ==
  /\ wpc = "fsync"
  /\ Befalls("fsync")
  /\ wpc' = "undo"
  /\ UNCHANGED <<disk, w, wop, wret>>

\* Mutant: the failed batch stays in the file.
UndoMissing ==
  /\ wpc = "undo"
  /\ w.fd # 0
  /\ Committed(DropBatch(w), "fail")
  /\ AllWell
  /\ UNCHANGED disk

\* ftruncate back to the last COMMIT, and the batch is dropped either way.
Undo ==
  /\ wpc = "undo"
  /\ w.fd # 0
  /\ disk' = [disk EXCEPT ![w.fd] = Truncate(@, w.seg_bytes)]
  /\ Committed(DropBatch(w), "fail")
  /\ AllWell

UndoFails ==
  /\ wpc = "undo"
  /\ \/ w.fd = 0 /\ AllWell
     \/ w.fd # 0 /\ Befalls("undo")
  /\ Committed(DropBatch(w), "fail")
  /\ UNCHANGED disk

---------------------------------------------------------------------------
(* create_segment, from wal_open and from wal_commit *)

\* open(O_CREAT | O_EXCL).  When create_segment fails wal_open gives up, and
\* wal_commit reports the failure of a batch it has already made durable.
Create ==
  /\ wpc = "create"
  /\ \A i \in DOMAIN disk : disk[i].first # w.next_seq
  /\ disk' = Append(disk, Segment(w.next_seq))
  /\ wpc' = "dirsync"
  /\ AllWell
  /\ UNCHANGED <<w, wop, wret>>

CreateFails ==
  /\ wpc = "create"
  /\ Befalls("create")
  /\ Committed(w, "fail")
  /\ UNCHANGED disk

\* wal_open's boot batch.
StartBoot(x) == StartCommit("open", WalAdd(x, "BOOT", 0, 0, x.prev_end))

\* sync_dir.  The first segment is made before the boot batch, every other one
\* after the batch that filled its predecessor.
DirSync ==
  /\ wpc = "dirsync"
  /\ disk' = [i \in DOMAIN disk |-> [disk[i] EXCEPT !.entry = TRUE]]
  /\ LET x == [w EXCEPT !.fd = Len(disk), !.seg_bytes = 0]
     IN  IF Len(disk) = 1 THEN StartBoot(x) ELSE Committed(x, "ok")
  /\ AllWell

DirSyncFails ==
  /\ wpc = "dirsync"
  /\ Befalls("dirsync")
  /\ Committed(w, "fail")
  /\ UNCHANGED disk

---------------------------------------------------------------------------
(* wal_open *)

\* No segment: the first boot makes one.
OpenFirst ==
  /\ disk = <<>>
  /\ w' = [Closed EXCEPT !.next_seq = 0, !.next_txn = 1, !.boot_id = 1]
  /\ wop' = "open"
  /\ wpc' = "create"
  /\ wret' = "none"

\* Mutant: a segment with no batch in it starts the numbering again.
NextSeqFromZero(s, seg) == IF s.any_committed THEN s.last_seq + 1 ELSE 0

\* The counters wal_open goes on from.
NextSeqAfter(s, seg) == IF s.any_committed THEN s.last_seq + 1 ELSE seg.first

\* Mutant: the boot id of the last session again.
NextBootSame(s) == s.last_boot_id

NextBootAfter(s) == s.last_boot_id + 1

\* What recover_segment takes from the scan of the newest segment.
Recovered(seg) ==
  LET s == Scan(seg.recs)
  IN  [Closed EXCEPT
         !.prev_end = IF s.ended_clean /\ s.committed_len = Len(seg.recs)
                      THEN PrevClean ELSE PrevRecovered,
         !.fd = Len(disk), !.seg_bytes = s.committed_len,
         !.ring_gen = s.ring_gen, !.ring_seq = s.ring_seq,
         !.next_seq = NextSeqAfter(s, seg),
         !.next_txn = s.last_txn + 1,
         !.boot_id = NextBootAfter(s)]

\* newest_segment, the read and the scan; a tail to cut goes first.
OpenRecover ==
  /\ disk # <<>>
  /\ LET seg == Last(disk)
         x   == Recovered(seg)
     IN  IF x.seg_bytes < Len(seg.recs)
         THEN w' = x /\ wop' = "open" /\ wpc' = "cut" /\ wret' = "none"
         ELSE StartBoot(x)

CallOpen == OpenFirst \/ OpenRecover

\* recover_segment's ftruncate and fsync.
CutTail ==
  /\ wpc = "cut"
  /\ disk' = [disk EXCEPT ![w.fd] = Truncate(@, w.seg_bytes)]
  /\ wpc' = "cutsync"
  /\ AllWell
  /\ UNCHANGED <<w, wop, wret>>

CutSync ==
  /\ wpc = "cutsync"
  /\ disk' = [disk EXCEPT ![w.fd].synced = Len(disk[w.fd].recs)]
  /\ StartBoot(w)
  /\ AllWell

CutFails ==
  /\ wpc \in {"cut", "cutsync"}
  /\ Befalls(wpc)
  /\ Return([w EXCEPT !.fd = 0], "fail")
  /\ UNCHANGED disk

---------------------------------------------------------------------------
\* Every step inside a call of the log.
WalStep ==
  \/ Write \/ WriteFails \/ Fsync \/ FsyncFails \/ Undo \/ UndoFails
  \/ Create \/ CreateFails \/ DirSync \/ DirSyncFails
  \/ CutTail \/ CutSync \/ CutFails

\* kill -9: the process's memory is gone, what it wrote is not.
WalKilled ==
  /\ Befalls("kill")
  /\ w' = Closed /\ wop' = "none" /\ wpc' = "idle" /\ wret' = "none"
  /\ UNCHANGED disk

\* What a power cut may leave of a segment: all that was synced and some of the rest.
AfterCut(seg) ==
  {[seg EXCEPT !.recs = f, !.synced = Len(f), !.entry = TRUE] :
     f \in {SubSeq(seg.recs, 1, n) : n \in seg.synced .. Len(seg.recs)}
           \cup {Append(SubSeq(seg.recs, 1, n), Torn) : n \in seg.synced .. Len(seg.recs) - 1}}

\* The segments of d that are in keep, oldest first.
Surviving(d, keep) ==
  [i \in 1 .. Cardinality(keep) |->
     d[CHOOSE p \in keep : Cardinality({q \in keep : q <= p}) = i]]

\* A power cut: only the newest segment can hold unsynced records, and a
\* segment whose directory entry was not synced may be gone.
WalPowerCut ==
  /\ Befalls("power")
  /\ \/ disk = <<>> /\ disk' = disk
     \/ /\ disk # <<>>
        /\ \E gone \in SUBSET {i \in DOMAIN disk : ~disk[i].entry},
              newest \in AfterCut(Last(disk)) :
             disk' = Surviving([i \in DOMAIN disk |->
                                  IF i = Len(disk) THEN newest ELSE [disk[i] EXCEPT !.entry = TRUE]],
                               DOMAIN disk \ gone)
  /\ w' = Closed /\ wop' = "none" /\ wpc' = "idle" /\ wret' = "none"

---------------------------------------------------------------------------
(* What a reader of the log sees *)

\* What Of gives of each segment, oldest first.
Joined(Of(_)) ==
  LET upto[i \in 0 .. Len(disk)] == IF i = 0 THEN <<>> ELSE upto[i - 1] \o Of(disk[i])
  IN  upto[Len(disk)]

\* The committed records.
Log == Joined(LAMBDA seg : Kept(seg.recs))

\* The committed records a power cut cannot take away.
Durable ==
  Joined(LAMBDA seg : IF seg.entry THEN Kept(SubSeq(seg.recs, 1, seg.synced)) ELSE <<>>)

SamplesOf(log) == {<<log[i].ns, log[i].gen, log[i].val>> :
                     i \in {j \in DOMAIN log : log[j].kind = "SAMPLE"}}
=============================================================================
