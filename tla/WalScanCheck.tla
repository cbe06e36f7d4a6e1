---------------------------- MODULE WalScanCheck ----------------------------
(***************************************************************************)
(* wal_scan against what recovery is meant to keep, over every file that   *)
(* can be put together record by record, whole or damaged.                 *)
(***************************************************************************)
EXTENDS WalPrefix

CONSTANTS Txns,     \* transaction ids
          MaxLen    \* bound: records in the file

ASSUME TxnsAreNumbers == Txns \subseteq Nat

VARIABLE file

Alphabet ==
  {<<"BEGIN", t>> : t \in Txns} \cup {<<"COMMIT", t>> : t \in Txns}
    \cup {<<k, 1>> : k \in {"SAMPLE", "SHUTDOWN", "GEN", "RSEQ", "TORN"}}

Init == file = <<>>

\* One more record reaches the file; its seq is its position.
Append1(letter) ==
  /\ Len(file) < MaxLen
  /\ LET n == Len(file) + 1
     IN  file' = Append(file, Rec(letter[1], n, n, n % 2,
                                  IF letter[1] = "GEN" THEN n ELSE 0,
                                  IF letter[1] = "RSEQ" THEN n ELSE letter[2]))

Next == \E letter \in Alphabet : Append1(letter)

Spec == Init /\ [][Next]_file

---------------------------------------------------------------------------
(* Properties *)

\* wal_scan keeps exactly the whole batches at the front of the file, and the
\* ring generation, ring seq and clean end it reports are the last ones those
\* batches hold: nothing of the tail it cuts off leaks into them.
ScanIsCommittedPrefix == FindsPrefix(file)

\* After recover_segment truncates the file, the next recovery finds the same
\* state and nothing more to cut.
RecoveryIsIdempotent == Settles(file)
=============================================================================
