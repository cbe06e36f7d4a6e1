------------------------- MODULE WalScanCheckProofs -------------------------
(***************************************************************************)
(* What run wal_scan checks up to a length, for files of every length.     *)
(***************************************************************************)
EXTENDS WalScanCheck, WalScanProofs

\* The type of the file.
TypeOK == file \in Seq(Recs)

\* Whatever Append1 adds is a record.
THEOREM FileIsRecords == Spec => []TypeOK
<1>1. Init => TypeOK
  BY DEF Init, TypeOK
<1>2. TypeOK /\ [Next]_file => TypeOK'
  <2> SUFFICES ASSUME TypeOK, [Next]_file PROVE file' \in Seq(Recs)
    BY DEF TypeOK
  <2>0. file \in Seq(Recs)
    BY DEF TypeOK
  <2>1. CASE UNCHANGED file
    BY <2>0, <2>1
  <2>2. ASSUME NEW letter \in Alphabet, Append1(letter) PROVE file' \in Seq(Recs)
    <3> DEFINE n == Len(file) + 1
    <3>1. letter[1] \in Kinds /\ letter[2] \in Nat
      BY TxnsAreNumbers DEF Alphabet, Kinds
    <3>2. n \in Nat /\ n % 2 \in Nat
      BY <2>0
    <3> DEFINE r == Rec(letter[1], n, n, n % 2, IF letter[1] = "GEN" THEN n ELSE 0,
                        IF letter[1] = "RSEQ" THEN n ELSE letter[2])
    <3>3. file' = Append(file, r)
      BY <2>2 DEF Append1
    <3> HIDE DEF n
    <3>4. r \in Recs
      BY <3>1, <3>2 DEF Rec, Recs
    <3> HIDE DEF r
    <3> QED BY <2>0, <3>3, <3>4
  <2> QED BY <2>1, <2>2 DEF Next
<1> QED BY <1>1, <1>2, PTL DEF Spec

\* What the run checks, for files of every length.
THEOREM ScanIsCommittedPrefixHolds == Spec => []ScanIsCommittedPrefix
<1>1. TypeOK => ScanIsCommittedPrefix
  BY EveryScanFindsPrefix DEF TypeOK, ScanIsCommittedPrefix
<1> QED BY <1>1, FileIsRecords, PTL

\* So does the second recovery.
THEOREM RecoveryIsIdempotentHolds == Spec => []RecoveryIsIdempotent
<1>1. TypeOK => RecoveryIsIdempotent
  BY EveryRecoverySettles DEF TypeOK, RecoveryIsIdempotent
<1> QED BY <1>1, FileIsRecords, PTL
=============================================================================
