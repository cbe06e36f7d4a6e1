----------------------------- MODULE MCWalScan -----------------------------
(* Every file of at most MaxLen records over two transaction ids. *)
EXTENDS WalScanCheck
=============================================================================
