----------------------------- MODULE MCStoraged -----------------------------
(* storaged on small instances; the .cfg files say which accidents happen. *)
EXTENDS Storaged
=============================================================================
