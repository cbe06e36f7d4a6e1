----------------------------- MODULE MCRingShm ------------------------------
(* One ring, its supervisor, and two processes that attach to it. *)
EXTENDS RingShm
=============================================================================
