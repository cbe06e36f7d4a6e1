------------------------------ MODULE MCRing ------------------------------
(***************************************************************************)
(* The ring with two slots and indices that wrap after two laps.  Payloads *)
(* are interchangeable: no definition tells one from another.              *)
(***************************************************************************)
EXTENDS Ring, TLC

PayloadSymmetry == Permutations(Payload)
=============================================================================
