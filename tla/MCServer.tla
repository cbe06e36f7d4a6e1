------------------------------ MODULE MCServer ------------------------------
(***************************************************************************)
(* The connection loop with more clients than slots, whose requests are    *)
(* told apart by their answers.                                            *)
(***************************************************************************)
EXTENDS Server

MCEnds == <<{"ok"}, {"bad"}, {"ok"}>>
=============================================================================
