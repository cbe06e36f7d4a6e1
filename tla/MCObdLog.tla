------------------------------ MODULE MCObdLog ------------------------------
(***************************************************************************)
(* The logger with two fast PIDs, which take turns, and a slow one.        *)
(***************************************************************************)
EXTENDS ObdLog

MCPids == {"0C", "04", "0D"}
MCFast == <<"0C", "04">>
MCSlow == <<"0D">>
=============================================================================
