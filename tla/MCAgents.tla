-------------------------------- MODULE MCAgents --------------------------------
(***************************************************************************)
(* A small instance of Agents.                                             *)
(***************************************************************************)
EXTENDS Agents

CONSTANTS t1, t2

CrewThreads == {t1, t2}
================================================================================
