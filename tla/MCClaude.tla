------------------------------ MODULE MCClaude ------------------------------
(***************************************************************************)
(* Two turns, a stop, a permission and a request the adapter does not      *)
(* know, with pipes and a channel that are soon full.                      *)
(***************************************************************************)
EXTENDS Claude, TLC
CONSTANTS a1, o1
=============================================================================
