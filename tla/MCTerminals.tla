---------------------------- MODULE MCTerminals ----------------------------
(***************************************************************************)
(* An instance of Terminals for TLC: two streams, channels and a           *)
(* scrollback that are soon full, and shells that replace one another.     *)
(***************************************************************************)
EXTENDS Terminals

CONSTANTS c1, c2
=============================================================================
