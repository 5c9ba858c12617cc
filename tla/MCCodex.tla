------------------------------ MODULE MCCodex ------------------------------
(* Instances of Codex: see the configurations.                              *)
EXTENDS Codex
============================================================================
