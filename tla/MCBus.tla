------------------------------- MODULE MCBus -------------------------------
(* Instances of Bus small enough for TLC.                                  *)
EXTENDS Bus

CONSTANTS s1, s2
MCSubs == {s1, s2}
============================================================================
