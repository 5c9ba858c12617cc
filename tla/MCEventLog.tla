----------------------------- MODULE MCEventLog -----------------------------
(* Instances of EventLog small enough for TLC.                             *)
EXTENDS EventLog, TLC

CONSTANTS t1, t2
MCTools == {t1, t2}
MCSymmetry == Permutations(MCTools)
=============================================================================
