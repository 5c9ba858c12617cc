------------------------------ MODULE MCTurns ------------------------------
\* Instances of Turns for TLC: the optional operations each run has.
EXTENDS Turns

Calm == {"compact", "cancel", "reap", "approvals"}
Restart == {"cancel", "interrupt", "shutdown", "fail", "exit"}
Requests == {"archive", "settings"}
OnlyArchive == {"archive"}
============================================================================
