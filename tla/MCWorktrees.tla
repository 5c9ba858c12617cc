---------------------------- MODULE MCWorktrees ----------------------------
(***************************************************************************)
(* Instances of Worktrees for TLC: two threads, the second on a worktree   *)
(* of its own or on that of the first.                                     *)
(***************************************************************************)
EXTENDS Worktrees

CONSTANTS t1, t2, s1, s2

All == AllOps \ {"own"}
Titles == {"sweep", "remove", "delete", "rename", "join"}
=============================================================================
