------------------------------ MODULE MCPages ------------------------------
(***************************************************************************)
(* A page that connects and connects again while one reply streams, the    *)
(* page beside it changes and the thread is rewound.                       *)
(***************************************************************************)
EXTENDS Pages, TLC
CONSTANTS r1, n1
============================================================================
