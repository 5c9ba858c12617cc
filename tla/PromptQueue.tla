---------------------------- MODULE PromptQueue ----------------------------
(***************************************************************************)
(* What a thread promises about the prompts it accepts: each prompt is     *)
(* accepted once, waits in the order of acceptance, and leaves the queue   *)
(* exactly once, either into the transcript (oldest first) or cancelled.   *)
(* No prompt is lost, started twice or overtaken, whatever happens to the  *)
(* agent's processes and to the server.  Prompts are numbered in the order *)
(* in which they are accepted.                                             *)
(***************************************************************************)
EXTENDS Naturals, Sequences, SequencesExt

VARIABLES
    accepted,   \* how many prompts have been accepted
    waiting,    \* the queued prompts, oldest first
    started,    \* the prompts that became a transcript item, in that order
    cancelled   \* the prompts taken out of the queue unstarted

vars == <<accepted, waiting, started, cancelled>>

Init ==
    /\ accepted = 0
    /\ waiting = <<>>
    /\ started = <<>>
    /\ cancelled = {}

\* A prompt is accepted behind the ones that wait.
Queue ==
    /\ accepted' = accepted + 1
    /\ waiting' = Append(waiting, accepted')
    /\ UNCHANGED <<started, cancelled>>

\* A prompt is accepted and starts at once: only when none waits.
StartNew ==
    /\ waiting = <<>>
    /\ accepted' = accepted + 1
    /\ started' = Append(started, accepted')
    /\ UNCHANGED <<waiting, cancelled>>

StartOldest ==
    /\ waiting # <<>>
    /\ started' = Append(started, Head(waiting))
    /\ waiting' = Tail(waiting)
    /\ UNCHANGED <<accepted, cancelled>>

Cancel(i) ==
    /\ waiting' = RemoveAt(waiting, i)
    /\ cancelled' = cancelled \cup {waiting[i]}
    /\ UNCHANGED <<accepted, started>>

Next == Queue \/ StartNew \/ StartOldest \/ \E i \in 1..Len(waiting) : Cancel(i)

Spec == Init /\ [][Next]_vars

----------------------------------------------------------------------------
In(p, q) == \E i \in 1..Len(q) : q[i] = p
Increasing(q) == \A i, j \in 1..Len(q) : i < j => q[i] < q[j]

\* The transcript and the queue behind it are in the order of acceptance: no
\* prompt appears twice or has been overtaken.
InOrder ==
    /\ Increasing(started)
    /\ Increasing(waiting)
    /\ \A i \in 1..Len(started), j \in 1..Len(waiting) : started[i] < waiting[j]

\* Every prompt accepted is in the transcript, in the queue or cancelled, and
\* one that was cancelled is in neither.
NoneLost ==
    \A p \in 1..accepted :
        /\ In(p, started) \/ In(p, waiting) \/ p \in cancelled
        /\ p \in cancelled => ~In(p, started) /\ ~In(p, waiting)
============================================================================
