-------------------------------- MODULE Bus --------------------------------
(***************************************************************************)
(* The in-process publish/subscribe fan-out of internal/bus, together with *)
(* the one kind of reader it was written for: a page's SSE stream, which   *)
(* subscribes, draws itself from the store, and from then on applies the   *)
(* messages it receives and redraws itself from the store on a Resync.     *)
(*                                                                         *)
(* A message is the number of its publication.  What a message announces   *)
(* is in the store before it is published, so a redraw that starts when    *)
(* "published" messages have been handed to Publish covers 1..published.   *)
(***************************************************************************)
EXTENDS Naturals, Sequences

CONSTANTS
    Subs,       \* the subscribers (each subscribes at most once)
    Size,       \* capacity of a subscriber's channel
    MaxPub,     \* bound: how many messages are ever published
    MaxBatch    \* bound: how many messages one Publish call carries

ASSUME BusAssumption ==
    /\ Size \in Nat \ {0}
    /\ MaxPub \in Nat
    /\ MaxBatch \in Nat \ {0}

\* The overflow marker, bus.Resync{}; messages are positive numbers.
Resync == 0

VARIABLES
    published,  \* how many messages have been handed to Publish
    todo,       \* what the running Publish has still to offer each subscriber
    phase,      \* a subscription: "out", "in", "left" (done closed), "closed"
    buf,        \* the subscriber's channel
    dropped,    \* subscriber.dropped
    sender,     \* the goroutine that delivers the Resync marker
    drawing,    \* the reader is about to read the store (connect or Resync)
    known,      \* the messages whose effect the reader shows
    skipped     \* history: messages skipped after the marker had been sent

subVars == <<phase, dropped, sender>>
readVars == <<drawing, known>>
vars == <<published, todo, phase, buf, dropped, sender, drawing, known, skipped>>

----------------------------------------------------------------------------
\* Bus.mu: Publish keeps it from its first to its last delivery.
MuFree == \A s \in Subs : todo[s] = <<>>

Init ==
    /\ published = 0
    /\ todo = [s \in Subs |-> <<>>]
    /\ phase = [s \in Subs |-> "out"]
    /\ buf = [s \in Subs |-> <<>>]
    /\ dropped = [s \in Subs |-> FALSE]
    /\ sender = [s \in Subs |-> "none"]
    /\ drawing = [s \in Subs |-> FALSE]
    /\ known = [s \in Subs |-> {}]
    /\ skipped = [s \in Subs |-> {}]

\* A page connects: it subscribes first and draws itself afterwards.
Subscribe(s) ==
    /\ phase[s] = "out"
    /\ MuFree
    /\ phase' = [phase EXCEPT ![s] = "in"]
    /\ drawing' = [drawing EXCEPT ![s] = TRUE]
    /\ UNCHANGED <<published, todo, buf, dropped, sender, known, skipped>>

\* The batch of a Publish call that carries n messages.
Batch(n) == [i \in 1..n |-> published + i]

\* Mutant: Publish does not take the lock, so a second call overtakes the first.
PublishUnlocked(n) ==
    /\ published + n <= MaxPub
    /\ published' = published + n
    /\ todo' = [s \in Subs |-> IF phase[s] = "in" THEN Batch(n) \o todo[s] ELSE <<>>]
    /\ UNCHANGED <<phase, buf, dropped, sender, drawing, known, skipped>>

\* A Publish call takes the lock; its messages are owed to every subscriber.
Publish(n) ==
    /\ MuFree
    /\ published + n <= MaxPub
    /\ published' = published + n
    /\ todo' = [s \in Subs |-> IF phase[s] = "in" THEN Batch(n) ELSE <<>>]
    /\ UNCHANGED <<phase, buf, dropped, sender, drawing, known, skipped>>

\* Publish offers one message to one subscriber: skipped while the subscriber
\* is dropped, sent if there is room, else the subscriber becomes dropped and
\* a sender is started for the marker.
SkipDropped(s) ==
    /\ dropped[s]
    /\ skipped' = IF sender[s] = "sent"
                  THEN [skipped EXCEPT ![s] = @ \cup {Head(todo[s])}]
                  ELSE skipped
    /\ UNCHANGED <<buf, dropped, sender>>

SendMessage(s) ==
    /\ ~dropped[s]
    /\ Len(buf[s]) < Size
    /\ buf' = [buf EXCEPT ![s] = Append(@, Head(todo[s]))]
    /\ UNCHANGED <<dropped, sender, skipped>>

\* Mutant: the message is dropped and no marker is scheduled.
OverflowUnannounced(s) ==
    /\ ~dropped[s]
    /\ Len(buf[s]) >= Size
    /\ UNCHANGED <<buf, dropped, sender, skipped>>

Overflow(s) ==
    /\ ~dropped[s]
    /\ Len(buf[s]) >= Size
    /\ dropped' = [dropped EXCEPT ![s] = TRUE]
    /\ sender' = [sender EXCEPT ![s] = "sending"]
    /\ UNCHANGED <<buf, skipped>>

Deliver(s) ==
    /\ todo[s] # <<>>
    /\ todo' = [todo EXCEPT ![s] = Tail(@)]
    /\ SkipDropped(s) \/ SendMessage(s) \/ Overflow(s)
    /\ UNCHANGED <<published, phase, drawing, known>>

\* The marker goes into the channel as soon as there is room.  The send does
\* not take the lock.
SendMarker(s) ==
    /\ sender[s] = "sending"
    /\ Len(buf[s]) < Size
    /\ buf' = [buf EXCEPT ![s] = Append(@, Resync)]
    /\ sender' = [sender EXCEPT ![s] = "sent"]
    /\ UNCHANGED <<published, todo, phase, dropped, readVars, skipped>>

\* Mutant: the sender ends without clearing "dropped".
ClearDroppedForgotten(s) ==
    /\ sender[s] = "sent"
    /\ MuFree
    /\ sender' = [sender EXCEPT ![s] = "none"]
    /\ UNCHANGED <<published, todo, phase, buf, dropped, readVars, skipped>>

\* Then, under the lock, the subscriber takes messages again.
ClearDropped(s) ==
    /\ sender[s] = "sent"
    /\ MuFree
    /\ dropped' = [dropped EXCEPT ![s] = FALSE]
    /\ sender' = [sender EXCEPT ![s] = "none"]
    /\ UNCHANGED <<published, todo, phase, buf, readVars, skipped>>

\* Mutant: the sender does not watch done.
AbandonMarkerNever(s) ==
    /\ sender[s] = "sending"
    /\ phase[s] = "closed"
    /\ sender' = [sender EXCEPT ![s] = "none"]
    /\ UNCHANGED <<published, todo, phase, buf, dropped, readVars, skipped>>

\* A sender still waiting for room gives up once the subscription has ended.
AbandonMarker(s) ==
    /\ sender[s] = "sending"
    /\ phase[s] = "left"
    /\ sender' = [sender EXCEPT ![s] = "none"]
    /\ UNCHANGED <<published, todo, phase, buf, dropped, readVars, skipped>>

\* The context is done: the subscriber leaves the map, then done is closed.
Unsubscribe(s) ==
    /\ phase[s] = "in"
    /\ MuFree
    /\ phase' = [phase EXCEPT ![s] = "left"]
    /\ UNCHANGED <<published, todo, buf, dropped, sender, readVars, skipped>>

\* Mutant: the channel is closed without waiting for the sender.
CloseChanEarly(s) ==
    /\ phase[s] = "left"
    /\ phase' = [phase EXCEPT ![s] = "closed"]
    /\ UNCHANGED <<published, todo, buf, dropped, sender, readVars, skipped>>

\* The channel is closed after the last sender is gone (wg.Wait).
CloseChan(s) ==
    /\ phase[s] = "left"
    /\ sender[s] = "none"
    /\ phase' = [phase EXCEPT ![s] = "closed"]
    /\ UNCHANGED <<published, todo, buf, dropped, sender, readVars, skipped>>

\* The reader takes the next message: it applies it, or sets out to redraw.
Receive(s) ==
    /\ phase[s] \in {"in", "left"}
    /\ ~drawing[s]
    /\ buf[s] # <<>>
    /\ buf' = [buf EXCEPT ![s] = Tail(@)]
    /\ \/ /\ Head(buf[s]) = Resync
          /\ drawing' = [drawing EXCEPT ![s] = TRUE]
          /\ UNCHANGED known
       \/ /\ Head(buf[s]) # Resync
          /\ known' = [known EXCEPT ![s] = @ \cup {Head(buf[s])}]
          /\ UNCHANGED drawing
    /\ UNCHANGED <<published, todo, subVars, skipped>>

\* The reader draws itself from the store.
Redraw(s) ==
    /\ phase[s] = "in"
    /\ drawing[s]
    /\ known' = [known EXCEPT ![s] = 1..published]
    /\ drawing' = [drawing EXCEPT ![s] = FALSE]
    /\ UNCHANGED <<published, todo, subVars, buf, skipped>>

----------------------------------------------------------------------------
Next ==
    \/ \E n \in 1..MaxBatch : Publish(n)
    \/ \E s \in Subs :
          \/ Subscribe(s) \/ Deliver(s)
          \/ SendMarker(s) \/ ClearDropped(s) \/ AbandonMarker(s)
          \/ Unsubscribe(s) \/ CloseChan(s)
          \/ Receive(s) \/ Redraw(s)

Spec == Init /\ [][Next]_vars

(***************************************************************************)
(* A goroutine that can run does run, and sync.Mutex is starvation-free,   *)
(* which gives the goroutines that wait for the lock strong fairness.      *)
(* Nobody is obliged to publish, to connect or to go away.  ReaderFairness *)
(* is apart: a page whose socket is stuck reads nothing.                   *)
(***************************************************************************)
BusFairness ==
    \A s \in Subs :
        /\ WF_vars(Deliver(s))
        /\ WF_vars(SendMarker(s)) /\ SF_vars(ClearDropped(s))
        /\ WF_vars(AbandonMarker(s)) /\ WF_vars(CloseChan(s))

ReaderFairness ==
    \A s \in Subs : WF_vars(Receive(s)) /\ WF_vars(Redraw(s))

FairSpec == Spec /\ BusFairness

----------------------------------------------------------------------------
Message == 1..published

\* Every variable has its type: what a subscriber holds, and what it is owed,
\* are messages that were published.
TypeOK ==
    /\ published \in 0..MaxPub
    /\ todo \in [Subs -> Seq(Message)]
    /\ phase \in [Subs -> {"out", "in", "left", "closed"}]
    /\ buf \in [Subs -> Seq(Message \cup {Resync})]
    /\ dropped \in [Subs -> BOOLEAN]
    /\ sender \in [Subs -> {"none", "sending", "sent"}]
    /\ drawing \in [Subs -> BOOLEAN]
    /\ known \in [Subs -> SUBSET Message]
    /\ skipped \in [Subs -> SUBSET Message]

\* A message is in the sequence q.
In(m, q) == \E i \in 1..Len(q) : q[i] = m

\* A redraw of s is certain to come: one is due, its marker is in the
\* channel, or the marker's sender still waits for room.
RedrawDue(s) == drawing[s] \/ In(Resync, buf[s]) \/ sender[s] = "sending"

\* Message m has reached reader s, or is on its way to it.
Covered(s, m) == m \in known[s] \/ In(m, buf[s]) \/ In(m, todo[s]) \/ RedrawDue(s)

\* The only messages a connected page can lose are those Publish skips between
\* the sender's push of the marker and the moment it gets the lock to clear
\* "dropped": the reader may have redrawn itself before such a message, and
\* nothing tells it to do so again, against "anything published until it catches
\* up is covered by the reload" (bus.go:63-64).
LossOnlyAfterMarker ==
    \A s \in Subs : phase[s] = "in" =>
        \A m \in 1..published : Covered(s, m) \/ m \in skipped[s]

\* Nobody can send on a closed channel (which would panic): when the channel
\* is closed no marker sender is left and no Publish still owes it a message.
NoSendOnClosed ==
    \A s \in Subs : phase[s] = "closed" => sender[s] = "none" /\ todo[s] = <<>>

\* A connected subscriber that is skipped has a goroutine that will end the
\* skipping, and never two of them: without it the page would get nothing more.
DroppedHasSender ==
    \A s \in Subs : phase[s] = "in" => (dropped[s] <=> sender[s] # "none")

\* Messages are strictly increasing in q, markers aside.
InOrder(q) ==
    \A i, j \in 1..Len(q) : i < j /\ q[i] # Resync /\ q[j] # Resync => q[i] < q[j]

\* A subscriber gets the messages it gets in the order of publication, across
\* overflows and batches.
PublicationOrder == \A s \in Subs : InOrder(buf[s] \o todo[s])

\* Pages that read are told of an overflow and get messages again.
OverflowEnds ==
    ReaderFairness =>
        \A s \in Subs : (phase[s] = "in" /\ dropped[s]) ~> (~dropped[s] \/ phase[s] # "in")

\* A subscription that ended closes its channel, also with a full buffer.
LeaverCloses == \A s \in Subs : (phase[s] = "left") ~> (phase[s] = "closed")
============================================================================
