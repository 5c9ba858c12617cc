----------------------------- MODULE PagesProofs -----------------------------
(***************************************************************************)
(* Proofs about Bus and, over it, about Pages, for every set of streams,   *)
(* every capacity and every bound.  Pages makes only steps of Bus, so what *)
(* is proved of Bus holds of Pages too.                                    *)
(***************************************************************************)
EXTENDS Pages, FiniteSetTheorems, TLAPS

(***************************************************************************)
(* Part 1: Bus.                                                            *)
(***************************************************************************)
\* What a sequence holds is what it held, plus what was appended.
LEMMA InAppend ==
    ASSUME NEW T, NEW q \in Seq(T), NEW x \in T, NEW m
    PROVE  In(m, Append(q, x)) <=> In(m, q) \/ m = x
<1>1. Append(q, x) \in Seq(T) /\ Len(Append(q, x)) = Len(q) + 1
  OBVIOUS
<1>2. \A i \in 1..Len(q) : Append(q, x)[i] = q[i]
  OBVIOUS
<1>3. Append(q, x)[Len(q) + 1] = x
  OBVIOUS
<1>4. Len(q) \in Nat
  OBVIOUS
<1>5. \A i \in 1..(Len(q) + 1) : i \in 1..Len(q) \/ i = Len(q) + 1
  BY <1>4
<1>6. Len(q) + 1 \in 1..(Len(q) + 1) /\ \A i \in 1..Len(q) : i \in 1..(Len(q) + 1)
  BY <1>4
<1> QED BY <1>1, <1>2, <1>3, <1>5, <1>6 DEF In

\* What a nonempty sequence holds is its head and what its tail holds.
LEMMA InTail ==
    ASSUME NEW T, NEW q \in Seq(T), q # <<>>, NEW m
    PROVE  In(m, q) <=> In(m, Tail(q)) \/ m = Head(q)
<1>1. Len(q) \in Nat /\ Len(q) >= 1 /\ Len(Tail(q)) = Len(q) - 1 /\ Head(q) = q[1]
  OBVIOUS
<1>2. \A i \in 1..Len(Tail(q)) : Tail(q)[i] = q[i + 1]
  OBVIOUS
<1>3. ASSUME In(m, q)  PROVE In(m, Tail(q)) \/ m = Head(q)
  <2>1. PICK i \in 1..Len(q) : q[i] = m
    BY <1>3 DEF In
  <2>2. CASE i = 1
    BY <2>1, <2>2, <1>1
  <2>3. CASE i # 1
    <3>1. i - 1 \in 1..Len(Tail(q)) /\ (i - 1) + 1 = i
      BY <1>1, <2>3
    <3> QED BY <3>1, <2>1, <1>2 DEF In
  <2> QED BY <2>2, <2>3
<1>4. ASSUME In(m, Tail(q))  PROVE In(m, q)
  <2>1. PICK i \in 1..Len(Tail(q)) : Tail(q)[i] = m
    BY <1>4 DEF In
  <2>2. i + 1 \in 1..Len(q) /\ q[i + 1] = m
    BY <2>1, <1>1, <1>2
  <2> QED BY <2>2 DEF In
<1>5. ASSUME m = Head(q)  PROVE In(m, q)
  BY <1>1, <1>5 DEF In
<1> QED BY <1>3, <1>4, <1>5

\* A sequence over a set is a sequence over a larger set.
LEMMA SeqMonotone ==
    ASSUME NEW A, NEW B, A \subseteq B, NEW q \in Seq(A)
    PROVE  q \in Seq(B)
<1>1. Len(q) \in Nat /\ q = [i \in 1..Len(q) |-> q[i]] /\ \A i \in 1..Len(q) : q[i] \in B
  OBVIOUS
<1> QED BY <1>1

----------------------------------------------------------------------------
\* Every number a Publish call hands out is one it has published.
LEMMA BatchType ==
    ASSUME published \in Nat, NEW n \in Nat
    PROVE  /\ Batch(n) \in Seq(1..(published + n))
           /\ Len(Batch(n)) = n
           /\ \A i \in 1..n : Batch(n)[i] = published + i
<1>1. \A i \in 1..n : published + i \in 1..(published + n)
  OBVIOUS
<1>2. Batch(n) \in [1..n -> 1..(published + n)]
  BY <1>1 DEF Batch
<1> QED BY <1>2 DEF Batch

\* The type invariant: channels hold only published messages and markers.
THEOREM TypeCorrect == Spec => []TypeOK
<1> USE BusAssumption
<1>1. Init => TypeOK
  BY DEF Init, TypeOK, Message
<1>2. TypeOK /\ [Next]_vars => TypeOK'
  <2> SUFFICES ASSUME TypeOK, [Next]_vars
               PROVE  TypeOK'
    OBVIOUS
  <2> USE DEF TypeOK
  <2>1. CASE UNCHANGED vars
    BY <2>1 DEF vars, Message
  <2>2. ASSUME NEW n \in 1..MaxBatch, Publish(n)
        PROVE  TypeOK'
    <3>1. published' = published + n /\ published' \in 0..MaxPub /\ n \in Nat /\ published \in Nat
      BY <2>2 DEF Publish
    <3>2. Message \subseteq Message' /\ Message' = 1..(published + n)
      BY <3>1 DEF Message
    <3>3. todo' \in [Subs -> Seq(Message')]
      <4>1. Batch(n) \in Seq(Message') /\ <<>> \in Seq(Message')
        BY <3>1, <3>2, BatchType
      <4> QED BY <4>1, <2>2 DEF Publish
    <3>4. buf' \in [Subs -> Seq(Message' \cup {Resync})]
      <4>1. \A s \in Subs : buf[s] \in Seq(Message' \cup {Resync})
        BY <3>2, SeqMonotone
      <4> QED BY <4>1, <2>2 DEF Publish
    <3>5. known' \in [Subs -> SUBSET Message'] /\ skipped' \in [Subs -> SUBSET Message']
      BY <2>2, <3>2 DEF Publish
    <3> QED BY <2>2, <3>1, <3>3, <3>4, <3>5 DEF Publish
  <2>3. ASSUME NEW s \in Subs, Deliver(s)
        PROVE  TypeOK'
    <3>1. Head(todo[s]) \in Message /\ Tail(todo[s]) \in Seq(Message)
      BY <2>3 DEF Deliver
    <3>2. Append(buf[s], Head(todo[s])) \in Seq(Message \cup {Resync})
      BY <3>1
    <3>3. Message' = Message /\ published' = published
      BY <2>3 DEF Deliver, Message
    <3>4. CASE SkipDropped(s)
      BY <2>3, <3>1, <3>3, <3>4 DEF Deliver, SkipDropped
    <3>5. CASE SendMessage(s)
      BY <2>3, <3>1, <3>2, <3>3, <3>5 DEF Deliver, SendMessage
    <3>6. CASE Overflow(s)
      BY <2>3, <3>1, <3>3, <3>6 DEF Deliver, Overflow
    <3> QED BY <2>3, <3>4, <3>5, <3>6 DEF Deliver
  <2>4. ASSUME NEW s \in Subs, SendMarker(s)
        PROVE  TypeOK'
    <3>1. Append(buf[s], Resync) \in Seq(Message \cup {Resync})
      OBVIOUS
    <3> QED BY <3>1, <2>4 DEF SendMarker, readVars, Message
  <2>5. ASSUME NEW s \in Subs, Receive(s)
        PROVE  TypeOK'
    <3>1. Tail(buf[s]) \in Seq(Message \cup {Resync}) /\ Head(buf[s]) \in Message \cup {Resync}
      BY <2>5 DEF Receive
    <3>2. Message' = Message
      BY <2>5 DEF Receive, Message
    <3>3. CASE Head(buf[s]) = Resync
      BY <2>5, <3>1, <3>2, <3>3 DEF Receive, subVars
    <3>4. CASE Head(buf[s]) # Resync
      <4>1. Head(buf[s]) \in Message
        BY <3>1, <3>4
      <4>2. known' \in [Subs -> SUBSET Message] /\ drawing' = drawing
        <5>1. known[s] \cup {Head(buf[s])} \in SUBSET Message
          BY <4>1
        <5>2. known' = [known EXCEPT ![s] = known[s] \cup {Head(buf[s])}] /\ drawing' = drawing
          BY <2>5, <3>4 DEF Receive
        <5> QED BY <5>1, <5>2
      <4>3. /\ buf' \in [Subs -> Seq(Message \cup {Resync})]
            /\ UNCHANGED <<published, todo, phase, dropped, sender, skipped>>
        BY <2>5, <3>1 DEF Receive, subVars
      <4> QED BY <3>2, <4>2, <4>3
    <3> QED BY <3>3, <3>4
  <2>6. ASSUME NEW s \in Subs, Redraw(s)
        PROVE  TypeOK'
    BY <2>6 DEF Redraw, subVars, Message
  <2>7. ASSUME NEW s \in Subs,
               \/ Subscribe(s) \/ ClearDropped(s) \/ AbandonMarker(s)
               \/ Unsubscribe(s) \/ CloseChan(s)
        PROVE  TypeOK'
    BY <2>7 DEF Subscribe, ClearDropped, AbandonMarker, Unsubscribe, CloseChan, readVars, Message
  <2> QED BY <2>1, <2>2, <2>3, <2>4, <2>5, <2>6, <2>7 DEF Next
<1> QED BY <1>1, <1>2, PTL DEF Spec

----------------------------------------------------------------------------
(***************************************************************************)
(* The inductive invariant.  A running Publish owes messages to connected  *)
(* subscribers only, because Unsubscribe waits for the lock; and a closed  *)
(* channel has no sender, because CloseChan waits for it.                  *)
(***************************************************************************)
OwesConnectedOnly == \A s \in Subs : todo[s] # <<>> => phase[s] = "in"

UnsubscribedIdle == \A s \in Subs : phase[s] = "out" => sender[s] = "none" /\ ~dropped[s]

IInv ==
    /\ TypeOK
    /\ OwesConnectedOnly
    /\ UnsubscribedIdle
    /\ DroppedHasSender
    /\ NoSendOnClosed
    /\ LossOnlyAfterMarker

\* The sender protocol: who may be sending, and to which channel.
SenderInv == OwesConnectedOnly /\ UnsubscribedIdle /\ DroppedHasSender /\ NoSendOnClosed

LEMMA SenderStep == TypeOK /\ SenderInv /\ [Next]_vars => SenderInv'
<1> SUFFICES ASSUME TypeOK, SenderInv, [Next]_vars
             PROVE  SenderInv'
  OBVIOUS
<1> USE DEF TypeOK, SenderInv, OwesConnectedOnly, UnsubscribedIdle, DroppedHasSender, NoSendOnClosed
<1>1. CASE UNCHANGED vars
  BY <1>1 DEF vars
<1>2. ASSUME NEW n \in 1..MaxBatch, Publish(n)
      PROVE  SenderInv'
  BY <1>2 DEF Publish
<1>3. ASSUME NEW s \in Subs, Subscribe(s)
      PROVE  SenderInv'
  BY <1>3 DEF Subscribe
<1>4. ASSUME NEW s \in Subs, Deliver(s)
      PROVE  SenderInv'
  <2>1. phase[s] = "in" /\ phase' = phase /\ \A r \in Subs \ {s} : todo'[r] = todo[r]
    BY <1>4 DEF Deliver
  <2>2. CASE SkipDropped(s) \/ SendMessage(s)
    BY <2>1, <2>2 DEF SkipDropped, SendMessage
  <2>3. CASE Overflow(s)
    BY <2>1, <2>3 DEF Overflow
  <2> QED BY <1>4, <2>2, <2>3 DEF Deliver
<1>5. ASSUME NEW s \in Subs, SendMarker(s)
      PROVE  SenderInv'
  BY <1>5 DEF SendMarker
<1>6. ASSUME NEW s \in Subs, ClearDropped(s)
      PROVE  SenderInv'
  BY <1>6 DEF ClearDropped
<1>7. ASSUME NEW s \in Subs, AbandonMarker(s)
      PROVE  SenderInv'
  BY <1>7 DEF AbandonMarker
<1>8. ASSUME NEW s \in Subs, Unsubscribe(s)
      PROVE  SenderInv'
  BY <1>8 DEF Unsubscribe, MuFree
<1>9. ASSUME NEW s \in Subs, CloseChan(s)
      PROVE  SenderInv'
  BY <1>9 DEF CloseChan
<1>10. ASSUME NEW s \in Subs, Receive(s) \/ Redraw(s)
       PROVE  SenderInv'
  BY <1>10 DEF Receive, Redraw, subVars
<1> QED BY <1>1, <1>2, <1>3, <1>4, <1>5, <1>6, <1>7, <1>8, <1>9, <1>10 DEF Next

\* A message that is covered, or was skipped after the marker, stays so.
LEMMA LossStep == TypeOK /\ SenderInv /\ LossOnlyAfterMarker /\ [Next]_vars => LossOnlyAfterMarker'
<1> DEFINE Safe(s, m) == Covered(s, m) \/ m \in skipped[s]
<1> SUFFICES ASSUME TypeOK, SenderInv, LossOnlyAfterMarker, [Next]_vars,
                    NEW r \in Subs, phase'[r] = "in", NEW m \in 1..published'
             PROVE  Safe(r, m)'
  BY DEF LossOnlyAfterMarker
<1> USE DEF TypeOK
<1>0. phase[r] = "in" /\ m \in 1..published => Safe(r, m)
  BY DEF LossOnlyAfterMarker
<1> DEFINE Same == /\ phase'[r] = phase[r] /\ published' = published
                   /\ known'[r] = known[r] /\ buf'[r] = buf[r] /\ todo'[r] = todo[r]
                   /\ drawing'[r] = drawing[r] /\ skipped'[r] = skipped[r]
<1>1. ASSUME Same, sender[r] = "sending" => sender'[r] = "sending"
      PROVE  Safe(r, m)'
  BY <1>0, <1>1 DEF Covered, RedrawDue
<1>2. CASE UNCHANGED vars
  BY <1>1, <1>2 DEF vars
<1>3. ASSUME NEW n \in 1..MaxBatch, Publish(n)
      PROVE  Safe(r, m)'
  <2>1. /\ phase[r] = "in" /\ todo[r] = <<>> /\ todo'[r] = Batch(n)
        /\ published' = published + n /\ n \in Nat /\ published \in Nat
        /\ UNCHANGED <<known, buf, drawing, sender, skipped>>
    BY <1>3 DEF Publish, MuFree
  <2>2. CASE m \in 1..published
    <3>1. ~In(m, todo[r])
      BY <2>1 DEF In
    <3> QED BY <1>0, <2>1, <2>2, <3>1 DEF Covered, RedrawDue
  <2>3. CASE m \notin 1..published
    <3>1. m - published \in 1..n /\ published + (m - published) = m
      BY <2>1, <2>3
    <3>2. In(m, Batch(n))
      BY <2>1, <3>1, BatchType DEF In
    <3> QED BY <2>1, <3>2 DEF Covered
  <2> QED BY <2>2, <2>3
<1>4. ASSUME NEW s \in Subs, Subscribe(s)
      PROVE  Safe(r, m)'
  <2>1. CASE r = s
    BY <1>4, <2>1 DEF Subscribe, Covered, RedrawDue
  <2>2. CASE r # s
    BY <1>1, <1>4, <2>2 DEF Subscribe
  <2> QED BY <2>1, <2>2
<1>5. ASSUME NEW s \in Subs, Deliver(s)
      PROVE  Safe(r, m)'
  <2>1. CASE r # s
    BY <1>1, <1>5, <2>1 DEF Deliver, SkipDropped, SendMessage, Overflow
  <2>2. CASE r = s
    <3>1. /\ todo[r] \in Seq(Message) /\ todo[r] # <<>> /\ Head(todo[r]) \in Message
          /\ todo'[r] = Tail(todo[r]) /\ phase[r] = "in"
          /\ UNCHANGED <<published, drawing, known>>
      BY <1>5, <2>2 DEF Deliver
    <3>2. In(m, todo[r]) <=> In(m, todo'[r]) \/ m = Head(todo[r])
      BY <3>1, InTail
    <3>3. CASE SkipDropped(r)
      <4>1. sender[r] \in {"sending", "sent"} /\ sender' = sender /\ buf' = buf
        BY <3>1, <3>3 DEF SkipDropped, SenderInv, DroppedHasSender
      <4>2. CASE sender[r] = "sending"
        BY <4>1, <4>2 DEF Covered, RedrawDue
      <4>3. CASE sender[r] = "sent"
        <5>1. skipped'[r] = skipped[r] \cup {Head(todo[r])}
          BY <3>3, <4>3 DEF SkipDropped
        <5> QED BY <1>0, <3>1, <3>2, <4>1, <5>1 DEF Covered, RedrawDue
      <4> QED BY <4>1, <4>2, <4>3
    <3>4. CASE SendMessage(r)
      <4>1. buf'[r] = Append(buf[r], Head(todo[r])) /\ UNCHANGED <<sender, skipped>>
        BY <3>4 DEF SendMessage
      <4>2. /\ In(m, buf'[r]) <=> In(m, buf[r]) \/ m = Head(todo[r])
            /\ In(Resync, buf[r]) => In(Resync, buf'[r])
        <5> DEFINE T == Message \cup {Resync}
                   x == Head(todo[r])
        <5>1. buf[r] \in Seq(T) /\ x \in T
          BY <3>1
        <5>2. buf'[r] = Append(buf[r], x)
          BY <4>1
        <5> HIDE DEF T, x, TypeOK
        <5>3. \A k : In(k, Append(buf[r], x)) <=> In(k, buf[r]) \/ k = x
          BY <5>1, InAppend
        <5> USE DEF x
        <5> QED BY <5>2, <5>3
      <4> QED BY <1>0, <3>1, <3>2, <4>1, <4>2 DEF Covered, RedrawDue
    <3>5. CASE Overflow(r)
      BY <3>5 DEF Overflow, Covered, RedrawDue
    <3> QED BY <1>5, <2>2, <3>3, <3>4, <3>5 DEF Deliver
  <2> QED BY <2>1, <2>2
<1>6. ASSUME NEW s \in Subs, SendMarker(s)
      PROVE  Safe(r, m)'
  <2>1. CASE r # s
    BY <1>1, <1>6, <2>1 DEF SendMarker, readVars
  <2>2. CASE r = s
    <3>1. In(Resync, Append(buf[r], Resync))
      <4>1. buf[r] \in Seq(Message \cup {Resync}) /\ Resync \in Message \cup {Resync}
        OBVIOUS
      <4> QED BY <4>1, InAppend
    <3> QED BY <1>6, <2>2, <3>1 DEF SendMarker, Covered, RedrawDue
  <2> QED BY <2>1, <2>2
<1>7. ASSUME NEW s \in Subs, ClearDropped(s)
      PROVE  Safe(r, m)'
  BY <1>1, <1>7 DEF ClearDropped, readVars
<1>8. ASSUME NEW s \in Subs, AbandonMarker(s)
      PROVE  Safe(r, m)'
  BY <1>1, <1>8 DEF AbandonMarker, readVars
<1>9. ASSUME NEW s \in Subs, Unsubscribe(s) \/ CloseChan(s)
      PROVE  Safe(r, m)'
  BY <1>1, <1>9 DEF Unsubscribe, CloseChan, readVars
<1>10. ASSUME NEW s \in Subs, Receive(s)
       PROVE  Safe(r, m)'
  <2>1. CASE r # s
    <3>1. Same /\ sender' = sender
      BY <1>10, <2>1 DEF Receive, subVars
    <3> QED BY <1>1, <3>1
  <2>2. CASE r = s
    <3>1. /\ buf[r] \in Seq(Message \cup {Resync}) /\ buf[r] # <<>>
          /\ buf'[r] = Tail(buf[r]) /\ phase[r] = "in" /\ published' = published
          /\ UNCHANGED <<todo, sender, skipped>> /\ ~drawing[r]
      BY <1>10, <2>2 DEF Receive, subVars
    <3>2. /\ In(m, buf[r]) <=> In(m, buf'[r]) \/ m = Head(buf[r])
          /\ In(Resync, buf[r]) <=> In(Resync, buf'[r]) \/ Resync = Head(buf[r])
      BY <3>1, InTail
    <3>3. CASE Head(buf[r]) = Resync
      <4>1. drawing'[r]
        BY <1>10, <2>2, <3>3 DEF Receive
      <4> QED BY <4>1 DEF Covered, RedrawDue
    <3>4. CASE Head(buf[r]) # Resync
      <4>1. known'[r] = known[r] \cup {Head(buf[r])}
        BY <1>10, <2>2, <3>4 DEF Receive
      <4> QED BY <1>0, <3>1, <3>2, <3>4, <4>1 DEF Covered, RedrawDue
    <3> QED BY <3>3, <3>4
  <2> QED BY <2>1, <2>2
<1>11. ASSUME NEW s \in Subs, Redraw(s)
       PROVE  Safe(r, m)'
  <2>1. CASE r # s
    BY <1>1, <1>11, <2>1 DEF Redraw, subVars
  <2>2. CASE r = s
    BY <1>11, <2>2 DEF Redraw, Covered
  <2> QED BY <2>1, <2>2
<1> QED BY <1>2, <1>3, <1>4, <1>5, <1>6, <1>7, <1>8, <1>9, <1>10, <1>11 DEF Next

\* The invariant holds initially and every step keeps it.
THEOREM Invariance == Spec => []IInv
<1>1. Init => IInv
  <2>1. Init => TypeOK
    BY BusAssumption DEF Init, TypeOK, Message
  <2>2. Init => SenderInv
    BY DEF Init, SenderInv, OwesConnectedOnly, UnsubscribedIdle, DroppedHasSender, NoSendOnClosed
  <2>3. Init => LossOnlyAfterMarker
    BY DEF Init, LossOnlyAfterMarker
  <2> QED BY <2>1, <2>2, <2>3 DEF IInv, SenderInv
<1>2. TypeOK' /\ IInv /\ [Next]_vars => IInv'
  BY SenderStep, LossStep DEF IInv, SenderInv
<1> QED BY <1>1, <1>2, TypeCorrect, PTL DEF Spec

\* Nobody ever sends on a closed channel.
THEOREM NoSendOnClosedHolds == Spec => []NoSendOnClosed
<1>1. IInv => NoSendOnClosed
  BY DEF IInv
<1> QED BY <1>1, Invariance, PTL

\* A connected page can miss only what is skipped after its marker was sent.
THEOREM LossOnlyAfterMarkerHolds == Spec => []LossOnlyAfterMarker
<1>1. IInv => LossOnlyAfterMarker
  BY DEF IInv
<1> QED BY <1>1, Invariance, PTL

\* A connected subscriber is skipped only while a goroutine will end that.
THEOREM DroppedHasSenderHolds == Spec => []DroppedHasSender
<1>1. IInv => DroppedHasSender
  BY DEF IInv
<1> QED BY <1>1, Invariance, PTL

----------------------------------------------------------------------------
\* A message that is larger than all of q may be put behind it, and so may a
\* marker.
LEMMA InOrderAppend ==
    ASSUME NEW q \in Seq(Nat), NEW x \in Nat, InOrder(q),
           x # Resync => \A i \in 1..Len(q) : q[i] < x
    PROVE  InOrder(Append(q, x))
<1> DEFINE p == Append(q, x)
<1>1. /\ Len(q) \in Nat /\ Len(p) = Len(q) + 1
      /\ \A i \in 1..Len(q) : p[i] = q[i]
      /\ p[Len(q) + 1] = x
  OBVIOUS
<1> HIDE DEF p
<1>2. ASSUME NEW i \in 1..Len(p), NEW j \in 1..Len(p), i < j, p[i] # Resync, p[j] # Resync
      PROVE  p[i] < p[j]
  <2>1. i \in 1..Len(q)
    BY <1>1, <1>2
  <2>2. CASE j = Len(q) + 1
    BY <1>1, <1>2, <2>1, <2>2
  <2>3. CASE j # Len(q) + 1
    <3>1. j \in 1..Len(q)
      BY <1>1, <2>3
    <3> QED BY <1>1, <1>2, <2>1, <3>1 DEF InOrder
  <2> QED BY <2>2, <2>3
<1> QED BY <1>2 DEF InOrder, p

LEMMA InOrderTail ==
    ASSUME NEW q \in Seq(Nat), q # <<>>, InOrder(q)
    PROVE  InOrder(Tail(q))
<1>1. Len(q) \in Nat /\ Len(Tail(q)) = Len(q) - 1 /\ \A i \in 1..Len(Tail(q)) : Tail(q)[i] = q[i + 1]
  OBVIOUS
<1>2. \A i \in 1..Len(Tail(q)) : i + 1 \in 1..Len(q)
  BY <1>1
<1> QED BY <1>1, <1>2 DEF InOrder

LEMMA InOrderConcat ==
    ASSUME NEW p \in Seq(Nat), NEW q \in Seq(Nat), InOrder(p), InOrder(q),
           \A i \in 1..Len(p), j \in 1..Len(q) : p[i] < q[j]
    PROVE  InOrder(p \o q)
<1>1. /\ Len(p) \in Nat /\ Len(q) \in Nat /\ Len(p \o q) = Len(p) + Len(q)
      /\ \A i \in 1..Len(p) : (p \o q)[i] = p[i]
      /\ \A i \in 1..Len(q) : (p \o q)[Len(p) + i] = q[i]
  OBVIOUS
<1>2. ASSUME NEW i \in 1..Len(p \o q), NEW j \in 1..Len(p \o q), i < j, (p \o q)[i] # Resync, (p \o q)[j] # Resync
      PROVE  (p \o q)[i] < (p \o q)[j]
  <2>1. CASE j <= Len(p)
    <3>1. i \in 1..Len(p) /\ j \in 1..Len(p)
      BY <1>1, <1>2, <2>1
    <3> QED BY <1>1, <1>2, <3>1 DEF InOrder
  <2>2. CASE j > Len(p) /\ i <= Len(p)
    <3>1. i \in 1..Len(p) /\ j - Len(p) \in 1..Len(q) /\ Len(p) + (j - Len(p)) = j
      BY <1>1, <2>2
    <3> QED BY <1>1, <3>1
  <2>3. CASE i > Len(p)
    <3>1. /\ i - Len(p) \in 1..Len(q) /\ Len(p) + (i - Len(p)) = i
          /\ j - Len(p) \in 1..Len(q) /\ Len(p) + (j - Len(p)) = j
          /\ i - Len(p) < j - Len(p)
      BY <1>1, <1>2, <2>3
    <3> QED BY <1>1, <1>2, <3>1 DEF InOrder
  <2> QED BY <1>1, <2>1, <2>2, <2>3
<1> QED BY <1>2 DEF InOrder

\* What a subscriber holds is in order, so is what it is owed, and the first
\* is older than the second.
OrderOf(s) ==
    /\ InOrder(buf[s]) /\ InOrder(todo[s])
    /\ \A i \in 1..Len(buf[s]), j \in 1..Len(todo[s]) : buf[s][i] < todo[s][j]

OrderInv == \A s \in Subs : OrderOf(s)

LEMMA Held ==
    ASSUME TypeOK, NEW s \in Subs
    PROVE  /\ buf[s] \in Seq(Nat) /\ todo[s] \in Seq(Nat)
           /\ \A i \in 1..Len(buf[s]) : buf[s][i] \in Nat /\ buf[s][i] <= published
           /\ \A j \in 1..Len(todo[s]) : todo[s][j] \in Nat /\ todo[s][j] > 0
<1>1. Message \cup {Resync} \subseteq Nat /\ Message \subseteq Nat /\ published \in Nat
  BY DEF TypeOK, Message, Resync
<1>2. buf[s] \in Seq(Message \cup {Resync}) /\ todo[s] \in Seq(Message)
  BY DEF TypeOK
<1>3. buf[s] \in Seq(Nat) /\ todo[s] \in Seq(Nat)
  BY <1>1, <1>2, SeqMonotone
<1>4. /\ \A i \in 1..Len(buf[s]) : buf[s][i] \in Message \cup {Resync}
      /\ \A j \in 1..Len(todo[s]) : todo[s][j] \in Message
  BY <1>2
<1> QED BY <1>1, <1>3, <1>4 DEF Message, Resync

LEMMA OrderStep == TypeOK /\ OrderInv /\ [Next]_vars => OrderInv'
<1> SUFFICES ASSUME TypeOK, OrderInv, [Next]_vars, NEW t \in Subs PROVE OrderOf(t)'
  BY DEF OrderInv
<1>0. /\ OrderOf(t) /\ buf \in [Subs -> Seq(Message \cup {Resync})] /\ todo \in [Subs -> Seq(Message)]
  BY DEF OrderInv, TypeOK
<1> DEFINE b == buf[t]
           q == todo[t]
<1>h. /\ b \in Seq(Nat) /\ q \in Seq(Nat)
      /\ \A i \in 1..Len(b) : b[i] \in Nat /\ b[i] <= published
      /\ \A j \in 1..Len(q) : q[j] \in Nat /\ q[j] > 0
  BY Held
<1>o. InOrder(b) /\ InOrder(q) /\ \A i \in 1..Len(b), j \in 1..Len(q) : b[i] < q[j]
  BY <1>0 DEF OrderOf
<1>1. CASE buf'[t] = b /\ todo'[t] = q
  BY <1>o, <1>1 DEF OrderOf, InOrder
<1>2. ASSUME NEW n \in 1..MaxBatch, Publish(n) PROVE OrderOf(t)'
  <2>1. buf'[t] = b /\ todo'[t] = IF phase[t] = "in" THEN Batch(n) ELSE <<>>
    BY <1>2 DEF Publish
  <2>2. /\ published \in Nat /\ n \in Nat /\ Len(Batch(n)) = n
        /\ \A i \in 1..n : Batch(n)[i] = published + i
    <3>1. published \in Nat /\ n \in Nat
      BY BusAssumption DEF TypeOK
    <3> QED BY <3>1, BatchType
  <2>3. InOrder(Batch(n))
    BY <2>2 DEF InOrder
  <2>4. \A i \in 1..Len(b), j \in 1..Len(Batch(n)) : b[i] < Batch(n)[j]
    BY <1>h, <2>2
  <2>5. CASE phase[t] = "in"
    BY <1>o, <2>1, <2>3, <2>4, <2>5 DEF OrderOf, InOrder
  <2>6. CASE phase[t] # "in"
    BY <1>o, <2>1, <2>6 DEF OrderOf, InOrder
  <2> QED BY <2>5, <2>6
<1>3. ASSUME Deliver(t) PROVE OrderOf(t)'
  <2>1. q # <<>> /\ todo'[t] = Tail(q)
    BY <1>0, <1>3 DEF Deliver
  <2>2. /\ Len(q) \in Nat /\ Len(q) >= 1 /\ Head(q) = q[1] /\ Len(Tail(q)) = Len(q) - 1
        /\ \A i \in 1..Len(Tail(q)) : Tail(q)[i] = q[i + 1] /\ i + 1 \in 1..Len(q)
    BY <1>h, <2>1
  <2>3. InOrder(Tail(q))
    BY <1>h, <1>o, <2>1, InOrderTail
  <2>4. \A i \in 1..Len(b), j \in 1..Len(Tail(q)) : b[i] < Tail(q)[j]
    BY <1>o, <2>2
  <2>5. CASE SendMessage(t)
    <3>1. buf'[t] = Append(b, q[1])
      BY <1>0, <2>2, <2>5 DEF SendMessage
    <3>2. 1 \in 1..Len(q) /\ q[1] \in Nat /\ q[1] > 0
      BY <1>h, <2>2
    <3>3. \A i \in 1..Len(b) : b[i] < q[1]
      BY <1>o, <3>2
    <3>4. InOrder(Append(b, q[1]))
      BY <1>h, <1>o, <3>2, <3>3, InOrderAppend
    <3>5. \A j \in 1..Len(Tail(q)) : q[1] < Tail(q)[j]
      <4> SUFFICES ASSUME NEW j \in 1..Len(Tail(q)) PROVE q[1] < q[j + 1]
        BY <2>2
      <4>1. j + 1 \in 1..Len(q) /\ 1 < j + 1
        BY <2>2
      <4>2. q[1] # Resync /\ q[j + 1] # Resync
        BY <1>h, <3>2, <4>1 DEF Resync
      <4> QED BY <1>o, <3>2, <4>1, <4>2 DEF InOrder
    <3>6. /\ Len(b) \in Nat /\ Len(Append(b, q[1])) = Len(b) + 1
          /\ \A i \in 1..Len(b) : Append(b, q[1])[i] = b[i]
          /\ Append(b, q[1])[Len(b) + 1] = q[1]
      BY <1>h, <3>2
    <3>7. \A i \in 1..Len(Append(b, q[1])), j \in 1..Len(Tail(q)) : Append(b, q[1])[i] < Tail(q)[j]
      <4> SUFFICES ASSUME NEW i \in 1..Len(b) + 1, NEW j \in 1..Len(Tail(q))
                   PROVE  Append(b, q[1])[i] < Tail(q)[j]
        BY <3>6
      <4>1. CASE i = Len(b) + 1
        BY <3>5, <3>6, <4>1
      <4>2. CASE i # Len(b) + 1
        <5>1. i \in 1..Len(b)
          BY <3>6, <4>2
        <5> QED BY <2>4, <3>6, <5>1
      <4> QED BY <4>1, <4>2
    <3> HIDE DEF b, q
    <3> QED BY <2>1, <2>3, <3>1, <3>4, <3>7 DEF OrderOf, InOrder
  <2>6. CASE SkipDropped(t) \/ Overflow(t)
    <3>1. buf'[t] = b
      BY <2>6 DEF SkipDropped, Overflow
    <3> HIDE DEF b, q
    <3> QED BY <1>o, <2>1, <2>3, <2>4, <3>1 DEF OrderOf, InOrder
  <2> QED BY <1>3, <2>5, <2>6 DEF Deliver
<1>4. ASSUME SendMarker(t) PROVE OrderOf(t)'
  <2>1. buf'[t] = Append(b, Resync) /\ todo'[t] = q
    BY <1>0, <1>4 DEF SendMarker
  <2>2. Resync \in Nat
    BY DEF Resync
  <2>3. InOrder(Append(b, Resync))
    BY <1>h, <1>o, <2>2, InOrderAppend
  <2>4. /\ Len(b) \in Nat /\ Len(Append(b, Resync)) = Len(b) + 1
        /\ \A i \in 1..Len(b) : Append(b, Resync)[i] = b[i]
        /\ Append(b, Resync)[Len(b) + 1] = Resync
    BY <1>h, <2>2
  <2>5. \A i \in 1..Len(Append(b, Resync)), j \in 1..Len(q) : Append(b, Resync)[i] < q[j]
    <3> SUFFICES ASSUME NEW i \in 1..Len(b) + 1, NEW j \in 1..Len(q) PROVE Append(b, Resync)[i] < q[j]
      BY <2>4
    <3>1. CASE i = Len(b) + 1
      BY <1>h, <2>4, <3>1 DEF Resync
    <3>2. CASE i # Len(b) + 1
      <4>1. i \in 1..Len(b)
        BY <2>4, <3>2
      <4> QED BY <1>o, <2>4, <4>1
    <3> QED BY <3>1, <3>2
  <2> HIDE DEF b, q
  <2> QED BY <1>o, <2>1, <2>3, <2>5 DEF OrderOf, InOrder
<1>5. ASSUME Receive(t) PROVE OrderOf(t)'
  <2>1. b # <<>> /\ buf'[t] = Tail(b) /\ todo'[t] = q
    BY <1>0, <1>5 DEF Receive
  <2>2. InOrder(Tail(b))
    BY <1>h, <1>o, <2>1, InOrderTail
  <2>3. \A i \in 1..Len(Tail(b)) : Tail(b)[i] = b[i + 1] /\ i + 1 \in 1..Len(b)
    BY <1>h, <2>1
  <2>4. \A i \in 1..Len(Tail(b)), j \in 1..Len(q) : Tail(b)[i] < q[j]
    BY <1>o, <2>3
  <2> HIDE DEF b, q
  <2> QED BY <1>o, <2>1, <2>2, <2>4 DEF OrderOf, InOrder
<1>6. ASSUME NEW s \in Subs, s # t, Deliver(s) \/ SendMarker(s) \/ Receive(s) PROVE buf'[t] = b /\ todo'[t] = q
  BY <1>0, <1>6 DEF Deliver, SkipDropped, SendMessage, Overflow, SendMarker, Receive
<1>7. ASSUME NEW s \in Subs, \/ Subscribe(s) \/ ClearDropped(s) \/ AbandonMarker(s) \/ Unsubscribe(s)
                             \/ CloseChan(s) \/ Redraw(s)
      PROVE  buf'[t] = b /\ todo'[t] = q
  BY <1>7 DEF Subscribe, ClearDropped, AbandonMarker, Unsubscribe, CloseChan, Redraw
<1>8. UNCHANGED vars => buf'[t] = b /\ todo'[t] = q
  BY DEF vars
<1> QED BY <1>1, <1>2, <1>3, <1>4, <1>5, <1>6, <1>7, <1>8 DEF Next

\* Subscribers get messages in the order of publication, whoever publishes,
\* however far they fall behind (bus.go:49-94).
THEOREM PublicationOrderHolds == Spec => []PublicationOrder
<1>1. Init => OrderInv
  <2> SUFFICES ASSUME Init, NEW s \in Subs PROVE OrderOf(s)
    BY DEF OrderInv
  <2>1. buf[s] = <<>> /\ todo[s] = <<>> /\ 1..Len(<<>>) = {}
    BY DEF Init
  <2> QED BY <2>1 DEF OrderOf, InOrder
<1>2. Spec => []OrderInv
  BY <1>1, TypeCorrect, OrderStep, PTL DEF Spec
<1>3. TypeOK /\ OrderInv => PublicationOrder
  BY Held, InOrderConcat DEF OrderInv, OrderOf, PublicationOrder
<1> QED BY <1>2, <1>3, TypeCorrect, PTL

----------------------------------------------------------------------------
(***************************************************************************)
(* A subscriber misses nothing between two messages it holds.  What a      *)
(* running Publish owes it are the last messages published; and unless     *)
(* some were skipped, what it holds behind the last marker are the ones    *)
(* before them, without a gap.                                             *)
(***************************************************************************)
\* The last message that s was neither owed nor holds.
Behind(s) == published - Len(todo[s]) - Len(buf[s])

UnmarkedFrom(s, k) == \A l \in k..Len(buf[s]) : buf[s][l] # Resync

OwedLast(s) ==
    phase[s] = "in" => \A j \in 1..Len(todo[s]) : todo[s][j] = published - Len(todo[s]) + j

HeldNext(s) ==
    phase[s] = "in" /\ skipped[s] = {} /\ sender[s] # "sending" =>
        \A k \in 1..Len(buf[s]) : UnmarkedFrom(s, k) => buf[s][k] = Behind(s) + k

EmptyOutside(s) == phase[s] = "out" => buf[s] = <<>>

Contiguous == \A s \in Subs : OwedLast(s) /\ HeldNext(s) /\ EmptyOutside(s)

LEMMA ContiguousStep == TypeOK /\ SenderInv /\ Contiguous /\ [Next]_vars => Contiguous'
<1> SUFFICES ASSUME TypeOK, SenderInv, Contiguous, [Next]_vars, NEW t \in Subs
             PROVE  OwedLast(t)' /\ HeldNext(t)' /\ EmptyOutside(t)'
  BY DEF Contiguous
<1> DEFINE Goal == OwedLast(t)' /\ HeldNext(t)' /\ EmptyOutside(t)'
           b == buf[t]
           q == todo[t]
<1>0. /\ OwedLast(t) /\ HeldNext(t) /\ EmptyOutside(t)
      /\ buf \in [Subs -> Seq(Message \cup {Resync})] /\ todo \in [Subs -> Seq(Message)]
      /\ phase \in [Subs -> {"out", "in", "left", "closed"}] /\ sender \in [Subs -> {"none", "sending", "sent"}]
      /\ skipped \in [Subs -> SUBSET Message] /\ dropped \in [Subs -> BOOLEAN]
      /\ published \in Nat
  BY DEF Contiguous, TypeOK
<1>h. /\ b \in Seq(Nat) /\ q \in Seq(Nat) /\ Len(b) \in Nat /\ Len(q) \in Nat
      /\ \A j \in 1..Len(q) : q[j] \in Nat
  BY Held
<1>i. /\ phase[t] # "in" => q = <<>>
      /\ phase[t] = "out" => sender[t] = "none" /\ b = <<>>
      /\ phase[t] = "in" => (dropped[t] <=> sender[t] # "none")
  BY <1>0 DEF SenderInv, OwesConnectedOnly, UnsubscribedIdle, DroppedHasSender, EmptyOutside
<1>1. ASSUME buf'[t] = b, todo'[t] = q, published' = published, skipped'[t] = skipped[t],
             phase'[t] = phase[t], sender'[t] = sender[t] \/ sender[t] = "sent" \/ phase[t] = "left"
      PROVE  Goal
  BY <1>0, <1>1 DEF OwedLast, HeldNext, EmptyOutside, UnmarkedFrom, Behind
<1>2. ASSUME NEW n \in 1..MaxBatch, Publish(n) PROVE Goal
  <2>1. /\ buf' = buf /\ phase' = phase /\ sender' = sender /\ skipped' = skipped /\ published' = published + n
        /\ q = <<>> /\ Len(q) = 0 /\ todo'[t] = IF phase[t] = "in" THEN Batch(n) ELSE <<>>
    BY <1>2 DEF Publish, MuFree
  <2>2. /\ published \in Nat /\ n \in Nat /\ Len(Batch(n)) = n
        /\ \A i \in 1..n : Batch(n)[i] = published + i
    <3>1. published \in Nat /\ n \in Nat
      BY <1>0, BusAssumption
    <3> QED BY <3>1, BatchType
  <2> HIDE DEF b, q
  <2>3. OwedLast(t)'
    BY <2>1, <2>2 DEF OwedLast
  <2>4. phase[t] = "in" => Behind(t)' = Behind(t)
    BY <1>h, <2>1, <2>2 DEF Behind, b, q
  <2> QED BY <1>0, <2>1, <2>3, <2>4 DEF HeldNext, EmptyOutside, UnmarkedFrom
<1>3. ASSUME Deliver(t) PROVE Goal
  <2>1. /\ q # <<>> /\ todo'[t] = Tail(q) /\ published' = published /\ phase' = phase
        /\ phase[t] = "in"
    BY <1>0, <1>3, <1>i DEF Deliver
  <2>2. /\ Len(q) >= 1 /\ Head(q) = q[1] /\ Len(Tail(q)) = Len(q) - 1
        /\ \A i \in 1..Len(Tail(q)) : Tail(q)[i] = q[i + 1] /\ i + 1 \in 1..Len(q)
    BY <1>h, <2>1
  <2>3. \A j \in 1..Len(q) : q[j] = published - Len(q) + j
    BY <1>0, <2>1 DEF OwedLast
  <2>4. OwedLast(t)'
    <3> HIDE DEF q
    <3>1. ASSUME NEW j \in 1..Len(Tail(q)) PROVE Tail(q)[j] = published - Len(Tail(q)) + j
      <4>1. Tail(q)[j] = q[j + 1] /\ q[j + 1] = published - Len(q) + (j + 1)
        BY <2>2, <2>3
      <4>2. published \in Nat /\ Len(q) \in Nat /\ j \in Nat
        BY <1>0, <1>h, <2>2
      <4>3. published - (Len(q) - 1) + j = published - Len(q) + (j + 1)
        BY <4>2
      <4> QED BY <2>2, <4>1, <4>3
    <3> QED BY <2>1, <3>1 DEF OwedLast
  <2>5. EmptyOutside(t)'
    BY <2>1 DEF EmptyOutside
  <2>6. CASE SkipDropped(t)
    <3>1. sender' = sender /\ sender[t] \in {"sending", "sent"}
      BY <1>0, <1>i, <2>1, <2>6 DEF SkipDropped
    <3>2. sender[t] = "sent" => skipped'[t] # {}
      BY <1>0, <2>6 DEF SkipDropped
    <3> QED BY <2>4, <2>5, <3>1, <3>2 DEF HeldNext
  <2>7. CASE Overflow(t)
    <3>1. sender'[t] = "sending"
      BY <1>0, <2>7 DEF Overflow
    <3> QED BY <2>4, <2>5, <3>1 DEF HeldNext
  <2>8. CASE SendMessage(t)
    <3>1. buf'[t] = Append(b, q[1]) /\ sender' = sender /\ skipped' = skipped
      BY <1>0, <2>2, <2>8 DEF SendMessage
    <3>2. /\ Len(Append(b, q[1])) = Len(b) + 1
          /\ \A i \in 1..Len(b) : Append(b, q[1])[i] = b[i]
          /\ Append(b, q[1])[Len(b) + 1] = q[1]
      BY <1>h, <2>2
    <3>3. Behind(t)' = Behind(t) /\ Behind(t) + (Len(b) + 1) = published - Len(q) + 1
      <4>1. Len(buf'[t]) = Len(b) + 1 /\ Len(todo'[t]) = Len(q) - 1
        BY <2>1, <2>2, <3>1, <3>2
      <4> HIDE DEF b, q
      <4>2. Behind(t)' = published - (Len(q) - 1) - (Len(b) + 1)
        BY <2>1, <4>1 DEF Behind
      <4>3. Behind(t) = published - Len(q) - Len(b)
        BY DEF Behind, b, q
      <4> QED BY <1>0, <1>h, <4>2, <4>3
    <3>4. HeldNext(t)'
      <4> SUFFICES ASSUME skipped[t] = {}, sender[t] # "sending", NEW k \in 1..(Len(b) + 1),
                          UnmarkedFrom(t, k)'
                   PROVE  Append(b, q[1])[k] = Behind(t) + k
        BY <2>1, <3>1, <3>2, <3>3 DEF HeldNext
      <4>1. CASE k = Len(b) + 1
        <5>1. 1 \in 1..Len(q)
          BY <1>h, <2>2
        <5> HIDE DEF b, q
        <5> QED BY <2>3, <3>2, <3>3, <4>1, <5>1
      <4>2. CASE k # Len(b) + 1
        <5>1. k \in 1..Len(b)
          BY <1>h, <4>2
        <5>2. \A l \in k..(Len(b) + 1) : Append(b, q[1])[l] # Resync
          BY <3>1, <3>2 DEF UnmarkedFrom
        <5>3. UnmarkedFrom(t, k)
          <6> SUFFICES ASSUME NEW l \in k..Len(b) PROVE b[l] # Resync
            BY DEF UnmarkedFrom
          <6>1. l \in 1..Len(b) /\ l \in k..(Len(b) + 1)
            BY <1>h, <5>1
          <6> HIDE DEF b, q
          <6> QED BY <3>2, <5>2, <6>1
        <5>4. b[k] = Behind(t) + k
          BY <1>0, <2>1, <5>1, <5>3 DEF HeldNext
        <5> HIDE DEF b, q
        <5> QED BY <3>2, <5>1, <5>4
      <4> QED BY <4>1, <4>2
    <3> QED BY <2>4, <2>5, <3>4
  <2> QED BY <1>3, <2>6, <2>7, <2>8 DEF Deliver
<1>4. ASSUME SendMarker(t) PROVE Goal
  <2>1. /\ buf'[t] = Append(b, Resync) /\ UNCHANGED <<published, todo, phase>> /\ phase[t] # "out"
    BY <1>0, <1>4, <1>i DEF SendMarker
  <2>2. Len(Append(b, Resync)) = Len(b) + 1 /\ Append(b, Resync)[Len(b) + 1] = Resync
    BY <1>h DEF Resync
  <2>3. \A k \in 1..(Len(b) + 1) : Len(b) + 1 \in k..(Len(b) + 1)
    BY <1>h
  <2>4. \A k \in 1..Len(buf'[t]) : ~UnmarkedFrom(t, k)'
    BY <2>1, <2>2, <2>3 DEF UnmarkedFrom
  <2> QED BY <1>0, <2>1, <2>4 DEF OwedLast, HeldNext, EmptyOutside
<1>5. ASSUME Receive(t) PROVE Goal
  <2>1. /\ b # <<>> /\ buf'[t] = Tail(b) /\ UNCHANGED <<published, todo, phase, sender, skipped>> /\ phase[t] # "out"
    BY <1>0, <1>5 DEF Receive, subVars
  <2>2. /\ Len(b) >= 1 /\ Len(Tail(b)) = Len(b) - 1
        /\ \A i \in 1..Len(Tail(b)) : Tail(b)[i] = b[i + 1] /\ i + 1 \in 1..Len(b)
    BY <1>h, <2>1
  <2>3. Behind(t)' = Behind(t) + 1
    <3>1. Behind(t) = published - Len(q) - Len(b) /\ Behind(t)' = published - Len(q) - (Len(b) - 1)
      BY <2>1, <2>2 DEF Behind
    <3> HIDE DEF b, q
    <3> QED BY <1>0, <1>h, <3>1
  <2>4. HeldNext(t)'
    <3> SUFFICES ASSUME phase[t] = "in", skipped[t] = {}, sender[t] # "sending", NEW k \in 1..Len(Tail(b)),
                        UnmarkedFrom(t, k)'
                 PROVE  Tail(b)[k] = (Behind(t) + 1) + k
      BY <2>1, <2>3 DEF HeldNext
    <3>1. \A l \in k..Len(Tail(b)) : Tail(b)[l] # Resync
      BY <2>1 DEF UnmarkedFrom
    <3>2. UnmarkedFrom(t, k + 1)
      <4> SUFFICES ASSUME NEW l \in (k + 1)..Len(b) PROVE b[l] # Resync
        BY DEF UnmarkedFrom
      <4>1. l - 1 \in k..Len(Tail(b)) /\ l - 1 \in 1..Len(Tail(b)) /\ (l - 1) + 1 = l
        BY <1>h, <2>2
      <4> HIDE DEF b, q
      <4> QED BY <2>2, <3>1, <4>1
    <3>3. b[k + 1] = Behind(t) + (k + 1)
      BY <1>0, <2>2, <3>2 DEF HeldNext
    <3>4. Behind(t) \in Int
      BY <1>0, <1>h DEF Behind
    <3> HIDE DEF b, q
    <3> QED BY <2>2, <3>3, <3>4
  <2> QED BY <1>0, <2>1, <2>4 DEF OwedLast, EmptyOutside
<1>6. ASSUME Subscribe(t) PROVE Goal
  <2>1. /\ UNCHANGED <<published, todo, buf, sender, skipped>> /\ b = <<>> /\ q = <<>>
        /\ phase'[t] = "in"
    BY <1>0, <1>6, <1>i DEF Subscribe
  <2>2. 1..Len(<<>>) = {}
    OBVIOUS
  <2> HIDE DEF b, q
  <2> QED BY <2>1, <2>2 DEF OwedLast, HeldNext, EmptyOutside, b, q
<1>7. ASSUME Unsubscribe(t) \/ CloseChan(t) PROVE Goal
  <2>1. phase'[t] \in {"left", "closed"}
    BY <1>0, <1>7 DEF Unsubscribe, CloseChan
  <2> QED BY <2>1 DEF OwedLast, HeldNext, EmptyOutside
<1>8. ASSUME ClearDropped(t) \/ AbandonMarker(t) \/ Redraw(t) PROVE Goal
  BY <1>1, <1>8 DEF ClearDropped, AbandonMarker, Redraw, readVars, subVars
<1>9. ASSUME NEW s \in Subs, s # t,
             \/ Subscribe(s) \/ Deliver(s) \/ SendMarker(s) \/ ClearDropped(s) \/ AbandonMarker(s)
             \/ Unsubscribe(s) \/ CloseChan(s) \/ Receive(s) \/ Redraw(s)
      PROVE  Goal
  <2>1. /\ buf'[t] = b /\ todo'[t] = q /\ published' = published /\ skipped'[t] = skipped[t]
        /\ phase'[t] = phase[t] /\ sender'[t] = sender[t]
    BY <1>0, <1>9 DEF Subscribe, Deliver, SkipDropped, SendMessage, Overflow, SendMarker, ClearDropped, AbandonMarker,
                      Unsubscribe, CloseChan, Receive, Redraw, readVars, subVars
  <2> QED BY <1>1, <2>1
<1>10. CASE UNCHANGED vars
  BY <1>1, <1>10 DEF vars
<1> QED BY <1>2, <1>3, <1>4, <1>5, <1>6, <1>7, <1>8, <1>9, <1>10 DEF Next

\* Between two messages a subscriber holds, and between those and the ones it
\* is owed, nothing is missing that was not skipped (bus.go:49-94).
THEOREM NothingMissingBetween == Spec => []Contiguous
<1>1. Init => Contiguous
  <2> SUFFICES ASSUME Init, NEW s \in Subs PROVE OwedLast(s) /\ HeldNext(s) /\ EmptyOutside(s)
    BY DEF Contiguous
  <2>1. phase[s] = "out" /\ buf[s] = <<>>
    BY DEF Init
  <2> QED BY <2>1 DEF OwedLast, HeldNext, EmptyOutside
<1>2. IInv => TypeOK /\ SenderInv
  BY DEF IInv, SenderInv
<1> QED BY <1>1, <1>2, Invariance, ContiguousStep, PTL DEF Spec

\* A reader with no redraw to come has the next message, or is owed it.
LEMMA NextMessage ==
    ASSUME TypeOK, Contiguous, NEW s \in Subs, phase[s] = "in", skipped[s] = {}, ~RedrawDue(s)
    PROVE  /\ Behind(s) \in Nat /\ Behind(s) <= published
           /\ buf[s] # <<>> => Head(buf[s]) = Behind(s) + 1
<1> DEFINE b == buf[s]
           q == todo[s]
<1>1. /\ b \in Seq(Nat) /\ q \in Seq(Nat) /\ Len(b) \in Nat /\ Len(q) \in Nat
      /\ \A i \in 1..Len(b) : b[i] \in Nat /\ b[i] <= published
      /\ \A j \in 1..Len(q) : q[j] \in Nat /\ q[j] > 0
  BY Held
<1>2. published \in Nat
  BY DEF TypeOK
<1>3. \A l \in 1..Len(b) : b[l] # Resync
  BY DEF RedrawDue, In
<1>4. \A j \in 1..Len(q) : q[j] = published - Len(q) + j
  BY DEF Contiguous, OwedLast
<1>5. \A k \in 1..Len(b) : b[k] = Behind(s) + k
  <2> SUFFICES ASSUME NEW k \in 1..Len(b) PROVE b[k] = Behind(s) + k
    OBVIOUS
  <2>1. UnmarkedFrom(s, k)
    BY <1>1, <1>3 DEF UnmarkedFrom
  <2>2. sender[s] # "sending"
    BY DEF RedrawDue
  <2> QED BY <2>1, <2>2 DEF Contiguous, HeldNext
<1>6. Behind(s) = published - Len(q) - Len(b)
  BY DEF Behind
<1>7. b # <<>> => Len(b) >= 1 /\ Head(b) = b[1]
  BY <1>1
<1>8. b = <<>> => Len(b) = 0
  BY <1>1
<1>9. Resync = 0
  BY DEF Resync
<1> HIDE DEF b, q
<1>10. CASE Len(b) >= 1
  <2>1. 1 \in 1..Len(b)
    BY <1>1, <1>10
  <2>2. b[1] = Behind(s) + 1 /\ b[1] # 0 /\ b[1] \in Nat
    BY <1>1, <1>3, <1>5, <1>9, <2>1
  <2>3. Behind(s) \in Int
    BY <1>1, <1>2, <1>6
  <2>4. Behind(s) \in Nat /\ Behind(s) <= published
    BY <1>1, <1>2, <1>6, <2>2, <2>3
  <2> QED BY <1>7, <2>2, <2>4, <1>10 DEF b
<1>11. CASE Len(b) = 0 /\ Len(q) >= 1
  <2>1. 1 \in 1..Len(q)
    BY <1>1, <1>11
  <2>2. q[1] = published - Len(q) + 1 /\ q[1] > 0
    BY <1>1, <1>4, <2>1
  <2> QED BY <1>1, <1>2, <1>6, <1>7, <1>11, <2>2 DEF b
<1>12. CASE Len(b) = 0 /\ Len(q) = 0
  BY <1>2, <1>6, <1>7, <1>12 DEF b
<1> QED BY <1>1, <1>10, <1>11, <1>12

(***************************************************************************)
(* Part 2: Pages.  First the store and the log, which depend on no stream. *)
(***************************************************************************)
ItemRec == [id : ItemID, n : Nat, done : BOOLEAN]
Event == [kind : {"started", "delta", "completed", "head", "rewound"}, id : ItemID]
AppendRec == [by : {"pump", "request"}, events : Seq(Event)]

StoreTypes ==
    /\ items \in Seq(ItemRec) /\ begun \in SUBSET ItemID
    /\ head \in {0, 1} /\ overtook \in BOOLEAN
    /\ appended \in Seq(AppendRec) /\ events \in Seq(Event)
    /\ published \in Nat /\ Len(events) = published

\* Event e is in an append that is not published.
Waits(e) == \E k \in 1..Len(appended) : In(e, appended[k].events)

\* An item is in the table once, and only the last one runs.
ItemsInv ==
    /\ \A j, k \in 1..Len(items) : items[j].id = items[k].id => j = k
    /\ \A j \in 1..Len(items) : items[j].id \in begun
    /\ \A j \in 1..Len(items) : ~items[j].done => j = Len(items) /\ items[j].id \in Replies

\* Each goroutine waits for one append at most; text is appended alone, and a
\* new item is the last event of its append.
WellFormed(r) ==
    /\ Len(r.events) \in 1..2
    /\ \A q \in 1..Len(r.events) : r.events[q].kind = "started" => q = Len(r.events)
    /\ \A q \in 1..Len(r.events) : r.events[q].kind = "delta" => r.by = "pump" /\ Len(r.events) = 1

WaitsInv ==
    /\ \A j, k \in 1..Len(appended) : appended[j].by = appended[k].by => j = k
    /\ \A k \in 1..Len(appended) : WellFormed(appended[k])

\* The log tells only of items that were begun.
IdsInv ==
    /\ \A m \in 1..Len(events) : events[m].kind # "head" => events[m].id \in begun
    /\ \A e \in Event : Waits(e) /\ e.kind # "head" => e.id \in begun

\* Text of an item that has ended comes before its end; a running item has no
\* end in the log.
LogInv ==
    \A j \in 1..Len(items) :
        LET delta == Ev("delta", items[j].id)
            completed == Ev("completed", items[j].id)
        IN
        /\ items[j].done => ~Waits(delta)
        /\ items[j].done => \A m \in 1..Len(events) : events[m] = delta =>
               Waits(completed) \/ \E k \in (m + 1)..Len(events) : events[k] = completed
        /\ ~items[j].done => ~Waits(completed) /\ ~In(completed, events)

\* Unless an append was overtaken, no item is told of after one that follows
\* it in the table.
StartsInOrder ==
    ~overtook => \A j, k \in 1..Len(items) : j < k =>
        LET a == Ev("started", items[j].id)
            b == Ev("started", items[k].id)
        IN
        /\ \A m \in 1..Len(events) : events[m] = b => ~Waits(a) /\ \A l \in (m + 1)..Len(events) : events[l] # a
        /\ \A m, l \in 1..Len(appended) : In(b, appended[m].events) /\ In(a, appended[l].events) => l < m

StoreInv == StoreTypes /\ ItemsInv /\ WaitsInv /\ IdsInv /\ LogInv /\ StartsInOrder

LEMMA EvType ==
    ASSUME NEW k \in {"started", "delta", "completed", "head", "rewound"}, NEW i \in ItemID
    PROVE  Ev(k, i) \in Event /\ Ev(k, i).kind = k /\ Ev(k, i).id = i
BY DEF Ev, Event

\* The item with an id, where the ids of the table differ.
LEMMA ItemOfIs ==
    ASSUME ItemsInv, NEW j \in 1..Len(items)
    PROVE  HasItem(items[j].id) /\ ItemOf(items[j].id) = items[j]
<1> DEFINE c == CHOOSE n \in 1..Len(items) : items[n].id = items[j].id
<1>1. c \in 1..Len(items) /\ items[c].id = items[j].id
  OBVIOUS
<1>2. c = j
  BY <1>1 DEF ItemsInv
<1> QED BY <1>2 DEF HasItem, ItemOf

\* The open items are the ones that run: at most the last.
LEMMA OpenIs ==
    ASSUME StoreTypes, ItemsInv
    PROVE  /\ \A i \in Open : \E j \in 1..Len(items) : items[j].id = i /\ ~items[j].done /\ j = Len(items)
           /\ \A j \in 1..Len(items) : ~items[j].done => items[j].id \in Open
           /\ \A i, k \in Open : i = k
<1>1. ASSUME NEW i \in Open
      PROVE  \E j \in 1..Len(items) : items[j].id = i /\ ~items[j].done /\ j = Len(items)
  <2>1. HasItem(i) /\ ~ItemOf(i).done
    BY DEF Open
  <2>2. PICK j \in 1..Len(items) : items[j].id = i
    BY <2>1 DEF HasItem
  <2>3. ItemOf(i) = items[j]
    BY <2>2, ItemOfIs
  <2> QED BY <2>1, <2>2, <2>3 DEF ItemsInv
<1>2. ASSUME NEW j \in 1..Len(items), ~items[j].done
      PROVE  items[j].id \in Open
  BY <1>2, ItemOfIs DEF Open, ItemsInv
<1> QED BY <1>1, <1>2

\* The sequence of a set of at most one element.
LEMMA SmallSetToSeq ==
    ASSUME NEW S, \A x, y \in S : x = y
    PROVE  SetToSeq(S) \in Seq(S) /\ Len(SetToSeq(S)) = IF S = {} THEN 0 ELSE 1
<1> DEFINE n == IF S = {} THEN 0 ELSE 1
<1>1. Cardinality(S) = n
  <2>1. CASE S = {}
    BY <2>1, FS_EmptySet
  <2>2. CASE S # {}
    <3>1. PICK x : S = {x}
      BY <2>2
    <3> QED BY <3>1, <2>2, FS_Singleton
  <2> QED BY <2>1, <2>2
<1>2. \E f \in [1..n -> S] : IsInjective(f)
  <2>1. CASE S = {}
    <3> DEFINE f == [i \in 1..n |-> {}]
    <3>1. 1..n = {}
      BY <2>1
    <3>2. f \in [1..n -> S] /\ IsInjective(f)
      BY <3>1 DEF IsInjective
    <3> QED BY <3>2
  <2>2. CASE S # {}
    <3>1. PICK x : x \in S
      BY <2>2
    <3> DEFINE f == [i \in 1..n |-> x]
    <3>2. f \in [1..n -> S] /\ IsInjective(f)
      BY <2>2, <3>1 DEF IsInjective
    <3> QED BY <3>2
  <2> QED BY <2>1, <2>2
<1> DEFINE c == SetToSeq(S)
<1>3. c \in [1..n -> S]
  BY <1>1, <1>2 DEF SetToSeq
<1>4. n \in Nat
  OBVIOUS
<1> HIDE DEF n, c
<1>5. c \in Seq(S) /\ Len(c) = n
  BY <1>3, <1>4
<1> QED BY <1>5 DEF n, c

----------------------------------------------------------------------------
(***************************************************************************)
(* What an Append does to the table.  An item stays in its row, and a      *)
(* running one may get a chunk or end; at most one is added, as the last;  *)
(* and the events tell of everything that changed.                         *)
(***************************************************************************)
KeptRow(j, evs) ==
    /\ j \in 1..Len(items) /\ items'[j].id = items[j].id
    /\ items[j].done => items'[j] = items[j]
    /\ ~items[j].done /\ items'[j].done => In(Ev("completed", items[j].id), evs)
    /\ ~items'[j].done =>
           j = Len(items') /\ items'[j].n = items[j].n + IF In(Ev("delta", items[j].id), evs) THEN 1 ELSE 0

AddedRow(j, evs) ==
    /\ j = Len(items')
    /\ items'[j].id \notin begun /\ items'[j].id \in begun'
    /\ ~items'[j].done => items'[j].id \in Replies
    /\ In(Ev("started", items'[j].id), evs)

TellsTrue(by, e) ==
    /\ e.kind # "head" => e.id \in begun'
    /\ e.kind = "started" => e.id \notin begun
    /\ e.kind = "completed" => by = "pump" /\ \A j \in 1..Len(items') : items'[j].id = e.id => items'[j].done
    /\ e.kind = "delta" => \A j \in 1..Len(items') : items'[j].id = e.id => ~items'[j].done

Tables == items' \in Seq(ItemRec) /\ begun' \in SUBSET ItemID /\ begun \subseteq begun' /\ head' \in {0, 1}

Appending(by, evs) ==
    /\ by \in {"pump", "request"} /\ evs \in Seq(Event)
    /\ WellFormed([by |-> by, events |-> evs])
    /\ \A k \in 1..Len(appended) : appended[k].by # by
    /\ appended' = Append(appended, [by |-> by, events |-> evs])
    /\ UNCHANGED <<vars, overtook, events, page, conn>>

Told(by, evs) ==
    /\ \A j \in 1..Len(items') : KeptRow(j, evs) \/ AddedRow(j, evs)
    /\ \A q \in 1..Len(evs) : TellsTrue(by, evs[q])
    /\ \A j \in 1..Len(items) :
          (j \in 1..Len(items') /\ items'[j].id = items[j].id) \/ In(Ev("rewound", Note), evs)
    /\ head' = head \/ In(Ev("head", Note), evs)

Grown(by, evs) == Tables /\ Appending(by, evs) /\ Told(by, evs)

\* A sequence of one event, and one of an event behind another.
LEMMA OneEvent ==
    ASSUME NEW e \in Event
    PROVE  /\ <<e>> \in Seq(Event) /\ Len(<<e>>) = 1 /\ <<e>>[1] = e
           /\ \A x : In(x, <<e>>) <=> x = e
<1>1. <<e>> \in Seq(Event) /\ Len(<<e>>) = 1 /\ <<e>>[1] = e
  OBVIOUS
<1>2. \A i \in 1..1 : i = 1
  OBVIOUS
<1> QED BY <1>1, <1>2 DEF In

LEMMA TwoEvents ==
    ASSUME NEW d \in Event, NEW e \in Event
    PROVE  /\ <<d, e>> \in Seq(Event) /\ Len(<<d, e>>) = 2 /\ <<d, e>>[1] = d /\ <<d, e>>[2] = e
           /\ \A x : In(x, <<d, e>>) <=> x = d \/ x = e
<1>1. <<d, e>> \in Seq(Event) /\ Len(<<d, e>>) = 2 /\ <<d, e>>[1] = d /\ <<d, e>>[2] = e
  OBVIOUS
<1>2. /\ \A i \in 1..2 : i = 1 \/ i = 2
      /\ 1 \in 1..2 /\ 2 \in 1..2
  OBVIOUS
<1> QED BY <1>1, <1>2 DEF In

LEMMA CommitsAppends ==
    ASSUME NEW by \in {"pump", "request"}, NEW evs \in Seq(Event), Commits(by, evs),
           WellFormed([by |-> by, events |-> evs])
    PROVE  Appending(by, evs)
BY DEF Commits, Appending

\* What a message that starts says of the one before it.
LEMMA ClosingIs ==
    ASSUME StoreTypes, ItemsInv
    PROVE  /\ Closing \in Seq(Event) /\ Len(Closing) \in 0..1
           /\ \A q \in 1..Len(Closing) : \E j \in 1..Len(items) : Closing[q] = Ev("completed", items[j].id)
           /\ \A j \in 1..Len(items) : ~items[j].done => In(Ev("completed", items[j].id), Closing)
<1> DEFINE S == {Ev("completed", i) : i \in Open}
           c == SetToSeq(S)
<1>1. Closing = c
  BY DEF Closing
<1>2. \A x, y \in S : x = y
  BY OpenIs
<1>3. S \subseteq Event
  <2>1. Open \subseteq ItemID
    BY DEF Open, ItemID
  <2> QED BY <2>1, EvType
<1>4. \A x \in S : \E j \in 1..Len(items) : x = Ev("completed", items[j].id)
  BY OpenIs
<1>5. \A j \in 1..Len(items) : ~items[j].done => Ev("completed", items[j].id) \in S
  BY OpenIs
<1> HIDE DEF S
<1>6. c \in Seq(S) /\ Len(c) = IF S = {} THEN 0 ELSE 1
  BY <1>2, SmallSetToSeq
<1> HIDE DEF c
<1>7. c \in Seq(Event) /\ Len(c) \in 0..1 /\ \A q \in 1..Len(c) : c[q] \in S
  BY <1>3, <1>6
<1>8. ASSUME NEW x \in S PROVE In(x, c)
  <2>1. Len(c) = 1 /\ 1 \in 1..Len(c) /\ c[1] \in S
    BY <1>6, <1>8
  <2> QED BY <1>2, <2>1 DEF In
<1> QED BY <1>1, <1>4, <1>5, <1>7, <1>8

\* An item that has ended, and one with a chunk more.
Ended(r) == [r EXCEPT !.done = TRUE]
Longer(r) == [r EXCEPT !.n = @ + 1]

LEMMA EndedIs ==
    ASSUME NEW r \in ItemRec
    PROVE  /\ Ended(r) \in ItemRec /\ Ended(r).id = r.id /\ Ended(r).n = r.n /\ Ended(r).done
           /\ r.done => Ended(r) = r
BY DEF Ended, ItemRec

LEMMA LongerIs ==
    ASSUME NEW r \in ItemRec
    PROVE  Longer(r) \in ItemRec /\ Longer(r).id = r.id /\ Longer(r).n = r.n + 1 /\ Longer(r).done = r.done
BY DEF Longer, ItemRec

LEMMA StartItemGrows ==
    ASSUME StoreTypes, ItemsInv, NEW i \in Replies, StartItem(i)
    PROVE  \E evs : Grown("pump", evs)
<1> DEFINE e == Ev("started", i)
           evs == Append(Closing, e)
           old == [n \in 1..Len(items) |-> Ended(items[n])]
           new == [id |-> i, n |-> 1, done |-> FALSE]
<1>1. /\ i \notin begun /\ begun' = begun \cup {i} /\ items' = Append(old, new) /\ head' = head
      /\ Commits("pump", evs)
  BY DEF StartItem, Ended
<1>2. items \in Seq(ItemRec) /\ Len(items) \in Nat /\ i \in ItemID /\ begun \in SUBSET ItemID /\ head \in {0, 1}
  BY DEF StoreTypes, ItemID
<1>3. e \in Event /\ e.kind = "started" /\ e.id = i
  BY <1>2, EvType
<1>4. /\ Closing \in Seq(Event) /\ Len(Closing) \in 0..1
      /\ \A q \in 1..Len(Closing) : \E j \in 1..Len(items) : Closing[q] = Ev("completed", items[j].id)
      /\ \A j \in 1..Len(items) : ~items[j].done => In(Ev("completed", items[j].id), Closing)
  BY ClosingIs
<1>5. /\ evs \in Seq(Event) /\ Len(evs) = Len(Closing) + 1
      /\ \A q \in 1..Len(Closing) : evs[q] = Closing[q]
      /\ evs[Len(Closing) + 1] = e
  <2> HIDE DEF e
  <2>1. /\ Append(Closing, e) \in Seq(Event) /\ Len(Append(Closing, e)) = Len(Closing) + 1
        /\ \A q \in 1..Len(Closing) : Append(Closing, e)[q] = Closing[q]
        /\ Append(Closing, e)[Len(Closing) + 1] = e
    BY <1>3, <1>4
  <2> QED BY <2>1
<1>6. \A x : In(x, evs) <=> In(x, Closing) \/ x = e
  <2> HIDE DEF e
  <2> QED BY <1>3, <1>4, InAppend
<1>7. /\ old \in Seq(ItemRec) /\ Len(old) = Len(items)
      /\ \A n \in 1..Len(items) : old[n] = Ended(items[n])
  <2>1. \A n \in 1..Len(items) : items[n] \in ItemRec /\ Ended(items[n]) \in ItemRec
    BY <1>2, EndedIs
  <2> QED BY <1>2, <2>1
<1>8. \A n \in 1..Len(items) : old[n].id = items[n].id /\ old[n].done /\ (items[n].done => old[n] = items[n])
  <2>1. \A n \in 1..Len(items) : items[n] \in ItemRec
    BY <1>2
  <2> HIDE DEF old
  <2> QED BY <2>1, <1>7, EndedIs
<1>9. new \in ItemRec /\ new.id = i /\ ~new.done
  BY <1>2 DEF ItemRec
<1>10. /\ items' \in Seq(ItemRec) /\ Len(items') = Len(items) + 1
       /\ \A n \in 1..Len(items) : items'[n] = old[n]
       /\ items'[Len(items) + 1] = new
  <2> HIDE DEF old, new
  <2> QED BY <1>1, <1>2, <1>7, <1>9
<1>11. Tables
  BY <1>1, <1>2, <1>10 DEF Tables
<1> HIDE DEF old, new, evs
<1>12. ASSUME NEW q \in 1..Len(evs)
       PROVE  \/ q = Len(evs) /\ evs[q] = e
              \/ \E j \in 1..Len(items) : evs[q] = Ev("completed", items[j].id)
  <2>1. q = Len(Closing) + 1 \/ q \in 1..Len(Closing)
    BY <1>4, <1>5
  <2> QED BY <2>1, <1>4, <1>5
<1>13. \A j \in 1..Len(items) : items[j].id \in ItemID /\ items[j].id \in begun
  BY <1>2 DEF ItemsInv
<1>14. Appending("pump", evs)
  <2>1. \A q \in 1..Len(evs) : /\ evs[q].kind = "started" => q = Len(evs)
                               /\ evs[q].kind # "delta"
    BY <1>3, <1>12, <1>13, EvType
  <2>2. Len(evs) \in 1..2
    BY <1>4, <1>5
  <2>3. WellFormed([by |-> "pump", events |-> evs])
    BY <2>1, <2>2 DEF WellFormed
  <2> QED BY <1>1, <1>5, <2>3, CommitsAppends DEF evs
<1>15. ASSUME NEW j \in 1..Len(items') PROVE KeptRow(j, evs) \/ AddedRow(j, evs)
  <2>1. CASE j = Len(items) + 1
    <3>1. items'[j].id = i /\ j = Len(items')
      BY <1>9, <1>10, <2>1
    <3>2. In(e, evs)
      BY <1>6
    <3> QED BY <1>1, <3>1, <3>2 DEF AddedRow
  <2>2. CASE j # Len(items) + 1
    <3>1. j \in 1..Len(items)
      BY <1>2, <1>10, <2>2
    <3>2. items'[j].id = items[j].id /\ items'[j].done /\ (items[j].done => items'[j] = items[j])
      BY <1>8, <1>10, <3>1
    <3> QED BY <1>4, <1>6, <3>1, <3>2 DEF KeptRow
  <2> QED BY <2>1, <2>2
<1>16. ASSUME NEW q \in 1..Len(evs) PROVE TellsTrue("pump", evs[q])
  <2>1. CASE evs[q] = e
    BY <1>1, <1>3, <2>1 DEF TellsTrue
  <2>2. ASSUME NEW j \in 1..Len(items), evs[q] = Ev("completed", items[j].id) PROVE TellsTrue("pump", evs[q])
    <3>1. evs[q].kind = "completed" /\ evs[q].id = items[j].id /\ items[j].id \in begun
      BY <1>13, <2>2, EvType
    <3>2. \A k \in 1..Len(items') : items'[k].id = items[j].id => items'[k].done
      <4> SUFFICES ASSUME NEW k \in 1..Len(items'), items'[k].id = items[j].id PROVE items'[k].done
        OBVIOUS
      <4>1. k # Len(items) + 1
        BY <1>1, <1>9, <1>10, <1>13
      <4>2. k \in 1..Len(items)
        BY <1>2, <1>10, <4>1
      <4> QED BY <1>8, <1>10, <4>2
    <3> QED BY <1>1, <3>1, <3>2 DEF TellsTrue
  <2> QED BY <1>12, <2>1, <2>2
<1>17. ASSUME NEW j \in 1..Len(items) PROVE j \in 1..Len(items') /\ items'[j].id = items[j].id
  BY <1>2, <1>8, <1>10
<1>18. Told("pump", evs)
  BY <1>1, <1>15, <1>16, <1>17 DEF Told
<1> QED BY <1>11, <1>14, <1>18 DEF Grown

\* A step that changes only the row of one running item.
LEMMA OneRowGrows ==
    ASSUME StoreTypes, ItemsInv, NEW i \in Replies, NEW k \in 1..Len(items), items[k].id = i, ~items[k].done,
           NEW kind \in {"delta", "completed"}, NEW r \in ItemRec, r.id = i,
           kind = "delta" => ~r.done /\ r.n = items[k].n + 1,
           kind = "completed" => r.done,
           items' = [n \in 1..Len(items) |-> IF items[n].id = i THEN r ELSE items[n]],
           UNCHANGED <<begun, head>>, Commits("pump", <<Ev(kind, i)>>)
    PROVE  Grown("pump", <<Ev(kind, i)>>)
<1> DEFINE e == Ev(kind, i)
           evs == <<e>>
<1>1. items \in Seq(ItemRec) /\ Len(items) \in Nat /\ i \in ItemID /\ begun \in SUBSET ItemID /\ head \in {0, 1}
  BY DEF StoreTypes, ItemID
<1>2. e \in Event /\ e.kind = kind /\ e.id = i
  BY <1>1, EvType
<1>3. evs \in Seq(Event) /\ Len(evs) = 1 /\ evs[1] = e /\ \A x : In(x, evs) <=> x = e
  BY <1>2, OneEvent
<1> HIDE DEF evs
<1>4. \A n \in 1..Len(items) : (items[n].id = i) <=> n = k
  BY DEF ItemsInv
<1>5. /\ items' \in Seq(ItemRec) /\ Len(items') = Len(items)
      /\ \A n \in 1..Len(items) : items'[n] = IF n = k THEN r ELSE items[n]
  <2>1. \A n \in 1..Len(items) : (IF items[n].id = i THEN r ELSE items[n]) \in ItemRec
    BY <1>1
  <2>2. items' \in Seq(ItemRec) /\ Len(items') = Len(items)
    BY <1>1, <2>1
  <2> QED BY <1>4, <2>2
<1>6. Tables
  BY <1>1, <1>5 DEF Tables
<1>7. Appending("pump", evs)
  <2>1. WellFormed([by |-> "pump", events |-> evs])
    <3>1. \A q \in 1..Len(evs) : evs[q].kind # "started" /\ Len(evs) = 1
      BY <1>2, <1>3
    <3>2. Len(evs) \in 1..2
      BY <1>3
    <3> QED BY <3>1, <3>2 DEF WellFormed
  <2> QED BY <1>3, <2>1, CommitsAppends DEF evs
<1>8. ASSUME NEW j \in 1..Len(items') PROVE KeptRow(j, evs)
  <2>1. CASE j = k
    <3>1. kind = "completed" => e = Ev("completed", items[j].id)
      BY <2>1
    <3>2. kind = "delta" => e = Ev("delta", items[j].id)
      BY <2>1
    <3>3. j = Len(items') /\ j \in 1..Len(items) /\ items'[j] = r /\ items[j].n \in Nat
      <4>1. items[j] \in ItemRec
        BY <1>1, <1>5
      <4> QED BY <1>5, <2>1, <4>1 DEF ItemsInv, ItemRec
    <3>4. CASE kind = "delta"
      <4>1. In(Ev("delta", items[j].id), evs)
        BY <1>3, <3>2, <3>4
      <4> QED BY <2>1, <3>3, <3>4, <4>1 DEF KeptRow
    <3>5. CASE kind = "completed"
      <4>1. In(Ev("completed", items[j].id), evs)
        BY <1>3, <3>1, <3>5
      <4> QED BY <2>1, <3>3, <3>5, <4>1 DEF KeptRow
    <3> QED BY <3>4, <3>5
  <2>2. CASE j # k
    <3>1. items'[j] = items[j] /\ j \in 1..Len(items) /\ items[j].done
      BY <1>5, <2>2 DEF ItemsInv
    <3> QED BY <3>1 DEF KeptRow
  <2> QED BY <2>1, <2>2
<1>9. ASSUME NEW q \in 1..Len(evs) PROVE TellsTrue("pump", evs[q])
  <2>1. evs[q] = e
    BY <1>3
  <2>2. \A j \in 1..Len(items') : items'[j].id = i => j = k /\ items'[j] = r
    BY <1>4, <1>5
  <2>3. i \in begun'
    BY DEF ItemsInv
  <2> QED BY <1>2, <2>1, <2>2, <2>3 DEF TellsTrue
<1>10. ASSUME NEW j \in 1..Len(items) PROVE j \in 1..Len(items') /\ items'[j].id = items[j].id
  BY <1>5
<1>11. Told("pump", evs)
  BY <1>8, <1>9, <1>10 DEF Told
<1> QED BY <1>6, <1>7, <1>11 DEF Grown, evs

LEMMA DeltaGrows ==
    ASSUME StoreTypes, ItemsInv, NEW i \in Replies, Delta(i)
    PROVE  \E evs : Grown("pump", evs)
<1>1. PICK k \in 1..Len(items) : items[k].id = i /\ ~items[k].done
  BY OpenIs DEF Delta
<1>2. items[k] \in ItemRec
  BY DEF StoreTypes
<1>3. Longer(items[k]) \in ItemRec /\ Longer(items[k]).id = i /\ Longer(items[k]).n = items[k].n + 1 /\ ~Longer(items[k]).done
  BY <1>1, <1>2, LongerIs
<1>4. items' = [n \in 1..Len(items) |-> IF items[n].id = i THEN Longer(items[n]) ELSE items[n]]
  BY DEF Delta, Longer
<1>5. \A n \in 1..Len(items) : items[n].id = i => n = k
  BY <1>1 DEF ItemsInv
<1>6. items' = [n \in 1..Len(items) |-> IF items[n].id = i THEN Longer(items[k]) ELSE items[n]]
  BY <1>4, <1>5
<1>7. UNCHANGED <<begun, head>> /\ Commits("pump", <<Ev("delta", i)>>)
  BY DEF Delta
<1> HIDE DEF Longer
<1> QED BY <1>1, <1>3, <1>6, <1>7, OneRowGrows

LEMMA CompleteItemGrows ==
    ASSUME StoreTypes, ItemsInv, NEW i \in Replies, CompleteItem(i)
    PROVE  \E evs : Grown("pump", evs)
<1>1. PICK k \in 1..Len(items) : items[k].id = i /\ ~items[k].done
  BY OpenIs DEF CompleteItem
<1>2. items[k] \in ItemRec
  BY DEF StoreTypes
<1>3. Ended(items[k]) \in ItemRec /\ Ended(items[k]).id = i /\ Ended(items[k]).done
  BY <1>1, <1>2, EndedIs
<1>4. items' = [n \in 1..Len(items) |-> IF items[n].id = i THEN Ended(items[n]) ELSE items[n]]
  BY DEF CompleteItem, Completed, Ended
<1>5. \A n \in 1..Len(items) : items[n].id = i => n = k
  BY <1>1 DEF ItemsInv
<1>6. items' = [n \in 1..Len(items) |-> IF items[n].id = i THEN Ended(items[k]) ELSE items[n]]
  BY <1>4, <1>5
<1>7. UNCHANGED <<begun, head>> /\ Commits("pump", <<Ev("completed", i)>>)
  BY DEF CompleteItem
<1> QED BY <1>1, <1>3, <1>6, <1>7, OneRowGrows

LEMMA ChangeHeadGrows ==
    ASSUME StoreTypes, ItemsInv, ChangeHead
    PROVE  \E evs : Grown("request", evs)
<1> DEFINE e == Ev("head", Note)
           evs == <<e>>
<1>1. items \in Seq(ItemRec) /\ Len(items) \in Nat /\ Note \in ItemID /\ begun \in SUBSET ItemID /\ head \in {0, 1}
  BY DEF StoreTypes, ItemID
<1>2. e \in Event /\ e.kind = "head"
  BY <1>1, EvType
<1>3. evs \in Seq(Event) /\ Len(evs) = 1 /\ evs[1] = e /\ \A x : In(x, evs) <=> x = e
  BY <1>2, OneEvent
<1> HIDE DEF evs
<1>4. UNCHANGED <<items, begun>> /\ head' \in {0, 1} /\ Commits("request", evs)
  BY <1>1 DEF ChangeHead, evs
<1>5. Tables
  BY <1>1, <1>4 DEF Tables
<1>6. \A q \in 1..Len(evs) : q = 1 /\ evs[q] = e
  BY <1>3
<1>7. Appending("request", evs)
  <2>1. WellFormed([by |-> "request", events |-> evs])
    <3>1. \A q \in 1..Len(evs) : evs[q].kind # "started" /\ evs[q].kind # "delta"
      BY <1>2, <1>6
    <3>2. Len(evs) \in 1..2
      BY <1>3
    <3> QED BY <3>1, <3>2 DEF WellFormed
  <2> QED BY <1>3, <1>4, <2>1, CommitsAppends
<1>8. ASSUME NEW j \in 1..Len(items') PROVE KeptRow(j, evs)
  <2>1. items[j] \in ItemRec /\ items[j].id \in ItemID /\ items[j].n \in Nat
    <3>1. items[j] \in ItemRec
      BY <1>1, <1>4
    <3> QED BY <3>1 DEF ItemRec
  <2>2. Ev("delta", items[j].id).kind = "delta"
    BY <2>1, EvType
  <2>3. ~In(Ev("delta", items[j].id), evs)
    BY <1>2, <1>3, <2>2
  <2> QED BY <1>4, <2>1, <2>3 DEF KeptRow, ItemsInv
<1>9. Told("request", evs)
  BY <1>2, <1>3, <1>4, <1>6, <1>8 DEF Told, TellsTrue
<1> QED BY <1>5, <1>7, <1>9 DEF Grown

LEMMA RewindGrows ==
    ASSUME StoreTypes, ItemsInv, NEW n \in 0..Len(items), Rewind(n)
    PROVE  \E evs : Grown("request", evs)
<1> DEFINE d == Ev("rewound", Note)
           e == Ev("started", Note)
           evs == <<d, e>>
           old == SubSeq(items, 1, n)
           new == [id |-> Note, n |-> 1, done |-> TRUE]
<1>1. items \in Seq(ItemRec) /\ Len(items) \in Nat /\ Note \in ItemID /\ begun \in SUBSET ItemID /\ head \in {0, 1}
  BY DEF StoreTypes, ItemID
<1>2. d \in Event /\ e \in Event /\ d.kind = "rewound" /\ e.kind = "started" /\ d.id = Note /\ e.id = Note
  BY <1>1, EvType
<1>3. /\ evs \in Seq(Event) /\ Len(evs) = 2 /\ evs[1] = d /\ evs[2] = e
      /\ \A x : In(x, evs) <=> x = d \/ x = e
  BY <1>2, TwoEvents
<1> HIDE DEF evs
<1>4. /\ Note \notin begun /\ begun' = begun \cup {Note} /\ items' = Append(old, new) /\ head' = head
      /\ n < Len(items) /\ Commits("request", evs)
  BY DEF Rewind, evs
<1>5. old \in Seq(ItemRec) /\ Len(old) = n /\ \A j \in 1..n : old[j] = items[j]
  BY <1>1
<1>6. new \in ItemRec /\ new.id = Note /\ new.done
  BY <1>1 DEF ItemRec
<1>7. /\ items' \in Seq(ItemRec) /\ Len(items') = n + 1
      /\ \A j \in 1..n : items'[j] = items[j]
      /\ items'[n + 1] = new
  <2> HIDE DEF old, new
  <2> QED BY <1>4, <1>5, <1>6
<1> HIDE DEF old, new
<1>8. Tables
  BY <1>1, <1>4, <1>7 DEF Tables
<1>9. \A q \in 1..Len(evs) : (q = 1 /\ evs[q] = d) \/ (q = 2 /\ evs[q] = e)
  BY <1>3
<1>10. Appending("request", evs)
  <2>1. WellFormed([by |-> "request", events |-> evs])
    <3>1. \A q \in 1..Len(evs) : (evs[q].kind = "started" => q = Len(evs)) /\ evs[q].kind # "delta"
      BY <1>2, <1>3, <1>9
    <3>2. Len(evs) \in 1..2
      BY <1>3
    <3> QED BY <3>1, <3>2 DEF WellFormed
  <2> QED BY <1>3, <1>4, <2>1, CommitsAppends
<1>11. ASSUME NEW j \in 1..Len(items') PROVE KeptRow(j, evs) \/ AddedRow(j, evs)
  <2>1. CASE j = n + 1
    BY <1>3, <1>4, <1>6, <1>7, <2>1 DEF AddedRow
  <2>2. CASE j # n + 1
    <3>1. j \in 1..n /\ j \in 1..Len(items) /\ j # Len(items)
      BY <1>1, <1>4, <1>7, <2>2
    <3>2. items'[j] = items[j] /\ items[j].done
      BY <1>7, <3>1 DEF ItemsInv
    <3> QED BY <3>1, <3>2 DEF KeptRow
  <2> QED BY <2>1, <2>2
<1>12. \A q \in 1..Len(evs) : TellsTrue("request", evs[q])
  BY <1>2, <1>4, <1>9 DEF TellsTrue
<1>13. Told("request", evs)
  BY <1>3, <1>4, <1>11, <1>12 DEF Told
<1> QED BY <1>8, <1>10, <1>13 DEF Grown

\* Every step of the store but Published commits such an append.
LEMMA CommitGrows ==
    ASSUME StoreTypes, ItemsInv, Appends
    PROVE  \/ \E by \in {"pump", "request"} : \E evs : Grown(by, evs)
           \/ \E n \in 1..Len(appended) : PublishAppended(n)
BY StartItemGrows, DeltaGrows, CompleteItemGrows, ChangeHeadGrows, RewindGrows DEF Appends

----------------------------------------------------------------------------
\* What waits after an append, and after an append was published.
WillWait(e) == \E k \in 1..Len(appended') : In(e, appended'[k].events)

LEMMA AppendedIs ==
    ASSUME StoreTypes, NEW by, NEW evs, Appending(by, evs)
    PROVE  /\ appended' \in Seq(AppendRec) /\ Len(appended') = Len(appended) + 1 /\ Len(appended) \in Nat
           /\ \A k \in 1..Len(appended) : appended'[k] = appended[k]
           /\ appended'[Len(appended) + 1].by = by /\ appended'[Len(appended) + 1].events = evs
           /\ \A e : WillWait(e) <=> Waits(e) \/ In(e, evs)
<1> DEFINE r == [by |-> by, events |-> evs]
<1>1. appended \in Seq(AppendRec) /\ r \in AppendRec /\ appended' = Append(appended, r)
  BY DEF StoreTypes, Appending, AppendRec
<1>2. r.by = by /\ r.events = evs
  OBVIOUS
<1> HIDE DEF r
<1>3. /\ appended' \in Seq(AppendRec) /\ Len(appended') = Len(appended) + 1 /\ Len(appended) \in Nat
      /\ \A k \in 1..Len(appended) : appended'[k] = appended[k]
      /\ appended'[Len(appended) + 1] = r
  BY <1>1
<1>4. ASSUME NEW e PROVE WillWait(e) <=> Waits(e) \/ In(e, evs)
  <2>1. \A k \in 1..(Len(appended) + 1) : k \in 1..Len(appended) \/ k = Len(appended) + 1
    BY <1>3
  <2>2. \A k \in 1..Len(appended) : k \in 1..(Len(appended) + 1)
    BY <1>3
  <2>3. Len(appended) + 1 \in 1..(Len(appended) + 1)
    BY <1>3
  <2> QED BY <1>2, <1>3, <2>1, <2>2, <2>3 DEF Waits, WillWait
<1> QED BY <1>2, <1>3, <1>4

LEMMA RemoveAtAt ==
    ASSUME NEW T, NEW q \in Seq(T), NEW i \in 1..Len(q)
    PROVE  /\ RemoveAt(q, i) \in Seq(T)
           /\ Len(RemoveAt(q, i)) = Len(q) - 1
           /\ \A j \in 1..(Len(q) - 1) : j < i => RemoveAt(q, i)[j] = q[j]
           /\ \A j \in 1..(Len(q) - 1) : j >= i => RemoveAt(q, i)[j] = q[j + 1]
<1> DEFINE a == SubSeq(q, 1, i - 1)
           b == SubSeq(q, i + 1, Len(q))
<1>1. /\ a \in Seq(T) /\ Len(a) = i - 1 /\ \A j \in 1..(i - 1) : a[j] = q[j]
      /\ Len(q) \in Nat /\ i \in Nat /\ i >= 1 /\ i <= Len(q)
  OBVIOUS
<1>2. b \in Seq(T) /\ Len(b) = Len(q) - i /\ \A j \in 1..(Len(q) - i) : b[j] = q[i + j]
  OBVIOUS
<1>3. RemoveAt(q, i) = a \o b
  BY DEF RemoveAt
<1> HIDE DEF a, b
<1>4. /\ a \o b \in Seq(T) /\ Len(a \o b) = Len(a) + Len(b)
      /\ \A j \in 1..Len(a) : (a \o b)[j] = a[j]
      /\ \A j \in 1..Len(b) : (a \o b)[Len(a) + j] = b[j]
  <2>1. a \in Seq(T) /\ b \in Seq(T)
    BY <1>1, <1>2
  <2> QED BY <2>1
<1>5. ASSUME NEW j \in 1..(Len(q) - 1), j < i PROVE (a \o b)[j] = q[j]
  <2>1. j \in 1..(i - 1) /\ j \in 1..Len(a)
    BY <1>1, <1>5
  <2> QED BY <2>1, <1>1, <1>4
<1>6. ASSUME NEW j \in 1..(Len(q) - 1), j >= i PROVE (a \o b)[j] = q[j + 1]
  <2>1. j - Len(a) \in 1..Len(b) /\ Len(a) + (j - Len(a)) = j /\ i + (j - Len(a)) = j + 1 /\ j - Len(a) \in 1..(Len(q) - i)
    BY <1>1, <1>2, <1>6
  <2> QED BY <2>1, <1>2, <1>4
<1>7. Len(a) + Len(b) = Len(q) - 1
  BY <1>1, <1>2
<1> QED BY <1>3, <1>4, <1>5, <1>6, <1>7

LEMMA PublishedIs ==
    ASSUME StoreTypes, NEW n \in 1..Len(appended), PublishAppended(n)
    PROVE  LET evs == appended[n].events IN
           /\ evs \in Seq(Event) /\ Len(evs) \in Nat
           /\ events' \in Seq(Event) /\ Len(events') = Len(events) + Len(evs) /\ published' = published + Len(evs)
           /\ Len(events) \in Nat
           /\ \A m \in 1..Len(events) : events'[m] = events[m]
           /\ \A q \in 1..Len(evs) : events'[Len(events) + q] = evs[q]
           /\ appended' \in Seq(AppendRec) /\ Len(appended') = Len(appended) - 1 /\ Len(appended) \in Nat
           /\ \A k \in 1..Len(appended') : appended'[k] = appended[IF k < n THEN k ELSE k + 1]
           /\ \A e : Waits(e) <=> WillWait(e) \/ In(e, evs)
           /\ UNCHANGED <<items, begun, head, page, conn>>
           /\ ~overtook' => ~overtook /\ n = 1
<1> DEFINE evs == appended[n].events
<1>1. appended \in Seq(AppendRec) /\ events \in Seq(Event) /\ appended[n] \in AppendRec /\ overtook \in BOOLEAN
  BY DEF StoreTypes
<1>2. evs \in Seq(Event)
  BY <1>1 DEF AppendRec
<1>3. /\ published' = published + Len(evs) /\ events' = events \o evs /\ appended' = RemoveAt(appended, n)
      /\ overtook' = (overtook \/ n # 1) /\ UNCHANGED <<items, begun, head, page, conn>>
  BY DEF PublishAppended, Publish
<1>4. /\ evs \in Seq(Event) /\ Len(evs) \in Nat
      /\ events' \in Seq(Event) /\ Len(events') = Len(events) + Len(evs)
      /\ Len(events) \in Nat
      /\ \A m \in 1..Len(events) : events'[m] = events[m]
      /\ \A q \in 1..Len(evs) : events'[Len(events) + q] = evs[q]
  <2> HIDE DEF evs
  <2> QED BY <1>1, <1>2, <1>3
<1>5. /\ appended' \in Seq(AppendRec) /\ Len(appended') = Len(appended) - 1 /\ Len(appended) \in Nat /\ n \in Nat
      /\ \A k \in 1..(Len(appended) - 1) : k < n => appended'[k] = appended[k]
      /\ \A k \in 1..(Len(appended) - 1) : k >= n => appended'[k] = appended[k + 1]
  <2>1. /\ RemoveAt(appended, n) \in Seq(AppendRec) /\ Len(RemoveAt(appended, n)) = Len(appended) - 1
        /\ \A j \in 1..(Len(appended) - 1) : j < n => RemoveAt(appended, n)[j] = appended[j]
        /\ \A j \in 1..(Len(appended) - 1) : j >= n => RemoveAt(appended, n)[j] = appended[j + 1]
    BY <1>1, RemoveAtAt
  <2> QED BY <1>1, <1>3, <2>1
<1>6. \A k \in 1..Len(appended') : appended'[k] = appended[IF k < n THEN k ELSE k + 1]
  BY <1>5
<1>7. ASSUME NEW e PROVE Waits(e) <=> WillWait(e) \/ In(e, evs)
  <2>2. ASSUME NEW k \in 1..Len(appended), In(e, appended[k].events) PROVE WillWait(e) \/ In(e, evs)
    <3>1. CASE k < n
      <4>1. k \in 1..Len(appended') /\ appended'[k] = appended[k]
        BY <1>5, <3>1
      <4> QED BY <2>2, <4>1 DEF WillWait
    <3>2. CASE k > n
      <4>1. k - 1 \in 1..Len(appended') /\ k - 1 >= n /\ (k - 1) + 1 = k
        BY <1>5, <3>2
      <4>2. appended'[k - 1] = appended[k]
        BY <1>5, <4>1
      <4> QED BY <2>2, <4>1, <4>2 DEF WillWait
    <3>3. CASE k = n
      BY <2>2, <3>3
    <3> QED BY <1>5, <3>1, <3>2, <3>3
  <2>3. ASSUME NEW k \in 1..Len(appended'), In(e, appended'[k].events) PROVE Waits(e)
    <3>1. (IF k < n THEN k ELSE k + 1) \in 1..Len(appended)
      BY <1>5
    <3> QED BY <1>6, <2>3, <3>1 DEF Waits
  <2> QED BY <2>2, <2>3 DEF Waits, WillWait
<1>8. ~overtook' => ~overtook /\ n = 1
  BY <1>1, <1>3
<1> QED BY <1>3, <1>4, <1>5, <1>6, <1>7, <1>8

----------------------------------------------------------------------------
(***************************************************************************)
(* An append keeps the invariant of the store.                             *)
(***************************************************************************)
\* A row of the new table that was there is where it was.
LEMMA RowsOld ==
    ASSUME StoreTypes, ItemsInv, NEW by, NEW evs, Grown(by, evs), NEW j \in 1..Len(items')
    PROVE  /\ items'[j].id \in begun' /\ items'[j].id \in ItemID
           /\ items'[j].id \in begun => j \in 1..Len(items) /\ items'[j].id = items[j].id /\ KeptRow(j, evs)
           /\ items'[j].id \notin begun => j = Len(items') /\ AddedRow(j, evs)
<1>1. KeptRow(j, evs) \/ AddedRow(j, evs)
  BY DEF Grown, Told
<1>2. items'[j] \in ItemRec
  BY DEF Grown, Tables
<1>3. items'[j].id \in ItemID
  BY <1>2 DEF ItemRec
<1>4. CASE KeptRow(j, evs)
  <2>1. j \in 1..Len(items) /\ items'[j].id = items[j].id
    BY <1>4 DEF KeptRow
  <2>2. items[j].id \in begun /\ begun \subseteq begun'
    BY <2>1 DEF ItemsInv, Grown, Tables
  <2> QED BY <1>3, <1>4, <2>1, <2>2
<1>5. CASE AddedRow(j, evs)
  <2>1. j = Len(items') /\ items'[j].id \notin begun /\ items'[j].id \in begun'
    BY <1>5 DEF AddedRow
  <2> QED BY <1>3, <1>5, <2>1
<1> QED BY <1>1, <1>4, <1>5

LEMMA GrownKeepsItems ==
    ASSUME StoreTypes, ItemsInv, NEW by, NEW evs, Grown(by, evs)
    PROVE  ItemsInv'
<1>1. ASSUME NEW j \in 1..Len(items'), NEW k \in 1..Len(items'), items'[j].id = items'[k].id PROVE j = k
  BY <1>1, RowsOld DEF ItemsInv
<1>2. ASSUME NEW j \in 1..Len(items'), ~items'[j].done PROVE j = Len(items') /\ items'[j].id \in Replies
  <2>1. CASE items'[j].id \in begun
    <3>1. KeptRow(j, evs)
      BY <2>1, RowsOld
    <3>2. j \in 1..Len(items) /\ ~items[j].done /\ j = Len(items') /\ items'[j].id = items[j].id
      BY <1>2, <3>1 DEF KeptRow
    <3> QED BY <3>2 DEF ItemsInv
  <2>2. CASE items'[j].id \notin begun
    <3>1. AddedRow(j, evs)
      BY <2>2, RowsOld
    <3> QED BY <1>2, <3>1 DEF AddedRow
  <2> QED BY <2>1, <2>2
<1> QED BY <1>1, <1>2, RowsOld DEF ItemsInv

LEMMA GrownKeepsWaits ==
    ASSUME StoreTypes, WaitsInv, NEW by, NEW evs, Appending(by, evs)
    PROVE  WaitsInv'
<1> DEFINE N == Len(appended)
<1>1. /\ Len(appended') = N + 1 /\ N \in Nat
      /\ \A k \in 1..N : appended'[k] = appended[k]
      /\ appended'[N + 1].by = by /\ appended'[N + 1].events = evs
  BY AppendedIs
<1>2. \A k \in 1..(N + 1) : k \in 1..N \/ k = N + 1
  BY <1>1
<1>3. \A k \in 1..N : appended[k].by # by
  BY DEF Appending
<1> HIDE DEF N
<1>4. \A j, k \in 1..Len(appended') : appended'[j].by = appended'[k].by => j = k
  <2>1. \A j, k \in 1..N : appended[j].by = appended[k].by => j = k
    BY DEF WaitsInv, N
  <2> QED BY <1>1, <1>2, <1>3, <2>1
<1>5. ASSUME NEW k \in 1..Len(appended') PROVE WellFormed(appended'[k])
  <2>1. CASE k = N + 1
    <3>1. WellFormed([by |-> by, events |-> evs])
      BY DEF Appending
    <3> QED BY <1>1, <2>1, <3>1 DEF WellFormed
  <2>2. CASE k \in 1..N
    BY <1>1, <2>2 DEF WaitsInv, N
  <2> QED BY <1>1, <1>2, <2>1, <2>2
<1> QED BY <1>4, <1>5 DEF WaitsInv, WellFormed

LEMMA GrownKeepsIds ==
    ASSUME StoreTypes, IdsInv, NEW by, NEW evs, Grown(by, evs)
    PROVE  IdsInv'
<1>1. Appending(by, evs) /\ begun \subseteq begun' /\ \A q \in 1..Len(evs) : TellsTrue(by, evs[q])
  BY DEF Grown, Tables, Told
<1>2. events' = events
  BY <1>1 DEF Appending
<1>3. \A e : WillWait(e) <=> Waits(e) \/ In(e, evs)
  BY <1>1, AppendedIs
<1>4. \A e : In(e, evs) /\ e.kind # "head" => e.id \in begun'
  BY <1>1 DEF In, TellsTrue
<1>5. \A e \in Event : WillWait(e) /\ e.kind # "head" => e.id \in begun'
  BY <1>1, <1>3, <1>4 DEF IdsInv
<1> QED BY <1>1, <1>2, <1>5 DEF IdsInv, Waits, WillWait

LEMMA GrownKeepsLog ==
    ASSUME StoreInv, NEW by, NEW evs, Grown(by, evs)
    PROVE  LogInv'
<1>0. StoreTypes /\ ItemsInv /\ WaitsInv /\ IdsInv /\ LogInv
  BY DEF StoreInv
<1>1. Appending(by, evs) /\ \A q \in 1..Len(evs) : TellsTrue(by, evs[q])
  BY DEF Grown, Told
<1>2. events' = events
  BY <1>1 DEF Appending
<1>3. \A e : WillWait(e) <=> Waits(e) \/ In(e, evs)
  BY <1>0, <1>1, AppendedIs
<1> SUFFICES ASSUME NEW j \in 1..Len(items')
             PROVE  LET delta == Ev("delta", items'[j].id)
                        completed == Ev("completed", items'[j].id)
                    IN
                    /\ items'[j].done => ~WillWait(delta)
                    /\ items'[j].done => \A m \in 1..Len(events) : events[m] = delta =>
                           WillWait(completed) \/ \E k \in (m + 1)..Len(events) : events[k] = completed
                    /\ ~items'[j].done => ~WillWait(completed) /\ ~In(completed, events)
  BY <1>2 DEF LogInv, Waits, WillWait, In
<1> DEFINE i == items'[j].id
           delta == Ev("delta", i)
           completed == Ev("completed", i)
<1>4. i \in ItemID /\ i \in begun'
  BY <1>0, RowsOld
<1>5. /\ delta \in Event /\ delta.kind = "delta" /\ delta.id = i
      /\ completed \in Event /\ completed.kind = "completed" /\ completed.id = i
  BY <1>4, EvType
<1> HIDE DEF delta, completed
<1>6. In(delta, evs) => ~items'[j].done
  BY <1>1, <1>5 DEF In, TellsTrue
<1>7. In(completed, evs) => items'[j].done /\ by = "pump"
  BY <1>1, <1>5 DEF In, TellsTrue
<1>8. CASE i \in begun
  <2>1. j \in 1..Len(items) /\ i = items[j].id /\ KeptRow(j, evs)
    BY <1>0, <1>8, RowsOld
  <2>2. CASE items[j].done
    <3>1. items'[j].done
      BY <2>1, <2>2 DEF KeptRow
    <3>2. /\ ~Waits(delta)
          /\ \A m \in 1..Len(events) : events[m] = delta =>
                 Waits(completed) \/ \E k \in (m + 1)..Len(events) : events[k] = completed
      BY <1>0, <2>1, <2>2 DEF LogInv, delta, completed
    <3> QED BY <1>3, <1>6, <3>1, <3>2 DEF delta, completed
  <2>3. CASE ~items[j].done /\ items'[j].done
    <3>1. In(completed, evs)
      BY <2>1, <2>3 DEF KeptRow, completed
    <3>2. ~Waits(delta)
      <4> SUFFICES ASSUME NEW k \in 1..Len(appended), In(delta, appended[k].events) PROVE FALSE
        BY DEF Waits
      <4>1. appended[k].by = "pump"
        BY <1>0, <1>5 DEF WaitsInv, WellFormed, In
      <4> QED BY <1>1, <1>7, <3>1, <4>1 DEF Appending
    <3> QED BY <1>3, <1>6, <2>3, <3>1, <3>2 DEF delta, completed
  <2>4. CASE ~items'[j].done
    <3>1. ~items[j].done
      BY <2>1, <2>4 DEF KeptRow
    <3>2. ~Waits(completed) /\ ~In(completed, events)
      BY <1>0, <2>1, <3>1 DEF LogInv, completed
    <3> QED BY <1>3, <1>7, <2>4, <3>2 DEF delta, completed
  <2> QED BY <2>2, <2>3, <2>4
<1>9. CASE i \notin begun
  <2>1. ~Waits(delta) /\ ~Waits(completed)
    BY <1>0, <1>5, <1>9 DEF IdsInv
  <2>2. \A m \in 1..Len(events) : events[m] # delta /\ events[m] # completed
    BY <1>0, <1>5, <1>9 DEF IdsInv
  <2>3. ~In(completed, events)
    BY <2>2 DEF In
  <2> QED BY <1>3, <1>6, <1>7, <2>1, <2>2, <2>3 DEF delta, completed
<1> QED BY <1>8, <1>9

LEMMA GrownKeepsOrder ==
    ASSUME StoreInv, NEW by, NEW evs, Grown(by, evs)
    PROVE  StartsInOrder'
<1>0. StoreTypes /\ ItemsInv /\ WaitsInv /\ IdsInv /\ StartsInOrder
  BY DEF StoreInv
<1>1. Appending(by, evs) /\ \A q \in 1..Len(evs) : TellsTrue(by, evs[q])
  BY DEF Grown, Told
<1>2. events' = events /\ overtook' = overtook
  BY <1>1 DEF Appending
<1> DEFINE N == Len(appended)
<1>3. /\ Len(appended') = N + 1 /\ N \in Nat
      /\ \A k \in 1..N : appended'[k] = appended[k]
      /\ appended'[N + 1].events = evs
      /\ \A e : WillWait(e) <=> Waits(e) \/ In(e, evs)
  BY <1>0, <1>1, AppendedIs
<1> SUFFICES ASSUME ~overtook, NEW j \in 1..Len(items'), NEW k \in 1..Len(items'), j < k
             PROVE  LET a == Ev("started", items'[j].id)
                        b == Ev("started", items'[k].id)
                    IN
                    /\ \A m \in 1..Len(events) : events[m] = b =>
                           ~WillWait(a) /\ \A l \in (m + 1)..Len(events) : events[l] # a
                    /\ \A m, l \in 1..Len(appended') :
                           In(b, appended'[m].events) /\ In(a, appended'[l].events) => l < m
  BY <1>2 DEF StartsInOrder, Waits, WillWait, In
<1> DEFINE a == Ev("started", items'[j].id)
           b == Ev("started", items'[k].id)
<1>4. /\ items'[j].id \in ItemID /\ items'[k].id \in ItemID
      /\ a \in Event /\ a.kind = "started" /\ a.id = items'[j].id
      /\ b \in Event /\ b.kind = "started" /\ b.id = items'[k].id
  BY <1>0, RowsOld, EvType
<1>5. j \in 1..Len(items) /\ items'[j].id \in begun /\ items[j].id = items'[j].id
  BY <1>0, RowsOld
<1> HIDE DEF a, b, N
<1>6. ~In(a, evs)
  BY <1>1, <1>4, <1>5 DEF In, TellsTrue
<1>7. \A m \in 1..Len(appended') : m \in 1..N \/ m = N + 1
  BY <1>3
<1>8. CASE items'[k].id \in begun
  <2>1. k \in 1..Len(items) /\ items[k].id = items'[k].id
    BY <1>0, <1>8, RowsOld
  <2>2. ~In(b, evs)
    BY <1>1, <1>4, <1>8 DEF In, TellsTrue
  <2>3. /\ \A m \in 1..Len(events) : events[m] = b => ~Waits(a) /\ \A l \in (m + 1)..Len(events) : events[l] # a
        /\ \A m, l \in 1..N : In(b, appended[m].events) /\ In(a, appended[l].events) => l < m
    BY <1>0, <1>5, <2>1 DEF StartsInOrder, a, b, N
  <2>4. \A m, l \in 1..Len(appended') : In(b, appended'[m].events) /\ In(a, appended'[l].events) => l < m
    BY <1>3, <1>6, <1>7, <2>2, <2>3
  <2> QED BY <1>3, <1>6, <2>3, <2>4 DEF a, b
<1>9. CASE items'[k].id \notin begun
  <2>1. ~Waits(b) /\ \A m \in 1..Len(events) : events[m] # b
    BY <1>0, <1>4, <1>9 DEF IdsInv
  <2>2. \A m \in 1..N : ~In(b, appended[m].events)
    BY <2>1 DEF Waits, N
  <2>3. \A m, l \in 1..Len(appended') : In(b, appended'[m].events) /\ In(a, appended'[l].events) => l < m
    BY <1>3, <1>6, <1>7, <2>2
  <2> QED BY <2>1, <2>3 DEF a, b
<1> QED BY <1>8, <1>9

LEMMA GrownKeepsStore ==
    ASSUME StoreInv, NEW by, NEW evs, Grown(by, evs)
    PROVE  StoreInv'
<1>0. StoreTypes /\ ItemsInv /\ WaitsInv /\ IdsInv /\ Tables /\ Appending(by, evs)
  BY DEF StoreInv, Grown
<1>1. StoreTypes'
  <2>1. appended' \in Seq(AppendRec)
    BY <1>0, AppendedIs
  <2> QED BY <1>0, <2>1 DEF StoreTypes, Tables, Appending, vars
<1> QED BY <1>0, <1>1, GrownKeepsItems, GrownKeepsWaits, GrownKeepsIds, GrownKeepsLog, GrownKeepsOrder DEF StoreInv

----------------------------------------------------------------------------
(***************************************************************************)
(* Published keeps it.                                                     *)
(***************************************************************************)
LEMMA PublishedKeepsLog ==
    ASSUME StoreInv, NEW n \in 1..Len(appended), PublishAppended(n)
    PROVE  LogInv'
<1> DEFINE evs == appended[n].events
           N == Len(events)
<1>0. StoreTypes /\ ItemsInv /\ LogInv
  BY DEF StoreInv
<1>1. /\ Len(evs) \in Nat /\ N \in Nat /\ Len(events') = N + Len(evs)
      /\ \A m \in 1..N : events'[m] = events[m]
      /\ \A q \in 1..Len(evs) : events'[N + q] = evs[q]
      /\ \A e : Waits(e) <=> WillWait(e) \/ In(e, evs)
      /\ items' = items
  BY <1>0, PublishedIs
<1> HIDE DEF evs, N
<1>2. ASSUME NEW m \in 1..Len(events')
      PROVE  m \in 1..N \/ \E q \in 1..Len(evs) : m = N + q /\ events'[m] = evs[q]
  <2>1. m \in 1..N \/ (m - N \in 1..Len(evs) /\ m = N + (m - N))
    BY <1>1
  <2> QED BY <1>1, <2>1
<1> SUFFICES ASSUME NEW j \in 1..Len(items)
             PROVE  LET delta == Ev("delta", items[j].id)
                        completed == Ev("completed", items[j].id)
                    IN
                    /\ items[j].done => ~WillWait(delta)
                    /\ items[j].done => \A m \in 1..Len(events') : events'[m] = delta =>
                           WillWait(completed) \/ \E k \in (m + 1)..Len(events') : events'[k] = completed
                    /\ ~items[j].done => ~WillWait(completed) /\ ~In(completed, events')
  <2>1. items' = items
    BY <1>1
  <2> QED BY <2>1 DEF LogInv, Waits, WillWait, In
<1> DEFINE delta == Ev("delta", items[j].id)
           completed == Ev("completed", items[j].id)
<1>3. /\ items[j].done => ~Waits(delta)
      /\ items[j].done => \A m \in 1..N : events[m] = delta =>
             Waits(completed) \/ \E k \in (m + 1)..N : events[k] = completed
      /\ ~items[j].done => ~Waits(completed) /\ ~In(completed, events)
  BY <1>0 DEF LogInv, N
<1> HIDE DEF delta, completed
<1>4. ASSUME items[j].done, NEW m \in 1..Len(events'), events'[m] = delta
      PROVE  WillWait(completed) \/ \E k \in (m + 1)..Len(events') : events'[k] = completed
  <2>1. m \in 1..N
    <3> SUFFICES ASSUME NEW q \in 1..Len(evs), m = N + q, events'[m] = evs[q] PROVE FALSE
      BY <1>2
    <3>1. In(delta, evs)
      BY <1>4 DEF In
    <3> QED BY <1>1, <1>3, <1>4, <3>1
  <2>2. events[m] = delta
    BY <1>1, <1>4, <2>1
  <2>3. ASSUME NEW k \in (m + 1)..N, events[k] = completed
        PROVE  k \in (m + 1)..Len(events') /\ events'[k] = completed
    BY <1>1, <2>1, <2>3
  <2>4. ASSUME In(completed, evs) PROVE \E k \in (m + 1)..Len(events') : events'[k] = completed
    <3>1. PICK q \in 1..Len(evs) : evs[q] = completed
      BY <2>4 DEF In
    <3>2. N + q \in (m + 1)..Len(events') /\ events'[N + q] = completed
      BY <1>1, <2>1, <3>1
    <3> QED BY <3>2
  <2> QED BY <1>1, <1>3, <1>4, <2>1, <2>2, <2>3, <2>4
<1>5. ASSUME ~items[j].done PROVE ~In(completed, events')
  <2> SUFFICES ASSUME NEW m \in 1..Len(events'), events'[m] = completed PROVE FALSE
    BY DEF In
  <2>1. CASE m \in 1..N
    BY <1>1, <1>3, <1>5, <2>1 DEF In, N
  <2>2. ASSUME NEW q \in 1..Len(evs), events'[m] = evs[q] PROVE FALSE
    BY <1>1, <1>3, <1>5, <2>2 DEF In
  <2> QED BY <1>2, <2>1, <2>2
<1> QED BY <1>1, <1>3, <1>4, <1>5 DEF delta, completed

LEMMA PublishedKeepsOrder ==
    ASSUME StoreInv, NEW n \in 1..Len(appended), PublishAppended(n)
    PROVE  StartsInOrder'
<1> DEFINE evs == appended[n].events
           N == Len(events)
<1>0. StoreTypes /\ ItemsInv /\ WaitsInv /\ StartsInOrder
  BY DEF StoreInv
<1>1. /\ Len(evs) \in Nat /\ N \in Nat /\ Len(events') = N + Len(evs)
      /\ \A m \in 1..N : events'[m] = events[m]
      /\ \A q \in 1..Len(evs) : events'[N + q] = evs[q]
      /\ \A e : Waits(e) <=> WillWait(e) \/ In(e, evs)
      /\ items' = items
      /\ Len(appended') = Len(appended) - 1 /\ Len(appended) \in Nat
      /\ \A k \in 1..Len(appended') : appended'[k] = appended[IF k < n THEN k ELSE k + 1]
      /\ ~overtook' => ~overtook /\ n = 1
  BY <1>0, PublishedIs
<1>w. WellFormed(appended[n])
  BY <1>0 DEF WaitsInv
<1>l. \A q \in 1..Len(evs) : evs[q].kind = "started" => q = Len(evs)
  BY <1>w DEF WellFormed
<1> HIDE DEF evs, N
<1> SUFFICES ASSUME ~overtook', NEW j \in 1..Len(items'), NEW k \in 1..Len(items'), j < k
             PROVE  LET a == Ev("started", items'[j].id)
                        b == Ev("started", items'[k].id)
                    IN
                    /\ \A m \in 1..Len(events') : events'[m] = b =>
                           ~WillWait(a) /\ \A l \in (m + 1)..Len(events') : events'[l] # a
                    /\ \A m, l \in 1..Len(appended') :
                           In(b, appended'[m].events) /\ In(a, appended'[l].events) => l < m
  BY DEF StartsInOrder, Waits, WillWait, In
<1> DEFINE a == Ev("started", items'[j].id)
           b == Ev("started", items'[k].id)
<1>2. /\ \A m \in 1..N : events[m] = b => ~Waits(a) /\ \A l \in (m + 1)..N : events[l] # a
      /\ \A m, l \in 1..Len(appended) : In(b, appended[m].events) /\ In(a, appended[l].events) => l < m
  <2>1. items' = items /\ ~overtook
    BY <1>1
  <2> QED BY <1>0, <2>1 DEF StartsInOrder, N
<1>3. a.kind = "started" /\ b.kind = "started"
  BY DEF Ev
<1> HIDE DEF a, b
<1>4. /\ n = 1 /\ \A m \in 1..Len(appended') : m + 1 \in 1..Len(appended) /\ appended'[m] = appended[m + 1]
  BY <1>1
<1>5. ASSUME NEW m \in 1..Len(appended'), NEW l \in 1..Len(appended'),
             In(b, appended'[m].events), In(a, appended'[l].events)
      PROVE  l < m
  <2>1. l + 1 < m + 1
    BY <1>2, <1>4, <1>5
  <2> QED BY <1>1, <2>1
<1>6. ASSUME NEW m \in 1..Len(events'), events'[m] = b
      PROVE  ~WillWait(a) /\ \A l \in (m + 1)..Len(events') : events'[l] # a
  <2>1. CASE m \in 1..N
    <3>1. events[m] = b
      BY <1>1, <1>6, <2>1
    <3>2. ~Waits(a) /\ \A l \in (m + 1)..N : events[l] # a
      BY <1>2, <2>1, <3>1
    <3>3. ASSUME NEW l \in (m + 1)..Len(events') PROVE events'[l] # a
      <4>1. CASE l \in 1..N
        <5>1. l \in (m + 1)..N
          BY <1>1, <2>1, <4>1
        <5> QED BY <1>1, <3>2, <4>1, <5>1
      <4>2. CASE l \notin 1..N
        <5>1. l - N \in 1..Len(evs) /\ N + (l - N) = l
          BY <1>1, <2>1, <4>2
        <5>2. events'[l] = evs[l - N]
          BY <1>1, <5>1
        <5> QED BY <1>1, <3>2, <5>1, <5>2 DEF In
      <4> QED BY <4>1, <4>2
    <3> QED BY <1>1, <3>2, <3>3
  <2>2. CASE m \notin 1..N
    <3>1. m - N \in 1..Len(evs) /\ N + (m - N) = m
      BY <1>1, <2>2
    <3>2. evs[m - N] = b
      BY <1>1, <1>6, <3>1
    <3>3. m - N = Len(evs)
      BY <1>3, <1>l, <3>1, <3>2
    <3>4. (m + 1)..Len(events') = {}
      BY <1>1, <3>1, <3>3
    <3>5. In(b, appended[1].events)
      BY <1>4, <3>1, <3>2 DEF In, evs
    <3>6. ASSUME NEW l \in 1..Len(appended'), In(a, appended'[l].events) PROVE FALSE
      <4>1. In(a, appended[l + 1].events) /\ l + 1 \in 1..Len(appended) /\ 1 \in 1..Len(appended)
        BY <1>1, <1>4, <3>6
      <4>2. l + 1 < 1
        BY <1>2, <3>5, <4>1
      <4> QED BY <4>2
    <3> QED BY <3>4, <3>6 DEF WillWait
  <2> QED BY <2>1, <2>2
<1> QED BY <1>5, <1>6 DEF a, b

LEMMA PublishedKeepsStore ==
    ASSUME StoreInv, NEW n \in 1..Len(appended), PublishAppended(n)
    PROVE  StoreInv'
<1> DEFINE evs == appended[n].events
           N == Len(events)
<1>0. StoreTypes /\ ItemsInv /\ WaitsInv /\ IdsInv /\ LogInv /\ StartsInOrder
  BY DEF StoreInv
<1>1. /\ evs \in Seq(Event) /\ Len(evs) \in Nat /\ N \in Nat
      /\ events' \in Seq(Event) /\ Len(events') = N + Len(evs) /\ published' = published + Len(evs)
      /\ \A m \in 1..N : events'[m] = events[m]
      /\ \A q \in 1..Len(evs) : events'[N + q] = evs[q]
      /\ \A e : Waits(e) <=> WillWait(e) \/ In(e, evs)
      /\ UNCHANGED <<items, begun, head>>
      /\ appended' \in Seq(AppendRec) /\ Len(appended') = Len(appended) - 1 /\ Len(appended) \in Nat
      /\ \A k \in 1..Len(appended') : appended'[k] = appended[IF k < n THEN k ELSE k + 1]
  BY <1>0, PublishedIs
<1> HIDE DEF evs, N
<1>2. StoreTypes'
  <2>1. published \in Nat /\ N = published /\ overtook' \in BOOLEAN
    BY <1>0 DEF StoreTypes, N, PublishAppended
  <2>2. published' \in Nat /\ Len(events') = published'
    BY <1>1, <2>1
  <2> QED BY <1>0, <1>1, <2>1, <2>2 DEF StoreTypes
<1>3. ItemsInv'
  BY <1>0, <1>1 DEF ItemsInv
<1>4. WaitsInv'
  <2> DEFINE f(k) == IF k < n THEN k ELSE k + 1
  <2>1. \A k \in 1..Len(appended') : f(k) \in 1..Len(appended) /\ appended'[k] = appended[f(k)]
    BY <1>1
  <2>2. \A j, k \in 1..Len(appended') : f(j) = f(k) => j = k
    BY <1>1
  <2> HIDE DEF f
  <2>3. \A j, k \in 1..Len(appended') : appended'[j].by = appended'[k].by => j = k
    BY <1>0, <2>1, <2>2 DEF WaitsInv
  <2>4. ASSUME NEW k \in 1..Len(appended') PROVE WellFormed(appended'[k])
    BY <1>0, <2>1 DEF WaitsInv
  <2> QED BY <2>3, <2>4 DEF WaitsInv, WellFormed
<1>5. IdsInv'
  <2>1. ASSUME NEW m \in 1..Len(events'), events'[m].kind # "head" PROVE events'[m].id \in begun
    <3>1. CASE m \in 1..N
      BY <1>0, <1>1, <2>1, <3>1 DEF IdsInv, N
    <3>2. CASE m \notin 1..N
      <4>1. m - N \in 1..Len(evs) /\ N + (m - N) = m
        BY <1>1, <3>2
      <4>2. events'[m] = evs[m - N] /\ evs[m - N] \in Event /\ Waits(evs[m - N])
        BY <1>1, <4>1 DEF In
      <4> QED BY <1>0, <2>1, <4>2 DEF IdsInv
    <3> QED BY <3>1, <3>2
  <2>2. \A e \in Event : WillWait(e) /\ e.kind # "head" => e.id \in begun
    BY <1>0, <1>1 DEF IdsInv
  <2> QED BY <1>1, <2>1, <2>2 DEF IdsInv, Waits, WillWait
<1> QED BY <1>2, <1>3, <1>4, <1>5, PublishedKeepsLog, PublishedKeepsOrder DEF StoreInv

----------------------------------------------------------------------------
\* A step that leaves the store alone.
LEMMA StoreUntouched == StoreInv /\ UNCHANGED <<published, storeVars>> => StoreInv'
<1> SUFFICES ASSUME StoreInv, UNCHANGED <<published, storeVars>> PROVE StoreInv'
  OBVIOUS
<1>1. UNCHANGED <<published, items, begun, head, appended, overtook, events>>
  BY DEF storeVars, logVars
<1>2. StoreTypes /\ ItemsInv /\ WaitsInv /\ IdsInv /\ LogInv /\ StartsInOrder
  BY DEF StoreInv
<1>3. StoreTypes'
  BY <1>1, <1>2 DEF StoreTypes
<1>4. ItemsInv'
  BY <1>1, <1>2 DEF ItemsInv
<1>5. WaitsInv'
  BY <1>1, <1>2 DEF WaitsInv, WellFormed
<1>6. IdsInv'
  BY <1>1, <1>2 DEF IdsInv, Waits, In
<1>7. LogInv'
  BY <1>1, <1>2 DEF LogInv, Waits, In
<1>8. StartsInOrder'
  BY <1>1, <1>2, SMTT(60) DEF StartsInOrder, Waits, In
<1> QED BY <1>3, <1>4, <1>5, <1>6, <1>7, <1>8 DEF StoreInv

LEMMA StreamsLeaveStore ==
    ASSUME NEW s \in Subs,
           Connect(s) \/ Disconnect(s) \/ Draw(s) \/ Take(s) \/ Flush(s) \/ Transport(s)
    PROVE  UNCHANGED <<published, storeVars>>
BY DEF Connect, Subscribe, Disconnect, Unsubscribe, Draw, Redraw, Take, Receive, Flush, vars, Transport,
       Deliver, SendMarker, ClearDropped, AbandonMarker, CloseChan

LEMMA StoreStep == StoreInv /\ [PagesNext]_pagesVars => StoreInv'
<1> SUFFICES ASSUME StoreInv, [PagesNext]_pagesVars PROVE StoreInv'
  OBVIOUS
<1>1. CASE Appends
  <2>1. StoreTypes /\ ItemsInv
    BY DEF StoreInv
  <2> QED BY <1>1, <2>1, CommitGrows, GrownKeepsStore, PublishedKeepsStore
<1>2. ASSUME NEW s \in Subs,
             Connect(s) \/ Disconnect(s) \/ Draw(s) \/ Take(s) \/ Flush(s) \/ Transport(s)
      PROVE  StoreInv'
  BY <1>2, StreamsLeaveStore, StoreUntouched
<1>3. CASE UNCHANGED pagesVars
  BY <1>3, StoreUntouched DEF pagesVars, vars
<1> QED BY <1>1, <1>2, <1>3 DEF PagesNext

LEMMA StoreInit == PagesInit => StoreInv
<1> SUFFICES ASSUME PagesInit PROVE StoreInv
  OBVIOUS
<1>1. /\ items = <<>> /\ begun = {} /\ head = 0 /\ appended = <<>> /\ overtook = FALSE /\ events = <<>>
      /\ published = 0
  BY DEF PagesInit, Init
<1>2. 1..Len(<<>>) = {} /\ Len(<<>>) = 0
  OBVIOUS
<1>3. StoreTypes
  <2>1. <<>> \in Seq(ItemRec) /\ <<>> \in Seq(AppendRec) /\ <<>> \in Seq(Event) /\ {} \in SUBSET ItemID
    OBVIOUS
  <2>2. 0 \in Nat /\ 0 \in {0, 1} /\ FALSE \in BOOLEAN
    OBVIOUS
  <2> QED BY <1>1, <1>2, <2>1, <2>2 DEF StoreTypes
<1>4. ItemsInv /\ WaitsInv /\ IdsInv /\ LogInv /\ StartsInOrder
  BY <1>1, <1>2 DEF ItemsInv, WaitsInv, IdsInv, LogInv, StartsInOrder, Waits
<1> QED BY <1>3, <1>4 DEF StoreInv

\* The store and the log agree, whatever the streams do (store.go:262-297,
\* app.go:1408-1422, 1576-1632, rewind.go:94-106): a running item has no end in
\* the log, text comes before the end of its item, and unless an append was
\* overtaken the items are told of in their order.
THEOREM StoreInvariance == PagesSpec => []StoreInv
BY StoreInit, StoreStep, PTL DEF PagesSpec

(***************************************************************************)
(* Pages implements Bus: no append is longer than a batch may be.          *)
(***************************************************************************)
LEMMA StepOfBus == StoreInv /\ [PagesNext]_pagesVars => [Next]_vars
<1> SUFFICES ASSUME StoreInv, [PagesNext]_pagesVars PROVE [Next]_vars
  OBVIOUS
<1>1. CASE Appends
  <2>1. StoreTypes /\ ItemsInv
    BY DEF StoreInv
  <2>2. ASSUME NEW by \in {"pump", "request"}, NEW evs, Grown(by, evs) PROVE UNCHANGED vars
    BY <2>2 DEF Grown, Appending
  <2>3. ASSUME NEW n \in 1..Len(appended), PublishAppended(n) PROVE Next
    <3> DEFINE k == Len(appended[n].events)
    <3>1. Publish(k)
      BY <2>3 DEF PublishAppended
    <3>2. k \in 1..2
      BY DEF StoreInv, WaitsInv, WellFormed
    <3>3. MaxBatch \in Nat /\ MaxBatch >= 2
      BY BusAssumption, PagesAssumption
    <3> HIDE DEF k
    <3>4. k \in 1..MaxBatch
      BY <3>2, <3>3
    <3> QED BY <3>1, <3>4 DEF Next
  <2> QED BY <1>1, <2>1, <2>2, <2>3, CommitGrows
<1>2. ASSUME NEW s \in Subs,
             Connect(s) \/ Disconnect(s) \/ Draw(s) \/ Take(s) \/ Flush(s) \/ Transport(s)
      PROVE  [Next]_vars
  BY <1>2 DEF Connect, Disconnect, Draw, Take, Flush, Transport, Next
<1>3. CASE UNCHANGED pagesVars
  BY <1>3 DEF pagesVars
<1> QED BY <1>1, <1>2, <1>3 DEF PagesNext

\* What is proved of the bus alone holds with the store and the page around it
\* (bus.go:49-94, app.go:95-101).
THEOREM PagesImplementsBus == PagesSpec => Spec
<1>1. PagesInit => Init
  BY DEF PagesInit
<1> QED BY <1>1, StepOfBus, StoreInvariance, PTL DEF PagesSpec, Spec

(***************************************************************************)
(* Then the page and its stream: first what each change of theirs yields.  *)
(***************************************************************************)
Shape == [id : ItemID, n : Nat]
TailRec == {t \in [on : BOOLEAN, sent : BOOLEAN, pending : Nat] : t.on \/ t.pending = 0}
MarkupSet == {Unhashed} \cup (Seq(ItemRec) \X {0, 1})
ConnRec == [mainV : MarkupSet, dirty : SUBSET ItemID, tails : [ItemID -> TailRec]]
PageRec == [els : Seq(Shape), head : {0, 1}, mainv : MarkupSet, kept : BOOLEAN, stream : SUBSET Subs]

\* Element n of page p is the first with its id.
IsFirst(p, n) == \A m \in 1..(n - 1) : p.els[m].id # p.els[n].id

WithEls(p, els) == [p EXCEPT !.els = els]
WithTail(c, i, t) == [c EXCEPT !.tails[i] = t]
WithTails(c, tails) == [c EXCEPT !.tails = tails]
Clean(c) == [c EXCEPT !.dirty = {}]
MoreText(e, k) == [e EXCEPT !.n = @ + k]
WithPending(t, k) == [t EXCEPT !.pending = k]
OneMore(t) == [t EXCEPT !.pending = @ + 1]

LEMMA WithElsIs ==
    ASSUME NEW p \in PageRec, NEW els \in Seq(Shape)
    PROVE  /\ WithEls(p, els) \in PageRec /\ WithEls(p, els).els = els
           /\ WithEls(p, els).head = p.head /\ WithEls(p, els).kept = p.kept
           /\ WithEls(p, els).stream = p.stream /\ WithEls(p, els).mainv = p.mainv
BY DEF WithEls, PageRec

LEMMA WithTailsIs ==
    ASSUME NEW c \in ConnRec, NEW tails \in [ItemID -> TailRec]
    PROVE  /\ WithTails(c, tails) \in ConnRec /\ WithTails(c, tails).tails = tails
           /\ WithTails(c, tails).dirty = c.dirty /\ WithTails(c, tails).mainV = c.mainV
BY DEF WithTails, ConnRec

LEMMA WithTailIs ==
    ASSUME NEW c \in ConnRec, NEW i \in ItemID, NEW t \in TailRec
    PROVE  /\ WithTail(c, i, t) \in ConnRec
           /\ WithTail(c, i, t).dirty = c.dirty /\ WithTail(c, i, t).mainV = c.mainV
           /\ \A k \in ItemID : WithTail(c, i, t).tails[k] = IF k = i THEN t ELSE c.tails[k]
BY DEF WithTail, ConnRec

LEMMA CleanIs ==
    ASSUME NEW c \in ConnRec
    PROVE  Clean(c) \in ConnRec /\ Clean(c).dirty = {} /\ Clean(c).tails = c.tails /\ Clean(c).mainV = c.mainV
BY DEF Clean, ConnRec

LEMMA MoreTextIs ==
    ASSUME NEW e \in Shape, NEW k \in Nat
    PROVE  MoreText(e, k) \in Shape /\ MoreText(e, k).id = e.id /\ MoreText(e, k).n = e.n + k
BY DEF MoreText, Shape

LEMMA WithPendingIs ==
    ASSUME NEW t \in TailRec
    PROVE  /\ WithPending(t, 0) \in TailRec /\ WithPending(t, 0).pending = 0
           /\ t.on => OneMore(t) \in TailRec /\ OneMore(t).pending = t.pending + 1
BY DEF WithPending, OneMore, TailRec

LEMMA TailsAre ==
    /\ NoTail \in TailRec /\ NewTail \in TailRec /\ LateTail \in TailRec
    /\ NoTail.pending = 0 /\ NewTail.pending = 0 /\ LateTail.pending = 0
    /\ NoTails \in [ItemID -> TailRec] /\ \A i \in ItemID : NoTails[i].pending = 0
<1>1. /\ NoTail \in TailRec /\ NewTail \in TailRec /\ LateTail \in TailRec
      /\ NoTail.pending = 0 /\ NewTail.pending = 0 /\ LateTail.pending = 0
  BY DEF NoTail, NewTail, LateTail, TailRec
<1> QED BY <1>1 DEF NoTails

\* The element of an item of the table.
LEMMA ElementIs ==
    ASSUME StoreTypes, ItemsInv, NEW j \in 1..Len(items)
    PROVE  /\ Element(items[j].id) \in Shape /\ Element(items[j].id).id = items[j].id
           /\ Element(items[j].id).n = items[j].n
<1>1. items[j] \in ItemRec
  BY DEF StoreTypes
<1>2. items[j].id \in ItemID /\ items[j].n \in Nat /\ ItemOf(items[j].id) = items[j]
  BY <1>1, ItemOfIs DEF ItemRec
<1> QED BY <1>2 DEF Element, Shape

LEMMA HasItemIs ==
    ASSUME NEW i, HasItem(i)
    PROVE  \E j \in 1..Len(items) : items[j].id = i
BY DEF HasItem

LEMMA FirstIs ==
    ASSUME NEW p \in PageRec, NEW n \in 1..Len(p.els), IsFirst(p, n)
    PROVE  First(p, p.els[n].id) = n
<1> DEFINE i == p.els[n].id
           P(k) == p.els[k].id = i /\ \A m \in 1..(k - 1) : p.els[m].id # i
           c == CHOOSE k \in 1..Len(p.els) : P(k)
<1>1. P(n)
  BY DEF IsFirst
<1>2. c \in 1..Len(p.els) /\ P(c)
  BY <1>1
<1>3. Len(p.els) \in Nat
  BY DEF PageRec
<1>4. c \in Nat /\ n \in Nat
  BY <1>2, <1>3
<1>5. ~(c < n)
  <2> SUFFICES ASSUME c < n PROVE FALSE
    OBVIOUS
  <2>1. c \in 1..(n - 1)
    BY <1>2, <1>4
  <2> QED BY <1>1, <1>2, <2>1
<1>6. ~(n < c)
  <2> SUFFICES ASSUME n < c PROVE FALSE
    OBVIOUS
  <2>1. n \in 1..(c - 1)
    BY <1>4
  <2> QED BY <1>2, <2>1
<1>7. c = n
  BY <1>4, <1>5, <1>6
<1> QED BY <1>7 DEF First

\* What a flush makes of each element.
FlushedAt(p, c, w, n) ==
    IF p.els[n].id \in {i \in w \cup c.dirty : HasItem(i)} \cap Ids(p) /\ First(p, p.els[n].id) = n
    THEN Element(p.els[n].id)
    ELSE IF p.els[n].id \in Pending(c) \ w THEN MoreText(p.els[n], c.tails[p.els[n].id].pending)
    ELSE p.els[n]

LEMMA FlushedPageIs ==
    ASSUME StoreTypes, ItemsInv, NEW p \in PageRec, NEW c \in ConnRec, NEW w \in Wholes(c)
    PROVE  LET q == FlushedPage(p, c, w) IN
           /\ q \in PageRec /\ q.head = p.head /\ q.kept = p.kept /\ q.stream = p.stream
           /\ Len(q.els) = Len(p.els)
           /\ \A n \in 1..Len(p.els) : q.els[n].id = p.els[n].id
           /\ \A n \in 1..Len(p.els), j \in 1..Len(items) : p.els[n].id = items[j].id /\ IsFirst(p, n) =>
                 q.els[n].n = IF items[j].id \in w \cup c.dirty THEN items[j].n
                              ELSE p.els[n].n + c.tails[items[j].id].pending
<1> DEFINE els == [n \in 1..Len(p.els) |-> FlushedAt(p, c, w, n)]
           q == FlushedPage(p, c, w)
<1>1. q = WithEls(p, els)
  BY DEF FlushedPage, WithEls, FlushedAt, MoreText
<1>2. /\ p.els \in Seq(Shape) /\ Len(p.els) \in Nat /\ c.tails \in [ItemID -> TailRec] /\ c.dirty \in SUBSET ItemID
      /\ w \subseteq Pending(c)
  BY DEF PageRec, ConnRec, Wholes
<1>3. ASSUME NEW n \in 1..Len(p.els)
      PROVE  /\ p.els[n] \in Shape /\ p.els[n].id \in ItemID /\ p.els[n].n \in Nat
             /\ c.tails[p.els[n].id] \in TailRec /\ c.tails[p.els[n].id].pending \in Nat
  <2>1. p.els[n] \in Shape
    BY <1>2
  <2>2. p.els[n].id \in ItemID /\ p.els[n].n \in Nat
    BY <2>1 DEF Shape
  <2>3. c.tails[p.els[n].id] \in TailRec
    BY <1>2, <2>2
  <2> QED BY <2>1, <2>2, <2>3 DEF TailRec
<1>4. ASSUME NEW n \in 1..Len(p.els)
      PROVE  FlushedAt(p, c, w, n) \in Shape /\ FlushedAt(p, c, w, n).id = p.els[n].id
  <2>1. HasItem(p.els[n].id) => Element(p.els[n].id) \in Shape /\ Element(p.els[n].id).id = p.els[n].id
    BY HasItemIs, ElementIs
  <2>2. MoreText(p.els[n], c.tails[p.els[n].id].pending) \in Shape
        /\ MoreText(p.els[n], c.tails[p.els[n].id].pending).id = p.els[n].id
    BY <1>3, MoreTextIs
  <2> QED BY <1>3, <2>1, <2>2 DEF FlushedAt
<1>5. els \in Seq(Shape) /\ Len(els) = Len(p.els) /\ \A n \in 1..Len(p.els) : els[n] = FlushedAt(p, c, w, n)
  BY <1>2, <1>4
<1> HIDE DEF els, q
<1>6. /\ q \in PageRec /\ q.head = p.head /\ q.kept = p.kept /\ q.stream = p.stream /\ q.els = els
  BY <1>1, <1>5, WithElsIs
<1>7. ASSUME NEW n \in 1..Len(p.els), NEW j \in 1..Len(items), p.els[n].id = items[j].id, IsFirst(p, n)
      PROVE  q.els[n].n = IF items[j].id \in w \cup c.dirty THEN items[j].n
                          ELSE p.els[n].n + c.tails[items[j].id].pending
  <2> DEFINE i == p.els[n].id
  <2>1. First(p, i) = n /\ i \in Ids(p)
    BY <1>7, FirstIs DEF Ids
  <2>2. HasItem(i) /\ Element(i).n = items[j].n
    BY <1>7, ItemOfIs, ElementIs
  <2>3. CASE i \in w \cup c.dirty
    <3>1. FlushedAt(p, c, w, n) = Element(i)
      BY <2>1, <2>2, <2>3 DEF FlushedAt
    <3> QED BY <1>5, <1>6, <1>7, <2>2, <2>3, <3>1
  <2>4. CASE i \notin w \cup c.dirty /\ i \in Pending(c)
    <3>1. FlushedAt(p, c, w, n) = MoreText(p.els[n], c.tails[i].pending)
      BY <2>4 DEF FlushedAt
    <3>2. FlushedAt(p, c, w, n).n = p.els[n].n + c.tails[i].pending
      BY <1>3, <3>1, MoreTextIs
    <3> QED BY <1>5, <1>6, <1>7, <2>4, <3>2
  <2>5. CASE i \notin w \cup c.dirty /\ i \notin Pending(c)
    <3>1. FlushedAt(p, c, w, n) = p.els[n]
      BY <2>5 DEF FlushedAt
    <3>2. c.tails[i].pending = 0
      BY <1>3, <2>5 DEF Pending
    <3> QED BY <1>3, <1>5, <1>6, <1>7, <2>5, <3>1, <3>2
  <2> QED BY <2>3, <2>4, <2>5
<1> QED BY <1>4, <1>5, <1>6, <1>7 DEF q

LEMMA FlushedConnIs ==
    ASSUME NEW c \in ConnRec, NEW w \in Wholes(c)
    PROVE  LET d == FlushedConn(c, w) IN
           /\ d \in ConnRec /\ d.dirty = {} /\ d.mainV = c.mainV
           /\ \A i \in ItemID : d.tails[i].pending = 0
<1> DEFINE T(i) == IF i \notin Pending(c) THEN c.tails[i]
                   ELSE IF i \notin w THEN WithPending(c.tails[i], 0)
                   ELSE IF HasItem(i) THEN NewTail
                   ELSE WithPending(c.tails[i], 0)
           tails == [i \in ItemID |-> T(i)]
<1>1. FlushedConn(c, w) = Clean(WithTails(c, tails))
  BY DEF FlushedConn, AfterTails, Clean, WithTails, WithPending
<1>2. ASSUME NEW i \in ItemID PROVE T(i) \in TailRec /\ T(i).pending = 0
  <2>1. c.tails[i] \in TailRec /\ c.tails[i].pending \in Nat
    <3>1. c.tails[i] \in TailRec
      BY DEF ConnRec
    <3> QED BY <3>1 DEF TailRec
  <2>2. i \notin Pending(c) => c.tails[i].pending = 0
    BY <2>1 DEF Pending
  <2>3. WithPending(c.tails[i], 0) \in TailRec /\ WithPending(c.tails[i], 0).pending = 0
    BY <2>1, WithPendingIs
  <2> QED BY <2>1, <2>2, <2>3, TailsAre
<1> HIDE DEF T
<1>3. tails \in [ItemID -> TailRec] /\ \A i \in ItemID : tails[i].pending = 0
  BY <1>2
<1> HIDE DEF tails
<1>4. WithTails(c, tails) \in ConnRec /\ WithTails(c, tails).tails = tails /\ WithTails(c, tails).mainV = c.mainV
  BY <1>3, WithTailsIs
<1> QED BY <1>1, <1>3, <1>4, CleanIs

----------------------------------------------------------------------------
(***************************************************************************)
(* What a page lacks is still to come.  b is the last message its stream   *)
(* has taken; what is still to come is in the log behind b or in an append *)
(* that is not published.                                                  *)
(***************************************************************************)
Coming(e, b) == Waits(e) \/ \E m \in (b + 1)..Len(events) : events[m] = e

\* The chunks of item i that are to come.
DeltasAt(i, b) == {m \in (b + 1)..Len(events) : events[m] = Ev("delta", i)}
Deltas(i, b) == Cardinality(DeltasAt(i, b)) + IF Waits(Ev("delta", i)) THEN 1 ELSE 0

\* Element n of the page shows item j, or will: if it has ended it is exact or
\* will be sent whole, and while it runs no chunk is missing.
FitsItem(p, c, b, n, j) ==
    LET i == items[j].id IN
    /\ items[j].done =>
           \/ Coming(Ev("completed", i), b) \/ i \in c.dirty
           \/ p.els[n].n = items[j].n /\ c.tails[i].pending = 0
    /\ ~items[j].done => p.els[n].n + c.tails[i].pending + Deltas(i, b) >= items[j].n

FitsItems(p, c, b) ==
    \A n \in 1..Len(p.els), j \in 1..Len(items) :
        p.els[n].id = items[j].id /\ IsFirst(p, n) => FitsItem(p, c, b, n, j)

\* The page has the rows of the table, but for those it will be told of.
FitsRows(p, b) ==
    /\ p.head = head \/ Coming(Ev("head", Note), b)
    /\ \A j \in 1..Len(items) : items[j].id \in Ids(p) \/ Coming(Ev("started", items[j].id), b)
    /\ \A n \in 1..Len(p.els) : HasItem(p.els[n].id) \/ Coming(Ev("rewound", Note), b)

Fits(p, c, b) == FitsRows(p, b) /\ FitsItems(p, c, b)

\* What is on the page is behind what comes before it in the table.
Ordered(p) ==
    \A j, k \in 1..Len(items) : j < k /\ items[k].id \in Ids(p) => Leads(p, items[j].id, items[k].id)

\* The page as the store has it.
Exact(p) ==
    /\ p.head = head /\ Len(p.els) = Len(items)
    /\ \A j \in 1..Len(items) : p.els[j].id = items[j].id /\ p.els[j].n = items[j].n

Known(p) == \A n \in 1..Len(p.els) : p.els[n].id \in begun

LEMMA DeltasIs ==
    ASSUME StoreTypes, NEW i, NEW b \in Nat
    PROVE  IsFiniteSet(DeltasAt(i, b)) /\ Cardinality(DeltasAt(i, b)) \in Nat /\ Deltas(i, b) \in Nat
<1>1. Len(events) \in Nat
  BY DEF StoreTypes
<1>2. IsFiniteSet((b + 1)..Len(events))
  BY <1>1, FS_Interval
<1>3. DeltasAt(i, b) \in SUBSET ((b + 1)..Len(events))
  BY DEF DeltasAt
<1>4. IsFiniteSet(DeltasAt(i, b))
  BY <1>2, <1>3, FS_Subset
<1>5. Cardinality(DeltasAt(i, b)) \in Nat
  BY <1>4, FS_CardinalityType
<1> QED BY <1>4, <1>5 DEF Deltas

\* A message taken: nothing else of what was to come is lost.
LEMMA OneTaken ==
    ASSUME StoreTypes, NEW b \in Nat, b < Len(events)
    PROVE  /\ events[b + 1] \in Event
           /\ \A e : Coming(e, b) <=> Coming(e, b + 1) \/ events[b + 1] = e
           /\ \A i : Deltas(i, b) = Deltas(i, b + 1) + IF events[b + 1] = Ev("delta", i) THEN 1 ELSE 0
<1> DEFINE N == Len(events)
<1>1. N \in Nat /\ events \in Seq(Event) /\ b + 1 \in 1..N
  BY DEF StoreTypes
<1>2. \A m \in (b + 1)..N : m = b + 1 \/ m \in ((b + 1) + 1)..N
  BY <1>1
<1>3. (\A m \in ((b + 1) + 1)..N : m \in (b + 1)..N) /\ b + 1 \in (b + 1)..N /\ b + 1 \notin ((b + 1) + 1)..N
  BY <1>1
<1>4. events[b + 1] \in Event
  BY <1>1
<1> HIDE DEF N
<1>5. \A e : Coming(e, b) <=> Coming(e, b + 1) \/ events[b + 1] = e
  BY <1>2, <1>3 DEF Coming, N
<1>6. ASSUME NEW i PROVE Deltas(i, b) = Deltas(i, b + 1) + IF events[b + 1] = Ev("delta", i) THEN 1 ELSE 0
  <2> DEFINE D == DeltasAt(i, b + 1)
  <2>1. IsFiniteSet(D) /\ Cardinality(D) \in Nat
    BY DeltasIs
  <2>2. b + 1 \notin D
    BY <1>3 DEF DeltasAt, N
  <2>3. CASE events[b + 1] = Ev("delta", i)
    <3>1. DeltasAt(i, b) = D \cup {b + 1}
      BY <1>2, <1>3, <2>3 DEF DeltasAt, N
    <3>2. Cardinality(D \cup {b + 1}) = Cardinality(D) + 1
      <4> HIDE DEF D
      <4> QED BY <2>1, <2>2, FS_AddElement
    <3> QED BY <2>1, <2>3, <3>1, <3>2 DEF Deltas
  <2>4. CASE events[b + 1] # Ev("delta", i)
    <3>1. DeltasAt(i, b) = D
      BY <1>2, <1>3, <2>4 DEF DeltasAt, N
    <3> QED BY <2>1, <2>4, <3>1 DEF Deltas
  <2> QED BY <2>3, <2>4
<1> QED BY <1>4, <1>5, <1>6

\* A page as the store has it fits, whatever is still to come.
LEMMA ExactFits ==
    ASSUME StoreInv, NEW p \in PageRec, NEW c \in ConnRec, NEW b \in Nat,
           Exact(p), \A i \in ItemID : c.tails[i].pending = 0
    PROVE  Fits(p, c, b) /\ Ordered(p)
<1>1. /\ StoreTypes /\ ItemsInv /\ Len(p.els) = Len(items) /\ p.head = head /\ Len(items) \in Nat
      /\ \A j \in 1..Len(items) : p.els[j].id = items[j].id /\ p.els[j].n = items[j].n
  BY DEF StoreInv, StoreTypes, Exact
<1>2. \A j \in 1..Len(items) : items[j].id \in ItemID /\ items[j].n \in Nat
  <2>1. \A j \in 1..Len(items) : items[j] \in ItemRec
    BY <1>1 DEF StoreTypes
  <2> QED BY <2>1 DEF ItemRec
<1>3. FitsRows(p, b)
  <2>1. \A j \in 1..Len(items) : items[j].id \in Ids(p)
    BY <1>1 DEF Ids
  <2>2. \A n \in 1..Len(p.els) : HasItem(p.els[n].id)
    BY <1>1 DEF HasItem
  <2> QED BY <1>1, <2>1, <2>2 DEF FitsRows
<1>4. ASSUME NEW n \in 1..Len(p.els), NEW j \in 1..Len(items), p.els[n].id = items[j].id
      PROVE  FitsItem(p, c, b, n, j)
  <2>1. n = j
    BY <1>1, <1>4 DEF ItemsInv
  <2>2. p.els[n].n = items[j].n /\ c.tails[items[j].id].pending = 0 /\ items[j].n \in Nat
    BY <1>1, <1>2, <2>1
  <2>3. Deltas(items[j].id, b) \in Nat
    BY <1>1, DeltasIs
  <2>4. p.els[n].n + c.tails[items[j].id].pending + Deltas(items[j].id, b) >= items[j].n
    BY <2>2, <2>3
  <2> QED BY <2>2, <2>4 DEF FitsItem
<1>5. ASSUME NEW j \in 1..Len(items), NEW k \in 1..Len(items), j < k
      PROVE  Leads(p, items[j].id, items[k].id)
  <2>1. \A m \in 1..j : m \in 1..Len(items) /\ m # k
    BY <1>1, <1>5
  <2>2. \A m \in 1..j : p.els[m].id # items[k].id
    BY <1>1, <2>1 DEF ItemsInv
  <2>3. j \in 1..Len(p.els) /\ p.els[j].id = items[j].id
    BY <1>1
  <2> QED BY <2>2, <2>3 DEF Leads
<1> QED BY <1>3, <1>4, <1>5 DEF Fits, FitsItems, Ordered

WithKept(p, k) == [p EXCEPT !.kept = k]
DrawnConnOf(c, v, tails) == [c EXCEPT !.mainV = v, !.tails = tails]
DrawnPageOf(p, els, h, v) == [p EXCEPT !.els = els, !.head = h, !.mainv = v, !.kept = FALSE]

LEMMA WithKeptIs ==
    ASSUME NEW p \in PageRec, NEW k \in BOOLEAN
    PROVE  /\ WithKept(p, k) \in PageRec /\ WithKept(p, k).els = p.els /\ WithKept(p, k).head = p.head
           /\ WithKept(p, k).stream = p.stream /\ WithKept(p, k).kept = k
BY DEF WithKept, PageRec

LEMMA DrawnPageOfIs ==
    ASSUME NEW p \in PageRec, NEW els \in Seq(Shape), NEW h \in {0, 1}, NEW v \in MarkupSet
    PROVE  /\ DrawnPageOf(p, els, h, v) \in PageRec /\ DrawnPageOf(p, els, h, v).els = els
           /\ DrawnPageOf(p, els, h, v).head = h /\ DrawnPageOf(p, els, h, v).stream = p.stream
BY DEF DrawnPageOf, PageRec

LEMMA DrawnConnOfIs ==
    ASSUME NEW c \in ConnRec, NEW v \in MarkupSet, NEW tails \in [ItemID -> TailRec]
    PROVE  DrawnConnOf(c, v, tails) \in ConnRec /\ DrawnConnOf(c, v, tails).tails = tails
BY DEF DrawnConnOf, ConnRec

\* A whole redraw makes the page exact, unless render skips it.
LEMMA DrawnIs ==
    ASSUME StoreTypes, ItemsInv, NEW p \in PageRec, NEW c \in ConnRec, Known(p)
    PROVE  /\ DrawnPage(p, c) \in PageRec /\ DrawnPage(p, c).stream = p.stream /\ Known(DrawnPage(p, c))
           /\ DrawnPage(p, c).kept \/ Exact(DrawnPage(p, c))
           /\ DrawnConn(c) \in ConnRec /\ \A i \in ItemID : DrawnConn(c).tails[i].pending = 0
<1> DEFINE els == [n \in 1..Len(items) |-> Element(items[n].id)]
           q == DrawnPage(p, c)
<1>1. items \in Seq(ItemRec) /\ Len(items) \in Nat /\ head \in {0, 1}
  BY DEF StoreTypes
<1>2. Markup \in MarkupSet
  BY <1>1 DEF Markup, MarkupSet
<1>3. /\ els \in Seq(Shape) /\ Len(els) = Len(items)
      /\ \A j \in 1..Len(items) : els[j].id = items[j].id /\ els[j].n = items[j].n
  BY <1>1, ElementIs
<1>4. \A j \in 1..Len(items) : items[j].id \in begun
  BY DEF ItemsInv
<1>5. DrawnConn(c) \in ConnRec /\ \A i \in ItemID : DrawnConn(c).tails[i].pending = 0
  <2>1. DrawnConn(c) = DrawnConnOf(c, Markup, NoTails)
    BY DEF DrawnConn, DrawnConnOf
  <2>2. DrawnConn(c) \in ConnRec /\ DrawnConn(c).tails = NoTails
    BY <1>2, <2>1, TailsAre, DrawnConnOfIs
  <2> QED BY <2>2, TailsAre
<1>6. CASE c.mainV # Markup
  <2>1. q = DrawnPageOf(p, els, head, Markup)
    BY <1>6 DEF DrawnPage, DrawWhole, DrawnPageOf
  <2> HIDE DEF els, q
  <2>2. q \in PageRec /\ q.els = els /\ q.head = head /\ q.stream = p.stream
    BY <1>1, <1>2, <1>3, <2>1, DrawnPageOfIs
  <2>3. Exact(q) /\ Known(q)
    BY <1>3, <1>4, <2>2 DEF Exact, Known
  <2> QED BY <1>5, <2>2, <2>3 DEF q
<1>7. CASE c.mainV = Markup
  <2> DEFINE k == p.kept \/ Drifted(p)
  <2>1. q = WithKept(p, k)
    BY <1>7 DEF DrawnPage, WithKept
  <2>2. k \in BOOLEAN
    OBVIOUS
  <2>3. ~k => p.head = head /\ p.els = els
    BY DEF Drifted
  <2> HIDE DEF els, q, k
  <2>4. q \in PageRec /\ q.els = p.els /\ q.head = p.head /\ q.stream = p.stream /\ q.kept = k
    BY <2>1, <2>2, WithKeptIs
  <2>5. ~k => Exact(q)
    BY <1>3, <2>3, <2>4 DEF Exact
  <2>6. Known(q)
    BY <2>4 DEF Known
  <2> QED BY <1>5, <2>2, <2>4, <2>5, <2>6 DEF q
<1> QED BY <1>6, <1>7

----------------------------------------------------------------------------
(***************************************************************************)
(* A flush, and each message taken, leave the page such that it fits.      *)
(***************************************************************************)
\* Elements keep their places and their ids: so do firsts and orders.
LEMMA SameRows ==
    ASSUME NEW p \in PageRec, NEW q \in PageRec, Len(q.els) = Len(p.els),
           \A n \in 1..Len(p.els) : q.els[n].id = p.els[n].id
    PROVE  /\ Ids(q) = Ids(p) /\ (Known(p) => Known(q)) /\ (Ordered(p) => Ordered(q))
           /\ \A n \in 1..Len(p.els) : IsFirst(q, n) <=> IsFirst(p, n)
<1>1. Len(p.els) \in Nat
  BY DEF PageRec
<1>2. Ids(q) = Ids(p) /\ (Known(p) => Known(q))
  BY DEF Ids, Known
<1>3. ASSUME NEW n \in 1..Len(p.els) PROVE \A m \in 1..n : q.els[m].id = p.els[m].id
  <2>1. \A m \in 1..n : m \in 1..Len(p.els)
    BY <1>1
  <2> QED BY <2>1
<1>4. ASSUME NEW a, NEW b, Leads(p, a, b) PROVE Leads(q, a, b)
  <2>1. PICK n \in 1..Len(p.els) : p.els[n].id = a /\ \A m \in 1..n : p.els[m].id # b
    BY <1>4 DEF Leads
  <2> QED BY <1>3, <2>1 DEF Leads
<1>5. Ordered(p) => Ordered(q)
  BY <1>2, <1>4 DEF Ordered
<1>6. ASSUME NEW n \in 1..Len(p.els) PROVE IsFirst(q, n) <=> IsFirst(p, n)
  <2>1. \A m \in 1..(n - 1) : m \in 1..Len(p.els)
    BY <1>1
  <2> QED BY <2>1 DEF IsFirst
<1> QED BY <1>2, <1>5, <1>6

LEMMA FlushFits ==
    ASSUME StoreInv, NEW p \in PageRec, NEW c \in ConnRec, NEW w \in Wholes(c), NEW b \in Nat, Fits(p, c, b)
    PROVE  Fits(FlushedPage(p, c, w), FlushedConn(c, w), b)
<1> DEFINE q == FlushedPage(p, c, w)
           d == FlushedConn(c, w)
<1>0. StoreTypes /\ ItemsInv
  BY DEF StoreInv
<1>1. /\ q \in PageRec /\ q.head = p.head
      /\ Len(q.els) = Len(p.els)
      /\ \A n \in 1..Len(p.els) : q.els[n].id = p.els[n].id
      /\ \A n \in 1..Len(p.els), j \in 1..Len(items) : p.els[n].id = items[j].id /\ IsFirst(p, n) =>
            q.els[n].n = IF items[j].id \in w \cup c.dirty THEN items[j].n
                         ELSE p.els[n].n + c.tails[items[j].id].pending
  BY <1>0, FlushedPageIs
<1>2. d \in ConnRec /\ d.dirty = {} /\ \A i \in ItemID : d.tails[i].pending = 0
  BY FlushedConnIs
<1> HIDE DEF q, d
<1>3. Ids(q) = Ids(p) /\ \A n \in 1..Len(p.els) : IsFirst(q, n) <=> IsFirst(p, n)
  BY <1>1, SameRows
<1>4. FitsRows(q, b)
  BY <1>1, <1>3 DEF Fits, FitsRows
<1>5. ASSUME NEW n \in 1..Len(q.els), NEW j \in 1..Len(items), q.els[n].id = items[j].id, IsFirst(q, n)
      PROVE  FitsItem(q, d, b, n, j)
  <2> DEFINE i == items[j].id
  <2>1. n \in 1..Len(p.els) /\ p.els[n].id = i /\ IsFirst(p, n)
    BY <1>1, <1>3, <1>5
  <2>2. FitsItem(p, c, b, n, j)
    BY <2>1 DEF Fits, FitsItems
  <2>3. q.els[n].n = IF i \in w \cup c.dirty THEN items[j].n ELSE p.els[n].n + c.tails[i].pending
    BY <1>1, <2>1
  <2>4. items[j] \in ItemRec /\ p.els[n] \in Shape
    BY <1>0, <2>1 DEF StoreTypes, PageRec
  <2>5. i \in ItemID /\ items[j].n \in Nat /\ p.els[n].n \in Nat
    BY <2>4 DEF ItemRec, Shape
  <2>6. c.tails[i] \in TailRec
    BY <2>5 DEF ConnRec
  <2>7. c.tails[i].pending \in Nat /\ d.tails[i].pending = 0 /\ Deltas(i, b) \in Nat
    BY <1>0, <1>2, <2>5, <2>6, DeltasIs DEF TailRec
  <2>8. i \in w => c.tails[i].pending > 0
    BY DEF Wholes, Pending
  <2> HIDE DEF i
  <2>9. CASE items[j].done
    <3>1. Coming(Ev("completed", i), b) \/ q.els[n].n = items[j].n
      BY <2>2, <2>3, <2>5, <2>7, <2>9 DEF FitsItem, i
    <3> QED BY <2>7, <2>9, <3>1 DEF FitsItem, i
  <2>10. CASE ~items[j].done
    <3>1. p.els[n].n + c.tails[i].pending + Deltas(i, b) >= items[j].n
      BY <2>2, <2>10 DEF FitsItem, i
    <3>2. q.els[n].n + d.tails[i].pending + Deltas(i, b) >= items[j].n
      BY <2>3, <2>5, <2>7, <3>1
    <3> QED BY <2>10, <3>2 DEF FitsItem, i
  <2> QED BY <2>9, <2>10
<1> QED BY <1>4, <1>5 DEF Fits, FitsItems, q, d

\* A message that changes neither the rows nor what is shown of any item but
\* those it speaks of.
LEMMA RowsTaken ==
    ASSUME StoreTypes, NEW p \in PageRec, NEW b \in Nat, b < Len(events), FitsRows(p, b),
           events[b + 1].kind \in {"delta", "completed"}
    PROVE  FitsRows(p, b + 1)
<1>1. \A e : Coming(e, b) <=> Coming(e, b + 1) \/ events[b + 1] = e
  BY OneTaken
<1>2. \A i : Ev("head", i).kind = "head" /\ Ev("started", i).kind = "started" /\ Ev("rewound", i).kind = "rewound"
  BY DEF Ev
<1> QED BY <1>1, <1>2 DEF FitsRows

LEMMA DeltaFits ==
    ASSUME StoreInv, NEW p \in PageRec, NEW c \in ConnRec, NEW b \in Nat, b < Len(events), Fits(p, c, b),
           NEW i \in ItemID, events[b + 1] = Ev("delta", i), NEW d \in ConnRec, d.dirty = c.dirty,
           \A k \in ItemID : d.tails[k].pending = c.tails[k].pending + IF k = i THEN 1 ELSE 0
    PROVE  Fits(p, d, b + 1)
<1>0. StoreTypes /\ LogInv /\ Len(events) \in Nat
  BY DEF StoreInv, StoreTypes
<1>1. /\ \A e : Coming(e, b) <=> Coming(e, b + 1) \/ events[b + 1] = e
      /\ \A k : Deltas(k, b) = Deltas(k, b + 1) + IF events[b + 1] = Ev("delta", k) THEN 1 ELSE 0
  BY <1>0, OneTaken
<1>2. FitsRows(p, b + 1)
  <2>1. events[b + 1].kind = "delta"
    BY DEF Ev
  <2> QED BY <1>0, <2>1, RowsTaken DEF Fits
<1>3. \A k : /\ Ev("completed", k) # Ev("delta", i)
             /\ Ev("delta", i) = Ev("delta", k) <=> k = i
  <2>1. \A k : Ev("completed", k).kind = "completed" /\ Ev("delta", k).kind = "delta" /\ Ev("delta", k).id = k
    BY DEF Ev
  <2> QED BY <2>1
<1>4. ASSUME NEW n \in 1..Len(p.els), NEW j \in 1..Len(items), p.els[n].id = items[j].id, IsFirst(p, n)
      PROVE  FitsItem(p, d, b + 1, n, j)
  <2> DEFINE k == items[j].id
             completed == Ev("completed", k)
  <2>1. FitsItem(p, c, b, n, j)
    BY <1>4 DEF Fits, FitsItems
  <2>2. items[j] \in ItemRec /\ p.els[n] \in Shape
    BY <1>0 DEF StoreTypes, PageRec
  <2>3. k \in ItemID /\ p.els[n].n \in Nat /\ items[j].n \in Nat
    BY <2>2 DEF ItemRec, Shape
  <2>4. c.tails[k] \in TailRec
    BY <2>3 DEF ConnRec
  <2>5. c.tails[k].pending \in Nat
    BY <2>4 DEF TailRec
  <2>6. Deltas(k, b + 1) \in Nat
    <3>1. b + 1 \in Nat
      OBVIOUS
    <3> QED BY <1>0, <3>1, DeltasIs
  <2>7. d.tails[k].pending = c.tails[k].pending + IF k = i THEN 1 ELSE 0
    BY <2>3
  <2>8. Deltas(k, b) = Deltas(k, b + 1) + IF k = i THEN 1 ELSE 0
    BY <1>1, <1>3
  <2>9. /\ c.tails[k].pending \in Nat /\ Deltas(k, b + 1) \in Nat
        /\ d.tails[k].pending = c.tails[k].pending + IF k = i THEN 1 ELSE 0
        /\ Deltas(k, b) = Deltas(k, b + 1) + IF k = i THEN 1 ELSE 0
    BY <2>5, <2>6, <2>7, <2>8
  <2> HIDE DEF completed
  <2>10. ASSUME items[j].done, k = i PROVE Coming(completed, b + 1)
    <3>1. b + 1 \in 1..Len(events) /\ events[b + 1] = Ev("delta", k)
      BY <1>0, <2>10
    <3>2. Waits(completed) \/ \E m \in ((b + 1) + 1)..Len(events) : events[m] = completed
      BY <1>0, <2>10, <3>1 DEF LogInv, completed
    <3> QED BY <3>2 DEF Coming
  <2>11. ASSUME items[j].done, k # i
        PROVE  Coming(completed, b + 1) \/ k \in d.dirty \/ (p.els[n].n = items[j].n /\ d.tails[k].pending = 0)
    <3>1. Coming(completed, b) \/ k \in c.dirty \/ (p.els[n].n = items[j].n /\ c.tails[k].pending = 0)
      BY <2>1, <2>11 DEF FitsItem, completed
    <3>2. events[b + 1] # completed
      BY <1>3 DEF completed
    <3> QED BY <1>1, <2>9, <2>11, <3>1, <3>2
  <2>12. ASSUME ~items[j].done PROVE p.els[n].n + d.tails[k].pending + Deltas(k, b + 1) >= items[j].n
    <3>1. p.els[n].n + c.tails[k].pending + Deltas(k, b) >= items[j].n
      BY <2>1, <2>12 DEF FitsItem
    <3> DEFINE x == IF k = i THEN 1 ELSE 0
    <3>2. x \in Nat /\ d.tails[k].pending = c.tails[k].pending + x /\ Deltas(k, b) = Deltas(k, b + 1) + x
      BY <2>9
    <3> HIDE DEF k, x
    <3>3. ASSUME NEW a \in Nat, NEW y \in Nat, NEW e \in Nat, NEW z \in Nat, a + y + (e + z) >= items[j].n
          PROVE  a + (y + z) + e >= items[j].n
      BY <2>3, <3>3
    <3>4. p.els[n].n + c.tails[k].pending + (Deltas(k, b + 1) + x) >= items[j].n
      BY <3>1, <3>2
    <3>5. p.els[n].n + (c.tails[k].pending + x) + Deltas(k, b + 1) >= items[j].n
      BY <2>3, <2>5, <2>6, <3>2, <3>3, <3>4
    <3> QED BY <3>2, <3>5
  <2> QED BY <2>10, <2>11, <2>12 DEF FitsItem, completed
<1> QED BY <1>2, <1>4 DEF Fits, FitsItems

LEMMA CompletedFits ==
    ASSUME StoreInv, NEW p \in PageRec, NEW c \in ConnRec, NEW b \in Nat, b < Len(events), Fits(p, c, b),
           NEW i \in ItemID, events[b + 1] = Ev("completed", i), NEW d \in ConnRec, d.dirty = c.dirty \cup {i},
           \A k \in ItemID : k # i => d.tails[k].pending = c.tails[k].pending
    PROVE  Fits(p, d, b + 1)
<1>0. StoreTypes /\ LogInv /\ Len(events) \in Nat
  BY DEF StoreInv, StoreTypes
<1>1. /\ \A e : Coming(e, b) <=> Coming(e, b + 1) \/ events[b + 1] = e
      /\ \A k : Deltas(k, b) = Deltas(k, b + 1) + IF events[b + 1] = Ev("delta", k) THEN 1 ELSE 0
  BY <1>0, OneTaken
<1>2. FitsRows(p, b + 1)
  <2>1. events[b + 1].kind = "completed"
    BY DEF Ev
  <2> QED BY <1>0, <2>1, RowsTaken DEF Fits
<1>3. \A k : /\ Ev("completed", i) # Ev("delta", k)
             /\ Ev("completed", i) = Ev("completed", k) <=> k = i
  <2>1. \A k : Ev("completed", k).kind = "completed" /\ Ev("delta", k).kind = "delta" /\ Ev("completed", k).id = k
    BY DEF Ev
  <2> QED BY <2>1
<1>4. ASSUME NEW n \in 1..Len(p.els), NEW j \in 1..Len(items), p.els[n].id = items[j].id, IsFirst(p, n)
      PROVE  FitsItem(p, d, b + 1, n, j)
  <2> DEFINE k == items[j].id
             completed == Ev("completed", k)
  <2>1. FitsItem(p, c, b, n, j)
    BY <1>4 DEF Fits, FitsItems
  <2>2. items[j] \in ItemRec
    BY <1>0 DEF StoreTypes
  <2>3. k \in ItemID
    BY <2>2 DEF ItemRec
  <2>4. Deltas(k, b) = Deltas(k, b + 1)
    <3>1. Deltas(k, b + 1) \in Nat
      BY <1>0, DeltasIs
    <3> QED BY <1>1, <1>3, <3>1
  <2>5. CASE k = i
    <3>1. In(Ev("completed", k), events)
      <4>1. b + 1 \in 1..Len(events)
        BY <1>0
      <4> QED BY <2>5, <4>1 DEF In
    <3>2. items[j].done
      BY <1>0, <3>1 DEF LogInv
    <3> QED BY <2>5, <3>2 DEF FitsItem
  <2>6. CASE k # i
    <3>1. d.tails[k].pending = c.tails[k].pending /\ (k \in c.dirty => k \in d.dirty)
      BY <2>3, <2>6
    <3>2. Coming(completed, b) => Coming(completed, b + 1)
      BY <1>1, <1>3, <2>6
    <3> QED BY <2>1, <2>4, <3>1, <3>2 DEF FitsItem
  <2> QED BY <2>5, <2>6
<1> QED BY <1>2, <1>4 DEF Fits, FitsItems

LEMMA HeadFits ==
    ASSUME StoreInv, NEW p \in PageRec, NEW q \in PageRec, NEW c \in ConnRec, NEW b \in Nat, b < Len(events), Fits(p, c, b),
           events[b + 1].kind = "head", q.els = p.els, q.head = head
    PROVE  Fits(q, c, b + 1)
<1>0. StoreTypes
  BY DEF StoreInv
<1>1. /\ \A e : Coming(e, b) <=> Coming(e, b + 1) \/ events[b + 1] = e
      /\ \A k : Deltas(k, b) = Deltas(k, b + 1) + IF events[b + 1] = Ev("delta", k) THEN 1 ELSE 0
  BY <1>0, OneTaken
<1>2. \A k : Deltas(k, b + 1) \in Nat
  <2>1. b + 1 \in Nat
    OBVIOUS
  <2> QED BY <1>0, <2>1, DeltasIs
<1>3. \A k : /\ Ev("completed", k).kind = "completed" /\ Ev("delta", k).kind = "delta"
             /\ Ev("started", k).kind = "started" /\ Ev("rewound", k).kind = "rewound"
  BY DEF Ev
<1>4. \A k : Deltas(k, b) = Deltas(k, b + 1)
  BY <1>1, <1>3, <1>2
<1>5. FitsRows(q, b + 1)
  BY <1>1, <1>3 DEF Fits, FitsRows, Ids
<1>6. FitsItems(q, c, b + 1)
  <2> SUFFICES ASSUME NEW n \in 1..Len(p.els), NEW j \in 1..Len(items), p.els[n].id = items[j].id, IsFirst(p, n)
               PROVE  FitsItem(q, c, b + 1, n, j)
    BY DEF FitsItems, IsFirst
  <2>1. FitsItem(p, c, b, n, j)
    BY DEF Fits, FitsItems
  <2> QED BY <1>1, <1>3, <1>4, <2>1 DEF FitsItem
<1> QED BY <1>5, <1>6 DEF Fits

\* An item that is appended as the store has it.
LEMMA PatchAppendIs ==
    ASSUME StoreTypes, ItemsInv, NEW p \in PageRec, NEW h \in 1..Len(items)
    PROVE  LET q == PatchAppend(p, items[h].id)
               N == Len(p.els)
           IN
           /\ q \in PageRec /\ q.head = p.head /\ q.stream = p.stream /\ q.kept = p.kept
           /\ Len(q.els) = N + 1 /\ q.els[N + 1].id = items[h].id /\ q.els[N + 1].n = items[h].n
           /\ \A n \in 1..N : q.els[n] = p.els[n]
           /\ Known(p) => Known(q)
<1> DEFINE i == items[h].id
           q == PatchAppend(p, i)
           N == Len(p.els)
           els == Append(p.els, Element(i))
<1>1. Element(i) \in Shape /\ Element(i).id = i /\ Element(i).n = items[h].n
  BY ElementIs
<1>3. q = WithEls(p, els)
  BY DEF PatchAppend, WithEls
<1>4. p.els \in Seq(Shape) /\ N \in Nat
  BY DEF PageRec
<1>5. els \in Seq(Shape) /\ Len(els) = N + 1 /\ (\A n \in 1..N : els[n] = p.els[n]) /\ els[N + 1] = Element(i)
  <2> HIDE DEF i
  <2> QED BY <1>1, <1>4
<1> HIDE DEF els, q, N
<1>6. q \in PageRec /\ q.head = p.head /\ q.stream = p.stream /\ q.kept = p.kept /\ q.els = els
  BY <1>3, <1>5, WithElsIs
<1>2. /\ Len(q.els) = N + 1 /\ q.els[N + 1].id = i /\ q.els[N + 1].n = items[h].n
      /\ \A n \in 1..N : q.els[n] = p.els[n]
  BY <1>1, <1>5, <1>6
<1>7. Known(p) => Known(q)
  <2>1. \A n \in 1..(N + 1) : n \in 1..N \/ n = N + 1
    BY <1>4
  <2>2. i \in begun
    BY DEF ItemsInv
  <2> QED BY <1>2, <2>1, <2>2 DEF Known, N
<1> QED BY <1>6, <1>2, <1>7 DEF q, N

LEMMA StartedFits ==
    ASSUME StoreInv, NEW p \in PageRec, NEW d \in ConnRec, NEW b \in Nat, b < Len(events), Fits(p, d, b), Known(p),
           NEW i \in ItemID, events[b + 1] = Ev("started", i), \A k \in ItemID : d.tails[k].pending = 0
    PROVE  /\ ~HasItem(i) => Fits(p, d, b + 1)
           /\ HasItem(i) =>
                 /\ Fits(PatchAppend(p, i), WithTail(d, i, NewTail), b + 1)
                 /\ ~overtook /\ Ordered(p) => Ordered(PatchAppend(p, i))
<1> DEFINE q == PatchAppend(p, i)
           c == WithTail(d, i, NewTail)
           N == Len(p.els)
<1>0. /\ StoreTypes /\ ItemsInv /\ StartsInOrder /\ Len(events) \in Nat /\ b + 1 \in 1..Len(events)
      /\ p.els \in Seq(Shape) /\ N \in Nat
  BY DEF StoreInv, StoreTypes, PageRec
<1>1. \A e : Coming(e, b) <=> Coming(e, b + 1) \/ events[b + 1] = e
  BY <1>0, OneTaken
<1>3. \A k : /\ Ev("completed", k) # Ev("started", i) /\ Ev("delta", k) # Ev("started", i)
             /\ Ev("head", k) # Ev("started", i) /\ Ev("rewound", k) # Ev("started", i)
             /\ Ev("started", k) = Ev("started", i) <=> k = i
  BY DEF Ev
<1>4. \A k : Deltas(k, b) = Deltas(k, b + 1)
  <2>1. b + 1 \in Nat
    OBVIOUS
  <2>2. \A k : Deltas(k, b + 1) \in Nat
    BY <1>0, <2>1, DeltasIs
  <2> QED BY <1>0, <1>3, <2>2, OneTaken
<1>5. \A k : Coming(Ev("completed", k), b) => Coming(Ev("completed", k), b + 1)
  BY <1>1, <1>3
<1>6. ASSUME NEW n \in 1..N, NEW j \in 1..Len(items), p.els[n].id = items[j].id, IsFirst(p, n)
      PROVE  FitsItem(p, d, b + 1, n, j)
  <2>1. FitsItem(p, d, b, n, j)
    BY <1>6 DEF Fits, FitsItems
  <2> QED BY <1>4, <1>5, <2>1 DEF FitsItem
<1>2. /\ p.head = head \/ Coming(Ev("head", Note), b + 1)
      /\ \A n \in 1..N : HasItem(p.els[n].id) \/ Coming(Ev("rewound", Note), b + 1)
      /\ \A j \in 1..Len(items) : \/ items[j].id \in Ids(p) \/ items[j].id = i
                                  \/ Coming(Ev("started", items[j].id), b + 1)
  BY <1>1, <1>3 DEF Fits, FitsRows
<1>7. ASSUME ~HasItem(i) PROVE Fits(p, d, b + 1)
  <2>1. \A j \in 1..Len(items) : items[j].id # i
    BY <1>7 DEF HasItem
  <2>2. FitsRows(p, b + 1)
    BY <1>2, <2>1 DEF FitsRows
  <2>3. FitsItems(p, d, b + 1)
    BY <1>6 DEF FitsItems
  <2> QED BY <2>2, <2>3 DEF Fits
<1>8. ASSUME HasItem(i)
      PROVE  /\ Fits(q, c, b + 1)
             /\ ~overtook /\ Ordered(p) => Ordered(q)
  <2>1. PICK h \in 1..Len(items) : items[h].id = i
    BY <1>8, HasItemIs
  <2>2. /\ q.head = p.head /\ Len(q.els) = N + 1 /\ q.els[N + 1].id = i /\ q.els[N + 1].n = items[h].n
        /\ \A n \in 1..N : q.els[n] = p.els[n]
    BY <1>0, <2>1, PatchAppendIs
  <2> HIDE DEF q, N
  <2>3. \A n \in 1..(N + 1) : n \in 1..N \/ n = N + 1
    BY <1>0
  <2>4. (\A n \in 1..N : n \in 1..(N + 1)) /\ N + 1 \in 1..(N + 1)
    BY <1>0
  <2>5. Ids(q) = Ids(p) \cup {i}
    BY <2>2, <2>3, <2>4 DEF Ids, N
  <2>6. FitsRows(q, b + 1)
    <3>1. \A n \in 1..Len(q.els) : HasItem(q.els[n].id) \/ Coming(Ev("rewound", Note), b + 1)
      BY <1>2, <1>8, <2>2, <2>3
    <3> QED BY <1>2, <2>2, <2>5, <3>1 DEF FitsRows
  <2>7. \A k \in ItemID : c.tails[k].pending = 0 /\ c.dirty = d.dirty
    <3>1. NewTail \in TailRec /\ NewTail.pending = 0
      BY TailsAre
    <3>2. c.dirty = d.dirty /\ \A k \in ItemID : c.tails[k] = IF k = i THEN NewTail ELSE d.tails[k]
      BY <3>1, WithTailIs
    <3> HIDE DEF c
    <3> QED BY <3>1, <3>2
  <2>8. ASSUME NEW n \in 1..Len(q.els), NEW j \in 1..Len(items), q.els[n].id = items[j].id, IsFirst(q, n)
         PROVE  FitsItem(q, c, b + 1, n, j)
    <3>0. items[j] \in ItemRec
      BY <1>0 DEF StoreTypes
    <3>1. items[j].id \in ItemID /\ items[j].n \in Nat
      BY <3>0 DEF ItemRec
    <3>2. c.tails[items[j].id].pending = 0 /\ d.tails[items[j].id].pending = 0 /\ c.dirty = d.dirty
      BY <2>7, <3>1
    <3>3. CASE n \in 1..N
      <4>1. q.els[n] = p.els[n]
        BY <2>2, <3>3
      <4>2. \A m \in 1..(n - 1) : m \in 1..N
        BY <1>0, <3>3
      <4>3. IsFirst(p, n)
        BY <2>2, <2>8, <4>1, <4>2 DEF IsFirst
      <4>4. FitsItem(p, d, b + 1, n, j)
        BY <1>6, <2>8, <3>3, <4>1, <4>3
      <4> QED BY <3>2, <4>1, <4>4 DEF FitsItem
    <3>4. CASE n = N + 1
      <4>1. h = j
        BY <1>0, <2>1, <2>2, <2>8, <3>4 DEF ItemsInv
      <4>2. q.els[n].n = items[j].n
        BY <2>2, <3>4, <4>1
      <4>3. Deltas(items[j].id, b + 1) \in Nat
        <5>1. b + 1 \in Nat
          OBVIOUS
        <5> QED BY <1>0, <5>1, DeltasIs
      <4>4. q.els[n].n + c.tails[items[j].id].pending + Deltas(items[j].id, b + 1) >= items[j].n
        BY <3>1, <3>2, <4>2, <4>3
      <4> QED BY <3>2, <4>2, <4>4 DEF FitsItem
    <3> QED BY <2>2, <2>3, <3>3, <3>4
  <2>9. ASSUME ~overtook, Ordered(p), NEW j \in 1..Len(items), NEW k \in 1..Len(items), j < k, items[k].id \in Ids(q)
         PROVE  Leads(q, items[j].id, items[k].id)
    <3>1. CASE items[k].id \in Ids(p)
      <4>1. PICK n \in 1..N : p.els[n].id = items[j].id /\ \A m \in 1..n : p.els[m].id # items[k].id
        BY <2>9, <3>1 DEF Ordered, Leads, N
      <4>2. \A m \in 1..n : m \in 1..N
        BY <1>0
      <4>3. n \in 1..Len(q.els) /\ q.els[n].id = items[j].id /\ \A m \in 1..n : q.els[m].id # items[k].id
        BY <2>2, <2>4, <4>1, <4>2
      <4> QED BY <4>3 DEF Leads
    <3>2. CASE items[k].id \notin Ids(p)
      <4> DEFINE a == Ev("started", items[j].id)
      <4>1. items[k].id = i /\ items[j].id # i
        <5>1. j # k
          BY <2>9
        <5> QED BY <1>0, <2>5, <2>9, <3>2, <5>1 DEF ItemsInv
      <4>2. ~Waits(a) /\ \A l \in ((b + 1) + 1)..Len(events) : events[l] # a
        BY <1>0, <2>9, <4>1 DEF StartsInOrder
      <4>3. ~Coming(a, b + 1)
        BY <4>2 DEF Coming
      <4>4. items[j].id \in Ids(p)
        BY <1>2, <4>1, <4>3
      <4>5. PICK n \in 1..N : p.els[n].id = items[j].id
        BY <4>4 DEF Ids, N
      <4>6. \A m \in 1..n : m \in 1..N
        BY <1>0
      <4>7. \A m \in 1..N : p.els[m].id # items[k].id
        BY <3>2 DEF Ids, N
      <4>8. n \in 1..Len(q.els) /\ q.els[n].id = items[j].id /\ \A m \in 1..n : q.els[m].id # items[k].id
        BY <2>2, <2>4, <4>5, <4>6, <4>7
      <4> QED BY <4>8 DEF Leads
    <3> QED BY <3>1, <3>2
  <2>10. Fits(q, c, b + 1)
    BY <2>6, <2>8 DEF Fits, FitsItems
  <2> QED BY <2>9, <2>10 DEF Ordered
<1> QED BY <1>7, <1>8

----------------------------------------------------------------------------
(***************************************************************************)
(* handle, as a relation between the page and the conn before it and after *)
(* it, for a message that says e.                                          *)
(***************************************************************************)
OnTail(c, i) == IF c.tails[i].on THEN c.tails[i] ELSE LateTail
EndedConn(c, i) == [c EXCEPT !.tails[i] = NoTail, !.dirty = @ \cup {i}]

StartedTo(p, c, i, q, d) ==
    IF HasItem(i) THEN q = PatchAppend(p, i) /\ d = WithTail(c, i, NewTail) ELSE q = p /\ d = c

Handled(p, c, e, q, d) ==
    \/ /\ e.kind = "started"
       /\ \E w \in Wholes(c) : StartedTo(FlushedPage(p, c, w), FlushedConn(c, w), e.id, q, d)
    \/ e.kind = "delta" /\ q = p /\ d = WithTail(c, e.id, OneMore(OnTail(c, e.id)))
    \/ e.kind = "completed" /\ q = p /\ d = EndedConn(c, e.id)
    \/ e.kind = "head" /\ q = PatchHead(p) /\ d = c
    \/ e.kind = "rewound" /\ q = DrawnPage(p, c) /\ d = DrawnConn(c)

LEMMA TakeHandles ==
    ASSUME NEW s \in Subs, Take(s)
    PROVE  \/ Head(buf[s]) = Resync /\ UNCHANGED <<page, conn>>
           \/ Head(buf[s]) # Resync /\ \E q, d : Handled(page, conn[s], Said(s), q, d) /\ Shows(s, q, d)
<1> DEFINE Goal == \E q, d : Handled(page, conn[s], Said(s), q, d) /\ Shows(s, q, d)
<1>1. ASSUME HandleStarted(s) PROVE Goal
  <2> DEFINE i == Said(s).id
             c == conn[s]
  <2>1. PICK w \in Wholes(c) : IF HasItem(i)
                               THEN Shows(s, PatchAppend(FlushedPage(page, c, w), i),
                                             WithTail(FlushedConn(c, w), i, NewTail))
                               ELSE Shows(s, FlushedPage(page, c, w), FlushedConn(c, w))
    BY <1>1 DEF HandleStarted, WithTail
  <2>2. CASE HasItem(i)
    BY <1>1, <2>1, <2>2 DEF Handled, StartedTo, HandleStarted
  <2>3. CASE ~HasItem(i)
    BY <1>1, <2>1, <2>3 DEF Handled, StartedTo, HandleStarted
  <2> QED BY <2>2, <2>3
<1>2. ASSUME HandleDelta(s) PROVE Goal
  BY <1>2 DEF HandleDelta, Handled, WithTail, OneMore, OnTail
<1>3. ASSUME HandleCompleted(s) PROVE Goal
  BY <1>3 DEF HandleCompleted, Handled, EndedConn
<1>4. ASSUME HandleHead(s) PROVE Goal
  BY <1>4 DEF HandleHead, Handled
<1>5. ASSUME HandleRewound(s) PROVE Goal
  BY <1>5 DEF HandleRewound, Handled
<1> HIDE DEF Goal
<1>6. Goal => \E q, d : Handled(page, conn[s], Said(s), q, d) /\ Shows(s, q, d)
  BY DEF Goal
<1> QED BY <1>1, <1>2, <1>3, <1>4, <1>5, <1>6 DEF Take

LEMMA EndedConnIs ==
    ASSUME NEW c \in ConnRec, NEW i \in ItemID
    PROVE  /\ EndedConn(c, i) \in ConnRec /\ EndedConn(c, i).dirty = c.dirty \cup {i}
           /\ \A k \in ItemID : k # i => EndedConn(c, i).tails[k] = c.tails[k]
<1>1. NoTail \in TailRec
  BY TailsAre
<1> QED BY <1>1 DEF EndedConn, ConnRec

LEMMA PatchHeadIs ==
    ASSUME StoreTypes, NEW p \in PageRec
    PROVE  /\ PatchHead(p) \in PageRec /\ PatchHead(p).els = p.els /\ PatchHead(p).head = head
           /\ PatchHead(p).stream = p.stream /\ PatchHead(p).kept = p.kept
BY DEF StoreTypes, PatchHead, PageRec

LEMMA OnTailIs ==
    ASSUME NEW c \in ConnRec, NEW i \in ItemID
    PROVE  OneMore(OnTail(c, i)) \in TailRec /\ OneMore(OnTail(c, i)).pending = c.tails[i].pending + 1
<1>1. c.tails[i] \in TailRec
  BY DEF ConnRec
<1>2. OnTail(c, i) \in TailRec /\ OnTail(c, i).on /\ OnTail(c, i).pending = c.tails[i].pending
  BY <1>1 DEF OnTail, LateTail, TailRec
<1> QED BY <1>2, WithPendingIs

\* Whatever the page shows, handling a message keeps its types.
LEMMA HandledIs ==
    ASSUME StoreTypes, ItemsInv, NEW p \in PageRec, NEW c \in ConnRec, Known(p),
           NEW e \in Event, NEW q, NEW d, Handled(p, c, e, q, d)
    PROVE  /\ q \in PageRec /\ d \in ConnRec /\ q.stream = p.stream /\ Known(q)
           /\ e.kind # "rewound" => q.kept = p.kept
           /\ e.kind = "rewound" => q.kept \/ (Exact(q) /\ \A i \in ItemID : d.tails[i].pending = 0)
<1>0. e.id \in ItemID
  BY DEF Event
<1>1. CASE e.kind = "started"
  <2>1. PICK w \in Wholes(c) : StartedTo(FlushedPage(p, c, w), FlushedConn(c, w), e.id, q, d)
    BY <1>1 DEF Handled
  <2> DEFINE f == FlushedPage(p, c, w)
             g == FlushedConn(c, w)
  <2>2. /\ f \in PageRec /\ f.kept = p.kept /\ f.stream = p.stream
        /\ Len(f.els) = Len(p.els) /\ \A n \in 1..Len(p.els) : f.els[n].id = p.els[n].id
    BY FlushedPageIs
  <2>3. g \in ConnRec
    BY FlushedConnIs
  <2> HIDE DEF f, g
  <2>4. Known(f)
    BY <2>2, SameRows
  <2>5. CASE HasItem(e.id)
    <3>1. q = PatchAppend(f, e.id) /\ d = WithTail(g, e.id, NewTail)
      BY <2>1, <2>5 DEF StartedTo, f, g
    <3>2. q \in PageRec /\ q.stream = f.stream /\ q.kept = f.kept /\ Known(q)
      <4>1. PICK h \in 1..Len(items) : items[h].id = e.id
        BY <2>5, HasItemIs
      <4> QED BY <2>2, <2>4, <3>1, <4>1, PatchAppendIs
    <3>3. d \in ConnRec
      <4>1. NewTail \in TailRec
        BY TailsAre
      <4> QED BY <1>0, <2>3, <3>1, <4>1, WithTailIs
    <3> QED BY <1>1, <2>2, <3>2, <3>3
  <2>6. CASE ~HasItem(e.id)
    <3>1. q = f /\ d = g
      BY <2>1, <2>6 DEF StartedTo, f, g
    <3> QED BY <1>1, <2>2, <2>3, <2>4, <3>1
  <2> QED BY <2>5, <2>6
<1>2. CASE e.kind = "delta"
  <2>1. q = p /\ d = WithTail(c, e.id, OneMore(OnTail(c, e.id)))
    BY <1>2 DEF Handled
  <2>2. d \in ConnRec
    BY <1>0, <2>1, OnTailIs, WithTailIs
  <2> QED BY <1>2, <2>1, <2>2
<1>3. CASE e.kind = "completed"
  <2>1. q = p /\ d = EndedConn(c, e.id)
    BY <1>3 DEF Handled
  <2>2. d \in ConnRec
    BY <1>0, <2>1, EndedConnIs
  <2> QED BY <1>3, <2>1, <2>2
<1>4. CASE e.kind = "head"
  <2>1. q = PatchHead(p) /\ d = c
    BY <1>4 DEF Handled
  <2>2. q \in PageRec /\ q.els = p.els /\ q.stream = p.stream /\ q.kept = p.kept
    BY <2>1, PatchHeadIs
  <2>3. Known(q)
    BY <2>2 DEF Known
  <2> QED BY <1>4, <2>1, <2>2, <2>3
<1>5. CASE e.kind = "rewound"
  <2>1. q = DrawnPage(p, c) /\ d = DrawnConn(c)
    BY <1>5 DEF Handled
  <2> QED BY <1>5, <2>1, DrawnIs
<1> QED BY <1>1, <1>2, <1>3, <1>4, <1>5 DEF Event

\* A message handled in its turn: the page fits what is to come behind it.
LEMMA HandledFits ==
    ASSUME StoreInv, NEW p \in PageRec, NEW c \in ConnRec, Known(p), NEW b \in Nat, b < Len(events),
           NEW q, NEW d, Handled(p, c, events[b + 1], q, d), events[b + 1].kind # "rewound", Fits(p, c, b)
    PROVE  Fits(q, d, b + 1) /\ (~overtook /\ Ordered(p) => Ordered(q))
<1> DEFINE e == events[b + 1]
           i == e.id
<1>0. StoreTypes /\ ItemsInv /\ e \in Event
  BY OneTaken DEF StoreInv
<1>1. i \in ItemID /\ e = Ev(e.kind, i)
  BY <1>0 DEF Event, Ev
<1> HIDE DEF i
<1>2. CASE e.kind = "started"
  <2>1. PICK w \in Wholes(c) : StartedTo(FlushedPage(p, c, w), FlushedConn(c, w), i, q, d)
    BY <1>2 DEF Handled, i
  <2> DEFINE f == FlushedPage(p, c, w)
             g == FlushedConn(c, w)
  <2>2. /\ f \in PageRec
        /\ Len(f.els) = Len(p.els) /\ \A n \in 1..Len(p.els) : f.els[n].id = p.els[n].id
    BY <1>0, FlushedPageIs
  <2>3. g \in ConnRec /\ \A k \in ItemID : g.tails[k].pending = 0
    BY FlushedConnIs
  <2>4. Fits(f, g, b)
    BY FlushFits
  <2> HIDE DEF f, g
  <2>5. Known(f) /\ (Ordered(p) => Ordered(f))
    BY <2>2, SameRows
  <2>6. e = Ev("started", i)
    BY <1>1, <1>2
  <2>7. /\ ~HasItem(i) => Fits(f, g, b + 1)
        /\ HasItem(i) => Fits(PatchAppend(f, i), WithTail(g, i, NewTail), b + 1)
        /\ HasItem(i) /\ ~overtook /\ Ordered(f) => Ordered(PatchAppend(f, i))
    BY <1>1, <2>2, <2>3, <2>4, <2>5, <2>6, StartedFits
  <2>8. CASE HasItem(i)
    <3>1. q = PatchAppend(f, i) /\ d = WithTail(g, i, NewTail)
      BY <2>1, <2>8 DEF StartedTo, f, g
    <3> QED BY <2>5, <2>7, <2>8, <3>1
  <2>9. CASE ~HasItem(i)
    <3>1. q = f /\ d = g
      BY <2>1, <2>9 DEF StartedTo, f, g
    <3> QED BY <2>5, <2>7, <2>9, <3>1
  <2> QED BY <2>8, <2>9
<1>3. CASE e.kind = "delta"
  <2>1. q = p /\ d = WithTail(c, i, OneMore(OnTail(c, i)))
    BY <1>3 DEF Handled, i
  <2>2. d \in ConnRec /\ d.dirty = c.dirty
        /\ \A k \in ItemID : d.tails[k] = IF k = i THEN OneMore(OnTail(c, i)) ELSE c.tails[k]
    <3> DEFINE t == OneMore(OnTail(c, i))
    <3>1. t \in TailRec /\ d = WithTail(c, i, t)
      BY <1>1, <2>1, OnTailIs
    <3> HIDE DEF t
    <3>2. /\ d \in ConnRec /\ d.dirty = c.dirty
          /\ \A k \in ItemID : d.tails[k] = IF k = i THEN t ELSE c.tails[k]
      BY <1>1, <3>1, WithTailIs
    <3> QED BY <3>2 DEF t
  <2>3. \A k \in ItemID : c.tails[k].pending \in Nat
    <3>1. \A k \in ItemID : c.tails[k] \in TailRec
      BY DEF ConnRec
    <3> QED BY <3>1 DEF TailRec
  <2>4. \A k \in ItemID : d.tails[k].pending = c.tails[k].pending + IF k = i THEN 1 ELSE 0
    <3>1. ASSUME NEW k \in ItemID, k = i PROVE d.tails[k].pending = c.tails[k].pending + 1
      BY <1>1, <2>2, <3>1, OnTailIs
    <3>2. ASSUME NEW k \in ItemID, k # i PROVE d.tails[k].pending = c.tails[k].pending + 0
      BY <2>2, <2>3, <3>2
    <3> QED BY <3>1, <3>2
  <2>5. e = Ev("delta", i)
    BY <1>1, <1>3
  <2> QED BY <1>1, <2>1, <2>2, <2>4, <2>5, DeltaFits
<1>4. CASE e.kind = "completed"
  <2>1. q = p /\ d = EndedConn(c, i)
    BY <1>4 DEF Handled, i
  <2>2. d \in ConnRec /\ d.dirty = c.dirty \cup {i} /\ \A k \in ItemID : k # i => d.tails[k] = c.tails[k]
    BY <1>1, <2>1, EndedConnIs
  <2>3. e = Ev("completed", i)
    BY <1>1, <1>4
  <2>4. \A k \in ItemID : k # i => d.tails[k].pending = c.tails[k].pending
    BY <2>2
  <2> QED BY <1>1, <2>1, <2>2, <2>3, <2>4, CompletedFits
<1>5. CASE e.kind = "head"
  <2>1. q = PatchHead(p) /\ d = c
    BY <1>5 DEF Handled
  <2>2. q \in PageRec /\ q.els = p.els /\ q.head = head
    BY <1>0, <2>1, PatchHeadIs
  <2>3. Ordered(p) => Ordered(q)
    BY <2>2 DEF Ordered, Leads, Ids
  <2> QED BY <1>5, <2>1, <2>2, <2>3, HeadFits
<1> QED BY <1>0, <1>2, <1>3, <1>4, <1>5 DEF Event

----------------------------------------------------------------------------
(***************************************************************************)
(* The page and the conn of its stream have their types, and only the      *)
(* stream that is connected is the page's.                                 *)
(***************************************************************************)
Streams ==
    /\ \A s \in Subs : phase[s] = "in" => page.stream = {s}
    /\ \A s \in page.stream : phase[s] = "in"

PageInv == page \in PageRec /\ conn \in [Subs -> ConnRec] /\ Known(page) /\ Streams

WithStream(p, S) == [p EXCEPT !.stream = S]
WithMainV(c, v) == [c EXCEPT !.mainV = v]

LEMMA WithStreamIs ==
    ASSUME NEW p \in PageRec, NEW S \in SUBSET Subs
    PROVE  /\ WithStream(p, S) \in PageRec /\ WithStream(p, S).els = p.els /\ WithStream(p, S).stream = S
BY DEF WithStream, PageRec

LEMMA WithMainVIs ==
    ASSUME NEW c \in ConnRec, NEW v \in MarkupSet
    PROVE  WithMainV(c, v) \in ConnRec
BY DEF WithMainV, ConnRec

\* What a stream sent: the types hold, whatever it was.
LEMMA ShowsIs ==
    ASSUME PageInv, NEW s \in Subs, NEW q \in PageRec, NEW d \in ConnRec, Shows(s, q, d),
           Known(q), q.stream = page.stream, UNCHANGED <<begun, phase>>
    PROVE  PageInv' /\ page' = q /\ conn'[s] = d
<1>1. page' = q /\ conn' = [conn EXCEPT ![s] = d]
  BY DEF Shows
<1>2. conn' \in [Subs -> ConnRec] /\ conn'[s] = d
  BY <1>1 DEF PageInv
<1>3. Known(page)'
  BY <1>1 DEF Known
<1>4. Streams'
  BY <1>1 DEF PageInv, Streams
<1> QED BY <1>1, <1>2, <1>3, <1>4 DEF PageInv

\* What a stream is told is in the log.
LEMMA SaidIs ==
    ASSUME StoreTypes, TypeOK, NEW s \in Subs, buf[s] # <<>>, Head(buf[s]) # Resync
    PROVE  Head(buf[s]) \in 1..Len(events) /\ Said(s) \in Event
<1>1. buf[s] \in Seq(Message \cup {Resync})
  BY DEF TypeOK
<1>2. Head(buf[s]) \in Message
  BY <1>1
<1>3. published = Len(events) /\ events \in Seq(Event)
  BY DEF StoreTypes
<1> QED BY <1>2, <1>3 DEF Message, Said

LEMMA SentIs ==
    ASSUME StoreInv, TypeOK, PageInv, NEW s \in Subs, Draw(s) \/ Take(s) \/ Flush(s)
    PROVE  PageInv'
<1>0. /\ StoreTypes /\ ItemsInv /\ page \in PageRec /\ conn[s] \in ConnRec /\ Known(page)
  BY DEF StoreInv, PageInv
<1>1. UNCHANGED <<begun, phase>>
  BY DEF Draw, Redraw, Take, Receive, Flush, storeVars, subVars, vars
<1>2. CASE Draw(s)
  <2>1. Shows(s, DrawnPage(page, conn[s]), DrawnConn(conn[s]))
    BY <1>2 DEF Draw
  <2> QED BY <1>0, <1>1, <2>1, DrawnIs, ShowsIs
<1>3. CASE Take(s)
  <2>1. CASE UNCHANGED <<page, conn>>
    BY <1>1, <2>1 DEF PageInv, Known, Streams
  <2>2. CASE Head(buf[s]) # Resync /\ \E q, d : Handled(page, conn[s], Said(s), q, d) /\ Shows(s, q, d)
    <3>1. PICK q, d : Handled(page, conn[s], Said(s), q, d) /\ Shows(s, q, d)
      BY <2>2
    <3>2. Said(s) \in Event
      <4>1. buf[s] # <<>>
        BY <1>3 DEF Take, Receive
      <4> QED BY <1>0, <2>2, <4>1, SaidIs
    <3> QED BY <1>0, <1>1, <3>1, <3>2, HandledIs, ShowsIs
  <2> QED BY <1>3, <2>1, <2>2, TakeHandles
<1>4. CASE Flush(s)
  <2>1. PICK w \in Wholes(conn[s]) : Shows(s, FlushedPage(page, conn[s], w), FlushedConn(conn[s], w))
    BY <1>4 DEF Flush
  <2> DEFINE q == FlushedPage(page, conn[s], w)
             d == FlushedConn(conn[s], w)
  <2>2. /\ q \in PageRec /\ q.stream = page.stream
        /\ Len(q.els) = Len(page.els) /\ \A n \in 1..Len(page.els) : q.els[n].id = page.els[n].id
    BY <1>0, FlushedPageIs
  <2>3. d \in ConnRec
    BY <1>0, FlushedConnIs
  <2> HIDE DEF q, d
  <2>4. Known(q)
    BY <1>0, <2>2, SameRows
  <2> QED BY <1>1, <2>1, <2>2, <2>3, <2>4, ShowsIs DEF q, d
<1> QED BY <1>2, <1>3, <1>4

LEMMA PageStep == StoreInv /\ TypeOK /\ PageInv /\ [PagesNext]_pagesVars => PageInv'
<1> SUFFICES ASSUME StoreInv, TypeOK, PageInv, [PagesNext]_pagesVars PROVE PageInv'
  OBVIOUS
<1>0. /\ page \in PageRec /\ conn \in [Subs -> ConnRec] /\ Known(page) /\ Streams
      /\ StoreTypes /\ ItemsInv /\ phase \in [Subs -> {"out", "in", "left", "closed"}]
  BY DEF PageInv, StoreInv, TypeOK
<1>1. ASSUME UNCHANGED <<page, conn, phase>>, begun \subseteq begun' PROVE PageInv'
  <2>1. Streams'
    BY <1>0, <1>1 DEF Streams
  <2> QED BY <1>0, <1>1, <2>1 DEF PageInv, Known
<1>2. CASE Appends
  <2>1. ASSUME NEW by, NEW evs, Grown(by, evs) PROVE UNCHANGED <<page, conn, phase>> /\ begun \subseteq begun'
    BY <2>1 DEF Grown, Tables, Appending, vars
  <2>2. ASSUME NEW n \in 1..Len(appended), PublishAppended(n)
        PROVE  UNCHANGED <<page, conn, phase>> /\ begun \subseteq begun'
    BY <2>2 DEF PublishAppended, Publish
  <2> QED BY <1>0, <1>1, <1>2, <2>1, <2>2, CommitGrows
<1>3. ASSUME NEW s \in Subs, Connect(s) PROVE PageInv'
  <2>1. /\ page.stream = {} /\ page' = WithStream(page, {s}) /\ begun' = begun
        /\ phase' = [phase EXCEPT ![s] = "in"]
    BY <1>3 DEF Connect, WithStream, Subscribe, storeVars
  <2>2. conn' = [conn EXCEPT ![s] = WithMainV(conn[s], page.mainv)]
    BY <1>3 DEF Connect, WithMainV
  <2>3. page' \in PageRec /\ page'.els = page.els /\ page'.stream = {s}
    BY <1>0, <2>1, WithStreamIs
  <2>4. conn' \in [Subs -> ConnRec]
    <3>1. page.mainv \in MarkupSet /\ conn[s] \in ConnRec
      BY <1>0 DEF PageRec
    <3>2. WithMainV(conn[s], page.mainv) \in ConnRec
      BY <3>1, WithMainVIs
    <3> QED BY <1>0, <2>2, <3>2
  <2>5. Streams'
    <3>1. \A r \in Subs : phase[r] # "in"
      BY <1>0, <2>1 DEF Streams
    <3>2. phase'[s] = "in" /\ \A r \in Subs : phase'[r] = "in" => r = s
      BY <1>0, <2>1, <3>1
    <3> QED BY <2>3, <3>2 DEF Streams
  <2> QED BY <1>0, <2>1, <2>3, <2>4, <2>5 DEF PageInv, Known
<1>4. ASSUME NEW s \in Subs, Disconnect(s) PROVE PageInv'
  <2>1. /\ page' = WithStream(page, {}) /\ conn' = [conn EXCEPT ![s] = NoConn] /\ begun' = begun
        /\ phase[s] = "in" /\ phase' = [phase EXCEPT ![s] = "left"]
    BY <1>4 DEF Disconnect, Unsubscribe, WithStream, storeVars
  <2>2. page' \in PageRec /\ page'.els = page.els /\ page'.stream = {}
    BY <1>0, <2>1, WithStreamIs
  <2>3. conn' \in [Subs -> ConnRec]
    <3>1. NoConn \in ConnRec
      BY TailsAre DEF NoConn, ConnRec, MarkupSet
    <3> QED BY <1>0, <2>1, <3>1
  <2>4. Streams'
    <3>1. \A r \in Subs : phase[r] = "in" => r = s
      BY <1>0, <2>1 DEF Streams
    <3>2. \A r \in Subs : phase'[r] # "in"
      BY <1>0, <2>1, <3>1
    <3> QED BY <2>2, <3>2 DEF Streams
  <2> QED BY <1>0, <2>1, <2>2, <2>3, <2>4 DEF PageInv, Known
<1>5. ASSUME NEW s \in Subs, Transport(s) PROVE PageInv'
  <2>1. UNCHANGED <<page, conn, begun>>
    BY <1>5 DEF Transport, storeVars
  <2>2. phase' = phase \/ (phase[s] = "left" /\ phase' = [phase EXCEPT ![s] = "closed"])
    BY <1>5 DEF Transport, Deliver, SendMarker, ClearDropped, AbandonMarker, CloseChan
  <2>3. \A r \in Subs : phase'[r] = "in" <=> phase[r] = "in"
    BY <1>0, <2>2
  <2>4. page.stream \in SUBSET Subs
    BY <1>0 DEF PageRec
  <2>5. Streams'
    BY <1>0, <2>1, <2>3, <2>4 DEF Streams
  <2> QED BY <1>0, <2>1, <2>5 DEF PageInv, Known
<1>6. ASSUME NEW s \in Subs, Draw(s) \/ Take(s) \/ Flush(s) PROVE PageInv'
  BY <1>6, SentIs
<1>7. CASE UNCHANGED pagesVars
  BY <1>1, <1>7 DEF pagesVars, vars, storeVars
<1> QED BY <1>2, <1>3, <1>4, <1>5, <1>6, <1>7 DEF PagesNext

----------------------------------------------------------------------------
(***************************************************************************)
(* What the store does meanwhile is told: a page that fits goes on to fit. *)
(***************************************************************************)
LEMMA StoreStillFits ==
    ASSUME NEW p, NEW c, NEW b, UNCHANGED storeVars
    PROVE  (Fits(p, c, b) => Fits(p, c, b)') /\ (Ordered(p) => Ordered(p)')
<1>1. UNCHANGED <<items, begun, head, appended, events>>
  BY DEF storeVars, logVars
<1>2. \A e : Waits(e)' <=> Waits(e)
  BY <1>1 DEF Waits
<1>3. \A e : Coming(e, b)' <=> Coming(e, b)
  BY <1>1, <1>2 DEF Coming
<1>4. \A i : DeltasAt(i, b)' = DeltasAt(i, b)
  BY <1>1 DEF DeltasAt
<1>5. \A i : Deltas(i, b)' = Deltas(i, b)
  BY <1>2, <1>4 DEF Deltas
<1>6. FitsRows(p, b) => FitsRows(p, b)'
  BY <1>1, <1>3 DEF FitsRows, HasItem
<1>7. \A n, j : FitsItem(p, c, b, n, j) => FitsItem(p, c, b, n, j)'
  BY <1>1, <1>3, <1>5 DEF FitsItem
<1>8. FitsItems(p, c, b) => FitsItems(p, c, b)'
  BY <1>1, <1>7 DEF FitsItems
<1>9. Ordered(p) => Ordered(p)'
  BY <1>1 DEF Ordered
<1> QED BY <1>6, <1>8, <1>9 DEF Fits

\* Text is told of chunk by chunk.
LEMMA GrownDeltas ==
    ASSUME StoreInv, NEW by, NEW evs, Grown(by, evs), NEW b \in Nat, NEW i
    PROVE  Deltas(i, b)' = Deltas(i, b) + IF In(Ev("delta", i), evs) THEN 1 ELSE 0
<1> DEFINE delta == Ev("delta", i)
           D == DeltasAt(i, b)
<1>0. StoreTypes /\ WaitsInv /\ Appending(by, evs) /\ events' = events
  BY DEF StoreInv, Grown, Appending
<1>1. WillWait(delta) <=> Waits(delta) \/ In(delta, evs)
  BY <1>0, AppendedIs
<1>2. Waits(delta)' <=> WillWait(delta)
  BY DEF Waits, WillWait
<1>3. D' = D
  BY <1>0 DEF DeltasAt
<1>4. Cardinality(D) \in Nat
  BY <1>0, DeltasIs
<1>5. delta.kind = "delta"
  BY DEF Ev
<1>6. ~(In(delta, evs) /\ Waits(delta))
  <2> SUFFICES ASSUME In(delta, evs), Waits(delta) PROVE FALSE
    OBVIOUS
  <2>1. PICK k \in 1..Len(appended) : In(delta, appended[k].events)
    BY DEF Waits
  <2>2. appended[k].by = "pump"
    <3>1. PICK q \in 1..Len(appended[k].events) : appended[k].events[q] = delta
      BY <2>1 DEF In
    <3> QED BY <1>0, <1>5, <3>1 DEF WaitsInv, WellFormed
  <2>3. by = "pump"
    <3> DEFINE r == [by |-> by, events |-> evs]
    <3>1. WellFormed(r) /\ r.events = evs /\ r.by = by
      BY <1>0 DEF Appending
    <3> HIDE DEF r
    <3>2. PICK q \in 1..Len(evs) : evs[q] = delta
      BY DEF In
    <3> QED BY <1>5, <3>1, <3>2 DEF WellFormed
  <2> QED BY <1>0, <2>2, <2>3 DEF Appending
<1> HIDE DEF delta, D
<1>7. Deltas(i, b) = Cardinality(D) + IF Waits(delta) THEN 1 ELSE 0
  BY DEF Deltas, D, delta
<1>8. Deltas(i, b)' = Cardinality(D) + IF WillWait(delta) THEN 1 ELSE 0
  BY <1>2, <1>3 DEF Deltas, D, delta
<1>9. CASE In(delta, evs)
  BY <1>1, <1>4, <1>6, <1>7, <1>8, <1>9 DEF delta
<1>10. CASE ~In(delta, evs)
  <2>1. Deltas(i, b)' = Deltas(i, b)
    BY <1>1, <1>7, <1>8, <1>10
  <2>2. Deltas(i, b) \in Nat
    BY <1>0, DeltasIs
  <2> QED BY <1>10, <2>1, <2>2 DEF delta
<1> QED BY <1>9, <1>10

LEMMA GrownFits ==
    ASSUME StoreInv, NEW by, NEW evs, Grown(by, evs), NEW p \in PageRec, NEW c \in ConnRec, NEW b \in Nat,
           Known(p), Fits(p, c, b)
    PROVE  Fits(p, c, b)'
<1>0. /\ StoreTypes /\ ItemsInv /\ Appending(by, evs) /\ Told(by, evs) /\ events' = events
      /\ items' \in Seq(ItemRec)
  BY DEF StoreInv, Grown, Appending, Tables
<1>1. \A e : Waits(e)' <=> Waits(e) \/ In(e, evs)
  <2>1. \A e : WillWait(e) <=> Waits(e) \/ In(e, evs)
    BY <1>0, AppendedIs
  <2> QED BY <2>1 DEF Waits, WillWait
<1>2. \A e : Coming(e, b)' <=> Coming(e, b) \/ In(e, evs)
  BY <1>0, <1>1 DEF Coming
<1>3. \A j \in 1..Len(items') :
         /\ items'[j].id \in begun => j \in 1..Len(items) /\ items'[j].id = items[j].id /\ KeptRow(j, evs)
         /\ items'[j].id \notin begun => AddedRow(j, evs)
  BY <1>0, RowsOld
<1>4. FitsRows(p, b)'
  <2>1. (p.head = head \/ Coming(Ev("head", Note), b))'
    <3>1. p.head = head \/ Coming(Ev("head", Note), b)
      BY DEF Fits, FitsRows
    <3> QED BY <1>0, <1>2, <3>1 DEF Told
  <2>2. ASSUME NEW j \in 1..Len(items')
        PROVE  items'[j].id \in Ids(p) \/ Coming(Ev("started", items[j].id), b)'
    <3>1. CASE items'[j].id \in begun
      <4>1. j \in 1..Len(items) /\ items'[j].id = items[j].id
        BY <1>3, <3>1
      <4>2. items[j].id \in Ids(p) \/ Coming(Ev("started", items[j].id), b)
        BY <4>1 DEF Fits, FitsRows
      <4> QED BY <1>2, <4>1, <4>2
    <3>2. CASE items'[j].id \notin begun
      BY <1>2, <1>3, <3>2 DEF AddedRow
    <3> QED BY <3>1, <3>2
  <2>3. ASSUME NEW n \in 1..Len(p.els)
        PROVE  HasItem(p.els[n].id)' \/ Coming(Ev("rewound", Note), b)'
    <3>1. HasItem(p.els[n].id) \/ Coming(Ev("rewound", Note), b)
      BY DEF Fits, FitsRows
    <3>2. CASE HasItem(p.els[n].id)
      <4>1. PICK j \in 1..Len(items) : items[j].id = p.els[n].id
        BY <3>2 DEF HasItem
      <4>2. (j \in 1..Len(items') /\ items'[j].id = items[j].id) \/ In(Ev("rewound", Note), evs)
        BY <1>0 DEF Told
      <4> QED BY <1>2, <4>1, <4>2 DEF HasItem
    <3> QED BY <1>2, <3>1, <3>2
  <2> QED BY <2>1, <2>2, <2>3 DEF FitsRows
<1>5. ASSUME NEW n \in 1..Len(p.els), NEW j \in 1..Len(items'), p.els[n].id = items'[j].id, IsFirst(p, n)
      PROVE  FitsItem(p, c, b, n, j)'
  <2>1. items'[j].id \in begun
    BY <1>5 DEF Known
  <2>2. j \in 1..Len(items) /\ items'[j].id = items[j].id /\ KeptRow(j, evs)
    BY <1>3, <2>1
  <2>3. FitsItem(p, c, b, n, j)
    BY <1>5, <2>2 DEF Fits, FitsItems
  <2> DEFINE i == items[j].id
  <2>4. items[j] \in ItemRec /\ items'[j] \in ItemRec /\ p.els[n] \in Shape
    BY <1>0, <2>2 DEF StoreTypes, PageRec
  <2>5. i \in ItemID /\ items[j].n \in Nat /\ items'[j].n \in Nat /\ p.els[n].n \in Nat
    BY <2>4 DEF ItemRec, Shape
  <2>6. c.tails[i] \in TailRec
    BY <2>5 DEF ConnRec
  <2>7. c.tails[i].pending \in Nat /\ Deltas(i, b) \in Nat
    BY <1>0, <2>6, DeltasIs DEF TailRec
  <2>8. CASE items'[j].done
    <3>1. CASE items[j].done
      <4>1. items'[j] = items[j]
        BY <2>2, <3>1 DEF KeptRow
      <4> QED BY <1>2, <2>3, <3>1, <4>1 DEF FitsItem
    <3>2. CASE ~items[j].done
      <4>1. In(Ev("completed", items[j].id), evs)
        BY <2>2, <2>8, <3>2 DEF KeptRow
      <4>2. Coming(Ev("completed", items[j].id), b)'
        BY <1>2, <2>2, <4>1
      <4> QED BY <2>8, <4>2 DEF FitsItem
    <3> QED BY <3>1, <3>2
  <2>9. CASE ~items'[j].done
    <3> DEFINE x == IF In(Ev("delta", i), evs) THEN 1 ELSE 0
    <3>1. ~items[j].done
      BY <2>2, <2>9 DEF KeptRow
    <3>2. items'[j].n = items[j].n + x
      BY <2>2, <2>9 DEF KeptRow
    <3>3. Deltas(i, b)' = Deltas(i, b) + x
      <4>1. \A k : Deltas(k, b)' = Deltas(k, b) + IF In(Ev("delta", k), evs) THEN 1 ELSE 0
        BY GrownDeltas
      <4> QED BY <2>2, <4>1
    <3>4. p.els[n].n + c.tails[i].pending + Deltas(i, b) >= items[j].n
      BY <2>3, <3>1 DEF FitsItem
    <3>5. ASSUME NEW a \in Nat, NEW y \in Nat, NEW z \in Nat, NEW m \in Nat, NEW u \in Nat, a + y + z >= m
          PROVE  a + y + (z + u) >= m + u
      BY <3>5
    <3>6. x \in Nat
      OBVIOUS
    <3> HIDE DEF x
    <3>7. p.els[n].n + c.tails[i].pending + (Deltas(i, b) + x) >= items[j].n + x
      BY <2>5, <2>7, <3>4, <3>5, <3>6
    <3>8. p.els[n].n + c.tails[items'[j].id].pending + Deltas(i, b)' >= items'[j].n
      BY <2>2, <3>2, <3>3, <3>7
    <3> QED BY <2>2, <2>9, <3>8 DEF FitsItem
  <2> QED BY <2>8, <2>9
<1> QED BY <1>4, <1>5 DEF Fits, FitsItems

LEMMA GrownOrdered ==
    ASSUME StoreInv, NEW by, NEW evs, Grown(by, evs), NEW p \in PageRec, Known(p), Ordered(p)
    PROVE  Ordered(p)'
<1> SUFFICES ASSUME NEW j \in 1..Len(items'), NEW k \in 1..Len(items'), j < k, items'[k].id \in Ids(p)
             PROVE  Leads(p, items'[j].id, items'[k].id)
  BY DEF Ordered
<1>0. StoreTypes /\ ItemsInv /\ items' \in Seq(ItemRec)
  BY DEF StoreInv, Grown, Tables
<1>1. items'[k].id \in begun
  BY DEF Known, Ids
<1>2. k \in 1..Len(items) /\ items'[k].id = items[k].id
  BY <1>0, <1>1, RowsOld
<1>3. j # Len(items')
  BY <1>0
<1>4. j \in 1..Len(items) /\ items'[j].id = items[j].id
  BY <1>0, <1>3, RowsOld
<1>5. Leads(p, items[j].id, items[k].id)
  BY <1>2, <1>4 DEF Ordered
<1> QED BY <1>2, <1>4, <1>5

\* What is published waits no more, and comes at the end of the log.
LEMMA PublishedComes ==
    ASSUME StoreTypes, NEW n \in 1..Len(appended), PublishAppended(n), NEW b \in Nat, b <= Len(events)
    PROVE  /\ \A e : Coming(e, b) => Coming(e, b)'
           /\ \A i : Deltas(i, b)' \in Nat /\ Deltas(i, b)' >= Deltas(i, b)
<1> DEFINE evs == appended[n].events
           N == Len(events)
<1>1. /\ Len(evs) \in Nat /\ N \in Nat /\ Len(events') = N + Len(evs)
      /\ \A m \in 1..N : events'[m] = events[m]
      /\ \A q \in 1..Len(evs) : events'[N + q] = evs[q]
      /\ \A e : Waits(e) <=> WillWait(e) \/ In(e, evs)
  BY PublishedIs
<1> HIDE DEF evs
<1>2. \A e : Waits(e)' <=> WillWait(e)
  BY DEF Waits, WillWait
<1>3. \A m \in (b + 1)..N : m \in (b + 1)..Len(events') /\ m \in 1..N /\ events'[m] = events[m]
  BY <1>1
<1>4. \A q \in 1..Len(evs) : N + q \in (b + 1)..Len(events') /\ N + q \notin (b + 1)..N
  BY <1>1
<1>5. ASSUME NEW e, Coming(e, b) PROVE Coming(e, b)'
  <2>1. CASE \E m \in (b + 1)..N : events[m] = e
    BY <1>3, <2>1 DEF Coming
  <2>2. CASE In(e, evs)
    <3>1. PICK q \in 1..Len(evs) : evs[q] = e
      BY <2>2 DEF In
    <3>2. N + q \in (b + 1)..Len(events') /\ events'[N + q] = e
      BY <1>1, <1>4, <3>1
    <3> QED BY <3>2 DEF Coming
  <2>3. CASE WillWait(e)
    BY <1>2, <2>3 DEF Coming
  <2> QED BY <1>1, <1>5, <2>1, <2>2, <2>3 DEF Coming
<1>6. ASSUME NEW i PROVE Deltas(i, b)' \in Nat /\ Deltas(i, b)' >= Deltas(i, b)
  <2> DEFINE delta == Ev("delta", i)
             D == DeltasAt(i, b)
             E == {m \in (b + 1)..Len(events') : events'[m] = delta}
  <2>1. D' = E
    BY DEF DeltasAt
  <2>2. IsFiniteSet(D) /\ Cardinality(D) \in Nat
    BY DeltasIs
  <2>3. IsFiniteSet(E)
    <3>1. IsFiniteSet((b + 1)..Len(events'))
      BY <1>1, FS_Interval
    <3>2. E \in SUBSET ((b + 1)..Len(events'))
      OBVIOUS
    <3> QED BY <3>1, <3>2, FS_Subset
  <2>4. Cardinality(E) \in Nat
    BY <2>3, FS_CardinalityType
  <2>5. D \subseteq E
    BY <1>3 DEF DeltasAt
  <2> DEFINE z == IF WillWait(delta) THEN 1 ELSE 0
             y == IF Waits(delta) THEN 1 ELSE 0
  <2>6. Deltas(i, b) = Cardinality(D) + y
    BY DEF Deltas
  <2>7. Deltas(i, b)' = Cardinality(E) + z
    BY <1>2, <2>1 DEF Deltas
  <2>8. y \in Nat /\ z \in Nat /\ y <= 1
    OBVIOUS
  <2>9. CASE In(delta, evs)
    <3>1. PICK q \in 1..Len(evs) : evs[q] = delta
      BY <2>9 DEF In
    <3>2. N + q \in E /\ N + q \notin D
      BY <1>1, <1>4, <3>1 DEF DeltasAt
    <3> HIDE DEF D, E, y, z, N
    <3>3. Cardinality(D \cup {N + q}) = Cardinality(D) + 1
      BY <2>2, <3>2, FS_AddElement
    <3>4. D \cup {N + q} \in SUBSET E
      BY <2>5, <3>2
    <3>5. Cardinality(D \cup {N + q}) <= Cardinality(E)
      BY <2>3, <3>4, FS_Subset
    <3> QED BY <2>2, <2>4, <2>6, <2>7, <2>8, <3>3, <3>5
  <2>10. CASE ~In(delta, evs)
    <3>1. y = z
      BY <1>1, <2>10
    <3> HIDE DEF D, E, y, z
    <3>2. Cardinality(D) <= Cardinality(E)
      BY <2>3, <2>5, FS_Subset
    <3> QED BY <2>2, <2>4, <2>6, <2>7, <2>8, <3>1, <3>2
  <2> QED BY <2>9, <2>10
<1> QED BY <1>5, <1>6

LEMMA PublishedFits ==
    ASSUME StoreInv, NEW n \in 1..Len(appended), PublishAppended(n), NEW p \in PageRec, NEW c \in ConnRec,
           NEW b \in Nat, b <= Len(events), Fits(p, c, b)
    PROVE  Fits(p, c, b)'
<1>0. StoreTypes /\ items' = items /\ head' = head
  BY DEF StoreInv, PublishAppended
<1>1. /\ \A e : Coming(e, b) => Coming(e, b)'
      /\ \A i : Deltas(i, b)' \in Nat /\ Deltas(i, b)' >= Deltas(i, b)
  BY <1>0, PublishedComes
<1>2. FitsRows(p, b)'
  BY <1>0, <1>1 DEF Fits, FitsRows, HasItem
<1>3. ASSUME NEW m \in 1..Len(p.els), NEW j \in 1..Len(items), p.els[m].id = items[j].id, IsFirst(p, m)
      PROVE  FitsItem(p, c, b, m, j)'
  <2> DEFINE i == items[j].id
  <2>1. FitsItem(p, c, b, m, j)
    BY <1>3 DEF Fits, FitsItems
  <2>2. items[j] \in ItemRec /\ p.els[m] \in Shape
    BY <1>0 DEF StoreTypes, PageRec
  <2>3. i \in ItemID /\ items[j].n \in Nat /\ p.els[m].n \in Nat
    BY <2>2 DEF ItemRec, Shape
  <2>4. c.tails[i] \in TailRec
    BY <2>3 DEF ConnRec
  <2>5. c.tails[i].pending \in Nat /\ Deltas(i, b) \in Nat
    BY <1>0, <2>4, DeltasIs DEF TailRec
  <2>6. CASE items[j].done
    BY <1>0, <1>1, <2>1, <2>6 DEF FitsItem
  <2>7. CASE ~items[j].done
    <3>1. p.els[m].n + c.tails[i].pending + Deltas(i, b) >= items[j].n
      BY <2>1, <2>7 DEF FitsItem
    <3>2. ASSUME NEW a \in Nat, NEW y \in Nat, NEW z \in Nat, NEW v \in Nat, NEW u \in Nat, a + y + z >= v, u >= z
          PROVE  a + y + u >= v
      BY <3>2
    <3>3. \A k : Deltas(k, b)' \in Nat /\ Deltas(k, b)' >= Deltas(k, b)
      BY <1>1
    <3>4. Deltas(i, b)' \in Nat /\ Deltas(i, b)' >= Deltas(i, b)
      BY <1>0, <3>3
    <3>5. p.els[m].n + c.tails[i].pending + Deltas(i, b)' >= items[j].n
      BY <2>3, <2>5, <3>1, <3>2, <3>4
    <3> QED BY <1>0, <2>7, <3>5 DEF FitsItem
  <2> QED BY <2>6, <2>7
<1> QED BY <1>0, <1>2, <1>3 DEF Fits, FitsItems

----------------------------------------------------------------------------
(***************************************************************************)
(* A stream with no redraw to come: nothing was skipped, and render last   *)
(* drew the page or found it as it was.  What its page lacks is to come.   *)
(***************************************************************************)
Fresh(s) == phase[s] = "in" /\ skipped[s] = {} /\ ~RedrawDue(s) /\ ~page.kept

FreshInv ==
    \A s \in Subs, p \in PageRec, c \in ConnRec, b \in Nat :
        Fresh(s) /\ p = page /\ c = conn[s] /\ b = Behind(s) =>
            Fits(p, c, b) /\ (~overtook => Ordered(p))

\* What a proof of FreshInv' for a stream is given.
LEMMA FreshNow ==
    ASSUME StoreInv, TypeOK, Contiguous, PageInv, FreshInv, NEW s \in Subs, Fresh(s)
    PROVE  /\ Behind(s) \in Nat /\ Behind(s) <= Len(events)
           /\ page \in PageRec /\ conn[s] \in ConnRec /\ Known(page)
           /\ Fits(page, conn[s], Behind(s)) /\ (~overtook => Ordered(page))
<1>1. Behind(s) \in Nat /\ Behind(s) <= published
  BY NextMessage DEF Fresh
<1>2. page \in PageRec /\ conn[s] \in ConnRec /\ Known(page)
  BY DEF PageInv
<1>3. published = Len(events)
  BY DEF StoreInv, StoreTypes
<1> QED BY <1>1, <1>2, <1>3 DEF FreshInv

\* The bus passes on, or announces a redraw.
LEMMA TransportKeeps ==
    ASSUME TypeOK, SenderInv, NEW r \in Subs, Transport(r), NEW s \in Subs, Fresh(s)'
    PROVE  Fresh(s) /\ Behind(s)' = Behind(s)
<1> DEFINE Goal == Fresh(s) /\ Behind(s)' = Behind(s)
<1>0. /\ page' = page /\ phase'[s] = "in" /\ skipped'[s] = {} /\ ~page'.kept
      /\ ~drawing'[s] /\ ~In(Resync, buf'[s]) /\ sender'[s] # "sending"
  BY DEF Transport, Fresh, RedrawDue, In
<1>1. /\ buf \in [Subs -> Seq(Message \cup {Resync})] /\ todo \in [Subs -> Seq(Message)]
      /\ phase \in [Subs -> {"out", "in", "left", "closed"}] /\ dropped \in [Subs -> BOOLEAN]
      /\ sender \in [Subs -> {"none", "sending", "sent"}] /\ skipped \in [Subs -> SUBSET Message]
      /\ published \in Nat
  BY DEF TypeOK
<1>2. ASSUME UNCHANGED <<published, drawing>>, phase[s] = "in", skipped[s] = {}, sender[s] # "sending",
             buf'[s] = buf[s], todo'[s] = todo[s]
      PROVE  Goal
  BY <1>0, <1>2 DEF Fresh, RedrawDue, Behind
<1>3. CASE Deliver(r)
  <2>0. UNCHANGED <<published, phase, drawing>> /\ todo[r] # <<>> /\ todo' = [todo EXCEPT ![r] = Tail(@)]
    BY <1>3 DEF Deliver
  <2>1. CASE SkipDropped(r)
    <3>1. CASE r = s
      <4>1. sender[s] = "sent"
        <5>1. sender' = sender /\ dropped[s]
          BY <2>1, <3>1 DEF SkipDropped
        <5> QED BY <1>0, <1>1, <2>0, <5>1 DEF SenderInv, DroppedHasSender
      <4>2. skipped' = [skipped EXCEPT ![s] = @ \cup {Head(todo[s])}]
        BY <2>1, <3>1, <4>1 DEF SkipDropped
      <4> QED BY <1>0, <1>1, <4>2
    <3>2. CASE r # s
      <4>1. UNCHANGED <<buf, dropped, sender>> /\ todo'[s] = todo[s] /\ skipped'[s] = skipped[s]
        BY <1>1, <2>0, <2>1, <3>2 DEF SkipDropped
      <4> QED BY <1>0, <1>2, <2>0, <4>1
    <3> QED BY <3>1, <3>2
  <2>2. CASE SendMessage(r)
    <3>0. buf' = [buf EXCEPT ![r] = Append(@, Head(todo[r]))] /\ UNCHANGED <<dropped, sender, skipped>>
      BY <2>2 DEF SendMessage
    <3>1. CASE r = s
      <4> DEFINE q == buf[s]
                 t == todo[s]
                 m == Head(t)
      <4>1. buf'[s] = Append(q, m) /\ todo'[s] = Tail(t) /\ t # <<>>
        BY <1>1, <2>0, <3>0, <3>1
      <4>2. q \in Seq(Message \cup {Resync}) /\ t \in Seq(Message)
        BY <1>1
      <4> HIDE DEF q, t
      <4>3. m \in Message /\ Len(Tail(t)) = Len(t) - 1 /\ Len(t) \in Nat
        BY <4>1, <4>2
      <4> HIDE DEF m
      <4>4. /\ Len(Append(q, m)) = Len(q) + 1 /\ Len(q) \in Nat
            /\ \A k \in 1..Len(q) : k \in 1..(Len(q) + 1) /\ Append(q, m)[k] = q[k]
        BY <4>2, <4>3
      <4>5. ~In(Resync, q)
        BY <1>0, <4>1, <4>4 DEF In
      <4>6. Behind(s)' = published - Len(Tail(t)) - Len(Append(q, m))
        BY <2>0, <4>1 DEF Behind
      <4>7. Behind(s) = published - Len(t) - Len(q)
        BY DEF Behind, q, t
      <4>8. Behind(s)' = Behind(s)
        <5> DEFINE x == Len(t)
                   y == Len(q)
                   v == Behind(s)
                   w == Behind(s)'
        <5>1. published \in Nat /\ x \in Nat /\ y \in Nat
          BY <1>1, <4>3, <4>4
        <5>2. w = published - (x - 1) - (y + 1) /\ v = published - x - y
          BY <4>3, <4>4, <4>6, <4>7
        <5> HIDE DEF x, y, v, w
        <5>3. w = v
          BY <5>1, <5>2
        <5> QED BY <5>3 DEF v, w
      <4>9. Fresh(s)
        BY <1>0, <2>0, <3>0, <4>5 DEF Fresh, RedrawDue, q
      <4> QED BY <4>8, <4>9
    <3>2. CASE r # s
      <4>1. buf'[s] = buf[s] /\ todo'[s] = todo[s]
        BY <1>1, <2>0, <3>0, <3>2
      <4> QED BY <1>0, <1>2, <2>0, <3>0, <4>1
    <3> QED BY <3>1, <3>2
  <2>3. CASE Overflow(r)
    <3>0. sender' = [sender EXCEPT ![r] = "sending"] /\ UNCHANGED <<buf, skipped>>
      BY <2>3 DEF Overflow
    <3>1. r # s
      BY <1>0, <1>1, <3>0
    <3>2. todo'[s] = todo[s] /\ sender'[s] = sender[s]
      BY <1>1, <2>0, <3>0, <3>1
    <3> QED BY <1>0, <1>2, <2>0, <3>0, <3>2
  <2> QED BY <1>3, <2>1, <2>2, <2>3 DEF Deliver
<1>4. CASE SendMarker(r)
  <2>0. /\ buf' = [buf EXCEPT ![r] = Append(@, Resync)] /\ sender' = [sender EXCEPT ![r] = "sent"]
        /\ UNCHANGED <<published, todo, phase, drawing, skipped>>
    BY <1>4 DEF SendMarker, readVars
  <2>1. r # s
    <3> SUFFICES ASSUME r = s PROVE FALSE
      OBVIOUS
    <3> DEFINE q == buf[s]
    <3>1. buf'[s] = Append(q, Resync) /\ q \in Seq(Message \cup {Resync})
      BY <1>1, <2>0
    <3> HIDE DEF q
    <3>2. Len(Append(q, Resync)) \in 1..Len(Append(q, Resync)) /\ Append(q, Resync)[Len(Append(q, Resync))] = Resync
      BY <3>1
    <3> QED BY <1>0, <3>1, <3>2 DEF In
  <2>2. buf'[s] = buf[s] /\ sender'[s] = sender[s]
    BY <1>1, <2>0, <2>1
  <2> QED BY <1>0, <1>2, <2>0, <2>2
<1>5. CASE ClearDropped(r)
  <2>0. /\ sender[r] = "sent" /\ sender' = [sender EXCEPT ![r] = "none"]
        /\ UNCHANGED <<published, todo, phase, buf, drawing, skipped>>
    BY <1>5 DEF ClearDropped, readVars
  <2>1. sender[s] # "sending"
    BY <1>0, <1>1, <2>0
  <2> QED BY <1>0, <1>2, <2>0, <2>1
<1>6. CASE AbandonMarker(r)
  <2>0. /\ phase[r] = "left" /\ sender' = [sender EXCEPT ![r] = "none"]
        /\ UNCHANGED <<published, todo, phase, buf, drawing, skipped>>
    BY <1>6 DEF AbandonMarker, readVars
  <2>1. sender[s] # "sending"
    BY <1>0, <1>1, <2>0
  <2> QED BY <1>0, <1>2, <2>0, <2>1
<1>7. CASE CloseChan(r)
  <2>0. /\ phase' = [phase EXCEPT ![r] = "closed"]
        /\ UNCHANGED <<published, todo, sender, buf, drawing, skipped>>
    BY <1>7 DEF CloseChan, readVars
  <2>1. phase[s] = "in"
    BY <1>0, <1>1, <2>0
  <2> QED BY <1>0, <1>2, <2>0, <2>1
<1> QED BY <1>3, <1>4, <1>5, <1>6, <1>7 DEF Transport

\* What the store does leaves a fresh stream as it is.
LEMMA StoreStepFresh ==
    ASSUME StoreInv, TypeOK, Contiguous, PageInv, FreshInv, Appends, NEW s \in Subs, Fresh(s)',
           NEW p \in PageRec, NEW c \in ConnRec, NEW b \in Nat, p = page', c = conn'[s], b = Behind(s)'
    PROVE  Fits(p, c, b)' /\ (~overtook' => Ordered(p)')
<1> DEFINE Goal == Fits(p, c, b)' /\ (~overtook' => Ordered(p)')
<1>0. StoreTypes /\ ItemsInv
  BY DEF StoreInv
<1>1. ASSUME NEW by, NEW evs, Grown(by, evs) PROVE Goal
  <2>1. UNCHANGED <<vars, page, conn, overtook>>
    BY <1>1 DEF Grown, Appending
  <2>2. UNCHANGED <<published, todo, phase, buf, dropped, sender, drawing, known, skipped, page, conn>>
    BY <2>1 DEF vars
  <2>3. Fresh(s)
    BY <2>2 DEF Fresh, RedrawDue, In
  <2>4. p = page /\ c = conn[s] /\ b = Behind(s)
    BY <2>2 DEF Behind
  <2>5. Known(p) /\ Fits(p, c, b) /\ (~overtook => Ordered(p))
    BY <2>3, <2>4, FreshNow
  <2>6. Fits(p, c, b)'
    BY <1>1, <2>5, GrownFits
  <2>7. Ordered(p) => Ordered(p)'
    BY <1>1, <2>5, GrownOrdered
  <2> QED BY <2>1, <2>5, <2>6, <2>7
<1>2. ASSUME NEW n \in 1..Len(appended), PublishAppended(n) PROVE Goal
  <2> DEFINE k == Len(appended[n].events)
  <2>1. /\ Publish(k) /\ UNCHANGED <<page, conn>>
    BY <1>2 DEF PublishAppended
  <2>2. k \in Nat
    BY <1>0, <1>2, PublishedIs
  <2> HIDE DEF k
  <2>3. /\ todo[s] = <<>> /\ published' = published + k
        /\ todo' = [r \in Subs |-> IF phase[r] = "in" THEN Batch(k) ELSE <<>>]
        /\ UNCHANGED <<phase, buf, sender, drawing, skipped>>
    BY <2>1 DEF Publish, MuFree
  <2>4. Fresh(s)
    BY <2>1, <2>3 DEF Fresh, RedrawDue, In
  <2>5. todo'[s] = Batch(k) /\ Len(Batch(k)) = k
    BY <2>2, <2>3, <2>4 DEF Fresh, Batch
  <2>6. Behind(s)' = Behind(s)
    <3>1. published \in Nat /\ Len(buf[s]) \in Nat
      BY <1>0 DEF StoreTypes, TypeOK
    <3>2. Behind(s) = published - 0 - Len(buf[s])
      BY <2>3 DEF Behind
    <3>3. Behind(s)' = (published + k) - k - Len(buf[s])
      BY <2>3, <2>5 DEF Behind
    <3> QED BY <2>2, <3>1, <3>2, <3>3
  <2>7. p = page /\ c = conn[s] /\ b = Behind(s)
    BY <2>1, <2>6
  <2>8. b <= Len(events) /\ Fits(p, c, b) /\ (~overtook => Ordered(p))
    BY <2>4, <2>7, FreshNow
  <2>9. Fits(p, c, b)'
    BY <1>2, <2>8, PublishedFits
  <2>10. ~overtook' => ~overtook
    BY <1>0, <1>2, PublishedIs
  <2>11. Ordered(p) => Ordered(p)'
    <3>1. items' = items
      BY <1>2 DEF PublishAppended
    <3> QED BY <3>1 DEF Ordered
  <2> QED BY <2>8, <2>9, <2>10, <2>11
<1> QED BY <1>0, <1>1, <1>2, CommitGrows

\* A message taken when no redraw is to come is the next one.
LEMMA TakenFresh ==
    ASSUME StoreInv, TypeOK, Contiguous, PageInv, FreshInv, NEW s \in Subs, Take(s), Fresh(s)'
    PROVE  Fits(page', conn'[s], Behind(s) + 1) /\ (~overtook => Ordered(page'))
           /\ Behind(s)' = Behind(s) + 1 /\ Behind(s) \in Nat
<1>0. /\ StoreTypes /\ ItemsInv /\ page \in PageRec /\ conn \in [Subs -> ConnRec] /\ conn[s] \in ConnRec
      /\ Known(page) /\ buf \in [Subs -> Seq(Message \cup {Resync})] /\ drawing \in [Subs -> BOOLEAN]
  BY DEF StoreInv, PageInv, TypeOK
<1>1. /\ ~drawing[s] /\ buf[s] # <<>> /\ buf' = [buf EXCEPT ![s] = Tail(@)]
      /\ UNCHANGED <<published, todo, phase, sender, skipped>>
      /\ Head(buf[s]) = Resync => drawing' = [drawing EXCEPT ![s] = TRUE]
  BY DEF Take, Receive, subVars
<1>2. /\ phase'[s] = "in" /\ skipped'[s] = {} /\ ~page'.kept
      /\ ~drawing'[s] /\ ~In(Resync, buf'[s]) /\ sender'[s] # "sending"
  BY DEF Fresh, RedrawDue, In
<1>3. Head(buf[s]) # Resync
  BY <1>0, <1>1, <1>2
<1> DEFINE q == buf[s]
<1>4. q \in Seq(Message \cup {Resync}) /\ q # <<>> /\ buf'[s] = Tail(q)
  BY <1>0, <1>1
<1>5. ~RedrawDue(s)
  <2>1. ~In(Resync, q)
    <3> HIDE DEF q
    <3>1. \A k \in 1..Len(q) : k = 1 \/ (k - 1 \in 1..Len(Tail(q)) /\ Tail(q)[k - 1] = q[k])
      BY <1>4
    <3>2. q[1] # Resync
      BY <1>3, <1>4 DEF q
    <3> QED BY <1>2, <1>4, <3>1, <3>2 DEF In
  <2> QED BY <1>1, <1>2, <2>1 DEF RedrawDue
<1>6. /\ Behind(s) \in Nat /\ Behind(s) <= published /\ Head(q) = Behind(s) + 1
  BY <1>1, <1>2, <1>5, NextMessage
<1>7. Behind(s)' = Behind(s) + 1
  <2>1. Len(Tail(q)) = Len(q) - 1 /\ Len(q) \in Nat
    <3> HIDE DEF q
    <3> QED BY <1>4
  <2>2. Behind(s)' = published - Len(todo[s]) - Len(Tail(q)) /\ Behind(s) = published - Len(todo[s]) - Len(q)
    BY <1>1, <1>4 DEF Behind
  <2>3. published \in Nat /\ Len(todo[s]) \in Nat
    BY DEF TypeOK
  <2> DEFINE x == Len(todo[s])
             y == Len(q)
             v == Behind(s)
             w == Behind(s)'
  <2>4. w = published - x - (y - 1) /\ v = published - x - y
    BY <2>1, <2>2
  <2> HIDE DEF x, y, v, w
  <2>5. x \in Nat /\ y \in Nat
    BY <2>1, <2>3 DEF x, y
  <2>6. w = v + 1
    BY <2>3, <2>4, <2>5
  <2> QED BY <2>6 DEF v, w
<1>8. Head(q) \in 1..Len(events) /\ Said(s) \in Event
  BY <1>0, <1>1, <1>3, SaidIs
<1>9. PICK f, g : Handled(page, conn[s], Said(s), f, g) /\ Shows(s, f, g)
  BY <1>3, TakeHandles
<1>10. page' = f /\ conn'[s] = g
  BY <1>0, <1>9 DEF Shows
<1> DEFINE b == Behind(s)
<1>11. Said(s) = events[b + 1] /\ b < Len(events)
  <2>1. b + 1 \in 1..Len(events) /\ Len(events) \in Nat
    BY <1>0, <1>6, <1>8 DEF StoreTypes
  <2> QED BY <1>6, <2>1 DEF Said
<1>12. /\ f \in PageRec /\ g \in ConnRec
       /\ Said(s).kind # "rewound" => f.kept = page.kept
       /\ Said(s).kind = "rewound" => f.kept \/ (Exact(f) /\ \A i \in ItemID : g.tails[i].pending = 0)
  BY <1>0, <1>8, <1>9, HandledIs
<1>13. CASE Said(s).kind = "rewound"
  <2>1. Exact(f) /\ \A i \in ItemID : g.tails[i].pending = 0
    BY <1>2, <1>10, <1>12, <1>13
  <2>2. b + 1 \in Nat
    BY <1>6
  <2>3. Fits(f, g, b + 1) /\ Ordered(f)
    BY <1>12, <2>1, <2>2, ExactFits
  <2> QED BY <1>6, <1>7, <1>10, <2>3
<1>14. CASE Said(s).kind # "rewound"
  <2>1. Fresh(s)
    BY <1>1, <1>2, <1>5, <1>10, <1>12, <1>14 DEF Fresh
  <2>2. Fits(page, conn[s], b) /\ (~overtook => Ordered(page))
    BY <2>1, FreshNow
  <2>3. Handled(page, conn[s], events[b + 1], f, g) /\ events[b + 1].kind # "rewound"
    BY <1>9, <1>11, <1>14
  <2>4. b \in Nat /\ b < Len(events)
    BY <1>6, <1>11
  <2> HIDE DEF b
  <2>5. Fits(f, g, b + 1) /\ (~overtook /\ Ordered(page) => Ordered(f))
    BY <1>0, <2>2, <2>3, <2>4, HandledFits
  <2> QED BY <1>6, <1>7, <1>10, <2>2, <2>5 DEF b
<1> QED BY <1>13, <1>14

LEMMA FreshStep ==
    StoreInv /\ TypeOK /\ SenderInv /\ Contiguous /\ PageInv /\ FreshInv /\ [PagesNext]_pagesVars => FreshInv'
<1> SUFFICES ASSUME StoreInv, TypeOK, SenderInv, Contiguous, PageInv, FreshInv, [PagesNext]_pagesVars,
                    NEW s \in Subs, NEW p \in PageRec, NEW c \in ConnRec, NEW b \in Nat,
                    Fresh(s)', p = page', c = conn'[s], b = Behind(s)'
             PROVE  Fits(p, c, b)' /\ (~overtook' => Ordered(p)')
  BY DEF FreshInv
<1> DEFINE Goal == Fits(p, c, b)' /\ (~overtook' => Ordered(p)')
<1>0. /\ StoreTypes /\ ItemsInv /\ Streams /\ page \in PageRec /\ conn \in [Subs -> ConnRec] /\ conn[s] \in ConnRec
      /\ Known(page) /\ phase \in [Subs -> {"out", "in", "left", "closed"}] /\ drawing \in [Subs -> BOOLEAN]
  BY DEF StoreInv, PageInv, TypeOK
<1>1. phase'[s] = "in" /\ ~drawing'[s] /\ ~p.kept
  BY DEF Fresh, RedrawDue
<1>2. ASSUME UNCHANGED storeVars, Fits(p, c, b), ~overtook => Ordered(p) PROVE Goal
  <2>1. overtook' = overtook
    BY <1>2 DEF storeVars, logVars
  <2> QED BY <1>2, <2>1, StoreStillFits
<1>3. ASSUME NEW r \in Subs, phase[r] = "in", phase[s] = "in" PROVE r = s
  <2>1. page.stream = {r} /\ page.stream = {s}
    BY <1>0, <1>3 DEF Streams
  <2> QED BY <2>1
<1>4. CASE Appends
  BY <1>4, StoreStepFresh
<1>5. ASSUME NEW r \in Subs, Connect(r) PROVE Goal
  <2>1. page.stream = {} /\ phase' = [phase EXCEPT ![r] = "in"] /\ drawing' = [drawing EXCEPT ![r] = TRUE]
    BY <1>5 DEF Connect, Subscribe
  <2>2. r # s
    BY <1>0, <1>1, <2>1
  <2>3. phase[s] = "in"
    BY <1>0, <1>1, <2>1, <2>2
  <2> QED BY <1>0, <2>1, <2>3 DEF Streams
<1>6. ASSUME NEW r \in Subs, Disconnect(r) PROVE Goal
  <2>1. phase[r] = "in" /\ phase' = [phase EXCEPT ![r] = "left"]
    BY <1>6 DEF Disconnect, Unsubscribe
  <2>2. r # s /\ phase[s] = "in"
    BY <1>0, <1>1, <2>1
  <2> QED BY <1>3, <2>1, <2>2
<1>7. ASSUME NEW r \in Subs, Draw(r) PROVE Goal
  <2>1. phase[r] = "in" /\ UNCHANGED phase /\ UNCHANGED storeVars
        /\ Shows(r, DrawnPage(page, conn[r]), DrawnConn(conn[r]))
    BY <1>7 DEF Draw, Redraw, subVars
  <2>2. r = s
    BY <1>1, <1>3, <2>1
  <2>3. p = DrawnPage(page, conn[s]) /\ c = DrawnConn(conn[s])
    BY <1>0, <2>1, <2>2 DEF Shows
  <2>4. /\ DrawnPage(page, conn[s]).kept \/ Exact(DrawnPage(page, conn[s]))
        /\ \A i \in ItemID : DrawnConn(conn[s]).tails[i].pending = 0
    BY <1>0, DrawnIs
  <2>5. Exact(p) /\ \A i \in ItemID : c.tails[i].pending = 0
    BY <1>1, <2>3, <2>4
  <2>6. Fits(p, c, b) /\ Ordered(p)
    BY <2>5, ExactFits
  <2> QED BY <1>2, <2>1, <2>6
<1>8. ASSUME NEW r \in Subs, Take(r) PROVE Goal
  <2>1. r \in page.stream /\ UNCHANGED phase /\ UNCHANGED storeVars
    BY <1>8 DEF Take, Receive, subVars
  <2>2. r = s
    BY <1>0, <1>1, <1>3, <2>1 DEF Streams
  <2>3. Fits(p, c, b) /\ (~overtook => Ordered(p))
    BY <1>8, <2>2, TakenFresh
  <2> QED BY <1>2, <2>1, <2>3
<1>9. ASSUME NEW r \in Subs, Flush(r) PROVE Goal
  <2>1. phase[r] = "in" /\ UNCHANGED vars /\ UNCHANGED storeVars
    BY <1>9 DEF Flush
  <2>2. UNCHANGED <<published, todo, phase, buf, sender, drawing, skipped>>
    BY <2>1 DEF vars
  <2>3. r = s
    BY <1>1, <1>3, <2>1, <2>2
  <2>4. PICK w \in Wholes(conn[s]) : Shows(s, FlushedPage(page, conn[s], w), FlushedConn(conn[s], w))
    BY <1>9, <2>3 DEF Flush
  <2>5. p = FlushedPage(page, conn[s], w) /\ c = FlushedConn(conn[s], w)
    BY <1>0, <2>4 DEF Shows
  <2> DEFINE q == FlushedPage(page, conn[s], w)
  <2>6. /\ q \in PageRec /\ q.kept = page.kept
        /\ Len(q.els) = Len(page.els) /\ \A n \in 1..Len(page.els) : q.els[n].id = page.els[n].id
    BY <1>0, FlushedPageIs
  <2> HIDE DEF q
  <2>7. Ordered(page) => Ordered(q)
    BY <1>0, <2>6, SameRows
  <2>8. Fresh(s)
    BY <1>1, <2>2, <2>5, <2>6 DEF Fresh, RedrawDue, In, q
  <2>9. b = Behind(s)
    BY <2>2 DEF Behind
  <2>10. Fits(page, conn[s], b) /\ (~overtook => Ordered(page))
    BY <2>8, <2>9, FreshNow
  <2>11. Fits(p, c, b)
    BY <1>0, <2>5, <2>10, FlushFits
  <2>12. ~overtook => Ordered(p)
    BY <2>5, <2>7, <2>10 DEF q
  <2> QED BY <1>2, <2>1, <2>11, <2>12
<1>10. ASSUME NEW r \in Subs, Transport(r) PROVE Goal
  <2>1. Fresh(s) /\ Behind(s)' = Behind(s)
    BY <1>10, TransportKeeps
  <2>2. UNCHANGED storeVars /\ p = page /\ c = conn[s] /\ b = Behind(s)
    BY <1>10, <2>1 DEF Transport
  <2>3. Fits(p, c, b) /\ (~overtook => Ordered(p))
    BY <2>1, <2>2, FreshNow
  <2> QED BY <1>2, <2>2, <2>3
<1>11. CASE UNCHANGED pagesVars
  <2>1. UNCHANGED <<published, todo, phase, buf, sender, drawing, skipped, page, conn>> /\ UNCHANGED storeVars
    BY <1>11 DEF pagesVars, vars
  <2>2. Fresh(s) /\ b = Behind(s) /\ p = page /\ c = conn[s]
    BY <2>1 DEF Fresh, RedrawDue, In, Behind
  <2>3. Fits(p, c, b) /\ (~overtook => Ordered(p))
    BY <2>2, FreshNow
  <2> QED BY <1>2, <2>1, <2>3
<1> QED BY <1>4, <1>5, <1>6, <1>7, <1>8, <1>9, <1>10, <1>11 DEF PagesNext

LEMMA PageStart == PagesInit => PageInv /\ FreshInv
<1> SUFFICES ASSUME PagesInit PROVE PageInv /\ FreshInv
  OBVIOUS
<1>1. /\ page = [els |-> <<>>, head |-> 0, mainv |-> Unhashed, kept |-> FALSE, stream |-> {}]
      /\ conn = [s \in Subs |-> NoConn] /\ phase = [s \in Subs |-> "out"]
  BY DEF PagesInit, Init
<1>2. <<>> \in Seq(Shape) /\ 1..Len(<<>>) = {} /\ Unhashed \in MarkupSet
  BY DEF MarkupSet
<1>3. page \in PageRec /\ Known(page) /\ page.stream = {}
  BY <1>1, <1>2 DEF PageRec, Known
<1>4. NoConn \in ConnRec
  BY <1>2, TailsAre DEF NoConn, ConnRec
<1>5. \A s \in Subs : phase[s] # "in"
  BY <1>1
<1> QED BY <1>1, <1>3, <1>4, <1>5 DEF PageInv, Streams, FreshInv, Fresh

\* Whenever no redraw of a connected page is to come, the page fits: what it
\* lacks is in messages its stream has not taken, in appends that are not
\* published, or in what waits for the flush tick (events.go:49-98, 219-273,
\* 550-833).
THEOREM PagesInvariance == PagesSpec => [](PageInv /\ FreshInv)
<1> DEFINE Whole == StoreInv /\ TypeOK /\ SenderInv /\ Contiguous
<1>1. IInv => TypeOK /\ SenderInv
  BY DEF IInv, SenderInv
<1>2. PagesSpec => []Whole
  BY <1>1, StoreInvariance, PagesImplementsBus, Invariance, NothingMissingBetween, PTL
<1>3. PageInv /\ FreshInv /\ Whole /\ [PagesNext]_pagesVars => PageInv' /\ FreshInv'
  BY PageStep, FreshStep
<1> HIDE DEF Whole
<1> QED BY <1>2, <1>3, PageStart, PTL DEF PagesSpec

----------------------------------------------------------------------------
(***************************************************************************)
(* A stream at rest.  A set of numbers has a least one: a set with 0 that  *)
(* has the successors of its numbers lacks none, since the numbers below m *)
(* that it lacks are finitely many, and the predecessor maps them into     *)
(* themselves without m.                                                   *)
(***************************************************************************)
LEMMA Induction ==
    ASSUME NEW T, 0 \in T, \A n \in Nat : n \in T => n + 1 \in T
    PROVE  \A m \in Nat : m \in T
<1> SUFFICES ASSUME NEW m \in Nat, m \notin T PROVE FALSE
  OBVIOUS
<1> DEFINE U == {k \in 0..m : k \notin T}
           f == [k \in U |-> k - 1]
<1>1. IsFiniteSet(U) /\ m \in U
  <2>1. IsFiniteSet(0..m)
    BY FS_Interval
  <2> QED BY <2>1, FS_Subset
<1>2. \A k \in U : k - 1 \in U \ {m}
  <2> SUFFICES ASSUME NEW k \in U PROVE k - 1 \in U \ {m}
    OBVIOUS
  <2>1. k - 1 \in Nat /\ k - 1 \in 0..m /\ k - 1 # m /\ (k - 1) + 1 = k
    OBVIOUS
  <2>2. k - 1 \notin T
    BY <2>1
  <2> QED BY <2>1, <2>2
<1>3. f \in Injection(U, U \ {m})
  BY <1>2 DEF Injection, IsInjective
<1>4. IsFiniteSet(U \ {m}) /\ Cardinality(U \ {m}) = Cardinality(U) - 1 /\ Cardinality(U) \in Nat
  BY <1>1, FS_RemoveElement, FS_CardinalityType
<1>5. Cardinality(U) <= Cardinality(U \ {m})
  BY <1>3, <1>4, FS_Injection
<1> QED BY <1>4, <1>5

LEMMA Least ==
    ASSUME NEW S \in SUBSET Nat, NEW n \in S
    PROVE  \E m \in S : \A k \in S : m <= k
<1> SUFFICES ASSUME \A m \in S : \E k \in S : k < m PROVE FALSE
  OBVIOUS
<1> DEFINE T == {m \in Nat : \A k \in 0..m : k \notin S}
<1>1. 0 \in T
  OBVIOUS
<1>2. ASSUME NEW m \in Nat, m \in T PROVE m + 1 \in T
  <2>1. \A k \in S : ~(k < m + 1)
    BY <1>2
  <2>2. m + 1 \notin S
    BY <2>1
  <2>3. \A k \in 0..(m + 1) : k \in 0..m \/ k = m + 1
    OBVIOUS
  <2> QED BY <1>2, <2>2, <2>3
<1> HIDE DEF T
<1>3. n \in T
  BY <1>1, <1>2, Induction, Zenon
<1> QED BY <1>3 DEF T

\* An item on the page has a first element there.
LEMMA FirstThere ==
    ASSUME NEW p \in PageRec, NEW i \in Ids(p)
    PROVE  \E n \in 1..Len(p.els) : p.els[n].id = i /\ IsFirst(p, n) /\ First(p, i) = n
<1> DEFINE S == {n \in 1..Len(p.els) : p.els[n].id = i}
<1>1. Len(p.els) \in Nat
  BY DEF PageRec
<1>2. PICK k \in S : TRUE
  BY DEF Ids
<1>3. S \in SUBSET Nat
  BY <1>1
<1>4. PICK n \in S : \A m \in S : n <= m
  BY <1>2, <1>3, Least
<1>5. n \in 1..Len(p.els) /\ p.els[n].id = i
  OBVIOUS
<1>6. ASSUME NEW m \in 1..(n - 1) PROVE p.els[m].id # i
  <2>1. m \in 1..Len(p.els) /\ ~(n <= m)
    BY <1>1, <1>5
  <2> QED BY <1>4, <2>1
<1>7. IsFirst(p, n)
  BY <1>5, <1>6 DEF IsFirst
<1> QED BY <1>5, <1>7, FirstIs

\* At rest nothing is to come.
LEMMA NothingComes ==
    ASSUME StoreInv, appended = <<>>
    PROVE  /\ \A e : ~Coming(e, Len(events))
           /\ \A i : Deltas(i, Len(events)) = 0
<1>1. Len(events) \in Nat
  BY DEF StoreInv, StoreTypes
<1>2. \A e : ~Waits(e)
  <2>1. 1..Len(<<>>) = {}
    OBVIOUS
  <2> QED BY <2>1 DEF Waits
<1>3. (Len(events) + 1)..Len(events) = {}
  BY <1>1
<1>4. \A i : DeltasAt(i, Len(events)) = {}
  BY <1>3 DEF DeltasAt
<1>5. Cardinality({}) = 0
  BY FS_EmptySet
<1>6. \A i : Deltas(i, Len(events)) = 0
  BY <1>2, <1>4, <1>5 DEF Deltas
<1> QED BY <1>2, <1>3, <1>6 DEF Coming

LEMMA AtRestCurrent ==
    ASSUME StoreInv, TypeOK, PageInv, FreshInv, NEW s \in Subs, AtRest(s), skipped[s] = {}, ~page.kept
    PROVE  Current /\ (~overtook => Ordered(page))
<1> DEFINE N == Len(events)
           c == conn[s]
<1>0. /\ StoreTypes /\ ItemsInv /\ page \in PageRec /\ c \in ConnRec /\ N \in Nat /\ published = N
  BY DEF StoreInv, StoreTypes, PageInv
<1>1. /\ phase[s] = "in" /\ ~drawing[s] /\ sender[s] = "none" /\ buf[s] = <<>> /\ todo[s] = <<>>
      /\ appended = <<>> /\ c.dirty = {} /\ Pending(c) = {}
  BY DEF AtRest
<1>2. Fresh(s)
  <2>1. 1..Len(<<>>) = {}
    OBVIOUS
  <2> QED BY <1>1, <2>1 DEF Fresh, RedrawDue, In
<1>3. Behind(s) = N
  <2>1. Len(<<>>) = 0
    OBVIOUS
  <2>2. Behind(s) = published - 0 - 0
    BY <1>1, <2>1 DEF Behind
  <2> QED BY <1>0, <2>2
<1>4. Fits(page, c, N) /\ (~overtook => Ordered(page))
  BY <1>0, <1>2, <1>3 DEF FreshInv
<1>5. (\A e : ~Coming(e, N)) /\ \A i : Deltas(i, N) = 0
  BY <1>1, NothingComes
<1>6. \A i \in ItemID : c.tails[i].pending = 0
  <2> SUFFICES ASSUME NEW i \in ItemID PROVE c.tails[i].pending = 0
    OBVIOUS
  <2>1. c.tails[i] \in TailRec
    BY <1>0 DEF ConnRec
  <2>2. c.tails[i].pending \in Nat /\ ~(c.tails[i].pending > 0)
    BY <1>1, <2>1 DEF TailRec, Pending
  <2> QED BY <2>2
<1> HIDE DEF N, c
<1>7. /\ page.head = head
      /\ \A j \in 1..Len(items) : items[j].id \in Ids(page)
      /\ \A n \in 1..Len(page.els) : HasItem(page.els[n].id)
  BY <1>4, <1>5 DEF Fits, FitsRows
<1>8. SameItems
  <2>1. \A n \in 1..Len(page.els) : \E j \in 1..Len(items) : page.els[n].id = items[j].id
    <3> SUFFICES ASSUME NEW n \in 1..Len(page.els) PROVE \E j \in 1..Len(items) : page.els[n].id = items[j].id
      OBVIOUS
    <3>1. HasItem(page.els[n].id)
      BY <1>7
    <3> QED BY <3>1 DEF HasItem
  <2>2. Ids(page) \subseteq {items[n].id : n \in 1..Len(items)}
    BY <2>1 DEF Ids
  <2>3. {items[n].id : n \in 1..Len(items)} \subseteq Ids(page)
    BY <1>7
  <2> QED BY <2>2, <2>3 DEF SameItems
<1>9. ASSUME NEW i \in Ids(page) PROVE ShownWell(i)
  <2>1. PICK n \in 1..Len(page.els) : page.els[n].id = i /\ IsFirst(page, n) /\ First(page, i) = n
    BY <1>0, FirstThere
  <2>2. PICK j \in 1..Len(items) : items[j].id = i
    BY <1>7, <2>1 DEF HasItem
  <2>3. ItemOf(i) = items[j]
    BY <1>0, <2>2, ItemOfIs
  <2>4. FitsItem(page, c, N, n, j)
    BY <1>4, <2>1, <2>2 DEF Fits, FitsItems
  <2>5. items[j] \in ItemRec /\ page.els[n] \in Shape
    BY <1>0 DEF StoreTypes, PageRec
  <2>6. i \in ItemID /\ page.els[n].n \in Nat /\ items[j].n \in Nat
    BY <2>2, <2>5 DEF ItemRec, Shape
  <2>7. c.tails[i].pending = 0 /\ Deltas(i, N) = 0
    BY <1>5, <1>6, <2>6
  <2>8. CASE items[j].done
    <3>1. page.els[n].n = items[j].n
      BY <1>1, <1>5, <2>4, <2>8 DEF FitsItem
    <3> QED BY <2>1, <2>3, <2>8, <3>1 DEF ShownWell
  <2>9. CASE ~items[j].done
    <3>1. page.els[n].n + c.tails[i].pending + Deltas(i, N) >= items[j].n
      BY <2>2, <2>4, <2>9 DEF FitsItem
    <3>2. page.els[n].n >= items[j].n
      BY <2>6, <2>7, <3>1
    <3> QED BY <2>1, <2>3, <2>9, <3>2 DEF ShownWell
  <2> QED BY <2>8, <2>9
<1> QED BY <1>4, <1>7, <1>8, <1>9 DEF Current

\* A page whose stream is at rest shows the thread as the store has it, unless
\* the bus skipped messages after its marker or render skipped a redraw because
\* the markup was the one the page last got whole (events.go:49-74, 219-273,
\* 657-833).
THEOREM RestingPageHolds == PagesSpec => []RestingPage
<1>1. StoreInv /\ TypeOK /\ PageInv /\ FreshInv => RestingPage
  <2> SUFFICES ASSUME StoreInv, TypeOK, PageInv, FreshInv, NEW s \in Subs, AtRest(s), skipped[s] = {}, ~page.kept
               PROVE  Current
    BY DEF RestingPage
  <2> QED BY AtRestCurrent
<1> QED BY <1>1, StoreInvariance, PagesImplementsBus, TypeCorrect, PagesInvariance, PTL

\* Such a page has the items in the order of the store, each where it came
\* first, unless an append was published before one that was committed earlier
\* (store.go:288-295, events.go:74).
THEOREM RestingOrderHolds == PagesSpec => []RestingOrder
<1>1. StoreInv /\ TypeOK /\ PageInv /\ FreshInv => RestingOrder
  <2> SUFFICES ASSUME StoreInv, TypeOK, PageInv, FreshInv, NEW s \in Subs, AtRest(s), skipped[s] = {},
                      ~page.kept, ~overtook
               PROVE  SameItems /\ \A j, k \in 1..Len(items) : j < k => Leads(page, items[j].id, items[k].id)
    BY DEF RestingOrder
  <2>1. Current /\ Ordered(page)
    BY AtRestCurrent
  <2>2. SameItems /\ \A k \in 1..Len(items) : items[k].id \in Ids(page)
    BY <2>1 DEF Current, SameItems
  <2> QED BY <2>1, <2>2 DEF Ordered
<1> QED BY <1>1, StoreInvariance, PagesImplementsBus, TypeCorrect, PagesInvariance, PTL
=============================================================================
