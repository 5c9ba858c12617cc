------------------------- MODULE PromptQueueProofs -------------------------
(***************************************************************************)
(* Proofs about PromptQueue: however many prompts are accepted, they start *)
(* in order and none is lost.                                              *)
(***************************************************************************)
EXTENDS PromptQueue, TLAPS

----------------------------------------------------------------------------
(***************************************************************************)
(* What the operators on sequences return, element by element.             *)
(***************************************************************************)
\* A sequence over a set is a sequence over a larger set.
LEMMA SeqMonotone ==
    ASSUME NEW A, NEW B, A \subseteq B, NEW q \in Seq(A)
    PROVE  q \in Seq(B)
<1>1. Len(q) \in Nat /\ q = [i \in 1..Len(q) |-> q[i]] /\ \A i \in 1..Len(q) : q[i] \in B
  OBVIOUS
<1> QED BY <1>1

\* Append adds one element, behind the others.
LEMMA AppendAt ==
    ASSUME NEW T, NEW q \in Seq(T), NEW x \in T
    PROVE  /\ Append(q, x) \in Seq(T)
           /\ Len(q) \in Nat
           /\ Len(Append(q, x)) = Len(q) + 1
           /\ \A i \in 1..Len(q) : Append(q, x)[i] = q[i]
           /\ Append(q, x)[Len(q) + 1] = x
OBVIOUS

\* RemoveAt leaves the elements before the removed one where they are and
\* moves the others up by one.
LEMMA RemoveAtAt ==
    ASSUME NEW T, NEW q \in Seq(T), NEW i \in 1..Len(q)
    PROVE  /\ RemoveAt(q, i) \in Seq(T)
           /\ Len(RemoveAt(q, i)) = Len(q) - 1
           /\ \A j \in 1..(Len(q) - 1) : j < i => RemoveAt(q, i)[j] = q[j]
           /\ \A j \in 1..(Len(q) - 1) : j >= i => RemoveAt(q, i)[j] = q[j + 1]
<1> DEFINE a == SubSeq(q, 1, i - 1)
           b == SubSeq(q, i + 1, Len(q))
<1>1. a \in Seq(T) /\ Len(a) = i - 1 /\ \A j \in 1..(i - 1) : a[j] = q[j]
  OBVIOUS
<1>2. b \in Seq(T) /\ Len(b) = Len(q) - i /\ \A j \in 1..(Len(q) - i) : b[j] = q[i + j]
  OBVIOUS
<1>3. RemoveAt(q, i) = a \o b
  BY DEF RemoveAt
<1> HIDE DEF a, b
<1>4. Len(q) \in Nat /\ i \in Nat /\ i >= 1 /\ i <= Len(q)
  OBVIOUS
<1>5. a \o b \in Seq(T) /\ Len(a \o b) = Len(q) - 1
  <2>1. a \in Seq(T) /\ b \in Seq(T)
    BY <1>1, <1>2
  <2>2. a \o b \in Seq(T) /\ Len(a \o b) = Len(a) + Len(b)
    BY <2>1
  <2> QED BY <2>2, <1>1, <1>2, <1>4
<1>6. ASSUME NEW j \in 1..(Len(q) - 1), j < i  PROVE (a \o b)[j] = q[j]
  <2>1. j \in 1..(i - 1) /\ j \in 1..Len(a)
    BY <1>1, <1>4, <1>6
  <2>2. (a \o b)[j] = a[j]
    BY <2>1, <1>1, <1>2
  <2> QED BY <2>1, <2>2, <1>1
<1>7. ASSUME NEW j \in 1..(Len(q) - 1), j >= i  PROVE (a \o b)[j] = q[j + 1]
  <2>1. (a \o b)[j] = b[j - Len(a)]
    BY <1>1, <1>2, <1>4, <1>7
  <2>2. j - Len(a) \in 1..(Len(q) - i) /\ i + (j - Len(a)) = j + 1
    BY <1>1, <1>4, <1>7
  <2> QED BY <2>1, <2>2, <1>2
<1> QED BY <1>3, <1>5, <1>6, <1>7

\* Tail moves every element up by one.
LEMMA TailAt ==
    ASSUME NEW T, NEW q \in Seq(T), q # <<>>
    PROVE  /\ Len(q) \in Nat /\ Len(q) >= 1
           /\ Tail(q) \in Seq(T)
           /\ Len(Tail(q)) = Len(q) - 1
           /\ Head(q) = q[1]
           /\ \A i \in 1..(Len(q) - 1) : Tail(q)[i] = q[i + 1]
OBVIOUS

----------------------------------------------------------------------------

\* What a sequence holds after Append.
LEMMA InAppend ==
    ASSUME NEW T, NEW q \in Seq(T), NEW x \in T, NEW p
    PROVE  In(p, Append(q, x)) <=> In(p, q) \/ p = x
<1> DEFINE r == Append(q, x)
<1>1. /\ Len(q) \in Nat /\ Len(r) = Len(q) + 1
      /\ \A i \in 1..Len(q) : r[i] = q[i]
      /\ r[Len(q) + 1] = x
  BY AppendAt
<1> HIDE DEF r
<1>2. \A i \in 1..(Len(q) + 1) : i \in 1..Len(q) \/ i = Len(q) + 1
  BY <1>1
<1>3. Len(q) + 1 \in 1..(Len(q) + 1) /\ \A i \in 1..Len(q) : i \in 1..(Len(q) + 1)
  BY <1>1
<1>4. In(p, r) <=> In(p, q) \/ p = x
  BY <1>1, <1>2, <1>3 DEF In
<1> QED BY <1>4 DEF r

\* A larger number appended keeps a sequence increasing.
LEMMA IncreasingAppend ==
    ASSUME NEW T, NEW q \in Seq(T), NEW x \in T,
           Increasing(q), \A i \in 1..Len(q) : q[i] < x
    PROVE  Increasing(Append(q, x))
<1> DEFINE r == Append(q, x)
<1>1. /\ Len(q) \in Nat /\ Len(r) = Len(q) + 1
      /\ \A i \in 1..Len(q) : r[i] = q[i]
      /\ r[Len(q) + 1] = x
  BY AppendAt
<1> HIDE DEF r
<1>2. SUFFICES ASSUME NEW i \in 1..Len(r), NEW j \in 1..Len(r), i < j  PROVE r[i] < r[j]
  BY DEF Increasing, r
<1>3. i \in 1..Len(q) /\ (j \in 1..Len(q) \/ j = Len(q) + 1)
  BY <1>1, <1>2
<1> QED BY <1>1, <1>2, <1>3 DEF Increasing

----------------------------------------------------------------------------
\* The inductive invariant: what waits or has started was accepted, and is in
\* order; nothing accepted is lost.
QueueType ==
    /\ accepted \in Nat
    /\ waiting \in Seq(1..accepted)
    /\ started \in Seq(1..accepted)
    /\ cancelled \subseteq 1..accepted

QueueInv == QueueType /\ InOrder /\ NoneLost

\* A prompt number that has not been handed out is in no queue.
LEMMA Fresh ==
    ASSUME QueueInv
    PROVE  /\ \A i \in 1..Len(waiting) : waiting[i] \in Nat /\ waiting[i] < accepted + 1
           /\ \A i \in 1..Len(started) : started[i] \in Nat /\ started[i] < accepted + 1
           /\ Len(waiting) \in Nat /\ Len(started) \in Nat
           /\ waiting \in Seq(1..(accepted + 1)) /\ started \in Seq(1..(accepted + 1))
           /\ accepted + 1 \in 1..(accepted + 1)
           /\ cancelled \subseteq 1..(accepted + 1) /\ accepted + 1 \notin cancelled
<1> USE DEF QueueInv, QueueType
<1>1. \A i \in 1..Len(waiting) : waiting[i] \in 1..accepted
  OBVIOUS
<1>2. \A i \in 1..Len(started) : started[i] \in 1..accepted
  OBVIOUS
<1>3. 1..accepted \subseteq 1..(accepted + 1)
  OBVIOUS
<1>4. waiting \in Seq(1..(accepted + 1)) /\ started \in Seq(1..(accepted + 1))
  BY <1>3, SeqMonotone
<1> QED BY <1>1, <1>2, <1>3, <1>4

LEMMA QueuePreserves == QueueInv /\ Queue => QueueInv'
<1> SUFFICES ASSUME QueueInv, Queue PROVE QueueInv'
  OBVIOUS
<1> DEFINE n == accepted + 1
           w == Append(waiting, n)
<1>1. accepted' = n /\ waiting' = w /\ started' = started /\ cancelled' = cancelled /\ accepted \in Nat
  BY DEF Queue, QueueInv, QueueType
<1>2. /\ w \in Seq(1..n) /\ Len(w) = Len(waiting) + 1
      /\ \A i \in 1..Len(waiting) : w[i] = waiting[i]
      /\ w[Len(waiting) + 1] = n
  BY Fresh, AppendAt
<1>5. Increasing(w)
  BY Fresh, IncreasingAppend DEF QueueInv, InOrder
<1>7. \A p : In(p, w) <=> In(p, waiting) \/ p = n
  BY Fresh, InAppend
<1> HIDE DEF w
<1>3. QueueType'
  BY <1>1, <1>2, Fresh DEF QueueType
<1>4. \A i \in 1..Len(w) : i \in 1..Len(waiting) \/ i = Len(waiting) + 1
  BY <1>2, Fresh
<1>6. InOrder'
  BY <1>1, <1>2, <1>4, <1>5, Fresh DEF InOrder, QueueInv
<1>8. NoneLost'
  <2> SUFFICES ASSUME NEW p \in 1..n
               PROVE  /\ In(p, started) \/ In(p, w) \/ p \in cancelled
                      /\ p \in cancelled => ~In(p, started) /\ ~In(p, w)
    BY <1>1 DEF NoneLost
  <2>1. CASE p = n
    BY <2>1, <1>7, Fresh
  <2>2. CASE p # n
    <3>1. p \in 1..accepted
      BY <2>2, <1>1
    <3> QED BY <3>1, <2>2, <1>7 DEF NoneLost, QueueInv
  <2> QED BY <2>1, <2>2
<1> QED BY <1>3, <1>6, <1>8 DEF QueueInv

LEMMA StartNewPreserves == QueueInv /\ StartNew => QueueInv'
<1> SUFFICES ASSUME QueueInv, StartNew PROVE QueueInv'
  OBVIOUS
<1> DEFINE n == accepted + 1
           t == Append(started, n)
<1>1. /\ accepted' = n /\ started' = t /\ waiting' = waiting /\ cancelled' = cancelled
      /\ accepted \in Nat /\ waiting = <<>> /\ Len(waiting) = 0
  BY DEF StartNew, QueueInv, QueueType
<1>2. /\ t \in Seq(1..n) /\ Len(t) = Len(started) + 1
      /\ \A i \in 1..Len(started) : t[i] = started[i]
      /\ t[Len(started) + 1] = n
  BY Fresh, AppendAt
<1>4. Increasing(t)
  BY Fresh, IncreasingAppend DEF QueueInv, InOrder
<1>5. \A p : In(p, t) <=> In(p, started) \/ p = n
  BY Fresh, InAppend
<1> HIDE DEF t
<1>3. QueueType'
  BY <1>1, <1>2, Fresh DEF QueueType
<1>6. InOrder'
  BY <1>1, <1>4 DEF InOrder, Increasing
<1>8. NoneLost'
  <2> SUFFICES ASSUME NEW p \in 1..n
               PROVE  /\ In(p, t) \/ In(p, waiting) \/ p \in cancelled
                      /\ p \in cancelled => ~In(p, t) /\ ~In(p, waiting)
    BY <1>1 DEF NoneLost
  <2>1. CASE p = n
    BY <2>1, <1>5, Fresh
  <2>2. CASE p # n
    <3>1. p \in 1..accepted
      BY <2>2, <1>1
    <3> QED BY <3>1, <2>2, <1>5 DEF NoneLost, QueueInv
  <2> QED BY <2>1, <2>2
<1> QED BY <1>3, <1>6, <1>8 DEF QueueInv

LEMMA StartOldestPreserves == QueueInv /\ StartOldest => QueueInv'
<1> SUFFICES ASSUME QueueInv, StartOldest PROVE QueueInv'
  OBVIOUS
<1> DEFINE h == waiting[1]
           w == Tail(waiting)
           t == Append(started, h)
<1>1. /\ accepted' = accepted /\ cancelled' = cancelled /\ waiting # <<>> /\ accepted \in Nat
      /\ waiting \in Seq(1..accepted) /\ started \in Seq(1..accepted)
  BY DEF StartOldest, QueueInv, QueueType
<1>2. /\ Len(waiting) \in Nat /\ Len(waiting) >= 1 /\ Head(waiting) = h
      /\ w \in Seq(1..accepted) /\ Len(w) = Len(waiting) - 1
      /\ \A i \in 1..(Len(waiting) - 1) : w[i] = waiting[i + 1]
  BY <1>1, TailAt
<1>3. waiting' = w /\ started' = t
  BY <1>2 DEF StartOldest
<1>4. h \in 1..accepted /\ 1 \in 1..Len(waiting)
  BY <1>1, <1>2
<1>5. /\ t \in Seq(1..accepted) /\ Len(t) = Len(started) + 1
      /\ \A i \in 1..Len(started) : t[i] = started[i]
      /\ t[Len(started) + 1] = h
  BY <1>1, <1>4, AppendAt
<1>9. Increasing(t)
  BY <1>1, <1>2, <1>4, IncreasingAppend DEF QueueInv, InOrder
<1>12. \A p : In(p, t) <=> In(p, started) \/ p = h
  BY <1>1, <1>4, InAppend
<1> HIDE DEF h, w, t
<1>h. h = waiting[1]
  BY DEF h
<1>6. \A i \in 1..Len(t) : i \in 1..Len(started) \/ i = Len(started) + 1
  BY <1>5, Fresh
<1>7. \A i \in 1..Len(w) : i \in 1..(Len(waiting) - 1) /\ i + 1 \in 1..Len(waiting) /\ 1 < i + 1 /\ w[i] = waiting[i + 1]
  BY <1>2
<1>8. QueueType'
  BY <1>1, <1>2, <1>3, <1>5 DEF QueueInv, QueueType
<1>10. Increasing(w)
  <2> SUFFICES ASSUME NEW i \in 1..Len(w), NEW j \in 1..Len(w), i < j PROVE w[i] < w[j]
    BY DEF Increasing
  <2>1. i + 1 < j + 1
    BY <1>2
  <2> QED BY <2>1, <1>7 DEF Increasing, QueueInv, InOrder
<1>11. \A i \in 1..Len(t), j \in 1..Len(w) : t[i] < w[j]
  BY <1>4, <1>5, <1>6, <1>7, <1>h DEF QueueInv, InOrder, Increasing
<1>13. \A p : In(p, waiting) <=> In(p, w) \/ p = h
  <2> SUFFICES ASSUME NEW p PROVE In(p, waiting) <=> In(p, w) \/ p = h
    OBVIOUS
  <2>1. ASSUME In(p, waiting) PROVE In(p, w) \/ p = h
    <3>1. PICK i \in 1..Len(waiting) : waiting[i] = p
      BY <2>1 DEF In
    <3>2. CASE i = 1
      BY <3>1, <3>2, <1>h
    <3>3. CASE i # 1
      <4>1. i - 1 \in 1..Len(w) /\ (i - 1) + 1 = i
        BY <3>3, <1>2
      <4> QED BY <4>1, <3>1, <1>7 DEF In
    <3> QED BY <3>2, <3>3
  <2>2. In(p, w) => In(p, waiting)
    BY <1>7 DEF In
  <2>3. p = h => In(p, waiting)
    BY <1>4, <1>h DEF In
  <2> QED BY <2>1, <2>2, <2>3
<1>14. NoneLost'
  <2> SUFFICES ASSUME NEW p \in 1..accepted
               PROVE  /\ In(p, t) \/ In(p, w) \/ p \in cancelled
                      /\ p \in cancelled => ~In(p, t) /\ ~In(p, w)
    BY <1>1, <1>3 DEF NoneLost
  <2> QED BY <1>12, <1>13 DEF NoneLost, QueueInv
<1>15. InOrder'
  BY <1>3, <1>9, <1>10, <1>11 DEF InOrder
<1> QED BY <1>8, <1>14, <1>15 DEF QueueInv

LEMMA CancelPreserves ==
    ASSUME QueueInv, NEW i \in 1..Len(waiting), Cancel(i)
    PROVE  QueueInv'
<1> DEFINE c == waiting[i]
           w == RemoveAt(waiting, i)
<1>1. /\ accepted' = accepted /\ started' = started /\ accepted \in Nat
      /\ waiting' = w /\ cancelled' = cancelled \cup {c}
      /\ waiting \in Seq(1..accepted) /\ c \in 1..accepted
      /\ Len(waiting) \in Nat /\ i \in Nat /\ 1 <= i /\ i <= Len(waiting)
  BY DEF Cancel, QueueInv, QueueType
<1>2. /\ w \in Seq(1..accepted) /\ Len(w) = Len(waiting) - 1
      /\ \A j \in 1..(Len(waiting) - 1) : j < i => w[j] = waiting[j]
      /\ \A j \in 1..(Len(waiting) - 1) : j >= i => w[j] = waiting[j + 1]
  BY <1>1, RemoveAtAt
<1> HIDE DEF c, w
<1>c. c = waiting[i]
  BY DEF c
\* Where the elements of the new queue were, in the old one.
<1> DEFINE old(j) == IF j < i THEN j ELSE j + 1
<1>3. \A j \in 1..Len(w) : old(j) \in 1..Len(waiting) /\ old(j) # i /\ w[j] = waiting[old(j)]
  <2> SUFFICES ASSUME NEW j \in 1..Len(w)
               PROVE  old(j) \in 1..Len(waiting) /\ old(j) # i /\ w[j] = waiting[old(j)]
    OBVIOUS
  <2>1. j \in 1..(Len(waiting) - 1) /\ j \in Nat
    BY <1>1, <1>2
  <2>2. old(j) \in 1..Len(waiting) /\ old(j) # i
    BY <2>1, <1>1
  <2>3. CASE j < i
    BY <2>1, <2>2, <2>3, <1>2
  <2>4. CASE j >= i
    BY <2>1, <2>2, <2>4, <1>1, <1>2
  <2> QED BY <2>1, <2>2, <2>3, <2>4, <1>1
<1>4. \A j, k \in 1..Len(w) : j < k => old(j) < old(k)
  <2> SUFFICES ASSUME NEW j \in 1..Len(w), NEW k \in 1..Len(w), j < k
               PROVE  old(j) < old(k)
    OBVIOUS
  <2>1. j \in Nat /\ k \in Nat
    BY <1>1, <1>2
  <2>2. CASE k < i
    <3>1. old(j) = j /\ old(k) = k
      BY <1>1, <2>1, <2>2
    <3> QED BY <3>1
  <2>3. CASE k >= i
    <3>1. old(k) = k + 1 /\ (old(j) = j \/ old(j) = j + 1)
      BY <1>1, <2>1, <2>3
    <3> QED BY <3>1, <2>1
  <2> QED BY <1>1, <2>1, <2>2, <2>3
<1>5. \A j \in 1..Len(waiting) : j # i => \E k \in 1..Len(w) : old(k) = j
  <2> SUFFICES ASSUME NEW j \in 1..Len(waiting), j # i PROVE \E k \in 1..Len(w) : old(k) = j
    OBVIOUS
  <2>1. CASE j < i
    <3>1. j \in 1..Len(w) /\ old(j) = j
      BY <2>1, <1>1, <1>2
    <3> QED BY <3>1
  <2>2. CASE j > i
    <3>1. j - 1 \in 1..Len(w) /\ old(j - 1) = j
      BY <2>2, <1>1, <1>2
    <3> QED BY <3>1
  <2> QED BY <2>1, <2>2, <1>1
<1> HIDE DEF old
<1>6. \A j, k \in 1..Len(waiting) : waiting[j] = waiting[k] => j = k
  <2>1. \A j, k \in 1..Len(waiting) : waiting[j] \in Nat /\ waiting[k] \in Nat /\ (j < k \/ k < j \/ j = k)
    BY <1>1, Fresh
  <2>2. \A j, k \in 1..Len(waiting) : j < k => waiting[j] < waiting[k]
    BY DEF QueueInv, InOrder, Increasing
  <2> QED BY <2>1, <2>2
<1>7. QueueType'
  BY <1>1, <1>2 DEF QueueInv, QueueType
<1>8. InOrder'
  BY <1>1, <1>3, <1>4 DEF QueueInv, InOrder, Increasing
<1>9. \A p : In(p, waiting) <=> In(p, w) \/ p = c
  BY <1>1, <1>3, <1>5, <1>c DEF In
<1>10. ~In(c, w)
  BY <1>1, <1>3, <1>6, <1>c DEF In
<1>11. ~In(c, started)
  <2> SUFFICES ASSUME NEW j \in 1..Len(started), started[j] = c PROVE FALSE
    BY DEF In
  <2>1. started[j] < c /\ c \in Nat
    BY <1>1, <1>c DEF QueueInv, InOrder
  <2> QED BY <2>1
<1>12. NoneLost'
  <2> SUFFICES ASSUME NEW p \in 1..accepted
               PROVE  /\ In(p, started) \/ In(p, w) \/ p \in cancelled \cup {c}
                      /\ p \in cancelled \cup {c} => ~In(p, started) /\ ~In(p, w)
    BY <1>1 DEF NoneLost
  <2> QED BY <1>9, <1>10, <1>11 DEF NoneLost, QueueInv
<1> QED BY <1>7, <1>8, <1>12 DEF QueueInv

----------------------------------------------------------------------------
\* The inductive invariant of the queue.
THEOREM QueueInvariance == Spec => []QueueInv
<1>1. Init => QueueInv
  BY DEF Init, QueueInv, QueueType, InOrder, Increasing, NoneLost
<1>2. QueueInv /\ [Next]_vars => QueueInv'
  <2>1. QueueInv /\ UNCHANGED vars => QueueInv'
    BY DEF vars, QueueInv, QueueType, InOrder, Increasing, NoneLost, In
  <2> QED BY <2>1, QueuePreserves, StartNewPreserves, StartOldestPreserves, CancelPreserves DEF Next
<1> QED BY <1>1, <1>2, PTL DEF Spec

\* Prompts start in the order they were accepted in, once each.
THEOREM InOrderHolds == Spec => []InOrder
BY QueueInvariance, PTL DEF QueueInv

\* Every accepted prompt started, waits or was cancelled.
THEOREM NoneLostHolds == Spec => []NoneLost
BY QueueInvariance, PTL DEF QueueInv
============================================================================
