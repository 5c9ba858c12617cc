--------------------------- MODULE EventLogProofs ---------------------------
(***************************************************************************)
(* Proofs about EventLog: what a replay makes of a log of any length, and  *)
(* that a compaction changes nothing of it.                                *)
(***************************************************************************)
EXTENDS EventLog, FiniteSetTheorems, SequenceTheorems, TLAPS

----------------------------------------------------------------------------
(***************************************************************************)
(* The invariant.                                                          *)
(***************************************************************************)
Status == {"none", "running", "done"}
Text_ == Seq(Nat)
Ids == Item \cup {CHOOSE i \in Item : TRUE}
Events == [type : {"started", "delta", "completed", "rewound", "deleted"}, id : Ids,
           status : Status, field : {"body", "output"}, text : Text_]
Row == [seq : Nat, status : Status, body : Text_, output : Text_]
IndexRow == [seq : Nat, id : Searchable, body : Text_]
Projections == [thread : BOOLEAN, items : [Item -> Row], index : SUBSET IndexRow, failed : BOOLEAN]

\* What is written of an item: a prompt starts done, a reply running and with
\* text, and only replies and thoughts stream a body.
Sound(e) ==
    /\ e \in Events
    /\ e.type # "deleted" => e.id \in Item
    /\ e.type = "rewound" => e.id \in Prompts
    /\ e.type = "started" =>
          /\ e.id \in Searchable => e.text # <<>>
          /\ e.id \in Prompts => e.status = "done"
          /\ e.id \in Replies => e.status = "running"
    /\ e.type = "completed" => e.id \notin Prompts /\ (e.id \in Replies => e.status = "done")
    /\ e.type = "delta" => e.id \notin Prompts /\ (e.field = "output" => e.id \notin Replies)

StartedAt(l, n, i) == n \in DOMAIN l /\ l[n].type = "started" /\ l[n].id = i
CompletedAt(l, n, i) == n \in DOMAIN l /\ l[n].type = "completed" /\ l[n].id = i
BodyAt(l, n, i) == n \in DOMAIN l /\ l[n].type = "delta" /\ l[n].id = i /\ l[n].field = "body"
DeletedAt(l, n) == n \in DOMAIN l /\ l[n].type = "deleted"

\* The thread was deleted by n.
Gone(l, n) == \E j \in 1..n : DeletedAt(l, j)

\* At n the row of i, if there is one, is that of its start at s.
Opened(l, i, s, n) ==
    s \in 1..n /\ StartedAt(l, s, i) /\ \A j \in (s + 1)..n : ~StartedAt(l, j, i) /\ ~DeletedAt(l, j)
Ended(l, i, s, n) == \E k \in (s + 1)..n : CompletedAt(l, k, i)

\* Nothing streams into a reply that has ended.
Streaming(l, i, n) == \A s \in 1..n : Opened(l, i, s, n) => ~Ended(l, i, s, n)

Single(l, i) == \A m, n \in DOMAIN l : StartedAt(l, m, i) /\ StartedAt(l, n, i) => m = n

HadStart(l, i, n) == Gone(l, n) \/ \E s \in 1..n : StartedAt(l, s, i)

\* A log up to m.
Orderly(l, m) ==
    /\ DOMAIN l \subseteq 1..m
    /\ \A n \in DOMAIN l : Sound(l[n])
    /\ \A n \in DOMAIN l, i \in Replies : BodyAt(l, n, i) => Streaming(l, i, n - 1)
    /\ \A n \in DOMAIN l : l[n].type = "delta" => HadStart(l, l[n].id, n - 1)
    /\ \A p \in Prompts : Single(l, p)

Current(d) ==
    d.index = {[seq |-> d.items[i].seq, id |-> i, body |-> d.items[i].body] :
                 i \in {j \in Searchable : d.items[j].status = "done"}}

RowFits(row, l, i, n) ==
    \/ row = NoRow
    \/ /\ Opened(l, i, row.seq, n)
       /\ i \in Searchable => row.body # <<>>
       /\ i \in Prompts => row.status = "done"
       /\ i \in Replies => row.status = "running" \/ (row.status = "done" /\ Ended(l, i, row.seq, n))

\* Nothing starts in a thread that is gone.
InTime(l, n) == \A k \in DOMAIN l \cap 1..n : l[k].type = "started" => ~Gone(l, k)

\* The projections d of the log l up to n.
Fits(d, l, n) ==
    IF d.failed THEN Gone(l, n)
    ELSE /\ d.thread <=> ~Gone(l, n)
         /\ InTime(l, n)
         /\ \A i \in Item : RowFits(d.items[i], l, i, n)
         /\ Current(d)

\* What a replay of l makes of the items that were started once is in d.
Agrees(p, d, l) ==
    /\ ~p.failed /\ p.thread = d.thread
    /\ \A i \in Item : Single(l, i) => p.items[i] = d.items[i]

Kept(s) ==
    /\ s.last \in Nat
    /\ Orderly(s.log, s.last)
    /\ s.db \in Projections /\ ~s.db.failed
    /\ Fits(s.db, s.log, s.last)
    /\ Agrees(Applied(NoProjections, s.log, 1, s.last), s.db, s.log)

\* A message the pump streams has a start, and has not ended.
SeenFits(ms, l, n) ==
    \A m \in ms : HadStart(l, m, n) /\ (m \in Replies => Streaming(l, m, n))

Group == [id : Item, field : {"body", "output"}, first : 1..last, last : 1..last]

Store == [log |-> log, last |-> last, db |-> db]

IInv ==
    /\ Kept(Store)
    /\ seen \subseteq Streamed /\ SeenFits(seen, log, last)
    /\ \A m, n \in seen : m = n
    /\ comp \in [at : {"due", "fold"}, groups : SUBSET Group]
    /\ tools \subseteq Tools

USE DEF Searchable

----------------------------------------------------------------------------
(***************************************************************************)
(* Induction.  A set with 0 that has the successors of its numbers has all *)
(* of Nat: the numbers below m it lacks are finitely many, and the         *)
(* predecessor maps them into themselves without m.                        *)
(***************************************************************************)
LEMMA Induction ==
    ASSUME NEW T, 0 \in T, \A n \in Nat : n \in T => n + 1 \in T
    PROVE  \A m \in Nat : m \in T
<1> SUFFICES ASSUME NEW m \in Nat, m \notin T PROVE FALSE
  OBVIOUS
<1> DEFINE U == {k \in 0..m : k \notin T}
           f == [k \in U |-> k - 1]
<1>1. IsFiniteSet(U) /\ m \in U
  <2>1. IsFiniteSet(0..m)
    BY FS_Interval
  <2> QED BY <2>1, FS_Subset
<1>2. \A k \in U : k - 1 \in U \ {m}
  <2> SUFFICES ASSUME NEW k \in U PROVE k - 1 \in U \ {m}
    OBVIOUS
  <2>1. k - 1 \in Nat /\ k - 1 \in 0..m /\ k - 1 # m /\ (k - 1) + 1 = k
    OBVIOUS
  <2>2. k - 1 \notin T
    BY <2>1
  <2> QED BY <2>1, <2>2
<1>3. f \in Injection(U, U \ {m})
  BY <1>2 DEF Injection, IsInjective
<1>4. IsFiniteSet(U \ {m}) /\ Cardinality(U \ {m}) = Cardinality(U) - 1 /\ Cardinality(U) \in Nat
  BY <1>1, FS_RemoveElement, FS_CardinalityType
<1>5. Cardinality(U) <= Cardinality(U \ {m})
  BY <1>3, <1>4, FS_Injection
<1> QED BY <1>4, <1>5

LEMMA InductionUpTo ==
    ASSUME NEW a \in Nat, NEW b \in Nat, NEW T, a \in T,
           \A n \in (a + 1)..b : n - 1 \in T => n \in T
    PROVE  \A n \in a..b : n \in T
<1> DEFINE U == {k \in Nat : a + k <= b => a + k \in T}
<1>1. 0 \in U
  OBVIOUS
<1>2. ASSUME NEW n \in Nat, n \in U PROVE n + 1 \in U
  <2> SUFFICES ASSUME a + (n + 1) <= b PROVE a + (n + 1) \in T
    OBVIOUS
  <2>1. a + (n + 1) \in (a + 1)..b /\ (a + (n + 1)) - 1 = a + n /\ a + n \in T
    BY <1>2
  <2> QED BY <2>1
<1> HIDE DEF U
<1>3. \A m \in Nat : m \in U
  BY <1>1, <1>2, Induction, Zenon
<1> SUFFICES ASSUME NEW n \in a..b PROVE n \in T
  OBVIOUS
<1>4. n - a \in Nat /\ a + (n - a) = n /\ a + (n - a) <= b
  OBVIOUS
<1>5. n - a \in U
  BY <1>3, <1>4
<1> QED BY <1>4, <1>5 DEF U

----------------------------------------------------------------------------
(***************************************************************************)
(* The recursive functions of Applied and Text are what they say.          *)
(***************************************************************************)
Next1(l, d, n) == IF n \in DOMAIN l THEN Apply(d, n, l[n]) ELSE d
Runs(f, d, l, lo, hi) == f = [n \in (lo - 1)..hi |-> IF n < lo THEN d ELSE Next1(l, f[n - 1], n)]

LEMMA RunExists ==
    ASSUME NEW d, NEW l, NEW lo \in Nat \ {0}, NEW hi \in Nat, lo <= hi + 1
    PROVE  \E f : Runs(f, d, l, lo, hi)
<1> DEFINE T == {m \in Nat : \E f : Runs(f, d, l, lo, m)}
<1>1. lo - 1 \in Nat /\ lo - 1 \in T
  <2>1. Runs([n \in (lo - 1)..(lo - 1) |-> d], d, l, lo, lo - 1)
    BY DEF Runs
  <2> QED BY <2>1
<1>2. ASSUME NEW n \in ((lo - 1) + 1)..hi, n - 1 \in T PROVE n \in T
  <2>1. PICK f : Runs(f, d, l, lo, n - 1)
    BY <1>2
  <2> DEFINE g == [k \in (lo - 1)..n |-> IF k = n THEN Next1(l, f[n - 1], n) ELSE f[k]]
  <2>2. n \in Nat /\ lo <= n /\ n - 1 \in Nat
    OBVIOUS
  <2>3. \A k \in (lo - 1)..(n - 1) : k \in (lo - 1)..n /\ k # n /\ g[k] = f[k]
    BY <2>2
  <2>4. \A k \in (lo - 1)..(n - 1) : f[k] = IF k < lo THEN d ELSE Next1(l, f[k - 1], k)
    BY <2>1 DEF Runs
  <2>5. ASSUME NEW k \in (lo - 1)..n PROVE g[k] = IF k < lo THEN d ELSE Next1(l, g[k - 1], k)
    <3>1. CASE k = n
      <4>1. ~(k < lo) /\ k - 1 \in (lo - 1)..(n - 1)
        BY <2>2, <3>1
      <4> QED BY <2>3, <3>1, <4>1
    <3>2. CASE k # n
      <4>1. k \in (lo - 1)..(n - 1) /\ (k < lo \/ k - 1 \in (lo - 1)..(n - 1))
        BY <2>2, <3>2
      <4> QED BY <2>3, <2>4, <4>1
    <3> QED BY <3>1, <3>2
  <2>6. Runs(g, d, l, lo, n)
    BY <2>5 DEF Runs
  <2> QED BY <2>2, <2>6
<1> HIDE DEF T
<1>3. hi \in T
  BY <1>1, <1>2, InductionUpTo
<1> QED BY <1>3 DEF T

LEMMA AppliedRuns ==
    ASSUME NEW d, NEW l, NEW lo \in Nat \ {0}, NEW hi \in Nat, lo <= hi + 1
    PROVE  \E f : /\ Applied(d, l, lo, hi) = f[hi]
                  /\ f[lo - 1] = d
                  /\ \A n \in lo..hi : f[n] = Next1(l, f[n - 1], n)
<1> DEFINE f == CHOOSE after : after = [n \in (lo - 1)..hi |->
                    IF n < lo THEN d
                    ELSE IF n \in DOMAIN l THEN Apply(after[n - 1], n, l[n])
                    ELSE after[n - 1]]
<1>1. Applied(d, l, lo, hi) = f[hi]
  BY DEF Applied
<1>2. f = [n \in (lo - 1)..hi |-> IF n < lo THEN d
                    ELSE IF n \in DOMAIN l THEN Apply(f[n - 1], n, l[n])
                    ELSE f[n - 1]]
  <2>1. \E g : g = [n \in (lo - 1)..hi |-> IF n < lo THEN d
                    ELSE IF n \in DOMAIN l THEN Apply(g[n - 1], n, l[n])
                    ELSE g[n - 1]]
    <3>1. PICK g : Runs(g, d, l, lo, hi)
      BY RunExists
    <3>2. g = [n \in (lo - 1)..hi |-> IF n < lo THEN d
                    ELSE IF n \in DOMAIN l THEN Apply(g[n - 1], n, l[n])
                    ELSE g[n - 1]]
      BY <3>1, Zenon DEF Runs, Next1
    <3> QED BY <3>2, Zenon
  <2> QED BY <2>1
<1> HIDE DEF f
<1>3. f[lo - 1] = d
  BY <1>2
<1>4. \A n \in lo..hi : f[n] = Next1(l, f[n - 1], n)
  BY <1>2 DEF Next1
<1> QED BY <1>1, <1>3, <1>4

\* Two runs, compared at each seq.
LEMMA AppliedTwo ==
    ASSUME NEW c, NEW d, NEW k, NEW l, NEW lo \in Nat \ {0}, NEW hi \in Nat, lo <= hi + 1,
           NEW S, <<c, d>> \in S[lo - 1],
           \A n \in lo..hi : \A x, y : <<x, y>> \in S[n - 1] => <<Next1(k, x, n), Next1(l, y, n)>> \in S[n]
    PROVE  <<Applied(c, k, lo, hi), Applied(d, l, lo, hi)>> \in S[hi]
<1>1. PICK f : /\ Applied(c, k, lo, hi) = f[hi]
               /\ f[lo - 1] = c
               /\ \A n \in lo..hi : f[n] = Next1(k, f[n - 1], n)
  BY AppliedRuns
<1>2. PICK g : /\ Applied(d, l, lo, hi) = g[hi]
               /\ g[lo - 1] = d
               /\ \A n \in lo..hi : g[n] = Next1(l, g[n - 1], n)
  BY AppliedRuns
<1> DEFINE T == {n \in (lo - 1)..hi : <<f[n], g[n]>> \in S[n]}
<1>3. lo - 1 \in Nat /\ lo - 1 \in T
  BY <1>1, <1>2
<1>4. ASSUME NEW n \in ((lo - 1) + 1)..hi, n - 1 \in T PROVE n \in T
  <2>1. n \in lo..hi /\ n \in (lo - 1)..hi
    OBVIOUS
  <2>2. <<f[n - 1], g[n - 1]>> \in S[n - 1]
    BY <1>4
  <2>3. <<Next1(k, f[n - 1], n), Next1(l, g[n - 1], n)>> \in S[n]
    BY <2>1, <2>2
  <2> QED BY <1>1, <1>2, <2>1, <2>3
<1> HIDE DEF T
<1>5. hi \in T
  BY <1>3, <1>4, InductionUpTo
<1> QED BY <1>1, <1>2, <1>5 DEF T

\* One run.
LEMMA AppliedKeeps ==
    ASSUME NEW d, NEW l, NEW lo \in Nat \ {0}, NEW hi \in Nat, lo <= hi + 1,
           NEW S, d \in S[lo - 1],
           \A n \in lo..hi : \A x : x \in S[n - 1] => Next1(l, x, n) \in S[n]
    PROVE  Applied(d, l, lo, hi) \in S[hi]
<1>1. PICK f : /\ Applied(d, l, lo, hi) = f[hi]
               /\ f[lo - 1] = d
               /\ \A n \in lo..hi : f[n] = Next1(l, f[n - 1], n)
  BY AppliedRuns
<1> DEFINE T == {n \in (lo - 1)..hi : f[n] \in S[n]}
<1>3. lo - 1 \in Nat /\ lo - 1 \in T
  BY <1>1
<1>4. ASSUME NEW n \in ((lo - 1) + 1)..hi, n - 1 \in T PROVE n \in T
  <2>1. n \in lo..hi /\ n \in (lo - 1)..hi /\ f[n - 1] \in S[n - 1]
    BY <1>4
  <2>3. Next1(l, f[n - 1], n) \in S[n]
    BY <2>1
  <2> QED BY <1>1, <2>1, <2>3
<1> HIDE DEF T
<1>5. hi \in T
  BY <1>3, <1>4, InductionUpTo
<1> QED BY <1>1, <1>5 DEF T

\* A run goes on where a run of the same rows ended.
LEMMA AppliedOn ==
    ASSUME NEW d, NEW k, NEW l, NEW mid \in Nat, NEW hi \in Nat, mid <= hi,
           \A n \in 1..mid : (n \in DOMAIN k <=> n \in DOMAIN l) /\ (n \in DOMAIN l => k[n] = l[n])
    PROVE  Applied(d, l, 1, hi) = Applied(Applied(d, k, 1, mid), l, mid + 1, hi)
<1>1. PICK f : /\ Applied(d, l, 1, hi) = f[hi]
               /\ f[0] = d
               /\ \A n \in 1..hi : f[n] = Next1(l, f[n - 1], n)
  BY AppliedRuns
<1>2. PICK g : /\ Applied(d, k, 1, mid) = g[mid]
               /\ g[0] = d
               /\ \A n \in 1..mid : g[n] = Next1(k, g[n - 1], n)
  BY AppliedRuns
<1> DEFINE T == {n \in 0..mid : f[n] = g[n]}
<1>3. 0 \in T
  BY <1>1, <1>2
<1>4. ASSUME NEW n \in (0 + 1)..mid, n - 1 \in T PROVE n \in T
  <2>1. n \in 1..mid /\ n \in 1..hi /\ f[n - 1] = g[n - 1]
    BY <1>4
  <2>2. Next1(l, f[n - 1], n) = Next1(k, g[n - 1], n)
    BY <2>1 DEF Next1
  <2> QED BY <1>1, <1>2, <2>1, <2>2
<1> HIDE DEF T
<1>5. f[mid] = Applied(d, k, 1, mid)
  <2>1. mid \in T
    BY <1>3, <1>4, InductionUpTo
  <2> QED BY <1>2, <2>1 DEF T
<1>6. PICK h : /\ Applied(f[mid], l, mid + 1, hi) = h[hi]
               /\ h[mid] = f[mid]
               /\ \A n \in (mid + 1)..hi : h[n] = Next1(l, h[n - 1], n)
  <2>1. mid + 1 \in Nat \ {0} /\ mid + 1 <= hi + 1 /\ (mid + 1) - 1 = mid
    OBVIOUS
  <2> QED BY <2>1, AppliedRuns
<1> DEFINE V == {n \in mid..hi : f[n] = h[n]}
<1>7. mid \in V
  BY <1>6
<1>8. ASSUME NEW n \in (mid + 1)..hi, n - 1 \in V PROVE n \in V
  <2>1. n \in 1..hi /\ n \in mid..hi /\ f[n - 1] = h[n - 1]
    BY <1>8
  <2> QED BY <1>1, <1>6, <2>1
<1> HIDE DEF V
<1>9. hi \in V
  BY <1>7, <1>8, InductionUpTo
<1> QED BY <1>1, <1>5, <1>6, <1>9 DEF V

----------------------------------------------------------------------------
(***************************************************************************)
(* What one event does to projections that fit the log before it.          *)
(***************************************************************************)
Entry(d, i) == [seq |-> d.items[i].seq, id |-> i, body |-> d.items[i].body]
Done(d) == {i \in Searchable : d.items[i].status = "done"}

LEMMA CurrentEntries == ASSUME NEW d PROVE Current(d) <=> d.index = {Entry(d, i) : i \in Done(d)}
BY DEF Current, Entry, Done

\* Rows of different items differ in their seq, which is that of their start.
Apart(d, n) ==
    /\ \A i \in Item : d.items[i] # NoRow => d.items[i].seq \in 1..n
    /\ \A i, j \in Item : i # j /\ d.items[i] # NoRow => d.items[i].seq # d.items[j].seq

LEMMA RowsApart ==
    ASSUME NEW d \in Projections, NEW l, NEW n \in Nat, \A i \in Item : RowFits(d.items[i], l, i, n)
    PROVE  Apart(d, n)
<1>1. \A i \in Item : d.items[i] # NoRow => d.items[i].seq \in 1..n /\ l[d.items[i].seq].id = i
  BY DEF RowFits, Opened, StartedAt
<1>2. ASSUME NEW i \in Item, NEW j \in Item, i # j, d.items[i] # NoRow
      PROVE  d.items[i].seq # d.items[j].seq
  <2>1. CASE d.items[j] = NoRow
    BY <1>1, <1>2, <2>1 DEF NoRow
  <2>2. CASE d.items[j] # NoRow
    BY <1>1, <1>2, <2>2
  <2> QED BY <2>1, <2>2
<1> QED BY <1>1, <1>2 DEF Apart

\* The search rows of the others.
LEMMA UnindexedOthers ==
    ASSUME NEW d \in Projections, NEW n \in Nat, Apart(d, n), Current(d), NEW i \in Item
    PROVE  Unindexed(d, i) = {Entry(d, j) : j \in Done(d) \ {i}}
<1>1. d.index = {Entry(d, j) : j \in Done(d)}
  BY CurrentEntries
<1>2. ASSUME NEW j \in Done(d) \ {i} PROVE Entry(d, j).seq # d.items[i].seq
  <2>1. j \in Item /\ j # i /\ d.items[j].status = "done"
    BY DEF Done, Item, Streamed
  <2>2. d.items[j] # NoRow
    BY <2>1 DEF NoRow
  <2> QED BY <2>1, <2>2 DEF Apart, Entry
<1>3. Entry(d, i).seq = d.items[i].seq
  BY DEF Entry
<1> QED BY <1>1, <1>2, <1>3 DEF Unindexed

\* Indexing an item whose search rows are gone.
LEMMA IndexCurrent ==
    ASSUME NEW d \in Projections, NEW i \in Item,
           Unindexed(d, i) = {Entry(d, j) : j \in Done(d) \ {i}},
           i \in Searchable => d.items[i].status = "done" /\ d.items[i].body # <<>>
    PROVE  /\ IndexItem(d, i) \in Projections
           /\ IndexItem(d, i).items = d.items /\ IndexItem(d, i).thread = d.thread
           /\ IndexItem(d, i).failed = d.failed
           /\ Current(IndexItem(d, i))
<1> DEFINE new == {r \in {Entry(d, i)} : i \in Searchable /\ d.items[i].body # <<>>}
           c == IndexItem(d, i)
<1>1. c = [d EXCEPT !.index = Unindexed(d, i) \cup new]
  BY DEF IndexItem, Entry
<1>2. Unindexed(d, i) \in SUBSET IndexRow /\ new \in SUBSET IndexRow
  <2>1. d.items[i] \in Row /\ d.index \in SUBSET IndexRow
    BY DEF Projections
  <2>2. i \in Searchable => Entry(d, i) \in IndexRow
    BY <2>1 DEF Entry, Row, IndexRow
  <2> QED BY <2>1, <2>2 DEF Unindexed
<1>3. c \in Projections /\ c.items = d.items /\ c.thread = d.thread /\ c.failed = d.failed
      /\ c.index = Unindexed(d, i) \cup new
  BY <1>1, <1>2 DEF Projections
<1>4. Done(c) = Done(d) /\ \A j : Entry(c, j) = Entry(d, j)
  BY <1>3 DEF Done, Entry
<1>5. new = {Entry(d, j) : j \in Done(d) \cap {i}}
  BY DEF Done
<1>6. c.index = {Entry(c, j) : j \in Done(c)}
  BY <1>3, <1>4, <1>5
<1> QED BY <1>3, <1>6, CurrentEntries

LEMMA OpenedOn ==
    ASSUME NEW l, NEW i, NEW s, NEW n \in Nat \ {0},
           ~StartedAt(l, n, i), ~DeletedAt(l, n)
    PROVE  (Opened(l, i, s, n) <=> Opened(l, i, s, n - 1)) /\ (Ended(l, i, s, n - 1) => Ended(l, i, s, n))
<1>1. n - 1 \in Nat /\ 1..n = 1..(n - 1) \cup {n}
  OBVIOUS
<1>2. \A j : j \in (s + 1)..n => j \in (s + 1)..(n - 1) \/ j = n
  OBVIOUS
<1>3. \A j \in (s + 1)..(n - 1) : j \in (s + 1)..n
  OBVIOUS
<1> QED BY <1>1, <1>2, <1>3 DEF Opened, Ended

LEMMA GoneOn ==
    ASSUME NEW l, NEW n \in Nat \ {0}
    PROVE  Gone(l, n) <=> Gone(l, n - 1) \/ DeletedAt(l, n)
<1>1. n - 1 \in Nat /\ 1..n = 1..(n - 1) \cup {n}
  OBVIOUS
<1> QED BY <1>1 DEF Gone

LEMMA RowFitsOn ==
    ASSUME NEW l, NEW i, NEW row, NEW n \in Nat \ {0}, RowFits(row, l, i, n - 1),
           ~StartedAt(l, n, i), ~DeletedAt(l, n)
    PROVE  RowFits(row, l, i, n)
BY OpenedOn DEF RowFits

LEMMA InTimeOn ==
    ASSUME NEW l, NEW n \in Nat \ {0}, InTime(l, n - 1),
           n \in DOMAIN l /\ l[n].type = "started" => ~Gone(l, n)
    PROVE  InTime(l, n)
<1>1. \A k \in 1..n : k \in 1..(n - 1) \/ k = n
  OBVIOUS
<1> QED BY <1>1 DEF InTime

\* An event that neither starts an item nor deletes the thread.
LEMMA QuietFits ==
    ASSUME NEW d \in Projections, NEW c \in Projections, NEW l, NEW n \in Nat \ {0},
           ~d.failed, ~c.failed, c.thread = d.thread, Fits(d, l, n - 1),
           \A i : ~StartedAt(l, n, i), ~DeletedAt(l, n),
           \A i \in Item : RowFits(c.items[i], l, i, n), Current(c)
    PROVE  Fits(c, l, n)
<1>1. Gone(l, n) <=> Gone(l, n - 1)
  BY GoneOn
<1>2. InTime(l, n)
  BY InTimeOn DEF StartedAt, Fits
<1> QED BY <1>1, <1>2 DEF Fits

LEMMA NothingFits ==
    ASSUME NEW d \in Projections, NEW l, NEW n \in Nat \ {0}, Fits(d, l, n - 1),
           \A i : ~StartedAt(l, n, i), ~DeletedAt(l, n)
    PROVE  Fits(d, l, n)
<1>1. CASE d.failed
  BY <1>1, GoneOn DEF Fits
<1>2. CASE ~d.failed
  <2>1. \A i \in Item : RowFits(d.items[i], l, i, n)
    BY <1>2, RowFitsOn DEF Fits
  <2> QED BY <1>2, <2>1, QuietFits DEF Fits
<1> QED BY <1>1, <1>2

LEMMA TakeOutCurrent ==
    ASSUME NEW d \in Projections, NEW n \in Nat, Apart(d, n), Current(d), NEW is \in SUBSET Item
    PROVE  /\ TakeOut(d, is) \in Projections
           /\ TakeOut(d, is).items = [i \in Item |-> IF i \in is THEN NoRow ELSE d.items[i]]
           /\ TakeOut(d, is).thread = d.thread /\ TakeOut(d, is).failed = d.failed
           /\ Current(TakeOut(d, is))
<1> DEFINE c == TakeOut(d, is)
<1>1. NoRow \in Row
  BY DEF NoRow, Row, Status, Text_
<1>2. c \in Projections /\ c.thread = d.thread /\ c.failed = d.failed
      /\ c.items = [i \in Item |-> IF i \in is THEN NoRow ELSE d.items[i]]
      /\ c.index = {r \in d.index : \A i \in is : r.seq # d.items[i].seq}
  BY <1>1 DEF TakeOut, Projections
<1>3. Done(c) = Done(d) \ is
  BY <1>2 DEF Done, NoRow, Item, Streamed
<1>4. \A j \in Done(c) : Entry(c, j) = Entry(d, j)
  BY <1>2, <1>3 DEF Entry, Done, Item, Streamed
<1>5. d.index = {Entry(d, j) : j \in Done(d)}
  BY CurrentEntries
<1>6. ASSUME NEW j \in Done(d) PROVE (\A i \in is : Entry(d, j).seq # d.items[i].seq) <=> j \notin is
  <2>1. j \in Item /\ d.items[j].status = "done"
    BY DEF Done, Item, Streamed
  <2>2. d.items[j] # NoRow
    BY <2>1 DEF NoRow
  <2> QED BY <2>1, <2>2 DEF Apart, Entry
<1>7. c.index = {Entry(d, j) : j \in Done(d) \ is}
  BY <1>2, <1>5, <1>6
<1>8. c.index = {Entry(c, j) : j \in Done(c)}
  BY <1>7, <1>3, <1>4
<1> HIDE DEF c
<1> QED BY <1>2, <1>8, CurrentEntries DEF c

LEMMA StartedFits ==
    ASSUME NEW d \in Projections, NEW l, NEW n \in DOMAIN l, n \in Nat \ {0},
           ~d.failed, Fits(d, l, n - 1), Sound(l[n]), l[n].type = "started"
    PROVE  ApplyStarted(d, n, l[n]) \in Projections /\ Fits(ApplyStarted(d, n, l[n]), l, n)
<1> DEFINE e == l[n]
           i == e.id
           row == [seq |-> n, status |-> e.status, body |-> e.text, output |-> <<>>]
           new == [d EXCEPT !.index = Unindexed(d, i), !.items[i] = row]
           c == ApplyStarted(d, n, l[n])
<1>1. CASE ~d.thread
  <2>1. c = [d EXCEPT !.failed = TRUE]
    BY <1>1 DEF ApplyStarted
  <2>2. c \in Projections /\ c.failed
    BY <2>1 DEF Projections
  <2> QED BY <1>1, <2>2, GoneOn DEF Fits
<1>2. CASE d.thread
  <2>0. e \in Events /\ i \in Item /\ row \in Row /\ n - 1 \in Nat
    BY DEF Sound, Events, Row, Text_
  <2>1. ~Gone(l, n) /\ InTime(l, n)
    <3>1. ~Gone(l, n)
      BY <1>2, GoneOn DEF Fits, DeletedAt
    <3> QED BY <3>1, InTimeOn DEF Fits
  <2>2. Current(d) /\ Apart(d, n - 1)
    BY <2>0, RowsApart DEF Fits
  <2>3. Unindexed(d, i) = {Entry(d, j) : j \in Done(d) \ {i}}
    BY <2>0, <2>2, UnindexedOthers
  <2>4. new \in Projections /\ new.thread = d.thread /\ ~new.failed /\ new.index = Unindexed(d, i)
        /\ new.items = [d.items EXCEPT ![i] = row]
    BY <2>0 DEF Projections, Unindexed
  <2>5. \A j \in Item : RowFits(new.items[j], l, j, n)
    <3>1. RowFits(row, l, i, n)
      <4>1. Opened(l, i, n, n)
        BY DEF Opened, StartedAt
      <4>2. i \in Prompts \/ i \in Replies \/ i \notin Searchable
        OBVIOUS
      <4>3. i \in Replies => i \notin Prompts
        BY EventLogAssumption
      <4> QED BY <4>1, <4>2, <4>3 DEF RowFits, Sound
    <3>2. ASSUME NEW j \in Item, j # i PROVE RowFits(d.items[j], l, j, n)
      BY <3>2, RowFitsOn DEF Fits, StartedAt, DeletedAt
    <3> QED BY <2>0, <2>4, <3>1, <3>2 DEF Projections
  <2>6. Done(new) \ {i} = Done(d) \ {i}
    BY <2>0, <2>4 DEF Done, Projections, Item, Streamed
  <2>7. \A j \in Done(d) \ {i} : Entry(new, j) = Entry(d, j) /\ Entry(d, j).seq # n
    <3>1. ASSUME NEW j \in Done(d) \ {i} PROVE Entry(new, j) = Entry(d, j) /\ Entry(d, j).seq # n
      <4>1. j \in Item /\ d.items[j].status = "done"
        BY DEF Done, Item, Streamed
      <4>2. d.items[j] # NoRow
        BY <4>1 DEF NoRow
      <4>3. d.items[j].seq \in 1..(n - 1)
        BY <2>2, <4>1, <4>2 DEF Apart
      <4> QED BY <2>4, <4>1, <4>3 DEF Entry, Projections
    <3> QED BY <3>1
  <2> HIDE DEF new
  <2>8. new.index = {Entry(new, j) : j \in Done(new) \ {i}}
    BY <2>3, <2>4, <2>6, <2>7
  <2>9. Unindexed(new, i) = new.index
    <3>1. new.items[i].seq = n
      BY <2>0, <2>4 DEF Projections
    <3>2. \A r \in new.index : r.seq # n
      BY <2>7, <2>8, <2>6
    <3> QED BY <3>1, <3>2 DEF Unindexed
  <2>10. CASE i \in Prompts \/ e.status # "running"
    <3>1. c = IndexItem(new, i)
      BY <1>2, <2>10 DEF ApplyStarted, new
    <3>2. i \in Searchable => new.items[i].status = "done" /\ new.items[i].body # <<>>
      <4>1. new.items[i] = row
        BY <2>0, <2>4 DEF Projections
      <4> QED BY <2>10, <4>1 DEF Sound
    <3>3. c \in Projections /\ c.items = new.items /\ c.thread = new.thread /\ c.failed = new.failed /\ Current(c)
      <4> HIDE DEF c
      <4> QED BY <2>0, <2>4, <2>8, <2>9, <3>1, <3>2, IndexCurrent
    <3> QED BY <1>2, <2>1, <2>4, <2>5, <3>3 DEF Fits
  <2>11. CASE ~(i \in Prompts \/ e.status # "running")
    <3>1. c = new
      BY <1>2, <2>11 DEF ApplyStarted, new
    <3>2. i \notin Done(new)
      BY <2>0, <2>4, <2>11 DEF Done, Projections
    <3>3. Done(new) \ {i} = Done(new)
      BY <3>2
    <3>4. Current(new)
      BY <2>8, <3>3, CurrentEntries
    <3> QED BY <1>2, <2>1, <2>4, <2>5, <3>1, <3>4 DEF Fits
  <2> QED BY <2>10, <2>11
<1> QED BY <1>1, <1>2 DEF Projections

\* Text is added to the row of an item that has no search row of its own.
LEMMA DeltaFits ==
    ASSUME NEW d \in Projections, NEW l, NEW n \in DOMAIN l, n \in Nat \ {0},
           ~d.failed, Fits(d, l, n - 1), Sound(l[n]), l[n].type = "delta",
           \A i \in Replies : BodyAt(l, n, i) => Streaming(l, i, n - 1)
    PROVE  ApplyDelta(d, l[n]) \in Projections /\ Fits(ApplyDelta(d, l[n]), l, n)
<1> DEFINE e == l[n]
           i == e.id
           row == d.items[i]
           c == ApplyDelta(d, e)
<1>1. e \in Events /\ i \in Item /\ row \in Row /\ i \notin Prompts /\ e.text \in Text_
  BY DEF Sound, Events, Projections
<1>2. (\A j : ~StartedAt(l, n, j)) /\ ~DeletedAt(l, n)
  BY DEF StartedAt, DeletedAt
<1>3. CASE row = NoRow
  <2>1. c = d
    BY <1>3 DEF ApplyDelta
  <2> QED BY <1>2, <2>1, NothingFits
<1>4. CASE row # NoRow
  <2> DEFINE new == IF e.field = "output" THEN [row EXCEPT !.output = @ \o e.text]
                    ELSE [row EXCEPT !.body = @ \o e.text]
  <2>1. c = [d EXCEPT !.items[i] = new]
    BY <1>1, <1>4 DEF ApplyDelta, Projections
  <2>2. new \in Row /\ new.seq = row.seq /\ new.status = row.status
        /\ (row.body # <<>> => new.body # <<>>)
        /\ (e.field = "output" => new.body = row.body)
    <3>1. row.output \o e.text \in Text_ /\ row.body \o e.text \in Text_
      BY <1>1 DEF Row, Text_
    <3>2. row.body # <<>> => row.body \o e.text # <<>>
      BY <1>1 DEF Row, Text_
    <3>3. CASE e.field = "output"
      BY <1>1, <3>1, <3>3 DEF Row
    <3>4. CASE e.field # "output"
      BY <1>1, <3>1, <3>2, <3>4 DEF Row
    <3> QED BY <3>3, <3>4
  <2> HIDE DEF new
  <2>3. c \in Projections /\ ~c.failed /\ c.thread = d.thread /\ c.index = d.index
        /\ c.items = [d.items EXCEPT ![i] = new]
    BY <1>1, <2>1, <2>2 DEF Projections
  <2>4. RowFits(row, l, i, n)
    BY <1>1, <1>2, RowFitsOn DEF Fits
  <2>5. RowFits(new, l, i, n)
    BY <1>4, <2>2, <2>4 DEF RowFits
  <2>6. \A j \in Item : RowFits(c.items[j], l, j, n)
    <3>1. ASSUME NEW j \in Item, j # i PROVE RowFits(d.items[j], l, j, n)
      BY <1>2, RowFitsOn DEF Fits
    <3> QED BY <1>1, <2>3, <2>5, <3>1 DEF Projections
  <2>7. i \in Done(d) => e.field = "output" /\ FALSE
    <3> SUFFICES ASSUME i \in Done(d) PROVE FALSE
      OBVIOUS
    <3>1. i \in Replies /\ row.status = "done"
      BY <1>1 DEF Done
    <3>2. Opened(l, i, row.seq, n - 1) /\ Ended(l, i, row.seq, n - 1)
      BY <1>1, <1>4, <3>1 DEF Fits, RowFits
    <3>3. BodyAt(l, n, i)
      BY <1>1, <3>1 DEF BodyAt, Sound, Events
    <3> QED BY <3>1, <3>2, <3>3 DEF Streaming, Opened
  <2>8. Done(c) = Done(d)
    BY <1>1, <2>2, <2>3 DEF Done, Projections, Item, Streamed
  <2>9. \A j \in Done(d) : Entry(c, j) = Entry(d, j)
    BY <1>1, <2>3, <2>7 DEF Entry, Projections, Done, Item, Streamed
  <2>10. Current(c)
    <3>1. c.index = {Entry(d, j) : j \in Done(d)}
      BY <2>3, CurrentEntries DEF Fits
    <3> HIDE DEF c
    <3>2. c.index = {Entry(c, j) : j \in Done(c)}
      BY <3>1, <2>8, <2>9
    <3> QED BY <3>2, CurrentEntries
  <2> QED BY <1>2, <2>3, <2>6, <2>10, QuietFits
<1> QED BY <1>3, <1>4

LEMMA CompletedFits ==
    ASSUME NEW d \in Projections, NEW l, NEW n \in DOMAIN l, n \in Nat \ {0},
           ~d.failed, Fits(d, l, n - 1), Sound(l[n]), l[n].type = "completed"
    PROVE  ApplyCompleted(d, l[n]) \in Projections /\ Fits(ApplyCompleted(d, l[n]), l, n)
<1> DEFINE e == l[n]
           i == e.id
           row == d.items[i]
           c == ApplyCompleted(d, e)
<1>1. e \in Events /\ i \in Item /\ row \in Row /\ i \notin Prompts /\ e.status \in Status
  BY DEF Sound, Events, Projections
<1>2. (\A j : ~StartedAt(l, n, j)) /\ ~DeletedAt(l, n)
  BY DEF StartedAt, DeletedAt
<1>3. CASE row = NoRow
  <2>1. c = d
    BY <1>3 DEF ApplyCompleted
  <2> QED BY <1>2, <2>1, NothingFits
<1>4. CASE row # NoRow
  <2> DEFINE new == [row EXCEPT !.status = e.status]
             b == [d EXCEPT !.items[i] = new]
  <2>1. c = IndexItem(b, i)
    BY <1>1, <1>4 DEF ApplyCompleted, Projections
  <2>2. new \in Row /\ new.seq = row.seq /\ new.body = row.body /\ new.status = e.status
    BY <1>1 DEF Row
  <2> HIDE DEF new
  <2>3. b \in Projections /\ ~b.failed /\ b.thread = d.thread /\ b.index = d.index
        /\ b.items = [d.items EXCEPT ![i] = new]
    BY <1>1, <2>2 DEF Projections
  <2> HIDE DEF b
  <2>4. RowFits(row, l, i, n)
    BY <1>1, <1>2, RowFitsOn DEF Fits
  <2>5. RowFits(new, l, i, n) /\ (i \in Searchable => new.status = "done" /\ new.body # <<>>)
    <3>1. Opened(l, i, row.seq, n - 1)
      BY <1>1, <1>4 DEF Fits, RowFits
    <3>2. n \in (row.seq + 1)..n /\ CompletedAt(l, n, i)
      BY <3>1 DEF Opened, CompletedAt
    <3>3. Ended(l, i, row.seq, n)
      BY <3>2 DEF Ended
    <3> QED BY <1>1, <1>4, <2>2, <2>4, <3>3 DEF RowFits, Sound
  <2>6. \A j \in Item : RowFits(b.items[j], l, j, n)
    <3>1. ASSUME NEW j \in Item, j # i PROVE RowFits(d.items[j], l, j, n)
      BY <1>2, RowFitsOn DEF Fits
    <3> QED BY <1>1, <2>3, <2>5, <3>1 DEF Projections
  <2>7. Unindexed(b, i) = Unindexed(d, i)
    BY <1>1, <2>2, <2>3 DEF Unindexed, Projections
  <2>8. Unindexed(d, i) = {Entry(d, j) : j \in Done(d) \ {i}}
    BY <1>1, RowsApart, UnindexedOthers DEF Fits
  <2>9. Done(b) \ {i} = Done(d) \ {i} /\ \A j \in Done(d) \ {i} : Entry(b, j) = Entry(d, j)
    BY <1>1, <2>3 DEF Done, Entry, Projections, Item, Streamed
  <2>10. Unindexed(b, i) = {Entry(b, j) : j \in Done(b) \ {i}}
    BY <2>7, <2>8, <2>9
  <2>11. b.items[i] = new
    BY <1>1, <2>3 DEF Projections
  <2> HIDE DEF c
  <2>12. c \in Projections /\ c.items = b.items /\ c.thread = b.thread /\ c.failed = b.failed /\ Current(c)
    BY <1>1, <2>1, <2>3, <2>5, <2>10, <2>11, IndexCurrent
  <2>13. Fits(c, l, n)
    BY <1>2, <2>3, <2>6, <2>12, QuietFits
  <2> QED BY <2>12, <2>13 DEF c
<1> QED BY <1>3, <1>4

LEMMA RewoundFits ==
    ASSUME NEW d \in Projections, NEW l, NEW n \in DOMAIN l, n \in Nat \ {0},
           ~d.failed, Fits(d, l, n - 1), Sound(l[n]), l[n].type = "rewound"
    PROVE  ApplyRewound(d, l[n]) \in Projections /\ Fits(ApplyRewound(d, l[n]), l, n)
<1> DEFINE e == l[n]
           cut == d.items[e.id].seq
           is == {i \in Item : d.items[i].seq >= cut}
           c == ApplyRewound(d, e)
<1>1. (\A j : ~StartedAt(l, n, j)) /\ ~DeletedAt(l, n)
  BY DEF StartedAt, DeletedAt
<1>2. CASE cut = 0
  <2>1. c = d
    BY <1>2 DEF ApplyRewound
  <2> QED BY <1>1, <2>1, NothingFits
<1>3. CASE cut # 0
  <2>1. c = TakeOut(d, is)
    BY <1>3 DEF ApplyRewound
  <2>2. Apart(d, n - 1)
    BY RowsApart DEF Fits
  <2>3. is \in SUBSET Item
    OBVIOUS
  <2> HIDE DEF is, c
  <2>4. c \in Projections /\ c.items = [i \in Item |-> IF i \in is THEN NoRow ELSE d.items[i]]
        /\ c.thread = d.thread /\ c.failed = d.failed /\ Current(c)
    BY <2>1, <2>2, <2>3, TakeOutCurrent DEF Fits
  <2>5. \A i \in Item : RowFits(c.items[i], l, i, n)
    <3>1. ASSUME NEW i \in Item PROVE RowFits(d.items[i], l, i, n)
      BY <1>1, RowFitsOn DEF Fits
    <3> QED BY <2>4, <3>1 DEF RowFits
  <2>6. Fits(c, l, n)
    BY <1>1, <2>4, <2>5, QuietFits
  <2> QED BY <2>4, <2>6 DEF c
<1> QED BY <1>2, <1>3

LEMMA DeletedFits ==
    ASSUME NEW d \in Projections, NEW l, NEW n \in DOMAIN l, n \in Nat \ {0},
           ~d.failed, Fits(d, l, n - 1), l[n].type = "deleted"
    PROVE  ApplyDeleted(d, l[n]) \in Projections /\ Fits(ApplyDeleted(d, l[n]), l, n)
<1> DEFINE b == TakeOut(d, Item)
           c == ApplyDeleted(d, l[n])
<1>1. Gone(l, n) /\ InTime(l, n)
  BY GoneOn, InTimeOn DEF Fits, DeletedAt
<1>2. b \in Projections /\ b.items = [i \in Item |-> NoRow] /\ b.failed = d.failed /\ Current(b)
  BY RowsApart, TakeOutCurrent DEF Fits
<1> HIDE DEF b
<1>3. c = [b EXCEPT !.thread = FALSE]
  BY DEF ApplyDeleted, b
<1>4. c \in Projections /\ ~c.failed /\ ~c.thread /\ c.items = b.items /\ c.index = b.index
  BY <1>2, <1>3 DEF Projections
<1>5. Current(c)
  BY <1>2, <1>4 DEF Current
<1>6. \A i \in Item : RowFits(c.items[i], l, i, n)
  BY <1>2, <1>4 DEF RowFits
<1>7. Fits(c, l, n)
  BY <1>1, <1>4, <1>5, <1>6 DEF Fits
<1> QED BY <1>4, <1>7

LEMMA NextFits ==
    ASSUME NEW l, NEW m \in Nat, Orderly(l, m), NEW n \in 1..m,
           NEW d \in Projections, Fits(d, l, n - 1)
    PROVE  Next1(l, d, n) \in Projections /\ Fits(Next1(l, d, n), l, n)
<1>1. CASE n \notin DOMAIN l
  <2>1. Next1(l, d, n) = d /\ (\A i : ~StartedAt(l, n, i)) /\ ~DeletedAt(l, n)
    BY <1>1 DEF Next1, StartedAt, DeletedAt
  <2> QED BY <2>1, NothingFits
<1>2. CASE n \in DOMAIN l /\ d.failed
  <2>1. Next1(l, d, n) = d
    BY <1>2 DEF Next1, Apply
  <2> QED BY <1>2, <2>1, GoneOn DEF Fits
<1>3. CASE n \in DOMAIN l /\ ~d.failed
  <2>1. Sound(l[n]) /\ \A i \in Replies : BodyAt(l, n, i) => Streaming(l, i, n - 1)
    BY <1>3 DEF Orderly
  <2>2. l[n].type \in {"started", "delta", "completed", "rewound", "deleted"}
    BY <2>1 DEF Sound, Events
  <2>3. CASE l[n].type = "started"
    BY <1>3, <2>1, <2>3, StartedFits DEF Next1, Apply
  <2>4. CASE l[n].type = "delta"
    BY <1>3, <2>1, <2>4, DeltaFits DEF Next1, Apply
  <2>5. CASE l[n].type = "completed"
    BY <1>3, <2>1, <2>5, CompletedFits DEF Next1, Apply
  <2>6. CASE l[n].type = "rewound"
    BY <1>3, <2>1, <2>6, RewoundFits DEF Next1, Apply
  <2>7. CASE l[n].type = "deleted"
    BY <1>3, <2>1, <2>7, DeletedFits DEF Next1, Apply
  <2> QED BY <2>2, <2>3, <2>4, <2>5, <2>6, <2>7
<1> QED BY <1>1, <1>2, <1>3

LEMMA AppliedFits ==
    ASSUME NEW l, NEW hi \in Nat, Orderly(l, hi), NEW lo \in 1..(hi + 1),
           NEW d \in Projections, Fits(d, l, lo - 1)
    PROVE  Applied(d, l, lo, hi) \in Projections /\ Fits(Applied(d, l, lo, hi), l, hi)
<1> DEFINE S == [n \in 0..hi |-> {x \in Projections : Fits(x, l, n)}]
<1>1. lo \in Nat \ {0} /\ lo <= hi + 1 /\ lo - 1 \in 0..hi
  OBVIOUS
<1>2. d \in S[lo - 1]
  BY <1>1
<1>3. ASSUME NEW n \in lo..hi, NEW x, x \in S[n - 1] PROVE Next1(l, x, n) \in S[n]
  <2>1. n \in 1..hi /\ n - 1 \in 0..hi /\ n \in 0..hi
    OBVIOUS
  <2>2. x \in Projections /\ Fits(x, l, n - 1)
    BY <1>3, <2>1
  <2> QED BY <2>1, <2>2, NextFits
<1>4. hi \in 0..hi
  OBVIOUS
<1> HIDE DEF S
<1>5. Applied(d, l, lo, hi) \in S[hi]
  BY <1>1, <1>2, <1>3, AppliedKeeps
<1> QED BY <1>4, <1>5 DEF S

----------------------------------------------------------------------------
(***************************************************************************)
(* Two logs that say the same: k may say some of the text of l earlier.    *)
(* R[n][i][f] is what k has said more than l, by n, of the field f of i.   *)
(***************************************************************************)
Fields == {"body", "output"}
Said(k, n) == IF n \in DOMAIN k THEN k[n].text ELSE <<>>

SaysAt(k, l, R, n) ==
    /\ n \in DOMAIN k => n \in DOMAIN l
    /\ n \in DOMAIN l => l[n].type = "delta" \/ (n \in DOMAIN k /\ k[n] = l[n])
    /\ n \in DOMAIN l /\ l[n].type = "delta" /\ n \in DOMAIN k =>
          k[n] = [l[n] EXCEPT !.text = k[n].text] /\ k[n].text \in Text_
    /\ \A i \in Item, f \in Fields :
          /\ R[n][i][f] \in Text_ /\ R[n - 1][i][f] \in Text_
          /\ IF n \in DOMAIN l /\ l[n].type = "delta" /\ l[n].id = i /\ l[n].field = f
             THEN R[n - 1][i][f] \o Said(k, n) = l[n].text \o R[n][i][f]
             ELSE R[n][i][f] = R[n - 1][i][f]
          /\ StartedAt(l, n, i) /\ Single(l, i) => R[n][i][f] = <<>>

LikeRow(a, b, t, u) ==
    /\ a.seq = b.seq /\ a.status = b.status
    /\ b.seq # 0 => a.body = b.body \o t /\ a.output = b.output \o u

Like(x, y, l, R, n) ==
    \/ y.failed
    \/ /\ ~x.failed /\ x.thread = y.thread
       /\ \A i \in Item : Single(l, i) => LikeRow(x.items[i], y.items[i], R[n][i]["body"], R[n][i]["output"])

LEMMA TextConcat ==
    /\ <<>> \in Text_
    /\ \A s, t \in Text_ : s \o t \in Text_
    /\ \A s \in Text_ : s \o <<>> = s /\ <<>> \o s = s
    /\ \A s, t, u \in Text_ : (s \o t) \o u = s \o (t \o u)
<1>1. \A s, t, u \in Text_ : (s \o t) \o u = s \o (t \o u)
  <2> SUFFICES ASSUME NEW s \in Seq(Nat), NEW t \in Seq(Nat), NEW u \in Seq(Nat)
               PROVE  (s \o t) \o u = s \o (t \o u)
    BY DEF Text_
  <2> QED BY ConcatAssociative
<1>2. \A s \in Text_ : s \o <<>> = s /\ <<>> \o s = s
  <2> SUFFICES ASSUME NEW s \in Seq(Nat) PROVE s \o <<>> = s /\ <<>> \o s = s
    BY DEF Text_
  <2> QED BY ConcatEmptySeq
<1>3. \A s, t \in Text_ : s \o t \in Text_
  BY DEF Text_
<1>4. <<>> \in Text_
  BY DEF Text_
<1> QED BY <1>1, <1>2, <1>3, <1>4

LEMMA NoRowSeq ==
    ASSUME NEW l, NEW i, NEW row, NEW n \in Nat, RowFits(row, l, i, n)
    PROVE  row = NoRow <=> row.seq = 0
BY DEF RowFits, Opened, NoRow

LEMMA IndexItemItems ==
    ASSUME NEW d \in Projections, NEW i
    PROVE  IndexItem(d, i).items = d.items /\ IndexItem(d, i).thread = d.thread /\ IndexItem(d, i).failed = d.failed
BY DEF IndexItem, Projections

LEMMA StartedItems ==
    ASSUME NEW d \in Projections, d.thread, ~d.failed, NEW n \in Nat, NEW e, Sound(e), e.type = "started"
    PROVE  /\ ApplyStarted(d, n, e).items =
                 [d.items EXCEPT ![e.id] = [seq |-> n, status |-> e.status, body |-> e.text, output |-> <<>>]]
           /\ ApplyStarted(d, n, e).thread /\ ~ApplyStarted(d, n, e).failed
<1> DEFINE row == [seq |-> n, status |-> e.status, body |-> e.text, output |-> <<>>]
           new == [d EXCEPT !.index = Unindexed(d, e.id), !.items[e.id] = row]
<1>1. row \in Row
  BY DEF Sound, Events, Row, Text_
<1> HIDE DEF row
<1>2. new \in Projections /\ new.items = [d.items EXCEPT ![e.id] = row] /\ new.thread /\ ~new.failed
  BY <1>1 DEF Projections, Unindexed
<1> HIDE DEF new
<1>3. ApplyStarted(d, n, e) = new \/ ApplyStarted(d, n, e) = IndexItem(new, e.id)
  BY DEF ApplyStarted, new, row
<1> QED BY <1>2, <1>3, IndexItemItems DEF row

LEMMA CompletedItems ==
    ASSUME NEW d \in Projections, NEW e, Sound(e), e.type = "completed", d.items[e.id] # NoRow
    PROVE  /\ ApplyCompleted(d, e).items = [d.items EXCEPT ![e.id] = [@ EXCEPT !.status = e.status]]
           /\ ApplyCompleted(d, e).thread = d.thread /\ ApplyCompleted(d, e).failed = d.failed
<1> DEFINE new == [d EXCEPT !.items[e.id].status = e.status]
<1>1. e.id \in Item /\ e.status \in Status
  BY DEF Sound, Events
<1>2. new \in Projections /\ new.items = [d.items EXCEPT ![e.id] = [@ EXCEPT !.status = e.status]]
      /\ new.thread = d.thread /\ new.failed = d.failed
  <2>1. [d.items[e.id] EXCEPT !.status = e.status] \in Row
    BY <1>1 DEF Projections, Row
  <2> QED BY <1>1, <2>1 DEF Projections
<1> HIDE DEF new
<1>3. ApplyCompleted(d, e) = IndexItem(new, e.id)
  BY DEF ApplyCompleted, new
<1> QED BY <1>2, <1>3, IndexItemItems

\* The row of the item i that an event adds text to.
LEMMA DeltaItems ==
    ASSUME NEW d \in Projections, NEW e, e.id \in Item, e.text \in Text_, e.field \in Fields
    PROVE  /\ ApplyDelta(d, e).thread = d.thread /\ ApplyDelta(d, e).failed = d.failed
           /\ \A i \in Item : i # e.id => ApplyDelta(d, e).items[i] = d.items[i]
           /\ d.items[e.id] = NoRow => ApplyDelta(d, e) = d
           /\ d.items[e.id] # NoRow =>
                /\ ApplyDelta(d, e).items[e.id].seq = d.items[e.id].seq
                /\ ApplyDelta(d, e).items[e.id].status = d.items[e.id].status
                /\ ApplyDelta(d, e).items[e.id].body =
                      IF e.field = "body" THEN d.items[e.id].body \o e.text ELSE d.items[e.id].body
                /\ ApplyDelta(d, e).items[e.id].output =
                      IF e.field = "output" THEN d.items[e.id].output \o e.text ELSE d.items[e.id].output
<1> DEFINE i == e.id
           row == d.items[i]
           new == IF e.field = "output" THEN [row EXCEPT !.output = @ \o e.text]
                  ELSE [row EXCEPT !.body = @ \o e.text]
<1>1. CASE row = NoRow
  BY <1>1 DEF ApplyDelta
<1>2. CASE row # NoRow
  <2>1. row \in Row
    BY DEF Projections
  <2>2. ApplyDelta(d, e) = [d EXCEPT !.items = [d.items EXCEPT ![i] = new]]
    BY <1>2 DEF ApplyDelta, Projections
  <2>3. /\ new.seq = row.seq /\ new.status = row.status
        /\ new.body = IF e.field = "body" THEN row.body \o e.text ELSE row.body
        /\ new.output = IF e.field = "output" THEN row.output \o e.text ELSE row.output
    BY <2>1 DEF Row, Fields
  <2> HIDE DEF new
  <2> QED BY <1>2, <2>2, <2>3 DEF Projections
<1> QED BY <1>1, <1>2

\* One event keeps two projections alike.
LEMMA NextLike ==
    ASSUME NEW k, NEW l, NEW R, NEW m \in Nat, Orderly(l, m), NEW n \in 1..m,
           SaysAt(k, l, R, n),
           NEW x \in Projections, NEW y \in Projections,
           Fits(x, k, n - 1), Fits(y, l, n - 1), Like(x, y, l, R, n - 1)
    PROVE  Like(Next1(k, x, n), Next1(l, y, n), l, R, n)
<1> DEFINE e == l[n]
           a == Next1(k, x, n)
           b == Next1(l, y, n)
<1>1. CASE y.failed
  <2>1. b = y
    BY <1>1 DEF Next1, Apply
  <2> QED BY <1>1, <2>1 DEF Like
<1>2. CASE n \notin DOMAIN l
  <2>1. a = x /\ b = y
    BY <1>2 DEF Next1, SaysAt
  <2>2. \A i \in Item, f \in Fields : R[n][i][f] = R[n - 1][i][f]
    BY <1>2 DEF SaysAt
  <2> QED BY <2>1, <2>2 DEF Like, Fields
<1>3. CASE ~y.failed /\ n \in DOMAIN l
  <2>0. /\ ~x.failed /\ x.thread = y.thread
        /\ \A i \in Item : Single(l, i) => LikeRow(x.items[i], y.items[i], R[n - 1][i]["body"], R[n - 1][i]["output"])
    BY <1>3 DEF Like
  <2>1. Sound(e) /\ e \in Events
    BY <1>3 DEF Orderly, Sound
  <2>2. e.type \in {"started", "delta", "completed", "rewound", "deleted"}
    BY <2>1 DEF Events
  <2>3. ASSUME e.type # "delta"
        PROVE  n \in DOMAIN k /\ k[n] = e /\ \A i \in Item, f \in Fields : R[n][i][f] = R[n - 1][i][f]
    BY <1>3, <2>3 DEF SaysAt
  <2>4. \A i \in Item : (x.items[i] = NoRow <=> x.items[i].seq = 0) /\ (y.items[i] = NoRow <=> y.items[i].seq = 0)
    BY <1>3, <2>0, NoRowSeq DEF Fits
  <2>5. CASE e.type = "started"
    <3>1. a = ApplyStarted(x, n, e) /\ b = ApplyStarted(y, n, e)
      BY <1>3, <2>0, <2>3, <2>5 DEF Next1, Apply
    <3>2. CASE ~y.thread
      <4>1. b.failed
        BY <3>1, <3>2 DEF ApplyStarted, Projections
      <4> QED BY <4>1 DEF Like
    <3>3. CASE y.thread
      <4> DEFINE row == [seq |-> n, status |-> e.status, body |-> e.text, output |-> <<>>]
      <4>1. /\ a.items = [x.items EXCEPT ![e.id] = row] /\ a.thread /\ ~a.failed
            /\ b.items = [y.items EXCEPT ![e.id] = row] /\ b.thread /\ ~b.failed
        <5>1. n \in Nat /\ x.thread /\ ~x.failed /\ ~y.failed
          BY <1>3, <2>0, <3>3
        <5>2. /\ ApplyStarted(x, n, e).items = [x.items EXCEPT ![e.id] = row]
              /\ ApplyStarted(x, n, e).thread /\ ~ApplyStarted(x, n, e).failed
          BY <2>1, <2>5, <5>1, StartedItems
        <5>3. /\ ApplyStarted(y, n, e).items = [y.items EXCEPT ![e.id] = row]
              /\ ApplyStarted(y, n, e).thread /\ ~ApplyStarted(y, n, e).failed
          BY <2>1, <2>5, <3>3, <5>1, StartedItems
        <5> QED BY <3>1, <5>2, <5>3, Zenon
      <4>2. row.body \in Text_ /\ row.body \o <<>> = row.body /\ row.output \o <<>> = row.output
        BY <2>1 DEF Events, Text_
      <4>3. ASSUME NEW i \in Item, Single(l, i)
            PROVE  LikeRow(a.items[i], b.items[i], R[n][i]["body"], R[n][i]["output"])
        <5>1. CASE i = e.id
          <6>1. R[n][i]["body"] = <<>> /\ R[n][i]["output"] = <<>>
            BY <1>3, <2>5, <4>3, <5>1 DEF SaysAt, StartedAt, Fields
          <6>2. a.items[i] = row /\ b.items[i] = row
            BY <4>1, <5>1 DEF Projections
          <6> QED BY <4>2, <6>1, <6>2 DEF LikeRow
        <5>2. CASE i # e.id
          <6>1. a.items[i] = x.items[i] /\ b.items[i] = y.items[i]
            BY <4>1, <5>2 DEF Projections
          <6> QED BY <2>0, <2>3, <2>5, <4>3, <6>1 DEF Fields
        <5> QED BY <5>1, <5>2
      <4>4. a.thread = b.thread
        <5>1. a.thread = x.thread /\ b.thread = y.thread
          BY <3>1, <2>0, <3>3 DEF ApplyStarted, IndexItem, Projections
        <5> QED BY <2>0, <5>1
      <4> QED BY <4>1, <4>3, <4>4 DEF Like
    <3> QED BY <3>2, <3>3
  <2>6. CASE e.type = "delta"
    <3> DEFINE t == Said(k, n)
    <3>0. e.id \in Item /\ e.text \in Text_ /\ e.field \in Fields
      BY <2>1, <2>6 DEF Sound, Events, Fields
    <3>1. b = ApplyDelta(y, e)
      BY <1>3, <2>6 DEF Next1, Apply
    <3>2. n \in DOMAIN k => k[n].type = "delta" /\ k[n].id = e.id /\ k[n].field = e.field /\ k[n].text \in Text_
      BY <2>1, <2>6 DEF SaysAt, Events
    <3>3. n \in DOMAIN k => a = ApplyDelta(x, k[n])
      BY <2>0, <3>2 DEF Next1, Apply
    <3>4. n \notin DOMAIN k => a = x /\ t = <<>>
      BY DEF Next1, Said
    <3>5. n \in DOMAIN k => t = k[n].text
      BY DEF Said
    <3>6. a.thread = x.thread /\ a.failed = x.failed /\ b.thread = y.thread /\ b.failed = y.failed
      BY <3>0, <3>1, <3>2, <3>3, <3>4, DeltaItems
    <3>7. ASSUME NEW i \in Item, Single(l, i)
          PROVE  LikeRow(a.items[i], b.items[i], R[n][i]["body"], R[n][i]["output"])
      <4>0. LikeRow(x.items[i], y.items[i], R[n - 1][i]["body"], R[n - 1][i]["output"])
        BY <2>0, <3>7
      <4>1. CASE i # e.id
        <5>1. a.items[i] = x.items[i] /\ b.items[i] = y.items[i]
          BY <3>0, <3>1, <3>2, <3>3, <3>4, <4>1, DeltaItems
        <5>2. R[n][i]["body"] = R[n - 1][i]["body"] /\ R[n][i]["output"] = R[n - 1][i]["output"]
          BY <4>1 DEF SaysAt, Fields
        <5> QED BY <4>0, <5>1, <5>2
      <4>2. CASE i = e.id /\ y.items[i] = NoRow
        <5>1. x.items[i] = NoRow
          BY <2>4, <4>0, <4>2 DEF LikeRow
        <5>2. a = x /\ b = y
          BY <3>0, <3>1, <3>2, <3>3, <3>4, <4>2, <5>1, DeltaItems
        <5>3. y.items[i].seq = 0
          BY <4>2 DEF NoRow
        <5> QED BY <4>0, <5>2, <5>3 DEF LikeRow
      <4>3. CASE i = e.id /\ y.items[i] # NoRow
        <5> DEFINE p == x.items[i]
                   q == y.items[i]
        <5>1. p # NoRow /\ p \in Row /\ q \in Row /\ q.seq # 0
          BY <2>4, <4>0, <4>3 DEF LikeRow, Projections
        <5>2. /\ b.items[i].seq = q.seq /\ b.items[i].status = q.status
              /\ b.items[i].body = IF e.field = "body" THEN q.body \o e.text ELSE q.body
              /\ b.items[i].output = IF e.field = "output" THEN q.output \o e.text ELSE q.output
          BY <3>0, <3>1, <4>3, DeltaItems
        <5>3. /\ a.items[i].seq = p.seq /\ a.items[i].status = p.status
              /\ a.items[i].body = IF e.field = "body" THEN p.body \o t ELSE p.body
              /\ a.items[i].output = IF e.field = "output" THEN p.output \o t ELSE p.output
          <6>1. CASE n \in DOMAIN k
            <7> DEFINE h == k[n]
            <7>1. h.id = i /\ h.id \in Item /\ h.text \in Text_ /\ h.field = e.field /\ h.field \in Fields
                  /\ x.items[h.id] # NoRow /\ a = ApplyDelta(x, h) /\ t = h.text
              BY <3>0, <3>2, <3>3, <3>5, <4>3, <5>1, <6>1
            <7> HIDE DEF h, a, t
            <7> QED BY <7>1, DeltaItems
          <6>2. CASE n \notin DOMAIN k
            <7>1. p.body \o <<>> = p.body /\ p.output \o <<>> = p.output
              BY <5>1 DEF Row, Text_
            <7> QED BY <3>4, <6>2, <7>1
          <6> QED BY <6>1, <6>2
        <5>4. t \in Text_
          BY <3>2, <3>5, <3>4, TextConcat
        <5>5. /\ R[n - 1][i][e.field] \o t = e.text \o R[n][i][e.field]
              /\ \A f \in Fields : f # e.field => R[n][i][f] = R[n - 1][i][f]
              /\ \A f \in Fields : R[n][i][f] \in Text_ /\ R[n - 1][i][f] \in Text_
          BY <1>3, <2>6, <3>0, <4>3 DEF SaysAt
        <5>6. ASSUME NEW u \in Text_, NEW v \in Text_, u = v \o R[n - 1][i][e.field]
              PROVE  u \o t = (v \o e.text) \o R[n][i][e.field]
          <6>1. e.text \in Text_ /\ R[n - 1][i][e.field] \in Text_ /\ R[n][i][e.field] \in Text_
            BY <3>0, <5>5
          <6> DEFINE w == R[n - 1][i][e.field]
                     z == R[n][i][e.field]
                     o == e.text
          <6>2. u = v \o w /\ w \o t = o \o z
            BY <5>5, <5>6
          <6> HIDE DEF t, w, z, o
          <6>3. o \in Text_ /\ w \in Text_ /\ z \in Text_ /\ t \in Text_
            BY <5>4, <6>1 DEF o, w, z, t
          <6>4. u \o t = (v \o o) \o z
            <7> DEFINE Cat(c, d) == c \o d
            <7>1. \A c, d, f \in Text_ : Cat(Cat(c, d), f) = Cat(c, Cat(d, f))
              BY TextConcat
            <7>2. u = Cat(v, w) /\ Cat(w, t) = Cat(o, z)
              BY <6>2
            <7> HIDE DEF Cat
            <7>3. Cat(u, t) = Cat(Cat(v, o), z)
              BY <6>3, <7>1, <7>2
            <7> QED BY <7>3 DEF Cat
          <6> QED BY <6>4 DEF o, z
        <5>7. /\ p.body \in Text_ /\ q.body \in Text_ /\ p.output \in Text_ /\ q.output \in Text_
              /\ p.body = q.body \o R[n - 1][i]["body"] /\ p.output = q.output \o R[n - 1][i]["output"]
              /\ p.seq = q.seq /\ p.status = q.status
          BY <4>0, <5>1 DEF LikeRow, Row
        <5>8. CASE e.field = "body"
          <6>1. a.items[i].body = b.items[i].body \o R[n][i]["body"]
            BY <5>2, <5>3, <5>6, <5>7, <5>8
          <6>2. R[n][i]["output"] = R[n - 1][i]["output"]
            BY <5>5, <5>8 DEF Fields
          <6> QED BY <5>2, <5>3, <5>7, <5>8, <6>1, <6>2 DEF LikeRow
        <5>9. CASE e.field = "output"
          <6>1. a.items[i].output = b.items[i].output \o R[n][i]["output"]
            BY <5>2, <5>3, <5>6, <5>7, <5>9
          <6>2. R[n][i]["body"] = R[n - 1][i]["body"]
            BY <5>5, <5>9 DEF Fields
          <6> QED BY <5>2, <5>3, <5>7, <5>9, <6>1, <6>2 DEF LikeRow
        <5> QED BY <3>0, <5>8, <5>9 DEF Fields
      <4> QED BY <4>1, <4>2, <4>3
    <3> QED BY <2>0, <3>6, <3>7 DEF Like
  <2>7. CASE e.type = "completed"
    <3>1. a = ApplyCompleted(x, e) /\ b = ApplyCompleted(y, e) /\ e.id \in Item
      BY <1>3, <2>0, <2>1, <2>3, <2>7 DEF Next1, Apply, Sound
    <3>2. ASSUME NEW d \in Projections
          PROVE  /\ ApplyCompleted(d, e).thread = d.thread /\ ApplyCompleted(d, e).failed = d.failed
                 /\ \A i \in Item : i # e.id \/ d.items[i] = NoRow => ApplyCompleted(d, e).items[i] = d.items[i]
                 /\ d.items[e.id] # NoRow =>
                       ApplyCompleted(d, e).items[e.id] = [d.items[e.id] EXCEPT !.status = e.status]
      <4>1. CASE d.items[e.id] = NoRow
        BY <4>1 DEF ApplyCompleted
      <4>2. CASE d.items[e.id] # NoRow
        <5>1. /\ ApplyCompleted(d, e).items = [d.items EXCEPT ![e.id] = [@ EXCEPT !.status = e.status]]
              /\ ApplyCompleted(d, e).thread = d.thread /\ ApplyCompleted(d, e).failed = d.failed
          BY <2>1, <2>7, <4>2, CompletedItems
        <5> HIDE DEF e
        <5> QED BY <3>1, <4>2, <5>1 DEF Projections
      <4> QED BY <4>1, <4>2
    <3>3. ASSUME NEW i \in Item, Single(l, i)
          PROVE  LikeRow(a.items[i], b.items[i], R[n][i]["body"], R[n][i]["output"])
      <4>0. LikeRow(x.items[i], y.items[i], R[n][i]["body"], R[n][i]["output"])
        BY <2>0, <2>3, <2>7, <3>3 DEF Fields
      <4>1. x.items[i] = NoRow <=> y.items[i] = NoRow
        BY <2>4, <4>0 DEF LikeRow
      <4>2. CASE i # e.id \/ y.items[i] = NoRow
        <5>1. a.items[i] = x.items[i] /\ b.items[i] = y.items[i]
          BY <3>1, <3>2, <4>1, <4>2
        <5> QED BY <4>0, <5>1
      <4>3. CASE i = e.id /\ y.items[i] # NoRow
        <5>1. a.items[i] = [x.items[i] EXCEPT !.status = e.status] /\ b.items[i] = [y.items[i] EXCEPT !.status = e.status]
          BY <3>1, <3>2, <4>1, <4>3
        <5>2. x.items[i] \in Row /\ y.items[i] \in Row
          BY DEF Projections
        <5> QED BY <4>0, <5>1, <5>2 DEF LikeRow, Row
      <4> QED BY <4>2, <4>3
    <3>4. a.thread = x.thread /\ a.failed = x.failed /\ b.thread = y.thread /\ b.failed = y.failed
      BY <3>1, <3>2
    <3> QED BY <2>0, <3>3, <3>4 DEF Like
  <2>8. CASE e.type = "rewound"
    <3> DEFINE Cut(d, i) == d.items[e.id].seq # 0 /\ d.items[i].seq >= d.items[e.id].seq
    <3>1. a = ApplyRewound(x, e) /\ b = ApplyRewound(y, e) /\ e.id \in Item /\ e.id \in Prompts
      BY <1>3, <2>0, <2>1, <2>3, <2>8 DEF Next1, Apply, Sound
    <3>2. ASSUME NEW d \in Projections
          PROVE  /\ ApplyRewound(d, e).thread = d.thread /\ ApplyRewound(d, e).failed = d.failed
                 /\ \A i \in Item : ApplyRewound(d, e).items[i] = IF Cut(d, i) THEN NoRow ELSE d.items[i]
      BY DEF ApplyRewound, TakeOut, Projections
    <3>3. \A i \in Item : Single(l, i) => LikeRow(x.items[i], y.items[i], R[n][i]["body"], R[n][i]["output"])
      BY <2>0, <2>3, <2>8 DEF Fields
    <3>4. x.items[e.id].seq = y.items[e.id].seq
      BY <3>1, <3>3 DEF LikeRow, Orderly
    <3>5. ASSUME NEW i \in Item, Single(l, i)
          PROVE  LikeRow(a.items[i], b.items[i], R[n][i]["body"], R[n][i]["output"])
      <4>1. Cut(x, i) <=> Cut(y, i)
        BY <3>3, <3>4, <3>5 DEF LikeRow
      <4> HIDE DEF Cut
      <4>2. /\ a.items[i] = IF Cut(x, i) THEN NoRow ELSE x.items[i]
            /\ b.items[i] = IF Cut(y, i) THEN NoRow ELSE y.items[i]
        BY <3>1, <3>2
      <4>3. CASE Cut(x, i)
        BY <4>1, <4>2, <4>3 DEF LikeRow, NoRow
      <4>4. CASE ~Cut(x, i)
        BY <3>3, <3>5, <4>1, <4>2, <4>4
      <4> QED BY <4>3, <4>4
    <3>6. a.thread = x.thread /\ a.failed = x.failed /\ b.thread = y.thread /\ b.failed = y.failed
      BY <3>1, <3>2
    <3> QED BY <2>0, <3>5, <3>6 DEF Like
  <2>9. CASE e.type = "deleted"
    <3>1. a = ApplyDeleted(x, e) /\ b = ApplyDeleted(y, e)
      BY <1>3, <2>0, <2>3, <2>9 DEF Next1, Apply
    <3>2. ASSUME NEW d \in Projections
          PROVE  /\ ~ApplyDeleted(d, e).thread /\ ApplyDeleted(d, e).failed = d.failed
                 /\ \A i \in Item : ApplyDeleted(d, e).items[i] = NoRow
      BY DEF ApplyDeleted, TakeOut, Projections
    <3>3. /\ ~a.failed /\ ~a.thread /\ ~b.thread
          /\ \A i \in Item : a.items[i] = NoRow /\ b.items[i] = NoRow
      BY <1>3, <2>0, <3>1, <3>2
    <3>4. a.thread = b.thread
      <4>1. a.thread \in BOOLEAN /\ b.thread \in BOOLEAN
        BY <3>1 DEF ApplyDeleted, TakeOut, Projections
      <4> QED BY <3>3, <4>1
    <3>5. \A i \in Item : LikeRow(a.items[i], b.items[i], R[n][i]["body"], R[n][i]["output"])
      <4>1. NoRow.seq = 0
        BY DEF NoRow
      <4> QED BY <3>3, <4>1 DEF LikeRow
    <3> QED BY <3>3, <3>4, <3>5 DEF Like
  <2> QED BY <2>2, <2>5, <2>6, <2>7, <2>8, <2>9
<1> QED BY <1>1, <1>2, <1>3

LEMMA AppliedLike ==
    ASSUME NEW k, NEW l, NEW R, NEW hi \in Nat, Orderly(k, hi), Orderly(l, hi), NEW lo \in 1..(hi + 1),
           \A n \in lo..hi : SaysAt(k, l, R, n),
           NEW x \in Projections, NEW y \in Projections,
           Fits(x, k, lo - 1), Fits(y, l, lo - 1), Like(x, y, l, R, lo - 1)
    PROVE  Like(Applied(x, k, lo, hi), Applied(y, l, lo, hi), l, R, hi)
<1> DEFINE P(a, b, n) == Fits(a, k, n) /\ Fits(b, l, n) /\ Like(a, b, l, R, n)
           S == [n \in 0..hi |-> {p \in Projections \X Projections : P(p[1], p[2], n)}]
<1>1. lo \in Nat \ {0} /\ lo <= hi + 1 /\ lo - 1 \in 0..hi /\ hi \in 0..hi
  OBVIOUS
<1>2. \A n \in 0..hi : \A a, b : <<a, b>> \in S[n] <=> a \in Projections /\ b \in Projections /\ P(a, b, n)
  OBVIOUS
<1> HIDE DEF S
<1>3. <<x, y>> \in S[lo - 1]
  BY <1>1, <1>2
<1>4. ASSUME NEW n \in lo..hi, NEW a, NEW b, <<a, b>> \in S[n - 1]
      PROVE  <<Next1(k, a, n), Next1(l, b, n)>> \in S[n]
  <2>1. n \in 1..hi /\ n - 1 \in 0..hi /\ n \in 0..hi
    OBVIOUS
  <2>2. a \in Projections /\ b \in Projections /\ P(a, b, n - 1)
    BY <1>2, <1>4, <2>1
  <2>3. Next1(k, a, n) \in Projections /\ Fits(Next1(k, a, n), k, n)
    BY <2>1, <2>2, NextFits
  <2>4. Next1(l, b, n) \in Projections /\ Fits(Next1(l, b, n), l, n)
    BY <2>1, <2>2, NextFits
  <2>5. Like(Next1(k, a, n), Next1(l, b, n), l, R, n)
    BY <2>1, <2>2, NextLike
  <2> QED BY <1>2, <2>1, <2>3, <2>4, <2>5
<1> HIDE DEF P
<1>5. <<Applied(x, k, lo, hi), Applied(y, l, lo, hi)>> \in S[hi]
  BY <1>1, <1>3, <1>4, AppliedTwo
<1> QED BY <1>1, <1>2, <1>5 DEF P

LEMMA LikeAgrees ==
    ASSUME NEW l, NEW R, NEW n \in Nat, NEW x \in Projections, NEW y \in Projections, ~y.failed,
           Fits(x, l, n), Fits(y, l, n), Like(x, y, l, R, n),
           \A i \in Item, f \in Fields : R[n][i][f] = <<>>
    PROVE  Agrees(x, y, l)
<1>1. ~x.failed /\ x.thread = y.thread
  BY DEF Like
<1>2. ASSUME NEW i \in Item, Single(l, i) PROVE x.items[i] = y.items[i]
  <2> DEFINE a == x.items[i]
             b == y.items[i]
  <2>1. LikeRow(a, b, <<>>, <<>>)
    BY <1>2 DEF Like, Fields
  <2>2. a \in Row /\ b \in Row
    BY DEF Projections
  <2>3. (a = NoRow <=> a.seq = 0) /\ (b = NoRow <=> b.seq = 0)
    BY <1>1, NoRowSeq DEF Fits
  <2> HIDE DEF a, b
  <2>4. ASSUME b.seq = 0 PROVE a = b
    BY <2>1, <2>3, <2>4 DEF LikeRow
  <2>5. ASSUME b.seq # 0 PROVE a = b
    <3>1. b.body \in Text_ /\ b.output \in Text_
      BY <2>2 DEF Row
    <3>2. b.body \o <<>> = b.body /\ b.output \o <<>> = b.output
      BY <3>1, TextConcat
    <3> QED BY <2>1, <2>2, <2>5, <3>2 DEF LikeRow, Row
  <2>6. a = b
    BY <2>4, <2>5
  <2> QED BY <2>6 DEF a, b
<1> QED BY <1>1, <1>2 DEF Agrees

----------------------------------------------------------------------------
(***************************************************************************)
(* Logs with the same events up to m, but for the text streamed.           *)
(***************************************************************************)
AlikeAt(k, l, n) ==
    /\ \A i : (StartedAt(k, n, i) <=> StartedAt(l, n, i)) /\ (CompletedAt(k, n, i) <=> CompletedAt(l, n, i))
    /\ DeletedAt(k, n) <=> DeletedAt(l, n)

Alike(k, l, m) == \A n \in 1..m : AlikeAt(k, l, n)

LEMMA AlikePredicates ==
    ASSUME NEW k, NEW l, NEW m \in Nat, Alike(k, l, m), NEW n \in 0..m
    PROVE  /\ Gone(k, n) <=> Gone(l, n)
           /\ \A i, s : (Opened(k, i, s, n) <=> Opened(l, i, s, n)) /\ (s \in Nat => (Ended(k, i, s, n) <=> Ended(l, i, s, n)))
           /\ \A i : (Streaming(k, i, n) <=> Streaming(l, i, n)) /\ (HadStart(k, i, n) <=> HadStart(l, i, n))
<1>1. \A j \in 1..n : AlikeAt(k, l, j)
  BY DEF Alike
<1>2. Gone(k, n) <=> Gone(l, n)
  BY <1>1 DEF Gone, AlikeAt
<1>3. \A i, s : Opened(k, i, s, n) <=> Opened(l, i, s, n)
  <2> TAKE i, s
  <2>1. s \in 1..n => (s + 1)..n \subseteq 1..n
    OBVIOUS
  <2> QED BY <1>1, <2>1 DEF Opened, AlikeAt
<1>4. \A i, s : s \in Nat => (Ended(k, i, s, n) <=> Ended(l, i, s, n))
  <2> TAKE i, s
  <2>1. s \in Nat => (s + 1)..n \subseteq 1..n
    OBVIOUS
  <2> QED BY <1>1, <2>1 DEF Ended, AlikeAt
<1>5. \A i : Streaming(k, i, n) <=> Streaming(l, i, n)
  BY <1>3, <1>4 DEF Streaming
<1>6. \A i : HadStart(k, i, n) <=> HadStart(l, i, n)
  BY <1>1, <1>2 DEF HadStart, AlikeAt
<1> QED BY <1>2, <1>3, <1>4, <1>5, <1>6

LEMMA AlikeFits ==
    ASSUME NEW k, NEW l, NEW n \in Nat, Alike(k, l, n), NEW d \in Projections, Fits(d, k, n)
    PROVE  Fits(d, l, n)
<1>1. \A j \in 0..n : Gone(k, j) <=> Gone(l, j)
  BY AlikePredicates
<1>2. CASE d.failed
  BY <1>1, <1>2 DEF Fits
<1>3. CASE ~d.failed
  <2>1. InTime(l, n)
    <3> SUFFICES ASSUME NEW j \in DOMAIN l \cap 1..n, l[j].type = "started" PROVE ~Gone(l, j)
      BY DEF InTime
    <3>1. StartedAt(k, j, l[j].id)
      BY DEF StartedAt, Alike, AlikeAt
    <3> QED BY <1>1, <1>3, <3>1 DEF Fits, InTime, StartedAt
  <2>2. ASSUME NEW i \in Item PROVE RowFits(d.items[i], l, i, n)
    <3>1. RowFits(d.items[i], k, i, n)
      BY <1>3 DEF Fits
    <3>2. d.items[i].seq \in Nat
      BY DEF Projections, Row
    <3>3. /\ Opened(k, i, d.items[i].seq, n) <=> Opened(l, i, d.items[i].seq, n)
          /\ Ended(k, i, d.items[i].seq, n) <=> Ended(l, i, d.items[i].seq, n)
      BY <3>2, AlikePredicates
    <3> QED BY <3>1, <3>3 DEF RowFits
  <2> QED BY <1>1, <1>3, <2>1, <2>2 DEF Fits
<1> QED BY <1>2, <1>3

----------------------------------------------------------------------------
(***************************************************************************)
(* Append.                                                                 *)
(***************************************************************************)
Joined(l, m, es) ==
    [n \in DOMAIN l \cup (m + 1)..(m + Len(es)) |-> IF n <= m THEN l[n] ELSE es[n - m]]

\* What makes the row n of l one that may be there.
MayAt(l, n) ==
    /\ Sound(l[n])
    /\ \A i \in Replies : BodyAt(l, n, i) => Streaming(l, i, n - 1)
    /\ l[n].type = "delta" => HadStart(l, l[n].id, n - 1)
    /\ \A p \in Prompts : StartedAt(l, n, p) => \A j \in DOMAIN l : StartedAt(l, j, p) => j = n

LEMMA JoinedNew ==
    ASSUME NEW l, NEW m \in Nat, NEW es, Len(es) \in Nat, NEW n \in (m + 1)..(m + Len(es))
    PROVE  n \in DOMAIN Joined(l, m, es) /\ Joined(l, m, es)[n] = es[n - m] /\ n - m \in 1..Len(es)
<1>1. ~(n <= m) /\ n - m \in 1..Len(es)
  OBVIOUS
<1> QED BY <1>1 DEF Joined

LEMMA JoinedAlike ==
    ASSUME NEW l, NEW m \in Nat, DOMAIN l \subseteq 1..m, NEW es, Len(es) \in Nat
    PROVE  /\ DOMAIN Joined(l, m, es) = DOMAIN l \cup (m + 1)..(m + Len(es))
           /\ \A n \in DOMAIN l : Joined(l, m, es)[n] = l[n]
           /\ \A n \in (m + 1)..(m + Len(es)) : Joined(l, m, es)[n] = es[n - m]
           /\ Alike(l, Joined(l, m, es), m)
<1> DEFINE k == Joined(l, m, es)
<1>1. DOMAIN k = DOMAIN l \cup (m + 1)..(m + Len(es))
  BY DEF Joined
<1>2. \A n \in DOMAIN l : k[n] = l[n]
  BY DEF Joined
<1>3. \A n \in (m + 1)..(m + Len(es)) : k[n] = es[n - m]
  <2> SUFFICES ASSUME NEW n \in (m + 1)..(m + Len(es)) PROVE k[n] = es[n - m]
    OBVIOUS
  <2>1. ~(n <= m)
    OBVIOUS
  <2> QED BY <2>1 DEF Joined
<1>4. \A n \in 1..m : n \in DOMAIN k <=> n \in DOMAIN l
  BY <1>1
<1> HIDE DEF k
<1>5. Alike(l, k, m)
  BY <1>2, <1>4 DEF Alike, AlikeAt, StartedAt, CompletedAt, DeletedAt
<1> QED BY <1>1, <1>2, <1>3, <1>5 DEF k

LEMMA JoinedOrderly ==
    ASSUME NEW l, NEW m \in Nat, Orderly(l, m), NEW es, Len(es) \in Nat,
           \A n \in (m + 1)..(m + Len(es)) : MayAt(Joined(l, m, es), n)
    PROVE  Orderly(Joined(l, m, es), m + Len(es))
<1> DEFINE k == Joined(l, m, es)
           new == (m + 1)..(m + Len(es))
<1>1. DOMAIN l \subseteq 1..m
  BY DEF Orderly
<1>2. DOMAIN k = DOMAIN l \cup new /\ (\A n \in DOMAIN l : k[n] = l[n]) /\ Alike(l, k, m)
  BY <1>1, JoinedAlike
<1>3. \A n \in new : MayAt(k, n)
  OBVIOUS
<1>4. DOMAIN k \subseteq 1..(m + Len(es))
  BY <1>1, <1>2
<1>5. \A n \in DOMAIN l : n \in 1..m /\ n - 1 \in 0..m
  BY <1>1
<1> HIDE DEF k, new
<1>6. \A n \in DOMAIN k : Sound(k[n])
  BY <1>2, <1>3 DEF MayAt, Orderly
<1>7. ASSUME NEW n \in DOMAIN k, NEW i \in Replies, BodyAt(k, n, i) PROVE Streaming(k, i, n - 1)
  <2>1. CASE n \in DOMAIN l
    <3>1. BodyAt(l, n, i)
      BY <1>2, <1>7, <2>1 DEF BodyAt
    <3>2. Streaming(l, i, n - 1)
      BY <2>1, <3>1 DEF Orderly
    <3> QED BY <1>2, <1>5, <2>1, <3>2, AlikePredicates
  <2>2. CASE n \in new
    BY <1>3, <1>7, <2>2 DEF MayAt
  <2> QED BY <1>2, <2>1, <2>2
<1>8. ASSUME NEW n \in DOMAIN k, k[n].type = "delta" PROVE HadStart(k, k[n].id, n - 1)
  <2>1. CASE n \in DOMAIN l
    <3>1. HadStart(l, k[n].id, n - 1)
      BY <1>2, <1>8, <2>1 DEF Orderly
    <3> QED BY <1>2, <1>5, <2>1, <3>1, AlikePredicates
  <2>2. CASE n \in new
    BY <1>3, <1>8, <2>2 DEF MayAt
  <2> QED BY <1>2, <2>1, <2>2
<1>9. ASSUME NEW p \in Prompts PROVE Single(k, p)
  <2> SUFFICES ASSUME NEW a \in DOMAIN k, NEW b \in DOMAIN k, StartedAt(k, a, p), StartedAt(k, b, p)
               PROVE  a = b
    BY DEF Single
  <2>1. CASE a \in DOMAIN l /\ b \in DOMAIN l
    <3>1. StartedAt(l, a, p) /\ StartedAt(l, b, p)
      BY <1>2, <2>1 DEF StartedAt
    <3> QED BY <2>1, <3>1 DEF Orderly, Single
  <2>2. CASE a \in new \/ b \in new
    BY <1>3, <2>2 DEF MayAt
  <2> QED BY <1>2, <2>1, <2>2
<1>10. Orderly(k, m + Len(es))
  BY <1>4, <1>6, <1>7, <1>8, <1>9 DEF Orderly
<1> QED BY <1>10 DEF k

LEMMA NoneFits == ASSUME NEW l PROVE NoProjections \in Projections /\ Fits(NoProjections, l, 0)
<1>1. NoRow \in Row
  BY DEF NoRow, Row, Status, Text_
<1>2. NoProjections \in Projections
  BY <1>1 DEF NoProjections, Projections
<1>3. ~Gone(l, 0) /\ InTime(l, 0)
  BY DEF Gone, InTime
<1>4. \A i \in Item : RowFits(NoProjections.items[i], l, i, 0)
  BY DEF NoProjections, RowFits
<1>5. Current(NoProjections)
  <2>1. \A i \in Searchable : NoProjections.items[i].status = "none"
    BY DEF NoProjections, NoRow, Item, Streamed
  <2>2. NoProjections.index = {}
    BY DEF NoProjections
  <2> QED BY <2>1, <2>2 DEF Current
<1>6. NoProjections.thread /\ ~NoProjections.failed
  BY DEF NoProjections
<1> QED BY <1>2, <1>3, <1>4, <1>5, <1>6 DEF Fits

Quiet(last_) == [n \in 0..last_ |-> [i \in Item |-> [f \in Fields |-> <<>>]]]

LEMMA SaysTheSame ==
    ASSUME NEW l, NEW m \in Nat, Orderly(l, m), NEW n \in 1..m
    PROVE  SaysAt(l, l, Quiet(m), n)
<1>1. n \in 0..m /\ n - 1 \in 0..m
  OBVIOUS
<1>2. \A i \in Item, f \in Fields : Quiet(m)[n][i][f] = <<>> /\ Quiet(m)[n - 1][i][f] = <<>>
  BY <1>1 DEF Quiet
<1>3. n \in DOMAIN l => l[n] \in Events /\ l[n].text \in Text_
  BY DEF Orderly, Sound, Events
<1>4. n \in DOMAIN l => l[n] = [l[n] EXCEPT !.text = l[n].text]
  BY <1>3 DEF Events
<1>5. n \in DOMAIN l => <<>> \o l[n].text = l[n].text \o <<>>
  BY <1>3, TextConcat
<1>6. <<>> \in Text_
  BY TextConcat
<1> QED BY <1>2, <1>3, <1>4, <1>5, <1>6 DEF SaysAt, Said

LEMMA CommitKept ==
    ASSUME NEW s, Kept(s), NEW es, Len(es) \in Nat,
           \A n \in (s.last + 1)..(s.last + Len(es)) : MayAt(Joined(s.log, s.last, es), n)
    PROVE  /\ Kept(Commit(s, es))
           /\ \/ Commit(s, es) = s /\ Gone(Joined(s.log, s.last, es), s.last + Len(es))
              \/ /\ Commit(s, es).log = Joined(s.log, s.last, es)
                 /\ Commit(s, es).last = s.last + Len(es)
<1> DEFINE k == Joined(s.log, s.last, es)
           m == s.last
           hi == m + Len(es)
           d == Applied(s.db, k, m + 1, hi)
           R == Quiet(hi)
           p == Applied(NoProjections, s.log, 1, m)
<1>1. m \in Nat /\ hi \in Nat /\ m <= hi /\ Orderly(s.log, m) /\ DOMAIN s.log \subseteq 1..m
  BY DEF Kept, Orderly
<1>2. Orderly(k, hi)
  BY <1>1, JoinedOrderly
<1>3. /\ DOMAIN k = DOMAIN s.log \cup (m + 1)..hi /\ (\A n \in DOMAIN s.log : k[n] = s.log[n])
      /\ Alike(s.log, k, m)
  <2> DEFINE l == s.log
  <2>1. DOMAIN l \subseteq 1..m
    BY <1>1
  <2> HIDE DEF l, m
  <2>2. /\ DOMAIN Joined(l, m, es) = DOMAIN l \cup (m + 1)..(m + Len(es))
        /\ \A n \in DOMAIN l : Joined(l, m, es)[n] = l[n]
        /\ Alike(l, Joined(l, m, es), m)
    BY <1>1, <2>1, JoinedAlike
  <2> QED BY <2>2 DEF l, m
<1>4. s.db \in Projections /\ ~s.db.failed /\ Fits(s.db, k, m)
  BY <1>1, <1>3, AlikeFits DEF Kept
<1>5. m + 1 \in 1..(hi + 1) /\ (m + 1) - 1 = m /\ 1 \in 1..(m + 1) /\ 1 - 1 = 0
  BY <1>1
<1>6. d \in Projections /\ Fits(d, k, hi)
  BY <1>1, <1>2, <1>4, <1>5, AppliedFits
<1>7. Commit(s, es) = IF d.failed THEN s ELSE [log |-> k, last |-> hi, db |-> d]
  BY DEF Commit, Joined
<1>8. CASE d.failed
  BY <1>6, <1>7, <1>8 DEF Fits
<1>9. CASE ~d.failed
  <2>1. p \in Projections /\ Fits(p, s.log, m) /\ Fits(p, k, m)
    <3>1. p \in Projections /\ Fits(p, s.log, m)
      BY <1>1, <1>5, NoneFits, AppliedFits
    <3> QED BY <1>1, <1>3, <3>1, AlikeFits
  <2>2. Applied(NoProjections, k, 1, hi) = Applied(p, k, m + 1, hi)
    <3>1. \A n \in 1..m : (n \in DOMAIN s.log <=> n \in DOMAIN k) /\ (n \in DOMAIN k => s.log[n] = k[n])
      BY <1>1, <1>3
    <3> DEFINE l == s.log
    <3>2. \A n \in 1..m : (n \in DOMAIN l <=> n \in DOMAIN k) /\ (n \in DOMAIN k => l[n] = k[n])
      BY <3>1
    <3> HIDE DEF l, k, m, hi
    <3>3. Applied(NoProjections, k, 1, hi) = Applied(Applied(NoProjections, l, 1, m), k, m + 1, hi)
      BY <1>1, <3>2, AppliedOn
    <3> QED BY <3>3 DEF l
  <2>3. Like(p, s.db, k, R, m)
    <3>1. Agrees(p, s.db, s.log)
      BY DEF Kept
    <3>2. ASSUME NEW i \in Item, Single(k, i) PROVE LikeRow(p.items[i], s.db.items[i], R[m][i]["body"], R[m][i]["output"])
      <4>1. Single(s.log, i)
        BY <1>3, <3>2 DEF Single, StartedAt
      <4>2. p.items[i] = s.db.items[i]
        BY <3>1, <4>1 DEF Agrees
      <4>3. R[m][i]["body"] = <<>> /\ R[m][i]["output"] = <<>>
        BY <1>1 DEF Quiet, Fields
      <4>4. s.db.items[i].body \in Text_ /\ s.db.items[i].output \in Text_
        BY <1>4 DEF Projections, Row
      <4>5. s.db.items[i].body \o <<>> = s.db.items[i].body /\ s.db.items[i].output \o <<>> = s.db.items[i].output
        BY <4>4, TextConcat
      <4> QED BY <4>2, <4>3, <4>5 DEF LikeRow
    <3> QED BY <3>1, <3>2 DEF Like, Agrees
  <2>4. \A n \in (m + 1)..hi : SaysAt(k, k, R, n)
    <3>1. \A n \in (m + 1)..hi : n \in 1..hi
      BY <1>1
    <3> HIDE DEF R
    <3> QED BY <1>1, <1>2, <3>1, SaysTheSame DEF R
  <2> DEFINE q == Applied(p, k, m + 1, hi)
  <2>5. Like(q, d, k, R, hi)
    <3> HIDE DEF k, p, R, hi, m
    <3> QED BY <1>1, <1>2, <1>4, <1>5, <2>1, <2>3, <2>4, AppliedLike
  <2>6. q \in Projections /\ Fits(q, k, hi)
    BY <1>1, <1>2, <1>5, <2>1, AppliedFits
  <2>7. \A i \in Item, f \in Fields : R[hi][i][f] = <<>>
    BY <1>1 DEF Quiet
  <2>8. Agrees(q, d, k)
    <3> HIDE DEF q, d, k, R, hi
    <3> QED BY <1>1, <1>6, <1>9, <2>5, <2>6, <2>7, LikeAgrees
  <2>9. Commit(s, es) = [log |-> k, last |-> hi, db |-> d]
    BY <1>7, <1>9
  <2> HIDE DEF k, hi, d
  <2>10. Kept(Commit(s, es))
    BY <1>1, <1>2, <1>6, <1>9, <2>2, <2>8, <2>9 DEF Kept
  <2> QED BY <2>9, <2>10 DEF k, hi
<1> QED BY <1>8, <1>9

\* Events that may be appended to l together: only the first streams text or
\* starts a prompt.
Plain(e) == e.type # "delta" /\ (e.type = "started" => e.id \notin Prompts)

Addable(e, l, m) ==
    /\ e.type = "delta" =>
          /\ HadStart(l, e.id, m)
          /\ e.field = "body" /\ e.id \in Replies => Streaming(l, e.id, m)
    /\ e.type = "started" /\ e.id \in Prompts => \A j \in DOMAIN l : ~StartedAt(l, j, e.id)

Proper(es, l, m) ==
    /\ Len(es) \in Nat
    /\ \A j \in 1..Len(es) : Sound(es[j]) /\ (IF j = 1 THEN Addable(es[j], l, m) ELSE Plain(es[j]))

LEMMA ProperMay ==
    ASSUME NEW l, NEW m \in Nat, DOMAIN l \subseteq 1..m, NEW es, Proper(es, l, m),
           NEW n \in (m + 1)..(m + Len(es))
    PROVE  MayAt(Joined(l, m, es), n)
<1> DEFINE k == Joined(l, m, es)
           e == es[n - m]
<1>0. Len(es) \in Nat
  BY DEF Proper
<1>1. /\ DOMAIN k = DOMAIN l \cup (m + 1)..(m + Len(es))
      /\ \A j \in DOMAIN l : k[j] = l[j]
      /\ \A j \in (m + 1)..(m + Len(es)) : k[j] = es[j - m]
      /\ Alike(l, k, m)
  BY <1>0, JoinedAlike
<1>2. n - m \in 1..Len(es) /\ n \in Nat /\ (n - m = 1 => n - 1 = m) /\ m \in 0..m
  BY <1>0
<1>3. Sound(e) /\ (IF n - m = 1 THEN Addable(e, l, m) ELSE Plain(e))
  BY <1>2 DEF Proper
<1>4. k[n] = e
  BY <1>1
<1> HIDE DEF k, e
<1>5. ASSUME NEW i \in Replies, BodyAt(k, n, i) PROVE Streaming(k, i, n - 1)
  <2>1. e.type = "delta" /\ e.field = "body" /\ e.id = i
    BY <1>4, <1>5 DEF BodyAt
  <2>2. n - m = 1 /\ Streaming(l, i, m)
    BY <1>3, <2>1 DEF Addable, Plain
  <2>3. n - 1 = m
    BY <1>2, <2>2
  <2> QED BY <1>1, <1>2, <2>2, <2>3, AlikePredicates
<1>6. ASSUME k[n].type = "delta" PROVE HadStart(k, k[n].id, n - 1)
  <2>1. n - m = 1 /\ HadStart(l, e.id, m)
    BY <1>3, <1>4, <1>6 DEF Addable, Plain
  <2>2. n - 1 = m
    BY <1>2, <2>1
  <2> QED BY <1>1, <1>2, <1>4, <2>1, <2>2, AlikePredicates
<1>7. ASSUME NEW p \in Prompts, StartedAt(k, n, p), NEW j \in DOMAIN k, StartedAt(k, j, p) PROVE j = n
  <2>1. e.type = "started" /\ e.id = p
    BY <1>4, <1>7 DEF StartedAt
  <2>2. n - m = 1 /\ \A h \in DOMAIN l : ~StartedAt(l, h, p)
    BY <1>3, <2>1 DEF Addable, Plain
  <2>3. j \notin DOMAIN l
    BY <1>1, <1>7, <2>2 DEF StartedAt
  <2>4. j \in (m + 1)..(m + Len(es))
    BY <1>1, <2>3
  <2>5. j - m \in 1..Len(es) /\ k[j] = es[j - m] /\ (j - m = 1 => j = m + 1)
    BY <1>0, <1>1, <2>4
  <2>6. j - m = 1
    BY <1>7, <2>5 DEF StartedAt, Proper, Plain
  <2> QED BY <1>2, <2>2, <2>5, <2>6
<1>8. MayAt(k, n)
  BY <1>3, <1>4, <1>5, <1>6, <1>7 DEF MayAt
<1> QED BY <1>8 DEF k

LEMMA ProperKept ==
    ASSUME NEW s, Kept(s), NEW es, Proper(es, s.log, s.last)
    PROVE  /\ Kept(Commit(s, es))
           /\ \/ Commit(s, es) = s /\ Gone(Joined(s.log, s.last, es), s.last + Len(es))
              \/ /\ Commit(s, es).log = Joined(s.log, s.last, es)
                 /\ Commit(s, es).last = s.last + Len(es)
<1>1. Len(es) \in Nat /\ s.last \in Nat /\ DOMAIN s.log \subseteq 1..s.last
  BY DEF Proper, Kept, Orderly
<1> DEFINE l == s.log
           m == s.last
<1>2. \A n \in (m + 1)..(m + Len(es)) : MayAt(Joined(l, m, es), n)
  <2> HIDE DEF l, m
  <2>1. m \in Nat /\ DOMAIN l \subseteq 1..m /\ Proper(es, l, m)
    BY <1>1 DEF l, m
  <2> QED BY <2>1, ProperMay
<1> QED BY <1>1, <1>2, CommitKept

\* The messages of ms stream on, when none of them is completed.
LEMMA SeenOn ==
    ASSUME NEW l, NEW k, NEW m \in Nat, NEW hi \in Nat, m <= hi, Alike(l, k, m), NEW ms, SeenFits(ms, l, m),
           \A n \in (m + 1)..hi, i \in ms \cap Replies : ~CompletedAt(k, n, i)
    PROVE  SeenFits(ms, k, hi)
<1>0. m \in 0..m /\ \A n \in 1..hi : n \in 1..m \/ n \in (m + 1)..hi
  OBVIOUS
<1>1. ASSUME NEW i \in ms PROVE HadStart(k, i, hi)
  <2>1. HadStart(k, i, m)
    BY <1>0, AlikePredicates DEF SeenFits
  <2>2. 1..m \subseteq 1..hi
    OBVIOUS
  <2> QED BY <2>1, <2>2 DEF HadStart, Gone
<1>2. ASSUME NEW i \in ms, i \in Replies PROVE Streaming(k, i, hi)
  <2> SUFFICES ASSUME NEW s \in 1..hi, Opened(k, i, s, hi), Ended(k, i, s, hi) PROVE FALSE
    BY DEF Streaming
  <2>1. PICK c \in (s + 1)..hi : CompletedAt(k, c, i)
    BY DEF Ended
  <2>2. c \in (s + 1)..m
    BY <1>0, <1>2, <2>1
  <2>3. s \in 1..m /\ (s + 1)..m \subseteq (s + 1)..hi
    BY <2>2
  <2>4. Opened(k, i, s, m) /\ Ended(k, i, s, m)
    BY <2>1, <2>2, <2>3 DEF Opened, Ended
  <2>5. Streaming(k, i, m)
    BY <1>0, <1>2, AlikePredicates DEF SeenFits
  <2> QED BY <2>3, <2>4, <2>5 DEF Streaming
<1> QED BY <1>1, <1>2 DEF SeenFits

LEMMA CommitSeen ==
    ASSUME NEW s, Kept(s), NEW es, Proper(es, s.log, s.last), NEW ms, SeenFits(ms, s.log, s.last),
           \A j \in 1..Len(es) : es[j].type = "completed" => es[j].id \notin ms \cap Replies
    PROVE  SeenFits(ms, Commit(s, es).log, Commit(s, es).last)
<1> SUFFICES ASSUME NEW l, l = s.log, NEW m, m = s.last
             PROVE  SeenFits(ms, Commit(s, es).log, Commit(s, es).last)
  OBVIOUS
<1> DEFINE hi == m + Len(es)
           k == Joined(l, m, es)
<1>1. Len(es) \in Nat /\ m \in Nat /\ hi \in Nat /\ m <= hi /\ DOMAIN l \subseteq 1..m
  BY DEF Proper, Kept, Orderly
<1>2. CASE Commit(s, es) = s
  BY <1>2
<1>3. CASE Commit(s, es).log = k /\ Commit(s, es).last = hi
  <2>1. m \in Nat /\ DOMAIN l \subseteq 1..m /\ Len(es) \in Nat
    BY <1>1
  <2>2. Alike(l, k, m)
    BY <2>1, JoinedAlike
  <2>3. ASSUME NEW n \in (m + 1)..hi, NEW i \in ms \cap Replies PROVE ~CompletedAt(k, n, i)
    <3>1. n - m \in 1..Len(es) /\ k[n] = es[n - m]
      BY <2>1, JoinedNew
    <3> QED BY <3>1 DEF CompletedAt
  <2>4. SeenFits(ms, l, m)
    OBVIOUS
  <2> HIDE DEF k, hi
  <2>5. SeenFits(ms, k, hi)
    BY <1>1, <2>2, <2>3, <2>4, SeenOn
  <2> QED BY <1>3, <2>5
<1> QED BY <1>2, <1>3, ProperKept

\* The message that starts last streams, unless the thread is gone.
LEMMA CommitStarts ==
    ASSUME NEW s, Kept(s), NEW es, Proper(es, s.log, s.last), NEW i, Len(es) # 0,
           es[Len(es)].type = "started", es[Len(es)].id = i,
           \A j \in 1..Len(es) : es[j].type # "deleted"
    PROVE  SeenFits({i}, Commit(s, es).log, Commit(s, es).last)
<1> SUFFICES ASSUME NEW l, l = s.log, NEW m, m = s.last
             PROVE  SeenFits({i}, Commit(s, es).log, Commit(s, es).last)
  OBVIOUS
<1> DEFINE hi == m + Len(es)
           k == Joined(l, m, es)
<1>1. Len(es) \in Nat \ {0} /\ m \in Nat /\ hi \in Nat /\ m <= hi /\ DOMAIN l \subseteq 1..m
  BY DEF Proper, Kept, Orderly
<1>2. InTime(l, m)
  BY DEF Kept, Fits
<1>3. \/ Commit(s, es) = s /\ Gone(k, hi)
      \/ Commit(s, es).log = k /\ Commit(s, es).last = hi
  BY ProperKept
<1>4. m \in Nat /\ DOMAIN l \subseteq 1..m /\ Len(es) \in Nat
  BY <1>1
<1>4a. Alike(l, k, m)
  BY <1>4, JoinedAlike
<1>4b. ASSUME NEW j \in (m + 1)..(m + Len(es))
       PROVE  j \in DOMAIN k /\ k[j] = es[j - m] /\ j - m \in 1..Len(es)
  BY <1>4, JoinedNew
<1>5. ASSUME Gone(k, hi) PROVE SeenFits({i}, l, m)
  <2>1. PICK j \in 1..hi : DeletedAt(k, j)
    BY <1>5 DEF Gone
  <2>2. j \notin (m + 1)..(m + Len(es))
    <3> SUFFICES ASSUME j \in (m + 1)..(m + Len(es)) PROVE FALSE
      OBVIOUS
    <3>1. j - m \in 1..Len(es) /\ k[j] = es[j - m]
      BY <1>4b
    <3> QED BY <2>1, <3>1 DEF DeletedAt
  <2>3. j \in 1..m
    BY <1>1, <2>2
  <2>4. DeletedAt(l, j)
    BY <1>4a, <2>1, <2>3 DEF Alike, AlikeAt
  <2>5. HadStart(l, i, m)
    BY <2>3, <2>4 DEF HadStart, Gone
  <2>6. Streaming(l, i, m)
    <3> SUFFICES ASSUME NEW t \in 1..m, Opened(l, i, t, m) PROVE FALSE
      BY DEF Streaming
    <3>1. ~Gone(l, t)
      BY <1>2 DEF Opened, StartedAt, InTime
    <3>2. j \in 1..t \/ j \in (t + 1)..m
      BY <1>1, <2>3
    <3> QED BY <2>4, <3>1, <3>2 DEF Gone, Opened
  <2> QED BY <2>5, <2>6 DEF SeenFits
<1>6. SeenFits({i}, k, hi)
  <2>1. StartedAt(k, hi, i) /\ hi \in 1..hi
    <3>1. hi \in (m + 1)..(m + Len(es)) /\ hi - m = Len(es)
      BY <1>1
    <3>2. k[hi] = es[Len(es)] /\ hi \in DOMAIN k
      BY <1>4b, <3>1
    <3> QED BY <1>1, <3>2 DEF StartedAt
  <2>2. Streaming(k, i, hi)
    <3> SUFFICES ASSUME NEW t \in 1..hi, Opened(k, i, t, hi), Ended(k, i, t, hi) PROVE FALSE
      BY DEF Streaming
    <3>1. hi \notin (t + 1)..hi
      BY <2>1 DEF Opened
    <3>2. t = hi /\ (t + 1)..hi = {}
      BY <1>1, <3>1
    <3> QED BY <3>2 DEF Ended
  <2> QED BY <2>1, <2>2 DEF HadStart, SeenFits
<1> HIDE DEF k, hi
<1>7. CASE Commit(s, es) = s /\ Gone(k, hi)
  BY <1>5, <1>7
<1>8. CASE Commit(s, es).log = k /\ Commit(s, es).last = hi
  BY <1>6, <1>8
<1> QED BY <1>3, <1>7, <1>8

----------------------------------------------------------------------------
(***************************************************************************)
(* Compact.                                                                *)
(***************************************************************************)
Says(u, l, ns, n) == IF n \in ns THEN u[n - 1] \o l[n].text ELSE u[n - 1]

Made(u, l, ns, m) == u = [n \in 0..m |-> IF n = 0 THEN <<>> ELSE Says(u, l, ns, n)]

LEMMA SaysExists ==
    ASSUME NEW l, NEW ns, NEW hi \in Nat
    PROVE  \E u : Made(u, l, ns, hi)
<1> DEFINE T == {m \in Nat : \E u : Made(u, l, ns, m)}
<1>1. 0 \in T
  <2>1. Made([n \in 0..0 |-> <<>>], l, ns, 0)
    BY DEF Made
  <2> QED BY <2>1
<1>2. ASSUME NEW n \in (0 + 1)..hi, n - 1 \in T PROVE n \in T
  <2>1. PICK f : Made(f, l, ns, n - 1)
    BY <1>2
  <2> DEFINE g == [k \in 0..n |-> IF k = n THEN Says(f, l, ns, n) ELSE f[k]]
  <2>2. n \in Nat \ {0} /\ n - 1 \in 0..(n - 1) /\ n - 1 # n
    OBVIOUS
  <2>3. \A k \in 0..(n - 1) : k \in 0..n /\ k # n /\ g[k] = f[k]
    BY <2>2
  <2>4. \A k \in 0..(n - 1) : f[k] = IF k = 0 THEN <<>> ELSE Says(f, l, ns, k)
    BY <2>1 DEF Made
  <2>5. ASSUME NEW k \in 0..n PROVE g[k] = IF k = 0 THEN <<>> ELSE Says(g, l, ns, k)
    <3>1. CASE k = n
      BY <2>2, <2>3, <3>1 DEF Says
    <3>2. CASE k # n
      <4>1. k \in 0..(n - 1) /\ (k = 0 \/ k - 1 \in 0..(n - 1))
        BY <2>2, <3>2
      <4> QED BY <2>3, <2>4, <4>1 DEF Says
    <3> QED BY <3>1, <3>2
  <2>6. Made(g, l, ns, n)
    BY <2>5 DEF Made
  <2> QED BY <2>2, <2>6
<1> HIDE DEF T
<1>3. hi \in T
  BY <1>1, <1>2, InductionUpTo
<1> QED BY <1>3 DEF T

LEMMA TextRuns ==
    ASSUME NEW l, NEW ns, last \in Nat
    PROVE  \E u : /\ Text(l, ns) = u[last]
                  /\ u[0] = <<>>
                  /\ \A n \in 1..last : u[n] = Says(u, l, ns, n)
<1> DEFINE u == CHOOSE upTo : upTo = [n \in 0..last |->
                    IF n = 0 THEN <<>> ELSE IF n \in ns THEN upTo[n - 1] \o l[n].text ELSE upTo[n - 1]]
<1>1. Text(l, ns) = u[last]
  BY DEF Text
<1>2. u = [n \in 0..last |->
             IF n = 0 THEN <<>> ELSE IF n \in ns THEN u[n - 1] \o l[n].text ELSE u[n - 1]]
  <2>1. \E v : v = [n \in 0..last |->
                  IF n = 0 THEN <<>> ELSE IF n \in ns THEN v[n - 1] \o l[n].text ELSE v[n - 1]]
    <3>1. PICK v : Made(v, l, ns, last)
      BY SaysExists
    <3>2. v = [n \in 0..last |-> IF n = 0 THEN <<>> ELSE IF n \in ns THEN v[n - 1] \o l[n].text ELSE v[n - 1]]
      BY <3>1, Zenon DEF Made, Says
    <3> QED BY <3>2, Zenon
  <2> QED BY <2>1
<1> HIDE DEF u
<1>3. u[0] = <<>> /\ \A n \in 1..last : u[n] = Says(u, l, ns, n)
  BY <1>2 DEF Says
<1> QED BY <1>1, <1>3

Texts(l, ns) == \A n \in ns : n \in 1..last /\ l[n].text \in Text_

LEMMA TextType ==
    ASSUME NEW l, NEW ns, last \in Nat, Texts(l, ns)
    PROVE  Text(l, ns) \in Text_ /\ (ns = {} => Text(l, ns) = <<>>)
<1>1. PICK u : /\ Text(l, ns) = u[last]
               /\ u[0] = <<>>
               /\ \A n \in 1..last : u[n] = Says(u, l, ns, n)
  BY TextRuns
<1> DEFINE T == {n \in 0..last : u[n] \in Text_ /\ (ns = {} => u[n] = <<>>)}
<1>2. 0 \in T
  BY <1>1, TextConcat
<1>3. ASSUME NEW n \in (0 + 1)..last, n - 1 \in T PROVE n \in T
  <2>1. n \in 1..last /\ n \in 0..last /\ u[n - 1] \in Text_ /\ (ns = {} => u[n - 1] = <<>>)
    BY <1>3
  <2>2. u[n] = Says(u, l, ns, n)
    BY <1>1, <2>1
  <2>3. CASE n \in ns
    <3>1. u[n] = u[n - 1] \o l[n].text /\ l[n].text \in Text_
      BY <2>2, <2>3 DEF Says, Texts
    <3>2. u[n] \in Text_
      BY <2>1, <3>1, TextConcat
    <3> QED BY <2>1, <2>3, <3>2
  <2>4. CASE n \notin ns
    BY <2>1, <2>2, <2>4 DEF Says
  <2> QED BY <2>3, <2>4
<1> HIDE DEF T
<1>4. last \in T
  BY <1>2, <1>3, InductionUpTo
<1> QED BY <1>1, <1>4 DEF T

SaidFirst(l, ns, m) == Text(l, ns) = l[m].text \o Text(l, ns \ {m})

\* The first row is said first.
LEMMA TextFirst ==
    ASSUME NEW l, NEW ns, last \in Nat, Texts(l, ns), NEW m \in ns, \A n \in ns : m <= n
    PROVE  SaidFirst(l, ns, m)
<1> DEFINE ms == ns \ {m}
           t == l[m].text
<1>1. PICK u : /\ Text(l, ns) = u[last]
               /\ u[0] = <<>>
               /\ \A n \in 1..last : u[n] = Says(u, l, ns, n)
  BY TextRuns
<1>2. PICK v : /\ Text(l, ms) = v[last]
               /\ v[0] = <<>>
               /\ \A n \in 1..last : v[n] = Says(v, l, ms, n)
  BY TextRuns
<1>3. m \in 1..last /\ t \in Text_
  BY DEF Texts
<1> DEFINE P(n) == /\ n < m => u[n] = <<>> /\ v[n] = <<>>
                   /\ m <= n => v[n] \in Text_ /\ u[n] = t \o v[n]
           T == {n \in 0..last : P(n)}
<1>4. 0 \in T
  <2>1. ~(m <= 0) /\ 0 \in 0..last
    BY <1>3
  <2>2. P(0)
    BY <1>1, <1>2, <2>1
  <2> HIDE DEF P
  <2> QED BY <2>1, <2>2
<1>5. ASSUME NEW n \in (0 + 1)..last, n - 1 \in T PROVE n \in T
  <2>1. n \in 1..last /\ n \in 0..last /\ n - 1 \in 0..last
    OBVIOUS
  <2>2. u[n] = Says(u, l, ns, n) /\ v[n] = Says(v, l, ms, n)
    BY <1>1, <1>2, <2>1
  <2>3. /\ n - 1 < m => u[n - 1] = <<>> /\ v[n - 1] = <<>>
        /\ m <= n - 1 => v[n - 1] \in Text_ /\ u[n - 1] = t \o v[n - 1]
    <3>1. P(n - 1)
      <4> HIDE DEF P
      <4> QED BY <1>5
    <3> QED BY <3>1
  <2>4. CASE n < m
    <3>1. n \notin ns /\ n \notin ms /\ n - 1 < m /\ ~(m <= n)
      BY <1>3, <2>1, <2>4
    <3> QED BY <2>1, <2>2, <2>3, <2>4, <3>1 DEF Says
  <2>5. CASE n = m
    <3>1. n - 1 < m
      BY <1>3, <2>5
    <3>2. u[n] = <<>> \o t /\ v[n] = <<>>
      BY <2>2, <2>3, <2>5, <3>1 DEF Says
    <3>3. u[n] = t \o v[n] /\ v[n] \in Text_
      BY <1>3, <3>2, TextConcat
    <3>4. P(n)
      BY <2>5, <3>3
    <3> HIDE DEF P
    <3> QED BY <2>1, <3>4
  <2>6. CASE n > m
    <3>1. m <= n - 1 /\ n # m /\ ~(n < m)
      BY <1>3, <2>1, <2>6
    <3>2. v[n - 1] \in Text_ /\ u[n - 1] = t \o v[n - 1]
      BY <2>3, <3>1
    <3>3. CASE n \in ns
      <4> DEFINE w == l[n].text
                 x == v[n - 1]
      <4>1. w \in Text_ /\ x \in Text_
        BY <3>2, <3>3 DEF Texts
      <4>2. u[n] = (t \o x) \o w /\ v[n] = x \o w
        BY <2>2, <3>1, <3>2, <3>3 DEF Says
      <4> HIDE DEF w, x, t
      <4>3. (t \o x) \o w = t \o (x \o w) /\ x \o w \in Text_
        BY <1>3, <4>1, TextConcat
      <4> QED BY <2>1, <3>1, <4>2, <4>3
    <3>4. CASE n \notin ns
      BY <2>1, <2>2, <3>1, <3>2, <3>4 DEF Says
    <3> QED BY <3>3, <3>4
  <2>7. n < m \/ n = m \/ n > m
    BY <1>3, <2>1
  <2> HIDE DEF T
  <2> QED BY <2>4, <2>5, <2>6, <2>7
<1> HIDE DEF T
<1>6. last \in T
  BY <1>4, <1>5, InductionUpTo
<1>7. P(last)
  <2> HIDE DEF P
  <2> QED BY <1>6 DEF T
<1>8. m <= last
  BY <1>3
<1> QED BY <1>1, <1>2, <1>7, <1>8 DEF SaidFirst

\* The rows of the field f of the item i that a batch folds, and what the fold
\* has said of them before their time.
Folded(l, gs, i, f) == IF \E g \in gs : g.id = i /\ g.field = f THEN Span(gs) \cap Deltas(l, i, f) ELSE {}

Ahead(l, gs) ==
    [n \in 0..last |-> [i \in Item |-> [f \in Fields |->
        IF \E j \in Folded(l, gs, i, f) : j <= n THEN Text(l, {j \in Folded(l, gs, i, f) : j > n}) ELSE <<>>]]]

With(e, text) == [e EXCEPT !.text = text]

\* The rows of the log l at n after the fold.
LEMMA FoldRows ==
    ASSUME NEW l, NEW gs, NEW n, NEW F, F = Folded(l, gs, l[n].id, l[n].field)
    PROVE  /\ n \in DOMAIN Fold(l, gs) => n \in DOMAIN l
           /\ n \in DOMAIN l /\ (l[n].type # "delta" \/ n \notin F) =>
                 n \in DOMAIN Fold(l, gs) /\ Fold(l, gs)[n] = l[n]
           /\ n \in DOMAIN l /\ n \in F /\ (\E j \in F : j < n) => n \notin DOMAIN Fold(l, gs)
           /\ n \in DOMAIN l /\ n \in F /\ ~(\E j \in F : j < n) =>
                 n \in DOMAIN Fold(l, gs) /\ Fold(l, gs)[n] = With(l[n], Text(l, F))
<1> DEFINE Fellows(j) == Span(gs) \cap Deltas(l, l[j].id, l[j].field)
           wanted == Span(gs) \cap UNION {Deltas(l, g.id, g.field) : g \in gs}
           others == {j \in wanted : \E h \in Fellows(j) : h < j}
           k == Fold(l, gs)
<1>1. k = [j \in DOMAIN l \ others |-> IF j \in wanted THEN With(l[j], Text(l, Fellows(j))) ELSE l[j]]
  BY DEF Fold, With
<1>2. n \in wanted => n \in DOMAIN l /\ l[n].type = "delta"
  BY DEF Deltas
<1>3. n \in DOMAIN l => (n \in wanted <=> n \in Folded(l, gs, l[n].id, l[n].field))
  BY DEF Deltas, Folded
<1>4. n \in DOMAIN l /\ n \in Folded(l, gs, l[n].id, l[n].field) => Fellows(n) = Folded(l, gs, l[n].id, l[n].field)
  BY DEF Folded
<1> HIDE DEF Fellows, wanted, k
<1> QED BY <1>1, <1>2, <1>3, <1>4 DEF k

LEMMA FoldWithin == ASSUME NEW l, NEW gs, NEW n \in DOMAIN Fold(l, gs) PROVE n \in DOMAIN l
BY FoldRows

LEMMA FoldKeeps ==
    ASSUME NEW l, NEW gs, NEW n \in DOMAIN l,
           l[n].type # "delta" \/ n \notin Folded(l, gs, l[n].id, l[n].field)
    PROVE  n \in DOMAIN Fold(l, gs) /\ Fold(l, gs)[n] = l[n]
BY FoldRows

LEMMA FoldDrops ==
    ASSUME NEW l, NEW gs, NEW n \in DOMAIN l, NEW F, F = Folded(l, gs, l[n].id, l[n].field),
           n \in F, \E j \in F : j < n
    PROVE  n \notin DOMAIN Fold(l, gs)
BY FoldRows

LEMMA FoldJoins ==
    ASSUME NEW l, NEW gs, NEW n \in DOMAIN l, NEW F, F = Folded(l, gs, l[n].id, l[n].field),
           n \in F, ~(\E j \in F : j < n)
    PROVE  n \in DOMAIN Fold(l, gs) /\ Fold(l, gs)[n] = With(l[n], Text(l, F))
BY FoldRows

LEMMA FoldAlike ==
    ASSUME NEW l, NEW gs, NEW m \in Nat, \A n \in DOMAIN l : l[n] \in Events
    PROVE  Alike(l, Fold(l, gs), m)
<1> DEFINE k == Fold(l, gs)
<1>1. \A n \in DOMAIN k : n \in DOMAIN l
  BY FoldWithin
<1>2. \A n \in DOMAIN l : l[n].type # "delta" => n \in DOMAIN k /\ k[n] = l[n]
  BY FoldKeeps
<1>3. ASSUME NEW n \in DOMAIN k, l[n].type = "delta" PROVE k[n].type = "delta"
  <2> DEFINE F == Folded(l, gs, l[n].id, l[n].field)
  <2>1. n \in DOMAIN l /\ l[n] \in Events
    BY <1>1
  <2>2. CASE n \notin F
    BY <1>3, <2>1, <2>2, FoldKeeps
  <2>3. CASE n \in F
    <3>1. ~(\E j \in F : j < n)
      BY <2>1, <2>3, FoldDrops
    <3>2. k[n] = With(l[n], Text(l, F))
      BY <2>1, <2>3, <3>1, FoldJoins
    <3> HIDE DEF k, F
    <3> QED BY <1>3, <2>1, <3>2 DEF Events, With
  <2> QED BY <2>2, <2>3
<1> HIDE DEF k
<1>4. Alike(l, k, m)
  BY <1>1, <1>2, <1>3 DEF Alike, AlikeAt, StartedAt, CompletedAt, DeletedAt
<1> QED BY <1>4 DEF k

\* The rows of a batch are a stretch of the log.
LEMMA SpanApart ==
    ASSUME last \in Nat, NEW gs \in SUBSET Group, NEW n \in 1..last, n \notin Span(gs)
    PROVE  (\A j \in Span(gs) : j < n) \/ (\A j \in Span(gs) : n < j)
<1>1. \A g \in gs : g.first \in Nat /\ g.last \in Nat
  BY DEF Group
<1>2. CASE \A g \in gs : n < g.first
  BY <1>1, <1>2 DEF Span
<1>3. CASE \A g \in gs : g.last < n
  BY <1>1, <1>3 DEF Span
<1> QED BY <1>1, <1>2, <1>3 DEF Span

LEMMA FoldSays ==
    ASSUME NEW l, last \in Nat, Orderly(l, last), InTime(l, last), NEW gs \in SUBSET Group, NEW n \in 1..last
    PROVE  SaysAt(Fold(l, gs), l, Ahead(l, gs), n)
<1> DEFINE k == Fold(l, gs)
           R == Ahead(l, gs)
           F(i, f) == Folded(l, gs, i, f)
<1>0. n \in 0..last /\ n - 1 \in 0..last
  OBVIOUS
<1>1. \A i \in Item, f \in Fields : \A j \in F(i, f) :
        /\ j \in 1..last /\ j \in Span(gs) /\ j \in DOMAIN l
        /\ l[j].type = "delta" /\ l[j].id = i /\ l[j].field = f /\ l[j].text \in Text_
  BY DEF Folded, Span, Deltas, Orderly, Sound, Events
<1>2. \A m \in 0..last : \A i \in Item, f \in Fields :
        R[m][i][f] = IF \E j \in F(i, f) : j <= m THEN Text(l, {j \in F(i, f) : j > m}) ELSE <<>>
  BY DEF Ahead
<1> HIDE DEF R
<1>3. \A m \in 0..last : \A i \in Item, f \in Fields : R[m][i][f] \in Text_
  <2> SUFFICES ASSUME NEW m \in 0..last, NEW i \in Item, NEW f \in Fields PROVE R[m][i][f] \in Text_
    OBVIOUS
  <2>1. Texts(l, {j \in F(i, f) : j > m})
    BY <1>1 DEF Texts
  <2>2. Text(l, {j \in F(i, f) : j > m}) \in Text_
    BY <2>1, TextType
  <2> QED BY <1>2, <2>2, TextConcat
<1>4. n \in DOMAIN l => l[n] \in Events /\ (l[n].type = "delta" => l[n].id \in Item /\ l[n].field \in Fields)
  BY DEF Orderly, Sound, Events, Fields
<1>5. n \in DOMAIN k => n \in DOMAIN l
  BY FoldWithin
<1>6. n \in DOMAIN l => l[n].type = "delta" \/ (n \in DOMAIN k /\ k[n] = l[n])
  BY FoldKeeps
<1>7. ASSUME n \in DOMAIN l, l[n].type = "delta", n \in DOMAIN k
      PROVE  k[n] = [l[n] EXCEPT !.text = k[n].text] /\ k[n].text \in Text_
  <2>1. CASE n \in F(l[n].id, l[n].field)
    <3> DEFINE t == Text(l, F(l[n].id, l[n].field))
    <3>0. ~\E j \in F(l[n].id, l[n].field) : j < n
      BY <1>7, <2>1, FoldDrops
    <3>1. k[n] = With(l[n], t)
      BY <1>7, <2>1, <3>0, FoldJoins
    <3>2. Texts(l, F(l[n].id, l[n].field))
      BY <1>1, <1>4, <1>7 DEF Texts
    <3>3. t \in Text_
      BY <3>2, TextType
    <3> HIDE DEF t, k
    <3> QED BY <1>4, <1>7, <3>1, <3>3 DEF Events, With
  <2>2. CASE n \notin F(l[n].id, l[n].field)
    <3>1. k[n] = l[n]
      BY <1>7, <2>2, FoldKeeps
    <3> HIDE DEF k
    <3> QED BY <1>4, <1>7, <3>1 DEF Events
  <2> QED BY <2>1, <2>2
<1>8. ASSUME NEW i \in Item, NEW f \in Fields,
             n \in DOMAIN l, l[n].type = "delta", l[n].id = i, l[n].field = f
      PROVE  R[n - 1][i][f] \o Said(k, n) = l[n].text \o R[n][i][f]
  <2> DEFINE t == l[n].text
  <2>0. t \in Text_
    BY <1>4, <1>8 DEF Events
  <2>1. CASE n \notin F(i, f)
    <3>1. Said(k, n) = t
      <4>1. n \in DOMAIN k /\ k[n] = l[n]
        BY <1>8, <2>1, FoldKeeps
      <4> QED BY <4>1 DEF Said
    <3>2. R[n - 1][i][f] = <<>> /\ R[n][i][f] = <<>>
      <4>1. CASE F(i, f) = {}
        BY <1>0, <1>2, <4>1
      <4>2. CASE F(i, f) # {}
        <5>1. n \notin Span(gs) /\ F(i, f) \subseteq Span(gs)
          BY <1>8, <2>1, <4>2 DEF Folded, Deltas
        <5>2. CASE \A j \in Span(gs) : j < n
          <6>1. {j \in F(i, f) : j > n} = {} /\ {j \in F(i, f) : j > n - 1} = {}
            BY <1>1, <5>1, <5>2
          <6>2. Texts(l, {}) /\ Text(l, {}) = <<>>
            BY TextType DEF Texts
          <6> QED BY <1>0, <1>2, <6>1, <6>2
        <5>3. CASE \A j \in Span(gs) : n < j
          <6>1. ~\E j \in F(i, f) : j <= n
            BY <1>1, <5>1, <5>3
          <6>2. ~\E j \in F(i, f) : j <= n - 1
            BY <1>1, <5>1, <5>3
          <6> QED BY <1>0, <1>2, <6>1, <6>2
        <5> QED BY <5>1, <5>2, <5>3, SpanApart
      <4> QED BY <4>1, <4>2
    <3> QED BY <2>0, <3>1, <3>2, TextConcat
  <2>2. CASE n \in F(i, f) /\ ~\E j \in F(i, f) : j < n
    <3>1. \A j \in F(i, f) : n <= j
      BY <1>1, <2>2
    <3>2. Texts(l, F(i, f))
      BY <1>1 DEF Texts
    <3>3. Text(l, F(i, f)) = t \o Text(l, F(i, f) \ {n})
      <4> DEFINE ns == F(i, f)
      <4>1. n \in ns /\ (\A j \in ns : n <= j) /\ Texts(l, ns)
        BY <2>2, <3>1, <3>2
      <4> HIDE DEF ns
      <4>2. SaidFirst(l, ns, n)
        BY <4>1, TextFirst
      <4> QED BY <4>2 DEF ns, SaidFirst
    <3>4. Said(k, n) = Text(l, F(i, f))
      <4>1. n \in DOMAIN k /\ k[n] = With(l[n], Text(l, F(i, f)))
        BY <1>8, <2>2, FoldJoins
      <4> HIDE DEF k, F
      <4>2. k[n].text = Text(l, F(i, f))
        BY <1>4, <1>8, <4>1 DEF Events, With
      <4> QED BY <4>1, <4>2 DEF Said
    <3>5. R[n - 1][i][f] = <<>>
      <4>1. ~\E j \in F(i, f) : j <= n - 1
        BY <1>1, <3>1
      <4> QED BY <1>0, <1>2, <4>1
    <3>6. {j \in F(i, f) : j > n} = F(i, f) \ {n}
      BY <1>1, <3>1
    <3>7. R[n][i][f] = Text(l, F(i, f) \ {n})
      BY <1>0, <1>2, <2>2, <3>6
    <3>8. Text(l, F(i, f)) \in Text_
      BY <3>2, TextType
    <3> HIDE DEF k, F, t
    <3> QED BY <3>3, <3>4, <3>5, <3>7, <3>8, TextConcat DEF t
  <2>3. CASE n \in F(i, f) /\ \E j \in F(i, f) : j < n
    <3> DEFINE A == {j \in F(i, f) : j > n - 1}
               B == {j \in F(i, f) : j > n}
    <3>1. Said(k, n) = <<>>
      <4>1. n \notin DOMAIN k
        BY <1>8, <2>3, FoldDrops
      <4> QED BY <4>1 DEF Said
    <3>2. (\E j \in F(i, f) : j <= n - 1) /\ (\E j \in F(i, f) : j <= n)
      BY <1>1, <2>3
    <3>3. n \in A /\ (\A j \in A : n <= j) /\ B = A \ {n}
      BY <1>1, <2>3
    <3>4. Texts(l, A)
      BY <1>1 DEF Texts
    <3>5. R[n - 1][i][f] = Text(l, A) /\ R[n][i][f] = Text(l, B)
      BY <1>0, <1>2, <3>2
    <3> HIDE DEF A, B
    <3>6. Text(l, A) = t \o Text(l, B)
      <4>1. SaidFirst(l, A, n)
        BY <3>3, <3>4, TextFirst
      <4> QED BY <3>3, <4>1 DEF SaidFirst
    <3>7. Text(l, A) \in Text_
      BY <3>4, TextType
    <3> HIDE DEF k, t
    <3> QED BY <3>1, <3>5, <3>6, <3>7, TextConcat DEF t
  <2> QED BY <2>1, <2>2, <2>3
<1>9. ASSUME NEW i \in Item, NEW f \in Fields,
             ~(n \in DOMAIN l /\ l[n].type = "delta" /\ l[n].id = i /\ l[n].field = f)
      PROVE  R[n][i][f] = R[n - 1][i][f]
  <2>1. n \notin F(i, f)
    BY <1>1, <1>9
  <2>2. \A j \in F(i, f) : (j <= n <=> j <= n - 1) /\ (j > n <=> j > n - 1)
    BY <1>1, <2>1
  <2>3. {j \in F(i, f) : j > n} = {j \in F(i, f) : j > n - 1}
    BY <2>2
  <2>4. (\E j \in F(i, f) : j <= n) <=> \E j \in F(i, f) : j <= n - 1
    BY <2>2
  <2> QED BY <1>0, <1>2, <2>3, <2>4
<1>10. ASSUME NEW i \in Item, NEW f \in Fields, StartedAt(l, n, i), Single(l, i) PROVE R[n][i][f] = <<>>
  <2>1. ASSUME NEW j \in F(i, f), j <= n PROVE FALSE
    <3>1. j \in DOMAIN l /\ l[j].type = "delta" /\ l[j].id = i /\ j \in 1..last
      BY <1>1, <2>1
    <3>2. j # n /\ j - 1 \in 0..(n - 1)
      BY <1>10, <2>1, <3>1 DEF StartedAt
    <3>3. HadStart(l, i, j - 1)
      BY <3>1 DEF Orderly
    <3>4. ~Gone(l, j - 1)
      <4>1. ~Gone(l, n)
        BY <1>10 DEF StartedAt, InTime
      <4>2. 1..(j - 1) \subseteq 1..n
        BY <3>2
      <4> QED BY <4>1, <4>2 DEF Gone
    <3>5. PICK h \in 1..(j - 1) : StartedAt(l, h, i)
      BY <3>3, <3>4 DEF HadStart
    <3>6. h = n
      BY <1>10, <3>5 DEF Single, StartedAt
    <3> QED BY <3>2, <3>5, <3>6
  <2> QED BY <1>0, <1>2, <2>1
<1> HIDE DEF k
<1>11. SaysAt(k, l, R, n)
  BY <1>0, <1>3, <1>5, <1>6, <1>7, <1>8, <1>9, <1>10 DEF SaysAt
<1> QED BY <1>11 DEF k, R

LEMMA FoldOrderly ==
    ASSUME NEW l, last \in Nat, Orderly(l, last), InTime(l, last), NEW gs \in SUBSET Group
    PROVE  Orderly(Fold(l, gs), last) /\ \A i \in Item : Single(Fold(l, gs), i) <=> Single(l, i)
<1> DEFINE k == Fold(l, gs)
           R == Ahead(l, gs)
<1>1. \A n \in DOMAIN l : n \in 1..last /\ Sound(l[n]) /\ l[n] \in Events
  BY DEF Orderly, Sound
<1>2. Alike(l, k, last)
  BY <1>1, FoldAlike
<1>3. \A n \in DOMAIN k : n \in DOMAIN l
  BY FoldWithin
<1>4. ASSUME NEW n \in DOMAIN k
      PROVE  \/ k[n] = l[n]
             \/ /\ l[n].type = "delta" /\ k[n] \in Events /\ k[n].type = "delta"
                /\ k[n].id = l[n].id /\ k[n].field = l[n].field
  <2>0. n \in DOMAIN l /\ n \in 1..last /\ l[n] \in Events
    BY <1>1, <1>3
  <2>1. SaysAt(k, l, R, n)
    BY <2>0, FoldSays
  <2> HIDE DEF k, R
  <2>2. l[n].type = "delta" \/ k[n] = l[n]
    BY <2>0, <2>1 DEF SaysAt
  <2>3. ASSUME l[n].type = "delta"
        PROVE  /\ k[n] \in Events /\ k[n].type = "delta"
               /\ k[n].id = l[n].id /\ k[n].field = l[n].field
    <3> DEFINE t == k[n].text
    <3>1. k[n] = [l[n] EXCEPT !.text = t] /\ t \in Text_
      BY <1>4, <2>0, <2>1, <2>3 DEF SaysAt
    <3> HIDE DEF t
    <3> QED BY <2>0, <2>3, <3>1 DEF Events
  <2> QED BY <2>2, <2>3
<1> HIDE DEF k
<1>5. DOMAIN k \subseteq 1..last
  BY <1>1, <1>3
<1>6. \A n \in DOMAIN k : Sound(k[n])
  BY <1>1, <1>3, <1>4 DEF Sound
<1>7. ASSUME NEW n \in DOMAIN k, NEW i \in Replies, BodyAt(k, n, i) PROVE Streaming(k, i, n - 1)
  <2>1. BodyAt(l, n, i) /\ n \in DOMAIN l /\ n - 1 \in 0..last
    BY <1>1, <1>3, <1>4, <1>7 DEF BodyAt
  <2>2. Streaming(l, i, n - 1)
    BY <2>1 DEF Orderly
  <2> QED BY <1>2, <2>1, <2>2, AlikePredicates
<1>8. ASSUME NEW n \in DOMAIN k, k[n].type = "delta" PROVE HadStart(k, k[n].id, n - 1)
  <2>1. n \in DOMAIN l /\ l[n].type = "delta" /\ k[n].id = l[n].id /\ n - 1 \in 0..last
    BY <1>1, <1>3, <1>4, <1>8
  <2>2. HadStart(l, k[n].id, n - 1)
    BY <2>1 DEF Orderly
  <2> QED BY <1>2, <2>1, <2>2, AlikePredicates
<1>9. \A i : Single(k, i) <=> Single(l, i)
  <2>1. \A n, i : StartedAt(k, n, i) <=> StartedAt(l, n, i)
    BY <1>1, <1>2, <1>3 DEF Alike, AlikeAt, StartedAt
  <2>2. \A n, i : StartedAt(k, n, i) => n \in DOMAIN k /\ n \in DOMAIN l
    BY <1>3 DEF StartedAt
  <2> QED BY <2>1, <2>2 DEF Single
<1>10. Orderly(k, last)
  BY <1>5, <1>6, <1>7, <1>8, <1>9 DEF Orderly
<1> QED BY <1>9, <1>10 DEF k

\* A batch changes nothing of what the log says.
LEMMA FoldKept ==
    ASSUME Kept(Store), NEW gs \in SUBSET Group
    PROVE  Kept([log |-> Fold(log, gs), last |-> last, db |-> db])
<1> DEFINE k == Fold(log, gs)
           R == Ahead(log, gs)
           p == Applied(NoProjections, log, 1, last)
           q == Applied(NoProjections, k, 1, last)
<1>1. /\ last \in Nat /\ Orderly(log, last) /\ db \in Projections /\ ~db.failed
      /\ Fits(db, log, last) /\ Agrees(p, db, log)
  BY DEF Kept, Store
<1>2. InTime(log, last)
  BY <1>1 DEF Fits
<1>3. Orderly(k, last) /\ \A i \in Item : Single(k, i) <=> Single(log, i)
  BY <1>1, <1>2, FoldOrderly
<1>4. Alike(log, k, last) /\ Alike(k, log, last)
  <2>1. \A n \in DOMAIN log : log[n] \in Events
    BY <1>1 DEF Orderly, Sound
  <2>2. Alike(log, k, last)
    BY <1>1, <2>1, FoldAlike
  <2> QED BY <2>2 DEF Alike, AlikeAt
<1>5. \A n \in 1..last : SaysAt(k, log, R, n)
  BY <1>1, <1>2, FoldSays
<1>6. 1 \in 1..(last + 1) /\ 1 - 1 = 0 /\ 0 \in 0..last /\ last \in 0..last
  BY <1>1
<1>7. \A i \in Item, f \in Fields : R[last][i][f] = <<>>
  <2> SUFFICES ASSUME NEW i \in Item, NEW f \in Fields PROVE R[last][i][f] = <<>>
    OBVIOUS
  <2>1. {j \in Folded(log, gs, i, f) : j > last} = {}
    BY <1>1 DEF Folded, Span
  <2>2. Text(log, {}) = <<>>
    BY <1>1, TextType DEF Texts
  <2> QED BY <1>6, <2>1, <2>2 DEF Ahead
<1> HIDE DEF k, R
<1>8. Fits(db, k, last)
  BY <1>1, <1>4, AlikeFits
<1>9. NoProjections \in Projections /\ Fits(NoProjections, k, 0) /\ Fits(NoProjections, log, 0)
  BY NoneFits
<1>10. Like(NoProjections, NoProjections, log, R, 0)
  BY DEF Like, LikeRow, NoProjections, NoRow
<1>11. Like(q, p, log, R, last)
  BY <1>1, <1>3, <1>5, <1>6, <1>9, <1>10, AppliedLike
<1>12. p \in Projections /\ Fits(p, log, last)
  BY <1>1, <1>6, <1>9, AppliedFits
<1>13. q \in Projections /\ Fits(q, k, last)
  BY <1>1, <1>3, <1>6, <1>9, AppliedFits
<1> HIDE DEF p, q
<1>14. Fits(q, log, last)
  BY <1>1, <1>4, <1>13, AlikeFits
<1>15. Agrees(q, p, log)
  BY <1>1, <1>7, <1>11, <1>12, <1>13, <1>14, LikeAgrees DEF Agrees
<1>16. Agrees(q, db, k)
  BY <1>1, <1>3, <1>15 DEF Agrees
<1> QED BY <1>1, <1>3, <1>8, <1>16 DEF Kept, k, q

----------------------------------------------------------------------------
(***************************************************************************)
(* The requests and the pump.                                              *)
(***************************************************************************)
\* Events that may be appended to any log.
Firm(es) == Len(es) \in Nat /\ \A j \in 1..Len(es) : Sound(es[j]) /\ Plain(es[j])

LEMMA FirmProper == ASSUME NEW es, Firm(es), NEW l, NEW m PROVE Proper(es, l, m)
BY DEF Firm, Proper, Plain, Addable

LEMMA CommitGrows ==
    ASSUME NEW s, Kept(s), NEW es, Proper(es, s.log, s.last)
    PROVE  Commit(s, es).last \in Nat /\ s.last <= Commit(s, es).last
<1>1. s.last \in Nat /\ Len(es) \in Nat
  BY DEF Kept, Proper
<1>2. CASE Commit(s, es) = s
  BY <1>1, <1>2
<1>3. CASE Commit(s, es).last = s.last + Len(es)
  BY <1>1, <1>3
<1> QED BY <1>2, <1>3, ProperKept

LEMMA AppendKeeps ==
    ASSUME Kept(Store), NEW es, Proper(es, log, last), NEW fs, Firm(fs), Append2(es, fs)
    PROVE  /\ Kept(Store)' /\ last' \in Nat /\ last <= last'
           /\ \A ms : /\ SeenFits(ms, log, last)
                      /\ \A j \in 1..Len(es) : es[j].type = "completed" => es[j].id \notin ms \cap Replies
                      /\ \A j \in 1..Len(fs) : fs[j].type = "completed" => fs[j].id \notin ms \cap Replies
                      => SeenFits(ms, log', last')
           /\ \A i : /\ Len(es) # 0 /\ es[Len(es)].type = "started" /\ es[Len(es)].id = i
                     /\ \A j \in 1..Len(es) : es[j].type # "deleted"
                     /\ \A j \in 1..Len(fs) : fs[j].type = "completed" => fs[j].id # i
                     => SeenFits({i}, log', last')
<1> DEFINE s == Store
           t == Commit(s, es)
           u == Commit(t, fs)
<1>1. s.log = log /\ s.last = last /\ s.db = db
  BY DEF Store
<1>2. log' = u.log /\ last' = u.last /\ db' = u.db
  BY DEF Append2, Store
<1> HIDE DEF s
<1>3. Kept(s) /\ Proper(es, s.log, s.last)
  BY <1>1 DEF s
<1>4. Kept(t)
  BY <1>3, ProperKept
<1>5. s.last \in Nat /\ t.last \in Nat /\ s.last <= t.last
  BY <1>3, CommitGrows DEF Kept
<1> HIDE DEF t
<1>6. Proper(fs, t.log, t.last)
  BY FirmProper
<1>7. Kept(u)
  BY <1>4, <1>6, ProperKept
<1>8. u.last \in Nat /\ t.last <= u.last
  BY <1>4, <1>6, CommitGrows
<1>9. ASSUME NEW ms, SeenFits(ms, log, last),
             \A j \in 1..Len(es) : es[j].type = "completed" => es[j].id \notin ms \cap Replies,
             \A j \in 1..Len(fs) : fs[j].type = "completed" => fs[j].id \notin ms \cap Replies
      PROVE  SeenFits(ms, log', last')
  <2>1. SeenFits(ms, s.log, s.last)
    BY <1>1, <1>9
  <2>2. SeenFits(ms, t.log, t.last)
    BY <1>3, <1>9, <2>1, CommitSeen DEF t
  <2>3. SeenFits(ms, u.log, u.last)
    BY <1>4, <1>6, <1>9, <2>2, CommitSeen
  <2> QED BY <1>2, <2>3
<1>10. ASSUME NEW i, Len(es) # 0, es[Len(es)].type = "started", es[Len(es)].id = i,
              \A j \in 1..Len(es) : es[j].type # "deleted",
              \A j \in 1..Len(fs) : fs[j].type = "completed" => fs[j].id # i
       PROVE  SeenFits({i}, log', last')
  <2>1. SeenFits({i}, t.log, t.last)
    BY <1>3, <1>10, CommitStarts DEF t
  <2>2. \A j \in 1..Len(fs) : fs[j].type = "completed" => fs[j].id \notin {i} \cap Replies
    BY <1>10
  <2>3. SeenFits({i}, u.log, u.last)
    BY <1>4, <1>6, <2>1, <2>2, CommitSeen
  <2> QED BY <1>2, <2>3
<1> HIDE DEF u
<1>11. Kept(Store)'
  <2>1. Kept([log |-> u.log, last |-> u.last, db |-> u.db])
    BY <1>7 DEF Kept
  <2> QED BY <1>2, <2>1 DEF Store
<1> QED BY <1>1, <1>2, <1>5, <1>8, <1>9, <1>10, <1>11

LEMMA FirmNone == Firm(<<>>) /\ \A j : j \notin 1..Len(<<>>)
BY DEF Firm

LEMMA Disjoint ==
    /\ \A i \in Prompts : i \notin Replies /\ i \notin Streamed /\ i \notin Tools
    /\ \A i \in Streamed : i \notin Prompts /\ i \notin Tools
    /\ \A i \in Tools : i \notin Prompts /\ i \notin Replies /\ i \notin Streamed
BY EventLogAssumption DEF Streamed

LEMMA TokenText == ASSUME last \in Nat PROVE Token \in Text_ /\ Token # <<>>
BY DEF Token, Text_

\* What the handlers append may be appended.
LEMMA PromptSound ==
    ASSUME NEW p \in Prompts, NEW t \in Text_, t # <<>>
    PROVE  Sound(Started(p, "done", t)) /\ Sound(Rewound(p))
BY Disjoint, TextConcat DEF Sound, Events, Ids, Item, Streamed, Status, Started, Rewound, Event

LEMMA StreamedSound ==
    ASSUME NEW m \in Streamed, NEW t \in Text_, t # <<>>
    PROVE  Sound(Started(m, "running", t)) /\ Sound(Completed(m, "done")) /\ Sound(Delta(m, "body", t))
BY Disjoint, TextConcat DEF Sound, Events, Ids, Item, Streamed, Status, Started, Completed, Delta, Event

LEMMA ToolSound ==
    ASSUME NEW i \in Tools, NEW t \in Text_
    PROVE  /\ Sound(Started(i, "running", <<>>)) /\ Sound(Delta(i, "output", t))
           /\ Sound(Completed(i, "running")) /\ Sound(Completed(i, "done"))
BY Disjoint, TextConcat DEF Sound, Events, Ids, Item, Streamed, Status, Started, Completed, Delta, Event

LEMMA DeletedSound == Sound(Deleted(CHOOSE i \in Item : TRUE))
BY TextConcat DEF Sound, Events, Ids, Status, Deleted, Event

LEMMA SmallSetToSeq ==
    ASSUME NEW S, IsFiniteSet(S), Cardinality(S) \in {0, 1}
    PROVE  SetToSeq(S) \in Seq(S) /\ Len(SetToSeq(S)) = Cardinality(S)
<1> DEFINE n == Cardinality(S)
<1>1. \E f \in [1..n -> S] : IsInjective(f)
  <2>1. CASE n = 0
    <3> DEFINE f == [i \in 1..n |-> {}]
    <3>1. 1..n = {}
      BY <2>1
    <3>2. f \in [1..n -> S] /\ IsInjective(f)
      BY <3>1 DEF IsInjective
    <3> QED BY <3>2
  <2>2. CASE n = 1
    <3>1. PICK x : x \in S
      BY <2>2, FS_EmptySet
    <3> DEFINE f == [i \in 1..n |-> x]
    <3>2. f \in [1..n -> S] /\ IsInjective(f)
      BY <2>2, <3>1 DEF IsInjective
    <3> QED BY <3>2
  <2> QED BY <2>1, <2>2
<1> DEFINE c == SetToSeq(S)
<1>2. c \in [1..n -> S]
  BY <1>1 DEF SetToSeq
<1>3. n \in Nat
  OBVIOUS
<1> HIDE DEF n, c
<1>4. c \in Seq(S)
  BY <1>2, <1>3
<1>5. Len(c) = n
  BY <1>2, <1>3
<1> QED BY <1>4, <1>5 DEF n, c

LEMMA ClosersAre ==
    ASSUME seen \subseteq Streamed, \A m, n \in seen : m = n, NEW keep
    PROVE  /\ Len(Closers(keep)) \in {0, 1}
           /\ Closers(keep) \in Seq(Events)
           /\ \A j \in 1..Len(Closers(keep)) : \E m \in seen \ keep : Closers(keep)[j] = Completed(m, "done")
<1> DEFINE S == {Completed(m, "done") : m \in seen \ keep}
           c == Closers(keep)
<1>1. c = SetToSeq(S)
  BY DEF Closers
<1>2. IsFiniteSet(S) /\ Cardinality(S) \in {0, 1}
  <2>1. CASE seen \ keep = {}
    <3>1. S = {}
      BY <2>1
    <3> HIDE DEF S
    <3> QED BY <3>1, FS_EmptySet
  <2>2. CASE seen \ keep # {}
    <3>1. PICK m : m \in seen \ keep
      BY <2>2
    <3>2. S = {Completed(m, "done")}
      BY <3>1
    <3> HIDE DEF S
    <3> QED BY <3>2, FS_Singleton
  <2> QED BY <2>1, <2>2
<1>3. S \subseteq Events
  <2> SUFFICES ASSUME NEW m \in seen PROVE Completed(m, "done") \in Events
    OBVIOUS
  <2>1. m \in Streamed /\ <<1>> \in Text_ /\ <<1>> # <<>>
    BY DEF Text_
  <2> QED BY <2>1, StreamedSound DEF Sound
<1>4. \A e \in S : \E m \in seen \ keep : e = Completed(m, "done")
  OBVIOUS
<1> HIDE DEF S, c
<1>5. c \in Seq(S) /\ Len(c) \in {0, 1}
  <2>1. SetToSeq(S) \in Seq(S) /\ Len(SetToSeq(S)) = Cardinality(S)
    BY <1>2, SmallSetToSeq, Zenon
  <2>2. c \in Seq(S) /\ Len(c) = Cardinality(S)
    BY <1>1, <2>1, Zenon
  <2> QED BY <1>2, <2>2, Zenon
<1>6. \A j \in 1..Len(c) : c[j] \in S
  BY <1>5
<1>7. c \in Seq(Events)
  BY <1>3, <1>5
<1> QED BY <1>4, <1>5, <1>6, <1>7 DEF c

LEMMA ClosersFirm ==
    ASSUME IInv, NEW keep
    PROVE  /\ Firm(Closers(keep))
           /\ \A j \in 1..Len(Closers(keep)) : \E m \in seen \ keep : Closers(keep)[j] = Completed(m, "done")
<1>1. /\ Len(Closers(keep)) \in {0, 1}
      /\ \A j \in 1..Len(Closers(keep)) : \E m \in seen \ keep : Closers(keep)[j] = Completed(m, "done")
  BY ClosersAre DEF IInv
<1>2. ASSUME NEW m \in seen PROVE Sound(Completed(m, "done")) /\ Plain(Completed(m, "done"))
  <2>1. m \in Streamed /\ <<1>> \in Text_ /\ <<1>> # <<>>
    BY DEF IInv, Text_
  <2> QED BY <2>1, StreamedSound DEF Plain, Completed, Event
<1> QED BY <1>1, <1>2 DEF Firm

----------------------------------------------------------------------------
(***************************************************************************)
(* Every step keeps the invariant.                                         *)
(***************************************************************************)
LEMMA LogFacts ==
    ASSUME IInv
    PROVE  /\ Kept(Store) /\ last \in Nat /\ DOMAIN log \subseteq 1..last
           /\ \A i : HasStarted(i) => HadStart(log, i, last)
<1>1. Kept(Store) /\ last \in Nat /\ DOMAIN log \subseteq 1..last
  BY DEF IInv, Kept, Store, Orderly
<1> QED BY <1>1 DEF HasStarted, HadStart, StartedAt

\* What every handler that appends does.
LEMMA AppendInv ==
    ASSUME IInv, NEW es, Proper(es, log, last), NEW fs, Firm(fs), Append2(es, fs),
           comp' = comp, tools' \subseteq Tools,
           seen' \subseteq Streamed, \A m, n \in seen' : m = n, SeenFits(seen', log', last')
    PROVE  IInv'
<1>1. Kept(Store)' /\ last' \in Nat /\ last <= last' /\ last \in Nat
  BY AppendKeeps, LogFacts DEF IInv
<1>2. comp' \in [at : {"due", "fold"}, groups : SUBSET Group']
  <2>1. 1..last \subseteq 1..last'
    BY <1>1
  <2>2. Group \subseteq Group'
    BY <2>1 DEF Group
  <2> QED BY <2>2 DEF IInv
<1> QED BY <1>1, <1>2 DEF IInv

LEMMA NoneSeen == ASSUME NEW l, NEW n PROVE SeenFits({}, l, n)
BY DEF SeenFits

\* One event, which may be the first of a commit.
LEMMA OneProper ==
    ASSUME NEW e, Sound(e), Addable(e, log, last)
    PROVE  Proper(<<e>>, log, last) /\ Len(<<e>>) = 1 /\ <<e>>[1] = e
BY DEF Proper

LEMMA PromptInv == ASSUME IInv, NEW p \in Prompts, Prompt(p) PROVE IInv'
<1> DEFINE e == Started(p, "done", Token)
<1>1. Append2(<<e>>, <<>>) /\ UNCHANGED <<comp, seen, tools>>
  BY DEF Prompt, Append1
<1>2. e.type = "started" /\ e.id = p
  BY DEF Started, Event
<1>3. Sound(e)
  BY PromptSound, TokenText, LogFacts
<1>4. Addable(e, log, last)
  BY <1>2 DEF Prompt, HasStarted, StartedAt, Addable
<1> HIDE DEF e
<1>5. Proper(<<e>>, log, last) /\ Len(<<e>>) = 1 /\ <<e>>[1] = e
  BY <1>3, <1>4, OneProper
<1>6. SeenFits(seen, log', last')
  BY <1>1, <1>2, <1>5, AppendKeeps, FirmNone, LogFacts DEF IInv
<1> QED BY <1>1, <1>5, <1>6, AppendInv, FirmNone DEF IInv

\* An event that no row of the log stands in the way of.
LEMMA QuietInv ==
    ASSUME IInv, NEW e, Sound(e), Addable(e, log, last), e.type = "completed" => e.id \notin Replies,
           Append1(<<e>>), UNCHANGED <<comp, pumpVars>>
    PROVE  IInv'
<1>1. Append2(<<e>>, <<>>) /\ UNCHANGED <<comp, seen, tools>>
  BY DEF Append1, pumpVars
<1>2. Proper(<<e>>, log, last) /\ Len(<<e>>) = 1 /\ <<e>>[1] = e
  BY OneProper
<1>3. SeenFits(seen, log', last')
  BY <1>1, <1>2, AppendKeeps, FirmNone, LogFacts DEF IInv
<1> QED BY <1>1, <1>2, <1>3, AppendInv, FirmNone DEF IInv

LEMMA RewindInv == ASSUME IInv, NEW p \in Prompts, Rewind(p) PROVE IInv'
<1>1. Sound(Rewound(p))
  <2>1. <<1>> \in Text_ /\ <<1>> # <<>>
    BY DEF Text_
  <2> QED BY <2>1, PromptSound
<1>2. Addable(Rewound(p), log, last) /\ Rewound(p).type # "completed"
  BY DEF Addable, Rewound, Event
<1> QED BY <1>1, <1>2, QuietInv DEF Rewind

LEMMA DeleteThreadInv == ASSUME IInv, DeleteThread PROVE IInv'
<1> DEFINE e == Deleted(CHOOSE i \in Item : TRUE)
<1>1. Addable(e, log, last) /\ e.type # "completed"
  BY DEF Addable, Deleted, Event
<1> QED BY <1>1, DeletedSound, QuietInv DEF DeleteThread

LEMMA ToolOutputInv == ASSUME IInv, NEW t \in Tools, ToolOutput(t) PROVE IInv'
<1> DEFINE e == Delta(t, "output", Token)
<1>1. Sound(e)
  BY ToolSound, TokenText, LogFacts
<1>2. Addable(e, log, last) /\ e.type # "completed"
  BY LogFacts DEF ToolOutput, Addable, Delta, Event
<1> QED BY <1>1, <1>2, QuietInv DEF ToolOutput

LEMMA ToolCompletedInv == ASSUME IInv, NEW t \in Tools, ToolCompleted(t) PROVE IInv'
<1> DEFINE e == Delta(t, "output", Token)
           f == Completed(t, "done")
<1>1. Sound(e) /\ Sound(f)
  BY ToolSound, TokenText, LogFacts
<1>2. Addable(e, log, last) /\ e.type # "completed" /\ e.type # "deleted" /\ e.type # "started"
  BY LogFacts DEF ToolCompleted, Addable, Delta, Event
<1>3. Addable(f, log, last) /\ Plain(f) /\ f.type = "completed" /\ f.id = t /\ t \notin Replies
  BY Disjoint DEF Addable, Completed, Event, Plain
<1>4. UNCHANGED <<comp, pumpVars>>
  BY DEF ToolCompleted
<1>5. Append1(<<f>>) \/ Append1(<<e, f>>)
  BY DEF ToolCompleted
<1> HIDE DEF e, f
<1>6. CASE Append1(<<f>>)
  BY <1>1, <1>3, <1>4, <1>6, QuietInv
<1>7. CASE Append1(<<e, f>>)
  <2>1. Len(<<e, f>>) = 2 /\ <<e, f>>[1] = e /\ <<e, f>>[2] = f
    OBVIOUS
  <2>2. Proper(<<e, f>>, log, last)
    BY <1>1, <1>2, <1>3, <2>1 DEF Proper
  <2>3. Append2(<<e, f>>, <<>>) /\ UNCHANGED <<comp, seen, tools>>
    BY <1>4, <1>7 DEF Append1, pumpVars
  <2>4. \A j \in 1..2 : <<e, f>>[j].type = "completed" => <<e, f>>[j].id \notin Replies
    BY <1>2, <1>3, <2>1
  <2>5. SeenFits(seen, log', last')
    BY <2>1, <2>2, <2>3, <2>4, AppendKeeps, FirmNone, LogFacts DEF IInv
  <2> QED BY <2>2, <2>3, <2>5, AppendInv, FirmNone DEF IInv
<1> QED BY <1>5, <1>6, <1>7

\* The handlers that end all messages.
LEMMA ClosingInv ==
    ASSUME IInv, NEW fs, Firm(fs), Append2(Closers({}), fs),
           comp' = comp, tools' \subseteq Tools, seen' = {}
    PROVE  IInv'
<1>1. Proper(Closers({}), log, last)
  BY ClosersFirm, FirmProper
<1>2. SeenFits(seen', log', last')
  BY NoneSeen
<1> QED BY <1>1, <1>2, AppendInv

LEMMA OneFirm == ASSUME NEW e, Sound(e), Plain(e) PROVE Firm(<<e>>)
BY DEF Firm

LEMMA ToolStartedInv == ASSUME IInv, NEW t \in Tools, ToolStarted(t) PROVE IInv'
<1>1. comp' = comp /\ tools' \subseteq Tools /\ seen' = {}
  BY DEF ToolStarted, IInv
<1>2. Sound(Started(t, "running", <<>>)) /\ Sound(Completed(t, "running"))
  <2>1. <<1>> \in Text_
    BY DEF Text_
  <2> QED BY <2>1, ToolSound
<1>3. Firm(<<Started(t, "running", <<>>)>>) /\ Firm(<<Completed(t, "running")>>)
  BY <1>2, OneFirm, Disjoint DEF Plain, Started, Completed, Event
<1>4. PICK fs : Firm(fs) /\ Append2(Closers({}), fs)
  BY <1>3, FirmNone DEF ToolStarted, Append1
<1> QED BY <1>1, <1>4, ClosingInv

LEMMA TurnCompletedInv == ASSUME IInv, TurnCompleted PROVE IInv'
BY ClosingInv, FirmNone DEF TurnCompleted, Append1

LEMMA TextDeltaInv == ASSUME IInv, NEW m \in Streamed, TextDelta(m) PROVE IInv'
<1>1. comp' = comp /\ tools' \subseteq Tools
  BY DEF TextDelta, IInv
<1>2. Sound(Started(m, "running", Token)) /\ Sound(Delta(m, "body", Token))
  BY StreamedSound, TokenText, LogFacts
<1>3. CASE m \in seen
  <2> DEFINE e == Delta(m, "body", Token)
  <2>1. Append1(<<e>>) /\ UNCHANGED seen
    BY <1>3 DEF TextDelta
  <2>2. HadStart(log, m, last) /\ (m \in Replies => Streaming(log, m, last))
    BY <1>3 DEF IInv, SeenFits
  <2>3. Addable(e, log, last) /\ e.type # "completed"
    BY <2>2 DEF Addable, Delta, Event
  <2>4. Append2(<<e>>, <<>>)
    BY <2>1 DEF Append1
  <2> HIDE DEF e
  <2>5. Proper(<<e>>, log, last) /\ Len(<<e>>) = 1 /\ <<e>>[1] = e
    BY <1>2, <2>3, OneProper DEF e
  <2>6. SeenFits(seen, log', last')
    BY <2>3, <2>4, <2>5, AppendKeeps, FirmNone, LogFacts DEF IInv
  <2> QED BY <1>1, <2>1, <2>4, <2>5, <2>6, AppendInv, FirmNone DEF IInv
<1>4. CASE m \notin seen
  <2> DEFINE e == Started(m, "running", Token)
             c == Closers({m})
             es == c \o <<e>>
  <2>1. Append2(es, <<>>) /\ seen' = {m}
    BY <1>4 DEF TextDelta, Append1
  <2>2. Firm(c) /\ \A j \in 1..Len(c) : \E k \in seen \ {m} : c[j] = Completed(k, "done")
    BY ClosersFirm
  <2>3. c \in Seq(Events)
    BY ClosersAre DEF IInv
  <2>4. \A j \in 1..Len(c) : c[j].type = "completed"
    <3>1. \A k : Completed(k, "done").type = "completed"
      BY DEF Completed, Event
    <3> HIDE DEF c
    <3> QED BY <2>2, <3>1
  <2>5. e \in Events /\ Sound(e) /\ e.type = "started" /\ e.id = m /\ Plain(e) /\ Addable(e, log, last)
    BY <1>2, Disjoint DEF Started, Event, Sound, Plain, Addable
  <2> HIDE DEF e, c
  <2>6. Len(es) = Len(c) + 1 /\ es[Len(es)] = e /\ \A j \in 1..Len(c) : es[j] = c[j]
    BY <2>3, <2>5
  <2>7. Len(c) \in Nat
    BY <2>2 DEF Firm
  <2>8. \A j \in 1..Len(es) : j \in 1..Len(c) \/ j = Len(es)
    BY <2>6, <2>7
  <2> HIDE DEF es
  <2>9. Proper(es, log, last)
    <3>1. \A j \in 1..Len(es) : Sound(es[j]) /\ Plain(es[j])
      BY <2>2, <2>5, <2>6, <2>8 DEF Firm
    <3>2. Firm(es)
      BY <3>1, <2>6, <2>7 DEF Firm
    <3> QED BY <3>2, FirmProper
  <2>10. \A j \in 1..Len(es) : es[j].type # "deleted"
    BY <2>4, <2>5, <2>6, <2>8
  <2>11. Len(es) # 0 /\ es[Len(es)].type = "started" /\ es[Len(es)].id = m
    BY <2>5, <2>6, <2>7
  <2>12. SeenFits({m}, log', last')
    BY <2>1, <2>9, <2>10, <2>11, AppendKeeps, FirmNone, LogFacts
  <2> QED BY <1>1, <2>1, <2>9, <2>12, AppendInv, FirmNone
<1> QED BY <1>3, <1>4

LEMMA RequestsInv == ASSUME IInv, Requests PROVE IInv'
BY PromptInv, RewindInv, DeleteThreadInv DEF Requests

LEMMA PumpInv == ASSUME IInv, Pump PROVE IInv'
BY TextDeltaInv, ToolStartedInv, ToolOutputInv, ToolCompletedInv, TurnCompletedInv DEF Pump

LEMMA CompactListsInv == ASSUME IInv, CompactLists PROVE IInv'
<1>1. /\ log' = log /\ last' = last /\ db' = db /\ seen' = seen /\ tools' = tools
      /\ comp' = [comp EXCEPT !.at = "fold", !.groups = Groups(log)]
  BY DEF CompactLists, storeVars, pumpVars
<1>2. Groups(log) \subseteq Group
  BY LogFacts DEF Groups, Group
<1>3. comp' \in [at : {"due", "fold"}, groups : SUBSET Group']
  <2>1. Group' = Group
    BY <1>1 DEF Group
  <2> QED BY <1>1, <1>2, <2>1 DEF IInv
<1>4. Kept(Store)'
  BY <1>1 DEF IInv, Kept, Store
<1> QED BY <1>1, <1>3, <1>4 DEF IInv

LEMMA CompactFoldsInv == ASSUME IInv, CompactFolds PROVE IInv'
<1> DEFINE k == Fold(log, Batch)
<1>1. /\ log' = k /\ last' = last /\ db' = db /\ seen' = seen /\ tools' = tools
      /\ comp' = [comp EXCEPT !.groups = @ \ Batch]
  BY DEF CompactFolds, pumpVars
<1>2. Batch \in SUBSET Group
  BY DEF Batch, IInv
<1>3. Kept([log |-> k, last |-> last, db |-> db])
  BY <1>2, FoldKept DEF IInv
<1>4. Kept(Store)'
  BY <1>1, <1>3 DEF Store
<1>5. comp' \in [at : {"due", "fold"}, groups : SUBSET Group']
  <2>1. Group' = Group
    BY <1>1 DEF Group
  <2> HIDE DEF k
  <2>2. comp \in [at : {"due", "fold"}, groups : SUBSET Group]
    BY DEF IInv
  <2> QED BY <1>1, <2>1, <2>2
<1>6. Alike(log, k, last) /\ last \in Nat
  <2>1. \A n \in DOMAIN log : log[n] \in Events
    BY LogFacts DEF Kept, Store, Orderly, Sound
  <2> QED BY <2>1, FoldAlike, LogFacts
<1> HIDE DEF k
<1>7. SeenFits(seen, k, last)
  BY <1>6, AlikePredicates DEF IInv, SeenFits
<1> QED BY <1>1, <1>4, <1>5, <1>7 DEF IInv

LEMMA BootInv == ASSUME IInv, Boot PROVE IInv'
<1>1. log' = log /\ last' = last /\ db' = db /\ seen' = {} /\ tools' = {} /\ comp' = NotListed
  BY DEF Boot, Restart, storeVars
<1>2. Kept(Store)'
  BY <1>1 DEF IInv, Kept, Store
<1> QED BY <1>1, <1>2, NoneSeen DEF IInv, NotListed

\* A replay agrees with itself.
LEMMA ReplayInv == ASSUME IInv, Replay PROVE IInv'
<1> DEFINE p == Project(log)
<1>1. p = Applied(NoProjections, log, 1, last)
  BY DEF Project
<1>2. last \in Nat /\ Orderly(log, last) /\ Agrees(p, db, log)
  BY <1>1 DEF IInv, Kept, Store
<1>3. p \in Projections /\ Fits(p, log, last)
  <2>1. NoProjections \in Projections /\ Fits(NoProjections, log, 1 - 1)
    BY NoneFits
  <2> QED BY <1>1, <1>2, <2>1, AppliedFits
<1>4. ~p.failed
  BY <1>2 DEF Agrees
<1>5. Agrees(p, p, log)
  BY <1>4 DEF Agrees
<1>6. log' = log /\ last' = last /\ db' = p /\ seen' = {} /\ tools' = {} /\ comp' = NotListed
  BY <1>4 DEF Replay, Restart
<1> HIDE DEF p
<1>7. Kept([log |-> log, last |-> last, db |-> p])
  BY <1>1, <1>2, <1>3, <1>4, <1>5 DEF Kept
<1>8. Kept(Store)'
  BY <1>6, <1>7 DEF Store
<1> QED BY <1>6, <1>8, NoneSeen DEF IInv, NotListed

LEMMA StillInv == ASSUME IInv, UNCHANGED vars PROVE IInv'
<1>1. log' = log /\ last' = last /\ db' = db /\ comp' = comp /\ seen' = seen /\ tools' = tools
  BY DEF vars, storeVars, pumpVars
<1> QED BY <1>1 DEF IInv, Kept, Store, Group

LEMMA InitInv == ASSUME Init PROVE IInv
<1>1. log = <<>> /\ last = 0 /\ db = NoProjections /\ comp = NotListed /\ seen = {} /\ tools = {}
  BY DEF Init
<1>2. DOMAIN log = {}
  BY <1>1
<1>3. Orderly(log, 0)
  BY <1>2 DEF Orderly, Single
<1>4. NoProjections \in Projections /\ Fits(NoProjections, log, 0) /\ ~NoProjections.failed
  BY NoneFits DEF NoProjections
<1>5. Applied(NoProjections, log, 1, 0) = NoProjections
  <2>1. 1 \in Nat \ {0} /\ 0 \in Nat /\ 1 <= 0 + 1
    OBVIOUS
  <2>2. \E f : Applied(NoProjections, log, 1, 0) = f[0] /\ f[1 - 1] = NoProjections
    BY <2>1, AppliedRuns
  <2> QED BY <2>2
<1>6. Agrees(NoProjections, NoProjections, log)
  BY <1>4 DEF Agrees
<1>7. Kept([log |-> log, last |-> 0, db |-> NoProjections])
  BY <1>3, <1>4, <1>5, <1>6 DEF Kept
<1>8. Kept(Store)
  BY <1>1, <1>7 DEF Store
<1> QED BY <1>1, <1>8, NoneSeen DEF IInv, NotListed

\* The log is orderly, the projections fit it, and so does what a replay of it
\* makes: what one transaction, one fold and one replay keep (store.go).
THEOREM EventLogInvariant == Spec => []IInv
<1>1. Init => IInv
  BY InitInv
<1>2. IInv /\ [Next]_vars => IInv'
  BY RequestsInv, PumpInv, CompactListsInv, CompactFoldsInv, BootInv, ReplayInv, StillInv
     DEF Next, Compaction
<1> QED BY <1>1, <1>2, PTL DEF Spec

----------------------------------------------------------------------------
(***************************************************************************)
(* The two properties.                                                     *)
(***************************************************************************)
\* The search index holds, after every transaction, exactly the prompts and
\* the finished replies with their whole text (store.go:371-379, 398-407,
\* 480-496, 558-576).
THEOREM IndexIsCurrentHolds == Spec => []IndexIsCurrent
<1>1. IInv => IndexIsCurrent
  <2> SUFFICES ASSUME IInv PROVE IndexIsCurrent
    OBVIOUS
  <2>1. ~db.failed /\ Fits(db, log, last)
    BY DEF IInv, Kept, Store
  <2> QED BY <2>1 DEF Fits, Current, IndexIsCurrent
<1> QED BY <1>1, EventLogInvariant, PTL

LEMMA StartedOnce ==
    ASSUME IInv, NEW i, Cardinality({n \in DOMAIN log : log[n].type = "started" /\ log[n].id = i}) <= 1
    PROVE  Single(log, i)
<1> DEFINE S == {n \in DOMAIN log : log[n].type = "started" /\ log[n].id = i}
<1>1. SUFFICES ASSUME NEW m \in S, NEW n \in S, m # n PROVE FALSE
  BY DEF Single, StartedAt
<1>2. IsFiniteSet(S)
  <2>1. IsFiniteSet(1..last)
    BY LogFacts, FS_Interval
  <2>2. S \subseteq 1..last
    BY LogFacts
  <2> QED BY <2>1, <2>2, FS_Subset
<1> HIDE DEF S
<1>3. IsFiniteSet({m}) /\ Cardinality({m}) = 1
  BY FS_Singleton
<1>4. IsFiniteSet({m} \cup {n}) /\ Cardinality({m} \cup {n}) = 2
  <2>1. n \notin {m}
    BY <1>1
  <2> QED BY <1>3, <2>1, FS_AddElement, SMTT(20)
<1>5. Cardinality({m} \cup {n}) <= Cardinality(S)
  <2>1. {m} \cup {n} \subseteq S
    OBVIOUS
  <2> QED BY <1>2, <2>1, FS_Subset
<1>6. Cardinality(S) \in Nat
  BY <1>2, FS_CardinalityType
<1> QED BY <1>4, <1>5, <1>6 DEF S

\* The search rows of an item follow from its row.
LEMMA IndexOfRow ==
    ASSUME NEW d, NEW p, NEW i, Current(d), Current(p), d.items[i] = p.items[i]
    PROVE  IndexOf(p, i) = IndexOf(d, i)
<1>1. ASSUME NEW x, Current(x)
      PROVE  IndexOf(x, i) =
               {[seq |-> x.items[i].seq, id |-> i, body |-> x.items[i].body] :
                  j \in {j \in {i} : j \in Searchable /\ x.items[j].status = "done"}}
  BY <1>1 DEF IndexOf, Current
<1> QED BY <1>1

\* A replay of the log makes, of every item started once, the row and the
\* search rows the projections hold, before, between and after the batches of a
\* compaction (store.go:1354-1355).
THEOREM ReplayAgreesOnceHolds == Spec => []ReplayAgreesOnce
<1>1. IInv => ReplayAgreesOnce
  <2> SUFFICES ASSUME IInv PROVE ReplayAgreesOnce
    OBVIOUS
  <2> DEFINE p == Project(log)
  <2>1. p = Applied(NoProjections, log, 1, last)
    BY DEF Project
  <2>2. last \in Nat /\ Orderly(log, last) /\ Agrees(p, db, log) /\ ~db.failed /\ Fits(db, log, last)
    BY <2>1 DEF IInv, Kept, Store
  <2>3. Fits(p, log, last)
    <3>1. NoProjections \in Projections /\ Fits(NoProjections, log, 1 - 1)
      BY NoneFits
    <3> QED BY <2>1, <2>2, <3>1, AppliedFits
  <2> HIDE DEF p
  <2>4. ~p.failed /\ p.thread = db.thread /\ Current(p) /\ Current(db)
    BY <2>2, <2>3 DEF Agrees, Fits
  <2>5. ASSUME NEW i \in Item, Cardinality({n \in DOMAIN log : log[n].type = "started" /\ log[n].id = i}) <= 1
        PROVE  p.items[i] = db.items[i] /\ IndexOf(p, i) = IndexOf(db, i)
    <3>1. p.items[i] = db.items[i]
      BY <2>2, <2>5, StartedOnce DEF Agrees
    <3> QED BY <2>4, <3>1, IndexOfRow
  <2> QED BY <2>4, <2>5 DEF ReplayAgreesOnce, p
<1> QED BY <1>1, EventLogInvariant, PTL
=============================================================================
