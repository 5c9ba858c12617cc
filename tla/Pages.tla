------------------------------- MODULE Pages -------------------------------
(***************************************************************************)
(* internal/web/events.go over Bus and the store: what an open thread page *)
(* shows.                                                                  *)
(*                                                                         *)
(* One browser shows one thread.  Its streams are the subscribers of Bus,  *)
(* one after the other: a phone that goes to the background loses its      *)
(* stream and connects again with the page it has.  Two goroutines append  *)
(* to the thread: the pump of its session, which streams items, and a      *)
(* request, which changes what the page shows beside the transcript (the   *)
(* status, queued prompts, rules) or rewinds the thread.  An append        *)
(* commits in one step and is published in a later one, so two appends may *)
(* be published in the other order.                                        *)
(*                                                                         *)
(* Text is counted in chunks.  One step handles one message, or one tick.  *)
(* The browser is external: it appends an element, appends text to every   *)
(* element with an id, or replaces the first of them, as the stream says.  *)
(***************************************************************************)
EXTENDS Bus, SequencesExt

CONSTANTS
    Replies,    \* the items the session streams
    Note,       \* the item a rewind leaves
    MaxChunks,  \* bound: chunks of text in an item
    MaxHead     \* bound: changes beside the transcript

\* Streams are numbered as they come.  A new message comes with the end of the
\* one before it, so a batch holds two events.
ASSUME PagesAssumption ==
    /\ Subs \subseteq Nat
    /\ MaxBatch >= 2
    /\ Note \notin Replies
    /\ MaxChunks \in Nat \ {0}
    /\ MaxHead \in Nat

ItemID == Replies \cup {Note}

VARIABLES
    items,      \* the items table in its order
    begun,      \* the items there ever were
    head,       \* what the page shows beside the transcript; it may return to an earlier value
    heads,      \* how often head has changed
    appended,   \* the appends that are committed and not published, in commit order
    overtook,   \* history: an append was published before an earlier one
    events,     \* what message n says
    page,       \* the browser: its elements, the head it shows, its signal mainv, its stream;
                \* kept is history: a whole redraw was skipped although the page differed
    conn        \* the conn of each stream: mainV, dirty, tails

logVars == <<appended, overtook, events>>
storeVars == <<items, begun, head, heads, logVars>>
pagesVars == <<vars, storeVars, page, conn>>

----------------------------------------------------------------------------
Unhashed == <<>>    \* mainv of a page that no stream has drawn

Ev(k, i) == [kind |-> k, id |-> i]

\* A tail: whether t.sent > 0, and the chunks in t.pending.
NoTail == [on |-> FALSE, sent |-> FALSE, pending |-> 0]
NewTail == [on |-> TRUE, sent |-> TRUE, pending |-> 0]
LateTail == [on |-> TRUE, sent |-> FALSE, pending |-> 0]
NoTails == [i \in ItemID |-> NoTail]

NoConn == [mainV |-> Unhashed, dirty |-> {}, tails |-> NoTails]

\* The hash of the page's markup, which stands for the markup.
Markup == <<items, head>>

HasItem(i) == \E n \in 1..Len(items) : items[n].id = i
ItemOf(i) == items[CHOOSE n \in 1..Len(items) : items[n].id = i]
Element(i) == [id |-> i, n |-> ItemOf(i).n]

PagesInit ==
    /\ Init
    /\ items = <<>> /\ begun = {} /\ head = 0 /\ heads = 0
    /\ appended = <<>> /\ overtook = FALSE /\ events = <<>>
    /\ page = [els |-> <<>>, head |-> 0, mainv |-> Unhashed, kept |-> FALSE, stream |-> {}]
    /\ conn = [s \in Subs |-> NoConn]

----------------------------------------------------------------------------
(***************************************************************************)
(* The store: Append commits, then Published hands the events to the bus.  *)
(***************************************************************************)
Unpublished == LET add(sum, a) == sum + Len(a.events) IN FoldLeft(add, 0, appended)

\* Each of the two goroutines waits for its Append.
Commits(by, evs) ==
    /\ \A n \in 1..Len(appended) : appended[n].by # by
    /\ published + Unpublished + Len(evs) <= MaxPub
    /\ appended' = Append(appended, [by |-> by, events |-> evs])
    /\ UNCHANGED <<vars, overtook, events, page, conn>>

Open == {i \in Replies : HasItem(i) /\ ~ItemOf(i).done}
Completed(i) == [n \in 1..Len(items) |-> IF items[n].id = i THEN [items[n] EXCEPT !.done = TRUE] ELSE items[n]]
Closing == SetToSeq({Ev("completed", j) : j \in Open})

\* A new message: the one before it is finished in the same append.
StartItem(i) ==
    /\ i \notin begun
    /\ begun' = begun \cup {i}
    /\ items' = Append([n \in 1..Len(items) |-> [items[n] EXCEPT !.done = TRUE]],
                       [id |-> i, n |-> 1, done |-> FALSE])
    /\ Commits("pump", Append(Closing, Ev("started", i)))
    /\ UNCHANGED <<head, heads>>

Delta(i) ==
    /\ i \in Open
    /\ ItemOf(i).n < MaxChunks
    /\ items' = [n \in 1..Len(items) |-> IF items[n].id = i THEN [items[n] EXCEPT !.n = @ + 1] ELSE items[n]]
    /\ Commits("pump", <<Ev("delta", i)>>)
    /\ UNCHANGED <<begun, head, heads>>

CompleteItem(i) ==
    /\ i \in Open
    /\ items' = Completed(i)
    /\ Commits("pump", <<Ev("completed", i)>>)
    /\ UNCHANGED <<begun, head, heads>>

\* A change beside the transcript: a prompt queued or cancelled, a rule, the
\* status.
ChangeHead ==
    /\ heads < MaxHead
    /\ heads' = heads + 1
    /\ head' = 1 - head
    /\ Commits("request", <<Ev("head", Note)>>)
    /\ UNCHANGED <<items, begun>>

\* Rewind: some items leave from the end, and a note takes their place.
Rewind(n) ==
    /\ Note \notin begun
    /\ n < Len(items)
    /\ begun' = begun \cup {Note}
    /\ items' = Append(SubSeq(items, 1, n), [id |-> Note, n |-> 1, done |-> TRUE])
    /\ Commits("request", <<Ev("rewound", Note), Ev("started", Note)>>)
    /\ UNCHANGED <<head, heads>>

\* Published: the events of the append as one batch.  Nothing keeps the
\* goroutines in the order of their commits.
PublishAppended(n) ==
    LET a == appended[n] IN
    /\ Publish(Len(a.events))
    /\ events' = events \o a.events
    /\ appended' = RemoveAt(appended, n)
    /\ overtook' = (overtook \/ n # 1)
    /\ UNCHANGED <<items, begun, head, heads, page, conn>>

----------------------------------------------------------------------------
(***************************************************************************)
(* What the stream sends, as a browser takes it.                           *)
(***************************************************************************)
Ids(p) == {p.els[n].id : n \in 1..Len(p.els)}
First(p, i) == CHOOSE n \in 1..Len(p.els) : p.els[n].id = i /\ \A m \in 1..(n - 1) : p.els[m].id # i

PatchAppend(p, i) == [p EXCEPT !.els = Append(@, Element(i))]
PatchHead(p) == [p EXCEPT !.head = head]
DrawWhole(p) == [p EXCEPT !.els = [n \in 1..Len(items) |-> Element(items[n].id)], !.head = head, !.mainv = Markup,
                         !.kept = FALSE]

\* Pending text goes out appended, or with the item whole: when nothing of it
\* was sent before, and every tailFullEvery.
Pending(c) == {i \in ItemID : c.tails[i].pending > 0}
MustBeWhole(c) == {i \in Pending(c) : ~c.tails[i].sent}

AfterTails(c, whole) ==
    [c EXCEPT !.tails = [i \in ItemID |->
        IF i \notin Pending(c) THEN @[i]
        ELSE IF i \notin whole THEN [@[i] EXCEPT !.pending = 0]
        ELSE IF HasItem(i) THEN NewTail
        ELSE [@[i] EXCEPT !.pending = 0]]]

\* flushDirty: the tails, then each dirty item whole.
FlushedPage(p, c, whole) ==
    LET appendable == Pending(c) \ whole
        redrawn == {i \in whole \cup c.dirty : HasItem(i)} \cap Ids(p)
        Flushed(e, n) ==
          IF e.id \in redrawn /\ First(p, e.id) = n THEN Element(e.id)
          ELSE IF e.id \in appendable THEN [e EXCEPT !.n = @ + c.tails[e.id].pending]
          ELSE e
    IN [p EXCEPT !.els = [n \in 1..Len(p.els) |-> Flushed(p.els[n], n)]]
FlushedConn(c, whole) == [AfterTails(c, whole) EXCEPT !.dirty = {}]
Wholes(c) == {w \in SUBSET Pending(c) : MustBeWhole(c) \subseteq w}

\* The page and the conn after stream s sent something.
Shows(s, p, c) ==
    /\ page' = p
    /\ conn' = [conn EXCEPT ![s] = c]

----------------------------------------------------------------------------
(***************************************************************************)
(* Server.events.                                                          *)
(***************************************************************************)
\* A stream: its mainV is the page's mainv.
Connect(s) ==
    /\ page.stream = {}
    /\ \A r \in Subs : phase[r] = "out" => s <= r
    /\ Subscribe(s)
    /\ page' = [page EXCEPT !.stream = {s}]
    /\ conn' = [conn EXCEPT ![s].mainV = page.mainv]
    /\ UNCHANGED storeVars

\* The socket is gone: what the stream had in hand goes with it.
Disconnect(s) ==
    /\ Unsubscribe(s)
    /\ page' = [page EXCEPT !.stream = {}]
    /\ conn' = [conn EXCEPT ![s] = NoConn]
    /\ UNCHANGED storeVars

\* render, on connect, after a Resync and after a rewind.
Drifted(p) == p.head # head \/ p.els # [n \in 1..Len(items) |-> Element(items[n].id)]
DrawnPage(p, c) == IF c.mainV = Markup THEN [p EXCEPT !.kept = @ \/ Drifted(p)] ELSE DrawWhole(p)
DrawnConn(c) == [c EXCEPT !.mainV = Markup, !.tails = NoTails]

Draw(s) ==
    /\ Redraw(s)
    /\ Shows(s, DrawnPage(page, conn[s]), DrawnConn(conn[s]))
    /\ UNCHANGED storeVars

\* handle.
Said(s) == events[Head(buf[s])]

\* Earlier items are made current, then the new one is appended as the store
\* has it; what streams from now on is appended to it.
HandleStarted(s) ==
    LET i == Said(s).id
        c == conn[s]
    IN
    /\ Said(s).kind = "started"
    /\ \E w \in Wholes(c) :
         LET p == FlushedPage(page, c, w)
             d == FlushedConn(c, w)
         IN IF HasItem(i) THEN Shows(s, PatchAppend(p, i), [d EXCEPT !.tails[i] = NewTail])
            ELSE Shows(s, p, d)

\* Text waits for a tick; an item the page was not sent yet gets a tail.
HandleDelta(s) ==
    LET i == Said(s).id
        t == IF conn[s].tails[i].on THEN conn[s].tails[i] ELSE LateTail
    IN
    /\ Said(s).kind = "delta"
    /\ Shows(s, page, [conn[s] EXCEPT !.tails[i] = [t EXCEPT !.pending = @ + 1]])

\* Mutant: the text that has not been sent goes with the tail.
CompletedSendsNothing(s) ==
    LET i == Said(s).id IN
    /\ Said(s).kind = "completed"
    /\ Shows(s, page, [conn[s] EXCEPT !.tails[i] = NoTail])

\* The last full patch of the item is due on the next tick.
HandleCompleted(s) ==
    LET i == Said(s).id IN
    /\ Said(s).kind = "completed"
    /\ Shows(s, page, [conn[s] EXCEPT !.tails[i] = NoTail, !.dirty = @ \cup {i}])

HandleHead(s) ==
    /\ Said(s).kind = "head"
    /\ Shows(s, PatchHead(page), conn[s])

\* Mutant: the rows that left stay on the page.
RewoundUnseen(s) ==
    /\ Said(s).kind = "rewound"
    /\ Shows(s, page, conn[s])

\* Rows left the transcript.
HandleRewound(s) ==
    /\ Said(s).kind = "rewound"
    /\ Shows(s, DrawnPage(page, conn[s]), DrawnConn(conn[s]))

Take(s) ==
    /\ s \in page.stream
    /\ Receive(s)
    /\ \/ /\ Head(buf[s]) = Resync
          /\ UNCHANGED <<page, conn>>
       \/ /\ Head(buf[s]) # Resync
          /\ HandleStarted(s) \/ HandleDelta(s) \/ HandleCompleted(s) \/ HandleHead(s) \/ HandleRewound(s)
    /\ UNCHANGED storeVars

\* Mutant: the tick leaves alone text of items that still run.
FlushDirtyOnly(s) ==
    /\ phase[s] = "in" /\ ~drawing[s]
    /\ conn[s].dirty # {}
    /\ \E w \in Wholes(conn[s]) : Shows(s, FlushedPage(page, conn[s], w), FlushedConn(conn[s], w))
    /\ UNCHANGED <<vars, storeVars>>

\* The flush tick.  Which tails have not been sent whole for tailFullEvery is
\* up to the clock.
Flush(s) ==
    /\ phase[s] = "in" /\ ~drawing[s]
    /\ conn[s].dirty # {} \/ Pending(conn[s]) # {}
    /\ \E w \in Wholes(conn[s]) : Shows(s, FlushedPage(page, conn[s], w), FlushedConn(conn[s], w))
    /\ UNCHANGED <<vars, storeVars>>

----------------------------------------------------------------------------
\* What the bus does by itself.
Transport(s) ==
    /\ Deliver(s) \/ SendMarker(s) \/ ClearDropped(s) \/ AbandonMarker(s) \/ CloseChan(s)
    /\ UNCHANGED <<storeVars, page, conn>>

Appends ==
    \/ \E i \in Replies : StartItem(i) \/ Delta(i) \/ CompleteItem(i)
    \/ ChangeHead
    \/ \E n \in 0..Len(items) : Rewind(n)
    \/ \E n \in 1..Len(appended) : PublishAppended(n)

PagesNext ==
    \/ Appends
    \/ \E s \in Subs : Connect(s) \/ Disconnect(s) \/ Draw(s) \/ Take(s) \/ Flush(s) \/ Transport(s)

PagesSpec == PagesInit /\ [][PagesNext]_pagesVars

(***************************************************************************)
(* What runs does run: the goroutines of the bus (as in Bus), an append    *)
(* whose transaction has committed, and the ticker of a stream.  That the  *)
(* stream gets through its messages takes a browser that reads: PageReads  *)
(* is apart.                                                               *)
(***************************************************************************)
Alone(s, A) == A /\ UNCHANGED <<storeVars, page, conn>>

PagesFairness ==
    /\ \A s \in Subs :
          /\ WF_pagesVars(Alone(s, Deliver(s)))
          /\ WF_pagesVars(Alone(s, SendMarker(s))) /\ SF_pagesVars(Alone(s, ClearDropped(s)))
          /\ WF_pagesVars(Alone(s, AbandonMarker(s))) /\ WF_pagesVars(Alone(s, CloseChan(s)))
          /\ WF_pagesVars(Flush(s))
    /\ SF_pagesVars(\E n \in 1..Len(appended) : PublishAppended(n))

PageReads == \A s \in Subs : WF_pagesVars(Take(s)) /\ WF_pagesVars(Draw(s))

PagesFairSpec == PagesSpec /\ PagesFairness

----------------------------------------------------------------------------
\* The stream has nothing left to take, to flush or to be told.
AtRest(s) ==
    /\ phase[s] = "in" /\ ~drawing[s] /\ sender[s] = "none"
    /\ buf[s] = <<>> /\ todo[s] = <<>>
    /\ appended = <<>>
    /\ conn[s].dirty = {} /\ Pending(conn[s]) = {}

\* An item that has ended is shown as it is.  One that runs lacks nothing; it
\* may show a chunk twice until it is sent whole again.
ShownWell(i) ==
    LET n == page.els[First(page, i)].n IN
    IF ItemOf(i).done THEN n = ItemOf(i).n ELSE n >= ItemOf(i).n

SameItems == Ids(page) = {items[n].id : n \in 1..Len(items)}

Current ==
    /\ page.head = head
    /\ SameItems
    /\ \A i \in Ids(page) : ShownWell(i)

\* A page whose stream is at rest shows the thread as the store has it, across
\* lost messages, reconnects, rewinds and appends published out of order
\* (events.go:49-74, 219-273, 657-833).  There are two exceptions, both in the
\* code: messages the bus skipped after its marker (see Bus), and redraws that
\* render skipped because the markup is the one the page last got whole,
\* although patches have changed the page since (events.go:252-262).
RestingPage == \A s \in Subs : AtRest(s) /\ skipped[s] = {} => Current \/ page.kept

\* Item a is on page p, and b, if it is there at all, comes after it.
Leads(p, a, b) == \E n \in 1..Len(p.els) : p.els[n].id = a /\ \A m \in 1..n : p.els[m].id # b

\* A page at rest has the items of the store in its order, each where it came
\* first, unless two appends were published in the other order than they were
\* committed in (store.go:288-295, events.go:74).
RestingOrder ==
    \A s \in Subs : AtRest(s) /\ skipped[s] = {} /\ ~page.kept /\ ~overtook =>
        SameItems /\ \A j, k \in 1..Len(items) : j < k => Leads(page, items[j].id, items[k].id)

\* A page that is read catches up with the thread or loses its stream, and
\* never waits for the next event to do so (events.go:80-98, 550-600).
PageCatchesUp ==
    PageReads =>
        \A s \in Subs : (s \in page.stream) ~>
            (s \notin page.stream \/ Current \/ page.kept \/ skipped[s] # {})
============================================================================
