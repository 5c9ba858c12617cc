------------------------------ MODULE EventLog ------------------------------
(***************************************************************************)
(* The event log of one thread, its projections, and those who write it:   *)
(* internal/store (Append, apply, Replay, Compact) under the pump of       *)
(* internal/app that turns what an agent streams into events.              *)
(*                                                                         *)
(* Text streams as one delta per token; a compaction that starts with the  *)
(* server folds the deltas of an item into one while the pump goes on      *)
(* appending.  The store has one connection, so a transaction is a step.   *)
(* A handler of the pump that appends twice is one step too: a compaction  *)
(* in between would do what it does after or before it.                    *)
(*                                                                         *)
(* Items that no later event names (results, notices, errors, the note of  *)
(* a rewind) are left out, and so is what is not an item.  A token of text *)
(* is a number, different for each.                                        *)
(***************************************************************************)
EXTENDS Naturals, Sequences, FiniteSets, SequencesExt

CONSTANTS
    Prompts,    \* items of kind "user"
    Replies,    \* of kind "assistant"
    Thoughts,   \* of kind "thinking"
    Tools,      \* of kind "tool"
    BatchSize,  \* compactBatch
    MaxSeq,     \* bound: events appended
    MaxBoots    \* bound: how often the server starts again

ASSUME EventLogAssumption ==
    /\ BatchSize \in Nat \ {0} /\ MaxSeq \in Nat /\ MaxBoots \in Nat
    /\ Prompts \cap (Replies \cup Thoughts \cup Tools) = {}
    /\ Replies \cap (Thoughts \cup Tools) = {} /\ Thoughts \cap Tools = {}

Streamed == Replies \cup Thoughts
Item == Prompts \cup Streamed \cup Tools
Searchable == Prompts \cup Replies

VARIABLES
    log,      \* the events table: its rows by seq
    last,     \* the last seq given
    db,       \* the projections
    comp,     \* the compaction
    turn,     \* a turn is running
    seen,     \* live.seenMsgs
    tools,    \* live.seenTools
    boots     \* how often the server has started again

storeVars == <<log, last, db>>
pumpVars == <<turn, seen, tools>>
vars == <<storeVars, comp, pumpVars, boots>>

----------------------------------------------------------------------------
(***************************************************************************)
(* The projections, and what one event does to them.                       *)
(***************************************************************************)
NoRow == [seq |-> 0, status |-> "none", body |-> <<>>, output |-> <<>>]

\* thread: its row exists.  items: rows of the items table, by id.  index: rows
\* of items_fts, whose rowid is the item's seq.  failed: a statement failed.
NoProjections == [thread |-> TRUE, items |-> [i \in Item |-> NoRow], index |-> {}, failed |-> FALSE]

Event(type, i, status, field, text) ==
    [type |-> type, id |-> i, status |-> status, field |-> field, text |-> text]
Started(i, status, text) == Event("started", i, status, "body", text)
Delta(i, field, text) == Event("delta", i, "none", field, text)
Completed(i, status) == Event("completed", i, status, "body", <<>>)
Rewound(i) == Event("rewound", i, "none", "body", <<>>)
Deleted(i) == Event("deleted", i, "none", "body", <<>>)

Unindexed(d, i) == {r \in d.index : r.seq # d.items[i].seq}

IndexItem(d, i) ==
    LET row == d.items[i]
        new == {r \in {[seq |-> row.seq, id |-> i, body |-> row.body]} : i \in Searchable /\ row.body # <<>>}
    IN [d EXCEPT !.index = Unindexed(d, i) \cup new]

\* Removes the rows of the items in is, their search rows first.
TakeOut(d, is) ==
    [d EXCEPT !.index = {r \in @ : \A i \in is : r.seq # d.items[i].seq},
              !.items = [i \in Item |-> IF i \in is THEN NoRow ELSE @[i]]]

\* A second start of an item replaces its row, and there is no row without the
\* thread's.
ApplyStarted(d, n, e) ==
    LET row == [seq |-> n, status |-> e.status, body |-> e.text, output |-> <<>>]
        new == [d EXCEPT !.index = Unindexed(d, e.id), !.items[e.id] = row]
    IN IF ~d.thread THEN [d EXCEPT !.failed = TRUE]
       ELSE IF e.id \in Prompts \/ e.status # "running" THEN IndexItem(new, e.id) ELSE new

ApplyDelta(d, e) ==
    IF d.items[e.id] = NoRow THEN d
    ELSE IF e.field = "output" THEN [d EXCEPT !.items[e.id].output = @ \o e.text]
    ELSE [d EXCEPT !.items[e.id].body = @ \o e.text]

ApplyCompleted(d, e) ==
    IF d.items[e.id] = NoRow THEN d
    ELSE IndexItem([d EXCEPT !.items[e.id].status = e.status], e.id)

\* Mutant: the search rows stay.
ApplyRewoundKeeping(d, e) ==
    LET cut == d.items[e.id].seq IN
    IF cut = 0 THEN d
    ELSE [d EXCEPT !.items = [i \in Item |-> IF @[i].seq >= cut THEN NoRow ELSE @[i]]]

ApplyRewound(d, e) ==
    LET cut == d.items[e.id].seq IN
    IF cut = 0 THEN d ELSE TakeOut(d, {i \in Item : d.items[i].seq >= cut})

ApplyDeleted(d, e) == [TakeOut(d, Item) EXCEPT !.thread = FALSE]

\* The event e with seq n.
Apply(d, n, e) ==
    IF d.failed THEN d ELSE
    CASE e.type = "started" -> ApplyStarted(d, n, e)
      [] e.type = "delta" -> ApplyDelta(d, e)
      [] e.type = "completed" -> ApplyCompleted(d, e)
      [] e.type = "rewound" -> ApplyRewound(d, e)
      [] e.type = "deleted" -> ApplyDeleted(d, e)

\* The projections d after the rows of l from seq lo to hi.
Applied(d, l, lo, hi) ==
    LET after[n \in (lo - 1)..hi] ==
            IF n < lo THEN d
            ELSE IF n \in DOMAIN l THEN Apply(after[n - 1], n, l[n])
            ELSE after[n - 1]
    IN after[hi]

\* What Store.Replay makes of a log.
Project(l) == Applied(NoProjections, l, 1, last)

\* groups: what is left to fold.
NotListed == [at |-> "due", groups |-> {}]

Init ==
    /\ log = <<>> /\ last = 0 /\ db = NoProjections
    /\ comp = NotListed
    /\ turn = FALSE /\ seen = {} /\ tools = {}
    /\ boots = 0

----------------------------------------------------------------------------
(***************************************************************************)
(* Append.                                                                 *)
(***************************************************************************)

\* One transaction on s: all of es, or, when a statement fails, nothing.
Commit(s, es) ==
    LET upTo == s.last + Len(es)
        l == [n \in DOMAIN s.log \cup (s.last + 1)..upTo |-> IF n <= s.last THEN s.log[n] ELSE es[n - s.last]]
        d == Applied(s.db, l, s.last + 1, upTo)
    IN IF d.failed THEN s ELSE [log |-> l, last |-> upTo, db |-> d]

\* The transactions es and then fs.
Append2(es, fs) ==
    LET s == Commit(Commit([log |-> log, last |-> last, db |-> db], es), fs) IN
    /\ last + Len(es) + Len(fs) <= MaxSeq
    /\ log' = s.log /\ last' = s.last /\ db' = s.db

Append1(es) == Append2(es, <<>>)

\* The next token of text.
Token == <<last + 1>>

----------------------------------------------------------------------------
(***************************************************************************)
(* The requests and the pump.                                              *)
(***************************************************************************)
HasStarted(i) == \E n \in DOMAIN log : log[n].type = "started" /\ log[n].id = i

\* The user's item of a prompt, which has a new id.
Prompt(p) ==
    /\ ~turn /\ db.thread
    /\ ~HasStarted(p)
    /\ Append1(<<Started(p, "done", Token)>>)
    /\ turn' = TRUE
    /\ UNCHANGED <<comp, seen, tools, boots>>

\* closeMessages, except for keep.
Closers(keep) == SetToSeq({Completed(m, "done") : m \in seen \ keep})

\* An agent streams a message within a turn.
Streams(m) ==
    /\ turn
    /\ \A k, n \in DOMAIN log : log[k].type = "started" /\ log[n].type = "started" /\ log[n].id \in Prompts
          => (log[k].id = m => n < k)

\* App.delta: the first of a message starts its item and ends the one before.
TextDelta(m) ==
    /\ Streams(m)
    /\ IF m \in seen THEN Append1(<<Delta(m, "body", Token)>>) /\ UNCHANGED seen
       ELSE Append1(Closers({m}) \o <<Started(m, "running", Token)>>) /\ seen' = {m}
    /\ UNCHANGED <<comp, turn, tools, boots>>

\* The second start of a tool in a turn may say what was not known at the first.
ToolStarted(t) ==
    /\ \/ t \notin tools /\ Append2(Closers({}), <<Started(t, "running", <<>>)>>)
       \/ t \in tools /\ Append2(Closers({}), <<Completed(t, "running")>>)
       \/ t \in tools /\ Append1(Closers({}))
    /\ seen' = {} /\ tools' = tools \cup {t}
    /\ UNCHANGED <<comp, turn, boots>>

\* An agent tells of a tool's output after its start, also after the turn.
ToolOutput(t) ==
    /\ HasStarted(t)
    /\ Append1(<<Delta(t, "output", Token)>>)
    /\ UNCHANGED <<comp, pumpVars, boots>>

ToolCompleted(t) ==
    /\ HasStarted(t)
    /\ \/ Append1(<<Completed(t, "done")>>)
       \/ Append1(<<Delta(t, "output", Token), Completed(t, "done")>>)
    /\ UNCHANGED <<comp, pumpVars, boots>>

TurnCompleted ==
    /\ turn
    /\ Append1(Closers({}))
    /\ turn' = FALSE /\ seen' = {} /\ tools' = {}
    /\ UNCHANGED <<comp, boots>>

\* The session a rewind retires may still have events for the pump.
Rewind(p) ==
    /\ ~turn
    /\ db.items[p] # NoRow
    /\ Append1(<<Rewound(p)>>)
    /\ UNCHANGED <<comp, pumpVars, boots>>

DeleteThread ==
    /\ db.thread
    /\ Append1(<<Deleted(CHOOSE i \in Item : TRUE)>>)
    /\ UNCHANGED <<comp, pumpVars, boots>>

Requests ==
    \/ \E p \in Prompts : Prompt(p) \/ Rewind(p)
    \/ DeleteThread

Pump ==
    \/ \E m \in Streamed : TextDelta(m)
    \/ \E t \in Tools : ToolStarted(t) \/ ToolOutput(t) \/ ToolCompleted(t)
    \/ TurnCompleted

----------------------------------------------------------------------------
(***************************************************************************)
(* Compact.                                                                *)
(***************************************************************************)
Deltas(l, id, field) == {n \in DOMAIN l : l[n].type = "delta" /\ l[n].id = id /\ l[n].field = field}

\* The deltas of one item and one field, where there is more than one row.
Groups(l) ==
    {g \in [id : Item, field : {"body", "output"}, first : DOMAIN l, last : DOMAIN l] :
        LET ns == Deltas(l, g.id, g.field) IN
        /\ {g.first, g.last} \subseteq ns /\ g.first # g.last
        /\ \A n \in ns : g.first <= n /\ n <= g.last}

\* The first pass lists them.
CompactLists ==
    /\ comp.at = "due"
    /\ comp' = [comp EXCEPT !.at = "fold", !.groups = Groups(log)]
    /\ UNCHANGED <<storeVars, pumpVars, boots>>

\* Mutant: what the first row says is not taken along.
TextForgetting(l, ns) ==
    LET upTo[n \in 0..last] ==
            IF n = 0 THEN <<>>
            ELSE IF n \in ns /\ \E k \in ns : k < n THEN upTo[n - 1] \o l[n].text
            ELSE upTo[n - 1]
    IN upTo[last]

\* What the rows ns of l say.
Text(l, ns) ==
    LET upTo[n \in 0..last] ==
            IF n = 0 THEN <<>> ELSE IF n \in ns THEN upTo[n - 1] \o l[n].text ELSE upTo[n - 1]
    IN upTo[last]

\* The groups of a batch span a stretch of the log.
Span(gs) == {n \in 1..last : (\E g \in gs : g.first <= n) /\ (\E g \in gs : n <= g.last)}

\* The log in which the first delta of each group of gs, within their span,
\* says what all of them said and the others are gone.
Fold(l, gs) ==
    LET Fellows(n) == Span(gs) \cap Deltas(l, l[n].id, l[n].field)
        wanted == Span(gs) \cap UNION {Deltas(l, g.id, g.field) : g \in gs}
        others == {n \in wanted : \E k \in Fellows(n) : k < n}
    IN [n \in DOMAIN l \ others |->
            IF n \in wanted THEN [l[n] EXCEPT !.text = Text(l, Fellows(n))] ELSE l[n]]

\* The groups of comp whose first rows come first.
Batch == {g \in comp.groups : Cardinality({h \in comp.groups : h.first < g.first}) < BatchSize}

\* Each batch is a transaction of its own.
CompactFolds ==
    /\ comp.at = "fold" /\ comp.groups # {}
    /\ log' = Fold(log, Batch)
    /\ comp' = [comp EXCEPT !.groups = @ \ Batch]
    /\ UNCHANGED <<last, db, pumpVars, boots>>

Compaction == CompactLists \/ CompactFolds

----------------------------------------------------------------------------
(***************************************************************************)
(* The server stops, by a crash or otherwise, and starts.                  *)
(***************************************************************************)
Restart ==
    /\ boots < MaxBoots
    /\ boots' = boots + 1
    /\ turn' = FALSE /\ seen' = {} /\ tools' = {}
    /\ comp' = NotListed

\* It goes on with the projections it had.
Boot == Restart /\ UNCHANGED storeVars

\* "starcode replay" has been run in between.
Replay ==
    /\ Restart
    /\ db' = IF Project(log).failed THEN db ELSE Project(log)
    /\ UNCHANGED <<log, last>>

----------------------------------------------------------------------------
Next == Requests \/ Pump \/ Compaction \/ Boot \/ Replay

Spec == Init /\ [][Next]_vars

----------------------------------------------------------------------------
(***************************************************************************)
(* Properties.                                                             *)
(***************************************************************************)
\* The rows of items_fts that tell of item i.
IndexOf(d, i) == {r \in d.index : r.id = i}

\* "replay reads the same projection from one row as from a thousand"
\* (store.go:1354-1355), whatever was appended, cut or left open between the
\* rows: the row of an item, and what a search finds of it, are what a replay
\* of the log makes of them, at any time of a compaction.  An item that was
\* started a second time is excepted: the fold moves what streamed after that
\* start before it (store.go:1412-1502, app.go:1587-1596).
ReplayAgreesOnce ==
    LET p == Project(log) IN
    ~p.failed /\ p.thread = db.thread
      /\ \A i \in Item : Cardinality({n \in DOMAIN log : log[n].type = "started" /\ log[n].id = i}) <= 1
           => p.items[i] = db.items[i] /\ IndexOf(p, i) = IndexOf(db, i)

\* The search index, which no foreign key keeps, holds the prompts and the
\* finished replies with their whole text, under the seq of their rows, and
\* nothing that a rewind, a deletion or a second start has taken away
\* (store.go:371-379, 398-407, 480-496, 558-576).
IndexIsCurrent ==
    db.index = {[seq |-> db.items[i].seq, id |-> i, body |-> db.items[i].body] :
                  i \in {i \in Searchable : db.items[i].status = "done"}}
=============================================================================
