# Verification of starcode

starcode is a Go server that runs coding agents (Claude Code, Codex) for the
browser. A user types prompts into *threads*; each thread has a status, a queue
of prompts that wait, a transcript and, while it works, one agent process. What
happens is written to an event log in SQLite, projected into tables, published
on an in-process bus and streamed to pages. This directory holds TLA+ modules
of the parts of that server where order and interleaving matter, the TLC
instances that check them, and TLAPS proofs of the theorems that matter most.

Paths below are relative to the repository, mostly `internal/...`; a line
number is given as `app.go:949`.

## 1. The system

### Components

| Component | Code | State | Operations |
|---|---|---|---|
| threads: turns, sessions, queue | `internal/app/app.go` | per thread: status, queued prompts, approvals, settings (in the store); registry of sessions, `promptMu`, a *live* record per session (in memory) | SendPrompt, CancelQueuedPrompt, CompactContext, Interrupt, ResolveApproval, SetThreadSettings, ArchiveThread, DeleteThread, the idle sweep, the pump of each session, Recover, ResumeCutOff, Shutdown |
| rewind, cleanup, snooze, projects | `internal/app/{rewind,cleanup,snooze,projects}.go` | the log, worktrees, settled/snoozed marks | Rewind, removal of worktrees of settled threads, settle, snooze, wake |
| store | `internal/store` | the event log, projections of it, a full text index of items; drafts | Append (a transaction), Replay, Compact, queries |
| events | `internal/domain` | none | types and names of the events |
| bus | `internal/bus` | a buffered channel per subscriber, its `dropped` flag | Subscribe, Publish, the delivery of the Resync marker |
| agent interface | `internal/agent/agent.go` | none | Start; Send, Interrupt, Resolve, Close, Events of a session |
| claude adapter | `internal/agent/claude` | one process per session: pending control requests, approvals | the same, over a pipe |
| codex adapter | `internal/agent/codex` | one process for all sessions: calls in flight, registry of sessions; per session its turn and approvals | the same, over JSON-RPC; one reader |
| pages | `internal/web/events.go` and the rest of `internal/web` | what a page shows; caches | SSE stream, commands (each calls one operation of the app) |
| pollers | `internal/web/{prs,limits,selfupdate}.go` | pull requests per branch, rate limits, an update | timers and probes |
| terminals | `internal/term` | a shell per terminal, its scrollback and subscribers | open, attach, lag, exit |
| git, keys, TLS, usage, providers, views | `internal/{gitx,keys,tlsx,usage,providers}`, `internal/web/views` | files | calls of commands, parsing, rendering |
| main | `main.go` | the process | start: Recover, compaction, serving, ResumeCutOff; Shutdown |

`PROJECT.json` lists every one of them with what is modelled of it.

### How they interact

- A page's command calls one operation of the app. Several run at once.
- The app appends to the store. An Append is one transaction that writes events
  and their projections; the store has one connection, so transactions and
  queries are one at a time. After the commit the events are published.
- An operation that starts a turn holds `promptMu` (`app.go:38-43`), reads the
  thread, finds or starts a session, appends the user's item and calls Send.
  ArchiveThread, SetThreadSettings, Interrupt and ResolveApproval do not take
  `promptMu`.
- A session emits events into a channel of 256. One goroutine per session, the
  *pump*, reads it and appends; at the end of a turn it takes `promptMu` and
  hands the session the next queued prompt. At its end a session emits Closed; that
  nothing follows it is what `agent.go:227` says, and what one interleaving breaks.
- A page subscribes to the bus, draws itself from the store, and then follows
  messages; a subscriber that lags gets one Resync marker and draws itself again.
- A thread works in the project's checkout, in a worktree of its own or in that
  of another thread; the sweep removes worktrees of threads that are done.
- All codex sessions share one process. Calls are answered out of order by the
  reader, which also routes notifications to sessions; when the process is gone
  the reader fails every call and closes every session.

### What is hard, and what makes each part correct

- **Threads.** Requests, pumps, the sweep and agents interleave between store
  operations; processes die at any point and the server may be killed at any
  point. Correct means: prompts start once, in order, and none is lost; one
  agent works for a thread at a time and has one turn at a time; a thread that
  shows as busy gets out of it; the sweep, an archive and an answer to an
  approval do not disturb a turn.
- **Bus.** Publishers must not block, readers lag, come and go. Correct means:
  order, nothing lost without a marker, no send on a closed channel, an
  overflow ends.
- **Codex.** Callers, the reader, timeouts and the end of the process race.
  Correct means: each call ends, with one answer; each approval is answered at
  most once; notifications reach the session in use; Closed comes last and
  comes to everyone.
- **Log.** Compaction rewrites the log while it grows, a rewind cuts the items,
  the search index is kept by hand. Correct means: the projections are those of
  a replay, and the index fits the items.
- **Claude.** Writers of a pipe that fills up, a reader that answers what it
  reads, a channel nobody may be reading, and a process that exits. Correct
  means: the CLI never waits for an answer nobody will give, a stop is reported
  for the turn it hit, Close returns and the events end.
- **Pages.** A page subscribes, draws and follows; it misses messages, connects
  again, gets text in chunks and skips redraws it takes to be needless, while
  appends are published in another order than they were committed in. Correct
  means: when nothing is left to do, it shows what the store has.
- **Worktrees.** Threads share checkouts; the sweep, a removal, a deletion, a
  rewind and prompts look at the store and at the disk at different times, and
  only some of them hold `promptMu`. Correct means: no session loses its
  checkout, and no work is destroyed, but what the documents say may be.
- **Terminals.** Streams lag, leave and come back while shells end, are killed
  and replaced. Correct means: a channel is closed once, a page's output has no
  gap, no shell is left running, and a stream of a dead shell ends.

The hazards, each at its line with the properties that would catch it, are in
`PROJECT.json`.

## 2. The plan

Order of the modules, most important behaviour first:

| | Module | What | State |
|---|---|---|---|
| 1 | `PromptQueue` | abstract: what a thread promises about its prompts | proved |
| 2 | `Turns` | one thread: store, `promptMu`, sessions, pumps, requests, restarts; implements `PromptQueue` | all safety proved (four properties for the requests of their runs), liveness checked |
| 3 | `Bus` | subscribers, overflow, the Resync sender, a reader | safety proved, liveness checked |
| 4 | `Codex` | client, reader, sessions, an external app-server | all its properties proved |
| 5 | `EventLog` | Append, projections, Replay, Compact, the transcript part of the pump | its two invariants proved |
| 6 | `Pages` | `Bus` composed with commits, publications, the stream of a page and its browser; implements `Bus` | safety proved, liveness checked |
| 7 | `Claude` | one session of the claude adapter, its pipes, its process | safety proved, liveness checked |
| 8 | `Worktrees` | cleanup, removal, deletion, rewind and prompts of threads that share checkouts | its four invariants proved |
| 9 | `Terminals` | shells, streams, Kill, Shutdown | safety proved, liveness checked |

`*Proofs` modules hold the theorems of the module they are named after (`PagesProofs`
those of `Bus` too, which `Pages` extends). `MC*` modules
and their configurations are the instances.

Composition: `Pages` EXTENDS `Bus` and adds what is on both sides of it, so that
every step of the bus is a step of the page's world with its real messages.
`Turns` implements `PromptQueue`. `Turns` takes of a session what `Claude` shows of
its own: events in order, Closed told once, and a start of a turn that may be told
after it. The agents' modules are not composed with `Turns`: a session record of
`Turns` has the end of a claude session step by step, and nothing of its pipes.

An abstract session that both adapters implement was planned and dropped. What
`agent.go` promises beyond what the two modules check of each is that Closed is
the last event (`agent.go:227`), and claude's adapter does not keep that
(`LateStartFails`, section 4).

## 3. The modules and the code

### Turns (with PromptQueue)

One thread of `app.go`. **A step is one store operation**, with what the code
computes around it: the store runs operations one at a time, and between two of
them everything not excluded by `promptMu` may happen. `App.mu` and a live
record's mutex protect single reads and writes, which are inside a step.

- `status`, `queue`, `pending`, `bound`, `config`, `archived`: the projections
  (`threads.status`, `queued_prompts`, undecided approvals,
  `external_session_id`, the settings as a version number, `archived`). They
  survive a crash. `accepted`, `started`, `cancelled` are history variables.
- `lock` is `promptMu` with the program counter and locals of the operation
  that holds it: SendPrompt, CompactContext, a pump's handoff, Recover or
  ResumeCutOff. `arch`, `sett`, `intr`, `reso` are one request each of the
  operations that do not take it, between their store operations.
- `sess[s]` is a session with its live record (`stale`, `idle`), its channel
  `chan` and its pump (`at` and the locals of the Closed handler). `cur` is the
  registry's entry. `due` marks a session taken out of the registry whose Close
  is about to be called; `life` is its process.
- `app` is the server process: up, closing (Shutdown runs), down, recovering.

| Actions | Code |
|---|---|
| SendPrompt, QueuePrompt, Enqueue | `SendPrompt` 912-969 |
| ReuseSession, RetireStale, NoneRegistered, StartSession, StartFails | `session` 1272-1317 |
| Begin*, HandFails | `startPromptMeta` 1044-1092 |
| HandFindsAlive, HandTells, HandWrites, Refused | `claude.go` Send 584-598, alive 676-685, write 687-694 |
| Pump*, HandoffAcquire, Settle, Handoff* | `pump` 1355-1572 |
| ReapIdle, CompactContext, CancelQueuedPrompt | 166-206, 1101-1124, 971-986 |
| Archive*, Settings*, Interrupt*, Resolve* | 864-880, 752-836, 1134-1147, 1151-1191 |
| Shutdown, Crash, Boot, Recover*, Resume* | 384-407, `main.go` 154-289, 217-308 |
| CloseCall, AgentExits, AgentReaped, AgentEnds, AgentStops | `claude.go` Close 654-674, run 730-746, closeEvents 721-726 |
| AgentAsks, AgentCompletes | `claude.go` 1435-1534 |

The end of a session and a Send take several steps each, since they may meet. `life`
goes from "open" to "gone" when the process exits by itself, or to "closing" when
Close is called; "ended" or "failed" is when `exited` is closed and Closed will tell no
error or one; "told" is when Closed is in the channel, and "dead" when the channel is
closed. Send looks once whether the session is alive (neither closing nor reaped), tells
the start of the turn as long as the channel is open, and then writes, which fails on a
process that is gone. So a session that dies in the middle can tell a start before
Closed, after it, or not at all, and Send then fails on all three ways.

`PromptQueue` says what a user is promised: a prompt is accepted once, waits in
order, and leaves the queue once, into the transcript or cancelled. `Turns`
implements it with `waiting <- queue` and itself otherwise.

Abstracted: the text of prompts, the content of settings (a version number: a
session runs with the version it was started or updated with), titles,
checkpoints and metadata of items. Left out: the session side of DeleteThread,
RemoveWorktree and Rewind (`Worktrees` has it), and more than one thread; the context of
a request, which is cancelled when the browser leaves (the append that puts a failed
Send on the thread, 1089, then fails too, and the thread stays running); and what codex does otherwise: its Send waits for
an answer, and the start of a turn may be told after its end (section 4).

### Bus

`bus.go`, and the reader of `web/events.go`. A step is what happens between two
acquisitions of the bus's mutex or two operations on a channel. `todo[s]` is
what the running Publish still has to offer `s`; it is non-empty exactly while
`mu` is held. `sender[s]` is the goroutine that pushes the Resync marker
("sending"), then takes the lock to clear `dropped` ("sent"). A message is the
number of its publication; `known[s]` is what the page shows. What a message
announces is in the store before Publish is called, so a redraw covers all that
is published.

### Codex

`codex/client.go`, `codex.go`, `session.go`: the client, its reader and the
sessions that share one app-server process. A step is what happens between two
acquisitions of a mutex that others wait for; a message that the reader takes is
one step, since its look into the registry commutes with what others do before
it gets to the session. A call goes through `write`, `wait`, `done`, and its
channel `ans` has room for one message. `rd` is the reader, and in `fail` the
calls and sessions it still owes an answer or Closed. Close runs in the steps
`decline`, `check`, `call`, `finish`. `evs` holds what a session emitted of
turns and its end.

The app-server is external: it answers calls in any order or refuses them, runs
one turn per thread, notifies of threads this connection subscribed to, asks for
approvals, reports errors and may exit. What the code takes for granted of it is
in the operators mapped as external. Left out: text and tools of a turn (they
only emit), background work, limits, and getting a new client after one died
(a second client shares nothing with the first).

### EventLog

`store.go` (Append, apply, Replay, Compact) under the transcript part of
`app.pump` (delta, closeMessages, tool events). A transaction is a step. `log`
is the events table, a function from the seq of a row to its event (compaction leaves
gaps, and an AUTOINCREMENT seq is never given again, so `last` is kept apart), `db` the projections of items and the search index, `comp`
the compaction that starts with the server and folds groups of deltas in
batches, `seen` and `tools` the live record of the session. `Apply` is one
function from projections and an event to projections; Append uses it
statement by statement and rolls back when one fails, and `Project` (Replay) is
what it makes of all rows in order of seq (both are `Applied`, from different projections
and over different rows), so "a replay gives the same projections" compares the
incremental tables with the log at every point, also half way through a
compaction. A token of text is a number, different for each, so that lost,
doubled and reordered text shows.

`App.Compact` (`app.go:1236`) is called by nothing; the compaction of `main.go`
168-174 (and the `compact` subcommand) is the one modelled. Left out: items no
later event names (results, notices, errors), bodies given with ItemCompleted,
metadata, and what is not an item.

### Pages

`web/events.go` over `Bus`: an open thread page, the streams it has one after the
other (the subscribers of `Bus`), and two goroutines that append to its thread:
the pump, which streams items, and a request, which changes what stands beside
the transcript or rewinds. An append commits in one step and is handed to Publish
in a later one (`appended`), so that two appends may be published in the other
order; `overtook` remembers that it happened. One step of a stream handles one
message or one tick.

`conn[s]` is the code's `conn`: `mainV` (the hash of what was last drawn whole,
here the markup itself), what is `dirty`, and a tail for each item that streams.
`page` is the browser: it appends an element, appends text to every element of an
id, or replaces the first, as the stream tells it, and keeps the signal `mainv`,
which its next stream begins with. Text is counted in chunks.

| Actions | Code |
|---|---|
| StartItem, Delta, CompleteItem, ChangeHead, Rewind, PublishAppended | `app.go` 95-, 1408-, 1576-1616, `rewind.go` 94-, `store.go` 262-295 |
| Connect, Disconnect, Draw, DrawWhole | `events.go` 42-84, 207-273 |
| Take, Handle* | `events.go` 90-, 657-833 |
| Flush, Wholes | `events.go` 486-600 |

Left out: the sidebar, the git panel and the other views, which are drawn whole
when they are dirty, and everything about how an item looks.

### Claude

`claude.go`: one session and its CLI process. Send, Interrupt, Resolve and Close
are goroutines of the app, `run` the session's own. A step is a critical section
of `mu`, or what a goroutine does between two points at which it can wait: `wmu`
with a write into a pipe that may be full, `emu` with a channel that may be full,
`dying` and `exited`. Close starts the goroutine that kills the process after it
has closed stdin, as the code does. The process takes lines when it likes,
answers a turn, asks for permissions or for something the adapter does not know,
ends a turn early when it is told to stop, and may exit. `app` is the consumer;
it may stop taking events. History (`told`) is kept of results, of the turns that
Interrupt marked, and of starts told after Closed.

Left out: parsing text and tools (lines that make an event, as others do),
titles and context sizes; SetPermissionMode is a write like the others.

### Worktrees

`CleanWorktrees`, RemoveWorktree, DeleteThread, Rewind, CreateThread, the
checkpoint and session of SendPrompt, and the renaming of branches, with the git
commands they run, for threads that share worktrees. A step is what an operation
does between two reads of something others change (store, registry, disk);
`lock` is `promptMu`. A checkout is what is committed on its branch (`done`), what
git would show as changed or untracked (`open`) and what it ignores (`ignored`),
each as the set of turns that made it: what a removal without force refuses, a
checkpoint keeps and a restore puts back are then set operations. A turn is
numbered when it begins, so that "began after the sweep listed the threads" can be
said. That a thread is due (quiet for days, merged) is a choice; a prompt for a
busy thread is turned away (its queue is in `Turns`); a rename is atomic.

### Terminals

`term/term.go` and the stream and kill requests of `web/term.go`, for one pane
(panes share nothing). `pane` is the map's entry, `due` the shells taken out of it
whose Kill is still to come, `subs[s]` the map of a shell's subscribers, and a
stream carries its channel, how often that was closed, and what the page has
shown (`screen`). Subscribe hands over the scrollback and registers under one
lock; the reader appends a chunk and fans it out under it, closing the channels
of those that lag. Input and sizes only go to the pty.

## 4. The runs

Every run uses the configuration of the same name (`bus` uses `MCBus.cfg`).
Deadlock is not checked (`CHECK_DEADLOCK FALSE`) in any of them: the models bound
how many prompts, sessions, calls, messages, streams and turns there are, and a
system with nothing more to do may stop. That nobody waits for ever is what the
liveness properties, and `NoCallForgotten`, `AskNotForgotten` and
`BusyKeepsCause`, say.

| Run | Instance | What holds |
|---|---|---|
| `bus` | 2 subscribers, a channel of 1, 3 messages in batches of up to 2, readers that may stop | `LossOnlyAfterMarker`, `NoSendOnClosed`, `PublicationOrder`; `OverflowEnds`, `LeaverCloses` |
| `MCTurnsCalm` | 3 prompts, 2 sessions, 1 approval; compaction, cancellation, idle sweep | `TypeOK`, `OneTurn`, `ReapSparesTurns`, `ApprovalHasAgent`; `QueueDrains` |
| `MCTurnsRestart` | 2 prompts, 2 sessions per process, 2 ends of the process; failing turns, exits, cancellation, Stop, Shutdown | `BusyKeepsCause`, `ImplementsQueue` |
| `MCTurnsRequests` | 3 prompts, 2 sessions, a channel of 2, 1 settings change; archive, settings | `OneAgent`, `PromptsInOrder` |
| `MCTurnsArchive` | 1 prompt, 1 session | violates `ArchiveSparesTurns` |
| `MCCodex` | 1 thread, 2 sessions, 3 calls, 1 turn, 1 approval or error | `NoCallForgotten`, `ClosedIsLast`, `HeldIsRouted`, `AnsweredOnce`, `DeathEndsRegistered` |
| `MCEventLog` | 1 prompt, 1 reply, 1 thought, 2 tools (symmetric), 6 events, batches of 1, 1 restart | `ReplayAgreesOnce`, `IndexIsCurrent` |
| `MCPages` | 2 streams, a channel of 1, 3 messages, 1 reply of 2 chunks, 2 changes beside it, rewinds | `RestingPage`, `RestingOrder`; `PageCatchesUp` |
| `MCClaude` | 2 turns, 1 stop, 1 permission, 1 unknown request, pipes and a channel of 1 | `TypeOK`, `AskNotForgotten`, `StopsReported`, `LateStartFails`; `CloseEnds`, `SessionEnds` |
| `MCWorktrees` | 2 threads, 2 turns, 1 sweep, 1 removal, deletion or rewind | `SweepSparesItsThread`, `RemovedUnderLate`, `SweepLosesOnlyLate`, `RewindSparesOthers` |
| `MCWorktreesBranch` | the same, with a title that renames a branch | violates `BranchComesBack` |
| `MCTerminals` | 2 streams, channels of 1, 2 shells of 2 chunks, a scrollback of 1 | `ClosedOnce`, `InSync`, `RunningIsKept`, `ExitShowsAll`; `StreamsEnd` |

Type invariants are checked of the modules whose proofs use that definition, and
as a part of the inductive invariants otherwise.

Why the bounds are enough for what is asked:

- *Bus.* With a channel of one, a second message already overflows, and a third
  one falls before, between and after the two steps of the marker's sender. Two
  subscribers are in different phases under one Publish.
- *Turns.* Two sessions are what a hand-over, a retired session's late Closed and
  a successor's turn need; three prompts are one that runs and two in the queue,
  the least in which order in the queue and a cancellation in it can go wrong
  (`ImplementsQueue` is proved for any number). Two ends of the process are a crash
  and a Recover that fails after it. A channel of 3 holds a turn's events and Closed; one of 2 (`MCTurnsRequests`) is also full at times. The operations are split over the instances (`Ops`) so that those that
  act on the same state meet: the sweep with approvals and prompts, exits and Stop with
  crashes, archive and settings with turns.
- *Codex.* Start, unsubscribe and the successor's start are three calls; so are
  start, turn and interrupt. One turn is announced from both sides; one approval
  meets an answer, a Close and the end of its turn. The proofs lift all of these.
- *EventLog.* Six events are a prompt, a message (its start and two deltas), the
  end of that message and the tool that ends it, or a rewind, a late output or a
  deletion instead; with batches of one, two groups are folded in two
  transactions with appends between them.
- *Pages.* Three messages over a channel of one make an overflow, its marker and a
  message skipped after it; two streams are a reconnect with what the page has;
  two chunks are text before and after a tail begins; two changes beside the
  transcript let it return to an earlier value.
- *Claude.* Two turns are the one a stop is meant for and the one it may hit
  instead. Pipes and a channel of one line fill at the second, so that each writer
  gets to wait. One request of each kind meets every end of a turn.
- *Worktrees.* Two threads are all a worktree needs to be shared, left and joined;
  one turn comes before and one after a read of an operation; one sweep and one
  request run beside both. A second sweep or request meets no state the first does
  not, as each reads anew what it acts on.
- *Terminals.* A second chunk overflows a channel of one and a scrollback of one;
  two shells are one that dies and the one that takes its place; two streams are on
  both, or on one with only one of them lagging.

Two disagreements of the code with what it says are listed as findings in
`PROJECT.json`:

1. **ArchiveThread closes a turn's session** (`app.go:875`): it reads an idle
   thread, a prompt starts a turn, the session is closed with it, and the thread
   stays "running".
2. **A branch that was renamed does not come back** (`app.go:639`): a thread made
   on another's worktree keeps the old name of the branch; when the other is gone
   and the sweep has removed the checkout, the next prompt looks for a branch that
   is not there and runs in the main checkout (against `cleanup.go:110`).

Other places where a comment promises more than the code keeps are the conditions
of properties that hold: each names its exception and shows that there is no
other.

- `LossOnlyAfterMarker`: a message skipped between the push of the marker and the
  clearing of `dropped` may come after the redraw (against `bus.go:63-64`).
- `QueueDrains`: an answer to an approval writes "running" over a thread whose turn
  has ended meanwhile (against `app.go:1184-1185`), and its queue then waits.
- `BusyKeepsCause`: Closed is not always the last event of a claude session (against
  `agent.go:227`). Send looks whether the session is alive (`claude.go:585`) before it
  tells the start of its turn (594); the process may exit, be reaped and Closed be told
  (744) in between. The pump then writes "running" (`app.go:1383`) after the errors of
  Closed and of the failed Send, and the thread stays "running" with no session until
  a Stop or a restart ends it. `LateStart` is exactly that
  step: the pump reads a start that has no Closed behind it any more.
- `DeathEndsRegistered`: a session added to the client after `fail` took the others
  never hears of the end of the process (`codex.go:163`, against 6-7).
- `ReplayAgreesOnce`: an item that was started twice loses text in a replay of a
  compacted log (against `store.go:1353-1355`).
- `RestingPage`: besides the bus's, one redraw too few: the markup is the one that
  was last drawn whole, but patches have changed the page since
  (`events.go:211`, `258`).
- `RestingOrder`: when an append is published before one that was committed earlier
  (`store.go:288-295`), a page has the items in the order it was told of them.
- `StopsReported`: an interrupt written after the next turn began stops that turn,
  which is reported as an error.
- `LateStartFails`: the same in the adapter: the Send whose start comes after Closed
  fails, always.
- `CloseEnds`: Close waits for ever behind a writer stuck in a full stdin pipe; the
  goroutine that would kill the process is started after it.
- `RemovedUnderLate`, `SweepLosesOnlyLate`: a thread that came to share the worktree
  after the sweep listed the threads loses its checkout under its session (against
  `cleanup.go:20-24`), and ignored files of a turn between `Cleanable` and the
  removal are gone with it.
- `ExitShowsAll`: a stream that lagged and whose shell has exited by the time it looks
  is told "exit" with output missing (against `web/term.go:116-118`).

Behaviours that the models reach and no property is about:

- *Turns.* A prompt between SetThreadSettings' close and its append runs, with every
  later turn of that session, on the old settings (`app.go:781`, against 754-756). Like
  an archive, that close may hit a turn that has just begun. A session that a resume
  gave a second turn is swept when the first has ended (166-206).
  The Closed handler of a session that failed and was swept writes idle over its
  successor's turn (1558, against 1567-1568). A prompt starts between ResumeCutOff's
  note and its resume (288, against 273-274). Interrupt, finding no session, writes idle over a
  turn that has just started (1138). One thread whose queued prompt cannot start
  makes Recover fail (266). A queued prompt waits on an idle thread when the session
  of a resume fails to start. A session that dies leaves its approvals pending. A
  Send that fails because Shutdown closed the session writes error over the
  "running" that Recover looks for. With a full channel the pump waits in Send for
  room only it can make, holding `promptMu` (a channel of 256 makes that remote).
- *Codex.* Send sets `turnID` after that turn has completed (`session.go:110`);
  TurnStarted may be told after TurnCompleted (249), and the pump would then write
  "running" over a turn that is over, as with claude's late start; the unsubscribe of a closing
  session may reach the server after its successor's resume (177); an error
  notification and the end of its turn both report it (639).
- *EventLog.* A message resumed after another one replaces its row, and the text in
  it; messages open when the process ends stay "running" and out of the index;
  RemoveProject leaves rows in the index (`store.go:361`, not modelled).
- *Pages.* An item is shown twice when it is in the store at a draw and its "started"
  is still in the channel; the note of a rewind always is on an open page
  (`rewind.go:103`); a chunk may be shown twice until the item is sent whole.
- *Worktrees.* DeleteThread destroys ignored files without asking `Cleanable`
  (840-842). A turn started between RemoveWorktree's check and its close is killed
  and, with force, its work lost. A prompt that read the worktree before a removal
  leaves a session in a checkout the thread no longer has. A rewind undoes the work
  of a thread that shared the worktree, worked and left (1019-1021). A checkpoint is
  taken before its prompt has the lock and may be older than the turn's start. Both
  threads of a worktree stepping off at once leave a checkout nobody owns.
- *Terminals.* A page that lags or loses its connection and comes back after the exit
  gets a fresh shell and is never told. A request in flight at Shutdown may still
  start a shell (`main.go` closes the handler when Serve has returned).

## 5. Fairness

Requests, crashes, exits, publications and what agents, the app-server and browsers
do are never forced; only what the server itself will do is.

- `Turns!FairSpec`: weak fairness of each step that a goroutine of the server can
  take (the operation under `promptMu`, the pumps, the resume after a start, a Close
  that is due); strong fairness of the acquisitions of `promptMu` by the pump and by
  ResumeCutOff, since `sync.Mutex` does not starve a waiter though others take the
  lock again and again; weak fairness of an agent ending the turn it was given and of
  the end of a closed process. The last two are assumptions on the agent: a model
  that thinks for ever keeps its thread busy, and should. `QueueDrains` assumes
  besides that no process exits by itself (the code keeps the queue for the next
  prompt then).
- `Bus!FairSpec`: the publisher's deliveries, the marker's sender (strong where it
  waits for the mutex), the closing of a subscription. Readers are not fair: a page
  may hang. `LeaverCloses` needs no reader; `OverflowEnds` is stated under
  `ReaderFairness`.
- `Pages!PagesFairSpec`: the goroutines of the bus as above, the tick of a stream, and
  the publication of what was committed (strong, as publishers wait for the bus's
  mutex). That a browser reads (`PageReads`) is the hypothesis of `PageCatchesUp`.
- `Claude!FairSpec`: strong fairness per goroutine (each call, Close, run), since each
  waits for mutexes others take again and again; weak fairness of the kill timer and of
  the end of a process that was signalled. Nothing makes the process read, or the app
  take events: `CloseEnds` and `SessionEnds` name what follows when they never do.
- `Terminals!FairSpec`: weak fairness per goroutine: a stream that has its shell, the
  reader, a Kill that has begun. That a shell prints or exits is not assumed; a
  read of the pty fails only once the shell is gone or its pty closed.

`Codex`, `EventLog` and `Worktrees` are checked for safety only; `NoCallForgotten` and
`DeathEndsRegistered` state the ends of their protocols as invariants.

## 6. The proofs

All theorems are proved by TLAPS for every value of the constants that the
modules' assumptions allow (any number of subscribers, sessions, calls, shells and
streams, any capacity, any bounds); those of `Turns` about turns name the
optional operations they hold for, all others hold for any.

**PromptQueueProofs.** `QueueInv` (types, order, nothing lost) is inductive: a new
prompt has a number larger than all others, since those are at most `accepted`
(`Fresh`). One lemma per action.

**TurnsProofs.** `Spec => []IInv` with `IInv == TypeOK /\ LockInv`. Types alone are
not inductive: an operation reads the queue when it takes `promptMu` and acts on
that copy several steps later. `QueueHeld` says that the copy still is the queue
(nobody writes the queue without the lock, and SendPrompt's own prompt is the
only difference), `RoomForPrompt` and `RoomForSettings` carry the bounds checked at
the start of an operation to its append. There is one lemma per group of actions
(start of a turn, handoff, locked requests, pump, agent, free requests, process).
`Implementation` follows: every step maps to one of PromptQueue or to a
stutter; the steps that matter are BeginOldest, BeginNew, Enqueue, QueuePrompt and
CancelQueuedPrompt, and `QueueHeld` is what makes BeginOldest start the oldest.
`PromptsInOrderHold` and `NoPromptLostHolds` transfer the abstract theorems along
that refinement, so they hold across crashes, failed hand-overs and all requests.

`OneAgent` (an open session is the registered one or its Close is due) is inductive
with two additions, `AgentInv`: nothing is registered while an operation is between
"there is none" and the registration of the one it starts (`NoneWhileStarting`; only a
holder of `promptMu` registers a session), and a session whose channel holds Closed is told or
dead, so that a pump that takes it out of the registry on Closed takes out nothing that
works (`SessionInv`).

The second part of `TurnsProofs` has the four properties of what a turn is given and
how it ends. They do not hold of every combination of requests, and their hypotheses say
of which they do: constraints on `Ops` (the optional requests there are) and
`MaxCrashes`, which the runs that check the same properties satisfy. The numbers of
prompts, sessions and approvals are any.

- `Calm` (compaction, cancellation, the idle sweep, approvals; agents that end their
  turns well; no crash) is the hypothesis of `OneTurn`, `ReapSparesTurns` and
  `ApprovalHasAgent`. Without it the code does not keep all three, as TLC shows on small
  instances: an archive or a change of settings closes a session under its turn (the first
  finding of section 4), and so does Shutdown; Interrupt, a resume after a crash, or the
  Closed handler of a session that failed and was swept, writes idle over a turn, and the
  next prompt is then sent into it; a process that exits leaves its approvals pending.
  Under it, `CalmInv` says that at most one session has a turn, the registered one
  (`Working`), and that the turn is in one stage (`Staged`): the agent has it, or its
  end is in the channel, or the pump is in the handoff after it. As long as it is in
  one, the thread is busy and `promptMu` is free, held by that handoff, or held by an
  operation that only queues (`TurnLock`), which is why no request starts another
  turn and the sweep passes the session over. `AskedByTurn` carries the approvals: the
  events of a turn come before its end (`Ordered`), and the handoff denies, in the step
  it settles in, every approval there is, since none can be asked for in between.
- `Unswept` (compaction, cancellation, Stop, turns that fail, processes that exit,
  Shutdown, and any number of crashes) is the hypothesis of `BusyKeepsCause`. Each request
  it leaves out breaks that property, in ways section 4 tells: an archive or a change of
  settings closes the session of a turn, whose Closed then counts for nothing; an answer
  to an approval writes "running" over a turn that has ended; the sweep takes a session
  that a resume gave a second turn, when the first has ended. That a busy thread has a
  cause (`BusyHasCause`) is no invariant of the code, because of the late start; that a
  step never takes the last cause, unless it reads a late start, is the property.
  `CauseInv` says what its proof needs of a state, and nothing of `BusyHasCause`: a
  session is the registered one until its Closed was read (`Lasts`), and as long as it is
  open, each start in its channel is followed by the end of its turn, or a turn is given,
  or Send is about to write one (`LiveSession`); while the server is down, nothing of it is left
  (`Fresh`), and while it recovers, only Recover holds the lock (`Recovers`). The step
  lemmas (`CauseStays`) then find, for each step that ends a cause, the one that takes its
  place: the turn's end goes into the channel, the pump that read it is about to settle,
  Closed follows the process. Crash and Boot are steps like
  the others, so both span any number of lives of the server.

**PagesProofs, the bus.** `NoSendOnClosed`, `DroppedHasSender`, `LossOnlyAfterMarker` from
an invariant that ties `dropped`, the sender and the phase of a subscription together
(`SenderInv`): a publisher owes only connected subscribers, a subscription is closed
only when its sender is gone, and `dropped` is set exactly while there is a sender.
The loss property is the case analysis over where a message is: shown, in the
channel, owed by the publisher, or covered by a redraw that is certain to come.
`PublicationOrder` needs `OrderInv`: what a channel holds is in order, what is owed
is in order, and what is held is older than what is owed (that the lock is held for
the whole of a Publish is what keeps the last one). `Contiguous` is more than order: unless
messages were skipped, those behind the last marker and those owed are consecutive and end
with the last one published, so a reader with no redraw to come has the next message
(`NextMessage`).

**PagesProofs, the page.** Every step of `Pages` is a step of `Bus` or a stutter
(`PagesImplementsBus`), so the theorems of the bus hold here. `StoreInv` is about the table
of items, the appends that wait and the log, and no stream can disturb it. The five
commits are one kind of step for it and for what follows: `Grown` says that each row stays
in its place, gets a chunk or ends, or is new and last, and that the events of the append
tell of each change. What it needs besides types is what an event in the log still says
of the table when a page reads it late (`LogInv`): the text of an item that has ended has
its end behind it, in the log or in an append that waits, and a running item has no end
anywhere.

Neither resting property is inductive, since a page is almost never at rest. `FreshInv`
says of every moment at which no redraw is to come (`Fresh`: none was due, announced or
skipped) that the page `Fits` what is still to come for it, in messages its stream has
not taken or in appends that are not published (`Coming`): its head is the store's
or a change of it is to come; each item of the table is on the page or its "started" is to
come; each element has its item or a "rewound" is to come; an item that has ended is
shown exactly, or is dirty, or its "completed" is to come; and of one that runs, what is
shown, what waits for a tick and the chunks to come (`Deltas`) are at least what the
store has. At rest nothing is to come, which is `RestingPage`. The proof has one lemma per
kind of message (`StartedFits`, `DeltaFits`, `CompletedFits`, `HeadFits`), one for a tick
(`FlushFits`) and one for a redraw (`ExactFits`: a page as the store has it fits
whatever is still to come, also messages that tell it again what it shows), and two
for the store: a commit adds to what is to come as much as it changes (`GrownFits`), and a
publication loses nothing of it (`PublishedFits`). A delta that the reader takes after the
end of its item is where `LogInv` is needed: the end is then still to come.

For `RestingOrder` the invariant carries `Ordered`: each item of the table on the page has
those before it in the table ahead of it. A "started" that is appended keeps this because
those before it are on the page already (`StartsInOrder`), which is where an append
that overtook another would break it.

**CodexProofs.** `IInv` has eight named parts. `CallInv`: a call that waits is in the
map or has its answer; once the client is dead it has one, is owed one by `fail`, or
is not yet written. `LifeInv`: the app drives one session of a thread at a time, and a
session leaves the registry only after it was dropped; that is what makes `RouteInv`
(a held session is registered, or the client is dead and the session has ended or is
on `fail`'s list) survive the Close of a predecessor. `EventsInv`: Closed is the last
event, and the session has ended when it is there. `AskInv`: until it is answered an
approval is in one place only, on the wire, with one session, or with the Close of
one, so whoever answers it is the only one who can. The three types complete it. One
lemma per operation, and under it one step per part that it disturbs. All five
properties of the run follow.

**ClaudeProofs.** `IInv == TypeOK /\ CallInv /\ EndInv`. `CallInv` ties the line
a call has in hand to what the app asked for. `LateStartFails` rests on `EndInv`: Closed
is told only when the process was reaped and stdin closed, a write fails from then on,
and a Send that is on its way has not succeeded yet.
On top of it `TurnsInv` follows a turn through the pipes. A turn is in one place from Send
to the consumer: in the hands of Send, in stdin, with the process, in stdout, on its way
to the channel, or in it (`OnePlace`); and it is the last one that was sent
(`LastTurn`), since the app sends the next only when it has read the end of the one
before. So a result is of the turn the session thinks it is of. An interrupt in hand, in
stdin, in the process or in a result is for a turn the session still has marked, or for
one that is over (`MarkInv`): that is why `StopsReported` holds though Interrupt marks
under one lock and writes under another. `OpenInv` says that stdin and the channel are
open until the session is told to close, so that no answer and no card is dropped before
that; with it `AskNotForgotten` is inductive.

**WorktreesProofs.** `IInv` has eight parts; the main ones say of each operation that
works from something it read what is still true of it when it acts. `SweepInv`: any
other thread at the checkout has a session started after the listing, no turn of the
thread it sweeps is older than that, and what git ignores there is of turns begun since.
`RequestInv` says it of a removal or deletion, from its close and its look on;
`RewindInv` that, as long as a rewind holds `promptMu` with files to put back, no other
thread of the worktree works there and what is there is the rewound thread's.
What makes these inductive is not about the operations: a turn is its thread's and not
older than its session (`TurnInv`), every piece of work anywhere, in checkpoints and
in hand too, is of a turn that has begun, by a thread that had its worktree already
(`ContentInv`), and a thread that is still without one has left nothing (`FreshInv`) -
or a new thread that comes to share a checkout could be the author of what lies there.
The four properties of the run follow at once.

**EventLogProofs.** `ReplayAgreesOnce` and `IndexIsCurrent` speak of what `Applied` and
`Text` compute for logs and batches of any length, so the proofs need induction, and the
library's induction theorems cannot be used here (they take an operator as a parameter).
`Induction` derives it in first-order terms, for a set of numbers: the numbers below m
that the set lacks are finitely many, and the predecessor would map them one to one into
themselves without m. `AppliedRuns` gives from it that the recursive function exists, with
its equations; `AppliedKeeps` (a property of every stage) and `AppliedTwo` (a relation
between two runs, over two logs) are how all later proofs use it.
`IInv` has one main part, `Kept`: the log is `Orderly`, the projections are typed and
`Fits` the log, and a replay `Agrees` with them.

- `Orderly` is what the handlers ensure of the rows: no delta before the start of its
  item, none into the body of a reply that has ended since its start, a prompt's item
  starts once. That the pump ensures it is the second part, `SeenFits`: a message in
  `live.seenMsgs` has a start and has not ended. Both are about the log and the live
  record together, which is where a handler that forgot to close a message would fail.
- `Fits` relates each row to the log: it is of the last start of its item, and done only
  if the log ends it (`RowFits`); the index is that of the rows (`Current`), and no item
  starts in a deleted thread (`InTime`). `NextFits` has one lemma per type of event;
  rows of different items have different seqs (`Apart`), which is what keeps a removal of
  a search row by its seq from hitting another item's.
- A replay before and after a fold is compared row by row, while it runs (`Like`): behind
  the first row of a group the replay of the folded log is *ahead* by the text the
  deltas still to come will say, and has caught up at its last row (`Ahead`, `FoldSays`).
  For an item that was started once this is all: `NextLike` shows that no event can
  tell the difference, as a delta appends and no other event reads the text. A second
  start throws away what was said before it, and with the text moved in front of it that
  is too much: the exception of the property. The index needs no comparison, since both
  replays keep it that of their rows. `FoldKept` concludes; `CommitKept` does the same for an append
  (the first rows of the new log are the old ones, `AppliedOn`), with the case of a
  transaction that fails because the thread is gone.

The last step follows the handlers, one lemma per action. The groups a compaction has
listed need no more than their types: what `FoldKept` shows holds of any groups, also of
ones that were listed before the log grew or was cut.

**TerminalsProofs.** `IInv == TypeInv /\ ShellInv /\ SubsInv`. `ShellInv` ties a shell's
process to its reader and to where it can be found: `RunningIsKept` is a part of it.
`SubsInv` says that the channel of a stream that a shell still knows is open, and
that a stream that is on none has a closed one, which gives `ClosedOnce`. On top of
it `SyncInv` relates what a stream has sent and what waits for it to the shell's
output, chunk by chunk, for `InSync` and `ExitShowsAll`.

The lemmas about Append, Tail and RemoveAt, element by element, are in
`PromptQueueProofs`, which `TurnsProofs` instantiates.

Assumptions: the named ASSUMEs (bounds are natural numbers, capacities are not zero, in
`Pages` a batch holds the two events a new message or a rewind is appended with,
ids of different kinds differ, and no thread or sender has the name of a marker such as
"no directory"), which TLC evaluates in the runs; and `Calm` and `Unswept` above.

Every invariant that a passing run checks is proved. Only model-checked is liveness under
fairness (`QueueDrains`, `OverflowEnds`, `LeaverCloses`, `PageCatchesUp`,
`CloseEnds`, `SessionEnds`, `StreamsEnd`), which is out of the prover's reach.

## 7. Not modelled

More than half of the implementation by lines is generated (`*_templ.go` under
`internal/web/views`): HTML templates without state. Of the rest, what is left out:

- *Reading and rendering*: web handlers, views, search, the queries of the store;
  browser scripts. They change no state. The commands of `internal/web` decode a form
  and call one operation that `Turns`, `Worktrees` or `Terminals` has.
- *Parsing*: what agents and git print, transcripts' text and tools, settings files.
  Sequential, and better served by the unit tests the repository has.
- *Settle and snooze* (`snooze.go`): each operation is a read and one append on a mark
  nothing else depends on. `wakeDue` lists the threads that are due and wakes them one
  by one, so a thread snoozed anew in between is woken (`snooze.go:47`).
- *Pull request poll* (`web/prs.go`): polls that overlap may save an older state over a
  newer one; a crash between SavePRStates and settleMerged leaves a merged thread
  unsettled until the next change; linkByBranch reads and writes in two steps. Labels
  and marks only: no turn and no file depends on them.
- *Limits and usage*: a slow probe stores its result over a newer report
  (`limits.go:94`); a display.
- *Self-update*: files and external commands behind one mutex (a scan may set "behind"
  back to 0 after a pull); what a restart does to threads is Shutdown and Boot of `Turns`.
- *Providers, certificates, key bindings, usage and pricing*: files, external commands
  and arithmetic; no state that two actors share.
- *Projects, drafts, MarkSeen*: one check and one append each.
- *The rest of rewind*: where the agent's conversation is cut, and the draft it leaves.
- *Of the modelled parts*: several threads in `Turns` (they share only `promptMu`, and the
  order in which Recover goes through them); a second codex client after the first died
  (it shares nothing with it); background work and limits of codex.

## 8. Running

    tlc -config MCTurnsCalm.cfg MCTurns.tla
    tlapm TurnsProofs.tla

Each run takes from a second to about two and a half minutes with two workers
(`MCTurnsCalm`, `MCTurnsRequests`, `MCWorktrees` and `MCTerminals` are the longest); the proofs of Codex, Terminals,
Worktrees, Claude, EventLog, Turns and Pages take some minutes each. Definitions marked
"Mutant" in the modules are the changed forms that `PROJECT.json` pairs with the
properties they break; no specification uses them.
