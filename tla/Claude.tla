------------------------------- MODULE Claude -------------------------------
(***************************************************************************)
(* internal/agent/claude/claude.go: one session, a CLI process that speaks *)
(* JSON lines over two pipes.                                              *)
(*                                                                         *)
(* Send, Interrupt, Resolve and Close run in goroutines of the app, run in *)
(* one of its own.  They meet at four places: mu (the state that lines     *)
(* change; a critical section is one step), wmu (held while a line is      *)
(* written to stdin, which blocks when the pipe is full), emu (held while  *)
(* an event waits for room in the channel), and the channels dying and     *)
(* exited.  The process is external: it reads its stdin when it likes and  *)
(* may exit at any time.  Text and tools are left out: to all but the      *)
(* parser they are lines that make an event, as a request or a result is.  *)
(***************************************************************************)
EXTENDS Naturals, Sequences, FiniteSets

CONSTANTS
    EventBuffer,    \* eventBuffer
    PipeSize,       \* lines a pipe holds
    Asks,           \* ids of the control requests that ask for a permission
    Others,         \* ids of the control requests the adapter does not know
    MaxTurns,       \* bound: turns
    MaxStops        \* bound: calls of Interrupt

ASSUME ClaudeAssumption ==
    /\ EventBuffer \in Nat \ {0}
    /\ PipeSize \in Nat \ {0}
    /\ Asks \cap Others = {}
    /\ MaxTurns \in Nat /\ MaxStops \in Nat

Turn == 1..MaxTurns
NoTurn == 0
Nobody == "nobody"
Caller == {"send", "interrupt", "resolve"}

VARIABLES
    cli,        \* the process: up, its turn, stopped (and in which turn Interrupt marked that),
                \* the requests it waits for, those it has made, whether it was signalled
    stdin,      \* lines in the stdin pipe, and whether its write end is open
    stdout,     \* lines in the stdout pipe
    st,         \* state: turnID, interrupted, approvals
    events,     \* the Events channel: what it holds, evClosed
    wmu, emu,   \* who holds the mutex
    dying, exited,
    call,       \* Send, Interrupt and Resolve: pc and the line to write
    close,      \* Close: pc, and the goroutine that waits for killGrace
    run,        \* run: pc, the outbox and the events of the line in hand
    app,        \* the consumer: the turn it takes to be in flight, its cards, turns and stops so far
    told        \* history: results reported, turns an Interrupt marked, Closed emitted,
                \* turns whose start came after Closed, turns whose Send succeeded

cliVars == <<cli, stdin, stdout>>
sessVars == <<st, events, wmu, emu, dying, exited>>
vars == <<cliVars, sessVars, call, close, run, app, told>>

----------------------------------------------------------------------------
Line(k, x) == [kind |-> k, x |-> x]
Quiet == [pc |-> "idle", line |-> Line("none", NoTurn)]

Init ==
    /\ cli = [up |-> TRUE, turn |-> NoTurn, stopped |-> FALSE, mark |-> NoTurn, waits |-> {}, made |-> {},
              signalled |-> FALSE]
    /\ stdin = [lines |-> <<>>, open |-> TRUE]
    /\ stdout = <<>>
    /\ st = [turnID |-> NoTurn, interrupted |-> FALSE, approvals |-> {}]
    /\ events = [buf |-> <<>>, closed |-> FALSE]
    /\ wmu = Nobody /\ emu = Nobody
    /\ dying = FALSE /\ exited = FALSE
    /\ call = [c \in Caller |-> Quiet]
    /\ close = [pc |-> "idle", timer |-> "none"]
    /\ run = [pc |-> "read", outbox |-> <<>>, evs |-> <<>>]
    /\ app = [turn |-> NoTurn, cards |-> {}, turns |-> 0, stops |-> 0]
    /\ told = [results |-> {}, marked |-> {}, closed |-> FALSE, late |-> {}, ok |-> {}]

Alive == ~exited /\ ~dying

----------------------------------------------------------------------------
(***************************************************************************)
(* The process.                                                            *)
(***************************************************************************)
Says(line) ==
    /\ cli.up
    /\ Len(stdout) < PipeSize
    /\ stdout' = Append(stdout, line)
    /\ UNCHANGED <<stdin, sessVars, call, close, run, app, told>>

\* It waits for the answer to a control request.
Requests(id) ==
    /\ id \notin cli.made
    /\ cli.turn # NoTurn /\ ~cli.stopped
    /\ Says(Line(IF id \in Asks THEN "ask" ELSE "other", id))
    /\ cli' = [cli EXCEPT !.waits = @ \cup {id}, !.made = @ \cup {id}]

\* The result of a turn.  A turn that waits ends only when it is stopped.
SaysResult ==
    /\ cli.turn # NoTurn
    /\ cli.waits = {} \/ cli.stopped
    /\ Says([kind |-> "result", x |-> cli.turn, stopped |-> cli.stopped, mark |-> cli.mark])
    /\ cli' = [cli EXCEPT !.turn = NoTurn, !.stopped = FALSE, !.mark = NoTurn, !.waits = {}]

\* It takes a line from stdin: a prompt, an interrupt or an answer.
Takes ==
    LET line == Head(stdin.lines) IN
    /\ cli.up
    /\ stdin.lines # <<>>
    /\ stdin' = [stdin EXCEPT !.lines = Tail(@)]
    /\ cli' = CASE line.kind = "user" -> [cli EXCEPT !.turn = line.x]
                [] line.kind = "interrupt" /\ cli.turn # NoTurn /\ ~cli.stopped
                     -> [cli EXCEPT !.stopped = TRUE, !.mark = line.x]
                [] line.kind = "answer" -> [cli EXCEPT !.waits = @ \ {line.x}]
                [] OTHER -> cli
    /\ UNCHANGED <<stdout, sessVars, call, close, run, app, told>>

\* It exits by itself, at the end of its stdin, or on a signal.
Exits ==
    /\ cli.up
    /\ cli' = [cli EXCEPT !.up = FALSE]
    /\ UNCHANGED <<stdin, stdout, sessVars, call, close, run, app, told>>

----------------------------------------------------------------------------
(***************************************************************************)
(* write: a line goes to stdin under wmu, which is held only as long as    *)
(* the line waits for room in the pipe.                                    *)
(***************************************************************************)
Broken == ~cli.up \/ ~stdin.open

Written(who, line) ==
    /\ wmu \in {Nobody, who}
    /\ ~Broken
    /\ Len(stdin.lines) < PipeSize
    /\ stdin' = [stdin EXCEPT !.lines = Append(@, line)]
    /\ wmu' = Nobody

WriteWaits(who) ==
    /\ wmu = Nobody
    /\ ~Broken
    /\ Len(stdin.lines) >= PipeSize
    /\ wmu' = who
    /\ UNCHANGED stdin

WriteFails(who) ==
    /\ wmu \in {Nobody, who}
    /\ Broken
    /\ wmu' = Nobody
    /\ UNCHANGED stdin

(***************************************************************************)
(* emit: an event goes into the channel under emu.  It waits for room, and *)
(* is dropped if the session dies meanwhile.                               *)
(***************************************************************************)
Full == Len(events.buf) >= EventBuffer
Mine(who) == emu \in {Nobody, who}

\* Mutant: an event never waits for room.
PutUnbounded(who, e) ==
    /\ Mine(who) /\ ~events.closed
    /\ events' = [events EXCEPT !.buf = Append(@, e)]
    /\ emu' = Nobody

Put(who, e) ==
    /\ Mine(who) /\ ~events.closed /\ ~Full
    /\ events' = [events EXCEPT !.buf = Append(@, e)]
    /\ emu' = Nobody

Blocks(who) ==
    /\ emu = Nobody /\ ~events.closed /\ Full
    /\ emu' = who
    /\ UNCHANGED events

\* Mutant: an event waits on while the session dies.
EmitFailsClosedOnly(who) ==
    /\ emu = Nobody /\ events.closed
    /\ emu' = Nobody
    /\ UNCHANGED events

\* The channel is closed, or the session dies while the event waits.
EmitFails(who) ==
    /\ \/ emu = Nobody /\ events.closed
       \/ emu = who /\ dying
    /\ emu' = Nobody
    /\ UNCHANGED events

----------------------------------------------------------------------------
(***************************************************************************)
(* Send.  The app sends when, as far as it knows, no turn is in flight.    *)
(***************************************************************************)
\* Mutant: the turn before is not forgotten.
SendKeepsInterrupted ==
    LET t == app.turns + 1 IN
    /\ call["send"].pc = "idle"
    /\ app.turn = NoTurn /\ t \in Turn
    /\ Alive
    /\ st' = [st EXCEPT !.turnID = t]
    /\ app' = [app EXCEPT !.turn = t, !.turns = t]
    /\ call' = [call EXCEPT !["send"] = [pc |-> "emit", line |-> Line("user", t)]]
    /\ UNCHANGED <<cliVars, events, wmu, emu, dying, exited, close, run, told>>

Send ==
    LET t == app.turns + 1 IN
    /\ call["send"].pc = "idle"
    /\ app.turn = NoTurn /\ t \in Turn
    /\ Alive
    /\ st' = [st EXCEPT !.turnID = t, !.interrupted = FALSE]
    /\ app' = [app EXCEPT !.turn = t, !.turns = t]
    /\ call' = [call EXCEPT !["send"] = [pc |-> "emit", line |-> Line("user", t)]]
    /\ UNCHANGED <<cliVars, events, wmu, emu, dying, exited, close, run, told>>

Return(c) == call' = [call EXCEPT ![c] = Quiet]

SendEmits ==
    LET t == call["send"].line.x IN
    /\ call["send"].pc = "emit"
    /\ \/ /\ Put("send", Line("started", t))
          /\ call' = [call EXCEPT !["send"].pc = "write"]
          /\ told' = IF told.closed THEN [told EXCEPT !.late = @ \cup {t}] ELSE told
          /\ UNCHANGED app
       \/ /\ Blocks("send")
          /\ UNCHANGED <<call, told, app>>
       \/ /\ EmitFails("send")
          /\ Return("send")
          /\ app' = [app EXCEPT !.turn = NoTurn]
          /\ UNCHANGED told
    /\ UNCHANGED <<cliVars, st, wmu, dying, exited, close, run>>

\* Interrupt marks the turn and writes afterwards.
Interrupt ==
    /\ call["interrupt"].pc = "idle"
    /\ app.stops < MaxStops
    /\ Alive
    /\ st' = [st EXCEPT !.interrupted = TRUE]
    /\ app' = [app EXCEPT !.stops = @ + 1]
    /\ told' = [told EXCEPT !.marked = @ \cup {st.turnID}]
    /\ call' = [call EXCEPT !["interrupt"] = [pc |-> "write", line |-> Line("interrupt", st.turnID)]]
    /\ UNCHANGED <<cliVars, events, wmu, emu, dying, exited, close, run>>

Resolve(id) ==
    /\ call["resolve"].pc = "idle"
    /\ id \in app.cards
    /\ Alive
    /\ id \in st.approvals
    /\ st' = [st EXCEPT !.approvals = @ \ {id}]
    /\ call' = [call EXCEPT !["resolve"] = [pc |-> "write", line |-> Line("answer", id)]]
    /\ UNCHANGED <<cliVars, events, wmu, emu, dying, exited, close, run, app, told>>

\* Mutant: the error of a write is not returned.
WritesQuietly(c) ==
    /\ call[c].pc = "write"
    /\ \/ /\ Written(c, call[c].line) \/ WriteFails(c)
          /\ Return(c)
          /\ told' = IF c = "send" THEN [told EXCEPT !.ok = @ \cup {call[c].line.x}] ELSE told
       \/ WriteWaits(c) /\ UNCHANGED <<call, told>>
    /\ UNCHANGED <<cli, stdout, st, events, emu, dying, exited, close, run, app>>

\* The line of a call is written, which ends the call.
Writes(c) ==
    /\ call[c].pc = "write"
    /\ \/ /\ Written(c, call[c].line)
          /\ Return(c)
          /\ told' = IF c = "send" THEN [told EXCEPT !.ok = @ \cup {call[c].line.x}] ELSE told
          /\ UNCHANGED app
       \/ /\ WriteWaits(c)
          /\ UNCHANGED <<call, told, app>>
       \/ /\ WriteFails(c)
          /\ Return(c)
          /\ app' = IF c = "send" THEN [app EXCEPT !.turn = NoTurn] ELSE app
          /\ UNCHANGED told
    /\ UNCHANGED <<cli, stdout, st, events, emu, dying, exited, close, run>>

----------------------------------------------------------------------------
(***************************************************************************)
(* Close.                                                                  *)
(***************************************************************************)
Close ==
    /\ close.pc = "idle"
    /\ dying' = TRUE
    /\ close' = [close EXCEPT !.pc = "lock"]
    /\ UNCHANGED <<cliVars, st, events, wmu, emu, exited, call, run, app, told>>

\* Mutant: nobody waits for killGrace.
CloseWithoutTimer ==
    /\ close.pc = "lock"
    /\ wmu = Nobody
    /\ stdin' = [stdin EXCEPT !.open = FALSE]
    /\ close' = [close EXCEPT !.pc = "wait"]
    /\ UNCHANGED <<cli, stdout, sessVars, call, run, app, told>>

\* stdin is closed under wmu; a goroutine waits for killGrace.
CloseStdin ==
    /\ close.pc = "lock"
    /\ wmu = Nobody
    /\ stdin' = [stdin EXCEPT !.open = FALSE]
    /\ close' = [pc |-> "wait", timer |-> "armed"]
    /\ UNCHANGED <<cli, stdout, sessVars, call, run, app, told>>

\* killGrace is over: the process gets SIGTERM, and SIGKILL if it stays.
Kill ==
    /\ close.timer = "armed"
    /\ close' = [close EXCEPT !.timer = "done"]
    /\ cli' = [cli EXCEPT !.signalled = ~exited]
    /\ UNCHANGED <<stdin, stdout, sessVars, call, run, app, told>>

CloseReturns ==
    /\ close.pc = "wait"
    /\ exited
    /\ close' = [close EXCEPT !.pc = "done"]
    /\ UNCHANGED <<cliVars, sessVars, call, run, app, told>>

----------------------------------------------------------------------------
(***************************************************************************)
(* run and readLoop.                                                       *)
(***************************************************************************)
\* parseLine, under mu: what goes back to the CLI, what is told, and the state.
LineDone(outbox, evs) ==
    [pc |-> IF outbox = <<>> /\ evs = <<>> THEN "read" ELSE "line", outbox |-> outbox, evs |-> evs]
Parsed(outbox, evs) == run' = LineDone(outbox, evs)

ParseAsk(line) ==
    /\ line.kind = "ask"
    /\ st' = [st EXCEPT !.approvals = @ \cup {line.x}]
    /\ Parsed(<<>>, <<line>>)
    /\ UNCHANGED told

\* Mutant: a request the adapter does not know is ignored.
ParseOtherIgnored(line) ==
    /\ line.kind = "other"
    /\ Parsed(<<>>, <<>>)
    /\ UNCHANGED <<st, told>>

\* Anything else must be answered too, or the CLI waits for ever.
ParseOther(line) ==
    /\ line.kind = "other"
    /\ Parsed(<<Line("answer", line.x)>>, <<>>)
    /\ UNCHANGED <<st, told>>

\* parseResult and endTurn.
ParseResult(line) ==
    /\ line.kind = "result"
    /\ Parsed(<<>>, <<Line("completed", st.turnID)>>)
    /\ told' = [told EXCEPT !.results = @ \cup
                   {[turn |-> st.turnID, interrupted |-> st.interrupted, of |-> line.x,
                     stopped |-> line.stopped, mark |-> line.mark]}]
    /\ st' = [turnID |-> NoTurn, interrupted |-> FALSE, approvals |-> {}]

ReadLine ==
    LET line == Head(stdout) IN
    /\ run.pc = "read"
    /\ stdout # <<>>
    /\ stdout' = Tail(stdout)
    /\ ParseAsk(line) \/ ParseOther(line) \/ ParseResult(line)
    /\ UNCHANGED <<cli, stdin, events, wmu, emu, dying, exited, call, close, app>>

\* The outbox first, since the CLI waits for it.
Answer ==
    /\ run.pc = "line" /\ run.outbox # <<>>
    /\ \/ /\ Written("run", Head(run.outbox)) \/ WriteFails("run")
          /\ run' = LineDone(Tail(run.outbox), run.evs)
       \/ WriteWaits("run") /\ UNCHANGED run
    /\ UNCHANGED <<cli, stdout, st, events, emu, dying, exited, call, close, app, told>>

\* Then the events; the loop ends when one cannot be told.
TellEvent ==
    /\ run.pc = "line" /\ run.outbox = <<>>
    /\ \/ /\ Put("run", Head(run.evs))
          /\ run' = LineDone(<<>>, Tail(run.evs))
       \/ Blocks("run") /\ UNCHANGED run
       \/ EmitFails("run") /\ run' = [run EXCEPT !.pc = "reap", !.evs = <<>>]
    /\ UNCHANGED <<cliVars, st, wmu, dying, exited, call, close, app, told>>

\* At the end of the output cmd.Wait returns, and has closed both pipes.
Reap ==
    /\ ~cli.up
    /\ run.pc = "reap" \/ (run.pc = "read" /\ stdout = <<>>)
    /\ exited' = TRUE
    /\ stdin' = [stdin EXCEPT !.open = FALSE]
    /\ stdout' = <<>>
    /\ run' = [run EXCEPT !.pc = "closed"]
    /\ UNCHANGED <<cli, st, events, wmu, emu, dying, call, close, app, told>>

TellClosed ==
    /\ run.pc = "closed"
    /\ \/ /\ Put("run", Line("closed", NoTurn))
          /\ run' = [run EXCEPT !.pc = "close"]
          /\ told' = [told EXCEPT !.closed = TRUE]
       \/ Blocks("run") /\ UNCHANGED <<run, told>>
       \/ EmitFails("run") /\ run' = [run EXCEPT !.pc = "close"] /\ UNCHANGED told
    /\ UNCHANGED <<cliVars, st, wmu, dying, exited, call, close, app>>

CloseEvents ==
    /\ run.pc = "close"
    /\ emu = Nobody
    /\ events' = [events EXCEPT !.closed = TRUE]
    /\ run' = [run EXCEPT !.pc = "done"]
    /\ UNCHANGED <<cliVars, st, wmu, emu, dying, exited, call, close, app, told>>

----------------------------------------------------------------------------
\* The pump of the app takes an event.
Consume ==
    LET e == Head(events.buf) IN
    /\ events.buf # <<>>
    /\ events' = [events EXCEPT !.buf = Tail(@)]
    /\ app' = CASE e.kind = "completed" /\ e.x = app.turn -> [app EXCEPT !.turn = NoTurn]
                [] e.kind = "ask" -> [app EXCEPT !.cards = @ \cup {e.x}]
                [] OTHER -> app
    /\ UNCHANGED <<cliVars, st, wmu, emu, dying, exited, call, close, run, told>>

Process == (\E id \in Asks \cup Others : Requests(id)) \/ SaysResult \/ Takes \/ Exits

Calls ==
    \/ Send \/ SendEmits \/ Interrupt
    \/ \E id \in Asks : Resolve(id)
    \/ \E c \in Caller : Writes(c)

Closing == Close \/ CloseStdin \/ Kill \/ CloseReturns

Run ==
    \/ ReadLine \/ Answer \/ TellEvent
    \/ Reap \/ TellClosed \/ CloseEvents

Next == Process \/ Calls \/ Closing \/ Run \/ Consume

Spec == Init /\ [][Next]_vars

(***************************************************************************)
(* A goroutine that can run does run, and a mutex is given to each that    *)
(* waits for it in the end: strong fairness for each of them.  Timers      *)
(* fire, and a process that was killed is gone.  Nothing obliges the       *)
(* process to read, to answer or to exit, or the app to call anything or   *)
(* to take events.                                                         *)
(***************************************************************************)
CallGoes(c) == Writes(c) \/ (c = "send" /\ SendEmits)

Fairness ==
    /\ \A c \in Caller : SF_vars(CallGoes(c))
    /\ SF_vars(CloseStdin \/ CloseReturns)
    /\ SF_vars(Run)
    /\ WF_vars(Kill)
    /\ WF_vars(cli.signalled /\ Exits)

FairSpec == Spec /\ Fairness

----------------------------------------------------------------------------
InLine == [kind : {"user", "interrupt"}, x : Turn \cup {NoTurn}] \cup [kind : {"answer"}, x : Asks \cup Others]
ResultLine == [kind : {"result"}, x : Turn, stopped : BOOLEAN, mark : Turn \cup {NoTurn}]
OutLine == [kind : {"ask"}, x : Asks] \cup [kind : {"other"}, x : Others] \cup ResultLine
Event == [kind : {"started"}, x : Turn] \cup [kind : {"completed", "closed"}, x : Turn \cup {NoTurn}]
            \cup [kind : {"ask"}, x : Asks]
Result == [turn : Turn \cup {NoTurn}, interrupted : BOOLEAN, of : Turn, stopped : BOOLEAN, mark : Turn \cup {NoTurn}]

ProcessState == [up : BOOLEAN, turn : Turn \cup {NoTurn}, stopped : BOOLEAN, mark : Turn \cup {NoTurn},
                 waits : SUBSET (Asks \cup Others), made : SUBSET (Asks \cup Others), signalled : BOOLEAN]
StdinPipe == [lines : Seq(InLine), open : BOOLEAN]
SessionState == [turnID : Turn \cup {NoTurn}, interrupted : BOOLEAN, approvals : SUBSET Asks]
Channel == {c \in [buf : Seq(Event), closed : BOOLEAN] : Len(c.buf) <= EventBuffer}
CallState == [pc : {"idle", "emit", "write"}, line : InLine \cup {Line("none", NoTurn)}]
CloseState == [pc : {"idle", "lock", "wait", "done"}, timer : {"none", "armed", "done"}]
RunState == [pc : {"read", "line", "reap", "closed", "close", "done"}, outbox : Seq(InLine), evs : Seq(Event)]
AppState == [turn : Turn \cup {NoTurn}, cards : SUBSET Asks, turns : 0..MaxTurns, stops : 0..MaxStops]
History == [results : SUBSET Result, marked : SUBSET (Turn \cup {NoTurn}), closed : BOOLEAN,
            late : SUBSET Turn, ok : SUBSET Turn]

\* Every variable has its type, and the channel holds what it has room for
\* (claude.go:524-561, 897-950).
TypeOK ==
    /\ cli \in ProcessState /\ stdin \in StdinPipe /\ stdout \in Seq(OutLine)
    /\ st \in SessionState /\ events \in Channel
    /\ wmu \in Caller \cup {"run", Nobody} /\ emu \in {"send", "run", Nobody}
    /\ dying \in BOOLEAN /\ exited \in BOOLEAN
    /\ call \in [Caller -> CallState] /\ close \in CloseState /\ run \in RunState
    /\ app \in AppState /\ told \in History

----------------------------------------------------------------------------
In(e, q) == \E n \in 1..Len(q) : q[n].kind = e.kind /\ q[n].x = e.x

OnItsWay(id) ==
    \/ In(Line("answer", id), run.outbox) \/ In(Line("answer", id), stdin.lines)
    \/ \E c \in Caller : call[c].line = Line("answer", id)

ToldApp(id) == id \in app.cards \/ In(Line("ask", id), events.buf) \/ In(Line("ask", id), run.evs)

\* While the session is open, a request the CLI waits for is still to be read,
\* or answered, or its answer is on the way, or a card for it is at the app or
\* on the way to it and can still be answered: the CLI never waits for
\* something nobody will do (claude.go:637-652, 757-764, 1012-1014, 1435-1465).
AskNotForgotten ==
    Alive /\ cli.up /\ ~cli.stopped =>
        \A id \in cli.waits :
            \/ In(Line("ask", id), stdout) \/ In(Line("other", id), stdout)
            \/ OnItsWay(id)
            \/ id \in st.approvals /\ ToldApp(id)

\* A result is reported for the turn it is of.  One that Interrupt brought about
\* is reported as interrupted when Interrupt marked that turn, and only then is
\* a turn reported so (claude.go:584-619, 1001-1014, 1519-1522).
StopsReported ==
    \A r \in told.results :
        /\ r.turn = r.of
        /\ r.stopped /\ r.mark = r.of => r.interrupted
        /\ r.interrupted => r.of \in told.marked

\* Closed is not always the last event: a Send that found the session alive
\* may tell its start after it.  But the Send of that turn fails, so that the
\* app learns of it (claude.go:584-598, 728-746).
LateStartFails == told.late \cap told.ok = {}

WriteStuck == wmu # Nobody /\ cli.up /\ stdin.open /\ Len(stdin.lines) >= PipeSize

\* Close returns, unless a write to a process that does not read keeps it from
\* closing stdin for ever: the goroutine that would kill the process is started
\* only after that (claude.go:655-674, 687-694).
CloseEnds == ((close.pc # "idle") ~> (close.pc = "done")) \/ <>[]WriteStuck

\* A process that is gone closes the events, unless the consumer leaves the
\* channel full for ever while nobody closes the session (claude.go:699-746).
SessionEnds == (~cli.up ~> events.closed) \/ <>[](Full /\ ~dying)
=============================================================================
