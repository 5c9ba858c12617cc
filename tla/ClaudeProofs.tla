---------------------------- MODULE ClaudeProofs ----------------------------
(***************************************************************************)
(* What holds of a session of the claude adapter for any sizes of its      *)
(* channel and pipes and any number of turns, stops and requests.          *)
(***************************************************************************)
EXTENDS Claude, TLAPS

\* What a call has in hand: a line for stdin, and the line of Send is the
\* prompt of the last turn.
CallInv ==
    /\ \A c \in Caller : call[c].pc = "write" => call[c].line \in InLine
    /\ call["send"].pc # "idle" =>
         /\ app.turns \in Turn
         /\ call["send"].line = Line("user", app.turns)

\* A line in hand has something left to answer or to tell.  Once Closed is told
\* the process is reaped and stdin is closed; what was late or succeeded is a
\* turn there was, and a Send that goes on has not succeeded yet.
EndInv ==
    /\ run.pc = "line" => run.outbox # <<>> \/ run.evs # <<>>
    /\ run.pc \in {"closed", "close", "done"} => exited
    /\ told.closed => exited
    /\ exited => ~stdin.open
    /\ told.late # {} => told.closed
    /\ told.late \cup told.ok \subseteq 1..app.turns
    /\ call["send"].pc # "idle" => app.turns \notin told.ok
    /\ LateStartFails

IInv == TypeOK /\ CallInv /\ EndInv

USE DEF Turn, NoTurn, Nobody, Caller, Line

\* Sequences of a set stay so.
LEMMA Tails == ASSUME NEW S, NEW q \in Seq(S), q # <<>> PROVE Head(q) \in S /\ Tail(q) \in Seq(S) /\ Len(Tail(q)) <= Len(q)
  OBVIOUS

LEMMA Appends == ASSUME NEW S, NEW q \in Seq(S), NEW e \in S PROVE Append(q, e) \in Seq(S) /\ Len(Append(q, e)) = Len(q) + 1
  OBVIOUS

\* The initial state satisfies the invariant.
LEMMA Initially == Init => IInv
  <1> SUFFICES ASSUME Init PROVE IInv
    OBVIOUS
  <1>1. cli \in ProcessState /\ stdin \in StdinPipe /\ stdout \in Seq(OutLine)
    BY DEF Init, ProcessState, StdinPipe
  <1>2. st \in SessionState /\ events \in Channel
    BY ClaudeAssumption DEF Init, SessionState, Channel
  <1>3. call \in [Caller -> CallState]
    BY DEF Init, CallState, Quiet
  <1>4. close \in CloseState /\ run \in RunState
    BY DEF Init, CloseState, RunState
  <1>5. app \in AppState /\ told \in History
    BY ClaudeAssumption DEF Init, AppState, History
  <1>6. TypeOK
    BY <1>1, <1>2, <1>3, <1>4, <1>5 DEF Init, TypeOK
  <1>7. CallInv /\ EndInv
    BY DEF Init, CallInv, EndInv, Quiet, LateStartFails
  <1>8. QED
    BY <1>6, <1>7 DEF IInv

\* A step of the process.
LEMMA ProcessStep == IInv /\ Process => IInv'
  <1> SUFFICES ASSUME IInv, Process PROVE IInv'
    OBVIOUS
  <1>0. TypeOK /\ CallInv /\ EndInv
    BY DEF IInv
  <1>1. cli' \in ProcessState /\ stdin' \in StdinPipe /\ stdout' \in Seq(OutLine)
    <2>1. ASSUME NEW id \in Asks \cup Others, Requests(id) PROVE cli' \in ProcessState /\ stdin' \in StdinPipe /\ stdout' \in Seq(OutLine)
      <3>1. Line(IF id \in Asks THEN "ask" ELSE "other", id) \in OutLine
        BY DEF OutLine
      <3>2. stdout' \in Seq(OutLine)
        BY <1>0, <2>1, <3>1, Appends DEF Requests, Says, TypeOK
      <3>3. QED
        BY <1>0, <2>1, <3>2 DEF Requests, Says, TypeOK, ProcessState
    <2>2. CASE SaysResult
      <3>1. cli.turn \in Turn /\ cli.mark \in Turn \cup {NoTurn} /\ cli.stopped \in BOOLEAN
        BY <1>0, <2>2 DEF SaysResult, TypeOK, ProcessState
      <3>2. [kind |-> "result", x |-> cli.turn, stopped |-> cli.stopped, mark |-> cli.mark] \in OutLine
        BY <3>1 DEF OutLine, ResultLine
      <3>3. stdout' \in Seq(OutLine)
        BY <1>0, <2>2, <3>2, Appends DEF SaysResult, Says, TypeOK
      <3>4. QED
        BY <1>0, <2>2, <3>3 DEF SaysResult, Says, TypeOK, ProcessState
    <2>3. CASE Takes
      <3> DEFINE line == Head(stdin.lines)
      <3>1. line \in InLine /\ Tail(stdin.lines) \in Seq(InLine)
        BY <1>0, <2>3, Tails DEF Takes, TypeOK, StdinPipe
      <3>2. line.x \in Turn \cup {NoTurn} \/ line.kind = "answer"
        BY <3>1 DEF InLine
      <3>3. stdin' \in StdinPipe
        BY <1>0, <2>3, <3>1 DEF Takes, TypeOK, StdinPipe
      <3>4. cli' \in ProcessState
        <4> HIDE DEF line
        <4>1. CASE line.kind = "user"
          BY <1>0, <2>3, <3>2, <4>1 DEF Takes, TypeOK, ProcessState, line
        <4>2. CASE line.kind = "interrupt"
          BY <1>0, <2>3, <3>2, <4>2 DEF Takes, TypeOK, ProcessState, line
        <4>3. CASE line.kind \notin {"user", "interrupt"}
          BY <1>0, <2>3, <4>3 DEF Takes, TypeOK, ProcessState, line
        <4>4. QED
          BY <4>1, <4>2, <4>3
      <3>5. QED
        BY <1>0, <2>3, <3>3, <3>4 DEF Takes, TypeOK
    <2>4. CASE Exits
      BY <1>0, <2>4 DEF Exits, TypeOK, ProcessState
    <2>5. QED
      BY <2>1, <2>2, <2>3, <2>4 DEF Process
  <1>2. UNCHANGED <<sessVars, call, close, run, app, told>> /\ stdin'.open = stdin.open
    BY <1>0 DEF Process, Requests, SaysResult, Says, Takes, Exits, TypeOK, StdinPipe
  <1>3. TypeOK'
    BY <1>0, <1>1, <1>2 DEF TypeOK, sessVars
  <1>4. CallInv' /\ EndInv'
    BY <1>0, <1>2 DEF CallInv, EndInv, LateStartFails, sessVars
  <1>5. QED
    BY <1>3, <1>4 DEF IInv

\* An event that is told: emit keeps the channel.
LEMMA PutType == ASSUME TypeOK, NEW who \in {"send", "run"}, NEW e \in Event, Put(who, e)
                 PROVE events' \in Channel /\ emu' = Nobody
  <1>1. events.buf \in Seq(Event) /\ ~Full /\ events.closed = FALSE /\ events \in [buf : Seq(Event), closed : BOOLEAN]
    BY DEF Put, TypeOK, Channel
  <1>2. Append(events.buf, e) \in Seq(Event) /\ Len(Append(events.buf, e)) = Len(events.buf) + 1
    BY <1>1, Appends
  <1>3. Len(events.buf) < EventBuffer
    BY <1>1, ClaudeAssumption DEF Full
  <1>4. events' = [events EXCEPT !.buf = Append(events.buf, e)] /\ emu' = Nobody
    BY DEF Put
  <1>5. events'.buf = Append(events.buf, e) /\ events' \in [buf : Seq(Event), closed : BOOLEAN]
    BY <1>1, <1>2, <1>4
  <1>6. QED
    BY <1>2, <1>3, <1>4, <1>5, ClaudeAssumption DEF Channel

\* A line that is written: write keeps the pipe.
LEMMA WriteType == ASSUME TypeOK, NEW who \in Caller \cup {"run"}, NEW line \in InLine,
                          Written(who, line) \/ WriteWaits(who) \/ WriteFails(who)
                   PROVE stdin' \in StdinPipe /\ wmu' \in Caller \cup {"run", Nobody} /\ stdin'.open = stdin.open
  <1>1. stdin.lines \in Seq(InLine) /\ stdin \in [lines : Seq(InLine), open : BOOLEAN]
    BY DEF TypeOK, StdinPipe
  <1>2. Append(stdin.lines, line) \in Seq(InLine)
    BY <1>1, Appends
  <1>3. QED
    BY <1>1, <1>2 DEF Written, WriteWaits, WriteFails, StdinPipe

LEMMA SendStep == IInv /\ Send => IInv'
  <1> SUFFICES ASSUME IInv, Send PROVE IInv'
    OBVIOUS
  <1> DEFINE t == app.turns + 1
  <1>0. TypeOK /\ CallInv /\ EndInv
    BY DEF IInv
  <1>1. app.turns \in Nat /\ t \in Turn /\ app \in AppState /\ st \in SessionState
    BY <1>0, ClaudeAssumption DEF Send, TypeOK, AppState
  <1>2. st' \in SessionState /\ app' \in AppState /\ app'.turns = t
    <2>1. st' = [st EXCEPT !.turnID = t, !.interrupted = FALSE] /\ app' = [app EXCEPT !.turn = t, !.turns = t]
      BY DEF Send
    <2>2. t \in 0..MaxTurns
      BY <1>1, ClaudeAssumption
    <2>3. st' \in SessionState
      BY <1>1, <2>1 DEF SessionState
    <2>4. app' \in AppState /\ app'.turns = t
      BY <1>1, <2>1, <2>2 DEF AppState
    <2>5. QED
      BY <2>3, <2>4
  <1>3. Line("user", t) \in InLine
    BY <1>1 DEF InLine
  <1>4. call' \in [Caller -> CallState]
    BY <1>0, <1>3 DEF Send, TypeOK, CallState
  <1>5. call'["send"] = [pc |-> "emit", line |-> Line("user", t)] /\ \A c \in Caller \ {"send"} : call'[c] = call[c]
    BY <1>0 DEF Send, TypeOK
  <1>6. TypeOK'
    BY <1>0, <1>2, <1>4 DEF Send, TypeOK, cliVars
  <1>7. CallInv'
    BY <1>0, <1>1, <1>2, <1>3, <1>5 DEF CallInv
  <1>8. UNCHANGED <<told, run, exited, stdin>>
    BY DEF Send, cliVars
  <1>9. EndInv'
    BY <1>0, <1>1, <1>2, <1>8 DEF EndInv, LateStartFails
  <1>10. QED
    BY <1>6, <1>7, <1>9 DEF IInv

LEMMA SendEmitsStep == IInv /\ SendEmits => IInv'
  <1> SUFFICES ASSUME IInv, SendEmits PROVE IInv'
    OBVIOUS
  <1> DEFINE t == call["send"].line.x
  <1>0. TypeOK /\ CallInv /\ EndInv
    BY DEF IInv
  <1>1. t = app.turns /\ t \in Turn /\ call["send"].line \in InLine
    BY <1>0 DEF SendEmits, CallInv, InLine
  <1>2. Line("started", t) \in Event
    BY <1>1 DEF Event
  <1>3. events' \in Channel /\ emu' \in {"send", "run", Nobody}
    BY <1>0, <1>2, PutType DEF SendEmits, Blocks, EmitFails, TypeOK
  <1>4. call' \in [Caller -> CallState] /\ \A c \in Caller \ {"send"} : call'[c] = call[c]
    BY <1>0 DEF SendEmits, TypeOK, CallState, Return, Quiet
  <1>5. app' \in AppState /\ app'.turns = app.turns
    BY <1>0 DEF SendEmits, TypeOK, AppState
  <1>6. told' \in History /\ told'.ok = told.ok /\ told'.closed = told.closed
        /\ (told'.late = told.late \/ (told.closed /\ told'.late = told.late \cup {t}))
    BY <1>0, <1>1 DEF SendEmits, TypeOK, History
  <1>7. TypeOK'
    BY <1>0, <1>3, <1>4, <1>5, <1>6 DEF SendEmits, TypeOK, cliVars
  <1>8. call'["send"] = Quiet \/ (call'["send"].line = call["send"].line /\ call["send"].pc # "idle")
    BY <1>0 DEF SendEmits, TypeOK, CallState, Return
  <1>9. CallInv'
    BY <1>0, <1>1, <1>4, <1>5, <1>8 DEF CallInv, Quiet
  <1>10. told'.late \cup told'.ok \subseteq 1..app.turns
    BY <1>0, <1>1, <1>6 DEF EndInv
  <1>11. app.turns \notin told.ok
    BY <1>0 DEF EndInv, SendEmits
  <1>12. UNCHANGED <<run, exited, stdin>>
    BY DEF SendEmits, cliVars
  <1>13. told'.late \cap told'.ok = {}
    BY <1>0, <1>1, <1>6, <1>11 DEF EndInv, LateStartFails
  <1>14. EndInv'
    BY <1>0, <1>5, <1>6, <1>10, <1>11, <1>12, <1>13 DEF EndInv, LateStartFails
  <1>15. QED
    BY <1>7, <1>9, <1>14 DEF IInv

LEMMA WritesStep == ASSUME IInv, NEW c \in Caller, Writes(c) PROVE IInv'
  <1>0. TypeOK /\ CallInv /\ EndInv
    BY DEF IInv
  <1>1. call[c].line \in InLine /\ (c = "send" => call[c].line.x = app.turns /\ app.turns \in Turn)
    BY <1>0 DEF CallInv, Writes
  <1>2. stdin' \in StdinPipe /\ wmu' \in Caller \cup {"run", Nobody} /\ stdin'.open = stdin.open
    BY <1>0, <1>1, WriteType DEF Writes
  <1>3. call' \in [Caller -> CallState] /\ \A d \in Caller : call'[d] = call[d] \/ call'[d] = Quiet
    BY <1>0 DEF Writes, TypeOK, CallState, Return, Quiet
  <1>4. app' \in AppState /\ app'.turns = app.turns
    BY <1>0 DEF Writes, TypeOK, AppState
  <1>5. told' \in History /\ told'.late = told.late /\ told'.closed = told.closed
        /\ (told'.ok = told.ok \/ (c = "send" /\ stdin.open /\ call'["send"] = Quiet /\ told'.ok = told.ok \cup {app.turns}))
    BY <1>0, <1>1 DEF Writes, Written, Broken, TypeOK, History, Return, CallState
  <1>6. TypeOK'
    BY <1>0, <1>2, <1>3, <1>4, <1>5 DEF Writes, TypeOK
  <1>7. CallInv'
    BY <1>0, <1>3, <1>4 DEF CallInv, Quiet
  <1>8. UNCHANGED <<run, exited>>
    BY DEF Writes
  <1>9. told'.late \cup told'.ok \subseteq 1..app.turns
    BY <1>0, <1>1, <1>5 DEF EndInv
  <1>10. told'.late \cap told'.ok = {}
    BY <1>0, <1>5 DEF EndInv, LateStartFails
  <1>11. call'["send"].pc # "idle" => app.turns \notin told'.ok
    <2>1. CASE told'.ok = told.ok
      BY <1>0, <1>3, <2>1 DEF EndInv, Quiet
    <2>2. CASE told'.ok # told.ok
      BY <1>5, <2>2 DEF Quiet
    <2>3. QED
      BY <2>1, <2>2
  <1>12. EndInv'
    BY <1>0, <1>2, <1>4, <1>5, <1>8, <1>9, <1>10, <1>11 DEF EndInv, LateStartFails
  <1>13. QED
    BY <1>6, <1>7, <1>12 DEF IInv

\* Interrupt and Resolve.
LEMMA RequestStep == ASSUME IInv, Interrupt \/ \E id \in Asks : Resolve(id) PROVE IInv'
  <1>0. TypeOK /\ CallInv /\ EndInv
    BY DEF IInv
  <1>a. st \in SessionState /\ app \in AppState
    BY <1>0 DEF TypeOK
  <1>1. st' \in SessionState
    <2>1. CASE Interrupt
      <3>1. st' = [st EXCEPT !.interrupted = TRUE]
        BY <2>1 DEF Interrupt
      <3>2. QED
        BY <1>a, <3>1 DEF SessionState
    <2>2. ASSUME NEW id \in Asks, Resolve(id) PROVE st' \in SessionState
      <3>1. st' = [st EXCEPT !.approvals = st.approvals \ {id}]
        BY <2>2 DEF Resolve
      <3>2. QED
        BY <1>a, <3>1 DEF SessionState
    <2>3. QED
      BY <2>1, <2>2
  <1>2. app' \in AppState /\ app'.turns = app.turns
    <2>1. CASE Interrupt
      <3>1. app' = [app EXCEPT !.stops = app.stops + 1] /\ app.stops < MaxStops
        BY <2>1 DEF Interrupt
      <3>2. app.stops + 1 \in 0..MaxStops
        BY <1>a, <3>1, ClaudeAssumption DEF AppState
      <3>3. QED
        BY <1>a, <3>1, <3>2 DEF AppState
    <2>2. ASSUME NEW id \in Asks, Resolve(id) PROVE app' = app
      BY <2>2 DEF Resolve
    <2>3. QED
      BY <1>a, <2>1, <2>2
  <1>3. told' \in History /\ told'.late = told.late /\ told'.closed = told.closed /\ told'.ok = told.ok
    BY <1>0 DEF Interrupt, Resolve, TypeOK, History, SessionState
  <1>4. PICK c \in {"interrupt", "resolve"}, line \in InLine : call' = [call EXCEPT ![c] = [pc |-> "write", line |-> line]]
    BY <1>0 DEF Interrupt, Resolve, TypeOK, SessionState, InLine
  <1>5. call' \in [Caller -> CallState] /\ call'["send"] = call["send"]
    BY <1>0, <1>4 DEF TypeOK, CallState
  <1>6. TypeOK'
    BY <1>0, <1>1, <1>2, <1>3, <1>5 DEF Interrupt, Resolve, TypeOK, cliVars
  <1>7. CallInv'
    BY <1>0, <1>2, <1>4, <1>5 DEF CallInv, TypeOK
  <1>8. UNCHANGED <<run, exited, stdin>>
    BY DEF Interrupt, Resolve, cliVars
  <1>9. EndInv'
    BY <1>0, <1>2, <1>3, <1>5, <1>8 DEF EndInv, LateStartFails
  <1>10. QED
    BY <1>6, <1>7, <1>9 DEF IInv

LEMMA ClosingStep == IInv /\ Closing => IInv'
  <1> SUFFICES ASSUME IInv, Closing PROVE IInv'
    OBVIOUS
  <1>0. TypeOK /\ CallInv /\ EndInv
    BY DEF IInv
  <1>a. close \in CloseState /\ dying \in BOOLEAN
    BY <1>0 DEF TypeOK
  <1>1. close' \in CloseState /\ dying' \in BOOLEAN
    <2>1. CASE Close
      BY <1>a, <2>1 DEF Close, CloseState
    <2>2. CASE CloseStdin
      BY <1>a, <2>2 DEF CloseStdin, CloseState, sessVars
    <2>3. CASE Kill
      BY <1>a, <2>3 DEF Kill, CloseState, sessVars
    <2>4. CASE CloseReturns
      BY <1>a, <2>4 DEF CloseReturns, CloseState, sessVars
    <2>5. QED
      BY <2>1, <2>2, <2>3, <2>4 DEF Closing
  <1>2. stdin' \in StdinPipe /\ (stdin'.open => stdin.open)
    BY <1>0 DEF Closing, Close, CloseStdin, Kill, CloseReturns, TypeOK, StdinPipe, cliVars
  <1>3. cli' \in ProcessState
    BY <1>0 DEF Closing, Close, CloseStdin, Kill, CloseReturns, TypeOK, ProcessState, cliVars
  <1>4. UNCHANGED <<stdout, st, events, wmu, emu, exited, call, run, app, told>>
    BY DEF Closing, Close, CloseStdin, Kill, CloseReturns, cliVars, sessVars
  <1>5. TypeOK'
    BY <1>0, <1>1, <1>2, <1>3, <1>4 DEF TypeOK
  <1>6. CallInv' /\ EndInv'
    BY <1>0, <1>2, <1>4 DEF CallInv, EndInv, LateStartFails, TypeOK, StdinPipe
  <1>7. QED
    BY <1>5, <1>6 DEF IInv

\* What a step of run keeps: only the history of results and Closed grow, and
\* Closed only when the process is reaped.
LEMMA RunEnd == ASSUME TypeOK, CallInv, EndInv, UNCHANGED <<call, app>>,
                       told'.late = told.late, told'.ok = told.ok,
                       told.closed => told'.closed, told'.closed => exited',
                       exited => exited', exited' => ~stdin'.open,
                       run'.pc \in {"closed", "close", "done"} => exited',
                       run'.pc = "line" => run'.outbox # <<>> \/ run'.evs # <<>>
                PROVE CallInv' /\ EndInv'
  <1>1. CallInv'
    BY DEF CallInv
  <1>2. EndInv'
    BY DEF EndInv, LateStartFails
  <1>3. QED
    BY <1>1, <1>2

\* The record of a line in hand.
LEMMA LineType == ASSUME NEW o \in Seq(InLine), NEW v \in Seq(Event)
                  PROVE LineDone(o, v) \in RunState /\ LineDone(o, v).pc \in {"read", "line"}
                        /\ (LineDone(o, v).pc = "line" => LineDone(o, v).outbox # <<>> \/ LineDone(o, v).evs # <<>>)
  BY DEF LineDone, RunState

LEMMA ReadLineStep == IInv /\ ReadLine => IInv'
  <1> SUFFICES ASSUME IInv, ReadLine PROVE IInv'
    OBVIOUS
  <1> DEFINE line == Head(stdout)
  <1>0. TypeOK /\ CallInv /\ EndInv
    BY DEF IInv
  <1>1. line \in OutLine /\ stdout' \in Seq(OutLine)
    BY <1>0, Tails DEF ReadLine, TypeOK
  <1>2. st \in SessionState /\ told \in History
    BY <1>0 DEF TypeOK
  <1>3. st' \in SessionState /\ told' \in History /\ told'.late = told.late /\ told'.ok = told.ok
        /\ told'.closed = told.closed /\ \E o \in Seq(InLine), v \in Seq(Event) : run' = LineDone(o, v)
    <2> HIDE DEF line
    <2>0. <<>> \in Seq(InLine) /\ <<>> \in Seq(Event)
      OBVIOUS
    <2>1. CASE ParseAsk(line)
      <3>1. line.x \in Asks /\ line \in Event
        BY <1>1, <2>1 DEF ParseAsk, OutLine, ResultLine, Event
      <3>2. st' \in SessionState
        BY <1>2, <2>1, <3>1 DEF ParseAsk, SessionState
      <3>3. <<line>> \in Seq(Event)
        BY <3>1
      <3>4. QED
        BY <1>2, <2>0, <2>1, <3>2, <3>3 DEF ParseAsk, Parsed
    <2>2. CASE ParseOther(line)
      <3>1. line.x \in Others
        BY <1>1, <2>2 DEF ParseOther, OutLine, ResultLine
      <3>2. <<Line("answer", line.x)>> \in Seq(InLine)
        BY <3>1 DEF InLine
      <3>3. QED
        BY <1>2, <2>0, <2>2, <3>2 DEF ParseOther, Parsed
    <2>3. CASE ParseResult(line)
      <3>1. line \in ResultLine
        BY <1>1, <2>3 DEF ParseResult, OutLine
      <3>2. [turn |-> st.turnID, interrupted |-> st.interrupted, of |-> line.x,
             stopped |-> line.stopped, mark |-> line.mark] \in Result
        BY <1>2, <3>1 DEF ResultLine, Result, SessionState
      <3>3. told' \in History /\ told'.late = told.late /\ told'.ok = told.ok /\ told'.closed = told.closed
        BY <1>2, <2>3, <3>2 DEF ParseResult, History
      <3>4. st' \in SessionState
        BY <2>3 DEF ParseResult, SessionState
      <3>5. <<Line("completed", st.turnID)>> \in Seq(Event)
        BY <1>2 DEF SessionState, Event
      <3>6. QED
        BY <2>0, <2>3, <3>3, <3>4, <3>5 DEF ParseResult, Parsed
    <2>4. QED
      BY <2>1, <2>2, <2>3 DEF ReadLine, line
  <1>4. run' \in RunState /\ run'.pc \in {"read", "line"}
        /\ (run'.pc = "line" => run'.outbox # <<>> \/ run'.evs # <<>>)
    BY <1>3, LineType
  <1>5. TypeOK'
    BY <1>0, <1>1, <1>3, <1>4 DEF ReadLine, TypeOK
  <1>6. UNCHANGED <<call, app, exited, stdin>>
    BY DEF ReadLine
  <1>7. CallInv' /\ EndInv'
    BY <1>0, <1>3, <1>4, <1>6, RunEnd DEF EndInv
  <1>8. QED
    BY <1>5, <1>7 DEF IInv

LEMMA AnswerStep == IInv /\ Answer => IInv'
  <1> SUFFICES ASSUME IInv, Answer PROVE IInv'
    OBVIOUS
  <1>0. TypeOK /\ CallInv /\ EndInv
    BY DEF IInv
  <1>1. run \in RunState /\ Head(run.outbox) \in InLine /\ Tail(run.outbox) \in Seq(InLine) /\ run.evs \in Seq(Event)
    BY <1>0, Tails DEF Answer, TypeOK, RunState
  <1>2. stdin' \in StdinPipe /\ wmu' \in Caller \cup {"run", Nobody} /\ stdin'.open = stdin.open
    BY <1>0, <1>1, WriteType DEF Answer
  <1>3. run' = run \/ run' = LineDone(Tail(run.outbox), run.evs)
    BY DEF Answer
  <1>4. run' \in RunState /\ run'.pc \in {"read", "line"}
        /\ (run'.pc = "line" => run'.outbox # <<>> \/ run'.evs # <<>>)
    BY <1>0, <1>1, <1>3, LineType DEF Answer
  <1>5. TypeOK'
    BY <1>0, <1>2, <1>4 DEF Answer, TypeOK
  <1>6. UNCHANGED <<call, app, exited, told>>
    BY DEF Answer
  <1>7. CallInv' /\ EndInv'
    BY <1>0, <1>2, <1>4, <1>6, RunEnd DEF EndInv
  <1>8. QED
    BY <1>5, <1>7 DEF IInv

LEMMA TellEventStep == IInv /\ TellEvent => IInv'
  <1> SUFFICES ASSUME IInv, TellEvent PROVE IInv'
    OBVIOUS
  <1>0. TypeOK /\ CallInv /\ EndInv
    BY DEF IInv
  <1>1. run \in RunState /\ Head(run.evs) \in Event /\ Tail(run.evs) \in Seq(Event)
    <2>1. run \in RunState /\ run.evs \in Seq(Event) /\ run.evs # <<>>
      BY <1>0 DEF TellEvent, TypeOK, RunState, EndInv
    <2>2. QED
      BY <2>1, Tails
  <1>2. events' \in Channel /\ emu' \in {"send", "run", Nobody}
    BY <1>0, <1>1, PutType DEF TellEvent, Blocks, EmitFails, TypeOK
  <1>3. run' = LineDone(<<>>, Tail(run.evs)) \/ run' = run \/ run' = [run EXCEPT !.pc = "reap", !.evs = <<>>]
    BY DEF TellEvent
  <1>4. run' \in RunState /\ run'.pc \in {"read", "line", "reap"}
        /\ (run'.pc = "line" => run'.outbox # <<>> \/ run'.evs # <<>>)
    <2>1. CASE run' = LineDone(<<>>, Tail(run.evs))
      <3>1. <<>> \in Seq(InLine)
        OBVIOUS
      <3>2. QED
        BY <1>1, <2>1, <3>1, LineType
    <2>2. CASE run' = run
      BY <1>0, <1>1, <2>2 DEF TellEvent, EndInv
    <2>3. CASE run' = [run EXCEPT !.pc = "reap", !.evs = <<>>]
      <3>1. <<>> \in Seq(Event)
        OBVIOUS
      <3>2. run' \in RunState /\ run'.pc = "reap"
        BY <1>1, <2>3, <3>1 DEF RunState
      <3>3. QED
        BY <3>2
    <2>4. QED
      BY <1>3, <2>1, <2>2, <2>3
  <1>5. TypeOK'
    BY <1>0, <1>2, <1>4 DEF TellEvent, TypeOK, cliVars
  <1>6. UNCHANGED <<call, app, exited, told, stdin>>
    BY DEF TellEvent, cliVars
  <1>7. CallInv' /\ EndInv'
    BY <1>0, <1>4, <1>6, RunEnd DEF EndInv
  <1>8. QED
    BY <1>5, <1>7 DEF IInv

\* Reap, TellClosed and CloseEvents.
LEMMA EndingStep == IInv /\ (Reap \/ TellClosed \/ CloseEvents) => IInv'
  <1> SUFFICES ASSUME IInv, Reap \/ TellClosed \/ CloseEvents PROVE IInv'
    OBVIOUS
  <1>0. TypeOK /\ CallInv /\ EndInv
    BY DEF IInv
  <1>1. run \in RunState /\ stdin \in StdinPipe /\ told \in History /\ events \in Channel
    BY <1>0 DEF TypeOK
  <1>2. run' \in RunState /\ run'.pc # "line"
        /\ (run'.pc \in {"closed", "close", "done"} => exited')
    BY <1>0, <1>1 DEF Reap, TellClosed, CloseEvents, RunState, EndInv
  <1>3. stdin' \in StdinPipe /\ (exited' => ~stdin'.open) /\ exited' \in BOOLEAN /\ (exited => exited')
    BY <1>0, <1>1 DEF Reap, TellClosed, CloseEvents, StdinPipe, EndInv, TypeOK, cliVars
  <1>4. told' \in History /\ told'.late = told.late /\ told'.ok = told.ok
        /\ (told.closed => told'.closed) /\ (told'.closed => exited')
    BY <1>0, <1>1 DEF Reap, TellClosed, CloseEvents, History, EndInv
  <1>5. Line("closed", NoTurn) \in Event
    BY DEF Event
  <1>6. events' \in Channel /\ emu' \in {"send", "run", Nobody}
    <2>1. CASE Reap
      BY <1>0, <2>1 DEF Reap, TypeOK
    <2>2. CASE TellClosed
      BY <1>0, <1>5, <2>2, PutType DEF TellClosed, Blocks, EmitFails, TypeOK
    <2>3. CASE CloseEvents
      <3>1. events' = [events EXCEPT !.closed = TRUE] /\ emu' = emu
        BY <2>3 DEF CloseEvents
      <3>2. QED
        BY <1>0, <1>1, <3>1 DEF Channel, TypeOK
    <2>4. QED
      BY <2>1, <2>2, <2>3
  <1>7. stdout' \in Seq(OutLine)
    <2>1. stdout' = stdout \/ stdout' = <<>>
      BY DEF Reap, TellClosed, CloseEvents, cliVars
    <2>2. <<>> \in Seq(OutLine)
      OBVIOUS
    <2>3. QED
      BY <1>0, <2>1, <2>2 DEF TypeOK
  <1>8. UNCHANGED <<cli, st, wmu, dying, call, close, app>>
    BY DEF Reap, TellClosed, CloseEvents, cliVars
  <1>9. TypeOK'
    BY <1>0, <1>2, <1>3, <1>4, <1>6, <1>7, <1>8 DEF TypeOK
  <1>10. CallInv' /\ EndInv'
    BY <1>0, <1>2, <1>3, <1>4, <1>8, RunEnd
  <1>11. QED
    BY <1>9, <1>10 DEF IInv

LEMMA ConsumeStep == IInv /\ Consume => IInv'
  <1> SUFFICES ASSUME IInv, Consume PROVE IInv'
    OBVIOUS
  <1> DEFINE e == Head(events.buf)
  <1>0. TypeOK /\ CallInv /\ EndInv
    BY DEF IInv
  <1>1. events \in Channel /\ app \in AppState
    BY <1>0 DEF TypeOK
  <1>2. events' = [events EXCEPT !.buf = Tail(events.buf)]
    BY DEF Consume
  <1>3. e \in Event /\ Tail(events.buf) \in Seq(Event) /\ Len(Tail(events.buf)) <= Len(events.buf) /\ Len(events.buf) <= EventBuffer
    BY <1>1, Tails DEF Consume, Channel
  <1>4. events' \in Channel
    <2>1. events' \in [buf : Seq(Event), closed : BOOLEAN] /\ events'.buf = Tail(events.buf)
      BY <1>1, <1>2, <1>3 DEF Channel
    <2>2. Len(Tail(events.buf)) \in Nat /\ Len(events.buf) \in Nat
      BY <1>1, <1>3 DEF Channel
    <2>3. QED
      BY <1>3, <2>1, <2>2, ClaudeAssumption DEF Channel
  <1>5. app' \in AppState /\ app'.turns = app.turns
    <2> HIDE DEF e
    <2>1. CASE e.kind = "completed" /\ e.x = app.turn
      BY <1>1, <2>1 DEF Consume, AppState, e
    <2>2. CASE e.kind = "ask"
      <3>1. e.x \in Asks
        BY <1>3, <2>2 DEF Event
      <3>2. QED
        BY <1>1, <2>2, <3>1 DEF Consume, AppState, e
    <2>3. CASE ~(e.kind = "completed" /\ e.x = app.turn) /\ e.kind # "ask"
      BY <1>1, <2>3 DEF Consume, e
    <2>4. QED
      BY <2>1, <2>2, <2>3
  <1>6. TypeOK'
    BY <1>0, <1>4, <1>5 DEF Consume, TypeOK, cliVars
  <1>7. CallInv' /\ EndInv'
    BY <1>0, <1>5 DEF Consume, cliVars, CallInv, EndInv, LateStartFails
  <1>8. QED
    BY <1>6, <1>7 DEF IInv

\* The invariant is inductive.
LEMMA Induction == IInv /\ [Next]_vars => IInv'
  <1> SUFFICES ASSUME IInv, [Next]_vars PROVE IInv'
    OBVIOUS
  <1>1. CASE Process
    BY <1>1, ProcessStep
  <1>2. CASE Calls
    BY <1>2, SendStep, SendEmitsStep, RequestStep, WritesStep DEF Calls
  <1>3. CASE Closing
    BY <1>3, ClosingStep
  <1>4. CASE Run
    BY <1>4, ReadLineStep, AnswerStep, TellEventStep, EndingStep DEF Run
  <1>5. CASE Consume
    BY <1>5, ConsumeStep
  <1>6. CASE UNCHANGED vars
    BY <1>6 DEF vars, cliVars, sessVars, IInv, TypeOK, CallInv, EndInv, LateStartFails
  <1>7. QED
    BY <1>1, <1>2, <1>3, <1>4, <1>5, <1>6 DEF Next

\* The inductive invariant holds of every session (claude.go:564-746).
THEOREM Invariance == Spec => []IInv
  <1>1. Init => IInv
    BY Initially
  <1>2. IInv /\ [Next]_vars => IInv'
    BY Induction
  <1>3. QED
    BY <1>1, <1>2, PTL DEF Spec

\* Every variable has its type and the channel of events never holds more than
\* it has room for (claude.go:524-561, 897-950).
THEOREM TypeCorrect == Spec => []TypeOK
  <1>1. IInv => TypeOK
    BY DEF IInv
  <1>2. QED
    BY <1>1, Invariance, PTL

\* A Send whose start was told after Closed does not succeed: the app, which
\* took the session for gone, never takes that turn for one in flight
\* (claude.go:584-598, 728-746).
THEOREM LateStartsFail == Spec => []LateStartFails
  <1>1. IInv => LateStartFails
    BY DEF IInv, EndInv
  <1>2. QED
    BY <1>1, Invariance, PTL

----------------------------------------------------------------------------
(***************************************************************************)
(* Where a turn is, from Send to the consumer, and who knows what of it:   *)
(* what results are reported and requests answered rests on it.            *)
(***************************************************************************)
Elem(q) == {q[n] : n \in 1..Len(q)}
HasKind(q, k) == \E e \in Elem(q) : e.kind = k
Once(q, k) == \A m, n \in 1..Len(q) : q[m].kind = k /\ q[n].kind = k => m = n

\* The places a turn passes through, from Send to the consumer.
Sending == call["send"].pc # "idle"
Prompted == HasKind(stdin.lines, "user")
Working == cli.turn # NoTurn
Reported == HasKind(stdout, "result")
Ending == HasKind(run.evs, "completed")
Ended == HasKind(events.buf, "completed")

\* It is the last one there was, and in one place.
OnePlace ==
    /\ Sending => ~Prompted /\ ~Working /\ ~Reported /\ ~Ending /\ ~Ended
    /\ Prompted => ~Working /\ ~Reported /\ ~Ending /\ ~Ended
    /\ Working => ~Reported /\ ~Ending /\ ~Ended
    /\ Reported => ~Ending /\ ~Ended
    /\ Ending => ~Ended
    /\ Once(stdin.lines, "user") /\ Once(stdout, "result")
    /\ Once(run.evs, "completed") /\ Once(events.buf, "completed")

LastTurn ==
    /\ Sending \/ Prompted \/ Working \/ Reported \/ Ending \/ Ended
         => app.turn = app.turns /\ app.turns \in Turn
    /\ Sending \/ Prompted \/ Working \/ Reported => st.turnID = app.turns
    /\ \A e \in Elem(stdin.lines) : e.kind = "user" => e.x = app.turns
    /\ Working => cli.turn = app.turns
    /\ \A e \in Elem(stdout) : e.kind = "result" => e.x = app.turns
    /\ \A e \in Elem(run.evs) \cup Elem(events.buf) : e.kind = "completed" => e.x = app.turns
    /\ cli.turn = NoTurn => cli.waits = {}

\* What Interrupt, Resolve, Send, run and Close have in hand.
LineInv ==
    /\ \A c \in Caller : call[c].pc = "idle" => call[c].line.kind = "none"
    /\ call["interrupt"].pc # "idle" => call["interrupt"].line.kind = "interrupt"
    /\ call["resolve"].pc # "idle" => call["resolve"].line.kind = "answer"
    /\ \A c \in Caller : call[c].pc = "emit" => c = "send"
    /\ \A e \in Elem(run.outbox) : e.kind = "answer"
    /\ run.pc = "read" => run.outbox = <<>> /\ run.evs = <<>>
    /\ close.pc = "lock" => dying

\* A turn that Interrupt marked is marked until its result is reported.
Marked(m) == m <= app.turns /\ (m # NoTurn /\ m = st.turnID => st.interrupted)

MarkInv ==
    /\ call["interrupt"].pc # "idle" => Marked(call["interrupt"].line.x)
    /\ \A e \in Elem(stdin.lines) : e.kind = "interrupt" => Marked(e.x)
    /\ cli.stopped => Marked(cli.mark)
    /\ \A e \in Elem(stdout) : e.kind = "result" /\ e.stopped => Marked(e.mark)
    /\ st.turnID <= app.turns
    /\ st.interrupted => st.turnID \in told.marked
    /\ StopsReported

\* Nothing is lost on the way to or from a process while the session is open.
OpenInv ==
    /\ Alive => stdin.open /\ ~events.closed
    /\ AskNotForgotten

TurnsInv == OnePlace /\ LastTurn /\ LineInv /\ MarkInv /\ OpenInv

----------------------------------------------------------------------------
(***************************************************************************)
(* What lies in a sequence after something is put behind it or taken.      *)
(***************************************************************************)
LEMMA ElemAppend ==
    ASSUME NEW S, NEW q \in Seq(S), NEW e
    PROVE  /\ Elem(Append(q, e)) = Elem(q) \cup {e}
           /\ \A k : Once(q, k) /\ (e.kind = k => ~HasKind(q, k)) => Once(Append(q, e), k)
           /\ \A x : In(x, Append(q, e)) <=> In(x, q) \/ (e.kind = x.kind /\ e.x = x.x)
  <1>1. /\ Len(q) \in Nat /\ Len(Append(q, e)) = Len(q) + 1 /\ Append(q, e)[Len(q) + 1] = e
        /\ \A n \in 1..Len(q) : Append(q, e)[n] = q[n]
    OBVIOUS
  <1>2. \A n : n \in 1..Len(Append(q, e)) <=> n \in 1..Len(q) \/ n = Len(q) + 1
    BY <1>1
  <1>3. Elem(Append(q, e)) = Elem(q) \cup {e}
    BY <1>1, <1>2 DEF Elem
  <1>4. ASSUME NEW k, Once(q, k), e.kind = k => ~HasKind(q, k) PROVE Once(Append(q, e), k)
    BY <1>1, <1>2, <1>4 DEF Once, HasKind, Elem
  <1>5. ASSUME NEW x PROVE In(x, Append(q, e)) <=> In(x, q) \/ (e.kind = x.kind /\ e.x = x.x)
    BY <1>1, <1>2 DEF In
  <1>6. QED
    BY <1>3, <1>4, <1>5

LEMMA ElemTail ==
    ASSUME NEW S, NEW q \in Seq(S), q # <<>>
    PROVE  /\ Elem(q) = {Head(q)} \cup Elem(Tail(q))
           /\ \A k : Once(q, k) => Once(Tail(q), k) /\ (Head(q).kind = k => ~HasKind(Tail(q), k))
           /\ \A x : In(x, q) <=> In(x, Tail(q)) \/ (Head(q).kind = x.kind /\ Head(q).x = x.x)
  <1>1. /\ Len(q) \in Nat /\ Len(q) >= 1 /\ Len(Tail(q)) = Len(q) - 1 /\ Head(q) = q[1]
        /\ \A n \in 1..Len(Tail(q)) : Tail(q)[n] = q[n + 1]
    OBVIOUS
  <1>2. /\ \A n \in 1..Len(q) : n = 1 \/ (n - 1 \in 1..Len(Tail(q)) /\ Tail(q)[n - 1] = q[n])
        /\ \A n \in 1..Len(Tail(q)) : n + 1 \in 1..Len(q) /\ n + 1 # 1
        /\ 1 \in 1..Len(q)
    BY <1>1
  <1>3. Elem(q) = {Head(q)} \cup Elem(Tail(q))
    <2>1. ASSUME NEW e \in Elem(q) PROVE e = Head(q) \/ e \in Elem(Tail(q))
      <3>1. PICK n \in 1..Len(q) : e = q[n]
        BY <2>1 DEF Elem
      <3>2. QED
        BY <1>1, <1>2, <3>1 DEF Elem
    <2>2. ASSUME NEW e \in Elem(Tail(q)) PROVE e \in Elem(q)
      <3>1. PICK n \in 1..Len(Tail(q)) : e = Tail(q)[n]
        BY <2>2 DEF Elem
      <3>2. QED
        BY <1>1, <1>2, <3>1 DEF Elem
    <2>3. Head(q) \in Elem(q)
      BY <1>1, <1>2 DEF Elem
    <2>4. QED
      BY <2>1, <2>2, <2>3
  <1>4. ASSUME NEW k, Once(q, k) PROVE Once(Tail(q), k) /\ (Head(q).kind = k => ~HasKind(Tail(q), k))
    <2>1. Once(Tail(q), k)
      <3>1. ASSUME NEW m \in 1..Len(Tail(q)), NEW n \in 1..Len(Tail(q)), Tail(q)[m].kind = k, Tail(q)[n].kind = k PROVE m = n
        <4>1. m + 1 = n + 1
          BY <1>1, <1>2, <1>4, <3>1 DEF Once
        <4>2. QED
          BY <4>1
      <3>2. QED
        BY <3>1 DEF Once
    <2>2. QED
      BY <1>1, <1>2, <1>4, <2>1 DEF Once, HasKind, Elem
  <1>5. ASSUME NEW x PROVE In(x, q) <=> In(x, Tail(q)) \/ (Head(q).kind = x.kind /\ Head(q).x = x.x)
    BY <1>1, <1>2 DEF In
  <1>6. QED
    BY <1>3, <1>4, <1>5

LEMMA ElemFew ==
    /\ Elem(<<>>) = {} /\ (\A k : Once(<<>>, k)) /\ (\A x : ~In(x, <<>>))
    /\ \A e : Elem(<<e>>) = {e} /\ (\A k : Once(<<e>>, k)) /\ In(e, <<e>>)
  BY DEF Elem, Once, In

----------------------------------------------------------------------------
(***************************************************************************)
(* What a step leaves as it is.                                            *)
(***************************************************************************)
LEMMA PlaceSame ==
    ASSUME OnePlace, LastTurn,
           UNCHANGED <<call["send"], stdin.lines, cli.turn, stdout, run.evs, events.buf, app.turn, app.turns, st.turnID>>,
           cli'.waits \subseteq cli.waits \/ cli.turn # NoTurn
    PROVE  OnePlace' /\ LastTurn'
  BY DEF OnePlace, LastTurn, Sending, Prompted, Working, Reported, Ending, Ended

LEMMA MarkSame ==
    ASSUME MarkInv, UNCHANGED <<call["interrupt"], stdin.lines, cli.stopped, cli.mark, stdout, app.turns,
                                st.turnID, st.interrupted, told.marked, told.results>>
    PROVE  MarkInv'
  BY DEF MarkInv, Marked, StopsReported

LEMMA LineSame ==
    ASSUME LineInv, UNCHANGED <<call, run, close, dying>>
    PROVE  LineInv'
  BY DEF LineInv

\* A request that waits is kept, wherever it is.
Kept(id) ==
    \/ In(Line("ask", id), stdout) \/ In(Line("other", id), stdout)
    \/ OnItsWay(id)
    \/ id \in st.approvals /\ ToldApp(id)

LEMMA OpenSame ==
    ASSUME OpenInv, Alive' => Alive, cli'.up => cli.up, cli.stopped => cli'.stopped \/ cli'.waits = {},
           \A id \in cli'.waits : id \in cli.waits, Alive' => stdin'.open /\ ~events'.closed,
           Alive' => \A id \in cli'.waits : Kept(id) => Kept(id)'
    PROVE  OpenInv'
  <1>1. AskNotForgotten <=> (Alive /\ cli.up /\ ~cli.stopped => \A id \in cli.waits : Kept(id))
    BY DEF AskNotForgotten, Kept
  <1>2. AskNotForgotten' <=> (Alive' /\ cli'.up /\ ~cli'.stopped => \A id \in cli'.waits : Kept(id)')
    BY DEF AskNotForgotten, Kept
  <1>3. QED
    BY <1>1, <1>2 DEF OpenInv

----------------------------------------------------------------------------
(***************************************************************************)
(* The process: a turn is taken, asks, and has its result.                 *)
(***************************************************************************)
LEMMA RequestsKeeps ==
  ASSUME IInv, TurnsInv, NEW id \in Asks \cup Others, Requests(id)
  PROVE  TurnsInv'
  <1> DEFINE line == Line(IF id \in Asks THEN "ask" ELSE "other", id)
  <1>0. TypeOK /\ OnePlace /\ LastTurn /\ LineInv /\ MarkInv /\ OpenInv
    BY DEF IInv, TurnsInv
  <1>1. /\ stdout' = Append(stdout, line) /\ stdout \in Seq(OutLine)
        /\ cli.turn # NoTurn /\ cli.up /\ ~cli.stopped /\ cli \in ProcessState
        /\ cli' = [cli EXCEPT !.waits = @ \cup {id}, !.made = @ \cup {id}]
        /\ UNCHANGED <<stdin, st, events, dying, exited, call, close, run, app, told>>
    BY <1>0 DEF Requests, Says, TypeOK, sessVars
  <1>2. /\ cli'.turn = cli.turn /\ cli'.stopped = cli.stopped /\ cli'.mark = cli.mark /\ cli'.up = cli.up
        /\ cli'.waits = cli.waits \cup {id}
    BY <1>1 DEF ProcessState
  <1>3. line.kind \in {"ask", "other"} /\ line.kind # "result" /\ line.x = id
    OBVIOUS
  <1> HIDE DEF line
  <1>4. /\ Elem(stdout') = Elem(stdout) \cup {line} /\ (Once(stdout, "result") => Once(stdout', "result"))
        /\ \A x : In(x, stdout') <=> In(x, stdout) \/ (line.kind = x.kind /\ line.x = x.x)
    BY <1>1, <1>3, ElemAppend
  <1>5. OnePlace' /\ LastTurn'
    BY <1>0, <1>1, <1>2, <1>3, <1>4 DEF OnePlace, LastTurn, Sending, Prompted, Working, Reported, Ending, Ended, HasKind
  <1>6. MarkInv'
    BY <1>0, <1>1, <1>2, <1>3, <1>4 DEF MarkInv, Marked, StopsReported
  <1>7. OpenInv'
    <2>1. \A x \in cli.waits : Kept(x) => Kept(x)'
      BY <1>1, <1>4 DEF Kept, OnItsWay, ToldApp
    <2>2. Kept(id)'
      <3>1. line.kind = "ask" \/ line.kind = "other"
        BY <1>3
      <3>2. In(Line("ask", id), stdout') \/ In(Line("other", id), stdout')
        BY <1>3, <1>4, <3>1
      <3>3. QED
        BY <3>2 DEF Kept
    <2>3. Alive => \A x \in cli.waits : Kept(x)
      BY <1>0, <1>1 DEF OpenInv, AskNotForgotten, Kept
    <2>4. Alive' => \A x \in cli'.waits : Kept(x)'
      BY <1>1, <1>2, <2>1, <2>2, <2>3 DEF Alive
    <2>5. AskNotForgotten'
      BY <2>4 DEF AskNotForgotten, Kept
    <2>6. QED
      BY <1>0, <1>1, <2>5 DEF OpenInv, Alive
  <1>8. QED
    BY <1>0, <1>1, <1>5, <1>6, <1>7, LineSame DEF TurnsInv

LEMMA SaysResultKeeps ==
  ASSUME IInv, TurnsInv, SaysResult
  PROVE  TurnsInv'
  <1> DEFINE line == [kind |-> "result", x |-> cli.turn, stopped |-> cli.stopped, mark |-> cli.mark]
  <1>0. TypeOK /\ OnePlace /\ LastTurn /\ LineInv /\ MarkInv /\ OpenInv
    BY DEF IInv, TurnsInv
  <1>1. /\ stdout' = Append(stdout, line) /\ stdout \in Seq(OutLine)
        /\ cli.turn # NoTurn /\ cli.up /\ cli \in ProcessState
        /\ cli' = [cli EXCEPT !.turn = NoTurn, !.stopped = FALSE, !.mark = NoTurn, !.waits = {}]
        /\ UNCHANGED <<stdin, st, events, dying, exited, call, close, run, app, told>>
    BY <1>0 DEF SaysResult, Says, TypeOK, sessVars
  <1>2. /\ cli'.turn = NoTurn /\ cli'.stopped = FALSE /\ cli'.up = cli.up /\ cli'.waits = {}
    BY <1>1 DEF ProcessState
  <1>3. line.kind = "result" /\ line.x = cli.turn /\ line.stopped = cli.stopped /\ line.mark = cli.mark
    OBVIOUS
  <1>4. Working /\ ~Reported /\ ~Prompted /\ ~Sending /\ ~Ending /\ ~Ended /\ cli.turn = app.turns
    BY <1>0, <1>1 DEF OnePlace, LastTurn, Working
  <1> HIDE DEF line
  <1>5. Elem(stdout') = Elem(stdout) \cup {line} /\ Once(stdout', "result")
    BY <1>0, <1>1, <1>3, <1>4, ElemAppend DEF OnePlace, Reported
  <1>6. ~Working' /\ ~Prompted' /\ ~Sending' /\ ~Ending' /\ ~Ended'
    BY <1>1, <1>2, <1>4 DEF Working, Prompted, Sending, Ending, Ended
  <1>7. OnePlace'
    BY <1>0, <1>1, <1>5, <1>6 DEF OnePlace
  <1>8. LastTurn'
    BY <1>0, <1>1, <1>2, <1>3, <1>4, <1>5, <1>6 DEF LastTurn
  <1>9. MarkInv'
    BY <1>0, <1>1, <1>2, <1>3, <1>5 DEF MarkInv, Marked, StopsReported
  <1>10. OpenInv'
    BY <1>0, <1>1, <1>2, OpenSame DEF Alive, OpenInv
  <1>11. QED
    BY <1>0, <1>1, <1>7, <1>8, <1>9, <1>10, LineSame DEF TurnsInv

\* A prompt begins a turn when there is none; an interrupt stops the turn there
\* is; an answer ends a wait.
LEMMA TakesKeeps ==
  ASSUME IInv, TurnsInv, Takes
  PROVE  TurnsInv'
  <1> DEFINE line == Head(stdin.lines)
  <1>0. TypeOK /\ OnePlace /\ LastTurn /\ LineInv /\ MarkInv /\ OpenInv
    BY DEF IInv, TurnsInv
  <1>1. /\ stdin \in StdinPipe /\ stdin.lines \in Seq(InLine) /\ stdin.lines # <<>> /\ cli \in ProcessState
        /\ stdin' = [stdin EXCEPT !.lines = Tail(stdin.lines)]
        /\ UNCHANGED <<stdout, st, events, dying, exited, call, close, run, app, told>>
    BY <1>0 DEF Takes, TypeOK, StdinPipe, sessVars
  <1>2. stdin'.lines = Tail(stdin.lines) /\ stdin'.open = stdin.open
    BY <1>1 DEF StdinPipe
  <1>3. /\ Elem(stdin.lines) = {line} \cup Elem(stdin'.lines)
        /\ Once(stdin'.lines, "user")
        /\ line.kind = "user" => ~HasKind(stdin'.lines, "user")
        /\ \A x : In(x, stdin.lines) <=> In(x, stdin'.lines) \/ (line.kind = x.kind /\ line.x = x.x)
    BY <1>0, <1>1, <1>2, ElemTail DEF OnePlace
  <1> HIDE DEF line
  <1>4. cli' = CASE line.kind = "user" -> [cli EXCEPT !.turn = line.x]
                 [] line.kind = "interrupt" /\ cli.turn # NoTurn /\ ~cli.stopped
                     -> [cli EXCEPT !.stopped = TRUE, !.mark = line.x]
                 [] line.kind = "answer" -> [cli EXCEPT !.waits = @ \ {line.x}]
                 [] OTHER -> cli
    BY DEF Takes, line
  <1>5. CASE line.kind = "user"
    <2>1. cli' = [cli EXCEPT !.turn = line.x]
      BY <1>4, <1>5
    <2>2. cli'.turn = line.x /\ cli'.stopped = cli.stopped /\ cli'.mark = cli.mark /\ cli'.waits = cli.waits /\ cli'.up = cli.up
      BY <1>1, <2>1 DEF ProcessState
    <2>3. Prompted /\ ~Working /\ ~Reported /\ ~Sending /\ ~Ending /\ ~Ended
      BY <1>0, <1>3, <1>5 DEF OnePlace, Prompted, HasKind
    <2>4. ~Prompted' /\ ~Reported' /\ ~Sending' /\ ~Ending' /\ ~Ended'
      BY <1>1, <1>3, <1>5, <2>3 DEF Prompted, Reported, Sending, Ending, Ended
    <2>5. line.x = app.turns /\ cli.waits = {}
      BY <1>0, <1>3, <1>5, <2>3 DEF LastTurn, Working
    <2>6. OnePlace'
      BY <1>0, <1>1, <1>3, <2>4 DEF OnePlace
    <2>7. LastTurn'
      BY <1>0, <1>1, <1>3, <2>2, <2>3, <2>4, <2>5 DEF LastTurn
    <2>8. MarkInv'
      BY <1>0, <1>1, <1>3, <2>2 DEF MarkInv, Marked, StopsReported
    <2>9. OpenInv'
      BY <1>0, <1>1, <1>2, <2>2, <2>5, OpenSame DEF Alive, OpenInv
    <2>10. QED
      BY <1>0, <1>1, <2>6, <2>7, <2>8, <2>9, LineSame DEF TurnsInv
  <1>6. CASE line.kind # "user"
    <2>1. /\ cli'.turn = cli.turn /\ cli'.up = cli.up
          /\ cli'.waits = cli.waits \/ (line.kind = "answer" /\ cli'.waits = cli.waits \ {line.x})
          /\ \/ cli'.stopped = cli.stopped /\ cli'.mark = cli.mark
             \/ line.kind = "interrupt" /\ cli'.stopped /\ cli'.mark = line.x
      <3>1. CASE line.kind = "interrupt" /\ cli.turn # NoTurn /\ ~cli.stopped
        BY <1>1, <1>4, <3>1 DEF ProcessState
      <3>2. CASE line.kind = "answer"
        BY <1>1, <1>4, <3>2 DEF ProcessState
      <3>3. CASE ~(line.kind = "interrupt" /\ cli.turn # NoTurn /\ ~cli.stopped) /\ line.kind # "answer"
        BY <1>4, <1>6, <3>3
      <3>4. QED
        BY <3>1, <3>2, <3>3
    <2>2. Prompted' <=> Prompted
      BY <1>3, <1>6 DEF Prompted, HasKind
    <2>3. OnePlace'
      BY <1>0, <1>1, <1>3, <2>1, <2>2 DEF OnePlace, Sending, Working, Reported, Ending, Ended
    <2>4. LastTurn'
      BY <1>0, <1>1, <1>3, <2>1, <2>2 DEF LastTurn, Sending, Working, Reported, Ending, Ended
    <2>5. MarkInv'
      BY <1>0, <1>1, <1>3, <2>1 DEF MarkInv, Marked, StopsReported
    <2>6. ASSUME NEW id \in cli'.waits, Kept(id) PROVE Kept(id)'
      <3>1. line.kind = "answer" => line.x # id
        <4>1. CASE line.kind = "answer"
          <5>1. cli'.waits = cli.waits \ {line.x} \/ (cli'.waits = cli.waits /\ line.x \notin cli.waits)
            BY <1>1, <1>4, <4>1 DEF ProcessState
          <5>2. QED
            BY <2>6, <5>1
        <4>2. QED
          BY <4>1
      <3>2. In(Line("answer", id), stdin.lines) => In(Line("answer", id), stdin'.lines)
        BY <1>3, <3>1
      <3>3. QED
        BY <1>1, <2>6, <3>2 DEF Kept, OnItsWay, ToldApp
    <2>7. OpenInv'
      BY <1>0, <1>1, <1>2, <2>1, <2>6, OpenSame DEF Alive, OpenInv
    <2>8. QED
      BY <1>0, <1>1, <2>3, <2>4, <2>5, <2>7, LineSame DEF TurnsInv
  <1>7. QED
    BY <1>5, <1>6

LEMMA ExitsKeeps ==
  ASSUME IInv, TurnsInv, Exits
  PROVE  TurnsInv'
  <1>0. TypeOK /\ OnePlace /\ LastTurn /\ LineInv /\ MarkInv /\ OpenInv
    BY DEF IInv, TurnsInv
  <1>1. /\ cli'.turn = cli.turn /\ cli'.stopped = cli.stopped /\ cli'.mark = cli.mark /\ cli'.waits = cli.waits
        /\ cli'.up = FALSE
        /\ UNCHANGED <<stdin, stdout, st, events, dying, exited, call, close, run, app, told>>
    BY <1>0 DEF Exits, TypeOK, ProcessState, sessVars
  <1>2. OnePlace' /\ LastTurn'
    BY <1>0, <1>1, PlaceSame
  <1>3. MarkInv'
    BY <1>0, <1>1, MarkSame
  <1>4. OpenInv'
    BY <1>0, <1>1 DEF OpenInv, Alive, AskNotForgotten
  <1>5. QED
    BY <1>0, <1>1, <1>2, <1>3, <1>4, LineSame DEF TurnsInv

----------------------------------------------------------------------------
(***************************************************************************)
(* The calls.  A turn that is sent is in no place yet.                     *)
(***************************************************************************)
LEMMA SendKeeps ==
  ASSUME IInv, TurnsInv, Send
  PROVE  TurnsInv'
  <1> DEFINE t == app.turns + 1
  <1>0. TypeOK /\ CallInv /\ OnePlace /\ LastTurn /\ LineInv /\ MarkInv /\ OpenInv
    BY DEF IInv, TurnsInv
  <1>1. /\ call["send"].pc = "idle" /\ app.turn = NoTurn /\ t \in Turn /\ Alive
        /\ st \in SessionState /\ app \in AppState /\ call \in [Caller -> CallState]
        /\ st' = [st EXCEPT !.turnID = t, !.interrupted = FALSE]
        /\ app' = [app EXCEPT !.turn = t, !.turns = t]
        /\ call' = [call EXCEPT !["send"] = [pc |-> "emit", line |-> Line("user", t)]]
        /\ UNCHANGED <<cli, stdin, stdout, events, dying, exited, close, run, told>>
    BY <1>0 DEF Send, TypeOK, cliVars
  <1>2. /\ st'.turnID = t /\ ~st'.interrupted /\ st'.approvals = st.approvals
        /\ app'.turn = t /\ app'.turns = t /\ app'.cards = app.cards
        /\ t \in Nat /\ app.turns \in Nat /\ t = app.turns + 1
    BY <1>1, ClaudeAssumption DEF SessionState, AppState
  <1>3. /\ call'["send"] = [pc |-> "emit", line |-> Line("user", t)]
        /\ \A c \in Caller : c # "send" => call'[c] = call[c]
    BY <1>1
  <1> HIDE DEF t
  <1>4. ~Sending /\ ~Prompted /\ ~Working /\ ~Reported /\ ~Ending /\ ~Ended
    BY <1>0, <1>1 DEF LastTurn, Sending
  <1>5. Sending' /\ ~Prompted' /\ ~Working' /\ ~Reported' /\ ~Ending' /\ ~Ended'
    BY <1>1, <1>3, <1>4 DEF Sending, Prompted, Working, Reported, Ending, Ended
  <1>6. OnePlace'
    BY <1>0, <1>1, <1>5 DEF OnePlace
  <1>7. LastTurn'
    BY <1>0, <1>1, <1>2, <1>5 DEF LastTurn, Prompted, Working, Reported, Ending, Ended, HasKind
  <1>8. LineInv'
    BY <1>0, <1>1, <1>3 DEF LineInv
  <1>9. MarkInv'
    <2>1. ASSUME NEW m \in Nat, Marked(m) PROVE m <= app'.turns /\ m # st'.turnID
      BY <1>2, <2>1 DEF Marked
    <2>2. call["interrupt"].pc # "idle" => call["interrupt"].line.x \in Nat
      <3>1. call["interrupt"].pc # "idle" => call["interrupt"].line \in InLine /\ call["interrupt"].line.kind = "interrupt"
        BY <1>0, <1>1 DEF CallInv, LineInv, CallState
      <3>2. QED
        BY <3>1 DEF InLine
    <2>3. \A e \in Elem(stdin.lines) : e.kind = "interrupt" => e.x \in Nat
      <3>1. stdin.lines \in Seq(InLine)
        BY <1>0 DEF TypeOK, StdinPipe
      <3>2. QED
        BY <3>1 DEF Elem, InLine
    <2>4. cli.mark \in Nat
      BY <1>0 DEF TypeOK, ProcessState
    <2>5. \A e \in Elem(stdout) : e.kind = "result" => e.mark \in Nat
      <3>1. stdout \in Seq(OutLine)
        BY <1>0 DEF TypeOK
      <3>2. QED
        BY <3>1 DEF Elem, OutLine, ResultLine
    <2>6. call'["interrupt"].pc # "idle" => Marked(call["interrupt"].line.x)'
      BY <1>0, <1>3, <2>1, <2>2 DEF MarkInv, Marked
    <2>7. \A e \in Elem(stdin.lines)' : e.kind = "interrupt" => Marked(e.x)'
      BY <1>0, <1>1, <2>1, <2>3 DEF MarkInv, Marked
    <2>8. cli'.stopped => Marked(cli.mark)'
      BY <1>0, <1>1, <2>1, <2>4 DEF MarkInv, Marked
    <2>9. \A e \in Elem(stdout)' : e.kind = "result" /\ e.stopped => Marked(e.mark)'
      BY <1>0, <1>1, <2>1, <2>5 DEF MarkInv, Marked
    <2>10. StopsReported'
      BY <1>0, <1>1 DEF MarkInv, StopsReported
    <2>11. QED
      BY <1>2, <2>6, <2>7, <2>8, <2>9, <2>10 DEF MarkInv
  <1>10. OpenInv'
    <2>1. ASSUME NEW id, Kept(id) PROVE Kept(id)'
      BY <1>0, <1>1, <1>2, <1>3, <2>1 DEF Kept, OnItsWay, ToldApp, LineInv
    <2>2. QED
      BY <1>0, <1>1, <2>1, OpenSame DEF Alive, OpenInv
  <1>11. QED
    BY <1>6, <1>7, <1>8, <1>9, <1>10 DEF TurnsInv

\* An event is dropped only by a session that is not open any more.
LEMMA EmitFailsClosed == ASSUME OpenInv, NEW who, EmitFails(who) PROVE ~Alive
  BY DEF OpenInv, EmitFails, Alive

LEMMA SendEmitsKeeps ==
  ASSUME IInv, TurnsInv, SendEmits
  PROVE  TurnsInv'
  <1> DEFINE t == call["send"].line.x
             e == Line("started", t)
  <1>0. TypeOK /\ CallInv /\ OnePlace /\ LastTurn /\ LineInv /\ MarkInv /\ OpenInv
    BY DEF IInv, TurnsInv
  <1>1. /\ call["send"].pc = "emit" /\ Sending
        /\ app \in AppState /\ call \in [Caller -> CallState] /\ events \in Channel /\ told \in History
        /\ UNCHANGED <<cli, stdin, stdout, st, dying, exited, close, run>>
    BY <1>0 DEF SendEmits, TypeOK, cliVars, Sending
  <1>2. told'.marked = told.marked /\ told'.results = told.results
    BY <1>1 DEF SendEmits, History
  <1>3. CASE Put("send", e) /\ call' = [call EXCEPT !["send"].pc = "write"] /\ UNCHANGED app
    <2>1. events' = [events EXCEPT !.buf = Append(events.buf, e)] /\ events.buf \in Seq(Event)
      BY <1>1, <1>3 DEF Put, Channel
    <2>2. events'.buf = Append(events.buf, e) /\ events'.closed = events.closed
      BY <1>1, <2>1 DEF Channel
    <2>3. e.kind = "started"
      OBVIOUS
    <2> HIDE DEF e
    <2>4. /\ Elem(events'.buf) = Elem(events.buf) \cup {e}
          /\ Once(events.buf, "completed") => Once(events'.buf, "completed")
          /\ \A x : In(x, events'.buf) <=> In(x, events.buf) \/ (e.kind = x.kind /\ e.x = x.x)
      BY <2>1, <2>2, <2>3, ElemAppend
    <2>5. /\ call'["send"].pc = "write" /\ call'["send"].line = call["send"].line
          /\ \A c \in Caller : c # "send" => call'[c] = call[c]
      BY <1>1, <1>3 DEF CallState
    <2>6. (Sending' <=> Sending) /\ (Ended' <=> Ended)
      BY <1>1, <2>3, <2>4, <2>5 DEF Sending, Ended, HasKind
    <2>7. OnePlace'
      BY <1>0, <1>1, <2>4, <2>6 DEF OnePlace, Prompted, Working, Reported, Ending
    <2>8. LastTurn'
      BY <1>0, <1>1, <1>3, <2>3, <2>4, <2>6 DEF LastTurn, Prompted, Working, Reported, Ending
    <2>9. LineInv'
      BY <1>0, <1>1, <2>5 DEF LineInv
    <2>10. MarkInv'
      BY <1>0, <1>1, <1>2, <1>3, <2>5, MarkSame
    <2>11. ASSUME NEW id, Kept(id) PROVE Kept(id)'
      BY <1>0, <1>1, <1>3, <2>4, <2>5, <2>11 DEF Kept, OnItsWay, ToldApp
    <2>12. OpenInv'
      BY <1>0, <1>1, <2>2, <2>11, OpenSame DEF Alive, OpenInv
    <2>13. QED
      BY <2>7, <2>8, <2>9, <2>10, <2>12 DEF TurnsInv
  <1>4. CASE Blocks("send") /\ UNCHANGED <<call, told, app>>
    <2>1. UNCHANGED events
      BY <1>4 DEF Blocks
    <2>2. OnePlace' /\ LastTurn'
      BY <1>0, <1>1, <1>4, <2>1, PlaceSame
    <2>3. MarkInv' /\ LineInv'
      BY <1>0, <1>1, <1>4, MarkSame, LineSame
    <2>4. \A id : Kept(id) => Kept(id)'
      BY <1>1, <1>4, <2>1 DEF Kept, OnItsWay, ToldApp
    <2>5. OpenInv'
      BY <1>0, <1>1, <2>1, <2>4, OpenSame DEF Alive, OpenInv
    <2>6. QED
      BY <2>2, <2>3, <2>5 DEF TurnsInv
  <1>5. CASE EmitFails("send") /\ Return("send") /\ app' = [app EXCEPT !.turn = NoTurn]
    <2>1. ~Alive /\ UNCHANGED events
      BY <1>0, <1>5, EmitFailsClosed DEF EmitFails
    <2>2. /\ call'["send"] = Quiet
          /\ \A c \in Caller : c # "send" => call'[c] = call[c]
      BY <1>1, <1>5 DEF Return
    <2>3. app'.turns = app.turns
      BY <1>1, <1>5 DEF AppState
    <2>4. ~Sending' /\ ~Prompted' /\ ~Working' /\ ~Reported' /\ ~Ending' /\ ~Ended'
      BY <1>0, <1>1, <2>1, <2>2 DEF OnePlace, Sending, Prompted, Working, Reported, Ending, Ended, Quiet
    <2>5. OnePlace'
      BY <1>0, <1>1, <2>1, <2>4 DEF OnePlace
    <2>6. LastTurn'
      BY <1>0, <1>1, <2>1, <2>3, <2>4 DEF LastTurn
    <2>7. LineInv'
      BY <1>0, <1>1, <2>2 DEF LineInv, Quiet
    <2>8. MarkInv'
      BY <1>0, <1>1, <1>2, <2>2, <2>3, MarkSame
    <2>9. OpenInv'
      BY <1>1, <2>1 DEF OpenInv, Alive, AskNotForgotten
    <2>10. QED
      BY <2>5, <2>6, <2>7, <2>8, <2>9 DEF TurnsInv
  <1>6. QED
    BY <1>3, <1>4, <1>5 DEF SendEmits

LEMMA InterruptKeeps ==
  ASSUME IInv, TurnsInv, Interrupt
  PROVE  TurnsInv'
  <1>0. TypeOK /\ CallInv /\ OnePlace /\ LastTurn /\ LineInv /\ MarkInv /\ OpenInv
    BY DEF IInv, TurnsInv
  <1>1. /\ call["interrupt"].pc = "idle"
        /\ st \in SessionState /\ app \in AppState /\ call \in [Caller -> CallState] /\ told \in History
        /\ st' = [st EXCEPT !.interrupted = TRUE]
        /\ app' = [app EXCEPT !.stops = @ + 1]
        /\ told' = [told EXCEPT !.marked = @ \cup {st.turnID}]
        /\ call' = [call EXCEPT !["interrupt"] = [pc |-> "write", line |-> Line("interrupt", st.turnID)]]
        /\ UNCHANGED <<cli, stdin, stdout, events, dying, exited, close, run>>
    BY <1>0 DEF Interrupt, TypeOK, cliVars
  <1>2. /\ st'.turnID = st.turnID /\ st'.interrupted /\ st'.approvals = st.approvals
        /\ app'.turn = app.turn /\ app'.turns = app.turns /\ app'.cards = app.cards
        /\ told'.marked = told.marked \cup {st.turnID} /\ told'.results = told.results
    BY <1>1 DEF SessionState, AppState, History
  <1>3. /\ call'["interrupt"] = [pc |-> "write", line |-> Line("interrupt", st.turnID)]
        /\ \A c \in Caller : c # "interrupt" => call'[c] = call[c]
    BY <1>1
  <1>4. OnePlace' /\ LastTurn'
    BY <1>0, <1>1, <1>2, <1>3, PlaceSame
  <1>5. LineInv'
    BY <1>0, <1>1, <1>3 DEF LineInv
  <1>6. MarkInv'
    <2>1. st.turnID <= app.turns
      BY <1>0 DEF MarkInv
    <2>2. Marked(st.turnID)'
      BY <1>2, <2>1 DEF Marked
    <2>3. ASSUME NEW m, Marked(m) PROVE Marked(m)'
      BY <1>2, <2>3 DEF Marked
    <2>4. call'["interrupt"].pc # "idle" => Marked(call["interrupt"].line.x)'
      BY <1>2, <1>3, <2>1 DEF Marked
    <2>5. \A x \in Elem(stdin.lines)' : x.kind = "interrupt" => Marked(x.x)'
      BY <1>0, <1>1, <2>3 DEF MarkInv
    <2>6. cli'.stopped => Marked(cli.mark)'
      BY <1>0, <1>1, <1>2 DEF MarkInv, Marked
    <2>7. \A x \in Elem(stdout)' : x.kind = "result" /\ x.stopped => Marked(x.mark)'
      BY <1>0, <1>1, <1>2 DEF MarkInv, Marked
    <2>8. StopsReported'
      BY <1>0, <1>2 DEF MarkInv, StopsReported
    <2>9. QED
      BY <1>1, <1>2, <2>1, <2>4, <2>5, <2>6, <2>7, <2>8 DEF MarkInv
  <1>7. OpenInv'
    <2>1. ASSUME NEW id, Kept(id) PROVE Kept(id)'
      BY <1>0, <1>1, <1>2, <1>3, <2>1 DEF Kept, OnItsWay, ToldApp, LineInv
    <2>2. QED
      BY <1>0, <1>1, <2>1, OpenSame DEF Alive, OpenInv
  <1>8. QED
    BY <1>4, <1>5, <1>6, <1>7 DEF TurnsInv

\* The answer is on its way once the request is not an open approval any more.
LEMMA ResolveKeeps ==
  ASSUME IInv, TurnsInv, NEW id \in Asks, Resolve(id)
  PROVE  TurnsInv'
  <1>0. TypeOK /\ CallInv /\ OnePlace /\ LastTurn /\ LineInv /\ MarkInv /\ OpenInv
    BY DEF IInv, TurnsInv
  <1>1. /\ call["resolve"].pc = "idle"
        /\ st \in SessionState /\ call \in [Caller -> CallState]
        /\ st' = [st EXCEPT !.approvals = @ \ {id}]
        /\ call' = [call EXCEPT !["resolve"] = [pc |-> "write", line |-> Line("answer", id)]]
        /\ UNCHANGED <<cli, stdin, stdout, events, dying, exited, close, run, app, told>>
    BY <1>0 DEF Resolve, TypeOK, cliVars
  <1>2. st'.turnID = st.turnID /\ st'.interrupted = st.interrupted /\ st'.approvals = st.approvals \ {id}
    BY <1>1 DEF SessionState
  <1>3. /\ call'["resolve"] = [pc |-> "write", line |-> Line("answer", id)]
        /\ \A c \in Caller : c # "resolve" => call'[c] = call[c]
    BY <1>1
  <1>4. OnePlace' /\ LastTurn'
    BY <1>0, <1>1, <1>2, <1>3, PlaceSame
  <1>5. LineInv'
    BY <1>0, <1>1, <1>3 DEF LineInv
  <1>6. MarkInv'
    BY <1>0, <1>1, <1>2, <1>3, MarkSame
  <1>7. OpenInv'
    <2>1. ASSUME NEW x, Kept(x), x # id PROVE Kept(x)'
      BY <1>0, <1>1, <1>2, <1>3, <2>1 DEF Kept, OnItsWay, ToldApp, LineInv
    <2>2. Kept(id)'
      <3>1. call'["resolve"].line = Line("answer", id)
        BY <1>3
      <3>2. OnItsWay(id)'
        BY <3>1 DEF OnItsWay
      <3>3. QED
        BY <3>2 DEF Kept
    <2>3. QED
      BY <1>0, <1>1, <2>1, <2>2, OpenSame DEF Alive, OpenInv
  <1>8. QED
    BY <1>4, <1>5, <1>6, <1>7 DEF TurnsInv

\* A line is refused only when the process is gone or the session is not open.
LEMMA WriteFailsClosed == ASSUME OpenInv, NEW who, WriteFails(who) PROVE ~(Alive /\ cli.up)
  BY DEF OpenInv, WriteFails, Broken

\* What a line adds to stdin when it is written.
LEMMA WrittenAdds ==
  ASSUME TypeOK, NEW who, NEW line, Written(who, line)
  PROVE  /\ Elem(stdin'.lines) = Elem(stdin.lines) \cup {line}
         /\ Once(stdin.lines, "user") /\ (line.kind = "user" => ~Prompted) => Once(stdin'.lines, "user")
         /\ \A x : In(x, stdin'.lines) <=> In(x, stdin.lines) \/ (line.kind = x.kind /\ line.x = x.x)
         /\ Prompted' <=> Prompted \/ line.kind = "user"
         /\ stdin'.open = stdin.open
  <1>1. /\ stdin.lines \in Seq(InLine) /\ stdin \in StdinPipe
        /\ stdin' = [stdin EXCEPT !.lines = Append(stdin.lines, line)]
    BY DEF TypeOK, StdinPipe, Written
  <1>2. stdin'.lines = Append(stdin.lines, line) /\ stdin'.open = stdin.open
    BY <1>1 DEF StdinPipe
  <1>3. /\ Elem(stdin'.lines) = Elem(stdin.lines) \cup {line}
        /\ Once(stdin.lines, "user") /\ (line.kind = "user" => ~HasKind(stdin.lines, "user")) => Once(stdin'.lines, "user")
        /\ \A x : In(x, stdin'.lines) <=> In(x, stdin.lines) \/ (line.kind = x.kind /\ line.x = x.x)
    BY <1>1, <1>2, ElemAppend
  <1>4. Prompted' <=> Prompted \/ line.kind = "user"
    BY <1>3 DEF Prompted, HasKind
  <1>5. QED
    BY <1>2, <1>3, <1>4 DEF Prompted

LEMMA WritesKeeps ==
  ASSUME IInv, TurnsInv, NEW c \in Caller, Writes(c)
  PROVE  TurnsInv'
  <1> DEFINE line == call[c].line
  <1>0. TypeOK /\ CallInv /\ OnePlace /\ LastTurn /\ LineInv /\ MarkInv /\ OpenInv
    BY DEF IInv, TurnsInv
  <1>1. /\ call[c].pc = "write" /\ app \in AppState /\ call \in [Caller -> CallState] /\ told \in History
        /\ UNCHANGED <<cli, stdout, st, events, dying, exited, close, run>>
    BY <1>0 DEF Writes, TypeOK
  <1>2. /\ told'.marked = told.marked /\ told'.results = told.results
        /\ app'.turns = app.turns /\ app'.cards = app.cards
    BY <1>1 DEF Writes, History, AppState
  <1>3. /\ c = "send" => line.kind = "user" /\ line.x = app.turns /\ Sending
        /\ c = "interrupt" => line.kind = "interrupt" /\ Marked(line.x)
        /\ c = "resolve" => line.kind = "answer"
    BY <1>0, <1>1 DEF CallInv, LineInv, MarkInv, Sending
  <1> HIDE DEF line
  <1>4. CASE Written(c, line) /\ Return(c) /\ UNCHANGED app
    <2>1. /\ Elem(stdin'.lines) = Elem(stdin.lines) \cup {line}
          /\ Once(stdin.lines, "user") /\ (line.kind = "user" => ~Prompted) => Once(stdin'.lines, "user")
          /\ \A x : In(x, stdin'.lines) <=> In(x, stdin.lines) \/ (line.kind = x.kind /\ line.x = x.x)
          /\ Prompted' <=> Prompted \/ line.kind = "user"
          /\ stdin'.open = stdin.open
      BY <1>0, <1>4, WrittenAdds
    <2>2. call'[c] = Quiet /\ \A d \in Caller : d # c => call'[d] = call[d]
      BY <1>1, <1>4 DEF Return
    <2>3. IF c = "send" THEN Sending /\ ~Sending' /\ Prompted' ELSE (Sending' <=> Sending) /\ (Prompted' <=> Prompted)
      BY <1>1, <1>3, <2>1, <2>2 DEF Sending, Quiet
    <2>4. UNCHANGED <<Working, Reported, Ending, Ended>>
      BY <1>1 DEF Working, Reported, Ending, Ended
    <2>5. Once(stdin'.lines, "user")
      BY <1>0, <1>3, <2>1 DEF OnePlace
    <2>6. OnePlace'
      BY <1>0, <1>1, <2>3, <2>4, <2>5 DEF OnePlace
    <2>7. LastTurn'
      BY <1>0, <1>1, <1>3, <1>4, <2>1, <2>3, <2>4 DEF LastTurn
    <2>8. LineInv'
      BY <1>0, <1>1, <2>2 DEF LineInv, Quiet
    <2>9. MarkInv'
      BY <1>0, <1>1, <1>2, <1>3, <1>4, <2>1, <2>2 DEF MarkInv, Marked, StopsReported, Quiet
    <2>10. ASSUME NEW id, Kept(id) PROVE Kept(id)'
      <3>1. ASSUME NEW d \in Caller, call[d].line = Line("answer", id) PROVE OnItsWay(id)'
        <4>1. CASE d = c
          BY <2>1, <3>1, <4>1 DEF OnItsWay, line
        <4>2. CASE d # c
          BY <2>2, <3>1, <4>2 DEF OnItsWay
        <4>3. QED
          BY <4>1, <4>2
      <3>2. OnItsWay(id) => OnItsWay(id)'
        BY <1>1, <2>1, <3>1 DEF OnItsWay
      <3>3. QED
        BY <1>1, <1>2, <2>10, <3>2 DEF Kept, ToldApp
    <2>11. OpenInv'
      BY <1>0, <1>1, <2>1, <2>10, OpenSame DEF Alive, OpenInv
    <2>12. QED
      BY <2>6, <2>7, <2>8, <2>9, <2>11 DEF TurnsInv
  <1>5. CASE WriteWaits(c) /\ UNCHANGED <<call, told, app>>
    <2>1. UNCHANGED stdin
      BY <1>5 DEF WriteWaits
    <2>2. OnePlace' /\ LastTurn'
      BY <1>0, <1>1, <1>5, <2>1, PlaceSame
    <2>3. MarkInv' /\ LineInv'
      BY <1>0, <1>1, <1>5, <2>1, MarkSame, LineSame
    <2>4. \A id : Kept(id) => Kept(id)'
      BY <1>1, <1>5, <2>1 DEF Kept, OnItsWay, ToldApp
    <2>5. OpenInv'
      BY <1>0, <1>1, <2>1, <2>4, OpenSame DEF Alive, OpenInv
    <2>6. QED
      BY <2>2, <2>3, <2>5 DEF TurnsInv
  <1>6. CASE /\ WriteFails(c) /\ Return(c)
             /\ app' = IF c = "send" THEN [app EXCEPT !.turn = NoTurn] ELSE app
    <2>1. ~(Alive /\ cli.up) /\ UNCHANGED stdin
      BY <1>0, <1>6, WriteFailsClosed DEF WriteFails
    <2>2. call'[c] = Quiet /\ \A d \in Caller : d # c => call'[d] = call[d]
      BY <1>1, <1>6 DEF Return
    <2>3. UNCHANGED <<Prompted, Working, Reported, Ending, Ended>>
      BY <1>1, <2>1 DEF Prompted, Working, Reported, Ending, Ended
    <2>4. /\ IF c = "send" THEN Sending /\ ~Sending' ELSE (Sending' <=> Sending) /\ app' = app
      BY <1>3, <1>6, <2>2 DEF Sending, Quiet
    <2>5. OnePlace'
      BY <1>0, <1>1, <2>1, <2>3, <2>4 DEF OnePlace
    <2>6. LastTurn'
      BY <1>0, <1>1, <1>2, <2>1, <2>3, <2>4 DEF LastTurn, OnePlace
    <2>7. LineInv'
      BY <1>0, <1>1, <2>2 DEF LineInv, Quiet
    <2>8. MarkInv'
      BY <1>0, <1>1, <1>2, <2>1, <2>2 DEF MarkInv, Marked, StopsReported, Quiet
    <2>9. OpenInv'
      BY <1>0, <1>1, <2>1 DEF OpenInv, Alive, AskNotForgotten
    <2>10. QED
      BY <2>5, <2>6, <2>7, <2>8, <2>9 DEF TurnsInv
  <1>7. QED
    BY <1>4, <1>5, <1>6 DEF Writes, line

----------------------------------------------------------------------------
(***************************************************************************)
(* Close: the session is not open any more before stdin is closed.         *)
(***************************************************************************)
LEMMA ClosingKeeps ==
  ASSUME IInv, TurnsInv, Closing
  PROVE  TurnsInv'
  <1>0. TypeOK /\ CallInv /\ OnePlace /\ LastTurn /\ LineInv /\ MarkInv /\ OpenInv
    BY DEF IInv, TurnsInv
  <1>1. cli \in ProcessState /\ stdin \in StdinPipe /\ close \in CloseState
    BY <1>0 DEF TypeOK
  <1>2. UNCHANGED <<stdout, st, events, exited, call, run, app, told>>
    BY DEF Closing, Close, CloseStdin, Kill, CloseReturns, cliVars, sessVars
  <1>3. UNCHANGED <<cli.turn, cli.stopped, cli.mark, cli.waits, cli.up>>
    BY <1>1 DEF Closing, Close, CloseStdin, Kill, CloseReturns, cliVars, ProcessState
  <1>4. /\ stdin'.lines = stdin.lines /\ (dying => dying')
        /\ stdin'.open = stdin.open \/ dying'
        /\ close'.pc = "lock" => dying'
    <2>1. CASE Close
      BY <1>0, <1>1, <2>1 DEF Close, cliVars
    <2>2. CASE CloseStdin
      <3>1. dying /\ dying' = dying
        BY <1>0, <2>2 DEF CloseStdin, LineInv, sessVars
      <3>2. stdin'.lines = stdin.lines
        BY <1>1, <2>2 DEF CloseStdin, StdinPipe
      <3>3. QED
        BY <3>1, <3>2
    <2>3. CASE Kill
      BY <1>0, <1>1, <2>3 DEF Kill, sessVars, LineInv, CloseState
    <2>4. CASE CloseReturns
      BY <1>0, <1>1, <2>4 DEF CloseReturns, cliVars, sessVars, CloseState
    <2>5. QED
      BY <2>1, <2>2, <2>3, <2>4 DEF Closing
  <1>5. OnePlace' /\ LastTurn'
    BY <1>0, <1>2, <1>3, <1>4, PlaceSame
  <1>6. MarkInv'
    BY <1>0, <1>2, <1>3, <1>4, MarkSame
  <1>7. LineInv'
    BY <1>0, <1>2, <1>4 DEF LineInv
  <1>8. \A id : Kept(id) => Kept(id)'
    BY <1>2, <1>4 DEF Kept, OnItsWay, ToldApp
  <1>9. OpenInv'
    BY <1>0, <1>2, <1>3, <1>4, <1>8, OpenSame DEF Alive, OpenInv
  <1>10. QED
    BY <1>5, <1>6, <1>7, <1>9 DEF TurnsInv

----------------------------------------------------------------------------
(***************************************************************************)
(* run: what it reads, answers and tells.                                  *)
(***************************************************************************)
LEMMA ReadLineKeeps ==
  ASSUME IInv, TurnsInv, ReadLine
  PROVE  TurnsInv'
  <1> DEFINE line == Head(stdout)
  <1>0. TypeOK /\ OnePlace /\ LastTurn /\ LineInv /\ MarkInv /\ OpenInv
    BY DEF IInv, TurnsInv
  <1>1. /\ run.pc = "read" /\ stdout # <<>> /\ stdout \in Seq(OutLine) /\ stdout' = Tail(stdout)
        /\ st \in SessionState /\ told \in History
        /\ ParseAsk(line) \/ ParseOther(line) \/ ParseResult(line)
        /\ UNCHANGED <<cli, stdin, events, dying, exited, call, close, app>>
    BY <1>0 DEF ReadLine, TypeOK
  <1>2. run.outbox = <<>> /\ run.evs = <<>>
    BY <1>0, <1>1 DEF LineInv
  <1>3. /\ Elem(stdout) = {line} \cup Elem(stdout') /\ Once(stdout', "result")
        /\ line.kind = "result" => ~HasKind(stdout', "result")
        /\ \A x : In(x, stdout) <=> In(x, stdout') \/ (line.kind = x.kind /\ line.x = x.x)
    BY <1>0, <1>1, ElemTail DEF OnePlace
  <1> HIDE DEF line
  <1>4. (Sending' <=> Sending) /\ (Prompted' <=> Prompted) /\ (Working' <=> Working) /\ (Ended' <=> Ended)
    BY <1>1 DEF Sending, Prompted, Working, Ended
  <1>5. ~Ending /\ Elem(run.evs) = {}
    BY <1>2, ElemFew DEF Ending, HasKind
  <1>6. ASSUME ParseAsk(line) \/ ParseOther(line),
               Elem(run'.evs) \subseteq {line}, Once(run'.evs, "completed"),
               \A e \in Elem(run'.outbox) : e.kind = "answer",
               run'.pc = "read" => run'.outbox = <<>> /\ run'.evs = <<>>,
               st'.turnID = st.turnID, st'.interrupted = st.interrupted, UNCHANGED told,
               \A id : Kept(id) => Kept(id)'
        PROVE  TurnsInv'
    <2>1. line.kind \in {"ask", "other"}
      BY <1>6 DEF ParseAsk, ParseOther
    <2>2. (Reported' <=> Reported) /\ ~Ending'
      BY <1>3, <1>6, <2>1 DEF Reported, Ending, HasKind
    <2>3. OnePlace'
      BY <1>0, <1>1, <1>3, <1>4, <1>5, <1>6, <2>2 DEF OnePlace
    <2>4. LastTurn'
      BY <1>0, <1>1, <1>3, <1>4, <1>5, <1>6, <2>1, <2>2 DEF LastTurn
    <2>5. LineInv'
      BY <1>0, <1>1, <1>6 DEF LineInv
    <2>6. MarkInv'
      BY <1>0, <1>1, <1>3, <1>6 DEF MarkInv, Marked, StopsReported
    <2>7. OpenInv'
      BY <1>0, <1>1, <1>6, OpenSame DEF Alive, OpenInv
    <2>8. QED
      BY <2>3, <2>4, <2>5, <2>6, <2>7 DEF TurnsInv
  <1>7. CASE ParseAsk(line)
    <2>1. /\ line.kind = "ask" /\ st' = [st EXCEPT !.approvals = @ \cup {line.x}] /\ UNCHANGED told
          /\ run'.outbox = <<>> /\ run'.evs = <<line>> /\ run'.pc = "line"
      BY <1>7 DEF ParseAsk, Parsed, LineDone
    <2>2. st'.turnID = st.turnID /\ st'.interrupted = st.interrupted /\ st'.approvals = st.approvals \cup {line.x}
      BY <1>1, <2>1 DEF SessionState
    <2>3. /\ Elem(run'.evs) = {line} /\ Once(run'.evs, "completed") /\ In(line, run'.evs)
          /\ Elem(run'.outbox) = {}
      BY <2>1, ElemFew
    <2>4. ASSUME NEW id, Kept(id) PROVE Kept(id)'
      <3>1. CASE In(Line("ask", id), stdout) /\ ~In(Line("ask", id), stdout')
        <4>1. line.x = id
          BY <1>3, <2>1, <3>1
        <4>2. In(Line("ask", id), run'.evs)
          BY <2>1, <2>3, <4>1 DEF In
        <4>3. QED
          BY <2>2, <4>1, <4>2 DEF Kept, ToldApp
      <3>2. CASE In(Line("ask", id), stdout') \/ In(Line("other", id), stdout)
        BY <1>3, <2>1, <3>2 DEF Kept
      <3>3. CASE OnItsWay(id) \/ (id \in st.approvals /\ ToldApp(id))
        BY <1>1, <1>2, <2>2, <3>3, ElemFew DEF Kept, OnItsWay, ToldApp
      <3>4. QED
        BY <2>4, <3>1, <3>2, <3>3 DEF Kept
    <2>5. QED
      BY <1>6, <1>7, <2>1, <2>2, <2>3, <2>4
  <1>8. CASE ParseOther(line)
    <2>1. /\ line.kind = "other" /\ UNCHANGED <<st, told>>
          /\ run'.outbox = <<Line("answer", line.x)>> /\ run'.evs = <<>> /\ run'.pc = "line"
      BY <1>8 DEF ParseOther, Parsed, LineDone
    <2>2. /\ Elem(run'.outbox) = {Line("answer", line.x)} /\ In(Line("answer", line.x), run'.outbox)
          /\ Elem(run'.evs) = {} /\ Once(run'.evs, "completed")
      BY <2>1, ElemFew
    <2>3. ASSUME NEW id, Kept(id) PROVE Kept(id)'
      <3>1. CASE In(Line("other", id), stdout) /\ ~In(Line("other", id), stdout')
        <4>1. line.x = id
          BY <1>3, <2>1, <3>1
        <4>2. In(Line("answer", id), run'.outbox)
          BY <2>2, <4>1
        <4>3. QED
          BY <4>2 DEF Kept, OnItsWay
      <3>2. CASE In(Line("other", id), stdout') \/ In(Line("ask", id), stdout)
        BY <1>3, <2>1, <3>2 DEF Kept
      <3>3. CASE OnItsWay(id) \/ (id \in st.approvals /\ ToldApp(id))
        BY <1>1, <1>2, <2>1, <3>3, ElemFew DEF Kept, OnItsWay, ToldApp
      <3>4. QED
        BY <2>3, <3>1, <3>2, <3>3 DEF Kept
    <2>4. QED
      BY <1>6, <1>8, <2>1, <2>2, <2>3
  <1>9. CASE ParseResult(line)
    <2> DEFINE done == Line("completed", st.turnID)
               r == [turn |-> st.turnID, interrupted |-> st.interrupted, of |-> line.x,
                     stopped |-> line.stopped, mark |-> line.mark]
    <2>1. /\ line.kind = "result" /\ st' = [turnID |-> NoTurn, interrupted |-> FALSE, approvals |-> {}]
          /\ told' = [told EXCEPT !.results = @ \cup {r}]
          /\ run'.outbox = <<>> /\ run'.evs = <<done>> /\ run'.pc = "line"
      BY <1>9 DEF ParseResult, Parsed, LineDone
    <2>2. told'.marked = told.marked /\ told'.results = told.results \cup {r}
      BY <1>1, <2>1 DEF History
    <2>3. Reported /\ line \in Elem(stdout) /\ line.x = app.turns
      BY <1>0, <1>3, <2>1 DEF Reported, HasKind, LastTurn
    <2>4. /\ st.turnID = app.turns /\ app.turns \in Turn /\ app.turn = app.turns
          /\ ~Sending /\ ~Prompted /\ ~Working /\ ~Ended
      BY <1>0, <2>3 DEF LastTurn, OnePlace
    <2>5. done.kind = "completed" /\ done.x = app.turns
      BY <2>4
    <2>6. r.turn = r.of /\ (r.stopped /\ r.mark = r.of => r.interrupted) /\ (r.interrupted => r.of \in told.marked)
      <3>1. r.turn = app.turns /\ r.of = app.turns /\ r.stopped = line.stopped /\ r.mark = line.mark /\ r.interrupted = st.interrupted
        BY <2>3, <2>4
      <3>2. line.stopped => Marked(line.mark)
        BY <1>0, <2>1, <2>3 DEF MarkInv
      <3>3. st.interrupted => st.turnID \in told.marked
        BY <1>0 DEF MarkInv
      <3> HIDE DEF r
      <3>4. QED
        BY <2>4, <3>1, <3>2, <3>3 DEF Marked
    <2> HIDE DEF done, r
    <2>7. Elem(run'.evs) = {done} /\ Once(run'.evs, "completed") /\ Elem(run'.outbox) = {}
      BY <2>1, ElemFew
    <2>8. Ending' /\ ~Reported'
      BY <1>3, <2>1, <2>5, <2>7 DEF Ending, Reported, HasKind
    <2>9. OnePlace'
      BY <1>0, <1>1, <1>3, <1>4, <2>4, <2>7, <2>8 DEF OnePlace
    <2>10. LastTurn'
      BY <1>0, <1>1, <1>3, <1>4, <2>4, <2>5, <2>7, <2>8 DEF LastTurn
    <2>11. LineInv'
      BY <1>0, <1>1, <2>1, <2>7 DEF LineInv
    <2>12. ASSUME NEW m, Marked(m) PROVE Marked(m)'
      BY <1>1, <2>1, <2>12 DEF Marked
    <2>13. MarkInv'
      <3>1. call'["interrupt"].pc # "idle" => Marked(call["interrupt"].line.x)'
        BY <1>0, <1>1, <2>1 DEF MarkInv, Marked
      <3>2. \A x \in Elem(stdin.lines)' : x.kind = "interrupt" => Marked(x.x)'
        BY <1>0, <1>1, <2>12 DEF MarkInv
      <3>3. cli'.stopped => Marked(cli.mark)'
        BY <1>0, <1>1, <2>1 DEF MarkInv, Marked
      <3>4. \A x \in Elem(stdout)' : x.kind = "result" /\ x.stopped => Marked(x.mark)'
        BY <1>0, <1>3, <2>12 DEF MarkInv
      <3>5. StopsReported'
        BY <1>0, <2>2, <2>6 DEF MarkInv, StopsReported
      <3>6. QED
        BY <1>1, <2>1, <2>4, <3>1, <3>2, <3>3, <3>4, <3>5 DEF MarkInv
    <2>14. cli.waits = {}
      BY <1>0, <2>4 DEF LastTurn, Working
    <2>15. OpenInv'
      BY <1>0, <1>1, <2>14, OpenSame DEF Alive, OpenInv
    <2>16. QED
      BY <2>9, <2>10, <2>11, <2>13, <2>15 DEF TurnsInv
  <1>10. QED
    BY <1>1, <1>7, <1>8, <1>9

\* An answer goes from the outbox to stdin.
LEMMA AnswerKeeps ==
  ASSUME IInv, TurnsInv, Answer
  PROVE  TurnsInv'
  <1> DEFINE line == Head(run.outbox)
  <1>0. TypeOK /\ OnePlace /\ LastTurn /\ LineInv /\ MarkInv /\ OpenInv
    BY DEF IInv, TurnsInv
  <1>1. /\ run.outbox # <<>> /\ run.outbox \in Seq(InLine) /\ run.pc = "line"
        /\ UNCHANGED <<cli, stdout, st, events, dying, exited, call, close, app, told>>
    BY <1>0 DEF Answer, TypeOK, RunState
  <1>2. /\ Elem(run.outbox) = {line} \cup Elem(Tail(run.outbox))
        /\ \A x : In(x, run.outbox) <=> In(x, Tail(run.outbox)) \/ (line.kind = x.kind /\ line.x = x.x)
    BY <1>1, ElemTail
  <1>3. line.kind = "answer"
    BY <1>0, <1>2 DEF LineInv
  <1>4. (Sending' <=> Sending) /\ (Working' <=> Working) /\ (Reported' <=> Reported) /\ (Ended' <=> Ended)
    BY <1>1 DEF Sending, Working, Reported, Ended
  <1> HIDE DEF line
  <1>5. CASE run' = LineDone(Tail(run.outbox), run.evs) /\ (Written("run", line) \/ WriteFails("run"))
    <2>1. /\ run'.outbox = Tail(run.outbox) /\ run'.evs = run.evs
          /\ run'.pc = "read" => run'.outbox = <<>> /\ run'.evs = <<>>
      BY <1>5 DEF LineDone
    <2>2. Ending' <=> Ending
      BY <2>1 DEF Ending
    <2>3. LineInv'
      BY <1>0, <1>1, <1>2, <2>1 DEF LineInv
    <2>4. CASE Written("run", line)
      <3>1. /\ Elem(stdin'.lines) = Elem(stdin.lines) \cup {line}
            /\ Once(stdin.lines, "user") /\ (line.kind = "user" => ~Prompted) => Once(stdin'.lines, "user")
            /\ \A x : In(x, stdin'.lines) <=> In(x, stdin.lines) \/ (line.kind = x.kind /\ line.x = x.x)
            /\ Prompted' <=> Prompted \/ line.kind = "user"
            /\ stdin'.open = stdin.open
        BY <1>0, <2>4, WrittenAdds
      <3>2. OnePlace'
        BY <1>0, <1>1, <1>3, <1>4, <2>1, <2>2, <3>1 DEF OnePlace
      <3>3. LastTurn'
        BY <1>0, <1>1, <1>3, <1>4, <2>1, <2>2, <3>1 DEF LastTurn
      <3>4. MarkInv'
        BY <1>0, <1>1, <1>3, <3>1 DEF MarkInv, Marked, StopsReported
      <3>5. ASSUME NEW id, Kept(id) PROVE Kept(id)'
        BY <1>1, <1>2, <2>1, <3>1, <3>5 DEF Kept, OnItsWay, ToldApp
      <3>6. OpenInv'
        BY <1>0, <1>1, <3>1, <3>5, OpenSame DEF Alive, OpenInv
      <3>7. QED
        BY <2>3, <3>2, <3>3, <3>4, <3>6 DEF TurnsInv
    <2>5. CASE WriteFails("run")
      <3>1. ~(Alive /\ cli.up) /\ UNCHANGED stdin
        BY <1>0, <2>5, WriteFailsClosed DEF WriteFails
      <3>2. OnePlace' /\ LastTurn'
        BY <1>0, <1>1, <2>1, <3>1, PlaceSame
      <3>3. MarkInv'
        BY <1>0, <1>1, <3>1, MarkSame
      <3>4. OpenInv'
        BY <1>0, <1>1, <3>1 DEF OpenInv, Alive, AskNotForgotten
      <3>5. QED
        BY <2>3, <3>2, <3>3, <3>4 DEF TurnsInv
    <2>6. QED
      BY <1>5, <2>4, <2>5
  <1>6. CASE WriteWaits("run") /\ UNCHANGED run
    <2>1. UNCHANGED stdin
      BY <1>6 DEF WriteWaits
    <2>2. OnePlace' /\ LastTurn'
      BY <1>0, <1>1, <1>6, <2>1, PlaceSame
    <2>3. MarkInv' /\ LineInv'
      BY <1>0, <1>1, <1>6, <2>1, MarkSame, LineSame
    <2>4. \A id : Kept(id) => Kept(id)'
      BY <1>1, <1>6, <2>1 DEF Kept, OnItsWay, ToldApp
    <2>5. OpenInv'
      BY <1>0, <1>1, <2>1, <2>4, OpenSame DEF Alive, OpenInv
    <2>6. QED
      BY <2>2, <2>3, <2>5 DEF TurnsInv
  <1>7. QED
    BY <1>5, <1>6 DEF Answer, line

\* An event goes from the line in hand to the channel.
LEMMA TellEventKeeps ==
  ASSUME IInv, TurnsInv, TellEvent
  PROVE  TurnsInv'
  <1> DEFINE e == Head(run.evs)
  <1>0. TypeOK /\ EndInv /\ OnePlace /\ LastTurn /\ LineInv /\ MarkInv /\ OpenInv
    BY DEF IInv, TurnsInv
  <1>1. /\ run.outbox = <<>> /\ run.pc = "line" /\ run \in RunState /\ events \in Channel
        /\ UNCHANGED <<cli, stdin, stdout, st, dying, exited, call, close, app, told>>
    BY <1>0 DEF TellEvent, TypeOK, cliVars
  <1>2. run.evs # <<>> /\ run.evs \in Seq(Event) /\ events.buf \in Seq(Event)
    BY <1>0, <1>1 DEF EndInv, RunState, Channel
  <1>3. /\ Elem(run.evs) = {e} \cup Elem(Tail(run.evs)) /\ Once(Tail(run.evs), "completed")
        /\ e.kind = "completed" => ~HasKind(Tail(run.evs), "completed")
        /\ \A x : In(x, run.evs) <=> In(x, Tail(run.evs)) \/ (e.kind = x.kind /\ e.x = x.x)
    BY <1>0, <1>2, ElemTail DEF OnePlace
  <1>4. (Sending' <=> Sending) /\ (Prompted' <=> Prompted) /\ (Working' <=> Working) /\ (Reported' <=> Reported)
    BY <1>1 DEF Sending, Prompted, Working, Reported
  <1>5. MarkInv'
    BY <1>0, <1>1, MarkSame
  <1> HIDE DEF e
  <1>6. CASE Put("run", e) /\ run' = LineDone(<<>>, Tail(run.evs))
    <2>1. /\ run'.outbox = <<>> /\ run'.evs = Tail(run.evs)
          /\ run'.pc = "read" => run'.evs = <<>>
      BY <1>6 DEF LineDone
    <2>2. events'.buf = Append(events.buf, e) /\ events'.closed = events.closed
      <3>1. events' = [events EXCEPT !.buf = Append(events.buf, e)]
        BY <1>6 DEF Put
      <3>2. QED
        BY <1>1, <3>1 DEF Channel
    <2>3. /\ Elem(events'.buf) = Elem(events.buf) \cup {e}
          /\ Once(events.buf, "completed") /\ (e.kind = "completed" => ~HasKind(events.buf, "completed"))
               => Once(events'.buf, "completed")
          /\ \A x : In(x, events'.buf) <=> In(x, events.buf) \/ (e.kind = x.kind /\ e.x = x.x)
      BY <1>2, <2>2, ElemAppend
    <2>4. IF e.kind = "completed" THEN Ending /\ ~Ending' /\ Ended' ELSE (Ending' <=> Ending) /\ (Ended' <=> Ended)
      BY <1>3, <2>1, <2>3 DEF Ending, Ended, HasKind
    <2>5. Once(events'.buf, "completed")
      BY <1>0, <2>3, <2>4 DEF OnePlace, Ended
    <2>6. OnePlace'
      BY <1>0, <1>1, <1>3, <1>4, <2>1, <2>4, <2>5 DEF OnePlace
    <2>7. LastTurn'
      BY <1>0, <1>1, <1>3, <1>4, <2>1, <2>3, <2>4 DEF LastTurn
    <2>8. LineInv'
      BY <1>0, <1>1, <2>1, ElemFew DEF LineInv
    <2>9. ASSUME NEW id, Kept(id) PROVE Kept(id)'
      BY <1>1, <1>3, <2>1, <2>3, <2>9 DEF Kept, OnItsWay, ToldApp
    <2>10. OpenInv'
      BY <1>0, <1>1, <2>2, <2>9, OpenSame DEF Alive, OpenInv
    <2>11. QED
      BY <1>5, <2>6, <2>7, <2>8, <2>10 DEF TurnsInv
  <1>7. CASE Blocks("run") /\ UNCHANGED run
    <2>1. UNCHANGED events
      BY <1>7 DEF Blocks
    <2>2. OnePlace' /\ LastTurn'
      BY <1>0, <1>1, <1>7, <2>1, PlaceSame
    <2>3. LineInv'
      BY <1>0, <1>1, <1>7, LineSame
    <2>4. \A id : Kept(id) => Kept(id)'
      BY <1>1, <1>7, <2>1 DEF Kept, OnItsWay, ToldApp
    <2>5. OpenInv'
      BY <1>0, <1>1, <2>1, <2>4, OpenSame DEF Alive, OpenInv
    <2>6. QED
      BY <1>5, <2>2, <2>3, <2>5 DEF TurnsInv
  <1>8. CASE EmitFails("run") /\ run' = [run EXCEPT !.pc = "reap", !.evs = <<>>]
    <2>1. ~Alive /\ UNCHANGED events
      BY <1>0, <1>8, EmitFailsClosed DEF EmitFails
    <2>2. run'.outbox = <<>> /\ run'.evs = <<>> /\ run'.pc = "reap"
      BY <1>1, <1>8 DEF RunState
    <2>3. ~Ending' /\ Elem(run'.evs) = {} /\ Once(run'.evs, "completed") /\ (Ended' <=> Ended)
      BY <2>1, <2>2, ElemFew DEF Ending, HasKind, Ended
    <2>4. OnePlace'
      BY <1>0, <1>1, <1>4, <2>1, <2>3 DEF OnePlace
    <2>5. LastTurn'
      BY <1>0, <1>1, <1>4, <2>1, <2>3 DEF LastTurn
    <2>6. LineInv'
      BY <1>0, <1>1, <2>2, ElemFew DEF LineInv
    <2>7. OpenInv'
      BY <1>1, <2>1 DEF OpenInv, Alive, AskNotForgotten
    <2>8. QED
      BY <1>5, <2>4, <2>5, <2>6, <2>7 DEF TurnsInv
  <1>9. QED
    BY <1>6, <1>7, <1>8 DEF TellEvent, e

\* Reap, TellClosed and CloseEvents: the session is not open any more.
LEMMA EndingKeeps ==
  ASSUME IInv, TurnsInv, Reap \/ TellClosed \/ CloseEvents
  PROVE  TurnsInv'
  <1>0. TypeOK /\ EndInv /\ OnePlace /\ LastTurn /\ LineInv /\ MarkInv /\ OpenInv
    BY DEF IInv, TurnsInv
  <1>1. /\ stdin \in StdinPipe /\ run \in RunState /\ events \in Channel /\ told \in History
        /\ UNCHANGED <<cli, st, dying, call, close, app>>
    BY <1>0 DEF Reap, TellClosed, CloseEvents, TypeOK, cliVars
  <1>2. stdin'.lines = stdin.lines /\ run'.outbox = run.outbox /\ run'.evs = run.evs /\ run'.pc # "read"
    <2>1. CASE Reap
      BY <1>1, <2>1 DEF Reap, StdinPipe, RunState
    <2>2. CASE TellClosed
      BY <1>1, <2>2 DEF TellClosed, RunState, cliVars
    <2>3. CASE CloseEvents
      BY <1>1, <2>3 DEF CloseEvents, RunState, cliVars
    <2>4. QED
      BY <2>1, <2>2, <2>3
  <1>3. ~Alive' /\ told'.marked = told.marked /\ told'.results = told.results
    <2>1. CASE Reap
      BY <2>1 DEF Reap, Alive
    <2>2. CASE TellClosed
      BY <1>0, <1>1, <2>2 DEF TellClosed, EndInv, History, Alive
    <2>3. CASE CloseEvents
      BY <1>0, <1>1, <2>3 DEF CloseEvents, EndInv, Alive
    <2>4. QED
      BY <2>1, <2>2, <2>3
  <1>4. stdout' = stdout \/ (stdout' = <<>> /\ events' = events)
    BY DEF Reap, TellClosed, CloseEvents, cliVars
  <1>5. Elem(stdout') \subseteq Elem(stdout) /\ Once(stdout', "result")
    BY <1>0, <1>4, ElemFew DEF OnePlace
  <1>6. /\ (Ended' <=> Ended) /\ Once(events'.buf, "completed")
        /\ \A x \in Elem(events'.buf) : x \in Elem(events.buf) \/ x.kind = "closed"
    <2>1. CASE UNCHANGED events
      BY <1>0, <2>1 DEF Ended, OnePlace
    <2>2. CASE CloseEvents
      <3>1. events' = [events EXCEPT !.closed = TRUE]
        BY <2>2 DEF CloseEvents
      <3>2. events'.buf = events.buf
        BY <1>1, <3>1 DEF Channel
      <3>3. QED
        BY <1>0, <3>2 DEF Ended, OnePlace
    <2>3. CASE Put("run", Line("closed", NoTurn))
      <3> DEFINE e == Line("closed", NoTurn)
      <3>1. events' = [events EXCEPT !.buf = Append(events.buf, e)] /\ events.buf \in Seq(Event)
        BY <1>1, <2>3 DEF Put, Channel
      <3>2. events'.buf = Append(events.buf, e)
        BY <1>1, <3>1 DEF Channel
      <3>3. e.kind = "closed"
        OBVIOUS
      <3> HIDE DEF e
      <3>4. /\ Elem(events'.buf) = Elem(events.buf) \cup {e}
            /\ Once(events.buf, "completed") => Once(events'.buf, "completed")
        BY <3>1, <3>2, <3>3, ElemAppend
      <3>5. QED
        BY <1>0, <3>3, <3>4 DEF Ended, HasKind, OnePlace
    <2>4. QED
      BY <2>1, <2>2, <2>3 DEF Reap, TellClosed, Blocks, EmitFails
  <1>7. (Sending' <=> Sending) /\ (Prompted' <=> Prompted) /\ (Working' <=> Working) /\ (Ending' <=> Ending) /\ (Reported' => Reported)
    BY <1>1, <1>2, <1>5 DEF Sending, Prompted, Working, Ending, Reported, HasKind
  <1>8. OnePlace'
    BY <1>0, <1>2, <1>5, <1>6, <1>7 DEF OnePlace
  <1>9. LastTurn'
    BY <1>0, <1>1, <1>2, <1>5, <1>6, <1>7 DEF LastTurn
  <1>10. LineInv'
    BY <1>0, <1>1, <1>2 DEF LineInv
  <1>11. MarkInv'
    BY <1>0, <1>1, <1>2, <1>3, <1>5 DEF MarkInv, Marked, StopsReported
  <1>12. OpenInv'
    BY <1>3 DEF OpenInv, Alive, AskNotForgotten
  <1>13. QED
    BY <1>8, <1>9, <1>10, <1>11, <1>12 DEF TurnsInv

----------------------------------------------------------------------------
(***************************************************************************)
(* The consumer: the turn whose end it takes is the one it waits for.      *)
(***************************************************************************)
LEMMA ConsumeKeeps ==
  ASSUME IInv, TurnsInv, Consume
  PROVE  TurnsInv'
  <1> DEFINE e == Head(events.buf)
  <1>0. TypeOK /\ OnePlace /\ LastTurn /\ LineInv /\ MarkInv /\ OpenInv
    BY DEF IInv, TurnsInv
  <1>1. /\ events.buf # <<>> /\ events \in Channel /\ app \in AppState
        /\ events' = [events EXCEPT !.buf = Tail(events.buf)]
        /\ app' = CASE e.kind = "completed" /\ e.x = app.turn -> [app EXCEPT !.turn = NoTurn]
                    [] e.kind = "ask" -> [app EXCEPT !.cards = @ \cup {e.x}]
                    [] OTHER -> app
        /\ UNCHANGED <<cli, stdin, stdout, st, dying, exited, call, close, run, told>>
    BY <1>0 DEF Consume, TypeOK, cliVars
  <1>2. events'.buf = Tail(events.buf) /\ events'.closed = events.closed /\ events.buf \in Seq(Event)
    BY <1>1 DEF Channel
  <1>3. /\ Elem(events.buf) = {e} \cup Elem(events'.buf) /\ Once(events'.buf, "completed")
        /\ e.kind = "completed" => ~HasKind(events'.buf, "completed")
        /\ \A x : In(x, events.buf) <=> In(x, events'.buf) \/ (e.kind = x.kind /\ e.x = x.x)
    BY <1>0, <1>1, <1>2, ElemTail DEF OnePlace
  <1> HIDE DEF e
  <1>4. /\ app'.turns = app.turns
        /\ app'.turn = app.turn \/ e.kind = "completed"
        /\ app'.cards = IF e.kind = "ask" THEN app.cards \cup {e.x} ELSE app.cards
    <2>1. CASE e.kind = "completed" /\ e.x = app.turn
      <3>1. app' = [app EXCEPT !.turn = NoTurn]
        BY <1>1, <2>1
      <3>2. QED
        BY <1>1, <2>1, <3>1 DEF AppState
    <2>2. CASE e.kind = "ask"
      <3>1. app' = [app EXCEPT !.cards = app.cards \cup {e.x}]
        BY <1>1, <2>2
      <3>2. QED
        BY <1>1, <2>2, <3>1 DEF AppState
    <2>3. CASE ~(e.kind = "completed" /\ e.x = app.turn) /\ e.kind # "ask"
      <3>1. app' = app
        BY <1>1, <2>3
      <3>2. QED
        BY <2>3, <3>1
    <2>4. QED
      BY <2>1, <2>2, <2>3
  <1>5. UNCHANGED <<Sending, Prompted, Working, Reported, Ending>>
    BY <1>1 DEF Sending, Prompted, Working, Reported, Ending
  <1>6. IF e.kind = "completed" THEN Ended /\ ~Ended' ELSE Ended' <=> Ended
    BY <1>3 DEF Ended, HasKind
  <1>7. OnePlace'
    BY <1>0, <1>1, <1>3, <1>5, <1>6 DEF OnePlace
  <1>8. LastTurn'
    <2>1. CASE e.kind = "completed"
      <3>1. ~Sending' /\ ~Prompted' /\ ~Working' /\ ~Reported' /\ ~Ending' /\ ~Ended'
        BY <1>0, <1>5, <1>6, <2>1 DEF OnePlace
      <3>2. QED
        BY <1>0, <1>1, <1>3, <1>4, <3>1 DEF LastTurn
    <2>2. CASE e.kind # "completed"
      BY <1>0, <1>1, <1>3, <1>4, <1>5, <1>6, <2>2 DEF LastTurn
    <2>3. QED
      BY <2>1, <2>2
  <1>9. LineInv' /\ MarkInv'
    BY <1>0, <1>1, <1>4, LineSame, MarkSame
  <1>10. ASSUME NEW id, Kept(id) PROVE Kept(id)'
    BY <1>1, <1>3, <1>4, <1>10 DEF Kept, OnItsWay, ToldApp
  <1>11. OpenInv'
    BY <1>0, <1>1, <1>2, <1>10, OpenSame DEF Alive, OpenInv
  <1>12. QED
    BY <1>7, <1>8, <1>9, <1>11 DEF TurnsInv

----------------------------------------------------------------------------
LEMMA TurnsInitially == Init => TurnsInv
  <1> SUFFICES ASSUME Init PROVE TurnsInv
    OBVIOUS
  <1>1. /\ Elem(stdin.lines) = {} /\ Elem(stdout) = {} /\ Elem(run.evs) = {} /\ Elem(run.outbox) = {} /\ Elem(events.buf) = {}
        /\ Once(stdin.lines, "user") /\ Once(stdout, "result") /\ Once(run.evs, "completed") /\ Once(events.buf, "completed")
    BY ElemFew DEF Init
  <1>2. ~Sending /\ ~Prompted /\ ~Working /\ ~Reported /\ ~Ending /\ ~Ended
    BY <1>1 DEF Init, Sending, Prompted, Working, Reported, Ending, Ended, HasKind, Quiet
  <1>3. OnePlace /\ LastTurn
    BY <1>1, <1>2 DEF OnePlace, LastTurn, Init
  <1>4. LineInv
    BY <1>1 DEF LineInv, Init, Quiet
  <1>5. MarkInv
    BY <1>1 DEF MarkInv, Marked, StopsReported, Init, Quiet
  <1>6. OpenInv
    BY DEF OpenInv, AskNotForgotten, Init
  <1>7. QED
    BY <1>3, <1>4, <1>5, <1>6 DEF TurnsInv

LEMMA StutterKeeps ==
  ASSUME IInv, TurnsInv, UNCHANGED vars
  PROVE  TurnsInv'
  <1>0. OnePlace /\ LastTurn /\ LineInv /\ MarkInv /\ OpenInv
    BY DEF TurnsInv
  <1>1. UNCHANGED <<cli, stdin, stdout, st, events, dying, exited, call, close, run, app, told>>
    BY DEF vars, cliVars, sessVars
  <1>2. OnePlace' /\ LastTurn'
    BY <1>0, <1>1, PlaceSame
  <1>3. MarkInv' /\ LineInv'
    BY <1>0, <1>1, MarkSame, LineSame
  <1>4. \A id : Kept(id) => Kept(id)'
    BY <1>1 DEF Kept, OnItsWay, ToldApp
  <1>5. OpenInv'
    BY <1>0, <1>1, <1>4, OpenSame DEF Alive, OpenInv
  <1>6. QED
    BY <1>2, <1>3, <1>5 DEF TurnsInv

\* Every step keeps what is known of the turns.
LEMMA TurnsInduction == IInv /\ TurnsInv /\ [Next]_vars => TurnsInv'
  <1> SUFFICES ASSUME IInv, TurnsInv, [Next]_vars PROVE TurnsInv'
    OBVIOUS
  <1>1. CASE Process
    BY <1>1, RequestsKeeps, SaysResultKeeps, TakesKeeps, ExitsKeeps DEF Process
  <1>2. CASE Calls
    BY <1>2, SendKeeps, SendEmitsKeeps, InterruptKeeps, ResolveKeeps, WritesKeeps DEF Calls
  <1>3. CASE Closing
    BY <1>3, ClosingKeeps
  <1>4. CASE Run
    BY <1>4, ReadLineKeeps, AnswerKeeps, TellEventKeeps, EndingKeeps DEF Run
  <1>5. CASE Consume
    BY <1>5, ConsumeKeeps
  <1>6. CASE UNCHANGED vars
    BY <1>6, StutterKeeps
  <1>7. QED
    BY <1>1, <1>2, <1>3, <1>4, <1>5, <1>6 DEF Next

\* A turn is in one place from Send to the consumer, it is the last one, and its
\* interrupts and requests are accounted for (claude.go:584-746, 1001-1014,
\* 1435-1465, 1519-1522).
THEOREM TurnsHold == Spec => []TurnsInv
  <1>1. Init => TurnsInv
    BY TurnsInitially
  <1>2. IInv /\ TurnsInv /\ [Next]_vars => TurnsInv'
    BY TurnsInduction
  <1>3. QED
    BY <1>1, <1>2, Invariance, PTL DEF Spec

\* A result is told for the turn it is of, as interrupted when Interrupt marked
\* that turn and the process stopped it for that, and only when Interrupt did
\* (claude.go:584-619, 1001-1014, 1519-1522).
THEOREM StopsReportedHolds == Spec => []StopsReported
  <1>1. TurnsInv => StopsReported
    BY DEF TurnsInv, MarkInv
  <1>2. QED
    BY <1>1, TurnsHold, PTL

\* While the session is open, no request the process waits for is forgotten: it
\* is unread, its answer is on the way, or its card is there to be answered
\* (claude.go:637-652, 757-764, 1012-1014, 1435-1465).
THEOREM AskNotForgottenHolds == Spec => []AskNotForgotten
  <1>1. TurnsInv => AskNotForgotten
    BY DEF TurnsInv, OpenInv
  <1>2. QED
    BY <1>1, TurnsHold, PTL
=============================================================================
