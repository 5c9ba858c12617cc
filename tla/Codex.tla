------------------------------- MODULE Codex -------------------------------
(***************************************************************************)
(* internal/agent/codex: one codex app-server process, the client that     *)
(* owns it, and the sessions that share it.                                *)
(*                                                                         *)
(* Calls come from whoever drives a session; each is registered, written,  *)
(* and waits for its answer or its timeout.  One reader goroutine takes    *)
(* what the server wrote, in order, and routes it to calls and sessions.   *)
(* When the process is gone the reader fails the client.  A step is what   *)
(* happens between two acquisitions of a mutex that others wait for; what  *)
(* the reader does with one message is one step, because its look into the *)
(* registry commutes with all that others do before it gets to the session.*)
(*                                                                         *)
(* The app-server is external.  It answers calls in any order, or refuses  *)
(* them, runs one turn per thread, asks for approvals, and may exit.  The  *)
(* app holds at most one session of a thread; it starts the next one when  *)
(* it has dropped the last, whose Close may still be running.              *)
(***************************************************************************)
EXTENDS Naturals, Sequences, SequencesExt

CONSTANTS
    MaxThreads, \* bound: threads of the app-server
    MaxSess,   \* bound: sessions started
    MaxCalls,  \* bound: calls made
    MaxTurns,  \* bound: turns run
    MaxNotes   \* bound: approvals asked for and error notifications, together

ASSUME CodexAssumption ==
    /\ MaxThreads \in Nat /\ MaxSess \in Nat /\ MaxCalls \in Nat
    /\ MaxTurns \in Nat /\ MaxNotes \in Nat

Thread == 1..MaxThreads
NoThread == 0
Sess == 1..MaxSess
NoSess == 0
Call == 1..MaxCalls
Turn == 1..MaxTurns
NoTurn == 0
Ask == 1..MaxNotes
CallKind == {"start", "turn", "compact", "interrupt", "unsubscribe"}

VARIABLES
    \* -- the app-server
    srv,      \* "up" or "gone"
    asked,    \* calls it has read and not answered
    subs,     \* threads this connection is subscribed to
    running,  \* the turn that runs in each thread
    asks,     \* each approval it asked for, and its thread; "void" when its turn has ended
    sent,     \* how many turns, approvals and errors there were so far
    wire,     \* what it wrote and the reader has not read
    \* -- the client
    agent,    \* Agent.client is this client
    dead,     \* client.dead
    pending,  \* client.pending
    reg,      \* client.sessions
    rd,       \* the reader goroutine
    \* -- the callers and the sessions
    ncalls,   \* client.nextID
    call,     \* each call and its channel
    nsess,    \* sessions started
    sess      \* each session, and its Close

serverVars == <<srv, asked, subs, running, asks, sent, wire>>
clientVars == <<agent, dead, pending, reg, rd>>
callVars == <<ncalls, call>>
sessVars == <<nsess, sess>>
vars == <<serverVars, clientVars, callVars, sessVars>>

----------------------------------------------------------------------------
\* at: "none", "write", "wait", "announce" (Send is about to emit TurnStarted)
\* or "done".  ans: its channel.
NoCall == [kind |-> "start", s |-> NoSess, turn |-> NoTurn, at |-> "none", ans |-> <<>>]

\* app: "none", "starting", "held", or "dropped".  asks: session.approvals.
\* evs: what it emitted of turns and Closed.  busy: the app waits for a turn of it to end.
\* close, taken: where its Close is, and the approvals that took.
NotStarted == [t |-> NoThread, app |-> "none", ended |-> FALSE, turnID |-> NoTurn,
               announced |-> NoTurn, asks |-> {}, evs |-> <<>>, busy |-> FALSE,
               close |-> "no", taken |-> {}]

\* calls, sess: what a failed client still owes an answer, or Closed.
Reading == [at |-> "read", calls |-> {}, sess |-> {}]

Ev(k, turn) == [kind |-> k, turn |-> turn]
Response(i, ok, turn) == [kind |-> "response", call |-> i, ok |-> ok, turn |-> turn]
Note(k, t, turn) == [kind |-> k, t |-> t, turn |-> turn]
AskNote(t, turn, a) == [kind |-> "ask", t |-> t, turn |-> turn, ask |-> a]

Init ==
    /\ srv = "up" /\ asked = {} /\ subs = {} /\ running = [t \in Thread |-> NoTurn]
    /\ asks = [a \in Ask |-> [t |-> NoThread, is |-> "none"]]
    /\ sent = [turns |-> 0, asks |-> 0, errors |-> 0]
    /\ wire = <<>>
    /\ agent = TRUE /\ dead = FALSE /\ pending = {} /\ reg = [t \in Thread |-> NoSess]
    /\ rd = Reading
    /\ ncalls = 0 /\ call = [i \in Call |-> NoCall]
    /\ nsess = 0 /\ sess = [s \in Sess |-> NotStarted]

----------------------------------------------------------------------------
(***************************************************************************)
(* What a session does under its own mutexes.  Each returns the session.   *)
(***************************************************************************)
\* Mutant: emit does not look whether the stream has ended.
EmitAlways(x, e) == [x EXCEPT !.evs = Append(@, e), !.busy = @ /\ e.kind # "completed"]

\* emit; the app, which reads it, is done waiting when it is the end of a turn.
Emit(x, e) ==
    IF x.ended THEN x
    ELSE [x EXCEPT !.evs = Append(@, e), !.busy = @ /\ e.kind # "completed"]

Finish(x) ==
    IF x.ended THEN x
    ELSE [x EXCEPT !.evs = Append(@, Ev("closed", NoTurn)), !.ended = TRUE, !.busy = FALSE]

\* ensureTurn, of the reader.
EnsureTurn(x, turn) ==
    IF x.announced = turn THEN [x EXCEPT !.turnID = turn]
    ELSE Emit([x EXCEPT !.turnID = turn, !.announced = turn], Ev("started", turn))

\* respond: what the server makes of an answer to approval a.
Answered(as, a) ==
    IF srv = "gone" THEN as
    ELSE [as EXCEPT ![a].is = CASE @ = "open" -> "answered" [] @ = "answered" -> "twice" [] OTHER -> @]

----------------------------------------------------------------------------
(***************************************************************************)
(* call.                                                                   *)
(***************************************************************************)
\* The registration of a call.
Register(k, s, turn) ==
    /\ ~dead
    /\ ncalls < MaxCalls
    /\ ncalls' = ncalls + 1
    /\ call' = [call EXCEPT ![ncalls'] = [kind |-> k, s |-> s, turn |-> turn, at |-> "write", ans |-> <<>>]]
    /\ pending' = pending \cup {ncalls'}

Done(i) == call' = [call EXCEPT ![i].at = "done", ![i].ans = <<>>]

\* What a caller makes of an error: a session that does not start, a turn the
\* app puts in error, a Close that goes on.
Failed(i) ==
    LET s == call[i].s IN
    /\ Done(i)
    /\ sess' = CASE call[i].kind = "start" -> [sess EXCEPT ![s].app = "dropped", ![s].close = "done"]
                 [] call[i].kind \in {"turn", "compact"} -> [sess EXCEPT ![s].busy = FALSE]
                 [] call[i].kind = "unsubscribe" -> [sess EXCEPT ![s].close = "finish"]
                 [] OTHER -> sess

Write(i) ==
    /\ call[i].at = "write"
    /\ ~dead /\ srv = "up"
    /\ asked' = asked \cup {i}
    /\ call' = [call EXCEPT ![i].at = "wait"]
    /\ UNCHANGED <<srv, subs, running, asks, sent, wire, clientVars, ncalls, sessVars>>

WriteFails(i) ==
    /\ call[i].at = "write"
    /\ dead \/ srv = "gone"
    /\ pending' = pending \ {i}
    /\ Failed(i)
    /\ UNCHANGED <<serverVars, agent, dead, reg, rd, ncalls, nsess>>

Timeout(i) ==
    /\ call[i].at = "wait"
    /\ pending' = pending \ {i}
    /\ Failed(i)
    /\ UNCHANGED <<serverVars, agent, dead, reg, rd, ncalls, nsess>>

ReturnsError(i) ==
    /\ call[i].at = "wait" /\ call[i].ans # <<>>
    /\ ~call[i].ans[1].ok
    /\ Failed(i)
    /\ UNCHANGED <<serverVars, clientVars, ncalls, nsess>>

Returns(i, k) ==
    /\ call[i].at = "wait" /\ call[i].ans # <<>>
    /\ call[i].kind = k
    /\ call[i].ans[1].ok

CallStep(i) == Write(i) \/ WriteFails(i) \/ Timeout(i) \/ ReturnsError(i)

----------------------------------------------------------------------------
(***************************************************************************)
(* Agent.Start and a session's operations.                                 *)
(***************************************************************************)
\* The app starts or resumes t when it holds no session of it.
Start(t) ==
    LET s == nsess + 1 IN
    /\ agent
    /\ nsess < MaxSess
    /\ \A r \in Sess : sess[r].t = t => sess[r].app \in {"none", "dropped"}
    /\ nsess' = s
    /\ sess' = [sess EXCEPT ![s].t = t, ![s].app = "starting"]
    /\ Register("start", s, NoTurn)
    /\ UNCHANGED <<serverVars, agent, dead, reg, rd>>

\* newSession, addSession.
StartReturns(i) ==
    LET s == call[i].s IN
    /\ Returns(i, "start")
    /\ Done(i)
    /\ reg' = [reg EXCEPT ![sess[s].t] = s]
    /\ sess' = [sess EXCEPT ![s].app = "held"]
    /\ UNCHANGED <<serverVars, agent, dead, pending, rd, ncalls, nsess>>

\* Send and Compact.  The app gives one turn at a time.
Prompt(s, k) ==
    /\ sess[s].app = "held" /\ ~sess[s].busy
    /\ \A i \in Call : call[i].s = s /\ call[i].kind \in {"turn", "compact"} => call[i].at = "done"
    /\ sess' = [sess EXCEPT ![s].busy = ~sess[s].ended]
    /\ Register(k, s, NoTurn)
    /\ UNCHANGED <<serverVars, agent, dead, reg, rd, nsess>>

\* Send, when the server has answered: ensureTurn under the mutex...
SendReturns(i) ==
    LET s == call[i].s
        turn == call[i].ans[1].turn
    IN
    /\ Returns(i, "turn")
    /\ IF sess[s].announced = turn THEN Done(i) ELSE call' = [call EXCEPT ![i].at = "announce"]
    /\ sess' = [sess EXCEPT ![s].turnID = turn, ![s].announced = turn]
    /\ UNCHANGED <<serverVars, clientVars, ncalls, nsess>>

\* ...and the event after it.
SendAnnounces(i) ==
    LET s == call[i].s IN
    /\ call[i].at = "announce"
    /\ Done(i)
    /\ sess' = [sess EXCEPT ![s] = Emit(@, Ev("started", call[i].ans[1].turn))]
    /\ UNCHANGED <<serverVars, clientVars, ncalls, nsess>>

CompactReturns(i) ==
    /\ Returns(i, "compact") \/ Returns(i, "interrupt")
    /\ Done(i)
    /\ UNCHANGED <<serverVars, clientVars, ncalls, sessVars>>

Interrupt(s) ==
    /\ sess[s].app = "held"
    /\ sess[s].turnID # NoTurn
    /\ Register("interrupt", s, sess[s].turnID)
    /\ UNCHANGED <<serverVars, agent, dead, reg, rd, sessVars>>

\* Mutant: the approval stays in the map.
ResolveKeeps(s, a) ==
    /\ sess[s].app = "held"
    /\ a \in sess[s].asks
    /\ asks' = Answered(asks, a)
    /\ UNCHANGED <<srv, asked, subs, running, sent, wire, clientVars, callVars, sessVars>>

Resolve(s, a) ==
    /\ sess[s].app = "held"
    /\ a \in sess[s].asks
    /\ sess' = [sess EXCEPT ![s].asks = @ \ {a}]
    /\ asks' = Answered(asks, a)
    /\ UNCHANGED <<srv, asked, subs, running, sent, wire, clientVars, callVars, nsess>>

\* The app drops a session, because of its Closed event or for reasons of its
\* own.
Drop(s) ==
    /\ sess[s].app = "held"
    /\ sess' = [sess EXCEPT ![s].app = "dropped"]
    /\ UNCHANGED <<serverVars, clientVars, callVars, nsess>>

CloseBegins(s) ==
    /\ sess[s].app = "dropped" /\ sess[s].close = "no"
    /\ sess' = [sess EXCEPT ![s].close = "decline", ![s].taken = sess[s].asks, ![s].asks = {}]
    /\ UNCHANGED <<serverVars, clientVars, callVars, nsess>>

\* Mutant: whoever is registered for the thread is removed.
RemoveThread(s) == reg' = [reg EXCEPT ![sess[s].t] = NoSess]

RemoveSession(s) == reg' = [reg EXCEPT ![sess[s].t] = IF @ = s THEN NoSess ELSE @]

\* It declines what it took and leaves the registry.
CloseRemoves(s) ==
    /\ sess[s].close = "decline"
    /\ asks' = [a \in Ask |-> IF a \in sess[s].taken THEN Answered(asks, a)[a] ELSE asks[a]]
    /\ RemoveSession(s)
    /\ sess' = [sess EXCEPT ![s].close = "check", ![s].taken = {}]
    /\ UNCHANGED <<srv, asked, subs, running, sent, wire, agent, dead, pending, rd, callVars, nsess>>

CloseUnsubscribes(s) ==
    /\ sess[s].close = "check"
    /\ sess' = [sess EXCEPT ![s].close = "call"]
    /\ Register("unsubscribe", s, NoTurn)
    /\ UNCHANGED <<serverVars, agent, dead, reg, rd, nsess>>

\* No unsubscribe on a dead client, nor when the bound leaves no call for it.
CloseSkips(s) ==
    /\ sess[s].close = "check"
    /\ dead \/ ncalls = MaxCalls
    /\ sess' = [sess EXCEPT ![s].close = "finish"]
    /\ UNCHANGED <<serverVars, clientVars, callVars, nsess>>

UnsubscribeReturns(i) ==
    /\ Returns(i, "unsubscribe")
    /\ Done(i)
    /\ sess' = [sess EXCEPT ![call[i].s].close = "finish"]
    /\ UNCHANGED <<serverVars, clientVars, ncalls, nsess>>

CloseFinishes(s) ==
    /\ sess[s].close = "finish"
    /\ sess' = [sess EXCEPT ![s] = Finish([@ EXCEPT !.close = "done"])]
    /\ UNCHANGED <<serverVars, clientVars, callVars, nsess>>

\* Agent.Shutdown kills the process.
Shutdown ==
    /\ agent
    /\ agent' = FALSE
    /\ srv' = "gone"
    /\ asked' = {}
    /\ UNCHANGED <<subs, running, asks, sent, wire, dead, pending, reg, rd, callVars, sessVars>>

Closing(s) ==
    \/ CloseBegins(s) \/ CloseRemoves(s)
    \/ CloseUnsubscribes(s) \/ CloseSkips(s) \/ CloseFinishes(s)

Continuation(i) ==
    \/ StartReturns(i) \/ SendReturns(i) \/ SendAnnounces(i) \/ CompactReturns(i) \/ UnsubscribeReturns(i)

App ==
    \/ \E t \in Thread : Start(t)
    \/ \E s \in Sess : Prompt(s, "turn") \/ Prompt(s, "compact") \/ Interrupt(s) \/ Drop(s)
    \/ \E s \in Sess, a \in Ask : Resolve(s, a)
    \/ Shutdown

----------------------------------------------------------------------------
(***************************************************************************)
(* readLoop.                                                               *)
(***************************************************************************)
\* The next line is a message of kind k.
Reads(k) ==
    /\ rd.at = "read"
    /\ wire # <<>> /\ wire[1].kind = k
    /\ wire' = Tail(wire)

Answer(i, a) == call' = [call EXCEPT ![i].ans = Append(@, a)]

ReadResponse ==
    LET m == wire[1] IN
    /\ Reads("response")
    /\ IF m.call \in pending THEN Answer(m.call, [ok |-> m.ok, turn |-> m.turn]) ELSE UNCHANGED call
    /\ pending' = pending \ {m.call}
    /\ UNCHANGED <<srv, asked, subs, running, asks, sent, agent, dead, reg, rd, ncalls, sessVars>>

\* A notification goes to the session registered for its thread, if any, which
\* becomes x.
Addressee == reg[wire[1].t]
Route(x) == sess' = IF Addressee = NoSess THEN sess ELSE [sess EXCEPT ![Addressee] = x]

\* turn/started, or any item of the turn.
ReadStarted ==
    /\ Reads("started")
    /\ Route(EnsureTurn(sess[Addressee], wire[1].turn))
    /\ UNCHANGED <<srv, asked, subs, running, asks, sent, clientVars, callVars, nsess>>

\* turnCompleted forgets the turn and the approvals nobody answered.
ReadCompleted ==
    /\ Reads("completed")
    /\ Route(Emit([sess[Addressee] EXCEPT !.turnID = NoTurn, !.asks = {}], Ev("completed", wire[1].turn)))
    /\ UNCHANGED <<srv, asked, subs, running, asks, sent, clientVars, callVars, nsess>>

\* threadError ends the turn the session knows of.
ReadError ==
    LET x == sess[Addressee] IN
    /\ Reads("error")
    /\ Route(IF x.turnID = NoTurn THEN x
             ELSE Emit([x EXCEPT !.turnID = NoTurn], Ev("completed", x.turnID)))
    /\ UNCHANGED <<srv, asked, subs, running, asks, sent, clientVars, callVars, nsess>>

\* handleServerRequest: declined when nobody is there to ask.
ReadAsk ==
    LET m == wire[1] IN
    /\ Reads("ask")
    /\ Route([EnsureTurn(sess[Addressee], m.turn) EXCEPT !.asks = @ \cup {m.ask}])
    /\ asks' = IF reg[m.t] = NoSess THEN Answered(asks, m.ask) ELSE asks
    /\ UNCHANGED <<srv, asked, subs, running, sent, clientVars, callVars, nsess>>

\* Mutant: only the sessions are told.
FailForgetsCalls ==
    /\ rd.at = "read" /\ wire = <<>> /\ srv = "gone"
    /\ dead' = TRUE
    /\ rd' = [at |-> "fail", calls |-> {}, sess |-> {reg[t] : t \in Thread} \ {NoSess}]
    /\ pending' = {} /\ reg' = [t \in Thread |-> NoSess]
    /\ UNCHANGED <<serverVars, agent, callVars, sessVars>>

\* Mutant: only the calls are answered.
FailForgetsSessions ==
    /\ rd.at = "read" /\ wire = <<>> /\ srv = "gone"
    /\ dead' = TRUE
    /\ rd' = [at |-> "fail", calls |-> pending, sess |-> {}]
    /\ pending' = {} /\ reg' = [t \in Thread |-> NoSess]
    /\ UNCHANGED <<serverVars, agent, callVars, sessVars>>

\* fail, at the end of the server's output: under the mutex...
Fail ==
    /\ rd.at = "read" /\ wire = <<>> /\ srv = "gone"
    /\ dead' = TRUE
    /\ rd' = [at |-> "fail", calls |-> pending, sess |-> {reg[t] : t \in Thread} \ {NoSess}]
    /\ pending' = {} /\ reg' = [t \in Thread |-> NoSess]
    /\ UNCHANGED <<serverVars, agent, callVars, sessVars>>

\* ...and without it: each call that waited, then each session.
FailAnswers(i) ==
    /\ i \in rd.calls
    /\ rd' = [rd EXCEPT !.calls = @ \ {i}]
    /\ Answer(i, [ok |-> FALSE, turn |-> NoTurn])
    /\ UNCHANGED <<serverVars, agent, dead, pending, reg, ncalls, sessVars>>

FailFinishes(s) ==
    /\ rd.calls = {} /\ s \in rd.sess
    /\ rd' = [rd EXCEPT !.sess = @ \ {s}]
    /\ sess' = [sess EXCEPT ![s] = Finish(@)]
    /\ UNCHANGED <<serverVars, agent, dead, pending, reg, callVars, nsess>>

Reader ==
    \/ ReadResponse \/ ReadStarted \/ ReadCompleted \/ ReadError \/ ReadAsk
    \/ Fail \/ (\E i \in Call : FailAnswers(i)) \/ (\E s \in Sess : FailFinishes(s))

----------------------------------------------------------------------------
(***************************************************************************)
(* The app-server.                                                         *)
(***************************************************************************)
\* It notifies of threads this connection is subscribed to.
Notify(w, t, m) == IF t \in subs THEN Append(w, m) ELSE w

\* The turn of t ends, and with it what it asked for.
EndTurn(t, w) ==
    /\ running' = [running EXCEPT ![t] = NoTurn]
    /\ asks' = [a \in Ask |-> IF asks[a] = [t |-> t, is |-> "open"] THEN [asks[a] EXCEPT !.is = "void"] ELSE asks[a]]
    /\ wire' = Notify(w, t, Note("completed", t, running[t]))

\* It answers call i.
Answers(i, k) ==
    /\ srv = "up"
    /\ i \in asked /\ call[i].kind = k
    /\ asked' = asked \ {i}

ThreadOf(i) == sess[call[i].s].t

ServerStarts(i) ==
    /\ Answers(i, "start")
    /\ subs' = subs \cup {ThreadOf(i)}
    /\ wire' = Append(wire, Response(i, TRUE, NoTurn))
    /\ UNCHANGED <<srv, running, asks, sent, clientVars, callVars, sessVars>>

ServerRuns(i) ==
    LET t == ThreadOf(i)
        turn == sent.turns + 1
    IN
    /\ Answers(i, "turn") \/ Answers(i, "compact")
    /\ running[t] = NoTurn
    /\ sent.turns < MaxTurns
    /\ sent' = [sent EXCEPT !.turns = turn]
    /\ running' = [running EXCEPT ![t] = turn]
    /\ wire' = Notify(Append(wire, Response(i, TRUE, turn)), t, Note("started", t, turn))
    /\ UNCHANGED <<srv, subs, asks, clientVars, callVars, sessVars>>

ServerInterrupts(i) ==
    LET t == ThreadOf(i) IN
    /\ Answers(i, "interrupt")
    /\ running[t] = call[i].turn
    /\ EndTurn(t, Append(wire, Response(i, TRUE, NoTurn)))
    /\ UNCHANGED <<srv, subs, sent, clientVars, callVars, sessVars>>

ServerUnsubscribes(i) ==
    /\ Answers(i, "unsubscribe")
    /\ subs' = subs \ {ThreadOf(i)}
    /\ wire' = Append(wire, Response(i, TRUE, NoTurn))
    /\ UNCHANGED <<srv, running, asks, sent, clientVars, callVars, sessVars>>

ServerRefuses(i) ==
    /\ srv = "up" /\ i \in asked
    /\ asked' = asked \ {i}
    /\ wire' = Append(wire, Response(i, FALSE, NoTurn))
    /\ UNCHANGED <<srv, subs, running, asks, sent, clientVars, callVars, sessVars>>

ServerCompletes(t) ==
    /\ srv = "up" /\ running[t] # NoTurn
    /\ EndTurn(t, wire)
    /\ UNCHANGED <<srv, asked, subs, sent, clientVars, callVars, sessVars>>

ServerAsks(t) ==
    LET a == sent.asks + 1 IN
    /\ srv = "up" /\ running[t] # NoTurn /\ t \in subs
    /\ sent.asks + sent.errors < MaxNotes
    /\ sent' = [sent EXCEPT !.asks = a]
    /\ asks' = [asks EXCEPT ![a] = [t |-> t, is |-> "open"]]
    /\ wire' = Append(wire, AskNote(t, running[t], a))
    /\ UNCHANGED <<srv, asked, subs, running, clientVars, callVars, sessVars>>

ServerErrs(t) ==
    /\ srv = "up" /\ t \in subs
    /\ sent.asks + sent.errors < MaxNotes
    /\ sent' = [sent EXCEPT !.errors = @ + 1]
    /\ wire' = Append(wire, Note("error", t, NoTurn))
    /\ UNCHANGED <<srv, asked, subs, running, asks, clientVars, callVars, sessVars>>

ServerExits ==
    /\ srv = "up"
    /\ srv' = "gone"
    /\ asked' = {}
    /\ UNCHANGED <<subs, running, asks, sent, wire, clientVars, callVars, sessVars>>

Server ==
    \/ \E i \in Call : \/ ServerStarts(i) \/ ServerRuns(i) \/ ServerInterrupts(i)
                      \/ ServerUnsubscribes(i) \/ ServerRefuses(i)
    \/ \E t \in Thread : ServerCompletes(t) \/ ServerAsks(t) \/ ServerErrs(t)
    \/ ServerExits

----------------------------------------------------------------------------
Next ==
    \/ App \/ Reader \/ Server
    \/ \E i \in Call : CallStep(i) \/ Continuation(i)
    \/ \E s \in Sess : Closing(s)

Spec == Init /\ [][Next]_vars

----------------------------------------------------------------------------
(***************************************************************************)
(* Properties.                                                             *)
(***************************************************************************)
\* When fail is done no caller waits for an answer that cannot come: a call is
\* in the map that fail takes, or is refused (client.go:150-185, 373-408).
NoCallForgotten ==
    rd.at = "fail" /\ rd.calls = {} => \A i \in Call : call[i].at = "wait" => call[i].ans # <<>>

\* "Closed is the last event" (agent.go:227), although the reader, Send, fail
\* and Close all emit.
ClosedIsLast ==
    \A s \in Sess : \A n \in 1..Len(sess[s].evs) : sess[s].evs[n].kind = "closed" => n = Len(sess[s].evs)

\* The session the app holds is the one its thread's notifications go to, also
\* when the Close of its predecessor ends after it started (client.go:126-132).
HeldIsRouted ==
    \A s \in Sess : sess[s].app = "held" /\ ~dead => reg[sess[s].t] = s

\* "Every path must write exactly one response" (client.go:306-307): an answer,
\* a Close and the end of a turn never answer one request twice.
AnsweredOnce == \A a \in Ask : asks[a].is # "twice"

\* "Sessions learn about it through the reader loop, which then closes them"
\* (client.go:140-141): when fail is done a session the app holds has ended,
\* unless it was added to the client afterwards (codex.go:163), against "if the
\* process dies, every session bound to it is closed" (codex.go:6-7).
DeathEndsRegistered ==
    rd.at = "fail" /\ rd.calls = {} /\ rd.sess = {} =>
      \A s \in Sess : sess[s].app = "held" => sess[s].ended \/ reg[sess[s].t] = s

============================================================================
