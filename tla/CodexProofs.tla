---------------------------- MODULE CodexProofs ----------------------------
(***************************************************************************)
(* What holds of a codex client and its sessions for any number of         *)
(* threads, sessions, calls, turns and approvals, and an app-server that   *)
(* answers in any order, refuses, or exits at any point.                   *)
(***************************************************************************)
EXTENDS Codex, SequenceTheorems, TLAPS

Message ==
    [kind : {"response"}, call : Call, ok : BOOLEAN, turn : Nat]
      \cup [kind : {"started", "completed", "error"}, t : Thread, turn : Nat]
      \cup [kind : {"ask"}, t : Thread, turn : Nat, ask : Ask]
Reply == [ok : BOOLEAN, turn : Nat]
CallState == [kind : CallKind, s : 0..MaxSess, turn : Nat,
              at : {"none", "write", "wait", "announce", "done"}, ans : Seq(Reply)]
Event == [kind : {"started", "completed", "closed"}, turn : Nat]
SessState == [t : 0..MaxThreads, app : {"none", "starting", "held", "dropped"}, ended : BOOLEAN,
              turnID : Nat, announced : Nat, asks : SUBSET Ask, evs : Seq(Event), busy : BOOLEAN,
              close : {"no", "decline", "check", "call", "finish", "done"}, taken : SUBSET Ask]
AskState == [t : 0..MaxThreads, is : {"none", "open", "void", "answered", "twice"}]

ServerTypes ==
    /\ asked \subseteq Call
    /\ running \in [Thread -> Nat]
    /\ asks \in [Ask -> AskState]
    /\ sent \in [turns : Nat, asks : Nat, errors : Nat] /\ sent.asks + sent.errors <= MaxNotes
    /\ wire \in Seq(Message)
ClientTypes ==
    /\ dead \in BOOLEAN
    /\ pending \subseteq Call
    /\ reg \in [Thread -> 0..MaxSess]
    /\ rd \in [at : {"read", "fail"}, calls : SUBSET Call, sess : SUBSET Sess]
    /\ ncalls \in 0..MaxCalls
    /\ call \in [Call -> CallState]
SessTypes ==
    /\ nsess \in 0..MaxSess
    /\ sess \in [Sess -> SessState]

\* A call is in the map from its registration to its answer; once the client is
\* dead it has its answer, is owed one, or is not written.
CallOf(i) ==
    /\ i > ncalls => call[i].at = "none"
    /\ i \in asked => call[i].at # "none"
    /\ call[i].at # "none" => call[i].s \in 1..nsess
    /\ call[i].at = "announce" => call[i].ans # <<>>
    /\ call[i].at \in {"write", "wait"} /\ ~dead => call[i].ans # <<>> \/ i \in pending
    /\ call[i].at = "wait" /\ dead => call[i].ans # <<>> \/ i \in rd.calls

CallInv == (dead <=> rd.at = "fail") /\ \A i \in Call : CallOf(i)

\* A session is driven by the app from its start until it is dropped, and leaves
\* the registry only then; the app drives one session of a thread at a time.
Driven(s) == sess[s].app \in {"starting", "held"}
Starts(i) == call[i].kind = "start" /\ call[i].at \in {"write", "wait"}

LifeInv ==
    /\ \A s \in Sess : s > nsess => sess[s].app = "none"
    /\ \A s \in Sess : s <= nsess => sess[s].t \in Thread
    /\ \A s \in Sess : sess[s].close \in {"decline", "check"} => sess[s].app = "dropped"
    /\ \A s, r \in Sess : Driven(s) /\ Driven(r) /\ sess[s].t = sess[r].t => s = r
    /\ \A i \in Call : Starts(i) => sess[call[i].s].app = "starting"
    /\ \A i, j \in Call : Starts(i) /\ Starts(j) /\ call[i].s = call[j].s => i = j

\* A session the app holds is registered, or the client is dead and the session
\* has ended or is about to.
RouteInv ==
    \A s \in Sess : sess[s].app = "held" =>
        reg[sess[s].t] = s \/ (dead /\ (sess[s].ended \/ s \in rd.sess))

EventsOf(x) == \A n \in 1..Len(x.evs) : x.evs[n].kind = "closed" => x.ended /\ n = Len(x.evs)
EventsInv == \A s \in Sess : EventsOf(sess[s])

\* Until an approval is answered it is in one place: on the wire, with a session,
\* or with the Close of one.
Unanswered(a) == a <= sent.asks /\ asks[a].is \in {"open", "void"}
With(s) == sess[s].asks \cup sess[s].taken
WireAsks(w) ==
    /\ \A n \in 1..Len(w) : w[n].kind = "ask" => Unanswered(w[n].ask) /\ \A s \in Sess : w[n].ask \notin With(s)
    /\ \A m, n \in 1..Len(w) : w[m].kind = "ask" /\ w[n].kind = "ask" /\ w[m].ask = w[n].ask => m = n
HeldAsks ==
    /\ \A s \in Sess : \A a \in With(s) : Unanswered(a)
    /\ \A s \in Sess : sess[s].asks \cap sess[s].taken = {}
    /\ \A s, r \in Sess : s # r => With(s) \cap With(r) = {}
AskInv == HeldAsks /\ WireAsks(wire) /\ \A a \in Ask : asks[a].is # "twice"

IInv == ServerTypes /\ ClientTypes /\ SessTypes /\ CallInv /\ LifeInv /\ RouteInv /\ EventsInv /\ AskInv

USE CodexAssumption DEF Thread, NoThread, Sess, NoSess, Call, Turn, NoTurn, Ask, CallKind

LEMMA Initially == Init => IInv
<1> SUFFICES ASSUME Init PROVE IInv
  OBVIOUS
<1>1. NoCall \in CallState /\ NotStarted \in SessState
  BY DEF NoCall, NotStarted, CallState, SessState
<1>2. ServerTypes
  BY DEF Init, ServerTypes, AskState
<1>3. ClientTypes /\ SessTypes
  <2>1. SessTypes
    BY <1>1 DEF Init, SessTypes
  <2>2. call \in [Call -> CallState]
    BY <1>1 DEF Init
  <2>3. rd \in [at : {"read", "fail"}, calls : SUBSET Call, sess : SUBSET Sess]
    BY DEF Init, Reading
  <2>4. reg \in [Thread -> 0..MaxSess] /\ ncalls \in 0..MaxCalls
    BY DEF Init
  <2> QED BY <2>1, <2>2, <2>3, <2>4 DEF Init, ClientTypes
<1>4. CallInv
  BY DEF Init, CallInv, CallOf, NoCall, Reading
<1>5. LifeInv /\ RouteInv
  BY DEF Init, LifeInv, RouteInv, Driven, Starts, NotStarted, NoCall
<1>6. EventsInv
  BY DEF Init, EventsInv, EventsOf, NotStarted
<1>7. AskInv
  BY DEF Init, AskInv, HeldAsks, WireAsks, With, NotStarted
<1> QED BY <1>2, <1>3, <1>4, <1>5, <1>6, <1>7 DEF IInv

----------------------------------------------------------------------------
(***************************************************************************)
(* What a step leaves as it is.                                            *)
(***************************************************************************)
\* A session's place in the app does not change, and it does not begin again.
SameLife(x, y) == y.t = x.t /\ y.app = x.app /\ y.close = x.close /\ (x.ended => y.ended)
FewerAsks(x, y) == y.asks \subseteq x.asks /\ y.taken \subseteq x.taken

LEMMA LifeKept ==
    ASSUME LifeInv, RouteInv, UNCHANGED <<dead, reg, rd, nsess>>,
           \A s \in Sess : SameLife(sess[s], sess'[s]),
           \A i \in Call : Starts(i)' => Starts(i) /\ call'[i].s = call[i].s,
           \A i \in Call : Starts(i) => call[i].s \in Sess
    PROVE  LifeInv' /\ RouteInv'
<1>1. \A s \in Sess : Driven(s)' = Driven(s)
  BY DEF Driven, SameLife
<1>2. LifeInv'
  BY <1>1 DEF LifeInv, SameLife
<1>3. RouteInv'
  BY DEF RouteInv, SameLife
<1> QED BY <1>2, <1>3

LEMMA StartsInSess == ASSUME CallInv, SessTypes, NEW i \in Call, call[i].at # "none" PROVE call[i].s \in Sess /\ call[i].s <= nsess
BY DEF CallInv, CallOf, SessTypes

LEMMA AsksKept ==
    ASSUME AskInv, UNCHANGED <<asks, sent, wire>>, \A s \in Sess : FewerAsks(sess[s], sess'[s])
    PROVE  AskInv'
<1>1. \A a : Unanswered(a)' = Unanswered(a)
  BY DEF Unanswered
<1>2. \A s \in Sess : With(s)' \subseteq With(s)
  BY DEF With, FewerAsks
<1>3. HeldAsks'
  BY <1>1, <1>2 DEF AskInv, HeldAsks, FewerAsks
<1>4. WireAsks(wire)'
  BY <1>1, <1>2 DEF AskInv, WireAsks
<1> QED BY <1>3, <1>4 DEF AskInv

----------------------------------------------------------------------------
(***************************************************************************)
(* What a session does under its mutexes.                                  *)
(***************************************************************************)
LEMMA EmitIs ==
    ASSUME NEW x \in SessState, NEW e \in Event, e.kind # "closed", EventsOf(x)
    PROVE  /\ Emit(x, e) \in SessState
           /\ SameLife(x, Emit(x, e)) /\ FewerAsks(x, Emit(x, e))
           /\ EventsOf(Emit(x, e))
<1>1. CASE x.ended
  BY <1>1 DEF Emit, SameLife, FewerAsks
<1>2. CASE ~x.ended
  <2> DEFINE q == Append(x.evs, e)
             y == [x EXCEPT !.evs = q, !.busy = @ /\ e.kind # "completed"]
  <2>1. x.evs \in Seq(Event) /\ q \in Seq(Event)
    BY DEF SessState
  <2>2. Len(q) = Len(x.evs) + 1 /\ (\A n \in 1..Len(x.evs) : q[n] = x.evs[n]) /\ q[Len(x.evs) + 1] = e /\ Len(x.evs) \in Nat
    BY <2>1, AppendProperties
  <2>3. Emit(x, e) = y
    BY <1>2 DEF Emit
  <2> HIDE DEF q
  <2>4. y \in SessState /\ y.evs = q /\ y.t = x.t /\ y.app = x.app /\ y.close = x.close /\ y.ended = x.ended
        /\ y.asks = x.asks /\ y.taken = x.taken
    BY <2>1 DEF SessState
  <2> HIDE DEF y
  <2>5. EventsOf(y)
    <3> SUFFICES ASSUME NEW n \in 1..Len(y.evs), y.evs[n].kind = "closed" PROVE FALSE
      BY DEF EventsOf
    <3>1. CASE n = Len(x.evs) + 1
      BY <2>2, <2>4, <3>1
    <3>2. CASE n # Len(x.evs) + 1
      <4>1. n \in 1..Len(x.evs)
        BY <2>2, <2>4, <3>2
      <4> QED BY <1>2, <2>2, <2>4, <4>1 DEF EventsOf
    <3> QED BY <3>1, <3>2
  <2> QED BY <2>3, <2>4, <2>5 DEF SameLife, FewerAsks
<1> QED BY <1>1, <1>2

LEMMA FinishIs ==
    ASSUME NEW x \in SessState, EventsOf(x)
    PROVE  /\ Finish(x) \in SessState /\ Finish(x).ended
           /\ SameLife(x, Finish(x)) /\ FewerAsks(x, Finish(x))
           /\ EventsOf(Finish(x))
<1>1. CASE x.ended
  BY <1>1 DEF Finish, SameLife, FewerAsks
<1>2. CASE ~x.ended
  <2> DEFINE e == Ev("closed", NoTurn)
             q == Append(x.evs, e)
             y == [x EXCEPT !.evs = q, !.ended = TRUE, !.busy = FALSE]
  <2>1. e \in Event
    BY DEF Ev, Event
  <2>2. x.evs \in Seq(Event) /\ q \in Seq(Event)
    BY <2>1 DEF SessState
  <2> HIDE DEF e
  <2>3. Len(q) = Len(x.evs) + 1 /\ (\A n \in 1..Len(x.evs) : q[n] = x.evs[n]) /\ Len(x.evs) \in Nat
    BY <2>1, <2>2, AppendProperties
  <2>4. Finish(x) = y
    BY <1>2 DEF Finish, e
  <2> HIDE DEF q
  <2>5. y \in SessState /\ y.evs = q /\ y.t = x.t /\ y.app = x.app /\ y.close = x.close /\ y.ended = TRUE
        /\ y.asks = x.asks /\ y.taken = x.taken
    BY <2>2 DEF SessState
  <2>6. EventsOf(y)
    BY <1>2, <2>3, <2>5 DEF EventsOf
  <2> QED BY <2>4, <2>5, <2>6 DEF SameLife, FewerAsks
<1> QED BY <1>1, <1>2

LEMMA EnsureIs ==
    ASSUME NEW x \in SessState, NEW turn \in Nat, EventsOf(x)
    PROVE  /\ EnsureTurn(x, turn) \in SessState
           /\ SameLife(x, EnsureTurn(x, turn)) /\ FewerAsks(x, EnsureTurn(x, turn))
           /\ EventsOf(EnsureTurn(x, turn))
<1>1. CASE x.announced = turn
  BY <1>1 DEF EnsureTurn, SessState, SameLife, FewerAsks, EventsOf
<1>2. CASE x.announced # turn
  <2> DEFINE y == [x EXCEPT !.turnID = turn, !.announced = turn]
             e == Ev("started", turn)
  <2>1. y \in SessState /\ SameLife(x, y) /\ FewerAsks(x, y) /\ EventsOf(y)
    BY DEF SessState, SameLife, FewerAsks, EventsOf
  <2>2. e \in Event /\ e.kind # "closed"
    BY DEF Ev, Event
  <2>3. EnsureTurn(x, turn) = Emit(y, e)
    BY <1>2 DEF EnsureTurn
  <2> HIDE DEF y, e
  <2>4. Emit(y, e) \in SessState /\ SameLife(y, Emit(y, e)) /\ FewerAsks(y, Emit(y, e)) /\ EventsOf(Emit(y, e))
    BY <2>1, <2>2, EmitIs
  <2> QED BY <2>1, <2>3, <2>4 DEF SameLife, FewerAsks
<1> QED BY <1>1, <1>2

----------------------------------------------------------------------------
(***************************************************************************)
(* The wire.                                                               *)
(***************************************************************************)
LEMMA MessageIs ==
    ASSUME NEW m \in Message
    PROVE  /\ m.kind = "ask" => m.t \in Thread /\ m.turn \in Nat /\ m.ask \in Ask
           /\ m.kind \in {"started", "completed", "error"} => m.t \in Thread /\ m.turn \in Nat
           /\ m.kind = "response" => m.call \in Call /\ m.ok \in BOOLEAN /\ m.turn \in Nat
BY DEF Message

LEMMA MessagesAre ==
    /\ \A i \in Call, ok \in BOOLEAN, turn \in Nat :
         Response(i, ok, turn) \in Message /\ Response(i, ok, turn).kind = "response"
    /\ \A k \in {"started", "completed", "error"}, t \in Thread, turn \in Nat :
         Note(k, t, turn) \in Message /\ Note(k, t, turn).kind = k
    /\ \A t \in Thread, turn \in Nat, a \in Ask :
         AskNote(t, turn, a) \in Message /\ AskNote(t, turn, a).kind = "ask" /\ AskNote(t, turn, a).ask = a
BY DEF Response, Note, AskNote, Message

LEMMA WireAppend ==
    ASSUME NEW w \in Seq(Message), WireAsks(w), NEW m \in Message, m.kind # "ask"
    PROVE  Append(w, m) \in Seq(Message) /\ WireAsks(Append(w, m))
<1> DEFINE v == Append(w, m)
<1>1. /\ v \in Seq(Message) /\ Len(w) \in Nat /\ Len(v) = Len(w) + 1
      /\ \A n \in 1..Len(w) : v[n] = w[n]
      /\ v[Len(w) + 1] = m
  BY AppendProperties
<1> HIDE DEF v
<1>2. \A n \in 1..Len(v) : v[n].kind = "ask" => n \in 1..Len(w) /\ v[n] = w[n]
  BY <1>1
<1>3. WireAsks(v)
  BY <1>2 DEF WireAsks
<1> QED BY <1>1, <1>3 DEF v

LEMMA WireTail ==
    ASSUME NEW w \in Seq(Message), w # <<>>, WireAsks(w)
    PROVE  /\ w[1] \in Message
           /\ Tail(w) \in Seq(Message) /\ WireAsks(Tail(w))
           /\ w[1].kind = "ask" =>
                /\ Unanswered(w[1].ask) /\ \A s \in Sess : w[1].ask \notin With(s)
                /\ \A n \in 1..Len(Tail(w)) : Tail(w)[n].kind = "ask" => Tail(w)[n].ask # w[1].ask
<1> DEFINE v == Tail(w)
<1>1. /\ v \in Seq(Message) /\ Len(w) \in Nat /\ Len(w) >= 1 /\ Len(v) = Len(w) - 1
      /\ \A n \in 1..Len(v) : v[n] = w[n + 1]
  <2>1. Len(w) \in Nat /\ Len(w) >= 1 /\ v \in Seq(Message) /\ Len(v) = Len(w) - 1
    BY EmptySeq, HeadTailProperties
  <2>2. \A n \in 1..Len(v) : v[n] = w[n + 1]
    BY <2>1, HeadTailProperties
  <2> QED BY <2>1, <2>2
<1> HIDE DEF v
<1>2. 1 \in 1..Len(w) /\ w[1] \in Message
  BY <1>1
<1>3. \A n \in 1..Len(v) : n + 1 \in 1..Len(w) /\ v[n] = w[n + 1] /\ n + 1 # 1
  BY <1>1
<1>4. \A m, n \in 1..Len(v) : m + 1 = n + 1 => m = n
  BY <1>1
<1>5. WireAsks(v)
  <2>1. ASSUME NEW n \in 1..Len(v), v[n].kind = "ask"
        PROVE  Unanswered(v[n].ask) /\ \A s \in Sess : v[n].ask \notin With(s)
    BY <1>3, <2>1 DEF WireAsks
  <2>2. ASSUME NEW m \in 1..Len(v), NEW n \in 1..Len(v), v[m].kind = "ask", v[n].kind = "ask", v[m].ask = v[n].ask
        PROVE  m = n
    <3>1. m + 1 = n + 1
      BY <1>3, <2>2 DEF WireAsks
    <3> QED BY <1>4, <3>1
  <2> QED BY <2>1, <2>2 DEF WireAsks
<1>6. \A n \in 1..Len(v) : v[n].kind = "ask" /\ w[1].kind = "ask" => v[n].ask # w[1].ask
  BY <1>2, <1>3 DEF WireAsks
<1> QED BY <1>1, <1>2, <1>5, <1>6 DEF v, WireAsks

\* Approvals that are answered have left their places; the others stay unanswered.
LEMMA AsksAnswered ==
    ASSUME HeldAsks, WireAsks(wire'), wire' \in Seq(Message), SessTypes, NEW A \in SUBSET Ask,
           \A a \in Ask \ A : Unanswered(a) => Unanswered(a)',
           \A s \in Sess : FewerAsks(sess[s], sess'[s]) /\ With(s)' \cap A = {},
           \A n \in 1..Len(wire') : wire'[n].kind = "ask" => wire'[n].ask \notin A,
           \A a \in Ask : (asks[a].is # "twice")'
    PROVE  AskInv'
<1>1. \A s \in Sess : With(s)' \subseteq With(s) /\ With(s) \subseteq Ask
  BY DEF With, FewerAsks, SessTypes, SessState
<1>2. HeldAsks'
  <2>1. \A s \in Sess : \A a \in With(s)' : Unanswered(a)'
    BY <1>1 DEF HeldAsks
  <2>2. \A s \in Sess : sess'[s].asks \cap sess'[s].taken = {}
    BY DEF HeldAsks, FewerAsks
  <2>3. \A s, r \in Sess : s # r => With(s)' \cap With(r)' = {}
    BY <1>1 DEF HeldAsks
  <2> QED BY <2>1, <2>2, <2>3 DEF HeldAsks
<1>3. \A n \in 1..Len(wire') : wire'[n].kind = "ask" => wire'[n].ask \in Ask
  BY MessageIs
<1>4. WireAsks(wire)'
  BY <1>1, <1>3 DEF WireAsks
<1> QED BY <1>2, <1>4 DEF AskInv

LEMMA AsksMove ==
    ASSUME HeldAsks, WireAsks(wire'), wire' \in Seq(Message), SessTypes,
           \A a \in Ask : Unanswered(a) => Unanswered(a)',
           \A s \in Sess : FewerAsks(sess[s], sess'[s]),
           \A a \in Ask : (asks[a].is # "twice")'
    PROVE  AskInv'
<1> DEFINE A == {}
<1>1. /\ A \in SUBSET Ask
      /\ \A a \in Ask \ A : Unanswered(a) => Unanswered(a)'
      /\ \A s \in Sess : FewerAsks(sess[s], sess'[s]) /\ With(s)' \cap A = {}
      /\ \A n \in 1..Len(wire') : wire'[n].kind = "ask" => wire'[n].ask \notin A
  OBVIOUS
<1> HIDE DEF A
<1> QED BY <1>1, AsksAnswered

LEMMA AnsweredIs ==
    ASSUME asks \in [Ask -> AskState], NEW a \in Ask, Unanswered(a)
    PROVE  /\ Answered(asks, a) \in [Ask -> AskState]
           /\ Answered(asks, a)[a].is # "twice"
           /\ \A b \in Ask : b # a => Answered(asks, a)[b] = asks[b]
BY DEF Answered, AskState, Unanswered

----------------------------------------------------------------------------
(***************************************************************************)
(* The app-server.                                                         *)
(***************************************************************************)
LEMMA NotifyIs ==
    ASSUME NEW w \in Seq(Message), WireAsks(w), NEW t, NEW m \in Message, m.kind # "ask"
    PROVE  Notify(w, t, m) \in Seq(Message) /\ WireAsks(Notify(w, t, m))
BY WireAppend DEF Notify

\* The end of a turn voids what was open of it.
LEMMA EndTurnIs ==
    ASSUME ServerTypes, AskInv, SessTypes, NEW t \in Thread, NEW w \in Seq(Message), WireAsks(w),
           EndTurn(t, w), UNCHANGED <<sent, sess>>
    PROVE  /\ running' \in [Thread -> Nat] /\ asks' \in [Ask -> AskState] /\ wire' \in Seq(Message)
           /\ AskInv'
<1> DEFINE m == Note("completed", t, running[t])
<1>1. running[t] \in Nat /\ running' \in [Thread -> Nat]
  BY DEF EndTurn, ServerTypes
<1>2. m \in Message /\ m.kind # "ask"
  BY <1>1, MessagesAre
<1>3. wire' = Notify(w, t, m)
  BY DEF EndTurn
<1> HIDE DEF m
<1>4. wire' \in Seq(Message) /\ WireAsks(wire')
  BY <1>2, <1>3, NotifyIs
<1>5. /\ asks' \in [Ask -> AskState]
      /\ \A a \in Ask : asks'[a] = asks[a] \/ (asks[a].is = "open" /\ asks'[a].is = "void")
  <2> DEFINE f(a) == IF asks[a] = [t |-> t, is |-> "open"] THEN [asks[a] EXCEPT !.is = "void"] ELSE asks[a]
  <2>1. asks' = [a \in Ask |-> f(a)]
    BY DEF EndTurn
  <2>2. ASSUME NEW a \in Ask
        PROVE  f(a) \in AskState /\ (f(a) = asks[a] \/ (asks[a].is = "open" /\ f(a).is = "void"))
    <3>1. asks[a] \in AskState
      BY DEF ServerTypes
    <3>2. CASE asks[a] = [t |-> t, is |-> "open"]
      <4>1. f(a) = [t |-> t, is |-> "void"] /\ asks[a].is = "open"
        BY <3>1, <3>2 DEF AskState
      <4> QED BY <4>1 DEF AskState
    <3>3. CASE asks[a] # [t |-> t, is |-> "open"]
      BY <3>1, <3>3
    <3> QED BY <3>2, <3>3
  <2> HIDE DEF f
  <2> QED BY <2>1, <2>2
<1>6. \A a \in Ask : (Unanswered(a) => Unanswered(a)') /\ asks'[a].is # "twice"
  BY <1>5 DEF Unanswered, AskInv
<1>7. \A s \in Sess : FewerAsks(sess[s], sess'[s])
  BY DEF FewerAsks
<1>8. AskInv'
  BY <1>4, <1>6, <1>7, AsksMove DEF AskInv
<1> QED BY <1>1, <1>4, <1>5, <1>8

\* The wire grows by messages that are no approvals.
LEMMA WireGrows ==
    ASSUME AskInv, SessTypes, wire' \in Seq(Message), WireAsks(wire'), UNCHANGED <<asks, sent, sess>>
    PROVE  AskInv'
<1>1. \A a \in Ask : (Unanswered(a) => Unanswered(a)') /\ asks'[a].is # "twice"
  BY DEF Unanswered, AskInv
<1>2. \A s \in Sess : FewerAsks(sess[s], sess'[s])
  BY DEF FewerAsks
<1> QED BY <1>1, <1>2, AsksMove DEF AskInv

LEMMA ServerStep == ASSUME IInv, Server PROVE IInv'
<1>0. ServerTypes /\ ClientTypes /\ SessTypes /\ CallInv /\ LifeInv /\ RouteInv /\ EventsInv /\ AskInv
  BY DEF IInv
<1>1. UNCHANGED <<clientVars, callVars, sessVars>>
  BY DEF Server, ServerStarts, ServerRuns, ServerInterrupts, ServerUnsubscribes, ServerRefuses,
         ServerCompletes, ServerAsks, ServerErrs, ServerExits
<1>2. asked' \subseteq asked
  BY DEF Server, Answers, ServerStarts, ServerRuns, ServerInterrupts, ServerUnsubscribes, ServerRefuses,
         ServerCompletes, ServerAsks, ServerErrs, ServerExits
<1>3. ClientTypes' /\ SessTypes' /\ CallInv' /\ LifeInv' /\ RouteInv' /\ EventsInv'
  <2>1. ClientTypes' /\ SessTypes' /\ EventsInv'
    BY <1>0, <1>1 DEF clientVars, callVars, sessVars, ClientTypes, SessTypes, EventsInv, EventsOf
  <2>2. LifeInv' /\ RouteInv'
    BY <1>0, <1>1 DEF clientVars, callVars, sessVars, LifeInv, RouteInv, Driven, Starts
  <2>3. CallInv'
    BY <1>0, <1>1, <1>2 DEF clientVars, callVars, sessVars, CallInv, CallOf
  <2> QED BY <2>1, <2>2, <2>3
<1>4. \A i \in asked : ThreadOf(i) \in Thread /\ call[i].turn \in Nat
  <2> TAKE i \in asked
  <2>1. i \in Call /\ call[i].at # "none"
    BY <1>0 DEF ServerTypes, CallInv, CallOf
  <2>2. call[i].s \in Sess /\ call[i].s <= nsess
    BY <1>0, <2>1, StartsInSess
  <2> QED BY <1>0, <2>1, <2>2 DEF LifeInv, ThreadOf, ClientTypes, CallState
<1>5. ServerTypes' /\ AskInv'
  <2>0. asked' \subseteq Call /\ sess' = sess /\ wire \in Seq(Message) /\ WireAsks(wire)
    BY <1>0, <1>1, <1>2 DEF ServerTypes, sessVars, AskInv
  <2>1. ASSUME NEW i \in Call, NEW ok \in BOOLEAN, i \in asked, wire' = Append(wire, Response(i, ok, NoTurn)),
               UNCHANGED <<running, asks, sent>>
        PROVE  ServerTypes' /\ AskInv'
    <3> DEFINE m == Response(i, ok, NoTurn)
    <3>1. m \in Message /\ m.kind # "ask"
      BY MessagesAre
    <3> HIDE DEF m
    <3>2. wire' \in Seq(Message) /\ WireAsks(wire')
      BY <2>0, <2>1, <3>1, WireAppend DEF m
    <3>3. AskInv'
      BY <1>0, <2>0, <2>1, <3>2, WireGrows
    <3>4. ServerTypes'
      BY <1>0, <2>0, <2>1, <3>2 DEF ServerTypes
    <3> QED BY <3>3, <3>4
  <2>2. ASSUME NEW i \in Call, ServerStarts(i) \/ ServerUnsubscribes(i) \/ ServerRefuses(i) PROVE ServerTypes' /\ AskInv'
    BY <2>1, <2>2 DEF ServerStarts, ServerUnsubscribes, ServerRefuses, Answers
  <2>3. ASSUME NEW i \in Call, ServerRuns(i) PROVE ServerTypes' /\ AskInv'
    <3> DEFINE t == ThreadOf(i)
               turn == sent.turns + 1
               r == Response(i, TRUE, turn)
               m == Note("started", t, turn)
               w == Append(wire, r)
    <3>1. t \in Thread /\ turn \in Nat
      BY <1>0, <1>4, <2>3 DEF ServerRuns, Answers, ServerTypes
    <3>2. r \in Message /\ r.kind # "ask" /\ m \in Message /\ m.kind # "ask"
      BY <3>1, MessagesAre
    <3>3. wire' = Notify(w, t, m)
      BY <2>3 DEF ServerRuns
    <3> HIDE DEF r, m, t
    <3>4. w \in Seq(Message) /\ WireAsks(w)
      BY <2>0, <3>2, WireAppend
    <3> HIDE DEF w
    <3>5. wire' \in Seq(Message) /\ WireAsks(wire')
      BY <3>2, <3>3, <3>4, NotifyIs
    <3>6. asks' = asks /\ sent' = [sent EXCEPT !.turns = turn] /\ running' = [running EXCEPT ![t] = turn]
      BY <2>3 DEF ServerRuns, t
    <3>7. sent' \in [turns : Nat, asks : Nat, errors : Nat] /\ sent'.asks = sent.asks /\ sent'.errors = sent.errors
      BY <1>0, <3>1, <3>6 DEF ServerTypes
    <3>8. ServerTypes'
      BY <1>0, <2>0, <3>1, <3>5, <3>6, <3>7 DEF ServerTypes
    <3>9. AskInv'
      <4>1. \A a \in Ask : (Unanswered(a) => Unanswered(a)') /\ asks'[a].is # "twice"
        BY <1>0, <3>6, <3>7 DEF Unanswered, AskInv
      <4>2. \A s \in Sess : FewerAsks(sess[s], sess'[s])
        BY <2>0 DEF FewerAsks
      <4> QED BY <1>0, <3>5, <4>1, <4>2, AsksMove DEF AskInv
    <3> QED BY <3>8, <3>9
  <2>4. ASSUME NEW i \in Call, ServerInterrupts(i) PROVE ServerTypes' /\ AskInv'
    <3> DEFINE w == Append(wire, Response(i, TRUE, NoTurn))
    <3>1. w \in Seq(Message) /\ WireAsks(w)
      BY <2>0, WireAppend, MessagesAre
    <3>2. EndTurn(ThreadOf(i), w) /\ ThreadOf(i) \in Thread /\ UNCHANGED <<sent, sess>>
      BY <1>4, <2>0, <2>4 DEF ServerInterrupts, Answers
    <3> HIDE DEF w
    <3> QED BY <1>0, <2>0, <3>1, <3>2, EndTurnIs DEF ServerTypes
  <2>5. ASSUME NEW t \in Thread, ServerCompletes(t) PROVE ServerTypes' /\ AskInv'
    <3>1. EndTurn(t, wire) /\ UNCHANGED <<sent, sess>>
      BY <2>0, <2>5 DEF ServerCompletes
    <3> QED BY <1>0, <2>0, <3>1, EndTurnIs DEF ServerTypes
  <2>6. ASSUME NEW t \in Thread, ServerAsks(t) PROVE ServerTypes' /\ AskInv'
    <3>a. PICK a \in Nat : a = sent.asks + 1
      BY <1>0 DEF ServerTypes
    <3> DEFINE m == AskNote(t, running[t], a)
    <3>1. a \in Ask /\ a \in Nat /\ running[t] \in Nat
      BY <1>0, <2>6, <3>a DEF ServerAsks, ServerTypes
    <3>2. m \in Message /\ m.kind = "ask" /\ m.ask = a
      BY <3>1, MessagesAre
    <3>3. /\ wire' = Append(wire, m) /\ running' = running
          /\ sent' = [sent EXCEPT !.asks = a]
          /\ asks' = [asks EXCEPT ![a] = [t |-> t, is |-> "open"]]
      BY <2>6, <3>a DEF ServerAsks
    <3>4. /\ sent' \in [turns : Nat, asks : Nat, errors : Nat] /\ sent'.asks = a
          /\ sent'.asks + sent'.errors <= MaxNotes
          /\ asks' \in [Ask -> AskState]
          /\ asks'[a].is = "open" /\ \A b \in Ask : b # a => asks'[b] = asks[b]
      <4>1. sent' \in [turns : Nat, asks : Nat, errors : Nat] /\ sent'.asks = a /\ sent'.errors = sent.errors
        BY <1>0, <3>1, <3>3 DEF ServerTypes
      <4>2. sent'.asks + sent'.errors <= MaxNotes
        BY <1>0, <2>6, <3>a, <4>1 DEF ServerAsks, ServerTypes
      <4>3. [t |-> t, is |-> "open"] \in AskState
        BY DEF AskState
      <4>4. asks' \in [Ask -> AskState] /\ asks'[a].is = "open" /\ \A b \in Ask : b # a => asks'[b] = asks[b]
        BY <1>0, <3>1, <3>3, <4>3 DEF ServerTypes
      <4> QED BY <4>1, <4>2, <4>4
    <3> HIDE DEF m
    <3>5. ~Unanswered(a) /\ Unanswered(a)' /\ \A b \in Ask : Unanswered(b) => Unanswered(b)'
      <4>1. sent.asks \in Nat
        BY <1>0 DEF ServerTypes
      <4>2. ~Unanswered(a)
        BY <3>a, <4>1 DEF Unanswered
      <4>3. Unanswered(a)'
        BY <3>1, <3>4 DEF Unanswered
      <4>4. ASSUME NEW b \in Ask, Unanswered(b) PROVE Unanswered(b)'
        <5>1. b <= sent.asks /\ b # a
          BY <3>a, <4>1, <4>4 DEF Unanswered
        <5>2. asks'[b] = asks[b] /\ b <= sent'.asks
          BY <3>4, <3>a, <4>1, <5>1
        <5> QED BY <4>4, <5>2 DEF Unanswered
      <4> QED BY <4>2, <4>3, <4>4
    <3>6. \A s \in Sess : a \notin With(s)
      BY <1>0, <3>5 DEF AskInv, HeldAsks
    <3>7. \A n \in 1..Len(wire) : wire[n].kind = "ask" => wire[n].ask # a /\ wire[n].ask \in Ask
      BY <2>0, <3>5, MessageIs DEF WireAsks
    <3>8. \A s \in Sess : With(s)' = With(s) /\ With(s) \subseteq Ask
      BY <1>0, <2>0 DEF With, SessTypes, SessState
    <3>9. HeldAsks'
      BY <1>0, <2>0, <3>5, <3>8 DEF AskInv, HeldAsks
    <3>b. PICK v : v = wire'
      OBVIOUS
    <3>c. PICK k \in Nat : k = Len(wire)
      BY <2>0
    <3>10. /\ v \in Seq(Message) /\ Len(v) = k + 1 /\ v[k + 1] = m
           /\ \A n \in 1..k : v[n] = wire[n]
      BY <2>0, <3>2, <3>3, <3>b, <3>c, AppendProperties
    <3>11. ASSUME NEW n \in 1..Len(v), v[n].kind = "ask"
           PROVE  \/ n \in 1..k /\ v[n] = wire[n] /\ v[n].ask \in Ask /\ v[n].ask # a
                  \/ n = k + 1 /\ v[n].ask = a
      <4>1. CASE n = k + 1
        BY <3>2, <3>10, <4>1
      <4>2. CASE n # k + 1
        <5>1. n \in 1..k
          BY <3>10, <4>2
        <5> QED BY <3>7, <3>10, <3>11, <3>c, <5>1
      <4> QED BY <4>1, <4>2
    <3>12. ASSUME NEW n \in 1..Len(v), v[n].kind = "ask"
           PROVE  Unanswered(v[n].ask)' /\ \A s \in Sess : v[n].ask \notin With(s)'
      <4>1. CASE n \in 1..k /\ v[n] = wire[n] /\ v[n].ask \in Ask
        <5>1. Unanswered(wire[n].ask) /\ \A s \in Sess : wire[n].ask \notin With(s)
          BY <2>0, <3>12, <3>c, <4>1 DEF WireAsks
        <5>2. PICK b \in Ask : b = v[n].ask
          BY <4>1
        <5>3. Unanswered(b)' /\ \A s \in Sess : b \notin With(s)'
          BY <3>5, <3>8, <4>1, <5>1, <5>2
        <5> QED BY <5>2, <5>3
      <4>2. CASE v[n].ask = a
        BY <3>5, <3>6, <3>8, <4>2
      <4> QED BY <3>11, <3>12, <4>1, <4>2
    <3>13. WireAsks(wire)'
      <4>1. ASSUME NEW i \in 1..Len(v), NEW n \in 1..Len(v), v[i].kind = "ask", v[n].kind = "ask", v[i].ask = v[n].ask
            PROVE  i = n
        <5>1. CASE i \in 1..k /\ v[i] = wire[i] /\ n \in 1..k /\ v[n] = wire[n]
          BY <2>0, <3>c, <4>1, <5>1 DEF WireAsks
        <5> QED BY <3>11, <4>1, <5>1
      <4> QED BY <3>12, <3>b, <4>1 DEF WireAsks
    <3>14. \A b \in Ask : asks'[b].is # "twice"
      BY <1>0, <3>4 DEF AskInv
    <3>15. AskInv'
      BY <3>9, <3>13, <3>14 DEF AskInv
    <3> QED BY <1>0, <2>0, <3>3, <3>4, <3>10, <3>15, <3>b DEF ServerTypes
  <2>7. ASSUME NEW t \in Thread, ServerErrs(t) PROVE ServerTypes' /\ AskInv'
    <3>1. wire' \in Seq(Message) /\ WireAsks(wire')
      <4>1. wire' = Append(wire, Note("error", t, NoTurn))
        BY <2>7 DEF ServerErrs
      <4> QED BY <2>0, <4>1, WireAppend, MessagesAre
    <3>2. /\ running' = running /\ asks' = asks
          /\ sent' \in [turns : Nat, asks : Nat, errors : Nat] /\ sent'.asks = sent.asks
          /\ sent'.asks + sent'.errors <= MaxNotes
      <4>1. running' = running /\ asks' = asks
        BY <2>7 DEF ServerErrs
      <4>2. sent' = [sent EXCEPT !.errors = sent.errors + 1] /\ sent.asks + sent.errors < MaxNotes
        BY <2>7 DEF ServerErrs
      <4>3. sent' \in [turns : Nat, asks : Nat, errors : Nat] /\ sent'.asks = sent.asks /\ sent'.errors = sent.errors + 1
        BY <1>0, <4>2 DEF ServerTypes
      <4>4. sent'.asks + sent'.errors <= MaxNotes
        BY <1>0, <4>2, <4>3 DEF ServerTypes
      <4> QED BY <4>1, <4>3, <4>4
    <3>3. \A a \in Ask : (Unanswered(a) => Unanswered(a)') /\ asks'[a].is # "twice"
      BY <1>0, <3>2 DEF Unanswered, AskInv
    <3>4. \A s \in Sess : FewerAsks(sess[s], sess'[s])
      BY <2>0 DEF FewerAsks
    <3>5. AskInv'
      BY <1>0, <3>1, <3>3, <3>4, AsksMove DEF AskInv
    <3> QED BY <1>0, <2>0, <3>1, <3>2, <3>5 DEF ServerTypes
  <2>8. ASSUME ServerExits PROVE ServerTypes' /\ AskInv'
    <3>1. UNCHANGED <<running, asks, sent, wire>>
      BY <2>8 DEF ServerExits
    <3>2. AskInv'
      BY <1>0, <2>0, <3>1, WireGrows
    <3> QED BY <1>0, <2>0, <3>1, <3>2 DEF ServerTypes
  <2> QED BY <2>2, <2>3, <2>4, <2>5, <2>6, <2>7, <2>8 DEF Server
<1> QED BY <1>3, <1>5 DEF IInv

----------------------------------------------------------------------------
(***************************************************************************)
(* The reader.                                                             *)
(***************************************************************************)
\* A step of sessions alone.
LEMMA SessionsGo ==
    ASSUME IInv, UNCHANGED <<asked, dead, pending, reg, rd, callVars, nsess>>, sess' \in [Sess -> SessState],
           \A s \in Sess : SameLife(sess[s], sess'[s]) /\ EventsOf(sess'[s])
    PROVE  ClientTypes' /\ SessTypes' /\ CallInv' /\ LifeInv' /\ RouteInv' /\ EventsInv'
<1>1. ClientTypes' /\ SessTypes' /\ EventsInv'
  BY DEF IInv, ClientTypes, SessTypes, EventsInv, callVars
<1>2. CallInv'
  BY DEF IInv, CallInv, CallOf, callVars
<1>3. LifeInv' /\ RouteInv'
  <2>1. \A i \in Call : (Starts(i)' => Starts(i)) /\ call'[i].s = call[i].s
    BY DEF Starts, callVars
  <2>2. \A i \in Call : Starts(i) => call[i].s \in Sess
    BY StartsInSess DEF Starts, IInv
  <2> QED BY <2>1, <2>2, LifeKept DEF IInv
<1> QED BY <1>1, <1>2, <1>3

LEMMA NoteStep == ASSUME IInv, ReadStarted \/ ReadCompleted \/ ReadError \/ ReadAsk PROVE IInv'
<1>0. ServerTypes /\ ClientTypes /\ SessTypes /\ EventsInv /\ AskInv
  BY DEF IInv
<1>1. /\ wire \in Seq(Message) /\ wire # <<>> /\ wire' = Tail(wire)
      /\ UNCHANGED <<asked, running, sent, dead, pending, reg, rd, callVars, nsess>>
      /\ wire[1].kind \in {"started", "completed", "error", "ask"}
  BY <1>0 DEF ReadStarted, ReadCompleted, ReadError, ReadAsk, Reads, ServerTypes, clientVars
<1>2. /\ wire[1] \in Message /\ wire' \in Seq(Message) /\ WireAsks(wire')
      /\ wire[1].t \in Thread /\ wire[1].turn \in Nat
  BY <1>0, <1>1, WireTail, MessageIs DEF AskInv
<1> DEFINE r == Addressee
           x == sess[r]
           turn == wire[1].turn
<1>3. r \in 0..MaxSess /\ (r # NoSess => r \in Sess /\ x \in SessState /\ EventsOf(x))
  BY <1>0, <1>2 DEF Addressee, ClientTypes, SessTypes, EventsInv
<1>4. ASSUME NEW y, r # NoSess => y \in SessState /\ SameLife(x, y) /\ EventsOf(y), Route(y)
      PROVE  /\ ClientTypes' /\ SessTypes' /\ CallInv' /\ LifeInv' /\ RouteInv' /\ EventsInv'
             /\ \A s \in Sess : sess'[s] = IF s = r THEN y ELSE sess[s]
  <2>1. sess' \in [Sess -> SessState]
    BY <1>0, <1>3, <1>4 DEF Route, SessTypes
  <2>2. \A s \in Sess : sess'[s] = IF s = r THEN y ELSE sess[s]
    BY <1>0, <1>3, <1>4 DEF Route, SessTypes
  <2>3. \A s \in Sess : SameLife(sess[s], sess'[s]) /\ EventsOf(sess'[s])
    BY <1>0, <1>3, <1>4, <2>2 DEF SameLife, EventsInv
  <2> QED BY <1>1, <2>1, <2>2, <2>3, SessionsGo
<1>5. ASSUME UNCHANGED asks, \A s \in Sess : FewerAsks(sess[s], sess'[s]) PROVE AskInv'
  <2>1. \A a \in Ask : (Unanswered(a) => Unanswered(a)') /\ asks'[a].is # "twice"
    BY <1>0, <1>1, <1>5 DEF Unanswered, AskInv
  <2> QED BY <1>0, <1>2, <1>5, <2>1, AsksMove DEF AskInv
<1>6. CASE ReadStarted
  <2> DEFINE y == EnsureTurn(x, turn)
  <2>1. Route(y) /\ asks' = asks
    BY <1>6 DEF ReadStarted
  <2>2. r # NoSess => y \in SessState /\ SameLife(x, y) /\ FewerAsks(x, y) /\ EventsOf(y)
    BY <1>2, <1>3, EnsureIs
  <2> HIDE DEF y, x, r
  <2>3. \A s \in Sess : FewerAsks(sess[s], sess'[s])
    BY <1>3, <1>4, <2>1, <2>2 DEF FewerAsks, x
  <2> QED BY <1>0, <1>1, <1>2, <1>4, <1>5, <2>1, <2>2, <2>3 DEF IInv, ServerTypes
<1>7. CASE ReadCompleted
  <2> DEFINE z == [x EXCEPT !.turnID = NoTurn, !.asks = {}]
             e == Ev("completed", turn)
             y == Emit(z, e)
  <2>1. Route(y) /\ asks' = asks
    BY <1>7 DEF ReadCompleted
  <2>2. e \in Event /\ e.kind # "closed"
    BY <1>2 DEF Ev, Event
  <2>3. r # NoSess => z \in SessState /\ SameLife(x, z) /\ FewerAsks(x, z) /\ EventsOf(z)
    BY <1>3 DEF SessState, SameLife, FewerAsks, EventsOf
  <2> HIDE DEF z, e, x, r
  <2>4. r # NoSess => y \in SessState /\ SameLife(z, y) /\ FewerAsks(z, y) /\ EventsOf(y)
    BY <2>2, <2>3, EmitIs
  <2> HIDE DEF y
  <2>5. r # NoSess => y \in SessState /\ SameLife(x, y) /\ FewerAsks(x, y) /\ EventsOf(y)
    BY <2>3, <2>4 DEF SameLife, FewerAsks
  <2>6. \A s \in Sess : FewerAsks(sess[s], sess'[s])
    BY <1>3, <1>4, <2>1, <2>5 DEF FewerAsks, x
  <2> QED BY <1>0, <1>1, <1>2, <1>4, <1>5, <2>1, <2>5, <2>6 DEF IInv, ServerTypes
<1>8. CASE ReadError
  <2> DEFINE z == [x EXCEPT !.turnID = NoTurn]
             e == Ev("completed", x.turnID)
             y == IF x.turnID = NoTurn THEN x ELSE Emit(z, e)
  <2>1. Route(y) /\ asks' = asks
    BY <1>8 DEF ReadError
  <2>2. r # NoSess => e \in Event /\ e.kind # "closed"
    BY <1>3 DEF Ev, Event, SessState
  <2>3. r # NoSess => z \in SessState /\ SameLife(x, z) /\ FewerAsks(x, z) /\ EventsOf(z)
    BY <1>3 DEF SessState, SameLife, FewerAsks, EventsOf
  <2> HIDE DEF z, e, x, r
  <2>4. r # NoSess => Emit(z, e) \in SessState /\ SameLife(z, Emit(z, e)) /\ FewerAsks(z, Emit(z, e)) /\ EventsOf(Emit(z, e))
    BY <2>2, <2>3, EmitIs
  <2>5. r # NoSess => y \in SessState /\ SameLife(x, y) /\ FewerAsks(x, y) /\ EventsOf(y)
    BY <1>3, <2>3, <2>4 DEF SameLife, FewerAsks
  <2> HIDE DEF y
  <2>6. \A s \in Sess : FewerAsks(sess[s], sess'[s])
    BY <1>3, <1>4, <2>1, <2>5 DEF FewerAsks, x
  <2> QED BY <1>0, <1>1, <1>2, <1>4, <1>5, <2>1, <2>5, <2>6 DEF IInv, ServerTypes
<1>9. CASE ReadAsk
  <2> DEFINE z == EnsureTurn(x, turn)
             y == [z EXCEPT !.asks = @ \cup {wire[1].ask}]
  <2>1. Route(y) /\ wire[1].kind = "ask"
        /\ asks' = IF r = NoSess THEN Answered(asks, wire[1].ask) ELSE asks
    BY <1>9 DEF ReadAsk, Reads, Addressee
  <2>2. PICK a \in Ask : a = wire[1].ask
    BY <1>2, <2>1, MessageIs
  <2>3. /\ Unanswered(a) /\ \A s \in Sess : a \notin With(s)
        /\ \A n \in 1..Len(wire') : wire'[n].kind = "ask" => wire'[n].ask # a /\ wire'[n].ask \in Ask
    BY <1>0, <1>1, <1>2, <2>1, <2>2, WireTail, MessageIs DEF AskInv
  <2>4. r # NoSess => z \in SessState /\ SameLife(x, z) /\ FewerAsks(x, z) /\ EventsOf(z)
    BY <1>2, <1>3, EnsureIs
  <2> HIDE DEF z, x, r
  <2>5. r # NoSess => /\ y \in SessState /\ SameLife(x, y) /\ EventsOf(y)
                      /\ y.asks \subseteq x.asks \cup {a} /\ y.taken \subseteq x.taken
    BY <2>2, <2>4 DEF SameLife, FewerAsks, SessState, EventsOf
  <2> HIDE DEF y
  <2>6. \A s \in Sess : sess'[s] = IF s = r THEN y ELSE sess[s]
    BY <1>4, <2>1, <2>5
  <2>7. asks' \in [Ask -> AskState] /\ AskInv'
    <3>1. CASE r = NoSess
      <4>1. /\ asks' \in [Ask -> AskState] /\ asks'[a].is # "twice"
            /\ \A b \in Ask : b # a => asks'[b] = asks[b]
        BY <1>0, <2>1, <2>2, <2>3, <3>1, AnsweredIs DEF ServerTypes
      <4>2. \A b \in Ask : asks'[b].is # "twice" /\ (b \notin {a} /\ Unanswered(b) => Unanswered(b)')
        BY <1>0, <1>1, <4>1 DEF Unanswered, AskInv
      <4>3. \A s \in Sess : FewerAsks(sess[s], sess'[s]) /\ With(s)' \cap {a} = {}
        BY <2>3, <2>6, <3>1 DEF FewerAsks, With
      <4>4. {a} \in SUBSET Ask /\ \A n \in 1..Len(wire') : wire'[n].kind = "ask" => wire'[n].ask \notin {a}
        BY <2>3
      <4> QED BY <1>0, <1>2, <4>1, <4>2, <4>3, <4>4, AsksAnswered DEF AskInv
    <3>2. CASE r # NoSess
      <4>1. asks' = asks /\ r \in Sess
        BY <1>3, <2>1, <3>2 DEF r
      <4>a. PICK q \in Sess : q = r
        BY <4>1
      <4>b. sess'[q] = y /\ y.asks \subseteq sess[q].asks \cup {a} /\ y.taken \subseteq sess[q].taken
        BY <2>5, <2>6, <3>2, <4>a DEF x
      <4>2. \A b : Unanswered(b)' = Unanswered(b)
        BY <1>1, <4>1 DEF Unanswered
      <4>3. \A s \in Sess : s # q => With(s)' = With(s)
        BY <2>6, <4>a DEF With
      <4>4. With(q)' \subseteq With(q) \cup {a} /\ a \notin With(q)
        BY <2>3, <4>b DEF With
      <4>5. sess'[q].asks \cap sess'[q].taken = {}
        BY <1>0, <2>3, <4>b DEF AskInv, HeldAsks, With
      <4>6. HeldAsks'
        <5>1. \A s \in Sess : \A b \in With(s)' : Unanswered(b)'
          BY <1>0, <2>3, <4>2, <4>3, <4>4 DEF AskInv, HeldAsks
        <5>2. \A s \in Sess : sess'[s].asks \cap sess'[s].taken = {}
          BY <1>0, <2>6, <4>5, <4>a DEF AskInv, HeldAsks
        <5>3. ASSUME NEW s \in Sess, NEW o \in Sess, s # o PROVE With(s)' \cap With(o)' = {}
          <6>1. With(s) \cap With(o) = {} /\ a \notin With(s) /\ a \notin With(o)
            BY <1>0, <2>3, <5>3 DEF AskInv, HeldAsks
          <6>2. With(s)' \subseteq With(s) \/ With(o)' \subseteq With(o)
            BY <4>3, <5>3
          <6>3. With(s)' \subseteq With(s) \cup {a} /\ With(o)' \subseteq With(o) \cup {a}
            BY <4>3, <4>4
          <6> QED BY <6>1, <6>2, <6>3
        <5> QED BY <5>1, <5>2, <5>3 DEF HeldAsks
      <4>7. WireAsks(wire)'
        <5>1. \A s \in Sess : With(s)' \subseteq With(s) \cup {a}
          BY <4>3, <4>4
        <5> QED BY <1>2, <2>3, <4>2, <5>1 DEF WireAsks
      <4> QED BY <1>0, <4>1, <4>6, <4>7 DEF AskInv, ServerTypes
    <3> QED BY <3>1, <3>2
  <2> QED BY <1>0, <1>1, <1>2, <1>4, <2>1, <2>5, <2>7 DEF IInv, ServerTypes
<1> QED BY <1>6, <1>7, <1>8, <1>9

----------------------------------------------------------------------------
(***************************************************************************)
(* Calls.                                                                  *)
(***************************************************************************)
LEMMA AnswerIs ==
    ASSUME ClientTypes, NEW i \in Call, NEW a \in Reply, Answer(i, a)
    PROVE  /\ call' \in [Call -> CallState]
           /\ call'[i].ans # <<>>
           /\ \A j \in Call : j # i => call'[j] = call[j]
           /\ \A j \in Call : call'[j].kind = call[j].kind /\ call'[j].s = call[j].s /\ call'[j].at = call[j].at
<1> DEFINE q == Append(call[i].ans, a)
<1>1. call \in [Call -> CallState] /\ call[i].ans \in Seq(Reply)
  BY DEF ClientTypes, CallState
<1>2. q \in Seq(Reply) /\ q # <<>>
  BY <1>1, AppendProperties
<1>3. call' = [call EXCEPT ![i].ans = q]
  BY DEF Answer
<1> HIDE DEF q
<1> QED BY <1>1, <1>2, <1>3 DEF CallState

LEMMA DoneIs ==
    ASSUME ClientTypes, NEW i \in Call, Done(i)
    PROVE  /\ call' \in [Call -> CallState]
           /\ call'[i].at = "done" /\ call'[i].s = call[i].s
           /\ \A j \in Call : j # i => call'[j] = call[j]
<1>1. call \in [Call -> CallState] /\ <<>> \in Seq(Reply)
  BY DEF ClientTypes
<1>2. call' = [call EXCEPT ![i].at = "done", ![i].ans = <<>>]
  BY DEF Done
<1> QED BY <1>1, <1>2 DEF CallState

\* A call that is done keeps no other from its answer.
LEMMA DoneCalls ==
    ASSUME CallInv, ClientTypes, NEW i \in Call, call[i].at # "none", Done(i),
           UNCHANGED <<asked, dead, rd, ncalls, nsess>>, pending \ {i} \subseteq pending'
    PROVE  CallInv'
<1>1. /\ call'[i].at = "done" /\ call'[i].s = call[i].s
      /\ \A j \in Call : j # i => call'[j] = call[j]
  BY DoneIs
<1>2. CallOf(i)'
  BY <1>1 DEF CallInv, CallOf
<1>3. ASSUME NEW j \in Call, j # i PROVE CallOf(j)'
  BY <1>1, <1>3 DEF CallInv, CallOf
<1> QED BY <1>2, <1>3 DEF CallInv

LEMMA RegisterIs ==
    ASSUME CallInv, ClientTypes, SessTypes, NEW k \in CallKind, NEW s \in Sess, NEW turn \in Nat,
           Register(k, s, turn), nsess' \in Nat, nsess <= nsess', s <= nsess', UNCHANGED <<asked, dead, rd>>
    PROVE  /\ ncalls' \in Call /\ call[ncalls'].at = "none"
           /\ call' \in [Call -> CallState] /\ pending' \subseteq Call
           /\ call'[ncalls'].kind = k /\ call'[ncalls'].s = s /\ call'[ncalls'].at = "write"
           /\ \A j \in Call : j # ncalls' => call'[j] = call[j]
           /\ CallInv'
<1>1. PICK n \in Call : n = ncalls + 1 /\ n = ncalls'
  BY DEF Register, ClientTypes
<1> DEFINE c == [kind |-> k, s |-> s, turn |-> turn, at |-> "write", ans |-> <<>>]
<1>2. c \in CallState
  BY DEF CallState
<1>3. call' = [call EXCEPT ![n] = c] /\ pending' = pending \cup {n} /\ ~dead
  BY <1>1 DEF Register
<1>4. call' \in [Call -> CallState] /\ call'[n] = c /\ \A j \in Call : j # n => call'[j] = call[j]
  BY <1>2, <1>3 DEF ClientTypes
<1>5. call[n].at = "none" /\ n \notin asked
  BY <1>1 DEF CallInv, CallOf, ClientTypes
<1>6. CallOf(n)'
  BY <1>1, <1>3, <1>4, <1>5 DEF CallOf
<1>7. ASSUME NEW j \in Call, j # n PROVE CallOf(j)'
  <2>1. CallOf(j) /\ call'[j] = call[j] /\ (j > ncalls' => j > ncalls)
    BY <1>1, <1>4, <1>7 DEF CallInv, ClientTypes
  <2> QED BY <1>3, <2>1 DEF CallOf, SessTypes
<1> QED BY <1>1, <1>3, <1>4, <1>5, <1>6, <1>7 DEF CallInv, ClientTypes

\* Sessions are driven by the app no longer than before, and those that start go on.
LEMMA LifeMoves ==
    ASSUME LifeInv, nsess' = nsess,
           \A s \in Sess : /\ sess'[s].t = sess[s].t /\ (Driven(s)' => Driven(s))
                            /\ (sess[s].app = "none" => sess'[s].app = "none")
                            /\ (sess'[s].close \in {"decline", "check"} => sess'[s].app = "dropped"),
           \A i \in Call : Starts(i)' => Starts(i) /\ call'[i].s = call[i].s /\ sess'[call[i].s].app = "starting"
    PROVE  LifeInv'
<1>1. \A s \in Sess : s > nsess' => sess'[s].app = "none"
  BY DEF LifeInv
<1>2. \A s \in Sess : s <= nsess' => sess'[s].t \in Thread
  BY DEF LifeInv
<1>3. \A s, r \in Sess : Driven(s)' /\ Driven(r)' /\ sess'[s].t = sess'[r].t => s = r
  BY DEF LifeInv
<1>4. \A i \in Call : Starts(i)' => sess'[call'[i].s].app = "starting"
  OBVIOUS
<1>5. \A i, j \in Call : Starts(i)' /\ Starts(j)' /\ call'[i].s = call'[j].s => i = j
  BY DEF LifeInv
<1> QED BY <1>1, <1>2, <1>3, <1>4, <1>5 DEF LifeInv

LEMMA ResponseStep == ASSUME IInv, ReadResponse PROVE IInv'
<1>0. ServerTypes /\ ClientTypes /\ SessTypes /\ CallInv /\ AskInv
  BY DEF IInv
<1>1. /\ wire \in Seq(Message) /\ wire # <<>> /\ wire' = Tail(wire) /\ wire[1].kind = "response"
      /\ UNCHANGED <<srv, asked, subs, running, asks, sent, agent, dead, reg, rd, ncalls, sessVars>>
      /\ pending' = pending \ {wire[1].call}
  BY <1>0 DEF ReadResponse, Reads, ServerTypes
<1>2. wire[1] \in Message /\ wire' \in Seq(Message) /\ WireAsks(wire')
  BY <1>0, <1>1, WireTail DEF AskInv
<1>3. PICK i \in Call : i = wire[1].call
  BY <1>1, <1>2, MessageIs
<1> DEFINE a == [ok |-> wire[1].ok, turn |-> wire[1].turn]
<1>4. a \in Reply
  BY <1>1, <1>2, MessageIs DEF Reply
<1>5. (i \in pending /\ Answer(i, a)) \/ (i \notin pending /\ call' = call)
  BY <1>3 DEF ReadResponse
<1> HIDE DEF a
<1>6. /\ call' \in [Call -> CallState]
      /\ \A j \in Call : j # i => call'[j] = call[j]
      /\ \A j \in Call : call'[j].kind = call[j].kind /\ call'[j].s = call[j].s /\ call'[j].at = call[j].at
      /\ i \in pending => call'[i].ans # <<>>
      /\ i \notin pending => call' = call
  BY <1>0, <1>4, <1>5, AnswerIs DEF ClientTypes
<1>7. ServerTypes' /\ ClientTypes' /\ SessTypes'
  BY <1>0, <1>1, <1>2, <1>6 DEF ServerTypes, ClientTypes, SessTypes, sessVars
<1>8. CallInv'
  <2>1. ASSUME NEW j \in Call, j # i PROVE CallOf(j)'
    BY <1>0, <1>1, <1>3, <1>6, <2>1 DEF CallInv, CallOf, sessVars
  <2>2. CallOf(i)'
    <3>1. CASE i \in pending
      BY <1>0, <1>1, <1>6, <3>1 DEF CallInv, CallOf, sessVars
    <3>2. CASE i \notin pending
      BY <1>0, <1>1, <1>6, <3>2 DEF CallInv, CallOf, sessVars
    <3> QED BY <3>1, <3>2
  <2> QED BY <1>0, <1>1, <2>1, <2>2 DEF CallInv
<1>9. LifeInv' /\ RouteInv' /\ EventsInv'
  <2>1. \A s \in Sess : Driven(s)' = Driven(s)
    BY <1>1 DEF Driven, sessVars
  <2>2. \A j \in Call : Starts(j)' = Starts(j) /\ call'[j].s = call[j].s
    BY <1>6 DEF Starts
  <2>3. LifeInv'
    BY <1>1, <2>1, <2>2 DEF IInv, LifeInv, sessVars
  <2>4. RouteInv' /\ EventsInv'
    BY <1>1 DEF IInv, RouteInv, EventsInv, EventsOf, sessVars
  <2> QED BY <2>3, <2>4
<1>10. AskInv'
  BY <1>0, <1>1, <1>2, WireGrows DEF sessVars
<1> QED BY <1>7, <1>8, <1>9, <1>10 DEF IInv

LEMMA FailStep ==
    ASSUME IInv, Fail \/ (\E i \in Call : FailAnswers(i)) \/ (\E s \in Sess : FailFinishes(s))
    PROVE  IInv'
<1>0. ServerTypes /\ ClientTypes /\ SessTypes /\ CallInv /\ LifeInv /\ RouteInv /\ EventsInv /\ AskInv
  BY DEF IInv
<1>1. CASE Fail
  <2>1. /\ rd.at = "read" /\ dead' = TRUE /\ pending' = {} /\ reg' = [t \in Thread |-> NoSess]
        /\ rd' = [at |-> "fail", calls |-> pending, sess |-> {reg[t] : t \in Thread} \ {NoSess}]
        /\ UNCHANGED <<serverVars, callVars, sessVars>>
    BY <1>1 DEF Fail
  <2>2. rd'.at = "fail" /\ rd'.calls = pending /\ rd'.sess = {reg[t] : t \in Thread} \ {NoSess}
    BY <2>1
  <2>3. rd'.sess \subseteq Sess
    BY <1>0, <2>2 DEF ClientTypes
  <2>4. rd' \in [at : {"read", "fail"}, calls : SUBSET Call, sess : SUBSET Sess]
    BY <1>0, <2>1, <2>3 DEF ClientTypes
  <2>5. ServerTypes' /\ ClientTypes' /\ SessTypes'
    <3>1. reg' \in [Thread -> 0..MaxSess] /\ dead' \in BOOLEAN /\ pending' \subseteq Call
      BY <2>1
    <3>2. ncalls' \in 0..MaxCalls /\ call' \in [Call -> CallState] /\ SessTypes' /\ ServerTypes'
      BY <1>0, <2>1 DEF ServerTypes, ClientTypes, SessTypes, serverVars, callVars, sessVars
    <3> QED BY <2>4, <3>1, <3>2 DEF ClientTypes
  <2>6. ~dead
    BY <1>0, <2>1 DEF CallInv
  <2>7. CallInv'
    BY <1>0, <2>1, <2>2, <2>6 DEF CallInv, CallOf, serverVars, callVars, sessVars
  <2>8. LifeInv' /\ EventsInv'
    BY <1>0, <2>1 DEF LifeInv, EventsInv, EventsOf, Driven, Starts, callVars, sessVars
  <2>9. RouteInv'
    <3>1. SUFFICES ASSUME NEW s \in Sess, sess[s].app = "held" PROVE s \in rd'.sess
      BY <2>1 DEF RouteInv, sessVars
    <3>2. reg[sess[s].t] = s
      BY <1>0, <2>6, <3>1 DEF RouteInv
    <3>3. sess[s].t \in Thread
      BY <1>0, <3>1 DEF LifeInv, SessTypes
    <3> QED BY <2>2, <3>2, <3>3
  <2>10. AskInv'
    BY <1>0, <2>1, AsksKept DEF serverVars, sessVars, FewerAsks
  <2> QED BY <2>5, <2>7, <2>8, <2>9, <2>10 DEF IInv
<1>2. ASSUME NEW i \in Call, FailAnswers(i) PROVE IInv'
  <2> DEFINE a == [ok |-> FALSE, turn |-> NoTurn]
  <2>1. /\ rd' = [rd EXCEPT !.calls = @ \ {i}] /\ Answer(i, a)
        /\ UNCHANGED <<serverVars, agent, dead, pending, reg, ncalls, sessVars>>
    BY <1>2 DEF FailAnswers
  <2>2. a \in Reply
    BY DEF Reply
  <2> HIDE DEF a
  <2>3. /\ call' \in [Call -> CallState]
        /\ \A j \in Call : j # i => call'[j] = call[j]
        /\ \A j \in Call : call'[j].kind = call[j].kind /\ call'[j].s = call[j].s /\ call'[j].at = call[j].at
        /\ call'[i].ans # <<>>
    BY <1>0, <2>1, <2>2, AnswerIs
  <2>4. /\ rd' \in [at : {"read", "fail"}, calls : SUBSET Call, sess : SUBSET Sess]
        /\ rd'.at = rd.at /\ rd'.calls = rd.calls \ {i} /\ rd'.sess = rd.sess
    BY <1>0, <2>1 DEF ClientTypes
  <2>5. ServerTypes' /\ ClientTypes' /\ SessTypes'
    BY <1>0, <2>1, <2>3, <2>4 DEF ServerTypes, ClientTypes, SessTypes, serverVars, sessVars
  <2>6. CallInv'
    <3>1. ASSUME NEW j \in Call, j # i PROVE CallOf(j)'
      BY <1>0, <2>1, <2>3, <2>4, <3>1 DEF CallInv, CallOf, serverVars, sessVars
    <3>2. CallOf(i)'
      BY <1>0, <2>1, <2>3, <2>4 DEF CallInv, CallOf, serverVars, sessVars
    <3> QED BY <1>0, <2>1, <2>4, <3>1, <3>2 DEF CallInv
  <2>7. LifeInv' /\ RouteInv' /\ EventsInv'
    <3>1. \A s \in Sess : Driven(s)' = Driven(s)
      BY <2>1 DEF Driven, sessVars
    <3>2. \A j \in Call : Starts(j)' = Starts(j) /\ call'[j].s = call[j].s
      BY <2>3 DEF Starts
    <3>3. LifeInv'
      BY <1>0, <2>1, <3>1, <3>2 DEF LifeInv, sessVars
    <3>4. RouteInv' /\ EventsInv'
      BY <1>0, <2>1, <2>4 DEF RouteInv, EventsInv, EventsOf, sessVars
    <3> QED BY <3>3, <3>4
  <2>8. AskInv'
    BY <1>0, <2>1, AsksKept DEF serverVars, sessVars, FewerAsks
  <2> QED BY <2>5, <2>6, <2>7, <2>8 DEF IInv
<1>3. ASSUME NEW s \in Sess, FailFinishes(s) PROVE IInv'
  <2> DEFINE y == Finish(sess[s])
  <2>1. /\ rd' = [rd EXCEPT !.sess = @ \ {s}] /\ sess' = [sess EXCEPT ![s] = y]
        /\ UNCHANGED <<serverVars, agent, dead, pending, reg, callVars, nsess>>
    BY <1>3 DEF FailFinishes
  <2>2. sess[s] \in SessState /\ EventsOf(sess[s])
    BY <1>0 DEF SessTypes, EventsInv
  <2>3. y \in SessState /\ y.ended /\ SameLife(sess[s], y) /\ FewerAsks(sess[s], y) /\ EventsOf(y)
    BY <2>2, FinishIs
  <2> HIDE DEF y
  <2>4. /\ rd' \in [at : {"read", "fail"}, calls : SUBSET Call, sess : SUBSET Sess]
        /\ rd'.at = rd.at /\ rd'.calls = rd.calls /\ rd'.sess = rd.sess \ {s}
    BY <1>0, <2>1 DEF ClientTypes
  <2>5. sess' \in [Sess -> SessState] /\ \A r \in Sess : sess'[r] = IF r = s THEN y ELSE sess[r]
    BY <1>0, <2>1, <2>3 DEF SessTypes
  <2>6. ServerTypes' /\ ClientTypes' /\ SessTypes'
    BY <1>0, <2>1, <2>4, <2>5 DEF ServerTypes, ClientTypes, SessTypes, serverVars, callVars
  <2>7. CallInv'
    BY <1>0, <2>1, <2>4 DEF CallInv, CallOf, serverVars, callVars
  <2>8. \A r \in Sess : SameLife(sess[r], sess'[r]) /\ EventsOf(sess'[r]) /\ FewerAsks(sess[r], sess'[r])
    BY <1>0, <2>3, <2>5 DEF SameLife, FewerAsks, EventsInv
  <2>9. LifeInv'
    <3>1. \A r \in Sess : Driven(r)' = Driven(r)
      BY <2>8 DEF Driven, SameLife
    <3>2. \A i \in Call : Starts(i)' = Starts(i) /\ call'[i].s = call[i].s /\ (Starts(i) => call[i].s \in Sess)
      BY <1>0, <2>1, StartsInSess DEF Starts, callVars
    <3> QED BY <1>0, <2>1, <2>8, <3>1, <3>2, LifeMoves DEF LifeInv, SameLife
  <2>10. RouteInv'
    BY <1>0, <2>1, <2>3, <2>4, <2>5, <2>8 DEF RouteInv, SameLife
  <2>11. EventsInv' /\ AskInv'
    BY <1>0, <2>1, <2>8, AsksKept DEF EventsInv, serverVars
  <2> QED BY <2>6, <2>7, <2>9, <2>10, <2>11 DEF IInv
<1> QED BY <1>1, <1>2, <1>3

----------------------------------------------------------------------------
(***************************************************************************)
(* The callers.                                                            *)
(***************************************************************************)
\* A step of a call and of sessions that stay where they are.
LEMMA GoOn ==
    ASSUME IInv, UNCHANGED <<serverVars, dead, reg, rd, nsess>>, ClientTypes', CallInv',
           sess' \in [Sess -> SessState],
           \A s \in Sess : SameLife(sess[s], sess'[s]) /\ FewerAsks(sess[s], sess'[s]) /\ EventsOf(sess'[s]),
           \A j \in Call : Starts(j)' => Starts(j) /\ call'[j].s = call[j].s
    PROVE  IInv'
<1>1. ServerTypes' /\ SessTypes' /\ EventsInv'
  BY DEF IInv, ServerTypes, SessTypes, EventsInv, serverVars
<1>2. \A i \in Call : Starts(i) => call[i].s \in Sess
  BY StartsInSess DEF Starts, IInv
<1>3. LifeInv' /\ RouteInv'
  BY <1>2, LifeKept DEF IInv
<1>4. AskInv'
  BY AsksKept DEF IInv, serverVars
<1> QED BY <1>1, <1>3, <1>4 DEF IInv

\* What stays where it is.
LEMMA Stays ==
    ASSUME IInv, NEW s \in Sess
    PROVE  sess[s] \in SessState /\ SameLife(sess[s], sess[s]) /\ FewerAsks(sess[s], sess[s]) /\ EventsOf(sess[s])
BY DEF IInv, SessTypes, EventsInv, SameLife, FewerAsks

LEMMA FailedStep ==
    ASSUME IInv, NEW i \in Call, Failed(i), call[i].at \in {"write", "wait"},
           UNCHANGED <<serverVars, dead, reg, rd, ncalls, nsess>>,
           pending' \subseteq pending, pending \ {i} \subseteq pending'
    PROVE  IInv'
<1>0. ServerTypes /\ ClientTypes /\ SessTypes /\ CallInv /\ LifeInv /\ RouteInv /\ EventsInv /\ AskInv
  BY DEF IInv
<1>s. PICK s \in Sess : s = call[i].s
  BY <1>0, StartsInSess
<1>1. /\ call' \in [Call -> CallState] /\ call'[i].at = "done"
      /\ \A j \in Call : j # i => call'[j] = call[j]
  BY <1>0, DoneIs DEF Failed
<1>2. ClientTypes' /\ CallInv'
  BY <1>0, <1>1, DoneCalls DEF Failed, ClientTypes, serverVars
<1>3. \A j \in Call : Starts(j)' => j # i /\ Starts(j) /\ call'[j].s = call[j].s
  BY <1>1 DEF Starts
<1>4. CASE call[i].kind = "start"
  <2> DEFINE y == [sess[s] EXCEPT !.app = "dropped", !.close = "done"]
  <2>1. sess' = [sess EXCEPT ![s] = y]
    BY <1>0, <1>4, <1>s DEF Failed, SessTypes, SessState
  <2>2. y \in SessState /\ y.app = "dropped" /\ y.close = "done" /\ y.t = sess[s].t /\ y.evs = sess[s].evs
        /\ y.ended = sess[s].ended /\ y.asks = sess[s].asks /\ y.taken = sess[s].taken
    BY <1>0 DEF SessTypes, SessState
  <2> HIDE DEF y
  <2>3. sess' \in [Sess -> SessState] /\ \A r \in Sess : sess'[r] = IF r = s THEN y ELSE sess[r]
    BY <1>0, <2>1, <2>2 DEF SessTypes
  <2>4. ServerTypes' /\ SessTypes'
    BY <1>0, <2>3 DEF ServerTypes, SessTypes, serverVars
  <2>5. sess[s].app = "starting" /\ Starts(i)
    BY <1>0, <1>4, <1>s DEF LifeInv, Starts
  <2>6. LifeInv'
    <3>1. \A j \in Call : Starts(j)' => call[j].s # s /\ sess'[call[j].s].app = "starting"
      BY <1>0, <1>3, <1>s, <2>3, <2>5, StartsInSess DEF LifeInv, Starts
    <3>2. \A r \in Sess : /\ sess'[r].t = sess[r].t /\ (Driven(r)' => Driven(r))
                           /\ (sess[r].app = "none" => sess'[r].app = "none")
                           /\ (sess'[r].close \in {"decline", "check"} => sess'[r].app = "dropped")
      BY <1>0, <2>2, <2>3, <2>5 DEF Driven, LifeInv
    <3> QED BY <1>0, <1>3, <3>1, <3>2, LifeMoves
  <2>7. RouteInv' /\ EventsInv'
    <3>1. RouteInv'
      BY <1>0, <2>2, <2>3 DEF RouteInv
    <3>2. \A r \in Sess : EventsOf(sess[r])'
      BY <1>0, <2>2, <2>3 DEF EventsInv, EventsOf
    <3> QED BY <3>1, <3>2 DEF EventsInv
  <2>8. AskInv'
    BY <1>0, <2>2, <2>3, AsksKept DEF FewerAsks, serverVars
  <2> QED BY <1>2, <2>4, <2>6, <2>7, <2>8 DEF IInv
<1>5. CASE call[i].kind \in {"turn", "compact"}
  <2> DEFINE y == [sess[s] EXCEPT !.busy = FALSE]
  <2>1. sess' = [sess EXCEPT ![s] = y]
    BY <1>0, <1>5, <1>s DEF Failed, SessTypes, SessState
  <2>2. y \in SessState /\ SameLife(sess[s], y) /\ FewerAsks(sess[s], y) /\ EventsOf(y)
    BY <1>0 DEF SessTypes, SessState, SameLife, FewerAsks, EventsInv, EventsOf
  <2> HIDE DEF y
  <2>3. sess' \in [Sess -> SessState] /\ \A r \in Sess : sess'[r] = IF r = s THEN y ELSE sess[r]
    BY <1>0, <2>1, <2>2 DEF SessTypes
  <2> QED BY <1>2, <1>3, <2>2, <2>3, Stays, GoOn
<1>6. CASE call[i].kind = "unsubscribe"
  <2> DEFINE y == [sess[s] EXCEPT !.close = "finish"]
  <2>1. sess' = [sess EXCEPT ![s] = y]
    BY <1>0, <1>6, <1>s DEF Failed, SessTypes, SessState
  <2>2. y \in SessState /\ y.app = sess[s].app /\ y.close = "finish" /\ y.t = sess[s].t /\ y.evs = sess[s].evs
        /\ y.ended = sess[s].ended /\ y.asks = sess[s].asks /\ y.taken = sess[s].taken
    BY <1>0 DEF SessTypes, SessState
  <2> HIDE DEF y
  <2>3. sess' \in [Sess -> SessState] /\ \A r \in Sess : sess'[r] = IF r = s THEN y ELSE sess[r]
    BY <1>0, <2>1, <2>2 DEF SessTypes
  <2>4. ServerTypes' /\ SessTypes'
    BY <1>0, <2>3 DEF ServerTypes, SessTypes, serverVars
  <2>5. LifeInv'
    <3>1. \A j \in Call : Starts(j)' => sess'[call[j].s].app = "starting"
      BY <1>0, <1>3, <2>2, <2>3, StartsInSess DEF LifeInv, Starts
    <3>2. \A r \in Sess : /\ sess'[r].t = sess[r].t /\ (Driven(r)' => Driven(r))
                           /\ (sess[r].app = "none" => sess'[r].app = "none")
                           /\ (sess'[r].close \in {"decline", "check"} => sess'[r].app = "dropped")
      BY <1>0, <2>2, <2>3 DEF Driven, LifeInv
    <3> QED BY <1>0, <1>3, <3>1, <3>2, LifeMoves
  <2>6. RouteInv' /\ EventsInv'
    <3>1. RouteInv'
      BY <1>0, <2>2, <2>3 DEF RouteInv
    <3>2. \A r \in Sess : EventsOf(sess[r])'
      BY <1>0, <2>2, <2>3 DEF EventsInv, EventsOf
    <3> QED BY <3>1, <3>2 DEF EventsInv
  <2>7. AskInv'
    BY <1>0, <2>2, <2>3, AsksKept DEF FewerAsks, serverVars
  <2> QED BY <1>2, <2>4, <2>5, <2>6, <2>7 DEF IInv
<1>7. CASE call[i].kind = "interrupt"
  <2>1. sess' = sess
    BY <1>7 DEF Failed
  <2> QED BY <1>0, <1>2, <1>3, <2>1, Stays, GoOn DEF SessTypes
<1>8. call[i].kind \in CallKind
  BY <1>0 DEF ClientTypes, CallState
<1> QED BY <1>4, <1>5, <1>6, <1>7, <1>8

LEMMA CallStepStep == ASSUME IInv, NEW i \in Call, CallStep(i) PROVE IInv'
<1>0. ServerTypes /\ ClientTypes /\ SessTypes /\ CallInv /\ LifeInv /\ RouteInv /\ EventsInv /\ AskInv
  BY DEF IInv
<1>1. CASE Write(i)
  <2>1. /\ call[i].at = "write" /\ ~dead /\ asked' = asked \cup {i}
        /\ call' = [call EXCEPT ![i].at = "wait"]
        /\ UNCHANGED <<srv, subs, running, asks, sent, wire, clientVars, ncalls, sessVars>>
    BY <1>1 DEF Write
  <2>2. /\ call' \in [Call -> CallState]
        /\ call'[i].at = "wait" /\ call'[i].ans = call[i].ans /\ call'[i].s = call[i].s /\ call'[i].kind = call[i].kind
        /\ \A j \in Call : j # i => call'[j] = call[j]
    BY <1>0, <2>1 DEF ClientTypes, CallState
  <2>3. ServerTypes' /\ ClientTypes' /\ SessTypes'
    BY <1>0, <2>1, <2>2 DEF ServerTypes, ClientTypes, SessTypes, clientVars, sessVars
  <2>4. CallInv'
    <3>1. ASSUME NEW j \in Call, j # i PROVE CallOf(j)'
      BY <1>0, <2>1, <2>2, <3>1 DEF CallInv, CallOf, clientVars, sessVars
    <3>2. CallOf(i)'
      BY <1>0, <2>1, <2>2 DEF CallInv, CallOf, clientVars, sessVars
    <3> QED BY <1>0, <2>1, <3>1, <3>2 DEF CallInv, clientVars
  <2>5. LifeInv'
    <3>1. \A j \in Call : Starts(j)' = Starts(j) /\ call'[j].s = call[j].s
      BY <2>1, <2>2 DEF Starts
    <3>2. \A s \in Sess : Driven(s)' = Driven(s)
      BY <2>1 DEF Driven, sessVars
    <3> QED BY <1>0, <2>1, <3>1, <3>2 DEF LifeInv, sessVars
  <2>6. RouteInv' /\ EventsInv'
    BY <1>0, <2>1 DEF RouteInv, EventsInv, EventsOf, clientVars, sessVars
  <2>7. AskInv'
    BY <1>0, <2>1, AsksKept DEF FewerAsks, sessVars
  <2> QED BY <2>3, <2>4, <2>5, <2>6, <2>7 DEF IInv
<1>2. CASE WriteFails(i)
  BY <1>2, FailedStep DEF WriteFails
<1>3. CASE Timeout(i)
  BY <1>3, FailedStep DEF Timeout
<1>4. CASE ReturnsError(i)
  BY <1>4, FailedStep DEF ReturnsError, clientVars
<1> QED BY <1>1, <1>2, <1>3, <1>4 DEF CallStep

LEMMA ContinuationStep == ASSUME IInv, NEW i \in Call, Continuation(i) PROVE IInv'
<1>0. ServerTypes /\ ClientTypes /\ SessTypes /\ CallInv /\ LifeInv /\ RouteInv /\ EventsInv /\ AskInv
  BY DEF IInv
<1>a. call[i].at # "none"
  BY DEF Continuation, StartReturns, SendReturns, SendAnnounces, CompactReturns, UnsubscribeReturns, Returns
<1>s. PICK s \in Sess : s = call[i].s /\ s <= nsess
  BY <1>0, <1>a, StartsInSess
<1>b. call[i] \in CallState /\ sess[s] \in SessState /\ EventsOf(sess[s])
  BY <1>0 DEF ClientTypes, SessTypes, EventsInv
<1>c. call[i].ans # <<>> => call[i].ans[1].turn \in Nat
  <2>1. call[i].ans \in Seq(Reply)
    BY <1>b DEF CallState
  <2>2. call[i].ans # <<>> => call[i].ans[1] \in Reply
    BY <2>1
  <2> QED BY <2>2 DEF Reply
\* A call that is done, beside sessions that stay where they are.
<1>d. ASSUME Done(i), UNCHANGED <<serverVars, clientVars, ncalls, nsess>>, NEW y \in SessState,
             sess' = [sess EXCEPT ![s] = y],
             SameLife(sess[s], y), FewerAsks(sess[s], y), EventsOf(y)
      PROVE  IInv'
  <2>1. /\ call' \in [Call -> CallState] /\ call'[i].at = "done"
        /\ \A j \in Call : j # i => call'[j] = call[j]
    BY <1>0, <1>d, DoneIs
  <2>2. ClientTypes' /\ CallInv'
    BY <1>0, <1>a, <1>d, <2>1, DoneCalls DEF ClientTypes, serverVars, clientVars
  <2>3. \A j \in Call : Starts(j)' => Starts(j) /\ call'[j].s = call[j].s
    BY <2>1 DEF Starts
  <2>4. sess' \in [Sess -> SessState] /\ \A r \in Sess : sess'[r] = IF r = s THEN y ELSE sess[r]
    BY <1>0, <1>d DEF SessTypes
  <2> QED BY <1>d, <2>2, <2>3, <2>4, Stays, GoOn DEF clientVars
<1>1. CASE StartReturns(i)
  <2> DEFINE y == [sess[s] EXCEPT !.app = "held"]
             t == sess[s].t
  <2>1. /\ call[i].kind = "start" /\ call[i].at = "wait" /\ Done(i)
        /\ reg' = [reg EXCEPT ![t] = s] /\ sess' = [sess EXCEPT ![s] = y]
        /\ UNCHANGED <<serverVars, agent, dead, pending, rd, ncalls, nsess>>
    BY <1>1, <1>s DEF StartReturns, Returns
  <2>2. /\ y \in SessState /\ y.app = "held" /\ y.t = sess[s].t /\ y.evs = sess[s].evs /\ y.close = sess[s].close
        /\ y.ended = sess[s].ended /\ y.asks = sess[s].asks /\ y.taken = sess[s].taken
    BY <1>b DEF SessState
  <2>t. t \in Thread
    BY <1>0, <1>s DEF LifeInv
  <2> HIDE DEF y
  <2>3. sess' \in [Sess -> SessState] /\ \A r \in Sess : sess'[r] = IF r = s THEN y ELSE sess[r]
    BY <1>0, <2>1, <2>2 DEF SessTypes
  <2>4. /\ call' \in [Call -> CallState] /\ call'[i].at = "done"
        /\ \A j \in Call : j # i => call'[j] = call[j]
    BY <1>0, <2>1, DoneIs
  <2>5. reg' \in [Thread -> 0..MaxSess] /\ reg'[t] = s /\ \A u \in Thread : u # t => reg'[u] = reg[u]
    BY <1>0, <2>1, <2>t DEF ClientTypes
  <2>6. ServerTypes' /\ ClientTypes' /\ SessTypes'
    BY <1>0, <2>1, <2>3, <2>4, <2>5 DEF ServerTypes, ClientTypes, SessTypes, serverVars
  <2>7. CallInv'
    BY <1>0, <1>a, <2>1, DoneCalls DEF serverVars
  <2>8. \A j \in Call : Starts(j)' => j # i /\ Starts(j) /\ call'[j].s = call[j].s
    BY <2>4 DEF Starts
  <2>9. sess[s].app = "starting" /\ Starts(i)
    BY <1>0, <1>s, <2>1 DEF LifeInv, Starts
  <2>10. LifeInv'
    <3>1. \A j \in Call : Starts(j)' => sess'[call[j].s].app = "starting"
      BY <1>0, <1>s, <2>3, <2>8, <2>9, StartsInSess DEF LifeInv, Starts
    <3>2. \A r \in Sess : /\ sess'[r].t = sess[r].t /\ (Driven(r)' => Driven(r))
                           /\ (sess[r].app = "none" => sess'[r].app = "none")
                           /\ (sess'[r].close \in {"decline", "check"} => sess'[r].app = "dropped")
      BY <1>0, <2>2, <2>3, <2>9 DEF Driven, LifeInv
    <3> QED BY <1>0, <2>1, <2>8, <3>1, <3>2, LifeMoves
  <2>11. RouteInv'
    <3> SUFFICES ASSUME NEW r \in Sess, sess'[r].app = "held"
                 PROVE  reg'[sess'[r].t] = r \/ (dead' /\ (sess'[r].ended \/ r \in rd'.sess))
      BY DEF RouteInv
    <3>1. CASE r = s
      BY <2>2, <2>3, <2>5, <3>1
    <3>2. CASE r # s
      <4>1. sess'[r] = sess[r] /\ sess[r].app = "held"
        BY <2>3, <3>2
      <4>2. sess[r].t # t
        BY <1>0, <2>9, <3>2, <4>1 DEF LifeInv, Driven
      <4>3. sess[r].t \in Thread
        BY <1>0, <4>1 DEF LifeInv, SessTypes
      <4> QED BY <1>0, <2>1, <2>5, <4>1, <4>2, <4>3 DEF RouteInv
    <3> QED BY <3>1, <3>2
  <2>12. EventsInv'
    BY <1>0, <2>2, <2>3 DEF EventsInv, EventsOf
  <2>13. AskInv'
    BY <1>0, <2>1, <2>2, <2>3, AsksKept DEF FewerAsks, serverVars
  <2> QED BY <2>6, <2>7, <2>10, <2>11, <2>12, <2>13 DEF IInv
<1>2. CASE SendReturns(i)
  <2> DEFINE turn == call[i].ans[1].turn
             y == [sess[s] EXCEPT !.turnID = turn, !.announced = turn]
  <2>1. /\ call[i].kind = "turn" /\ call[i].at = "wait" /\ call[i].ans # <<>>
        /\ Done(i) \/ call' = [call EXCEPT ![i].at = "announce"]
        /\ sess' = [sess EXCEPT ![s] = y]
        /\ UNCHANGED <<serverVars, clientVars, ncalls, nsess>>
    BY <1>2, <1>s DEF SendReturns, Returns
  <2>2. y \in SessState /\ SameLife(sess[s], y) /\ FewerAsks(sess[s], y) /\ EventsOf(y)
    BY <1>b, <1>c, <2>1 DEF SessState, SameLife, FewerAsks, EventsOf
  <2> HIDE DEF y
  <2>3. CASE Done(i)
    BY <1>d, <2>1, <2>2, <2>3
  <2>4. CASE call' = [call EXCEPT ![i].at = "announce"]
    <3>1. /\ call' \in [Call -> CallState] /\ call'[i].at = "announce" /\ call'[i].ans = call[i].ans /\ call'[i].s = call[i].s
          /\ \A j \in Call : j # i => call'[j] = call[j]
      BY <1>0, <2>4 DEF ClientTypes, CallState
    <3>2. CallInv'
      <4>1. ASSUME NEW j \in Call, j # i PROVE CallOf(j)'
        BY <1>0, <2>1, <3>1, <4>1 DEF CallInv, CallOf, clientVars, serverVars
      <4>2. CallOf(i)'
        BY <1>0, <2>1, <3>1 DEF CallInv, CallOf, clientVars, serverVars
      <4> QED BY <1>0, <2>1, <4>1, <4>2 DEF CallInv, clientVars
    <3>3. ClientTypes'
      BY <1>0, <2>1, <3>1 DEF ClientTypes, clientVars
    <3>4. \A j \in Call : Starts(j)' => Starts(j) /\ call'[j].s = call[j].s
      BY <3>1 DEF Starts
    <3>5. sess' \in [Sess -> SessState] /\ \A r \in Sess : sess'[r] = IF r = s THEN y ELSE sess[r]
      BY <1>0, <2>1, <2>2 DEF SessTypes
    <3> QED BY <2>1, <2>2, <3>2, <3>3, <3>4, <3>5, Stays, GoOn DEF clientVars
  <2> QED BY <2>1, <2>3, <2>4
<1>3. CASE SendAnnounces(i)
  <2> DEFINE e == Ev("started", call[i].ans[1].turn)
             y == Emit(sess[s], e)
  <2>1. call[i].ans # <<>>
    BY <1>0, <1>3 DEF SendAnnounces, CallInv, CallOf
  <2>2. e \in Event /\ e.kind # "closed"
    BY <1>c, <2>1 DEF Ev, Event
  <2>3. Done(i) /\ sess' = [sess EXCEPT ![s] = y] /\ UNCHANGED <<serverVars, clientVars, ncalls, nsess>>
    BY <1>3, <1>s DEF SendAnnounces
  <2> HIDE DEF e
  <2>4. y \in SessState /\ SameLife(sess[s], y) /\ FewerAsks(sess[s], y) /\ EventsOf(y)
    BY <1>b, <2>2, EmitIs
  <2> QED BY <1>d, <2>3, <2>4
<1>4. CASE CompactReturns(i)
  <2>1. Done(i) /\ sess' = [sess EXCEPT ![s] = sess[s]] /\ UNCHANGED <<serverVars, clientVars, ncalls, nsess>>
    BY <1>0, <1>4 DEF CompactReturns, sessVars, SessTypes
  <2> QED BY <1>b, <1>d, <2>1, Stays
<1>5. CASE UnsubscribeReturns(i)
  <2> DEFINE y == [sess[s] EXCEPT !.close = "finish"]
  <2>1. Done(i) /\ sess' = [sess EXCEPT ![s] = y] /\ UNCHANGED <<serverVars, clientVars, ncalls, nsess>>
    BY <1>5, <1>s DEF UnsubscribeReturns
  <2>2. y \in SessState /\ y.app = sess[s].app /\ y.close = "finish" /\ y.t = sess[s].t /\ y.evs = sess[s].evs
        /\ y.ended = sess[s].ended /\ y.asks = sess[s].asks /\ y.taken = sess[s].taken
    BY <1>b DEF SessState
  <2> HIDE DEF y
  <2>3. sess' \in [Sess -> SessState] /\ \A r \in Sess : sess'[r] = IF r = s THEN y ELSE sess[r]
    BY <1>0, <2>1, <2>2 DEF SessTypes
  <2>4. /\ call' \in [Call -> CallState] /\ call'[i].at = "done"
        /\ \A j \in Call : j # i => call'[j] = call[j]
    BY <1>0, <2>1, DoneIs
  <2>5. ServerTypes' /\ ClientTypes' /\ SessTypes'
    BY <1>0, <2>1, <2>3, <2>4 DEF ServerTypes, ClientTypes, SessTypes, serverVars, clientVars
  <2>6. CallInv'
    BY <1>0, <1>a, <2>1, DoneCalls DEF serverVars, clientVars
  <2>7. LifeInv'
    <3>1. \A j \in Call : Starts(j)' => Starts(j) /\ call'[j].s = call[j].s /\ sess'[call[j].s].app = "starting"
      BY <1>0, <2>2, <2>3, <2>4, StartsInSess DEF LifeInv, Starts
    <3>2. \A r \in Sess : /\ sess'[r].t = sess[r].t /\ (Driven(r)' => Driven(r))
                           /\ (sess[r].app = "none" => sess'[r].app = "none")
                           /\ (sess'[r].close \in {"decline", "check"} => sess'[r].app = "dropped")
      BY <1>0, <2>2, <2>3 DEF Driven, LifeInv
    <3> QED BY <1>0, <2>1, <3>1, <3>2, LifeMoves
  <2>8. RouteInv' /\ EventsInv'
    BY <1>0, <2>1, <2>2, <2>3 DEF RouteInv, EventsInv, EventsOf, clientVars
  <2>9. AskInv'
    BY <1>0, <2>1, <2>2, <2>3, AsksKept DEF FewerAsks, serverVars
  <2> QED BY <2>5, <2>6, <2>7, <2>8, <2>9 DEF IInv
<1> QED BY <1>1, <1>2, <1>3, <1>4, <1>5 DEF Continuation

----------------------------------------------------------------------------
(***************************************************************************)
(* The app, and Close.                                                     *)
(***************************************************************************)
\* One session changes, and with it neither its life nor its approvals, while a
\* call is registered for a session that has started.
LEMMA RegisterStep ==
    ASSUME IInv, NEW k \in CallKind \ {"start"}, NEW s \in Sess, sess[s].app # "none", NEW turn \in Nat,
           Register(k, s, turn), UNCHANGED <<serverVars, dead, reg, rd, nsess>>,
           NEW y \in SessState, sess' = [sess EXCEPT ![s] = y],
           SameLife(sess[s], y), FewerAsks(sess[s], y), EventsOf(y)
    PROVE  IInv'
<1>0. ClientTypes /\ SessTypes /\ CallInv /\ LifeInv
  BY DEF IInv
<1>1. s <= nsess /\ nsess \in Nat
  BY <1>0 DEF LifeInv, SessTypes
<1>2. /\ ncalls' \in Call /\ call' \in [Call -> CallState] /\ pending' \subseteq Call
      /\ call'[ncalls'].kind = k
      /\ \A j \in Call : j # ncalls' => call'[j] = call[j]
      /\ CallInv'
  BY <1>0, <1>1, RegisterIs DEF serverVars
<1>3. ClientTypes'
  BY <1>0, <1>2 DEF ClientTypes
<1>4. \A j \in Call : Starts(j)' => Starts(j) /\ call'[j].s = call[j].s
  BY <1>2 DEF Starts
<1>5. sess' \in [Sess -> SessState] /\ \A r \in Sess : sess'[r] = IF r = s THEN y ELSE sess[r]
  BY <1>0 DEF SessTypes
<1> QED BY <1>2, <1>3, <1>4, <1>5, Stays, GoOn

LEMMA StartStep == ASSUME IInv, NEW t \in Thread, Start(t) PROVE IInv'
<1>0. ServerTypes /\ ClientTypes /\ SessTypes /\ CallInv /\ LifeInv /\ RouteInv /\ EventsInv /\ AskInv
  BY DEF IInv
<1>1. PICK s \in Sess : s = nsess + 1 /\ nsess' = s
  BY <1>0 DEF Start, SessTypes
<1> DEFINE y == [sess[s] EXCEPT !.t = t, !.app = "starting"]
<1>2. /\ sess' = [sess EXCEPT ![s] = y] /\ Register("start", s, NoTurn)
      /\ \A r \in Sess : sess[r].t = t => sess[r].app \in {"none", "dropped"}
      /\ UNCHANGED <<serverVars, agent, dead, reg, rd>>
  BY <1>1 DEF Start
<1>3. /\ y \in SessState /\ y.app = "starting" /\ y.t = t /\ y.evs = sess[s].evs /\ y.close = sess[s].close
      /\ y.ended = sess[s].ended /\ y.asks = sess[s].asks /\ y.taken = sess[s].taken
  <2>1. sess[s] \in SessState /\ t \in 0..MaxThreads
    BY <1>0 DEF SessTypes
  <2> QED BY <2>1 DEF SessState
<1> HIDE DEF y
<1>4. sess' \in [Sess -> SessState] /\ \A r \in Sess : sess'[r] = IF r = s THEN y ELSE sess[r]
  BY <1>0, <1>2, <1>3 DEF SessTypes
<1>5. nsess \in Nat /\ nsess < s /\ \A r \in Sess : r <= s => r = s \/ r <= nsess
  BY <1>0, <1>1 DEF SessTypes
<1>6. PICK n \in Call :
        /\ n = ncalls' /\ call' \in [Call -> CallState] /\ pending' \subseteq Call
        /\ call'[n].s = s
        /\ \A j \in Call : j # n => call'[j] = call[j]
        /\ CallInv'
  BY <1>0, <1>1, <1>2, <1>5, RegisterIs DEF serverVars
<1>7. ServerTypes' /\ ClientTypes' /\ SessTypes'
  <2>1. ServerTypes' /\ SessTypes'
    BY <1>0, <1>1, <1>2, <1>4 DEF ServerTypes, SessTypes, serverVars
  <2>2. ncalls' \in 0..MaxCalls
    BY <1>6
  <2> QED BY <1>0, <1>2, <1>6, <2>1, <2>2 DEF ClientTypes
<1>8. sess[s].app = "none"
  BY <1>0, <1>5 DEF LifeInv
<1>9. LifeInv'
  <2>1. \A r \in Sess : r > nsess' => sess'[r].app = "none"
    BY <1>0, <1>1, <1>4, <1>5 DEF LifeInv
  <2>2. \A r \in Sess : r <= nsess' => sess'[r].t \in Thread
    BY <1>0, <1>1, <1>3, <1>4, <1>5 DEF LifeInv
  <2>3. \A r \in Sess : sess'[r].close \in {"decline", "check"} => sess'[r].app = "dropped"
    BY <1>0, <1>3, <1>4, <1>8 DEF LifeInv
  <2>4. ASSUME NEW r \in Sess, NEW q \in Sess, Driven(r)', Driven(q)', sess'[r].t = sess'[q].t
        PROVE  r = q
    <3>1. \A o \in Sess : o # s /\ Driven(o)' => sess'[o].t # t /\ sess'[o] = sess[o] /\ Driven(o)
      BY <1>2, <1>4 DEF Driven
    <3>2. CASE r = s \/ q = s
      BY <1>3, <1>4, <2>4, <3>1, <3>2
    <3>3. CASE r # s /\ q # s
      BY <1>0, <2>4, <3>1, <3>3 DEF LifeInv
    <3> QED BY <3>2, <3>3
  <2>5. \A j \in Call : j # n /\ Starts(j)' => Starts(j) /\ call'[j].s = call[j].s /\ call[j].s \in Sess /\ call[j].s # s
    BY <1>0, <1>5, <1>6, StartsInSess DEF Starts
  <2>6. \A j \in Call : Starts(j)' => sess'[call'[j].s].app = "starting"
    <3> SUFFICES ASSUME NEW j \in Call, Starts(j)' PROVE sess'[call'[j].s].app = "starting"
      OBVIOUS
    <3>1. CASE j = n
      BY <1>3, <1>4, <1>6, <3>1
    <3>2. CASE j # n
      BY <1>0, <1>4, <2>5, <3>2 DEF LifeInv
    <3> QED BY <3>1, <3>2
  <2>7. \A i, j \in Call : Starts(i)' /\ Starts(j)' /\ call'[i].s = call'[j].s => i = j
    BY <1>0, <1>6, <2>5 DEF LifeInv
  <2> QED BY <2>1, <2>2, <2>3, <2>4, <2>6, <2>7 DEF LifeInv
<1>10. RouteInv' /\ EventsInv'
  BY <1>0, <1>2, <1>3, <1>4 DEF RouteInv, EventsInv, EventsOf
<1>11. AskInv'
  BY <1>0, <1>2, <1>3, <1>4, AsksKept DEF FewerAsks, serverVars
<1> QED BY <1>6, <1>7, <1>9, <1>10, <1>11 DEF IInv

LEMMA AppStep == ASSUME IInv, App PROVE IInv'
<1>0. ServerTypes /\ ClientTypes /\ SessTypes /\ CallInv /\ LifeInv /\ RouteInv /\ EventsInv /\ AskInv
  BY DEF IInv
<1>1. ASSUME NEW s \in Sess, NEW k \in {"turn", "compact"}, Prompt(s, k) PROVE IInv'
  <2> DEFINE y == [sess[s] EXCEPT !.busy = ~sess[s].ended]
  <2>1. /\ sess[s].app = "held" /\ Register(k, s, NoTurn) /\ sess' = [sess EXCEPT ![s] = y]
        /\ UNCHANGED <<serverVars, agent, dead, reg, rd, nsess>>
    BY <1>1 DEF Prompt
  <2>2. y \in SessState /\ SameLife(sess[s], y) /\ FewerAsks(sess[s], y) /\ EventsOf(y)
    <3>1. sess[s] \in SessState /\ sess[s].ended \in BOOLEAN /\ EventsOf(sess[s])
      BY <1>0 DEF SessTypes, SessState, EventsInv
    <3> QED BY <3>1 DEF SessState, SameLife, FewerAsks, EventsOf
  <2> HIDE DEF y
  <2> QED BY <2>1, <2>2, RegisterStep
<1>2. ASSUME NEW s \in Sess, Interrupt(s) PROVE IInv'
  <2>1. /\ sess[s].app = "held" /\ Register("interrupt", s, sess[s].turnID) /\ sess' = [sess EXCEPT ![s] = sess[s]]
        /\ UNCHANGED <<serverVars, agent, dead, reg, rd, nsess>> /\ sess[s].turnID \in Nat
    BY <1>0, <1>2 DEF Interrupt, SessTypes, SessState, sessVars
  <2> QED BY <2>1, Stays, RegisterStep
<1>3. ASSUME NEW s \in Sess, Drop(s) PROVE IInv'
  <2> DEFINE y == [sess[s] EXCEPT !.app = "dropped"]
  <2>1. sess[s].app = "held" /\ sess' = [sess EXCEPT ![s] = y] /\ UNCHANGED <<serverVars, clientVars, callVars, nsess>>
    BY <1>3 DEF Drop
  <2>2. /\ y \in SessState /\ y.app = "dropped" /\ y.t = sess[s].t /\ y.evs = sess[s].evs
        /\ y.ended = sess[s].ended /\ y.asks = sess[s].asks /\ y.taken = sess[s].taken
    BY <1>0 DEF SessTypes, SessState
  <2> HIDE DEF y
  <2>3. sess' \in [Sess -> SessState] /\ \A r \in Sess : sess'[r] = IF r = s THEN y ELSE sess[r]
    BY <1>0, <2>1, <2>2 DEF SessTypes
  <2>4. ServerTypes' /\ ClientTypes' /\ SessTypes' /\ CallInv'
    BY <1>0, <2>1, <2>3 DEF ServerTypes, ClientTypes, SessTypes, CallInv, CallOf, serverVars, clientVars, callVars
  <2>5. LifeInv'
    <3>1. \A j \in Call : Starts(j)' => Starts(j) /\ call'[j].s = call[j].s /\ sess'[call[j].s].app = "starting"
      BY <1>0, <2>1, <2>3, StartsInSess DEF LifeInv, Starts, callVars
    <3>2. \A r \in Sess : /\ sess'[r].t = sess[r].t /\ (Driven(r)' => Driven(r))
                           /\ (sess[r].app = "none" => sess'[r].app = "none")
                           /\ (sess'[r].close \in {"decline", "check"} => sess'[r].app = "dropped")
      BY <1>0, <2>1, <2>2, <2>3 DEF Driven, LifeInv
    <3> QED BY <1>0, <2>1, <3>1, <3>2, LifeMoves
  <2>6. RouteInv' /\ EventsInv'
    BY <1>0, <2>1, <2>2, <2>3 DEF RouteInv, EventsInv, EventsOf, clientVars
  <2>7. AskInv'
    BY <1>0, <2>1, <2>2, <2>3, AsksKept DEF FewerAsks, serverVars
  <2> QED BY <2>4, <2>5, <2>6, <2>7 DEF IInv
<1>4. ASSUME NEW s \in Sess, NEW a \in Ask, Resolve(s, a) PROVE IInv'
  <2> DEFINE y == [sess[s] EXCEPT !.asks = @ \ {a}]
  <2>1. /\ a \in sess[s].asks /\ sess' = [sess EXCEPT ![s] = y] /\ asks' = Answered(asks, a)
        /\ UNCHANGED <<srv, asked, subs, running, sent, wire, clientVars, callVars, nsess>>
    BY <1>4 DEF Resolve
  <2>2. /\ y \in SessState /\ SameLife(sess[s], y) /\ EventsOf(y)
        /\ y.asks = sess[s].asks \ {a} /\ y.taken = sess[s].taken
    BY <1>0 DEF SessTypes, SessState, SameLife, EventsInv, EventsOf
  <2> HIDE DEF y
  <2>3. sess' \in [Sess -> SessState] /\ \A r \in Sess : sess'[r] = IF r = s THEN y ELSE sess[r]
    BY <1>0, <2>1, <2>2 DEF SessTypes
  <2>4. ClientTypes' /\ SessTypes' /\ CallInv' /\ LifeInv' /\ RouteInv' /\ EventsInv'
    BY <2>1, <2>2, <2>3, Stays, SessionsGo DEF clientVars
  <2>5. a \in With(s) /\ Unanswered(a)
    BY <1>0, <2>1 DEF With, AskInv, HeldAsks
  <2>6. /\ asks' \in [Ask -> AskState] /\ asks'[a].is # "twice"
        /\ \A b \in Ask : b # a => asks'[b] = asks[b]
    BY <1>0, <2>1, <2>5, AnsweredIs DEF ServerTypes
  <2>7. AskInv'
    <3>1. \A b \in Ask : asks'[b].is # "twice" /\ (b \notin {a} /\ Unanswered(b) => Unanswered(b)')
      BY <1>0, <2>1, <2>6 DEF Unanswered, AskInv
    <3>2. \A r \in Sess : FewerAsks(sess[r], sess'[r])
      BY <2>2, <2>3 DEF FewerAsks
    <3>3. With(s)' \cap {a} = {}
      BY <1>0, <2>1, <2>2, <2>3 DEF With, AskInv, HeldAsks
    <3>4. \A r \in Sess : r # s => With(r)' \cap {a} = {}
      <4>1. \A r \in Sess : r # s => With(r)' = With(r)
        BY <2>3 DEF With
      <4>2. \A r \in Sess : r # s => a \notin With(r)
        BY <1>0, <2>5 DEF AskInv, HeldAsks
      <4> QED BY <4>1, <4>2
    <3>5. wire' \in Seq(Message) /\ WireAsks(wire') /\ \A n \in 1..Len(wire') : wire'[n].kind = "ask" => wire'[n].ask \notin {a}
      BY <1>0, <2>1, <2>5 DEF AskInv, WireAsks, ServerTypes
    <3>6. {a} \in SUBSET Ask
      OBVIOUS
    <3> QED BY <1>0, <3>1, <3>2, <3>3, <3>4, <3>5, <3>6, AsksAnswered DEF AskInv
  <2>8. ServerTypes'
    BY <1>0, <2>1, <2>6 DEF ServerTypes
  <2> QED BY <2>4, <2>7, <2>8 DEF IInv
<1>5. CASE Shutdown
  <2>1. asked' = {} /\ UNCHANGED <<subs, running, asks, sent, wire, dead, pending, reg, rd, callVars, sessVars>>
    BY <1>5 DEF Shutdown
  <2>2. ServerTypes' /\ ClientTypes' /\ SessTypes' /\ CallInv'
    BY <1>0, <2>1 DEF ServerTypes, ClientTypes, SessTypes, CallInv, CallOf, callVars, sessVars
  <2>3. LifeInv' /\ RouteInv' /\ EventsInv'
    BY <1>0, <2>1 DEF LifeInv, RouteInv, EventsInv, EventsOf, Driven, Starts, callVars, sessVars
  <2>4. AskInv'
    BY <1>0, <2>1, AsksKept DEF FewerAsks, sessVars
  <2> QED BY <2>2, <2>3, <2>4 DEF IInv
<1> QED BY <1>1, <1>2, <1>3, <1>4, <1>5, StartStep DEF App

\* A Close goes on: from where it is, to where it is not on its way out of the registry.
LEMMA CloseGoesOn ==
    ASSUME IInv, NEW s \in Sess, NEW y \in SessState, sess' = [sess EXCEPT ![s] = y],
           UNCHANGED <<serverVars, dead, reg, rd, nsess>>, ClientTypes', CallInv',
           \A j \in Call : Starts(j)' => Starts(j) /\ call'[j].s = call[j].s,
           y.t = sess[s].t, y.app = sess[s].app, sess[s].ended => y.ended, y.close \notin {"decline", "check"},
           FewerAsks(sess[s], y), EventsOf(y)
    PROVE  IInv'
<1>0. ServerTypes /\ ClientTypes /\ SessTypes /\ CallInv /\ LifeInv /\ RouteInv /\ EventsInv /\ AskInv
  BY DEF IInv
<1>1. sess' \in [Sess -> SessState] /\ \A r \in Sess : sess'[r] = IF r = s THEN y ELSE sess[r]
  BY <1>0 DEF SessTypes
<1>2. ServerTypes' /\ SessTypes'
  BY <1>0, <1>1 DEF ServerTypes, SessTypes, serverVars
<1>3. LifeInv'
  <2>1. \A j \in Call : Starts(j)' => sess'[call[j].s].app = "starting"
    BY <1>0, <1>1, StartsInSess DEF LifeInv, Starts
  <2>2. \A r \in Sess : /\ sess'[r].t = sess[r].t /\ (Driven(r)' => Driven(r))
                         /\ (sess[r].app = "none" => sess'[r].app = "none")
                         /\ (sess'[r].close \in {"decline", "check"} => sess'[r].app = "dropped")
    BY <1>0, <1>1 DEF Driven, LifeInv
  <2> QED BY <1>0, <2>1, <2>2, LifeMoves
<1>4. RouteInv' /\ EventsInv'
  BY <1>0, <1>1 DEF RouteInv, EventsInv
<1>5. \A r \in Sess : FewerAsks(sess[r], sess'[r])
  BY <1>1 DEF FewerAsks
<1>6. AskInv'
  BY <1>0, <1>5, AsksKept DEF serverVars
<1> QED BY <1>2, <1>3, <1>4, <1>6 DEF IInv

LEMMA ClosingStep == ASSUME IInv, NEW s \in Sess, Closing(s) PROVE IInv'
<1>0. ServerTypes /\ ClientTypes /\ SessTypes /\ CallInv /\ LifeInv /\ RouteInv /\ EventsInv /\ AskInv
  BY DEF IInv
<1>b. sess[s] \in SessState /\ EventsOf(sess[s])
  BY <1>0 DEF SessTypes, EventsInv
\* What a step of Close that makes no call leaves to the calls.
<1>c. ASSUME UNCHANGED <<asked, dead, pending, rd, callVars, nsess>>, reg' \in [Thread -> 0..MaxSess]
      PROVE  ClientTypes' /\ CallInv' /\ \A j \in Call : Starts(j)' = Starts(j) /\ call'[j].s = call[j].s
  BY <1>0, <1>c DEF ClientTypes, CallInv, CallOf, Starts, callVars
<1>1. CASE CloseBegins(s)
  <2> DEFINE y == [sess[s] EXCEPT !.close = "decline", !.taken = sess[s].asks, !.asks = {}]
  <2>1. /\ sess[s].app = "dropped" /\ sess' = [sess EXCEPT ![s] = y]
        /\ UNCHANGED <<serverVars, clientVars, callVars, nsess>>
    BY <1>1 DEF CloseBegins
  <2>2. /\ y \in SessState /\ y.app = sess[s].app /\ y.t = sess[s].t /\ y.evs = sess[s].evs
        /\ y.ended = sess[s].ended /\ y.asks = {} /\ y.taken = sess[s].asks
    BY <1>b DEF SessState
  <2> HIDE DEF y
  <2>3. sess' \in [Sess -> SessState] /\ \A r \in Sess : sess'[r] = IF r = s THEN y ELSE sess[r]
    BY <1>0, <2>1, <2>2 DEF SessTypes
  <2>4. ServerTypes' /\ SessTypes' /\ ClientTypes' /\ CallInv'
    BY <1>0, <1>c, <2>1, <2>3 DEF ServerTypes, SessTypes, serverVars, clientVars, ClientTypes
  <2>5. LifeInv'
    <3>1. \A j \in Call : Starts(j)' => Starts(j) /\ call'[j].s = call[j].s /\ sess'[call[j].s].app = "starting"
      BY <1>0, <2>1, <2>2, <2>3, StartsInSess DEF LifeInv, Starts, callVars
    <3>2. \A r \in Sess : /\ sess'[r].t = sess[r].t /\ (Driven(r)' => Driven(r))
                           /\ (sess[r].app = "none" => sess'[r].app = "none")
                           /\ (sess'[r].close \in {"decline", "check"} => sess'[r].app = "dropped")
      BY <1>0, <2>1, <2>2, <2>3 DEF Driven, LifeInv
    <3> QED BY <1>0, <2>1, <3>1, <3>2, LifeMoves
  <2>6. RouteInv' /\ EventsInv'
    BY <1>0, <2>1, <2>2, <2>3 DEF RouteInv, EventsInv, EventsOf, clientVars
  <2>7. AskInv'
    <3>1. \A r \in Sess : With(r)' \subseteq With(r) /\ sess'[r].asks \cap sess'[r].taken = {}
      BY <1>0, <2>2, <2>3 DEF With, AskInv, HeldAsks
    <3>2. \A a : Unanswered(a)' = Unanswered(a)
      BY <2>1 DEF Unanswered, serverVars
    <3>3. HeldAsks' /\ WireAsks(wire)'
      BY <1>0, <2>1, <3>1, <3>2 DEF AskInv, HeldAsks, WireAsks, serverVars
    <3> QED BY <1>0, <2>1, <3>3 DEF AskInv, serverVars
  <2> QED BY <2>4, <2>5, <2>6, <2>7 DEF IInv
<1>2. CASE CloseRemoves(s)
  <2> DEFINE y == [sess[s] EXCEPT !.close = "check", !.taken = {}]
             t == sess[s].t
  <2>1. /\ sess[s].close = "decline" /\ sess' = [sess EXCEPT ![s] = y]
        /\ asks' = [a \in Ask |-> IF a \in sess[s].taken THEN Answered(asks, a)[a] ELSE asks[a]]
        /\ reg' = [reg EXCEPT ![t] = IF @ = s THEN NoSess ELSE @]
        /\ UNCHANGED <<srv, asked, subs, running, sent, wire, agent, dead, pending, rd, callVars, nsess>>
    BY <1>2 DEF CloseRemoves, RemoveSession
  <2>2. /\ y \in SessState /\ y.app = sess[s].app /\ y.t = t /\ y.evs = sess[s].evs /\ y.close = "check"
        /\ y.ended = sess[s].ended /\ y.asks = sess[s].asks /\ y.taken = {}
    BY <1>b DEF SessState
  <2> HIDE DEF y
  <2>3. sess' \in [Sess -> SessState] /\ \A r \in Sess : sess'[r] = IF r = s THEN y ELSE sess[r]
    BY <1>0, <2>1, <2>2 DEF SessTypes
  <2>4. sess[s].app = "dropped" /\ t \in Thread
    BY <1>0, <2>1 DEF LifeInv, SessTypes
  <2>5. reg' \in [Thread -> 0..MaxSess] /\ \A u \in Thread : reg[u] # s => reg'[u] = reg[u]
    BY <1>0, <2>1, <2>4 DEF ClientTypes
  <2>6. PICK A \in SUBSET Ask : A = sess[s].taken
    BY <1>b DEF SessState
  <2>7. \A a \in A : a \in With(s) /\ Unanswered(a)
    BY <1>0, <2>6 DEF With, AskInv, HeldAsks
  <2>8. /\ asks' \in [Ask -> AskState]
        /\ \A a \in Ask : asks'[a].is # "twice" /\ (a \notin A => asks'[a] = asks[a])
    <3> DEFINE f(a) == IF a \in sess[s].taken THEN Answered(asks, a)[a] ELSE asks[a]
    <3>1. asks' = [a \in Ask |-> f(a)]
      BY <2>1
    <3>2. ASSUME NEW a \in Ask PROVE f(a) \in AskState /\ f(a).is # "twice" /\ (a \notin A => f(a) = asks[a])
      <4>1. CASE a \in A
        <5>1. Answered(asks, a) \in [Ask -> AskState] /\ Answered(asks, a)[a].is # "twice"
          BY <1>0, <2>7, <4>1, AnsweredIs DEF ServerTypes
        <5> QED BY <2>6, <4>1, <5>1
      <4>2. CASE a \notin A
        BY <1>0, <2>6, <4>2 DEF ServerTypes, AskInv
      <4> QED BY <4>1, <4>2
    <3> HIDE DEF f
    <3> QED BY <3>1, <3>2
  <2>9. ServerTypes' /\ SessTypes' /\ ClientTypes' /\ CallInv'
    BY <1>0, <1>c, <2>1, <2>3, <2>5, <2>8 DEF ServerTypes, SessTypes
  <2>10. LifeInv'
    <3>1. \A j \in Call : Starts(j)' => Starts(j) /\ call'[j].s = call[j].s /\ sess'[call[j].s].app = "starting"
      BY <1>0, <2>1, <2>2, <2>3, StartsInSess DEF LifeInv, Starts, callVars
    <3>2. \A r \in Sess : /\ sess'[r].t = sess[r].t /\ (Driven(r)' => Driven(r))
                           /\ (sess[r].app = "none" => sess'[r].app = "none")
                           /\ (sess'[r].close \in {"decline", "check"} => sess'[r].app = "dropped")
      BY <1>0, <2>2, <2>3, <2>4 DEF Driven, LifeInv
    <3> QED BY <1>0, <2>1, <3>1, <3>2, LifeMoves
  <2>11. RouteInv'
    <3> SUFFICES ASSUME NEW r \in Sess, sess'[r].app = "held"
                 PROVE  reg'[sess'[r].t] = r \/ (dead' /\ (sess'[r].ended \/ r \in rd'.sess))
      BY DEF RouteInv
    <3>1. r # s /\ sess'[r] = sess[r] /\ sess[r].app = "held"
      BY <2>2, <2>3, <2>4
    <3>2. sess[r].t \in Thread
      BY <1>0, <3>1 DEF LifeInv, SessTypes
    <3>3. reg[sess[r].t] = r => reg'[sess[r].t] = r
      BY <2>5, <3>1, <3>2
    <3> QED BY <1>0, <2>1, <3>1, <3>3 DEF RouteInv
  <2>12. EventsInv'
    BY <1>0, <2>2, <2>3 DEF EventsInv, EventsOf
  <2>13. AskInv'
    <3>1. \A a \in Ask \ A : Unanswered(a) => Unanswered(a)'
      BY <2>1, <2>8 DEF Unanswered
    <3>2. \A r \in Sess : FewerAsks(sess[r], sess'[r])
      BY <2>2, <2>3 DEF FewerAsks
    <3>3. With(s)' \cap A = {}
      BY <1>0, <2>2, <2>3, <2>6 DEF With, AskInv, HeldAsks
    <3>4. \A r \in Sess : r # s => With(r)' \cap A = {}
      <4>1. \A r \in Sess : r # s => With(r)' = With(r) /\ With(r) \cap With(s) = {}
        BY <1>0, <2>3 DEF With, AskInv, HeldAsks
      <4> QED BY <2>7, <4>1
    <3>5. /\ wire' \in Seq(Message) /\ WireAsks(wire')
          /\ \A n \in 1..Len(wire') : wire'[n].kind = "ask" => wire'[n].ask \notin A
      BY <1>0, <2>1, <2>7 DEF AskInv, WireAsks, ServerTypes
    <3> QED BY <1>0, <2>8, <3>1, <3>2, <3>3, <3>4, <3>5, AsksAnswered DEF AskInv
  <2> QED BY <2>9, <2>10, <2>11, <2>12, <2>13 DEF IInv
<1>3. CASE CloseUnsubscribes(s)
  <2> DEFINE y == [sess[s] EXCEPT !.close = "call"]
  <2>1. /\ sess' = [sess EXCEPT ![s] = y] /\ Register("unsubscribe", s, NoTurn)
        /\ UNCHANGED <<serverVars, agent, dead, reg, rd, nsess>> /\ sess[s].close = "check"
    BY <1>3 DEF CloseUnsubscribes
  <2>2. /\ y \in SessState /\ y.t = sess[s].t /\ y.app = sess[s].app /\ y.ended = sess[s].ended /\ y.close \notin {"decline", "check"}
        /\ FewerAsks(sess[s], y) /\ EventsOf(y)
    BY <1>b DEF SessState, FewerAsks, EventsOf
  <2> HIDE DEF y
  <2>3. s <= nsess /\ nsess \in Nat
    BY <1>0, <2>1 DEF LifeInv, SessTypes
  <2>4. /\ ncalls' \in Call /\ call' \in [Call -> CallState] /\ pending' \subseteq Call
        /\ call'[ncalls'].kind = "unsubscribe"
        /\ \A j \in Call : j # ncalls' => call'[j] = call[j]
        /\ CallInv'
    <3>1. "unsubscribe" \in CallKind /\ NoTurn \in Nat
      OBVIOUS
    <3>2. Register("unsubscribe", s, NoTurn) /\ UNCHANGED <<asked, dead, rd>> /\ nsess' = nsess
      BY <2>1 DEF serverVars
    <3>3. nsess' \in Nat /\ nsess <= nsess' /\ s <= nsess'
      BY <2>3, <3>2
    <3> HIDE DEF CallKind, NoTurn
    <3> QED BY <1>0, <3>1, <3>2, <3>3, RegisterIs
  <2>5. ClientTypes' /\ \A j \in Call : Starts(j)' => Starts(j) /\ call'[j].s = call[j].s
    BY <1>0, <2>1, <2>4 DEF ClientTypes, Starts
  <2> QED BY <2>1, <2>2, <2>4, <2>5, CloseGoesOn
<1>4. CASE CloseSkips(s)
  <2> DEFINE y == [sess[s] EXCEPT !.close = "finish"]
  <2>1. sess' = [sess EXCEPT ![s] = y] /\ UNCHANGED <<serverVars, clientVars, callVars, nsess>>
    BY <1>4 DEF CloseSkips
  <2>2. /\ y \in SessState /\ y.t = sess[s].t /\ y.app = sess[s].app /\ y.ended = sess[s].ended /\ y.close \notin {"decline", "check"}
        /\ FewerAsks(sess[s], y) /\ EventsOf(y)
    BY <1>b DEF SessState, FewerAsks, EventsOf
  <2> HIDE DEF y
  <2> QED BY <1>0, <1>c, <2>1, <2>2, CloseGoesOn DEF serverVars, clientVars, ClientTypes
<1>5. CASE CloseFinishes(s)
  <2> DEFINE z == [sess[s] EXCEPT !.close = "done"]
             y == Finish(z)
  <2>1. sess' = [sess EXCEPT ![s] = y] /\ UNCHANGED <<serverVars, clientVars, callVars, nsess>>
    BY <1>5 DEF CloseFinishes
  <2>2. /\ z \in SessState /\ z.t = sess[s].t /\ z.app = sess[s].app /\ z.ended = sess[s].ended /\ z.close = "done"
        /\ FewerAsks(sess[s], z) /\ EventsOf(z)
    BY <1>b DEF SessState, FewerAsks, EventsOf
  <2> HIDE DEF z
  <2>3. y \in SessState /\ SameLife(z, y) /\ FewerAsks(z, y) /\ EventsOf(y)
    BY <2>2, FinishIs
  <2> HIDE DEF y
  <2>4. /\ y.t = sess[s].t /\ y.app = sess[s].app /\ (sess[s].ended => y.ended) /\ y.close \notin {"decline", "check"}
        /\ FewerAsks(sess[s], y)
    BY <2>2, <2>3 DEF SameLife, FewerAsks
  <2> QED BY <1>0, <1>c, <2>1, <2>3, <2>4, CloseGoesOn DEF serverVars, clientVars, ClientTypes
<1> QED BY <1>1, <1>2, <1>3, <1>4, <1>5 DEF Closing

----------------------------------------------------------------------------
LEMMA Induction == IInv /\ [Next]_vars => IInv'
<1> SUFFICES ASSUME IInv, [Next]_vars PROVE IInv'
  OBVIOUS
<1>1. CASE UNCHANGED vars
  <2>1. UNCHANGED <<serverVars, clientVars, callVars, sessVars>>
    BY <1>1 DEF vars
  <2>2. ServerTypes' /\ ClientTypes' /\ SessTypes' /\ CallInv'
    BY <2>1 DEF IInv, ServerTypes, ClientTypes, SessTypes, CallInv, CallOf, serverVars, clientVars, callVars, sessVars
  <2>3. LifeInv' /\ RouteInv' /\ EventsInv'
    BY <2>1 DEF IInv, LifeInv, RouteInv, EventsInv, EventsOf, Driven, Starts, clientVars, callVars, sessVars
  <2>4. AskInv'
    BY <2>1, AsksKept DEF IInv, FewerAsks, serverVars, sessVars
  <2> QED BY <2>2, <2>3, <2>4 DEF IInv
<1>2. CASE App
  BY <1>2, AppStep
<1>3. CASE Reader
  BY <1>3, NoteStep, ResponseStep, FailStep DEF Reader
<1>4. CASE Server
  BY <1>4, ServerStep
<1>5. ASSUME NEW i \in Call, CallStep(i) \/ Continuation(i) PROVE IInv'
  BY <1>5, CallStepStep, ContinuationStep
<1>6. ASSUME NEW s \in Sess, Closing(s) PROVE IInv'
  BY <1>6, ClosingStep
<1> QED BY <1>1, <1>2, <1>3, <1>4, <1>5, <1>6 DEF Next

\* The inductive invariant of a codex client and its sessions.
THEOREM Invariance == Spec => []IInv
<1> QED BY Initially, Induction, PTL DEF Spec

\* When fail is done no caller waits for an answer that cannot come, however
\* writes, timeouts and answers interleave with it (client.go:150-185, 373-408).
THEOREM NoCallForgottenHolds == Spec => []NoCallForgotten
<1>1. IInv => NoCallForgotten
  BY DEF IInv, CallInv, CallOf, NoCallForgotten
<1> QED BY <1>1, Invariance, PTL

\* Closed is the last event of a session, although the reader, Send, fail and
\* Close all emit (session.go:185-213).
THEOREM ClosedIsLastHolds == Spec => []ClosedIsLast
<1>1. IInv => ClosedIsLast
  BY DEF IInv, EventsInv, EventsOf, ClosedIsLast
<1> QED BY <1>1, Invariance, PTL

\* While the client lives, the session the app holds of a thread is the one its
\* notifications go to, also when its predecessor is still closing
\* (client.go:126-132).
THEOREM HeldIsRoutedHolds == Spec => []HeldIsRouted
<1>1. IInv => HeldIsRouted
  BY DEF IInv, RouteInv, HeldIsRouted
<1> QED BY <1>1, Invariance, PTL

\* No approval is answered twice: by the user, by a Close, by the end of its turn
\* or by the reader (client.go:306-331, session.go:141-183).
THEOREM AnsweredOnceHolds == Spec => []AnsweredOnce
<1>1. IInv => AnsweredOnce
  BY DEF IInv, AskInv, AnsweredOnce
<1> QED BY <1>1, Invariance, PTL

\* When fail is done every session the app holds has ended, but one that was
\* registered with the dead client afterwards (client.go:371-408, codex.go:163).
THEOREM DeathEndsRegisteredHolds == Spec => []DeathEndsRegistered
<1>1. IInv => DeathEndsRegistered
  BY DEF IInv, RouteInv, DeathEndsRegistered
<1> QED BY <1>1, Invariance, PTL
=============================================================================
