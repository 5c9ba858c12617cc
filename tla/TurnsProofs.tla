---------------------------- MODULE TurnsProofs ----------------------------
(***************************************************************************)
(* Proofs about Turns, for any number of prompts, sessions, approvals,     *)
(* settings changes and ends of the process.                               *)
(***************************************************************************)
EXTENDS Turns, TLAPS

\* What is proved of the queue alone.
PQProofs == INSTANCE PromptQueueProofs WITH waiting <- queue

\* The oldest prompt stays in front when another is put behind it.
LEMMA HeadAppend ==
    ASSUME NEW T, NEW q \in Seq(T), q # <<>>, NEW x
    PROVE  Append(q, x) # <<>> /\ Head(Append(q, x)) = q[1] /\ Head(q) = q[1]
OBVIOUS

\* What an operation read of the queue when it took promptMu still is the
\* queue when it acts on it; SendPrompt's own prompt is the only difference.
QueueHeld ==
    /\ lock.pc \in {"session", "retired", "start", "enqueue", "settle", "settled", "drain"}
         => lock.q = queue
    /\ lock.pc = "begin"
         => \/ lock.q = queue
            \/ lock.by = "send" /\ lock.q # <<>> /\ queue = Append(lock.q, accepted)
    /\ lock.pc = "enqueue" => lock.by = "send" /\ lock.q # <<>>

\* A prompt that is about to be accepted is within the bound.
RoomForPrompt ==
    /\ lock.pc \in {"queue", "enqueue"} => accepted < MaxPrompts
    /\ lock.by = "send" /\ lock.pc \in {"session", "retired", "start"} => accepted < MaxPrompts
    /\ lock.by = "send" /\ lock.pc = "begin" /\ lock.q = <<>> => accepted < MaxPrompts
    /\ lock.pc \in {"settle", "settled", "drain"} => lock.by # "send"

RoomForSettings == sett.pc # "none" => config < MaxConfig

LockInv == QueueHeld /\ RoomForPrompt /\ RoomForSettings

IInv == TypeOK /\ LockInv

----------------------------------------------------------------------------
\* The parts of the invariant a step leaves alone.
LEMMA StoreSame ==
    ASSUME StoreTypeOK, UNCHANGED storeVars
    PROVE  StoreTypeOK'
BY DEF StoreTypeOK, storeVars, queueVars, threadVars

LEMMA ServerSame ==
    ASSUME ServerTypeOK, UNCHANGED <<processVars, cur, lock, requestVars>>
    PROVE  ServerTypeOK'
BY DEF ServerTypeOK, processVars, requestVars

LEMMA SessionSame ==
    ASSUME SessionTypeOK, UNCHANGED agentVars
    PROVE  SessionTypeOK'
BY DEF SessionTypeOK, agentVars

LEMMA LockSame ==
    ASSUME LockInv, UNCHANGED <<lock, sett, queue, accepted, config>>
    PROVE  LockInv'
BY DEF LockInv, QueueHeld, RoomForPrompt, RoomForSettings

\* Every event an agent or a session emits is one.
LEMMA EventTypes ==
    /\ \A k \in {"info", "started", "done", "failed", "closed", "died"} : Event(k) \in EventRecord
    /\ \A a \in Approval : AskEvent(a) \in EventRecord
    /\ \A e \in EventRecord : e.kind = "ask" => e.ask \in Approval
<1>1. ASSUME NEW k \in {"info", "started", "done", "failed", "closed", "died"}  PROVE Event(k) \in EventRecord
  <2>1. k \in Kinds \ {"ask"}
    BY DEF Kinds
  <2> QED BY <2>1 DEF EventRecord
<1>2. \A a \in Approval : AskEvent(a) \in EventRecord
  BY DEF EventRecord
<1>3. ASSUME NEW e \in EventRecord, e.kind = "ask"  PROVE e.ask \in Approval
  <2>1. CASE \E k \in Kinds \ {"ask"} : e = Event(k)
    BY <2>1, <1>3 DEF Event
  <2>2. CASE \E a \in Approval : e = AskEvent(a)
    BY <2>2 DEF AskEvent
  <2> QED BY <2>1, <2>2 DEF EventRecord
<1> QED BY <1>1, <1>2, <1>3

\* A channel stays one when an event is emitted or read.
LEMMA ChanTypes ==
    ASSUME NEW q \in Seq(EventRecord)
    PROVE  /\ \A e \in EventRecord : Append(q, e) \in Seq(EventRecord)
           /\ q # <<>> => Tail(q) \in Seq(EventRecord) /\ Head(q) \in EventRecord
OBVIOUS

\* Replacing one session's record.
LEMMA SessionUpdate ==
    ASSUME NEW f \in [Session -> SessionRecord], NEW x, NEW r, x \in Session => r \in SessionRecord
    PROVE  [f EXCEPT ![x] = r] \in [Session -> SessionRecord]
OBVIOUS

LEMMA SessionFields ==
    ASSUME NEW f \in [Session -> SessionRecord], NEW x
    PROVE  /\ [f EXCEPT ![x].at = "loop"] \in [Session -> SessionRecord]
           /\ [f EXCEPT ![x].due = TRUE] \in [Session -> SessionRecord]
           /\ [f EXCEPT ![x].idle = FALSE] \in [Session -> SessionRecord]
           /\ [f EXCEPT ![x].stale = TRUE] \in [Session -> SessionRecord]
           /\ \A a : [f EXCEPT ![x].asks = @ \ {a}] \in [Session -> SessionRecord]
           /\ \A c \in 0..MaxConfig : [f EXCEPT ![x].cfg = c] \in [Session -> SessionRecord]
           /\ \A q \in Seq(EventRecord) : [f EXCEPT ![x].chan = q] \in [Session -> SessionRecord]
<1>1. [f EXCEPT ![x].at = "loop"] \in [Session -> SessionRecord]
  BY DEF SessionRecord
<1>2. [f EXCEPT ![x].due = TRUE] \in [Session -> SessionRecord]
  BY DEF SessionRecord
<1>3. [f EXCEPT ![x].idle = FALSE] \in [Session -> SessionRecord]
  BY DEF SessionRecord
<1>4. [f EXCEPT ![x].stale = TRUE] \in [Session -> SessionRecord]
  BY DEF SessionRecord
<1>5. ASSUME NEW a  PROVE [f EXCEPT ![x].asks = @ \ {a}] \in [Session -> SessionRecord]
  <2> DEFINE u == f[x].asks \ {a}
  <2>1. x \in Session => u \in SUBSET Approval
    BY DEF SessionRecord
  <2> HIDE DEF u
  <2> DEFINE r == [f[x] EXCEPT !.asks = u]
  <2>2. x \in Session => r \in SessionRecord
    BY <2>1 DEF SessionRecord
  <2>3. CASE x \in Session
    <3>1. [f EXCEPT ![x] = r] \in [Session -> SessionRecord]
      BY <2>2, SessionUpdate
    <3>2. [f EXCEPT ![x].asks = @ \ {a}] = [f EXCEPT ![x] = r]
      BY <2>3 DEF u
    <3> QED BY <3>1, <3>2
  <2>4. CASE x \notin Session
    <3>1. [f EXCEPT ![x].asks = @ \ {a}] = f
      BY <2>4
    <3> QED BY <3>1
  <2> QED BY <2>3, <2>4
<1>6. ASSUME NEW c \in 0..MaxConfig  PROVE [f EXCEPT ![x].cfg = c] \in [Session -> SessionRecord]
  BY DEF SessionRecord
<1>7. ASSUME NEW q \in Seq(EventRecord)  PROVE [f EXCEPT ![x].chan = q] \in [Session -> SessionRecord]
  BY DEF SessionRecord
<1> QED BY <1>1, <1>2, <1>3, <1>4, <1>5, <1>6, <1>7

\* One session's record after a step of its pump or its agent.
LEMMA RecordUpdates ==
    ASSUME NEW r \in SessionRecord
    PROVE  /\ \A n \in Nat, q \in Seq(EventRecord) : [r EXCEPT !.turns = n, !.chan = q] \in SessionRecord
           /\ \A q \in Seq(EventRecord), a \in SUBSET Approval : [r EXCEPT !.chan = q, !.asks = a] \in SessionRecord
           /\ \A a \in SUBSET Approval, q \in Seq(EventRecord) : [r EXCEPT !.asks = a, !.chan = q] \in SessionRecord
           /\ \A q \in Seq(EventRecord), b \in BOOLEAN : [r EXCEPT !.chan = q, !.idle = TRUE, !.at = "handoff", !.ok = b] \in SessionRecord
           /\ \A q \in Seq(EventRecord), b \in BOOLEAN, c \in BOOLEAN : [r EXCEPT !.chan = q, !.at = "closed", !.ok = b, !.mine = c] \in SessionRecord
           /\ \A v \in Status : [r EXCEPT !.at = "write", !.saw = v] \in SessionRecord
           /\ \A n \in Nat, a \in SUBSET Approval, q \in Seq(EventRecord) : [r EXCEPT !.turns = n, !.asks = a, !.chan = q] \in SessionRecord
           /\ \A e \in Life : [r EXCEPT !.life = e] \in SessionRecord
           /\ \A e \in Life : [r EXCEPT !.due = FALSE, !.life = e] \in SessionRecord
           /\ \A a \in SUBSET Approval, q \in Seq(EventRecord) : [r EXCEPT !.life = "told", !.turns = 0, !.asks = a, !.chan = q] \in SessionRecord
<1>1. ASSUME NEW n \in Nat, NEW q \in Seq(EventRecord)  PROVE [r EXCEPT !.turns = n, !.chan = q] \in SessionRecord
  BY DEF SessionRecord
<1>2. ASSUME NEW q \in Seq(EventRecord), NEW a \in SUBSET Approval  PROVE [r EXCEPT !.chan = q, !.asks = a] \in SessionRecord
  BY DEF SessionRecord
<1>3. ASSUME NEW a \in SUBSET Approval, NEW q \in Seq(EventRecord)  PROVE [r EXCEPT !.asks = a, !.chan = q] \in SessionRecord
  BY DEF SessionRecord
<1>4. ASSUME NEW q \in Seq(EventRecord), NEW b \in BOOLEAN  PROVE [r EXCEPT !.chan = q, !.idle = TRUE, !.at = "handoff", !.ok = b] \in SessionRecord
  BY DEF SessionRecord
<1>5. ASSUME NEW q \in Seq(EventRecord), NEW b \in BOOLEAN, NEW c \in BOOLEAN  PROVE [r EXCEPT !.chan = q, !.at = "closed", !.ok = b, !.mine = c] \in SessionRecord
  BY DEF SessionRecord
<1>6. ASSUME NEW v \in Status  PROVE [r EXCEPT !.at = "write", !.saw = v] \in SessionRecord
  BY DEF SessionRecord
<1>7. ASSUME NEW n \in Nat, NEW a \in SUBSET Approval, NEW q \in Seq(EventRecord)  PROVE [r EXCEPT !.turns = n, !.asks = a, !.chan = q] \in SessionRecord
  BY DEF SessionRecord
<1>8. ASSUME NEW e \in Life  PROVE [r EXCEPT !.life = e] \in SessionRecord
  BY DEF SessionRecord, Life
<1>9. ASSUME NEW e \in Life  PROVE [r EXCEPT !.due = FALSE, !.life = e] \in SessionRecord
  BY DEF SessionRecord, Life
<1>10. ASSUME NEW a \in SUBSET Approval, NEW q \in Seq(EventRecord)  PROVE [r EXCEPT !.life = "told", !.turns = 0, !.asks = a, !.chan = q] \in SessionRecord
  BY DEF SessionRecord, Life
<1> QED BY <1>1, <1>2, <1>3, <1>4, <1>5, <1>6, <1>7, <1>8, <1>9, <1>10

\* The states of promptMu an operation goes through.
LEMMA LockTypes ==
    ASSUME ServerTypeOK, StoreTypeOK
    PROVE  /\ Unlocked \in LockRecord
           /\ \A pc \in LockPhase : [lock EXCEPT !.pc = pc] \in LockRecord
           /\ \A pc \in LockPhase : [lock EXCEPT !.pc = pc, !.cfg = config] \in LockRecord
           /\ \A pc \in LockPhase, l \in {NoSession} \cup Session : [lock EXCEPT !.pc = pc, !.l = l] \in LockRecord
           /\ \A by \in LockHolder, pc \in LockPhase : Acquire(by, pc) => lock' \in LockRecord
<1> USE TurnsAssumption
<1>1. Unlocked \in LockRecord
  BY DEF LockRecord, LockPhase, LockHolder, Unlocked
<1>2. ASSUME NEW pc \in LockPhase  PROVE [lock EXCEPT !.pc = pc] \in LockRecord
  BY DEF ServerTypeOK, LockRecord
<1>3. ASSUME NEW pc \in LockPhase  PROVE [lock EXCEPT !.pc = pc, !.cfg = config] \in LockRecord
  BY DEF ServerTypeOK, StoreTypeOK, LockRecord
<1>4. ASSUME NEW pc \in LockPhase, NEW l \in {NoSession} \cup Session
      PROVE  [lock EXCEPT !.pc = pc, !.l = l] \in LockRecord
  BY DEF ServerTypeOK, LockRecord
<1>5. ASSUME NEW by \in LockHolder, NEW pc \in LockPhase, Acquire(by, pc)  PROVE lock' \in LockRecord
  BY <1>5 DEF StoreTypeOK, LockRecord, Unlocked, Acquire
<1> QED BY <1>1, <1>2, <1>3, <1>4, <1>5

LEMMA UnlockTypes ==
    ASSUME ServerTypeOK, StoreTypeOK, NEW f \in [Session -> SessionRecord], Unlock(f)
    PROVE  /\ lock' \in LockRecord
           /\ app' \in {"down", "recovering", "up", "closing"}
           /\ sess' \in [Session -> SessionRecord]
<1>1. lock' \in LockRecord /\ app' \in {"down", "recovering", "up", "closing"}
  BY LockTypes DEF Unlock, ServerTypeOK
<1>2. sess' \in [Session -> SessionRecord]
  BY SessionFields DEF Unlock
<1> QED BY <1>1, <1>2

LEMMA UnregisterTypes ==
    ASSUME ServerTypeOK, SessionTypeOK, NEW s, Unregister(s)
    PROVE  cur' \in {NoSession} \cup Session /\ sess' \in [Session -> SessionRecord]
<1>1. cur' \in {NoSession} \cup Session
  BY DEF Unregister, Forget, ServerTypeOK
<1>2. sess' \in [Session -> SessionRecord]
  BY SessionFields DEF Unregister, SessionTypeOK
<1> QED BY <1>1, <1>2
\* A process that has done nothing yet, and one that has ended.
LEMMA FreshSessions == [s \in Session |-> NotStarted] \in [Session -> SessionRecord]
<1>1. <<>> \in Seq(EventRecord)
  OBVIOUS
<1>2. NotStarted \in SessionRecord
  BY <1>1, TurnsAssumption DEF NotStarted, SessionRecord, Life, Status
<1> HIDE DEF NotStarted
<1> QED BY <1>2

LEMMA NoRequestTypes ==
    /\ NoRequest \in [pc : {"none", "close", "append"}, l : {NoSession} \cup Session]
    /\ NoRequest \in [pc : {"none", "close", "live", "mark", "append"}, l : {NoSession} \cup Session]
    /\ NoAnswer \in [pc : {"none", "tell", "read", "append"}, ask : {NoApproval} \cup Approval,
                     l : {NoSession} \cup Session, waits : BOOLEAN]
BY DEF NoRequest, NoAnswer

LEMMA DownTypes ==
    ASSUME ServerTypeOK, StoreTypeOK, SessionTypeOK, Down
    PROVE  ServerTypeOK' /\ (nasks' = nasks => SessionTypeOK')
<1> USE TurnsAssumption
<1>1. lock' \in LockRecord
  BY LockTypes DEF Down
<1>2. ServerTypeOK'
  <2>1. app' \in {"down", "recovering", "up", "closing"} /\ crashes' \in 0..MaxCrashes
    BY DEF Down, ServerTypeOK
  <2>2. cutOff' \in {"no", "listed", "noted"} /\ cur' \in {NoSession} \cup Session /\ intr' \in BOOLEAN
    BY DEF Down
  <2>3. arch' = NoRequest /\ sett' = NoRequest /\ reso' = NoAnswer
    BY DEF Down
  <2> QED BY <1>1, <2>1, <2>2, <2>3, NoRequestTypes DEF ServerTypeOK
<1>3. nasks' = nasks => SessionTypeOK'
  BY FreshSessions DEF Down, SessionTypeOK
<1> QED BY <1>2, <1>3

LEMMA InitTypes == Init => IInv
<1> SUFFICES ASSUME Init PROVE IInv
  OBVIOUS
<1>1. StoreTypeOK
  <2>1. <<>> \in Seq(Prompt)
    OBVIOUS
  <2>2. /\ status \in Status /\ queue = <<>> /\ started = <<>> /\ cancelled = {} /\ accepted = 0
        /\ bound \in BOOLEAN /\ pending = {} /\ config = 0 /\ archived \in BOOLEAN
    BY DEF Init, Status
  <2> QED BY <2>1, <2>2, TurnsAssumption DEF StoreTypeOK
<1>2. ServerTypeOK
  <2>1. lock \in LockRecord
    BY TurnsAssumption DEF Init, ProcessInit, Unlocked, LockRecord, LockPhase, LockHolder
  <2>2. app = "up" /\ crashes = 0 /\ cutOff = "no" /\ cur = NoSession /\ intr \in BOOLEAN
    BY DEF Init, ProcessInit
  <2>3. arch = NoRequest /\ sett = NoRequest /\ reso = NoAnswer
    BY DEF Init, ProcessInit
  <2> QED BY <2>1, <2>2, <2>3, NoRequestTypes, TurnsAssumption DEF ServerTypeOK
<1>3. SessionTypeOK
  BY FreshSessions, TurnsAssumption DEF Init, ProcessInit, SessionTypeOK
<1>4. LockInv
  BY DEF Init, ProcessInit, LockInv, QueueHeld, RoomForPrompt, RoomForSettings, Unlocked, NoRequest
<1> QED BY <1>1, <1>2, <1>3, <1>4 DEF IInv, TypeOK

\* What Send tells and gives leaves every session a session.
LEMMA SendTypes ==
    ASSUME SessionTypeOK, NEW l
    PROVE  /\ [sess EXCEPT ![l].chan = Append(@, Event("started"))] \in [Session -> SessionRecord]
           /\ [sess EXCEPT ![l].turns = @ + 1] \in [Session -> SessionRecord]
<1> DEFINE q == Append(sess[l].chan, Event("started"))
           n == sess[l].turns + 1
           r == [sess[l] EXCEPT !.turns = n]
<1>1. ASSUME l \in Session
      PROVE  /\ [sess EXCEPT ![l].chan = Append(@, Event("started"))] \in [Session -> SessionRecord]
             /\ [sess EXCEPT ![l].turns = @ + 1] \in [Session -> SessionRecord]
  <2>1. sess[l] \in SessionRecord /\ sess[l].chan \in Seq(EventRecord) /\ n \in Nat
    BY <1>1 DEF SessionTypeOK, SessionRecord
  <2>2. q \in Seq(EventRecord)
    BY <2>1, ChanTypes, EventTypes
  <2>3. r \in SessionRecord
    BY <2>1 DEF SessionRecord
  <2>4. [sess EXCEPT ![l].chan = q] \in [Session -> SessionRecord]
    <3> HIDE DEF q
    <3> QED BY <2>2, SessionFields DEF SessionTypeOK
  <2>5. [sess EXCEPT ![l].turns = @ + 1] = [sess EXCEPT ![l] = r]
    BY <1>1 DEF SessionTypeOK
  <2> HIDE DEF r
  <2>6. [sess EXCEPT ![l] = r] \in [Session -> SessionRecord]
    BY <2>3, SessionUpdate DEF SessionTypeOK
  <2> QED BY <2>4, <2>5, <2>6
<1>2. ASSUME l \notin Session
      PROVE  /\ [sess EXCEPT ![l].chan = Append(@, Event("started"))] = sess
             /\ [sess EXCEPT ![l].turns = @ + 1] = sess
  BY <1>2 DEF SessionTypeOK
<1> QED BY <1>1, <1>2 DEF SessionTypeOK

----------------------------------------------------------------------------
\* Each step keeps the invariant, one group of actions at a time.
LEMMA StartOfTurnPreserves ==
    ASSUME IInv, StartOfTurn
    PROVE  IInv'
<1> USE TurnsAssumption DEF IInv, TypeOK
<1>1. CASE ReuseSession
  <2>1. StoreTypeOK'
    BY <1>1, StoreSame DEF ReuseSession
  <2>2. ServerTypeOK'
    <3>1. Ready \in LockPhase /\ cur \in {NoSession} \cup Session
      BY DEF Ready, LockPhase, ServerTypeOK
    <3>2. lock' \in LockRecord
      BY <1>1, <3>1, LockTypes DEF ReuseSession
    <3> QED BY <1>1, <3>2 DEF ReuseSession, ServerTypeOK, processVars, requestVars
  <2>3. SessionTypeOK'
    BY <1>1, SessionSame DEF ReuseSession, agentVars
  <2>4. LockInv'
    BY <1>1 DEF ReuseSession, LockInv, QueueHeld, RoomForPrompt, RoomForSettings, ServerTypeOK, LockRecord, storeVars, queueVars, threadVars, requestVars, At, Ready
  <2> QED BY <2>1, <2>2, <2>3, <2>4
<1>2. CASE RetireStale
  <2>1. StoreTypeOK'
    BY <1>2, StoreSame DEF RetireStale
  <2>2. ServerTypeOK'
    <3>1. "retired" \in LockPhase /\ cur \in {NoSession} \cup Session
      BY DEF LockPhase, ServerTypeOK
    <3>2. lock' \in LockRecord
      BY <1>2, <3>1, LockTypes DEF RetireStale
    <3>3. cur' \in {NoSession} \cup Session
      BY <1>2, UnregisterTypes DEF RetireStale
    <3> QED BY <1>2, <3>2, <3>3 DEF RetireStale, ServerTypeOK, processVars, requestVars
  <2>3. SessionTypeOK'
    BY <1>2, UnregisterTypes DEF RetireStale, SessionTypeOK
  <2>4. LockInv'
    BY <1>2 DEF RetireStale, LockInv, QueueHeld, RoomForPrompt, RoomForSettings, ServerTypeOK, LockRecord, storeVars, queueVars, threadVars, requestVars, At
  <2> QED BY <2>1, <2>2, <2>3, <2>4
<1>3. CASE NoneRegistered
  <2>1. StoreTypeOK'
    BY <1>3, StoreSame DEF NoneRegistered
  <2>2. ServerTypeOK'
    <3>1. lock' \in LockRecord
      BY <1>3, LockTypes DEF NoneRegistered, Goto, LockPhase
    <3> QED BY <1>3, <3>1 DEF NoneRegistered, ServerTypeOK, processVars, requestVars
  <2>3. SessionTypeOK'
    BY <1>3, SessionSame DEF NoneRegistered, agentVars
  <2>4. LockInv'
    BY <1>3 DEF NoneRegistered, LockInv, QueueHeld, RoomForPrompt, RoomForSettings, ServerTypeOK, LockRecord, storeVars, queueVars, threadVars, requestVars, At, Goto
  <2> QED BY <2>1, <2>2, <2>3, <2>4
<1>4. CASE StartSession
  <2>1. StoreTypeOK'
    BY <1>4, StoreSame DEF StartSession
  <2>2. ServerTypeOK'
    <3>1. Ready \in LockPhase /\ nsess + 1 \in Session
      BY <1>4 DEF StartSession, Ready, LockPhase, SessionTypeOK, Session
    <3>2. lock' \in LockRecord
      BY <1>4, <3>1, LockTypes DEF StartSession
    <3> QED BY <1>4, <3>1, <3>2 DEF StartSession, ServerTypeOK, processVars, requestVars
  <2>3. SessionTypeOK'
    <3> DEFINE s == nsess + 1
               q == <<Event("info")>>
               r == [sess[s] EXCEPT !.life = "open", !.cfg = lock.cfg, !.chan = q]
    <3>1. s \in Session /\ lock.cfg \in 0..MaxConfig /\ q \in Seq(EventRecord)
      BY <1>4, EventTypes DEF StartSession, SessionTypeOK, Session, ServerTypeOK, LockRecord
    <3>2. sess' = [sess EXCEPT ![s] = r]
      BY <1>4, <3>1 DEF StartSession, SessionTypeOK
    <3> HIDE DEF q
    <3>3. r \in SessionRecord
      BY <3>1 DEF SessionTypeOK, SessionRecord, Life
    <3> HIDE DEF r
    <3>4. nsess' \in 0..MaxSess /\ nasks' = nasks
      BY <1>4, <3>1 DEF StartSession, Session, SessionTypeOK
    <3> QED BY <3>2, <3>3, <3>4, SessionUpdate DEF SessionTypeOK
  <2>4. LockInv'
    BY <1>4 DEF StartSession, LockInv, QueueHeld, RoomForPrompt, RoomForSettings, ServerTypeOK, LockRecord, storeVars, queueVars, threadVars, requestVars, At, Ready
  <2> QED BY <2>1, <2>2, <2>3, <2>4
<1>5. CASE StartFails
  <2>1. StoreTypeOK'
    BY <1>5 DEF StartFails, StoreTypeOK, Status, threadVars, queueVars, storeVars
  <2>2. ServerTypeOK'
    BY <1>5, UnlockTypes DEF StartFails, ServerTypeOK, SessionTypeOK, requestVars
  <2>3. SessionTypeOK'
    BY <1>5, UnlockTypes DEF StartFails, SessionTypeOK
  <2>4. LockInv'
    BY <1>5 DEF StartFails, LockInv, QueueHeld, RoomForPrompt, RoomForSettings, ServerTypeOK, LockRecord, storeVars, queueVars, threadVars, requestVars, At, Unlock, Unlocked
  <2> QED BY <2>1, <2>2, <2>3, <2>4
<1>6. CASE Enqueue
  <2>1. StoreTypeOK'
    <3>1. accepted' \in 1..MaxPrompts
      BY <1>6 DEF Enqueue, At, LockInv, RoomForPrompt, StoreTypeOK
    <3>2. Append(queue, accepted') \in Seq(Prompt)
      BY <3>1 DEF StoreTypeOK, Prompt
    <3> QED BY <1>6, <3>1, <3>2 DEF Enqueue, StoreTypeOK, threadVars
  <2>2. ServerTypeOK'
    <3>1. lock' \in LockRecord
      BY <1>6, LockTypes DEF Enqueue, Goto, LockPhase
    <3> QED BY <1>6, <3>1 DEF Enqueue, ServerTypeOK, processVars, requestVars
  <2>3. SessionTypeOK'
    BY <1>6, SessionSame DEF Enqueue, agentVars
  <2>4. LockInv'
    BY <1>6 DEF Enqueue, LockInv, QueueHeld, RoomForPrompt, RoomForSettings, ServerTypeOK, LockRecord, storeVars, queueVars, threadVars, requestVars, At, Goto, StoreTypeOK
  <2> QED BY <2>1, <2>2, <2>3, <2>4
<1>7. CASE Begin
  <2>1. StoreTypeOK'
    <3>1. CASE BeginOldest
      <4>1. queue # <<>> /\ lock.q[1] = Head(queue)
        <5>1. lock.q \in Seq(Prompt) /\ lock.q # <<>>
          BY <3>1 DEF BeginOldest, ServerTypeOK, LockRecord
        <5>2. queue = lock.q \/ queue = Append(lock.q, accepted)
          BY <1>7 DEF Begin, At, LockInv, QueueHeld
        <5> QED BY <5>1, <5>2, HeadAppend
      <4>2. Tail(queue) \in Seq(Prompt) /\ Append(started, Head(queue)) \in Seq(Prompt)
        BY <4>1 DEF StoreTypeOK
      <4> QED BY <1>7, <3>1, <4>1, <4>2 DEF Begin, BeginOldest, StoreTypeOK, Status, threadVars
    <3>2. CASE BeginNew
      <4>1. accepted' \in 1..MaxPrompts
        BY <1>7, <3>2 DEF Begin, At, BeginNew, LockInv, RoomForPrompt, StoreTypeOK
      <4>2. Append(started, accepted') \in Seq(Prompt)
        BY <4>1 DEF StoreTypeOK, Prompt
      <4> QED BY <1>7, <3>2, <4>1, <4>2 DEF Begin, BeginNew, StoreTypeOK, Status, threadVars
    <3>3. CASE BeginResume
      BY <1>7, <3>3 DEF Begin, BeginResume, StoreTypeOK, Status, threadVars
    <3> QED BY <1>7, <3>1, <3>2, <3>3 DEF Begin
  <2>2. ServerTypeOK'
    <3>1. lock' \in LockRecord
      BY <1>7, LockTypes DEF Begin, Goto, LockPhase
    <3> QED BY <1>7, <3>1 DEF Begin, ServerTypeOK, processVars, requestVars
  <2>3. SessionTypeOK'
    BY <1>7, SessionFields DEF Begin, SessionTypeOK
  <2>4. LockInv'
    BY <1>7 DEF Begin, LockInv, QueueHeld, RoomForPrompt, RoomForSettings, ServerTypeOK, LockRecord, storeVars, queueVars, threadVars, requestVars, At, Goto, BeginOldest, BeginNew, BeginResume
  <2> QED BY <2>1, <2>2, <2>3, <2>4
<1>8. CASE BeginCompact
  <2>1. StoreTypeOK'
    BY <1>8 DEF BeginCompact, StoreTypeOK, Status, threadVars, queueVars, storeVars
  <2>2. ServerTypeOK'
    <3>1. lock' \in LockRecord
      BY <1>8, LockTypes DEF BeginCompact, Goto, LockPhase
    <3> QED BY <1>8, <3>1 DEF BeginCompact, ServerTypeOK, processVars, requestVars
  <2>3. SessionTypeOK'
    BY <1>8, SessionFields DEF BeginCompact, SessionTypeOK
  <2>4. LockInv'
    BY <1>8 DEF BeginCompact, LockInv, QueueHeld, RoomForPrompt, RoomForSettings, ServerTypeOK, LockRecord, storeVars, queueVars, threadVars, requestVars, At, Goto
  <2> QED BY <2>1, <2>2, <2>3, <2>4
<1>9. CASE HandFindsAlive \/ HandTells
  <2>1. StoreTypeOK'
    BY <1>9, StoreSame DEF HandFindsAlive, HandTells
  <2>2. ServerTypeOK'
    <3>1. lock' \in LockRecord
      BY <1>9, LockTypes DEF HandFindsAlive, HandTells, Goto, LockPhase
    <3> QED BY <1>9, <3>1 DEF HandFindsAlive, HandTells, ServerTypeOK, processVars, requestVars
  <2>3. SessionTypeOK'
    <3>1. CASE HandFindsAlive
      BY <3>1, SessionSame DEF HandFindsAlive, agentVars
    <3>2. CASE HandTells
      <4>1. /\ UNCHANGED <<nsess, nasks>>
            /\ sess' = [sess EXCEPT ![lock.l].chan = Append(@, Event("started"))]
        BY <3>2 DEF HandTells
      <4>2. [sess EXCEPT ![lock.l].chan = Append(@, Event("started"))] \in [Session -> SessionRecord]
        BY SendTypes
      <4> QED BY <4>1, <4>2 DEF SessionTypeOK
    <3> QED BY <1>9, <3>1, <3>2
  <2>4. LockInv'
    BY <1>9 DEF HandFindsAlive, HandTells, LockInv, QueueHeld, RoomForPrompt, RoomForSettings, ServerTypeOK, LockRecord, storeVars, queueVars, threadVars, requestVars, At, Goto
  <2> QED BY <2>1, <2>2, <2>3, <2>4
<1>10. CASE HandWrites
  <2>1. StoreTypeOK'
    BY <1>10, StoreSame DEF HandWrites
  <2>2. PICK f \in [Session -> SessionRecord] : Unlock(f)
    BY <1>10, SendTypes DEF HandWrites
  <2>3. ServerTypeOK'
    BY <1>10, <2>2, UnlockTypes DEF HandWrites, ServerTypeOK, requestVars
  <2>4. SessionTypeOK'
    BY <1>10, <2>2, UnlockTypes DEF HandWrites, SessionTypeOK
  <2>5. LockInv'
    BY <1>10 DEF HandWrites, LockInv, QueueHeld, RoomForPrompt, RoomForSettings, ServerTypeOK, LockRecord, storeVars, queueVars, threadVars, requestVars, At, Unlock, Unlocked
  <2> QED BY <2>1, <2>3, <2>4, <2>5
<1>11. CASE HandFails
  <2>1. StoreTypeOK'
    BY <1>11 DEF HandFails, StoreTypeOK, Status, threadVars, queueVars, storeVars
  <2>2. ServerTypeOK'
    BY <1>11, UnlockTypes DEF HandFails, ServerTypeOK, SessionTypeOK, requestVars
  <2>3. SessionTypeOK'
    BY <1>11, UnlockTypes DEF HandFails, SessionTypeOK
  <2>4. LockInv'
    BY <1>11 DEF HandFails, LockInv, QueueHeld, RoomForPrompt, RoomForSettings, ServerTypeOK, LockRecord, storeVars, queueVars, threadVars, requestVars, At, Unlock, Unlocked
  <2> QED BY <2>1, <2>2, <2>3, <2>4
<1> QED BY <1>1, <1>2, <1>3, <1>4, <1>5, <1>6, <1>7, <1>8, <1>9, <1>10, <1>11 DEF StartOfTurn

LEMMA HandoffPreserves ==
    ASSUME IInv, Handoff
    PROVE  IInv'
<1> USE TurnsAssumption DEF IInv, TypeOK
<1>1. CASE Settle
  <2>1. StoreTypeOK'
    BY <1>1 DEF Settle, StoreTypeOK, Status, threadVars, queueVars, storeVars
  <2>2. ServerTypeOK'
    <3>1. lock' \in LockRecord
      BY <1>1, LockTypes DEF Settle, Goto, LockPhase
    <3> QED BY <1>1, <3>1 DEF Settle, ServerTypeOK, processVars, requestVars
  <2>3. SessionTypeOK'
    BY <1>1, SessionSame DEF Settle, agentVars
  <2>4. LockInv'
    BY <1>1 DEF Settle, LockInv, QueueHeld, RoomForPrompt, RoomForSettings, ServerTypeOK, LockRecord, storeVars, queueVars, threadVars, requestVars, At, Goto
  <2> QED BY <2>1, <2>2, <2>3, <2>4
<1>2. CASE HandoffRetire
  <2>1. StoreTypeOK'
    BY <1>2, StoreSame DEF HandoffRetire
  <2>2. ServerTypeOK'
    <3>1. lock' \in LockRecord
      BY <1>2, LockTypes DEF HandoffRetire, Goto, LockPhase
    <3>2. cur' \in {NoSession} \cup Session
      BY <1>2, UnregisterTypes DEF HandoffRetire
    <3> QED BY <1>2, <3>1, <3>2 DEF HandoffRetire, ServerTypeOK, processVars, requestVars
  <2>3. SessionTypeOK'
    BY <1>2, UnregisterTypes DEF HandoffRetire, SessionTypeOK
  <2>4. LockInv'
    BY <1>2 DEF HandoffRetire, LockInv, QueueHeld, RoomForPrompt, RoomForSettings, ServerTypeOK, LockRecord, storeVars, queueVars, threadVars, requestVars, At, Goto
  <2> QED BY <2>1, <2>2, <2>3, <2>4
<1>3. CASE HandoffNext
  <2>1. StoreTypeOK'
    BY <1>3, StoreSame DEF HandoffNext
  <2>2. ServerTypeOK'
    <3>1. lock' \in LockRecord
      BY <1>3, LockTypes DEF HandoffNext, LockPhase
    <3> QED BY <1>3, <3>1 DEF HandoffNext, ServerTypeOK, processVars, requestVars
  <2>3. SessionTypeOK'
    BY <1>3, SessionSame DEF HandoffNext, agentVars
  <2>4. LockInv'
    <3>1. lock.q = queue /\ lock'.q = lock.q /\ lock'.by = lock.by /\ lock'.pc \in {"begin", "session"}
      BY <1>3 DEF HandoffNext, At, LockInv, QueueHeld, ServerTypeOK, LockRecord
    <3>2. lock.q # <<>>
      BY <1>3 DEF HandoffNext
    <3>3. lock.by = "send" => accepted < MaxPrompts
      BY <1>3 DEF HandoffNext, At, LockInv, RoomForPrompt
    <3> QED BY <1>3, <3>1, <3>2, <3>3 DEF HandoffNext, LockInv, QueueHeld, RoomForPrompt, RoomForSettings, storeVars, queueVars, threadVars, requestVars
  <2> QED BY <2>1, <2>2, <2>3, <2>4
<1>4. CASE HandoffDone
  <2>1. StoreTypeOK'
    BY <1>4, StoreSame DEF HandoffDone
  <2>2. ServerTypeOK'
    BY <1>4, UnlockTypes DEF HandoffDone, ServerTypeOK, SessionTypeOK, requestVars
  <2>3. SessionTypeOK'
    BY <1>4, UnlockTypes DEF HandoffDone, SessionTypeOK
  <2>4. LockInv'
    BY <1>4 DEF HandoffDone, LockInv, QueueHeld, RoomForPrompt, RoomForSettings, ServerTypeOK, LockRecord, storeVars, queueVars, threadVars, requestVars, At, Unlock, Unlocked
  <2> QED BY <2>1, <2>2, <2>3, <2>4
<1> QED BY <1>1, <1>2, <1>3, <1>4 DEF Handoff

LEMMA LockedRequestPreserves ==
    ASSUME IInv, LockedRequest
    PROVE  IInv'
<1> USE TurnsAssumption DEF IInv, TypeOK
<1>1. CASE SendPrompt
  <2>1. StoreTypeOK'
    BY <1>1 DEF SendPrompt, StoreTypeOK, Status, threadVars, queueVars, storeVars
  <2>2. ServerTypeOK'
    <3>1. lock' \in LockRecord
      BY <1>1, LockTypes DEF SendPrompt, LockPhase, LockHolder, Busy
    <3> QED BY <1>1, <3>1 DEF SendPrompt, ServerTypeOK, processVars, requestVars
  <2>3. SessionTypeOK'
    BY <1>1, SessionSame DEF SendPrompt, agentVars
  <2>4. LockInv'
    BY <1>1 DEF SendPrompt, LockInv, QueueHeld, RoomForPrompt, RoomForSettings, ServerTypeOK, LockRecord, storeVars, queueVars, threadVars, requestVars, At, Acquire, Unlocked
  <2> QED BY <2>1, <2>2, <2>3, <2>4
<1>2. CASE QueuePrompt
  <2>1. StoreTypeOK'
    <3>1. accepted' \in 1..MaxPrompts
      BY <1>2 DEF QueuePrompt, At, LockInv, RoomForPrompt, StoreTypeOK
    <3>2. Append(queue, accepted') \in Seq(Prompt)
      BY <3>1 DEF StoreTypeOK, Prompt
    <3> QED BY <1>2, <3>1, <3>2 DEF QueuePrompt, StoreTypeOK, threadVars
  <2>2. ServerTypeOK'
    BY <1>2, UnlockTypes DEF QueuePrompt, ServerTypeOK, SessionTypeOK, requestVars
  <2>3. SessionTypeOK'
    BY <1>2, UnlockTypes DEF QueuePrompt, SessionTypeOK
  <2>4. LockInv'
    BY <1>2 DEF QueuePrompt, LockInv, QueueHeld, RoomForPrompt, RoomForSettings, ServerTypeOK, LockRecord, storeVars, queueVars, threadVars, requestVars, At, Unlock, Unlocked
  <2> QED BY <2>1, <2>2, <2>3, <2>4
<1>3. CASE CompactContext
  <2>1. StoreTypeOK'
    BY <1>3, StoreSame DEF CompactContext
  <2>2. ServerTypeOK'
    <3>1. lock' \in LockRecord
      BY <1>3, LockTypes DEF CompactContext, LockPhase, LockHolder, Busy
    <3> QED BY <1>3, <3>1 DEF CompactContext, ServerTypeOK, processVars, requestVars
  <2>3. SessionTypeOK'
    BY <1>3, SessionSame DEF CompactContext, agentVars
  <2>4. LockInv'
    BY <1>3 DEF CompactContext, LockInv, QueueHeld, RoomForPrompt, RoomForSettings, ServerTypeOK, LockRecord, storeVars, queueVars, threadVars, requestVars, At, Acquire, Unlocked
  <2> QED BY <2>1, <2>2, <2>3, <2>4
<1>4. CASE ReapIdle
  <2>1. StoreTypeOK'
    BY <1>4, StoreSame DEF ReapIdle
  <2>2. ServerTypeOK'
    <3>1. cur' \in {NoSession} \cup Session
      BY <1>4, UnregisterTypes DEF ReapIdle
    <3> QED BY <1>4, <3>1 DEF ReapIdle, ServerTypeOK, processVars, requestVars
  <2>3. SessionTypeOK'
    BY <1>4, UnregisterTypes DEF ReapIdle, SessionTypeOK
  <2>4. LockInv'
    BY <1>4, LockSame DEF ReapIdle, storeVars, queueVars, threadVars, requestVars
  <2> QED BY <2>1, <2>2, <2>3, <2>4
<1>5. CASE \E p \in Prompt : CancelQueuedPrompt(p)
  <2>1. StoreTypeOK'
    <3>1. PICK p \in Prompt : CancelQueuedPrompt(p)
      BY <1>5
    <3>2. PICK i \in 1..Len(queue) : queue' = RemoveAt(queue, i)
      BY <3>1 DEF CancelQueuedPrompt
    <3>3. queue' \in Seq(Prompt)
      BY <3>2 DEF StoreTypeOK, RemoveAt
    <3> QED BY <3>1, <3>3 DEF CancelQueuedPrompt, StoreTypeOK, threadVars
  <2>2. ServerTypeOK'
    BY <1>5, ServerSame DEF CancelQueuedPrompt, processVars, requestVars
  <2>3. SessionTypeOK'
    BY <1>5, SessionSame DEF CancelQueuedPrompt, agentVars
  <2>4. LockInv'
    BY <1>5 DEF CancelQueuedPrompt, LockInv, QueueHeld, RoomForPrompt, RoomForSettings, ServerTypeOK, LockRecord, storeVars, queueVars, threadVars, requestVars, At
  <2> QED BY <2>1, <2>2, <2>3, <2>4
<1> QED BY <1>1, <1>2, <1>3, <1>4, <1>5 DEF LockedRequest

LEMMA PumpPreserves ==
    ASSUME IInv, NEW s \in Session, Pump(s)
    PROVE  IInv'
<1> USE TurnsAssumption DEF IInv, TypeOK
<1>1. CASE PumpDrops(s)
  <2>1. StoreTypeOK'
    BY <1>1, StoreSame DEF PumpDrops
  <2>2. ServerTypeOK'
    BY <1>1, ServerSame DEF PumpDrops, processVars, requestVars
  <2>3. SessionTypeOK'
    <3>1. sess[s] \in SessionRecord /\ sess[s].chan \in Seq(EventRecord) /\ sess[s].chan # <<>>
      BY <1>1 DEF PumpDrops, Reads, SessionTypeOK, SessionRecord
    <3> DEFINE q == Tail(sess[s].chan)
               e == Head(sess[s].chan)
    <3>2. q \in Seq(EventRecord) /\ e \in EventRecord
      BY <3>1, ChanTypes
    <3> HIDE DEF q
    <3>3. [sess EXCEPT ![s].chan = q] \in [Session -> SessionRecord]
      BY <3>2, SessionFields DEF SessionTypeOK
    <3> QED BY <1>1, <3>3 DEF PumpDrops, Popped, SessionTypeOK, q
  <2>4. LockInv'
    BY <1>1, LockSame DEF PumpDrops, storeVars, queueVars, threadVars, requestVars
  <2> QED BY <2>1, <2>2, <2>3, <2>4
<1>2. CASE PumpInfo(s)
  <2>1. StoreTypeOK'
    BY <1>2 DEF PumpInfo, StoreTypeOK, Status, threadVars, queueVars, storeVars
  <2>2. ServerTypeOK'
    BY <1>2, ServerSame DEF PumpInfo, processVars, requestVars
  <2>3. SessionTypeOK'
    <3>1. sess[s] \in SessionRecord /\ sess[s].chan \in Seq(EventRecord) /\ sess[s].chan # <<>>
      BY <1>2 DEF PumpInfo, Reads, SessionTypeOK, SessionRecord
    <3> DEFINE q == Tail(sess[s].chan)
               e == Head(sess[s].chan)
    <3>2. q \in Seq(EventRecord) /\ e \in EventRecord
      BY <3>1, ChanTypes
    <3> HIDE DEF q
    <3>3. [sess EXCEPT ![s].chan = q] \in [Session -> SessionRecord]
      BY <3>2, SessionFields DEF SessionTypeOK
    <3> QED BY <1>2, <3>3 DEF PumpInfo, Popped, SessionTypeOK, q
  <2>4. LockInv'
    BY <1>2, LockSame DEF PumpInfo, storeVars, queueVars, threadVars, requestVars
  <2> QED BY <2>1, <2>2, <2>3, <2>4
<1>3. CASE PumpStarted(s)
  <2>1. StoreTypeOK'
    BY <1>3 DEF PumpStarted, StoreTypeOK, Status, threadVars, queueVars, storeVars
  <2>2. ServerTypeOK'
    BY <1>3, ServerSame DEF PumpStarted, processVars, requestVars
  <2>3. SessionTypeOK'
    <3>1. sess[s] \in SessionRecord /\ sess[s].chan \in Seq(EventRecord) /\ sess[s].chan # <<>>
      BY <1>3 DEF PumpStarted, Reads, SessionTypeOK, SessionRecord
    <3> DEFINE q == Tail(sess[s].chan)
               e == Head(sess[s].chan)
    <3>2. q \in Seq(EventRecord) /\ e \in EventRecord
      BY <3>1, ChanTypes
    <3> HIDE DEF q
    <3>3. [sess EXCEPT ![s].chan = q] \in [Session -> SessionRecord]
      BY <3>2, SessionFields DEF SessionTypeOK
    <3> QED BY <1>3, <3>3 DEF PumpStarted, Popped, SessionTypeOK, q
  <2>4. LockInv'
    BY <1>3, LockSame DEF PumpStarted, storeVars, queueVars, threadVars, requestVars
  <2> QED BY <2>1, <2>2, <2>3, <2>4
<1>4. CASE PumpAsk(s)
  <2>1. StoreTypeOK'
    <3>1. sess[s].chan \in Seq(EventRecord) /\ sess[s].chan # <<>>
      BY <1>4 DEF PumpAsk, Reads, SessionTypeOK, SessionRecord
    <3>2. Head(sess[s].chan) \in EventRecord /\ Head(sess[s].chan).kind = "ask"
      BY <1>4, <3>1, ChanTypes DEF PumpAsk, Reads
    <3>3. Head(sess[s].chan).ask \in Approval
      BY <3>2, EventTypes
    <3> QED BY <1>4, <3>3 DEF PumpAsk, StoreTypeOK, Status, queueVars
  <2>2. ServerTypeOK'
    BY <1>4, ServerSame DEF PumpAsk, processVars, requestVars
  <2>3. SessionTypeOK'
    <3>1. sess[s] \in SessionRecord /\ sess[s].chan \in Seq(EventRecord) /\ sess[s].chan # <<>>
      BY <1>4 DEF PumpAsk, Reads, SessionTypeOK, SessionRecord
    <3> DEFINE q == Tail(sess[s].chan)
               e == Head(sess[s].chan)
    <3>2. q \in Seq(EventRecord) /\ e \in EventRecord
      BY <3>1, ChanTypes
    <3> HIDE DEF q
    <3>3. [sess EXCEPT ![s].chan = q] \in [Session -> SessionRecord]
      BY <3>2, SessionFields DEF SessionTypeOK
    <3> QED BY <1>4, <3>3 DEF PumpAsk, Popped, SessionTypeOK, q
  <2>4. LockInv'
    BY <1>4, LockSame DEF PumpAsk, storeVars, queueVars, threadVars, requestVars
  <2> QED BY <2>1, <2>2, <2>3, <2>4
<1>5. CASE PumpAutoResolve(s)
  <2>1. StoreTypeOK'
    BY <1>5, StoreSame DEF PumpAutoResolve
  <2>2. ServerTypeOK'
    BY <1>5, ServerSame DEF PumpAutoResolve, processVars, requestVars
  <2>3. SessionTypeOK'
    <3>1. sess[s] \in SessionRecord /\ sess[s].chan \in Seq(EventRecord) /\ sess[s].chan # <<>>
      BY <1>5 DEF PumpAutoResolve, Reads, SessionTypeOK, SessionRecord
    <3> DEFINE q == Tail(sess[s].chan)
               e == Head(sess[s].chan)
    <3>2. q \in Seq(EventRecord) /\ e \in EventRecord
      BY <3>1, ChanTypes
    <3> DEFINE u == sess[s].asks \ {e.ask}
    <3>3. u \in SUBSET Approval
      BY <3>1 DEF SessionRecord
    <3> DEFINE r == [sess[s] EXCEPT !.chan = q, !.asks = u]
    <3>4. r \in SessionRecord
      <4> HIDE DEF q, u
      <4> QED BY <3>1, <3>2, <3>3, RecordUpdates
    <3>5. sess' = [sess EXCEPT ![s] = r]
      BY <1>5, <3>1 DEF PumpAutoResolve, SessionTypeOK, u
    <3> HIDE DEF r
    <3>6. sess' \in [Session -> SessionRecord]
      BY <3>4, <3>5, SessionUpdate DEF SessionTypeOK
    <3>7. UNCHANGED <<nsess, nasks>>
      BY <1>5 DEF PumpAutoResolve
    <3> QED BY <3>6, <3>7 DEF SessionTypeOK
  <2>4. LockInv'
    BY <1>5, LockSame DEF PumpAutoResolve, storeVars, queueVars, threadVars, requestVars
  <2> QED BY <2>1, <2>2, <2>3, <2>4
<1>6. CASE PumpCompleted(s)
  <2>1. StoreTypeOK'
    BY <1>6, StoreSame DEF PumpCompleted
  <2>2. ServerTypeOK'
    BY <1>6, ServerSame DEF PumpCompleted, processVars, requestVars
  <2>3. SessionTypeOK'
    <3>1. sess[s] \in SessionRecord /\ sess[s].chan \in Seq(EventRecord) /\ sess[s].chan # <<>>
      BY <1>6 DEF PumpCompleted, Reads, SessionTypeOK, SessionRecord
    <3> DEFINE q == Tail(sess[s].chan)
               e == Head(sess[s].chan)
    <3>2. q \in Seq(EventRecord) /\ e \in EventRecord
      BY <3>1, ChanTypes
    <3> DEFINE b == e.kind = "done"
    <3>3. b \in BOOLEAN
      OBVIOUS
    <3> DEFINE r == [sess[s] EXCEPT !.chan = q, !.idle = TRUE, !.at = "handoff", !.ok = b]
    <3>4. r \in SessionRecord
      <4> HIDE DEF q, b
      <4> QED BY <3>1, <3>2, <3>3, RecordUpdates
    <3>5. sess' = [sess EXCEPT ![s] = r]
      BY <1>6, <3>1 DEF PumpCompleted, SessionTypeOK, b
    <3> HIDE DEF r
    <3>6. sess' \in [Session -> SessionRecord]
      BY <3>4, <3>5, SessionUpdate DEF SessionTypeOK
    <3>7. UNCHANGED <<nsess, nasks>>
      BY <1>6 DEF PumpCompleted
    <3> QED BY <3>6, <3>7 DEF SessionTypeOK
  <2>4. LockInv'
    BY <1>6, LockSame DEF PumpCompleted, storeVars, queueVars, threadVars, requestVars
  <2> QED BY <2>1, <2>2, <2>3, <2>4
<1>7. CASE HandoffAcquire(s)
  <2>1. StoreTypeOK'
    BY <1>7, StoreSame DEF HandoffAcquire
  <2>2. ServerTypeOK'
    <3>1. lock' = [pc |-> "settle", by |-> "handoff", cfg |-> 0, q |-> queue, aps |-> pending, l |-> s, own |-> s]
      BY <1>7 DEF HandoffAcquire, Unlocked
    <3>2. lock' \in LockRecord
      BY <3>1 DEF StoreTypeOK, LockRecord, LockPhase, LockHolder
    <3> QED BY <1>7, <3>2 DEF HandoffAcquire, ServerTypeOK, processVars, requestVars
  <2>3. SessionTypeOK'
    BY <1>7, SessionSame DEF HandoffAcquire, agentVars
  <2>4. LockInv'
    BY <1>7 DEF HandoffAcquire, LockInv, QueueHeld, RoomForPrompt, RoomForSettings, ServerTypeOK, LockRecord, storeVars, queueVars, threadVars, requestVars, At, Acquire, Unlocked
  <2> QED BY <2>1, <2>2, <2>3, <2>4
<1>8. CASE PumpClosed(s)
  <2>1. StoreTypeOK'
    BY <1>8, StoreSame DEF PumpClosed
  <2>2. ServerTypeOK'
    BY <1>8, SessionSame DEF PumpClosed, ServerTypeOK, processVars, requestVars, Forget
  <2>3. SessionTypeOK'
    <3>1. sess[s] \in SessionRecord /\ sess[s].chan \in Seq(EventRecord) /\ sess[s].chan # <<>>
      BY <1>8 DEF PumpClosed, Reads, SessionTypeOK, SessionRecord
    <3> DEFINE q == Tail(sess[s].chan)
               e == Head(sess[s].chan)
    <3>2. q \in Seq(EventRecord) /\ e \in EventRecord
      BY <3>1, ChanTypes
    <3> DEFINE b == e.kind = "closed"
               c == cur = s
    <3>3. b \in BOOLEAN /\ c \in BOOLEAN
      OBVIOUS
    <3> DEFINE r == [sess[s] EXCEPT !.chan = q, !.at = "closed", !.ok = b, !.mine = c]
    <3>4. r \in SessionRecord
      <4> HIDE DEF q, b, c
      <4> QED BY <3>1, <3>2, <3>3, RecordUpdates
    <3>5. sess' = [sess EXCEPT ![s] = r]
      BY <1>8, <3>1 DEF PumpClosed, SessionTypeOK, b, c
    <3> HIDE DEF r
    <3>6. sess' \in [Session -> SessionRecord]
      BY <3>4, <3>5, SessionUpdate DEF SessionTypeOK
    <3>7. UNCHANGED <<nsess, nasks>>
      BY <1>8 DEF PumpClosed
    <3> QED BY <3>6, <3>7 DEF SessionTypeOK
  <2>4. LockInv'
    BY <1>8, LockSame DEF PumpClosed, storeVars, queueVars, threadVars, requestVars
  <2> QED BY <2>1, <2>2, <2>3, <2>4
<1>9. CASE PumpClosedRead(s)
  <2>1. StoreTypeOK'
    BY <1>9, StoreSame DEF PumpClosedRead
  <2>2. ServerTypeOK'
    BY <1>9, ServerSame DEF PumpClosedRead, processVars, requestVars
  <2>3. SessionTypeOK'
    <3> DEFINE r == [sess[s] EXCEPT !.at = "write", !.saw = status]
    <3>1. r \in SessionRecord
      BY RecordUpdates DEF SessionTypeOK, StoreTypeOK
    <3>2. sess' = [sess EXCEPT ![s] = r]
      BY <1>9 DEF PumpClosedRead, SessionTypeOK
    <3> HIDE DEF r
    <3>3. sess' \in [Session -> SessionRecord]
      BY <3>1, <3>2, SessionUpdate DEF SessionTypeOK
    <3>4. UNCHANGED <<nsess, nasks>>
      BY <1>9 DEF PumpClosedRead
    <3> QED BY <3>3, <3>4 DEF SessionTypeOK
  <2>4. LockInv'
    BY <1>9, LockSame DEF PumpClosedRead, storeVars, queueVars, threadVars, requestVars
  <2> QED BY <2>1, <2>2, <2>3, <2>4
<1>10. CASE PumpClosedWrite(s)
  <2>1. StoreTypeOK'
    BY <1>10 DEF PumpClosedWrite, StoreTypeOK, Status, threadVars, queueVars, storeVars
  <2>2. ServerTypeOK'
    BY <1>10, ServerSame DEF PumpClosedWrite, processVars, requestVars
  <2>3. SessionTypeOK'
    BY <1>10, SessionFields DEF PumpClosedWrite, SessionTypeOK
  <2>4. LockInv'
    BY <1>10, LockSame DEF PumpClosedWrite, storeVars, queueVars, threadVars, requestVars
  <2> QED BY <2>1, <2>2, <2>3, <2>4
<1> QED BY <1>1, <1>2, <1>3, <1>4, <1>5, <1>6, <1>7, <1>8, <1>9, <1>10 DEF Pump

LEMMA AgentPreserves ==
    ASSUME IInv, NEW s \in Session, Agent(s)
    PROVE  IInv'
<1> USE TurnsAssumption DEF IInv, TypeOK
<1>1. CASE AgentCompletes(s)
  <2>1. StoreTypeOK'
    BY <1>1, StoreSame DEF AgentCompletes
  <2>2. ServerTypeOK'
    BY <1>1, ServerSame DEF AgentCompletes, processVars, requestVars
  <2>3. SessionTypeOK'
    <3>1. sess[s] \in SessionRecord /\ sess[s].chan \in Seq(EventRecord)
      BY DEF SessionTypeOK, SessionRecord
    <3>2. PICK k \in {"done", "failed"} :
            sess' = [sess EXCEPT ![s].turns = @ - 1, ![s].asks = {}, ![s].chan = Append(@, Event(k))]
      BY <1>1 DEF AgentCompletes
    <3> DEFINE n == sess[s].turns - 1
               u == {}
               q == Append(sess[s].chan, Event(k))
    <3>3. n \in Nat /\ u \in SUBSET Approval /\ q \in Seq(EventRecord)
      <4>1. n \in Nat /\ u \in SUBSET Approval
        BY <1>1, <3>1 DEF AgentCompletes, SessionRecord
      <4>2. q \in Seq(EventRecord)
        BY <3>1, ChanTypes, EventTypes
      <4> QED BY <4>1, <4>2
    <3> DEFINE r == [sess[s] EXCEPT !.turns = n, !.asks = u, !.chan = q]
    <3>4. r \in SessionRecord
      <4> HIDE DEF n, u, q
      <4> QED BY <3>1, <3>2, <3>3, RecordUpdates
    <3>5. sess' = [sess EXCEPT ![s] = r]
      BY <1>1, <3>1, <3>2 DEF AgentCompletes, SessionTypeOK, n, u, q
    <3> HIDE DEF r
    <3>6. sess' \in [Session -> SessionRecord]
      BY <3>4, <3>5, SessionUpdate DEF SessionTypeOK
    <3>7. UNCHANGED <<nsess, nasks>>
      BY <1>1 DEF AgentCompletes
    <3> QED BY <3>6, <3>7 DEF SessionTypeOK
  <2>4. LockInv'
    BY <1>1, LockSame DEF AgentCompletes, storeVars, queueVars, threadVars, requestVars
  <2> QED BY <2>1, <2>2, <2>3, <2>4
<1>2. CASE AgentAsks(s)
  <2>1. StoreTypeOK'
    BY <1>2, StoreSame DEF AgentAsks
  <2>2. ServerTypeOK'
    BY <1>2, ServerSame DEF AgentAsks, processVars, requestVars
  <2>3. SessionTypeOK'
    <3>1. sess[s] \in SessionRecord /\ sess[s].chan \in Seq(EventRecord)
      BY DEF SessionTypeOK, SessionRecord
    <3> DEFINE a == nasks + 1
               u == sess[s].asks \cup {a}
               q == Append(sess[s].chan, AskEvent(a))
    <3>2. a \in Approval /\ nasks' = a
      BY <1>2 DEF AgentAsks, SessionTypeOK, Approval
    <3>3. u \in SUBSET Approval /\ q \in Seq(EventRecord)
      <4>1. u \in SUBSET Approval
        BY <3>1, <3>2 DEF SessionRecord
      <4>2. q \in Seq(EventRecord)
        BY <3>1, <3>2, ChanTypes, EventTypes
      <4> QED BY <4>1, <4>2
    <3> DEFINE r == [sess[s] EXCEPT !.asks = u, !.chan = q]
    <3>4. r \in SessionRecord
      <4> HIDE DEF u, q
      <4> QED BY <3>1, <3>2, <3>3, RecordUpdates
    <3>5. sess' = [sess EXCEPT ![s] = r]
      BY <1>2, <3>1, <3>2 DEF AgentAsks, SessionTypeOK, u, q
    <3> HIDE DEF r
    <3>6. sess' \in [Session -> SessionRecord]
      BY <3>4, <3>5, SessionUpdate DEF SessionTypeOK
    <3>7. nsess' = nsess /\ nasks' \in 0..MaxAsks
      BY <1>2, <3>2 DEF AgentAsks, Approval
    <3> QED BY <3>6, <3>7 DEF SessionTypeOK
  <2>4. LockInv'
    BY <1>2, LockSame DEF AgentAsks, storeVars, queueVars, threadVars, requestVars
  <2> QED BY <2>1, <2>2, <2>3, <2>4
<1>3. CASE AgentExits(s)
  <2>1. StoreTypeOK'
    BY <1>3, StoreSame DEF AgentExits
  <2>2. ServerTypeOK'
    BY <1>3, ServerSame DEF AgentExits, processVars, requestVars
  <2>3. SessionTypeOK'
    <3> DEFINE e == "gone"
               r == [sess[s] EXCEPT !.life = e]
    <3>1. r \in SessionRecord
      <4>1. e \in Life /\ sess[s] \in SessionRecord
        BY DEF Life, SessionTypeOK, SessionRecord
      <4> HIDE DEF e
      <4> QED BY <4>1, RecordUpdates
    <3>2. sess' = [sess EXCEPT ![s] = r]
      BY <1>3 DEF AgentExits, SessionTypeOK
    <3> HIDE DEF r
    <3>3. sess' \in [Session -> SessionRecord]
      BY <3>1, <3>2, SessionUpdate DEF SessionTypeOK
    <3>4. UNCHANGED <<nsess, nasks>>
      BY <1>3 DEF AgentExits
    <3> QED BY <3>3, <3>4 DEF SessionTypeOK
  <2>4. LockInv'
    BY <1>3, LockSame DEF AgentExits, storeVars, queueVars, threadVars, requestVars
  <2> QED BY <2>1, <2>2, <2>3, <2>4
<1>4. CASE CloseCall(s)
  <2>1. StoreTypeOK'
    BY <1>4, StoreSame DEF CloseCall
  <2>2. ServerTypeOK'
    BY <1>4, ServerSame DEF CloseCall, processVars, requestVars
  <2>3. SessionTypeOK'
    <3> DEFINE e == IF sess[s].life = "open" THEN "closing"
                    ELSE IF sess[s].life = "gone" THEN "ended" ELSE sess[s].life
               r == [sess[s] EXCEPT !.due = FALSE, !.life = e]
    <3>1. r \in SessionRecord
      <4>1. e \in Life /\ sess[s] \in SessionRecord
        BY DEF Life, SessionTypeOK, SessionRecord
      <4> HIDE DEF e
      <4> QED BY <4>1, RecordUpdates
    <3>2. sess' = [sess EXCEPT ![s] = r]
      BY <1>4 DEF CloseCall, SessionTypeOK
    <3> HIDE DEF r
    <3>3. sess' \in [Session -> SessionRecord]
      BY <3>1, <3>2, SessionUpdate DEF SessionTypeOK
    <3>4. UNCHANGED <<nsess, nasks>>
      BY <1>4 DEF CloseCall
    <3> QED BY <3>3, <3>4 DEF SessionTypeOK
  <2>4. LockInv'
    BY <1>4, LockSame DEF CloseCall, storeVars, queueVars, threadVars, requestVars
  <2> QED BY <2>1, <2>2, <2>3, <2>4
<1>5. CASE AgentEnds(s)
  <2>1. StoreTypeOK'
    BY <1>5, StoreSame DEF AgentEnds
  <2>2. ServerTypeOK'
    BY <1>5, ServerSame DEF AgentEnds, processVars, requestVars
  <2>3. SessionTypeOK'
    <3>1. sess[s] \in SessionRecord /\ sess[s].chan \in Seq(EventRecord)
      BY DEF SessionTypeOK, SessionRecord
    <3>2. PICK k \in {"closed", "died"} :
            sess' = [sess EXCEPT ![s].life = "told", ![s].turns = 0, ![s].asks = {}, ![s].chan = Append(@, Event(k))]
      BY <1>5 DEF AgentEnds
    <3> DEFINE u == {}
               q == Append(sess[s].chan, Event(k))
    <3>3. u \in SUBSET Approval /\ q \in Seq(EventRecord)
      BY <3>1, ChanTypes, EventTypes
    <3> DEFINE r == [sess[s] EXCEPT !.life = "told", !.turns = 0, !.asks = u, !.chan = q]
    <3>4. r \in SessionRecord
      <4> HIDE DEF u, q
      <4> QED BY <3>1, <3>2, <3>3, RecordUpdates
    <3>5. sess' = [sess EXCEPT ![s] = r]
      BY <1>5, <3>1, <3>2 DEF AgentEnds, SessionTypeOK, u, q
    <3> HIDE DEF r
    <3>6. sess' \in [Session -> SessionRecord]
      BY <3>4, <3>5, SessionUpdate DEF SessionTypeOK
    <3>7. UNCHANGED <<nsess, nasks>>
      BY <1>5 DEF AgentEnds
    <3> QED BY <3>6, <3>7 DEF SessionTypeOK
  <2>4. LockInv'
    BY <1>5, LockSame DEF AgentEnds, storeVars, queueVars, threadVars, requestVars
  <2> QED BY <2>1, <2>2, <2>3, <2>4
<1>6. CASE AgentReaped(s) \/ AgentStops(s)
  <2>1. StoreTypeOK'
    BY <1>6, StoreSame DEF AgentReaped, AgentStops
  <2>2. ServerTypeOK'
    BY <1>6, ServerSame DEF AgentReaped, AgentStops, processVars, requestVars
  <2>3. SessionTypeOK'
    <3>1. PICK e \in {"ended", "failed", "dead"} : sess' = [sess EXCEPT ![s].life = e]
      BY <1>6 DEF AgentReaped, AgentStops
    <3>2. [sess[s] EXCEPT !.life = e] \in SessionRecord
      BY RecordUpdates DEF Life, SessionTypeOK
    <3>3. sess' = [sess EXCEPT ![s] = [sess[s] EXCEPT !.life = e]]
      BY <3>1 DEF SessionTypeOK
    <3>4. sess' \in [Session -> SessionRecord]
      BY <3>2, <3>3, SessionUpdate DEF SessionTypeOK
    <3>5. UNCHANGED <<nsess, nasks>>
      BY <1>6 DEF AgentReaped, AgentStops
    <3> QED BY <3>4, <3>5 DEF SessionTypeOK
  <2>4. LockInv'
    BY <1>6, LockSame DEF AgentReaped, AgentStops, storeVars, queueVars, threadVars, requestVars
  <2> QED BY <2>1, <2>2, <2>3, <2>4
<1> QED BY <1>1, <1>2, <1>3, <1>4, <1>5, <1>6 DEF Agent

LEMMA FreeRequestPreserves ==
    ASSUME IInv, FreeRequest
    PROVE  IInv'
<1> USE TurnsAssumption DEF IInv, TypeOK
<1>1. CASE ArchiveRead
  <2>1. StoreTypeOK'
    BY <1>1, StoreSame DEF ArchiveRead
  <2>2. ServerTypeOK'
    BY <1>1 DEF ArchiveRead, ServerTypeOK, processVars, Busy
  <2>3. SessionTypeOK'
    BY <1>1, SessionSame DEF ArchiveRead, agentVars
  <2>4. LockInv'
    BY <1>1, LockSame DEF ArchiveRead, storeVars, queueVars, threadVars, requestVars
  <2> QED BY <2>1, <2>2, <2>3, <2>4
<1>2. CASE ArchiveClose
  <2>1. StoreTypeOK'
    BY <1>2, StoreSame DEF ArchiveClose
  <2>2. ServerTypeOK'
    <3>1. cur' \in {NoSession} \cup Session
      BY <1>2, UnregisterTypes DEF ArchiveClose
    <3> QED BY <1>2, <3>1 DEF ArchiveClose, ServerTypeOK, processVars
  <2>3. SessionTypeOK'
    BY <1>2, UnregisterTypes DEF ArchiveClose, SessionTypeOK
  <2>4. LockInv'
    BY <1>2, LockSame DEF ArchiveClose, storeVars, queueVars, threadVars, requestVars
  <2> QED BY <2>1, <2>2, <2>3, <2>4
<1>3. CASE ArchiveAppend
  <2>1. StoreTypeOK'
    BY <1>3 DEF ArchiveAppend, StoreTypeOK, Status, threadVars, queueVars, storeVars
  <2>2. ServerTypeOK'
    BY <1>3 DEF ArchiveAppend, ServerTypeOK, processVars, Busy, NoRequest
  <2>3. SessionTypeOK'
    BY <1>3, SessionSame DEF ArchiveAppend, agentVars
  <2>4. LockInv'
    BY <1>3, LockSame DEF ArchiveAppend, storeVars, queueVars, threadVars, requestVars
  <2> QED BY <2>1, <2>2, <2>3, <2>4
<1>4. CASE SettingsRead
  <2>1. StoreTypeOK'
    BY <1>4, StoreSame DEF SettingsRead
  <2>2. ServerTypeOK'
    BY <1>4 DEF SettingsRead, ServerTypeOK, processVars, Busy
  <2>3. SessionTypeOK'
    BY <1>4, SessionSame DEF SettingsRead, agentVars
  <2>4. LockInv'
    BY <1>4 DEF SettingsRead, LockInv, QueueHeld, RoomForPrompt, RoomForSettings, ServerTypeOK, LockRecord, storeVars, queueVars, threadVars, requestVars
  <2> QED BY <2>1, <2>2, <2>3, <2>4
<1>5. CASE SettingsClose
  <2>1. StoreTypeOK'
    BY <1>5, StoreSame DEF SettingsClose
  <2>2. ServerTypeOK'
    <3>1. cur' \in {NoSession} \cup Session
      BY <1>5, UnregisterTypes DEF SettingsClose
    <3> QED BY <1>5, <3>1 DEF SettingsClose, ServerTypeOK, processVars
  <2>3. SessionTypeOK'
    BY <1>5, UnregisterTypes DEF SettingsClose, SessionTypeOK
  <2>4. LockInv'
    BY <1>5 DEF SettingsClose, LockInv, QueueHeld, RoomForPrompt, RoomForSettings, ServerTypeOK, LockRecord, storeVars, queueVars, threadVars, requestVars
  <2> QED BY <2>1, <2>2, <2>3, <2>4
<1>6. CASE SettingsLive
  <2>1. StoreTypeOK'
    BY <1>6, StoreSame DEF SettingsLive
  <2>2. ServerTypeOK'
    BY <1>6 DEF SettingsLive, ServerTypeOK, processVars, Busy
  <2>3. SessionTypeOK'
    BY <1>6, SessionSame DEF SettingsLive, agentVars
  <2>4. LockInv'
    BY <1>6 DEF SettingsLive, LockInv, QueueHeld, RoomForPrompt, RoomForSettings, ServerTypeOK, LockRecord, storeVars, queueVars, threadVars, requestVars
  <2> QED BY <2>1, <2>2, <2>3, <2>4
<1>7. CASE SettingsMark
  <2>1. StoreTypeOK'
    BY <1>7, StoreSame DEF SettingsMark
  <2>2. ServerTypeOK'
    BY <1>7 DEF SettingsMark, ServerTypeOK, processVars, Busy
  <2>3. SessionTypeOK'
    <3>1. config + 1 \in 0..MaxConfig
      BY <1>7 DEF SettingsMark, LockInv, RoomForSettings, StoreTypeOK
    <3>2. sess' \in [Session -> SessionRecord]
      <4>1. CASE sess' = [sess EXCEPT ![sett.l].stale = TRUE]
        BY <4>1, SessionFields DEF SessionTypeOK
      <4>2. CASE sess' = [sess EXCEPT ![sett.l].cfg = config + 1]
        BY <3>1, <4>2, SessionFields DEF SessionTypeOK
      <4> QED BY <1>7, <4>1, <4>2 DEF SettingsMark
    <3> QED BY <1>7, <3>2 DEF SettingsMark, SessionTypeOK
  <2>4. LockInv'
    BY <1>7 DEF SettingsMark, LockInv, QueueHeld, RoomForPrompt, RoomForSettings, ServerTypeOK, LockRecord, storeVars, queueVars, threadVars, requestVars
  <2> QED BY <2>1, <2>2, <2>3, <2>4
<1>8. CASE SettingsAppend
  <2>1. StoreTypeOK'
    <3>1. config' \in 0..MaxConfig
      BY <1>8 DEF SettingsAppend, LockInv, RoomForSettings, StoreTypeOK
    <3> QED BY <1>8, <3>1 DEF SettingsAppend, StoreTypeOK, queueVars
  <2>2. ServerTypeOK'
    BY <1>8 DEF SettingsAppend, ServerTypeOK, processVars, Busy, NoRequest
  <2>3. SessionTypeOK'
    BY <1>8, SessionSame DEF SettingsAppend, agentVars
  <2>4. LockInv'
    BY <1>8 DEF SettingsAppend, LockInv, QueueHeld, RoomForPrompt, RoomForSettings, ServerTypeOK, LockRecord, storeVars, queueVars, threadVars, requestVars, NoRequest
  <2> QED BY <2>1, <2>2, <2>3, <2>4
<1>9. CASE InterruptRead
  <2>1. StoreTypeOK'
    BY <1>9, StoreSame DEF InterruptRead
  <2>2. ServerTypeOK'
    BY <1>9 DEF InterruptRead, ServerTypeOK, processVars, Busy
  <2>3. SessionTypeOK'
    BY <1>9, SessionSame DEF InterruptRead, agentVars
  <2>4. LockInv'
    BY <1>9, LockSame DEF InterruptRead, storeVars, queueVars, threadVars, requestVars
  <2> QED BY <2>1, <2>2, <2>3, <2>4
<1>10. CASE InterruptAppend
  <2>1. StoreTypeOK'
    BY <1>10 DEF InterruptAppend, StoreTypeOK, Status, threadVars, queueVars, storeVars
  <2>2. ServerTypeOK'
    <3>1. UNCHANGED <<app, crashes, cutOff, cur, lock, arch, sett, reso>> /\ intr' \in BOOLEAN
      BY <1>10 DEF InterruptAppend, processVars
    <3> QED BY <3>1 DEF ServerTypeOK
  <2>3. SessionTypeOK'
    BY <1>10, SessionSame DEF InterruptAppend, agentVars
  <2>4. LockInv'
    BY <1>10, LockSame DEF InterruptAppend, storeVars, queueVars, threadVars, requestVars
  <2> QED BY <2>1, <2>2, <2>3, <2>4
<1>11. CASE \E a \in Approval : ResolveRead(a)
  <2>1. StoreTypeOK'
    BY <1>11, StoreSame DEF ResolveRead
  <2>2. ServerTypeOK'
    <3>1. PICK a \in Approval : ResolveRead(a)
      BY <1>11
    <3>2. reso' = [pc |-> "tell", ask |-> a, l |-> cur, waits |-> FALSE]
      BY <3>1 DEF ResolveRead, NoAnswer
    <3>3. reso' \in [pc : {"none", "tell", "read", "append"}, ask : {NoApproval} \cup Approval,
                     l : {NoSession} \cup Session, waits : BOOLEAN]
      BY <3>1, <3>2 DEF ServerTypeOK
    <3>4. UNCHANGED <<app, crashes, cutOff, cur, lock, arch, sett, intr>>
      BY <3>1 DEF ResolveRead, processVars
    <3> QED BY <3>3, <3>4 DEF ServerTypeOK
  <2>3. SessionTypeOK'
    BY <1>11, SessionSame DEF ResolveRead, agentVars
  <2>4. LockInv'
    BY <1>11, LockSame DEF ResolveRead, storeVars, queueVars, threadVars, requestVars
  <2> QED BY <2>1, <2>2, <2>3, <2>4
<1>12. CASE ResolveTell
  <2>1. StoreTypeOK'
    BY <1>12, StoreSame DEF ResolveTell
  <2>2. ServerTypeOK'
    BY <1>12 DEF ResolveTell, ServerTypeOK, processVars, Busy, NoAnswer, NoSession, NoApproval
  <2>3. SessionTypeOK'
    <3>1. sess' \in [Session -> SessionRecord]
      BY <1>12, SessionFields DEF ResolveTell, SessionTypeOK
    <3> QED BY <1>12, <3>1 DEF ResolveTell, SessionTypeOK
  <2>4. LockInv'
    BY <1>12, LockSame DEF ResolveTell, storeVars, queueVars, threadVars, requestVars
  <2> QED BY <2>1, <2>2, <2>3, <2>4
<1>13. CASE ResolveReadThread
  <2>1. StoreTypeOK'
    BY <1>13, StoreSame DEF ResolveReadThread
  <2>2. ServerTypeOK'
    <3> DEFINE b == status = "awaiting"
    <3>1. b \in BOOLEAN /\ reso' = [reso EXCEPT !.pc = "append", !.waits = b]
      BY <1>13 DEF ResolveReadThread
    <3> HIDE DEF b
    <3>2. reso' \in [pc : {"none", "tell", "read", "append"}, ask : {NoApproval} \cup Approval,
                     l : {NoSession} \cup Session, waits : BOOLEAN]
      BY <3>1 DEF ServerTypeOK
    <3>3. UNCHANGED <<app, crashes, cutOff, cur, lock, arch, sett, intr>>
      BY <1>13 DEF ResolveReadThread, processVars
    <3> QED BY <3>2, <3>3 DEF ServerTypeOK
  <2>3. SessionTypeOK'
    BY <1>13, SessionSame DEF ResolveReadThread, agentVars
  <2>4. LockInv'
    BY <1>13, LockSame DEF ResolveReadThread, storeVars, queueVars, threadVars, requestVars
  <2> QED BY <2>1, <2>2, <2>3, <2>4
<1>14. CASE ResolveAppend
  <2>1. StoreTypeOK'
    BY <1>14 DEF ResolveAppend, StoreTypeOK, Status, threadVars, queueVars, storeVars
  <2>2. ServerTypeOK'
    BY <1>14 DEF ResolveAppend, ServerTypeOK, processVars, Busy, NoAnswer, NoSession, NoApproval
  <2>3. SessionTypeOK'
    BY <1>14, SessionSame DEF ResolveAppend, agentVars
  <2>4. LockInv'
    BY <1>14, LockSame DEF ResolveAppend, storeVars, queueVars, threadVars, requestVars
  <2> QED BY <2>1, <2>2, <2>3, <2>4
<1> QED BY <1>1, <1>2, <1>3, <1>4, <1>5, <1>6, <1>7, <1>8, <1>9, <1>10, <1>11, <1>12, <1>13, <1>14 DEF FreeRequest

LEMMA ProcessPreserves ==
    ASSUME IInv, Process
    PROVE  IInv'
<1> USE TurnsAssumption DEF IInv, TypeOK
<1>1. CASE Shutdown
  <2>1. StoreTypeOK'
    BY <1>1, StoreSame DEF Shutdown
  <2>2. ServerTypeOK'
    BY <1>1 DEF Shutdown, ServerTypeOK, requestVars
  <2>3. SessionTypeOK'
    BY <1>1, SessionFields DEF Shutdown, SessionTypeOK
  <2>4. LockInv'
    BY <1>1, LockSame DEF Shutdown, storeVars, queueVars, threadVars, requestVars
  <2> QED BY <2>1, <2>2, <2>3, <2>4
<1>2. CASE Crash
  <2>1. StoreTypeOK'
    BY <1>2, StoreSame DEF Crash
  <2>2. ServerTypeOK'
    <3>1. Down
      BY <1>2 DEF Crash
    <3> QED BY <3>1, DownTypes
  <2>3. SessionTypeOK'
    <3>1. Down /\ nasks' = nasks
      BY <1>2 DEF Crash
    <3> QED BY <3>1, DownTypes
  <2>4. LockInv'
    BY <1>2 DEF Crash, LockInv, QueueHeld, RoomForPrompt, RoomForSettings, ServerTypeOK, LockRecord, storeVars, queueVars, threadVars, requestVars, Down, Unlocked, NoRequest
  <2> QED BY <2>1, <2>2, <2>3, <2>4
<1>3. CASE Boot
  <2>1. StoreTypeOK'
    BY <1>3, StoreSame DEF Boot
  <2>2. ServerTypeOK'
    BY <1>3 DEF Boot, ServerTypeOK, requestVars
  <2>3. SessionTypeOK'
    BY <1>3, SessionSame DEF Boot, agentVars
  <2>4. LockInv'
    BY <1>3, LockSame DEF Boot, storeVars, queueVars, threadVars, requestVars
  <2> QED BY <2>1, <2>2, <2>3, <2>4
<1>4. CASE RecoverFails
  <2>1. StoreTypeOK'
    BY <1>4 DEF RecoverFails, StoreTypeOK, Status, threadVars, queueVars, storeVars
  <2>2. ServerTypeOK'
    <3>1. Down
      BY <1>4 DEF RecoverFails
    <3> QED BY <3>1, DownTypes
  <2>3. SessionTypeOK'
    <3>1. Down /\ nasks' = nasks
      BY <1>4 DEF RecoverFails
    <3> QED BY <3>1, DownTypes
  <2>4. LockInv'
    BY <1>4 DEF RecoverFails, LockInv, QueueHeld, RoomForPrompt, RoomForSettings, ServerTypeOK, LockRecord, storeVars, queueVars, threadVars, requestVars, Down, Unlocked, NoRequest
  <2> QED BY <2>1, <2>2, <2>3, <2>4
<1>5. CASE RecoverLists
  <2>1. StoreTypeOK'
    BY <1>5, StoreSame DEF RecoverLists
  <2>2. ServerTypeOK'
    BY <1>5 DEF RecoverLists, ServerTypeOK, requestVars
  <2>3. SessionTypeOK'
    BY <1>5, SessionSame DEF RecoverLists, agentVars
  <2>4. LockInv'
    BY <1>5, LockSame DEF RecoverLists, storeVars, queueVars, threadVars, requestVars
  <2> QED BY <2>1, <2>2, <2>3, <2>4
<1>6. CASE RecoverSettles
  <2>1. StoreTypeOK'
    BY <1>6 DEF RecoverSettles, StoreTypeOK, Status, threadVars, queueVars, storeVars
  <2>2. ServerTypeOK'
    BY <1>6, ServerSame DEF RecoverSettles, processVars, requestVars
  <2>3. SessionTypeOK'
    BY <1>6, SessionSame DEF RecoverSettles, agentVars
  <2>4. LockInv'
    BY <1>6, LockSame DEF RecoverSettles, storeVars, queueVars, threadVars, requestVars
  <2> QED BY <2>1, <2>2, <2>3, <2>4
<1>7. CASE RecoverQueue
  <2>1. StoreTypeOK'
    BY <1>7, StoreSame DEF RecoverQueue
  <2>2. ServerTypeOK'
    <3>1. lock' \in LockRecord
      BY <1>7, LockTypes DEF RecoverQueue, LockPhase, LockHolder, Busy
    <3> QED BY <1>7, <3>1 DEF RecoverQueue, ServerTypeOK, processVars, requestVars
  <2>3. SessionTypeOK'
    BY <1>7, SessionSame DEF RecoverQueue, agentVars
  <2>4. LockInv'
    BY <1>7 DEF RecoverQueue, LockInv, QueueHeld, RoomForPrompt, RoomForSettings, ServerTypeOK, LockRecord, storeVars, queueVars, threadVars, requestVars, At, Acquire, Unlocked
  <2> QED BY <2>1, <2>2, <2>3, <2>4
<1>8. CASE RecoverNothing
  <2>1. StoreTypeOK'
    BY <1>8, StoreSame DEF RecoverNothing
  <2>2. ServerTypeOK'
    BY <1>8 DEF RecoverNothing, ServerTypeOK, requestVars
  <2>3. SessionTypeOK'
    BY <1>8, SessionSame DEF RecoverNothing, agentVars
  <2>4. LockInv'
    BY <1>8, LockSame DEF RecoverNothing, storeVars, queueVars, threadVars, requestVars
  <2> QED BY <2>1, <2>2, <2>3, <2>4
<1>9. CASE ResumeNote
  <2>1. StoreTypeOK'
    BY <1>9 DEF ResumeNote, StoreTypeOK, Status, threadVars, queueVars, storeVars
  <2>2. ServerTypeOK'
    BY <1>9 DEF ResumeNote, ServerTypeOK, requestVars
  <2>3. SessionTypeOK'
    BY <1>9, SessionSame DEF ResumeNote, agentVars
  <2>4. LockInv'
    BY <1>9, LockSame DEF ResumeNote, storeVars, queueVars, threadVars, requestVars
  <2> QED BY <2>1, <2>2, <2>3, <2>4
<1>10. CASE ResumeAcquire
  <2>1. StoreTypeOK'
    BY <1>10, StoreSame DEF ResumeAcquire
  <2>2. ServerTypeOK'
    <3>1. lock' \in LockRecord
      BY <1>10, LockTypes DEF ResumeAcquire, LockPhase, LockHolder, Busy
    <3> QED BY <1>10, <3>1 DEF ResumeAcquire, ServerTypeOK, processVars, requestVars
  <2>3. SessionTypeOK'
    BY <1>10, SessionSame DEF ResumeAcquire, agentVars
  <2>4. LockInv'
    BY <1>10 DEF ResumeAcquire, LockInv, QueueHeld, RoomForPrompt, RoomForSettings, ServerTypeOK, LockRecord, storeVars, queueVars, threadVars, requestVars, At, Acquire, Unlocked
  <2> QED BY <2>1, <2>2, <2>3, <2>4
<1> QED BY <1>1, <1>2, <1>3, <1>4, <1>5, <1>6, <1>7, <1>8, <1>9, <1>10 DEF Process

\* The invariant of Turns: types, and what an operation knows under promptMu.
THEOREM Invariance == Spec => []IInv
<1>1. Init => IInv
  BY InitTypes
<1>2. IInv /\ [Next]_vars => IInv'
  <2>1. IInv /\ UNCHANGED vars => IInv'
    <3> SUFFICES ASSUME IInv, UNCHANGED vars PROVE IInv'
      OBVIOUS
    <3>1. UNCHANGED storeVars /\ UNCHANGED <<processVars, cur, lock, requestVars>> /\ UNCHANGED agentVars
      BY DEF vars
    <3>2. UNCHANGED <<lock, sett, queue, accepted, config>>
      BY DEF vars, storeVars, queueVars, threadVars, requestVars
    <3> QED BY <3>1, <3>2, StoreSame, ServerSame, SessionSame, LockSame DEF IInv, TypeOK
  <2> QED BY <2>1, StartOfTurnPreserves, HandoffPreserves, LockedRequestPreserves, PumpPreserves,
             AgentPreserves, FreeRequestPreserves, ProcessPreserves DEF Next
<1> QED BY <1>1, <1>2, PTL DEF Spec

\* Every variable of a thread keeps its type, whatever interleaves with what.
THEOREM TypeCorrect == Spec => []TypeOK
BY Invariance, PTL DEF IInv

----------------------------------------------------------------------------
\* The steps that touch the queue do so as PromptQueue says.
LEMMA StartStep ==
    ASSUME IInv, StartOfTurn
    PROVE  PQ!Next \/ UNCHANGED queueVars
<1>1. CASE ReuseSession \/ RetireStale \/ NoneRegistered \/ StartSession \/ StartFails
  BY <1>1 DEF ReuseSession, RetireStale, NoneRegistered, StartSession, StartFails, storeVars
<1>2. CASE Enqueue
  <2>1. PQ!Queue
    BY <1>2 DEF Enqueue, PQ!Queue
  <2> QED BY <2>1 DEF PQ!Next
<1>3. CASE Begin
  <2>1. CASE BeginOldest
    <3>1. lock.q \in Seq(Prompt) /\ lock.q # <<>>
      BY <2>1 DEF BeginOldest, IInv, TypeOK, ServerTypeOK, LockRecord
    <3>2. queue = lock.q \/ queue = Append(lock.q, accepted)
      BY <1>3 DEF Begin, At, IInv, LockInv, QueueHeld
    <3>3. queue # <<>> /\ lock.q[1] = Head(queue)
      BY <3>1, <3>2, HeadAppend
    <3>4. PQ!StartOldest
      BY <1>3, <2>1, <3>3 DEF Begin, BeginOldest, PQ!StartOldest
    <3> QED BY <3>4 DEF PQ!Next
  <2>2. CASE BeginNew
    <3>1. queue = <<>>
      BY <1>3, <2>2 DEF Begin, BeginNew, At, IInv, LockInv, QueueHeld
    <3>2. PQ!StartNew
      BY <1>3, <2>2, <3>1 DEF Begin, BeginNew, PQ!StartNew
    <3> QED BY <3>2 DEF PQ!Next
  <2>3. CASE BeginResume
    BY <1>3, <2>3 DEF Begin, BeginResume, queueVars
  <2> QED BY <1>3, <2>1, <2>2, <2>3 DEF Begin
<1>4. CASE BeginCompact \/ HandFindsAlive \/ HandTells \/ HandWrites \/ HandFails
  BY <1>4 DEF BeginCompact, HandFindsAlive, HandTells, HandWrites, HandFails, storeVars
<1> QED BY <1>1, <1>2, <1>3, <1>4 DEF StartOfTurn

LEMMA LockedStep ==
    ASSUME IInv, LockedRequest
    PROVE  PQ!Next \/ UNCHANGED queueVars
<1>1. CASE SendPrompt \/ CompactContext \/ ReapIdle
  BY <1>1 DEF SendPrompt, CompactContext, ReapIdle, storeVars
<1>2. CASE QueuePrompt
  <2>1. PQ!Queue
    BY <1>2 DEF QueuePrompt, PQ!Queue
  <2> QED BY <2>1 DEF PQ!Next
<1>3. CASE \E p \in Prompt : CancelQueuedPrompt(p)
  <2>1. PICK p \in Prompt : CancelQueuedPrompt(p)
    BY <1>3
  <2>2. PICK i \in 1..Len(queue) : queue[i] = p /\ queue' = RemoveAt(queue, i)
    BY <2>1 DEF CancelQueuedPrompt
  <2>3. PQ!Cancel(i)
    BY <2>1, <2>2 DEF CancelQueuedPrompt, PQ!Cancel, RemoveAt, PQ!RemoveAt
  <2> QED BY <2>3 DEF PQ!Next
<1> QED BY <1>1, <1>2, <1>3 DEF LockedRequest

\* Every other step leaves the prompts alone.
LEMMA OtherSteps ==
    ASSUME Handoff \/ FreeRequest \/ Process \/ \E s \in Session : Pump(s) \/ Agent(s)
    PROVE  UNCHANGED queueVars
<1>1. CASE Handoff
  BY <1>1 DEF Handoff, Settle, HandoffRetire, HandoffNext, HandoffDone, storeVars
<1>2. CASE FreeRequest
  <2>1. CASE ArchiveRead \/ ArchiveClose \/ ArchiveAppend
    BY <2>1 DEF ArchiveRead, ArchiveClose, ArchiveAppend, storeVars
  <2>2. CASE SettingsRead \/ SettingsClose \/ SettingsLive \/ SettingsMark \/ SettingsAppend
    BY <2>2 DEF SettingsRead, SettingsClose, SettingsLive, SettingsMark, SettingsAppend, storeVars
  <2>3. CASE InterruptRead \/ InterruptAppend
    BY <2>3 DEF InterruptRead, InterruptAppend, storeVars
  <2>4. CASE (\E a \in Approval : ResolveRead(a)) \/ ResolveTell \/ ResolveReadThread \/ ResolveAppend
    BY <2>4 DEF ResolveRead, ResolveTell, ResolveReadThread, ResolveAppend, storeVars
  <2> QED BY <1>2, <2>1, <2>2, <2>3, <2>4 DEF FreeRequest
<1>3. CASE Process
  <2>1. CASE Shutdown \/ Crash \/ Boot \/ RecoverFails
    BY <2>1 DEF Shutdown, Crash, Boot, RecoverFails, storeVars
  <2>2. CASE RecoverLists \/ RecoverSettles \/ RecoverQueue \/ RecoverNothing
    BY <2>2 DEF RecoverLists, RecoverSettles, RecoverQueue, RecoverNothing, storeVars
  <2>3. CASE ResumeNote \/ ResumeAcquire
    BY <2>3 DEF ResumeNote, ResumeAcquire, storeVars
  <2> QED BY <1>3, <2>1, <2>2, <2>3 DEF Process
<1>4. ASSUME NEW s \in Session, Pump(s)  PROVE UNCHANGED queueVars
  <2>1. CASE PumpDrops(s) \/ PumpInfo(s) \/ PumpStarted(s) \/ PumpAsk(s) \/ PumpAutoResolve(s)
    BY <2>1 DEF PumpDrops, PumpInfo, PumpStarted, PumpAsk, PumpAutoResolve, storeVars
  <2>2. CASE PumpCompleted(s) \/ HandoffAcquire(s) \/ PumpClosed(s) \/ PumpClosedRead(s) \/ PumpClosedWrite(s)
    BY <2>2 DEF PumpCompleted, HandoffAcquire, PumpClosed, PumpClosedRead, PumpClosedWrite, storeVars
  <2> QED BY <1>4, <2>1, <2>2 DEF Pump
<1>5. ASSUME NEW s \in Session, Agent(s)  PROVE UNCHANGED queueVars
  BY <1>5 DEF Agent, AgentCompletes, AgentAsks, AgentExits, CloseCall, AgentReaped, AgentEnds, AgentStops, storeVars
<1> QED BY <1>1, <1>2, <1>3, <1>4, <1>5

\* The prompts of a thread go through its queue as PromptQueue says: every
\* step, of whatever request, pump, agent or restart, is one of its steps or
\* leaves the prompts alone.
THEOREM Implementation == Spec => ImplementsQueue
<1>1. Init => PQ!Init
  BY DEF Init, PQ!Init
<1>2. IInv /\ [Next]_vars => [PQ!Next]_(PQ!vars)
  <2> SUFFICES ASSUME IInv, [Next]_vars  PROVE PQ!Next \/ UNCHANGED queueVars
    BY DEF PQ!vars, queueVars
  <2>1. CASE UNCHANGED vars
    BY <2>1 DEF vars, storeVars
  <2>2. CASE Next
    BY <2>2, StartStep, LockedStep, OtherSteps DEF Next
  <2> QED BY <2>1, <2>2
<1> QED BY <1>1, <1>2, Invariance, PTL DEF Spec, ImplementsQueue, PQ!Spec

\* What PromptQueue promises, the thread keeps.
LEMMA SameQueue == ImplementsQueue => PQProofs!Spec
<1>1. PQ!Init => PQProofs!Init
  BY DEF PQ!Init, PQProofs!Init
<1>2. [PQ!Next]_(PQ!vars) => [PQProofs!Next]_(PQProofs!vars)
  <2>1. PQ!vars = PQProofs!vars /\ PQ!vars' = PQProofs!vars'
    BY DEF PQ!vars, PQProofs!vars
  <2>2. PQ!Next => PQProofs!Next
    BY DEF PQ!Next, PQ!Queue, PQ!StartNew, PQ!StartOldest, PQ!Cancel, PQ!RemoveAt,
       PQProofs!Next, PQProofs!Queue, PQProofs!StartNew, PQProofs!StartOldest, PQProofs!Cancel, PQProofs!RemoveAt
  <2> QED BY <2>1, <2>2
<1> QED BY <1>1, <1>2, PTL DEF ImplementsQueue, PQ!Spec, PQProofs!Spec

\* Prompts start in the order of acceptance, once each.
THEOREM PromptsInOrderHold == Spec => []PromptsInOrder
<1>1. PQProofs!InOrder => PromptsInOrder
  BY DEF PromptsInOrder, PQ!InOrder, PQProofs!InOrder, PQ!Increasing, PQProofs!Increasing
<1> QED BY <1>1, Implementation, SameQueue, PQProofs!InOrderHolds, PTL

\* Every accepted prompt started, waits or was cancelled; none is lost.
THEOREM NoPromptLostHolds == Spec => []NoPromptLost
<1>1. PQProofs!NoneLost => NoPromptLost
  BY DEF NoPromptLost, PQ!NoneLost, PQProofs!NoneLost, PQ!In, PQProofs!In
<1> QED BY <1>1, Implementation, SameQueue, PQProofs!NoneLostHolds, PTL

----------------------------------------------------------------------------
(***************************************************************************)
(* Two agent processes never both work for a thread, for any number of     *)
(* prompts, sessions, requests and ends of the process.                    *)
(***************************************************************************)
\* The session has said that it is closed.
Ended(q) == \E i \in 1..Len(q) : q[i].kind \in {"closed", "died"}

\* A session is registered or about to be closed as long as it is open; it has
\* ended when it says so.
SessionInv(t) ==
    /\ sess[t].life = "open" => t = cur \/ sess[t].due
    /\ Ended(sess[t].chan) => sess[t].life \in {"told", "dead"}

\* Nothing is registered while a session is being started: only what runs under
\* promptMu registers one.
NoneWhileStarting == lock.pc \in {"retired", "start"} => cur = NoSession

AgentInv == NoneWhileStarting /\ \A t \in Session : SessionInv(t)

----------------------------------------------------------------------------
\* Only Closed ends a channel, and reading ends none.
LEMMA EndedAppend ==
    ASSUME NEW q \in Seq(EventRecord), NEW e
    PROVE  Ended(Append(q, e)) => Ended(q) \/ e.kind \in {"closed", "died"}
<1>1. \A i \in 1..Len(Append(q, e)) : (i \in 1..Len(q) /\ Append(q, e)[i] = q[i]) \/ Append(q, e)[i] = e
  OBVIOUS
<1> QED BY <1>1 DEF Ended

LEMMA EndedTail ==
    ASSUME NEW q \in Seq(EventRecord), q # <<>>
    PROVE  /\ Ended(Tail(q)) => Ended(q)
           /\ Head(q).kind \in {"closed", "died"} => Ended(q)
<1>1. \A i \in 1..Len(Tail(q)) : i + 1 \in 1..Len(q) /\ Tail(q)[i] = q[i + 1]
  OBVIOUS
<1>2. 1 \in 1..Len(q) /\ Head(q) = q[1]
  OBVIOUS
<1> QED BY <1>1, <1>2 DEF Ended

LEMMA EndedNot == ~Ended(<<>>) /\ ~Ended(<<Event("info")>>)
BY DEF Ended, Event

\* A step that neither starts nor ends a session nor touches the registry.
Quiet(t) ==
    /\ sess'[t].life = sess[t].life
    /\ sess'[t].due = sess[t].due
    /\ Ended(sess'[t].chan) => Ended(sess[t].chan)

LEMMA QuietKeeps ==
    ASSUME AgentInv, UNCHANGED cur, \A t \in Session : Quiet(t), NoneWhileStarting'
    PROVE  AgentInv'
BY DEF AgentInv, SessionInv, Quiet

LEMMA UnchangedQuiet ==
    ASSUME UNCHANGED sess
    PROVE  \A t \in Session : Quiet(t)
BY DEF Quiet

LEMMA UnlockQuiet ==
    ASSUME SessionTypeOK, NEW f \in [Session -> SessionRecord], Unlock(f),
           \A t \in Session : /\ f[t].life = sess[t].life /\ f[t].due = sess[t].due
                              /\ Ended(f[t].chan) => Ended(sess[t].chan)
    PROVE  (\A t \in Session : Quiet(t)) /\ NoneWhileStarting'
<1>1. \A t \in Session : Quiet(t)
  BY DEF Unlock, Quiet, SessionTypeOK
<1>2. NoneWhileStarting'
  BY DEF Unlock, Unlocked, NoneWhileStarting
<1> QED BY <1>1, <1>2

\* A session that leaves the registry has its Close due.
LEMMA UnregisterKeeps ==
    ASSUME SessionTypeOK, ServerTypeOK, AgentInv, NEW s \in {NoSession} \cup Session, Unregister(s)
    PROVE  /\ \A t \in Session : SessionInv(t)'
           /\ cur' \in {cur, NoSession}
           /\ s = cur => cur' = NoSession
<1>1. cur' \in {cur, NoSession} /\ (s = cur => cur' = NoSession) /\ (cur' # cur => s = cur)
  BY DEF Unregister, Forget
<1>2. ASSUME NEW t \in Session  PROVE SessionInv(t)'
  <2>1. SessionInv(t)
    BY DEF AgentInv
  <2>2. /\ sess'[t].life = sess[t].life /\ sess'[t].chan = sess[t].chan
        /\ sess[t].due => sess'[t].due
        /\ t = s => sess'[t].due
    BY DEF Unregister, SessionTypeOK, SessionRecord, Session, NoSession
  <2> QED BY <1>1, <2>1, <2>2 DEF SessionInv
<1> QED BY <1>1, <1>2

----------------------------------------------------------------------------
\* Each action keeps the sessions apart.
LEMMA StartOfTurnAgents ==
    ASSUME IInv, AgentInv, StartOfTurn
    PROVE  AgentInv'
<1> USE DEF IInv, TypeOK
<1>1. CASE ReuseSession \/ NoneRegistered
  <2>1. UNCHANGED <<cur, sess>>
    BY <1>1 DEF ReuseSession, NoneRegistered, agentVars
  <2>2. NoneWhileStarting'
    BY <1>1, <2>1 DEF ReuseSession, NoneRegistered, AgentInv, NoneWhileStarting, ServerTypeOK, LockRecord, Goto, At, Acquire, Unlocked, Ready, Busy
  <2> QED BY <2>1, <2>2, UnchangedQuiet, QuietKeeps
<1>2. CASE RetireStale
  <2>1. Unregister(cur) /\ cur \in {NoSession} \cup Session
    BY <1>2 DEF RetireStale, ServerTypeOK, LockRecord, At
  <2>2. NoneWhileStarting'
    BY <1>2, <2>1, UnregisterKeeps DEF RetireStale, AgentInv, NoneWhileStarting, Goto, ServerTypeOK, LockRecord, At
  <2> QED BY <2>1, <2>2, UnregisterKeeps DEF AgentInv
<1>3. CASE StartSession
  <2> DEFINE s == nsess + 1
  <2>1. s \in Session /\ cur = NoSession /\ cur' = s
    BY <1>3, TurnsAssumption DEF StartSession, At, AgentInv, NoneWhileStarting, SessionTypeOK, Session
  <2>2. ASSUME NEW t \in Session  PROVE SessionInv(t)'
    <3>1. CASE t = s
      <4>1. sess'[t].chan = <<Event("info")>> /\ cur' = t
        BY <1>3, <2>1, <3>1 DEF StartSession, SessionTypeOK, SessionRecord
      <4> QED BY <4>1, EndedNot DEF SessionInv
    <3>2. CASE t # s
      <4>1. sess'[t] = sess[t] /\ t # cur
        BY <1>3, <2>1, <3>2 DEF StartSession, SessionTypeOK, Session, NoSession
      <4> QED BY <4>1 DEF AgentInv, SessionInv
    <3> QED BY <3>1, <3>2
  <2>3. NoneWhileStarting'
    BY <1>3 DEF StartSession, NoneWhileStarting, Ready, ServerTypeOK, LockRecord
  <2> QED BY <2>2, <2>3 DEF AgentInv
<1>4. CASE StartFails
  <2>1. Unlock(sess) /\ UNCHANGED cur
    BY <1>4 DEF StartFails
  <2> QED BY <2>1, UnlockQuiet, QuietKeeps DEF SessionTypeOK
<1>5. CASE Enqueue
  <2>1. UNCHANGED <<cur, sess>>
    BY <1>5 DEF Enqueue, agentVars
  <2>2. NoneWhileStarting'
    BY <1>5, <2>1 DEF Enqueue, AgentInv, NoneWhileStarting, ServerTypeOK, LockRecord, Goto, At, Acquire, Unlocked, Ready, Busy
  <2> QED BY <2>1, <2>2, UnchangedQuiet, QuietKeeps
<1>6. CASE Begin
  <2>1. UNCHANGED cur /\ sess' = [sess EXCEPT ![lock.l].idle = FALSE]
    BY <1>6 DEF Begin
  <2>2. \A t \in Session : Quiet(t)
    BY <2>1 DEF Quiet, SessionTypeOK, SessionRecord
  <2>3. NoneWhileStarting'
    BY <1>6 DEF Begin, Goto, NoneWhileStarting, ServerTypeOK, LockRecord
  <2> QED BY <2>1, <2>2, <2>3, QuietKeeps
<1>7. CASE BeginCompact
  <2>1. UNCHANGED cur /\ sess' = [sess EXCEPT ![lock.l].idle = FALSE]
    BY <1>7 DEF BeginCompact
  <2>2. \A t \in Session : Quiet(t)
    BY <2>1 DEF Quiet, SessionTypeOK, SessionRecord
  <2>3. NoneWhileStarting'
    BY <1>7 DEF BeginCompact, Goto, NoneWhileStarting, ServerTypeOK, LockRecord
  <2> QED BY <2>1, <2>2, <2>3, QuietKeeps
<1>8. CASE HandFindsAlive \/ HandTells
  <2>1. UNCHANGED cur /\ NoneWhileStarting'
    BY <1>8 DEF HandFindsAlive, HandTells, Goto, NoneWhileStarting, ServerTypeOK, LockRecord
  <2>2. ASSUME NEW t \in Session  PROVE Quiet(t)
    <3>1. sess[t].chan \in Seq(EventRecord) /\ Event("started").kind \notin {"closed", "died"}
      BY DEF SessionTypeOK, SessionRecord, Event
    <3>2. /\ sess'[t].life = sess[t].life /\ sess'[t].due = sess[t].due
          /\ sess'[t].chan = sess[t].chan \/ sess'[t].chan = Append(sess[t].chan, Event("started"))
      <4>1. CASE HandFindsAlive
        BY <4>1 DEF HandFindsAlive, agentVars
      <4>2. CASE HandTells
        <5>1. sess' = [sess EXCEPT ![lock.l].chan = Append(@, Event("started"))]
          BY <4>2 DEF HandTells
        <5> QED BY <5>1 DEF SessionTypeOK, SessionRecord
      <4> QED BY <1>8, <4>1, <4>2
    <3> QED BY <3>1, <3>2, EndedAppend DEF Quiet
  <2> QED BY <2>1, <2>2, QuietKeeps
<1>9. CASE HandWrites
  <2> DEFINE f == [sess EXCEPT ![lock.l].turns = @ + 1]
  <2>1. Unlock(f) /\ UNCHANGED cur
    BY <1>9 DEF HandWrites
  <2>2. \A t \in Session : f[t].life = sess[t].life /\ f[t].due = sess[t].due /\ f[t].chan = sess[t].chan
    BY DEF SessionTypeOK, SessionRecord
  <2>3. f \in [Session -> SessionRecord]
    BY SendTypes
  <2> HIDE DEF f
  <2> QED BY <2>1, <2>2, <2>3, UnlockQuiet, QuietKeeps
<1>10. CASE HandFails
  <2>1. Unlock(sess) /\ UNCHANGED cur
    BY <1>10 DEF HandFails
  <2> QED BY <2>1, UnlockQuiet, QuietKeeps DEF SessionTypeOK
<1> QED BY <1>1, <1>2, <1>3, <1>4, <1>5, <1>6, <1>7, <1>8, <1>9, <1>10 DEF StartOfTurn

LEMMA HandoffAgents ==
    ASSUME IInv, AgentInv, Handoff
    PROVE  AgentInv'
<1> USE DEF IInv, TypeOK
<1>1. CASE Settle
  <2>1. UNCHANGED <<cur, sess>>
    BY <1>1 DEF Settle, agentVars
  <2>2. NoneWhileStarting'
    BY <1>1, <2>1 DEF Settle, AgentInv, NoneWhileStarting, ServerTypeOK, LockRecord, Goto, At, Acquire, Unlocked, Ready, Busy
  <2> QED BY <2>1, <2>2, UnchangedQuiet, QuietKeeps
<1>2. CASE HandoffRetire
  <2>1. Unregister(lock.own) /\ lock.own \in {NoSession} \cup Session
    BY <1>2 DEF HandoffRetire, ServerTypeOK, LockRecord, At
  <2>2. NoneWhileStarting'
    BY <1>2, <2>1, UnregisterKeeps DEF HandoffRetire, AgentInv, NoneWhileStarting, Goto, ServerTypeOK, LockRecord, At
  <2> QED BY <2>1, <2>2, UnregisterKeeps DEF AgentInv
<1>3. CASE HandoffNext
  <2>1. UNCHANGED <<cur, sess>>
    BY <1>3 DEF HandoffNext, agentVars
  <2>2. NoneWhileStarting'
    BY <1>3, <2>1 DEF HandoffNext, AgentInv, NoneWhileStarting, ServerTypeOK, LockRecord, Goto, At, Acquire, Unlocked, Ready, Busy
  <2> QED BY <2>1, <2>2, UnchangedQuiet, QuietKeeps
<1>4. CASE HandoffDone
  <2>1. Unlock(sess) /\ UNCHANGED cur
    BY <1>4 DEF HandoffDone
  <2> QED BY <2>1, UnlockQuiet, QuietKeeps DEF SessionTypeOK
<1> QED BY <1>1, <1>2, <1>3, <1>4 DEF Handoff

LEMMA LockedRequestAgents ==
    ASSUME IInv, AgentInv, LockedRequest
    PROVE  AgentInv'
<1> USE DEF IInv, TypeOK
<1>1. CASE SendPrompt \/ CompactContext
  <2>1. UNCHANGED <<cur, sess>>
    BY <1>1 DEF SendPrompt, CompactContext, agentVars
  <2>2. NoneWhileStarting'
    BY <1>1, <2>1 DEF SendPrompt, CompactContext, AgentInv, NoneWhileStarting, ServerTypeOK, LockRecord, Goto, At, Acquire, Unlocked, Ready, Busy
  <2> QED BY <2>1, <2>2, UnchangedQuiet, QuietKeeps
<1>2. CASE QueuePrompt
  <2>1. Unlock(sess) /\ UNCHANGED cur
    BY <1>2 DEF QueuePrompt
  <2> QED BY <2>1, UnlockQuiet, QuietKeeps DEF SessionTypeOK
<1>3. CASE ReapIdle
  <2>1. Unregister(cur) /\ cur \in {NoSession} \cup Session
    BY <1>3 DEF ReapIdle, ServerTypeOK, LockRecord, At
  <2>2. NoneWhileStarting'
    BY <1>3, <2>1, UnregisterKeeps DEF ReapIdle, AgentInv, NoneWhileStarting, Goto, ServerTypeOK, LockRecord, At
  <2> QED BY <2>1, <2>2, UnregisterKeeps DEF AgentInv
<1>4. CASE \E p \in Prompt : CancelQueuedPrompt(p)
  <2>1. UNCHANGED <<cur, sess>>
    BY <1>4 DEF CancelQueuedPrompt, agentVars
  <2>2. NoneWhileStarting'
    BY <1>4, <2>1 DEF CancelQueuedPrompt, AgentInv, NoneWhileStarting, ServerTypeOK, LockRecord, Goto, At, Acquire, Unlocked, Ready, Busy
  <2> QED BY <2>1, <2>2, UnchangedQuiet, QuietKeeps
<1> QED BY <1>1, <1>2, <1>3, <1>4 DEF LockedRequest

LEMMA PumpAgents ==
    ASSUME IInv, AgentInv, NEW s \in Session, Pump(s)
    PROVE  AgentInv'
<1> USE DEF IInv, TypeOK
<1>1. CASE PumpDrops(s) \/ PumpInfo(s) \/ PumpStarted(s) \/ PumpAsk(s)
  <2>1. UNCHANGED <<cur, lock>> /\ sess[s].chan \in Seq(EventRecord) /\ sess[s].chan # <<>>
    BY <1>1 DEF PumpDrops, PumpInfo, PumpStarted, PumpAsk, Reads, SessionTypeOK, SessionRecord
  <2>2. sess' = [sess EXCEPT ![s].chan = Tail(@)]
    BY <1>1 DEF PumpDrops, PumpInfo, PumpStarted, PumpAsk, Popped
  <2>3. ASSUME NEW t \in Session  PROVE Quiet(t)
    <3>1. /\ sess'[t].life = sess[t].life /\ sess'[t].due = sess[t].due
          /\ sess'[t].chan = sess[t].chan \/ (t = s /\ sess'[t].chan = Tail(sess[t].chan))
      BY <2>2 DEF SessionTypeOK, SessionRecord
    <3> QED BY <2>1, <3>1, EndedTail DEF Quiet
  <2> QED BY <2>1, <2>3, QuietKeeps DEF AgentInv, NoneWhileStarting
<1>2. CASE PumpAutoResolve(s)
  <2>1. UNCHANGED <<cur, lock>> /\ sess[s].chan \in Seq(EventRecord) /\ sess[s].chan # <<>>
    BY <1>2 DEF PumpAutoResolve, Reads, SessionTypeOK, SessionRecord
  <2>2. ASSUME NEW t \in Session  PROVE Quiet(t)
    <3>1. /\ sess'[t].life = sess[t].life /\ sess'[t].due = sess[t].due
          /\ sess'[t].chan = sess[t].chan \/ (t = s /\ sess'[t].chan = Tail(sess[t].chan))
      BY <1>2 DEF PumpAutoResolve, Popped, SessionTypeOK, SessionRecord
    <3> QED BY <2>1, <3>1, EndedTail DEF Quiet
  <2> QED BY <2>1, <2>2, QuietKeeps DEF AgentInv, NoneWhileStarting
<1>3. CASE PumpCompleted(s)
  <2>1. UNCHANGED <<cur, lock>> /\ sess[s].chan \in Seq(EventRecord) /\ sess[s].chan # <<>>
    BY <1>3 DEF PumpCompleted, Reads, SessionTypeOK, SessionRecord
  <2>2. ASSUME NEW t \in Session  PROVE Quiet(t)
    <3>1. /\ sess'[t].life = sess[t].life /\ sess'[t].due = sess[t].due
          /\ sess'[t].chan = sess[t].chan \/ (t = s /\ sess'[t].chan = Tail(sess[t].chan))
      BY <1>3 DEF PumpCompleted, Popped, SessionTypeOK, SessionRecord
    <3> QED BY <2>1, <3>1, EndedTail DEF Quiet
  <2> QED BY <2>1, <2>2, QuietKeeps DEF AgentInv, NoneWhileStarting
<1>4. CASE HandoffAcquire(s)
  <2>1. UNCHANGED <<cur, sess>>
    BY <1>4 DEF HandoffAcquire, agentVars
  <2>2. NoneWhileStarting'
    BY <1>4, <2>1 DEF HandoffAcquire, AgentInv, NoneWhileStarting, ServerTypeOK, LockRecord, Goto, At, Acquire, Unlocked, Ready, Busy
  <2> QED BY <2>1, <2>2, UnchangedQuiet, QuietKeeps
<1>5. CASE PumpClosed(s)
  <2>1. /\ UNCHANGED lock /\ cur' \in {cur, NoSession} /\ (cur' # cur => s = cur)
        /\ sess[s].chan \in Seq(EventRecord) /\ sess[s].chan # <<>>
        /\ Head(sess[s].chan).kind \in {"closed", "died"}
    BY <1>5 DEF PumpClosed, Forget, Reads, SessionTypeOK, SessionRecord
  <2>2. sess[s].life \in {"told", "dead"}
    BY <2>1, EndedTail DEF AgentInv, SessionInv
  <2>3. ASSUME NEW t \in Session  PROVE SessionInv(t)'
    <3>1. /\ sess'[t].life = sess[t].life /\ sess'[t].due = sess[t].due
          /\ sess'[t].chan = sess[t].chan \/ (t = s /\ sess'[t].chan = Tail(sess[t].chan))
      BY <1>5 DEF PumpClosed, SessionTypeOK, SessionRecord
    <3>2. SessionInv(t)
      BY DEF AgentInv
    <3>3. Ended(sess'[t].chan) => Ended(sess[t].chan)
      BY <2>1, <3>1, EndedTail
    <3>4. sess[t].life = "open" => t # s
      BY <2>2
    <3> QED BY <2>1, <3>1, <3>2, <3>3, <3>4 DEF SessionInv
  <2> QED BY <2>1, <2>3 DEF AgentInv, NoneWhileStarting
<1>6. CASE PumpClosedRead(s)
  <2>1. UNCHANGED <<cur, lock>>
    BY <1>6 DEF PumpClosedRead
  <2>2. ASSUME NEW t \in Session  PROVE Quiet(t)
    BY <1>6 DEF PumpClosedRead, Quiet, SessionTypeOK, SessionRecord
  <2> QED BY <2>1, <2>2, QuietKeeps DEF AgentInv, NoneWhileStarting
<1>7. CASE PumpClosedWrite(s)
  <2>1. UNCHANGED <<cur, lock>>
    BY <1>7 DEF PumpClosedWrite
  <2>2. ASSUME NEW t \in Session  PROVE Quiet(t)
    BY <1>7 DEF PumpClosedWrite, Quiet, SessionTypeOK, SessionRecord
  <2> QED BY <2>1, <2>2, QuietKeeps DEF AgentInv, NoneWhileStarting
<1> QED BY <1>1, <1>2, <1>3, <1>4, <1>5, <1>6, <1>7 DEF Pump

LEMMA AgentAgents ==
    ASSUME IInv, AgentInv, NEW s \in Session, Agent(s)
    PROVE  AgentInv'
<1> USE DEF IInv, TypeOK
<1>1. CASE AgentCompletes(s)
  <2>1. UNCHANGED <<cur, lock>>
    BY <1>1 DEF AgentCompletes
  <2>2. PICK k \in {"done", "failed"} :
          sess' = [sess EXCEPT ![s].turns = @ - 1, ![s].asks = {}, ![s].chan = Append(@, Event(k))]
    BY <1>1 DEF AgentCompletes
  <2>3. ASSUME NEW t \in Session  PROVE Quiet(t)
    <3>1. /\ sess'[t].life = sess[t].life /\ sess'[t].due = sess[t].due
          /\ sess'[t].chan = sess[t].chan \/ sess'[t].chan = Append(sess[t].chan, Event(k))
      BY <2>2 DEF SessionTypeOK, SessionRecord
    <3>2. Event(k).kind \notin {"closed", "died"} /\ sess[t].chan \in Seq(EventRecord)
      BY <2>2 DEF Event, AskEvent, SessionTypeOK, SessionRecord
    <3> QED BY <3>1, <3>2, EndedAppend DEF Quiet
  <2> QED BY <2>1, <2>3, QuietKeeps DEF AgentInv, NoneWhileStarting
<1>2. CASE AgentAsks(s)
  <2>1. UNCHANGED <<cur, lock>>
    BY <1>2 DEF AgentAsks
  <2>2. sess' = [sess EXCEPT ![s].asks = @ \cup {nasks'}, ![s].chan = Append(@, AskEvent(nasks'))]
    BY <1>2 DEF AgentAsks
  <2>3. ASSUME NEW t \in Session  PROVE Quiet(t)
    <3>1. /\ sess'[t].life = sess[t].life /\ sess'[t].due = sess[t].due
          /\ sess'[t].chan = sess[t].chan \/ sess'[t].chan = Append(sess[t].chan, AskEvent(nasks'))
      BY <2>2 DEF SessionTypeOK, SessionRecord
    <3>2. AskEvent(nasks').kind \notin {"closed", "died"} /\ sess[t].chan \in Seq(EventRecord)
      BY <2>2 DEF Event, AskEvent, SessionTypeOK, SessionRecord
    <3> QED BY <3>1, <3>2, EndedAppend DEF Quiet
  <2> QED BY <2>1, <2>3, QuietKeeps DEF AgentInv, NoneWhileStarting
<1>3. CASE AgentExits(s)
  <2>1. UNCHANGED <<cur, lock>>
    BY <1>3 DEF AgentExits
  <2>2. ASSUME NEW t \in Session  PROVE SessionInv(t)'
    <3>1. SessionInv(t)
      BY DEF AgentInv
    <3>2. /\ sess'[t].chan = sess[t].chan
          /\ sess'[t].life = "open" => sess[t].life = "open" /\ sess'[t].due = sess[t].due
          /\ sess[t].life \in {"told", "dead"} => sess'[t].life = sess[t].life
      BY <1>3 DEF AgentExits, AgentAlive, SessionTypeOK, SessionRecord
    <3> QED BY <2>1, <3>1, <3>2 DEF SessionInv
  <2> QED BY <2>1, <2>2 DEF AgentInv, NoneWhileStarting
<1>4. CASE CloseCall(s)
  <2>1. UNCHANGED <<cur, lock>>
    BY <1>4 DEF CloseCall
  <2>2. ASSUME NEW t \in Session  PROVE SessionInv(t)'
    <3>1. SessionInv(t)
      BY DEF AgentInv
    <3>2. /\ sess'[t].chan = sess[t].chan
          /\ sess'[t].life = "open" => sess[t].life = "open" /\ sess'[t].due = sess[t].due
          /\ sess[t].life \in {"told", "dead"} => sess'[t].life = sess[t].life
      BY <1>4 DEF CloseCall, AgentAlive, SessionTypeOK, SessionRecord
    <3> QED BY <2>1, <3>1, <3>2 DEF SessionInv
  <2> QED BY <2>1, <2>2 DEF AgentInv, NoneWhileStarting
<1>5. CASE AgentEnds(s)
  <2>1. UNCHANGED <<cur, lock>>
    BY <1>5 DEF AgentEnds
  <2>2. ASSUME NEW t \in Session  PROVE SessionInv(t)'
    <3>1. SessionInv(t)
      BY DEF AgentInv
    <3>2. IF t = s THEN sess'[t].life = "told" ELSE sess'[t] = sess[t]
      BY <1>5 DEF AgentEnds, SessionTypeOK, SessionRecord
    <3> QED BY <2>1, <3>1, <3>2 DEF SessionInv
  <2> QED BY <2>1, <2>2 DEF AgentInv, NoneWhileStarting
<1>6. CASE AgentReaped(s) \/ AgentStops(s)
  <2>1. UNCHANGED <<cur, lock>>
    BY <1>6 DEF AgentReaped, AgentStops
  <2>2. ASSUME NEW t \in Session  PROVE SessionInv(t)'
    <3>1. SessionInv(t)
      BY DEF AgentInv
    <3>2. PICK e \in {"ended", "failed", "dead"} : sess' = [sess EXCEPT ![s].life = e]
      BY <1>6 DEF AgentReaped, AgentStops
    <3>3. /\ sess'[t].chan = sess[t].chan
          /\ sess'[t].life = "open" => sess[t].life = "open" /\ sess'[t].due = sess[t].due
          /\ sess[t].life \in {"told", "dead"} => sess'[t].life \in {"told", "dead"}
      BY <1>6, <3>2 DEF AgentReaped, AgentStops, SessionTypeOK, SessionRecord
    <3> QED BY <2>1, <3>1, <3>3 DEF SessionInv
  <2> QED BY <2>1, <2>2 DEF AgentInv, NoneWhileStarting
<1> QED BY <1>1, <1>2, <1>3, <1>4, <1>5, <1>6 DEF Agent

LEMMA FreeRequestAgents ==
    ASSUME IInv, AgentInv, FreeRequest
    PROVE  AgentInv'
<1> USE DEF IInv, TypeOK
<1>1. CASE ArchiveRead \/ ArchiveAppend
  <2>1. UNCHANGED <<cur, sess>>
    BY <1>1 DEF ArchiveRead, ArchiveAppend, agentVars
  <2>2. NoneWhileStarting'
    BY <1>1, <2>1 DEF ArchiveRead, ArchiveAppend, AgentInv, NoneWhileStarting, ServerTypeOK, LockRecord, Goto, At, Acquire, Unlocked, Ready, Busy
  <2> QED BY <2>1, <2>2, UnchangedQuiet, QuietKeeps
<1>2. CASE ArchiveClose
  <2>1. Unregister(cur) /\ cur \in {NoSession} \cup Session
    BY <1>2 DEF ArchiveClose, ServerTypeOK, LockRecord, At
  <2>2. NoneWhileStarting'
    BY <1>2, <2>1, UnregisterKeeps DEF ArchiveClose, AgentInv, NoneWhileStarting, Goto, ServerTypeOK, LockRecord, At
  <2> QED BY <2>1, <2>2, UnregisterKeeps DEF AgentInv
<1>3. CASE SettingsRead \/ SettingsLive \/ SettingsAppend
  <2>1. UNCHANGED <<cur, sess>>
    BY <1>3 DEF SettingsRead, SettingsLive, SettingsAppend, agentVars
  <2>2. NoneWhileStarting'
    BY <1>3, <2>1 DEF SettingsRead, SettingsLive, SettingsAppend, AgentInv, NoneWhileStarting, ServerTypeOK, LockRecord, Goto, At, Acquire, Unlocked, Ready, Busy
  <2> QED BY <2>1, <2>2, UnchangedQuiet, QuietKeeps
<1>4. CASE SettingsClose
  <2>1. Unregister(cur) /\ cur \in {NoSession} \cup Session
    BY <1>4 DEF SettingsClose, ServerTypeOK, LockRecord, At
  <2>2. NoneWhileStarting'
    BY <1>4, <2>1, UnregisterKeeps DEF SettingsClose, AgentInv, NoneWhileStarting, Goto, ServerTypeOK, LockRecord, At
  <2> QED BY <2>1, <2>2, UnregisterKeeps DEF AgentInv
<1>5. CASE SettingsMark
  <2>1. UNCHANGED <<cur, lock>>
    BY <1>5 DEF SettingsMark
  <2>2. ASSUME NEW t \in Session  PROVE Quiet(t)
    <3>1. CASE sess' = [sess EXCEPT ![sett.l].stale = TRUE]
      BY <3>1 DEF Quiet, SessionTypeOK, SessionRecord
    <3>2. CASE sess' = [sess EXCEPT ![sett.l].cfg = config + 1]
      BY <3>2 DEF Quiet, SessionTypeOK, SessionRecord
    <3> QED BY <1>5, <3>1, <3>2 DEF SettingsMark
  <2> QED BY <2>1, <2>2, QuietKeeps DEF AgentInv, NoneWhileStarting
<1>6. CASE InterruptRead \/ InterruptAppend
  <2>1. UNCHANGED <<cur, sess>>
    BY <1>6 DEF InterruptRead, InterruptAppend, agentVars
  <2>2. NoneWhileStarting'
    BY <1>6, <2>1 DEF InterruptRead, InterruptAppend, AgentInv, NoneWhileStarting, ServerTypeOK, LockRecord, Goto, At, Acquire, Unlocked, Ready, Busy
  <2> QED BY <2>1, <2>2, UnchangedQuiet, QuietKeeps
<1>7. CASE (\E a \in Approval : ResolveRead(a)) \/ ResolveReadThread \/ ResolveAppend
  <2>1. UNCHANGED <<cur, sess>>
    BY <1>7 DEF ResolveRead, ResolveReadThread, ResolveAppend, agentVars
  <2>2. NoneWhileStarting'
    BY <1>7, <2>1 DEF ResolveRead, ResolveReadThread, ResolveAppend, AgentInv, NoneWhileStarting, ServerTypeOK, LockRecord, Goto, At, Acquire, Unlocked, Ready, Busy
  <2> QED BY <2>1, <2>2, UnchangedQuiet, QuietKeeps
<1>8. CASE ResolveTell
  <2>1. UNCHANGED <<cur, lock>>
    BY <1>8 DEF ResolveTell
  <2>2. ASSUME NEW t \in Session  PROVE Quiet(t)
    BY <1>8 DEF ResolveTell, Quiet, SessionTypeOK, SessionRecord
  <2> QED BY <2>1, <2>2, QuietKeeps DEF AgentInv, NoneWhileStarting
<1> QED BY <1>1, <1>2, <1>3, <1>4, <1>5, <1>6, <1>7, <1>8 DEF FreeRequest

LEMMA ProcessAgents ==
    ASSUME IInv, AgentInv, Process
    PROVE  AgentInv'
<1> USE DEF IInv, TypeOK
<1>1. CASE Shutdown
  <2>1. UNCHANGED <<cur, lock>>
    BY <1>1 DEF Shutdown
  <2>2. ASSUME NEW t \in Session  PROVE SessionInv(t)'
    <3>1. SessionInv(t)
      BY DEF AgentInv
    <3>2. /\ sess'[t].life = sess[t].life /\ sess'[t].chan = sess[t].chan
          /\ sess[t].due => sess'[t].due
      BY <1>1 DEF Shutdown, SessionTypeOK, SessionRecord
    <3> QED BY <2>1, <3>1, <3>2 DEF SessionInv
  <2> QED BY <2>1, <2>2 DEF AgentInv, NoneWhileStarting
<1>2. CASE Crash \/ RecoverFails
  <2>1. cur' = NoSession /\ sess' = [t \in Session |-> NotStarted]
    BY <1>2 DEF Crash, RecoverFails, Down
  <2>2. ASSUME NEW t \in Session  PROVE SessionInv(t)'
    BY <2>1, EndedNot DEF SessionInv, NotStarted
  <2> QED BY <2>1, <2>2 DEF AgentInv, NoneWhileStarting
<1>3. CASE Boot \/ RecoverLists \/ RecoverSettles \/ RecoverQueue \/ RecoverNothing \/ ResumeNote \/ ResumeAcquire
  <2>1. UNCHANGED <<cur, sess>>
    BY <1>3 DEF Boot, RecoverLists, RecoverSettles, RecoverQueue, RecoverNothing, ResumeNote, ResumeAcquire, agentVars
  <2>2. NoneWhileStarting'
    BY <1>3, <2>1 DEF Boot, RecoverLists, RecoverSettles, RecoverQueue, RecoverNothing, ResumeNote, ResumeAcquire, AgentInv, NoneWhileStarting, ServerTypeOK, LockRecord, Goto, At, Acquire, Unlocked, Ready, Busy
  <2> QED BY <2>1, <2>2, UnchangedQuiet, QuietKeeps
<1> QED BY <1>1, <1>2, <1>3 DEF Process

\* A session is started only when none is registered, and one that has told its
\* end has ended.
THEOREM AgentInvariance == Spec => []AgentInv
<1>1. Init => AgentInv
  <2> SUFFICES ASSUME Init PROVE AgentInv
    OBVIOUS
  <2>1. cur = NoSession /\ sess = [t \in Session |-> NotStarted]
    BY DEF Init, ProcessInit
  <2>2. ASSUME NEW t \in Session  PROVE SessionInv(t)
    BY <2>1, EndedNot DEF SessionInv, NotStarted
  <2> QED BY <2>1, <2>2 DEF AgentInv, NoneWhileStarting
<1>2. IInv /\ AgentInv /\ [Next]_vars => AgentInv'
  <2>1. AgentInv /\ UNCHANGED vars => AgentInv'
    BY DEF vars, agentVars, AgentInv, SessionInv, NoneWhileStarting
  <2> QED BY <2>1, StartOfTurnAgents, HandoffAgents, LockedRequestAgents, PumpAgents,
             AgentAgents, FreeRequestAgents, ProcessAgents DEF Next
<1> QED BY <1>1, <1>2, Invariance, PTL DEF Spec

\* Two processes never both work for the thread.
THEOREM OneAgentHolds == Spec => []OneAgent
<1>1. AgentInv => OneAgent
  BY DEF AgentInv, SessionInv, OneAgent, Open
<1> QED BY <1>1, AgentInvariance, PTL

----------------------------------------------------------------------------
(***************************************************************************)
(* Which session works, and what a thread that is busy waits for.          *)
(***************************************************************************)
HasKind(q, k) == \E i \in 1..Len(q) : q[i].kind = k

\* The last event of a turn is its end: nothing it asks for comes behind it.
Ordered(q) ==
    \A i, j \in 1..Len(q) :
        q[i].kind = "done" /\ q[j].kind \in {"done", "ask"} => j <= i

\* The kinds of event in a channel after one was emitted or read.
LEMMA KindAppend ==
    ASSUME NEW q \in Seq(EventRecord), NEW e \in EventRecord
    PROVE  \A k : HasKind(Append(q, e), k) <=> HasKind(q, k) \/ e.kind = k
<1>1. \A i \in 1..Len(Append(q, e)) : (i \in 1..Len(q) /\ Append(q, e)[i] = q[i]) \/ Append(q, e)[i] = e
  OBVIOUS
<1>2. \A i \in 1..Len(q) : i \in 1..Len(Append(q, e)) /\ Append(q, e)[i] = q[i]
  OBVIOUS
<1>3. Len(q) + 1 \in 1..Len(Append(q, e)) /\ Append(q, e)[Len(q) + 1] = e
  OBVIOUS
<1> QED BY <1>1, <1>2, <1>3 DEF HasKind

LEMMA OrderedAppend ==
    ASSUME NEW q \in Seq(EventRecord), NEW e \in EventRecord,
           Ordered(q), e.kind \in {"done", "ask"} => ~HasKind(q, "done")
    PROVE  Ordered(Append(q, e))
<1> DEFINE p == Append(q, e)
<1>1. Len(q) \in Nat /\ Len(p) = Len(q) + 1 /\ p[Len(q) + 1] = e /\ \A i \in 1..Len(q) : p[i] = q[i]
  OBVIOUS
<1> HIDE DEF p
<1>2. ASSUME NEW i \in 1..Len(p), NEW j \in 1..Len(p), p[i].kind = "done", p[j].kind \in {"done", "ask"}
      PROVE  j <= i
  <2>1. CASE i = Len(q) + 1
    BY <1>1, <2>1
  <2>2. CASE i # Len(q) + 1 /\ j # Len(q) + 1
    <3>1. i \in 1..Len(q) /\ j \in 1..Len(q) /\ p[i] = q[i] /\ p[j] = q[j]
      BY <1>1, <2>2
    <3> QED BY <1>2, <3>1 DEF Ordered
  <2>3. CASE i # Len(q) + 1 /\ j = Len(q) + 1
    <3>1. i \in 1..Len(q) /\ p[i] = q[i] /\ p[j] = e
      BY <1>1, <2>3
    <3> QED BY <1>2, <3>1 DEF HasKind
  <2> QED BY <2>1, <2>2, <2>3
<1>3. Ordered(p)
  BY <1>2 DEF Ordered
<1> QED BY <1>3 DEF p

LEMMA KindTail ==
    ASSUME NEW q \in Seq(EventRecord), q # <<>>
    PROVE  \A k : HasKind(q, k) <=> HasKind(Tail(q), k) \/ Head(q).kind = k
<1>1. \A i \in 1..Len(Tail(q)) : i + 1 \in 1..Len(q) /\ Tail(q)[i] = q[i + 1]
  OBVIOUS
<1>2. \A i \in 1..Len(q) : i = 1 \/ (i - 1 \in 1..Len(Tail(q)) /\ Tail(q)[i - 1] = q[i])
  OBVIOUS
<1>3. 1 \in 1..Len(q) /\ Head(q) = q[1]
  OBVIOUS
<1> QED BY <1>1, <1>2, <1>3 DEF HasKind

LEMMA OrderedTail ==
    ASSUME NEW q \in Seq(EventRecord), q # <<>>, Ordered(q)
    PROVE  /\ Ordered(Tail(q))
           /\ Head(q).kind = "done" => ~HasKind(Tail(q), "done") /\ ~HasKind(Tail(q), "ask")
<1> DEFINE p == Tail(q)
<1>1. \A i \in 1..Len(p) : i \in Nat /\ i >= 1 /\ i + 1 \in 1..Len(q) /\ p[i] = q[i + 1]
  OBVIOUS
<1>2. 1 \in 1..Len(q) /\ Head(q) = q[1]
  OBVIOUS
<1> HIDE DEF p
<1>3. Ordered(p)
  <2> SUFFICES ASSUME NEW i \in 1..Len(p), NEW j \in 1..Len(p), p[i].kind = "done", p[j].kind \in {"done", "ask"}
               PROVE  j <= i
    BY DEF Ordered
  <2>1. j + 1 <= i + 1
    BY <1>1 DEF Ordered
  <2> QED BY <1>1, <2>1
<1>4. ASSUME Head(q).kind = "done", NEW i \in 1..Len(p), p[i].kind \in {"done", "ask"}  PROVE FALSE
  <2>1. i + 1 <= 1
    BY <1>1, <1>2, <1>4 DEF Ordered
  <2> QED BY <1>1, <2>1
<1> QED BY <1>3, <1>4 DEF p, HasKind

LEMMA KindsNot ==
    /\ \A k : ~HasKind(<<>>, k)
    /\ \A k : HasKind(<<Event("info")>>, k) <=> k = "info"
    /\ Ordered(<<>>) /\ Ordered(<<Event("info")>>)
BY DEF HasKind, Ordered, Event

----------------------------------------------------------------------------
(***************************************************************************)
(* While the server runs, the settings stay and every turn ends well, the  *)
(* registered session has the one turn there is, and it keeps the thread   *)
(* busy.                                                                   *)
(***************************************************************************)
Calm == MaxCrashes = 0 /\ Ops \subseteq {"compact", "cancel", "reap", "approvals"}

\* A session has a turn until the handoff that follows the turn has ended.
Works(r) == r.turns > 0 \/ HasKind(r.chan, "done") \/ r.at = "handoff"
Working == {t \in Session : Works(sess[t])}

\* A turn is in one stage: given, completed in the channel, or in the handoff.
\* What waits for an answer waits for it before its end, and a session that
\* was closed leaves the status alone.
Staged(r) ==
    /\ r.life \notin {"gone", "failed"} /\ ~r.stale
    /\ ~HasKind(r.chan, "failed") /\ ~HasKind(r.chan, "died")
    /\ Ordered(r.chan)
    /\ HasKind(r.chan, "ask") => r.turns > 0 \/ HasKind(r.chan, "done")
    /\ r.turns <= 1
    /\ r.turns > 0 => ~HasKind(r.chan, "done") /\ r.at # "handoff"
    /\ HasKind(r.chan, "done") => r.at # "handoff"
    /\ r.at = "handoff" => r.ok
    /\ r.at \in {"closed", "write"} => r.ok /\ ~r.mine
    /\ r.at = "write" => r.saw # "error"

\* A session is open while it is the registered one.
CalmSession(t) ==
    /\ Staged(sess[t])
    /\ t > nsess => ~sess[t].due
    /\ t = cur => sess[t].life = "open" /\ ~sess[t].due

\* Nobody but the thread's own turns writes it.
CalmServer ==
    /\ app = "up" /\ cutOff = "no" /\ status # "error"
    /\ arch.pc = "none" /\ sett.pc = "none" /\ ~intr
    /\ lock.pc \notin {"retired", "drain"} /\ lock.by \notin {"recover", "resume"}
    /\ cur <= nsess

\* The holder of promptMu is in Session.Send.
InSend == lock.pc \in {"hand", "tell", "write"}

\* promptMu is held by the handoff of the registered session, or by a request
\* that found the thread without a turn, or that only queues.
TurnLock ==
    /\ Working # {} /\ lock.own = NoSession => Busy /\ lock.pc \in {"free", "queue"}
    /\ lock.own # NoSession =>
         /\ lock.own = cur /\ sess[cur].at = "handoff"
         /\ lock.pc \in {"settle", "settled", "begin"} \/ InSend
    /\ lock.by = "handoff" \/ lock.pc \in {"settle", "settled"} => lock.own # NoSession
    /\ lock.own # NoSession \/ lock.pc \in {"enqueue", "begin", "compact"} \/ InSend
         => lock.l = cur /\ cur # NoSession
    /\ InSend => Busy

\* What waits for an answer belongs to the turn there is.
AskedByTurn ==
    /\ pending # {} => Working # {} /\ (lock.own # NoSession => lock.pc = "settle")
    /\ lock.pc = "settle" => pending \subseteq lock.aps

CalmInv ==
    /\ CalmServer /\ TurnLock /\ AskedByTurn
    /\ Working \subseteq {cur}
    /\ \A t \in Session : CalmSession(t)

\* A record that a step leaves as it is in all that Staged reads.
Alike(r, n) ==
    /\ n.life = r.life /\ n.stale = r.stale /\ n.chan = r.chan /\ n.turns = r.turns
    /\ n.at = r.at /\ n.ok = r.ok /\ n.mine = r.mine /\ n.saw = r.saw

LEMMA AlikeStaged ==
    ASSUME NEW r, NEW n, Alike(r, n)
    PROVE  (Staged(r) => Staged(n)) /\ (Works(n) <=> Works(r))
BY DEF Alike, Staged, Works

\* A session that reads an event that is not the end of a turn.
LEMMA ReadStaged ==
    ASSUME NEW r \in SessionRecord, NEW n \in SessionRecord, Staged(r), r.chan # <<>>,
           Head(r.chan).kind \in {"info", "started", "ask"},
           n.chan = Tail(r.chan), n.life = r.life, n.stale = r.stale, n.turns = r.turns,
           n.at = r.at, n.ok = r.ok, n.mine = r.mine, n.saw = r.saw
    PROVE  Staged(n) /\ (Works(n) <=> Works(r)) /\ (Head(r.chan).kind = "ask" => Works(r))
<1>1. r.chan \in Seq(EventRecord)
  BY DEF SessionRecord
<1>2. \A k : HasKind(r.chan, k) <=> HasKind(n.chan, k) \/ Head(r.chan).kind = k
  BY <1>1, KindTail
<1>3. Ordered(n.chan)
  BY <1>1, OrderedTail DEF Staged
<1> QED BY <1>2, <1>3 DEF Staged, Works

\* A session that reads the end of its turn.
LEMMA CompletedStaged ==
    ASSUME NEW r \in SessionRecord, NEW n \in SessionRecord, Staged(r), r.chan # <<>>,
           Head(r.chan).kind \in {"done", "failed"}, r.at = "loop",
           n.chan = Tail(r.chan), n.life = r.life, n.stale = r.stale, n.turns = r.turns,
           n.at = "handoff", n.ok = (Head(r.chan).kind = "done")
    PROVE  Staged(n) /\ Works(n) /\ Works(r)
<1>1. r.chan \in Seq(EventRecord)
  BY DEF SessionRecord
<1>2. \A k : HasKind(r.chan, k) <=> HasKind(n.chan, k) \/ Head(r.chan).kind = k
  BY <1>1, KindTail
<1>3. Head(r.chan).kind = "done"
  BY <1>2 DEF Staged
<1>4. Ordered(n.chan) /\ ~HasKind(n.chan, "done") /\ ~HasKind(n.chan, "ask")
  BY <1>1, <1>3, OrderedTail DEF Staged
<1>5. HasKind(r.chan, "done") /\ ~(r.turns > 0)
  BY <1>2, <1>3 DEF Staged
<1> QED BY <1>2, <1>3, <1>4, <1>5 DEF Staged, Works

\* A session that reads that it was closed.
LEMMA ClosedStaged ==
    ASSUME NEW r \in SessionRecord, NEW n \in SessionRecord, Staged(r), r.chan # <<>>,
           Head(r.chan).kind \in {"closed", "died"}, r.at = "loop",
           n.chan = Tail(r.chan), n.life = r.life, n.stale = r.stale, n.turns = r.turns,
           n.at = "closed", n.ok = (Head(r.chan).kind = "closed"), n.mine = FALSE
    PROVE  Staged(n) /\ (Works(n) <=> Works(r))
<1>1. r.chan \in Seq(EventRecord)
  BY DEF SessionRecord
<1>2. \A k : HasKind(r.chan, k) <=> HasKind(n.chan, k) \/ Head(r.chan).kind = k
  BY <1>1, KindTail
<1>3. Ordered(n.chan)
  BY <1>1, OrderedTail DEF Staged
<1>4. Head(r.chan).kind = "closed"
  BY <1>2 DEF Staged
<1> QED BY <1>2, <1>3, <1>4 DEF Staged, Works

\* A session that tells the start of a turn.
LEMMA ToldStaged ==
    ASSUME NEW r \in SessionRecord, NEW n \in SessionRecord, Staged(r),
           n.chan = Append(r.chan, Event("started")), n.life = r.life, n.stale = r.stale,
           n.turns = r.turns, n.at = r.at, n.ok = r.ok, n.mine = r.mine, n.saw = r.saw
    PROVE  Staged(n) /\ (Works(n) <=> Works(r))
<1>1. r.chan \in Seq(EventRecord)
  BY DEF SessionRecord
<1>2. Event("started") \in EventRecord /\ Event("started").kind = "started"
  BY EventTypes DEF Event
<1>3. \A k : HasKind(n.chan, k) <=> HasKind(r.chan, k) \/ "started" = k
  BY <1>1, <1>2, KindAppend
<1>4. Ordered(n.chan)
  BY <1>1, <1>2, OrderedAppend DEF Staged
<1> QED BY <1>3, <1>4 DEF Staged, Works

\* A session that is given a turn, when it has none or ends the handoff of one.
LEMMA GivenStaged ==
    ASSUME NEW r \in SessionRecord, NEW n \in SessionRecord, Staged(r),
           ~Works(r) \/ r.at = "handoff",
           n.chan = r.chan, n.life = r.life, n.stale = r.stale,
           n.turns = r.turns + 1, n.at = r.at \/ n.at = "loop", r.at = "handoff" => n.at = "loop",
           n.ok = r.ok, n.mine = r.mine, n.saw = r.saw
    PROVE  Staged(n) /\ Works(n)
<1>1. r.turns \in Nat
  BY DEF SessionRecord
<1>2. r.turns = 0 /\ ~HasKind(r.chan, "done")
  BY <1>1 DEF Staged, Works
<1> QED BY <1>1, <1>2 DEF Staged, Works

\* A session whose agent emits an event: the end of its turn, a request, or
\* that it is closed.
LEMMA EmitStaged ==
    ASSUME NEW r \in SessionRecord, NEW n \in SessionRecord, Staged(r), NEW e \in EventRecord,
           \/ e.kind = "done" /\ r.turns > 0 /\ n.turns = r.turns - 1 /\ n.life = r.life
           \/ e.kind = "ask" /\ r.turns > 0 /\ n.turns = r.turns /\ n.life = r.life
           \/ e.kind = "closed" /\ ~Works(r) /\ n.turns = 0 /\ n.life = "told",
           n.chan = Append(r.chan, e), n.stale = r.stale,
           n.at = r.at, n.ok = r.ok, n.mine = r.mine, n.saw = r.saw
    PROVE  Staged(n) /\ (Works(n) <=> Works(r))
<1>1. r.chan \in Seq(EventRecord) /\ r.turns \in Nat
  BY DEF SessionRecord
<1>2. \A k : HasKind(n.chan, k) <=> HasKind(r.chan, k) \/ e.kind = k
  BY <1>1, KindAppend
<1>3. Ordered(n.chan)
  BY <1>1, OrderedAppend DEF Staged
<1>4. r.turns > 0 => r.turns = 1 /\ ~HasKind(r.chan, "done") /\ r.at # "handoff"
  BY <1>1 DEF Staged
<1>5. CASE e.kind = "done"
  BY <1>1, <1>2, <1>3, <1>4, <1>5 DEF Staged, Works
<1>6. CASE e.kind = "ask"
  BY <1>1, <1>2, <1>3, <1>4, <1>6 DEF Staged, Works
<1>7. CASE e.kind = "closed"
  BY <1>1, <1>2, <1>3, <1>4, <1>7 DEF Staged, Works
<1> QED BY <1>5, <1>6, <1>7

----------------------------------------------------------------------------
\* A step that leaves the sessions alike.
LEMMA SessionsAlike ==
    ASSUME CalmInv, UNCHANGED <<cur, nsess>>,
           \A t \in Session : Alike(sess[t], sess'[t]) /\ sess'[t].due = sess[t].due
    PROVE  (\A t \in Session : CalmSession(t)') /\ Working' = Working
<1>1. ASSUME NEW t \in Session  PROVE CalmSession(t)' /\ (Works(sess'[t]) <=> Works(sess[t]))
  BY AlikeStaged DEF CalmInv, CalmSession, Alike
<1> QED BY <1>1 DEF Working

\* A step of one session that neither gives nor takes its turn.
LEMMA OneSession ==
    ASSUME CalmInv, UNCHANGED <<cur, nsess>>, NEW s \in Session,
           \A t \in Session \ {s} : sess'[t] = sess[t],
           Staged(sess'[s]), Works(sess'[s]) <=> Works(sess[s]),
           sess'[s].life = sess[s].life, sess'[s].due = sess[s].due
    PROVE  (\A t \in Session : CalmSession(t)') /\ Working' = Working
<1>1. ASSUME NEW t \in Session  PROVE CalmSession(t)' /\ (Works(sess'[t]) <=> Works(sess[t]))
  BY DEF CalmInv, CalmSession
<1> QED BY <1>1 DEF Working

\* A step that leaves promptMu and the registry alone, and the turn where it is.
LEMMA LockKept ==
    ASSUME CalmInv, UNCHANGED <<lock, cur>>, Working' = Working, Busy => Busy',
           lock.own # NoSession => sess'[cur].at = sess[cur].at
    PROVE  TurnLock' /\ (pending' \subseteq pending => AskedByTurn')
BY DEF CalmInv, TurnLock, AskedByTurn, Busy, InSend

\* A request or a step of one, that holds promptMu for no handoff.
LEMMA LockRequested ==
    ASSUME CalmInv, UNCHANGED <<cur, pending>>, Working' = Working,
           lock.own = NoSession, lock'.own = NoSession,
           Working # {} => Busy' /\ lock'.pc \in {"free", "queue"},
           lock'.by # "handoff", lock'.pc \notin {"settle", "settled"},
           lock'.pc \in {"enqueue", "begin", "compact"} => lock'.l = cur /\ cur # NoSession, ~InSend'
    PROVE  TurnLock' /\ AskedByTurn'
BY DEF CalmInv, TurnLock, AskedByTurn

\* The end of an operation that holds promptMu for no handoff.
LEMMA UnlockCalm ==
    ASSUME CalmInv, Unlock(sess), lock.own = NoSession
    PROVE  lock' = Unlocked /\ sess' = sess /\ app' = app
BY DEF CalmInv, CalmServer, Unlock

LEMMA StartOfTurnCalm ==
    ASSUME IInv, AgentInv, CalmInv, StartOfTurn
    PROVE  CalmInv'
<1> USE DEF IInv, TypeOK
<1>1. CASE ReuseSession
  <2>1. UNCHANGED <<cur, nsess, sess, status, pending, app, cutOff, arch, sett, intr>>
    BY <1>1 DEF ReuseSession, storeVars, threadVars, processVars, requestVars, agentVars
  <2>2. (\A t \in Session : CalmSession(t)') /\ Working' = Working
    BY <2>1, SessionsAlike DEF Alike
  <2>3. lock.own = NoSession /\ Working = {}
    BY <1>1 DEF CalmInv, TurnLock, InSend, ReuseSession, At
  <2>4. /\ lock'.own = lock.own /\ lock'.by = lock.by /\ lock'.l = cur /\ cur # NoSession
        /\ lock'.pc \in {"enqueue", "begin", "compact"}
    BY <1>1 DEF ReuseSession, Ready, ServerTypeOK, LockRecord
  <2>5. TurnLock' /\ AskedByTurn'
    BY <2>1, <2>2, <2>3, <2>4, LockRequested DEF InSend, CalmInv, TurnLock
  <2>6. CalmServer'
    BY <2>1, <2>4 DEF CalmInv, CalmServer
  <2> QED BY <2>1, <2>2, <2>5, <2>6 DEF CalmInv
<1>2. CASE RetireStale
  <2>1. FALSE
    BY <1>2 DEF RetireStale, CalmInv, CalmSession, Staged, ServerTypeOK
  <2> QED BY <2>1
<1>3. CASE NoneRegistered
  <2>1. UNCHANGED <<cur, nsess, sess, status, pending, app, cutOff, arch, sett, intr>>
    BY <1>3 DEF NoneRegistered, storeVars, threadVars, processVars, requestVars, agentVars
  <2>2. (\A t \in Session : CalmSession(t)') /\ Working' = Working
    BY <2>1, SessionsAlike DEF Alike
  <2>3. lock.own = NoSession /\ Working = {}
    BY <1>3 DEF CalmInv, CalmServer, TurnLock, NoneRegistered, At
  <2>4. lock'.own = lock.own /\ lock'.by = lock.by /\ lock'.pc = "start"
    BY <1>3 DEF NoneRegistered, Goto, ServerTypeOK, LockRecord
  <2>5. TurnLock' /\ AskedByTurn'
    BY <2>1, <2>2, <2>3, <2>4, LockRequested DEF InSend, CalmInv, TurnLock
  <2>6. CalmServer'
    BY <2>1, <2>4 DEF CalmInv, CalmServer
  <2> QED BY <2>1, <2>2, <2>5, <2>6 DEF CalmInv
<1>4. CASE StartSession
  <2> DEFINE s == nsess + 1
  <2>1. s \in Session /\ cur = NoSession /\ cur' = s /\ nsess' = s
    BY <1>4, TurnsAssumption DEF StartSession, At, AgentInv, NoneWhileStarting, SessionTypeOK, Session
  <2>2. UNCHANGED <<status, pending, app, cutOff, arch, sett, intr>>
    BY <1>4 DEF StartSession, storeVars, threadVars, processVars, requestVars
  <2>3. lock.own = NoSession /\ Working = {} /\ lock.by # "handoff"
    BY <1>4 DEF CalmInv, TurnLock, InSend, StartSession, At
  <2>4. /\ \A t \in Session \ {s} : sess'[t] = sess[t]
        /\ sess'[s].life = "open" /\ sess'[s].chan = <<Event("info")>> /\ sess'[s].due = sess[s].due
        /\ sess'[s].stale = sess[s].stale /\ sess'[s].turns = sess[s].turns /\ sess'[s].at = sess[s].at
        /\ sess'[s].ok = sess[s].ok /\ sess'[s].mine = sess[s].mine /\ sess'[s].saw = sess[s].saw
    BY <1>4, <2>1 DEF StartSession, SessionTypeOK, SessionRecord
  <2>5. Staged(sess[s]) /\ ~Works(sess[s]) /\ ~sess[s].due
    BY <2>1, <2>3 DEF CalmInv, CalmSession, Working, SessionTypeOK
  <2>6. Staged(sess'[s]) /\ ~Works(sess'[s])
    BY <2>4, <2>5, KindsNot DEF Staged, Works
  <2>7. ASSUME NEW t \in Session  PROVE CalmSession(t)' /\ ~Works(sess'[t])
    <3>1. CASE t = s
      BY <2>1, <2>4, <2>5, <2>6, <3>1 DEF CalmSession, SessionTypeOK, Session
    <3>2. CASE t # s
      BY <2>1, <2>3, <2>4, <3>2 DEF CalmInv, CalmSession, Working, SessionTypeOK, Session
    <3> QED BY <3>1, <3>2
  <2>8. Working' = {}
    BY <2>7 DEF Working
  <2>9. lock'.own = lock.own /\ lock'.by = lock.by /\ lock'.l = s /\ lock'.pc \in {"enqueue", "begin", "compact"}
    BY <1>4 DEF StartSession, Ready, ServerTypeOK, LockRecord
  <2>10. TurnLock' /\ AskedByTurn'
    <3>1. pending = {} /\ s # NoSession
      BY <2>1, <2>3 DEF CalmInv, AskedByTurn, Session, NoSession
    <3> QED BY <2>1, <2>2, <2>3, <2>8, <2>9, <3>1 DEF TurnLock, AskedByTurn, InSend
  <2>11. CalmServer'
    BY <2>1, <2>2, <2>9 DEF CalmInv, CalmServer, SessionTypeOK
  <2> QED BY <2>7, <2>8, <2>10, <2>11 DEF CalmInv
<1>5. CASE StartFails
  <2>1. UNCHANGED <<cur, nsess, pending, cutOff, arch, sett, intr>>
    BY <1>5 DEF StartFails, threadVars, requestVars
  <2>2. lock.own = NoSession /\ Working = {} /\ lock.by # "handoff"
    BY <1>5 DEF CalmInv, TurnLock, InSend, StartFails, At
  <2>3. lock' = Unlocked /\ sess' = sess /\ app' = app /\ status' = status
    BY <1>5, <2>2, UnlockCalm DEF StartFails
  <2>4. (\A t \in Session : CalmSession(t)') /\ Working' = Working
    BY <2>1, <2>3, SessionsAlike DEF Alike
  <2>5. TurnLock' /\ AskedByTurn'
    BY <2>1, <2>2, <2>3, <2>4, LockRequested DEF InSend, Unlocked
  <2>6. CalmServer'
    BY <2>1, <2>3 DEF CalmInv, CalmServer, Unlocked
  <2> QED BY <2>1, <2>4, <2>5, <2>6 DEF CalmInv
<1>6. CASE Enqueue
  <2>1. UNCHANGED <<cur, nsess, sess, status, pending, app, cutOff, arch, sett, intr>>
    BY <1>6 DEF Enqueue, threadVars, processVars, requestVars, agentVars
  <2>2. (\A t \in Session : CalmSession(t)') /\ Working' = Working
    BY <2>1, SessionsAlike DEF Alike
  <2>3. lock.own = NoSession /\ Working = {} /\ lock.l = cur /\ cur # NoSession /\ lock.by # "handoff"
    BY <1>6 DEF CalmInv, TurnLock, InSend, Enqueue, At
  <2>4. lock'.own = lock.own /\ lock'.by = lock.by /\ lock'.l = lock.l /\ lock'.pc = "begin"
    BY <1>6 DEF Enqueue, Goto, ServerTypeOK, LockRecord
  <2>5. TurnLock' /\ AskedByTurn'
    BY <2>1, <2>2, <2>3, <2>4, LockRequested DEF InSend
  <2>6. CalmServer'
    BY <2>1, <2>4 DEF CalmInv, CalmServer
  <2> QED BY <2>1, <2>2, <2>5, <2>6 DEF CalmInv
<1>7. CASE Begin \/ BeginCompact
  <2>1. UNCHANGED <<cur, nsess, pending, app, cutOff, arch, sett, intr>> /\ status' = "running"
    BY <1>7 DEF Begin, BeginCompact, threadVars, processVars, requestVars
  <2>2. \A t \in Session : Alike(sess[t], sess'[t]) /\ sess'[t].due = sess[t].due
    BY <1>7 DEF Begin, BeginCompact, Alike, SessionTypeOK, SessionRecord
  <2>3. (\A t \in Session : CalmSession(t)') /\ Working' = Working
    BY <2>1, <2>2, SessionsAlike
  <2>4. lock'.own = lock.own /\ lock'.by = lock.by /\ lock'.l = lock.l /\ lock'.pc = "hand"
    BY <1>7 DEF Begin, BeginCompact, Goto, ServerTypeOK, LockRecord
  <2>5. lock.l = cur /\ cur # NoSession /\ cur \in Session
    BY <1>7 DEF Begin, BeginCompact, At, CalmInv, TurnLock, ServerTypeOK
  <2>6. TurnLock'
    BY <1>7, <2>1, <2>2, <2>3, <2>4, <2>5 DEF CalmInv, TurnLock, InSend, Busy, Begin, BeginCompact, At, Alike
  <2>7. AskedByTurn'
    BY <1>7, <2>1, <2>3, <2>4 DEF CalmInv, TurnLock, AskedByTurn, Begin, BeginCompact, At
  <2>8. CalmServer'
    BY <2>1, <2>4 DEF CalmInv, CalmServer
  <2> QED BY <2>1, <2>3, <2>6, <2>7, <2>8 DEF CalmInv
<1>8. CASE HandFindsAlive
  <2>1. UNCHANGED <<cur, nsess, sess, status, pending, app, cutOff, arch, sett, intr>>
    BY <1>8 DEF HandFindsAlive, storeVars, threadVars, processVars, requestVars, agentVars
  <2>2. (\A t \in Session : CalmSession(t)') /\ Working' = Working
    BY <2>1, SessionsAlike DEF Alike
  <2>3. lock'.own = lock.own /\ lock'.by = lock.by /\ lock'.l = lock.l /\ lock'.pc = "tell" /\ lock.pc = "hand"
    BY <1>8 DEF HandFindsAlive, At, Goto, ServerTypeOK, LockRecord
  <2>4. TurnLock' /\ AskedByTurn'
    BY <2>1, <2>2, <2>3 DEF CalmInv, TurnLock, AskedByTurn, Busy, InSend
  <2>5. CalmServer'
    BY <2>1, <2>3 DEF CalmInv, CalmServer
  <2> QED BY <2>1, <2>2, <2>4, <2>5 DEF CalmInv
<1>9. CASE HandTells
  <2> DEFINE r == sess[cur]
             n == sess'[cur]
  <2>1. UNCHANGED <<cur, nsess, status, pending, app, cutOff, arch, sett, intr>>
    BY <1>9 DEF HandTells, storeVars, threadVars, processVars, requestVars
  <2>2. lock.l = cur /\ cur \in Session
    BY <1>9 DEF HandTells, At, CalmInv, TurnLock, InSend, ServerTypeOK
  <2>3. sess' = [sess EXCEPT ![cur].chan = Append(@, Event("started"))]
    BY <1>9, <2>2 DEF HandTells
  <2>4. r \in SessionRecord /\ Staged(r) /\ n \in SessionRecord
    BY <2>2, <2>3, SendTypes DEF CalmInv, CalmSession, SessionTypeOK
  <2>5. /\ \A t \in Session \ {cur} : sess'[t] = sess[t]
        /\ n.chan = Append(r.chan, Event("started"))
        /\ n.turns = r.turns /\ n.life = r.life /\ n.due = r.due /\ n.stale = r.stale /\ n.at = r.at
        /\ n.ok = r.ok /\ n.mine = r.mine /\ n.saw = r.saw
    BY <2>2, <2>3 DEF SessionTypeOK, SessionRecord
  <2>6. Staged(n) /\ (Works(n) <=> Works(r))
    <3> HIDE DEF r, n
    <3> QED BY <2>4, <2>5, ToldStaged
  <2>7. (\A t \in Session : CalmSession(t)') /\ Working' = Working
    BY <2>1, <2>2, <2>5, <2>6, OneSession
  <2>8. lock'.own = lock.own /\ lock'.by = lock.by /\ lock'.l = lock.l /\ lock'.pc = "write" /\ lock.pc = "tell"
    BY <1>9 DEF HandTells, At, Goto, ServerTypeOK, LockRecord
  <2>9. TurnLock' /\ AskedByTurn'
    BY <2>1, <2>5, <2>7, <2>8 DEF CalmInv, TurnLock, AskedByTurn, Busy, InSend
  <2>10. CalmServer'
    BY <2>1, <2>8 DEF CalmInv, CalmServer
  <2> QED BY <2>1, <2>7, <2>9, <2>10 DEF CalmInv
<1>10. CASE HandWrites
  <2> DEFINE r == sess[cur]
             n == sess'[cur]
             f == [sess EXCEPT ![cur].turns = @ + 1]
  <2>1. UNCHANGED <<cur, nsess, status, pending, cutOff, arch, sett, intr>>
    BY <1>10 DEF HandWrites, storeVars, threadVars, requestVars
  <2>2. lock.l = cur /\ cur \in Session /\ Busy /\ lock.by # "recover" /\ (lock.own = NoSession => Working = {})
    BY <1>10 DEF HandWrites, At, CalmInv, CalmServer, TurnLock, InSend, ServerTypeOK
  <2>3. lock.own # NoSession => lock.own = cur /\ r.at = "handoff"
    BY DEF CalmInv, TurnLock
  <2>4. Unlock(f)
    BY <1>10, <2>2 DEF HandWrites
  <2>5. r \in SessionRecord /\ Staged(r) /\ f \in [Session -> SessionRecord]
    BY <2>2, SendTypes DEF CalmInv, CalmSession, SessionTypeOK
  <2>6. /\ \A t \in Session \ {cur} : f[t] = sess[t]
        /\ f[cur].turns = r.turns + 1 /\ f[cur].chan = r.chan
        /\ f[cur].life = r.life /\ f[cur].due = r.due /\ f[cur].stale = r.stale /\ f[cur].at = r.at
        /\ f[cur].ok = r.ok /\ f[cur].mine = r.mine /\ f[cur].saw = r.saw
    BY <2>2 DEF SessionTypeOK, SessionRecord
  <2>7. sess' \in [Session -> SessionRecord] /\ lock' = Unlocked /\ app' = app
    BY <2>2, <2>4, <2>5, UnlockTypes DEF Unlock
  <2> HIDE DEF f
  <2>8. /\ \A t \in Session \ {cur} : sess'[t] = sess[t]
        /\ n.turns = r.turns + 1 /\ n.chan = r.chan
        /\ n.life = r.life /\ n.due = r.due /\ n.stale = r.stale
        /\ n.at = IF lock.own = NoSession THEN r.at ELSE "loop"
        /\ n.ok = r.ok /\ n.mine = r.mine /\ n.saw = r.saw
    BY <2>2, <2>3, <2>4, <2>5, <2>6 DEF Unlock, SessionRecord
  <2>9. ~Works(r) \/ (r.at = "handoff" /\ lock.own # NoSession)
    BY <2>2, <2>3 DEF Working
  <2>10. Staged(n) /\ Works(n)
    <3>1. n \in SessionRecord
      BY <2>2, <2>7
    <3> HIDE DEF r, n
    <3> QED BY <2>5, <2>8, <2>9, <3>1, GivenStaged DEF Works
  <2>11. ASSUME NEW t \in Session  PROVE CalmSession(t)' /\ (Works(sess'[t]) => t = cur)
    BY <2>1, <2>8, <2>10 DEF CalmInv, CalmSession, Working
  <2>12. cur \in Working' /\ Working' \subseteq {cur'}
    BY <2>1, <2>2, <2>10, <2>11 DEF Working
  <2>13. lock'.pc = "free" /\ lock'.own = NoSession /\ lock'.by = "none"
    BY <2>7 DEF Unlocked
  <2>14. TurnLock' /\ AskedByTurn'
    BY <2>1, <2>2, <2>12, <2>13 DEF TurnLock, AskedByTurn, Busy, InSend
  <2>15. CalmServer'
    BY <2>1, <2>7, <2>13 DEF CalmInv, CalmServer
  <2> QED BY <2>11, <2>12, <2>14, <2>15 DEF CalmInv
<1>11. CASE HandFails
  <2>1. lock.l \in Session /\ sess[lock.l].life = "open"
    BY <1>11 DEF HandFails, Refused, At, CalmInv, TurnLock, InSend, CalmSession, ServerTypeOK
  <2> QED BY <1>11, <2>1 DEF HandFails, Refused, Alive
<1> QED BY <1>1, <1>2, <1>3, <1>4, <1>5, <1>6, <1>7, <1>8, <1>9, <1>10, <1>11 DEF StartOfTurn

LEMMA HandoffCalm ==
    ASSUME IInv, CalmInv, Handoff
    PROVE  CalmInv'
<1> USE DEF IInv, TypeOK
<1>1. CASE Settle
  <2>1. UNCHANGED <<cur, nsess, sess, app, cutOff, arch, sett, intr>>
    BY <1>1 DEF Settle, processVars, requestVars, agentVars
  <2>2. (\A t \in Session : CalmSession(t)') /\ Working' = Working
    BY <2>1, SessionsAlike DEF Alike
  <2>3. lock.own = cur /\ cur \in Session /\ sess[cur].at = "handoff" /\ sess[cur].ok /\ pending \subseteq lock.aps
    BY <1>1 DEF Settle, At, CalmInv, TurnLock, AskedByTurn, CalmSession, Staged, ServerTypeOK
  <2>4. pending' = {} /\ status' \in {status, "idle"}
    BY <1>1, <2>3 DEF Settle
  <2>5. lock'.own = lock.own /\ lock'.by = lock.by /\ lock'.l = lock.l /\ lock'.pc = "settled"
    BY <1>1 DEF Settle, Goto, ServerTypeOK, LockRecord
  <2>6. TurnLock' /\ AskedByTurn'
    BY <1>1, <2>1, <2>2, <2>3, <2>4, <2>5 DEF CalmInv, TurnLock, AskedByTurn, InSend, Session, NoSession
  <2>7. CalmServer'
    BY <2>1, <2>4, <2>5 DEF CalmInv, CalmServer
  <2> QED BY <2>1, <2>2, <2>6, <2>7 DEF CalmInv
<1>2. CASE HandoffRetire
  <2>1. FALSE
    BY <1>2 DEF HandoffRetire, At, CalmInv, TurnLock, CalmSession, Staged, ServerTypeOK
  <2> QED BY <2>1
<1>3. CASE HandoffNext
  <2>1. UNCHANGED <<cur, nsess, sess, status, pending, app, cutOff, arch, sett, intr>>
    BY <1>3 DEF HandoffNext, storeVars, threadVars, processVars, requestVars, agentVars
  <2>2. (\A t \in Session : CalmSession(t)') /\ Working' = Working
    BY <2>1, SessionsAlike DEF Alike
  <2>3. At("settled") /\ lock' = [lock EXCEPT !.pc = "begin", !.cfg = config]
    BY <1>3 DEF HandoffNext, At, CalmInv, CalmServer
  <2>4. lock'.own = lock.own /\ lock'.by = lock.by /\ lock'.l = lock.l /\ lock'.pc = "begin"
    BY <2>3 DEF ServerTypeOK, LockRecord
  <2>5. TurnLock' /\ AskedByTurn'
    BY <2>1, <2>2, <2>3, <2>4 DEF CalmInv, TurnLock, AskedByTurn, InSend, At
  <2>6. CalmServer'
    BY <2>1, <2>4 DEF CalmInv, CalmServer
  <2> QED BY <2>1, <2>2, <2>5, <2>6 DEF CalmInv
<1>4. CASE HandoffDone
  <2>1. UNCHANGED <<cur, nsess, status, pending, cutOff, arch, sett, intr>>
    BY <1>4 DEF HandoffDone, storeVars, threadVars, requestVars
  <2>2. At("settled") /\ Unlock(sess)
    BY <1>4 DEF HandoffDone, At, CalmInv, CalmServer
  <2>3. /\ lock.own = cur /\ cur \in Session /\ sess[cur].at = "handoff" /\ lock.by # "recover"
        /\ pending = {}
    BY <2>2 DEF At, CalmInv, CalmServer, TurnLock, AskedByTurn, ServerTypeOK
  <2>4. lock' = Unlocked /\ app' = app /\ sess' = [sess EXCEPT ![cur].at = "loop"]
    BY <2>2, <2>3 DEF Unlock, Session, NoSession
  <2>5. /\ \A t \in Session \ {cur} : sess'[t] = sess[t]
        /\ sess'[cur].turns = sess[cur].turns /\ sess'[cur].chan = sess[cur].chan /\ sess'[cur].at = "loop"
        /\ sess'[cur].life = sess[cur].life /\ sess'[cur].due = sess[cur].due /\ sess'[cur].stale = sess[cur].stale
    BY <2>3, <2>4 DEF SessionTypeOK, SessionRecord
  <2>6. Staged(sess'[cur]) /\ ~Works(sess'[cur])
    <3>1. Staged(sess[cur])
      BY <2>3 DEF CalmInv, CalmSession
    <3> QED BY <2>3, <2>5, <3>1 DEF Staged, Works
  <2>7. ASSUME NEW t \in Session  PROVE CalmSession(t)' /\ ~Works(sess'[t])
    <3>1. CASE t = cur
      BY <2>1, <2>5, <2>6, <3>1 DEF CalmInv, CalmSession
    <3>2. CASE t # cur
      BY <2>1, <2>5, <3>2 DEF CalmInv, CalmSession, Working
    <3> QED BY <3>1, <3>2
  <2>8. Working' = {}
    BY <2>7 DEF Working
  <2>9. TurnLock' /\ AskedByTurn'
    BY <2>1, <2>3, <2>4, <2>8 DEF TurnLock, AskedByTurn, InSend, Unlocked
  <2>10. CalmServer'
    BY <2>1, <2>4 DEF CalmInv, CalmServer, Unlocked
  <2> QED BY <2>7, <2>8, <2>9, <2>10 DEF CalmInv
<1> QED BY <1>1, <1>2, <1>3, <1>4 DEF Handoff

LEMMA LockedRequestCalm ==
    ASSUME IInv, CalmInv, LockedRequest
    PROVE  CalmInv'
<1> USE DEF IInv, TypeOK
<1>1. CASE SendPrompt \/ CompactContext
  <2>1. UNCHANGED <<cur, nsess, sess, status, pending, app, cutOff, arch, sett, intr>>
    BY <1>1 DEF SendPrompt, CompactContext, storeVars, threadVars, processVars, requestVars, agentVars
  <2>2. (\A t \in Session : CalmSession(t)') /\ Working' = Working
    BY <2>1, SessionsAlike DEF Alike
  <2>3. lock.own = NoSession /\ (Working # {} => Busy) /\ Busy' = Busy
    BY <1>1, <2>1 DEF SendPrompt, CompactContext, Acquire, At, CalmInv, TurnLock, InSend, Busy
  <2>4. /\ lock'.own = NoSession /\ lock'.by \in {"send", "compact"}
        /\ ~Busy => lock'.pc = "session"
        /\ Busy => lock'.pc = "queue"
    BY <1>1 DEF SendPrompt, CompactContext, Acquire, Unlocked, NoSession
  <2>5. TurnLock' /\ AskedByTurn'
    BY <2>1, <2>2, <2>3, <2>4, LockRequested DEF InSend
  <2>6. CalmServer'
    BY <2>1, <2>4 DEF CalmInv, CalmServer
  <2> QED BY <2>1, <2>2, <2>5, <2>6 DEF CalmInv
<1>2. CASE QueuePrompt
  <2>1. UNCHANGED <<cur, nsess, status, pending, cutOff, arch, sett, intr>>
    BY <1>2 DEF QueuePrompt, threadVars, requestVars
  <2>2. lock.own = NoSession /\ (Working # {} => Busy)
    BY <1>2 DEF CalmInv, TurnLock, InSend, QueuePrompt, At
  <2>3. lock' = Unlocked /\ sess' = sess /\ app' = app
    BY <1>2, <2>2, UnlockCalm DEF QueuePrompt
  <2>4. (\A t \in Session : CalmSession(t)') /\ Working' = Working
    BY <2>1, <2>3, SessionsAlike DEF Alike
  <2>5. TurnLock' /\ AskedByTurn'
    BY <2>1, <2>2, <2>3, <2>4, LockRequested DEF InSend, Unlocked, Busy
  <2>6. CalmServer'
    BY <2>1, <2>3 DEF CalmInv, CalmServer, Unlocked
  <2> QED BY <2>1, <2>4, <2>5, <2>6 DEF CalmInv
<1>3. CASE ReapIdle
  <2>1. UNCHANGED <<lock, nsess, status, pending, app, cutOff, arch, sett, intr>>
    BY <1>3 DEF ReapIdle, storeVars, threadVars, processVars, requestVars
  <2>2. cur \in Session /\ lock.pc = "free" /\ lock.own = NoSession /\ Working = {} /\ cur' = NoSession /\ pending = {}
    BY <1>3 DEF ReapIdle, At, Unregister, Forget, ServerTypeOK, CalmInv, TurnLock, AskedByTurn
  <2>3. sess' = [sess EXCEPT ![cur].due = TRUE]
    BY <1>3 DEF ReapIdle, Unregister
  <2>4. \A t \in Session : Alike(sess[t], sess'[t]) /\ (t # cur => sess'[t].due = sess[t].due)
    BY <2>2, <2>3 DEF Alike, SessionTypeOK, SessionRecord
  <2>5. ASSUME NEW t \in Session  PROVE CalmSession(t)' /\ ~Works(sess'[t])
    <3>1. Staged(sess'[t]) /\ ~Works(sess'[t])
      BY <2>2, <2>4, AlikeStaged DEF CalmInv, CalmSession, Working
    <3>2. t # cur' /\ ~(cur > nsess)
      BY <2>2 DEF CalmInv, CalmServer, Session, NoSession, SessionTypeOK
    <3> QED BY <2>1, <2>4, <3>1, <3>2 DEF CalmInv, CalmSession
  <2>6. Working' = {}
    BY <2>5 DEF Working
  <2>7. TurnLock' /\ AskedByTurn'
    BY <2>1, <2>2, <2>6 DEF CalmInv, TurnLock, AskedByTurn, InSend
  <2>8. CalmServer'
    BY <2>1, <2>2 DEF CalmInv, CalmServer, SessionTypeOK, NoSession
  <2> QED BY <2>5, <2>6, <2>7, <2>8 DEF CalmInv
<1>4. CASE \E p \in Prompt : CancelQueuedPrompt(p)
  <2>1. UNCHANGED <<cur, lock, nsess, sess, status, pending, app, cutOff, arch, sett, intr>>
    BY <1>4 DEF CancelQueuedPrompt, threadVars, processVars, requestVars, agentVars
  <2>2. (\A t \in Session : CalmSession(t)') /\ Working' = Working
    BY <2>1, SessionsAlike DEF Alike
  <2>3. TurnLock' /\ AskedByTurn'
    BY <2>1, <2>2, LockKept DEF Busy
  <2>4. CalmServer'
    BY <2>1 DEF CalmInv, CalmServer
  <2> QED BY <2>1, <2>2, <2>3, <2>4 DEF CalmInv
<1> QED BY <1>1, <1>2, <1>3, <1>4 DEF LockedRequest

LEMMA PumpCalm ==
    ASSUME IInv, AgentInv, CalmInv, NEW s \in Session, Pump(s)
    PROVE  CalmInv'
<1> DEFINE r == sess[s]
           n == sess'[s]
<1>0. n \in SessionRecord
  <2>1. IInv'
    BY PumpPreserves
  <2> QED BY <2>1 DEF IInv, TypeOK, SessionTypeOK
<1> USE DEF IInv, TypeOK
<1>1. r \in SessionRecord /\ Staged(r) /\ (s = cur => r.life = "open") /\ (Works(r) => s = cur)
  BY DEF CalmInv, CalmSession, SessionTypeOK, Working
<1>2. lock.own # NoSession => lock.own = cur /\ sess[cur].at = "handoff"
  BY DEF CalmInv, TurnLock
<1>3. CASE PumpDrops(s)
  <2>1. FALSE
    BY <1>3 DEF PumpDrops, CalmInv, CalmServer
  <2> QED BY <2>1
<1>4. CASE PumpInfo(s) \/ PumpStarted(s) \/ PumpAsk(s) \/ PumpAutoResolve(s)
  <2>1. UNCHANGED <<cur, lock, nsess, app, cutOff, arch, sett, intr>> /\ status' \in {status, "running", "awaiting"}
    BY <1>4 DEF PumpInfo, PumpStarted, PumpAsk, PumpAutoResolve, storeVars, processVars, requestVars
  <2>2. r.chan # <<>> /\ Head(r.chan).kind \in {"info", "started", "ask"} /\ r.at = "loop"
    BY <1>4 DEF PumpInfo, PumpStarted, PumpAsk, PumpAutoResolve, Reads
  <2>3. sess' = Popped(s) \/ sess' = [sess EXCEPT ![s].chan = Tail(@), ![s].asks = @ \ {Head(r.chan).ask}]
    BY <1>4 DEF PumpInfo, PumpStarted, PumpAsk, PumpAutoResolve
  <2>4. /\ \A t \in Session \ {s} : sess'[t] = sess[t]
        /\ n.chan = Tail(r.chan) /\ n.life = r.life /\ n.due = r.due /\ n.stale = r.stale
        /\ n.turns = r.turns /\ n.at = r.at /\ n.ok = r.ok /\ n.mine = r.mine /\ n.saw = r.saw
    <3>1. CASE sess' = Popped(s)
      BY <3>1 DEF Popped, SessionTypeOK, SessionRecord
    <3>2. CASE sess' = [sess EXCEPT ![s].chan = Tail(@), ![s].asks = @ \ {Head(r.chan).ask}]
      <4> DEFINE e == Head(r.chan).ask
      <4>1. sess' = [sess EXCEPT ![s].chan = Tail(@), ![s].asks = @ \ {e}]
        BY <3>2
      <4> HIDE DEF e
      <4> QED BY <4>1 DEF SessionTypeOK, SessionRecord
    <3> QED BY <2>3, <3>1, <3>2
  <2>5. n \in SessionRecord
    BY <1>0
  <2>6. Staged(n) /\ (Works(n) <=> Works(r)) /\ (Head(r.chan).kind = "ask" => Works(r))
    <3> HIDE DEF r, n
    <3> QED BY <1>1, <2>2, <2>4, <2>5, ReadStaged
  <2>7. (\A t \in Session : CalmSession(t)') /\ Working' = Working
    BY <2>1, <2>4, <2>6, OneSession
  <2>8. Busy => Busy'
    BY <2>1 DEF Busy
  <2>9. lock.own # NoSession => sess'[cur].at = sess[cur].at
    BY <1>2, <2>2, <2>4 DEF ServerTypeOK
  <2>10. TurnLock' /\ (pending' \subseteq pending => AskedByTurn')
    BY <2>1, <2>7, <2>8, <2>9, LockKept
  <2>11. AskedByTurn'
    <3>1. CASE PumpAsk(s)
      <4>1. s = cur /\ Working' # {} /\ lock.own = NoSession
        BY <1>1, <1>2, <2>2, <2>6, <2>7, <3>1 DEF PumpAsk, Reads, Working
      <4> QED BY <2>1, <4>1 DEF AskedByTurn, CalmInv, TurnLock
    <3>2. CASE ~PumpAsk(s)
      BY <1>4, <2>10, <3>2 DEF PumpInfo, PumpStarted, PumpAutoResolve, storeVars, threadVars
    <3> QED BY <3>1, <3>2
  <2>12. CalmServer'
    BY <2>1 DEF CalmInv, CalmServer
  <2> QED BY <2>1, <2>7, <2>10, <2>11, <2>12 DEF CalmInv
<1>5. CASE PumpCompleted(s)
  <2>1. UNCHANGED <<cur, lock, nsess, status, pending, app, cutOff, arch, sett, intr>>
    BY <1>5 DEF PumpCompleted, storeVars, threadVars, processVars, requestVars
  <2>2. r.chan # <<>> /\ Head(r.chan).kind \in {"done", "failed"} /\ r.at = "loop"
    BY <1>5 DEF PumpCompleted, Reads
  <2>3. sess' = [sess EXCEPT ![s].chan = Tail(@), ![s].idle = TRUE,
                             ![s].at = "handoff", ![s].ok = Head(r.chan).kind = "done"]
    BY <1>5 DEF PumpCompleted
  <2>4. /\ \A t \in Session \ {s} : sess'[t] = sess[t]
        /\ n.chan = Tail(r.chan) /\ n.life = r.life /\ n.due = r.due /\ n.stale = r.stale
        /\ n.turns = r.turns /\ n.at = "handoff" /\ n.ok = (Head(r.chan).kind = "done")
    <3> DEFINE b == Head(r.chan).kind = "done"
    <3>1. sess' = [sess EXCEPT ![s].chan = Tail(@), ![s].idle = TRUE, ![s].at = "handoff", ![s].ok = b]
      BY <2>3
    <3>2. n = [r EXCEPT !.chan = Tail(@), !.idle = TRUE, !.at = "handoff", !.ok = b]
      BY <3>1 DEF SessionTypeOK
    <3> HIDE DEF b
    <3>3. /\ n.chan = Tail(r.chan) /\ n.life = r.life /\ n.due = r.due /\ n.stale = r.stale
          /\ n.turns = r.turns /\ n.at = "handoff" /\ n.ok = b
      BY <1>1, <3>2 DEF SessionRecord
    <3> QED BY <3>1, <3>3 DEF b, SessionTypeOK
  <2>5. n \in SessionRecord
    BY <1>0
  <2>6. Staged(n) /\ Works(n) /\ Works(r)
    <3> HIDE DEF r, n
    <3> QED BY <1>1, <2>2, <2>4, <2>5, CompletedStaged
  <2>7. (\A t \in Session : CalmSession(t)') /\ Working' = Working
    BY <2>1, <2>4, <2>6, OneSession
  <2>8. lock.own = NoSession
    BY <1>1, <1>2, <2>2, <2>6
  <2>9. TurnLock' /\ AskedByTurn'
    BY <2>1, <2>7, <2>8, LockKept DEF Busy
  <2>10. CalmServer'
    BY <2>1 DEF CalmInv, CalmServer
  <2> QED BY <2>1, <2>7, <2>9, <2>10 DEF CalmInv
<1>6. CASE HandoffAcquire(s)
  <2>1. UNCHANGED <<cur, nsess, sess, status, pending, app, cutOff, arch, sett, intr>>
    BY <1>6 DEF HandoffAcquire, storeVars, threadVars, processVars, requestVars, agentVars
  <2>2. (\A t \in Session : CalmSession(t)') /\ Working' = Working
    BY <2>1, SessionsAlike DEF Alike
  <2>3. s = cur /\ sess[s].at = "handoff" /\ Working # {}
    BY <1>1, <1>6 DEF HandoffAcquire, Works, Working
  <2>4. lock'.own = s /\ lock'.by = "handoff" /\ lock'.l = s /\ lock'.pc = "settle" /\ lock'.aps = pending
    BY <1>6 DEF HandoffAcquire, Unlocked
  <2>5. TurnLock' /\ AskedByTurn'
    BY <2>1, <2>2, <2>3, <2>4 DEF TurnLock, AskedByTurn, InSend, Session, NoSession
  <2>6. CalmServer'
    BY <2>1, <2>4 DEF CalmInv, CalmServer
  <2> QED BY <2>1, <2>2, <2>5, <2>6 DEF CalmInv
<1>7. CASE PumpClosed(s)
  <2>1. UNCHANGED <<lock, nsess, status, pending, app, cutOff, arch, sett, intr>>
    BY <1>7 DEF PumpClosed, storeVars, threadVars, processVars, requestVars
  <2>2. r.chan # <<>> /\ Head(r.chan).kind \in {"closed", "died"} /\ r.at = "loop" /\ r.chan \in Seq(EventRecord)
    BY <1>1, <1>7 DEF PumpClosed, Reads, SessionRecord
  <2>3. cur # s /\ cur' = cur
    <3>1. r.life \in {"told", "dead"}
      BY <2>2, EndedTail DEF AgentInv, SessionInv
    <3> QED BY <1>1, <1>7, <3>1 DEF PumpClosed, Forget
  <2>4. /\ \A t \in Session \ {s} : sess'[t] = sess[t]
        /\ n.chan = Tail(r.chan) /\ n.life = r.life /\ n.due = r.due /\ n.stale = r.stale
        /\ n.turns = r.turns /\ n.at = "closed" /\ n.ok = (Head(r.chan).kind = "closed") /\ n.mine = FALSE
    <3> DEFINE b == Head(r.chan).kind = "closed"
    <3>1. sess' = [sess EXCEPT ![s].chan = Tail(@), ![s].at = "closed", ![s].ok = b, ![s].mine = FALSE]
      BY <1>7, <2>3 DEF PumpClosed
    <3>2. n = [r EXCEPT !.chan = Tail(@), !.at = "closed", !.ok = b, !.mine = FALSE]
      BY <3>1 DEF SessionTypeOK
    <3> HIDE DEF b
    <3>3. /\ n.chan = Tail(r.chan) /\ n.life = r.life /\ n.due = r.due /\ n.stale = r.stale
          /\ n.turns = r.turns /\ n.at = "closed" /\ n.ok = b /\ n.mine = FALSE
      BY <1>1, <3>2 DEF SessionRecord
    <3> QED BY <3>1, <3>3 DEF b, SessionTypeOK
  <2>5. n \in SessionRecord
    BY <1>0
  <2>6. Staged(n) /\ (Works(n) <=> Works(r))
    <3> HIDE DEF r, n
    <3> QED BY <1>1, <2>2, <2>4, <2>5, ClosedStaged
  <2>7. (\A t \in Session : CalmSession(t)') /\ Working' = Working
    BY <2>1, <2>3, <2>4, <2>6, OneSession
  <2>8. TurnLock' /\ AskedByTurn'
    BY <1>2, <2>1, <2>3, <2>4, <2>7, LockKept DEF Busy, ServerTypeOK
  <2>9. CalmServer'
    BY <2>1, <2>3 DEF CalmInv, CalmServer
  <2> QED BY <2>1, <2>3, <2>7, <2>8, <2>9 DEF CalmInv
<1>8. CASE PumpClosedRead(s)
  <2>1. UNCHANGED <<cur, lock, nsess, status, pending, app, cutOff, arch, sett, intr>>
    BY <1>8 DEF PumpClosedRead, storeVars, threadVars, processVars, requestVars
  <2>2. r.at = "closed" /\ sess' = [sess EXCEPT ![s].at = "write", ![s].saw = status]
    BY <1>8 DEF PumpClosedRead
  <2>3. /\ \A t \in Session \ {s} : sess'[t] = sess[t]
        /\ n.chan = r.chan /\ n.life = r.life /\ n.due = r.due /\ n.stale = r.stale
        /\ n.turns = r.turns /\ n.at = "write" /\ n.ok = r.ok /\ n.mine = r.mine /\ n.saw = status
    BY <2>2 DEF SessionTypeOK, SessionRecord
  <2>4. Staged(n) /\ (Works(n) <=> Works(r))
    BY <1>1, <2>2, <2>3 DEF Staged, Works, CalmInv, CalmServer
  <2>5. (\A t \in Session : CalmSession(t)') /\ Working' = Working
    BY <2>1, <2>3, <2>4, OneSession
  <2>6. lock.own # NoSession => sess'[cur].at = sess[cur].at
    BY <1>2, <2>2, <2>3 DEF ServerTypeOK
  <2>7. TurnLock' /\ AskedByTurn'
    BY <2>1, <2>5, <2>6, LockKept DEF Busy
  <2>8. CalmServer'
    BY <2>1 DEF CalmInv, CalmServer
  <2> QED BY <2>1, <2>5, <2>7, <2>8 DEF CalmInv
<1>9. CASE PumpClosedWrite(s)
  <2>1. UNCHANGED <<cur, lock, nsess, pending, app, cutOff, arch, sett, intr>>
    BY <1>9 DEF PumpClosedWrite, threadVars, processVars, requestVars
  <2>2. r.at = "write" /\ sess' = [sess EXCEPT ![s].at = "loop"]
    BY <1>9 DEF PumpClosedWrite
  <2>3. status' = status
    BY <1>1, <1>9, <2>2 DEF PumpClosedWrite, Staged, SessionRecord, Status
  <2>4. /\ \A t \in Session \ {s} : sess'[t] = sess[t]
        /\ n.chan = r.chan /\ n.life = r.life /\ n.due = r.due /\ n.stale = r.stale
        /\ n.turns = r.turns /\ n.at = "loop"
    BY <2>2 DEF SessionTypeOK, SessionRecord
  <2>5. Staged(n) /\ (Works(n) <=> Works(r))
    BY <1>1, <2>2, <2>4 DEF Staged, Works
  <2>6. (\A t \in Session : CalmSession(t)') /\ Working' = Working
    BY <2>1, <2>4, <2>5, OneSession
  <2>7. lock.own # NoSession => sess'[cur].at = sess[cur].at
    BY <1>2, <2>2, <2>4 DEF ServerTypeOK
  <2>8. TurnLock' /\ AskedByTurn'
    BY <2>1, <2>3, <2>6, <2>7, LockKept DEF Busy
  <2>9. CalmServer'
    BY <2>1, <2>3 DEF CalmInv, CalmServer
  <2> QED BY <2>1, <2>6, <2>8, <2>9 DEF CalmInv
<1> QED BY <1>3, <1>4, <1>5, <1>6, <1>7, <1>8, <1>9 DEF Pump

LEMMA AgentCalm ==
    ASSUME Calm, IInv, CalmInv, NEW s \in Session, Agent(s)
    PROVE  CalmInv'
<1> DEFINE r == sess[s]
           n == sess'[s]
<1>0. n \in SessionRecord
  <2>1. IInv'
    BY AgentPreserves
  <2> QED BY <2>1 DEF IInv, TypeOK, SessionTypeOK
<1> USE DEF IInv, TypeOK
<1>1. /\ r \in SessionRecord /\ Staged(r) /\ (Works(r) => s = cur)
      /\ s = cur => r.life = "open" /\ ~r.due
  BY DEF CalmInv, CalmSession, SessionTypeOK, Working
<1>2. UNCHANGED <<cur, lock, nsess, status, pending, app, cutOff, arch, sett, intr>>
  BY DEF Agent, AgentCompletes, AgentAsks, AgentExits, CloseCall, AgentReaped, AgentEnds, AgentStops,
         storeVars, threadVars, processVars, requestVars
<1>3. ASSUME (\A t \in Session : CalmSession(t)'), Working' = Working, \A t \in Session : sess'[t].at = sess[t].at
      PROVE  CalmInv'
  <2>1. lock.own # NoSession => sess'[cur].at = sess[cur].at
    BY <1>3 DEF ServerTypeOK, CalmInv, TurnLock
  <2>2. TurnLock' /\ AskedByTurn'
    BY <1>2, <1>3, <2>1, LockKept DEF Busy
  <2>3. CalmServer'
    BY <1>2 DEF CalmInv, CalmServer
  <2> QED BY <1>2, <1>3, <2>2, <2>3 DEF CalmInv
<1>4. CASE AgentCompletes(s)
  <2> DEFINE e == Event("done")
  <2>1. r.turns > 0 /\ sess' = [sess EXCEPT ![s].turns = @ - 1, ![s].asks = {}, ![s].chan = Append(@, e)]
    BY <1>4 DEF AgentCompletes, Calm
  <2>2. e \in EventRecord /\ e.kind = "done"
    BY EventTypes DEF Event
  <2> HIDE DEF e
  <2>3. n = [r EXCEPT !.turns = @ - 1, !.asks = {}, !.chan = Append(@, e)] /\ \A t \in Session \ {s} : sess'[t] = sess[t]
    BY <2>1 DEF SessionTypeOK
  <2>4. /\ n.turns = r.turns - 1 /\ n.chan = Append(r.chan, e) /\ n.life = r.life /\ n.due = r.due
        /\ n.stale = r.stale /\ n.at = r.at /\ n.ok = r.ok /\ n.mine = r.mine /\ n.saw = r.saw
    BY <1>1, <2>3 DEF SessionRecord
  <2>5. Staged(n) /\ (Works(n) <=> Works(r))
    <3> HIDE DEF r, n
    <3> QED BY <1>0, <1>1, <2>1, <2>2, <2>4, EmitStaged
  <2>6. (\A t \in Session : CalmSession(t)') /\ Working' = Working
    BY <1>2, <2>3, <2>4, <2>5, OneSession
  <2> QED BY <1>3, <2>3, <2>4, <2>6
<1>5. CASE AgentAsks(s)
  <2> DEFINE e == AskEvent(nasks')
  <2>1. r.turns > 0 /\ sess' = [sess EXCEPT ![s].asks = @ \cup {nasks'}, ![s].chan = Append(@, e)]
    BY <1>5 DEF AgentAsks
  <2>2. e \in EventRecord /\ e.kind = "ask"
    <3>1. nasks' \in Approval
      BY <1>5, TurnsAssumption DEF AgentAsks, SessionTypeOK, Approval
    <3> QED BY <3>1, EventTypes DEF AskEvent
  <2> HIDE DEF e
  <2>3. n = [r EXCEPT !.asks = @ \cup {nasks'}, !.chan = Append(@, e)] /\ \A t \in Session \ {s} : sess'[t] = sess[t]
    BY <2>1 DEF SessionTypeOK
  <2>4. /\ n.turns = r.turns /\ n.chan = Append(r.chan, e) /\ n.life = r.life /\ n.due = r.due
        /\ n.stale = r.stale /\ n.at = r.at /\ n.ok = r.ok /\ n.mine = r.mine /\ n.saw = r.saw
    BY <1>1, <2>3 DEF SessionRecord
  <2>5. Staged(n) /\ (Works(n) <=> Works(r))
    <3> HIDE DEF r, n
    <3> QED BY <1>0, <1>1, <2>1, <2>2, <2>4, EmitStaged
  <2>6. (\A t \in Session : CalmSession(t)') /\ Working' = Working
    BY <1>2, <2>3, <2>4, <2>5, OneSession
  <2> QED BY <1>3, <2>3, <2>4, <2>6
<1>6. CASE AgentExits(s)
  <2>1. FALSE
    BY <1>6 DEF AgentExits, Calm
  <2> QED BY <2>1
<1>7. CASE CloseCall(s)
  <2>1. r.due /\ s # cur
    BY <1>1, <1>7 DEF CloseCall
  <2>2. /\ \A t \in Session \ {s} : sess'[t] = sess[t]
        /\ n.life \in {r.life, "closing"} /\ ~n.due /\ n.turns = r.turns /\ n.chan = r.chan
        /\ n.stale = r.stale /\ n.at = r.at /\ n.ok = r.ok /\ n.mine = r.mine /\ n.saw = r.saw
    BY <1>7 DEF CloseCall, SessionTypeOK, SessionRecord
  <2>3. Staged(n) /\ (Works(n) <=> Works(r))
    BY <1>1, <2>2 DEF Staged, Works
  <2>4. ASSUME NEW t \in Session  PROVE CalmSession(t)' /\ (Works(sess'[t]) <=> Works(sess[t]))
    BY <1>2, <2>1, <2>2, <2>3 DEF CalmInv, CalmSession
  <2>5. Working' = Working
    BY <2>4 DEF Working
  <2> QED BY <1>3, <2>2, <2>4, <2>5
<1>8. CASE AgentEnds(s)
  <2> DEFINE e == Event("closed")
  <2>1. /\ r.life = "ended"
        /\ sess' = [sess EXCEPT ![s].life = "told", ![s].turns = 0, ![s].asks = {}, ![s].chan = Append(@, e)]
    BY <1>1, <1>8 DEF AgentEnds, Staged
  <2>2. s # cur /\ ~Works(r)
    BY <1>1, <2>1
  <2>3. e \in EventRecord /\ e.kind = "closed"
    BY EventTypes DEF Event
  <2> HIDE DEF e
  <2>4. n = [r EXCEPT !.life = "told", !.turns = 0, !.asks = {}, !.chan = Append(@, e)] /\ \A t \in Session \ {s} : sess'[t] = sess[t]
    BY <2>1 DEF SessionTypeOK
  <2>5. /\ n.turns = 0 /\ n.chan = Append(r.chan, e) /\ n.life = "told" /\ n.due = r.due
        /\ n.stale = r.stale /\ n.at = r.at /\ n.ok = r.ok /\ n.mine = r.mine /\ n.saw = r.saw
    BY <1>1, <2>4 DEF SessionRecord
  <2>6. Staged(n) /\ (Works(n) <=> Works(r))
    <3> HIDE DEF r, n
    <3> QED BY <1>0, <1>1, <2>2, <2>3, <2>5, EmitStaged
  <2>7. ASSUME NEW t \in Session  PROVE CalmSession(t)' /\ (Works(sess'[t]) <=> Works(sess[t]))
    <3>1. CASE t = s
      BY <1>2, <2>2, <2>5, <2>6, <3>1 DEF CalmInv, CalmSession
    <3>2. CASE t # s
      BY <1>2, <2>4, <3>2 DEF CalmInv, CalmSession
    <3> QED BY <3>1, <3>2
  <2>8. Working' = Working
    BY <2>7 DEF Working
  <2> QED BY <1>3, <2>4, <2>5, <2>7, <2>8
<1>9. CASE AgentReaped(s) \/ AgentStops(s)
  <2>1. r.life \in {"closing", "told"} /\ s # cur
    BY <1>1, <1>9 DEF AgentReaped, AgentStops, Staged
  <2>2. PICK e \in {"ended", "dead"} : sess' = [sess EXCEPT ![s].life = e]
    BY <1>9, <2>1 DEF AgentReaped, AgentStops
  <2>3. /\ \A t \in Session \ {s} : sess'[t] = sess[t]
        /\ n.life = e /\ n.due = r.due /\ n.turns = r.turns /\ n.chan = r.chan
        /\ n.stale = r.stale /\ n.at = r.at /\ n.ok = r.ok /\ n.mine = r.mine /\ n.saw = r.saw
    BY <2>2 DEF SessionTypeOK, SessionRecord
  <2>4. Staged(n) /\ (Works(n) <=> Works(r))
    BY <1>1, <2>3 DEF Staged, Works
  <2>5. ASSUME NEW t \in Session  PROVE CalmSession(t)' /\ (Works(sess'[t]) <=> Works(sess[t]))
    BY <1>2, <2>1, <2>3, <2>4 DEF CalmInv, CalmSession
  <2>6. Working' = Working
    BY <2>5 DEF Working
  <2> QED BY <1>3, <2>3, <2>5, <2>6
<1> QED BY <1>4, <1>5, <1>6, <1>7, <1>8, <1>9 DEF Agent

LEMMA FreeRequestCalm ==
    ASSUME Calm, IInv, CalmInv, FreeRequest
    PROVE  CalmInv'
<1> USE DEF IInv, TypeOK
<1>1. CASE \/ ArchiveRead \/ ArchiveClose \/ ArchiveAppend
           \/ SettingsRead \/ SettingsClose \/ SettingsLive \/ SettingsMark \/ SettingsAppend
           \/ InterruptRead \/ InterruptAppend
  <2>1. FALSE
    BY <1>1 DEF ArchiveRead, ArchiveClose, ArchiveAppend, SettingsRead, SettingsClose, SettingsLive,
                SettingsMark, SettingsAppend, InterruptRead, InterruptAppend, Calm, CalmInv, CalmServer
  <2> QED BY <2>1
<1>2. CASE (\E a \in Approval : ResolveRead(a)) \/ ResolveTell \/ ResolveReadThread \/ ResolveAppend
  <2>1. /\ UNCHANGED <<cur, lock, nsess, app, cutOff, arch, sett, intr>>
        /\ status' \in {status, "running"} /\ pending' \subseteq pending
    BY <1>2 DEF ResolveRead, ResolveTell, ResolveReadThread, ResolveAppend,
                storeVars, threadVars, processVars, agentVars
  <2>2. sess' = sess \/ sess' = [sess EXCEPT ![reso.l].asks = @ \ {reso.ask}]
    BY <1>2 DEF ResolveRead, ResolveTell, ResolveReadThread, ResolveAppend, agentVars
  <2>3. \A t \in Session : Alike(sess[t], sess'[t]) /\ sess'[t].due = sess[t].due
    <3> DEFINE a == reso.ask
               x == reso.l
    <3>1. sess' = sess \/ sess' = [sess EXCEPT ![x].asks = @ \ {a}]
      BY <2>2
    <3> HIDE DEF a, x
    <3>2. CASE sess' = sess
      BY <3>2 DEF Alike
    <3>3. CASE sess' = [sess EXCEPT ![x].asks = @ \ {a}]
      <4>1. ASSUME NEW t \in Session  PROVE Alike(sess[t], sess'[t]) /\ sess'[t].due = sess[t].due
        <5>1. sess[t] \in SessionRecord /\ (t # x => sess'[t] = sess[t])
          BY <3>3 DEF SessionTypeOK
        <5>2. t = x => sess'[t] = [sess[t] EXCEPT !.asks = sess[t].asks \ {a}]
          BY <3>3 DEF SessionTypeOK
        <5> QED BY <5>1, <5>2 DEF Alike, SessionRecord
      <4> QED BY <4>1
    <3> QED BY <3>1, <3>2, <3>3
  <2>4. (\A t \in Session : CalmSession(t)') /\ Working' = Working
    BY <2>1, <2>3, SessionsAlike
  <2>5. lock.own # NoSession => sess'[cur].at = sess[cur].at
    BY <2>3 DEF Alike, ServerTypeOK, CalmInv, TurnLock
  <2>6. Busy => Busy'
    BY <2>1 DEF Busy
  <2>7. TurnLock' /\ AskedByTurn'
    BY <2>1, <2>4, <2>5, <2>6, LockKept
  <2>8. CalmServer'
    BY <2>1 DEF CalmInv, CalmServer
  <2> QED BY <2>1, <2>4, <2>7, <2>8 DEF CalmInv
<1> QED BY <1>1, <1>2 DEF FreeRequest

\* No process ends, so none is recovered.
LEMMA ProcessCalm ==
    ASSUME Calm, IInv, CalmInv
    PROVE  ~Process
<1> USE DEF IInv, TypeOK
<1>1. ~Shutdown
  BY DEF Shutdown, Calm
<1>2. ~Down
  BY DEF Down, Calm, ServerTypeOK
<1>3. ~Crash /\ ~RecoverFails
  BY <1>2 DEF Crash, RecoverFails
<1>4. ~Boot /\ ~RecoverLists /\ ~RecoverSettles /\ ~RecoverQueue /\ ~RecoverNothing /\ ~ResumeNote /\ ~ResumeAcquire
  BY DEF Boot, RecoverLists, RecoverSettles, RecoverQueue, RecoverNothing, ResumeNote, ResumeAcquire, CalmInv, CalmServer
<1> QED BY <1>1, <1>3, <1>4 DEF Process

LEMMA InitCalm == Init => CalmInv
<1> SUFFICES ASSUME Init PROVE CalmInv
  OBVIOUS
<1>1. sess = [t \in Session |-> NotStarted] /\ cur = NoSession /\ nsess = 0 /\ lock = Unlocked /\ pending = {}
  BY DEF Init, ProcessInit
<1>2. Staged(NotStarted) /\ ~Works(NotStarted)
  BY KindsNot DEF Staged, Works, NotStarted
<1>3. \A t \in Session : CalmSession(t) /\ ~Works(sess[t])
  BY <1>1, <1>2 DEF CalmSession, NotStarted, Session, NoSession
<1>4. Working = {}
  BY <1>3 DEF Working
<1>5. TurnLock /\ AskedByTurn
  BY <1>1, <1>4 DEF TurnLock, AskedByTurn, InSend, Unlocked
<1>6. CalmServer
  BY DEF Init, ProcessInit, CalmServer, Unlocked, NoRequest, NoSession
<1> QED BY <1>3, <1>4, <1>5, <1>6 DEF CalmInv

\* Where agents end every turn well, one session at most has a turn, it is the
\* registered one, and the thread is busy until the handoff that follows the turn.
THEOREM CalmInvariance == ASSUME Calm PROVE Spec => []CalmInv
<1>1. Init => CalmInv
  BY InitCalm
<1>2. IInv /\ AgentInv /\ CalmInv /\ [Next]_vars => CalmInv'
  <2> SUFFICES ASSUME IInv, AgentInv, CalmInv, [Next]_vars  PROVE CalmInv'
    OBVIOUS
  <2>1. CASE UNCHANGED vars
    <3>1. UNCHANGED <<cur, lock, nsess, sess, status, pending, app, cutOff, arch, sett, intr>>
      BY <2>1 DEF vars, storeVars, threadVars, processVars, requestVars, agentVars
    <3>2. (\A t \in Session : CalmSession(t)') /\ Working' = Working
      BY <3>1, SessionsAlike DEF Alike
    <3>3. TurnLock' /\ AskedByTurn'
      BY <3>1, <3>2, LockKept DEF Busy
    <3>4. CalmServer'
      BY <3>1 DEF CalmInv, CalmServer
    <3> QED BY <3>1, <3>2, <3>3, <3>4 DEF CalmInv
  <2>2. CASE Next
    BY <2>2, StartOfTurnCalm, HandoffCalm, LockedRequestCalm, PumpCalm, AgentCalm, FreeRequestCalm, ProcessCalm DEF Next
  <2> QED BY <2>1, <2>2
<1> QED BY <1>1, <1>2, Invariance, AgentInvariance, PTL DEF Spec

\* The agent is given one turn at a time, for any number of prompts, sessions
\* and approvals, whatever is compacted, cancelled, reaped and asked meanwhile.
THEOREM OneTurnHolds == ASSUME Calm PROVE Spec => []OneTurn
<1>1. CalmInv => OneTurn
  BY DEF CalmInv, CalmSession, Staged, OneTurn, Open
<1> QED BY <1>1, CalmInvariance, PTL

\* reapIdle never takes the process from under a turn: a session whose Close is
\* due or called is not the registered one, and has none.
THEOREM ReapSparesTurnsHolds == ASSUME Calm PROVE Spec => []ReapSparesTurns
<1>1. CalmInv /\ IInv => ReapSparesTurns
  <2> SUFFICES ASSUME CalmInv, IInv, NEW s \in Session, sess[s].due \/ sess[s].life = "closing"
               PROVE  sess[s].turns = 0
    BY DEF ReapSparesTurns
  <2>1. s # cur
    BY DEF CalmInv, CalmSession
  <2>2. ~(sess[s].turns > 0)
    BY <2>1 DEF CalmInv, Working, Works
  <2> QED BY <2>2 DEF IInv, TypeOK, SessionTypeOK, SessionRecord
<1> QED BY <1>1, CalmInvariance, Invariance, PTL

\* An approval that waits for an answer belongs to the turn there is, whose end
\* denies it.
THEOREM ApprovalHasAgentHolds == ASSUME Calm PROVE Spec => []ApprovalHasAgent
<1>1. CalmInv => ApprovalHasAgent
  <2> SUFFICES ASSUME CalmInv, pending # {}, lock.pc = "free"  PROVE \E s \in Session : EndsTurn(s)
    BY DEF ApprovalHasAgent
  <2>1. PICK s \in Session : Works(sess[s])
    BY DEF CalmInv, AskedByTurn, Working
  <2>2. lock.own = NoSession /\ s # NoSession
    BY DEF CalmInv, TurnLock, InSend, Session, NoSession
  <2>3. EndsTurn(s)
    BY <2>1, <2>2 DEF Works, HasKind, EndsTurn, Settles
  <2> QED BY <2>3
<1> QED BY <1>1, CalmInvariance, PTL

----------------------------------------------------------------------------
(***************************************************************************)
(* Whatever agents and server processes do, a thread that is busy keeps a  *)
(* turn or the end of one on its way, but for a start told after Closed,   *)
(* if only the end of a session takes it out of the registry and nothing   *)
(* is asked.                                                               *)
(***************************************************************************)
Unswept == Ops \subseteq {"compact", "cancel", "interrupt", "fail", "exit", "shutdown"}

\* A channel in which the end of its turn follows each start, and one that tells
\* the end of the session once.
StartsEnd(q) ==
    \A i \in 1..Len(q) :
        q[i].kind = "started" => \E j \in 1..Len(q) : i < j /\ q[j].kind \in {"done", "failed"}
OneClosed(q) ==
    \A i, j \in 1..Len(q) :
        q[i].kind \in {"closed", "died"} /\ q[j].kind \in {"closed", "died"} => i = j

\* Nobody closes the session: it ends by itself, and its pump takes it out of the
\* registry.
Steady(r) ==
    /\ r.life # "closing" /\ ~r.due /\ ~r.stale
    /\ ~HasKind(r.chan, "ask")
    /\ r.at \in {"closed", "write"} => r.mine
    /\ OneClosed(r.chan)
    /\ r.life = "none" => r.turns = 0 /\ r.chan = <<>> /\ r.at = "loop"

\* Its end is still to be read.
Lasts(r) == r.life \notin {"none", "told", "dead"} \/ Ended(r.chan)

\* Send has told the start of a turn and not given it yet.
Gives(t) == lock.pc = "write" /\ lock.l = t

LiveSession(t) ==
    /\ Steady(sess[t])
    /\ Lasts(sess[t]) => t = cur
    /\ sess[t].life = "none" => t # cur
    /\ t > nsess => sess[t].life = "none"
    /\ sess[t].life = "open" => sess[t].turns > 0 \/ StartsEnd(sess[t].chan) \/ Gives(t)

\* The session a turn is started on, or whose turn has ended.
HasSession == lock.pc \in {"enqueue", "begin", "compact"} \/ InSend \/ lock.by = "handoff"

\* A handoff holds promptMu for a session whose turn has ended, and none retires
\* a session.
LiveLock ==
    /\ lock.pc \notin {"retired", "drain"}
    /\ lock.own # NoSession => sess[lock.own].at = "handoff"
    /\ lock.by = "handoff" <=> lock.own # NoSession
    /\ lock.pc \in {"settle", "settled"} => lock.by = "handoff"
    /\ lock.by = "handoff" => lock.pc \in {"settle", "settled", "begin"} \/ InSend
    /\ HasSession => lock.l # NoSession /\ sess[lock.l].life # "none"
    /\ lock.by = "recover" => lock.pc \in {"session", "start", "begin"} \/ InSend

NoRequests == arch.pc = "none" /\ sett.pc = "none" /\ reso.pc = "none"

Live == app \in {"recovering", "up"}

LiveInv == NoRequests /\ LiveLock /\ \A t \in Session : LiveSession(t)

\* Recover runs before the server serves, and a process that has ended left
\* nothing.
Recovers ==
    /\ lock.by = "recover" => app = "recovering"
    /\ lock.pc = "free" => lock.by = "none"

Fresh ==
    /\ cur = NoSession /\ lock = Unlocked /\ sess = [t \in Session |-> NotStarted]
    /\ NoRequests /\ cutOff = "no"

CauseInv == pending = {} /\ Recovers /\ (app = "down" => Fresh) /\ (Live => LiveInv)

\* What a step does for the cause of a busy thread.
CauseStays == BusyHasCause => BusyHasCause' \/ LateStart

----------------------------------------------------------------------------
\* The end of a turn of the session with record r is on its way; reg: it is
\* registered, own: promptMu is held for its handoff.
Ending(r, reg, own) ==
    \/ r.turns > 0
    \/ r.at = "handoff" /\ ~own
    \/ r.at = "closed" /\ (r.mine \/ ~r.ok)
    \/ r.at = "write" /\ (~r.ok \/ r.saw = "error" \/ (r.mine /\ r.saw # "idle"))
    \/ HasKind(r.chan, "done") \/ HasKind(r.chan, "failed") \/ HasKind(r.chan, "died")
    \/ reg /\ HasKind(r.chan, "closed")
    \/ reg /\ r.life \in {"gone", "ended", "failed"}

LEMMA EndsTurnIs ==
    ASSUME NEW s \in Session
    PROVE  /\ EndsTurn(s) <=> Ending(sess[s], s = cur, lock.own = s)
           /\ EndsTurn(s)' <=> Ending(sess'[s], s = cur', lock'.own = s)
<1>1. EndsTurn(s) <=> Ending(sess[s], s = cur, lock.own = s)
  BY DEF EndsTurn, Settles, Ending, HasKind
<1>2. EndsTurn(s)' <=> Ending(sess'[s], s = cur', lock'.own = s)
  BY DEF EndsTurn, Settles, Ending, HasKind
<1> QED BY <1>1, <1>2

LEMMA EndedIs ==
    ASSUME NEW q
    PROVE  Ended(q) <=> HasKind(q, "closed") \/ HasKind(q, "died")
BY DEF Ended, HasKind

\* What is emitted and read of starts and ends.
LEMMA EndAppend ==
    ASSUME NEW q \in Seq(EventRecord), NEW e \in EventRecord
    PROVE  /\ e.kind \in {"done", "failed"} => StartsEnd(Append(q, e))
           /\ OneClosed(q) /\ (e.kind \in {"closed", "died"} => ~Ended(q)) => OneClosed(Append(q, e))
<1> DEFINE p == Append(q, e)
<1>1. Len(q) \in Nat /\ Len(p) = Len(q) + 1 /\ p[Len(q) + 1] = e /\ \A i \in 1..Len(q) : p[i] = q[i]
  OBVIOUS
<1> HIDE DEF p
<1>2. ASSUME e.kind \in {"done", "failed"}  PROVE StartsEnd(p)
  <2> SUFFICES ASSUME NEW i \in 1..Len(p), p[i].kind = "started"
               PROVE  \E j \in 1..Len(p) : i < j /\ p[j].kind \in {"done", "failed"}
    BY DEF StartsEnd
  <2>1. i # Len(q) + 1
    BY <1>1, <1>2
  <2>2. Len(q) + 1 \in 1..Len(p) /\ i < Len(q) + 1
    BY <1>1, <2>1
  <2> QED BY <1>1, <1>2, <2>2
<1>3. ASSUME OneClosed(q), e.kind \in {"closed", "died"} => ~Ended(q)  PROVE OneClosed(p)
  <2> SUFFICES ASSUME NEW i \in 1..Len(p), NEW j \in 1..Len(p), i # j,
                      p[i].kind \in {"closed", "died"}, p[j].kind \in {"closed", "died"}
               PROVE  FALSE
    BY DEF OneClosed
  <2>1. CASE i \in 1..Len(q) /\ j \in 1..Len(q)
    BY <1>1, <1>3, <2>1 DEF OneClosed
  <2>2. CASE i \notin 1..Len(q) \/ j \notin 1..Len(q)
    <3>1. e.kind \in {"closed", "died"} /\ (i \in 1..Len(q) \/ j \in 1..Len(q))
      BY <1>1, <2>2
    <3> QED BY <1>1, <1>3, <3>1 DEF Ended
  <2> QED BY <2>1, <2>2
<1> QED BY <1>2, <1>3 DEF p

LEMMA EndTail ==
    ASSUME NEW q \in Seq(EventRecord), q # <<>>
    PROVE  /\ StartsEnd(q) => StartsEnd(Tail(q))
           /\ StartsEnd(q) /\ Head(q).kind = "started" => HasKind(Tail(q), "done") \/ HasKind(Tail(q), "failed")
           /\ OneClosed(q) => OneClosed(Tail(q)) /\ (Head(q).kind \in {"closed", "died"} => ~Ended(Tail(q)))
<1> DEFINE p == Tail(q)
<1>1. /\ Len(q) \in Nat /\ Len(p) = Len(q) - 1 /\ Len(q) >= 1 /\ Head(q) = q[1]
      /\ \A i \in 1..Len(p) : i + 1 \in 1..Len(q) /\ p[i] = q[i + 1]
      /\ \A i \in 1..Len(q) : i > 1 => i - 1 \in 1..Len(p) /\ p[i - 1] = q[i]
  OBVIOUS
<1> HIDE DEF p
<1>2. ASSUME StartsEnd(q), NEW i \in 1..Len(p), p[i].kind = "started"
      PROVE  \E j \in 1..Len(p) : i < j /\ p[j].kind \in {"done", "failed"}
  <2>1. PICK j \in 1..Len(q) : i + 1 < j /\ q[j].kind \in {"done", "failed"}
    BY <1>1, <1>2 DEF StartsEnd
  <2>2. j - 1 \in 1..Len(p) /\ i < j - 1 /\ p[j - 1] = q[j]
    BY <1>1, <2>1
  <2> QED BY <2>1, <2>2
<1>3. ASSUME StartsEnd(q), Head(q).kind = "started"  PROVE HasKind(p, "done") \/ HasKind(p, "failed")
  <2>1. 1 \in 1..Len(q) /\ q[1].kind = "started"
    BY <1>1, <1>3
  <2>2. PICK j \in 1..Len(q) : 1 < j /\ q[j].kind \in {"done", "failed"}
    BY <1>3, <2>1 DEF StartsEnd
  <2>3. j - 1 \in 1..Len(p) /\ p[j - 1] = q[j]
    BY <1>1, <2>2
  <2> QED BY <2>2, <2>3 DEF HasKind
<1>4. ASSUME OneClosed(q), NEW i \in 1..Len(p), NEW j \in 1..Len(p),
             p[i].kind \in {"closed", "died"}, p[j].kind \in {"closed", "died"}
      PROVE  i = j
  <2>1. i + 1 = j + 1
    BY <1>1, <1>4 DEF OneClosed
  <2> QED BY <2>1
<1>5. ASSUME OneClosed(q), Head(q).kind \in {"closed", "died"}, Ended(p)  PROVE FALSE
  <2>1. PICK i \in 1..Len(p) : p[i].kind \in {"closed", "died"}
    BY <1>5 DEF Ended
  <2>2. 1 \in 1..Len(q) /\ i + 1 = 1
    BY <1>1, <1>5, <2>1 DEF OneClosed
  <2> QED BY <2>2
<1> QED BY <1>2, <1>3, <1>4, <1>5 DEF p, StartsEnd, OneClosed

LEMMA EndsNot == \A q \in {<<>>, <<Event("info")>>} : StartsEnd(q) /\ OneClosed(q)
BY DEF StartsEnd, OneClosed, Event

\* A record that a step leaves as it is, but for a handoff that ends.
Near(r, n) ==
    /\ n.life = r.life /\ n.due = r.due /\ n.stale = r.stale /\ n.chan = r.chan /\ n.turns = r.turns
    /\ n.at \in {r.at, "loop"} /\ n.ok = r.ok /\ n.mine = r.mine /\ n.saw = r.saw

\* An event read by the pump of a steady session, and one emitted by its agent
\* or by Send.
LEMMA ReadSteady ==
    ASSUME NEW r \in SessionRecord, NEW n \in SessionRecord, Steady(r), r.chan # <<>>,
           n.chan = Tail(r.chan), n.life = r.life, n.due = r.due, n.stale = r.stale, n.turns = r.turns,
           n.at \in {"closed", "write"} => n.mine
    PROVE  /\ Steady(n) /\ n.life # "none" /\ (Lasts(n) => Lasts(r))
           /\ StartsEnd(r.chan) => StartsEnd(n.chan)
<1>1. r.chan \in Seq(EventRecord)
  BY DEF SessionRecord
<1>2. \A k : HasKind(n.chan, k) => HasKind(r.chan, k)
  BY <1>1, KindTail
<1>3. OneClosed(n.chan) /\ (StartsEnd(r.chan) => StartsEnd(n.chan))
  BY <1>1, EndTail DEF Steady
<1>4. Ended(n.chan) => Ended(r.chan)
  BY <1>1, EndedTail
<1> QED BY <1>2, <1>3, <1>4 DEF Steady, Lasts

LEMMA EmitSteady ==
    ASSUME NEW r \in SessionRecord, NEW n \in SessionRecord, Steady(r), NEW e \in EventRecord,
           e.kind # "ask", e.kind \in {"closed", "died"} => ~Ended(r.chan),
           n.life \notin {"none", "closing"}, r.life # "none",
           n.chan = Append(r.chan, e), n.due = r.due, n.stale = r.stale,
           n.at \in {r.at, "loop"}, n.mine = r.mine
    PROVE  Steady(n)
<1>1. r.chan \in Seq(EventRecord)
  BY DEF SessionRecord
<1>2. \A k : HasKind(n.chan, k) <=> HasKind(r.chan, k) \/ e.kind = k
  BY <1>1, KindAppend
<1>3. OneClosed(n.chan)
  BY <1>1, EndAppend DEF Steady
<1> QED BY <1>2, <1>3 DEF Steady

----------------------------------------------------------------------------
\* What every step does to promptMu and the phase of the server, but for the
\* end of the process and its recovery.
Frame ==
    /\ \/ lock' = lock
       \/ lock' = Unlocked
       \/ lock'.by = lock.by /\ lock.pc # "free" /\ lock'.pc # "free"
       \/ lock.pc = "free" /\ lock'.pc # "free" /\ lock'.by # "recover"
    /\ app' = app \/ (lock.by = "recover" /\ lock' = Unlocked /\ app' = "up")

LEMMA NextFrame ==
    ASSUME IInv, Next, ~Process
    PROVE  Frame
<1> USE DEF IInv, TypeOK
<1>1. CASE StartOfTurn
  <2>1. CASE ReuseSession \/ StartSession
    BY <2>1 DEF ReuseSession, StartSession, Ready, At, Frame, processVars, ServerTypeOK, LockRecord
  <2>2. CASE RetireStale \/ NoneRegistered \/ Enqueue \/ Begin \/ BeginCompact \/ HandFindsAlive \/ HandTells
    BY <2>2 DEF RetireStale, NoneRegistered, Enqueue, Begin, BeginCompact, HandFindsAlive, HandTells, Goto, At, Frame, processVars, ServerTypeOK, LockRecord
  <2>3. CASE StartFails \/ HandWrites \/ HandFails
    BY <2>3 DEF StartFails, HandWrites, HandFails, Unlock, Frame
  <2> QED BY <1>1, <2>1, <2>2, <2>3 DEF StartOfTurn
<1>2. CASE Handoff
  <2>1. CASE Settle \/ HandoffRetire \/ HandoffNext
    BY <2>1 DEF Settle, HandoffRetire, HandoffNext, Goto, At, Frame, processVars, ServerTypeOK, LockRecord
  <2>2. CASE HandoffDone
    BY <2>2 DEF HandoffDone, Unlock, Frame
  <2> QED BY <1>2, <2>1, <2>2 DEF Handoff
<1>3. CASE LockedRequest
  <2>1. CASE SendPrompt \/ CompactContext
    BY <2>1 DEF SendPrompt, CompactContext, Acquire, At, Unlocked, Frame, processVars
  <2>2. CASE QueuePrompt
    BY <2>2 DEF QueuePrompt, Unlock, Frame
  <2>3. CASE ReapIdle \/ \E p \in Prompt : CancelQueuedPrompt(p)
    BY <2>3 DEF ReapIdle, CancelQueuedPrompt, Frame, processVars
  <2> QED BY <1>3, <2>1, <2>2, <2>3 DEF LockedRequest
<1>4. CASE FreeRequest
  <2>1. CASE ArchiveRead \/ ArchiveClose \/ ArchiveAppend \/ InterruptRead \/ InterruptAppend
    BY <2>1 DEF ArchiveRead, ArchiveClose, ArchiveAppend, InterruptRead, InterruptAppend, Frame, processVars
  <2>2. CASE SettingsRead \/ SettingsClose \/ SettingsLive \/ SettingsMark \/ SettingsAppend
    BY <2>2 DEF SettingsRead, SettingsClose, SettingsLive, SettingsMark, SettingsAppend, Frame, processVars
  <2>3. CASE ResolveTell \/ ResolveReadThread \/ ResolveAppend
    BY <2>3 DEF ResolveTell, ResolveReadThread, ResolveAppend, Frame, processVars
  <2>4. ASSUME NEW a \in Approval, ResolveRead(a)  PROVE Frame
    BY <2>4 DEF ResolveRead, Frame, processVars
  <2> QED BY <1>4, <2>1, <2>2, <2>3, <2>4 DEF FreeRequest
<1>5. ASSUME NEW s \in Session, Pump(s)  PROVE Frame
  <2>1. CASE HandoffAcquire(s)
    BY <2>1 DEF HandoffAcquire, At, Unlocked, Frame, processVars
  <2>2. CASE ~HandoffAcquire(s)
    BY <1>5, <2>2 DEF Pump, PumpDrops, PumpInfo, PumpStarted, PumpAsk, PumpAutoResolve, PumpCompleted,
                      PumpClosed, PumpClosedRead, PumpClosedWrite, Frame, processVars
  <2> QED BY <2>1, <2>2
<1>6. ASSUME NEW s \in Session, Agent(s)  PROVE Frame
  BY <1>6 DEF Agent, AgentCompletes, AgentAsks, AgentExits, CloseCall, AgentReaped, AgentEnds, AgentStops, Frame, processVars
<1> QED BY <1>1, <1>2, <1>3, <1>4, <1>5, <1>6 DEF Next

\* Only the pump of a session that asks makes an approval wait.
LEMMA NextPending ==
    ASSUME Next, \A s \in Session : ~PumpAsk(s)
    PROVE  pending' \subseteq pending
<1>1. CASE StartOfTurn
  BY <1>1 DEF StartOfTurn, ReuseSession, RetireStale, NoneRegistered, StartSession, StartFails, Enqueue, Begin,
              BeginCompact, HandFindsAlive, HandTells, HandWrites, HandFails, storeVars, threadVars
<1>2. CASE Handoff
  BY <1>2 DEF Handoff, Settle, HandoffRetire, HandoffNext, HandoffDone, storeVars, threadVars
<1>3. CASE LockedRequest
  BY <1>3 DEF LockedRequest, SendPrompt, QueuePrompt, CompactContext, ReapIdle, CancelQueuedPrompt, storeVars, threadVars
<1>4. CASE FreeRequest
  <2>1. CASE ArchiveRead \/ ArchiveClose \/ ArchiveAppend \/ InterruptRead \/ InterruptAppend
    BY <2>1 DEF ArchiveRead, ArchiveClose, ArchiveAppend, InterruptRead, InterruptAppend, storeVars, threadVars
  <2>2. CASE SettingsRead \/ SettingsClose \/ SettingsLive \/ SettingsMark \/ SettingsAppend
    BY <2>2 DEF SettingsRead, SettingsClose, SettingsLive, SettingsMark, SettingsAppend, storeVars, threadVars
  <2>3. CASE ResolveTell \/ ResolveReadThread \/ ResolveAppend
    BY <2>3 DEF ResolveTell, ResolveReadThread, ResolveAppend, storeVars, threadVars
  <2>4. ASSUME NEW a \in Approval, ResolveRead(a)  PROVE pending' \subseteq pending
    BY <2>4 DEF ResolveRead, storeVars, threadVars
  <2> QED BY <1>4, <2>1, <2>2, <2>3, <2>4 DEF FreeRequest
<1>5. CASE Process
  BY <1>5 DEF Process, Shutdown, Crash, Boot, RecoverFails, RecoverLists, RecoverSettles, RecoverQueue,
              RecoverNothing, ResumeNote, ResumeAcquire, storeVars, threadVars
<1>6. ASSUME NEW s \in Session, Pump(s), ~PumpAsk(s)  PROVE pending' \subseteq pending
  BY <1>6 DEF Pump, PumpDrops, PumpInfo, PumpStarted, PumpAutoResolve, PumpCompleted, HandoffAcquire,
              PumpClosed, PumpClosedRead, PumpClosedWrite, storeVars, threadVars
<1>7. ASSUME NEW s \in Session, Agent(s)  PROVE pending' \subseteq pending
  BY <1>7 DEF Agent, AgentCompletes, AgentAsks, AgentExits, CloseCall, AgentReaped, AgentEnds, AgentStops, storeVars, threadVars
<1> QED BY <1>1, <1>2, <1>3, <1>4, <1>5, <1>6, <1>7 DEF Next

LEMMA FrameKeeps ==
    ASSUME Recovers, Frame
    PROVE  Recovers'
BY DEF Recovers, Frame, Unlocked

\* A process that has ended does nothing: its next step is the next start.
LEMMA DownStep ==
    ASSUME Fresh, app = "down", Next, ~Boot
    PROVE  app' = "down" /\ Fresh'
<1>1. \A s \in Session : sess[s] = NotStarted
  BY DEF Fresh
<1>2. ~StartOfTurn
  BY DEF StartOfTurn, ReuseSession, RetireStale, NoneRegistered, StartSession, StartFails, Enqueue, Begin,
         BeginCompact, HandFindsAlive, HandTells, HandWrites, HandFails, Refused, At, Fresh, Unlocked
<1>3. ~Handoff
  BY DEF Handoff, Settle, HandoffRetire, HandoffNext, HandoffDone, At, Fresh, Unlocked
<1>4. ~LockedRequest
  BY DEF LockedRequest, SendPrompt, QueuePrompt, CompactContext, ReapIdle, CancelQueuedPrompt, Serving, At, Fresh, Unlocked
<1>5. FreeRequest => app' = "down" /\ Fresh'
  BY DEF FreeRequest, ArchiveRead, ArchiveClose, ArchiveAppend, SettingsRead, SettingsClose, SettingsLive,
         SettingsMark, SettingsAppend, InterruptRead, InterruptAppend, ResolveRead, ResolveTell,
         ResolveReadThread, ResolveAppend, Serving, Fresh, NoRequests, processVars, agentVars
<1>6. ~Process
  BY DEF Process, Shutdown, Crash, RecoverFails, Refused, RecoverLists, RecoverSettles, RecoverQueue,
         RecoverNothing, ResumeNote, ResumeAcquire, Fresh, Unlocked, Acquire, At
<1>7. ASSUME NEW s \in Session  PROVE ~Pump(s)
  BY <1>1 DEF Pump, PumpDrops, PumpInfo, PumpStarted, PumpAsk, PumpAutoResolve, PumpCompleted, HandoffAcquire,
              PumpClosed, PumpClosedRead, PumpClosedWrite, Reads, NotStarted
<1>8. ASSUME NEW s \in Session  PROVE ~Agent(s)
  BY <1>1, TurnsAssumption DEF Agent, AgentCompletes, AgentAsks, AgentExits, CloseCall, AgentReaped, AgentEnds, AgentStops, AgentAlive, NotStarted
<1> QED BY <1>2, <1>3, <1>4, <1>5, <1>6, <1>7, <1>8 DEF Next

----------------------------------------------------------------------------
\* A step that leaves the sessions near: what is live stays so, and so does what
\* ends a turn.
LEMMA SessionsNear ==
    ASSUME \A t \in Session : LiveSession(t), UNCHANGED <<cur, nsess>>,
           \A t \in Session : Near(sess[t], sess'[t]),
           \A t \in Session : Gives(t) => Gives(t)' \/ sess[t].life # "open"
    PROVE  \A t \in Session : LiveSession(t)'
<1> SUFFICES ASSUME NEW t \in Session  PROVE LiveSession(t)'
  OBVIOUS
<1>1. LiveSession(t) /\ Near(sess[t], sess'[t]) /\ (Gives(t) => Gives(t)' \/ sess[t].life # "open")
  OBVIOUS
<1>2. Steady(sess'[t])
  BY <1>1 DEF LiveSession, Near, Steady
<1>3. (Lasts(sess'[t]) <=> Lasts(sess[t])) /\ (StartsEnd(sess'[t].chan) <=> StartsEnd(sess[t].chan))
  BY <1>1 DEF Near, Lasts
<1> QED BY <1>1, <1>2, <1>3 DEF LiveSession, Near

LEMMA EndsNear ==
    ASSUME LiveLock, UNCHANGED cur, lock'.own \in {lock.own, NoSession},
           \A t \in Session : Near(sess[t], sess'[t]) /\ (sess'[t].at = sess[t].at \/ t = lock.own)
    PROVE  \A t \in Session : EndsTurn(t) => EndsTurn(t)'
<1> SUFFICES ASSUME NEW t \in Session, Ending(sess[t], t = cur, lock.own = t)
             PROVE  Ending(sess'[t], t = cur', lock'.own = t)
  BY EndsTurnIs
<1>1. t # NoSession /\ Near(sess[t], sess'[t])
  BY DEF Session, NoSession
<1>2. CASE lock.own = t
  <2>1. sess[t].at = "handoff"
    BY <1>1, <1>2 DEF LiveLock
  <2> QED BY <1>1, <1>2, <2>1 DEF Ending, Near
<1>3. CASE lock.own # t
  BY <1>1, <1>3 DEF Ending, Near
<1> QED BY <1>2, <1>3

\* A step of one session.
LEMMA OneLive ==
    ASSUME \A t \in Session : LiveSession(t), UNCHANGED <<cur, nsess, lock>>, NEW s \in Session,
           \A t \in Session \ {s} : sess'[t] = sess[t], LiveSession(s)'
    PROVE  \A t \in Session : LiveSession(t)'
BY DEF LiveSession, Gives

LEMMA OneEnds ==
    ASSUME UNCHANGED <<cur, lock>>, NEW s \in Session,
           \A t \in Session \ {s} : sess'[t] = sess[t], EndsTurn(s) => EndsTurn(s)'
    PROVE  \A t \in Session : EndsTurn(t) => EndsTurn(t)'
<1> SUFFICES ASSUME NEW t \in Session, t # s, EndsTurn(t)  PROVE EndsTurn(t)'
  OBVIOUS
<1>1. Ending(sess[t], t = cur, lock.own = t)
  BY EndsTurnIs
<1>2. Ending(sess'[t], t = cur', lock'.own = t)
  BY <1>1
<1> QED BY <1>2, EndsTurnIs

\* Who does not write a busy status leaves the cause of one.
LEMMA CauseKept ==
    ASSUME UNCHANGED app, cutOff = "listed" => cutOff' = "listed", Busy' => Busy, LockEnds => LockEnds',
           \A t \in Session : EndsTurn(t) => EndsTurn(t)'
    PROVE  CauseStays
BY DEF CauseStays, BusyHasCause

\* A step that leaves a cause, or a thread that is not busy.
LEMMA CauseGiven ==
    ASSUME LockEnds' \/ ~Busy' \/ app' # "up" \/ cutOff' = "listed" \/ \E t \in Session : EndsTurn(t)'
    PROVE  CauseStays
BY DEF CauseStays, BusyHasCause

LEMMA LiveLockKept ==
    ASSUME LiveLock, UNCHANGED lock, ServerTypeOK,
           \A t \in Session : /\ sess[t].life # "none" => sess'[t].life # "none"
                              /\ lock.own = t => sess'[t].at = sess[t].at
    PROVE  LiveLock'
<1>1. lock.l \in {NoSession} \cup Session /\ lock.own \in {NoSession} \cup Session
  BY DEF ServerTypeOK, LockRecord
<1>2. HasSession' <=> HasSession
  BY DEF HasSession, InSend
<1>3. HasSession => sess'[lock.l].life # "none"
  BY <1>1 DEF LiveLock
<1>4. lock.own # NoSession => sess'[lock.own].at = "handoff"
  BY <1>1 DEF LiveLock
<1> QED BY <1>2, <1>3, <1>4 DEF LiveLock, InSend

\* The end of an operation that holds promptMu.
LEMMA UnlockLive ==
    ASSUME ServerTypeOK, SessionTypeOK, NEW f \in [Session -> SessionRecord], Unlock(f)
    PROVE  /\ lock' = Unlocked /\ LiveLock' /\ sess' \in [Session -> SessionRecord]
           /\ \A t \in Session : /\ Near(f[t], sess'[t])
                                 /\ sess'[t].at = IF t = lock.own THEN "loop" ELSE f[t].at
           /\ lock.by # "recover" => app' = app
<1>1. lock' = Unlocked /\ (lock.by # "recover" => app' = app)
  BY DEF Unlock
<1>2. LiveLock'
  BY <1>1 DEF LiveLock, Unlocked, HasSession, InSend
<1>3. ASSUME NEW t \in Session
      PROVE  Near(f[t], sess'[t]) /\ sess'[t].at = IF t = lock.own THEN "loop" ELSE f[t].at
  BY DEF Unlock, Near, SessionRecord, Session, NoSession
<1>4. sess' \in [Session -> SessionRecord]
  BY SessionFields DEF Unlock
<1> QED BY <1>1, <1>2, <1>3, <1>4

----------------------------------------------------------------------------
\* Each group of actions keeps the cause of a busy thread.
LEMMA StartOfTurnLive ==
    ASSUME IInv, AgentInv, Recovers, LiveInv, StartOfTurn
    PROVE  LiveInv' /\ CauseStays
<1> USE DEF IInv, TypeOK
<1>0. NoRequests' /\ LiveLock /\ \A t \in Session : LiveSession(t)
  BY DEF StartOfTurn, ReuseSession, RetireStale, NoneRegistered, StartSession, StartFails, Enqueue, Begin,
         BeginCompact, HandFindsAlive, HandTells, HandWrites, HandFails, requestVars, NoRequests, LiveInv
<1>1. CASE ReuseSession \/ NoneRegistered
  <2>1. UNCHANGED <<cur, nsess, sess, status, app, cutOff>>
    BY <1>1 DEF ReuseSession, NoneRegistered, storeVars, processVars, agentVars
  <2>2. lock.pc = "session" /\ lock.by # "handoff" /\ lock.own = NoSession
    BY <1>0, <1>1 DEF ReuseSession, NoneRegistered, At, LiveLock, InSend
  <2>3. /\ lock'.own = lock.own /\ lock'.by = lock.by
        /\ lock'.pc \in {"start", "enqueue", "begin", "compact"}
        /\ lock'.pc # "start" => lock'.l = cur /\ cur # NoSession
        /\ lock.by = "recover" => lock'.pc \in {"start", "begin"}
    BY <1>1, <2>2 DEF ReuseSession, NoneRegistered, Goto, Ready, ServerTypeOK, LockRecord
  <2>4. cur # NoSession => sess[cur].life # "none"
    BY <1>0 DEF LiveSession, ServerTypeOK
  <2>5. LiveLock'
    BY <2>1, <2>2, <2>3, <2>4 DEF LiveLock, HasSession, InSend
  <2>6. \A t \in Session : LiveSession(t)'
    BY <1>0, <2>1, <2>2, SessionsNear DEF Near, Gives
  <2>7. \A t \in Session : EndsTurn(t) => EndsTurn(t)'
    BY <1>0, <2>1, <2>3, EndsNear DEF Near
  <2>8. CauseStays
    BY <2>1, <2>2, <2>7, CauseKept DEF LockEnds, Busy
  <2> QED BY <1>0, <2>5, <2>6, <2>8 DEF LiveInv
<1>2. CASE RetireStale
  BY <1>0, <1>2 DEF RetireStale, LiveSession, Steady, ServerTypeOK
<1>3. CASE StartSession
  <2> DEFINE s == nsess + 1
             r == sess[s]
             n == sess'[s]
  <2>1. s \in Session /\ s # NoSession /\ cur = NoSession /\ cur' = s /\ nsess' = s
    BY <1>3, TurnsAssumption DEF StartSession, At, AgentInv, NoneWhileStarting, SessionTypeOK, Session, NoSession
  <2>2. UNCHANGED <<status, app, cutOff>>
    BY <1>3 DEF StartSession, storeVars, processVars
  <2>3. lock.pc = "start" /\ lock.by # "handoff" /\ lock.own = NoSession
    BY <1>0, <1>3 DEF StartSession, At, LiveLock, InSend
  <2>4. /\ \A t \in Session \ {s} : sess'[t] = sess[t]
        /\ n.life = "open" /\ n.chan = <<Event("info")>> /\ n.due = r.due /\ n.stale = r.stale /\ n.turns = r.turns
        /\ n.at = r.at /\ n.ok = r.ok /\ n.mine = r.mine /\ n.saw = r.saw
    BY <1>3, <2>1 DEF StartSession, SessionTypeOK, SessionRecord
  <2>5. r.life = "none" /\ Steady(r) /\ r.turns = 0 /\ r.chan = <<>> /\ r.at = "loop"
    <3>1. s > nsess
      BY <2>1 DEF SessionTypeOK
    <3> QED BY <1>0, <2>1, <3>1 DEF LiveSession, Steady
  <2>6. Steady(n) /\ StartsEnd(n.chan)
    BY <2>4, <2>5, KindsNot, EndsNot DEF Steady
  <2>7. ASSUME NEW t \in Session  PROVE LiveSession(t)'
    <3>1. CASE t = s
      BY <2>1, <2>4, <2>6, <3>1 DEF LiveSession
    <3>2. CASE t # s
      <4>1. LiveSession(t) /\ t # NoSession /\ sess'[t] = sess[t] /\ (t > nsess' => t > nsess)
        BY <1>0, <2>1, <2>4, <3>2 DEF Session, NoSession, SessionTypeOK
      <4>2. ~Lasts(sess[t]) /\ sess[t].life # "open"
        BY <2>1, <4>1 DEF LiveSession, Lasts
      <4> QED BY <2>1, <3>2, <4>1, <4>2 DEF LiveSession
    <3> QED BY <3>1, <3>2
  <2>8. /\ lock'.own = lock.own /\ lock'.by = lock.by
        /\ lock'.pc \in {"enqueue", "begin", "compact"} /\ lock'.l = s
        /\ lock.by = "recover" => lock'.pc = "begin"
    BY <1>3 DEF StartSession, Ready, ServerTypeOK, LockRecord
  <2>9. LiveLock'
    BY <2>1, <2>3, <2>4, <2>8 DEF LiveLock, HasSession, InSend
  <2>10. ASSUME NEW t \in Session, EndsTurn(t)  PROVE EndsTurn(t)'
    <3>1. Ending(sess[t], t = cur, lock.own = t)
      BY <2>10, EndsTurnIs
    <3>2. t # NoSession
      BY DEF Session, NoSession
    <3>3. t # s
      BY <2>1, <2>5, <3>1, <3>2, KindsNot DEF Ending
    <3>4. Ending(sess'[t], t = cur', lock'.own = t)
      BY <2>1, <2>3, <2>4, <2>8, <3>1, <3>2, <3>3 DEF Ending
    <3> QED BY <3>4, EndsTurnIs
  <2>11. CauseStays
    BY <2>2, <2>3, <2>10, CauseKept DEF LockEnds, Busy
  <2> QED BY <1>0, <2>7, <2>9, <2>11 DEF LiveInv
<1>4. CASE StartFails
  <2>1. lock.pc = "start" /\ lock.by # "handoff" /\ lock.by # "recover" /\ lock.own = NoSession /\ Unlock(sess)
    BY <1>0, <1>4 DEF StartFails, At, LiveLock, InSend
  <2>2. UNCHANGED <<cur, nsess, status, app, cutOff, sess>> /\ lock' = Unlocked
    BY <1>4, <2>1 DEF StartFails, Unlock
  <2>3. LiveLock'
    BY <2>1, UnlockLive DEF SessionTypeOK
  <2>4. \A t \in Session : LiveSession(t)'
    BY <1>0, <2>1, <2>2, SessionsNear DEF Near, Gives
  <2>5. \A t \in Session : EndsTurn(t) => EndsTurn(t)'
    BY <1>0, <2>1, <2>2, EndsNear DEF Near, Unlocked
  <2>6. CauseStays
    BY <2>1, <2>2, <2>5, CauseKept DEF LockEnds, Busy
  <2> QED BY <1>0, <2>3, <2>4, <2>6 DEF LiveInv
<1>5. CASE Enqueue \/ Begin \/ BeginCompact \/ HandFindsAlive
  <2>1. UNCHANGED <<cur, nsess, app, cutOff>>
    BY <1>5 DEF Enqueue, Begin, BeginCompact, HandFindsAlive, processVars, agentVars
  <2>2. \A t \in Session : Near(sess[t], sess'[t]) /\ sess'[t].at = sess[t].at
    BY <1>5 DEF Enqueue, Begin, BeginCompact, HandFindsAlive, agentVars, Near, SessionTypeOK, SessionRecord
  <2>3. /\ lock'.own = lock.own /\ lock'.by = lock.by /\ lock'.l = lock.l
        /\ lock'.pc \in {"begin", "hand", "tell"} /\ lock.pc \in {"enqueue", "begin", "compact", "hand"}
        /\ lock.pc = "enqueue" => lock.by = "send"
    BY <1>5 DEF Enqueue, Begin, BeginCompact, HandFindsAlive, Goto, At, ServerTypeOK, LockRecord, LockInv, QueueHeld
  <2>4. \A t \in Session : LiveSession(t)'
    BY <1>0, <2>1, <2>2, <2>3, SessionsNear DEF Gives
  <2>5. LiveLock'
    <3>1. lock.l \in Session /\ sess[lock.l].life # "none"
      BY <1>0, <2>3 DEF LiveLock, HasSession, InSend, ServerTypeOK, LockRecord
    <3>2. sess'[lock.l].life # "none"
      BY <2>2, <3>1 DEF Near
    <3>3. lock.own # NoSession => sess'[lock.own].at = "handoff"
      BY <1>0, <2>2 DEF LiveLock, ServerTypeOK, LockRecord
    <3> QED BY <1>0, <2>3, <3>1, <3>2, <3>3 DEF LiveLock, HasSession, InSend, NoSession, Session
  <2>6. CauseStays
    BY <2>3, CauseGiven DEF LockEnds
  <2> QED BY <1>0, <2>4, <2>5, <2>6 DEF LiveInv
<1>6. CASE HandTells
  <2> DEFINE s == lock.l
             r == sess[s]
             n == sess'[s]
  <2>1. UNCHANGED <<cur, nsess>> /\ lock.pc = "tell" /\ r.life # "dead"
    BY <1>6 DEF HandTells, At
  <2>2. s \in Session /\ r.life # "none" /\ s # NoSession
    BY <1>0, <2>1 DEF LiveLock, HasSession, InSend, ServerTypeOK, LockRecord
  <2>3. lock'.own = lock.own /\ lock'.by = lock.by /\ lock'.l = s /\ lock'.pc = "write"
    BY <1>6 DEF HandTells, Goto, ServerTypeOK, LockRecord
  <2>4. sess' \in [Session -> SessionRecord] /\ r \in SessionRecord
    BY <1>6, <2>2, SendTypes DEF HandTells, SessionTypeOK
  <2>5. /\ \A t \in Session \ {s} : sess'[t] = sess[t]
        /\ n.chan = Append(r.chan, Event("started")) /\ n.life = r.life /\ n.due = r.due /\ n.stale = r.stale
        /\ n.turns = r.turns /\ n.at = r.at /\ n.mine = r.mine
    BY <1>6, <2>2 DEF HandTells, SessionTypeOK, SessionRecord
  <2>6. LiveSession(s)
    BY <1>0, <2>2
  <2> DEFINE e == Event("started")
  <2>7. e \in EventRecord /\ e.kind = "started" /\ n.chan = Append(r.chan, e)
    BY <2>5, EventTypes DEF Event
  <2> HIDE DEF e
  <2>8. Steady(n) /\ \A k : HasKind(n.chan, k) <=> HasKind(r.chan, k) \/ "started" = k
    <3>1. Steady(r) /\ n \in SessionRecord /\ r \in SessionRecord
      BY <2>2, <2>4, <2>6 DEF LiveSession
    <3>2. n.life \notin {"none", "closing"} /\ r.life # "none"
      BY <2>2, <2>5, <3>1 DEF Steady
    <3>3. e.kind # "ask" /\ e.kind \notin {"closed", "died"}
      BY <2>7
    <3>4. n.due = r.due /\ n.stale = r.stale /\ n.at \in {r.at, "loop"} /\ n.mine = r.mine
      BY <2>5
    <3> HIDE DEF r, n
    <3>5. Steady(n)
      BY <2>7, <3>1, <3>2, <3>3, <3>4, EmitSteady
    <3>6. r.chan \in Seq(EventRecord)
      BY <3>1 DEF SessionRecord
    <3> QED BY <2>7, <3>5, <3>6, KindAppend
  <2>9. Lasts(n) => Lasts(r)
    BY <2>5, <2>8, EndedIs DEF Lasts
  <2>10. ASSUME NEW t \in Session  PROVE LiveSession(t)'
    <3>1. CASE t = s
      BY <2>1, <2>3, <2>5, <2>6, <2>8, <2>9, <3>1 DEF LiveSession, Gives
    <3>2. CASE t # s
      BY <1>0, <2>1, <2>5, <3>2 DEF LiveSession, Gives
    <3> QED BY <3>1, <3>2
  <2>11. LiveLock'
    <3>1. lock.own # NoSession => sess'[lock.own].at = "handoff"
      BY <1>0, <2>5 DEF LiveLock, ServerTypeOK, LockRecord
    <3> QED BY <1>0, <2>1, <2>2, <2>3, <2>5, <3>1 DEF LiveLock, HasSession, InSend
  <2>12. CauseStays
    BY <2>3, CauseGiven DEF LockEnds
  <2> QED BY <1>0, <2>10, <2>11, <2>12 DEF LiveInv
<1>7. CASE HandWrites
  <2> DEFINE s == lock.l
             r == sess[s]
             f == [sess EXCEPT ![s].turns = @ + 1]
  <2>1. UNCHANGED <<cur, nsess>> /\ lock.pc = "write" /\ Unlock(f)
    BY <1>7 DEF HandWrites, At
  <2>2. s \in Session /\ r.life # "none" /\ f \in [Session -> SessionRecord] /\ r.turns \in Nat
    BY <1>0, <2>1, SendTypes DEF LiveLock, HasSession, InSend, ServerTypeOK, LockRecord, SessionTypeOK, SessionRecord
  <2>3. /\ \A t \in Session \ {s} : f[t] = sess[t]
        /\ f[s].turns = r.turns + 1 /\ f[s].chan = r.chan
        /\ f[s].life = r.life /\ f[s].due = r.due /\ f[s].stale = r.stale /\ f[s].at = r.at
        /\ f[s].ok = r.ok /\ f[s].mine = r.mine /\ f[s].saw = r.saw
    BY <2>2 DEF SessionTypeOK, SessionRecord
  <2> HIDE DEF f
  <2>4. LiveLock' /\ \A t \in Session : Near(f[t], sess'[t])
    BY <2>1, <2>2, UnlockLive
  <2>5. ASSUME NEW t \in Session  PROVE LiveSession(t)'
    <3>1. LiveSession(t)
      BY <1>0
    <3>2. CASE t = s
      <4>1. /\ sess'[t].turns > 0 /\ sess'[t].chan = r.chan /\ sess'[t].life = r.life /\ sess'[t].due = r.due
            /\ sess'[t].stale = r.stale /\ sess'[t].at \in {r.at, "loop"} /\ sess'[t].mine = r.mine
        BY <2>2, <2>3, <2>4, <3>2 DEF Near
      <4>2. Steady(sess'[t]) /\ (Lasts(sess'[t]) => Lasts(r))
        BY <2>2, <3>1, <3>2, <4>1 DEF LiveSession, Steady, Lasts
      <4> QED BY <2>1, <3>1, <3>2, <4>1, <4>2 DEF LiveSession
    <3>3. CASE t # s
      <4>1. Near(sess[t], sess'[t]) /\ ~Gives(t)
        BY <2>3, <2>4, <3>3 DEF Gives
      <4>2. Steady(sess'[t])
        BY <3>1, <4>1 DEF LiveSession, Near, Steady
      <4>3. (Lasts(sess'[t]) <=> Lasts(sess[t])) /\ (StartsEnd(sess'[t].chan) <=> StartsEnd(sess[t].chan))
        BY <4>1 DEF Near, Lasts
      <4> QED BY <2>1, <3>1, <4>1, <4>2, <4>3 DEF LiveSession, Near
    <3> QED BY <3>2, <3>3
  <2>6. PICK t \in Session : t = s
    BY <2>2
  <2>7. CauseStays
    <3>1. sess'[t].turns > 0
      BY <2>2, <2>3, <2>4, <2>6 DEF Near
    <3>2. EndsTurn(t)'
      BY <3>1, EndsTurnIs DEF Ending
    <3> QED BY <3>2, CauseGiven
  <2> QED BY <1>0, <2>4, <2>5, <2>7 DEF LiveInv
<1>8. CASE HandFails
  <2>1. UNCHANGED <<cur, nsess>> /\ status' = "error" /\ Unlock(sess)
        /\ (lock.pc = "write" => sess[lock.l].life # "open")
    BY <1>8 DEF HandFails, Refused, At
  <2>2. LiveLock' /\ \A t \in Session : Near(sess[t], sess'[t])
    BY <2>1, UnlockLive DEF SessionTypeOK
  <2>3. \A t \in Session : LiveSession(t)'
    BY <1>0, <2>1, <2>2, SessionsNear DEF Gives
  <2>4. CauseStays
    BY <2>1, CauseGiven DEF Busy
  <2> QED BY <1>0, <2>2, <2>3, <2>4 DEF LiveInv
<1> QED BY <1>1, <1>2, <1>3, <1>4, <1>5, <1>6, <1>7, <1>8 DEF StartOfTurn

LEMMA HandoffLive ==
    ASSUME IInv, Recovers, LiveInv, Handoff
    PROVE  LiveInv' /\ CauseStays
<1> USE DEF IInv, TypeOK
<1>0. NoRequests' /\ LiveLock /\ \A t \in Session : LiveSession(t)
  BY DEF Handoff, Settle, HandoffRetire, HandoffNext, HandoffDone, requestVars, NoRequests, LiveInv
<1>1. CASE Settle \/ HandoffNext
  <2>1. UNCHANGED <<cur, nsess, sess, app, cutOff>>
    BY <1>1 DEF Settle, HandoffNext, processVars, agentVars
  <2>2. /\ lock'.own = lock.own /\ lock'.by = lock.by /\ lock'.l = lock.l /\ lock'.q = lock.q
        /\ lock.pc \in {"settle", "settled"} /\ lock'.pc \in {"settled", "begin"} /\ lock.by = "handoff"
        /\ lock'.pc = "begin" \/ lock.q # <<>> \/ ~Busy'
    BY <1>0, <1>1 DEF Settle, HandoffNext, Goto, At, ServerTypeOK, LockRecord, LiveLock, Busy
  <2>3. LiveLock'
    BY <1>0, <2>1, <2>2 DEF LiveLock, HasSession, InSend
  <2>4. \A t \in Session : LiveSession(t)'
    BY <1>0, <2>1, <2>2, SessionsNear DEF Near, Gives
  <2>5. CauseStays
    BY <2>2, CauseGiven DEF LockEnds
  <2> QED BY <1>0, <2>3, <2>4, <2>5 DEF LiveInv
<1>2. CASE HandoffRetire
  <2>1. lock.own \in Session /\ sess[lock.own].stale
    BY <1>0, <1>2 DEF HandoffRetire, At, LiveLock, ServerTypeOK, LockRecord
  <2> QED BY <1>0, <2>1 DEF LiveSession, Steady
<1>3. CASE HandoffDone
  <2>1. UNCHANGED <<cur, nsess, status, cutOff>> /\ Unlock(sess) /\ lock.pc = "settled" /\ lock.q = <<>>
    BY <1>0, <1>3 DEF HandoffDone, At, storeVars, LiveLock
  <2>2. lock.by = "handoff"
    BY <1>0, <2>1 DEF LiveLock
  <2>3. /\ LiveLock' /\ lock' = Unlocked /\ app' = app
        /\ \A t \in Session : Near(sess[t], sess'[t]) /\ (sess'[t].at = sess[t].at \/ t = lock.own)
    BY <2>1, <2>2, UnlockLive DEF SessionTypeOK
  <2>4. \A t \in Session : LiveSession(t)'
    BY <1>0, <2>1, <2>3, SessionsNear DEF Gives
  <2>5. \A t \in Session : EndsTurn(t) => EndsTurn(t)'
    BY <1>0, <2>1, <2>3, EndsNear DEF Unlocked
  <2>6. CauseStays
    BY <2>1, <2>3, <2>5, CauseKept DEF LockEnds, Busy
  <2> QED BY <1>0, <2>3, <2>4, <2>6 DEF LiveInv
<1> QED BY <1>1, <1>2, <1>3 DEF Handoff

LEMMA LockedRequestLive ==
    ASSUME Unswept, IInv, Recovers, LiveInv, LockedRequest
    PROVE  LiveInv' /\ CauseStays
<1> USE DEF IInv, TypeOK
<1>0. NoRequests' /\ LiveLock /\ \A t \in Session : LiveSession(t)
  BY DEF LockedRequest, SendPrompt, QueuePrompt, CompactContext, ReapIdle, CancelQueuedPrompt, requestVars, NoRequests, LiveInv
<1>1. CASE SendPrompt \/ CompactContext
  <2>1. UNCHANGED <<cur, nsess, sess, status, app, cutOff>>
    BY <1>1 DEF SendPrompt, CompactContext, storeVars, processVars, agentVars
  <2>2. lock.pc = "free" /\ lock.by = "none"
    BY <1>1 DEF SendPrompt, CompactContext, Acquire, At, Recovers
  <2>3. lock'.own = NoSession /\ lock'.by \in {"send", "compact"} /\ lock'.pc \in {"queue", "session"}
    BY <1>1 DEF SendPrompt, CompactContext, Acquire, Unlocked, NoSession
  <2>4. LiveLock'
    BY <2>3 DEF LiveLock, HasSession, InSend
  <2>5. \A t \in Session : LiveSession(t)'
    BY <1>0, <2>1, <2>2, SessionsNear DEF Near, Gives
  <2>6. \A t \in Session : EndsTurn(t) => EndsTurn(t)'
    BY <1>0, <2>1, <2>3, EndsNear DEF Near
  <2>7. CauseStays
    BY <2>1, <2>2, <2>6, CauseKept DEF LockEnds, Busy
  <2> QED BY <1>0, <2>4, <2>5, <2>7 DEF LiveInv
<1>2. CASE QueuePrompt
  <2>1. lock.pc = "queue" /\ lock.by # "handoff" /\ lock.by # "recover" /\ lock.own = NoSession /\ Unlock(sess)
    BY <1>0, <1>2 DEF QueuePrompt, At, LiveLock, InSend
  <2>2. UNCHANGED <<cur, nsess, sess, status, app, cutOff>> /\ lock' = Unlocked
    BY <1>2, <2>1 DEF QueuePrompt, Unlock
  <2>3. LiveLock'
    BY <2>1, UnlockLive DEF SessionTypeOK
  <2>4. \A t \in Session : LiveSession(t)'
    BY <1>0, <2>1, <2>2, SessionsNear DEF Near, Gives
  <2>5. \A t \in Session : EndsTurn(t) => EndsTurn(t)'
    BY <1>0, <2>1, <2>2, EndsNear DEF Near, Unlocked
  <2>6. CauseStays
    BY <2>1, <2>2, <2>5, CauseKept DEF LockEnds, Busy
  <2> QED BY <1>0, <2>3, <2>4, <2>6 DEF LiveInv
<1>3. CASE ReapIdle
  BY <1>3 DEF ReapIdle, Unswept
<1>4. CASE \E p \in Prompt : CancelQueuedPrompt(p)
  <2>1. UNCHANGED <<cur, nsess, lock, sess, status, app, cutOff>>
    BY <1>4 DEF CancelQueuedPrompt, processVars, agentVars
  <2>2. LiveLock'
    BY <1>0, <2>1, LiveLockKept
  <2>3. \A t \in Session : LiveSession(t)'
    BY <1>0, <2>1, SessionsNear DEF Near, Gives
  <2>4. \A t \in Session : EndsTurn(t) => EndsTurn(t)'
    BY <1>0, <2>1, EndsNear DEF Near
  <2>5. CauseStays
    BY <2>1, <2>4, CauseKept DEF LockEnds, Busy
  <2> QED BY <1>0, <2>2, <2>3, <2>5 DEF LiveInv
<1> QED BY <1>1, <1>2, <1>3, <1>4 DEF LockedRequest

LEMMA FreeRequestLive ==
    ASSUME Unswept, IInv, LiveInv, pending = {}, FreeRequest
    PROVE  LiveInv' /\ CauseStays
<1>1. InterruptRead \/ InterruptAppend
  BY DEF FreeRequest, ArchiveRead, ArchiveClose, ArchiveAppend, SettingsRead, SettingsClose, SettingsLive,
         SettingsMark, SettingsAppend, ResolveRead, ResolveTell, ResolveReadThread, ResolveAppend,
         Unswept, LiveInv, NoRequests
<1>2. UNCHANGED <<cur, nsess, lock, sess, app, cutOff, arch, sett, reso>> /\ status' \in {status, "idle"}
  BY <1>1 DEF InterruptRead, InterruptAppend, storeVars, processVars, agentVars
<1>3. LiveLock'
  BY <1>2, LiveLockKept DEF LiveInv, IInv, TypeOK
<1>4. \A t \in Session : LiveSession(t)'
  BY <1>2, SessionsNear DEF LiveInv, Near, Gives
<1>5. \A t \in Session : EndsTurn(t) => EndsTurn(t)'
  BY <1>2, EndsNear DEF LiveInv, Near
<1>6. CauseStays
  BY <1>2, <1>5, CauseKept DEF LockEnds, Busy
<1> QED BY <1>2, <1>3, <1>4, <1>6 DEF LiveInv, NoRequests

LEMMA AgentLive ==
    ASSUME Unswept, IInv, AgentInv, LiveInv, NEW s \in Session, Agent(s)
    PROVE  LiveInv' /\ CauseStays
<1> DEFINE r == sess[s]
           n == sess'[s]
<1>0. n \in SessionRecord
  <2>1. IInv'
    BY AgentPreserves
  <2> QED BY <2>1 DEF IInv, TypeOK, SessionTypeOK
<1> USE DEF IInv, TypeOK
<1>1. /\ r \in SessionRecord /\ LiveSession(s) /\ Steady(r)
      /\ Ended(r.chan) => r.life \in {"told", "dead"}
      /\ NoRequests /\ LiveLock /\ \A t \in Session : LiveSession(t)
  BY DEF LiveInv, LiveSession, SessionTypeOK, AgentInv, SessionInv
<1>2. UNCHANGED <<cur, nsess, lock, status, app, cutOff, arch, sett, reso>>
  BY <1>1 DEF Agent, AgentCompletes, AgentAsks, AgentExits, CloseCall, AgentReaped, AgentEnds, AgentStops, Unswept,
              storeVars, processVars, requestVars
<1>3. ASSUME \A t \in Session \ {s} : sess'[t] = sess[t], n.at = r.at, n.life # "none", LiveSession(s)',
             EndsTurn(s) => EndsTurn(s)'
      PROVE  LiveInv' /\ CauseStays
  <2>1. \A t \in Session : LiveSession(t)'
    BY <1>1, <1>2, <1>3, OneLive
  <2>2. LiveLock'
    BY <1>1, <1>2, <1>3, LiveLockKept
  <2>3. \A t \in Session : EndsTurn(t) => EndsTurn(t)'
    BY <1>2, <1>3, OneEnds
  <2>4. CauseStays
    BY <1>2, <2>3, CauseKept DEF LockEnds, Busy
  <2> QED BY <1>1, <1>2, <2>1, <2>2, <2>4 DEF LiveInv, NoRequests
<1>4. CASE AgentCompletes(s)
  <2>1. PICK k \in {"done", "failed"} :
          sess' = [sess EXCEPT ![s].turns = @ - 1, ![s].asks = {}, ![s].chan = Append(@, Event(k))]
    BY <1>4 DEF AgentCompletes
  <2> DEFINE e == Event(k)
  <2>2. ~Ended(r.chan) /\ r.life = "open" /\ s = cur
    BY <1>1, <1>4 DEF AgentCompletes, AgentAlive, Steady, LiveSession, Lasts
  <2>3. e \in EventRecord /\ e.kind = k
    BY EventTypes DEF Event
  <2> HIDE DEF e
  <2>4. n = [r EXCEPT !.turns = @ - 1, !.asks = {}, !.chan = Append(@, e)] /\ \A t \in Session \ {s} : sess'[t] = sess[t]
    BY <2>1 DEF SessionTypeOK, e
  <2>5. /\ n.chan = Append(r.chan, e) /\ n.life = r.life /\ n.due = r.due
        /\ n.stale = r.stale /\ n.at = r.at /\ n.mine = r.mine
    BY <1>1, <2>4 DEF SessionRecord
  <2>6. Steady(n) /\ StartsEnd(n.chan) /\ HasKind(n.chan, e.kind)
    <3>1. n.life \notin {"none", "closing"} /\ r.life # "none" /\ n.at \in {r.at, "loop"}
      BY <2>2, <2>5
    <3>2. e.kind \notin {"ask", "closed", "died"} /\ e.kind \in {"done", "failed"}
      BY <2>3
    <3>3. r.chan \in Seq(EventRecord)
      BY <1>1 DEF SessionRecord
    <3> HIDE DEF r, n
    <3>4. Steady(n)
      BY <1>0, <1>1, <2>3, <2>5, <3>1, <3>2, EmitSteady
    <3>5. HasKind(n.chan, e.kind)
      BY <2>3, <2>5, <3>3, KindAppend
    <3> QED BY <2>3, <2>5, <3>2, <3>3, <3>4, <3>5, EndAppend
  <2>7. LiveSession(s)'
    BY <1>1, <1>2, <2>2, <2>5, <2>6 DEF LiveSession
  <2>8. EndsTurn(s)'
    BY <2>3, <2>6, EndsTurnIs DEF Ending
  <2> QED BY <1>3, <2>2, <2>4, <2>5, <2>7, <2>8
<1>5. CASE AgentAsks(s)
  BY <1>5 DEF AgentAsks, Unswept
<1>6. CASE AgentExits(s) \/ AgentReaped(s) \/ AgentStops(s)
  <2>1. /\ \A t \in Session \ {s} : sess'[t] = sess[t]
        /\ n.chan = r.chan /\ n.due = r.due /\ n.stale = r.stale /\ n.turns = r.turns
        /\ n.at = r.at /\ n.mine = r.mine /\ n.ok = r.ok /\ n.saw = r.saw
        /\ \/ r.life \in {"open", "gone"} /\ n.life \in {"gone", "ended", "failed"}
           \/ r.life = "told" /\ n.life = "dead"
    BY <1>1, <1>6 DEF AgentExits, AgentReaped, AgentStops, SessionTypeOK, SessionRecord, Steady
  <2>2. Steady(n) /\ (Lasts(n) => Lasts(r))
    BY <1>1, <2>1 DEF Steady, Lasts
  <2>3. LiveSession(s)'
    BY <1>1, <1>2, <2>1, <2>2 DEF LiveSession
  <2>4. r.life = "told" \/ s = cur
    BY <1>1, <2>1 DEF LiveSession, Lasts
  <2>5. EndsTurn(s) => EndsTurn(s)'
    <3> SUFFICES ASSUME Ending(sess[s], s = cur, lock.own = s)  PROVE Ending(sess'[s], s = cur', lock'.own = s)
      BY EndsTurnIs
    <3> QED BY <1>2, <2>1, <2>4 DEF Ending
  <2> QED BY <1>3, <2>1, <2>3, <2>5
<1>7. CASE CloseCall(s)
  BY <1>1, <1>7 DEF CloseCall, Steady
<1>8. CASE AgentEnds(s)
  <2>1. PICK k \in {"closed", "died"} :
          sess' = [sess EXCEPT ![s].life = "told", ![s].turns = 0, ![s].asks = {}, ![s].chan = Append(@, Event(k))]
    BY <1>8 DEF AgentEnds
  <2> DEFINE e == Event(k)
  <2>2. s = cur /\ ~Ended(r.chan) /\ r.life # "none"
    BY <1>1, <1>8 DEF AgentEnds, LiveSession, Lasts
  <2>3. e \in EventRecord /\ e.kind = k
    BY EventTypes DEF Event
  <2> HIDE DEF e
  <2>4. n = [r EXCEPT !.life = "told", !.turns = 0, !.asks = {}, !.chan = Append(@, e)] /\ \A t \in Session \ {s} : sess'[t] = sess[t]
    BY <2>1 DEF SessionTypeOK, e
  <2>5. /\ n.chan = Append(r.chan, e) /\ n.life = "told" /\ n.due = r.due
        /\ n.stale = r.stale /\ n.at = r.at /\ n.mine = r.mine
    BY <1>1, <2>4 DEF SessionRecord
  <2>6. Steady(n) /\ HasKind(n.chan, e.kind)
    <3>1. n.life \notin {"none", "closing"} /\ n.at \in {r.at, "loop"}
      BY <2>5
    <3>2. e.kind # "ask"
      BY <2>3
    <3>3. r.chan \in Seq(EventRecord)
      BY <1>1 DEF SessionRecord
    <3> HIDE DEF r, n
    <3>4. Steady(n)
      BY <1>0, <1>1, <2>2, <2>3, <2>5, <3>1, <3>2, EmitSteady
    <3> QED BY <2>3, <2>5, <3>3, <3>4, KindAppend
  <2>7. LiveSession(s)'
    BY <1>1, <1>2, <2>2, <2>5, <2>6 DEF LiveSession
  <2>8. EndsTurn(s)'
    BY <1>2, <2>2, <2>3, <2>6, EndsTurnIs DEF Ending
  <2> QED BY <1>3, <2>4, <2>5, <2>7, <2>8
<1> QED BY <1>4, <1>5, <1>6, <1>7, <1>8 DEF Agent

LEMMA PumpLive ==
    ASSUME IInv, AgentInv, Live, LiveInv, Recovers, NEW s \in Session, Pump(s)
    PROVE  LiveInv' /\ CauseStays /\ ~PumpAsk(s)
<1> DEFINE r == sess[s]
           n == sess'[s]
<1>0. n \in SessionRecord
  <2>1. IInv'
    BY PumpPreserves
  <2> QED BY <2>1 DEF IInv, TypeOK, SessionTypeOK
<1> USE DEF IInv, TypeOK
<1>1. /\ r \in SessionRecord /\ LiveSession(s) /\ Steady(r)
      /\ Ended(r.chan) => r.life \in {"told", "dead"}
      /\ NoRequests /\ LiveLock /\ \A t \in Session : LiveSession(t)
  BY DEF LiveInv, LiveSession, SessionTypeOK, AgentInv, SessionInv
<1>2. UNCHANGED <<cutOff, arch, sett, reso, app, nsess>> /\ s # NoSession
  BY DEF Pump, PumpDrops, PumpInfo, PumpStarted, PumpAsk, PumpAutoResolve, PumpCompleted, HandoffAcquire,
         PumpClosed, PumpClosedRead, PumpClosedWrite, storeVars, processVars, requestVars, agentVars, Session, NoSession
<1>3. ASSUME NEW k, Reads(s, k)
      PROVE  /\ lock.own # s /\ k # "ask" /\ r.at = "loop" /\ r.life # "none"
             /\ r.chan # <<>> /\ r.chan \in Seq(EventRecord) /\ Head(r.chan).kind = k
             /\ \A j : HasKind(r.chan, j) <=> HasKind(Tail(r.chan), j) \/ k = j
  <2>1. r.at = "loop" /\ r.chan # <<>> /\ Head(r.chan).kind = k /\ r.chan \in Seq(EventRecord)
    BY <1>1, <1>3 DEF Reads, SessionRecord
  <2>2. lock.own # s /\ r.life # "none"
    BY <1>1, <1>2, <2>1 DEF LiveLock, Steady
  <2>3. \A j : HasKind(r.chan, j) <=> HasKind(Tail(r.chan), j) \/ k = j
    BY <2>1, KindTail
  <2>4. k # "ask"
    BY <1>1, <2>3 DEF Steady
  <2> QED BY <2>1, <2>2, <2>3, <2>4
<1>4. ~PumpDrops(s) /\ ~PumpAsk(s) /\ ~PumpAutoResolve(s)
  BY <1>3 DEF PumpDrops, PumpAsk, PumpAutoResolve, Live
<1>5. ASSUME UNCHANGED <<cur, lock>>, \A t \in Session \ {s} : sess'[t] = sess[t], lock.own # s,
             n.life # "none", LiveSession(s)'
      PROVE  LiveInv'
  <2>1. \A t \in Session : LiveSession(t)'
    BY <1>1, <1>2, <1>5, OneLive
  <2>2. LiveLock'
    BY <1>1, <1>5, LiveLockKept
  <2> QED BY <1>1, <1>2, <2>1, <2>2 DEF LiveInv, NoRequests
<1>6. ASSUME r.chan # <<>>, n.chan = Tail(r.chan), n.life = r.life, n.due = r.due, n.stale = r.stale,
             n.turns = r.turns, n.at \in {"closed", "write"} => n.mine
      PROVE  /\ Steady(n) /\ n.life # "none" /\ (Lasts(n) => Lasts(r))
             /\ StartsEnd(r.chan) => StartsEnd(n.chan)
  <2> HIDE DEF r, n
  <2> QED BY <1>0, <1>1, <1>6, ReadSteady
<1>7. CASE PumpInfo(s) \/ PumpStarted(s)
  <2>1. PICK k \in {"info", "started"} : Reads(s, k) /\ (k = "info" => status' = status) /\ (k = "started" => PumpStarted(s))
    BY <1>7 DEF PumpInfo, PumpStarted
  <2>2. UNCHANGED <<cur, lock>> /\ sess' = Popped(s)
    BY <1>7 DEF PumpInfo, PumpStarted
  <2>3. /\ r.at = "loop" /\ lock.own # s /\ r.chan # <<>> /\ r.chan \in Seq(EventRecord) /\ Head(r.chan).kind = k
        /\ \A j : HasKind(r.chan, j) <=> HasKind(Tail(r.chan), j) \/ k = j
    BY <1>3, <2>1
  <2>4. /\ \A t \in Session \ {s} : sess'[t] = sess[t]
        /\ n.chan = Tail(r.chan) /\ n.life = r.life /\ n.due = r.due /\ n.stale = r.stale
        /\ n.turns = r.turns /\ n.at = r.at /\ n.mine = r.mine
        /\ n.ok = r.ok /\ n.saw = r.saw
    BY <2>2 DEF Popped, SessionTypeOK, SessionRecord
  <2>5. Steady(n) /\ n.life # "none" /\ (Lasts(n) => Lasts(r)) /\ (StartsEnd(r.chan) => StartsEnd(n.chan))
    BY <1>6, <2>3, <2>4
  <2>6. LiveSession(s)'
    BY <1>1, <1>2, <2>2, <2>4, <2>5 DEF LiveSession, Gives
  <2>7. LiveInv'
    BY <1>5, <2>2, <2>3, <2>4, <2>5, <2>6
  <2>8. CauseStays
    <3>1. CASE k = "info"
      <4>1. EndsTurn(s) => EndsTurn(s)'
        <5> SUFFICES ASSUME Ending(r, s = cur, lock.own = s)  PROVE Ending(n, s = cur', lock'.own = s)
          BY EndsTurnIs
        <5>1. \A j : j # "info" => (HasKind(n.chan, j) <=> HasKind(r.chan, j))
          BY <2>3, <2>4, <3>1
        <5> QED BY <2>2, <2>4, <5>1 DEF Ending
      <4>2. \A t \in Session : EndsTurn(t) => EndsTurn(t)'
        BY <2>2, <2>4, <4>1, OneEnds
      <4> QED BY <1>2, <2>1, <2>2, <3>1, <4>2, CauseKept DEF LockEnds, Busy
    <3>2. CASE k = "started" /\ r.life \in {"told", "dead"} /\ ~Ended(r.chan)
      BY <2>1, <2>2, <3>2 DEF CauseStays, LateStart, Ended
    <3>3. CASE k = "started" /\ r.life \in {"told", "dead"} /\ Ended(r.chan)
      <4>1. s = cur
        BY <1>1, <3>3 DEF LiveSession, Lasts
      <4>2. HasKind(n.chan, "closed") \/ HasKind(n.chan, "died")
        BY <2>3, <2>4, <3>3, EndedIs
      <4>3. EndsTurn(s)'
        BY <2>2, <4>1, <4>2, EndsTurnIs DEF Ending
      <4> QED BY <4>3, CauseGiven
    <3>4. CASE r.life \in {"gone", "ended", "failed"}
      <4>1. s = cur
        BY <1>1, <3>4 DEF LiveSession, Lasts
      <4>2. EndsTurn(s)'
        BY <2>2, <2>4, <3>4, <4>1, EndsTurnIs DEF Ending
      <4> QED BY <4>2, CauseGiven
    <3>5. CASE k = "started" /\ r.life = "open"
      <4>1. CASE Gives(s)
        BY <2>2, <4>1, CauseGiven DEF Gives, LockEnds
      <4>2. CASE ~Gives(s)
        <5>1. StartsEnd(r.chan) => HasKind(Tail(r.chan), "done") \/ HasKind(Tail(r.chan), "failed")
          <6> HIDE DEF r
          <6> QED BY <2>3, <3>5, EndTail
        <5>2. n.turns > 0 \/ HasKind(n.chan, "done") \/ HasKind(n.chan, "failed")
          BY <1>1, <2>4, <3>5, <4>2, <5>1 DEF LiveSession
        <5>3. EndsTurn(s)'
          BY <5>2, EndsTurnIs DEF Ending
        <5> QED BY <5>3, CauseGiven
      <4> QED BY <4>1, <4>2
    <3>6. r.life \in {"open", "gone", "ended", "failed", "told", "dead"}
      BY <1>1, <2>4, <2>5 DEF Steady, SessionRecord, Life
    <3> QED BY <2>1, <3>1, <3>2, <3>3, <3>4, <3>5, <3>6
  <2> QED BY <1>4, <2>7, <2>8
<1>8. CASE PumpCompleted(s)
  <2>1. UNCHANGED <<cur, lock, status>>
    BY <1>8 DEF PumpCompleted, storeVars
  <2>2. lock.own # s /\ r.chan # <<>>
    BY <1>3, <1>8 DEF PumpCompleted
  <2>3. /\ \A t \in Session \ {s} : sess'[t] = sess[t]
        /\ n.chan = Tail(r.chan) /\ n.life = r.life /\ n.due = r.due /\ n.stale = r.stale
        /\ n.turns = r.turns /\ n.at = "handoff"
    <3> DEFINE b == Head(r.chan).kind = "done"
    <3>1. sess' = [sess EXCEPT ![s].chan = Tail(@), ![s].idle = TRUE, ![s].at = "handoff", ![s].ok = b]
      BY <1>8 DEF PumpCompleted
    <3> HIDE DEF b
    <3>2. n = [r EXCEPT !.chan = Tail(@), !.idle = TRUE, !.at = "handoff", !.ok = b]
      BY <3>1 DEF SessionTypeOK
    <3> QED BY <1>1, <3>1, <3>2 DEF SessionTypeOK, SessionRecord
  <2>4. Steady(n) /\ n.life # "none" /\ (Lasts(n) => Lasts(r)) /\ (StartsEnd(r.chan) => StartsEnd(n.chan))
    BY <1>6, <2>2, <2>3
  <2>5. LiveSession(s)'
    BY <1>1, <1>2, <2>1, <2>3, <2>4 DEF LiveSession, Gives
  <2>6. EndsTurn(s)'
    BY <2>1, <2>2, <2>3, EndsTurnIs DEF Ending
  <2> QED BY <1>4, <1>5, <2>1, <2>2, <2>3, <2>4, <2>5, <2>6, CauseGiven
<1>9. CASE HandoffAcquire(s)
  <2>1. UNCHANGED <<cur, sess, status>> /\ r.at = "handoff" /\ lock.pc = "free"
    BY <1>9 DEF HandoffAcquire, storeVars, agentVars, At
  <2>2. \A t \in Session : LiveSession(t)'
    BY <1>1, <1>2, <2>1, SessionsNear DEF Near, Gives
  <2>3. lock'.own = s /\ lock'.by = "handoff" /\ lock'.l = s /\ lock'.pc = "settle"
    BY <1>9 DEF HandoffAcquire, Unlocked
  <2>4. r.life # "none"
    BY <1>1, <2>1 DEF Steady
  <2>5. LiveLock' /\ CauseStays
    BY <1>2, <2>1, <2>3, <2>4, CauseGiven DEF LiveLock, HasSession, InSend, LockEnds
  <2> QED BY <1>1, <1>2, <1>4, <2>2, <2>5 DEF LiveInv, NoRequests
<1>10. CASE PumpClosed(s)
  <2>1. UNCHANGED <<lock, status>> /\ Forget(s)
    BY <1>10 DEF PumpClosed, storeVars
  <2>2. PICK k \in {"closed", "died"} : Reads(s, k)
    BY <1>10 DEF PumpClosed
  <2>3. /\ lock.own # s /\ r.chan # <<>> /\ r.chan \in Seq(EventRecord) /\ Head(r.chan).kind = k
    BY <1>3, <2>2
  <2>4. Ended(r.chan) /\ ~Ended(Tail(r.chan))
    <3> HIDE DEF r
    <3> QED BY <1>1, <2>3, EndedTail, EndTail DEF Steady
  <2>5. s = cur /\ cur' = NoSession /\ r.life \in {"told", "dead"}
    BY <1>1, <2>1, <2>4 DEF LiveSession, Lasts, Forget
  <2>6. /\ \A t \in Session \ {s} : sess'[t] = sess[t]
        /\ n.chan = Tail(r.chan) /\ n.life = r.life /\ n.due = r.due /\ n.stale = r.stale
        /\ n.turns = r.turns /\ n.at = "closed" /\ n.mine
    <3> DEFINE b == Head(r.chan).kind = "closed"
    <3>1. sess' = [sess EXCEPT ![s].chan = Tail(@), ![s].at = "closed", ![s].ok = b, ![s].mine = TRUE]
      BY <1>10, <2>5 DEF PumpClosed
    <3> HIDE DEF b
    <3>2. n = [r EXCEPT !.chan = Tail(@), !.at = "closed", !.ok = b, !.mine = TRUE]
      BY <3>1 DEF SessionTypeOK
    <3> QED BY <1>1, <3>1, <3>2 DEF SessionTypeOK, SessionRecord
  <2>7. Steady(n)
    BY <1>6, <2>3, <2>6
  <2>8. ASSUME NEW t \in Session  PROVE LiveSession(t)'
    <3>1. LiveSession(t) /\ t # NoSession
      BY <1>1 DEF Session, NoSession
    <3>2. CASE t = s
      BY <1>2, <2>1, <2>4, <2>5, <2>6, <2>7, <3>1, <3>2 DEF LiveSession, Lasts
    <3>3. CASE t # s
      BY <1>2, <2>1, <2>5, <2>6, <3>1, <3>3 DEF LiveSession, Gives
    <3> QED BY <3>2, <3>3
  <2>9. LiveLock'
    BY <1>1, <2>1, <2>3, <2>6, LiveLockKept
  <2>10. EndsTurn(s)'
    BY <2>6, EndsTurnIs DEF Ending
  <2> QED BY <1>1, <1>2, <1>4, <2>8, <2>9, <2>10, CauseGiven DEF LiveInv, NoRequests
<1>11. CASE PumpClosedRead(s) \/ PumpClosedWrite(s)
  <2>1. UNCHANGED <<cur, lock>> /\ r.at \in {"closed", "write"} /\ r.mine /\ lock.own # s /\ r.life # "none"
    BY <1>1, <1>2, <1>11 DEF PumpClosedRead, PumpClosedWrite, Steady, LiveLock
  <2>2. /\ \A t \in Session \ {s} : sess'[t] = sess[t]
        /\ n.chan = r.chan /\ n.life = r.life /\ n.due = r.due /\ n.stale = r.stale
        /\ n.turns = r.turns /\ n.mine = r.mine /\ n.ok = r.ok
        /\ PumpClosedRead(s) => n.at = "write" /\ n.saw = status /\ status' = status
        /\ PumpClosedWrite(s) => n.at = "loop" /\ n.saw = r.saw /\ r.at = "write"
    BY <1>11 DEF PumpClosedRead, PumpClosedWrite, storeVars, SessionTypeOK, SessionRecord
  <2>3. LiveSession(s)'
    BY <1>1, <1>2, <2>1, <2>2 DEF LiveSession, Steady, Lasts, Gives
  <2>4. LiveInv'
    BY <1>5, <2>1, <2>2, <2>3
  <2>5. CASE PumpClosedRead(s)
    <3>1. Busy' => EndsTurn(s)'
      BY <2>1, <2>2, <2>5, EndsTurnIs DEF Ending, Busy
    <3> QED BY <1>4, <2>4, <3>1, CauseGiven
  <2>6. CASE PumpClosedWrite(s)
    <3>1. Busy' => Busy /\ r.ok /\ r.saw = "idle"
      BY <2>1, <2>6 DEF PumpClosedWrite, Busy
    <3>2. ASSUME Busy', EndsTurn(s)  PROVE EndsTurn(s)'
      <4>1. Ending(r, s = cur, lock.own = s)
        BY <3>2, EndsTurnIs
      <4>2. Ending(n, s = cur', lock'.own = s)
        BY <2>1, <2>2, <2>6, <3>1, <3>2, <4>1 DEF Ending
      <4> QED BY <4>2, EndsTurnIs
    <3>3. CASE Busy'
      <4>1. \A t \in Session : EndsTurn(t) => EndsTurn(t)'
        BY <2>1, <2>2, <3>2, <3>3, OneEnds
      <4> QED BY <1>2, <1>4, <2>1, <2>4, <3>1, <4>1, CauseKept DEF LockEnds
    <3>4. CASE ~Busy'
      BY <1>4, <2>4, <3>4, CauseGiven
    <3> QED BY <3>3, <3>4
  <2> QED BY <1>11, <2>5, <2>6
<1> QED BY <1>4, <1>7, <1>8, <1>9, <1>10, <1>11 DEF Pump

\* The end of the process, its next start and its recovery.
LEMMA ProcessCause ==
    ASSUME IInv, CauseInv, Process, ~Boot
    PROVE  Recovers' /\ (app' = "down" => Fresh') /\ (Live' => LiveInv') /\ (Live => CauseStays)
<1> USE DEF IInv, TypeOK
<1>1. CASE Crash \/ RecoverFails
  <2>1. Down
    BY <1>1 DEF Crash, RecoverFails
  <2>2. Recovers' /\ Fresh' /\ app' = "down"
    BY <2>1 DEF Down, Recovers, Unlocked, Fresh, NoRequests, NoRequest, NoAnswer
  <2> QED BY <2>2, CauseGiven DEF Live
<1>2. CASE Shutdown
  BY <1>2, CauseGiven DEF Shutdown, CauseInv, Recovers, Live
<1>3. CASE RecoverLists \/ RecoverSettles \/ RecoverNothing \/ ResumeNote
  <2>1. UNCHANGED <<cur, nsess, lock, sess, arch, sett, reso>> /\ status' \in {status, "idle"}
    BY <1>3 DEF RecoverLists, RecoverSettles, RecoverNothing, ResumeNote, storeVars, requestVars, agentVars
  <2>2. app' = app \/ (app = "recovering" /\ lock.pc = "free" /\ app' = "up")
    BY <1>3 DEF RecoverLists, RecoverSettles, RecoverNothing, ResumeNote, processVars, At
  <2>3. Recovers'
    BY <2>1, <2>2 DEF CauseInv, Recovers
  <2>4. app' # "down"
    BY <1>3 DEF RecoverLists, RecoverSettles, RecoverNothing, ResumeNote, CauseInv, Fresh, processVars
  <2>5. ASSUME Live'  PROVE LiveInv'
    <3>1. LiveInv
      BY <2>2, <2>5 DEF Live, CauseInv
    <3>2. \A t \in Session : LiveSession(t)'
      BY <2>1, <3>1, SessionsNear DEF LiveInv, Near, Gives
    <3>3. LiveLock'
      BY <2>1, <3>1, LiveLockKept DEF LiveInv
    <3> QED BY <2>1, <3>1, <3>2, <3>3 DEF LiveInv, NoRequests
  <2>6. CauseStays
    BY <1>3, CauseGiven DEF RecoverLists, RecoverSettles, RecoverNothing, ResumeNote, Busy, storeVars, processVars
  <2> QED BY <2>3, <2>4, <2>5, <2>6
<1>4. CASE RecoverQueue \/ ResumeAcquire
  <2>1. /\ UNCHANGED <<cur, nsess, sess, arch, sett, reso, status, app>> /\ lock.pc = "free"
        /\ lock'.own = NoSession /\ lock'.pc = "session" /\ lock'.by \in {"recover", "resume"}
        /\ lock'.by = "recover" => app = "recovering"
        /\ cutOff' = cutOff \/ cutOff = "noted"
    BY <1>4 DEF RecoverQueue, ResumeAcquire, Acquire, At, Unlocked, storeVars, processVars, requestVars, agentVars
  <2>2. Recovers'
    BY <2>1 DEF Recovers
  <2>3. app # "down"
    BY <1>4 DEF RecoverQueue, ResumeAcquire, CauseInv, Fresh
  <2>4. ASSUME Live  PROVE LiveInv' /\ CauseStays
    <3>1. LiveInv /\ lock.by = "none"
      BY <2>1, <2>4 DEF CauseInv, Recovers
    <3>2. \A t \in Session : LiveSession(t)'
      BY <2>1, <3>1, SessionsNear DEF LiveInv, Near, Gives
    <3>3. LiveLock'
      BY <2>1 DEF LiveLock, HasSession, InSend
    <3>4. \A t \in Session : EndsTurn(t) => EndsTurn(t)'
      BY <2>1, <3>1, EndsNear DEF LiveInv, Near
    <3>5. CauseStays
      BY <2>1, <3>1, <3>4, CauseKept DEF LockEnds, Busy
    <3> QED BY <2>1, <3>1, <3>2, <3>3, <3>5 DEF LiveInv, NoRequests
  <2> QED BY <2>1, <2>2, <2>3, <2>4 DEF Live
<1> QED BY <1>1, <1>2, <1>3, <1>4 DEF Process

\* A process that has done nothing yet.
LEMMA FreshLive ==
    ASSUME Fresh
    PROVE  LiveInv
<1>1. Steady(NotStarted) /\ ~Lasts(NotStarted) /\ NotStarted.life = "none"
  BY KindsNot, EndsNot, EndedNot DEF Steady, Lasts, NotStarted
<1>2. \A t \in Session : LiveSession(t)
  BY <1>1 DEF Fresh, LiveSession, Session, NoSession
<1>3. LiveLock
  BY DEF Fresh, LiveLock, Unlocked, HasSession, InSend
<1> QED BY <1>2, <1>3 DEF LiveInv, Fresh

LEMMA BootCause ==
    ASSUME CauseInv, Boot
    PROVE  CauseInv' /\ CauseStays
<1>1. Fresh /\ app' = "recovering" /\ UNCHANGED <<cur, lock, sess, nsess, arch, sett, reso, pending, cutOff>>
  BY DEF Boot, CauseInv, storeVars, threadVars, requestVars, agentVars
<1>2. LiveInv
  BY <1>1, FreshLive
<1>3. \A t \in Session : LiveSession(t)'
  BY <1>1, <1>2, SessionsNear DEF LiveInv, Near, Gives
<1>4. LiveLock' /\ Recovers'
  BY <1>1 DEF Fresh, LiveLock, Unlocked, Recovers, HasSession, InSend
<1>5. CauseStays
  BY <1>1, CauseGiven
<1> QED BY <1>1, <1>2, <1>3, <1>4, <1>5 DEF CauseInv, LiveInv, NoRequests

\* Every step keeps the invariant, and the cause of a busy thread.
LEMMA CauseStep ==
    ASSUME Unswept, IInv, AgentInv, CauseInv, [Next]_vars
    PROVE  CauseInv' /\ CauseStays
<1>1. CASE UNCHANGED vars
  <2>1. UNCHANGED <<cur, nsess, lock, sess, status, pending, app, cutOff, arch, sett, reso>>
    BY <1>1 DEF vars, storeVars, threadVars, processVars, requestVars, agentVars
  <2>2. LiveInv => LiveInv'
    <3> SUFFICES ASSUME LiveInv PROVE LiveInv'
      OBVIOUS
    <3>1. \A t \in Session : LiveSession(t)'
      BY <2>1, SessionsNear DEF LiveInv, Near, Gives
    <3>2. LiveLock'
      BY <2>1, LiveLockKept DEF LiveInv, IInv, TypeOK
    <3> QED BY <2>1, <3>1, <3>2 DEF LiveInv, NoRequests
  <2>3. BusyHasCause => BusyHasCause'
    BY <2>1 DEF BusyHasCause, Busy, LockEnds, EndsTurn, Settles
  <2> QED BY <2>1, <2>2, <2>3 DEF CauseInv, Recovers, Fresh, NoRequests, Live, CauseStays
<1>2. CASE Next /\ Boot
  BY <1>2, BootCause
<1>3. CASE Next /\ ~Boot /\ app = "down"
  <2>1. \A s \in Session : ~PumpAsk(s)
    BY <1>3 DEF CauseInv, Fresh, NotStarted, PumpAsk, Reads
  <2>2. app' = "down" /\ Fresh'
    BY <1>3, DownStep DEF CauseInv
  <2>3. pending' = {}
    BY <1>3, <2>1, NextPending DEF CauseInv
  <2> QED BY <2>2, <2>3, CauseGiven DEF CauseInv, Recovers, Fresh, Unlocked, Live
<1>4. CASE Next /\ ~Boot /\ app = "closing"
  <2>1. pending' = {}
    BY <1>4, NextPending DEF CauseInv, PumpAsk
  <2>2. CASE Process
    <3>1. Recovers' /\ (app' = "down" => Fresh') /\ (Live' => LiveInv')
      BY <1>4, <2>2, ProcessCause
    <3>2. app' # "up"
      BY <1>4, <2>2 DEF Process, Shutdown, Crash, Down, Boot, RecoverFails, RecoverLists, RecoverSettles, RecoverQueue,
                        RecoverNothing, ResumeNote, ResumeAcquire, processVars
    <3> QED BY <2>1, <3>1, <3>2, CauseGiven DEF CauseInv
  <2>3. CASE ~Process
    <3>1. Frame
      BY <1>4, <2>3, NextFrame
    <3>2. app' = "closing"
      BY <1>4, <3>1 DEF Frame, CauseInv, Recovers
    <3> QED BY <2>1, <3>1, <3>2, FrameKeeps, CauseGiven DEF CauseInv, Live
  <2> QED BY <2>2, <2>3
<1>5. CASE Next /\ ~Boot /\ Live
  <2>1. LiveInv /\ Recovers /\ pending = {}
    BY <1>5 DEF CauseInv
  <2>2. \A s \in Session : ~PumpAsk(s)
    BY <1>5, <2>1, PumpLive DEF Pump
  <2>3. pending' = {}
    BY <1>5, <2>1, <2>2, NextPending
  <2>4. CASE Process
    BY <1>5, <2>3, <2>4, ProcessCause DEF CauseInv
  <2>5. CASE ~Process
    <3>1. Frame
      BY <1>5, <2>5, NextFrame
    <3>2. Recovers' /\ app' # "down"
      BY <1>5, <2>1, <3>1, FrameKeeps DEF Frame, Live
    <3>3. LiveInv' /\ CauseStays
      BY <1>5, <2>1, <2>5, StartOfTurnLive, HandoffLive, LockedRequestLive, FreeRequestLive, PumpLive, AgentLive DEF Next
    <3> QED BY <2>3, <3>2, <3>3 DEF CauseInv
  <2> QED BY <2>4, <2>5
<1> QED BY <1>1, <1>2, <1>3, <1>4, <1>5 DEF Live, IInv, TypeOK, ServerTypeOK

\* While the server is up, a session leaves the registry only by its end, which
\* its pump reads, and a turn that was told to the pump is given or ends, but one
\* told after Closed.
THEOREM CauseInvariance == ASSUME Unswept PROVE Spec => []CauseInv
<1>1. Init => CauseInv
  <2> SUFFICES ASSUME Init PROVE CauseInv
    OBVIOUS
  <2>1. Fresh /\ pending = {} /\ lock = Unlocked /\ app = "up"
    BY DEF Init, ProcessInit, Fresh, NoRequests, NoRequest, NoAnswer
  <2> QED BY <2>1, FreshLive DEF CauseInv, Recovers, Unlocked
<1>2. IInv /\ AgentInv /\ CauseInv /\ [Next]_vars => CauseInv'
  BY CauseStep
<1> QED BY <1>1, <1>2, Invariance, AgentInvariance, PTL DEF Spec

\* A busy thread stays one something will still happen to, whatever turns fail,
\* agents exit and server processes end, and however often, but for one case: the
\* start of a turn told after Closed.
THEOREM BusyKeepsCauseHolds == ASSUME Unswept PROVE Spec => BusyKeepsCause
<1>1. IInv /\ AgentInv /\ CauseInv /\ [Next]_vars => [BusyHasCause => BusyHasCause' \/ LateStart]_vars
  BY CauseStep DEF CauseStays
<1> QED BY <1>1, Invariance, AgentInvariance, CauseInvariance, PTL DEF Spec, BusyKeepsCause
============================================================================
