------------------------------- MODULE Turns -------------------------------
(***************************************************************************)
(* One thread of internal/app/app.go: its status and prompt queue in the   *)
(* store, the agent sessions behind it, the pump that turns each session's *)
(* events into store events, and the requests and sweeps that run beside   *)
(* it.                                                                     *)
(*                                                                         *)
(* One store operation is one step: the store runs them one at a time and  *)
(* Append is one transaction.  Everything the code does between two store  *)
(* operations without holding promptMu may interleave with everything else.*)
(* What runs under promptMu is one operation at a time, so its program     *)
(* counter and locals are kept in the variable "lock".                     *)
(*                                                                         *)
(* Sessions and prompts are numbered in the order they come into being.    *)
(***************************************************************************)
EXTENDS Naturals, Sequences, SequencesExt

CONSTANTS
    MaxPrompts,   \* bound: prompts accepted
    MaxSess,      \* bound: sessions one server process starts
    MaxAsks,      \* bound: approval requests made
    MaxConfig,    \* bound: settings changes
    MaxCrashes,   \* bound: ends of the server process
    MaxChan,      \* bound: events in a session's channel; emit waits for room
    Ops           \* the optional operations of an instance

Operation == {"compact", "cancel", "archive", "settings", "interrupt",
              "approvals", "reap", "fail", "exit", "shutdown"}

ASSUME TurnsAssumption ==
    /\ MaxPrompts \in Nat /\ MaxSess \in Nat /\ MaxAsks \in Nat
    /\ MaxConfig \in Nat /\ MaxCrashes \in Nat /\ MaxChan \in Nat \ {0}
    /\ Ops \subseteq Operation

Session == 1..MaxSess
NoSession == 0
Approval == 1..MaxAsks
NoApproval == 0
Prompt == 1..MaxPrompts
Status == {"idle", "running", "awaiting", "error"}

VARIABLES
    \* -- the store: survives the end of the process
    status,     \* threads.status
    queue,      \* queued_prompts, oldest first
    accepted,   \* history: how many prompts have been accepted
    started,    \* history: the prompts that became a transcript item
    cancelled,  \* history: the prompts cancelled in the queue
    bound,      \* threads.external_session_id is set
    pending,    \* approvals without a decision
    config,     \* the thread's settings, as a version number
    archived,   \* threads.archived
    \* -- the server process
    app,        \* "down", "recovering", "up" or "closing"
    crashes,    \* ends of the process so far
    cutOff,     \* App.cutOff: "no", "listed" by Recover, "noted" by ResumeCutOff
    cur,        \* App.sessions[thread]
    lock,       \* App.promptMu and the locals of what runs under it
    arch,       \* an ArchiveThread request
    sett,       \* a SetThreadSettings request
    intr,       \* an Interrupt request that found no session
    reso,       \* a ResolveApproval request
    \* -- the sessions
    nsess,      \* sessions this process started
    nasks,      \* approval requests made so far
    sess        \* each session, its live record and its pump

queueVars == <<queue, accepted, started, cancelled>>
threadVars == <<bound, pending, config, archived>>
storeVars == <<status, queueVars, threadVars>>
requestVars == <<arch, sett, intr, reso>>
processVars == <<app, crashes, cutOff>>
agentVars == <<nsess, nasks, sess>>
vars == <<storeVars, processVars, cur, lock, requestVars, agentVars>>

----------------------------------------------------------------------------
Event(k) == [kind |-> k, ask |-> NoApproval]
AskEvent(a) == [kind |-> "ask", ask |-> a]

Unlocked == [pc |-> "free", by |-> "none", cfg |-> 0, q |-> <<>>, aps |-> {},
             l |-> NoSession, own |-> NoSession]
NoRequest == [pc |-> "none", l |-> NoSession]
NoAnswer == [pc |-> "none", ask |-> NoApproval, l |-> NoSession, waits |-> FALSE]

\* A session not started yet.  life: "open", "gone" (the process ended by
\* itself), "closing" (Close was called), "ended" or "failed" (exited is closed,
\* Closed will tell an error or none), "told" (Closed is in the channel), "dead"
\* (the channel is closed).  due: out of the registry, Close is about to be
\* called.  cfg: the settings it
\* runs with.  turns: turns given and not finished.  asks: approvals it waits
\* for.  chan: its events.  stale, idle (idleSince is set): its live record.
\* at, ok, mine, saw: its pump.
NotStarted == [life |-> "none", due |-> FALSE, cfg |-> 0, turns |-> 0, asks |-> {}, chan |-> <<>>,
               stale |-> FALSE, idle |-> FALSE,
               at |-> "loop", ok |-> TRUE, mine |-> FALSE, saw |-> "idle"]

\* A server process that has done nothing yet.
ProcessInit ==
    /\ cutOff = "no"
    /\ cur = NoSession
    /\ lock = Unlocked
    /\ arch = NoRequest /\ sett = NoRequest /\ intr = FALSE /\ reso = NoAnswer
    /\ nsess = 0
    /\ sess = [s \in Session |-> NotStarted]

Init ==
    /\ status = "idle"
    /\ queue = <<>> /\ accepted = 0 /\ started = <<>> /\ cancelled = {}
    /\ bound = FALSE /\ pending = {} /\ config = 0 /\ archived = FALSE
    /\ app = "up" /\ crashes = 0 /\ nasks = 0
    /\ ProcessInit

Busy == status \in {"running", "awaiting"}
Serving == app \in {"up", "closing"}
At(pc) == lock.pc = pc

\* There is room for another event of s.
Room(s) == Len(sess[s].chan) < MaxChan

\* closeSession, retire: s leaves the registry, if it is there, and its Close
\* is due.
Forget(s) == cur' = IF cur = s THEN NoSession ELSE cur
Unregister(s) ==
    /\ Forget(s)
    /\ sess' = IF s = NoSession THEN sess ELSE [sess EXCEPT ![s].due = TRUE]

\* Send finds the session alive; Close has returned.
Alive(s) == sess[s].life \in {"open", "gone"}
Closed(s) == s # NoSession => sess[s].life \in {"ended", "failed", "told", "dead"}

\* The operation under promptMu goes on, or ends.
Goto(pc) == lock' = [lock EXCEPT !.pc = pc]
\* A handoff's pump reads on; the recovered server starts to serve.
Unlock(ss) ==
    /\ lock' = Unlocked
    /\ sess' = IF lock.own = NoSession THEN ss ELSE [ss EXCEPT ![lock.own].at = "loop"]
    /\ app' = IF lock.by = "recover" THEN "up" ELSE app

----------------------------------------------------------------------------
(***************************************************************************)
(* The start of a turn, under promptMu: session(), then startPromptMeta.   *)
(***************************************************************************)
\* Where an operation goes on when it has its session.
Ready ==
    IF lock.by = "compact" THEN "compact"
    ELSE IF lock.by = "send" /\ lock.q # <<>> THEN "enqueue" ELSE "begin"

\* session(): the registered session, unless it is stale.
ReuseSession ==
    /\ At("session")
    /\ cur # NoSession
    /\ ~sess[cur].stale
    /\ lock' = [lock EXCEPT !.pc = Ready, !.l = cur]
    /\ UNCHANGED <<storeVars, processVars, cur, requestVars, agentVars>>

\* Mutant: a stale session is not retired.
StartBesideStale ==
    /\ At("session")
    /\ cur # NoSession
    /\ sess[cur].stale
    /\ Goto("start")
    /\ UNCHANGED <<storeVars, processVars, cur, requestVars, agentVars>>

RetireStale ==
    /\ At("session")
    /\ cur # NoSession
    /\ sess[cur].stale
    /\ lock' = [lock EXCEPT !.pc = "retired", !.l = cur]
    /\ Unregister(cur)
    /\ UNCHANGED <<storeVars, processVars, requestVars, nsess, nasks>>

NoneRegistered ==
    /\ \/ At("session") /\ cur = NoSession
       \/ At("retired") /\ Closed(lock.l)
    /\ Goto("start")
    /\ UNCHANGED <<storeVars, processVars, cur, requestVars, agentVars>>

\* The agent starts a process; it is registered and its pump runs.
StartSession ==
    LET s == nsess + 1 IN
    /\ At("start")
    /\ nsess < MaxSess
    /\ nsess' = s
    /\ cur' = s
    /\ sess' = [sess EXCEPT ![s].life = "open", ![s].cfg = lock.cfg, ![s].chan = <<Event("info")>>]
    /\ lock' = [lock EXCEPT !.pc = Ready, !.l = s]
    /\ UNCHANGED <<storeVars, processVars, requestVars, nasks>>

\* The agent does not start: a request answers with the error, a handoff puts
\* it on the thread.
StartFails ==
    /\ At("start")
    /\ lock.by # "recover"
    /\ status' = IF lock.by = "handoff" THEN "error" ELSE status
    /\ Unlock(sess)
    /\ UNCHANGED <<queueVars, threadVars, crashes, cutOff, cur, requestVars, nsess, nasks>>

\* Mutant: the new prompt goes before the queue.
EnqueueFirst ==
    /\ At("enqueue")
    /\ accepted' = accepted + 1
    /\ queue' = <<accepted'>> \o queue
    /\ Goto("begin")
    /\ UNCHANGED <<status, started, cancelled, threadVars, processVars, cur, requestVars, agentVars>>

\* SendPrompt on a thread that is idle with a queue: the new prompt goes
\* behind it, and the oldest starts.
Enqueue ==
    /\ At("enqueue")
    /\ accepted' = accepted + 1
    /\ queue' = Append(queue, accepted')
    /\ Goto("begin")
    /\ UNCHANGED <<status, started, cancelled, threadVars, processVars, cur, requestVars, agentVars>>

\* startPromptMeta's one Append: the prompt leaves the queue, becomes an item
\* of the transcript, and the thread is running.
BeginOldest ==
    /\ lock.q # <<>>
    /\ lock.by # "resume"
    /\ queue' = Tail(queue)
    /\ started' = Append(started, lock.q[1])
    /\ UNCHANGED accepted

BeginNew ==
    /\ lock.q = <<>>
    /\ lock.by = "send"
    /\ accepted' = accepted + 1
    /\ started' = Append(started, accepted')
    /\ UNCHANGED queue

\* The prompt that resumes a turn is the server's own.
BeginResume ==
    /\ lock.by = "resume"
    /\ UNCHANGED <<queue, started, accepted>>

Begin ==
    /\ At("begin")
    /\ BeginOldest \/ BeginNew \/ BeginResume
    /\ status' = "running"
    /\ sess' = [sess EXCEPT ![lock.l].idle = FALSE]
    /\ Goto("hand")
    /\ UNCHANGED <<cancelled, threadVars, processVars, cur, requestVars, nsess, nasks>>

\* CompactContext: the same without a prompt.
BeginCompact ==
    /\ At("compact")
    /\ status' = "running"
    /\ sess' = [sess EXCEPT ![lock.l].idle = FALSE]
    /\ Goto("hand")
    /\ UNCHANGED <<queueVars, threadVars, processVars, cur, requestVars, nsess, nasks>>

\* Session.Send looks whether the session is alive, tells the start of the turn,
\* and writes the text.  The process may end and Closed be told in between: the
\* start goes into the channel until it is closed.
HandFindsAlive ==
    /\ At("hand")
    /\ Alive(lock.l)
    /\ Goto("tell")
    /\ UNCHANGED <<storeVars, processVars, cur, requestVars, agentVars>>

HandTells ==
    /\ At("tell")
    /\ sess[lock.l].life # "dead" /\ Room(lock.l)
    /\ sess' = [sess EXCEPT ![lock.l].chan = Append(@, Event("started"))]
    /\ Goto("write")
    /\ UNCHANGED <<storeVars, processVars, cur, requestVars, nsess, nasks>>

HandWrites ==
    /\ At("write")
    /\ sess[lock.l].life \in {"open", "closing"}
    /\ Unlock([sess EXCEPT ![lock.l].turns = @ + 1])
    /\ UNCHANGED <<storeVars, crashes, cutOff, cur, requestVars, nsess, nasks>>

\* The session is not alive, its channel is closed, or full while it ends, or
\* its stdin is closed.
Refused ==
    \/ At("hand") /\ ~Alive(lock.l)
    \/ At("tell") /\ ~Alive(lock.l) /\ (Room(lock.l) => sess[lock.l].life = "dead")
    \/ At("write") /\ sess[lock.l].life # "open"

\* Mutant: the failure is not put on the thread.
HandFailsQuietly ==
    /\ Refused
    /\ lock.by # "recover"
    /\ Unlock(sess)
    /\ UNCHANGED <<storeVars, crashes, cutOff, cur, requestVars, nsess, nasks>>

\* Mutant: the prompt goes back into the queue.
HandFailsRequeuing ==
    /\ Refused
    /\ lock.by # "recover"
    /\ status' = "error"
    /\ queue' = <<Last(started)>> \o queue
    /\ Unlock(sess)
    /\ UNCHANGED <<accepted, started, cancelled, threadVars, crashes, cutOff, cur, requestVars, nsess, nasks>>

\* The failure of Send is put on the thread.
HandFails ==
    /\ Refused
    /\ lock.by # "recover"
    /\ status' = "error"
    /\ Unlock(sess)
    /\ UNCHANGED <<queueVars, threadVars, crashes, cutOff, cur, requestVars, nsess, nasks>>

StartOfTurn ==
    \/ ReuseSession \/ RetireStale \/ NoneRegistered
    \/ StartSession \/ StartFails
    \/ Enqueue \/ Begin \/ BeginCompact
    \/ HandFindsAlive \/ HandTells \/ HandWrites \/ HandFails

----------------------------------------------------------------------------
(***************************************************************************)
(* Requests and sweeps that take promptMu.                                 *)
(***************************************************************************)
\* The lock is taken, and the thread and its queue are read.
Acquire(by, pc) ==
    /\ At("free")
    /\ lock' = [Unlocked EXCEPT !.pc = pc, !.by = by, !.cfg = config, !.q = queue]

\* Mutant: a busy thread is not looked for.
SendPromptAlways ==
    /\ Serving
    /\ accepted < MaxPrompts
    /\ Acquire("send", "session")
    /\ archived' = FALSE
    /\ UNCHANGED <<status, queueVars, bound, pending, config, processVars, cur, requestVars, agentVars>>

\* SendPrompt.  An archived thread comes back.
SendPrompt ==
    /\ Serving
    /\ accepted < MaxPrompts
    /\ Acquire("send", IF Busy THEN "queue" ELSE "session")
    /\ archived' = FALSE
    /\ UNCHANGED <<status, queueVars, bound, pending, config, processVars, cur, requestVars, agentVars>>

\* SendPrompt on a busy thread.
QueuePrompt ==
    /\ At("queue")
    /\ accepted' = accepted + 1
    /\ queue' = Append(queue, accepted')
    /\ Unlock(sess)
    /\ UNCHANGED <<status, started, cancelled, threadVars, crashes, cutOff, cur, requestVars, nsess, nasks>>

\* CancelQueuedPrompt: reads the queue and removes the prompt under the lock.
CancelQueuedPrompt(p) ==
    /\ "cancel" \in Ops
    /\ Serving
    /\ At("free")
    /\ \E i \in 1..Len(queue) : queue[i] = p /\ queue' = RemoveAt(queue, i)
    /\ cancelled' = cancelled \cup {p}
    /\ UNCHANGED <<status, accepted, started, threadVars, processVars, cur, lock, requestVars, agentVars>>

CompactContext ==
    /\ "compact" \in Ops
    /\ Serving
    /\ ~Busy
    /\ Acquire("compact", "session")
    /\ UNCHANGED <<storeVars, processVars, cur, requestVars, agentVars>>

\* Mutant: the sweep does not take promptMu.
ReapUnlocked ==
    /\ "reap" \in Ops
    /\ app = "up"
    /\ cur # NoSession
    /\ sess[cur].idle /\ sess[cur].at # "handoff"
    /\ ~Busy
    /\ Unregister(cur)
    /\ UNCHANGED <<storeVars, processVars, lock, requestVars, nsess, nasks>>

\* reapIdle unregisters under the lock and closes outside it.  The stamp must be
\* idleTimeout old, which one set by a handoff that still waits is not.
ReapIdle ==
    /\ "reap" \in Ops
    /\ app = "up"
    /\ At("free")
    /\ cur # NoSession
    /\ sess[cur].idle /\ sess[cur].at # "handoff"
    /\ ~Busy
    /\ Unregister(cur)
    /\ UNCHANGED <<storeVars, processVars, lock, requestVars, nsess, nasks>>

LockedRequest ==
    \/ SendPrompt \/ QueuePrompt \/ CompactContext \/ ReapIdle
    \/ \E p \in Prompt : CancelQueuedPrompt(p)

----------------------------------------------------------------------------
(***************************************************************************)
(* pump: one goroutine per session reads its events.                       *)
(***************************************************************************)
\* The pump of s is about to read an event of kind k.
Reads(s, k) ==
    /\ sess[s].at = "loop"
    /\ sess[s].chan # <<>>
    /\ Head(sess[s].chan).kind = k
Popped(s) == [sess EXCEPT ![s].chan = Tail(@)]
Kinds == {"info", "started", "ask", "done", "failed", "closed", "died"}

\* Shutting down: the pumps read and write nothing.
PumpDrops(s) ==
    /\ app = "closing"
    /\ \E k \in Kinds : Reads(s, k)
    /\ sess' = Popped(s)
    /\ UNCHANGED <<storeVars, processVars, cur, lock, requestVars, nsess, nasks>>

PumpInfo(s) ==
    /\ app # "closing"
    /\ Reads(s, "info")
    /\ bound' = TRUE
    /\ sess' = Popped(s)
    /\ UNCHANGED <<status, queueVars, pending, config, archived, processVars, cur, lock, requestVars, nsess, nasks>>

PumpStarted(s) ==
    /\ app # "closing"
    /\ Reads(s, "started")
    /\ status' = "running"
    /\ sess' = Popped(s)
    /\ UNCHANGED <<queueVars, threadVars, processVars, cur, lock, requestVars, nsess, nasks>>

PumpAsk(s) ==
    /\ app # "closing"
    /\ Reads(s, "ask")
    /\ pending' = pending \cup {Head(sess[s].chan).ask}
    /\ status' = "awaiting"
    /\ sess' = Popped(s)
    /\ UNCHANGED <<queueVars, bound, config, archived, processVars, cur, lock, requestVars, nsess, nasks>>

\* A session rule answers, and the thread does not wait.
PumpAutoResolve(s) ==
    LET a == Head(sess[s].chan).ask IN
    /\ app # "closing"
    /\ Reads(s, "ask")
    /\ a \in sess[s].asks
    /\ sess[s].life = "open"
    /\ sess' = [sess EXCEPT ![s].chan = Tail(@), ![s].asks = @ \ {a}]
    /\ UNCHANGED <<storeVars, processVars, cur, lock, requestVars, nsess, nasks>>

\* TurnCompleted stamps the session idle, then waits for promptMu.
PumpCompleted(s) ==
    /\ app # "closing"
    /\ Reads(s, "done") \/ Reads(s, "failed")
    /\ sess' = [sess EXCEPT ![s].chan = Tail(@), ![s].idle = TRUE,
                            ![s].at = "handoff", ![s].ok = Head(sess[s].chan).kind = "done"]
    /\ UNCHANGED <<storeVars, processVars, cur, lock, requestVars, nsess, nasks>>

HandoffAcquire(s) ==
    /\ sess[s].at = "handoff"
    /\ At("free")
    /\ lock' = [Unlocked EXCEPT !.pc = "settle", !.by = "handoff", !.q = queue, !.aps = pending,
                                !.l = s, !.own = s]
    /\ UNCHANGED <<storeVars, processVars, cur, requestVars, agentVars>>

\* Mutant: the turn's outcome is written as the status.
SettleRaw ==
    /\ At("settle")
    /\ pending' = pending \ lock.aps
    /\ status' = IF lock.q # <<>> THEN status ELSE IF sess[lock.own].ok THEN "done" ELSE "error"
    /\ Goto("settled")
    /\ UNCHANGED <<queueVars, bound, config, archived, processVars, cur, requestVars, agentVars>>

\* Mutant: what was left unanswered stays pending.
SettleUnanswered ==
    /\ At("settle")
    /\ status' = IF lock.q # <<>> THEN status ELSE IF sess[lock.own].ok THEN "idle" ELSE "error"
    /\ Goto("settled")
    /\ UNCHANGED <<queueVars, threadVars, processVars, cur, requestVars, agentVars>>

\* The completed turn goes into the log: what it left unanswered is denied,
\* and the thread is idle unless a prompt waits.
Settle ==
    /\ At("settle")
    /\ pending' = pending \ lock.aps
    /\ status' = IF lock.q # <<>> THEN status ELSE IF sess[lock.own].ok THEN "idle" ELSE "error"
    /\ Goto("settled")
    /\ UNCHANGED <<queueVars, bound, config, archived, processVars, cur, requestVars, agentVars>>

\* A stale session is retired, and the next prompt starts on a fresh one.
HandoffRetire ==
    /\ At("settled")
    /\ sess[lock.own].stale
    /\ Unregister(lock.own)
    /\ Goto("drain")
    /\ UNCHANGED <<storeVars, processVars, requestVars, nsess, nasks>>

\* Mutant: the thread goes idle and the next prompt is not started.
HandoffForgetsNext ==
    /\ lock.q # <<>>
    /\ At("settled") /\ ~sess[lock.own].stale
    /\ status' = "idle"
    /\ Unlock(sess)
    /\ UNCHANGED <<queueVars, threadVars, crashes, cutOff, cur, requestVars, nsess, nasks>>

\* The oldest queued prompt follows, on this session or on a fresh one.
HandoffNext ==
    /\ lock.q # <<>>
    /\ \/ At("settled") /\ ~sess[lock.own].stale /\ lock' = [lock EXCEPT !.pc = "begin", !.cfg = config]
       \/ At("drain") /\ Closed(lock.own) /\ lock' = [lock EXCEPT !.pc = "session", !.cfg = config]
    /\ UNCHANGED <<storeVars, processVars, cur, requestVars, agentVars>>

HandoffDone ==
    /\ lock.q = <<>>
    /\ \/ At("settled") /\ ~sess[lock.own].stale
       \/ At("drain") /\ Closed(lock.own)
    /\ Unlock(sess)
    /\ UNCHANGED <<storeVars, crashes, cutOff, cur, requestVars, nsess, nasks>>

\* Closed: the session leaves the registry, the status is read, and written.
PumpClosed(s) ==
    /\ app # "closing"
    /\ Reads(s, "closed") \/ Reads(s, "died")
    /\ Forget(s)
    /\ sess' = [sess EXCEPT ![s].chan = Tail(@), ![s].at = "closed",
                            ![s].ok = Head(sess[s].chan).kind = "closed", ![s].mine = cur = s]
    /\ UNCHANGED <<storeVars, processVars, lock, requestVars, nsess, nasks>>

PumpClosedRead(s) ==
    /\ sess[s].at = "closed"
    /\ sess' = [sess EXCEPT ![s].at = "write", ![s].saw = status]
    /\ UNCHANGED <<storeVars, processVars, cur, lock, requestVars, nsess, nasks>>

\* A session that ended with an error always puts it on the thread.  One that
\* was closed makes the thread idle, unless it was replaced and the thread is
\* busy.
PumpClosedWrite(s) ==
    /\ sess[s].at = "write"
    /\ status' = IF ~sess[s].ok THEN "error"
                 ELSE IF ~sess[s].mine /\ sess[s].saw \in {"running", "awaiting"} THEN status
                 ELSE IF sess[s].saw # "idle" THEN "idle"
                 ELSE status
    /\ sess' = [sess EXCEPT ![s].at = "loop"]
    /\ UNCHANGED <<queueVars, threadVars, processVars, cur, lock, requestVars, nsess, nasks>>

Pump(s) ==
    \/ PumpDrops(s) \/ PumpInfo(s) \/ PumpStarted(s) \/ PumpAsk(s) \/ PumpAutoResolve(s)
    \/ PumpCompleted(s) \/ HandoffAcquire(s)
    \/ PumpClosed(s) \/ PumpClosedRead(s) \/ PumpClosedWrite(s)

Handoff == Settle \/ HandoffRetire \/ HandoffNext \/ HandoffDone

----------------------------------------------------------------------------
(***************************************************************************)
(* The agent behind a session, as the adapters report it.                  *)
(***************************************************************************)
AgentAlive(s) == sess[s].life \in {"open", "closing"}

\* The agent ends a turn, answered or not.
AgentCompletes(s) ==
    /\ AgentAlive(s)
    /\ sess[s].turns > 0 /\ Room(s)
    /\ \E k \in {"done", "failed"} :
         /\ k = "failed" => "fail" \in Ops
         /\ sess' = [sess EXCEPT ![s].turns = @ - 1, ![s].asks = {}, ![s].chan = Append(@, Event(k))]
    /\ UNCHANGED <<storeVars, processVars, cur, lock, requestVars, nsess, nasks>>

AgentAsks(s) ==
    /\ "approvals" \in Ops
    /\ AgentAlive(s)
    /\ sess[s].turns > 0 /\ Room(s)
    /\ nasks < MaxAsks
    /\ nasks' = nasks + 1
    /\ sess' = [sess EXCEPT ![s].asks = @ \cup {nasks'}, ![s].chan = Append(@, AskEvent(nasks'))]
    /\ UNCHANGED <<storeVars, processVars, cur, lock, requestVars, nsess>>

\* The process ends by itself.
AgentExits(s) ==
    /\ "exit" \in Ops
    /\ sess[s].life = "open"
    /\ sess' = [sess EXCEPT ![s].life = "gone"]
    /\ UNCHANGED <<storeVars, processVars, cur, lock, requestVars, nsess, nasks>>

CloseCall(s) ==
    /\ sess[s].due
    /\ sess' = [sess EXCEPT ![s].due = FALSE,
                            ![s].life = IF @ = "open" THEN "closing" ELSE IF @ = "gone" THEN "ended" ELSE @]
    /\ UNCHANGED <<storeVars, processVars, cur, lock, requestVars, nsess, nasks>>

\* run has read the last line and reaped the process.  An error is told only of
\* one that was not closed.
AgentReaped(s) ==
    /\ \E l \in {"ended", "failed"} :
         /\ \/ sess[s].life = "gone"
            \/ sess[s].life = "closing" /\ l = "ended"
         /\ sess' = [sess EXCEPT ![s].life = l]
    /\ UNCHANGED <<storeVars, processVars, cur, lock, requestVars, nsess, nasks>>

\* Closed is told, and the channel closed afterwards.
AgentEnds(s) ==
    /\ sess[s].life \in {"ended", "failed"} /\ Room(s)
    /\ sess' = [sess EXCEPT ![s].life = "told", ![s].turns = 0, ![s].asks = {},
                            ![s].chan = Append(@, Event(IF sess[s].life = "ended" THEN "closed" ELSE "died"))]
    /\ UNCHANGED <<storeVars, processVars, cur, lock, requestVars, nsess, nasks>>

AgentStops(s) ==
    /\ sess[s].life = "told"
    /\ sess' = [sess EXCEPT ![s].life = "dead"]
    /\ UNCHANGED <<storeVars, processVars, cur, lock, requestVars, nsess, nasks>>

Agent(s) ==
    \/ AgentCompletes(s) \/ AgentAsks(s)
    \/ AgentExits(s) \/ CloseCall(s) \/ AgentReaped(s) \/ AgentEnds(s) \/ AgentStops(s)

----------------------------------------------------------------------------
(***************************************************************************)
(* Requests that do not take promptMu.                                     *)
(***************************************************************************)
\* ArchiveThread reads the thread, closes the session of an idle one, and
\* appends.
ArchiveRead ==
    /\ "archive" \in Ops
    /\ Serving
    /\ arch.pc = "none"
    /\ ~archived
    /\ arch' = [arch EXCEPT !.pc = IF Busy THEN "append" ELSE "close"]
    /\ UNCHANGED <<storeVars, processVars, cur, lock, sett, intr, reso, agentVars>>

ArchiveClose ==
    /\ arch.pc = "close"
    /\ Unregister(cur)
    /\ arch' = [pc |-> "append", l |-> cur]
    /\ UNCHANGED <<storeVars, processVars, lock, sett, intr, reso, nsess, nasks>>

ArchiveAppend ==
    /\ arch.pc = "append"
    /\ Closed(arch.l)
    /\ archived' = TRUE
    /\ arch' = NoRequest
    /\ UNCHANGED <<status, queueVars, bound, pending, config, processVars, cur, lock, sett, intr, reso, agentVars>>

\* SetThreadSettings on an idle thread closes the session and appends; during
\* a turn it pushes the change into the session or marks it stale, and appends.
SettingsRead ==
    /\ "settings" \in Ops
    /\ Serving
    /\ sett.pc = "none"
    /\ config < MaxConfig
    /\ sett' = [sett EXCEPT !.pc = IF Busy THEN "live" ELSE "close"]
    /\ UNCHANGED <<storeVars, processVars, cur, lock, arch, intr, reso, agentVars>>

SettingsClose ==
    /\ sett.pc = "close"
    /\ Unregister(cur)
    /\ sett' = [pc |-> "append", l |-> cur]
    /\ UNCHANGED <<storeVars, processVars, lock, arch, intr, reso, nsess, nasks>>

SettingsLive ==
    /\ sett.pc = "live"
    /\ sett' = [pc |-> IF cur = NoSession THEN "append" ELSE "mark", l |-> cur]
    /\ UNCHANGED <<storeVars, processVars, cur, lock, arch, intr, reso, agentVars>>

SettingsMark ==
    /\ sett.pc = "mark"
    /\ \/ sess' = [sess EXCEPT ![sett.l].stale = TRUE]
       \/ sess[sett.l].life = "open" /\ sess' = [sess EXCEPT ![sett.l].cfg = config + 1]
    /\ sett' = [pc |-> "append", l |-> NoSession]
    /\ UNCHANGED <<storeVars, processVars, cur, lock, arch, intr, reso, nsess, nasks>>

SettingsAppend ==
    /\ sett.pc = "append"
    /\ Closed(sett.l)
    /\ config' = config + 1
    /\ sett' = NoRequest
    /\ UNCHANGED <<status, queueVars, bound, pending, archived, processVars, cur, lock, arch, intr, reso, agentVars>>

\* Interrupt with no session makes the projection agree.  With one it asks the
\* agent, which answers with the end of the turn.
InterruptRead ==
    /\ "interrupt" \in Ops
    /\ Serving
    /\ ~intr
    /\ cur = NoSession
    /\ intr' = TRUE
    /\ UNCHANGED <<storeVars, processVars, cur, lock, arch, sett, reso, agentVars>>

InterruptAppend ==
    /\ intr
    /\ status' = "idle"
    /\ intr' = FALSE
    /\ UNCHANGED <<queueVars, threadVars, processVars, cur, lock, arch, sett, reso, agentVars>>

\* ResolveApproval reads the approval and the registry, tells the session,
\* reads the thread, and appends.
ResolveRead(a) ==
    /\ Serving
    /\ reso.pc = "none"
    /\ a \in pending
    /\ cur # NoSession
    /\ reso' = [NoAnswer EXCEPT !.pc = "tell", !.ask = a, !.l = cur]
    /\ UNCHANGED <<storeVars, processVars, cur, lock, arch, sett, intr, agentVars>>

ResolveTell ==
    /\ reso.pc = "tell"
    /\ LET told == sess[reso.l].life = "open" /\ reso.ask \in sess[reso.l].asks IN
         /\ sess' = [sess EXCEPT ![reso.l].asks = @ \ {reso.ask}]
         /\ reso' = IF told THEN [reso EXCEPT !.pc = "read"] ELSE NoAnswer
    /\ UNCHANGED <<storeVars, processVars, cur, lock, arch, sett, intr, nsess, nasks>>

ResolveReadThread ==
    /\ reso.pc = "read"
    /\ reso' = [reso EXCEPT !.pc = "append", !.waits = status = "awaiting"]
    /\ UNCHANGED <<storeVars, processVars, cur, lock, arch, sett, intr, agentVars>>

ResolveAppend ==
    /\ reso.pc = "append"
    /\ pending' = pending \ {reso.ask}
    /\ status' = IF reso.waits THEN "running" ELSE status
    /\ reso' = NoAnswer
    /\ UNCHANGED <<queueVars, bound, config, archived, processVars, cur, lock, arch, sett, intr, agentVars>>

FreeRequest ==
    \/ ArchiveRead \/ ArchiveClose \/ ArchiveAppend
    \/ SettingsRead \/ SettingsClose \/ SettingsLive \/ SettingsMark \/ SettingsAppend
    \/ InterruptRead \/ InterruptAppend
    \/ \E a \in Approval : ResolveRead(a)
    \/ ResolveTell \/ ResolveReadThread \/ ResolveAppend

----------------------------------------------------------------------------
(***************************************************************************)
(* The end of the server process, and its next start.                      *)
(***************************************************************************)
\* Shutdown: the pumps stop writing, then every registered session is closed.
Shutdown ==
    /\ "shutdown" \in Ops
    /\ app = "up"
    /\ app' = "closing"
    /\ sess' = IF cur = NoSession THEN sess ELSE [sess EXCEPT ![cur].due = TRUE]
    /\ UNCHANGED <<storeVars, crashes, cutOff, cur, lock, requestVars, nsess, nasks>>

Down ==
    /\ crashes < MaxCrashes
    /\ crashes' = crashes + 1
    /\ app' = "down"
    /\ cutOff' = "no"
    /\ cur' = NoSession
    /\ lock' = Unlocked
    /\ arch' = NoRequest /\ sett' = NoRequest /\ intr' = FALSE /\ reso' = NoAnswer
    /\ nsess' = 0
    /\ sess' = [s \in Session |-> NotStarted]

\* The process ends, by a crash or after Shutdown.  The agents' processes go
\* with it.
Crash ==
    /\ app # "down"
    /\ Down
    /\ UNCHANGED <<storeVars, nasks>>

\* Recover gives up when a queued prompt does not start, and the server ends.
RecoverFails ==
    /\ lock.by = "recover"
    /\ \/ At("start") /\ UNCHANGED status
       \/ Refused /\ status' = "error"
    /\ Down
    /\ UNCHANGED <<queueVars, threadVars, nasks>>

Boot ==
    /\ app = "down"
    /\ app' = "recovering"
    /\ UNCHANGED <<storeVars, crashes, cutOff, cur, lock, requestVars, agentVars>>

\* Recover leaves a turn that was cut off to ResumeCutOff if it can be resumed
\* and the setting says so.
RecoverLists ==
    /\ app = "recovering" /\ At("free")
    /\ Busy /\ bound
    /\ cutOff' = "listed"
    /\ app' = "up"
    /\ UNCHANGED <<storeVars, crashes, cur, lock, requestVars, agentVars>>

\* Otherwise the thread is idle, and its oldest queued prompt starts.
RecoverSettles ==
    /\ app = "recovering" /\ At("free")
    /\ Busy
    /\ pending' = {}
    /\ status' = "idle"
    /\ UNCHANGED <<queueVars, bound, config, archived, processVars, cur, lock, requestVars, agentVars>>

RecoverQueue ==
    /\ app = "recovering"
    /\ ~Busy
    /\ queue # <<>>
    /\ Acquire("recover", "session")
    /\ UNCHANGED <<storeVars, processVars, cur, requestVars, agentVars>>

RecoverNothing ==
    /\ app = "recovering" /\ At("free")
    /\ ~Busy
    /\ queue = <<>>
    /\ app' = "up"
    /\ UNCHANGED <<storeVars, crashes, cutOff, cur, lock, requestVars, agentVars>>

\* ResumeCutOff appends its note without promptMu, then takes it.
ResumeNote ==
    /\ cutOff = "listed"
    /\ cutOff' = "noted"
    /\ pending' = {}
    /\ status' = "idle"
    /\ UNCHANGED <<queueVars, bound, config, archived, app, crashes, cur, lock, requestVars, agentVars>>

ResumeAcquire ==
    /\ cutOff = "noted"
    /\ Acquire("resume", "session")
    /\ cutOff' = "no"
    /\ UNCHANGED <<storeVars, app, crashes, cur, requestVars, agentVars>>

Process ==
    \/ Shutdown \/ Crash \/ Boot
    \/ RecoverFails \/ RecoverLists \/ RecoverSettles \/ RecoverQueue \/ RecoverNothing
    \/ ResumeNote \/ ResumeAcquire

----------------------------------------------------------------------------
Next ==
    \/ StartOfTurn \/ Handoff \/ LockedRequest \/ FreeRequest \/ Process
    \/ \E s \in Session : Pump(s) \/ Agent(s)

Spec == Init /\ [][Next]_vars

\* The server's own steps happen; every turn ends; a process that was closed or
\* is gone is reaped.  Requests, the end of the process and its next start need
\* not happen.
FairSpec ==
    /\ Spec
    /\ WF_vars(StartOfTurn) /\ WF_vars(Handoff) /\ WF_vars(QueuePrompt)
    /\ WF_vars(ResumeNote) /\ SF_vars(ResumeAcquire)
    /\ \A s \in Session :
         /\ WF_vars(Pump(s) /\ sess[s].at # "handoff")
         /\ SF_vars(HandoffAcquire(s))
         /\ WF_vars(AgentCompletes(s))
         /\ WF_vars(CloseCall(s))
         /\ WF_vars(AgentReaped(s))
         /\ WF_vars(AgentEnds(s))
         /\ WF_vars(AgentStops(s))

----------------------------------------------------------------------------
(***************************************************************************)
(* Properties.                                                             *)
(***************************************************************************)
EventRecord == {Event(k) : k \in Kinds \ {"ask"}} \cup {AskEvent(a) : a \in Approval}

Life == {"none", "open", "gone", "closing", "ended", "failed", "told", "dead"}
SessionRecord ==
    [life : Life, due : BOOLEAN, cfg : 0..MaxConfig,
     turns : Nat, asks : SUBSET Approval, chan : Seq(EventRecord),
     stale : BOOLEAN, idle : BOOLEAN,
     at : {"loop", "handoff", "closed", "write"}, ok : BOOLEAN, mine : BOOLEAN, saw : Status]

LockPhase == {"free", "queue", "session", "retired", "start", "enqueue", "begin", "compact",
              "hand", "tell", "write", "settle", "settled", "drain"}
LockHolder == {"none", "send", "compact", "handoff", "recover", "resume"}
LockRecord ==
    [pc : LockPhase, by : LockHolder, cfg : 0..MaxConfig, q : Seq(Prompt), aps : SUBSET Approval,
     l : {NoSession} \cup Session, own : {NoSession} \cup Session]

StoreTypeOK ==
    /\ status \in Status
    /\ queue \in Seq(Prompt) /\ started \in Seq(Prompt)
    /\ accepted \in 0..MaxPrompts /\ cancelled \subseteq Prompt
    /\ bound \in BOOLEAN /\ pending \subseteq Approval /\ config \in 0..MaxConfig /\ archived \in BOOLEAN

ServerTypeOK ==
    /\ app \in {"down", "recovering", "up", "closing"} /\ crashes \in 0..MaxCrashes
    /\ cutOff \in {"no", "listed", "noted"}
    /\ cur \in {NoSession} \cup Session
    /\ lock \in LockRecord
    /\ arch \in [pc : {"none", "close", "append"}, l : {NoSession} \cup Session]
    /\ sett \in [pc : {"none", "close", "live", "mark", "append"}, l : {NoSession} \cup Session]
    /\ intr \in BOOLEAN
    /\ reso \in [pc : {"none", "tell", "read", "append"}, ask : {NoApproval} \cup Approval,
                 l : {NoSession} \cup Session, waits : BOOLEAN]

SessionTypeOK ==
    /\ nsess \in 0..MaxSess /\ nasks \in 0..MaxAsks
    /\ sess \in [Session -> SessionRecord]

\* Every variable has its type.  A turn's outcome ("done", "failed") is not a
\* thread's status.
TypeOK == StoreTypeOK /\ ServerTypeOK /\ SessionTypeOK

\* Whatever the sessions, the settings and the end of the process do, the
\* prompts go through the queue as PromptQueue says.
PQ == INSTANCE PromptQueue WITH waiting <- queue
ImplementsQueue == PQ!Spec

\* So they start in the order they were accepted in, once each, also when a
\* handoff and a request meet (app.go:949-969, 1502-1548).
PromptsInOrder == PQ!InOrder

\* And none disappears: not with a session, a handoff that fails or the server
\* process (app.go:217-269, 960-967, 1073-1092).
NoPromptLost == PQ!NoneLost

Open == {s \in Session : sess[s].life = "open"}

\* Two processes never both work for the thread: an open session that is not
\* the registered one has its Close due.  session() (app.go:1272) looks at the
\* registry without the lock that starts are made under, and four other places
\* take sessions out of it.
OneAgent ==
    \A s \in Open : s = cur \/ sess[s].due

\* The agent is given one turn at a time: SendPrompt queues "while a turn or
\* approval is active" (app.go:912-913).
OneTurn ==
    \A s \in Open : sess[s].turns <= 1

\* reapIdle never takes the process from under a turn (app.go:167-171).
ReapSparesTurns ==
    \A s \in Session : (sess[s].due \/ sess[s].life = "closing") => sess[s].turns = 0

\* The pump of s is about to take the thread out of a busy status.
Settles(s) ==
    \/ sess[s].at = "handoff" /\ lock.own # s
    \/ sess[s].at = "closed" /\ (sess[s].mine \/ ~sess[s].ok)
    \/ /\ sess[s].at = "write"
       /\ ~sess[s].ok \/ sess[s].saw = "error" \/ (sess[s].mine /\ sess[s].saw # "idle")

\* A turn is given to s, or the event that ends it is on its way.
EndsTurn(s) ==
    \/ sess[s].turns > 0
    \/ Settles(s)
    \/ \E i \in 1..Len(sess[s].chan) : sess[s].chan[i].kind \in {"done", "failed", "died"}
    \/ s = cur /\ \E i \in 1..Len(sess[s].chan) : sess[s].chan[i].kind = "closed"
    \/ s = cur /\ sess[s].life \in {"gone", "ended", "failed"}

\* The holder of promptMu is about to give the thread a turn, or to end one.
LockEnds ==
    \/ lock.pc \in {"settle", "begin", "hand", "tell", "write"}
    \/ lock.by = "handoff" /\ lock.q # <<>>

\* A busy thread is one something will still happen to.
BusyHasCause ==
    Busy /\ app = "up" => LockEnds \/ cutOff = "listed" \/ \E s \in Session : EndsTurn(s)

\* The pump reads the start of a turn that was told after Closed, as that of a Send
\* that found the session alive may be (claude.go:584-597, 735-745).
LateStart ==
    \E s \in Session :
        /\ Reads(s, "started")
        /\ sess[s].life \in {"told", "dead"}
        /\ \A i \in 1..Len(sess[s].chan) : sess[s].chan[i].kind \notin {"closed", "died"}
        /\ sess' = Popped(s)

\* Sessions fail, are closed and die at any point, and a thread shown as busy
\* stays one something will still happen to (app.go:1088-1092, 1551-1572), but
\* for one case: a start told after Closed makes it busy with nothing to come.
BusyKeepsCause ==
    [][BusyHasCause => BusyHasCause' \/ LateStart]_vars

\* An approval that waits for an answer has an agent that waits for it, unless
\* the thread still has events to come.  pump says why it denies the rest: left
\* pending, its "card would come back on every reload and answering it would
\* resolve a request nobody is waiting on" (app.go:1508-1510).
ApprovalHasAgent ==
    pending # {} /\ app = "up" => lock.pc # "free" \/ cutOff = "listed" \/ \E s \in Session : EndsTurn(s)

\* ArchiveThread: "An idle session is closed so the agent process goes away; a
\* running turn keeps going" (app.go:864-866).
ArchiveSparesTurns ==
    [][arch.pc = "close" /\ arch'.pc = "append" => cur = NoSession \/ ~Busy]_vars

NobodyExits == \A s \in Session : sess[s].life # "gone"

\* A prompt that waits is started or cancelled, unless a session fails to start
\* for it and leaves the thread in error (app.go:1502-1548).  A queue outlives
\* an agent process that exits (app.go:949-969) and a running status that nothing
\* will end, as an answer gives a thread whose turn ended meanwhile although it
\* "must not fake a live turn" (app.go:1184-1185): it drains if there is neither.
QueueDrains == [](NobodyExits /\ BusyHasCause) => (queue # <<>> ~> (queue = <<>> \/ status = "error"))
============================================================================
