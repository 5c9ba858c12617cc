-------------------------- MODULE WorktreesProofs --------------------------
(***************************************************************************)
(* What holds of the worktrees of any number of threads, prompts, sweeps,  *)
(* removals, deletions and rewinds, and of any subset of the operations.   *)
(***************************************************************************)
EXTENDS Worktrees, TLAPS

Branch == {"temp", "named"}
Dir == Threads \cup {NoDir}
Row == [state : {"none", "live", "deleted"}, wt : Dir, branch : Branch, turn : Nat]
Checkout == [there : BOOLEAN, branch : Branch, done : SUBSET Nat, open : SUBSET Nat, ignored : SUBSET Nat]
Session == [cwd : Threads \cup {NoDir, Main}, since : Nat]
Checkpoint == [taken : BOOLEAN, done : SUBSET Nat, open : SUBSET Nat]
Prompt == [turn : Nat, cp : Checkpoint]

SendBefore == [pc : {"checkpoint", "lock"}, t : Threads, wt : Dir, cp : Checkpoint]
SendLocked == [pc : {"begin"}, t : Threads, wt : Dir, cp : Checkpoint, live : Session]
SweepListed == [pc : {"next"}, mark : Nat, list : SUBSET (Threads \X Threads)]
SweepOne == [pc : {"lock", "remove"}, mark : Nat, list : SUBSET (Threads \X Threads), t : Threads, d : Threads]
ReqCloses == [pc : {"close", "look"}, op : {"remove", "delete"}, t : Threads, d : Dir, force : BOOLEAN, closed : Nat, mark : Nat]
ReqGit == [pc : {"git"}, op : {"remove", "delete"}, t : Threads, d : Threads, force : BOOLEAN, closed : Nat, mark : Nat]
ReqAppends == [pc : {"append"}, op : {"remove", "delete"}, t : Threads]
RewindState == [pc : {"restore"}, t : Threads, d : Dir, i : Nat \ {0}, cp : Checkpoint, files : BOOLEAN]
CreateState == [pc : {"add"}, t : Threads, wt : Threads, branch : Branch]

StoreTypes ==
    /\ thread \in [Threads -> Row]
    /\ prompts \in [Threads -> Seq(Prompt)]
    /\ whose \in Seq(Threads)
DiskTypes ==
    /\ git \in [Threads -> Checkout]
    /\ session \in [Threads -> Session]
SendTypes ==
    /\ send \in [Senders -> {Idle} \cup SendBefore \cup SendLocked]
    /\ \A s \in Senders : send[s].pc = "checkpoint" => send[s].wt # NoDir
OtherTypes ==
    /\ sweep \in {Idle} \cup SweepListed \cup SweepOne
    /\ req \in {Idle} \cup ReqCloses \cup ReqGit \cup ReqAppends
    /\ req.pc \in {"close", "look"} /\ req.op = "remove" => req.d # NoDir
    /\ rewind \in {Idle} \cup RewindState
    /\ rewind.pc = "restore" /\ rewind.files => rewind.d # NoDir
    /\ create \in {Idle} \cup CreateState
    /\ told \in [requests : Nat, sweeps : Nat, promised : SUBSET Threads]

TypeOK == StoreTypes /\ DiskTypes /\ SendTypes /\ OtherTypes

\* Who is between the two steps it does under promptMu holds it.
LockInv ==
    /\ \A s \in Senders : send[s].pc = "begin" => lock = s
    /\ sweep.pc = "remove" => lock = "sweep"
    /\ rewind.pc = "restore" => lock = "rewind"

\* A thread that has not had its worktree yet.
Fresh(u) == thread[u].state = "none" \/ (create.pc = "add" /\ create.t = u)

\* It has worked in no checkout, and no turn of its own has left anything in one.
FreshInv ==
    /\ \A u \in Threads : Fresh(u) => thread[u].wt = NoDir /\ session[u].cwd \notin Threads
    /\ \A u \in Threads : thread[u].state = "none" => session[u] = NoSession
    /\ \A s \in Senders : send[s].pc # "idle" => thread[send[s].t].state # "none"
    /\ \A s \in Senders : send[s].pc = "begin" /\ Fresh(send[s].t) => send[s].wt = NoDir

Left(S) == \A n \in S : n \in 1..Now /\ ~Fresh(whose[n])

ContentInv ==
    /\ \A d \in Threads : Left(git[d].done) /\ Left(git[d].open) /\ Left(git[d].ignored)
    /\ \A t \in Threads : \A i \in 1..Len(prompts[t]) :
          Left(prompts[t][i].cp.done) /\ Left(prompts[t][i].cp.open)
    /\ \A s \in Senders : send[s].pc # "idle" => Left(send[s].cp.done) /\ Left(send[s].cp.open)
    /\ rewind.pc = "restore" => Left(rewind.cp.done) /\ Left(rewind.cp.open)

\* A turn is its thread's, and is not older than the session it runs in.
TurnInv ==
    /\ \A t \in Threads : Running(t) =>
          /\ Live(t)
          /\ thread[t].turn \in 1..Now
          /\ whose[thread[t].turn] = t
          /\ session[t].since <= thread[t].turn
    /\ \A t \in Threads : Live(t) => session[t].since <= Now

\* Another thread that has the worktree d has worked in it after m only.
AloneAt(t, d, m) == \A u \in Threads \ {t} : Has(u, d) /\ session[u].cwd = d => session[u].since > m
RestsAt(t, m) == Running(t) => thread[t].turn > m

SweepInv ==
    /\ sweep.pc # "idle" =>
          /\ sweep.mark <= Now
          /\ \A p \in sweep.list : AloneAt(p[1], p[2], sweep.mark) /\ RestsAt(p[1], sweep.mark)
    /\ sweep.pc \in {"lock", "remove"} =>
          /\ AloneAt(sweep.t, sweep.d, sweep.mark) /\ RestsAt(sweep.t, sweep.mark)
          /\ \A n \in git[sweep.d].ignored : Has(whose[n], sweep.d) => n > sweep.mark
    /\ sweep.pc = "remove" => session[sweep.t] = NoSession

RequestInv ==
    /\ req.pc \in {"look", "git"} =>
          /\ req.closed <= Now
          /\ session[req.t] # NoSession => session[req.t].since > req.closed
    /\ req.pc = "git" => req.mark <= Now /\ AloneAt(req.t, req.d, req.mark)

RewindInv ==
    /\ rewind.pc = "restore" =>
          /\ thread[rewind.t].state # "none"
          /\ Live(rewind.t) => rewind.i <= Len(prompts[rewind.t])
    /\ rewind.pc = "restore" /\ rewind.files =>
          /\ \A u \in Threads \ {rewind.t} : Has(u, rewind.d) => session[u].cwd # rewind.d
          /\ \A n \in git[rewind.d].done \cup git[rewind.d].open :
                Has(whose[n], rewind.d) => whose[n] = rewind.t

IInv == TypeOK /\ LockInv /\ FreshInv /\ ContentInv /\ TurnInv /\ SweepInv /\ RequestInv /\ RewindInv

USE WorktreesAssumption DEF NoTurn, NoDir, Main, Free

LEMMA NoneYet == ASSUME NEW S PROVE <<>> \in Seq(S) /\ Len(<<>>) = 0
OBVIOUS

LEMMA Initially == Init => IInv
<1> SUFFICES ASSUME Init PROVE IInv
  OBVIOUS
<1>1. thread \in [Threads -> Row] /\ \A t \in Threads : thread[t].turn = 0 /\ (thread[t].state = "none" => thread[t].wt = NoDir)
  BY DEF Init, Unborn, Row, Branch, Dir
<1>2. git \in [Threads -> Checkout] /\ \A d \in Threads : git[d].done = {} /\ git[d].open = {} /\ git[d].ignored = {}
  BY DEF Init, Absent, Checkout, Branch
<1>3. session \in [Threads -> Session] /\ \A t \in Threads : session[t] = NoSession /\ session[t].cwd = NoDir /\ session[t].since = 0
  BY DEF Init, NoSession, Session
<1>4. prompts \in [Threads -> Seq(Prompt)] /\ \A t \in Threads : Len(prompts[t]) = 0
  BY NoneYet DEF Init
<1>5. whose \in Seq(Threads) /\ Now = 0
  BY NoneYet DEF Init, Now
<1>6. \A s \in Senders : send[s] = Idle /\ send[s].pc = "idle"
  BY DEF Init, Idle
<1>7. sweep.pc = "idle" /\ req.pc = "idle" /\ rewind.pc = "idle" /\ create.pc = "idle"
  BY DEF Init, Idle
<1>8. TypeOK
  BY <1>1, <1>2, <1>3, <1>4, <1>5, <1>6, <1>7 DEF Init, TypeOK, StoreTypes, DiskTypes, SendTypes, OtherTypes
<1>9. LockInv /\ SweepInv /\ RequestInv /\ RewindInv
  BY <1>6, <1>7 DEF LockInv, SweepInv, RequestInv, RewindInv
<1>10. FreshInv
  BY <1>1, <1>3, <1>6, <1>7 DEF FreshInv, Fresh
<1>11. ContentInv
  BY <1>2, <1>4, <1>6, <1>7 DEF ContentInv, Left
<1>12. TurnInv
  BY <1>1, <1>3, <1>5 DEF TurnInv, Running
<1> QED BY <1>8, <1>9, <1>10, <1>11, <1>12 DEF IInv

----------------------------------------------------------------------------
(***************************************************************************)
(* What a step leaves as it is.                                            *)
(***************************************************************************)
LEMMA Fields ==
    ASSUME TypeOK
    PROVE  /\ \A s \in Senders : send[s].pc # "idle" =>
                 send[s].t \in Threads /\ send[s].wt \in Dir /\ send[s].cp \in Checkpoint
           /\ \A s \in Senders : send[s].pc = "begin" => send[s].live \in Session
           /\ sweep.pc # "idle" => sweep.mark \in Nat /\ sweep.list \subseteq Threads \X Threads
           /\ sweep.pc \in {"lock", "remove"} => sweep.t \in Threads /\ sweep.d \in Threads
           /\ req.pc # "idle" => req.t \in Threads
           /\ req.pc \in {"close", "look", "git"} => req.d \in Dir /\ req.closed \in Nat /\ req.mark \in Nat
           /\ req.pc = "git" => req.d \in Threads
           /\ rewind.pc = "restore" => rewind.t \in Threads /\ rewind.d \in Dir /\ rewind.cp \in Checkpoint
           /\ rewind.pc = "restore" /\ rewind.files => rewind.d \in Threads
           /\ create.pc = "add" => create.t \in Threads /\ create.wt \in Threads /\ create.branch \in Branch
           /\ Now \in Nat
<1>1. \A s \in Senders : send[s] \in {Idle} \cup SendBefore \cup SendLocked
  BY DEF TypeOK, SendTypes
<1>2. /\ \A s \in Senders : send[s].pc # "idle" =>
            send[s].t \in Threads /\ send[s].wt \in Dir /\ send[s].cp \in Checkpoint
      /\ \A s \in Senders : send[s].pc = "begin" => send[s].live \in Session
  BY <1>1 DEF SendBefore, SendLocked, Idle
<1>3. /\ sweep.pc # "idle" => sweep.mark \in Nat /\ sweep.list \subseteq Threads \X Threads
      /\ sweep.pc \in {"lock", "remove"} => sweep.t \in Threads /\ sweep.d \in Threads
  BY DEF TypeOK, OtherTypes, SweepListed, SweepOne, Idle
<1>4. /\ req.pc # "idle" => req.t \in Threads
      /\ req.pc \in {"close", "look", "git"} => req.d \in Dir /\ req.closed \in Nat /\ req.mark \in Nat
      /\ req.pc = "git" => req.d \in Threads
  BY DEF TypeOK, OtherTypes, ReqCloses, ReqGit, ReqAppends, Idle, Dir
<1>5. /\ rewind.pc = "restore" => rewind.t \in Threads /\ rewind.d \in Dir /\ rewind.cp \in Checkpoint
      /\ rewind.pc = "restore" /\ rewind.files => rewind.d \in Threads
  BY DEF TypeOK, OtherTypes, RewindState, Idle, Dir
<1>6. create.pc = "add" => create.t \in Threads /\ create.wt \in Threads /\ create.branch \in Branch
  BY DEF TypeOK, OtherTypes, CreateState, Idle
<1>7. Now \in Nat
  BY DEF TypeOK, StoreTypes, Now
<1> QED BY <1>2, <1>3, <1>4, <1>5, <1>6, <1>7

LEMMA LockSame ==
    ASSUME LockInv, UNCHANGED <<lock, send, sweep, rewind>>
    PROVE  LockInv'
BY DEF LockInv

LEMMA FreshSame ==
    ASSUME FreshInv, UNCHANGED <<thread, session, send, create>>
    PROVE  FreshInv'
BY DEF FreshInv, Fresh

LEMMA ContentSame ==
    ASSUME ContentInv, UNCHANGED <<thread, git, prompts, whose, send, rewind, create>>
    PROVE  ContentInv'
BY DEF ContentInv, Left, Fresh, Now

LEMMA TurnSame ==
    ASSUME TurnInv, UNCHANGED <<thread, session, whose>>
    PROVE  TurnInv'
BY DEF TurnInv, Running, Live, Now

LEMMA SweepSame ==
    ASSUME SweepInv, UNCHANGED <<thread, git, session, whose, sweep>>
    PROVE  SweepInv'
BY DEF SweepInv, AloneAt, RestsAt, Has, Live, Running, Now

LEMMA RequestSame ==
    ASSUME RequestInv, UNCHANGED <<thread, session, whose, req>>
    PROVE  RequestInv'
BY DEF RequestInv, AloneAt, Has, Live, Now

LEMMA RewindSame ==
    ASSUME RewindInv, UNCHANGED <<thread, git, session, prompts, whose, rewind>>
    PROVE  RewindInv'
BY DEF RewindInv, Has, Live

----------------------------------------------------------------------------
(***************************************************************************)
(* What most steps do to turns and worktrees: no thread gets a worktree it *)
(* already worked in, and a turn or a session that is new is a later one.  *)
(***************************************************************************)
Onward ==
    /\ \A n \in 1..Now : n \in 1..Now' /\ whose'[n] = whose[n]
    /\ \A u \in Threads : Fresh(u)' => Fresh(u)

LEMMA LeftOn ==
    ASSUME TypeOK, Onward, NEW S, Left(S)
    PROVE  Left(S)'
BY DEF Left, Onward, TypeOK, StoreTypes, Now

Later ==
    /\ Now' \in Nat /\ Now <= Now'
    /\ \A u \in Threads : session'[u] \in {session[u], NoSession} \/ session'[u].since > Now
    /\ \A u, d \in Threads : Has(u, d)' /\ session'[u].cwd = d => Has(u, d) \/ session'[u].since > Now
    /\ \A u \in Threads : Running(u)' => (Running(u) /\ thread'[u].turn = thread[u].turn) \/ thread'[u].turn > Now

LEMMA AloneLater ==
    ASSUME TypeOK, TypeOK', Later, NEW t, NEW d \in Threads, NEW m \in Nat, m <= Now, AloneAt(t, d, m)
    PROVE  AloneAt(t, d, m)'
<1> SUFFICES ASSUME NEW u \in Threads \ {t}, Has(u, d)', session'[u].cwd = d PROVE session'[u].since > m
  BY DEF AloneAt
<1>1. Now \in Nat /\ session'[u].since \in Nat /\ NoSession.cwd = NoDir
  BY DEF TypeOK, DiskTypes, Session, StoreTypes, Now, NoSession
<1>2. CASE session'[u].since > Now
  BY <1>1, <1>2
<1>3. CASE session'[u] = session[u] /\ Has(u, d)
  BY <1>3 DEF AloneAt
<1> QED BY <1>1, <1>2, <1>3 DEF Later

LEMMA RestsLater ==
    ASSUME TypeOK, TypeOK', Later, NEW t \in Threads, NEW m \in Nat, m <= Now, RestsAt(t, m)
    PROVE  RestsAt(t, m)'
<1> SUFFICES ASSUME Running(t)' PROVE thread'[t].turn > m
  BY DEF RestsAt
<1>1. Now \in Nat /\ thread'[t].turn \in Nat
  BY DEF TypeOK, StoreTypes, Row, Now
<1> QED BY <1>1 DEF Later, RestsAt

\* The sweep, if it has no part in the step and what lies in its checkout is as old.
LEMMA SweepLater ==
    ASSUME TypeOK, TypeOK', SweepInv, Later, UNCHANGED sweep,
           sweep.pc = "remove" => session'[sweep.t] = session[sweep.t],
           sweep.pc \in {"lock", "remove"} =>
               \A n \in git'[sweep.d].ignored : Has(whose[n], sweep.d)' =>
                   n > sweep.mark \/ (n \in git[sweep.d].ignored /\ Has(whose[n], sweep.d))
    PROVE  SweepInv'
<1>1. sweep.pc # "idle" => /\ sweep.mark \in Nat /\ sweep.list \subseteq Threads \X Threads
                           /\ sweep.mark <= Now /\ sweep.mark <= Now'
  <2>1. Now \in Nat /\ Now' \in Nat /\ Now <= Now'
    BY Fields DEF Later
  <2> QED BY <2>1, Fields DEF SweepInv
<1>2. ASSUME sweep.pc # "idle", NEW p \in sweep.list
      PROVE  AloneAt(p[1], p[2], sweep.mark)' /\ RestsAt(p[1], sweep.mark)'
  <2>1. p[1] \in Threads /\ p[2] \in Threads
    BY <1>1, <1>2
  <2>2. AloneAt(p[1], p[2], sweep.mark) /\ RestsAt(p[1], sweep.mark)
    BY <1>2 DEF SweepInv
  <2>3. PICK m \in Nat : m = sweep.mark
    BY <1>1, <1>2
  <2>4. AloneAt(p[1], p[2], m)' /\ RestsAt(p[1], m)'
    BY <1>1, <1>2, <2>1, <2>2, <2>3, AloneLater, RestsLater
  <2> QED BY <2>3, <2>4 DEF AloneAt, RestsAt
<1>3. ASSUME sweep.pc \in {"lock", "remove"}
      PROVE  AloneAt(sweep.t, sweep.d, sweep.mark)' /\ RestsAt(sweep.t, sweep.mark)'
  <2>1. sweep.t \in Threads /\ sweep.d \in Threads
    BY <1>3, Fields
  <2>2. AloneAt(sweep.t, sweep.d, sweep.mark) /\ RestsAt(sweep.t, sweep.mark)
    BY <1>3 DEF SweepInv
  <2>3. PICK m \in Nat : m = sweep.mark
    BY <1>1, <1>3
  <2>4. PICK t \in Threads, d \in Threads : t = sweep.t /\ d = sweep.d
    BY <2>1
  <2>5. AloneAt(t, d, m)' /\ RestsAt(t, m)'
    BY <1>1, <1>3, <2>2, <2>3, <2>4, AloneLater, RestsLater
  <2> QED BY <2>3, <2>4, <2>5 DEF AloneAt, RestsAt
<1>4. sweep.pc \in {"lock", "remove"} =>
         \A n \in git'[sweep.d].ignored : Has(whose[n], sweep.d)' => n > sweep.mark
  BY DEF SweepInv
<1> QED BY <1>1, <1>2, <1>3, <1>4 DEF SweepInv

\* A request that has no part in the step.
LEMMA RequestLater ==
    ASSUME TypeOK, TypeOK', RequestInv, Later, UNCHANGED req
    PROVE  RequestInv'
<1>1. Now \in Nat /\ Now' \in Nat /\ Now <= Now'
  BY Fields DEF Later
<1>2. ASSUME req.pc \in {"look", "git"}
      PROVE  req.closed <= Now' /\ (session'[req.t] # NoSession => session'[req.t].since > req.closed)
  <2>1. req.closed \in Nat /\ req.t \in Threads /\ req.closed <= Now
    BY <1>2, Fields DEF RequestInv
  <2>2. session'[req.t].since \in Nat
    BY <2>1 DEF TypeOK, DiskTypes, Session
  <2> QED BY <1>1, <1>2, <2>1, <2>2 DEF RequestInv, Later
<1>3. ASSUME req.pc = "git"
      PROVE  req.mark <= Now' /\ AloneAt(req.t, req.d, req.mark)'
  <2>1. req.mark \in Nat /\ req.mark <= Now /\ req.d \in Threads
    BY <1>3, Fields DEF RequestInv
  <2>2. PICK m \in Nat, d \in Threads : m = req.mark /\ d = req.d
    BY <2>1
  <2>3. PICK t : t = req.t
    OBVIOUS
  <2>4. AloneAt(t, d, m)'
    BY <1>3, <2>1, <2>2, <2>3, AloneLater DEF RequestInv
  <2> QED BY <1>1, <2>1, <2>2, <2>3, <2>4 DEF AloneAt
<1> QED BY <1>2, <1>3 DEF RequestInv

----------------------------------------------------------------------------
(***************************************************************************)
(* CreateThread.                                                           *)
(***************************************************************************)
\* A thread that is created is fresh, and stays it until it has its worktree.
LEMMA CreateKeeps ==
    ASSUME IInv, NEW t \in Threads, NEW from \in Threads, Create(t, from)
    PROVE  IInv'
<1> USE DEF IInv
<1>1. /\ create = Idle /\ thread[t].state = "none"
      /\ thread' = [thread EXCEPT ![t].state = "live"]
      /\ UNCHANGED <<git, session, prompts, whose, lock, send, sweep, req, rewind, told>>
      /\ create' \in CreateState /\ create'.t = t /\ create'.pc = "add"
  <2>1. thread[t].branch \in Branch /\ thread[from].wt \in Dir /\ thread[from].branch \in Branch
    BY DEF TypeOK, StoreTypes, Row
  <2> QED BY <2>1 DEF Create, CreateState, Branch, Dir
<1>2. /\ \A u \in Threads : u # t => thread'[u] = thread[u]
      /\ thread'[t].wt = thread[t].wt /\ thread'[t].turn = thread[t].turn /\ thread'[t].state = "live"
      /\ thread' \in [Threads -> Row]
  BY <1>1 DEF TypeOK, StoreTypes, Row
<1>3. thread[t].wt = NoDir /\ session[t] = NoSession /\ session[t].cwd = NoDir /\ session[t].since = 0
  BY <1>1 DEF FreshInv, Fresh, NoSession
<1>4. \A u \in Threads : Fresh(u)' <=> Fresh(u)
  BY <1>1, <1>2 DEF Fresh, Idle
<1>5. \A u, d \in Threads : Has(u, d)' <=> Has(u, d)
  BY <1>1, <1>2, <1>3 DEF Has, Live
<1>6. ~Running(t)
  BY <1>1 DEF TurnInv, Live
<1>7. \A u \in Threads : (Running(u)' <=> Running(u)) /\ thread'[u].turn = thread[u].turn
  BY <1>2 DEF Running
<1>8. Now' = Now /\ Now \in Nat
  BY <1>1, Fields DEF Now
<1>9. TypeOK'
  BY <1>1, <1>2 DEF TypeOK, StoreTypes, DiskTypes, SendTypes, OtherTypes
<1>10. Later
  BY <1>1, <1>5, <1>7, <1>8 DEF Later
<1>11. FreshInv'
  BY <1>1, <1>2, <1>3, <1>4, Fields DEF FreshInv
<1>12. ContentInv'
  <2>1. Onward
    BY <1>1, <1>4, <1>8 DEF Onward
  <2> QED BY <1>1, <2>1, LeftOn DEF ContentInv
<1>13. TurnInv'
  <2>1. \A u \in Threads : u # t => (Live(u)' <=> Live(u))
    BY <1>2 DEF Live
  <2> QED BY <1>1, <1>3, <1>6, <1>7, <1>8, <2>1 DEF TurnInv
<1>14. SweepInv'
  <2>1. \A d \in Threads : \A n \in git[d].ignored : whose[n] \in Threads
    BY DEF ContentInv, Left, TypeOK, StoreTypes, Now
  <2> QED BY <1>1, <1>5, <1>9, <1>10, <2>1, SweepLater, Fields
<1>15. RequestInv'
  BY <1>1, <1>9, <1>10, RequestLater
<1>16. RewindInv'
  <2>1. \A d \in Threads : \A n \in git[d].done \cup git[d].open : whose[n] \in Threads
    BY DEF ContentInv, Left, TypeOK, StoreTypes, Now
  <2>2. rewind.pc = "restore" => rewind.t # t /\ (Live(rewind.t)' <=> Live(rewind.t))
    BY <1>1, <1>2, Fields DEF RewindInv, Live
  <2> QED BY <1>1, <1>2, <1>5, <2>1, <2>2, Fields DEF RewindInv
<1> QED BY <1>1, <1>9, <1>11, <1>12, <1>13, <1>14, <1>15, <1>16, LockSame

\* It gets its worktree, in which it has left nothing yet.
LEMMA CreateWorktreeKeeps ==
    ASSUME IInv, CreateWorktree
    PROVE  IInv'
<1> USE DEF IInv
<1> DEFINE t == create.t
<1>1. /\ create.pc = "add" /\ create' = Idle /\ t \in Threads
      /\ UNCHANGED <<session, prompts, whose, lock, send, sweep, req, rewind, told>>
  BY Fields DEF CreateWorktree
<1>2. /\ thread' \in [Threads -> Row]
      /\ \A u \in Threads : thread'[u].state = thread[u].state /\ thread'[u].turn = thread[u].turn
      /\ \A u \in Threads : u # t => thread'[u] = thread[u]
      /\ ~Live(t) => thread'[t] = thread[t]
  <2>1. create.wt \in Dir /\ create.branch \in Branch
    BY <1>1, Fields DEF Dir
  <2>2. CASE Live(t)
    <3>1. thread' = [thread EXCEPT ![t].wt = create.wt, ![t].branch = create.branch]
      BY <2>2 DEF CreateWorktree
    <3> QED BY <1>1, <2>1, <2>2, <3>1 DEF TypeOK, StoreTypes, Row
  <2>3. CASE ~Live(t)
    <3>1. thread' = thread
      BY <2>3 DEF CreateWorktree
    <3> QED BY <2>3, <3>1 DEF TypeOK, StoreTypes
  <2> QED BY <2>2, <2>3
<1>3. /\ git' \in [Threads -> Checkout]
      /\ \A d \in Threads : git'[d].done = git[d].done /\ git'[d].open = git[d].open /\ git'[d].ignored = git[d].ignored
  BY <1>1 DEF CreateWorktree, TypeOK, DiskTypes, Checkout
<1>4. /\ Fresh(t) /\ thread[t].wt = NoDir /\ session[t].cwd \notin Threads
      /\ \A n : n \in 1..Now => whose[n] \in Threads
  BY <1>1 DEF FreshInv, Fresh, TypeOK, StoreTypes, Now
<1>5. \A u \in Threads : Fresh(u)' => Fresh(u) /\ thread'[u] = thread[u]
  <2>1. \A u \in Threads : Fresh(u)' => thread[u].state = "none"
    BY <1>1, <1>2 DEF Fresh, Idle
  <2> QED BY <1>2, <2>1 DEF Fresh, Live
<1>6. \A u, d \in Threads : Has(u, d)' => Has(u, d) \/ u = t
  BY <1>2 DEF Has, Live
<1>7. \A u \in Threads : (Running(u)' <=> Running(u)) /\ (Live(u)' <=> Live(u))
  BY <1>2 DEF Running, Live
<1>8. Now' = Now /\ Now \in Nat
  BY <1>1, Fields DEF Now
<1>9. TypeOK'
  BY <1>1, <1>2, <1>3 DEF TypeOK, StoreTypes, DiskTypes, SendTypes, OtherTypes, Idle
<1>10. Later
  BY <1>1, <1>2, <1>4, <1>6, <1>7, <1>8 DEF Later
<1>11. FreshInv'
  BY <1>1, <1>2, <1>5, Fields DEF FreshInv
<1>12. ContentInv'
  <2>1. Onward
    BY <1>1, <1>5, <1>8 DEF Onward
  <2> QED BY <1>1, <1>3, <2>1, LeftOn DEF ContentInv
<1>13. TurnInv'
  BY <1>1, <1>2, <1>7, <1>8 DEF TurnInv
<1>14. \A d \in Threads : \A n \in git[d].done \cup git[d].open \cup git[d].ignored :
          whose[n] \in Threads /\ whose[n] # t
  BY <1>4 DEF ContentInv, Left
<1>15. SweepInv'
  BY <1>1, <1>3, <1>6, <1>9, <1>10, <1>14, SweepLater, Fields
<1>16. RequestInv'
  BY <1>1, <1>9, <1>10, RequestLater
<1>17. RewindInv'
  BY <1>1, <1>2, <1>3, <1>4, <1>6, <1>7, <1>14, Fields DEF RewindInv
<1> QED BY <1>1, <1>9, <1>11, <1>12, <1>13, <1>15, <1>16, <1>17, LockSame

----------------------------------------------------------------------------
(***************************************************************************)
(* SendPrompt.                                                             *)
(***************************************************************************)
LEMMA SendReadKeeps ==
    ASSUME IInv, NEW s \in Senders, NEW t \in Threads, SendRead(s, t)
    PROVE  IInv'
<1> USE DEF IInv
<1>1. /\ send' \in [Senders -> {Idle} \cup SendBefore \cup SendLocked]
      /\ \A r \in Senders : r # s => send'[r] = send[r]
      /\ send'[s].pc \in {"checkpoint", "lock"} /\ send'[s].t = t /\ thread[t].state = "live"
      /\ send'[s].pc = "checkpoint" => send'[s].wt # NoDir
      /\ send'[s].cp.done = {} /\ send'[s].cp.open = {}
      /\ UNCHANGED <<thread, git, session, prompts, whose, lock, sweep, req, rewind, create, told>>
  <2> DEFINE pc == IF ~Running(t) /\ thread[t].wt # NoDir /\ ~Shared(t, thread[t].wt) THEN "checkpoint" ELSE "lock"
             r == [pc |-> pc, t |-> t, wt |-> thread[t].wt, cp |-> NoCheckpoint]
  <2>1. thread[t].wt \in Dir /\ NoCheckpoint \in Checkpoint /\ thread[t].state = "live"
    BY DEF TypeOK, StoreTypes, Row, NoCheckpoint, Checkpoint, SendRead, Live
  <2>2. pc \in {"checkpoint", "lock"} /\ (pc = "checkpoint" => thread[t].wt # NoDir)
    OBVIOUS
  <2>3. send' = [send EXCEPT ![s] = r]
    BY DEF SendRead
  <2> HIDE DEF pc
  <2>4. r \in SendBefore
    BY <2>1, <2>2 DEF SendBefore
  <2>5. r.pc = pc /\ r.t = t /\ r.wt = thread[t].wt /\ r.cp.done = {} /\ r.cp.open = {}
    BY DEF NoCheckpoint
  <2> HIDE DEF r
  <2>6. /\ send' \in [Senders -> {Idle} \cup SendBefore \cup SendLocked]
        /\ send'[s] = r /\ \A q \in Senders : q # s => send'[q] = send[q]
    BY <2>3, <2>4 DEF TypeOK, SendTypes
  <2> QED BY <2>1, <2>2, <2>5, <2>6 DEF SendRead
<1>2. TypeOK'
  BY <1>1 DEF TypeOK, StoreTypes, DiskTypes, SendTypes, OtherTypes
<1>3. LockInv'
  BY <1>1 DEF LockInv
<1>4. FreshInv'
  BY <1>1 DEF FreshInv, Fresh
<1>5. ContentInv'
  BY <1>1 DEF ContentInv, Left, Fresh, Now
<1> QED BY <1>1, <1>2, <1>3, <1>4, <1>5, TurnSame, SweepSame, RequestSame, RewindSame

LEMMA SendCheckpointKeeps ==
    ASSUME IInv, NEW s \in Senders, SendCheckpoint(s)
    PROVE  IInv'
<1> USE DEF IInv
<1> DEFINE d == send[s].wt
<1>1. /\ send[s].pc = "checkpoint" /\ send[s] \in SendBefore /\ d \in Threads
      /\ UNCHANGED <<thread, git, session, prompts, whose, lock, sweep, req, rewind, create, told>>
  BY Fields DEF SendCheckpoint, TypeOK, SendTypes, SendLocked, Idle, Dir
<1> DEFINE cp == IF git[d].there THEN CheckpointOf(d) ELSE send[s].cp
<1>2. cp \in Checkpoint /\ Left(cp.done) /\ Left(cp.open)
  <2>1. CASE git[d].there
    <3>1. CheckpointOf(d) \in Checkpoint
      BY <1>1 DEF CheckpointOf, TypeOK, DiskTypes, Checkout, Checkpoint
    <3>2. CheckpointOf(d).done = git[d].done /\ CheckpointOf(d).open = git[d].open
      BY DEF CheckpointOf
    <3> QED BY <1>1, <2>1, <3>1, <3>2 DEF ContentInv
  <2>2. CASE ~git[d].there
    BY <1>1, <2>2, Fields DEF ContentInv
  <2> QED BY <2>1, <2>2
<1>3. /\ send' \in [Senders -> {Idle} \cup SendBefore \cup SendLocked]
      /\ \A r \in Senders : r # s => send'[r] = send[r]
      /\ send'[s].pc = "lock" /\ send'[s].t = send[s].t /\ send'[s].cp = cp
  <2>1. send' = [send EXCEPT ![s] = [@ EXCEPT !.pc = "lock", !.cp = cp]]
    BY DEF SendCheckpoint, TypeOK, SendTypes
  <2> HIDE DEF cp
  <2> QED BY <1>1, <1>2, <2>1 DEF TypeOK, SendTypes, SendBefore
<1> HIDE DEF cp
<1>4. TypeOK'
  BY <1>1, <1>3 DEF TypeOK, StoreTypes, DiskTypes, SendTypes, OtherTypes
<1>5. LockInv'
  BY <1>1, <1>3 DEF LockInv
<1>6. FreshInv'
  BY <1>1, <1>3 DEF FreshInv, Fresh
<1>7. ContentInv'
  BY <1>1, <1>2, <1>3 DEF ContentInv, Left, Fresh, Now
<1> QED BY <1>1, <1>4, <1>5, <1>6, <1>7, TurnSame, SweepSame, RequestSame, RewindSame

LEMMA SendLockKeeps ==
    ASSUME IInv, NEW s \in Senders, SendLock(s)
    PROVE  IInv'
<1> USE DEF IInv
<1> DEFINE t == send[s].t
           d == thread[t].wt
<1>1. /\ send[s].pc = "lock" /\ send[s] \in SendBefore /\ t \in Threads /\ d \in Dir /\ lock = Free
      /\ send[s].cp \in Checkpoint /\ session[t] \in Session
      /\ UNCHANGED <<thread, session, prompts, whose, sweep, req, rewind, create, told>>
  <2>1. /\ send[s].pc = "lock" /\ lock = Free
        /\ UNCHANGED <<thread, session, prompts, whose, sweep, req, rewind, create, told>>
    BY DEF SendLock
  <2>2. send[s] \in SendBefore
    BY <2>1 DEF TypeOK, SendTypes, SendLocked, Idle
  <2>3. t \in Threads /\ send[s].cp \in Checkpoint
    BY <2>1, Fields
  <2>4. d \in Dir /\ session[t] \in Session
    BY <2>3 DEF TypeOK, StoreTypes, DiskTypes, Row
  <2> QED BY <2>1, <2>2, <2>3, <2>4
<1>2. /\ git' \in [Threads -> Checkout]
      /\ \A c \in Threads : git'[c].done = git[c].done /\ git'[c].open = git[c].open /\ git'[c].ignored = git[c].ignored
  <2>1. git' = git \/ (d # NoDir /\ git' = [git EXCEPT ![d].there = TRUE])
    BY DEF SendLock
  <2>2. CASE git' = git
    BY <2>2 DEF TypeOK, DiskTypes
  <2>3. CASE d # NoDir /\ git' = [git EXCEPT ![d].there = TRUE]
    <3>1. d \in Threads
      BY <1>1, <2>3 DEF Dir
    <3> HIDE DEF d
    <3> QED BY <2>3, <3>1 DEF TypeOK, DiskTypes, Checkout
  <2> QED BY <2>1, <2>2, <2>3
<1>3. /\ send' \in [Senders -> {Idle} \cup SendBefore \cup SendLocked]
      /\ \A r \in Senders : r # s => send'[r] = send[r]
      /\ \/ send'[s].pc = "idle" /\ lock' = lock
         \/ /\ send'[s].pc = "begin" /\ lock' = s
            /\ send'[s].t = t /\ send'[s].cp = send[s].cp /\ send'[s].wt = d
  <2>1. CASE Live(t) /\ ~Running(t) /\ Now < MaxTurns
    <3> DEFINE r == [pc |-> "begin", t |-> t, wt |-> d, cp |-> send[s].cp, live |-> session[t]]
    <3>1. send' = [send EXCEPT ![s] = r] /\ lock' = s
      BY <2>1 DEF SendLock, TypeOK, SendTypes
    <3>2. r \in SendLocked
      BY <1>1 DEF SendLocked
    <3>3. r.t = t /\ r.cp = send[s].cp /\ r.wt = d /\ r.pc = "begin"
      OBVIOUS
    <3> HIDE DEF r
    <3> QED BY <3>1, <3>2, <3>3 DEF TypeOK, SendTypes
  <2>2. CASE ~(Live(t) /\ ~Running(t) /\ Now < MaxTurns)
    <3>1. send' = [send EXCEPT ![s] = Idle] /\ lock' = lock
      BY <2>2 DEF SendLock
    <3> QED BY <3>1 DEF TypeOK, SendTypes, Idle
  <2> QED BY <2>1, <2>2
<1>4. TypeOK'
  BY <1>1, <1>2, <1>3 DEF TypeOK, StoreTypes, DiskTypes, SendTypes, OtherTypes
<1>5. LockInv'
  BY <1>1, <1>3 DEF LockInv
<1>6. FreshInv'
  BY <1>1, <1>3 DEF FreshInv, Fresh
<1>7. ContentInv'
  BY <1>1, <1>2, <1>3 DEF ContentInv, Left, Fresh, Now
<1>8. SweepInv'
  BY <1>1, <1>2, Fields DEF SweepInv, AloneAt, RestsAt, Has, Live, Running, Now
<1>9. RewindInv'
  BY <1>1, <1>2, Fields DEF RewindInv, Has, Live
<1> QED BY <1>1, <1>4, <1>5, <1>6, <1>7, <1>8, <1>9, TurnSame, RequestSame

\* The one step that begins a turn.  No other prompt, sweep or rewind holds
\* promptMu, so that it can hurt none of them.
LEMMA SendBeginKeeps ==
    ASSUME IInv, NEW s \in Senders, SendBegin(s)
    PROVE  IInv'
<1> USE DEF IInv
<1> DEFINE t == send[s].t
           n == Now + 1
<1>1. /\ send[s].pc = "begin" /\ send[s] \in SendLocked /\ t \in Threads /\ lock = s /\ lock' = Free
      /\ send[s].wt \in Dir /\ send[s].cp \in Checkpoint
      /\ UNCHANGED <<git, sweep, req, rewind, create, told>>
  BY Fields DEF SendBegin, TypeOK, SendTypes, SendBefore, Idle, LockInv
<1>2. /\ send' \in [Senders -> {Idle} \cup SendBefore \cup SendLocked]
      /\ \A r \in Senders : r # s => send'[r] = send[r]
      /\ send'[s].pc = "idle"
  BY DEF SendBegin, TypeOK, SendTypes, Idle
<1>3. sweep.pc # "remove" /\ rewind.pc # "restore" /\ \A r \in Senders : send'[r].pc # "begin"
  BY <1>1, <1>2 DEF LockInv
<1>4. Now \in Nat /\ n \in Nat /\ NoSession.cwd = NoDir
  BY Fields DEF NoSession
<1>5. /\ session' \in [Threads -> Session]
      /\ \A u \in Threads : u # t => session'[u] = session[u]
      /\ session'[t] = session[t] \/ (session'[t].since = n /\ session'[t].cwd \in {send[s].wt, Main})
  <2>1. CASE send[s].live = NoSession
    <3> DEFINE cwd == IF send[s].wt # NoDir /\ git[send[s].wt].there THEN send[s].wt ELSE Main
               x == [cwd |-> cwd, since |-> n]
    <3>1. session' = [session EXCEPT ![t] = x]
      BY <2>1 DEF SendBegin
    <3>2. cwd \in {send[s].wt, Main}
      OBVIOUS
    <3> HIDE DEF cwd
    <3>3. x \in Session
      BY <1>1, <1>4, <3>2 DEF Session, Dir
    <3> QED BY <1>1, <3>1, <3>2, <3>3 DEF TypeOK, DiskTypes
  <2>2. CASE send[s].live # NoSession
    BY <2>2 DEF SendBegin, TypeOK, DiskTypes
  <2> QED BY <2>1, <2>2
<1>6. /\ thread' \in [Threads -> Row]
      /\ \A u \in Threads : /\ thread'[u].state = thread[u].state /\ thread'[u].wt = thread[u].wt
                            /\ thread'[u].turn = thread[u].turn \/ (u = t /\ Live(t) /\ thread'[u].turn = n)
      /\ \A u \in Threads : u # t => thread'[u] = thread[u]
      /\ session'[t] # session[t] /\ Live(t) => thread'[t].turn = n
  <2>1. CASE Live(t) /\ (send[s].live = NoSession \/ session[t] = send[s].live)
    <3>1. thread' = [thread EXCEPT ![t].turn = n]
      BY <2>1 DEF SendBegin
    <3> QED BY <1>1, <1>4, <2>1, <3>1 DEF TypeOK, StoreTypes, Row
  <2>2. CASE ~(Live(t) /\ (send[s].live = NoSession \/ session[t] = send[s].live))
    <3>1. thread' = thread /\ (Live(t) => session' = session)
      BY <2>2 DEF SendBegin
    <3> QED BY <3>1 DEF TypeOK, StoreTypes
  <2> QED BY <2>1, <2>2
<1>7. /\ whose' \in Seq(Threads)
      /\ Live(t) => Now' = n /\ whose'[n] = t
      /\ ~Live(t) => Now' = Now
      /\ \A m \in 1..Now : m \in 1..Now' /\ whose'[m] = whose[m]
  <2>1. whose \in Seq(Threads) /\ Len(whose) = Now
    BY DEF TypeOK, StoreTypes, Now
  <2>2. CASE Live(t)
    <3>1. whose' = Append(whose, t)
      BY <2>2 DEF SendBegin
    <3> QED BY <1>1, <1>4, <2>1, <2>2, <3>1 DEF Now
  <2>3. CASE ~Live(t)
    <3>1. whose' = whose
      BY <2>3 DEF SendBegin
    <3> QED BY <1>4, <2>1, <2>3, <3>1 DEF Now
  <2> QED BY <2>2, <2>3
<1>8. /\ prompts' \in [Threads -> Seq(Prompt)]
      /\ \A u \in Threads : \A i \in 1..Len(prompts'[u]) :
            \/ i \in 1..Len(prompts[u]) /\ prompts'[u][i] = prompts[u][i]
            \/ prompts'[u][i].cp = send[s].cp
  <2>1. CASE Live(t)
    <3>1. PICK x \in Prompt : prompts' = [prompts EXCEPT ![t] = Append(@, x)] /\ x.cp = send[s].cp
      BY <1>1, <1>4, <2>1 DEF SendBegin, Prompt
    <3>2. prompts \in [Threads -> Seq(Prompt)]
      BY DEF TypeOK, StoreTypes
    <3>3. prompts'[t] = Append(prompts[t], x) /\ \A u \in Threads : u # t => prompts'[u] = prompts[u]
      BY <1>1, <3>1, <3>2
    <3>4. \A i \in 1..Len(Append(prompts[t], x)) :
              (i \in 1..Len(prompts[t]) /\ Append(prompts[t], x)[i] = prompts[t][i]) \/ Append(prompts[t], x)[i] = x
      BY <1>1, <3>1, <3>2
    <3> QED BY <1>1, <3>1, <3>2, <3>3, <3>4
  <2>2. CASE ~Live(t)
    BY <2>2 DEF SendBegin, TypeOK, StoreTypes
  <2> QED BY <2>1, <2>2
<1>9. TypeOK'
  <2>1. StoreTypes' /\ DiskTypes'
    BY <1>1, <1>5, <1>6, <1>7, <1>8 DEF TypeOK, StoreTypes, DiskTypes
  <2>2. SendTypes'
    BY <1>2 DEF TypeOK, SendTypes
  <2>3. OtherTypes'
    BY <1>1 DEF TypeOK, OtherTypes
  <2> QED BY <2>1, <2>2, <2>3 DEF TypeOK
<1>10. LockInv'
  BY <1>1, <1>2, <1>3 DEF LockInv
<1>11. /\ \A u \in Threads : (Fresh(u)' <=> Fresh(u)) /\ (Live(u)' <=> Live(u))
       /\ \A u, c \in Threads : Has(u, c)' <=> Has(u, c)
  BY <1>1, <1>6 DEF Fresh, Has, Live
<1>12. FreshInv'
  <2>1. \A u \in Threads : Fresh(u) => session'[u].cwd \notin Threads
    BY <1>1, <1>4, <1>5 DEF FreshInv
  <2>2. thread[t].state # "none"
    BY <1>1 DEF FreshInv
  <2> QED BY <1>1, <1>2, <1>3, <1>5, <1>6, <1>11, <2>1, <2>2, Fields DEF FreshInv
<1>13. ContentInv'
  <2>1. Onward
    BY <1>7, <1>11 DEF Onward
  <2>2. Left(send[s].cp.done) /\ Left(send[s].cp.open)
    BY <1>1 DEF ContentInv
  <2>3. \A u \in Threads : \A i \in 1..Len(prompts'[u]) :
            Left(prompts[u][i].cp.done)' /\ Left(prompts[u][i].cp.open)'
    BY <1>8, <2>1, <2>2, LeftOn DEF ContentInv
  <2> QED BY <1>1, <1>2, <1>3, <2>1, <2>3, LeftOn DEF ContentInv
<1>14. \A u \in Threads : session'[u].since = session[u].since \/ (u = t /\ session'[u].since = n)
  BY <1>5
<1>15. TurnInv'
  <2>1. \A u \in Threads : session'[u].since \in Nat /\ session[u].since \in Nat /\ thread[u].turn \in Nat
    BY <1>5 DEF TypeOK, StoreTypes, DiskTypes, Session, Row
  <2>2. ASSUME NEW u \in Threads, Live(u)' PROVE session'[u].since <= Now'
    BY <1>4, <1>5, <1>7, <1>11, <2>1, <2>2 DEF TurnInv
  <2>3. ASSUME NEW u \in Threads, Running(u)'
        PROVE  /\ Live(u)' /\ thread'[u].turn \in 1..Now' /\ whose'[thread'[u].turn] = u
               /\ session'[u].since <= thread'[u].turn
    <3>1. CASE u = t /\ thread'[u].turn = n /\ Live(t)
      <4>1. session'[u].since <= n
        BY <1>4, <1>7, <2>2, <3>1, <1>11
      <4> QED BY <1>4, <1>7, <1>11, <3>1, <4>1
    <3>2. CASE thread'[u].turn = thread[u].turn /\ ~(u = t /\ thread'[u].turn = n /\ Live(t))
      <4>1. Running(u)
        BY <2>3, <3>2 DEF Running
      <4>2. Live(u) /\ thread[u].turn \in 1..Now /\ whose[thread[u].turn] = u /\ session[u].since <= thread[u].turn
        BY <4>1 DEF TurnInv
      <4>3. session'[u] = session[u]
        BY <1>5, <1>6, <3>2, <4>2
      <4> QED BY <1>7, <1>11, <3>2, <4>2, <4>3
    <3> QED BY <1>6, <3>1, <3>2
  <2> QED BY <2>2, <2>3 DEF TurnInv
<1>16. Later
  <2>1. \A u \in Threads : session'[u] = session[u] \/ session'[u].since > Now
    BY <1>4, <1>5
  <2>2. \A u \in Threads : Running(u)' => (Running(u) /\ thread'[u].turn = thread[u].turn) \/ thread'[u].turn > Now
    BY <1>4, <1>6 DEF Running
  <2>3. Now' \in Nat /\ Now <= Now'
    BY <1>4, <1>7
  <2> QED BY <1>11, <2>1, <2>2, <2>3 DEF Later
<1>17. SweepInv'
  <2>1. \A d \in Threads : \A m \in git[d].ignored : whose[m] \in Threads /\ whose'[m] = whose[m]
    <3>1. \A d \in Threads : \A m \in git[d].ignored : m \in 1..Now
      BY DEF ContentInv, Left
    <3>2. \A m \in 1..Now : whose[m] \in Threads
      BY DEF TypeOK, StoreTypes, Now
    <3> QED BY <1>7, <3>1, <3>2
  <2> QED BY <1>1, <1>3, <1>9, <1>11, <1>16, <2>1, SweepLater, Fields
<1>18. RequestInv'
  BY <1>1, <1>9, <1>16, RequestLater
<1>19. RewindInv'
  BY <1>1, <1>3 DEF RewindInv
<1> QED BY <1>9, <1>10, <1>12, <1>13, <1>15, <1>17, <1>18, <1>19

----------------------------------------------------------------------------
(***************************************************************************)
(* A turn works.                                                           *)
(***************************************************************************)
LEMMA NoStart ==
    ASSUME TypeOK, UNCHANGED <<thread, session, whose>>
    PROVE  Later
BY Fields DEF Later, Has, Live, Running, Now

\* Every step that only takes away from checkouts, or commits what is open.
LEMMA GitLess ==
    ASSUME IInv, UNCHANGED <<thread, session, prompts, whose, send, rewind, create>>,
           git' \in [Threads -> Checkout],
           \A d \in Threads : /\ git'[d].done \subseteq git[d].done \cup git[d].open
                              /\ git'[d].open \subseteq git[d].open
                              /\ git'[d].ignored \subseteq git[d].ignored
    PROVE  ContentInv' /\ RewindInv'
<1>1. ContentInv'
  BY DEF IInv, ContentInv, Left, Fresh, Now
<1>2. RewindInv'
  BY Fields DEF IInv, RewindInv, Has, Live
<1> QED BY <1>1, <1>2

LEMMA WritesKeeps ==
    ASSUME IInv, NEW t \in Threads, NEW d \in Threads, Writes(t, d)
    PROVE  IInv'
<1> USE DEF IInv
<1> DEFINE n == thread[t].turn
<1>1. /\ Running(t) /\ session[t].cwd = d
      /\ UNCHANGED <<thread, session, prompts, whose, lock, send, sweep, req, rewind, create, told>>
  BY DEF Writes, Works, pcs
<1>2. n \in 1..Now /\ whose[n] = t /\ session[t].since <= n /\ ~Fresh(t) /\ n \in Nat /\ Now \in Nat
  BY <1>1, Fields DEF TurnInv, FreshInv
<1>3. /\ git' \in [Threads -> Checkout]
      /\ \A c \in Threads : git'[c].done = git[c].done
      /\ \A c \in Threads : git'[c].open \subseteq git[c].open \cup (IF c = d THEN {n} ELSE {})
      /\ \A c \in Threads : git'[c].ignored \subseteq git[c].ignored \cup (IF c = d THEN {n} ELSE {})
  <2>1. CASE git' = [git EXCEPT ![d].open = @ \cup {n}]
    BY <1>2, <2>1 DEF TypeOK, DiskTypes, Checkout
  <2>2. CASE git' = [git EXCEPT ![d].ignored = @ \cup {n}]
    BY <1>2, <2>2 DEF TypeOK, DiskTypes, Checkout
  <2> QED BY <2>1, <2>2 DEF Writes
<1>4. TypeOK'
  BY <1>1, <1>3 DEF TypeOK, StoreTypes, DiskTypes, SendTypes, OtherTypes
<1>5. ContentInv'
  BY <1>1, <1>2, <1>3 DEF ContentInv, Left, Fresh, Now
<1>6. SweepInv'
  <2>1. ASSUME sweep.pc \in {"lock", "remove"}, d = sweep.d, Has(t, d) PROVE n > sweep.mark
    <3>1. CASE t = sweep.t
      BY <1>1, <2>1, <3>1 DEF SweepInv, RestsAt
    <3>2. CASE t # sweep.t
      <4>1. session[t].since > sweep.mark
        BY <1>1, <2>1, <3>2 DEF SweepInv, AloneAt
      <4>2. sweep.mark \in Nat /\ session[t].since \in Nat
        BY <2>1, Fields DEF TypeOK, DiskTypes, Session
      <4> QED BY <1>2, <4>1, <4>2
    <3> QED BY <3>1, <3>2
  <2>2. sweep.pc \in {"lock", "remove"} =>
          \A m \in git'[sweep.d].ignored : Has(whose[m], sweep.d) => m > sweep.mark
    BY <1>2, <1>3, <2>1, Fields DEF SweepInv
  <2>3. Later
    BY <1>1, NoStart
  <2>4. \A u, c : Has(u, c)' <=> Has(u, c)
    BY <1>1 DEF Has, Live
  <2> QED BY <1>1, <1>4, <2>2, <2>3, <2>4, SweepLater
<1>7. RewindInv'
  <2>1. rewind.pc = "restore" /\ rewind.files /\ d = rewind.d /\ Has(t, d) => t = rewind.t
    BY <1>1 DEF RewindInv
  <2> QED BY <1>1, <1>2, <1>3, <2>1, Fields DEF RewindInv, Has, Live
<1> QED BY <1>1, <1>4, <1>5, <1>6, <1>7, LockSame, FreshSame, TurnSame, RequestSame

LEMMA CommitsKeeps ==
    ASSUME IInv, NEW t \in Threads, NEW d \in Threads, Commits(t, d)
    PROVE  IInv'
<1> USE DEF IInv
<1>1. UNCHANGED <<thread, session, prompts, whose, lock, send, sweep, req, rewind, create, told>>
  BY DEF Commits, pcs
<1>2. /\ git' \in [Threads -> Checkout]
      /\ \A c \in Threads : /\ git'[c].done \subseteq git[c].done \cup git[c].open
                            /\ git'[c].open \subseteq git[c].open
                            /\ git'[c].ignored = git[c].ignored
  BY DEF Commits, TypeOK, DiskTypes, Checkout
<1>3. TypeOK'
  BY <1>1, <1>2 DEF TypeOK, StoreTypes, DiskTypes, SendTypes, OtherTypes
<1>4. SweepInv'
  BY <1>1, <1>2, Fields DEF SweepInv, AloneAt, RestsAt, Has, Live, Running, Now
<1> QED BY <1>1, <1>2, <1>3, <1>4, GitLess, LockSame, FreshSame, TurnSame, RequestSame

LEMMA EndTurnKeeps ==
    ASSUME IInv, NEW t \in Threads, EndTurn(t)
    PROVE  IInv'
<1> USE DEF IInv
<1>1. /\ UNCHANGED <<git, session, prompts, whose, lock, send, sweep, req, rewind, create, told>>
      /\ thread' \in [Threads -> Row]
      /\ \A u \in Threads : /\ thread'[u].state = thread[u].state /\ thread'[u].wt = thread[u].wt
                            /\ u # t => thread'[u].turn = thread[u].turn
      /\ thread'[t].turn = NoTurn
  BY DEF EndTurn, pcs, TypeOK, StoreTypes, Row
<1>2. /\ \A u \in Threads : (Fresh(u)' <=> Fresh(u)) /\ (Live(u)' <=> Live(u))
      /\ \A u, c \in Threads : Has(u, c)' <=> Has(u, c)
      /\ \A u \in Threads : Running(u)' => Running(u) /\ thread'[u].turn = thread[u].turn
      /\ Now' = Now /\ Now \in Nat
  BY <1>1, Fields DEF Fresh, Has, Live, Running, Now
<1>3. TypeOK'
  BY <1>1 DEF TypeOK, StoreTypes, DiskTypes, SendTypes, OtherTypes
<1>4. FreshInv'
  BY <1>1, <1>2, Fields DEF FreshInv
<1>5. ContentInv'
  <2>1. Onward
    BY <1>1, <1>2 DEF Onward
  <2> QED BY <1>1, <2>1, LeftOn DEF ContentInv
<1>6. TurnInv'
  BY <1>1, <1>2 DEF TurnInv
<1>7. Later
  BY <1>1, <1>2 DEF Later
<1>8. \A d \in Threads : \A n \in git[d].done \cup git[d].open \cup git[d].ignored : whose[n] \in Threads
  <2>1. \A n \in 1..Now : whose[n] \in Threads
    BY DEF TypeOK, StoreTypes, Now
  <2> QED BY <2>1 DEF ContentInv, Left
<1>9. SweepInv'
  BY <1>1, <1>2, <1>3, <1>7, <1>8, SweepLater, Fields
<1>10. RequestInv'
  BY <1>1, <1>3, <1>7, RequestLater
<1>11. RewindInv'
  BY <1>1, <1>2, <1>8, Fields DEF RewindInv
<1> QED BY <1>1, <1>3, <1>4, <1>5, <1>6, <1>9, <1>10, <1>11, LockSame

----------------------------------------------------------------------------
(***************************************************************************)
(* A step that closes sessions hurts nobody.                               *)
(***************************************************************************)
LEMMA Closing ==
    ASSUME IInv, TypeOK', UNCHANGED <<thread, git, prompts, whose, send, create>>,
           \A u \in Threads : session'[u] = session[u] \/ session'[u] = NoSession
    PROVE  /\ Later
           /\ FreshInv' /\ TurnInv'
           /\ UNCHANGED sweep => SweepInv'
           /\ UNCHANGED req => RequestInv'
           /\ UNCHANGED rewind => ContentInv' /\ RewindInv'
<1> USE DEF IInv
<1>1. NoSession.cwd = NoDir /\ NoSession.since = 0
  BY DEF NoSession
<1>2. Later
  BY <1>1, Fields DEF Later, Has, Live, Running, Now
<1>3. FreshInv'
  BY <1>1, Fields DEF FreshInv, Fresh
<1>4. TurnInv'
  <2>1. \A u \in Threads : /\ (Running(u)' <=> Running(u)) /\ (Live(u)' <=> Live(u))
                            /\ (session'[u].since = session[u].since \/ session'[u].since = 0)
    BY <1>1 DEF Running, Live
  <2>2. Now' = Now /\ Now \in Nat
    BY Fields DEF Now
  <2>3. \A u \in Threads : thread[u].turn \in Nat
    BY DEF TypeOK, StoreTypes, Row
  <2>4. \A u \in Threads : Running(u)' =>
            /\ Live(u) /\ thread[u].turn \in 1..Now /\ whose[thread[u].turn] = u
            /\ session'[u].since <= thread[u].turn
    BY <2>1, <2>3 DEF TurnInv
  <2>5. \A u \in Threads : Live(u)' => session'[u].since <= Now
    BY <2>1, <2>2 DEF TurnInv
  <2> QED BY <2>1, <2>2, <2>4, <2>5 DEF TurnInv
<1>5. UNCHANGED sweep => SweepInv'
  <2>1. sweep.pc = "remove" => session'[sweep.t] = session[sweep.t]
    BY Fields DEF SweepInv
  <2>2. \A u, d : Has(u, d)' <=> Has(u, d)
    BY DEF Has, Live
  <2> QED BY <1>2, <2>1, <2>2, SweepLater
<1>6. UNCHANGED req => RequestInv'
  BY <1>2, RequestLater
<1>7. UNCHANGED rewind => ContentInv' /\ RewindInv'
  <2>1. UNCHANGED rewind => RewindInv'
    BY <1>1, Fields DEF RewindInv, Has, Live
  <2> QED BY <2>1, ContentSame
<1> QED BY <1>2, <1>3, <1>4, <1>5, <1>6, <1>7

----------------------------------------------------------------------------
(***************************************************************************)
(* The sweep.                                                              *)
(***************************************************************************)
LEMMA SweepListKeeps ==
    ASSUME IInv, SweepList
    PROVE  IInv'
<1> USE DEF IInv
<1> DEFINE rest == {u \in Threads : Live(u) /\ ~Running(u) /\ thread[u].wt # NoDir /\ ~Shared(u, thread[u].wt)}
           list == {<<t, thread[t].wt>> : t \in rest}
<1>1. /\ sweep = Idle /\ sweep' = [pc |-> "next", mark |-> Now, list |-> list]
      /\ UNCHANGED <<thread, git, session, prompts, whose, lock, send, req, rewind, create>>
      /\ told' \in [requests : Nat, sweeps : Nat, promised : SUBSET Threads]
  BY DEF SweepList, TypeOK, OtherTypes
<1>2. \A t \in rest : thread[t].wt \in Threads
  BY DEF TypeOK, StoreTypes, Row, Dir
<1>3. list \subseteq Threads \X Threads
  BY <1>2
<1>4. \A p \in list : AloneAt(p[1], p[2], Now) /\ RestsAt(p[1], Now)
  BY DEF AloneAt, RestsAt, Shared
<1> HIDE DEF list
<1>5. sweep' \in SweepListed /\ sweep'.pc = "next" /\ sweep'.mark = Now /\ sweep'.list = list
  BY <1>1, <1>3, Fields DEF SweepListed
<1>6. TypeOK'
  BY <1>1, <1>5 DEF TypeOK, StoreTypes, DiskTypes, SendTypes, OtherTypes
<1>7. LockInv'
  BY <1>1, <1>5 DEF LockInv
<1>8. SweepInv'
  <2>1. Now' = Now /\ Now <= Now /\ \A t, d, m : (AloneAt(t, d, m)' <=> AloneAt(t, d, m)) /\ (RestsAt(t, m)' <=> RestsAt(t, m))
    BY <1>1, Fields DEF Now, AloneAt, RestsAt, Has, Live, Running
  <2> QED BY <1>4, <1>5, <2>1 DEF SweepInv
<1> QED BY <1>1, <1>6, <1>7, <1>8, FreshSame, ContentSame, TurnSame, RequestSame, RewindSame

\* The checkout the sweep goes on with holds nothing that git ignores.
LEMMA SweepLookKeeps ==
    ASSUME IInv, NEW t \in Threads, NEW d \in Threads, SweepLook(t, d)
    PROVE  IInv'
<1> USE DEF IInv
<1> DEFINE rest == sweep.list \ {<<t, d>>}
<1>1. /\ sweep.pc = "next" /\ <<t, d>> \in sweep.list /\ sweep \in SweepListed
      /\ UNCHANGED <<thread, git, session, prompts, whose, lock, send, req, rewind, create, told>>
  BY DEF SweepLook, TypeOK, OtherTypes, SweepOne, Idle
<1>2. rest \in SUBSET (Threads \X Threads) /\ sweep.mark \in Nat
  BY <1>1, Fields
<1>3. /\ sweep' \in SweepListed \cup SweepOne
      /\ sweep'.pc \in {"next", "lock"} /\ sweep'.mark = sweep.mark /\ sweep'.list = rest
      /\ sweep'.pc = "lock" => sweep'.t = t /\ sweep'.d = d /\ git[d].ignored = {}
  <2>1. CASE Cleanable(d) /\ sweep' = [pc |-> "lock", mark |-> sweep.mark, list |-> rest, t |-> t, d |-> d]
    BY <1>2, <2>1 DEF SweepOne, Cleanable
  <2>2. CASE sweep' = [sweep EXCEPT !.list = rest]
    BY <1>1, <1>2, <2>2 DEF SweepListed
  <2> QED BY <2>1, <2>2 DEF SweepLook
<1>4. TypeOK'
  BY <1>1, <1>3 DEF TypeOK, StoreTypes, DiskTypes, SendTypes, OtherTypes
<1>5. LockInv'
  BY <1>1, <1>3 DEF LockInv
<1>6. SweepInv'
  <2>1. Now' = Now /\ \A u, c, m : (AloneAt(u, c, m)' <=> AloneAt(u, c, m)) /\ (RestsAt(u, m)' <=> RestsAt(u, m))
    BY <1>1 DEF Now, AloneAt, RestsAt, Has, Live, Running
  <2>2. sweep.mark <= Now /\ \A p \in sweep.list : AloneAt(p[1], p[2], sweep.mark) /\ RestsAt(p[1], sweep.mark)
    BY <1>1 DEF SweepInv
  <2>3. AloneAt(t, d, sweep.mark) /\ RestsAt(t, sweep.mark)
    BY <1>1, <2>2
  <2> QED BY <1>1, <1>3, <2>1, <2>2, <2>3 DEF SweepInv
<1> QED BY <1>1, <1>4, <1>5, <1>6, FreshSame, ContentSame, TurnSame, RequestSame, RewindSame

\* Under promptMu the session is closed.
LEMMA SweepLockKeeps ==
    ASSUME IInv, SweepLock
    PROVE  IInv'
<1> USE DEF IInv
<1>1. /\ sweep.pc = "lock" /\ sweep \in SweepOne /\ lock = Free /\ sweep.t \in Threads
      /\ UNCHANGED <<thread, git, prompts, whose, send, req, rewind, create, told>>
  BY Fields DEF SweepLock, TypeOK, OtherTypes, SweepListed, Idle
<1>2. /\ sweep'.mark = sweep.mark /\ sweep'.list = sweep.list
      /\ \/ /\ sweep' \in SweepOne /\ sweep'.pc = "remove" /\ sweep'.t = sweep.t /\ sweep'.d = sweep.d
            /\ lock' = "sweep" /\ session' = [session EXCEPT ![sweep.t] = NoSession]
         \/ sweep' \in SweepListed /\ sweep'.pc = "next" /\ lock' = lock /\ session' = session
  <2>1. CASE Live(sweep.t) /\ ~Running(sweep.t)
    BY <1>1, <2>1 DEF SweepLock, SweepOne
  <2>2. CASE ~(Live(sweep.t) /\ ~Running(sweep.t))
    BY <1>1, <2>2 DEF SweepLock, SweepOne, SweepListed, SweepNext
  <2> QED BY <2>1, <2>2
<1>3. /\ session' \in [Threads -> Session]
      /\ \A u \in Threads : session'[u] = session[u] \/ session'[u] = NoSession
      /\ sweep'.pc = "remove" => session'[sweep.t] = NoSession
      /\ NoSession.cwd = NoDir /\ NoSession.since = 0
  BY <1>1, <1>2 DEF TypeOK, DiskTypes, Session, NoSession
<1>4. TypeOK'
  BY <1>1, <1>2, <1>3 DEF TypeOK, StoreTypes, DiskTypes, SendTypes, OtherTypes
<1>5. LockInv'
  BY <1>1, <1>2 DEF LockInv
<1>6. Later
  BY <1>1, <1>3, <1>4, Closing
<1>7. SweepInv'
  <2>1. PICK m \in Nat, t \in Threads, d \in Threads : m = sweep.mark /\ t = sweep.t /\ d = sweep.d
    BY <1>1, Fields
  <2>2. m <= Now /\ Now' = Now /\ \A n \in git[d].ignored : Has(whose[n], d)' => n > m
    BY <1>1, <2>1 DEF SweepInv, Now, Has, Live
  <2>3. \A p \in sweep.list : p[1] \in Threads /\ p[2] \in Threads /\ AloneAt(p[1], p[2], m) /\ RestsAt(p[1], m)
    BY <1>1, <2>1, Fields DEF SweepInv
  <2>4. \A p \in sweep.list : AloneAt(p[1], p[2], m)' /\ RestsAt(p[1], m)'
    BY <1>4, <1>6, <2>2, <2>3, AloneLater, RestsLater
  <2>5. AloneAt(t, d, m) /\ RestsAt(t, m)
    BY <1>1, <2>1 DEF SweepInv
  <2>6. AloneAt(t, d, m)' /\ RestsAt(t, m)'
    BY <1>4, <1>6, <2>2, <2>5, AloneLater, RestsLater
  <2>7. CASE sweep'.pc = "remove"
    <3>1. sweep'.mark = m /\ sweep'.list = sweep.list /\ sweep'.t = t /\ sweep'.d = d /\ session'[t] = NoSession
      BY <1>2, <1>3, <2>1, <2>7
    <3> QED BY <1>1, <2>2, <2>4, <2>6, <2>7, <3>1 DEF SweepInv, AloneAt, RestsAt
  <2>8. CASE sweep'.pc = "next"
    BY <1>2, <2>1, <2>2, <2>4, <2>8 DEF SweepInv, AloneAt, RestsAt
  <2> QED BY <1>2, <2>7, <2>8
<1> QED BY <1>1, <1>3, <1>4, <1>5, <1>7, Closing

LEMMA RemovedIs ==
    ASSUME TypeOK, NEW d \in Threads
    PROVE  /\ Removed(d) \in [Threads -> Checkout]
           /\ \A c \in Threads : /\ Removed(d)[c].done = git[c].done
                                 /\ Removed(d)[c].open \subseteq git[c].open
                                 /\ Removed(d)[c].ignored \subseteq git[c].ignored
<1> DEFINE gone == [git[d] EXCEPT !.there = FALSE, !.open = {}, !.ignored = {}]
<1>1. git \in [Threads -> Checkout] /\ git[d] \in Checkout
  BY DEF TypeOK, DiskTypes
<1>2. Removed(d) = [git EXCEPT ![d] = gone]
  BY <1>1 DEF Removed
<1>3. gone \in Checkout /\ gone.done = git[d].done /\ gone.open = {} /\ gone.ignored = {}
  BY <1>1 DEF Checkout
<1> HIDE DEF gone
<1> QED BY <1>1, <1>2, <1>3

LEMMA SweepRemoveKeeps ==
    ASSUME IInv, SweepRemove
    PROVE  IInv'
<1> USE DEF IInv
<1>1. /\ sweep.pc = "remove" /\ sweep \in SweepOne /\ lock = "sweep" /\ lock' = Free /\ sweep.d \in Threads
      /\ UNCHANGED <<thread, session, prompts, whose, send, req, rewind, create>>
  BY Fields DEF SweepRemove, LockInv, TypeOK, OtherTypes, SweepListed, Idle
<1>2. sweep' \in SweepListed /\ sweep'.pc = "next" /\ sweep'.mark = sweep.mark /\ sweep'.list = sweep.list
  BY <1>1 DEF SweepRemove, SweepNext, SweepOne, SweepListed
<1>3. /\ git' \in [Threads -> Checkout]
      /\ \A c \in Threads : /\ git'[c].done = git[c].done /\ git'[c].open \subseteq git[c].open
                            /\ git'[c].ignored \subseteq git[c].ignored
  <2>1. CASE git' = git
    BY <2>1 DEF TypeOK, DiskTypes
  <2>2. CASE git' = Removed(sweep.d)
    BY <1>1, <2>2, RemovedIs
  <2> QED BY <2>1, <2>2 DEF SweepRemove
<1>4. told' \in [requests : Nat, sweeps : Nat, promised : SUBSET Threads]
  BY <1>1, Fields DEF SweepRemove, TypeOK, OtherTypes
<1>5. TypeOK'
  BY <1>1, <1>2, <1>3, <1>4 DEF TypeOK, StoreTypes, DiskTypes, SendTypes, OtherTypes
<1>6. LockInv'
  BY <1>1, <1>2 DEF LockInv
<1>7. SweepInv'
  BY <1>1, <1>2 DEF SweepInv, AloneAt, RestsAt, Has, Live, Running, Now
<1> QED BY <1>1, <1>3, <1>5, <1>6, <1>7, GitLess, FreshSame, TurnSame, RequestSame

LEMMA SweepEndsKeeps ==
    ASSUME IInv, SweepEnds
    PROVE  IInv'
<1> USE DEF IInv
<1>1. /\ sweep' = Idle /\ sweep'.pc = "idle"
      /\ UNCHANGED <<thread, git, session, prompts, whose, lock, send, req, rewind, create, told>>
  BY DEF SweepEnds, Idle
<1>2. TypeOK' /\ LockInv' /\ SweepInv'
  BY <1>1 DEF TypeOK, StoreTypes, DiskTypes, SendTypes, OtherTypes, LockInv, SweepInv
<1> QED BY <1>1, <1>2, FreshSame, ContentSame, TurnSame, RequestSame, RewindSame

----------------------------------------------------------------------------
(***************************************************************************)
(* RemoveWorktree and DeleteThread.                                        *)
(***************************************************************************)
LEMMA AskKeeps ==
    ASSUME IInv, NEW t \in Threads, DeleteThread(t) \/ \E force \in BOOLEAN : RemoveWorktree(t, force)
    PROVE  IInv'
<1> USE DEF IInv
<1>1. /\ req' \in ReqCloses /\ req'.pc = "close" /\ (req'.op = "remove" => req'.d # NoDir)
      /\ UNCHANGED <<thread, git, session, prompts, whose, lock, send, sweep, rewind, create>>
      /\ told' = [told EXCEPT !.requests = @ + 1]
  <2>1. thread[t].wt \in Dir
    BY DEF TypeOK, StoreTypes, Row
  <2>2. CASE DeleteThread(t)
    BY <2>1, <2>2 DEF DeleteThread, Requested, ReqCloses
  <2>3. CASE \E force \in BOOLEAN : RemoveWorktree(t, force)
    BY <2>1, <2>3 DEF RemoveWorktree, Requested, ReqCloses
  <2> QED BY <2>2, <2>3
<1>2. told' \in [requests : Nat, sweeps : Nat, promised : SUBSET Threads]
  BY <1>1 DEF TypeOK, OtherTypes
<1>3. TypeOK' /\ RequestInv'
  BY <1>1, <1>2 DEF TypeOK, StoreTypes, DiskTypes, SendTypes, OtherTypes, RequestInv
<1> QED BY <1>1, <1>3, LockSame, FreshSame, ContentSame, TurnSame, SweepSame, RewindSame

\* What it closes is over: a session the thread has later was started since.
LEMMA RequestClosesKeeps ==
    ASSUME IInv, RequestCloses
    PROVE  IInv'
<1> USE DEF IInv
<1>1. /\ req.pc = "close" /\ req \in ReqCloses /\ req.t \in Threads
      /\ UNCHANGED <<thread, git, prompts, whose, lock, send, sweep, rewind, create, told>>
  BY Fields DEF RequestCloses, TypeOK, OtherTypes, ReqGit, ReqAppends, Idle
<1>2. /\ req' \in ReqCloses /\ req'.pc = "look" /\ req'.t = req.t /\ req'.closed = Now
      /\ req'.op = req.op /\ req'.d = req.d
  BY <1>1, Fields DEF RequestCloses, ReqCloses
<1>3. /\ session' \in [Threads -> Session] /\ session'[req.t] = NoSession
      /\ \A u \in Threads : session'[u] = session[u] \/ session'[u] = NoSession
  BY <1>1 DEF RequestCloses, TypeOK, DiskTypes, Session, NoSession
<1>4. TypeOK'
  BY <1>1, <1>2, <1>3 DEF TypeOK, StoreTypes, DiskTypes, SendTypes, OtherTypes
<1>5. RequestInv'
  BY <1>1, <1>2, <1>3, Fields DEF RequestInv, Now
<1> QED BY <1>1, <1>3, <1>4, <1>5, Closing, LockSame

\* Nobody else has the worktree when it looks.
LEMMA RequestLooksKeeps ==
    ASSUME IInv, RequestLooks
    PROVE  IInv'
<1> USE DEF IInv
<1> DEFINE d == IF req.op = "delete" THEN thread[req.t].wt ELSE req.d
<1>1. /\ req.pc = "look" /\ req \in ReqCloses /\ req.t \in Threads
      /\ UNCHANGED <<thread, git, session, prompts, whose, lock, send, sweep, rewind, create, told>>
  BY Fields DEF RequestLooks, TypeOK, OtherTypes, ReqGit, ReqAppends, Idle
<1>2. d \in Dir
  BY <1>1, Fields DEF TypeOK, StoreTypes, Row
<1>3. CASE d = NoDir \/ Shared(req.t, d)
  <2>1. req' \in ReqAppends /\ req'.pc = "append"
    BY <1>1, <1>3 DEF RequestLooks, RequestAppend, ReqAppends, ReqCloses
  <2>2. TypeOK' /\ RequestInv'
    BY <1>1, <2>1 DEF TypeOK, StoreTypes, DiskTypes, SendTypes, OtherTypes, RequestInv
  <2> QED BY <1>1, <2>2, LockSame, FreshSame, ContentSame, TurnSame, SweepSame, RewindSame
<1>4. CASE ~(d = NoDir \/ Shared(req.t, d))
  <2>1. d \in Threads /\ AloneAt(req.t, d, Now)
    BY <1>2, <1>4 DEF Dir, AloneAt, Shared
  <2>2. req' = [req EXCEPT !.pc = "git", !.d = d, !.mark = Now]
    BY <1>4 DEF RequestLooks
  <2> HIDE DEF d
  <2>3. /\ req' \in ReqGit /\ req'.pc = "git" /\ req'.t = req.t /\ req'.d = d
        /\ req'.closed = req.closed /\ req'.mark = Now
    BY <1>1, <2>1, <2>2, Fields DEF ReqCloses, ReqGit
  <2>4. TypeOK'
    BY <1>1, <2>3 DEF TypeOK, StoreTypes, DiskTypes, SendTypes, OtherTypes
  <2>5. RequestInv'
    BY <1>1, <2>1, <2>3, Fields DEF RequestInv, AloneAt, Has, Live, Now
  <2> QED BY <1>1, <2>4, <2>5, LockSame, FreshSame, ContentSame, TurnSame, SweepSame, RewindSame
<1> QED BY <1>3, <1>4

LEMMA RequestGitKeeps ==
    ASSUME IInv, RequestGit
    PROVE  IInv'
<1> USE DEF IInv
<1>1. /\ req.pc = "git" /\ req \in ReqGit /\ req.d \in Threads
      /\ UNCHANGED <<thread, session, prompts, whose, lock, send, sweep, rewind, create, told>>
  BY Fields DEF RequestGit, TypeOK, OtherTypes, ReqCloses, ReqAppends, Idle
<1>2. req' \in {Idle} \cup ReqAppends /\ req'.pc \in {"idle", "append"}
  BY <1>1 DEF RequestGit, RequestAppend, ReqGit, ReqAppends, Idle
<1>3. /\ git' \in [Threads -> Checkout]
      /\ \A c \in Threads : /\ git'[c].done = git[c].done /\ git'[c].open \subseteq git[c].open
                            /\ git'[c].ignored \subseteq git[c].ignored
  <2>1. CASE git' = git
    BY <2>1 DEF TypeOK, DiskTypes
  <2>2. CASE git' = Removed(req.d)
    BY <1>1, <2>2, RemovedIs
  <2> QED BY <2>1, <2>2 DEF RequestGit
<1>4. TypeOK'
  BY <1>1, <1>2, <1>3 DEF TypeOK, StoreTypes, DiskTypes, SendTypes, OtherTypes
<1>5. RequestInv'
  BY <1>2 DEF RequestInv
<1>6. SweepInv'
  BY <1>1, <1>3, Fields DEF SweepInv, AloneAt, RestsAt, Has, Live, Running, Now
<1> QED BY <1>1, <1>3, <1>4, <1>5, <1>6, GitLess, LockSame, FreshSame, TurnSame

\* A thread that loses its worktree never has one again.
LEMMA RequestAppendsKeeps ==
    ASSUME IInv, RequestAppends
    PROVE  IInv'
<1> USE DEF IInv
<1> DEFINE t == req.t
<1>1. /\ req.pc = "append" /\ req.t \in Threads /\ req' = Idle /\ req'.pc = "idle"
      /\ UNCHANGED <<git, session, whose, lock, send, sweep, rewind, create, told>>
  BY Fields DEF RequestAppends, Idle
<1>2. /\ thread' \in [Threads -> Row]
      /\ \A u \in Threads : /\ thread'[u].state = thread[u].state \/ (u = t /\ thread'[u].state = "deleted")
                            /\ thread'[u].wt \in {thread[u].wt, NoDir}
                            /\ thread'[u].turn \in {thread[u].turn, NoTurn}
                            /\ thread'[u].state # thread[u].state => thread'[u].turn = NoTurn
  <2>1. CASE req.op = "delete"
    <3>1. thread' = [thread EXCEPT ![t] = [Unborn EXCEPT !.state = "deleted"]]
      BY <2>1 DEF RequestAppends
    <3> QED BY <1>1, <3>1 DEF TypeOK, StoreTypes, Row, Unborn, Dir, Branch
  <2>2. CASE req.op # "delete"
    <3>1. thread' = [thread EXCEPT ![t].wt = NoDir, ![t].branch = "temp"]
      BY <2>2 DEF RequestAppends
    <3> DEFINE row == [thread[t] EXCEPT !.wt = NoDir, !.branch = "temp"]
    <3>2. thread \in [Threads -> Row] /\ thread[t] \in Row
      BY <1>1 DEF TypeOK, StoreTypes
    <3>3. thread' = [thread EXCEPT ![t] = row]
      BY <3>1, <3>2
    <3>4. row \in Row /\ row.state = thread[t].state /\ row.wt = NoDir /\ row.turn = thread[t].turn
      BY <3>2 DEF Row, Dir, Branch
    <3> HIDE DEF row
    <3> QED BY <1>1, <3>2, <3>3, <3>4
  <2> QED BY <2>1, <2>2
<1>3. /\ prompts' \in [Threads -> Seq(Prompt)]
      /\ \A u \in Threads : prompts'[u] = prompts[u] \/ (Len(prompts'[u]) = 0 /\ thread'[u].state = "deleted")
  <2>1. CASE req.op = "delete"
    <3>1. prompts' = [prompts EXCEPT ![t] = <<>>] /\ thread'[t].state = "deleted"
      BY <1>1, <2>1 DEF RequestAppends, TypeOK, StoreTypes, Unborn
    <3>2. prompts \in [Threads -> Seq(Prompt)] /\ <<>> \in Seq(Prompt) /\ Len(<<>>) = 0
      BY NoneYet DEF TypeOK, StoreTypes
    <3>3. \A u \in Threads : prompts'[u] = IF u = t THEN <<>> ELSE prompts[u]
      BY <3>1, <3>2
    <3> QED BY <3>1, <3>2, <3>3
  <2>2. CASE req.op # "delete"
    <3>1. prompts' = prompts
      BY <2>2 DEF RequestAppends
    <3> QED BY <3>1 DEF TypeOK, StoreTypes
  <2> QED BY <2>1, <2>2
<1>4. /\ \A u \in Threads : (Fresh(u)' => Fresh(u)) /\ (Live(u)' => Live(u)) /\ (thread'[u].state = "none" => thread[u].state = "none")
      /\ \A u, c \in Threads : Has(u, c)' => Has(u, c)
      /\ \A u \in Threads : Running(u)' => Running(u) /\ thread'[u].turn = thread[u].turn /\ thread'[u].state = thread[u].state
      /\ Now' = Now /\ Now \in Nat
  BY <1>1, <1>2, Fields DEF Fresh, Has, Live, Running, Now
<1>5. TypeOK'
  BY <1>1, <1>2, <1>3 DEF TypeOK, StoreTypes, DiskTypes, SendTypes, OtherTypes
<1>6. FreshInv'
  BY <1>1, <1>2, <1>4, Fields DEF FreshInv
<1>7. ContentInv'
  <2>1. Onward
    BY <1>1, <1>4 DEF Onward
  <2>2. \A u \in Threads : \A i \in 1..Len(prompts'[u]) :
            Left(prompts[u][i].cp.done)' /\ Left(prompts[u][i].cp.open)'
    BY <1>3, <2>1, LeftOn DEF ContentInv
  <2> QED BY <1>1, <2>1, <2>2, LeftOn DEF ContentInv
<1>8. TurnInv'
  BY <1>1, <1>4 DEF TurnInv, Live
<1>9. Later
  BY <1>1, <1>4 DEF Later
<1>10. \A d \in Threads : \A n \in git[d].done \cup git[d].open \cup git[d].ignored : whose[n] \in Threads
  <2>1. \A n \in 1..Now : whose[n] \in Threads
    BY DEF TypeOK, StoreTypes, Now
  <2> QED BY <2>1 DEF ContentInv, Left
<1>11. SweepInv'
  BY <1>1, <1>4, <1>5, <1>9, <1>10, SweepLater, Fields
<1>12. RequestInv'
  BY <1>1 DEF RequestInv
<1>13. RewindInv'
  <2>1. rewind.pc = "restore" => /\ thread'[rewind.t].state # "none"
                                 /\ Live(rewind.t)' => rewind.i <= Len(prompts'[rewind.t])
    BY <1>1, <1>3, <1>4, Fields DEF RewindInv, Live
  <2> QED BY <1>1, <1>4, <1>10, <2>1, Fields DEF RewindInv
<1> QED BY <1>1, <1>5, <1>6, <1>7, <1>8, <1>11, <1>12, <1>13, LockSame

----------------------------------------------------------------------------
(***************************************************************************)
(* Rewind.                                                                 *)
(***************************************************************************)
\* No other thread has the worktree when the files go back.
LEMMA RewindKeeps ==
    ASSUME IInv, NEW t \in Threads, NEW i \in 1..Len(prompts[t]), NEW files \in BOOLEAN, Rewind(t, i, files)
    PROVE  IInv'
<1> USE DEF IInv
<1> DEFINE cp == prompts[t][i].cp
           d == thread[t].wt
<1>1. /\ rewind = Idle /\ lock = Free /\ Live(t)
      /\ files => d # NoDir /\ ~Shared(t, d)
      /\ told' = [told EXCEPT !.requests = @ + 1]
      /\ session' = [session EXCEPT ![t] = NoSession]
      /\ UNCHANGED <<thread, git, prompts, whose, send, sweep, req, create>>
  BY DEF Rewind, Requested
<1>2. /\ cp \in Checkpoint /\ d \in Dir /\ Left(cp.done) /\ Left(cp.open) /\ i \in Nat \ {0}
      /\ told' \in [requests : Nat, sweeps : Nat, promised : SUBSET Threads]
  <2>1. prompts[t] \in Seq(Prompt) /\ prompts[t][i] \in Prompt /\ d \in Dir /\ i \in Nat \ {0}
    BY DEF TypeOK, StoreTypes, Row
  <2>2. Left(cp.done) /\ Left(cp.open)
    BY DEF ContentInv
  <2>3. told' \in [requests : Nat, sweeps : Nat, promised : SUBSET Threads]
    BY <1>1 DEF TypeOK, OtherTypes
  <2> QED BY <2>1, <2>2, <2>3 DEF Prompt
<1>3. \/ rewind' = rewind /\ lock' = lock
      \/ /\ lock' = "rewind" /\ rewind' \in RewindState
         /\ rewind'.t = t /\ rewind'.d = d /\ rewind'.i = i /\ rewind'.cp = cp /\ rewind'.files = files
  <2> DEFINE r == [pc |-> "restore", t |-> t, d |-> d, i |-> i, cp |-> cp, files |-> files]
  <2>1. (rewind' = rewind /\ lock' = lock) \/ (lock' = "rewind" /\ rewind' = r)
    BY DEF Rewind
  <2>2. r \in RewindState
    BY <1>2 DEF RewindState
  <2>3. r.t = t /\ r.d = d /\ r.i = i /\ r.cp = cp /\ r.files = files
    OBVIOUS
  <2> HIDE DEF r, cp, d
  <2> QED BY <2>1, <2>2, <2>3
<1>4. /\ session' \in [Threads -> Session]
      /\ \A u \in Threads : session'[u] = session[u] \/ session'[u] = NoSession
      /\ NoSession.cwd = NoDir
  BY <1>1 DEF TypeOK, DiskTypes, Session, NoSession
<1> HIDE DEF cp
<1>5. TypeOK'
  <2>1. OtherTypes'
    BY <1>1, <1>2, <1>3 DEF TypeOK, OtherTypes, Idle, RewindState
  <2>2. StoreTypes' /\ DiskTypes' /\ SendTypes'
    BY <1>1, <1>4 DEF TypeOK, StoreTypes, DiskTypes, SendTypes
  <2> QED BY <2>1, <2>2 DEF TypeOK
<1>6. LockInv'
  BY <1>1, <1>3 DEF LockInv, RewindState, Idle
<1>7. ContentInv'
  BY <1>1, <1>2, <1>3 DEF ContentInv, Left, Fresh, Now, Idle
<1>8. RewindInv'
  <2>1. thread'[t].state # "none" /\ i <= Len(prompts'[t])
    BY <1>1 DEF Live
  <2>2. files => \A u \in Threads \ {t} : ~Has(u, d)'
    BY <1>1 DEF Shared, Has, Live
  <2>3. \A c \in Threads : \A n \in git[c].done \cup git[c].open : whose[n] \in Threads
    <3>1. \A n \in 1..Now : whose[n] \in Threads
      BY DEF TypeOK, StoreTypes, Now
    <3> QED BY <3>1 DEF ContentInv, Left
  <2>4. files => d \in Threads
    BY <1>1, <1>2 DEF Dir
  <2> QED BY <1>1, <1>3, <2>1, <2>2, <2>3, <2>4 DEF RewindInv, Idle
<1> QED BY <1>1, <1>4, <1>5, <1>6, <1>7, <1>8, Closing

LEMMA RewindRestoresKeeps ==
    ASSUME IInv, RewindRestores
    PROVE  IInv'
<1> USE DEF IInv
<1> DEFINE t == rewind.t
           d == rewind.d
<1>1. /\ rewind.pc = "restore" /\ rewind \in RewindState /\ t \in Threads /\ rewind.cp \in Checkpoint
      /\ lock = "rewind" /\ lock' = Free /\ rewind' = Idle /\ rewind'.pc = "idle"
      /\ UNCHANGED <<thread, session, whose, send, sweep, req, create, told>>
  BY Fields DEF RewindRestores, LockInv, TypeOK, OtherTypes, Idle
<1>2. /\ git' \in [Threads -> Checkout]
      /\ \A c \in Threads : /\ git'[c].done \in {git[c].done, rewind.cp.done}
                            /\ git'[c].open \in {git[c].open, rewind.cp.open}
                            /\ git'[c].ignored = git[c].ignored
  <2>1. CASE rewind.files /\ git[d].there
    <3> DEFINE restored == [git[d] EXCEPT !.done = rewind.cp.done, !.open = rewind.cp.open]
    <3>1. git \in [Threads -> Checkout] /\ d \in Threads /\ git[d] \in Checkout
      BY <1>1, <2>1, Fields DEF TypeOK, DiskTypes
    <3>2. git' = [git EXCEPT ![d] = restored]
      BY <2>1, <3>1 DEF RewindRestores
    <3>3. /\ restored \in Checkout /\ restored.done = rewind.cp.done /\ restored.open = rewind.cp.open
          /\ restored.ignored = git[d].ignored
      BY <1>1, <3>1 DEF Checkout, Checkpoint
    <3> HIDE DEF restored
    <3> QED BY <3>1, <3>2, <3>3
  <2>2. CASE ~(rewind.files /\ git[d].there)
    <3>1. git' = git
      BY <2>2 DEF RewindRestores
    <3> QED BY <3>1 DEF TypeOK, DiskTypes
  <2> QED BY <2>1, <2>2
<1>3. /\ prompts' \in [Threads -> Seq(Prompt)]
      /\ \A u \in Threads : \A i \in 1..Len(prompts'[u]) :
            i \in 1..Len(prompts[u]) /\ prompts'[u][i] = prompts[u][i]
  <2>1. prompts \in [Threads -> Seq(Prompt)]
    BY DEF TypeOK, StoreTypes
  <2>2. CASE prompts' = [prompts EXCEPT ![t] = SubSeq(@, 1, rewind.i - 1)] /\ Live(t)
    <3> DEFINE q == prompts[t]
               k == rewind.i - 1
    <3>1. q \in Seq(Prompt) /\ k \in Nat /\ k <= Len(q) /\ Len(q) \in Nat
      BY <1>1, <2>1, <2>2 DEF RewindInv, RewindState
    <3>2. prompts' = [prompts EXCEPT ![t] = SubSeq(q, 1, k)]
      BY <2>2
    <3> HIDE DEF q, k
    <3>3. SubSeq(q, 1, k) \in Seq(Prompt) /\ Len(SubSeq(q, 1, k)) = k /\ \A i \in 1..k : SubSeq(q, 1, k)[i] = q[i]
      BY <3>1
    <3> QED BY <1>1, <2>1, <3>1, <3>2, <3>3 DEF q
  <2>3. CASE prompts' = prompts
    BY <2>1, <2>3
  <2> QED BY <2>2, <2>3 DEF RewindRestores
<1>4. TypeOK'
  BY <1>1, <1>2, <1>3 DEF TypeOK, StoreTypes, DiskTypes, SendTypes, OtherTypes
<1>5. LockInv'
  BY <1>1 DEF LockInv
<1>6. ContentInv'
  <2>1. Onward
    BY <1>1, Fields DEF Onward, Fresh, Now
  <2>2. \A u \in Threads : \A i \in 1..Len(prompts'[u]) :
            Left(prompts[u][i].cp.done)' /\ Left(prompts[u][i].cp.open)'
    BY <1>3, <2>1, LeftOn DEF ContentInv
  <2>3. Left(rewind.cp.done) /\ Left(rewind.cp.open)
    BY <1>1 DEF ContentInv
  <2>4. \A c \in Threads : Left(git[c].done)' /\ Left(git[c].open)' /\ Left(git[c].ignored)'
    BY <1>2, <2>1, <2>3, LeftOn DEF ContentInv
  <2> QED BY <1>1, <2>1, <2>2, <2>4, LeftOn DEF ContentInv
<1>7. SweepInv'
  BY <1>1, <1>2, Fields DEF SweepInv, AloneAt, RestsAt, Has, Live, Running, Now
<1>8. RewindInv'
  BY <1>1 DEF RewindInv
<1> QED BY <1>1, <1>4, <1>5, <1>6, <1>7, <1>8, FreshSame, TurnSame, RequestSame

LEMMA RenameBranchKeeps ==
    ASSUME IInv, NEW t \in Threads, RenameBranch(t)
    PROVE  IInv'
<1> USE DEF IInv
<1>1. /\ UNCHANGED <<session, prompts, whose, lock, send, sweep, req, rewind, create, told>>
      /\ thread' \in [Threads -> Row] /\ git' \in [Threads -> Checkout]
      /\ \A u \in Threads : /\ thread'[u].state = thread[u].state /\ thread'[u].wt = thread[u].wt
                            /\ thread'[u].turn = thread[u].turn
                            /\ git'[u].done = git[u].done /\ git'[u].open = git[u].open
                            /\ git'[u].ignored = git[u].ignored
  <2>1. UNCHANGED <<session, prompts, whose, lock, send, sweep, req, rewind, create, told>>
    BY DEF RenameBranch, pcs
  <2>2. thread \in [Threads -> Row] /\ thread' = [thread EXCEPT ![t].branch = "named"]
    BY DEF RenameBranch, TypeOK, StoreTypes
  <2>3. /\ thread' \in [Threads -> Row]
        /\ \A u \in Threads : /\ thread'[u].state = thread[u].state /\ thread'[u].wt = thread[u].wt
                              /\ thread'[u].turn = thread[u].turn
    BY <2>2 DEF Row, Branch
  <2>4. git \in [Threads -> Checkout] /\ git' = [git EXCEPT ![t].branch = "named"]
    BY DEF RenameBranch, TypeOK, DiskTypes
  <2>5. /\ git' \in [Threads -> Checkout]
        /\ \A u \in Threads : /\ git'[u].done = git[u].done /\ git'[u].open = git[u].open
                              /\ git'[u].ignored = git[u].ignored
    BY <2>4 DEF Checkout, Branch
  <2> QED BY <2>1, <2>3, <2>5
<1>2. /\ \A u \in Threads : (Fresh(u)' <=> Fresh(u)) /\ (Live(u)' <=> Live(u)) /\ (Running(u)' <=> Running(u))
      /\ \A u, c \in Threads : Has(u, c)' <=> Has(u, c)
      /\ Now' = Now /\ Now \in Nat
  BY <1>1, Fields DEF Fresh, Has, Live, Running, Now
<1>3. TypeOK'
  BY <1>1 DEF TypeOK, StoreTypes, DiskTypes, SendTypes, OtherTypes
<1>4. FreshInv'
  BY <1>1, <1>2, Fields DEF FreshInv
<1>5. ContentInv'
  <2>1. Onward
    BY <1>1, <1>2 DEF Onward
  <2> QED BY <1>1, <2>1, LeftOn DEF ContentInv
<1>6. TurnInv'
  BY <1>1, <1>2 DEF TurnInv
<1>7. Later
  BY <1>1, <1>2 DEF Later
<1>8. \A d \in Threads : \A n \in git[d].done \cup git[d].open \cup git[d].ignored : whose[n] \in Threads
  <2>1. \A n \in 1..Now : whose[n] \in Threads
    BY DEF TypeOK, StoreTypes, Now
  <2> QED BY <2>1 DEF ContentInv, Left
<1>9. SweepInv'
  BY <1>1, <1>2, <1>3, <1>7, <1>8, SweepLater, Fields
<1>10. RequestInv'
  BY <1>1, <1>3, <1>7, RequestLater
<1>11. RewindInv'
  BY <1>1, <1>2, <1>8, Fields DEF RewindInv
<1> QED BY <1>1, <1>3, <1>4, <1>5, <1>6, <1>9, <1>10, <1>11, LockSame

----------------------------------------------------------------------------
LEMMA StutterKeeps == ASSUME IInv, UNCHANGED vars PROVE IInv'
<1> USE DEF IInv
<1>1. /\ UNCHANGED <<thread, git, session, prompts, whose, lock, send, sweep, req, rewind, create, told>>
  BY DEF vars, pcs
<1>2. TypeOK'
  BY <1>1 DEF TypeOK, StoreTypes, DiskTypes, SendTypes, OtherTypes
<1> QED BY <1>1, <1>2, LockSame, FreshSame, ContentSame, TurnSame, SweepSame, RequestSame, RewindSame

\* What holds in every state.
THEOREM Invariance == Spec => []IInv
<1>1. ASSUME IInv, [Next]_vars PROVE IInv'
  <2>1. CASE Creating
    BY <1>1, <2>1, CreateKeeps, CreateWorktreeKeeps DEF Creating
  <2>2. CASE Sending
    BY <1>1, <2>2, SendReadKeeps, SendCheckpointKeeps, SendLockKeeps, SendBeginKeeps DEF Sending
  <2>3. CASE Working
    BY <1>1, <2>3, EndTurnKeeps, WritesKeeps, CommitsKeeps DEF Working
  <2>4. CASE Sweeping
    BY <1>1, <2>4, SweepListKeeps, SweepLookKeeps, SweepLockKeeps, SweepRemoveKeeps, SweepEndsKeeps DEF Sweeping
  <2>5. CASE Requesting
    BY <1>1, <2>5, AskKeeps, RequestClosesKeeps, RequestLooksKeeps, RequestGitKeeps, RequestAppendsKeeps DEF Requesting
  <2>6. CASE Rewinding
    BY <1>1, <2>6, RewindKeeps, RewindRestoresKeeps DEF Rewinding
  <2>7. CASE Renaming
    BY <1>1, <2>7, RenameBranchKeeps DEF Renaming
  <2>8. CASE UNCHANGED vars
    BY <1>1, <2>8, StutterKeeps
  <2> QED BY <1>1, <2>1, <2>2, <2>3, <2>4, <2>5, <2>6, <2>7, <2>8 DEF Next
<1> QED BY <1>1, Initially, PTL DEF Spec

\* Every variable of Worktrees keeps its type.
THEOREM TypeCorrect == Spec => []TypeOK
<1>1. IInv => TypeOK
  BY DEF IInv
<1> QED BY <1>1, Invariance, PTL

\* The sweep never takes a checkout from a session of the thread it sweeps: from
\* the close to the removal it holds promptMu, without which no session starts.
THEOREM SweepSparesItsThreadHolds == Spec => []SweepSparesItsThread
<1>1. IInv => SweepSparesItsThread
  BY Fields DEF IInv, SweepSparesItsThread, SweepInv, NoSession
<1> QED BY <1>1, Invariance, PTL

\* A session that loses its checkout was started after the removal closed or looked.
THEOREM RemovedUnderLateHolds == Spec => []RemovedUnderLate
<1>1. ASSUME IInv PROVE RemovedUnderLate
  <2>1. ASSUME NEW g \in Going, NEW u \in Threads, session[u].cwd = g.d, Has(u, g.d)
        PROVE  session[u].since > (IF u = g.t THEN g.closed ELSE g.mark)
    <3>1. CASE sweep.pc = "remove" /\ g = [t |-> sweep.t, d |-> sweep.d, force |-> FALSE, closed |-> Now, mark |-> sweep.mark]
      <4>1. u # sweep.t
        BY <1>1, <2>1, <3>1, Fields DEF IInv, SweepInv, NoSession
      <4> QED BY <1>1, <2>1, <3>1, <4>1 DEF IInv, SweepInv, AloneAt
    <3>2. CASE req.pc = "git" /\ g = [t |-> req.t, d |-> req.d, force |-> req.force, closed |-> req.closed, mark |-> req.mark]
      <4>1. g.t = req.t /\ g.d = req.d /\ g.closed = req.closed /\ g.mark = req.mark
        BY <3>2
      <4>2. session[u] # NoSession
        BY <1>1, <2>1, <3>2, <4>1, Fields DEF IInv, NoSession
      <4> QED BY <1>1, <2>1, <3>2, <4>1, <4>2 DEF IInv, RequestInv, AloneAt
    <3> QED BY <2>1, <3>1, <3>2 DEF Going
  <2> QED BY <2>1 DEF RemovedUnderLate
<1> QED BY <1>1, Invariance, PTL

\* What the sweep takes that git cannot bring back is of turns begun after it listed.
THEOREM SweepLosesOnlyLateHolds == Spec => []SweepLosesOnlyLate
<1>1. IInv => SweepLosesOnlyLate
  BY DEF IInv, SweepInv, SweepLosesOnlyLate
<1> QED BY <1>1, Invariance, PTL

\* Files that go back are those of the thread that is rewound.
THEOREM RewindSparesOthersHolds == Spec => []RewindSparesOthers
<1>1. IInv => RewindSparesOthers
  BY DEF IInv, RewindInv, RewindSparesOthers
<1> QED BY <1>1, Invariance, PTL
============================================================================
