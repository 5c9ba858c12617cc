----------------------------- MODULE Worktrees -----------------------------
(***************************************************************************)
(* The worktrees of a project's threads: internal/app/app.go (CreateThread,*)
(* RemoveWorktree, DeleteThread, what SendPrompt does to a checkout),      *)
(* cleanup.go, rewind.go, and the git commands they run                    *)
(* (internal/gitx/worktree.go, checkpoint.go).                             *)
(*                                                                         *)
(* Each operation runs in a goroutine of its own.  A step is what it does  *)
(* between two reads of something others change: the store, the registry   *)
(* of sessions, or the disk.  Only SendPrompt, Rewind and the removal of   *)
(* the sweep hold promptMu.  A checkout is named after the thread it was   *)
(* made for, and has one branch; what lies in it is told apart by the turn *)
(* that made it and by whether it is committed, open to a commit (changed  *)
(* or untracked) or ignored by git.  The prompt queue is in Turns: here a  *)
(* prompt for a busy thread is only turned away.                           *)
(***************************************************************************)
EXTENDS Naturals, Sequences, FiniteSets

CONSTANTS
    Threads,        \* ids of threads, and so of the checkouts made for them
    Founder,        \* the thread that is there at first
    Senders,        \* SendPrompt calls at a time
    MaxTurns,       \* bound: turns
    MaxRequests,    \* bound: RemoveWorktree, DeleteThread and Rewind calls
    MaxSweeps,      \* bound: sweeps
    Ops             \* the optional operations

AllOps == {"sweep", "remove", "delete", "rewind", "rename", "join", "own"}
NoTurn == 0
NoDir == "nodir"
Main == "main"              \* the project's own checkout
Free == "free"

ASSUME WorktreesAssumption ==
    /\ Founder \in Threads
    /\ NoDir \notin Threads /\ Main \notin Threads
    /\ Senders \cap {Free, "sweep", "rewind"} = {}
    /\ MaxTurns \in Nat /\ MaxRequests \in Nat /\ MaxSweeps \in Nat
    /\ Ops \subseteq AllOps

NoSession == [cwd |-> NoDir, since |-> NoTurn]
NoCheckpoint == [taken |-> FALSE, done |-> {}, open |-> {}]

VARIABLES
    thread,     \* the threads table: state, worktree, worktree_branch; turn # NoTurn is status running
    git,        \* each checkout: is it on disk, its branch, what lies in it
    session,    \* sessions: where the agent works, and its first turn
    prompts,    \* the prompts of each thread: the turn and PromptMeta.Checkpoint
    whose,      \* turns so far: the thread of each
    lock,       \* promptMu
    send,       \* SendPrompt calls
    sweep,      \* CleanWorktrees
    req,        \* RemoveWorktree or DeleteThread
    rewind,     \* Rewind
    create,     \* CreateThread
    told        \* history: requests and sweeps so far, threads the sweep promised their checkout

pcs == <<send, sweep, req, rewind, create>>
vars == <<thread, git, session, prompts, whose, lock, pcs, told>>

----------------------------------------------------------------------------
Idle == [pc |-> "idle"]
Absent == [there |-> FALSE, branch |-> "temp", done |-> {}, open |-> {}, ignored |-> {}]
Unborn == [state |-> "none", wt |-> NoDir, branch |-> "temp", turn |-> NoTurn]

Init ==
    /\ thread = [t \in Threads |-> IF t = Founder THEN [Unborn EXCEPT !.state = "live", !.wt = t] ELSE Unborn]
    /\ git = [d \in Threads |-> [Absent EXCEPT !.there = (d = Founder)]]
    /\ session = [t \in Threads |-> NoSession]
    /\ prompts = [t \in Threads |-> <<>>]
    /\ whose = <<>>
    /\ lock = Free
    /\ send = [s \in Senders |-> Idle]
    /\ sweep = Idle /\ req = Idle /\ rewind = Idle /\ create = Idle
    /\ told = [requests |-> 0, sweeps |-> 0, promised |-> {}]

Live(t) == thread[t].state = "live"
Running(t) == thread[t].turn # NoTurn

\* sharedWorktree.
Has(t, d) == Live(t) /\ thread[t].wt = d
Shared(t, d) == \E o \in Threads \ {t} : Has(o, d)

Now == Len(whose)           \* the last turn begun

----------------------------------------------------------------------------
(***************************************************************************)
(* git.                                                                    *)
(***************************************************************************)
\* gitx.RemoveWorktree refuses a checkout with changes, unless forced.
Removable(d, force) == force \/ git[d].open = {}

\* What is committed stays on the branch; the rest is gone.
Removed(d) == [git EXCEPT ![d].there = FALSE, ![d].open = {}, ![d].ignored = {}]

\* gitx.Cleanable: nothing would be lost.
Cleanable(d) == git[d].there /\ git[d].open = {} /\ git[d].ignored = {}

\* gitx.Checkpoint.
CheckpointOf(d) == [taken |-> TRUE, done |-> git[d].done, open |-> git[d].open]

----------------------------------------------------------------------------
(***************************************************************************)
(* CreateThread: on a worktree of its own, or on that of another thread.   *)
(* The thread is in the store before it has its worktree.                  *)
(***************************************************************************)
Create(t, from) ==
    /\ create = Idle
    /\ thread[t].state = "none"
    /\ IF from = t THEN "own" \in Ops ELSE "join" \in Ops /\ Live(from) /\ thread[from].wt # NoDir
    /\ thread' = [thread EXCEPT ![t].state = "live"]
    /\ create' = [pc |-> "add", t |-> t, wt |-> IF from = t THEN t ELSE thread[from].wt,
                  branch |-> IF from = t THEN "temp" ELSE thread[from].branch]
    /\ UNCHANGED <<git, session, prompts, whose, lock, send, sweep, req, rewind, told>>

CreateWorktree ==
    /\ create.pc = "add"
    /\ LET t == create.t IN
        /\ thread' = IF Live(t) THEN [thread EXCEPT ![t].wt = create.wt, ![t].branch = create.branch] ELSE thread
        /\ git' = IF create.wt = t THEN [git EXCEPT ![t].there = TRUE] ELSE git
    /\ create' = Idle
    /\ UNCHANGED <<session, prompts, whose, lock, send, sweep, req, rewind, told>>

----------------------------------------------------------------------------
(***************************************************************************)
(* SendPrompt.                                                             *)
(***************************************************************************)
\* Before the lock: is there a checkout of its own to record?
SendRead(s, t) ==
    /\ send[s] = Idle
    /\ Live(t) /\ Now < MaxTurns
    /\ send' = [send EXCEPT ![s] =
         [pc |-> IF ~Running(t) /\ thread[t].wt # NoDir /\ ~Shared(t, thread[t].wt) THEN "checkpoint" ELSE "lock",
          t |-> t, wt |-> thread[t].wt, cp |-> NoCheckpoint]]
    /\ UNCHANGED <<thread, git, session, prompts, whose, lock, sweep, req, rewind, create, told>>

SendCheckpoint(s) ==
    /\ send[s].pc = "checkpoint"
    /\ LET d == send[s].wt IN
       send' = [send EXCEPT ![s].pc = "lock",
                            ![s].cp = IF git[d].there THEN CheckpointOf(d) ELSE @]
    /\ UNCHANGED <<thread, git, session, prompts, whose, lock, sweep, req, rewind, create, told>>

\* Under the lock the thread is read again: it may be gone or busy.  A session
\* to start has EnsureWorktree first put the checkout back, if its branch is
\* still there.
SendLock(s) ==
    LET t == send[s].t
        d == thread[t].wt
    IN
    /\ send[s].pc = "lock"
    /\ lock = Free
    /\ IF Live(t) /\ ~Running(t) /\ Now < MaxTurns
       THEN /\ lock' = s
            /\ send' = [send EXCEPT ![s] = [pc |-> "begin", t |-> t, wt |-> d, cp |-> @.cp, live |-> session[t]]]
            /\ git' = IF session[t] = NoSession /\ d # NoDir /\ thread[t].branch = git[d].branch
                      THEN [git EXCEPT ![d].there = TRUE] ELSE git
       ELSE /\ send' = [send EXCEPT ![s] = Idle]
            /\ UNCHANGED <<lock, git>>
    /\ UNCHANGED <<thread, session, prompts, whose, sweep, req, rewind, create, told>>

\* A session is started where Thread.Dir says, if there was none.  The prompt
\* goes into the transcript, unless the thread is gone, and the turn begins,
\* unless the session there was is closed by now.
SendBegin(s) ==
    LET t == send[s].t
        d == send[s].wt
        n == Now + 1
        new == send[s].live = NoSession
    IN
    /\ send[s].pc = "begin"
    /\ session' = IF new
                  THEN [session EXCEPT ![t] = [cwd |-> IF d # NoDir /\ git[d].there THEN d ELSE Main, since |-> n]]
                  ELSE session
    /\ IF Live(t)
       THEN /\ prompts' = [prompts EXCEPT ![t] = Append(@, [turn |-> n, cp |-> send[s].cp])]
            /\ whose' = Append(whose, t)
            /\ thread' = IF new \/ session[t] = send[s].live THEN [thread EXCEPT ![t].turn = n] ELSE thread
       ELSE UNCHANGED <<prompts, whose, thread>>
    /\ send' = [send EXCEPT ![s] = Idle]
    /\ lock' = Free
    /\ UNCHANGED <<git, sweep, req, rewind, create, told>>

----------------------------------------------------------------------------
(***************************************************************************)
(* A turn works where its session was started.                             *)
(***************************************************************************)
Works(t, d) == Running(t) /\ session[t].cwd = d /\ git[d].there

\* It leaves a changed or untracked file, or one that git ignores.
Writes(t, d) ==
    /\ Works(t, d)
    /\ \/ git' = [git EXCEPT ![d].open = @ \cup {thread[t].turn}]
       \/ git' = [git EXCEPT ![d].ignored = @ \cup {thread[t].turn}]
    /\ UNCHANGED <<thread, session, prompts, whose, lock, pcs, told>>

Commits(t, d) ==
    /\ Works(t, d)
    /\ git' = [git EXCEPT ![d].done = @ \cup git[d].open, ![d].open = {}]
    /\ UNCHANGED <<thread, session, prompts, whose, lock, pcs, told>>

\* The turn ends; a turn whose session was closed under it ends when Interrupt
\* finds no session.
EndTurn(t) ==
    /\ Running(t)
    /\ thread' = [thread EXCEPT ![t].turn = NoTurn]
    /\ UNCHANGED <<git, session, prompts, whose, lock, pcs, told>>

----------------------------------------------------------------------------
(***************************************************************************)
(* CleanWorktrees.  That a thread is due (quiet for days, or its work has  *)
(* landed) is a choice.                                                    *)
(***************************************************************************)
\* Mutant: a worktree two threads share is listed too.
SweepListShared ==
    /\ "sweep" \in Ops
    /\ sweep = Idle /\ told.sweeps < MaxSweeps
    /\ told' = [told EXCEPT !.sweeps = @ + 1]
    /\ sweep' = [pc |-> "next", mark |-> Now,
                 list |-> {<<t, thread[t].wt>> : t \in {u \in Threads :
                              Live(u) /\ ~Running(u) /\ thread[u].wt # NoDir}}]
    /\ UNCHANGED <<thread, git, session, prompts, whose, lock, send, req, rewind, create>>

\* The threads are listed, and with them who shares a worktree.
SweepList ==
    /\ "sweep" \in Ops
    /\ sweep = Idle /\ told.sweeps < MaxSweeps
    /\ told' = [told EXCEPT !.sweeps = @ + 1]
    /\ sweep' = [pc |-> "next", mark |-> Now,
                 list |-> {<<t, thread[t].wt>> : t \in {u \in Threads :
                              Live(u) /\ ~Running(u) /\ thread[u].wt # NoDir /\ ~Shared(u, thread[u].wt)}}]
    /\ UNCHANGED <<thread, git, session, prompts, whose, lock, send, req, rewind, create>>

\* Mutant: the checkout may hold ignored files and untracked ones.
SweepLookBlind(t, d) ==
    /\ sweep.pc = "next" /\ <<t, d>> \in sweep.list
    /\ \/ /\ git[d].there
          /\ sweep' = [pc |-> "lock", mark |-> sweep.mark, list |-> sweep.list \ {<<t, d>>}, t |-> t, d |-> d]
       \/ sweep' = [sweep EXCEPT !.list = @ \ {<<t, d>>}]
    /\ UNCHANGED <<thread, git, session, prompts, whose, lock, send, req, rewind, create, told>>

\* A thread of the list is due and its checkout is clean, or it is passed over.
SweepLook(t, d) ==
    /\ sweep.pc = "next" /\ <<t, d>> \in sweep.list
    /\ \/ /\ Cleanable(d)
          /\ sweep' = [pc |-> "lock", mark |-> sweep.mark, list |-> sweep.list \ {<<t, d>>}, t |-> t, d |-> d]
       \/ sweep' = [sweep EXCEPT !.list = @ \ {<<t, d>>}]
    /\ UNCHANGED <<thread, git, session, prompts, whose, lock, send, req, rewind, create, told>>

SweepNext == [pc |-> "next", mark |-> sweep.mark, list |-> sweep.list]

\* Mutant: the status is not read again under promptMu.
SweepLockUnread ==
    /\ sweep.pc = "lock"
    /\ lock = Free
    /\ lock' = "sweep"
    /\ sweep' = [sweep EXCEPT !.pc = "remove"]
    /\ UNCHANGED <<thread, git, session, prompts, whose, send, req, rewind, create, told>>

\* promptMu, the status again, and closeSession.
SweepLock ==
    /\ sweep.pc = "lock"
    /\ lock = Free
    /\ IF Live(sweep.t) /\ ~Running(sweep.t)
       THEN /\ lock' = "sweep"
            /\ session' = [session EXCEPT ![sweep.t] = NoSession]
            /\ sweep' = [sweep EXCEPT !.pc = "remove"]
       ELSE sweep' = SweepNext /\ UNCHANGED <<lock, session>>
    /\ UNCHANGED <<thread, git, prompts, whose, send, req, rewind, create, told>>

SweepRemove ==
    LET d == sweep.d IN
    /\ sweep.pc = "remove"
    /\ IF git[d].there /\ Removable(d, FALSE)
       THEN git' = Removed(d) /\ told' = [told EXCEPT !.promised = @ \cup {sweep.t}]
       ELSE UNCHANGED <<git, told>>
    /\ lock' = Free
    /\ sweep' = SweepNext
    /\ UNCHANGED <<thread, session, prompts, whose, send, req, rewind, create>>

SweepEnds ==
    /\ sweep.pc = "next" /\ sweep.list = {}
    /\ sweep' = Idle
    /\ UNCHANGED <<thread, git, session, prompts, whose, lock, send, req, rewind, create, told>>

----------------------------------------------------------------------------
(***************************************************************************)
(* RemoveWorktree and DeleteThread, without promptMu.                      *)
(***************************************************************************)
Requested == told.requests < MaxRequests /\ told' = [told EXCEPT !.requests = @ + 1]

RemoveWorktree(t, force) ==
    /\ "remove" \in Ops
    /\ req = Idle /\ Requested
    /\ Live(t) /\ thread[t].wt # NoDir /\ ~Running(t)
    /\ req' = [pc |-> "close", op |-> "remove", t |-> t, d |-> thread[t].wt, force |-> force, closed |-> NoTurn, mark |-> NoTurn]
    /\ UNCHANGED <<thread, git, session, prompts, whose, lock, send, sweep, rewind, create>>

DeleteThread(t) ==
    /\ "delete" \in Ops
    /\ req = Idle /\ Requested
    /\ Live(t)
    /\ req' = [pc |-> "close", op |-> "delete", t |-> t, d |-> thread[t].wt, force |-> FALSE, closed |-> NoTurn, mark |-> NoTurn]
    /\ UNCHANGED <<thread, git, session, prompts, whose, lock, send, sweep, rewind, create>>

RequestAppend == [pc |-> "append", op |-> req.op, t |-> req.t]

RequestCloses ==
    /\ req.pc = "close"
    /\ session' = [session EXCEPT ![req.t] = NoSession]
    /\ req' = [req EXCEPT !.pc = "look", !.closed = Now]
    /\ UNCHANGED <<thread, git, prompts, whose, lock, send, sweep, rewind, create, told>>

\* sharedWorktree: another thread keeps the checkout.
RequestLooks ==
    LET d == IF req.op = "delete" THEN thread[req.t].wt ELSE req.d IN
    /\ req.pc = "look"
    /\ req' = IF d = NoDir \/ Shared(req.t, d)
              THEN RequestAppend ELSE [req EXCEPT !.pc = "git", !.d = d, !.mark = Now]
    /\ UNCHANGED <<thread, git, session, prompts, whose, lock, send, sweep, rewind, create, told>>

\* A checkout that is refused stays, and with it the worktree of a thread that
\* is not deleted.
RequestGit ==
    LET d == req.d IN
    /\ req.pc = "git"
    /\ git' = IF git[d].there /\ Removable(d, req.force) THEN Removed(d) ELSE git
    /\ req' = IF Removable(d, req.force) \/ req.op = "delete" THEN RequestAppend ELSE Idle
    /\ UNCHANGED <<thread, session, prompts, whose, lock, send, sweep, rewind, create, told>>

RequestAppends ==
    LET t == req.t IN
    /\ req.pc = "append"
    /\ IF req.op = "delete"
       THEN /\ thread' = [thread EXCEPT ![t] = [Unborn EXCEPT !.state = "deleted"]]
            /\ prompts' = [prompts EXCEPT ![t] = <<>>]
       ELSE /\ thread' = [thread EXCEPT ![t].wt = NoDir, ![t].branch = "temp"]
            /\ UNCHANGED prompts
    /\ req' = Idle
    /\ UNCHANGED <<git, session, whose, lock, send, sweep, rewind, create, told>>

----------------------------------------------------------------------------
(***************************************************************************)
(* Rewind, under promptMu.                                                 *)
(***************************************************************************)
\* Mutant: without promptMu.
RewindUnlocked(t, i, files) ==
    LET cp == prompts[t][i].cp IN
    /\ "rewind" \in Ops
    /\ rewind = Idle /\ Requested
    /\ Live(t) /\ ~Running(t)
    /\ files => cp.taken /\ thread[t].wt # NoDir /\ ~Shared(t, thread[t].wt)
    /\ session' = [session EXCEPT ![t] = NoSession]
    /\ rewind' = [pc |-> "restore", t |-> t, d |-> thread[t].wt, i |-> i, cp |-> cp, files |-> files]
    /\ UNCHANGED <<thread, git, prompts, whose, lock, send, sweep, req, create>>

Rewind(t, i, files) ==
    LET cp == prompts[t][i].cp IN
    /\ "rewind" \in Ops
    /\ rewind = Idle /\ lock = Free /\ Requested
    /\ Live(t) /\ ~Running(t)
    /\ files => cp.taken /\ thread[t].wt # NoDir /\ ~Shared(t, thread[t].wt)
    /\ session' = [session EXCEPT ![t] = NoSession]
    /\ IF files => git[thread[t].wt].there
       THEN /\ lock' = "rewind"
            /\ rewind' = [pc |-> "restore", t |-> t, d |-> thread[t].wt, i |-> i, cp |-> cp, files |-> files]
       ELSE UNCHANGED <<lock, rewind>>
    /\ UNCHANGED <<thread, git, prompts, whose, send, sweep, req, create>>

\* RestoreCheckpoint, which leaves ignored files alone, and the append, which
\* fails if the thread is gone.
RewindRestores ==
    LET t == rewind.t
        d == rewind.d
    IN
    /\ rewind.pc = "restore"
    /\ IF rewind.files
       THEN git' = IF git[d].there THEN [git EXCEPT ![d].done = rewind.cp.done, ![d].open = rewind.cp.open] ELSE git
       ELSE UNCHANGED git
    /\ prompts' = IF Live(t) /\ (rewind.files => git[d].there)
                  THEN [prompts EXCEPT ![t] = SubSeq(@, 1, rewind.i - 1)] ELSE prompts
    /\ lock' = Free
    /\ rewind' = Idle
    /\ UNCHANGED <<thread, session, whose, send, sweep, req, create, told>>

----------------------------------------------------------------------------
(***************************************************************************)
(* nameWorktreeBranch: the thread it was made for, and only that one, gives*)
(* the branch the name of its title, once.                                 *)
(***************************************************************************)
RenameBranch(t) ==
    /\ "rename" \in Ops
    /\ Has(t, t) /\ thread[t].branch = "temp"
    /\ git[t].there /\ git[t].branch = "temp"
    /\ git' = [git EXCEPT ![t].branch = "named"]
    /\ thread' = [thread EXCEPT ![t].branch = "named"]
    /\ UNCHANGED <<session, prompts, whose, lock, pcs, told>>

----------------------------------------------------------------------------
Creating == (\E t, from \in Threads : Create(t, from)) \/ CreateWorktree

Sending ==
    \E s \in Senders :
        \/ \E t \in Threads : SendRead(s, t)
        \/ SendCheckpoint(s) \/ SendLock(s) \/ SendBegin(s)

Working == \E t \in Threads : EndTurn(t) \/ \E d \in Threads : Writes(t, d) \/ Commits(t, d)

Sweeping ==
    \/ SweepList \/ SweepLock \/ SweepRemove \/ SweepEnds
    \/ \E t, d \in Threads : SweepLook(t, d)

Requesting ==
    \/ \E t \in Threads : DeleteThread(t) \/ \E force \in BOOLEAN : RemoveWorktree(t, force)
    \/ RequestCloses \/ RequestLooks \/ RequestGit \/ RequestAppends

Rewinding ==
    \/ \E t \in Threads, files \in BOOLEAN : \E i \in 1..Len(prompts[t]) : Rewind(t, i, files)
    \/ RewindRestores

Renaming == \E t \in Threads : RenameBranch(t)

Next == Creating \/ Sending \/ Working \/ Sweeping \/ Requesting \/ Rewinding \/ Renaming

Spec == Init /\ [][Next]_vars

----------------------------------------------------------------------------
\* Where a checkout is about to go: for which thread and whether by force, the last
\* turn there was when that thread's session was closed, and when the operation
\* looked for other threads.
Going ==
    (IF sweep.pc = "remove"
     THEN {[t |-> sweep.t, d |-> sweep.d, force |-> FALSE, closed |-> Now, mark |-> sweep.mark]} ELSE {})
        \cup (IF req.pc = "git"
              THEN {[t |-> req.t, d |-> req.d, force |-> req.force, closed |-> req.closed, mark |-> req.mark]} ELSE {})

\* The sweep never takes a checkout from a session of the thread it sweeps: it
\* reads the status again and closes the session under promptMu, so that no
\* prompt starts one meanwhile (cleanup.go:93-103).
SweepSparesItsThread == sweep.pc = "remove" => session[sweep.t].cwd # sweep.d

\* Whoever removes a checkout has closed the session there was and looked for
\* other threads: a session that finds its checkout gone, of a thread that has
\* that worktree, was started later.  The sweep looks when it lists the threads,
\* long before it removes, and closes under promptMu (cleanup.go:42-53, 94-102,
\* app.go:687-696, 839-849).
RemovedUnderLate ==
    \A g \in Going : \A u \in Threads :
        Removable(g.d, g.force) /\ session[u].cwd = g.d /\ Has(u, g.d)
            => session[u].since > (IF u = g.t THEN g.closed ELSE g.mark)

\* What the sweep destroys, beside what git can restore, are ignored files of
\* turns begun after it listed the threads, or of threads that left the worktree
\* (cleanup.go:86-101, checkpoint.go:157-181, worktree.go:81-98).
SweepLosesOnlyLate ==
    sweep.pc = "remove" /\ Removable(sweep.d, FALSE) =>
        \A n \in git[sweep.d].ignored : Has(whose[n], sweep.d) => n > sweep.mark

\* Putting files back undoes no work of another thread that has this worktree:
\* Rewind asks whether it is shared, and a thread that comes to share it then
\* cannot begin a turn before the files are back (rewind.go:46-92,
\* app.go:1019-1028).
RewindSparesOthers ==
    rewind.pc = "restore" /\ rewind.files =>
        \A n \in (git[rewind.d].done \cup git[rewind.d].open) \ (rewind.cp.done \cup rewind.cp.open) :
            Has(whose[n], rewind.d) => whose[n] = rewind.t

\* "The branch stays, and the next prompt checks it out there again"
\* (cleanup.go:110), also for a thread that was created on another's worktree.
BranchComesBack ==
    [][\A t \in told.promised :
        session[t] = NoSession /\ session'[t] # NoSession /\ thread[t].wt \notin {NoDir, t}
            => session'[t].cwd = thread[t].wt]_vars
=============================================================================
