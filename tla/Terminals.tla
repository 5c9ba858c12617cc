----------------------------- MODULE Terminals -----------------------------
(***************************************************************************)
(* The shells of one terminal pane and the streams that show them:         *)
(* internal/term/term.go, and termStream and termKill of                   *)
(* internal/web/term.go.                                                   *)
(*                                                                         *)
(* A shell has its process, its pty and the goroutine that reads it        *)
(* (Session.read); each stream is a request of its own, as is each Kill.   *)
(* A step is what happens under one hold of Manager.mu or Session.mu, or   *)
(* between two of them.  Output is counted in chunks: the n-th chunk the   *)
(* reader took is the number n.  Input and sizes are left out.             *)
(***************************************************************************)
EXTENDS Naturals, Sequences

CONSTANTS
    Streams,        \* streams open at a time
    SubBuffer,      \* capacity of a subscriber's channel
    Scrollback,     \* chunks kept for a replay
    MaxShells,      \* bound: shells started
    MaxOutput       \* bound: chunks a shell prints

ASSUME TerminalsAssumption ==
    /\ SubBuffer \in Nat \ {0} /\ Scrollback \in Nat \ {0}
    /\ MaxShells \in Nat /\ MaxOutput \in Nat

NoShell == 0
Shell == 1..MaxShells

VARIABLES
    started,    \* the last shell started
    shell,      \* process and pty, the reader, chunks in the scrollback so far
    pane,       \* Manager.sessions at the pane's id
    due,        \* shells taken from Manager.sessions whose Kill is to come
    subs,       \* the streams whose channel is in Session.subs, of each shell
    stream,     \* the streams
    up          \* no Shutdown yet

vars == <<started, shell, pane, due, subs, stream, up>>

----------------------------------------------------------------------------
Unborn == [proc |-> "none", pty |-> "open", reader |-> "none", out |-> 0]
Started == [proc |-> "runs", pty |-> "open", reader |-> "read", out |-> 0]

\* A stream: its channel (how often it was closed, once if there is none open, and
\* what waits in it), what it has sent to its page, and whether the channel was
\* closed because it lagged (history).
Away == [pc |-> "away", shell |-> NoShell, closes |-> 1, queue |-> <<>>, screen |-> <<>>, lagged |-> FALSE]

Init ==
    /\ started = NoShell /\ shell = [s \in Shell |-> Unborn] /\ subs = [s \in Shell |-> {}]
    /\ pane = NoShell /\ due = {}
    /\ stream = [c \in Streams |-> Away]
    /\ up = TRUE

Exited(s) == shell[s].reader \in {"ended", "done"}

\* The scrollback.
Replay(s) ==
    LET n == shell[s].out
        k == IF n < Scrollback THEN n ELSE Scrollback
    IN [i \in 1..k |-> n - k + i]

----------------------------------------------------------------------------
(***************************************************************************)
(* termStream.                                                             *)
(***************************************************************************)
Open(c) ==
    /\ up
    /\ stream[c].pc \in {"away", "stopped"}
    /\ stream' = [stream EXCEPT ![c] = [Away EXCEPT !.pc = "ask"]]
    /\ UNCHANGED <<started, shell, pane, due, subs, up>>

\* Manager.Session: the live shell, or a fresh one.
Session(c) ==
    /\ stream[c].pc = "ask"
    /\ IF pane # NoShell /\ ~Exited(pane)
       THEN UNCHANGED <<started, shell, pane>>
       ELSE /\ started < MaxShells
            /\ started' = started + 1
            /\ shell' = [shell EXCEPT ![started + 1] = Started]
            /\ pane' = started + 1
    /\ stream' = [stream EXCEPT ![c].pc = "join", ![c].shell = pane']
    /\ UNCHANGED <<due, subs, up>>

\* Mutant: the shell's subscribers are gone, and the channel is not closed either.
SubscribeUnclosed(c) ==
    LET s == stream[c].shell IN
    /\ stream[c].pc = "join"
    /\ stream' = [stream EXCEPT ![c].pc = "open", ![c].screen = Replay(s), ![c].closes = 0]
    /\ subs' = IF Exited(s) THEN subs ELSE [subs EXCEPT ![s] = @ \cup {c}]
    /\ UNCHANGED <<started, shell, pane, due, up>>

\* Subscribe: the scrollback so far, and a channel of what comes later, closed
\* at once if the shell has ended.
Subscribe(c) ==
    LET s == stream[c].shell IN
    /\ stream[c].pc = "join"
    /\ stream' = [stream EXCEPT ![c].pc = "open", ![c].screen = Replay(s),
                                ![c].closes = IF Exited(s) THEN 1 ELSE 0]
    /\ subs' = IF Exited(s) THEN subs ELSE [subs EXCEPT ![s] = @ \cup {c}]
    /\ UNCHANGED <<started, shell, pane, due, up>>

Send(c) ==
    /\ stream[c].pc = "open" /\ stream[c].queue # <<>>
    /\ stream' = [stream EXCEPT ![c].screen = Append(@, Head(stream[c].queue)), ![c].queue = Tail(@)]
    /\ UNCHANGED <<started, shell, pane, due, subs, up>>

\* Mutant: the stream asks whether the shell has exited before its channel is empty.
SeesExit(c) ==
    /\ stream[c].pc = "open" /\ (stream[c].closes > 0 \/ Exited(stream[c].shell))
    /\ stream' = [stream EXCEPT ![c].pc = "closed"]
    /\ UNCHANGED <<started, shell, pane, due, subs, up>>

SeesClosed(c) ==
    /\ stream[c].pc = "open" /\ stream[c].queue = <<>> /\ stream[c].closes > 0
    /\ stream' = [stream EXCEPT ![c].pc = "closed"]
    /\ UNCHANGED <<started, shell, pane, due, subs, up>>

\* "exit", after which the page stops, or the page connects again.
Ends(c) ==
    /\ stream[c].pc = "closed"
    /\ stream' = [stream EXCEPT ![c] = IF Exited(stream[c].shell) THEN [@ EXCEPT !.pc = "stopped"] ELSE Away]
    /\ UNCHANGED <<started, shell, pane, due, subs, up>>

\* The page goes away, or the server's shutdown ends the request.
Leave(c) ==
    /\ stream[c].pc = "open"
    /\ stream' = [stream EXCEPT ![c] = [Away EXCEPT !.pc = "cancel", !.shell = stream[c].shell,
                                                   !.closes = stream[c].closes]]
    /\ UNCHANGED <<started, shell, pane, due, subs, up>>

\* Mutant: the channel is closed whether or not it is still in the map.
CancelAlways(c) ==
    LET s == stream[c].shell IN
    /\ stream[c].pc = "cancel"
    /\ subs' = [subs EXCEPT ![s] = @ \ {c}]
    /\ stream' = [stream EXCEPT ![c] = [Away EXCEPT !.closes = stream[c].closes + 1]]
    /\ UNCHANGED <<started, shell, pane, due, up>>

\* The deferred cancel; who has lost the channel already closes nothing.
Cancel(c) ==
    LET s == stream[c].shell IN
    /\ stream[c].pc = "cancel"
    /\ subs' = [subs EXCEPT ![s] = @ \ {c}]
    /\ stream' = [stream EXCEPT ![c] =
         [Away EXCEPT !.closes = IF c \in subs[s] THEN stream[c].closes + 1 ELSE stream[c].closes]]
    /\ UNCHANGED <<started, shell, pane, due, up>>

----------------------------------------------------------------------------
(***************************************************************************)
(* Session.read.                                                           *)
(***************************************************************************)
\* What a shell printed can be read after it has exited, but not from a closed pty.
ReadChunk(s) ==
    /\ shell[s].reader = "read" /\ shell[s].pty = "open" /\ shell[s].out < MaxOutput
    /\ shell' = [shell EXCEPT ![s].reader = "fan"]
    /\ UNCHANGED <<started, pane, due, subs, stream, up>>

Full(c) == Len(stream[c].queue) = SubBuffer

\* Mutant: a chunk that finds no room is dropped.
FanOutLossy(s) ==
    LET n == shell[s].out + 1 IN
    /\ shell[s].reader = "fan"
    /\ shell' = [shell EXCEPT ![s].out = n, ![s].reader = "read"]
    /\ stream' = [c \in Streams |->
         IF c \in subs[s] /\ ~Full(c) THEN [stream[c] EXCEPT !.queue = Append(@, n)] ELSE stream[c]]
    /\ UNCHANGED <<started, pane, due, subs, up>>

\* The chunk goes into the scrollback and to every subscriber; one that has no
\* room loses its channel.
FanOut(s) ==
    LET n == shell[s].out + 1
        lagging == {c \in subs[s] : Full(c)}
    IN
    /\ shell[s].reader = "fan"
    /\ shell' = [shell EXCEPT ![s].out = n, ![s].reader = "read"]
    /\ stream' = [c \in Streams |->
         CASE c \in lagging -> [stream[c] EXCEPT !.closes = @ + 1, !.lagged = TRUE]
           [] c \in subs[s] \ lagging -> [stream[c] EXCEPT !.queue = Append(@, n)]
           [] OTHER -> stream[c]]
    /\ subs' = [subs EXCEPT ![s] = @ \ lagging]
    /\ UNCHANGED <<started, pane, due, up>>

\* The read fails: every channel is closed, exited is, and the pty.
ReadEnds(s) ==
    /\ shell[s].reader = "read" /\ (shell[s].proc = "gone" \/ shell[s].pty = "closed")
    /\ shell' = [shell EXCEPT ![s].reader = "ended", ![s].pty = "closed"]
    /\ stream' = [c \in Streams |-> IF c \in subs[s] THEN [stream[c] EXCEPT !.closes = @ + 1] ELSE stream[c]]
    /\ subs' = [subs EXCEPT ![s] = {}]
    /\ UNCHANGED <<started, pane, due, up>>

\* Mutant: whatever is there under the id is dropped.
OnExitAny(s) ==
    /\ shell[s].reader = "ended" /\ shell[s].proc = "gone"
    /\ shell' = [shell EXCEPT ![s].reader = "done"]
    /\ pane' = NoShell
    /\ UNCHANGED <<started, due, subs, stream, up>>

\* Wait, and onExit: the dead shell is dropped, unless a fresh one has its place.
OnExit(s) ==
    /\ shell[s].reader = "ended" /\ shell[s].proc = "gone"
    /\ shell' = [shell EXCEPT ![s].reader = "done"]
    /\ pane' = IF pane = s THEN NoShell ELSE pane
    /\ UNCHANGED <<started, due, subs, stream, up>>

----------------------------------------------------------------------------
(***************************************************************************)
(* Kill, KillPrefix and Shutdown: out of the map first, then the process.  *)
(***************************************************************************)
TakeOut ==
    /\ due' = due \cup ({pane} \ {NoShell})
    /\ pane' = NoShell

Kill ==
    /\ up /\ pane # NoShell
    /\ TakeOut
    /\ UNCHANGED <<started, shell, subs, stream, up>>

Shutdown ==
    /\ up /\ up' = FALSE
    /\ TakeOut
    /\ UNCHANGED <<started, shell, subs, stream>>

KillProcess(s) ==
    /\ s \in due
    /\ due' = due \ {s}
    /\ shell' = [shell EXCEPT ![s].proc = "gone", ![s].pty = "closed"]
    /\ UNCHANGED <<started, pane, subs, stream, up>>

\* The shell exits; one whose pty is closed is hung up.
ShellExits(s) ==
    /\ shell[s].proc = "runs"
    /\ shell' = [shell EXCEPT ![s].proc = "gone"]
    /\ UNCHANGED <<started, pane, due, subs, stream, up>>

----------------------------------------------------------------------------
Streaming(c) == Open(c) \/ Session(c) \/ Subscribe(c) \/ Send(c) \/ SeesClosed(c) \/ Ends(c) \/ Leave(c) \/ Cancel(c)

Reading(s) == ReadChunk(s) \/ FanOut(s) \/ ReadEnds(s) \/ OnExit(s) \/ ShellExits(s)

Next ==
    \/ \E c \in Streams : Streaming(c)
    \/ \E s \in Shell : Reading(s)
    \/ Kill \/ Shutdown
    \/ \E s \in due : KillProcess(s)

Spec == Init /\ [][Next]_vars

\* Goroutines go on: a stream that has a shell, the reader, and a Kill that has
\* begun.  No page need leave, and no shell print or exit.
FairSpec ==
    /\ Spec
    /\ \A c \in Streams : WF_vars(Subscribe(c) \/ Send(c) \/ SeesClosed(c) \/ Ends(c) \/ Cancel(c))
    /\ \A s \in Shell : WF_vars(FanOut(s) \/ ReadEnds(s)) /\ WF_vars(KillProcess(s))

----------------------------------------------------------------------------
\* A channel is closed once, and the reader never sends on a closed one: it would
\* panic the server.  The reader closes it when it lags, the end of the shell
\* closes those that are left, Subscribe that of a shell that has ended, and the
\* stream its own (term.go:174-192, 215-233).
ClosedOnce ==
    \A c \in Streams :
        /\ stream[c].closes <= 1
        /\ \A s \in Shell : c \in subs[s] => stream[c].closes = 0

\* What a stream has sent and what waits in its channel is a run of the shell's
\* output without a gap; as long as the channel is open it reaches to the last
\* chunk, and from the start or a full scrollback back (term.go:169-182, 215-224).
InSync ==
    \A c \in Streams :
        LET s == stream[c].shell
            seen == stream[c].screen \o stream[c].queue
        IN stream[c].pc \in {"open", "closed", "stopped"} =>
            /\ \A i \in 1..Len(seen) - 1 : seen[i + 1] = seen[i] + 1
            /\ stream[c].closes = 0 => IF seen = <<>> THEN shell[s].out = 0 ELSE seen[Len(seen)] = shell[s].out
            /\ seen # <<>> => seen[1] = 1 \/ Len(seen) >= Scrollback

\* A shell that runs can be found and ended: it is the pane's, or its Kill is to
\* come.  One left out would outlive the server (term.go:47-59, 73-82, 117-130).
RunningIsKept == \A s \in Shell : shell[s].proc = "runs" => s = pane \/ s \in due

\* A page that is told "exit", and so stops, has shown the shell's last output,
\* unless it had lagged (web/term.go:114-122).
ExitShowsAll ==
    \A c \in Streams :
        LET t == stream[c] IN
        t.pc = "stopped" /\ ~t.lagged /\ shell[t.shell].out > 0
            => t.screen # <<>> /\ t.screen[Len(t.screen)] = shell[t.shell].out

\* A stream of a shell that has ended, or is being killed, ends
\* (term.go:188-194, 215-221).
StreamsEnd ==
    \A c \in Streams :
        LET follows == stream[c].pc \in {"join", "open"} IN
        follows /\ (stream[c].shell \in due \/ Exited(stream[c].shell)) ~> ~follows
=============================================================================
