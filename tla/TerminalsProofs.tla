-------------------------- MODULE TerminalsProofs --------------------------
(***************************************************************************)
(* What holds of the shells of a pane for any number of streams, shells    *)
(* and chunks, and any size of channel and scrollback: first the channels  *)
(* and the shells, then what a page is shown.                              *)
(***************************************************************************)
EXTENDS Terminals, SequenceTheorems, TLAPS

ShellState == [proc : {"none", "runs", "gone"}, pty : {"open", "closed"},
               reader : {"none", "read", "fan", "ended", "done"}, out : Nat]
StreamState == [pc : {"away", "ask", "join", "open", "closed", "stopped", "cancel"}, shell : Nat, closes : {0, 1},
                queue : Seq(Nat), screen : Seq(Nat), lagged : BOOLEAN]

\* A stream that has asked for a shell has one.
Follows(c) == stream[c].pc \in {"join", "open", "closed", "stopped", "cancel"}

TypeInv ==
    /\ started \in Nat /\ started <= MaxShells
    /\ shell \in [Shell -> ShellState]
    /\ subs \in [Shell -> SUBSET Streams]
    /\ pane \in 0..started /\ due \subseteq 1..started
    /\ stream \in [Streams -> StreamState]
    /\ \A c \in Streams : Follows(c) => stream[c].shell \in 1..started

\* A shell whose reader is done, or whose pty is closed, is gone; one that was
\* not started has no process.
ShellInv ==
    \A s \in Shell :
        /\ Exited(s) => shell[s].proc = "gone" /\ subs[s] = {}
        /\ shell[s].pty = "closed" => shell[s].proc = "gone"
        /\ s > started => shell[s] = Unborn /\ subs[s] = {}
        /\ shell[s].proc = "runs" => s = pane \/ s \in due

\* The map of subscribers and the streams agree: a channel in it is open, its
\* stream follows that shell, and an open channel is in it.
SubsInv ==
    \A c \in Streams :
        /\ \A s \in Shell : c \in subs[s] => stream[c].closes = 0 /\ stream[c].shell = s /\ stream[c].pc \in {"open", "cancel"}
        /\ stream[c].pc = "open" /\ stream[c].closes = 0 => c \in subs[stream[c].shell]
        /\ stream[c].pc \in {"closed", "stopped"} => stream[c].closes = 1

IInv == TypeInv /\ ShellInv /\ SubsInv

USE TerminalsAssumption DEF Shell, NoShell

LEMMA Initially == Init => IInv
  <1> SUFFICES ASSUME Init PROVE IInv
    OBVIOUS
  <1>1. TypeInv
    BY DEF Init, TypeInv, ShellState, StreamState, Unborn, Away, Follows
  <1>2. ShellInv /\ SubsInv
    BY DEF Init, ShellInv, SubsInv, Unborn, Away, Exited
  <1>3. QED
    BY <1>1, <1>2 DEF IInv

LEMMA Replays == ASSUME TypeInv, NEW s \in Shell PROVE Replay(s) \in Seq(Nat)
  <1>1. shell[s].out \in Nat
    BY DEF TypeInv, ShellState
  <1>2. QED
    BY <1>1 DEF Replay

LEMMA AwayIsStream == Away \in StreamState /\ Away.pc = "away" /\ Away.closes = 1
  BY DEF Away, StreamState

\* A stream that is in no map of subscribers.
LEMMA NotSubscribed ==
    ASSUME IInv, NEW c \in Streams, stream[c].pc \notin {"open", "cancel"}
    PROVE  \A s \in Shell : c \notin subs[s]
  BY DEF IInv, SubsInv

\* A step that changes one stream and nothing of the shells.
LEMMA OneStream ==
    ASSUME IInv, NEW c \in Streams, NEW r \in StreamState,
           stream' = [stream EXCEPT ![c] = r], UNCHANGED <<started, shell, pane, due, subs>>,
           r.pc \notin {"away", "ask"} => r.shell \in 1..started,
           \A s \in Shell : c \in subs[s] => r.closes = 0 /\ r.shell = s /\ r.pc \in {"open", "cancel"},
           r.pc = "open" /\ r.closes = 0 => c \in subs[r.shell],
           r.pc \in {"closed", "stopped"} => r.closes = 1
    PROVE  IInv'
  <1>1. stream' \in [Streams -> StreamState]
    BY DEF IInv, TypeInv
  <1>2. stream'[c] = r /\ \A d \in Streams \ {c} : stream'[d] = stream[d]
    BY DEF IInv, TypeInv
  <1>3. \A d \in Streams : Follows(d)' => stream'[d].shell \in 1..started'
    BY <1>2 DEF IInv, TypeInv, Follows
  <1>4. TypeInv'
    BY <1>1, <1>3 DEF IInv, TypeInv
  <1>5. ShellInv'
    BY DEF IInv, ShellInv, Exited
  <1>6. SubsInv'
    BY <1>2 DEF IInv, SubsInv
  <1>7. QED
    BY <1>4, <1>5, <1>6 DEF IInv

\* A step that changes one shell and neither its subscribers nor a stream.
LEMMA OneShell ==
    ASSUME IInv, NEW s \in Shell, s <= started, NEW r \in ShellState,
           shell' = [shell EXCEPT ![s] = r], UNCHANGED <<started, subs, stream>>,
           pane' \in 0..started, due' \subseteq 1..started,
           r.reader \in {"ended", "done"} => r.proc = "gone" /\ subs[s] = {},
           r.pty = "closed" => r.proc = "gone",
           \A t \in Shell : shell'[t].proc = "runs" => t = pane' \/ t \in due'
    PROVE  IInv'
  <1>1. shell'[s] = r /\ \A t \in Shell \ {s} : shell'[t] = shell[t]
    BY DEF IInv, TypeInv
  <1>2. TypeInv'
    BY DEF IInv, TypeInv, Follows
  <1>3. ShellInv'
    <2> SUFFICES ASSUME NEW t \in Shell
                 PROVE /\ Exited(t)' => shell'[t].proc = "gone" /\ subs'[t] = {}
                       /\ shell'[t].pty = "closed" => shell'[t].proc = "gone"
                       /\ t > started' => shell'[t] = Unborn /\ subs'[t] = {}
      BY DEF ShellInv
    <2>1. CASE t = s
      BY <1>1, <2>1 DEF IInv, TypeInv, Exited
    <2>2. CASE t # s
      BY <1>1, <2>2 DEF IInv, ShellInv, Exited
    <2>3. QED
      BY <2>1, <2>2
  <1>4. SubsInv'
    BY DEF IInv, SubsInv
  <1>5. QED
    BY <1>2, <1>3, <1>4 DEF IInv

\* The steps of a stream.
LEMMA StreamStep == ASSUME IInv, NEW c \in Streams, Streaming(c) PROVE IInv'
  <1>t. stream \in [Streams -> StreamState]
    BY DEF IInv, TypeInv
  <1>0. stream[c] \in StreamState
    BY DEF IInv, TypeInv
  <1>s. started \in Nat /\ (stream[c].pc \notin {"away", "ask"} => stream[c].shell \in 1..started)
    BY <1>0 DEF IInv, TypeInv, Follows, StreamState
  <1>1. CASE Open(c)
    <2> DEFINE r == [Away EXCEPT !.pc = "ask"]
    <2>1. r \in StreamState /\ r.pc = "ask"
      BY AwayIsStream DEF StreamState
    <2>2. \A s \in Shell : c \notin subs[s]
      BY <1>1, NotSubscribed DEF Open
    <2>3. stream' = [stream EXCEPT ![c] = r] /\ UNCHANGED <<started, shell, pane, due, subs>>
      BY <1>1 DEF Open
    <2> HIDE DEF r
    <2>4. QED
      BY <2>1, <2>2, <2>3, OneStream
  <1>2. CASE Session(c)
    <2>1. \A s \in Shell : c \notin subs[s]
      BY <1>2, NotSubscribed DEF Session
    <2>2. CASE pane # NoShell /\ ~Exited(pane)
      <3> DEFINE r == [stream[c] EXCEPT !.pc = "join", !.shell = pane]
      <3>1. pane \in 1..started /\ pane \in Nat
        BY <2>2 DEF IInv, TypeInv
      <3>2. r \in StreamState /\ r.pc = "join" /\ r.shell = pane
        BY <1>0, <3>1 DEF StreamState
      <3>3. stream' = [stream EXCEPT ![c] = r] /\ UNCHANGED <<started, shell, pane, due, subs>>
        BY <1>2, <2>2 DEF Session
      <3> HIDE DEF r
      <3>4. QED
        BY <2>1, <3>1, <3>2, <3>3, OneStream
    <2>3. CASE ~(pane # NoShell /\ ~Exited(pane))
      <3> DEFINE r == [stream[c] EXCEPT !.pc = "join", !.shell = pane']
      <3>0. /\ started < MaxShells /\ started' = started + 1 /\ pane' = started + 1
            /\ shell' = [shell EXCEPT ![started + 1] = Started]
            /\ stream' = [stream EXCEPT ![c] = r]
            /\ UNCHANGED <<due, subs>>
        BY <1>2, <2>3 DEF Session
      <3>1. /\ started + 1 \in Shell /\ started' = started + 1 /\ pane' = started + 1
            /\ shell' = [shell EXCEPT ![started + 1] = Started]
            /\ stream' = [stream EXCEPT ![c] = r]
            /\ UNCHANGED <<due, subs>>
        BY <1>s, <3>0
      <3>2. r \in StreamState /\ r.pc = "join" /\ r.shell = started + 1
        <4>1. pane' \in Nat
          BY <1>s, <3>1
        <4>2. QED
          BY <1>0, <3>1, <4>1 DEF StreamState
      <3> HIDE DEF r
      <3>3. stream'[c] = r /\ \A d \in Streams \ {c} : stream'[d] = stream[d]
        BY <1>t, <3>1
      <3>4. /\ shell'[started + 1] = Started
            /\ \A s \in Shell \ {started + 1} : shell'[s] = shell[s]
        BY <3>1 DEF IInv, TypeInv
      <3>5. Started \in ShellState
        BY DEF Started, ShellState
      <3>6. \A d \in Streams : Follows(d)' => stream'[d].shell \in 1..started'
        BY <3>1, <3>2, <3>3 DEF IInv, TypeInv, Follows
      <3>7. TypeInv'
        <4>1. shell' \in [Shell -> ShellState] /\ stream' \in [Streams -> StreamState]
          BY <1>t, <3>1, <3>2, <3>5 DEF IInv, TypeInv
        <4>2. pane' \in 0..started' /\ due' \subseteq 1..started' /\ started' \in Nat /\ started' <= MaxShells
          BY <3>1 DEF IInv, TypeInv
        <4>3. QED
          BY <3>1, <3>6, <4>1, <4>2 DEF IInv, TypeInv
      <3>8. ShellInv'
        <4> SUFFICES ASSUME NEW s \in Shell
                     PROVE /\ Exited(s)' => shell'[s].proc = "gone" /\ subs'[s] = {}
                           /\ shell'[s].pty = "closed" => shell'[s].proc = "gone"
                           /\ s > started' => shell'[s] = Unborn /\ subs'[s] = {}
                           /\ shell'[s].proc = "runs" => s = pane' \/ s \in due'
          BY DEF ShellInv
        <4>1. CASE s = started + 1
          BY <3>1, <3>4, <4>1 DEF Exited, Started
        <4>2. CASE s # started + 1
          <5>1. shell'[s] = shell[s] /\ subs'[s] = subs[s]
            BY <3>1, <3>4, <4>2
          <5>2. s = pane => shell[s].proc # "runs"
            BY <2>3 DEF IInv, ShellInv
          <5>3. s > started' => s > started
            BY <3>1 DEF IInv, TypeInv
          <5>4. QED
            BY <3>1, <5>1, <5>2, <5>3 DEF IInv, ShellInv, Exited
        <4>3. QED
          BY <4>1, <4>2
      <3>9. SubsInv'
        BY <2>1, <3>1, <3>2, <3>3 DEF IInv, SubsInv
      <3>10. QED
        BY <3>7, <3>8, <3>9 DEF IInv
    <2>4. QED
      BY <2>2, <2>3
  <1>3. CASE Subscribe(c)
    <2> DEFINE s == stream[c].shell
               r == [stream[c] EXCEPT !.pc = "open", !.screen = Replay(s), !.closes = IF Exited(s) THEN 1 ELSE 0]
    <2>1. s \in Shell /\ s \in 1..started
      BY <1>s, <1>3 DEF Subscribe, IInv, TypeInv
    <2>2. /\ r \in StreamState /\ r.pc = "open" /\ r.shell = s
          /\ r.closes = IF Exited(s) THEN 1 ELSE 0
      BY <1>0, <2>1, Replays DEF IInv, StreamState
    <2>3. /\ stream' = [stream EXCEPT ![c] = r]
          /\ subs' = IF Exited(s) THEN subs ELSE [subs EXCEPT ![s] = @ \cup {c}]
          /\ UNCHANGED <<started, shell, pane, due>>
      BY <1>3 DEF Subscribe
    <2>4. \A t \in Shell : c \notin subs[t]
      BY <1>3, NotSubscribed DEF Subscribe
    <2> HIDE DEF s, r
    <2>5. CASE Exited(s)
      <3>1. subs' = subs /\ r.closes = 1
        BY <2>2, <2>3, <2>5
      <3>2. QED
        <4>1. stream' = [stream EXCEPT ![c] = r] /\ UNCHANGED <<started, shell, pane, due, subs>>
          BY <2>3, <3>1
        <4>2. QED
          <5>1. r \in StreamState /\ r.pc = "open" /\ r.shell \in 1..started /\ r.closes # 0
            BY <2>1, <2>2, <3>1
          <5>2. QED
            BY <2>4, <4>1, <5>1, OneStream
    <2>6. CASE ~Exited(s)
      <3>1. stream'[c] = r /\ \A d \in Streams \ {c} : stream'[d] = stream[d]
        BY <1>t, <2>3
      <3>2. subs'[s] = subs[s] \cup {c} /\ \A t \in Shell \ {s} : subs'[t] = subs[t]
        BY <2>1, <2>3, <2>6 DEF IInv, TypeInv
      <3>3. stream' \in [Streams -> StreamState] /\ subs' \in [Shell -> SUBSET Streams]
        BY <1>t, <2>1, <2>2, <2>3, <2>6 DEF IInv, TypeInv
      <3>4. \A d \in Streams : Follows(d)' => stream'[d].shell \in 1..started'
        BY <2>1, <2>2, <2>3, <3>1 DEF IInv, TypeInv, Follows
      <3>5. TypeInv'
        BY <2>3, <3>3, <3>4 DEF IInv, TypeInv
      <3>6. ShellInv'
        BY <2>1, <2>3, <2>6, <3>2 DEF IInv, TypeInv, ShellInv, Exited
      <3>7. SubsInv'
        <4> SUFFICES ASSUME NEW d \in Streams
                     PROVE /\ \A t \in Shell : d \in subs'[t] => stream'[d].closes = 0 /\ stream'[d].shell = t
                                                                 /\ stream'[d].pc \in {"open", "cancel"}
                           /\ stream'[d].pc = "open" /\ stream'[d].closes = 0 => d \in subs'[stream'[d].shell]
                           /\ stream'[d].pc \in {"closed", "stopped"} => stream'[d].closes = 1
          BY DEF SubsInv
        <4>1. CASE d = c
          BY <2>1, <2>2, <2>4, <2>6, <3>1, <3>2, <4>1
        <4>2. CASE d # c
          <5>1. \A t \in Shell : d \in subs'[t] <=> d \in subs[t]
            BY <3>2, <4>2
          <5>2. stream[d].pc = "open" => stream[d].shell \in Shell
            BY DEF IInv, TypeInv, Follows
          <5>3. QED
            BY <3>1, <4>2, <5>1, <5>2 DEF IInv, SubsInv
        <4>3. QED
          BY <4>1, <4>2
      <3>8. QED
        BY <3>5, <3>6, <3>7 DEF IInv
    <2>7. QED
      BY <2>5, <2>6
  <1>4. CASE Send(c)
    <2> DEFINE r == [stream[c] EXCEPT !.screen = Append(@, Head(stream[c].queue)), !.queue = Tail(@)]
    <2>1. /\ Append(stream[c].screen, Head(stream[c].queue)) \in Seq(Nat)
          /\ Tail(stream[c].queue) \in Seq(Nat)
      BY <1>0, <1>4 DEF Send, StreamState
    <2>2. r \in StreamState /\ r.pc = stream[c].pc /\ r.shell = stream[c].shell /\ r.closes = stream[c].closes
      BY <1>0, <2>1 DEF StreamState
    <2>3. stream' = [stream EXCEPT ![c] = r] /\ UNCHANGED <<started, shell, pane, due, subs>>
      BY <1>4 DEF Send
    <2> HIDE DEF r
    <2>4. QED
      <3>1. \A s \in Shell : c \in subs[s] => r.closes = 0 /\ r.shell = s /\ r.pc \in {"open", "cancel"}
        BY <2>2 DEF IInv, SubsInv
      <3>2. r.pc = "open" /\ r.closes = 0 => c \in subs[r.shell]
        BY <2>2 DEF IInv, SubsInv
      <3>3. r.pc = "open" /\ r.shell \in 1..started
        BY <1>s, <1>4, <2>2 DEF Send
      <3>4. QED
        BY <2>2, <2>3, <3>1, <3>2, <3>3, OneStream
  <1>5. CASE SeesClosed(c)
    <2> DEFINE r == [stream[c] EXCEPT !.pc = "closed"]
    <2>1. r \in StreamState /\ r.pc = "closed" /\ r.shell = stream[c].shell /\ r.closes = 1
      <3>1. stream[c].closes = 1
        BY <1>0, <1>5 DEF SeesClosed, StreamState
      <3>2. QED
        BY <1>0, <3>1 DEF StreamState
    <2>2. stream' = [stream EXCEPT ![c] = r] /\ UNCHANGED <<started, shell, pane, due, subs>>
      BY <1>5 DEF SeesClosed
    <2>3. \A s \in Shell : c \notin subs[s]
      BY <1>5 DEF SeesClosed, IInv, SubsInv
    <2>4. r.shell \in 1..started
      BY <1>s, <1>5 DEF SeesClosed
    <2> HIDE DEF r
    <2>5. QED
      BY <2>1, <2>2, <2>3, <2>4, OneStream
  <1>6. CASE Ends(c)
    <2> DEFINE r == IF Exited(stream[c].shell) THEN [stream[c] EXCEPT !.pc = "stopped"] ELSE Away
    <2>1. /\ r \in StreamState /\ r.closes = 1 /\ r.pc \in {"away", "stopped"}
          /\ r.pc = "stopped" => r.shell = stream[c].shell
      BY <1>0, <1>6, AwayIsStream DEF Ends, StreamState, IInv, SubsInv
    <2>2. stream' = [stream EXCEPT ![c] = r] /\ UNCHANGED <<started, shell, pane, due, subs>>
      BY <1>6 DEF Ends
    <2>3. \A s \in Shell : c \notin subs[s]
      BY <1>6, NotSubscribed DEF Ends
    <2>4. stream[c].shell \in 1..started
      BY <1>s, <1>6 DEF Ends
    <2> HIDE DEF r
    <2>5. QED
      BY <2>1, <2>2, <2>3, <2>4, OneStream
  <1>7. CASE Leave(c)
    <2> DEFINE r == [Away EXCEPT !.pc = "cancel", !.shell = stream[c].shell, !.closes = stream[c].closes]
    <2>1. r \in StreamState /\ r.closes = stream[c].closes /\ r.pc = "cancel" /\ r.shell = stream[c].shell
      BY <1>0, AwayIsStream DEF StreamState
    <2>2. stream' = [stream EXCEPT ![c] = r] /\ UNCHANGED <<started, shell, pane, due, subs>>
      BY <1>7 DEF Leave
    <2>3. stream[c].shell \in 1..started
      BY <1>s, <1>7 DEF Leave
    <2> HIDE DEF r
    <2>4. QED
      BY <2>1, <2>2, <2>3, OneStream DEF IInv, SubsInv
  <1>8. CASE Cancel(c)
    <2> DEFINE s == stream[c].shell
               k == IF c \in subs[s] THEN stream[c].closes + 1 ELSE stream[c].closes
               r == [Away EXCEPT !.closes = k]
    <2>1. s \in Shell
      BY <1>s, <1>8 DEF Cancel, IInv, TypeInv
    <2>2. c \in subs[s] => stream[c].closes = 0
      BY <2>1 DEF IInv, SubsInv
    <2>3. r \in StreamState /\ r.pc = "away"
      <3>1. k \in {0, 1}
        BY <1>0, <2>2 DEF StreamState
      <3> HIDE DEF k
      <3>2. QED
        BY <3>1, AwayIsStream DEF StreamState
    <2>4. /\ stream' = [stream EXCEPT ![c] = r]
          /\ subs' = [subs EXCEPT ![s] = @ \ {c}]
          /\ UNCHANGED <<started, shell, pane, due>>
      BY <1>8 DEF Cancel
    <2>5. \A t \in Shell : c \in subs[t] => t = s
      BY DEF IInv, SubsInv
    <2> HIDE DEF s, r
    <2>6. stream'[c] = r /\ \A d \in Streams \ {c} : stream'[d] = stream[d]
      BY <1>t, <2>4
    <2>7. subs'[s] = subs[s] \ {c} /\ \A t \in Shell \ {s} : subs'[t] = subs[t]
      BY <2>1, <2>4 DEF IInv, TypeInv
    <2>8. stream' \in [Streams -> StreamState] /\ subs' \in [Shell -> SUBSET Streams]
      BY <1>t, <2>1, <2>3, <2>4 DEF IInv, TypeInv
    <2>9. \A d \in Streams : Follows(d)' => stream'[d].shell \in 1..started'
      BY <2>3, <2>4, <2>6 DEF IInv, TypeInv, Follows
    <2>10. TypeInv'
      BY <2>4, <2>8, <2>9 DEF IInv, TypeInv
    <2>11. ShellInv'
      BY <2>1, <2>4, <2>7 DEF IInv, ShellInv, Exited
    <2>12. SubsInv'
      <3> SUFFICES ASSUME NEW d \in Streams
                   PROVE /\ \A t \in Shell : d \in subs'[t] => stream'[d].closes = 0 /\ stream'[d].shell = t
                                                               /\ stream'[d].pc \in {"open", "cancel"}
                         /\ stream'[d].pc = "open" /\ stream'[d].closes = 0 => d \in subs'[stream'[d].shell]
                         /\ stream'[d].pc \in {"closed", "stopped"} => stream'[d].closes = 1
        BY DEF SubsInv
      <3>1. CASE d = c
        BY <2>3, <2>5, <2>6, <2>7, <3>1
      <3>2. CASE d # c
        <4>1. \A t \in Shell : d \in subs'[t] <=> d \in subs[t]
          BY <2>7, <3>2
        <4>2. stream[d].pc = "open" => stream[d].shell \in Shell
          BY DEF IInv, TypeInv, Follows
        <4>3. QED
          BY <2>6, <3>2, <4>1, <4>2 DEF IInv, SubsInv
      <3>3. QED
        BY <3>1, <3>2
    <2>13. QED
      BY <2>10, <2>11, <2>12 DEF IInv
  <1>9. QED
    BY <1>1, <1>2, <1>3, <1>4, <1>5, <1>6, <1>7, <1>8 DEF Streaming

\* The steps of a shell and of its reader.
LEMMA ShellStep == ASSUME IInv, NEW s \in Shell, Reading(s) PROVE IInv'
  <1>0. shell[s] \in ShellState /\ shell \in [Shell -> ShellState]
    BY DEF IInv, TypeInv
  <1>01. s <= started
    <2>1. shell[s].reader \in {"read", "fan", "ended"} \/ shell[s].proc = "runs"
      BY DEF Reading, ReadChunk, FanOut, ReadEnds, OnExit, ShellExits
    <2>2. shell[s] # Unborn
      BY <2>1 DEF Unborn
    <2>3. QED
      BY <2>2 DEF IInv, TypeInv, ShellInv
  <1>02. pane \in 0..started /\ due \subseteq 1..started
    BY DEF IInv, TypeInv
  <1>03. \A t \in Shell : shell[t].proc = "runs" => t = pane \/ t \in due
    BY DEF IInv, ShellInv
  <1>04. shell[s].pty = "closed" => shell[s].proc = "gone"
    BY DEF IInv, ShellInv
  <1>05. shell[s].reader \in {"ended", "done"} => shell[s].proc = "gone" /\ subs[s] = {}
    BY DEF IInv, ShellInv, Exited
  <1>1. CASE ReadChunk(s)
    <2> DEFINE r == [shell[s] EXCEPT !.reader = "fan"]
    <2>1. r \in ShellState /\ r.reader = "fan" /\ r.proc = shell[s].proc /\ r.pty = shell[s].pty
      BY <1>0 DEF ShellState
    <2>2. shell' = [shell EXCEPT ![s] = r] /\ UNCHANGED <<started, pane, due, subs, stream>>
      BY <1>1 DEF ReadChunk
    <2> HIDE DEF r
    <2>3. \A t \in Shell : shell'[t].proc = shell[t].proc
      BY <1>0, <2>1, <2>2
    <2>4. QED
      BY <1>01, <1>02, <1>03, <1>04, <2>1, <2>2, <2>3, OneShell
  <1>2. CASE FanOut(s)
    <2> DEFINE n == shell[s].out + 1
               lagging == {c \in subs[s] : Full(c)}
    <2>1. n \in Nat
      BY <1>0 DEF ShellState
    <2>2. /\ shell[s].reader = "fan"
          /\ shell' = [shell EXCEPT ![s].out = n, ![s].reader = "read"]
          /\ subs' = [subs EXCEPT ![s] = @ \ lagging]
          /\ UNCHANGED <<started, pane, due, up>>
      BY <1>2 DEF FanOut
    <2>3. stream' = [c \in Streams |->
             CASE c \in lagging -> [stream[c] EXCEPT !.closes = @ + 1, !.lagged = TRUE]
               [] c \in subs[s] \ lagging -> [stream[c] EXCEPT !.queue = Append(@, n)]
               [] OTHER -> stream[c]]
      BY <1>2 DEF FanOut
    <2> HIDE DEF n
    <2>4. ASSUME NEW c \in Streams, c \in lagging
          PROVE /\ c \in subs[s] /\ stream'[c] = [stream[c] EXCEPT !.closes = 1, !.lagged = TRUE]
                /\ stream'[c] \in StreamState
      <3>1. stream[c] \in StreamState /\ stream[c].closes = 0
        BY <2>4 DEF IInv, TypeInv, SubsInv
      <3>2. stream'[c] = [stream[c] EXCEPT !.closes = stream[c].closes + 1, !.lagged = TRUE]
        BY <2>3, <2>4
      <3>3. stream'[c] = [stream[c] EXCEPT !.closes = 1, !.lagged = TRUE]
        BY <3>1, <3>2
      <3>4. QED
        BY <2>4, <3>1, <3>3 DEF StreamState
    <2>5. ASSUME NEW c \in Streams, c \in subs[s] \ lagging
          PROVE /\ stream'[c] = [stream[c] EXCEPT !.queue = Append(stream[c].queue, n)]
                /\ stream'[c] \in StreamState
      <3>1. stream'[c] = [stream[c] EXCEPT !.queue = Append(stream[c].queue, n)]
        BY <2>3, <2>5
      <3>2. stream[c] \in StreamState /\ Append(stream[c].queue, n) \in Seq(Nat)
        BY <2>1 DEF IInv, TypeInv, StreamState
      <3>3. QED
        BY <3>1, <3>2 DEF StreamState
    <2>6. ASSUME NEW c \in Streams, c \notin subs[s] PROVE stream'[c] = stream[c] /\ stream'[c] \in StreamState
      BY <2>3, <2>6 DEF IInv, TypeInv
    <2>7. stream' \in [Streams -> StreamState]
      <3>1. \A c \in Streams : stream'[c] \in StreamState
        BY <2>4, <2>5, <2>6
      <3>2. QED
        BY <2>3, <3>1
    <2>8. \A c \in Streams : stream'[c].pc = stream[c].pc /\ stream'[c].shell = stream[c].shell
      <3> SUFFICES ASSUME NEW c \in Streams
                   PROVE stream'[c].pc = stream[c].pc /\ stream'[c].shell = stream[c].shell
        OBVIOUS
      <3>1. stream[c] \in StreamState
        BY DEF IInv, TypeInv
      <3>2. CASE c \in lagging
        BY <2>4, <3>1, <3>2 DEF StreamState
      <3>3. CASE c \in subs[s] \ lagging
        BY <2>5, <3>1, <3>3 DEF StreamState
      <3>4. CASE c \notin subs[s]
        BY <2>6, <3>4
      <3>5. QED
        BY <3>2, <3>3, <3>4
    <2>9. TypeInv'
      BY <2>1, <2>2, <2>7, <2>8 DEF IInv, TypeInv, ShellState, Follows
    <2>10. ShellInv'
      BY <2>1, <2>2 DEF IInv, TypeInv, ShellInv, Exited, ShellState, Unborn
    <2>11. SubsInv'
      <3> SUFFICES ASSUME NEW c \in Streams
                   PROVE /\ \A t \in Shell : c \in subs'[t] => stream'[c].closes = 0 /\ stream'[c].shell = t
                                                               /\ stream'[c].pc \in {"open", "cancel"}
                         /\ stream'[c].pc = "open" /\ stream'[c].closes = 0 => c \in subs'[stream'[c].shell]
                         /\ stream'[c].pc \in {"closed", "stopped"} => stream'[c].closes = 1
        BY DEF SubsInv
      <3>a. stream[c] \in StreamState
        BY DEF IInv, TypeInv
      <3>b. c \in subs[s] => stream[c].pc \in {"open", "cancel"} /\ stream[c].shell = s /\ stream[c].closes = 0
        BY DEF IInv, SubsInv
      <3>c. \A t \in Shell : subs'[t] = IF t = s THEN subs[s] \ lagging ELSE subs[t]
        BY <2>2 DEF IInv, TypeInv
      <3>1. CASE c \in lagging
        <4>1. stream'[c].closes = 1
          BY <2>4, <3>1, <3>a DEF StreamState
        <4>2. \A t \in Shell : c \notin subs'[t]
          <5>1. \A t \in Shell : c \in subs[t] => t = s
            BY <3>b, <3>1 DEF IInv, SubsInv
          <5>2. QED
            BY <3>1, <3>c, <5>1
        <4>3. QED
          BY <4>1, <4>2
      <3>2. CASE c \in subs[s] \ lagging
        <4>1. stream'[c].closes = stream[c].closes
          BY <2>5, <3>2, <3>a DEF StreamState
        <4>2. QED
          BY <2>8, <3>2, <3>b, <3>c, <4>1 DEF IInv, SubsInv
      <3>3. CASE c \notin subs[s]
        BY <2>2, <2>6, <3>3 DEF IInv, TypeInv, SubsInv, StreamState, Follows
      <3>4. QED
        BY <3>1, <3>2, <3>3
    <2>12. QED
      BY <2>9, <2>10, <2>11 DEF IInv
  <1>3. CASE ReadEnds(s)
    <2> DEFINE r == [shell[s] EXCEPT !.reader = "ended", !.pty = "closed"]
    <2>1. r \in ShellState /\ r.proc = "gone"
      BY <1>0, <1>04, <1>3 DEF ShellState, ReadEnds
    <2>2. /\ shell' = [shell EXCEPT ![s] = r]
          /\ stream' = [c \in Streams |-> IF c \in subs[s] THEN [stream[c] EXCEPT !.closes = @ + 1] ELSE stream[c]]
          /\ subs' = [subs EXCEPT ![s] = {}]
          /\ UNCHANGED <<started, pane, due>>
      BY <1>3 DEF ReadEnds
    <2> HIDE DEF r
    <2>3. shell'[s] = r /\ \A t \in Shell \ {s} : shell'[t] = shell[t]
      BY <1>0, <2>2
    <2>4. subs'[s] = {} /\ \A t \in Shell \ {s} : subs'[t] = subs[t]
      BY <2>2 DEF IInv, TypeInv
    <2>5. ASSUME NEW c \in Streams
          PROVE /\ stream'[c] \in StreamState /\ stream'[c].pc = stream[c].pc /\ stream'[c].shell = stream[c].shell
                /\ stream'[c].closes = IF c \in subs[s] THEN 1 ELSE stream[c].closes
      <3>1. stream[c] \in StreamState /\ (c \in subs[s] => stream[c].closes = 0)
        BY DEF IInv, TypeInv, SubsInv
      <3>2. stream'[c] = IF c \in subs[s] THEN [stream[c] EXCEPT !.closes = stream[c].closes + 1] ELSE stream[c]
        BY <2>2
      <3>3. QED
        <4>1. CASE c \in subs[s]
          <5>1. stream'[c] = [stream[c] EXCEPT !.closes = 1]
            BY <3>1, <3>2, <4>1
          <5>2. QED
            BY <3>1, <4>1, <5>1 DEF StreamState
        <4>2. CASE c \notin subs[s]
          BY <3>1, <3>2, <4>2
        <4>3. QED
          BY <4>1, <4>2
    <2>6. stream' \in [Streams -> StreamState]
      BY <2>2, <2>5
    <2>7. \A c \in Streams : Follows(c)' => stream'[c].shell \in 1..started'
      BY <2>2, <2>5 DEF IInv, TypeInv, Follows
    <2>8. shell' \in [Shell -> ShellState] /\ subs' \in [Shell -> SUBSET Streams]
      BY <1>0, <2>1, <2>2 DEF IInv, TypeInv
    <2>9. TypeInv'
      BY <2>2, <2>6, <2>7, <2>8 DEF IInv, TypeInv
    <2>10. ShellInv'
      <3> SUFFICES ASSUME NEW t \in Shell
                   PROVE /\ Exited(t)' => shell'[t].proc = "gone" /\ subs'[t] = {}
                         /\ shell'[t].pty = "closed" => shell'[t].proc = "gone"
                         /\ t > started' => shell'[t] = Unborn /\ subs'[t] = {}
                         /\ shell'[t].proc = "runs" => t = pane' \/ t \in due'
        BY DEF ShellInv
      <3>1. CASE t = s
        BY <1>01, <2>1, <2>2, <2>3, <2>4, <3>1 DEF IInv, TypeInv
      <3>2. CASE t # s
        BY <2>2, <2>3, <2>4, <3>2 DEF IInv, ShellInv, Exited
      <3>3. QED
        BY <3>1, <3>2
    <2>11. SubsInv'
      <3> SUFFICES ASSUME NEW c \in Streams
                   PROVE /\ \A t \in Shell : c \in subs'[t] => stream'[c].closes = 0 /\ stream'[c].shell = t
                                                               /\ stream'[c].pc \in {"open", "cancel"}
                         /\ stream'[c].pc = "open" /\ stream'[c].closes = 0 => c \in subs'[stream'[c].shell]
                         /\ stream'[c].pc \in {"closed", "stopped"} => stream'[c].closes = 1
        BY DEF SubsInv
      <3>1. CASE c \in subs[s]
        BY <2>4, <2>5, <3>1 DEF IInv, SubsInv
      <3>2. CASE c \notin subs[s]
        <4>1. \A t \in Shell : c \in subs'[t] <=> c \in subs[t]
          BY <2>4, <3>2
        <4>2. stream[c].pc = "open" => stream[c].shell \in Shell
          BY DEF IInv, TypeInv, Follows
        <4>3. QED
          BY <2>5, <3>2, <4>1, <4>2 DEF IInv, SubsInv
      <3>3. QED
        BY <3>1, <3>2
    <2>12. QED
      BY <2>9, <2>10, <2>11 DEF IInv
  <1>4. CASE OnExit(s)
    <2> DEFINE r == [shell[s] EXCEPT !.reader = "done"]
    <2>1. r \in ShellState /\ r.proc = "gone" /\ r.pty = shell[s].pty
      BY <1>0, <1>4 DEF ShellState, OnExit
    <2>2. /\ shell' = [shell EXCEPT ![s] = r] /\ UNCHANGED <<started, due, subs, stream>>
          /\ pane' = IF pane = s THEN NoShell ELSE pane
      BY <1>4 DEF OnExit
    <2>3. subs[s] = {}
      BY <1>05, <1>4 DEF OnExit
    <2> HIDE DEF r
    <2>4. \A t \in Shell : shell'[t].proc = "runs" => t = pane' \/ t \in due'
      BY <1>0, <1>03, <2>1, <2>2
    <2>5. pane' \in 0..started /\ due' \subseteq 1..started
      BY <1>02, <2>2 DEF IInv, TypeInv
    <2>6. QED
      BY <1>01, <2>1, <2>2, <2>3, <2>4, <2>5, OneShell
  <1>5. CASE ShellExits(s)
    <2> DEFINE r == [shell[s] EXCEPT !.proc = "gone"]
    <2>1. r \in ShellState /\ r.proc = "gone" /\ r.reader = shell[s].reader
      BY <1>0 DEF ShellState
    <2>2. shell' = [shell EXCEPT ![s] = r] /\ UNCHANGED <<started, pane, due, subs, stream>>
      BY <1>5 DEF ShellExits
    <2> HIDE DEF r
    <2>3. \A t \in Shell : shell'[t].proc = "runs" => t = pane' \/ t \in due'
      BY <1>0, <1>03, <2>1, <2>2
    <2>4. QED
      BY <1>01, <1>02, <1>05, <2>1, <2>2, <2>3, OneShell
  <1>6. QED
    BY <1>1, <1>2, <1>3, <1>4, <1>5 DEF Reading

\* Kill, Shutdown and what follows them.
LEMMA KillStep == ASSUME IInv, Kill \/ Shutdown \/ \E s \in due : KillProcess(s) PROVE IInv'
  <1>1. CASE Kill \/ Shutdown
    <2>1. /\ due' = due \cup ({pane} \ {NoShell}) /\ pane' = NoShell
          /\ UNCHANGED <<started, shell, subs, stream>>
      BY <1>1 DEF Kill, Shutdown, TakeOut
    <2>2. TypeInv'
      BY <2>1 DEF IInv, TypeInv, Follows
    <2>3. ShellInv'
      BY <2>1 DEF IInv, ShellInv, Exited
    <2>4. SubsInv'
      BY <2>1 DEF IInv, SubsInv
    <2>5. QED
      BY <2>2, <2>3, <2>4 DEF IInv
  <1>2. CASE \E s \in due : KillProcess(s)
    <2>1. PICK s \in due : KillProcess(s)
      BY <1>2
    <2> DEFINE r == [shell[s] EXCEPT !.proc = "gone", !.pty = "closed"]
    <2>2. s \in Shell /\ s <= started
      BY DEF IInv, TypeInv
    <2>3. shell[s] \in ShellState /\ shell \in [Shell -> ShellState]
      BY <2>2 DEF IInv, TypeInv
    <2>4. r \in ShellState /\ r.proc = "gone" /\ r.reader = shell[s].reader
      BY <2>3 DEF ShellState
    <2>5. shell' = [shell EXCEPT ![s] = r] /\ due' = due \ {s} /\ UNCHANGED <<started, pane, subs, stream>>
      <3>1. shell' = [shell EXCEPT ![s].proc = "gone", ![s].pty = "closed"]
        BY <2>1 DEF KillProcess
      <3>2. QED
        BY <2>1, <2>3, <3>1 DEF KillProcess
    <2>6. r.reader \in {"ended", "done"} => subs[s] = {}
      BY <2>2, <2>4 DEF IInv, ShellInv, Exited
    <2> HIDE DEF r
    <2>7. \A t \in Shell : shell'[t].proc = "runs" => t = pane' \/ t \in due'
      BY <2>2, <2>3, <2>4, <2>5 DEF IInv, ShellInv
    <2>8. pane' \in 0..started /\ due' \subseteq 1..started
      BY <2>5 DEF IInv, TypeInv
    <2>9. QED
      BY <2>2, <2>4, <2>5, <2>6, <2>7, <2>8, OneShell
  <1>3. QED
    BY <1>1, <1>2

LEMMA Induction == IInv /\ [Next]_vars => IInv'
  <1> SUFFICES ASSUME IInv, [Next]_vars PROVE IInv'
    OBVIOUS
  <1>1. CASE \E c \in Streams : Streaming(c)
    BY <1>1, StreamStep
  <1>2. CASE \E s \in Shell : Reading(s)
    BY <1>2, ShellStep
  <1>3. CASE Kill \/ Shutdown \/ \E s \in due : KillProcess(s)
    BY <1>3, KillStep
  <1>4. CASE UNCHANGED vars
    BY <1>4 DEF vars, IInv, TypeInv, ShellInv, SubsInv, Follows, Exited
  <1>5. QED
    BY <1>1, <1>2, <1>3, <1>4 DEF Next

\* The inductive invariant holds of every pane (term.go:39-258).
THEOREM Invariance == Spec => []IInv
  <1>1. QED
    BY Initially, Induction, PTL DEF Spec

\* No channel of a terminal is closed twice, and the reader sends on none that
\* is closed, which would panic the server (term.go:174-192, 215-233).
THEOREM ClosedOnceHolds == Spec => []ClosedOnce
  <1>1. IInv => ClosedOnce
    <2> SUFFICES ASSUME IInv, NEW c \in Streams
                 PROVE stream[c].closes <= 1 /\ \A s \in Shell : c \in subs[s] => stream[c].closes = 0
      BY DEF ClosedOnce
    <2>1. stream[c] \in StreamState
      BY DEF IInv, TypeInv
    <2>2. stream[c].closes \in {0, 1}
      BY <2>1 DEF StreamState
    <2>3. QED
      BY <2>2 DEF IInv, SubsInv
  <1>2. QED
    BY <1>1, Invariance, PTL

\* A shell that runs is the pane's, or its Kill is to come, whatever exits, is
\* killed, is replaced and is reaped late (term.go:47-59, 73-82, 117-130).
THEOREM RunningIsKeptHolds == Spec => []RunningIsKept
  <1>1. IInv => RunningIsKept
    BY DEF IInv, ShellInv, RunningIsKept
  <1>2. QED
    BY <1>1, Invariance, PTL

----------------------------------------------------------------------------
(***************************************************************************)
(* What the streams show: a run of their shell's output without a gap, and *)
(* all of it when the page is told "exit".                                 *)
(***************************************************************************)
Run(q) == \A i \in 1..Len(q) - 1 : q[i + 1] = q[i] + 1
EndsAt(q, n) == IF q = <<>> THEN n = 0 ELSE q[Len(q)] = n
Reaches(q) == q # <<>> => q[1] = 1 \/ Len(q) >= Scrollback

\* What a stream has sent, and what waits in its channel.
Seen(c) == stream[c].screen \o stream[c].queue

Shows(c) == stream[c].pc \in {"open", "closed", "stopped"}

\* A stream that has its channel still, or lost it because the shell ended, has
\* everything up to the last chunk; only a shell's end or a lag closes a channel.
SyncOf(c) ==
    /\ stream[c].pc \in {"ask", "join"} => stream[c].queue = <<>> /\ stream[c].lagged = FALSE
    /\ stream[c].pc \in {"closed", "stopped"} => stream[c].queue = <<>>
    /\ Shows(c) =>
         /\ Run(Seen(c)) /\ Reaches(Seen(c))
         /\ stream[c].closes = 0 \/ stream[c].lagged = FALSE => EndsAt(Seen(c), shell[stream[c].shell].out)
         /\ stream[c].closes # 0 /\ stream[c].lagged = FALSE => Exited(stream[c].shell)

SyncInv == \A c \in Streams : SyncOf(c)

LEMMA EmptyRuns == Run(<<>>) /\ Reaches(<<>>) /\ EndsAt(<<>>, 0)
  BY DEF Run, Reaches, EndsAt

\* One more chunk keeps a run a run.
LEMMA Extends ==
    ASSUME NEW q \in Seq(Nat), NEW n \in Nat, Run(q), Reaches(q), EndsAt(q, n)
    PROVE  Run(Append(q, n + 1)) /\ Reaches(Append(q, n + 1)) /\ EndsAt(Append(q, n + 1), n + 1)
  <1> DEFINE p == Append(q, n + 1)
  <1>1. /\ Len(q) \in Nat /\ Len(p) = Len(q) + 1 /\ p # <<>>
        /\ \A i \in 1..Len(q) : p[i] = q[i]
        /\ p[Len(q) + 1] = n + 1
    BY AppendProperties
  <1>2. q = <<>> => Len(q) = 0 /\ n = 0
    BY DEF EndsAt
  <1>3. q # <<>> => Len(q) >= 1 /\ q[Len(q)] = n
    BY DEF EndsAt
  <1> HIDE DEF p
  <1>4. ASSUME NEW i \in 1..Len(p) - 1 PROVE p[i + 1] = p[i] + 1
    <2>1. i \in 1..Len(q)
      BY <1>1
    <2>2. CASE i = Len(q)
      BY <1>1, <1>2, <1>3, <2>1, <2>2
    <2>3. CASE i # Len(q)
      <3>1. i \in 1..Len(q) - 1 /\ i + 1 \in 1..Len(q)
        BY <1>1, <2>1, <2>3
      <3>2. q[i + 1] = q[i] + 1
        BY <3>1 DEF Run
      <3>3. QED
        BY <1>1, <2>1, <3>1, <3>2
    <2>4. QED
      BY <2>2, <2>3
  <1>5. Run(p)
    BY <1>4 DEF Run
  <1>6. Reaches(p)
    <2>1. CASE q = <<>>
      BY <1>1, <1>2, <2>1 DEF Reaches
    <2>2. CASE q # <<>>
      <3>1. p[1] = q[1]
        BY <1>1, <1>3, <2>2
      <3>2. QED
        <4>1. q[1] = 1 \/ Len(q) >= Scrollback
          BY <2>2 DEF Reaches
        <4>2. Len(q) >= Scrollback => Len(p) >= Scrollback
          BY <1>1
        <4>3. QED
          BY <3>1, <4>1, <4>2 DEF Reaches
    <2>3. QED
      BY <2>1, <2>2
  <1>7. EndsAt(p, n + 1)
    BY <1>1 DEF EndsAt
  <1>8. QED
    BY <1>5, <1>6, <1>7 DEF p

\* The scrollback is a run that ends at the last chunk.
LEMMA ReplayRuns ==
    ASSUME TypeInv, NEW s \in Shell
    PROVE  Run(Replay(s)) /\ Reaches(Replay(s)) /\ EndsAt(Replay(s), shell[s].out)
  <1> DEFINE n == shell[s].out
             k == IF n < Scrollback THEN n ELSE Scrollback
             q == [i \in 1..k |-> n - k + i]
  <1>1. n \in Nat
    BY DEF TypeInv, ShellState
  <1>2. Replay(s) = q
    BY DEF Replay
  <1>3. k \in Nat /\ k <= n /\ (k = 0 <=> n = 0) /\ (k = n \/ k = Scrollback)
    BY <1>1
  <1> HIDE DEF n, k
  <1>4. q \in Seq(Nat) /\ Len(q) = k /\ \A i \in 1..k : q[i] = n - k + i
    BY <1>1, <1>3
  <1>5. q = <<>> <=> k = 0
    BY <1>3, <1>4
  <1> HIDE DEF q
  <1>6. Run(q)
    BY <1>1, <1>3, <1>4 DEF Run
  <1>7. Reaches(q)
    BY <1>1, <1>3, <1>4, <1>5 DEF Reaches
  <1>8. EndsAt(q, n)
    BY <1>1, <1>3, <1>4, <1>5 DEF EndsAt
  <1>9. QED
    BY <1>2, <1>6, <1>7, <1>8 DEF n

LEMMA ConcatAppend ==
    ASSUME NEW a \in Seq(Nat), NEW b \in Seq(Nat), NEW n \in Nat
    PROVE  a \o b \in Seq(Nat) /\ a \o Append(b, n) = Append(a \o b, n)
  OBVIOUS

LEMMA ConcatShift ==
    ASSUME NEW a \in Seq(Nat), NEW b \in Seq(Nat), b # <<>>
    PROVE  Append(a, Head(b)) \o Tail(b) = a \o b
  <1>1. Head(b) \in Nat /\ Tail(b) \in Seq(Nat) /\ <<Head(b)>> \in Seq(Nat)
    OBVIOUS
  <1>2. <<Head(b)>> \o Tail(b) = b
    OBVIOUS
  <1>3. Append(a, Head(b)) = a \o <<Head(b)>>
    BY <1>1, AppendIsConcat
  <1>4. (a \o <<Head(b)>>) \o Tail(b) = a \o (<<Head(b)>> \o Tail(b))
    BY <1>1, ConcatAssociative
  <1>5. QED
    BY <1>2, <1>3, <1>4

LEMMA ConcatNothing == ASSUME NEW a \in Seq(Nat) PROVE a \o <<>> = a
  OBVIOUS

\* A stream that did not change keeps what it has, as long as its shell prints
\* nothing.
LEMMA SyncKept ==
    ASSUME SyncInv, IInv, NEW c \in Streams, stream'[c] = stream[c],
           Shows(c) => shell'[stream[c].shell].out = shell[stream[c].shell].out
                       /\ (Exited(stream[c].shell) => Exited(stream[c].shell)')
    PROVE  SyncOf(c)'
  <1>1. SyncOf(c)
    BY DEF SyncInv
  <1>2. QED
    BY <1>1 DEF SyncOf, Shows, Seen, Exited

LEMMA SyncInitially == Init => SyncInv
  <1> SUFFICES ASSUME Init, NEW c \in Streams PROVE SyncOf(c)
    BY DEF SyncInv
  <1>1. stream[c].pc = "away"
    BY DEF Init, Away
  <1>2. QED
    BY <1>1 DEF SyncOf, Shows

\* A step of a stream.
LEMMA SyncStream == ASSUME IInv, SyncInv, NEW c \in Streams, Streaming(c) PROVE SyncInv'
  <1>t. stream \in [Streams -> StreamState]
    BY DEF IInv, TypeInv
  <1>0. stream[c] \in StreamState /\ SyncOf(c)
    BY DEF IInv, TypeInv, SyncInv
  <1>1. \A d \in Streams \ {c} : stream'[d] = stream[d]
    BY <1>t DEF Streaming, Open, Session, Subscribe, Send, SeesClosed, Ends, Leave, Cancel
  <1>2. \A s \in Shell : s <= started => shell'[s] = shell[s]
    BY DEF Streaming, Open, Session, Subscribe, Send, SeesClosed, Ends, Leave, Cancel, IInv, TypeInv
  <1>3. \A d \in Streams : Shows(d) => stream[d].shell \in Shell /\ stream[d].shell <= started
    BY DEF Shows, IInv, TypeInv, Follows
  <1>4. ASSUME NEW d \in Streams, d # c PROVE SyncOf(d)'
    BY <1>1, <1>2, <1>3, <1>4, SyncKept DEF Exited
  <1>5. SyncOf(c)'
    <2>1. CASE Open(c)
      <3>1. stream'[c] = [Away EXCEPT !.pc = "ask"]
        BY <1>t, <2>1 DEF Open
      <3>2. stream'[c].pc = "ask" /\ stream'[c].queue = <<>> /\ stream'[c].lagged = FALSE
        BY <3>1 DEF Away
      <3>3. QED
        BY <3>2 DEF SyncOf, Shows
    <2>2. CASE Session(c)
      <3>1. stream'[c].pc = "join" /\ stream'[c].queue = stream[c].queue /\ stream'[c].lagged = stream[c].lagged
        BY <1>0, <1>t, <2>2 DEF Session, StreamState
      <3>2. stream[c].pc = "ask"
        BY <2>2 DEF Session
      <3>3. QED
        BY <1>0, <3>1, <3>2 DEF SyncOf, Shows
    <2>3. CASE Subscribe(c)
      <3> DEFINE s == stream[c].shell
      <3>1. s \in Shell
        BY <1>0, <2>3 DEF Subscribe, IInv, TypeInv, Follows
      <3>2. stream'[c] = [stream[c] EXCEPT !.pc = "open", !.screen = Replay(s), !.closes = IF Exited(s) THEN 1 ELSE 0]
        BY <1>t, <2>3 DEF Subscribe
      <3>3. /\ stream'[c].pc = "open" /\ stream'[c].screen = Replay(s) /\ stream'[c].queue = stream[c].queue
            /\ stream'[c].shell = s /\ stream'[c].closes = IF Exited(s) THEN 1 ELSE 0
        BY <1>0, <3>2 DEF StreamState
      <3>4. stream[c].queue = <<>> /\ shell' = shell
        BY <1>0, <2>3 DEF Subscribe, SyncOf
      <3>5. Seen(c)' = Replay(s)
        BY <3>1, <3>3, <3>4, Replays, ConcatNothing DEF Seen, IInv
      <3>6. Run(Replay(s)) /\ Reaches(Replay(s)) /\ EndsAt(Replay(s), shell[s].out)
        BY <3>1, ReplayRuns DEF IInv
      <3>7. stream'[c].closes # 0 => Exited(s)'
        BY <3>3, <3>4 DEF Exited
      <3>8. QED
        BY <3>3, <3>4, <3>5, <3>6, <3>7 DEF SyncOf, Shows
    <2>4. CASE Send(c)
      <3>1. stream'[c] = [stream[c] EXCEPT !.screen = Append(stream[c].screen, Head(stream[c].queue)),
                                           !.queue = Tail(stream[c].queue)]
        BY <1>t, <2>4 DEF Send
      <3>2. /\ stream'[c].pc = "open" /\ stream'[c].shell = stream[c].shell /\ stream'[c].closes = stream[c].closes
            /\ stream'[c].lagged = stream[c].lagged
            /\ stream'[c].screen = Append(stream[c].screen, Head(stream[c].queue))
            /\ stream'[c].queue = Tail(stream[c].queue)
        <4> DEFINE a == Append(stream[c].screen, Head(stream[c].queue))
                   b == Tail(stream[c].queue)
        <4>1. stream'[c] = [stream[c] EXCEPT !.screen = a, !.queue = b]
          BY <3>1
        <4> HIDE DEF a, b
        <4>2. stream[c].pc = "open"
          BY <2>4 DEF Send
        <4>3. /\ stream'[c].pc = stream[c].pc /\ stream'[c].shell = stream[c].shell
              /\ stream'[c].closes = stream[c].closes /\ stream'[c].lagged = stream[c].lagged
              /\ stream'[c].screen = a /\ stream'[c].queue = b
          BY <1>0, <4>1 DEF StreamState
        <4>4. QED
          BY <4>2, <4>3 DEF a, b
      <3>3. stream[c].screen \in Seq(Nat) /\ stream[c].queue \in Seq(Nat)
        BY <1>0 DEF StreamState
      <3>4. stream[c].pc = "open" /\ stream[c].queue # <<>> /\ shell' = shell
        BY <2>4 DEF Send
      <3>5. Seen(c)' = Seen(c)
        BY <3>2, <3>3, <3>4, ConcatShift DEF Seen
      <3>6. QED
        BY <1>0, <3>2, <3>4, <3>5 DEF SyncOf, Shows, Exited
    <2>5. CASE SeesClosed(c)
      <3>1. /\ stream'[c].pc = "closed" /\ stream'[c].shell = stream[c].shell /\ stream'[c].closes = stream[c].closes
            /\ stream'[c].lagged = stream[c].lagged /\ stream'[c].screen = stream[c].screen
            /\ stream'[c].queue = stream[c].queue
        BY <1>0, <1>t, <2>5 DEF SeesClosed, StreamState
      <3>2. stream[c].pc = "open" /\ stream[c].queue = <<>> /\ shell' = shell
        BY <2>5 DEF SeesClosed
      <3>3. QED
        BY <1>0, <3>1, <3>2 DEF SyncOf, Shows, Seen, Exited
    <2>6. CASE Ends(c)
      <3>1. stream[c].pc = "closed" /\ shell' = shell
        BY <2>6 DEF Ends
      <3>2. CASE Exited(stream[c].shell)
        <4>1. stream'[c] = [stream[c] EXCEPT !.pc = "stopped"]
          BY <1>t, <2>6, <3>2 DEF Ends
        <4>2. /\ stream'[c].pc = "stopped" /\ stream'[c].shell = stream[c].shell /\ stream'[c].closes = stream[c].closes
              /\ stream'[c].lagged = stream[c].lagged /\ stream'[c].screen = stream[c].screen
              /\ stream'[c].queue = stream[c].queue
          BY <1>0, <4>1 DEF StreamState
        <4>3. QED
          BY <1>0, <3>1, <4>2 DEF SyncOf, Shows, Seen, Exited
      <3>3. CASE ~Exited(stream[c].shell)
        <4>1. stream'[c] = Away
          BY <1>t, <2>6, <3>3 DEF Ends
        <4>2. QED
          BY <4>1 DEF Away, SyncOf, Shows
      <3>4. QED
        BY <3>2, <3>3
    <2>7. CASE Leave(c)
      <3>1. stream'[c] = [Away EXCEPT !.pc = "cancel", !.shell = stream[c].shell, !.closes = stream[c].closes]
        BY <1>t, <2>7 DEF Leave
      <3>2. stream'[c].pc = "cancel"
        BY <3>1 DEF Away
      <3>3. QED
        BY <3>2 DEF SyncOf, Shows
    <2>8. CASE Cancel(c)
      <3>1. stream'[c] = [Away EXCEPT !.closes = IF c \in subs[stream[c].shell] THEN stream[c].closes + 1 ELSE stream[c].closes]
        BY <1>t, <2>8 DEF Cancel
      <3>2. stream'[c].pc = "away"
        BY <3>1 DEF Away
      <3>3. QED
        BY <3>2 DEF SyncOf, Shows
    <2>9. QED
      BY <2>1, <2>2, <2>3, <2>4, <2>5, <2>6, <2>7, <2>8 DEF Streaming
  <1>6. QED
    BY <1>4, <1>5 DEF SyncInv

\* A step of a shell or of its reader.
LEMMA SyncShell == ASSUME IInv, SyncInv, NEW s \in Shell, Reading(s) PROVE SyncInv'
  <1>0. shell[s] \in ShellState /\ shell \in [Shell -> ShellState] /\ stream \in [Streams -> StreamState]
    BY DEF IInv, TypeInv
  <1>1. \A c \in Streams : Shows(c) => stream[c].shell \in Shell
    BY DEF Shows, IInv, TypeInv, Follows
  <1>2. CASE ReadChunk(s) \/ OnExit(s) \/ ShellExits(s)
    <2>1. stream' = stream
      BY <1>2 DEF ReadChunk, OnExit, ShellExits
    <2>2. \A t \in Shell : shell'[t].out = shell[t].out
      BY <1>0, <1>2 DEF ReadChunk, OnExit, ShellExits, ShellState
    <2>3. \A t \in Shell : Exited(t) => Exited(t)'
      BY <1>0, <1>2 DEF ReadChunk, OnExit, ShellExits, ShellState, Exited
    <2>4. ASSUME NEW c \in Streams PROVE SyncOf(c)'
      BY <1>1, <2>1, <2>2, <2>3, SyncKept
    <2>5. QED
      BY <2>4 DEF SyncInv
  <1>3. CASE FanOut(s)
    <2> DEFINE n == shell[s].out + 1
               lagging == {c \in subs[s] : Full(c)}
    <2>1. /\ shell[s].reader = "fan" /\ shell'[s].out = n
          /\ \A t \in Shell \ {s} : shell'[t] = shell[t]
          /\ stream' = [c \in Streams |->
               CASE c \in lagging -> [stream[c] EXCEPT !.closes = @ + 1, !.lagged = TRUE]
                 [] c \in subs[s] \ lagging -> [stream[c] EXCEPT !.queue = Append(@, n)]
                 [] OTHER -> stream[c]]
      BY <1>0, <1>3 DEF FanOut, ShellState
    <2>2. n \in Nat /\ shell[s].out \in Nat
      BY <1>0 DEF ShellState
    <2>3. ASSUME NEW c \in Streams PROVE SyncOf(c)'
      <3>0. stream[c] \in StreamState /\ SyncOf(c)
        BY <1>0 DEF SyncInv
      <3>a. c \in subs[s] => stream[c].closes = 0 /\ stream[c].shell = s /\ stream[c].pc \in {"open", "cancel"}
        BY DEF IInv, SubsInv
      <3>1. CASE c \in lagging
        <4>1. stream'[c] = [stream[c] EXCEPT !.closes = stream[c].closes + 1, !.lagged = TRUE]
          BY <2>1, <3>1
        <4>2. /\ stream'[c].pc = stream[c].pc /\ stream'[c].screen = stream[c].screen
              /\ stream'[c].queue = stream[c].queue /\ stream'[c].closes # 0 /\ stream'[c].lagged # FALSE
          BY <3>0, <3>1, <3>a, <4>1 DEF StreamState
        <4>3. stream[c].pc \in {"open", "cancel"}
          BY <3>1, <3>a
        <4>4. QED
          BY <3>0, <4>2, <4>3 DEF SyncOf, Shows, Seen
      <3>2. CASE c \in subs[s] \ lagging
        <4>1. stream'[c] = [stream[c] EXCEPT !.queue = Append(stream[c].queue, n)]
          BY <2>1, <3>2
        <4>2. /\ stream'[c].pc = stream[c].pc /\ stream'[c].screen = stream[c].screen /\ stream'[c].shell = s
              /\ stream'[c].queue = Append(stream[c].queue, n) /\ stream'[c].closes = 0
          BY <3>0, <3>2, <3>a, <4>1 DEF StreamState
        <4>3. stream[c].screen \in Seq(Nat) /\ stream[c].queue \in Seq(Nat)
          BY <3>0 DEF StreamState
        <4>4. Seen(c) \in Seq(Nat) /\ Seen(c)' = Append(Seen(c), n)
          <5>1. Seen(c)' = stream[c].screen \o Append(stream[c].queue, n)
            BY <4>2 DEF Seen
          <5>2. /\ stream[c].screen \o stream[c].queue \in Seq(Nat)
                /\ stream[c].screen \o Append(stream[c].queue, n) = Append(stream[c].screen \o stream[c].queue, n)
            BY <2>2, <4>3, ConcatAppend
          <5>3. QED
            BY <5>1, <5>2 DEF Seen
        <4>5. CASE stream[c].pc = "open"
          <5>1. Run(Seen(c)) /\ Reaches(Seen(c)) /\ EndsAt(Seen(c), shell[s].out)
            BY <3>0, <3>2, <3>a, <4>5 DEF SyncOf, Shows
          <5>2. Run(Seen(c)') /\ Reaches(Seen(c)') /\ EndsAt(Seen(c)', n)
            BY <2>2, <4>4, <5>1, Extends
          <5>3. QED
            BY <2>1, <4>2, <4>5, <5>2 DEF SyncOf, Shows, Run, Reaches, EndsAt
        <4>6. CASE stream[c].pc = "cancel"
          BY <4>2, <4>6 DEF SyncOf, Shows
        <4>7. QED
          BY <3>2, <3>a, <4>5, <4>6
      <3>3. CASE c \notin subs[s]
        <4>1. stream'[c] = stream[c]
          BY <2>1, <3>3
        <4>2. CASE Shows(c) /\ stream[c].shell = s
          <5>1. stream[c].closes # 0
            BY <3>3, <4>2 DEF Shows, IInv, SubsInv
          <5>2. ~Exited(s)
            BY <2>1 DEF Exited
          <5>3. stream[c].lagged # FALSE
            BY <3>0, <4>2, <5>1, <5>2 DEF SyncOf
          <5>4. Seen(c)' = Seen(c)
            BY <4>1 DEF Seen
          <5>5. QED
            BY <3>0, <4>1, <4>2, <5>1, <5>3, <5>4 DEF SyncOf, Shows, Run, Reaches
        <4>3. CASE ~(Shows(c) /\ stream[c].shell = s)
          <5>1. Shows(c) => shell'[stream[c].shell] = shell[stream[c].shell]
            BY <1>1, <2>1, <4>3
          <5>2. QED
            BY <4>1, <5>1, SyncKept DEF Exited
        <4>4. QED
          BY <4>2, <4>3
      <3>4. QED
        BY <3>1, <3>2, <3>3
    <2>4. QED
      BY <2>3 DEF SyncInv
  <1>4. CASE ReadEnds(s)
    <2>1. /\ Exited(s)' /\ shell'[s].out = shell[s].out
          /\ \A t \in Shell \ {s} : shell'[t] = shell[t]
      BY <1>0, <1>4 DEF ReadEnds, ShellState, Exited
    <2>2. ASSUME NEW c \in Streams PROVE SyncOf(c)'
      <3>0. stream[c] \in StreamState /\ SyncOf(c)
        BY <1>0 DEF SyncInv
      <3>1. CASE c \in subs[s]
        <4>1. stream'[c] = [stream[c] EXCEPT !.closes = stream[c].closes + 1]
          BY <1>4, <3>1 DEF ReadEnds
        <4>2. stream[c].closes = 0 /\ stream[c].shell = s /\ stream[c].pc \in {"open", "cancel"}
          BY <3>1 DEF IInv, SubsInv
        <4>3. /\ stream'[c].pc = stream[c].pc /\ stream'[c].screen = stream[c].screen /\ stream'[c].shell = s
              /\ stream'[c].queue = stream[c].queue
          BY <3>0, <4>1, <4>2 DEF StreamState
        <4>4. Seen(c)' = Seen(c)
          BY <4>3 DEF Seen
        <4>5. QED
          BY <2>1, <3>0, <4>2, <4>3, <4>4 DEF SyncOf, Shows, Exited, Run, Reaches, EndsAt
      <3>2. CASE c \notin subs[s]
        <4>1. stream'[c] = stream[c]
          BY <1>4, <3>2 DEF ReadEnds
        <4>2. Shows(c) => shell'[stream[c].shell].out = shell[stream[c].shell].out
                          /\ (Exited(stream[c].shell) => Exited(stream[c].shell)')
          BY <1>1, <2>1, <4>1 DEF Exited
        <4>3. QED
          BY <4>1, <4>2, SyncKept
      <3>3. QED
        BY <3>1, <3>2
    <2>3. QED
      BY <2>2 DEF SyncInv
  <1>5. QED
    BY <1>2, <1>3, <1>4 DEF Reading

\* Every other step leaves the streams, the output and the readers alone.
LEMMA SyncOther ==
    ASSUME IInv, SyncInv, Kill \/ Shutdown \/ (\E s \in due : KillProcess(s)) \/ UNCHANGED vars
    PROVE  SyncInv'
  <1>1. stream' = stream /\ shell \in [Shell -> ShellState]
    BY DEF Kill, Shutdown, TakeOut, KillProcess, vars, IInv, TypeInv
  <1>2. ASSUME NEW t \in Shell PROVE shell'[t].out = shell[t].out /\ shell'[t].reader = shell[t].reader
    <2>1. CASE shell' = shell
      BY <2>1
    <2>2. CASE \E s \in due : KillProcess(s)
      <3>1. PICK s \in due : KillProcess(s)
        BY <2>2
      <3>2. shell' = [shell EXCEPT ![s].proc = "gone", ![s].pty = "closed"]
        BY <3>1 DEF KillProcess
      <3>3. shell[t] \in ShellState
        BY <1>1
      <3>4. QED
        BY <1>1, <3>2, <3>3 DEF ShellState
    <2>3. QED
      BY <2>1, <2>2 DEF Kill, Shutdown, vars
  <1>3. \A c \in Streams : Shows(c) => stream[c].shell \in Shell
    BY DEF Shows, IInv, TypeInv, Follows
  <1>4. ASSUME NEW c \in Streams PROVE SyncOf(c)'
    BY <1>1, <1>2, <1>3, SyncKept DEF Exited
  <1>5. QED
    BY <1>4 DEF SyncInv

\* What the streams show stays a run of the output (term.go:169-233).
THEOREM SyncInvariance == Spec => []SyncInv
  <1>1. IInv /\ SyncInv /\ [Next]_vars => SyncInv'
    BY SyncStream, SyncShell, SyncOther DEF Next
  <1>2. QED
    BY SyncInitially, Invariance, <1>1, PTL DEF Spec

\* What a page shows of a shell has no gap and starts where a replay does; as
\* long as its channel is open nothing is missing at the end (term.go:169-182,
\* 215-224).
THEOREM InSyncHolds == Spec => []InSync
  <1>1. SyncInv => InSync
    <2> SUFFICES ASSUME SyncInv, NEW c \in Streams, stream[c].pc \in {"open", "closed", "stopped"}
                 PROVE /\ Run(Seen(c))
                       /\ stream[c].closes = 0 => EndsAt(Seen(c), shell[stream[c].shell].out)
                       /\ Reaches(Seen(c))
      BY DEF InSync, Run, EndsAt, Reaches, Seen
    <2>1. QED
      BY DEF SyncInv, SyncOf, Shows
  <1>2. QED
    BY <1>1, SyncInvariance, PTL

\* A page that is told "exit" has all the output, unless it had lagged
\* (web/term.go:114-122).
THEOREM ExitShowsAllHolds == Spec => []ExitShowsAll
  <1>1. IInv /\ SyncInv => ExitShowsAll
    <2> SUFFICES ASSUME IInv, SyncInv, NEW c \in Streams, stream[c].pc = "stopped", ~stream[c].lagged,
                        shell[stream[c].shell].out > 0
                 PROVE /\ stream[c].screen # <<>>
                       /\ stream[c].screen[Len(stream[c].screen)] = shell[stream[c].shell].out
      BY DEF ExitShowsAll
    <2>1. stream[c] \in StreamState /\ SyncOf(c)
      BY DEF IInv, TypeInv, SyncInv
    <2>2. stream[c].lagged = FALSE
      BY <2>1 DEF StreamState
    <2>3. Seen(c) = stream[c].screen
      BY <2>1, ConcatNothing DEF SyncOf, Seen, StreamState
    <2>4. EndsAt(Seen(c), shell[stream[c].shell].out)
      BY <2>1, <2>2 DEF SyncOf, Shows
    <2>5. QED
      BY <2>3, <2>4 DEF EndsAt
  <1>2. QED
    BY <1>1, Invariance, SyncInvariance, PTL
=============================================================================
