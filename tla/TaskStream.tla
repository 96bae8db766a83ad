----------------------------- MODULE TaskStream -----------------------------
(***************************************************************************)
(* The event stream of one background agent task (RunningTask in           *)
(* session.rs) and the WebSocket connections that follow it (ws.rs).       *)
(*                                                                         *)
(* A task records every output event twice: emit() broadcasts it to the    *)
(* live receivers and then, under the `events` lock, appends it to the     *)
(* replay log.  The two halves are separate steps here because the lock is *)
(* taken only for the second one.  A connection follows the task with      *)
(* attach(): under that lock it subscribes and clones the log; the handler *)
(* then sends the clone and goes on with the live events.                  *)
(*                                                                         *)
(* Event i is the i-th event broadcast, chan[i] its kind and author.  The  *)
(* log holds event numbers.  A tokio broadcast receiver is a cursor into   *)
(* chan: it has not read chan[cur + 1 .. Len(chan)], and it has lagged     *)
(* when more than Capacity events are unread.  A snapshot of the log is a  *)
(* length, because the log only grows.                                     *)
(***************************************************************************)
EXTENDS Integers, Sequences

CONSTANTS
  Conns,       \* WebSocket handlers of the conversation
  Creator,     \* the handler that received the user message and made the task
  Agent,       \* the spawned task that runs agent_loop::run_turn
  Capacity,    \* size of the broadcast channel (4096 in the code)
  MaxEvents    \* bound: the agent emits while fewer events than this are out

ASSUME CreatorAssumption  == Creator \in Conns
ASSUME AgentAssumption    == Agent \notin Conns
ASSUME CapacityAssumption == Capacity \in Nat \ {0}
ASSUME BoundAssumption    == MaxEvents \in Nat

VARIABLES
  chan,      \* the events broadcast, in order
  log,       \* RunningTask.events
  pending,   \* per emitter: the event it has broadcast but not yet logged
  running,   \* RunningTask.running
  agent,     \* the spawned tokio task: unborn, running, done, ended or panicked
  armed,     \* handlers of "stop" that have seen running = TRUE in abort()
  link,      \* per connection: gone, following no task, or following this one
  snap,      \* per connection: length of the log snapshot of its last attach
  replayed,  \* per connection: how much of the snapshot it has sent
  base,      \* per connection: events broadcast when it subscribed
  cur,       \* per connection: the last event it received or skipped
  excused    \* history: the events each attach fell between the halves of

taskVars == <<chan, log, pending, running, agent, armed>>
connVars == <<link, snap, replayed, base, cur, excused>>
vars     == <<taskVars, connVars>>

Emitters == Conns \cup {Agent}
Kinds    == {"delta", "done", "stopped"}
Events   == [kind : Kinds, by : Emitters]

\* The events broadcast but not yet in the log.
InFlight == {pending[e] : e \in Emitters} \ {0}

\* A handler runs one step at a time: not while it is inside emit() or abort().
Free(c) == pending[c] = 0 /\ c \notin armed

Init ==
  /\ chan = <<>>
  /\ log = <<>>
  /\ pending = [e \in Emitters |-> 0]
  /\ running = TRUE
  /\ agent = "unborn"
  /\ armed = {}
  /\ link = [c \in Conns |-> "none"]
  /\ snap = [c \in Conns |-> 0]
  /\ replayed = [c \in Conns |-> 0]
  /\ base = [c \in Conns |-> 0]
  /\ cur = [c \in Conns |-> 0]
  /\ excused = [c \in Conns |-> {}]

-----------------------------------------------------------------------------
(* emit(): the broadcast, then the append under the lock.                  *)

Send(e, kind) ==
  /\ chan' = Append(chan, [kind |-> kind, by |-> e])
  /\ pending' = [pending EXCEPT ![e] = Len(chan) + 1]

\* Mutated form of Push: the log is kept newest first.
PushFront(e) ==
  /\ pending[e] # 0
  /\ log' = <<pending[e]>> \o log
  /\ pending' = [pending EXCEPT ![e] = 0]
  /\ UNCHANGED <<chan, running, agent, armed, connVars>>

Push(e) ==
  /\ pending[e] # 0
  /\ log' = Append(log, pending[e])
  /\ pending' = [pending EXCEPT ![e] = 0]
  /\ UNCHANGED <<chan, running, agent, armed, connVars>>

-----------------------------------------------------------------------------
(* The agent task.                                                         *)

AgentIdle == agent = "running" /\ pending[Agent] = 0

\* One output event of run_turn, through TaskSink.
AgentEmit ==
  /\ AgentIdle
  /\ Len(chan) < MaxEvents
  /\ Send(Agent, "delta")
  /\ UNCHANGED <<log, running, agent, armed, connVars>>

\* The turn ends: run_turn sends "done", or the fallback does after it.
AgentDone ==
  /\ AgentIdle
  /\ Send(Agent, "done")
  /\ agent' = "done"
  /\ UNCHANGED <<log, running, armed, connVars>>

\* RunGuard is dropped at the end of the future.
AgentExit ==
  /\ agent = "done"
  /\ pending[Agent] = 0
  /\ running' = FALSE
  /\ agent' = "ended"
  /\ UNCHANGED <<chan, log, pending, armed, connVars>>

\* The runtime drops the aborted future at an await point; there is none
\* between the "done" event and the end of the future.
AgentAborted ==
  /\ AgentIdle
  /\ ~running
  /\ agent' = "ended"
  /\ UNCHANGED <<chan, log, pending, running, armed, connVars>>

\* run_turn panics: RunGuard still clears the flag, but nothing is emitted.
AgentPanic ==
  /\ AgentIdle
  /\ running' = FALSE
  /\ agent' = "panicked"
  /\ UNCHANGED <<chan, log, pending, armed, connVars>>

-----------------------------------------------------------------------------
(* The connections.                                                        *)

\* Mutated form of Subscribe: an attached handler keeps its old receiver.
SubscribeOnce(c, n, lost) ==
  /\ link' = [link EXCEPT ![c] = "attached"]
  /\ snap' = [snap EXCEPT ![c] = n]
  /\ replayed' = [replayed EXCEPT ![c] = 0]
  /\ base' = [base EXCEPT ![c] = IF link[c] = "attached" THEN @ ELSE Len(chan)]
  /\ cur' = [cur EXCEPT ![c] = IF link[c] = "attached" THEN @ ELSE Len(chan)]
  /\ excused' = [excused EXCEPT ![c] = lost]

\* Handler c subscribes now; it will replay n events of the log first, and
\* never see those of lost.
Subscribe(c, n, lost) ==
  /\ link' = [link EXCEPT ![c] = "attached"]
  /\ snap' = [snap EXCEPT ![c] = n]
  /\ replayed' = [replayed EXCEPT ![c] = 0]
  /\ base' = [base EXCEPT ![c] = Len(chan)]
  /\ cur' = [cur EXCEPT ![c] = Len(chan)]
  /\ excused' = [excused EXCEPT ![c] = lost]

\* Handler c drops its receiver.
Unsubscribe(c, state) ==
  /\ link' = [link EXCEPT ![c] = state]
  /\ snap' = [snap EXCEPT ![c] = 0]
  /\ replayed' = [replayed EXCEPT ![c] = 0]
  /\ base' = [base EXCEPT ![c] = 0]
  /\ cur' = [cur EXCEPT ![c] = 0]
  /\ excused' = [excused EXCEPT ![c] = {}]

\* attach() by the handler that made the task: it drops the snapshot, then
\* spawns the agent.
CreatorAttach ==
  /\ agent = "unborn"
  /\ Subscribe(Creator, 0, 1 .. Len(chan))
  /\ agent' = "running"
  /\ UNCHANGED <<chan, log, pending, running, armed>>

\* The creator's handler is busy making the task until it has spawned it.
Serves(c) == Free(c) /\ (c = Creator => agent # "unborn")

\* Between two messages: what the handler had to replay has been sent.
Ready(c) == Serves(c) /\ link[c] # "gone" /\ replayed[c] = snap[c]

\* Mutated form of Attach: the snapshot is dropped, as the creator drops it.
AttachLiveOnly(c) ==
  /\ Ready(c)
  /\ Subscribe(c, 0, InFlight)
  /\ UNCHANGED taskVars

\* load_history whose last user message started this task and has no answer.
Attach(c) ==
  /\ Ready(c)
  /\ Subscribe(c, Len(log), InFlight)
  /\ UNCHANGED taskVars

\* load_history of another conversation state: stop following.
Detach(c) ==
  /\ Ready(c)
  /\ link[c] = "attached"
  /\ Unsubscribe(c, "none")
  /\ UNCHANGED taskVars

\* Mutated form of Replay: the loop runs past the end of the snapshot.
ReplayPastEnd(c) ==
  /\ link[c] = "attached" /\ Serves(c)
  /\ replayed[c] <= snap[c] /\ replayed[c] < Len(log)
  /\ replayed' = [replayed EXCEPT ![c] = @ + 1]
  /\ UNCHANGED <<taskVars, link, snap, base, cur, excused>>

\* One event of the snapshot is sent to the client.
Replay(c) ==
  /\ link[c] = "attached" /\ Serves(c)
  /\ replayed[c] < snap[c]
  /\ replayed' = [replayed EXCEPT ![c] = @ + 1]
  /\ UNCHANGED <<taskVars, link, snap, base, cur, excused>>

Unread(c) == Len(chan) - cur[c]

\* One live event is received and sent to the client.
Recv(c) ==
  /\ link[c] = "attached" /\ Ready(c)
  /\ Unread(c) \in 1 .. Capacity
  /\ cur' = [cur EXCEPT ![c] = @ + 1]
  /\ UNCHANGED <<taskVars, link, snap, replayed, base, excused>>

\* Mutated form of Lagged: the handler ignores the error, and the receiver
\* goes on with the oldest event that is still buffered.
LaggedSkips(c) ==
  /\ link[c] = "attached" /\ Ready(c)
  /\ Unread(c) > Capacity
  /\ cur' = [cur EXCEPT ![c] = Len(chan) - Capacity]
  /\ UNCHANGED <<taskVars, link, snap, replayed, base, excused>>

\* Mutated form of Lagged: the branch is parked, as it is when the channel
\* is closed.
LaggedParks(c) ==
  /\ link[c] = "attached" /\ Ready(c)
  /\ Unread(c) > Capacity
  /\ UNCHANGED vars

\* The receiver has been overtaken: the handler closes the connection.
Lagged(c) ==
  /\ link[c] = "attached" /\ Ready(c)
  /\ Unread(c) > Capacity
  /\ Unsubscribe(c, "gone")
  /\ UNCHANGED taskVars

\* The socket closes or fails, perhaps in the middle of a replay.
Close(c) ==
  /\ Serves(c) /\ link[c] # "gone"
  /\ Unsubscribe(c, "gone")
  /\ UNCHANGED taskVars

\* A client that reconnects gets a new handler, which follows no task yet.
Connect(c) ==
  /\ link[c] = "gone"
  /\ link' = [link EXCEPT ![c] = "none"]
  /\ UNCHANGED <<taskVars, snap, replayed, base, cur, excused>>

\* "stop": abort() reads the flag ...
StopCheck(c) ==
  /\ Ready(c)
  /\ running
  /\ armed' = armed \cup {c}
  /\ UNCHANGED <<chan, log, pending, running, agent, connVars>>

\* ... clears it, and the handler emits "stopped".
StopEmit(c) ==
  /\ c \in armed
  /\ armed' = armed \ {c}
  /\ running' = FALSE
  /\ Send(c, "stopped")
  /\ UNCHANGED <<log, agent, connVars>>

-----------------------------------------------------------------------------
AgentStep == AgentEmit \/ AgentDone \/ AgentExit \/ AgentAborted \/ AgentPanic

ConnStep(c) ==
  \/ Attach(c) \/ Detach(c) \/ Replay(c) \/ Recv(c) \/ Lagged(c)
  \/ Close(c) \/ Connect(c) \/ StopCheck(c) \/ StopEmit(c)

Next ==
  \/ AgentStep
  \/ CreatorAttach
  \/ \E e \in Emitters : Push(e)
  \/ \E c \in Conns : ConnStep(c)

\* Code that has started runs on: the halves of emit(), the handler that is
\* spawning the task, the agent, and a handler with something to send.
Fairness ==
  /\ \A e \in Emitters : WF_vars(Push(e))
  /\ WF_vars(CreatorAttach)
  /\ WF_vars(AgentDone \/ AgentExit \/ AgentAborted)
  /\ \A c \in Conns : WF_vars(StopEmit(c))
                      /\ WF_vars(Replay(c) \/ Recv(c) \/ Lagged(c))

Spec == Init /\ [][Next]_vars
FairSpec == Spec /\ Fairness

-----------------------------------------------------------------------------
(* What a client sees.                                                     *)

\* Everything an attached client has been or will be sent, in order, unless
\* it lags: the snapshot, then the events broadcast since it subscribed.
View(c) ==
  [i \in 1 .. snap[c] + (Len(chan) - base[c]) |->
     IF i <= snap[c] THEN log[i] ELSE base[c] + (i - snap[c])]

\* The part of it that has been sent.
Shown(c) == SubSeq(View(c), 1, replayed[c] + (cur[c] - base[c]))

Lost(c) == (1 .. Len(chan)) \ {View(c)[i] : i \in DOMAIN View(c)}

\* Types, and how the cursors of a connection are ordered.
TypeOK ==
  /\ chan \in Seq(Events)
  /\ log \in Seq(Nat)
  /\ pending \in [Emitters -> Nat]
  /\ running \in BOOLEAN
  /\ agent \in {"unborn", "running", "done", "ended", "panicked"}
  /\ armed \subseteq Conns
  /\ link \in [Conns -> {"gone", "none", "attached"}]
  /\ snap \in [Conns -> Nat]
  /\ replayed \in [Conns -> Nat]
  /\ base \in [Conns -> Nat]
  /\ cur \in [Conns -> Nat]
  /\ excused \in [Conns -> SUBSET Nat]
  /\ \A c \in Conns : /\ replayed[c] <= snap[c] /\ snap[c] <= Len(log)
                      /\ base[c] <= cur[c] /\ cur[c] <= Len(chan)

\* A client is never sent an event twice: no event of the snapshot comes
\* again over the live receiver, however many handlers emit at once
\* (session.rs:62-63, the half of the comment that holds).
NoDuplicate ==
  \A c \in Conns : link[c] = "attached" =>
    \A i, j \in DOMAIN View(c) : View(c)[i] = View(c)[j] => i = j

\* The events an attached client never gets are exactly those whose emit()
\* was between its two halves at the attach (for the handler that made the
\* task, which drops its snapshot, those emitted before it subscribed).
LossIsExcused ==
  \A c \in Conns : link[c] = "attached" => Lost(c) = excused[c]

\* An attached client gets the events of one emitter in the order they were
\* emitted, across the seam between replay and live stream.
EmitterOrder ==
  \A c \in Conns : link[c] = "attached" =>
    \A i, j \in DOMAIN View(c) :
      i < j /\ chan[View(c)[i]].by = chan[View(c)[j]].by => View(c)[i] < View(c)[j]

Terminal == {i \in DOMAIN chan : chan[i].kind # "delta"}

\* A client that stays attached gets the end of the task, unless run_turn
\* panicked or the only announcements fell between the halves of its attach.
ClientSeesEnd ==
  \A c \in Conns :
    link[c] = "attached" ~>
      \/ link[c] # "attached"
      \/ agent = "panicked"
      \/ \E i \in DOMAIN Shown(c) : Shown(c)[i] \in Terminal
      \/ Terminal # {} /\ Terminal \subseteq excused[c]

\* The stream keeps the promise of EventFeed: an event is published when it
\* is broadcast and settled when it is in the log.
Feed == INSTANCE EventFeed WITH
  Clients   <- Conns,
  First     <- Creator,
  published <- Len(chan),
  settled   <- {log[i] : i \in DOMAIN log},
  on        <- {c \in Conns : link[c] = "attached"},
  seen      <- [c \in Conns |-> Shown(c)],
  waived    <- excused

\* Every behaviour of the stream is one of the feed (session.rs:61-81).
FeedSpec == Feed!Spec
=============================================================================
