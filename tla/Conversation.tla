---------------------------- MODULE Conversation ----------------------------
(***************************************************************************)
(* One conversation: the WebSocket handlers that serve it (ws_handler in   *)
(* ws.rs), the background task SessionManager has registered for it        *)
(* (session.rs), and the messages its web client has stored (Chat.tsx).    *)
(*                                                                         *)
(* A handler keeps the model's view of the conversation in a local         *)
(* `history`.  A user message becomes a detached task that works on a copy *)
(* of it; when the turn is over the task publishes its copy, and a handler *)
(* adopts it later.  Handlers run on a multi-threaded runtime: whatever    *)
(* the code does not do under one lock is a step of its own.               *)
(*                                                                         *)
(* The event stream of a task is the subject of TaskStream; here a client  *)
(* gets the answer of the task its handler follows in one step, unless the *)
(* handler attached while the event that ends the task was broadcast and   *)
(* not yet in the log.  Two connections of one conversation are two tabs   *)
(* of one browser, or a tab and a socket the server does not yet know is   *)
(* dead; they share the stored messages, and what one stores the other     *)
(* does not overwrite.                                                     *)
(***************************************************************************)
EXTENDS Integers, Sequences, FiniteSets

CONSTANTS
  Conns,        \* WebSocket handlers, the next incarnation of one included
  Says,         \* what the n-th user message says
  MaxMessages,  \* bound: user messages sent
  MaxConnects,  \* bound: sockets opened
  MaxActions,   \* bound: one-time reminders with an action that fire
  Expiry        \* whether the conversation can lie idle for an hour

ASSUME BoundsAssumption == {MaxMessages, MaxConnects, MaxActions} \subseteq Nat
ASSUME SaysAssumption == DOMAIN Says = 1 .. MaxMessages
ASSUME ExpiryAssumption == Expiry \in BOOLEAN

VARIABLES
  current,   \* SessionManager.tasks[conv]: the task registered, 0 for none
  phase,     \* per task: how far its future has got
  start,     \* per task: the user message it was started with
  running,   \* RunningTask.running
  handle,    \* RunningTask.abort_handle: none, set or taken
  aborted,   \* the tasks whose abort handle was used
  stopped,   \* the tasks for which abort() returned true
  work,      \* per task: its own history (task_history)
  final,     \* RunningTask.final_history: a one-element or empty sequence
  pc,        \* per handler: where it is
  hist,      \* per handler: `history` without the system prompt
  follow,    \* per handler: the task of live_task_rx, 0 for none
  job,       \* per handler: the task it is making or stopping
  missed,    \* per handler: the ends of its task that an attach has lost
  asked,     \* per handler: the user message it is handling
  stored,    \* the messages the client has persisted, in order
  sent,      \* number of user messages sent so far
  opened,    \* number of sockets opened so far
  fired,     \* number of reminder actions started so far
  answered,  \* history: the messages whose answer reached the client
  spent      \* history: the tasks whose history went to a handler that ended
             \* before its client had the answer

taskVars == <<current, phase, start, running, handle, aborted, stopped, work, final>>
connVars == <<pc, hist, follow, job, missed, asked>>
userVars == <<stored, sent, opened, fired, answered, spent>>
vars     == <<taskVars, connVars, userVars>>

Tasks == 1 .. MaxMessages

Texts == {Says[n] : n \in Tasks}

\* User message n, and reminder action k, which is message -k.
User(n) == [role |-> "user", n |-> n, text |-> Says[n]]
Action(k) == [role |-> "user", n |-> -k, text |-> "action"]
NoMessage == [role |-> "user", n |-> 0, text |-> "none"]

\* The model's answer to message m, the text sent when there is none, and what
\* had come of an answer when it was stopped.
Answer(m) == [role |-> "assistant", n |-> m.n, text |-> m.text]
Fallback(m) == [role |-> "assistant", n |-> m.n, text |-> "fallback"]
Partial(m) == [role |-> "assistant", n |-> m.n, text |-> "partial"]

Messages == [role : {"user", "assistant"}, n : -MaxActions .. MaxMessages,
             text : Texts \cup {"action", "fallback", "partial", "none"}]

Elems(s) == {s[i] : i \in DOMAIN s}

Init ==
  /\ current = 0
  /\ phase = [t \in Tasks |-> "none"]
  /\ start = [t \in Tasks |-> NoMessage]
  /\ running = [t \in Tasks |-> FALSE]
  /\ handle = [t \in Tasks |-> "none"]
  /\ aborted = {}
  /\ stopped = {}
  /\ work = [t \in Tasks |-> <<>>]
  /\ final = [t \in Tasks |-> <<>>]
  /\ pc = [c \in Conns |-> "gone"]
  /\ hist = [c \in Conns |-> <<>>]
  /\ follow = [c \in Conns |-> 0]
  /\ job = [c \in Conns |-> 0]
  /\ missed = [c \in Conns |-> {}]
  /\ asked = [c \in Conns |-> NoMessage]
  /\ stored = <<>>
  /\ sent = 0
  /\ opened = 0
  /\ fired = 0
  /\ answered = {}
  /\ spent = {}

Goto(c, l) == pc' = [pc EXCEPT ![c] = l]

-----------------------------------------------------------------------------
(* Adopting the history of a task once it has finished.                    *)

Busy == current # 0 /\ running[current]

\* take_final_history() of task t: what handler history h becomes.
Adopted(t, h) ==
  IF t # 0 /\ ~running[t] /\ final[t] # <<>> THEN final[t][1] ELSE h

Take(t) ==
  final' = IF t # 0 /\ ~running[t] THEN [final EXCEPT ![t] = <<>>] ELSE final

-----------------------------------------------------------------------------
(* The client and its connections.                                         *)

\* A socket is opened.  The client restores its stored messages, if any.
Connect(c) ==
  /\ pc[c] = "gone"
  /\ opened < MaxConnects
  /\ opened' = opened + 1
  /\ Goto(c, IF stored = <<>> THEN "idle" ELSE "loading")
  /\ UNCHANGED <<taskVars, hist, follow, job, missed, asked, stored, sent, fired, answered, spent>>

\* The stored messages after the last user message.
LastUser == CHOOSE i \in DOMAIN stored :
              /\ stored[i].role = "user"
              /\ \A j \in DOMAIN stored : j > i => stored[j].role # "user"

HasUser == \E i \in DOMAIN stored : stored[i].role = "user"

\* Mutated form of Resumable: the last user message may have been answered.
ResumableByText ==
  /\ current # 0 /\ HasUser
  /\ stored[LastUser].text = start[current].text

\* The registered task looks like the unanswered last user message: by text.
Resumable ==
  /\ current # 0 /\ HasUser
  /\ LastUser = Len(stored)
  /\ stored[LastUser].text = start[current].text

\* The ends of task t that are broadcast and not yet in its log: a handler that
\* attaches now gets them neither live nor replayed.
Split(t) ==
  (IF phase[t] = "ending" THEN {"done"} ELSE {}) \cup
  (IF \E d \in Conns : pc[d] = "logging" /\ job[d] = t THEN {"stopped"} ELSE {})

\* load_history on a fresh connection: the handler follows the task it finds ...
LoadHistory(c) ==
  /\ pc[c] = "loading"
  /\ hist' = [hist EXCEPT ![c] = stored]
  /\ IF Resumable
     THEN /\ follow' = [follow EXCEPT ![c] = current]
          /\ job' = [job EXCEPT ![c] = current]
          /\ missed' = [missed EXCEPT ![c] = Split(current)]
          /\ Goto(c, "resuming")
     ELSE /\ follow' = [follow EXCEPT ![c] = 0]
          /\ Goto(c, "idle")
          /\ UNCHANGED <<job, missed>>
  /\ UNCHANGED <<taskVars, asked, userVars>>

\* ... and, once the replay is sent, adopts its history if it has finished.
Resume(c) ==
  /\ pc[c] = "resuming"
  /\ hist' = [hist EXCEPT ![c] = Adopted(job[c], @)]
  /\ Take(job[c])
  /\ job' = [job EXCEPT ![c] = 0]
  /\ Goto(c, "idle")
  /\ UNCHANGED <<current, phase, start, running, handle, aborted, stopped, work,
                 follow, missed, asked, userVars>>

\* Task t has published its history, and a handler has taken it.
HandedOut(t) == t # 0 /\ phase[t] \in {"published", "ended"} /\ final[t] = <<>>

\* The handler ends: at the select, or inside an image conversion.
Disconnect(c) ==
  /\ pc[c] \in {"loading", "idle", "preparing"}
  /\ Goto(c, "gone")
  /\ hist' = [hist EXCEPT ![c] = <<>>]
  /\ follow' = [follow EXCEPT ![c] = 0]
  /\ missed' = [missed EXCEPT ![c] = {}]
  /\ asked' = [asked EXCEPT ![c] = NoMessage]
  /\ spent' = IF HandedOut(follow[c]) THEN spent \cup {follow[c]} ELSE spent
  /\ UNCHANGED <<taskVars, job, stored, sent, opened, fired, answered>>

\* Mutated form of Receive: no check for a running task.
ReceiveUnchecked(c) ==
  /\ pc[c] = "idle"
  /\ sent < MaxMessages
  /\ sent' = sent + 1
  /\ stored' = Append(stored, User(sent + 1))
  /\ Goto(c, "preparing")
  /\ asked' = [asked EXCEPT ![c] = User(sent + 1)]
  /\ hist' = [hist EXCEPT ![c] = Adopted(current, @)]
  /\ Take(current)
  /\ UNCHANGED <<current, phase, start, running, handle, aborted, stopped, work,
                 follow, job, missed, opened, fired, answered, spent>>

\* Mutated form of Receive: the finished task's history is not adopted.
ReceiveForgetful(c) ==
  /\ pc[c] = "idle"
  /\ sent < MaxMessages
  /\ sent' = sent + 1
  /\ stored' = Append(stored, User(sent + 1))
  /\ IF Busy
     THEN UNCHANGED <<pc, asked>>
     ELSE /\ Goto(c, "preparing")
          /\ asked' = [asked EXCEPT ![c] = User(sent + 1)]
  /\ UNCHANGED <<taskVars, hist, follow, job, missed, opened, fired, answered, spent>>

\* The client stores and sends a message; the handler refuses it while the
\* registered task runs, else adopts that task's history and goes on.
Receive(c) ==
  /\ pc[c] = "idle"
  /\ sent < MaxMessages
  /\ sent' = sent + 1
  /\ stored' = Append(stored, User(sent + 1))
  /\ IF Busy
     THEN UNCHANGED <<pc, hist, asked, final>>
     ELSE /\ Goto(c, "preparing")
          /\ asked' = [asked EXCEPT ![c] = User(sent + 1)]
          /\ hist' = [hist EXCEPT ![c] = Adopted(current, @)]
          /\ Take(current)
  /\ UNCHANGED <<current, phase, start, running, handle, aborted, stopped, work,
                 follow, job, missed, opened, fired, answered, spent>>

\* A conversion fails or no provider is found: the message leaves no trace
\* in the history.
Refuse(c) ==
  /\ pc[c] = "preparing"
  /\ Goto(c, "idle")
  /\ asked' = [asked EXCEPT ![c] = NoMessage]
  /\ UNCHANGED <<taskVars, hist, follow, job, missed, userVars>>

Born == {t \in Tasks : phase[t] # "none"}

\* Mutated form of Register: the task's copy is made before the message
\* enters the history.
RegisterEarlyCopy(c) ==
  /\ pc[c] = "preparing"
  /\ LET t == Cardinality(Born) + 1 IN
     /\ hist' = [hist EXCEPT ![c] = Append(@, asked[c])]
     /\ start' = [start EXCEPT ![t] = asked[c]]
     /\ work' = [work EXCEPT ![t] = hist[c]]
     /\ phase' = [phase EXCEPT ![t] = "registered"]
     /\ running' = [running EXCEPT ![t] = TRUE]
     /\ current' = t
     /\ follow' = [follow EXCEPT ![c] = t]
     /\ missed' = [missed EXCEPT ![c] = {}]
     /\ job' = [job EXCEPT ![c] = t]
  /\ asked' = [asked EXCEPT ![c] = NoMessage]
  /\ Goto(c, "spawning")
  /\ UNCHANGED <<handle, aborted, stopped, final, userVars>>

\* The awaits are over: the message enters the history, a task is made for
\* it, replaces the registered one, and is followed.
Register(c) ==
  /\ pc[c] = "preparing"
  /\ LET t == Cardinality(Born) + 1 IN
     /\ hist' = [hist EXCEPT ![c] = Append(@, asked[c])]
     /\ start' = [start EXCEPT ![t] = asked[c]]
     /\ work' = [work EXCEPT ![t] = Append(hist[c], asked[c])]
     /\ phase' = [phase EXCEPT ![t] = "registered"]
     /\ running' = [running EXCEPT ![t] = TRUE]
     /\ current' = t
     /\ follow' = [follow EXCEPT ![c] = t]
     /\ missed' = [missed EXCEPT ![c] = {}]
     /\ job' = [job EXCEPT ![c] = t]
  /\ asked' = [asked EXCEPT ![c] = NoMessage]
  /\ Goto(c, "spawning")
  /\ UNCHANGED <<handle, aborted, stopped, final, userVars>>

Spawn(c) ==
  /\ pc[c] = "spawning"
  /\ phase' = [phase EXCEPT ![job[c]] = "running"]
  /\ Goto(c, "handing")
  /\ UNCHANGED <<current, start, running, handle, aborted, stopped, work, final,
                 hist, follow, job, missed, asked, userVars>>

\* set_abort_handle(), after the task has been spawned.
SetHandle(c) ==
  /\ pc[c] = "handing"
  /\ handle' = [handle EXCEPT ![job[c]] = "set"]
  /\ job' = [job EXCEPT ![c] = 0]
  /\ Goto(c, "idle")
  /\ UNCHANGED <<current, phase, start, running, aborted, stopped, work, final,
                 hist, follow, missed, asked, userVars>>

-----------------------------------------------------------------------------
(* Stop.                                                                   *)

\* abort() finds the registered task running ...
StopCheck(c) ==
  /\ pc[c] = "idle"
  /\ Busy
  /\ job' = [job EXCEPT ![c] = current]
  /\ Goto(c, "stopping")
  /\ UNCHANGED <<taskVars, hist, follow, missed, asked, userVars>>

\* Mutated form of StopAct: the flag is cleared, the future is left alone.
StopFlagOnly(c) ==
  /\ pc[c] = "stopping"
  /\ running' = [running EXCEPT ![job[c]] = FALSE]
  /\ stopped' = stopped \cup {job[c]}
  /\ missed' = [d \in Conns |-> IF follow[d] = job[c] THEN missed[d] \ {"stopped"} ELSE missed[d]]
  /\ Goto(c, "logging")
  /\ UNCHANGED <<current, phase, start, handle, aborted, work, final, hist, follow, job, asked,
                 userVars>>

\* ... uses the abort handle if there is one, clears the flag, and broadcasts
\* "stopped", which it logs after.
StopAct(c) ==
  /\ pc[c] = "stopping"
  /\ IF handle[job[c]] = "set"
     THEN /\ handle' = [handle EXCEPT ![job[c]] = "taken"]
          /\ aborted' = aborted \cup {job[c]}
     ELSE UNCHANGED <<handle, aborted>>
  /\ running' = [running EXCEPT ![job[c]] = FALSE]
  /\ stopped' = stopped \cup {job[c]}
  /\ missed' = [d \in Conns |-> IF follow[d] = job[c] THEN missed[d] \ {"stopped"} ELSE missed[d]]
  /\ Goto(c, "logging")
  /\ UNCHANGED <<current, phase, start, work, final, hist, follow, job, asked, userVars>>

LogStop(c) ==
  /\ pc[c] = "logging"
  /\ job' = [job EXCEPT ![c] = 0]
  /\ Goto(c, "idle")
  /\ UNCHANGED <<taskVars, hist, follow, missed, asked, userVars>>

-----------------------------------------------------------------------------
(* The task.                                                               *)

\* The turn is over and "done" is broadcast ...; the answer is in the history
\* unless the provider failed.
TurnEnds(t) ==
  /\ phase[t] = "running"
  /\ phase' = [phase EXCEPT ![t] = "ending"]
  /\ \E said \in BOOLEAN :
       work' = IF said THEN [work EXCEPT ![t] = Append(@, Answer(start[t]))] ELSE work
  /\ UNCHANGED <<current, start, running, handle, aborted, stopped, final,
                 connVars, userVars>>

\* ... and then in the log.
LogEnd(t) ==
  /\ phase[t] = "ending"
  /\ phase' = [phase EXCEPT ![t] = "answered"]
  /\ UNCHANGED <<current, start, running, handle, aborted, stopped, work, final,
                 connVars, userVars>>

\* Mutated form of Publish: only the last exchange is published.
PublishTail(t) ==
  /\ phase[t] = "answered"
  /\ phase' = [phase EXCEPT ![t] = "published"]
  /\ final' = [final EXCEPT ![t] = <<SelectSeq(work[t], LAMBDA m : m.n = start[t].n)>>]
  /\ UNCHANGED <<current, start, running, handle, aborted, stopped, work,
                 connVars, userVars>>

\* set_final_history(), then RunGuard clears the flag.
Publish(t) ==
  /\ phase[t] = "answered"
  /\ phase' = [phase EXCEPT ![t] = "published"]
  /\ final' = [final EXCEPT ![t] = <<work[t]>>]
  /\ UNCHANGED <<current, start, running, handle, aborted, stopped, work,
                 connVars, userVars>>

Exit(t) ==
  /\ phase[t] = "published"
  /\ phase' = [phase EXCEPT ![t] = "ended"]
  /\ running' = [running EXCEPT ![t] = FALSE]
  /\ UNCHANGED <<current, start, handle, aborted, stopped, work, final,
                 connVars, userVars>>

\* Mutated form of Die: no RunGuard, the flag survives the future.
DieRunning(t) ==
  /\ phase[t] = "running"
  /\ phase' = [phase EXCEPT ![t] = IF t \in aborted THEN "aborted" ELSE "panicked"]
  /\ UNCHANGED <<current, start, running, handle, aborted, stopped, work, final,
                 connVars, userVars>>

\* The future is dropped, by the runtime after abort() or by a panic.
Die(t) ==
  /\ phase[t] = "running"
  /\ phase' = [phase EXCEPT ![t] = IF t \in aborted THEN "aborted" ELSE "panicked"]
  /\ running' = [running EXCEPT ![t] = FALSE]
  /\ UNCHANGED <<current, start, handle, aborted, stopped, work, final,
                 connVars, userVars>>

\* What task t shows its followers.
Output(t) ==
  IF Answer(start[t]) \in Elems(work[t]) THEN Answer(start[t]) ELSE Fallback(start[t])

\* Mutated form of Deliver: what came before the attach is not replayed.
DeliverLiveOnly(c) ==
  /\ pc[c] = "idle"
  /\ follow[c] # 0
  /\ phase[follow[c]] \in {"ending", "answered"} /\ "done" \notin missed[c]
  /\ stored' = Append(stored, Output(follow[c]))
  /\ answered' = answered \cup {start[follow[c]].n}
  /\ follow' = [follow EXCEPT ![c] = 0]
  /\ UNCHANGED <<taskVars, pc, hist, job, missed, asked, sent, opened, fired, spent>>

\* The client gets the "done" of the task its handler follows, live or replayed,
\* and stores the answer; nothing more will come.
Deliver(c) ==
  /\ pc[c] = "idle"
  /\ follow[c] # 0
  /\ phase[follow[c]] \in {"ending", "answered", "published", "ended"}
  /\ "done" \notin missed[c]
  /\ stored' = Append(stored, Output(follow[c]))
  /\ answered' = answered \cup {start[follow[c]].n}
  /\ follow' = [follow EXCEPT ![c] = 0]
  /\ UNCHANGED <<taskVars, pc, hist, job, missed, asked, sent, opened, fired, spent>>

\* The client gets "stopped", and keeps what had come of the answer.
DeliverStopped(c) ==
  /\ pc[c] = "idle"
  /\ follow[c] \in stopped /\ "stopped" \notin missed[c]
  /\ phase[follow[c]] = "aborted" \/ "done" \in missed[c]
  /\ \E text \in BOOLEAN :
       stored' = IF text THEN Append(stored, Partial(start[follow[c]])) ELSE stored
  /\ follow' = [follow EXCEPT ![c] = 0]
  /\ UNCHANGED <<taskVars, pc, hist, job, missed, asked, sent, opened, fired, answered, spent>>

\* set_task() for another conversation drops this one's finished task when
\* it was created more than an hour ago.
Expire ==
  /\ Expiry
  /\ current # 0 /\ ~running[current]
  /\ current' = 0
  /\ UNCHANGED <<phase, start, running, handle, aborted, stopped, work, final,
                 connVars, userVars>>

-----------------------------------------------------------------------------
(* A one-time reminder with an action, run by the handler itself.          *)

ActionStarts(c) ==
  /\ pc[c] = "idle"
  /\ fired < MaxActions
  /\ fired' = fired + 1
  /\ asked' = [asked EXCEPT ![c] = Action(fired + 1)]
  /\ hist' = [hist EXCEPT ![c] = Append(Adopted(current, @), Action(fired + 1))]
  /\ Take(current)
  /\ Goto(c, "acting")
  /\ UNCHANGED <<current, phase, start, running, handle, aborted, stopped, work,
                 follow, job, missed, stored, sent, opened, answered, spent>>

\* The inline turn is over; the client stores what it was sent of it.
ActionEnds(c) ==
  /\ pc[c] = "acting"
  /\ \E said \in BOOLEAN :
       IF said
       THEN /\ hist' = [hist EXCEPT ![c] = Append(@, Answer(asked[c]))]
            /\ stored' = Append(stored, Answer(asked[c]))
       ELSE UNCHANGED <<hist, stored>>
  /\ asked' = [asked EXCEPT ![c] = NoMessage]
  /\ Goto(c, "idle")
  /\ UNCHANGED <<taskVars, follow, job, missed, sent, opened, fired, answered, spent>>

-----------------------------------------------------------------------------
TaskStep(t) == TurnEnds(t) \/ LogEnd(t) \/ Publish(t) \/ Exit(t) \/ Die(t)

HandlerStep(c) ==
  \/ LoadHistory(c) \/ Resume(c) \/ Refuse(c) \/ Register(c) \/ Spawn(c) \/ SetHandle(c)
  \/ StopAct(c) \/ LogStop(c) \/ ActionEnds(c)

Next ==
  \/ \E t \in Tasks : TaskStep(t)
  \/ Expire
  \/ \E c \in Conns : \/ HandlerStep(c)
                      \/ Connect(c) \/ Disconnect(c) \/ Deliver(c) \/ DeliverStopped(c)
                      \/ StopCheck(c) \/ ActionStarts(c)
                      \/ Receive(c)

\* A handler in the middle of a message goes on and forwards what it receives,
\* and every turn ends: it has a bounded number of rounds, each under timeouts.
Fairness ==
  /\ \A t \in Tasks : WF_vars(TaskStep(t))
  /\ \A c \in Conns : WF_vars(HandlerStep(c)) /\ WF_vars(Deliver(c) \/ DeliverStopped(c))

Spec == Init /\ [][Next]_vars
FairSpec == Spec /\ Fairness

-----------------------------------------------------------------------------
Live(t) == phase[t] \in {"registered", "running", "ending", "answered", "published"}

\* The answers of the model in history h.
Answers(h) == {m \in Elems(h) : m.role = "assistant" /\ m.text # "fallback"}

\* Types; a handler that is gone has left nothing for the next one.
TypeOK ==
  /\ current \in 0 .. MaxMessages
  /\ phase \in [Tasks -> {"none", "registered", "running", "ending", "answered", "published",
                          "ended", "aborted", "panicked"}]
  /\ start \in [Tasks -> Messages]
  /\ running \in [Tasks -> BOOLEAN]
  /\ handle \in [Tasks -> {"none", "set", "taken"}]
  /\ aborted \subseteq Tasks /\ stopped \subseteq Tasks
  /\ work \in [Tasks -> Seq(Messages)]
  /\ final \in [Tasks -> Seq(Seq(Messages))]
  /\ pc \in [Conns -> {"gone", "loading", "resuming", "idle", "preparing", "spawning", "handing",
                       "stopping", "logging", "acting"}]
  /\ hist \in [Conns -> Seq(Messages)]
  /\ follow \in [Conns -> 0 .. MaxMessages]
  /\ job \in [Conns -> 0 .. MaxMessages]
  /\ missed \in [Conns -> SUBSET {"done", "stopped"}]
  /\ asked \in [Conns -> Messages]
  /\ stored \in Seq(Messages)
  /\ sent \in 0 .. MaxMessages /\ fired \in 0 .. MaxActions
  /\ opened \in 0 .. MaxConnects
  /\ answered \subseteq Tasks /\ spent \subseteq Tasks
  /\ \A c \in Conns : pc[c] = "gone" => hist[c] = <<>> /\ follow[c] = 0

\* ws.rs:501: "Reject a new task while one is already running for this
\* conversation".
OneTaskRuns == Cardinality({t \in Tasks : running[t]}) <= 1

\* At most one future of the conversation works without having been aborted.
OneFutureWorks == Cardinality({t \in Tasks : Live(t) /\ t \notin aborted}) <= 1

\* The user has been shown the answer of task t, which ended by itself.
Shown(t) ==
  /\ phase[t] = "ended" /\ t \notin stopped
  /\ start[t].n \in answered
  /\ Output(t) \in Answers(work[t])

\* A new task is given the answers the user has been shown (ws.rs:502-503: the
\* finished task's history is adopted "so follow-up messages keep the right
\* context"), but for those whose history went with an earlier handler.
FollowUpKeepsContext ==
  [][\A t \in Tasks : phase[t] = "none" /\ phase'[t] = "registered" =>
       \A s \in Tasks : Shown(s) /\ s \notin spent => Output(s) \in Answers(work'[t])]_vars

\* "Adopted by the next connection so follow-up messages keep the right context"
\* (session.rs:40-41): without the exception.
EveryFollowUpKeepsContext ==
  [][\A t \in Tasks : phase[t] = "none" /\ phase'[t] = "registered" =>
       \A s \in Tasks : Shown(s) => Output(s) \in Answers(work'[t])]_vars

\* Adopting a task's history never takes away an answer that a handler has,
\* those of stopped and of spent tasks aside (session.rs:39-41).
AdoptionForgetsNothing ==
  [][\A c \in Conns : pc[c] \in {"idle", "resuming"} /\ pc'[c] # "gone" =>
       \A m \in Answers(hist[c]) :
         m \in Answers(hist'[c]) \/ \E s \in stopped \cup spent : start[s].n = m.n]_vars

\* ws.rs:445-449: a client is re-attached to the task "that started with the
\* client's last user message" and whose "output was never delivered".
ResumesOwnTask ==
  [][\A c \in Conns : pc[c] = "loading" /\ pc'[c] = "resuming" =>
       start[follow'[c]].n \notin answered]_vars

\* In a history an answer comes after its question.
AnswersFollowQuestions ==
  \A c \in Conns : \A i \in DOMAIN hist[c] :
    hist[c][i].role = "assistant" /\ hist[c][i].n > 0 =>
      \E j \in 1 .. i - 1 : hist[c][j].role = "user" /\ hist[c][j].n = hist[c][i].n

\* Every task ends, and leaves the conversation free for the next message.
TaskResolved == \A t \in Tasks : Live(t) ~> ~Live(t) /\ ~running[t]

\* A connected client is told how the task it follows ended, by an answer or
\* by "stopped", unless the turn panicked or its handler attached between the
\* two halves of the emit (session.rs:64-69) of the event that says so.
ClientIsAnswered ==
  \A c \in Conns :
    follow[c] # 0 ~> \/ follow[c] = 0
                     \/ phase[follow[c]] = "panicked"
                     \/ missed[c] # {}
=============================================================================
