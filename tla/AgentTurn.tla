------------------------------ MODULE AgentTurn ------------------------------
(***************************************************************************)
(* The agent's turns in one conversation: run_turn (loop.rs), the parser   *)
(* of the provider's stream (openai.rs), isolated tool calls (registry.rs) *)
(* and the background task of ws_handler that calls them (ws.rs).          *)
(*                                                                         *)
(* A turn is a number of rounds.  Each asks the provider with the whole    *)
(* history and reads its stream; the tool calls found there are made one   *)
(* after the other, and the next round begins.  The last round is offered  *)
(* no tools.  Requests, gaps in a stream and tool calls have timeouts, and *)
(* a tool whose caller has given up goes on: it runs in a task of its own. *)
(*                                                                         *)
(* Texts are abstracted to whether there is any, a tool's result to the    *)
(* dispatch it came from.                                                  *)
(***************************************************************************)
EXTENDS Integers, Sequences, FiniteSets

CONSTANTS
  CallIds,    \* ids the provider gives to tool calls; it may reuse them
  MaxRounds,  \* AgentTurnOptions.max_turns (30 in chats, 60 in periodic tasks)
  MaxTurns    \* bound: user messages

ASSUME CallIdsAssumption == IsFiniteSet(CallIds)
ASSUME RoundsAssumption == MaxRounds \in Nat \ {0}
ASSUME TurnsAssumption == MaxTurns \in Nat

VARIABLES
  pc,         \* where the turn is; "ready" between turns, "completed" or
              \* "failed" when run_turn has returned (AgentTurnResult.completed)
  turn,       \* number of user messages so far
  round,      \* turns_used
  history,    \* the history of the turn, of the conversation when ready
  base,       \* the handler's history, which the turn has a copy of
  text,       \* whether the stream has brought text (assistant_content)
  calls,      \* per id: how much of a tool call the stream has brought
  todo,       \* the tool calls of this round not yet answered
  awaited,    \* the dispatch awaited, 0 for none
  live,       \* the dispatches whose tool is still running
  dispatched, \* history: the dispatches so far
  dones,      \* history: number of "done" events
  dropped     \* history: number of turns that were stopped

convVars == <<turn, base, dropped>>
roundVars == <<round, text, calls>>
toolVars == <<todo, awaited, live, dispatched>>
vars == <<pc, history, convVars, roundVars, toolVars, dones>>

System == [role |-> "system"]
User   == [role |-> "user"]

\* An assistant message with its tool calls, `turn` and `round` being history.
Assistant(cs) == [role |-> "assistant", calls |-> cs, turn |-> turn, round |-> round]

\* The result for a tool call; 0 is an error made up by run_turn.
Result(id, from) == [role |-> "tool", id |-> id, from |-> from]

Silent == [i \in CallIds |-> "none"]

\* The locals of a round are gone with it.
Forgotten == text' = FALSE /\ calls' = Silent

Init ==
  /\ pc = "ready"
  /\ turn = 0 /\ round = 0
  /\ history = <<System>> /\ base = <<System>>
  /\ text = FALSE
  /\ calls = Silent
  /\ todo = <<>> /\ awaited = 0 /\ live = {}
  /\ dispatched = <<>>
  /\ dones = 0 /\ dropped = 0

-----------------------------------------------------------------------------
(* Rounds.                                                                 *)

\* A user message: its turn works on a copy of the history.
Ask ==
  /\ pc = "ready" /\ turn < MaxTurns
  /\ turn' = turn + 1
  /\ history' = Append(history, User)
  /\ base' = Append(history, User)
  /\ round' = 1
  /\ pc' = "calling"
  /\ UNCHANGED <<text, calls, toolVars, dones, dropped>>

\* Mutated form of Forced: off by one.
ForcedTooLate == round > MaxRounds

\* is_forced_final
Forced == round = MaxRounds

\* The hint for the last round.
Hinted(h) == IF Forced THEN Append(h, User) ELSE h

\* What the provider may be sent: the context, if there is any, goes in after
\* the system prompt.
Requests ==
  {Hinted(history), Hinted(<<Head(history)>> \o <<User>> \o Tail(history))}

\* chat_stream() answers within its timeout ...
CallAnswered ==
  /\ pc = "calling"
  /\ pc' = "streaming"
  /\ UNCHANGED <<history, convVars, roundVars, toolVars, dones>>

\* ... or not, and the turn is over.
CallFailed ==
  /\ pc = "calling"
  /\ pc' = "failed"
  /\ UNCHANGED <<history, convVars, roundVars, toolVars, dones>>

TextDelta ==
  /\ pc = "streaming"
  /\ text' = TRUE
  /\ UNCHANGED <<pc, history, convVars, round, calls, toolVars, dones>>

\* Pieces of a tool call.  The parser keeps them ("part") until there are a
\* name and some arguments; either may turn out to be blank.
CallDelta(i) ==
  /\ pc = "streaming" /\ calls[i] # "some"
  /\ \E c \in {"part", "blank", "some"} \ {calls[i]} :
       /\ calls[i] = "blank" => c = "some"
       /\ calls' = [calls EXCEPT ![i] = c]
  /\ UNCHANGED <<pc, history, convVars, round, text, toolVars, dones>>

\* current_tool_args: the calls passed on.
Called == {i \in CallIds : calls[i] \in {"blank", "some"}}

\* The orders in which a hash map may give them.
Orders == {s \in [1 .. Cardinality(Called) -> Called] :
             \A i \in Called : \E k \in DOMAIN s : s[k] = i}

\* The stream fails, or nothing comes for too long: what has come of the
\* message is in no history.
StreamFailed ==
  /\ pc = "streaming"
  /\ pc' = "failed"
  /\ UNCHANGED <<history, convVars, roundVars, toolVars, dones>>

\* The stream ends without tool calls: this is the answer.
Answered ==
  /\ pc = "streaming" /\ Called = {}
  /\ history' = Append(history, Assistant(<<>>))
  /\ dones' = dones + 1
  /\ pc' = "completed"
  /\ UNCHANGED <<convVars, roundVars, toolVars>>

\* Mutated form of Concluded: the calls stay in the history.
ConcludedDangling ==
  /\ pc = "streaming" /\ Called # {} /\ Forced
  /\ \E cs \in Orders :
       history' = Append(history, Assistant(cs))
  /\ dones' = IF text THEN dones + 1 ELSE dones
  /\ pc' = IF text THEN "completed" ELSE "failed"
  /\ UNCHANGED <<convVars, roundVars, toolVars>>

\* Mutated form of Concluded: "done" is sent when there is no text, too.
ConcludedTwice ==
  /\ pc = "streaming" /\ Called # {} /\ Forced
  /\ history' = Append(history, Assistant(<<>>))
  /\ dones' = dones + 1
  /\ pc' = IF text THEN "completed" ELSE "failed"
  /\ UNCHANGED <<convVars, roundVars, toolVars>>

\* Calls in the last round, which offered no tools, are dropped.
Concluded ==
  /\ pc = "streaming" /\ Called # {} /\ Forced
  /\ history' = Append(history, Assistant(<<>>))
  /\ dones' = IF text THEN dones + 1 ELSE dones
  /\ pc' = IF text THEN "completed" ELSE "failed"
  /\ UNCHANGED <<convVars, roundVars, toolVars>>

\* The message with its calls enters the history; they are made next.
CallsFound ==
  /\ pc = "streaming" /\ Called # {} /\ ~Forced
  /\ \E cs \in Orders :
       /\ history' = Append(history, Assistant(cs))
       /\ todo' = cs
  /\ pc' = "dispatching"
  /\ UNCHANGED <<convVars, roundVars, awaited, live, dispatched, dones>>

-----------------------------------------------------------------------------
(* Tool calls, one at a time.                                              *)

Ghost(i) == calls[i] = "blank"

\* A call without a name or arguments gets an error at once.
Skip ==
  /\ pc = "dispatching" /\ todo # <<>> /\ Ghost(Head(todo))
  /\ history' = Append(history, Result(Head(todo), 0))
  /\ todo' = Tail(todo)
  /\ UNCHANGED <<pc, convVars, roundVars, awaited, live, dispatched, dones>>

\* dispatch_isolated() spawns the tool and waits for it.
Dispatch ==
  /\ pc = "dispatching" /\ todo # <<>> /\ ~Ghost(Head(todo))
  /\ dispatched' = Append(dispatched, [id |-> Head(todo), turn |-> turn, round |-> round])
  /\ awaited' = Len(dispatched) + 1
  /\ live' = live \cup {Len(dispatched) + 1}
  /\ pc' = "waiting"
  /\ UNCHANGED <<history, convVars, roundVars, todo, dones>>

\* Mutated form of ToolEnds: a result goes to whoever waits for this id.
ToolEndsById(n) ==
  /\ n \in live
  /\ live' = live \ {n}
  /\ IF pc = "waiting" /\ dispatched[n].id = Head(todo)
     THEN /\ history' = Append(history, Result(Head(todo), n))
          /\ todo' = Tail(todo) /\ awaited' = 0
          /\ pc' = "dispatching"
     ELSE UNCHANGED <<pc, history, todo, awaited>>
  /\ UNCHANGED <<convVars, roundVars, dispatched, dones>>

\* A tool returns, fails or panics; its result is lost unless it is awaited.
ToolEnds(n) ==
  /\ n \in live
  /\ live' = live \ {n}
  /\ IF n = awaited
     THEN /\ history' = Append(history, Result(Head(todo), n))
          /\ todo' = Tail(todo) /\ awaited' = 0
          /\ pc' = "dispatching"
     ELSE UNCHANGED <<pc, history, todo, awaited>>
  /\ UNCHANGED <<convVars, roundVars, dispatched, dones>>

\* Mutated form of ToolTimedOut: there is no timeout.
ToolNeverTimesOut == FALSE /\ UNCHANGED vars

ToolTimedOut ==
  /\ pc = "waiting"
  /\ history' = Append(history, Result(Head(todo), 0))
  /\ todo' = Tail(todo) /\ awaited' = 0
  /\ pc' = "dispatching"
  /\ UNCHANGED <<convVars, roundVars, live, dispatched, dones>>

NextRound ==
  /\ pc = "dispatching" /\ todo = <<>>
  /\ round' = round + 1
  /\ pc' = "calling"
  /\ Forgotten
  /\ UNCHANGED <<history, convVars, toolVars, dones>>

-----------------------------------------------------------------------------
(* The end of a turn.                                                      *)

\* run_turn has returned: the task sends a fallback and "done" unless that was
\* sent, and publishes its history; Conversation says how that is handed on.
Publish ==
  /\ pc \in {"completed", "failed"}
  /\ dones' = IF pc = "completed" THEN dones ELSE dones + 1
  /\ round' = 0 /\ Forgotten
  /\ pc' = "ready"
  /\ UNCHANGED <<history, convVars, toolVars>>

\* The user stops the turn: the future is dropped where it waits, its copy of
\* the history with it.  A tool that is running goes on.
Stopped ==
  /\ pc \in {"calling", "streaming", "waiting"}
  /\ history' = base
  /\ todo' = <<>> /\ awaited' = 0
  /\ dropped' = dropped + 1
  /\ round' = 0 /\ Forgotten
  /\ pc' = "ready"
  /\ UNCHANGED <<turn, base, live, dispatched, dones>>

-----------------------------------------------------------------------------
StreamStep ==
  \/ TextDelta
  \/ \E i \in CallIds : CallDelta(i)
  \/ StreamFailed \/ Answered \/ Concluded \/ CallsFound

TurnStep ==
  \/ CallAnswered \/ CallFailed
  \/ StreamStep
  \/ Skip \/ Dispatch \/ ToolTimedOut \/ NextRound
  \/ Publish

Next ==
  \/ Ask
  \/ TurnStep
  \/ \E n \in live : ToolEnds(n)
  \/ Stopped

\* A turn goes on: a request, a stream that has nothing new and a tool call are
\* given up after their timeouts.  Tools need not end, nor users do anything.
Spec == Init /\ [][Next]_vars /\ WF_vars(TurnStep)

-----------------------------------------------------------------------------
Messages ==
  [role : {"system", "user"}]
    \cup [role : {"assistant"}, calls : Seq(CallIds), turn : 1 .. MaxTurns, round : 1 .. MaxRounds]
    \cup [role : {"tool"}, id : CallIds, from : Nat]

TypeOK ==
  /\ pc \in {"ready", "calling", "streaming", "dispatching", "waiting", "completed",
             "failed"}
  /\ turn \in 0 .. MaxTurns
  /\ round \in 0 .. MaxRounds
  /\ history \in Seq(Messages) /\ base \in Seq(Messages)
  /\ text \in BOOLEAN
  /\ calls \in [CallIds -> {"none", "part", "blank", "some"}]
  /\ todo \in Seq(CallIds)
  /\ awaited \in 0 .. Len(dispatched)
  /\ live \subseteq DOMAIN dispatched
  /\ dispatched \in Seq([id : CallIds, turn : 1 .. MaxTurns, round : 1 .. MaxRounds])
  /\ dones \in Nat /\ dropped \in Nat

\* The message of h that result k answers: the last assistant message before it.
Asker(h, k) == CHOOSE j \in 1 .. k - 1 :
                 h[j].role = "assistant" /\ \A i \in j + 1 .. k - 1 : h[i].role = "tool"

\* Every call is followed by its result ...
CallsAnswered(h) ==
  \A j \in DOMAIN h : h[j].role = "assistant" =>
    \A k \in DOMAIN h[j].calls :
      j + k \in DOMAIN h /\ h[j + k].role = "tool" /\ h[j + k].id = h[j].calls[k]

\* ... and every result follows its call.
ResultsCalledFor(h) ==
  \A k \in DOMAIN h : h[k].role = "tool" =>
    \E j \in 1 .. k - 1 : h[j].role = "assistant" /\ k - j \in DOMAIN h[j].calls

Paired(h) == CallsAnswered(h) /\ ResultsCalledFor(h)

\* Whatever failed or was stopped before, the provider is sent a history in
\* which the tool calls and their results match (loop.rs:620-621: without
\* matching results they "would corrupt later provider requests").
RequestsArePaired == pc = "calling" => \A r \in Requests : Paired(r)

\* A result in the history comes from the dispatch of the very call that it
\* answers, not from an earlier one that had been given up, though ids recur
\* (loop.rs:665-685, registry.rs:76-93).
ResultsAreOfTheirCalls ==
  \A k \in DOMAIN history : history[k].role = "tool" /\ history[k].from # 0 =>
    LET asker == history[Asker(history, k)] IN
    dispatched[history[k].from] =
      [id |-> history[k].id, turn |-> asker.turn, round |-> asker.round]

\* No tool is run in the last round, whatever the model asks for, and a round
\* after it does not come (loop.rs:610-613).
LastRoundRunsNothing ==
  /\ pc \in {"dispatching", "waiting"} => round < MaxRounds
  /\ \A n \in DOMAIN dispatched : dispatched[n].round < MaxRounds

\* A turn that was not stopped has ended with one "done", sent by run_turn or
\* by the fallback after it, not by both (ws.rs:910-927).
OneDonePerTurn == pc = "ready" => dones + dropped = turn

\* Every turn ends.
TurnEnds == pc # "ready" ~> pc = "ready"
=============================================================================
