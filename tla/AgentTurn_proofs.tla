-------------------------- MODULE AgentTurn_proofs --------------------------
(***************************************************************************)
(* Proofs about AgentTurn, for any set of call ids, any number of rounds   *)
(* and any number of turns.                                                *)
(***************************************************************************)
EXTENDS AgentTurn, FiniteSetTheorems, TLAPS

\* What the counters say, and which variables are in use where.
TurnInv ==
  /\ TypeOK
  /\ pc # "ready" => round \in 1 .. MaxRounds /\ turn \in 1 .. MaxTurns
  /\ pc \in {"dispatching", "waiting"} => round < MaxRounds
  /\ pc \notin {"dispatching", "waiting"} => todo = <<>>
  /\ pc = "waiting" => todo # <<>>
  /\ pc # "waiting" => awaited = 0
  /\ \A n \in DOMAIN dispatched : dispatched[n].round < MaxRounds

\* A turn under way is owed its "done" until it has been sent.
DoneInv ==
  dones + dropped = IF pc \in {"ready", "completed"} THEN turn ELSE turn - 1

-----------------------------------------------------------------------------
(* Types and counters.                                                     *)

\* A hash map's entries come in an order, a sequence of ids.
LEMMA OrdersAreSequences ==
  ASSUME NEW cs \in Orders
  PROVE  cs \in Seq(CallIds) /\ \A k \in DOMAIN cs : cs[k] \in Called
<1>1. Called \subseteq CallIds
  BY DEF Called
<1>2. Cardinality(Called) \in Nat
  BY <1>1, CallIdsAssumption, FS_Subset, FS_CardinalityType
<1>3. cs \in [1 .. Cardinality(Called) -> Called]
  BY DEF Orders
<1> QED BY <1>1, <1>2, <1>3

\* Messages are messages.
LEMMA MessageTypes ==
  /\ System \in Messages /\ User \in Messages
  /\ \A id \in CallIds, n \in Nat : Result(id, n) \in Messages
  BY DEF System, User, Result, Messages

LEMMA AssistantType ==
  ASSUME turn \in 1 .. MaxTurns, round \in 1 .. MaxRounds, NEW cs \in Seq(CallIds)
  PROVE  Assistant(cs) \in Messages
  BY DEF Assistant, Messages

LEMMA CallTypes == Silent \in [CallIds -> {"none", "part", "blank", "some"}]
  BY DEF Silent

LEMMA ForgottenTypes ==
  Forgotten => /\ text' \in BOOLEAN
               /\ calls' \in [CallIds -> {"none", "part", "blank", "some"}]
  BY CallTypes DEF Forgotten

\* A tool that is awaited is awaited by the turn.
LEMMA Awaited ==
  ASSUME TurnInv, NEW n \in live, n = awaited
  PROVE  /\ pc = "waiting" /\ todo # <<>>
         /\ n \in Nat /\ Head(todo) \in CallIds /\ Tail(todo) \in Seq(CallIds)
<1>1. n \in Nat \ {0}
  BY DEF TurnInv, TypeOK
<1>2. pc = "waiting" /\ todo # <<>> /\ todo \in Seq(CallIds)
  BY <1>1 DEF TurnInv, TypeOK
<1> QED BY <1>1, <1>2

\* A message can be added to a history.
LEMMA AppendMessage ==
  ASSUME NEW h \in Seq(Messages), NEW m \in Messages
  PROVE  Append(h, m) \in Seq(Messages)
  OBVIOUS

\* The initial state has them.
LEMMA InitTurn == Init => TurnInv /\ DoneInv
<1> SUFFICES ASSUME Init PROVE TurnInv /\ DoneInv
  OBVIOUS
<1>1. <<System>> \in Seq(Messages)
  BY MessageTypes
<1>2. text \in BOOLEAN /\ calls \in [CallIds -> {"none", "part", "blank", "some"}]
  BY CallTypes DEF Init
<1>3. TypeOK
  BY <1>1, <1>2, RoundsAssumption, TurnsAssumption DEF Init, TypeOK
<1> QED BY <1>3 DEF Init, TurnInv, DoneInv

\* Every step keeps the types and the counters.
LEMMA TurnStepInv == TurnInv /\ [Next]_vars => TurnInv'
<1> SUFFICES ASSUME TurnInv, [Next]_vars PROVE TurnInv'
  OBVIOUS
<1> USE RoundsAssumption, TurnsAssumption DEF TurnInv, TypeOK
<1>1. CASE Ask
  BY <1>1, MessageTypes DEF Ask, toolVars
<1>2. CASE CallAnswered \/ CallFailed \/ StreamFailed \/ TextDelta
  BY <1>2 DEF CallAnswered, CallFailed, StreamFailed, TextDelta, convVars, roundVars, toolVars
<1>3. ASSUME NEW i \in CallIds, CallDelta(i) PROVE TurnInv'
  BY <1>3 DEF CallDelta, convVars, toolVars
<1>4. CASE Answered \/ Concluded
  <2>1. <<>> \in Seq(CallIds) /\ turn \in 1 .. MaxTurns /\ round \in 1 .. MaxRounds
    BY <1>4 DEF Answered, Concluded
  <2>2. Assistant(<<>>) \in Messages
    BY <2>1, AssistantType
  <2>3. history' \in Seq(Messages)
    BY <1>4, <2>2, AppendMessage DEF Answered, Concluded
  <2>4. pc' \in {"completed", "failed"} /\ dones' \in Nat
    BY <1>4 DEF Answered, Concluded
  <2>5. UNCHANGED <<convVars, roundVars, toolVars>> /\ todo = <<>> /\ awaited = 0
    BY <1>4 DEF Answered, Concluded
  <2> QED BY <2>1, <2>3, <2>4, <2>5 DEF convVars, roundVars, toolVars
<1>5. CASE CallsFound
  <2>1. PICK cs \in Orders : history' = Append(history, Assistant(cs)) /\ todo' = cs
    BY <1>5 DEF CallsFound
  <2>2. /\ pc = "streaming" /\ pc' = "dispatching" /\ round < MaxRounds
        /\ UNCHANGED <<convVars, roundVars, awaited, live, dispatched, dones>>
    BY <1>5 DEF CallsFound, Forced
  <2>3. cs \in Seq(CallIds)
    BY <2>1, OrdersAreSequences
  <2>4. Assistant(cs) \in Messages
    BY <2>2, <2>3, AssistantType
  <2>5. history' \in Seq(Messages)
    BY <2>1, <2>4, AppendMessage
  <2> QED BY <2>1, <2>2, <2>3, <2>5 DEF convVars, roundVars
<1>6. CASE Skip
  <2>1. /\ pc = "dispatching" /\ pc' = pc /\ todo # <<>> /\ todo' = Tail(todo)
        /\ UNCHANGED <<convVars, roundVars, awaited, live, dispatched, dones>>
    BY <1>6 DEF Skip
  <2>2. Head(todo) \in CallIds /\ Tail(todo) \in Seq(CallIds)
    BY <2>1
  <2>3. Result(Head(todo), 0) \in Messages
    BY <2>2, MessageTypes
  <2>4. history' \in Seq(Messages)
    BY <1>6, <2>3, AppendMessage DEF Skip
  <2> QED BY <2>1, <2>2, <2>4 DEF convVars, roundVars
<1>7. CASE Dispatch
  <2>1. [id |-> Head(todo), turn |-> turn, round |-> round]
          \in [id : CallIds, turn : 1 .. MaxTurns, round : 1 .. MaxRounds]
    BY <1>7 DEF Dispatch
  <2>2. /\ pc = "dispatching" /\ pc' = "waiting" /\ todo # <<>> /\ awaited' = Len(dispatched) + 1
        /\ live' = live \cup {Len(dispatched) + 1}
        /\ UNCHANGED <<history, turn, base, dropped, round, text, calls, todo, dones>>
    BY <1>7 DEF Dispatch, convVars, roundVars
  <2>3. /\ dispatched' \in Seq([id : CallIds, turn : 1 .. MaxTurns, round : 1 .. MaxRounds])
        /\ Len(dispatched') = Len(dispatched) + 1
        /\ \A n \in DOMAIN dispatched' : dispatched'[n].round < MaxRounds
    BY <1>7, <2>1 DEF Dispatch
  <2>4. live' \subseteq DOMAIN dispatched' /\ awaited' \in 0 .. Len(dispatched')
    <3>1. Len(dispatched) \in Nat /\ DOMAIN dispatched = 1 .. Len(dispatched)
      OBVIOUS
    <3>2. DOMAIN dispatched' = 1 .. Len(dispatched) + 1
      BY <2>3, <3>1
    <3>3. live \subseteq 1 .. Len(dispatched)
      BY <3>1
    <3>4. live' = live \cup {Len(dispatched) + 1} /\ awaited' = Len(dispatched) + 1
      BY <2>2
    <3>5. Len(dispatched') = Len(dispatched) + 1
      BY <2>3
    <3> HIDE DEF TurnInv, TypeOK
    <3>6. awaited' \in 0 .. Len(dispatched')
      BY <3>1, <3>4, <3>5
    <3>7. 1 .. Len(dispatched) \subseteq DOMAIN dispatched' /\ Len(dispatched) + 1 \in DOMAIN dispatched'
      BY <3>1, <3>2
    <3> QED BY <3>3, <3>4, <3>6, <3>7
  <2> QED BY <2>2, <2>3, <2>4
<1>8. CASE ToolTimedOut
  <2>1. /\ pc = "waiting" /\ pc' = "dispatching" /\ todo' = Tail(todo) /\ awaited' = 0
        /\ UNCHANGED <<convVars, roundVars, live, dispatched, dones>>
    BY <1>8 DEF ToolTimedOut
  <2>2. Head(todo) \in CallIds /\ Tail(todo) \in Seq(CallIds)
    BY <2>1
  <2>3. Result(Head(todo), 0) \in Messages
    BY <2>2, MessageTypes
  <2>4. history' \in Seq(Messages)
    BY <1>8, <2>3, AppendMessage DEF ToolTimedOut
  <2> QED BY <2>1, <2>2, <2>4 DEF convVars, roundVars
<1>9. ASSUME NEW n \in live, ToolEnds(n) PROVE TurnInv'
  <2>1. CASE n = awaited
    <3>1. /\ pc = "waiting"
          /\ n \in Nat /\ Head(todo) \in CallIds /\ Tail(todo) \in Seq(CallIds)
      BY <2>1, Awaited
    <3>2. Result(Head(todo), n) \in Messages
      BY <3>1, MessageTypes
    <3>3. history' \in Seq(Messages)
      BY <1>9, <2>1, <3>2, AppendMessage DEF ToolEnds
    <3>4. /\ todo' \in Seq(CallIds) /\ awaited' = 0 /\ pc' = "dispatching"
          /\ live' \subseteq live
          /\ UNCHANGED <<turn, base, dropped, round, text, calls, dispatched, dones>>
      BY <1>9, <2>1, <3>1 DEF ToolEnds, convVars, roundVars
    <3>5. awaited' \in 0 .. Len(dispatched')
      BY <3>4
    <3>6. TypeOK'
      BY <3>3, <3>4, <3>5
    <3> QED BY <3>1, <3>4, <3>6
  <2>2. CASE n # awaited
    <3>1. /\ UNCHANGED <<pc, history, turn, base, dropped, round, text, calls, todo, awaited>>
          /\ UNCHANGED <<dispatched, dones>> /\ live' \subseteq live
      BY <1>9, <2>2 DEF ToolEnds, convVars, roundVars
    <3> QED BY <3>1
  <2> QED BY <2>1, <2>2
<1>10. CASE NextRound
  BY <1>10, ForgottenTypes DEF NextRound, convVars, toolVars
<1>11. CASE Publish
  BY <1>11, ForgottenTypes DEF Publish, convVars, toolVars
<1>12. CASE Stopped
  BY <1>12, ForgottenTypes DEF Stopped
<1>13. CASE UNCHANGED vars
  BY <1>13 DEF vars, convVars, roundVars, toolVars
<1> QED BY <1>1, <1>2, <1>3, <1>4, <1>5, <1>6, <1>7, <1>8, <1>9, <1>10, <1>11, <1>12, <1>13
        DEF Next, TurnStep, StreamStep

\* Every step keeps count of the "done" events.
LEMMA DoneStepInv == TurnInv /\ DoneInv /\ [Next]_vars => DoneInv'
<1> SUFFICES ASSUME TurnInv, DoneInv, [Next]_vars PROVE DoneInv'
  OBVIOUS
<1>0. turn \in Nat /\ dones \in Nat /\ dropped \in Nat
  BY TurnsAssumption DEF TurnInv, TypeOK
<1> USE <1>0 DEF DoneInv
<1>1. CASE Ask
  BY <1>1 DEF Ask
<1>2. CASE CallAnswered \/ CallFailed \/ StreamFailed \/ TextDelta
  BY <1>2 DEF CallAnswered, CallFailed, StreamFailed, TextDelta, convVars
<1>3. ASSUME NEW i \in CallIds, CallDelta(i) PROVE DoneInv'
  BY <1>3 DEF CallDelta, convVars
<1>4. CASE Answered \/ Concluded
  <2>1. pc = "streaming" /\ UNCHANGED <<turn, dropped>>
    BY <1>4 DEF Answered, Concluded, convVars
  <2>2. CASE Answered
    BY <2>1, <2>2 DEF Answered
  <2>3. CASE Concluded /\ text
    BY <2>1, <2>3 DEF Concluded
  <2>4. CASE Concluded /\ ~text
    BY <2>1, <2>4 DEF Concluded
  <2> QED BY <1>4, <2>2, <2>3, <2>4
<1>5. CASE CallsFound \/ Skip \/ Dispatch \/ ToolTimedOut \/ NextRound
  <2>1. pc \in {"streaming", "dispatching", "waiting"} /\ UNCHANGED <<turn, dropped, dones>>
    BY <1>5 DEF CallsFound, Skip, Dispatch, ToolTimedOut, NextRound, convVars
  <2>2. pc' \in {"dispatching", "waiting", "calling"}
    BY <1>5 DEF CallsFound, Skip, Dispatch, ToolTimedOut, NextRound
  <2> QED BY <2>1, <2>2
<1>6. ASSUME NEW n \in live, ToolEnds(n) PROVE DoneInv'
  BY <1>6, Awaited DEF ToolEnds, convVars
<1>7. CASE Publish
  BY <1>7 DEF Publish, convVars
<1>8. CASE Stopped
  BY <1>8 DEF Stopped
<1>9. CASE UNCHANGED vars
  BY <1>9 DEF vars, convVars
<1> QED BY <1>1, <1>2, <1>3, <1>4, <1>5, <1>6, <1>7, <1>8, <1>9 DEF Next, TurnStep, StreamStep

\* The inductive invariant of the types and the counters.
THEOREM TurnInvariance == Spec => [](TurnInv /\ DoneInv)
<1>1. TurnInv /\ DoneInv /\ [Next]_vars => (TurnInv /\ DoneInv)'
  BY TurnStepInv, DoneStepInv
<1> QED BY InitTurn, <1>1, PTL DEF Spec

\* Type correctness.
THEOREM TypeCorrect == Spec => []TypeOK
<1>1. TurnInv => TypeOK
  BY DEF TurnInv
<1> QED BY TurnInvariance, <1>1, PTL

\* No tool is run in the last round, however many rounds there are.
THEOREM NothingRunsInTheLastRound == Spec => []LastRoundRunsNothing
<1>1. TurnInv => LastRoundRunsNothing
  BY DEF TurnInv, LastRoundRunsNothing
<1> QED BY TurnInvariance, <1>1, PTL

\* Every turn that is not stopped sends one "done".
THEOREM DoneIsSentOnce == Spec => []OneDonePerTurn
<1>1. DoneInv => OneDonePerTurn
  BY DEF DoneInv, OneDonePerTurn
<1> QED BY TurnInvariance, <1>1, PTL

-----------------------------------------------------------------------------
(* Calls and their results.                                                *)

\* Results for the calls cs that have none yet.
Pending(cs) == [k \in 1 .. Len(cs) |-> Result(cs[k], 0)]

\* The calls that are still to be made are all that the history lacks.
PairInv ==
  /\ history # <<>> /\ history[1].role = "system"
  /\ base # <<>> /\ base[1].role = "system"
  /\ Paired(base)
  /\ Paired(history \o Pending(todo))

LEMMA CallsOfAssistant ==
  ASSUME NEW m \in Messages, m.role = "assistant"
  PROVE  m.calls \in Seq(CallIds)
  BY DEF Messages

LEMMA PendingType ==
  ASSUME NEW cs \in Seq(CallIds)
  PROVE  /\ Pending(cs) \in Seq(Messages) /\ Len(Pending(cs)) = Len(cs)
         /\ \A k \in 1 .. Len(cs) : /\ Pending(cs)[k].role = "tool"
                                    /\ Pending(cs)[k].id = cs[k]
<1>1. \A k \in 1 .. Len(cs) : Result(cs[k], 0) \in Messages
  BY MessageTypes
<1>2. \A k \in 1 .. Len(cs) : Result(cs[k], 0).role = "tool" /\ Result(cs[k], 0).id = cs[k]
  BY DEF Result
<1> QED BY <1>1, <1>2 DEF Pending

\* A message without calls can be added to a history that is paired.
LEMMA PairedAppend ==
  ASSUME NEW h \in Seq(Messages), Paired(h), NEW m \in Messages,
         \/ m.role = "user"
         \/ m.role = "assistant" /\ m.calls = <<>>
  PROVE  Paired(Append(h, m))
<1> DEFINE g == Append(h, m)
<1>1. /\ Len(g) = Len(h) + 1 /\ DOMAIN g = 1 .. Len(h) + 1 /\ DOMAIN h = 1 .. Len(h)
      /\ Len(h) \in Nat
      /\ g[Len(h) + 1] = m /\ \A i \in 1 .. Len(h) : g[i] = h[i]
  OBVIOUS
<1> HIDE DEF g
<1>2. CallsAnswered(g)
  <2> SUFFICES ASSUME NEW j \in DOMAIN g, g[j].role = "assistant", NEW k \in DOMAIN g[j].calls
               PROVE  j + k \in DOMAIN g /\ g[j + k].role = "tool" /\ g[j + k].id = g[j].calls[k]
    BY DEF CallsAnswered
  <2>1. j \in 1 .. Len(h) /\ g[j] = h[j]
    BY <1>1
  <2>2. j + k \in DOMAIN h /\ h[j + k].role = "tool" /\ h[j + k].id = h[j].calls[k]
    BY <1>1, <2>1 DEF Paired, CallsAnswered
  <2> QED BY <1>1, <2>1, <2>2
<1>3. ResultsCalledFor(g)
  <2> SUFFICES ASSUME NEW k \in DOMAIN g, g[k].role = "tool"
               PROVE  \E j \in 1 .. k - 1 : g[j].role = "assistant" /\ k - j \in DOMAIN g[j].calls
    BY DEF ResultsCalledFor
  <2>1. k \in 1 .. Len(h) /\ g[k] = h[k]
    BY <1>1
  <2>2. PICK j \in 1 .. k - 1 : h[j].role = "assistant" /\ k - j \in DOMAIN h[j].calls
    BY <1>1, <2>1 DEF Paired, ResultsCalledFor
  <2> QED BY <1>1, <2>1, <2>2
<1> QED BY <1>2, <1>3 DEF Paired, g

LEMMA PairedUser ==
  ASSUME NEW h \in Seq(Messages), Paired(h)
  PROVE  Paired(Append(h, User))
<1>1. User \in Messages /\ User.role = "user"
  BY MessageTypes DEF User
<1>2. ASSUME NEW m \in Messages, m.role = "user" PROVE Paired(Append(h, m))
  BY <1>2, PairedAppend
<1> QED BY <1>1, <1>2

\* A message with calls can be added together with their results.
LEMMA PairedCalls ==
  ASSUME NEW h \in Seq(Messages), Paired(h), NEW cs \in Seq(CallIds), NEW m \in Messages,
         m.role = "assistant", m.calls = cs
  PROVE  Paired(Append(h, m) \o Pending(cs))
<1> DEFINE g == Append(h, m) \o Pending(cs)
<1> DEFINE n == Len(h)
<1>1. /\ n \in Nat /\ Len(cs) \in Nat /\ DOMAIN h = 1 .. n /\ DOMAIN cs = 1 .. Len(cs)
      /\ DOMAIN g = 1 .. n + 1 + Len(cs)
      /\ g[n + 1] = m /\ \A i \in 1 .. n : g[i] = h[i]
      /\ \A k \in 1 .. Len(cs) : g[n + 1 + k] = Pending(cs)[k]
  BY PendingType
<1>2. \A k \in 1 .. Len(cs) : g[n + 1 + k].role = "tool" /\ g[n + 1 + k].id = cs[k]
  BY <1>1, PendingType
<1> HIDE DEF g, n
<1>3. CallsAnswered(g)
  <2> SUFFICES ASSUME NEW j \in DOMAIN g, g[j].role = "assistant", NEW k \in DOMAIN g[j].calls
               PROVE  j + k \in DOMAIN g /\ g[j + k].role = "tool" /\ g[j + k].id = g[j].calls[k]
    BY DEF CallsAnswered
  <2>1. CASE j \in 1 .. n
    <3>1. j + k \in DOMAIN h /\ h[j + k].role = "tool" /\ h[j + k].id = h[j].calls[k]
      BY <1>1, <2>1 DEF Paired, CallsAnswered
    <3> QED BY <1>1, <2>1, <3>1
  <2>2. CASE j = n + 1
    <3>1. g[j].calls = cs
      BY <1>1, <2>2
    <3>2. k \in 1 .. Len(cs)
      BY <1>1, <3>1
    <3>3. j + k = n + 1 + k /\ j + k \in 1 .. n + 1 + Len(cs)
      BY <1>1, <2>2, <3>2
    <3> QED BY <1>1, <1>2, <3>1, <3>2, <3>3
  <2>3. CASE j \in n + 2 .. n + 1 + Len(cs)
    <3>1. j - (n + 1) \in 1 .. Len(cs) /\ n + 1 + (j - (n + 1)) = j
      BY <1>1, <2>3
    <3> QED BY <1>2, <3>1
  <2> QED BY <1>1, <2>1, <2>2, <2>3
<1>4. ResultsCalledFor(g)
  <2> SUFFICES ASSUME NEW k \in DOMAIN g, g[k].role = "tool"
               PROVE  \E j \in 1 .. k - 1 : g[j].role = "assistant" /\ k - j \in DOMAIN g[j].calls
    BY DEF ResultsCalledFor
  <2>1. CASE k \in 1 .. n
    <3>1. PICK j \in 1 .. k - 1 : h[j].role = "assistant" /\ k - j \in DOMAIN h[j].calls
      BY <1>1, <2>1 DEF Paired, ResultsCalledFor
    <3> QED BY <1>1, <2>1, <3>1
  <2>2. CASE k \in n + 2 .. n + 1 + Len(cs)
    <3>1. n + 1 \in 1 .. k - 1 /\ k - (n + 1) \in DOMAIN cs
      BY <1>1, <2>2
    <3> QED BY <1>1, <3>1
  <2> QED BY <1>1, <2>1, <2>2
<1> QED BY <1>3, <1>4 DEF Paired, g

\* Being paired does not depend on what the results are.
LEMMA PairedSimilar ==
  ASSUME NEW h \in Seq(Messages), NEW g \in Seq(Messages), Paired(h), Len(g) = Len(h),
         \A i \in 1 .. Len(h) : \/ g[i] = h[i]
                               \/ /\ g[i].role = "tool" /\ h[i].role = "tool"
                                  /\ g[i].id = h[i].id
  PROVE  Paired(g)
<1>1. DOMAIN g = 1 .. Len(h) /\ DOMAIN h = 1 .. Len(h) /\ Len(h) \in Nat
  OBVIOUS
<1>2. CallsAnswered(g)
  <2> SUFFICES ASSUME NEW j \in DOMAIN g, g[j].role = "assistant", NEW k \in DOMAIN g[j].calls
               PROVE  j + k \in DOMAIN g /\ g[j + k].role = "tool" /\ g[j + k].id = g[j].calls[k]
    BY DEF CallsAnswered
  <2>1. g[j] = h[j] /\ j \in DOMAIN h
    BY <1>1
  <2>2. j + k \in DOMAIN h /\ h[j + k].role = "tool" /\ h[j + k].id = h[j].calls[k]
    BY <2>1 DEF Paired, CallsAnswered
  <2> QED BY <1>1, <2>1, <2>2
<1>3. ResultsCalledFor(g)
  <2> SUFFICES ASSUME NEW k \in DOMAIN g, g[k].role = "tool"
               PROVE  \E j \in 1 .. k - 1 : g[j].role = "assistant" /\ k - j \in DOMAIN g[j].calls
    BY DEF ResultsCalledFor
  <2>1. k \in DOMAIN h /\ h[k].role = "tool"
    BY <1>1
  <2>2. PICK j \in 1 .. k - 1 : h[j].role = "assistant" /\ k - j \in DOMAIN h[j].calls
    BY <2>1 DEF Paired, ResultsCalledFor
  <2>3. g[j] = h[j]
    BY <1>1, <2>1, <2>2
  <2> QED BY <2>2, <2>3
<1> QED BY <1>2, <1>3 DEF Paired

\* The context and the hint do not come between a call and its results.
LEMMA PairedRequest ==
  ASSUME NEW h \in Seq(Messages), h # <<>>, h[1].role = "system", Paired(h)
  PROVE  /\ <<Head(h)>> \o <<User>> \o Tail(h) \in Seq(Messages)
         /\ Paired(<<Head(h)>> \o <<User>> \o Tail(h))
<1> DEFINE g == <<Head(h)>> \o <<User>> \o Tail(h)
<1>1. User \in Messages /\ User.role = "user" /\ Head(h) \in Messages
  BY MessageTypes DEF User
<1>2. /\ Len(h) \in Nat \ {0} /\ DOMAIN h = 1 .. Len(h) /\ DOMAIN g = 1 .. Len(h) + 1
      /\ g[1] = h[1] /\ g[2] = User /\ \A i \in 2 .. Len(h) : g[i + 1] = h[i]
      /\ g \in Seq(Messages)
  BY <1>1
<1> HIDE DEF g
<1>3. CallsAnswered(g)
  <2> SUFFICES ASSUME NEW j \in DOMAIN g, g[j].role = "assistant", NEW k \in DOMAIN g[j].calls
               PROVE  j + k \in DOMAIN g /\ g[j + k].role = "tool" /\ g[j + k].id = g[j].calls[k]
    BY DEF CallsAnswered
  <2>1. j - 1 \in 2 .. Len(h) /\ g[j] = h[j - 1]
    BY <1>1, <1>2
  <2>2. /\ j - 1 + k \in DOMAIN h /\ h[j - 1 + k].role = "tool"
        /\ h[j - 1 + k].id = h[j - 1].calls[k]
    BY <1>2, <2>1 DEF Paired, CallsAnswered
  <2>3. k \in 1 .. Len(h[j - 1].calls) /\ Len(h[j - 1].calls) \in Nat
    BY <1>2, <2>1, CallsOfAssistant
  <2>4. g[j + k] = h[j - 1 + k]
    BY <1>2, <2>1, <2>2, <2>3
  <2> QED BY <1>2, <2>1, <2>2, <2>3, <2>4
<1>4. ResultsCalledFor(g)
  <2> SUFFICES ASSUME NEW k \in DOMAIN g, g[k].role = "tool"
               PROVE  \E j \in 1 .. k - 1 : g[j].role = "assistant" /\ k - j \in DOMAIN g[j].calls
    BY DEF ResultsCalledFor
  <2>1. k - 1 \in 2 .. Len(h) /\ g[k] = h[k - 1]
    BY <1>1, <1>2
  <2>2. PICK j \in 1 .. k - 2 : h[j].role = "assistant" /\ k - 1 - j \in DOMAIN h[j].calls
    BY <1>2, <2>1 DEF Paired, ResultsCalledFor
  <2>3. j \in 2 .. Len(h)
    BY <1>2, <2>1, <2>2
  <2>4. j + 1 \in 1 .. k - 1 /\ g[j + 1] = h[j] /\ k - (j + 1) = k - 1 - j
    BY <1>2, <2>1, <2>3
  <2> QED BY <2>2, <2>4
<1> QED BY <1>2, <1>3, <1>4 DEF Paired, g

LEMMA ConcatFacts ==
  ASSUME NEW g \in Seq(Messages), NEW p \in Seq(Messages)
  PROVE  /\ g \o p \in Seq(Messages) /\ Len(g \o p) = Len(g) + Len(p)
         /\ \A i \in 1 .. Len(g) : (g \o p)[i] = g[i]
         /\ \A k \in 1 .. Len(p) : (g \o p)[Len(g) + k] = p[k]
  OBVIOUS

\* A history and what it lacks, with nothing lacking.
LEMMA NothingPending ==
  ASSUME NEW h \in Seq(Messages)
  PROVE  h \o Pending(<<>>) = h
<1>1. Pending(<<>>) = <<>>
  BY DEF Pending
<1> QED BY <1>1

\* A result takes the place of the first pending one.
LEMMA ResultArrives ==
  ASSUME NEW h \in Seq(Messages), NEW cs \in Seq(CallIds), cs # <<>>, NEW n \in Nat,
         Paired(h \o Pending(cs))
  PROVE  Paired(Append(h, Result(Head(cs), n)) \o Pending(Tail(cs)))
<1> DEFINE r == Result(Head(cs), n)
<1> DEFINE old == h \o Pending(cs)
<1> DEFINE new == Append(h, r) \o Pending(Tail(cs))
<1>1. r \in Messages /\ r.role = "tool" /\ r.id = cs[1] /\ Tail(cs) \in Seq(CallIds)
  BY MessageTypes DEF Result
<1>2. /\ Len(cs) \in Nat \ {0} /\ Len(h) \in Nat /\ Len(Tail(cs)) = Len(cs) - 1
      /\ \A k \in 1 .. Len(cs) - 1 : Tail(cs)[k] = cs[k + 1]
  OBVIOUS
<1> HIDE DEF r
<1>3. /\ old \in Seq(Messages) /\ Len(old) = Len(h) + Len(cs)
      /\ \A i \in 1 .. Len(h) : old[i] = h[i]
      /\ \A k \in 1 .. Len(cs) : old[Len(h) + k] = Pending(cs)[k]
  BY PendingType
<1>4. /\ new \in Seq(Messages) /\ Len(new) = Len(h) + Len(cs)
      /\ \A i \in 1 .. Len(h) : new[i] = h[i]
      /\ new[Len(h) + 1] = r
      /\ \A k \in 1 .. Len(cs) - 1 : new[Len(h) + 1 + k] = Pending(Tail(cs))[k]
  <2> DEFINE g == Append(h, r)
  <2> DEFINE p == Pending(Tail(cs))
  <2>1. /\ g \in Seq(Messages) /\ Len(g) = Len(h) + 1
        /\ g[Len(h) + 1] = r /\ \A i \in 1 .. Len(h) : g[i] = h[i]
    BY <1>1
  <2>2. p \in Seq(Messages) /\ Len(p) = Len(cs) - 1
    BY <1>1, <1>2, PendingType
  <2> HIDE DEF g, p
  <2>3. /\ g \o p \in Seq(Messages) /\ Len(g \o p) = Len(h) + Len(cs)
        /\ \A i \in 1 .. Len(h) + 1 : (g \o p)[i] = g[i]
        /\ \A k \in 1 .. Len(cs) - 1 : (g \o p)[Len(h) + 1 + k] = p[k]
    <3>1. Len(g) + Len(p) = Len(h) + Len(cs)
      BY <1>2, <2>1, <2>2
    <3>2. /\ g \o p \in Seq(Messages) /\ Len(g \o p) = Len(g) + Len(p)
          /\ \A i \in 1 .. Len(g) : (g \o p)[i] = g[i]
          /\ \A k \in 1 .. Len(p) : (g \o p)[Len(g) + k] = p[k]
      BY <2>1, <2>2, ConcatFacts
    <3> QED BY <2>1, <2>2, <3>1, <3>2
  <2> QED BY <1>2, <2>1, <2>3 DEF g, p
<1> HIDE DEF old, new
<1>5. ASSUME NEW i \in 1 .. Len(old)
      PROVE  \/ new[i] = old[i]
             \/ new[i].role = "tool" /\ old[i].role = "tool" /\ new[i].id = old[i].id
  <2>1. CASE i \in 1 .. Len(h)
    BY <1>3, <1>4, <2>1
  <2>2. CASE i = Len(h) + 1
    <3>1. old[i] = Pending(cs)[1] /\ 1 \in 1 .. Len(cs)
      BY <1>2, <1>3, <2>2
    <3> QED BY <1>1, <1>4, <2>2, <3>1, PendingType
  <2>3. CASE i \in Len(h) + 2 .. Len(h) + Len(cs)
    <3> DEFINE k == i - (Len(h) + 1)
    <3>1. k \in 1 .. Len(cs) - 1 /\ i = Len(h) + 1 + k /\ i = Len(h) + (k + 1)
          /\ k + 1 \in 1 .. Len(cs)
      BY <1>2, <2>3
    <3> HIDE DEF k
    <3>2. old[i] = Pending(cs)[k + 1] /\ new[i] = Pending(Tail(cs))[k]
      BY <1>3, <1>4, <3>1
    <3>3. Pending(Tail(cs))[k].role = "tool" /\ Pending(Tail(cs))[k].id = Tail(cs)[k]
      BY <1>1, <1>2, <3>1, PendingType
    <3> QED BY <1>2, <3>1, <3>2, <3>3, PendingType
  <2>4. i \in 1 .. Len(h) \/ i = Len(h) + 1 \/ i \in Len(h) + 2 .. Len(h) + Len(cs)
    BY <1>2, <1>3
  <2> QED BY <2>1, <2>2, <2>3, <2>4
<1>6. Paired(new)
  BY <1>3, <1>4, <1>5, PairedSimilar DEF old
<1> QED BY <1>6 DEF new, r

-----------------------------------------------------------------------------
\* Every step keeps the calls and the results together.
LEMMA PairStepInv == TurnInv /\ PairInv /\ [Next]_vars => PairInv'
<1> SUFFICES ASSUME TurnInv, PairInv, [Next]_vars PROVE PairInv'
  OBVIOUS
<1>0. /\ history \in Seq(Messages) /\ base \in Seq(Messages) /\ todo \in Seq(CallIds)
      /\ pc \notin {"dispatching", "waiting"} => todo = <<>>
  BY DEF TurnInv, TypeOK
<1>a. todo = <<>> => Paired(history)
  BY <1>0, NothingPending DEF PairInv
<1>b. ASSUME NEW m \in Messages
      PROVE  Append(history, m) # <<>> /\ Append(history, m)[1].role = "system"
  BY <1>0, <1>b DEF PairInv
<1>c. ASSUME UNCHANGED <<history, base, todo>> PROVE PairInv'
  BY <1>c DEF PairInv
<1>1. CASE Ask
  <2>1. todo = <<>> /\ todo' = <<>> /\ history' = Append(history, User)
        /\ base' = Append(history, User)
    BY <1>0, <1>1 DEF Ask, toolVars
  <2>2. User \in Messages /\ User.role = "user"
    BY MessageTypes DEF User
  <2>3. Paired(history')
    BY <1>0, <1>a, <2>1, PairedUser
  <2>4. history' \in Seq(Messages)
    BY <1>0, <2>1, <2>2, AppendMessage
  <2> QED BY <1>b, <2>1, <2>2, <2>3, <2>4, NothingPending DEF PairInv
<1>2. CASE CallAnswered \/ CallFailed \/ StreamFailed \/ TextDelta \/ NextRound \/ Publish
  BY <1>2, <1>c DEF CallAnswered, CallFailed, StreamFailed, TextDelta, NextRound, Publish,
                    convVars, toolVars
<1>3. ASSUME NEW i \in CallIds, CallDelta(i) PROVE PairInv'
  BY <1>3, <1>c DEF CallDelta, convVars, toolVars
<1>4. CASE Answered \/ Concluded
  <2>1. todo = <<>> /\ todo' = <<>> /\ base' = base /\ history' = Append(history, Assistant(<<>>))
    BY <1>0, <1>4 DEF Answered, Concluded, convVars, toolVars
  <2>2. pc = "streaming" /\ <<>> \in Seq(CallIds)
    BY <1>4 DEF Answered, Concluded
  <2>3. Assistant(<<>>) \in Messages
    BY <2>2, AssistantType DEF TurnInv
  <2>4. Assistant(<<>>).role = "assistant" /\ Assistant(<<>>).calls = <<>>
    BY DEF Assistant
  <2>5. Paired(history') /\ history' \in Seq(Messages)
    BY <1>0, <1>a, <2>1, <2>3, <2>4, PairedAppend, AppendMessage
  <2> QED BY <1>b, <2>1, <2>3, <2>5, NothingPending DEF PairInv
<1>5. CASE CallsFound
  <2>1. PICK cs \in Orders : history' = Append(history, Assistant(cs)) /\ todo' = cs
    BY <1>5 DEF CallsFound
  <2>2. pc = "streaming" /\ base' = base /\ todo = <<>> /\ cs \in Seq(CallIds)
    BY <1>0, <1>5, OrdersAreSequences DEF CallsFound, convVars
  <2>3. Assistant(cs) \in Messages
    BY <2>2, AssistantType DEF TurnInv
  <2>4. Assistant(cs).role = "assistant" /\ Assistant(cs).calls = cs
    BY DEF Assistant
  <2>5. Paired(history' \o Pending(todo'))
    BY <1>0, <1>a, <2>1, <2>2, <2>3, <2>4, PairedCalls
  <2> QED BY <1>b, <2>1, <2>2, <2>3, <2>5 DEF PairInv
<1>6. ASSUME NEW n \in Nat, todo # <<>>, history' = Append(history, Result(Head(todo), n)),
             todo' = Tail(todo), base' = base
      PROVE  PairInv'
  <2>1. Paired(history' \o Pending(todo'))
    BY <1>0, <1>6, ResultArrives DEF PairInv
  <2>2. Result(Head(todo), n) \in Messages
    BY <1>0, <1>6, MessageTypes
  <2> QED BY <1>b, <1>6, <2>1, <2>2 DEF PairInv
<1>7. CASE Skip
  BY <1>6, <1>7 DEF Skip, convVars
<1>8. CASE Dispatch
  BY <1>8, <1>c DEF Dispatch, convVars
<1>9. CASE ToolTimedOut
  <2>1. todo # <<>>
    BY <1>9 DEF ToolTimedOut, TurnInv
  <2> QED BY <1>6, <1>9, <2>1 DEF ToolTimedOut, convVars
<1>10. ASSUME NEW n \in live, ToolEnds(n) PROVE PairInv'
  <2>1. CASE n = awaited
    <3>1. n \in Nat /\ todo # <<>>
      BY <2>1, Awaited
    <3> QED BY <1>6, <1>10, <2>1, <3>1 DEF ToolEnds, convVars
  <2>2. CASE n # awaited
    BY <1>10, <1>c, <2>2 DEF ToolEnds, convVars
  <2> QED BY <2>1, <2>2
<1>11. CASE Stopped
  <2>1. history' = base /\ base' = base /\ todo' = <<>>
    BY <1>11 DEF Stopped
  <2>2. history' \o Pending(todo') = base
    BY <1>0, <2>1, NothingPending
  <2> QED BY <2>1, <2>2 DEF PairInv
<1>12. CASE UNCHANGED vars
  BY <1>12, <1>c DEF vars, convVars, toolVars
<1> QED BY <1>1, <1>2, <1>3, <1>4, <1>5, <1>7, <1>8, <1>9, <1>10, <1>11, <1>12
        DEF Next, TurnStep, StreamStep

\* The initial history has neither calls nor results.
LEMMA InitPair == Init => PairInv
<1> SUFFICES ASSUME Init PROVE PairInv
  OBVIOUS
<1>1. /\ history = <<System>> /\ base = <<System>> /\ todo = <<>> /\ System.role = "system"
      /\ <<System>> \in Seq(Messages)
  BY MessageTypes DEF Init, System
<1>2. Paired(<<System>>)
  BY <1>1 DEF Paired, CallsAnswered, ResultsCalledFor
<1> QED BY <1>1, <1>2, NothingPending DEF PairInv

\* A request to the provider never has a call without its result or a result
\* without its call, however many rounds, failures, timeouts and stops came
\* before it.
THEOREM RequestsArePairedAlways == Spec => []RequestsArePaired
<1>1. TurnInv /\ PairInv /\ [Next]_vars => PairInv'
  BY PairStepInv
<1>2. TurnInv /\ PairInv => RequestsArePaired
  <2> SUFFICES ASSUME TurnInv, PairInv, pc = "calling", NEW r \in Requests PROVE Paired(r)
    BY DEF RequestsArePaired
  <2>1. history \in Seq(Messages) /\ Paired(history)
    BY NothingPending DEF TurnInv, TypeOK, PairInv
  <2> DEFINE g == <<Head(history)>> \o <<User>> \o Tail(history)
  <2>2. g \in Seq(Messages) /\ Paired(g)
    BY <2>1, PairedRequest DEF PairInv
  <2>3. r = Hinted(history) \/ r = Hinted(g)
    BY DEF Requests
  <2> HIDE DEF g
  <2>4. Paired(Append(history, User)) /\ Paired(Append(g, User))
    BY <2>1, <2>2, PairedUser
  <2> QED BY <2>1, <2>2, <2>3, <2>4 DEF Hinted
<1> QED BY InitPair, TurnInvariance, <1>1, <1>2, PTL DEF Spec

-----------------------------------------------------------------------------
(* Whose result is whose.                                                  *)

Dispatches == [id : CallIds, turn : 1 .. MaxTurns, round : 1 .. MaxRounds]

\* Message j of h is the one that a result at place k answers.
Asks(h, k, j) == h[j].role = "assistant" /\ \A i \in j + 1 .. k - 1 : h[i].role = "tool"

\* Dispatch n was made for a call of that id in message m.
MadeFor(ds, n, id, m) ==
  n \in 1 .. Len(ds) /\ ds[n].id = id /\ ds[n].turn = m.turn /\ ds[n].round = m.round

\* Every result of a tool in h is of the dispatch made for its call.
Owned(h, ds) ==
  \A k \in 1 .. Len(h) : h[k].role = "tool" /\ h[k].from # 0 =>
    \E j \in 1 .. k - 1 : Asks(h, k, j) /\ MadeFor(ds, h[k].from, h[k].id, h[j])

\* The next result would answer a message of this turn and round.
Current(h, tn, rd) ==
  \E j \in 1 .. Len(h) : Asks(h, Len(h) + 1, j) /\ h[j].turn = tn /\ h[j].round = rd

\* The histories are in order, calls are made for the last message, and the
\* dispatch awaited is of the first call to be made.
OwnInv ==
  /\ Owned(history, dispatched) /\ Owned(base, dispatched)
  /\ pc \in {"dispatching", "waiting"} => Current(history, turn, round)
  /\ pc = "waiting" =>
       /\ awaited \in 1 .. Len(dispatched)
       /\ dispatched[awaited].id = Head(todo)
       /\ dispatched[awaited].turn = turn /\ dispatched[awaited].round = round

\* A message is added that is no result, or the result of its call.
LEMMA OwnedAppend ==
  ASSUME NEW h \in Seq(Messages), NEW m \in Messages, NEW ds, Owned(h, ds),
         m.role = "tool" /\ m.from # 0 =>
           \E j \in 1 .. Len(h) : Asks(h, Len(h) + 1, j) /\ MadeFor(ds, m.from, m.id, h[j])
  PROVE  Owned(Append(h, m), ds)
<1>1. PICK g : g = Append(h, m)
  OBVIOUS
<1>2. /\ Len(g) = Len(h) + 1 /\ Len(h) \in Nat
      /\ g[Len(h) + 1] = m /\ \A i \in 1 .. Len(h) : g[i] = h[i]
  BY <1>1
<1>3. ASSUME NEW k \in 1 .. Len(h) + 1, NEW j \in 1 .. k - 1, Asks(h, k, j) PROVE Asks(g, k, j)
  BY <1>2, <1>3 DEF Asks
<1>4. ASSUME NEW k \in 1 .. Len(g), g[k].role = "tool", g[k].from # 0
      PROVE  \E j \in 1 .. k - 1 : Asks(g, k, j) /\ MadeFor(ds, g[k].from, g[k].id, g[j])
  <2>1. CASE k \in 1 .. Len(h)
    <3>1. PICK j \in 1 .. k - 1 : Asks(h, k, j) /\ MadeFor(ds, h[k].from, h[k].id, h[j])
      BY <1>2, <1>4, <2>1 DEF Owned
    <3>2. Asks(g, k, j) /\ g[k] = h[k] /\ g[j] = h[j]
      BY <1>2, <1>3, <2>1, <3>1
    <3> QED BY <3>1, <3>2
  <2>2. CASE k = Len(h) + 1
    <3>1. PICK j \in 1 .. Len(h) : Asks(h, k, j) /\ MadeFor(ds, m.from, m.id, h[j])
      BY <1>2, <1>4, <2>2
    <3>2. j \in 1 .. k - 1 /\ Asks(g, k, j) /\ g[k] = m /\ g[j] = h[j]
      BY <1>2, <1>3, <2>2, <3>1
    <3> QED BY <3>1, <3>2
  <2> QED BY <1>2, <2>1, <2>2
<1> QED BY <1>1, <1>4 DEF Owned

\* Later dispatches leave the earlier ones as they are.
LEMMA OwnedLater ==
  ASSUME NEW h \in Seq(Messages), NEW ds \in Seq(Dispatches), NEW d \in Dispatches, Owned(h, ds)
  PROVE  Owned(h, Append(ds, d))
<1>1. PICK es : es = Append(ds, d)
  OBVIOUS
<1>2. Len(es) = Len(ds) + 1 /\ Len(ds) \in Nat /\ \A n \in 1 .. Len(ds) : es[n] = ds[n]
  BY <1>1
<1>3. \A n, id, m : MadeFor(ds, n, id, m) => MadeFor(es, n, id, m)
  BY <1>2 DEF MadeFor
<1> QED BY <1>1, <1>3 DEF Owned

\* The message with the calls asks, and goes on asking while results come in.
LEMMA CurrentAppend ==
  ASSUME NEW h \in Seq(Messages), NEW m \in Messages, NEW tn, NEW rd,
         \/ m.role = "assistant" /\ m.turn = tn /\ m.round = rd
         \/ m.role = "tool" /\ Current(h, tn, rd)
  PROVE  Current(Append(h, m), tn, rd)
<1>1. PICK g : g = Append(h, m)
  OBVIOUS
<1>2. /\ Len(g) = Len(h) + 1 /\ Len(h) \in Nat
      /\ g[Len(h) + 1] = m /\ \A i \in 1 .. Len(h) : g[i] = h[i]
  BY <1>1
<1>3. CASE m.role = "assistant" /\ m.turn = tn /\ m.round = rd
  <2>1. Asks(g, Len(g) + 1, Len(g))
    BY <1>2, <1>3 DEF Asks
  <2> QED BY <1>1, <1>2, <1>3, <2>1 DEF Current
<1>4. CASE m.role = "tool" /\ Current(h, tn, rd)
  <2>1. PICK j \in 1 .. Len(h) :
          Asks(h, Len(h) + 1, j) /\ h[j].turn = tn /\ h[j].round = rd
    BY <1>4 DEF Current
  <2>2. Asks(g, Len(g) + 1, j)
    BY <1>2, <1>4, <2>1 DEF Asks
  <2> QED BY <1>1, <1>2, <2>1, <2>2 DEF Current
<1> QED BY <1>3, <1>4

\* There is no more than one message that a result answers.
LEMMA AskerIs ==
  ASSUME NEW h \in Seq(Messages), NEW k \in 1 .. Len(h), NEW j \in 1 .. k - 1, Asks(h, k, j)
  PROVE  Asker(h, k) = j
<1>1. ASSUME NEW i \in 1 .. k - 1, Asks(h, k, i) PROVE i = j
  <2>1. ~(i < j) /\ ~(j < i)
    BY <1>1 DEF Asks
  <2> QED BY <2>1
<1>2. Asker(h, k) = CHOOSE i \in 1 .. k - 1 : Asks(h, k, i)
  BY DEF Asker, Asks
<1> QED BY <1>1, <1>2

LEMMA OwnStep == TurnInv /\ OwnInv /\ [Next]_vars => OwnInv'
<1> SUFFICES ASSUME TurnInv, OwnInv, [Next]_vars PROVE OwnInv'
  OBVIOUS
<1>0. /\ history \in Seq(Messages) /\ base \in Seq(Messages) /\ todo \in Seq(CallIds)
      /\ dispatched \in Seq(Dispatches)
  BY DEF TurnInv, TypeOK, Dispatches
\* a message that is no result
<1>a. ASSUME NEW m \in Messages, m.role # "tool"
      PROVE  Owned(Append(history, m), dispatched)
  BY <1>0, <1>a, OwnedAppend DEF OwnInv
<1>b. ASSUME UNCHANGED <<history, base, dispatched>>, pc' \notin {"dispatching", "waiting"}
      PROVE  OwnInv'
  BY <1>b DEF OwnInv
<1>c. ASSUME UNCHANGED <<pc, history, base, dispatched, turn, round, todo, awaited>>
      PROVE  OwnInv'
  BY <1>c DEF OwnInv
<1>1. CASE Ask
  <2>1. User \in Messages /\ User.role # "tool"
    BY MessageTypes DEF User
  <2>2. Owned(Append(history, User), dispatched)
    BY <1>a, <2>1
  <2>3. /\ history' = Append(history, User) /\ base' = history'
        /\ dispatched' = dispatched /\ pc' = "calling"
    BY <1>1 DEF Ask, toolVars
  <2> QED BY <2>2, <2>3 DEF OwnInv
<1>2. CASE CallAnswered \/ CallFailed \/ StreamFailed \/ NextRound \/ Publish
  BY <1>2, <1>b DEF CallAnswered, CallFailed, StreamFailed, NextRound, Publish,
                    convVars, toolVars
<1>3. CASE TextDelta \/ \E i \in CallIds : CallDelta(i)
  BY <1>3, <1>c DEF TextDelta, CallDelta, convVars, toolVars
<1>4. CASE Answered \/ Concluded
  <2>1. /\ history' = Append(history, Assistant(<<>>)) /\ base' = base
        /\ dispatched' = dispatched /\ pc' \in {"completed", "failed"} /\ pc = "streaming"
    BY <1>4 DEF Answered, Concluded, convVars, toolVars
  <2>2. <<>> \in Seq(CallIds)
    OBVIOUS
  <2>3. Assistant(<<>>) \in Messages /\ Assistant(<<>>).role # "tool"
    BY <2>1, <2>2, AssistantType DEF TurnInv, Assistant
  <2>4. Owned(Append(history, Assistant(<<>>)), dispatched)
    BY <1>a, <2>3
  <2> QED BY <2>1, <2>4 DEF OwnInv
<1>5. CASE CallsFound
  <2>1. PICK cs \in Orders : history' = Append(history, Assistant(cs))
    BY <1>5 DEF CallsFound
  <2>2. /\ pc = "streaming" /\ pc' = "dispatching"
        /\ UNCHANGED <<base, turn, round, dispatched>>
    BY <1>5 DEF CallsFound, convVars, roundVars
  <2>3. Assistant(cs) \in Messages
    BY <2>1, <2>2, AssistantType, OrdersAreSequences DEF TurnInv
  <2>4. PICK m \in Messages : m = Assistant(cs)
    BY <2>3
  <2>5. m.role = "assistant" /\ m.turn = turn /\ m.round = round
    BY <2>4 DEF Assistant
  <2>6. Owned(Append(history, m), dispatched) /\ Current(Append(history, m), turn, round)
    BY <1>0, <1>a, <2>5, CurrentAppend
  <2> QED BY <2>1, <2>2, <2>4, <2>6 DEF OwnInv
\* a result, or the error in its place
<1>6. ASSUME pc \in {"dispatching", "waiting"}, todo # <<>>, NEW n \in Nat,
             history' = Append(history, Result(Head(todo), n)), pc' = "dispatching",
             UNCHANGED <<base, turn, round, dispatched>>,
             n # 0 => MadeFor(dispatched, n, Head(todo), [turn |-> turn, round |-> round])
      PROVE  OwnInv'
  <2>1. Head(todo) \in CallIds
    BY <1>0, <1>6
  <2>2. PICK m \in Messages : m = Result(Head(todo), n)
    BY <2>1, MessageTypes
  <2>3. m.role = "tool" /\ m.id = Head(todo) /\ m.from = n
    BY <2>2 DEF Result
  <2>4. Current(history, turn, round)
    BY <1>6 DEF OwnInv
  <2>5. PICK j \in 1 .. Len(history) :
          /\ Asks(history, Len(history) + 1, j)
          /\ history[j].turn = turn /\ history[j].round = round
    BY <2>4 DEF Current
  <2>6. n # 0 => MadeFor(dispatched, m.from, m.id, history[j])
    BY <1>6, <2>3, <2>5 DEF MadeFor
  <2>7. Owned(Append(history, m), dispatched)
    BY <1>0, <2>3, <2>5, <2>6, OwnedAppend DEF OwnInv
  <2>8. Current(Append(history, m), turn, round)
    BY <1>0, <2>3, <2>4, CurrentAppend
  <2> QED BY <1>6, <2>2, <2>7, <2>8 DEF OwnInv
<1>7. CASE Skip
  BY <1>6, <1>7 DEF Skip, convVars, roundVars
<1>8. CASE Dispatch
  <2>1. PICK d : d = [id |-> Head(todo), turn |-> turn, round |-> round]
    OBVIOUS
  <2>2. /\ pc = "dispatching" /\ todo # <<>> /\ dispatched' = Append(dispatched, d)
        /\ awaited' = Len(dispatched) + 1 /\ pc' = "waiting"
        /\ UNCHANGED <<history, base, turn, round, todo>>
    BY <1>8, <2>1 DEF Dispatch, convVars, roundVars
  <2>3. d \in Dispatches
    BY <1>0, <2>1, <2>2 DEF Dispatches, TurnInv
  <2>4. Owned(history, Append(dispatched, d)) /\ Owned(base, Append(dispatched, d))
    BY <1>0, <2>3, OwnedLater DEF OwnInv
  <2>5. /\ Len(dispatched') = Len(dispatched) + 1 /\ Len(dispatched) \in Nat
        /\ dispatched'[Len(dispatched) + 1] = d
    BY <1>0, <2>2, <2>3
  <2>6. d.id = Head(todo) /\ d.turn = turn /\ d.round = round
    BY <2>1
  <2>7. Current(history, turn, round)
    BY <2>2 DEF OwnInv
  <2> QED BY <2>2, <2>4, <2>5, <2>6, <2>7 DEF OwnInv
<1>9. CASE ToolTimedOut
  BY <1>6, <1>9 DEF ToolTimedOut, convVars, roundVars, TurnInv
<1>10. ASSUME NEW n \in live, ToolEnds(n) PROVE OwnInv'
  <2>1. CASE n = awaited
    <3>1. pc = "waiting" /\ todo # <<>> /\ n \in Nat
      BY <2>1, Awaited
    <3>2. MadeFor(dispatched, n, Head(todo), [turn |-> turn, round |-> round])
      BY <2>1, <3>1 DEF OwnInv, MadeFor
    <3> QED BY <1>6, <1>10, <2>1, <3>1, <3>2 DEF ToolEnds, convVars, roundVars
  <2>2. CASE n # awaited
    BY <1>10, <1>c, <2>2 DEF ToolEnds, convVars, roundVars
  <2> QED BY <2>1, <2>2
<1>11. CASE Stopped
  BY <1>11 DEF Stopped, OwnInv
<1>12. CASE UNCHANGED vars
  BY <1>12, <1>c DEF vars, convVars, roundVars, toolVars
<1> QED BY <1>1, <1>2, <1>3, <1>4, <1>5, <1>7, <1>8, <1>9, <1>10, <1>11, <1>12
        DEF Next, TurnStep, StreamStep

\* A result in the history is the one of the dispatch made for its call, in its
\* turn and its round: a tool that was given up, or whose turn was stopped, may
\* end later, but its result is taken for no other call, whatever ids recur.
THEOREM ResultsAreOfTheirCallsAlways == Spec => []ResultsAreOfTheirCalls
<1>1. TurnInv /\ OwnInv /\ [Next]_vars => OwnInv'
  BY OwnStep
<1>2. Init => OwnInv
  <2> SUFFICES ASSUME Init PROVE OwnInv
    OBVIOUS
  <2>1. \A k \in 1 .. Len(<<System>>) : <<System>>[k].role # "tool"
    BY DEF System
  <2>2. Owned(<<System>>, dispatched)
    BY <2>1 DEF Owned
  <2> QED BY <2>2 DEF Init, OwnInv
<1>3. TurnInv /\ OwnInv => ResultsAreOfTheirCalls
  <2> SUFFICES ASSUME TurnInv, OwnInv,
                      NEW k \in DOMAIN history, history[k].role = "tool", history[k].from # 0
               PROVE  LET asker == history[Asker(history, k)] IN
                      dispatched[history[k].from] =
                        [id |-> history[k].id, turn |-> asker.turn, round |-> asker.round]
    BY DEF ResultsAreOfTheirCalls
  <2>1. history \in Seq(Messages) /\ k \in 1 .. Len(history) /\ dispatched \in Seq(Dispatches)
    BY DEF TurnInv, TypeOK, Dispatches
  <2>2. PICK j \in 1 .. k - 1 :
          Asks(history, k, j) /\ MadeFor(dispatched, history[k].from, history[k].id, history[j])
    BY <2>1 DEF OwnInv, Owned
  <2>3. Asker(history, k) = j
    BY <2>1, <2>2, AskerIs
  <2>4. PICK d \in Dispatches : d = dispatched[history[k].from]
    BY <2>1, <2>2 DEF MadeFor
  <2>5. d = [id |-> d.id, turn |-> d.turn, round |-> d.round]
    BY DEF Dispatches
  <2> QED BY <2>2, <2>3, <2>4, <2>5 DEF MadeFor
<1> QED BY <1>1, <1>2, <1>3, TurnInvariance, PTL DEF Spec
=============================================================================
