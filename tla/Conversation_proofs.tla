-------------------------- MODULE Conversation_proofs --------------------------
(***************************************************************************)
(* Proofs about Conversation, for any number of messages, connections,     *)
(* reminder actions and idle hours: tasks and messages belong together and *)
(* answers follow their questions; with one connection at a time one task  *)
(* runs; with distinct messages no task is resumed that was answered; and  *)
(* with both nothing the user was shown is forgotten.                      *)
(***************************************************************************)
EXTENDS Conversation, FiniteSetTheorems, TLAPS

-----------------------------------------------------------------------------
(* The inductive invariants.                                               *)

\* Some user message n is in h.
Asks(h, n) == \E i \in 1 .. Len(h) : h[i].role = "user" /\ h[i].n = n

\* Every answer to a user message in h comes after the message.
InOrder(h) ==
  \A i \in 1 .. Len(h) : h[i].role = "assistant" /\ h[i].n > 0 =>
    \E j \in 1 .. i - 1 : h[j].role = "user" /\ h[j].n = h[i].n

\* Tasks are numbered as they are made; each is made for a message of its own.
Numbered == \E k \in 0 .. MaxMessages : Born = 1 .. k

Started ==
  /\ \A t \in Born : \E n \in 1 .. sent : start[t] = User(n)
  /\ \A s, t \in Born : start[s].n = start[t].n => s = t

\* No two handlers prepare the same message, and none prepares that of a task.
Prepared ==
  \A c \in Conns : pc[c] = "preparing" =>
    /\ \E n \in 1 .. sent : asked[c] = User(n)
    /\ \A t \in Born : start[t].n # asked[c].n
    /\ \A d \in Conns : pc[d] = "preparing" /\ asked[d].n = asked[c].n => c = d

\* What the other steps of a handler are about; and only what was made is stopped.
Engaged ==
  /\ current # 0 => current \in Born
  /\ stopped \subseteq Born
  /\ \A c \in Conns :
       /\ pc[c] \in {"spawning", "handing", "stopping", "logging"} => job[c] \in Born
       /\ pc[c] = "acting" => asked[c].n <= 0

TaskInv == TypeOK /\ Numbered /\ Started /\ Prepared /\ Engaged

\* The client has what it sent, a task what it was started with, and every
\* history is in order: stored, in a handler, in a task, and to be adopted.
StoredInOrder == InOrder(stored) /\ \A n \in 1 .. sent : Asks(stored, n)

HistoriesInOrder == \A c \in Conns : InOrder(hist[c])

WorkInOrder ==
  \A t \in Tasks : InOrder(work[t]) /\ (t \in Born => Asks(work[t], start[t].n))

FinalInOrder == \A t \in Tasks : final[t] # <<>> => InOrder(final[t][1])

OrderInv == StoredInOrder /\ HistoriesInOrder /\ WorkInOrder /\ FinalInOrder

-----------------------------------------------------------------------------
(* Messages and histories.                                                 *)

LEMMA UserTypes ==
  ASSUME NEW n \in Tasks
  PROVE  User(n) \in Messages /\ User(n).role = "user" /\ User(n).n = n
BY BoundsAssumption DEF User, Messages, Texts, Tasks

LEMMA ActionTypes ==
  ASSUME NEW k \in 1 .. MaxActions
  PROVE  Action(k) \in Messages /\ Action(k).role = "user" /\ Action(k).n <= 0
BY BoundsAssumption DEF Action, Messages

LEMMA NoMessageTypes == NoMessage \in Messages /\ NoMessage.n = 0
BY BoundsAssumption DEF NoMessage, Messages

LEMMA ReplyTypes ==
  ASSUME NEW m \in Messages, NEW a \in {Answer(m), Fallback(m), Partial(m)}
  PROVE  a \in Messages /\ a.role = "assistant" /\ a.n = m.n
BY DEF Answer, Fallback, Partial, Messages

LEMMA OutputIsReply ==
  ASSUME NEW t \in Tasks
  PROVE  Output(t) \in {Answer(start[t]), Fallback(start[t]), Partial(start[t])}
BY DEF Output

LEMMA MessageNumber ==
  ASSUME NEW m \in Messages
  PROVE  m.n \in Int
BY BoundsAssumption DEF Messages

LEMMA AsksAppend ==
  ASSUME NEW h \in Seq(Messages), NEW m \in Messages
  PROVE  /\ \A n : Asks(h, n) => Asks(Append(h, m), n)
         /\ m.role = "user" => Asks(Append(h, m), m.n)
<1>1. PICK g : g = Append(h, m)
  OBVIOUS
<1>2. /\ Len(g) = Len(h) + 1 /\ Len(h) \in Nat
      /\ g[Len(h) + 1] = m /\ \A i \in 1 .. Len(h) : g[i] = h[i]
  BY <1>1
<1>3. ASSUME NEW n, Asks(h, n) PROVE Asks(g, n)
  BY <1>2, <1>3 DEF Asks
<1>4. m.role = "user" => Asks(g, m.n)
  BY <1>2 DEF Asks
<1> QED BY <1>1, <1>3, <1>4

\* A message may be added that is no answer, or whose question is there.
LEMMA InOrderAppend ==
  ASSUME NEW h \in Seq(Messages), NEW m \in Messages, InOrder(h),
         m.role = "assistant" /\ m.n > 0 => Asks(h, m.n)
  PROVE  InOrder(Append(h, m))
<1>1. PICK g : g = Append(h, m)
  OBVIOUS
<1>2. /\ Len(g) = Len(h) + 1 /\ Len(h) \in Nat
      /\ g[Len(h) + 1] = m /\ \A i \in 1 .. Len(h) : g[i] = h[i]
  BY <1>1
<1>3. ASSUME NEW i \in 1 .. Len(g), g[i].role = "assistant", g[i].n > 0
      PROVE  \E j \in 1 .. i - 1 : g[j].role = "user" /\ g[j].n = g[i].n
  <2>1. CASE i \in 1 .. Len(h)
    BY <1>2, <1>3, <2>1 DEF InOrder
  <2>2. CASE i = Len(h) + 1
    BY <1>2, <1>3, <2>2 DEF Asks
  <2> QED BY <1>2, <2>1, <2>2
<1> QED BY <1>1, <1>3 DEF InOrder

LEMMA EmptyInOrder == InOrder(<<>>)
BY DEF InOrder

\* What a handler adopts is a history, in order if those it chooses from are.
LEMMA AdoptedIsHistory ==
  ASSUME NEW t \in 0 .. MaxMessages, NEW h \in Seq(Messages), TypeOK
  PROVE  /\ Adopted(t, h) \in Seq(Messages)
         /\ InOrder(h) /\ FinalInOrder => InOrder(Adopted(t, h))
<1>1. CASE t # 0 /\ ~running[t] /\ final[t] # <<>>
  <2>1. t \in Tasks
    BY <1>1, BoundsAssumption DEF Tasks
  <2>2. final[t] \in Seq(Seq(Messages)) /\ final[t][1] \in Seq(Messages)
    BY <1>1, <2>1 DEF TypeOK
  <2>3. Adopted(t, h) = final[t][1]
    BY <1>1 DEF Adopted
  <2>4. FinalInOrder => InOrder(final[t][1])
    BY <1>1, <2>1 DEF FinalInOrder
  <2> QED BY <2>2, <2>3, <2>4
<1>2. CASE ~(t # 0 /\ ~running[t] /\ final[t] # <<>>)
  BY <1>2 DEF Adopted
<1> QED BY <1>1, <1>2

LEMMA TakeTypes ==
  ASSUME NEW t \in 0 .. MaxMessages, TypeOK, Take(t)
  PROVE  /\ final' \in [Tasks -> Seq(Seq(Messages))]
         /\ \A s \in Tasks : final'[s] = <<>> \/ final'[s] = final[s]
<1>1. <<>> \in Seq(Seq(Messages))
  OBVIOUS
<1> QED BY <1>1 DEF Take, TypeOK

\* The next task is new, and there is room for it.
LEMMA NextTaskIsNew ==
  ASSUME TaskInv, NEW c \in Conns, pc[c] = "preparing"
  PROVE  /\ Cardinality(Born) + 1 \in Tasks \ Born
         /\ Born \cup {Cardinality(Born) + 1} = 1 .. Cardinality(Born) + 1
<1>1. PICK k \in 0 .. MaxMessages : Born = 1 .. k
  BY DEF TaskInv, Numbered
<1>2. Cardinality(Born) = k
  BY <1>1, FS_Interval, BoundsAssumption
<1>3. PICK n \in 1 .. sent : asked[c] = User(n)
  BY DEF TaskInv, Prepared
<1>4. sent \in 0 .. MaxMessages /\ n \in Tasks /\ asked[c].n = n
  BY <1>3, UserTypes, BoundsAssumption DEF TaskInv, TypeOK, Tasks
<1> DEFINE f == [t \in Born |-> start[t].n]
           T == (1 .. sent) \ {n}
<1>5. ASSUME NEW t \in Born PROVE start[t].n \in T
  <2>1. PICK m \in 1 .. sent : start[t] = User(m)
    BY <1>5 DEF TaskInv, Started
  <2>2. m \in Tasks
    BY <1>4, <2>1, BoundsAssumption DEF Tasks
  <2>3. start[t].n = m
    BY <2>1, <2>2, UserTypes
  <2>4. start[t].n # asked[c].n
    BY <1>5 DEF TaskInv, Prepared
  <2> QED BY <1>4, <2>1, <2>3, <2>4
<1>6. f \in Injection(Born, T)
  <2>1. f \in [Born -> T]
    BY <1>5
  <2>2. \A s, t \in Born : f[s] = f[t] => s = t
    BY DEF TaskInv, Started
  <2> QED BY <2>1, <2>2 DEF Injection, IsInjective
<1>7. IsFiniteSet(1 .. sent) /\ Cardinality(1 .. sent) = sent
  BY <1>4, FS_Interval
<1>8. IsFiniteSet(T) /\ Cardinality(T) = sent - 1
  BY <1>3, <1>7, FS_RemoveElement
<1>9. k <= sent - 1
  BY <1>2, <1>6, <1>8, FS_Injection
<1> QED BY <1>1, <1>2, <1>4, <1>9, BoundsAssumption DEF Tasks

-----------------------------------------------------------------------------
(* The numbering of tasks and messages.                                    *)

LEMMA Bounds == MaxMessages \in Nat /\ MaxConnects \in Nat /\ MaxActions \in Nat
BY BoundsAssumption

TaskTypes ==
  /\ current \in 0 .. MaxMessages
  /\ phase \in [Tasks -> {"none", "registered", "running", "ending", "answered", "published",
                          "ended", "aborted", "panicked"}]
  /\ start \in [Tasks -> Messages]
  /\ running \in [Tasks -> BOOLEAN]
  /\ handle \in [Tasks -> {"none", "set", "taken"}]
  /\ aborted \subseteq Tasks /\ stopped \subseteq Tasks
  /\ work \in [Tasks -> Seq(Messages)]
  /\ final \in [Tasks -> Seq(Seq(Messages))]

HandlerTypes ==
  /\ pc \in [Conns -> {"gone", "loading", "resuming", "idle", "preparing", "spawning",
                       "handing", "stopping", "logging", "acting"}]
  /\ hist \in [Conns -> Seq(Messages)]
  /\ follow \in [Conns -> 0 .. MaxMessages]
  /\ job \in [Conns -> 0 .. MaxMessages]
  /\ missed \in [Conns -> SUBSET {"done", "stopped"}]
  /\ asked \in [Conns -> Messages]
  /\ \A c \in Conns : pc[c] = "gone" => hist[c] = <<>> /\ follow[c] = 0

ClientTypes ==
  /\ stored \in Seq(Messages)
  /\ sent \in 0 .. MaxMessages /\ fired \in 0 .. MaxActions
  /\ opened \in 0 .. MaxConnects
  /\ answered \subseteq Tasks /\ spent \subseteq Tasks

LEMMA TypesAre == TypeOK <=> TaskTypes /\ HandlerTypes /\ ClientTypes
BY DEF TypeOK, TaskTypes, HandlerTypes, ClientTypes

\* The steps that make no task and receive no message.
LEMMA SameTasks ==
  ASSUME TaskInv, start' = start, sent' = sent, Born' = Born, TypeOK', Engaged',
         \A c \in Conns : pc'[c] = "preparing" => pc[c] = "preparing" /\ asked'[c] = asked[c]
  PROVE  TaskInv'
<1>1. Numbered' /\ Started'
  BY DEF TaskInv, Numbered, Started
<1>2. Prepared'
  BY DEF TaskInv, Prepared
<1> QED BY <1>1, <1>2 DEF TaskInv

\* A task was started with a message that was sent.
LEMMA StartedByUser ==
  ASSUME TaskInv, NEW t \in Born
  PROVE  /\ start[t].n \in 1 .. sent /\ start[t].n \in Tasks
         /\ start[t] = User(start[t].n) /\ start[t].role = "user"
<1>1. PICK n \in 1 .. sent : start[t] = User(n)
  BY DEF TaskInv, Started
<1>2. n \in Tasks
  BY <1>1, BoundsAssumption DEF TaskInv, TypeOK, Tasks
<1>3. User(n).n = n /\ User(n).role = "user"
  BY <1>2, UserTypes
<1> QED BY <1>1, <1>2, <1>3

LEMMA ConnectTasks ==
  ASSUME NEW c \in Conns, TaskInv, Connect(c)
  PROVE  TaskInv'
<1>1. Born' = Born
  BY DEF TaskInv, TypeOK, Engaged, Born, Tasks, Connect, Goto, taskVars
<1>2. TypeOK'
  <2>1. TaskTypes'
    BY TypesAre, Bounds DEF TaskInv, TaskTypes, Connect, Goto, taskVars
  <2>2. HandlerTypes'
    BY TypesAre, Bounds DEF TaskInv, HandlerTypes, Connect, Goto, taskVars
  <2>3. ClientTypes'
    BY TypesAre, Bounds DEF TaskInv, ClientTypes, Connect, Goto, taskVars
  <2> QED BY <2>1, <2>2, <2>3 DEF TypeOK, TaskTypes, HandlerTypes, ClientTypes
<1>3. Engaged'
  BY <1>1 DEF TaskInv, TypeOK, Engaged, Connect, Goto, taskVars
<1>4. \A d \in Conns : pc'[d] = "preparing" => pc[d] = "preparing" /\ asked'[d] = asked[d]
  BY DEF TaskInv, TypeOK, Connect, Goto, taskVars
<1> QED BY <1>1, <1>2, <1>3, <1>4, SameTasks DEF Connect, taskVars

LEMMA LoadHistoryTasks ==
  ASSUME NEW c \in Conns, TaskInv, LoadHistory(c)
  PROVE  TaskInv'
<1>1. Born' = Born
  BY DEF TaskInv, TypeOK, Engaged, Born, Tasks, LoadHistory, Goto, taskVars, userVars
<1>2. TypeOK'
  <2>1. TaskTypes'
    BY TypesAre, Bounds DEF TaskInv, TaskTypes, LoadHistory, Goto, taskVars, userVars
  <2>2. HandlerTypes'
    <3>1. HandlerTypes /\ current \in 0 .. MaxMessages /\ stored \in Seq(Messages)
      BY TypesAre DEF TaskInv, TaskTypes, ClientTypes
    <3>2. pc[c] = "loading"
      BY DEF LoadHistory
    <3>3. CASE Resumable
      <4>1. /\ pc' = [pc EXCEPT ![c] = "resuming"] /\ hist' = [hist EXCEPT ![c] = stored]
            /\ follow' = [follow EXCEPT ![c] = current] /\ job' = [job EXCEPT ![c] = current]
            /\ missed' = [missed EXCEPT ![c] = Split(current)] /\ asked' = asked
        BY <3>3 DEF LoadHistory, Goto
      <4>2. Split(current) \in SUBSET {"done", "stopped"}
        BY DEF Split
      <4>3. missed' \in [Conns -> SUBSET {"done", "stopped"}]
        BY <3>1, <4>1, <4>2 DEF HandlerTypes
      <4>4. \A d \in Conns : pc'[d] = "gone" => hist'[d] = <<>> /\ follow'[d] = 0
        BY <3>1, <3>2, <4>1 DEF HandlerTypes
      <4> QED BY <3>1, <4>1, <4>3, <4>4 DEF HandlerTypes
    <3>4. CASE ~Resumable
      <4>1. /\ pc' = [pc EXCEPT ![c] = "idle"] /\ hist' = [hist EXCEPT ![c] = stored]
            /\ follow' = [follow EXCEPT ![c] = 0] /\ job' = job /\ missed' = missed
            /\ asked' = asked
        BY <3>4 DEF LoadHistory, Goto
      <4>2. hist' \in [Conns -> Seq(Messages)] /\ follow' \in [Conns -> 0 .. MaxMessages]
        BY <3>1, <4>1, Bounds DEF HandlerTypes
      <4>3. \A d \in Conns : pc'[d] = "gone" => hist'[d] = <<>> /\ follow'[d] = 0
        BY <3>1, <3>2, <4>1 DEF HandlerTypes
      <4> QED BY <3>1, <4>1, <4>2, <4>3 DEF HandlerTypes
    <3> QED BY <3>3, <3>4
  <2>3. ClientTypes'
    BY TypesAre, Bounds DEF TaskInv, ClientTypes, LoadHistory, Goto, taskVars, userVars
  <2> QED BY <2>1, <2>2, <2>3 DEF TypeOK, TaskTypes, HandlerTypes, ClientTypes
<1>3. Engaged'
  BY <1>1 DEF TaskInv, TypeOK, Engaged, LoadHistory, Goto, taskVars, userVars
<1>4. \A d \in Conns : pc'[d] = "preparing" => pc[d] = "preparing" /\ asked'[d] = asked[d]
  BY DEF TaskInv, TypeOK, LoadHistory, Goto, taskVars, userVars
<1> QED BY <1>1, <1>2, <1>3, <1>4, SameTasks DEF LoadHistory, taskVars, userVars

LEMMA ResumeTasks ==
  ASSUME NEW c \in Conns, TaskInv, Resume(c)
  PROVE  TaskInv'
<1>0. /\ Adopted(job[c], hist[c]) \in Seq(Messages)
      /\ final' \in [Tasks -> Seq(Seq(Messages))]
  BY AdoptedIsHistory, TakeTypes DEF TaskInv, TypeOK, Resume
<1>1. Born' = Born
  BY <1>0 DEF TaskInv, TypeOK, Engaged, Born, Tasks, Resume, Goto, userVars
<1>2. TypeOK'
  <2>1. TaskTypes'
    BY TypesAre, <1>0, Bounds DEF TaskInv, TaskTypes, Resume, Goto, userVars
  <2>2. HandlerTypes'
    BY TypesAre, <1>0, Bounds DEF TaskInv, HandlerTypes, Resume, Goto, userVars
  <2>3. ClientTypes'
    BY TypesAre, <1>0, Bounds DEF TaskInv, ClientTypes, Resume, Goto, userVars
  <2> QED BY <2>1, <2>2, <2>3 DEF TypeOK, TaskTypes, HandlerTypes, ClientTypes
<1>3. Engaged'
  BY <1>1, <1>0 DEF TaskInv, TypeOK, Engaged, Resume, Goto, userVars
<1>4. \A d \in Conns : pc'[d] = "preparing" => pc[d] = "preparing" /\ asked'[d] = asked[d]
  BY DEF TaskInv, TypeOK, Resume, Goto, userVars
<1> QED BY <1>1, <1>2, <1>3, <1>4, SameTasks DEF Resume, userVars

LEMMA DisconnectTasks ==
  ASSUME NEW c \in Conns, TaskInv, Disconnect(c)
  PROVE  TaskInv'
<1>0. stored' = stored /\ sent' = sent /\ answered' = answered /\ opened' = opened /\ fired' = fired
  BY DEF Disconnect
<1>a. spent' \in {spent, spent \cup {follow[c]}} /\ (spent' # spent => follow[c] \in Tasks)
  BY BoundsAssumption DEF TaskInv, TypeOK, Disconnect, HandedOut, Tasks
<1>1. Born' = Born
  BY <1>0 DEF TaskInv, TypeOK, Engaged, Born, Tasks, Disconnect, Goto, taskVars
<1>2. TypeOK'
  <2>1. TaskTypes'
    BY TypesAre, <1>0, NoMessageTypes, <1>a, Bounds DEF TaskInv, TaskTypes, Disconnect, Goto,
       taskVars
  <2>2. HandlerTypes'
    BY TypesAre, <1>0, NoMessageTypes, <1>a, Bounds DEF TaskInv, HandlerTypes, Disconnect,
       Goto, taskVars
  <2>3. ClientTypes'
    BY TypesAre, <1>0, NoMessageTypes, <1>a, Bounds DEF TaskInv, ClientTypes, Disconnect,
       Goto, taskVars
  <2> QED BY <2>1, <2>2, <2>3 DEF TypeOK, TaskTypes, HandlerTypes, ClientTypes
<1>3. Engaged'
  BY <1>1, <1>0, NoMessageTypes DEF TaskInv, TypeOK, Engaged, Disconnect, Goto, taskVars
<1>4. \A d \in Conns : pc'[d] = "preparing" => pc[d] = "preparing" /\ asked'[d] = asked[d]
  BY DEF TaskInv, TypeOK, Disconnect, Goto, taskVars
<1> QED BY <1>1, <1>2, <1>3, <1>4, SameTasks DEF Disconnect, taskVars

LEMMA RefuseTasks ==
  ASSUME NEW c \in Conns, TaskInv, Refuse(c)
  PROVE  TaskInv'
<1>1. Born' = Born
  BY DEF TaskInv, TypeOK, Engaged, Born, Tasks, Refuse, Goto, taskVars, userVars
<1>2. TypeOK'
  <2>1. TaskTypes'
    BY TypesAre, NoMessageTypes, Bounds DEF TaskInv, TaskTypes, Refuse, Goto, taskVars,
       userVars
  <2>2. HandlerTypes'
    BY TypesAre, NoMessageTypes, Bounds DEF TaskInv, HandlerTypes, Refuse, Goto, taskVars,
       userVars
  <2>3. ClientTypes'
    BY TypesAre, NoMessageTypes, Bounds DEF TaskInv, ClientTypes, Refuse, Goto, taskVars,
       userVars
  <2> QED BY <2>1, <2>2, <2>3 DEF TypeOK, TaskTypes, HandlerTypes, ClientTypes
<1>3. Engaged'
  BY <1>1, NoMessageTypes DEF TaskInv, TypeOK, Engaged, Refuse, Goto, taskVars, userVars
<1>4. \A d \in Conns : pc'[d] = "preparing" => pc[d] = "preparing" /\ asked'[d] = asked[d]
  BY DEF TaskInv, TypeOK, Refuse, Goto, taskVars, userVars
<1> QED BY <1>1, <1>2, <1>3, <1>4, SameTasks DEF Refuse, taskVars, userVars

LEMMA SpawnTasks ==
  ASSUME NEW c \in Conns, TaskInv, Spawn(c)
  PROVE  TaskInv'
<1>1. Born' = Born
  BY DEF TaskInv, TypeOK, Engaged, Born, Tasks, Spawn, Goto, userVars
<1>2. TypeOK'
  <2>1. TaskTypes'
    BY TypesAre, Bounds DEF TaskInv, TaskTypes, Spawn, Goto, userVars
  <2>2. HandlerTypes'
    BY TypesAre, Bounds DEF TaskInv, HandlerTypes, Spawn, Goto, userVars
  <2>3. ClientTypes'
    BY TypesAre, Bounds DEF TaskInv, ClientTypes, Spawn, Goto, userVars
  <2> QED BY <2>1, <2>2, <2>3 DEF TypeOK, TaskTypes, HandlerTypes, ClientTypes
<1>3. Engaged'
  BY <1>1 DEF TaskInv, TypeOK, Engaged, Spawn, Goto, userVars
<1>4. \A d \in Conns : pc'[d] = "preparing" => pc[d] = "preparing" /\ asked'[d] = asked[d]
  BY DEF TaskInv, TypeOK, Spawn, Goto, userVars
<1> QED BY <1>1, <1>2, <1>3, <1>4, SameTasks DEF Spawn, userVars

LEMMA SetHandleTasks ==
  ASSUME NEW c \in Conns, TaskInv, SetHandle(c)
  PROVE  TaskInv'
<1>1. Born' = Born
  BY DEF TaskInv, TypeOK, Engaged, Born, Tasks, SetHandle, Goto, userVars
<1>2. TypeOK'
  <2>1. TaskTypes'
    BY TypesAre, Bounds DEF TaskInv, TaskTypes, SetHandle, Goto, userVars
  <2>2. HandlerTypes'
    BY TypesAre, Bounds DEF TaskInv, HandlerTypes, SetHandle, Goto, userVars
  <2>3. ClientTypes'
    BY TypesAre, Bounds DEF TaskInv, ClientTypes, SetHandle, Goto, userVars
  <2> QED BY <2>1, <2>2, <2>3 DEF TypeOK, TaskTypes, HandlerTypes, ClientTypes
<1>3. Engaged'
  BY <1>1 DEF TaskInv, TypeOK, Engaged, SetHandle, Goto, userVars
<1>4. \A d \in Conns : pc'[d] = "preparing" => pc[d] = "preparing" /\ asked'[d] = asked[d]
  BY DEF TaskInv, TypeOK, SetHandle, Goto, userVars
<1> QED BY <1>1, <1>2, <1>3, <1>4, SameTasks DEF SetHandle, userVars

LEMMA LogStopTasks ==
  ASSUME NEW c \in Conns, TaskInv, LogStop(c)
  PROVE  TaskInv'
<1>1. Born' = Born
  BY DEF TaskInv, TypeOK, Engaged, Born, Tasks, LogStop, Goto, taskVars, userVars
<1>2. TypeOK'
  <2>1. TaskTypes'
    BY TypesAre, Bounds DEF TaskInv, TaskTypes, LogStop, Goto, taskVars, userVars
  <2>2. HandlerTypes'
    BY TypesAre, Bounds DEF TaskInv, HandlerTypes, LogStop, Goto, taskVars, userVars
  <2>3. ClientTypes'
    BY TypesAre, Bounds DEF TaskInv, ClientTypes, LogStop, Goto, taskVars, userVars
  <2> QED BY <2>1, <2>2, <2>3 DEF TypeOK, TaskTypes, HandlerTypes, ClientTypes
<1>3. Engaged'
  BY <1>1 DEF TaskInv, TypeOK, Engaged, LogStop, Goto, taskVars, userVars
<1>4. \A d \in Conns : pc'[d] = "preparing" => pc[d] = "preparing" /\ asked'[d] = asked[d]
  BY DEF TaskInv, TypeOK, LogStop, Goto, taskVars, userVars
<1> QED BY <1>1, <1>2, <1>3, <1>4, SameTasks DEF LogStop, taskVars, userVars

LEMMA StopCheckTasks ==
  ASSUME NEW c \in Conns, TaskInv, StopCheck(c)
  PROVE  TaskInv'
<1>1. Born' = Born
  BY DEF TaskInv, TypeOK, Engaged, Born, Tasks, StopCheck, Goto, taskVars, userVars, Busy
<1>2. TypeOK'
  <2>1. TaskTypes'
    BY TypesAre, Bounds DEF TaskInv, TaskTypes, StopCheck, Goto, taskVars, userVars, Busy
  <2>2. HandlerTypes'
    BY TypesAre, Bounds DEF TaskInv, HandlerTypes, TaskTypes, StopCheck, Goto, taskVars,
       userVars, Busy
  <2>3. ClientTypes'
    BY TypesAre, Bounds DEF TaskInv, ClientTypes, StopCheck, Goto, taskVars, userVars, Busy
  <2> QED BY <2>1, <2>2, <2>3 DEF TypeOK, TaskTypes, HandlerTypes, ClientTypes
<1>3. Engaged'
  BY <1>1 DEF TaskInv, TypeOK, Engaged, StopCheck, Goto, taskVars, userVars, Busy
<1>4. \A d \in Conns : pc'[d] = "preparing" => pc[d] = "preparing" /\ asked'[d] = asked[d]
  BY DEF TaskInv, TypeOK, StopCheck, Goto, taskVars, userVars, Busy
<1> QED BY <1>1, <1>2, <1>3, <1>4, SameTasks DEF StopCheck, taskVars, userVars, Busy

LEMMA StopActTasks ==
  ASSUME NEW c \in Conns, TaskInv, StopAct(c)
  PROVE  TaskInv'
<1>0. job[c] \in Tasks
  BY DEF TaskInv, Engaged, Born, StopAct
<1>a. \/ /\ handle' = [handle EXCEPT ![job[c]] = "taken"]
         /\ aborted' = aborted \cup {job[c]}
      \/ handle' = handle /\ aborted' = aborted
  BY DEF StopAct
<1>1. Born' = Born
  BY <1>0 DEF TaskInv, TypeOK, Engaged, Born, Tasks, StopAct, Goto, userVars
<1>2. TypeOK'
  <2>1. TaskTypes'
    BY TypesAre, <1>0, <1>a, Bounds DEF TaskInv, TaskTypes, StopAct, Goto, userVars
  <2>2. HandlerTypes'
    <3>1. \A d \in Conns : missed[d] \ {"stopped"} \in SUBSET {"done", "stopped"}
      BY TypesAre DEF TaskInv, HandlerTypes
    <3>2. missed' \in [Conns -> SUBSET {"done", "stopped"}]
      BY <3>1, TypesAre DEF TaskInv, HandlerTypes, StopAct
    <3> QED BY TypesAre, <3>2, Bounds DEF TaskInv, HandlerTypes, StopAct, Goto, userVars
  <2>3. ClientTypes'
    BY TypesAre, <1>0, <1>a, Bounds DEF TaskInv, ClientTypes, StopAct, Goto, userVars
  <2> QED BY <2>1, <2>2, <2>3 DEF TypeOK, TaskTypes, HandlerTypes, ClientTypes
<1>3. Engaged'
  BY <1>1, <1>0 DEF TaskInv, TypeOK, Engaged, StopAct, Goto, userVars
<1>4. \A d \in Conns : pc'[d] = "preparing" => pc[d] = "preparing" /\ asked'[d] = asked[d]
  BY DEF TaskInv, TypeOK, StopAct, Goto, userVars
<1> QED BY <1>1, <1>2, <1>3, <1>4, SameTasks DEF StopAct, userVars

LEMMA TurnEndsTasks ==
  ASSUME NEW t \in Tasks, TaskInv, TurnEnds(t)
  PROVE  TaskInv'
<1>0. Answer(start[t]) \in Messages
  BY ReplyTypes DEF TaskInv, TypeOK
<1>1. Born' = Born
  BY <1>0 DEF TaskInv, TypeOK, Engaged, Born, Tasks, TurnEnds, connVars, userVars
<1>2. TypeOK'
  <2>1. TaskTypes'
    BY TypesAre, <1>0, Bounds DEF TaskInv, TaskTypes, TurnEnds, connVars, userVars
  <2>2. HandlerTypes'
    BY TypesAre, <1>0, Bounds DEF TaskInv, HandlerTypes, TurnEnds, connVars, userVars
  <2>3. ClientTypes'
    BY TypesAre, <1>0, Bounds DEF TaskInv, ClientTypes, TurnEnds, connVars, userVars
  <2> QED BY <2>1, <2>2, <2>3 DEF TypeOK, TaskTypes, HandlerTypes, ClientTypes
<1>3. Engaged'
  BY <1>1, <1>0 DEF TaskInv, TypeOK, Engaged, TurnEnds, connVars, userVars
<1> QED BY <1>1, <1>2, <1>3, SameTasks DEF TurnEnds, connVars, userVars, connVars

LEMMA PublishTasks ==
  ASSUME NEW t \in Tasks, TaskInv, Publish(t)
  PROVE  TaskInv'
<1>1. Born' = Born
  BY DEF TaskInv, TypeOK, Engaged, Born, Tasks, Publish, connVars, userVars
<1>2. TypeOK'
  <2>1. TaskTypes'
    BY TypesAre, Bounds DEF TaskInv, TaskTypes, Publish, connVars, userVars
  <2>2. HandlerTypes'
    BY TypesAre, Bounds DEF TaskInv, HandlerTypes, Publish, connVars, userVars
  <2>3. ClientTypes'
    BY TypesAre, Bounds DEF TaskInv, ClientTypes, Publish, connVars, userVars
  <2> QED BY <2>1, <2>2, <2>3 DEF TypeOK, TaskTypes, HandlerTypes, ClientTypes
<1>3. Engaged'
  BY <1>1 DEF TaskInv, TypeOK, Engaged, Publish, connVars, userVars
<1> QED BY <1>1, <1>2, <1>3, SameTasks DEF Publish, connVars, userVars, connVars

LEMMA LogEndTasks ==
  ASSUME NEW t \in Tasks, TaskInv, LogEnd(t)
  PROVE  TaskInv'
<1>1. Born' = Born
  BY DEF TaskInv, TypeOK, Engaged, Born, Tasks, LogEnd, connVars, userVars
<1>2. TypeOK'
  <2>1. TaskTypes'
    BY TypesAre, Bounds DEF TaskInv, TaskTypes, LogEnd, connVars, userVars
  <2>2. HandlerTypes'
    BY TypesAre, Bounds DEF TaskInv, HandlerTypes, LogEnd, connVars, userVars
  <2>3. ClientTypes'
    BY TypesAre, Bounds DEF TaskInv, ClientTypes, LogEnd, connVars, userVars
  <2> QED BY <2>1, <2>2, <2>3 DEF TypeOK, TaskTypes, HandlerTypes, ClientTypes
<1>3. Engaged'
  BY <1>1 DEF TaskInv, TypeOK, Engaged, LogEnd, connVars, userVars
<1> QED BY <1>1, <1>2, <1>3, SameTasks DEF LogEnd, connVars, userVars, connVars

LEMMA ExitTasks ==
  ASSUME NEW t \in Tasks, TaskInv, Exit(t)
  PROVE  TaskInv'
<1>1. Born' = Born
  BY DEF TaskInv, TypeOK, Engaged, Born, Tasks, Exit, connVars, userVars
<1>2. TypeOK'
  <2>1. TaskTypes'
    BY TypesAre, Bounds DEF TaskInv, TaskTypes, Exit, connVars, userVars
  <2>2. HandlerTypes'
    BY TypesAre, Bounds DEF TaskInv, HandlerTypes, Exit, connVars, userVars
  <2>3. ClientTypes'
    BY TypesAre, Bounds DEF TaskInv, ClientTypes, Exit, connVars, userVars
  <2> QED BY <2>1, <2>2, <2>3 DEF TypeOK, TaskTypes, HandlerTypes, ClientTypes
<1>3. Engaged'
  BY <1>1 DEF TaskInv, TypeOK, Engaged, Exit, connVars, userVars
<1> QED BY <1>1, <1>2, <1>3, SameTasks DEF Exit, connVars, userVars, connVars

LEMMA DieTasks ==
  ASSUME NEW t \in Tasks, TaskInv, Die(t)
  PROVE  TaskInv'
<1>1. Born' = Born
  BY DEF TaskInv, TypeOK, Engaged, Born, Tasks, Die, connVars, userVars
<1>2. TypeOK'
  <2>1. TaskTypes'
    BY TypesAre, Bounds DEF TaskInv, TaskTypes, Die, connVars, userVars
  <2>2. HandlerTypes'
    BY TypesAre, Bounds DEF TaskInv, HandlerTypes, Die, connVars, userVars
  <2>3. ClientTypes'
    BY TypesAre, Bounds DEF TaskInv, ClientTypes, Die, connVars, userVars
  <2> QED BY <2>1, <2>2, <2>3 DEF TypeOK, TaskTypes, HandlerTypes, ClientTypes
<1>3. Engaged'
  BY <1>1 DEF TaskInv, TypeOK, Engaged, Die, connVars, userVars
<1> QED BY <1>1, <1>2, <1>3, SameTasks DEF Die, connVars, userVars, connVars

LEMMA ExpireTasks ==
  ASSUME TaskInv, Expire
  PROVE  TaskInv'
<1>1. Born' = Born
  BY DEF TaskInv, TypeOK, Engaged, Born, Tasks, Expire, connVars, userVars
<1>2. TypeOK'
  <2>1. TaskTypes'
    BY TypesAre, Bounds DEF TaskInv, TaskTypes, Expire, connVars, userVars
  <2>2. HandlerTypes'
    BY TypesAre, Bounds DEF TaskInv, HandlerTypes, Expire, connVars, userVars
  <2>3. ClientTypes'
    BY TypesAre, Bounds DEF TaskInv, ClientTypes, Expire, connVars, userVars
  <2> QED BY <2>1, <2>2, <2>3 DEF TypeOK, TaskTypes, HandlerTypes, ClientTypes
<1>3. Engaged'
  BY <1>1 DEF TaskInv, TypeOK, Engaged, Expire, connVars, userVars
<1> QED BY <1>1, <1>2, <1>3, SameTasks DEF Expire, connVars, userVars, connVars

LEMMA DeliverTasks ==
  ASSUME NEW c \in Conns, TaskInv, Deliver(c)
  PROVE  TaskInv'
<1>a. follow[c] \in Tasks /\ follow[c] \in Born
  BY Bounds DEF TaskInv, TypeOK, Born, Tasks, Deliver
<1>b. start[follow[c]].n \in Tasks /\ start[follow[c]] \in Messages
  BY <1>a, StartedByUser DEF TaskInv, TypeOK
<1>c. Partial(start[follow[c]]) \in Messages /\ Output(follow[c]) \in Messages
  BY <1>a, <1>b, OutputIsReply, ReplyTypes
<1>0. follow[c] \in Born /\ start[follow[c]].n \in Tasks
  BY <1>a, <1>b
<1>1. Born' = Born
  BY <1>0 DEF TaskInv, TypeOK, Engaged, Born, Tasks, Deliver, Goto, taskVars
<1>2. TypeOK'
  <2>1. TaskTypes'
    BY TypesAre, <1>0, <1>c, Bounds DEF TaskInv, TaskTypes, Deliver, Goto, taskVars
  <2>2. HandlerTypes'
    BY TypesAre, <1>0, <1>c, Bounds DEF TaskInv, HandlerTypes, Deliver, Goto, taskVars
  <2>3. ClientTypes'
    BY TypesAre, <1>0, <1>c, Bounds DEF TaskInv, ClientTypes, Deliver, Goto, taskVars
  <2> QED BY <2>1, <2>2, <2>3 DEF TypeOK, TaskTypes, HandlerTypes, ClientTypes
<1>3. Engaged'
  BY <1>1, <1>0 DEF TaskInv, TypeOK, Engaged, Deliver, Goto, taskVars
<1>4. \A d \in Conns : pc'[d] = "preparing" => pc[d] = "preparing" /\ asked'[d] = asked[d]
  BY DEF TaskInv, TypeOK, Deliver, Goto, taskVars
<1> QED BY <1>1, <1>2, <1>3, <1>4, SameTasks DEF Deliver, taskVars

LEMMA DeliverStoppedTasks ==
  ASSUME NEW c \in Conns, TaskInv, DeliverStopped(c)
  PROVE  TaskInv'
<1>a. follow[c] \in Tasks /\ follow[c] \in Born
  BY Bounds DEF TaskInv, TypeOK, Tasks, Engaged, DeliverStopped
<1>b. start[follow[c]].n \in Tasks /\ start[follow[c]] \in Messages
  BY <1>a, StartedByUser DEF TaskInv, TypeOK
<1>c. Partial(start[follow[c]]) \in Messages /\ Output(follow[c]) \in Messages
  BY <1>a, <1>b, OutputIsReply, ReplyTypes
<1>0. follow[c] \in Born /\ start[follow[c]].n \in Tasks
  BY <1>a, <1>b
<1>1. Born' = Born
  BY <1>0 DEF TaskInv, TypeOK, Engaged, Born, Tasks, DeliverStopped, Goto, taskVars
<1>2. TypeOK'
  <2>1. TaskTypes'
    BY TypesAre, <1>0, <1>c, Bounds DEF TaskInv, TaskTypes, DeliverStopped, Goto, taskVars
  <2>2. HandlerTypes'
    BY TypesAre, <1>0, <1>c, Bounds DEF TaskInv, HandlerTypes, DeliverStopped, Goto, taskVars
  <2>3. ClientTypes'
    BY TypesAre, <1>0, <1>c, Bounds DEF TaskInv, ClientTypes, DeliverStopped, Goto, taskVars
  <2> QED BY <2>1, <2>2, <2>3 DEF TypeOK, TaskTypes, HandlerTypes, ClientTypes
<1>3. Engaged'
  BY <1>1, <1>0 DEF TaskInv, TypeOK, Engaged, DeliverStopped, Goto, taskVars
<1>4. \A d \in Conns : pc'[d] = "preparing" => pc[d] = "preparing" /\ asked'[d] = asked[d]
  BY DEF TaskInv, TypeOK, DeliverStopped, Goto, taskVars
<1> QED BY <1>1, <1>2, <1>3, <1>4, SameTasks DEF DeliverStopped, taskVars

LEMMA ActionStartsTasks ==
  ASSUME NEW c \in Conns, TaskInv, ActionStarts(c)
  PROVE  TaskInv'
<1>0. /\ Adopted(current, hist[c]) \in Seq(Messages)
      /\ final' \in [Tasks -> Seq(Seq(Messages))]
  BY AdoptedIsHistory, TakeTypes DEF TaskInv, TypeOK, ActionStarts
<1>a. Action(fired + 1) \in Messages /\ Action(fired + 1).n <= 0
  BY ActionTypes, BoundsAssumption DEF TaskInv, TypeOK, ActionStarts
<1>1. Born' = Born
  BY <1>0 DEF TaskInv, TypeOK, Engaged, Born, Tasks, ActionStarts, Goto
<1>2. TypeOK'
  <2>1. TaskTypes'
    BY TypesAre, <1>0, <1>a, Bounds DEF TaskInv, TaskTypes, ActionStarts, Goto
  <2>2. HandlerTypes'
    BY TypesAre, <1>0, <1>a, Bounds DEF TaskInv, HandlerTypes, ActionStarts, Goto
  <2>3. ClientTypes'
    BY TypesAre, <1>0, <1>a, Bounds DEF TaskInv, ClientTypes, ActionStarts, Goto
  <2> QED BY <2>1, <2>2, <2>3 DEF TypeOK, TaskTypes, HandlerTypes, ClientTypes
<1>3. Engaged'
  BY <1>1, <1>0, <1>a DEF TaskInv, TypeOK, Engaged, ActionStarts, Goto
<1>4. \A d \in Conns : pc'[d] = "preparing" => pc[d] = "preparing" /\ asked'[d] = asked[d]
  BY DEF TaskInv, TypeOK, ActionStarts, Goto
<1> QED BY <1>1, <1>2, <1>3, <1>4, SameTasks DEF ActionStarts

LEMMA ActionEndsTasks ==
  ASSUME NEW c \in Conns, TaskInv, ActionEnds(c)
  PROVE  TaskInv'
<1>0. Answer(asked[c]) \in Messages
  BY ReplyTypes DEF TaskInv, TypeOK
<1>a. \/ /\ hist' = [hist EXCEPT ![c] = Append(@, Answer(asked[c]))]
         /\ stored' = Append(stored, Answer(asked[c]))
      \/ hist' = hist /\ stored' = stored
  BY Zenon DEF ActionEnds
<1>b. /\ pc' = [pc EXCEPT ![c] = "idle"] /\ asked' = [asked EXCEPT ![c] = NoMessage]
      /\ follow' = follow /\ job' = job /\ missed' = missed
  BY DEF ActionEnds, Goto
<1>1. Born' = Born
  BY <1>0 DEF TaskInv, TypeOK, Engaged, Born, Tasks, ActionEnds, Goto, taskVars
<1>2. TypeOK'
  <2>1. TaskTypes'
    BY TypesAre, <1>0, <1>a, <1>b, NoMessageTypes, Bounds DEF TaskInv, TaskTypes, ActionEnds,
       Goto, taskVars
  <2>2. HandlerTypes'
    <3>1. HandlerTypes /\ hist[c] \in Seq(Messages)
      BY TypesAre DEF TaskInv, HandlerTypes
    <3>2. pc[c] = "acting"
      BY DEF ActionEnds
    <3>3. hist' \in [Conns -> Seq(Messages)]
      <4>1. Append(hist[c], Answer(asked[c])) \in Seq(Messages)
        BY <1>0, <3>1
      <4> QED BY <1>a, <3>1, <4>1 DEF HandlerTypes
    <3>4. \A d \in Conns : d # c => hist'[d] = hist[d] /\ pc'[d] = pc[d]
      BY <1>a, <1>b, <3>1 DEF HandlerTypes
    <3>5. pc'[c] = "idle"
      BY <1>b, <3>1 DEF HandlerTypes
    <3> QED BY <1>b, <3>1, <3>3, <3>4, <3>5, NoMessageTypes DEF HandlerTypes
  <2>3. ClientTypes'
    BY TypesAre, <1>0, <1>a, <1>b, NoMessageTypes, Bounds DEF TaskInv, ClientTypes,
       ActionEnds, Goto, taskVars
  <2> QED BY <2>1, <2>2, <2>3 DEF TypeOK, TaskTypes, HandlerTypes, ClientTypes
<1>3. Engaged'
  BY <1>1, <1>0, NoMessageTypes DEF TaskInv, TypeOK, Engaged, ActionEnds, Goto, taskVars
<1>4. \A d \in Conns : pc'[d] = "preparing" => pc[d] = "preparing" /\ asked'[d] = asked[d]
  BY DEF TaskInv, TypeOK, ActionEnds, Goto, taskVars
<1> QED BY <1>1, <1>2, <1>3, <1>4, SameTasks DEF ActionEnds, taskVars

\* The message received is new, and nobody else has it.
LEMMA ReceiveTasks ==
  ASSUME NEW c \in Conns, TaskInv, Receive(c)
  PROVE  TaskInv'
<1>0. /\ sent \in 0 .. MaxMessages /\ sent' = sent + 1 /\ sent + 1 \in Tasks
      /\ stored' = Append(stored, User(sent + 1)) /\ pc[c] = "idle"
      /\ start' = start /\ phase' = phase /\ current' = current /\ job' = job
  BY Bounds DEF TaskInv, TypeOK, Receive, Tasks
<1>1. User(sent + 1) \in Messages /\ User(sent + 1).n = sent + 1
  BY <1>0, UserTypes
<1>2. /\ Adopted(current, hist[c]) \in Seq(Messages)
      /\ Take(current) => final' \in [Tasks -> Seq(Seq(Messages))]
  BY AdoptedIsHistory, TakeTypes DEF TaskInv, TypeOK
<1>3. \/ UNCHANGED <<pc, hist, asked, final>>
      \/ /\ pc' = [pc EXCEPT ![c] = "preparing"]
         /\ asked' = [asked EXCEPT ![c] = User(sent + 1)]
         /\ hist' = [hist EXCEPT ![c] = Adopted(current, hist[c])]
         /\ Take(current)
  BY DEF Receive, Goto
<1>4. Born' = Born
  BY <1>0 DEF Born
<1>5. TypeOK'
  <2>1. TaskTypes'
    BY <1>0, <1>2, <1>3, TypesAre DEF TaskInv, TaskTypes, Receive
  <2>2. HandlerTypes'
    <3>1. HandlerTypes
      BY TypesAre DEF TaskInv
    <3>2. CASE UNCHANGED <<pc, hist, asked, final>>
      BY <3>1, <3>2 DEF HandlerTypes, Receive
    <3>3. CASE /\ pc' = [pc EXCEPT ![c] = "preparing"]
               /\ asked' = [asked EXCEPT ![c] = User(sent + 1)]
               /\ hist' = [hist EXCEPT ![c] = Adopted(current, hist[c])]
      <4>1. /\ pc' \in [Conns -> {"gone", "loading", "resuming", "idle", "preparing", "spawning",
                                  "handing", "stopping", "logging", "acting"}]
            /\ hist' \in [Conns -> Seq(Messages)] /\ asked' \in [Conns -> Messages]
        BY <1>1, <1>2, <3>1, <3>3 DEF HandlerTypes
      <4>2. \A d \in Conns : pc'[d] = "gone" => pc[d] = "gone" /\ hist'[d] = hist[d]
        BY <1>0, <3>1, <3>3 DEF HandlerTypes
      <4>3. follow' = follow /\ job' = job /\ missed' = missed
        BY DEF Receive
      <4> QED BY <3>1, <4>1, <4>2, <4>3 DEF HandlerTypes
    <3> QED BY <1>3, <3>2, <3>3
  <2>3. ClientTypes'
    <3>1. /\ stored' \in Seq(Messages) /\ sent' \in 0 .. MaxMessages
      BY <1>0, <1>1, TypesAre, Bounds DEF TaskInv, ClientTypes, Tasks
    <3>2. opened' = opened /\ fired' = fired /\ answered' = answered
          /\ spent' = spent
      BY DEF Receive
    <3> QED BY <3>1, <3>2, TypesAre DEF TaskInv, ClientTypes
  <2> QED BY <2>1, <2>2, <2>3 DEF TypeOK, TaskTypes, HandlerTypes, ClientTypes
<1>6. Numbered' /\ Started'
  BY <1>0, <1>4 DEF TaskInv, Numbered, Started
<1>7. \A t \in Born : start[t].n # sent + 1
  BY <1>0, StartedByUser
<1>8. \A d \in Conns : pc[d] = "preparing" => asked[d].n # sent + 1
  <2>1. SUFFICES ASSUME NEW d \in Conns, pc[d] = "preparing" PROVE asked[d].n # sent + 1
    OBVIOUS
  <2>2. PICK n \in 1 .. sent : asked[d] = User(n)
    BY <2>1 DEF TaskInv, Prepared
  <2>3. asked[d].n = n
    BY <1>0, <2>2, UserTypes, Bounds DEF Tasks
  <2> QED BY <1>0, <2>2, <2>3
<1>9. Prepared'
  <2>1. CASE UNCHANGED <<pc, hist, asked, final>>
    BY <1>0, <1>4, <2>1 DEF TaskInv, Prepared
  <2>2. CASE /\ pc' = [pc EXCEPT ![c] = "preparing"]
             /\ asked' = [asked EXCEPT ![c] = User(sent + 1)]
    <3>1. /\ asked'[c] = User(sent + 1) /\ asked'[c].n = sent + 1
          /\ \A d \in Conns : d # c => pc'[d] = pc[d] /\ asked'[d] = asked[d]
      BY <1>1, <2>2, TypesAre DEF TaskInv, HandlerTypes
    <3>2. ASSUME NEW d \in Conns, pc'[d] = "preparing"
          PROVE  /\ \E n \in 1 .. sent' : asked'[d] = User(n)
                 /\ \A t \in Born : start[t].n # asked'[d].n
                 /\ \A e \in Conns : pc'[e] = "preparing" /\ asked'[e].n = asked'[d].n => d = e
      BY <1>0, <1>7, <1>8, <3>1, <3>2 DEF TaskInv, Prepared
    <3> QED BY <1>0, <1>4, <3>2 DEF Prepared
  <2> QED BY <1>3, <2>1, <2>2
<1>10. Engaged'
  <2>0. stopped' = stopped
    BY DEF Receive
  <2>1. CASE UNCHANGED <<pc, hist, asked, final>>
    BY <1>0, <1>4, <2>0, <2>1 DEF TaskInv, Engaged
  <2>2. CASE /\ pc' = [pc EXCEPT ![c] = "preparing"]
             /\ asked' = [asked EXCEPT ![c] = User(sent + 1)]
    BY <1>0, <1>4, <2>0, <2>2, TypesAre DEF TaskInv, HandlerTypes, Engaged
  <2> QED BY <1>3, <2>1, <2>2
<1> QED BY <1>5, <1>6, <1>9, <1>10 DEF TaskInv

\* A task gets the next number, and a message that no other task has.
LEMMA RegisterTasks ==
  ASSUME NEW c \in Conns, TaskInv, Register(c)
  PROVE  TaskInv'
<1> DEFINE t == Cardinality(Born) + 1
<1>0. t \in Tasks \ Born /\ Born \cup {t} = 1 .. t /\ t \in 0 .. MaxMessages
  BY NextTaskIsNew, Bounds DEF Register, Tasks
<1> HIDE DEF t
<1>1. /\ hist' = [hist EXCEPT ![c] = Append(@, asked[c])]
      /\ start' = [start EXCEPT ![t] = asked[c]]
      /\ work' = [work EXCEPT ![t] = Append(hist[c], asked[c])]
      /\ phase' = [phase EXCEPT ![t] = "registered"]
      /\ running' = [running EXCEPT ![t] = TRUE]
      /\ current' = t
      /\ follow' = [follow EXCEPT ![c] = t]
      /\ missed' = [missed EXCEPT ![c] = {}]
      /\ job' = [job EXCEPT ![c] = t]
      /\ asked' = [asked EXCEPT ![c] = NoMessage]
      /\ pc' = [pc EXCEPT ![c] = "spawning"]
      /\ pc[c] = "preparing"
  BY DEF Register, Goto, t
<1>2. /\ handle' = handle /\ aborted' = aborted /\ stopped' = stopped /\ final' = final
      /\ stored' = stored /\ sent' = sent /\ opened' = opened /\ fired' = fired
      /\ answered' = answered /\ spent' = spent
  BY DEF Register, userVars
<1>3. TaskTypes /\ HandlerTypes /\ ClientTypes
  BY TypesAre DEF TaskInv
<1>4. Append(hist[c], asked[c]) \in Seq(Messages) /\ asked[c] \in Messages
  BY <1>3 DEF HandlerTypes
<1>5. Born' = Born \cup {t}
  BY <1>0, <1>1, <1>3 DEF Born, TaskTypes
<1>6. TypeOK'
  <2>1. TaskTypes'
    BY <1>0, <1>1, <1>2, <1>3, <1>4 DEF TaskTypes
  <2>2. HandlerTypes'
    <3>1. /\ pc' \in [Conns -> {"gone", "loading", "resuming", "idle", "preparing", "spawning",
                                "handing", "stopping", "logging", "acting"}]
          /\ hist' \in [Conns -> Seq(Messages)] /\ asked' \in [Conns -> Messages]
          /\ follow' \in [Conns -> 0 .. MaxMessages] /\ job' \in [Conns -> 0 .. MaxMessages]
          /\ missed' \in [Conns -> SUBSET {"done", "stopped"}]
      BY <1>0, <1>1, <1>3, <1>4, NoMessageTypes DEF HandlerTypes
    <3>2. \A d \in Conns : pc'[d] = "gone" =>
            pc[d] = "gone" /\ hist'[d] = hist[d] /\ follow'[d] = follow[d]
      BY <1>1, <1>3 DEF HandlerTypes
    <3> QED BY <1>3, <3>1, <3>2 DEF HandlerTypes
  <2>3. ClientTypes'
    BY <1>2, <1>3 DEF ClientTypes
  <2> QED BY <2>1, <2>2, <2>3 DEF TypeOK, TaskTypes, HandlerTypes, ClientTypes
<1>7. Numbered'
  BY <1>0, <1>5 DEF Numbered
<1>8. start'[t] = asked[c] /\ \A s \in Born : start'[s] = start[s]
  BY <1>0, <1>1, <1>3 DEF TaskTypes, Born
<1>9. Started'
  <2>1. \A s \in Born' : \E n \in 1 .. sent' : start'[s] = User(n)
    BY <1>1, <1>2, <1>5, <1>8 DEF TaskInv, Started, Prepared
  <2>2. \A s \in Born : start[s].n # asked[c].n
    BY <1>1 DEF TaskInv, Prepared
  <2>3. \A s, u \in Born' : start'[s].n = start'[u].n => s = u
    BY <1>5, <1>8, <2>2 DEF TaskInv, Started
  <2> QED BY <2>1, <2>3 DEF Started
<1>10. Prepared'
  <2>1. ASSUME NEW d \in Conns, pc'[d] = "preparing"
        PROVE  d # c /\ pc[d] = "preparing" /\ asked'[d] = asked[d]
    BY <1>1, <1>3, <2>1 DEF HandlerTypes
  <2>2. ASSUME NEW d \in Conns, pc'[d] = "preparing"
        PROVE  \A s \in Born' : start'[s].n # asked'[d].n
    <3>1. d # c /\ pc[d] = "preparing" /\ asked'[d] = asked[d]
      BY <2>1, <2>2
    <3>2. asked[d].n # asked[c].n
      BY <1>1, <3>1 DEF TaskInv, Prepared
    <3>3. \A s \in Born : start[s].n # asked[d].n
      BY <3>1 DEF TaskInv, Prepared
    <3> QED BY <1>5, <1>8, <3>1, <3>2, <3>3
  <2>3. ASSUME NEW d \in Conns, pc'[d] = "preparing"
        PROVE  /\ \E n \in 1 .. sent' : asked'[d] = User(n)
               /\ \A e \in Conns : pc'[e] = "preparing" /\ asked'[e].n = asked'[d].n => d = e
    BY <1>2, <2>1, <2>3 DEF TaskInv, Prepared
  <2> QED BY <2>2, <2>3 DEF Prepared
<1>11. Engaged'
  <2>1. current' \in Born' /\ stopped' \subseteq Born'
    BY <1>1, <1>2, <1>5 DEF TaskInv, Engaged
  <2>2. ASSUME NEW d \in Conns
        PROVE  /\ pc'[d] \in {"spawning", "handing", "stopping", "logging"} => job'[d] \in Born'
               /\ pc'[d] = "acting" => asked'[d].n <= 0
    BY <1>1, <1>3, <1>5 DEF TaskInv, Engaged, HandlerTypes
  <2> QED BY <2>1, <2>2 DEF Engaged
<1> QED BY <1>6, <1>7, <1>9, <1>10, <1>11 DEF TaskInv

LEMMA TaskInit == Init => TaskInv
<1> SUFFICES ASSUME Init PROVE TaskInv
  OBVIOUS
<1>1. TypeOK
  BY Bounds, NoMessageTypes DEF Init, TypeOK, Tasks
<1>2. Born = {} /\ {} = 1 .. 0
  BY DEF Init, Born
<1>3. Numbered /\ Started
  BY <1>2, Bounds DEF Numbered, Started
<1>4. Prepared /\ Engaged
  BY DEF Init, Prepared, Engaged
<1> QED BY <1>1, <1>3, <1>4 DEF TaskInv

LEMMA TaskStutter == TaskInv /\ UNCHANGED vars => TaskInv'
<1>1. ASSUME TaskInv, UNCHANGED vars
      PROVE  /\ TypeOK' /\ Numbered' /\ Started'
             /\ Prepared' /\ Engaged'
  <2>1. TypeOK'
    BY <1>1 DEF TaskInv, TypeOK, vars, taskVars, connVars, userVars
  <2>2. Numbered' /\ Started' /\ Prepared' /\ Engaged'
    BY <1>1 DEF TaskInv, Numbered, Started, Prepared, Engaged, Born, vars, taskVars, connVars, userVars
  <2> QED BY <2>1, <2>2
<1> QED BY <1>1 DEF TaskInv

\* Types, and every message is of one task at most, under any interleaving of
\* handlers, tasks and stops (ws.rs:497-598, session.rs:43-95).
THEOREM TaskInvariance == Spec => []TaskInv
<1>1. TaskInv /\ [Next]_vars => TaskInv'
  <2> SUFFICES ASSUME TaskInv, [Next]_vars PROVE TaskInv'
    OBVIOUS
  <2>1. ASSUME NEW t \in Tasks, TaskStep(t) PROVE TaskInv'
    BY <2>1, TurnEndsTasks, LogEndTasks, PublishTasks, ExitTasks, DieTasks DEF TaskStep
  <2>2. CASE Expire
    BY <2>2, ExpireTasks
  <2>3. ASSUME NEW c \in Conns, HandlerStep(c) PROVE TaskInv'
    BY <2>3, LoadHistoryTasks, ResumeTasks, RefuseTasks, RegisterTasks, SpawnTasks,
       SetHandleTasks, StopActTasks, LogStopTasks, ActionEndsTasks DEF HandlerStep
  <2>4. ASSUME NEW c \in Conns, Connect(c) \/ Disconnect(c) \/ Deliver(c) \/ DeliverStopped(c)
        PROVE  TaskInv'
    BY <2>4, ConnectTasks, DisconnectTasks, DeliverTasks, DeliverStoppedTasks
  <2>5. ASSUME NEW c \in Conns, StopCheck(c) \/ ActionStarts(c) \/ Receive(c) PROVE TaskInv'
    BY <2>5, StopCheckTasks, ActionStartsTasks, ReceiveTasks
  <2>6. CASE UNCHANGED vars
    BY <2>6, TaskStutter
  <2> QED BY <2>1, <2>2, <2>3, <2>4, <2>5, <2>6 DEF Next
<1> QED BY TaskInit, <1>1, PTL DEF Spec

-----------------------------------------------------------------------------
(* Answers follow their questions.                                         *)

\* The steps of a task once it is made.
LEMMA SameBorn ==
  ASSUME TaskInv,
         phase' = phase \/ (\E c \in Conns : Spawn(c))
           \/ \E t \in Tasks : TurnEnds(t) \/ LogEnd(t) \/ Publish(t) \/ Exit(t) \/ Die(t)
  PROVE  Born' = Born
<1>1. CASE phase' = phase
  BY <1>1 DEF Born
<1>2. ASSUME NEW c \in Conns, Spawn(c) PROVE Born' = Born
  BY <1>2 DEF TaskInv, TypeOK, Engaged, Born, Tasks, Spawn
<1>3. ASSUME NEW t \in Tasks, TurnEnds(t) \/ LogEnd(t) \/ Publish(t) \/ Exit(t) \/ Die(t)
      PROVE  Born' = Born
  BY <1>3 DEF TaskInv, TypeOK, Born, TurnEnds, LogEnd, Publish, Exit, Die
<1> QED BY <1>1, <1>2, <1>3

\* The steps that leave a part of the histories alone.
LEMMA SameStored == StoredInOrder /\ stored' = stored /\ sent' = sent => StoredInOrder'
BY DEF StoredInOrder

LEMMA SameHistories == HistoriesInOrder /\ hist' = hist => HistoriesInOrder'
BY DEF HistoriesInOrder

LEMMA SameWork ==
  WorkInOrder /\ work' = work /\ start' = start /\ Born' = Born => WorkInOrder'
BY DEF WorkInOrder

LEMMA SameFinal == FinalInOrder /\ final' = final => FinalInOrder'
BY DEF FinalInOrder

LEMMA OrderStutter ==
  ASSUME OrderInv, stored' = stored, sent' = sent, hist' = hist, work' = work, start' = start,
         Born' = Born, final' = final
  PROVE  OrderInv'
BY SameStored, SameHistories, SameWork, SameFinal DEF OrderInv

\* One handler gets another history, in order.
LEMMA HistoryChanged ==
  ASSUME TypeOK, HistoriesInOrder, NEW c \in Conns, NEW h,
         InOrder(h), hist' = [hist EXCEPT ![c] = h]
  PROVE  HistoriesInOrder'
BY DEF TypeOK, HistoriesInOrder

\* The client stores a message.
LEMMA StoredMore ==
  ASSUME TypeOK, StoredInOrder, NEW m \in Messages, stored' = Append(stored, m), sent' = sent,
         m.role = "assistant" /\ m.n > 0 => m.n \in 1 .. sent
  PROVE  StoredInOrder'
<1>1. stored \in Seq(Messages)
  BY DEF TypeOK
<1>2. InOrder(Append(stored, m)) /\ \A n \in 1 .. sent : Asks(Append(stored, m), n)
  BY <1>1, AsksAppend, InOrderAppend DEF StoredInOrder
<1> QED BY <1>2 DEF StoredInOrder

LEMMA TakeKeeps ==
  ASSUME TypeOK, FinalInOrder, NEW t \in 0 .. MaxMessages, Take(t)
  PROVE  FinalInOrder'
BY TakeTypes DEF FinalInOrder

LEMMA LoadHistoryOrder ==
  ASSUME NEW c \in Conns, TaskInv, OrderInv, LoadHistory(c)
  PROVE  OrderInv'
<1>1. HistoriesInOrder'
  BY HistoryChanged DEF TaskInv, OrderInv, StoredInOrder, LoadHistory
<1>2. Born' = Born
  BY SameBorn DEF LoadHistory, taskVars
<1> QED BY <1>1, <1>2, SameStored, SameWork, SameFinal DEF OrderInv, LoadHistory, taskVars, userVars

LEMMA ResumeOrder ==
  ASSUME NEW c \in Conns, TaskInv, OrderInv, Resume(c)
  PROVE  OrderInv'
<1>1. job[c] \in 0 .. MaxMessages /\ hist[c] \in Seq(Messages)
  BY DEF TaskInv, TypeOK
<1>2. InOrder(Adopted(job[c], hist[c]))
  BY <1>1, AdoptedIsHistory DEF TaskInv, OrderInv, HistoriesInOrder
<1>3. HistoriesInOrder'
  BY <1>2, HistoryChanged DEF TaskInv, OrderInv, Resume
<1>4. FinalInOrder'
  BY <1>1, TakeKeeps DEF TaskInv, OrderInv, Resume
<1>5. Born' = Born
  BY SameBorn DEF Resume
<1> QED BY <1>3, <1>4, <1>5, SameStored, SameWork DEF OrderInv, Resume, userVars

LEMMA DisconnectOrder ==
  ASSUME NEW c \in Conns, TaskInv, OrderInv, Disconnect(c)
  PROVE  OrderInv'
<1>1. HistoriesInOrder'
  BY EmptyInOrder, HistoryChanged DEF TaskInv, OrderInv, Disconnect
<1>2. Born' = Born
  BY SameBorn DEF Disconnect, taskVars
<1> QED BY <1>1, <1>2, SameStored, SameWork, SameFinal DEF OrderInv, Disconnect, taskVars, userVars

LEMMA ReceiveOrder ==
  ASSUME NEW c \in Conns, TaskInv, OrderInv, Receive(c)
  PROVE  OrderInv'
<1>1. /\ current \in 0 .. MaxMessages /\ hist[c] \in Seq(Messages) /\ stored \in Seq(Messages)
      /\ sent' = sent + 1 /\ sent \in Nat /\ sent + 1 \in Tasks
      /\ stored' = Append(stored, User(sent + 1))
  BY Bounds DEF TaskInv, TypeOK, Receive, Tasks
<1>2. InOrder(Adopted(current, hist[c]))
  BY <1>1, AdoptedIsHistory DEF TaskInv, OrderInv, HistoriesInOrder
<1>3. HistoriesInOrder' /\ FinalInOrder'
  <2>1. CASE Busy
    BY <2>1, SameHistories, SameFinal DEF OrderInv, Receive
  <2>2. CASE ~Busy
    <3>1. hist' = [hist EXCEPT ![c] = Adopted(current, hist[c])] /\ Take(current)
      BY <2>2 DEF Receive
    <3> QED BY <1>1, <1>2, <3>1, HistoryChanged, TakeKeeps DEF TaskInv, OrderInv
  <2> QED BY <2>1, <2>2
<1>4. StoredInOrder'
  <2>1. User(sent + 1) \in Messages /\ User(sent + 1).role = "user" /\ User(sent + 1).n = sent + 1
    BY <1>1, UserTypes
  <2>2. Asks(stored', sent + 1) /\ \A n \in 1 .. sent : Asks(stored', n)
    BY <1>1, <2>1, AsksAppend DEF OrderInv, StoredInOrder
  <2>3. InOrder(stored')
    BY <1>1, <2>1, InOrderAppend DEF OrderInv, StoredInOrder
  <2>4. \A n \in 1 .. sent' : n = sent + 1 \/ n \in 1 .. sent
    BY <1>1
  <2> QED BY <2>2, <2>3, <2>4 DEF StoredInOrder
<1>5. Born' = Born /\ work' = work /\ start' = start
  BY SameBorn DEF Receive
<1> QED BY <1>3, <1>4, <1>5, SameWork DEF OrderInv

LEMMA RegisterOrder ==
  ASSUME NEW c \in Conns, TaskInv, OrderInv, Register(c)
  PROVE  OrderInv'
<1> DEFINE t == Cardinality(Born) + 1
<1>0. t \in Tasks \ Born
  BY NextTaskIsNew DEF Register
<1> HIDE DEF t
<1>1. /\ hist' = [hist EXCEPT ![c] = Append(hist[c], asked[c])]
      /\ start' = [start EXCEPT ![t] = asked[c]]
      /\ work' = [work EXCEPT ![t] = Append(hist[c], asked[c])]
      /\ phase' = [phase EXCEPT ![t] = "registered"]
      /\ pc[c] = "preparing"
  BY DEF Register, t
<1>2. /\ hist[c] \in Seq(Messages) /\ asked[c] \in Messages
      /\ work \in [Tasks -> Seq(Messages)] /\ start \in [Tasks -> Messages]
      /\ Born' = Born \cup {t}
  BY <1>0, <1>1 DEF TaskInv, TypeOK, Born
<1>3. asked[c].role = "user"
  <2>1. PICK n \in 1 .. sent : asked[c] = User(n)
    BY <1>1 DEF TaskInv, Prepared
  <2>2. n \in Tasks
    BY <2>1, Bounds DEF TaskInv, TypeOK, Tasks
  <2> QED BY <2>1, <2>2, UserTypes
<1>4. InOrder(Append(hist[c], asked[c])) /\ Asks(Append(hist[c], asked[c]), asked[c].n)
  BY <1>2, <1>3, InOrderAppend, AsksAppend DEF OrderInv, HistoriesInOrder
<1>5. HistoriesInOrder'
  BY <1>1, <1>4, HistoryChanged DEF TaskInv, OrderInv
<1>6. WorkInOrder'
  <2>1. /\ work'[t] = Append(hist[c], asked[c]) /\ start'[t] = asked[c]
        /\ \A s \in Tasks : s # t => work'[s] = work[s] /\ start'[s] = start[s]
    BY <1>0, <1>1, <1>2
  <2>2. ASSUME NEW s \in Tasks
        PROVE  InOrder(work'[s]) /\ (s \in Born' => Asks(work'[s], start'[s].n))
    BY <1>2, <1>4, <2>1 DEF OrderInv, WorkInOrder
  <2> QED BY <2>2 DEF WorkInOrder
<1> QED BY <1>5, <1>6, SameStored, SameFinal DEF OrderInv, Register, userVars

LEMMA TurnEndsOrder ==
  ASSUME NEW t \in Tasks, TaskInv, OrderInv, TurnEnds(t)
  PROVE  OrderInv'
<1>1. t \in Born /\ start[t] \in Messages /\ work \in [Tasks -> Seq(Messages)]
  BY DEF TaskInv, TypeOK, Born, TurnEnds
<1>2. Answer(start[t]) \in Messages /\ Answer(start[t]).n = start[t].n
  BY <1>1, ReplyTypes
<1>3. InOrder(Append(work[t], Answer(start[t]))) /\
        Asks(Append(work[t], Answer(start[t])), start[t].n)
  BY <1>1, <1>2, InOrderAppend, AsksAppend DEF OrderInv, WorkInOrder
<1>4. Born' = Born /\ start' = start
  BY SameBorn DEF TurnEnds
<1>5. work' = [work EXCEPT ![t] = Append(work[t], Answer(start[t]))] \/ work' = work
  BY Zenon DEF TurnEnds
<1>6. WorkInOrder'
  <2>1. CASE work' = [work EXCEPT ![t] = Append(work[t], Answer(start[t]))]
    <3>1. /\ work'[t] = Append(work[t], Answer(start[t]))
          /\ \A s \in Tasks : s # t => work'[s] = work[s]
      BY <1>1, <2>1
    <3> QED BY <1>3, <1>4, <3>1 DEF OrderInv, WorkInOrder
  <2>2. CASE work' = work
    BY <1>4, <2>2, SameWork DEF OrderInv
  <2> QED BY <1>5, <2>1, <2>2
<1> QED BY <1>6, SameStored, SameHistories, SameFinal DEF OrderInv, TurnEnds, connVars, userVars

LEMMA PublishOrder ==
  ASSUME NEW t \in Tasks, TaskInv, OrderInv, Publish(t)
  PROVE  OrderInv'
<1>1. final'[t] = <<work[t]>> /\ \A s \in Tasks : s # t => final'[s] = final[s]
  BY DEF TaskInv, TypeOK, Publish
<1>2. InOrder(final'[t][1])
  BY <1>1 DEF OrderInv, WorkInOrder
<1>3. FinalInOrder'
  BY <1>1, <1>2 DEF OrderInv, FinalInOrder
<1>4. Born' = Born
  BY SameBorn
<1> QED BY <1>3, <1>4, SameStored, SameHistories, SameWork DEF OrderInv, Publish, connVars, userVars

LEMMA DeliverOrder ==
  ASSUME NEW c \in Conns, TaskInv, OrderInv, Deliver(c)
  PROVE  OrderInv'
<1>1. follow[c] \in Tasks /\ follow[c] \in Born
  BY Bounds DEF TaskInv, TypeOK, Born, Tasks, Deliver
<1>2. start[follow[c]].n \in 1 .. sent /\ start[follow[c]] \in Messages
  BY <1>1, StartedByUser DEF TaskInv, TypeOK
<1>3. Output(follow[c]) \in Messages /\ Output(follow[c]).n = start[follow[c]].n
  BY <1>1, <1>2, OutputIsReply, ReplyTypes
<1>4. StoredInOrder'
  BY <1>2, <1>3, StoredMore DEF TaskInv, OrderInv, Deliver
<1>5. Born' = Born
  BY SameBorn DEF Deliver, taskVars
<1> QED BY <1>4, <1>5, SameHistories, SameWork, SameFinal DEF OrderInv, Deliver, taskVars

LEMMA DeliverStoppedOrder ==
  ASSUME NEW c \in Conns, TaskInv, OrderInv, DeliverStopped(c)
  PROVE  OrderInv'
<1>1. follow[c] \in Tasks /\ follow[c] \in Born
  BY Bounds DEF TaskInv, TypeOK, Tasks, Engaged, DeliverStopped
<1>2. start[follow[c]].n \in 1 .. sent /\ start[follow[c]] \in Messages
  BY <1>1, StartedByUser DEF TaskInv, TypeOK
<1>3. Partial(start[follow[c]]) \in Messages /\ Partial(start[follow[c]]).n = start[follow[c]].n
  BY <1>2, ReplyTypes
<1>4. stored' = Append(stored, Partial(start[follow[c]])) \/ stored' = stored
  BY Zenon DEF DeliverStopped
<1>5. StoredInOrder'
  BY <1>2, <1>3, <1>4, StoredMore, SameStored DEF TaskInv, OrderInv, DeliverStopped
<1>6. Born' = Born
  BY SameBorn DEF DeliverStopped, taskVars
<1> QED BY <1>5, <1>6, SameHistories, SameWork, SameFinal DEF OrderInv, DeliverStopped, taskVars

LEMMA ActionStartsOrder ==
  ASSUME NEW c \in Conns, TaskInv, OrderInv, ActionStarts(c)
  PROVE  OrderInv'
<1>1. /\ current \in 0 .. MaxMessages /\ hist[c] \in Seq(Messages)
      /\ fired + 1 \in 1 .. MaxActions
  BY Bounds DEF TaskInv, TypeOK, ActionStarts
<1>2. Action(fired + 1) \in Messages /\ Action(fired + 1).role = "user"
  BY <1>1, ActionTypes
<1>3. Adopted(current, hist[c]) \in Seq(Messages) /\ InOrder(Adopted(current, hist[c]))
  BY <1>1, AdoptedIsHistory DEF TaskInv, OrderInv, HistoriesInOrder
<1>4. InOrder(Append(Adopted(current, hist[c]), Action(fired + 1)))
  BY <1>2, <1>3, InOrderAppend
<1>5. HistoriesInOrder' /\ FinalInOrder'
  BY <1>1, <1>4, HistoryChanged, TakeKeeps DEF TaskInv, OrderInv, ActionStarts
<1>6. Born' = Born
  BY SameBorn DEF ActionStarts
<1> QED BY <1>5, <1>6, SameStored, SameWork DEF OrderInv, ActionStarts

LEMMA ActionEndsOrder ==
  ASSUME NEW c \in Conns, TaskInv, OrderInv, ActionEnds(c)
  PROVE  OrderInv'
<1>1. hist[c] \in Seq(Messages) /\ asked[c] \in Messages /\ asked[c].n \in Int /\ asked[c].n <= 0
  BY MessageNumber DEF TaskInv, TypeOK, Engaged, ActionEnds
<1>2. Answer(asked[c]) \in Messages /\ Answer(asked[c]).n = asked[c].n
  BY <1>1, ReplyTypes
<1>3. InOrder(Append(hist[c], Answer(asked[c])))
  BY <1>1, <1>2, InOrderAppend DEF OrderInv, HistoriesInOrder
<1>4. \/ /\ hist' = [hist EXCEPT ![c] = Append(hist[c], Answer(asked[c]))]
         /\ stored' = Append(stored, Answer(asked[c]))
      \/ hist' = hist /\ stored' = stored
  BY Zenon DEF ActionEnds
<1>5. HistoriesInOrder'
  BY <1>3, <1>4, HistoryChanged, SameHistories DEF TaskInv, OrderInv
<1>6. StoredInOrder'
  BY <1>1, <1>2, <1>4, StoredMore, SameStored DEF TaskInv, OrderInv, ActionEnds
<1>7. Born' = Born
  BY SameBorn DEF ActionEnds, taskVars
<1> QED BY <1>5, <1>6, <1>7, SameWork, SameFinal DEF OrderInv, ActionEnds, taskVars

\* What a handler, a task or the client has of the conversation is in order,
\* however handlers and tasks interleave (ws.rs:497-641, session.rs:52-59).
THEOREM AnswersFollowAlways == Spec => []AnswersFollowQuestions
<1>1. Init => OrderInv
  <2> SUFFICES ASSUME Init PROVE OrderInv
    OBVIOUS
  <2>1. StoredInOrder /\ HistoriesInOrder /\ FinalInOrder
    BY EmptyInOrder DEF Init, StoredInOrder, HistoriesInOrder, FinalInOrder
  <2>2. WorkInOrder
    BY EmptyInOrder DEF Init, WorkInOrder, Born
  <2> QED BY <2>1, <2>2 DEF OrderInv
<1>2. TaskInv /\ OrderInv /\ [Next]_vars => OrderInv'
  <2> SUFFICES ASSUME TaskInv, OrderInv, [Next]_vars PROVE OrderInv'
    OBVIOUS
  <2>1. ASSUME NEW t \in Tasks, TurnEnds(t) \/ Publish(t) PROVE OrderInv'
    BY <2>1, TurnEndsOrder, PublishOrder
  <2>2. ASSUME NEW t \in Tasks, LogEnd(t) \/ Exit(t) \/ Die(t) PROVE OrderInv'
    <3>1. Born' = Born
      BY <2>2, SameBorn
    <3> QED BY <2>2, <3>1, OrderStutter DEF LogEnd, Exit, Die, connVars, userVars
  <2>3. ASSUME NEW c \in Conns, Spawn(c) PROVE OrderInv'
    <3>1. Born' = Born
      BY <2>3, SameBorn
    <3> QED BY <2>3, <3>1, OrderStutter DEF Spawn, userVars
  <2>4. CASE Expire
    <3>1. Born' = Born
      BY <2>4, SameBorn DEF Expire
    <3> QED BY <2>4, <3>1, OrderStutter DEF Expire, connVars, userVars
  <2>5. ASSUME NEW c \in Conns,
               Connect(c) \/ Refuse(c) \/ SetHandle(c) \/ StopCheck(c) \/ StopAct(c) \/ LogStop(c)
        PROVE  OrderInv'
    <3>1. Born' = Born
      BY <2>5, SameBorn DEF Connect, Refuse, SetHandle, StopCheck, StopAct, LogStop, taskVars
    <3> QED BY <2>5, <3>1, OrderStutter
            DEF Connect, Refuse, SetHandle, StopCheck, StopAct, LogStop, taskVars, userVars
  <2>6. ASSUME NEW c \in Conns, LoadHistory(c) \/ Resume(c) \/ Register(c) \/ ActionEnds(c)
        PROVE  OrderInv'
    BY <2>6, LoadHistoryOrder, ResumeOrder, RegisterOrder, ActionEndsOrder
  <2>7. ASSUME NEW c \in Conns, Disconnect(c) \/ Deliver(c) \/ DeliverStopped(c)
        PROVE  OrderInv'
    BY <2>7, DisconnectOrder, DeliverOrder, DeliverStoppedOrder
  <2>8. ASSUME NEW c \in Conns, ActionStarts(c) \/ Receive(c) PROVE OrderInv'
    BY <2>8, ActionStartsOrder, ReceiveOrder
  <2>9. CASE UNCHANGED vars
    <3>1. Born' = Born
      BY <2>9 DEF vars, taskVars, Born
    <3> QED BY <2>9, <3>1, OrderStutter DEF vars, taskVars, connVars, userVars
  <2> QED BY <2>1, <2>2, <2>3, <2>4, <2>5, <2>6, <2>7, <2>8, <2>9
          DEF Next, TaskStep, HandlerStep
<1>3. TaskInv /\ OrderInv => AnswersFollowQuestions
  <2> SUFFICES ASSUME TaskInv, OrderInv, NEW c \in Conns, NEW i \in DOMAIN hist[c]
               PROVE  hist[c][i].role = "assistant" /\ hist[c][i].n > 0 =>
                        \E j \in 1 .. i - 1 : hist[c][j].role = "user" /\ hist[c][j].n = hist[c][i].n
    BY DEF AnswersFollowQuestions
  <2>1. hist[c] \in Seq(Messages)
    BY DEF TaskInv, TypeOK
  <2>2. i \in 1 .. Len(hist[c])
    BY <2>1
  <2> QED BY <2>2 DEF OrderInv, HistoriesInOrder, InOrder
<1> QED BY <1>1, <1>2, <1>3, TaskInvariance, PTL DEF Spec

-----------------------------------------------------------------------------
(* One handler: one task runs.                                             *)

\* The conversation is open in one tab, whose socket is the only one.
OneHandler == \A c, d \in Conns : c = d

\* Task t is being handed over by the handler that made it.
InHand(t) == \E c \in Conns : pc[c] \in {"spawning", "handing"} /\ job[c] = t

\* Only the registered task runs, and none while a message is prepared; a future
\* that works without having been aborted has its flag set; and a task that is
\* not in hand can be aborted.
RunInv ==
  /\ \A t \in Tasks : running[t] => t = current
  /\ \A c \in Conns : pc[c] = "preparing" => ~Busy
  /\ \A t \in Tasks : Live(t) /\ t \notin aborted => running[t]
  /\ \A t \in Born : handle[t] = "none" => InHand(t)
  /\ \A t \in Tasks : handle[t] = "taken" => t \in aborted
  /\ \A c \in Conns : pc[c] = "spawning" => phase[job[c]] = "registered"

\* The steps that do not touch the registered task, and hand nothing over.
LEMMA RunFrame ==
  ASSUME TaskInv, RunInv, current' = current, phase' = phase, running' = running,
         handle' = handle, aborted' = aborted,
         \A c \in Conns :
           \/ pc'[c] = pc[c] /\ job'[c] = job[c]
           \/ /\ pc[c] \notin {"spawning", "handing"}
              /\ pc'[c] \notin {"preparing", "spawning", "handing"}
  PROVE  RunInv'
<1>1. Born' = Born /\ (Busy' <=> Busy) /\ \A t \in Tasks : Live(t)' <=> Live(t)
  BY DEF Born, Busy, Live
<1>2. ASSUME NEW t, InHand(t) PROVE InHand(t)'
  BY <1>2 DEF InHand
<1>3. \A t \in Born' : handle'[t] = "none" => InHand(t)'
  BY <1>1, <1>2 DEF RunInv
<1>4. \A c \in Conns :
        /\ pc'[c] = "preparing" => ~Busy'
        /\ pc'[c] = "spawning" => phase'[job'[c]] = "registered"
  BY <1>1 DEF RunInv
<1> QED BY <1>1, <1>3, <1>4 DEF RunInv

\* The steps of a handler that change its place only.
LEMMA MoveFrame ==
  ASSUME TaskInv, RunInv, NEW c \in Conns, current' = current, phase' = phase,
         running' = running, handle' = handle, aborted' = aborted,
         pc[c] \notin {"spawning", "handing"}, NEW l, l \notin {"preparing", "spawning", "handing"},
         pc' = [pc EXCEPT ![c] = l], \A d \in Conns : d # c => job'[d] = job[d]
  PROVE  RunInv'
<1>1. \A d \in Conns :
        \/ pc'[d] = pc[d] /\ job'[d] = job[d]
        \/ /\ pc[d] \notin {"spawning", "handing"}
           /\ pc'[d] \notin {"preparing", "spawning", "handing"}
  BY DEF TaskInv, TypeOK
<1> QED BY <1>1, RunFrame

LEMMA ReceiveRuns ==
  ASSUME NEW c \in Conns, TaskInv, RunInv, Receive(c)
  PROVE  RunInv'
<1>0. /\ current' = current /\ phase' = phase /\ running' = running /\ handle' = handle
      /\ aborted' = aborted /\ job' = job /\ pc[c] = "idle"
  BY DEF Receive
<1>1. CASE Busy
  BY <1>0, <1>1, RunFrame DEF Receive
<1>2. CASE ~Busy
  <2>1. pc' = [pc EXCEPT ![c] = "preparing"]
    BY <1>2 DEF Receive, Goto
  <2>2. /\ Born' = Born /\ ~Busy' /\ \A t \in Tasks : Live(t)' <=> Live(t)
    BY <1>0, <1>2 DEF Born, Busy, Live
  <2>3. \A d \in Conns : pc'[d] \in {"spawning", "handing"} <=> pc[d] \in {"spawning", "handing"}
    BY <1>0, <2>1 DEF TaskInv, TypeOK
  <2>4. \A t : InHand(t) => InHand(t)'
    BY <1>0, <2>3 DEF InHand
  <2>5. \A d \in Conns : pc'[d] = "spawning" => pc[d] = "spawning"
    BY <1>0, <2>1 DEF TaskInv, TypeOK
  <2> QED BY <1>0, <2>2, <2>4, <2>5 DEF RunInv
<1> QED BY <1>1, <1>2

LEMMA RegisterRuns ==
  ASSUME OneHandler, NEW c \in Conns, TaskInv, RunInv, Register(c)
  PROVE  RunInv'
<1>t. PICK t : t = Cardinality(Born) + 1
  OBVIOUS
<1>0. t \in Tasks \ Born
  BY <1>t, NextTaskIsNew DEF Register
<1>1. /\ phase' = [phase EXCEPT ![t] = "registered"] /\ running' = [running EXCEPT ![t] = TRUE]
      /\ current' = t /\ handle' = handle /\ aborted' = aborted /\ pc[c] = "preparing"
      /\ job' = [job EXCEPT ![c] = t] /\ pc' = [pc EXCEPT ![c] = "spawning"]
  BY <1>t DEF Register, Goto
<1>2. /\ phase'[t] = "registered" /\ running'[t] /\ pc'[c] = "spawning" /\ job'[c] = t
      /\ \A s \in Tasks : s # t => phase'[s] = phase[s] /\ running'[s] = running[s]
      /\ \A d \in Conns : d = c
  BY <1>0, <1>1 DEF TaskInv, TypeOK, OneHandler
<1>3. \A s \in Tasks : ~running[s]
  BY <1>1 DEF RunInv, Busy, Tasks
<1>4. \A s \in Born : handle[s] # "none"
  BY <1>1, <1>2 DEF RunInv, InHand
<1>5. \A s \in Tasks : running'[s] => s = current'
  BY <1>1, <1>2, <1>3
<1>6. \A d \in Conns : pc'[d] # "preparing" /\ phase'[job'[d]] = "registered"
  BY <1>2
<1>7. \A s \in Tasks : Live(s)' /\ s \notin aborted' => running'[s]
  BY <1>1, <1>2, <1>3 DEF RunInv, Live
<1>8. \A s \in Born' : handle'[s] = "none" => InHand(s)'
  <2>1. InHand(t)'
    BY <1>2 DEF InHand
  <2>2. \A s \in Born' : s = t \/ s \in Born
    BY <1>2 DEF Born
  <2> QED BY <1>1, <1>4, <2>1, <2>2
<1> QED BY <1>1, <1>5, <1>6, <1>7, <1>8 DEF RunInv

LEMMA SpawnRuns ==
  ASSUME OneHandler, NEW c \in Conns, TaskInv, RunInv, Spawn(c)
  PROVE  RunInv'
<1>1. /\ phase' = [phase EXCEPT ![job[c]] = "running"] /\ pc' = [pc EXCEPT ![c] = "handing"]
      /\ current' = current /\ running' = running /\ handle' = handle /\ aborted' = aborted
      /\ job' = job /\ pc[c] = "spawning"
  BY DEF Spawn, Goto
<1>2. job[c] \in Tasks /\ phase[job[c]] = "registered" /\ pc'[c] = "handing"
  BY <1>1 DEF TaskInv, TypeOK, Engaged, Born, RunInv
<1>3. \A s \in Tasks : Live(s)' <=> Live(s)
  BY <1>1, <1>2 DEF TaskInv, TypeOK, Live
<1>4. \A d \in Conns : d = c
  BY DEF OneHandler
<1>5. \A s : InHand(s) => InHand(s)'
  BY <1>1, <1>2, <1>4 DEF InHand
<1>6. Born' = Born /\ ~(\E d \in Conns : pc'[d] \in {"preparing", "spawning"})
  BY <1>2, <1>4, SameBorn
<1> QED BY <1>1, <1>3, <1>5, <1>6 DEF RunInv

LEMMA SetHandleRuns ==
  ASSUME OneHandler, NEW c \in Conns, TaskInv, RunInv, SetHandle(c)
  PROVE  RunInv'
<1>1. /\ handle' = [handle EXCEPT ![job[c]] = "set"] /\ pc' = [pc EXCEPT ![c] = "idle"]
      /\ current' = current /\ running' = running /\ phase' = phase /\ aborted' = aborted
      /\ pc[c] = "handing"
  BY DEF SetHandle, Goto
<1>2. pc'[c] = "idle" /\ \A d \in Conns : d = c
  BY <1>1 DEF OneHandler, TaskInv, TypeOK
<1>3. \A s \in Tasks : handle'[s] = "set" \/ (s # job[c] /\ handle'[s] = handle[s])
  BY <1>1 DEF TaskInv, TypeOK
<1>4. \A s \in Born : s # job[c] => handle[s] # "none"
  BY <1>2 DEF RunInv, InHand
<1>5. Born' = Born /\ \A s \in Born' : handle'[s] # "none"
  BY <1>1, <1>3, <1>4, SameBorn DEF Born
<1>6. \A s \in Tasks : Live(s)' <=> Live(s)
  BY <1>1 DEF Live
<1>7. \A s \in Tasks : handle'[s] = "taken" => s \in aborted'
  BY <1>1, <1>3 DEF RunInv
<1> QED BY <1>1, <1>2, <1>5, <1>6, <1>7 DEF RunInv

LEMMA StopActRuns ==
  ASSUME OneHandler, NEW c \in Conns, TaskInv, RunInv, StopAct(c)
  PROVE  RunInv'
<1>1. /\ running' = [running EXCEPT ![job[c]] = FALSE] /\ pc' = [pc EXCEPT ![c] = "logging"]
      /\ current' = current /\ phase' = phase /\ pc[c] = "stopping"
  BY DEF StopAct, Goto
<1>2. /\ job[c] \in Tasks /\ job[c] \in Born /\ pc'[c] = "logging"
      /\ \A d \in Conns : d = c
      /\ ~running'[job[c]] /\ \A s \in Tasks : s # job[c] => running'[s] = running[s]
  BY <1>1 DEF OneHandler, TaskInv, TypeOK, Engaged, Born
<1>3. \A s \in Born : handle[s] # "none"
  BY <1>1, <1>2 DEF RunInv, InHand
<1>4. /\ job[c] \in aborted' /\ aborted \subseteq aborted'
      /\ \A s \in Tasks : handle'[s] = "taken" => s \in aborted'
      /\ \A s \in Born : handle'[s] # "none"
  <2>1. CASE handle[job[c]] = "set"
    <3>1. /\ handle' = [handle EXCEPT ![job[c]] = "taken"] /\ aborted' = aborted \cup {job[c]}
      BY <2>1 DEF StopAct
    <3> QED BY <1>2, <1>3, <3>1 DEF RunInv, TaskInv, TypeOK, Born
  <2>2. CASE handle[job[c]] # "set"
    <3>1. handle' = handle /\ aborted' = aborted
      BY <2>2 DEF StopAct
    <3>2. handle[job[c]] = "taken"
      BY <1>2, <1>3, <2>2 DEF TaskInv, TypeOK
    <3> QED BY <1>2, <1>3, <3>1, <3>2 DEF RunInv
  <2> QED BY <2>1, <2>2
<1>5. Born' = Born /\ \A s \in Tasks : Live(s)' <=> Live(s)
  BY <1>1 DEF Born, Live
<1>6. \A s \in Tasks : running'[s] => s = current'
  BY <1>1, <1>2 DEF RunInv
<1>7. \A s \in Tasks : Live(s)' /\ s \notin aborted' => running'[s]
  BY <1>2, <1>4, <1>5 DEF RunInv
<1>8. \A d \in Conns : pc'[d] \notin {"preparing", "spawning"}
  BY <1>2
<1> QED BY <1>4, <1>5, <1>6, <1>7, <1>8 DEF RunInv

\* A task goes on, and its flag is cleared when its future is no more.
LEMMA TaskRuns ==
  ASSUME NEW t \in Tasks, TaskInv, RunInv, TaskStep(t)
  PROVE  RunInv'
<1>1. /\ current' = current /\ handle' = handle /\ aborted' = aborted /\ pc' = pc /\ job' = job
      /\ Born' = Born
  BY SameBorn DEF TaskStep, TurnEnds, LogEnd, Publish, Exit, Die, connVars
<1>2. /\ Live(t) /\ phase[t] # "registered"
      /\ \A s \in Tasks : s # t => phase'[s] = phase[s] /\ running'[s] = running[s]
      /\ \/ Live(t)' /\ running'[t] = running[t]
         \/ ~Live(t)' /\ ~running'[t]
  BY DEF TaskStep, TurnEnds, LogEnd, Publish, Exit, Die, Live, TaskInv, TypeOK
<1>3. \A s \in Tasks : (running'[s] => running[s]) /\ (Live(s)' => Live(s))
  BY <1>2 DEF Live
<1>4. \A s \in Tasks : running'[s] => s = current'
  BY <1>1, <1>3 DEF RunInv
<1>5. \A s \in Tasks : Live(s)' /\ s \notin aborted' => running'[s]
  BY <1>1, <1>2, <1>3 DEF RunInv
<1>6. \A c \in Conns : pc'[c] = "preparing" => ~Busy'
  <2>1. current = 0 \/ current \in Tasks
    BY Bounds DEF TaskInv, TypeOK, Tasks
  <2>2. Busy' => Busy
    BY <1>1, <1>3, <2>1 DEF Busy
  <2> QED BY <1>1, <2>2 DEF RunInv
<1>7. \A c \in Conns : pc'[c] = "spawning" => phase'[job'[c]] = "registered"
  BY <1>1, <1>2 DEF RunInv, TaskInv, Engaged, Born
<1>8. \A s \in Born' : handle'[s] = "none" => InHand(s)'
  BY <1>1 DEF RunInv, InHand
<1> QED BY <1>1, <1>4, <1>5, <1>6, <1>7, <1>8 DEF RunInv

LEMMA ExpireRuns ==
  ASSUME TaskInv, RunInv, Expire
  PROVE  RunInv'
<1>1. /\ ~running[current] /\ current' = 0 /\ phase' = phase /\ running' = running
      /\ handle' = handle /\ aborted' = aborted /\ pc' = pc /\ job' = job
  BY DEF Expire, connVars
<1>2. \A s \in Tasks : ~running'[s]
  BY <1>1 DEF RunInv
<1>3. Born' = Born /\ ~Busy' /\ \A s : (Live(s)' <=> Live(s)) /\ (InHand(s)' <=> InHand(s))
  BY <1>1 DEF Born, Busy, Live, InHand
<1> QED BY <1>1, <1>2, <1>3 DEF RunInv

LEMMA RunInit == Init => RunInv
BY DEF Init, RunInv, Born, Live, Busy

LEMMA RunNext ==
  ASSUME OneHandler, TaskInv, RunInv, [Next]_vars
  PROVE  RunInv'
<1>1. ASSUME NEW t \in Tasks, TaskStep(t) PROVE RunInv'
  BY <1>1, TaskRuns
<1>2. CASE Expire
  BY <1>2, ExpireRuns
<1>3. ASSUME NEW c \in Conns, Register(c) \/ Spawn(c) \/ SetHandle(c) \/ StopAct(c) \/ Receive(c)
      PROVE  RunInv'
  BY <1>3, RegisterRuns, SpawnRuns, SetHandleRuns, StopActRuns, ReceiveRuns
<1>4. ASSUME NEW c \in Conns, LoadHistory(c) PROVE RunInv'
  <2>1. \/ pc' = [pc EXCEPT ![c] = "resuming"] /\ job' = [job EXCEPT ![c] = current]
        \/ pc' = [pc EXCEPT ![c] = "idle"] /\ job' = job
    BY <1>4 DEF LoadHistory, Goto
  <2>2. pc[c] = "loading" /\ \A d \in Conns : d # c => job'[d] = job[d]
    BY <1>4, <2>1 DEF LoadHistory, TaskInv, TypeOK
  <2>3. /\ current' = current /\ phase' = phase /\ running' = running /\ handle' = handle
        /\ aborted' = aborted
    BY <1>4 DEF LoadHistory, taskVars
  <2> QED BY <2>1, <2>2, <2>3, MoveFrame
<1>5. ASSUME NEW c \in Conns, Connect(c) PROVE RunInv'
  <2>1. \/ pc' = [pc EXCEPT ![c] = "idle"]
        \/ pc' = [pc EXCEPT ![c] = "loading"]
    BY <1>5 DEF Connect, Goto
  <2> QED BY <1>5, <2>1, MoveFrame DEF Connect, taskVars
<1>6. ASSUME NEW c \in Conns, Resume(c) PROVE RunInv'
  BY <1>6, MoveFrame DEF Resume, Goto, TaskInv, TypeOK
<1>7. ASSUME NEW c \in Conns, Refuse(c) \/ Disconnect(c) PROVE RunInv'
  BY <1>7, MoveFrame DEF Refuse, Disconnect, Goto, taskVars
<1>8. ASSUME NEW c \in Conns, StopCheck(c) PROVE RunInv'
  BY <1>8, MoveFrame DEF StopCheck, Goto, taskVars, TaskInv, TypeOK
<1>12. ASSUME NEW c \in Conns, LogStop(c) PROVE RunInv'
  BY <1>12, MoveFrame DEF LogStop, Goto, taskVars, TaskInv, TypeOK
<1>9. ASSUME NEW c \in Conns, ActionStarts(c) \/ ActionEnds(c) PROVE RunInv'
  BY <1>9, MoveFrame DEF ActionStarts, ActionEnds, Goto, taskVars
<1>10. ASSUME NEW c \in Conns, Deliver(c) \/ DeliverStopped(c) PROVE RunInv'
  BY <1>10, RunFrame DEF Deliver, DeliverStopped, taskVars
<1>11. CASE UNCHANGED vars
  BY <1>11, RunFrame DEF vars, taskVars, connVars
<1> QED BY <1>1, <1>2, <1>3, <1>4, <1>5, <1>6, <1>7, <1>8, <1>9, <1>10, <1>11, <1>12
        DEF Next, HandlerStep

THEOREM RunInvariance == ASSUME OneHandler PROVE Spec => []RunInv
<1>1. TaskInv /\ RunInv /\ [Next]_vars => RunInv'
  BY RunNext
<1> QED BY RunInit, <1>1, TaskInvariance, PTL DEF Spec

LEMMA OneAtMost ==
  ASSUME NEW S, NEW x, \A t \in S : t = x
  PROVE  Cardinality(S) <= 1
<1>1. IsFiniteSet({x}) /\ Cardinality({x}) = 1
  BY FS_Singleton
<1>2. S \in SUBSET {x}
  OBVIOUS
<1> QED BY <1>1, <1>2, FS_Subset

\* "Reject a new task while one is already running for this conversation"
\* (ws.rs:501): with one socket the check and the registration, though some
\* awaits apart, let one task run.
THEOREM OneTaskRunsAlways == ASSUME OneHandler PROVE Spec => []OneTaskRuns
<1>1. RunInv => OneTaskRuns
  <2> SUFFICES ASSUME RunInv PROVE Cardinality({t \in Tasks : running[t]}) <= 1
    BY DEF OneTaskRuns
  <2>1. \A t \in {s \in Tasks : running[s]} : t = current
    BY DEF RunInv
  <2> QED BY <2>1, OneAtMost
<1> QED BY <1>1, RunInvariance, PTL

\* And one future works, stopped ones aside: a stop finds the abort handle.
THEOREM OneFutureWorksAlways == ASSUME OneHandler PROVE Spec => []OneFutureWorks
<1>1. RunInv => OneFutureWorks
  <2> SUFFICES ASSUME RunInv PROVE Cardinality({t \in Tasks : Live(t) /\ t \notin aborted}) <= 1
    BY DEF OneFutureWorks
  <2>1. \A t \in {s \in Tasks : Live(s) /\ s \notin aborted} : t = current
    BY DEF RunInv
  <2> QED BY <2>1, OneAtMost
<1> QED BY <1>1, RunInvariance, PTL

-----------------------------------------------------------------------------
(* The task a client is re-attached to.                                    *)

\* The user never says the same twice.
DistinctTexts == \A m, n \in Tasks : Says[m] = Says[n] => m = n

\* Message i of s is the last user message.
IsLastUser(s, i) ==
  /\ s[i].role = "user"
  /\ \A j \in 1 .. Len(s) : j > i => s[j].role # "user"

\* An answered message is not the last that is stored.
AnswerInv ==
  /\ answered \subseteq 1 .. sent
  /\ (\E i \in 1 .. Len(stored) : stored[i].role = "user") =>
       \E i \in 1 .. Len(stored) : IsLastUser(stored, i)
  /\ \A i \in 1 .. Len(stored) : stored[i].role = "user" =>
       \E n \in 1 .. sent : stored[i] = User(n) /\ (n \in answered => i < Len(stored))

\* What is stored grows by message m, which is new if it is the user's.
LEMMA AnswerAppend ==
  ASSUME TypeOK, AnswerInv, NEW m \in Messages, stored' = Append(stored, m),
         sent' \in Nat, sent <= sent', answered' \subseteq 1 .. sent',
         answered \subseteq answered',
         m.role = "user" => \E n \in 1 .. sent' : m = User(n) /\ n \notin answered'
  PROVE  AnswerInv'
<1>1. /\ Len(stored') = Len(stored) + 1 /\ Len(stored) \in Nat /\ sent \in Nat
      /\ stored'[Len(stored) + 1] = m /\ \A i \in 1 .. Len(stored) : stored'[i] = stored[i]
  BY Bounds DEF TypeOK
<1>2. ASSUME NEW i \in 1 .. Len(stored'), stored'[i].role = "user"
      PROVE  \E n \in 1 .. sent' : stored'[i] = User(n) /\ (n \in answered' => i < Len(stored'))
  <2>1. CASE i \in 1 .. Len(stored)
    <3>1. PICK n \in 1 .. sent : stored[i] = User(n)
      BY <1>1, <1>2, <2>1 DEF AnswerInv
    <3>2. n \in 1 .. sent' /\ i < Len(stored')
      BY <1>1, <2>1, <3>1
    <3> QED BY <1>1, <2>1, <3>1, <3>2
  <2>2. CASE i = Len(stored) + 1
    BY <1>1, <1>2, <2>2
  <2> QED BY <1>1, <2>1, <2>2
<1>3. ASSUME NEW i \in 1 .. Len(stored'), stored'[i].role = "user"
      PROVE  \E k \in 1 .. Len(stored') : IsLastUser(stored', k)
  <2>1. CASE m.role = "user"
    BY <1>1, <2>1 DEF IsLastUser
  <2>2. CASE m.role # "user"
    <3>1. i \in 1 .. Len(stored)
      BY <1>1, <1>3, <2>2
    <3>2. PICK k \in 1 .. Len(stored) : IsLastUser(stored, k)
      BY <1>1, <1>3, <3>1 DEF AnswerInv
    <3>3. IsLastUser(stored', k) /\ k \in 1 .. Len(stored')
      BY <1>1, <2>2, <3>2 DEF IsLastUser
    <3> QED BY <3>3
  <2> QED BY <2>1, <2>2
<1> QED BY <1>2, <1>3 DEF AnswerInv

LEMMA SameAnswers ==
  AnswerInv /\ stored' = stored /\ sent' = sent /\ answered' = answered => AnswerInv'
BY DEF AnswerInv

LEMMA AnswerNext ==
  ASSUME TaskInv, AnswerInv, [Next]_vars
  PROVE  AnswerInv'
<1>0. TypeOK /\ sent \in 0 .. MaxMessages /\ sent \in Nat
  BY Bounds DEF TaskInv, TypeOK
<1>1. ASSUME NEW c \in Conns, Receive(c) PROVE AnswerInv'
  <2>1. /\ sent' = sent + 1 /\ stored' = Append(stored, User(sent + 1)) /\ answered' = answered
        /\ sent + 1 \in Tasks
    BY <1>0, <1>1, Bounds DEF Receive, Tasks
  <2>2. User(sent + 1) \in Messages
    BY <2>1, UserTypes
  <2>3. answered \subseteq 1 .. sent' /\ sent + 1 \notin answered
    BY <1>0, <2>1 DEF AnswerInv
  <2> QED BY <1>0, <2>1, <2>2, <2>3, AnswerAppend
<1>2. ASSUME NEW c \in Conns, Deliver(c) PROVE AnswerInv'
  <2>1. follow[c] \in Tasks /\ follow[c] \in Born
    BY <1>2, Bounds DEF TaskInv, TypeOK, Born, Tasks, Deliver
  <2>2. start[follow[c]].n \in 1 .. sent /\ start[follow[c]] \in Messages
    BY <2>1, StartedByUser DEF TaskInv, TypeOK
  <2>3. Output(follow[c]) \in Messages /\ Output(follow[c]).role = "assistant"
    BY <2>1, <2>2, OutputIsReply, ReplyTypes
  <2>4. /\ stored' = Append(stored, Output(follow[c])) /\ sent' = sent
        /\ answered' = answered \cup {start[follow[c]].n}
    BY <1>2 DEF Deliver
  <2>5. answered' \subseteq 1 .. sent'
    BY <2>2, <2>4 DEF AnswerInv
  <2> QED BY <1>0, <2>3, <2>4, <2>5, AnswerAppend
<1>3. ASSUME NEW c \in Conns, DeliverStopped(c) PROVE AnswerInv'
  <2>1. start[follow[c]] \in Messages
    BY <1>3, Bounds DEF TaskInv, TypeOK, Tasks, DeliverStopped
  <2>2. /\ Partial(start[follow[c]]) \in Messages
        /\ Partial(start[follow[c]]).role = "assistant"
    BY <2>1, ReplyTypes
  <2>3. stored' = Append(stored, Partial(start[follow[c]])) \/ stored' = stored
    BY <1>3, Zenon DEF DeliverStopped
  <2>4. sent' = sent /\ answered' = answered /\ answered \subseteq 1 .. sent
    BY <1>3 DEF DeliverStopped, AnswerInv
  <2> QED BY <1>0, <2>2, <2>3, <2>4, AnswerAppend, SameAnswers
<1>4. ASSUME NEW c \in Conns, ActionEnds(c) PROVE AnswerInv'
  <2>1. Answer(asked[c]) \in Messages /\ Answer(asked[c]).role = "assistant"
    BY <1>0, ReplyTypes DEF TypeOK
  <2>2. stored' = Append(stored, Answer(asked[c])) \/ stored' = stored
    BY <1>4, Zenon DEF ActionEnds
  <2>3. sent' = sent /\ answered' = answered /\ answered \subseteq 1 .. sent
    BY <1>4 DEF ActionEnds, AnswerInv
  <2> QED BY <1>0, <2>1, <2>2, <2>3, AnswerAppend, SameAnswers
<1>5. ASSUME NEW c \in Conns,
             LoadHistory(c) \/ Resume(c) \/ Refuse(c) \/ Register(c) \/ Spawn(c) \/ SetHandle(c)
      PROVE  AnswerInv'
  BY <1>5, SameAnswers
     DEF LoadHistory, Resume, Refuse, Register, Spawn, SetHandle, userVars
<1>6. ASSUME NEW c \in Conns,
             \/ StopAct(c) \/ LogStop(c) \/ Connect(c) \/ Disconnect(c) \/ StopCheck(c)
             \/ ActionStarts(c)
      PROVE  AnswerInv'
  BY <1>6, SameAnswers DEF StopAct, LogStop, Connect, Disconnect, StopCheck, ActionStarts, userVars
<1>7. ASSUME NEW t \in Tasks, TaskStep(t) PROVE AnswerInv'
  BY <1>7, SameAnswers DEF TaskStep, TurnEnds, LogEnd, Publish, Exit, Die, userVars
<1>8. CASE Expire
  BY <1>8, SameAnswers DEF Expire, userVars
<1>9. CASE UNCHANGED vars
  BY <1>9, SameAnswers DEF vars, userVars
<1> QED BY <1>1, <1>2, <1>3, <1>4, <1>5, <1>6, <1>7, <1>8, <1>9 DEF Next, HandlerStep

\* Who finds a task that looks like its last message has found its own.
LEMMA ResumableIsUnanswered ==
  ASSUME DistinctTexts, TaskInv, AnswerInv, Resumable
  PROVE  /\ start[current].n \notin answered
         /\ \E i \in 1 .. Len(stored) : IsLastUser(stored, i) /\ stored[i].n = start[current].n
<1>1. /\ stored \in Seq(Messages) /\ DOMAIN stored = 1 .. Len(stored) /\ Len(stored) \in Nat
      /\ sent \in 0 .. MaxMessages
  BY DEF TaskInv, TypeOK
<1>2. \E i \in DOMAIN stored : IsLastUser(stored, i)
  BY <1>1 DEF Resumable, HasUser, AnswerInv
<1>3. LastUser \in 1 .. Len(stored) /\ IsLastUser(stored, LastUser)
  <2>1. \E i \in DOMAIN stored :
          stored[i].role = "user" /\ \A j \in DOMAIN stored : j > i => stored[j].role # "user"
    BY <1>1, <1>2 DEF IsLastUser
  <2>2. /\ LastUser \in DOMAIN stored /\ stored[LastUser].role = "user"
        /\ \A j \in DOMAIN stored : j > LastUser => stored[j].role # "user"
    BY <2>1, Zenon DEF LastUser
  <2> QED BY <1>1, <2>2 DEF IsLastUser
<1>4. LastUser = Len(stored) /\ stored[LastUser].text = start[current].text /\ current # 0
  BY DEF Resumable
<1>5. PICK n \in 1 .. sent : stored[LastUser] = User(n) /\ n \notin answered
  <2>1. PICK n \in 1 .. sent :
          stored[LastUser] = User(n) /\ (n \in answered => LastUser < Len(stored))
    BY <1>1, <1>3 DEF AnswerInv, IsLastUser
  <2> QED BY <1>1, <1>4, <2>1
<1>6. current \in Born
  BY <1>4 DEF TaskInv, Engaged
<1>7. start[current] = User(start[current].n) /\ start[current].n \in Tasks
  BY <1>6, StartedByUser
<1>8. Says[n] = Says[start[current].n]
  <2>1. User(n).text = Says[n] /\ User(start[current].n).text = Says[start[current].n]
    BY DEF User
  <2> QED BY <1>4, <1>5, <1>7, <2>1
<1>9. n \in Tasks
  BY <1>1, <1>5, Bounds DEF Tasks
<1>10. n = start[current].n
  BY <1>7, <1>8, <1>9 DEF DistinctTexts
<1>11. stored[LastUser].n = n
  BY <1>5, <1>9, UserTypes
<1> QED BY <1>3, <1>5, <1>10, <1>11

LEMMA OnlyLoadHistoryResumes ==
  ASSUME TaskInv, Next, NEW c \in Conns, pc[c] = "loading", pc'[c] = "resuming"
  PROVE  LoadHistory(c)
<1>1. ASSUME NEW d \in Conns, NEW l, pc' = [pc EXCEPT ![d] = l], pc[d] # "loading" \/ l # "resuming"
      PROVE  FALSE
  BY <1>1 DEF TaskInv, TypeOK
<1>2. ASSUME pc' = pc PROVE FALSE
  BY <1>2
<1>3. ASSUME NEW t \in Tasks, TaskStep(t) PROVE FALSE
  BY <1>2, <1>3 DEF TaskStep, TurnEnds, LogEnd, Publish, Exit, Die, connVars
<1>4. ~Expire
  BY <1>2 DEF Expire, connVars
<1>5. ASSUME NEW d \in Conns,
             \/ Resume(d) \/ Refuse(d) \/ Register(d) \/ Spawn(d) \/ SetHandle(d) \/ StopAct(d)
             \/ LogStop(d)
      PROVE  FALSE
  BY <1>1, <1>5 DEF Resume, Refuse, Register, Spawn, SetHandle, StopAct, LogStop, Goto
<1>6. ASSUME NEW d \in Conns,
             ActionEnds(d) \/ Disconnect(d) \/ StopCheck(d) \/ ActionStarts(d)
      PROVE  FALSE
  BY <1>1, <1>6 DEF ActionEnds, Disconnect, StopCheck, ActionStarts, Goto
<1>7. ASSUME NEW d \in Conns, Deliver(d) \/ DeliverStopped(d) PROVE FALSE
  BY <1>2, <1>7 DEF Deliver, DeliverStopped
<1>8. ASSUME NEW d \in Conns, Connect(d) PROVE FALSE
  <2>1. PICK l : pc' = [pc EXCEPT ![d] = l] /\ l # "resuming"
    BY <1>8 DEF Connect, Goto
  <2> QED BY <1>1, <2>1
<1>9. ASSUME NEW d \in Conns, Receive(d) PROVE FALSE
  <2>1. pc' = pc \/ pc' = [pc EXCEPT ![d] = "preparing"]
    BY <1>9 DEF Receive, Goto
  <2> QED BY <1>1, <1>2, <2>1
<1>10. ASSUME NEW d \in Conns, LoadHistory(d) PROVE LoadHistory(c)
  <2>1. PICK l : pc' = [pc EXCEPT ![d] = l]
    BY <1>10 DEF LoadHistory, Goto
  <2>2. d = c
    BY <2>1 DEF TaskInv, TypeOK
  <2> QED BY <1>10, <2>2
<1> QED BY <1>3, <1>4, <1>5, <1>6, <1>7, <1>8, <1>9, <1>10 DEF Next, HandlerStep

LEMMA AnswerInvariance == Spec => []AnswerInv
<1>1. Init => AnswerInv
  BY DEF Init, AnswerInv
<1>2. TaskInv /\ AnswerInv /\ [Next]_vars => AnswerInv'
  BY AnswerNext
<1> QED BY <1>1, <1>2, TaskInvariance, PTL DEF Spec

\* ws.rs:445-449: the task a client is re-attached to, which is found by its
\* text, is the one of its last message, if the user never says the same twice.
THEOREM ResumesOwnTaskAlways == ASSUME DistinctTexts PROVE Spec => ResumesOwnTask
<1>1. TaskInv /\ AnswerInv /\ [Next]_vars =>
        [\A c \in Conns : pc[c] = "loading" /\ pc'[c] = "resuming" =>
           start[follow'[c]].n \notin answered]_vars
  <2> SUFFICES ASSUME TaskInv, AnswerInv, Next, NEW c \in Conns,
                      pc[c] = "loading", pc'[c] = "resuming"
               PROVE  start[follow'[c]].n \notin answered
    OBVIOUS
  <2>1. LoadHistory(c)
    BY OnlyLoadHistoryResumes
  <2>2. Resumable /\ follow'[c] = current
    BY <2>1 DEF LoadHistory, Goto, TaskInv, TypeOK
  <2> QED BY <2>2, ResumableIsUnanswered
<1> QED BY <1>1, TaskInvariance, AnswerInvariance, PTL DEF Spec, ResumesOwnTask

-----------------------------------------------------------------------------
(* One handler: what the user has been shown is not forgotten.             *)

\* The hypotheses of ConversationSolo: one connection at a time, no message
\* twice, no idle hour and no reminder action.
Undisturbed == OneHandler /\ DistinctTexts /\ ~Expiry /\ MaxActions = 0

\* The messages of tasks whose history will not come, or went elsewhere.
Lost == {start[s].n : s \in stopped \cup spent}

\* History h has the answers of g, but for those to the messages in L.
Covers(h, g, L) == \A m \in Answers(g) : m \in Answers(h) \/ m.n \in L

\* The handler has taken up the conversation.
Serving(c) == pc[c] \notin {"gone", "loading"}

\* The handler knows of one task, the registered one.
FollowsCurrent ==
  \A c \in Conns :
    /\ pc[c] # "acting"
    /\ pc[c] = "loading" => follow[c] = 0
    /\ follow[c] # 0 => follow[c] = current
    /\ pc[c] = "resuming" => current # 0 /\ job[c] = current /\ follow[c] = current

\* What is handed over is the history the task ended with; the flag of a future
\* that has not ended was cleared by a stop; and what is lost was made.
Results ==
  /\ \A t \in Tasks : final[t] # <<>> =>
       phase[t] \in {"published", "ended"} /\ final[t][1] = work[t]
  /\ \A t \in Tasks : Live(t) /\ ~running[t] => t \in stopped
  /\ stopped \cup spent \subseteq Born

\* What was answered is stored, and the last user message is the last sent.
StoredAnswers ==
  /\ \A n \in answered : \E t \in Born : start[t].n = n
  /\ \A t \in Born : start[t].n \in answered =>
       phase[t] \in {"ending", "answered", "published", "ended"} /\ Output(t) \in Elems(stored)
  /\ \A i \in 1 .. Len(stored) : IsLastUser(stored, i) => stored[i].n = sent

\* The registered task has every answer that is stored or that its handler has.
WorkCovers ==
  current # 0 =>
    /\ Covers(work[current], stored, Lost)
    /\ \A c \in Conns : Serving(c) => Covers(work[current], hist[c], Lost)

\* The message of the registered task, if its history is still to be adopted.
Expected ==
  {start[t].n : t \in {t \in Tasks : t = current /\ (phase[t] \in {"ending", "answered"} \/ final[t] # <<>>)}}

\* A handler has every answer that is stored, but for one it is about to adopt;
\* and all of them when it makes the next task.
HistoryCovers ==
  \A c \in Conns : Serving(c) =>
    /\ Covers(hist[c], stored, Lost \cup Expected)
    /\ pc[c] = "preparing" => Covers(hist[c], stored, Lost)

\* A history that was taken is with the handler that follows its task; or its
\* answer is stored, or it is lost, or the user has gone on.
TakenIsKept ==
  current # 0 /\ HandedOut(current) /\ current \notin stopped \cup spent =>
    /\ \A c \in Conns : Serving(c) /\ follow[c] = current => Covers(hist[c], work[current], Lost)
    /\ start[current].n = sent =>
         sent \in answered \/ \E c \in Conns : Serving(c) /\ follow[c] = current

KeepInv ==
  FollowsCurrent /\ Results /\ StoredAnswers /\ WorkCovers /\ HistoryCovers /\ TakenIsKept

-----------------------------------------------------------------------------
\* The answers of a history that grows.
LEMMA ElemsAppend ==
  ASSUME NEW h \in Seq(Messages), NEW m \in Messages
  PROVE  Elems(Append(h, m)) = Elems(h) \cup {m}
<1>1. PICK g : g = Append(h, m)
  OBVIOUS
<1>2. /\ DOMAIN g = 1 .. Len(h) + 1 /\ DOMAIN h = 1 .. Len(h) /\ Len(h) \in Nat
      /\ g[Len(h) + 1] = m /\ \A i \in 1 .. Len(h) : g[i] = h[i]
  BY <1>1
<1>3. Elems(g) = Elems(h) \cup {m}
  BY <1>2 DEF Elems
<1> QED BY <1>1, <1>3

LEMMA NoAnswers == Answers(<<>>) = {}
BY DEF Answers, Elems

LEMMA AnswersAppend ==
  ASSUME NEW h \in Seq(Messages), NEW m \in Messages
  PROVE  \A x : x \in Answers(Append(h, m)) <=>
           x \in Answers(h) \/ (x = m /\ m.role = "assistant" /\ m.text # "fallback")
BY ElemsAppend DEF Answers

LEMMA CoversItself == \A h, L : Covers(h, h, L)
BY DEF Covers

LEMMA CoversNothing == \A h, L : Covers(h, <<>>, L)
BY NoAnswers DEF Covers

LEMMA CoversMore == \A h, g, L, M : Covers(h, g, L) /\ L \subseteq M => Covers(h, g, M)
BY DEF Covers

LEMMA CoversLonger ==
  ASSUME NEW h \in Seq(Messages), NEW m \in Messages, NEW g, NEW L, Covers(h, g, L)
  PROVE  Covers(Append(h, m), g, L)
BY AnswersAppend DEF Covers

LEMMA CoversAppend ==
  ASSUME NEW g \in Seq(Messages), NEW m \in Messages, NEW h, NEW L, Covers(h, g, L),
         m.role = "assistant" /\ m.text # "fallback" => m \in Answers(h) \/ m.n \in L
  PROVE  Covers(h, Append(g, m), L)
BY AnswersAppend DEF Covers

\* What was lost stays lost.
LEMMA LostKept ==
  ASSUME Results, stopped \subseteq stopped', spent \subseteq spent',
         \A s \in Born : start'[s] = start[s]
  PROVE  Lost \subseteq Lost'
BY DEF Lost, Results

\* The steps of a task and of its handler that leave the histories alone.
LEMMA KeepFrame ==
  ASSUME OneHandler, TaskInv, KeepInv,
         /\ current' = current /\ start' = start /\ work' = work /\ final' = final
         /\ hist' = hist /\ follow' = follow
         /\ stored' = stored /\ sent' = sent /\ answered' = answered /\ spent' = spent,
         stopped \subseteq stopped', stopped' \subseteq Born, Born' = Born,
         \A t \in Tasks :
           \/ phase'[t] = phase[t]
           \/ phase[t] \in {"registered", "running"} /\ phase'[t] \in {"running", "aborted", "panicked"}
           \/ phase[t] = "ending" /\ phase'[t] = "answered"
           \/ phase[t] = "published" /\ phase'[t] = "ended",
         \A t \in Tasks : Live(t)' /\ ~running'[t] => t \in stopped',
         \A c \in Conns : \/ pc'[c] = pc[c] /\ job'[c] = job[c]
                          \/ Serving(c) /\ pc'[c] \in {"idle", "handing", "stopping", "logging"}
  PROVE  KeepInv'
<1>1. Lost \subseteq Lost'
  BY LostKept DEF KeepInv
<1>2. FollowsCurrent'
  BY DEF KeepInv, FollowsCurrent
<1>3. Results'
  BY DEF KeepInv, Results
<1>4. StoredAnswers'
  <2>1. \A t \in Born : phase[t] \in {"ending", "answered", "published", "ended"} =>
          phase'[t] \in {"ending", "answered", "published", "ended"}
    BY DEF Born
  <2> QED BY <2>1 DEF KeepInv, StoredAnswers, Output
<1>5. \A c \in Conns : /\ Serving(c)' <=> Serving(c)
                       /\ pc'[c] = "preparing" => pc[c] = "preparing"
  BY DEF Serving
<1>6. WorkCovers'
  BY <1>1, <1>5, CoversMore DEF KeepInv, WorkCovers
<1>7. Expected' = Expected
  BY DEF Expected
<1>8. HistoryCovers'
  BY <1>1, <1>5, <1>7, CoversMore DEF KeepInv, HistoryCovers
<1>9. current # 0 /\ HandedOut(current)' => HandedOut(current)
  <2>1. current # 0 => current \in Tasks
    BY Bounds DEF TaskInv, TypeOK, Tasks
  <2> QED BY <2>1 DEF HandedOut
<1>10. TakenIsKept'
  BY <1>1, <1>5, <1>9, CoversMore DEF KeepInv, TakenIsKept, HandedOut
<1> QED BY <1>2, <1>3, <1>4, <1>6, <1>8, <1>10 DEF KeepInv

LEMMA PlaceKeeps ==
  ASSUME OneHandler, TaskInv, KeepInv, NEW c \in Conns,
         Refuse(c) \/ SetHandle(c) \/ StopCheck(c) \/ LogStop(c)
  PROVE  KeepInv'
<1>1. \E l \in {"idle", "stopping"} : pc' = [pc EXCEPT ![c] = l]
  BY DEF Refuse, SetHandle, StopCheck, LogStop, Goto
<1>2. \A d \in Conns : d = c
  BY DEF OneHandler
<1>3. /\ current' = current /\ start' = start /\ work' = work /\ final' = final
      /\ hist' = hist /\ follow' = follow /\ phase' = phase /\ running' = running
      /\ stored' = stored /\ sent' = sent /\ answered' = answered /\ spent' = spent
      /\ stopped' = stopped /\ Serving(c)
  BY DEF Refuse, SetHandle, StopCheck, LogStop, Serving, taskVars, userVars
<1>4. Born' = Born /\ stopped' \subseteq Born /\ \A t \in Tasks : Live(t)' /\ ~running'[t] => t \in stopped'
  BY <1>3 DEF Born, Live, KeepInv, Results
<1>5. pc'[c] \in {"idle", "handing", "stopping", "logging"}
  BY <1>1 DEF TaskInv, TypeOK
<1> QED BY <1>2, <1>3, <1>4, <1>5, KeepFrame

LEMMA StopActKeeps ==
  ASSUME OneHandler, TaskInv, KeepInv, NEW c \in Conns, StopAct(c)
  PROVE  KeepInv'
<1>1. pc' = [pc EXCEPT ![c] = "logging"] /\ \A d \in Conns : d = c
  BY DEF StopAct, Goto, OneHandler
<1>2. /\ current' = current /\ start' = start /\ work' = work /\ final' = final
      /\ hist' = hist /\ follow' = follow /\ phase' = phase
      /\ stored' = stored /\ sent' = sent /\ answered' = answered /\ spent' = spent
      /\ stopped' = stopped \cup {job[c]} /\ running' = [running EXCEPT ![job[c]] = FALSE]
      /\ Serving(c) /\ job[c] \in Born
  BY DEF StopAct, Serving, userVars, TaskInv, Engaged
<1>3. Born' = Born /\ stopped' \subseteq Born
  BY <1>2 DEF Born, KeepInv, Results
<1>4. \A t \in Tasks : Live(t)' /\ ~running'[t] => t \in stopped'
  BY <1>2 DEF Live, TaskInv, TypeOK, KeepInv, Results
<1>5. pc'[c] \in {"idle", "handing", "stopping", "logging"}
  BY <1>1 DEF TaskInv, TypeOK
<1> QED BY <1>1, <1>2, <1>3, <1>4, <1>5, KeepFrame

LEMMA SpawnKeeps ==
  ASSUME OneHandler, TaskInv, RunInv, KeepInv, NEW c \in Conns, Spawn(c)
  PROVE  KeepInv'
<1>1. pc' = [pc EXCEPT ![c] = "handing"] /\ \A d \in Conns : d = c
  BY DEF Spawn, Goto, OneHandler
<1>2. /\ current' = current /\ start' = start /\ work' = work /\ final' = final
      /\ hist' = hist /\ follow' = follow /\ running' = running
      /\ stored' = stored /\ sent' = sent /\ answered' = answered /\ spent' = spent
      /\ stopped' = stopped /\ phase' = [phase EXCEPT ![job[c]] = "running"]
      /\ Serving(c) /\ job[c] \in Born /\ phase[job[c]] = "registered"
  BY DEF Spawn, Serving, userVars, TaskInv, Engaged, RunInv
<1>3. Born' = Born /\ stopped' \subseteq Born
  BY <1>2 DEF Born, TaskInv, TypeOK, KeepInv, Results
<1>4. \A t \in Tasks : /\ Live(t)' /\ ~running'[t] => t \in stopped'
                       /\ phase'[t] = phase[t] \/ (phase[t] = "registered" /\ phase'[t] = "running")
  BY <1>2 DEF Live, TaskInv, TypeOK, KeepInv, Results
<1>5. pc'[c] \in {"idle", "handing", "stopping", "logging"}
  BY <1>1 DEF TaskInv, TypeOK
<1> QED BY <1>1, <1>2, <1>3, <1>4, <1>5, KeepFrame

LEMMA EndKeeps ==
  ASSUME OneHandler, TaskInv, KeepInv, NEW t \in Tasks, LogEnd(t) \/ Exit(t) \/ Die(t)
  PROVE  KeepInv'
<1>1. /\ current' = current /\ start' = start /\ work' = work /\ final' = final
      /\ hist' = hist /\ follow' = follow
      /\ stored' = stored /\ sent' = sent /\ answered' = answered /\ spent' = spent
      /\ stopped' = stopped /\ pc' = pc /\ job' = job
  BY DEF LogEnd, Exit, Die, connVars, userVars
<1>2. \/ /\ phase[t] = "ending" /\ phase' = [phase EXCEPT ![t] = "answered"]
         /\ running' = running
      \/ /\ \/ phase[t] = "published" /\ phase' = [phase EXCEPT ![t] = "ended"]
            \/ phase[t] = "running" /\ phase' = [phase EXCEPT ![t] = "aborted"]
            \/ phase[t] = "running" /\ phase' = [phase EXCEPT ![t] = "panicked"]
         /\ running' = [running EXCEPT ![t] = FALSE]
  BY DEF LogEnd, Exit, Die
<1>3. Born' = Born /\ stopped' \subseteq Born
  BY <1>1, <1>2 DEF Born, TaskInv, TypeOK, KeepInv, Results
<1>4. ASSUME NEW s \in Tasks, Live(s)', ~running'[s] PROVE s \in stopped'
  <2>1. Live(s) /\ ~running[s]
    <3>1. CASE s = t
      BY <1>2, <1>4, <3>1 DEF Live, TaskInv, TypeOK
    <3>2. CASE s # t
      BY <1>2, <1>4, <3>2 DEF Live, TaskInv, TypeOK
    <3> QED BY <3>1, <3>2
  <2> QED BY <1>1, <2>1 DEF KeepInv, Results
<1>5. \A s \in Tasks :
        \/ phase'[s] = phase[s]
        \/ phase[s] \in {"registered", "running"} /\ phase'[s] \in {"running", "aborted", "panicked"}
        \/ phase[s] = "ending" /\ phase'[s] = "answered"
        \/ phase[s] = "published" /\ phase'[s] = "ended"
  BY <1>1, <1>2 DEF TaskInv, TypeOK
<1>6. \A c \in Conns : pc'[c] = pc[c] /\ job'[c] = job[c]
  BY <1>1
<1> QED BY <1>1, <1>3, <1>4, <1>5, <1>6, KeepFrame

LEMMA StutterKeeps ==
  ASSUME OneHandler, TaskInv, KeepInv, UNCHANGED vars
  PROVE  KeepInv'
<1>1. Born' = Born /\ stopped' \subseteq Born /\ \A t \in Tasks : Live(t)' /\ ~running'[t] => t \in stopped'
  BY DEF Born, Live, KeepInv, Results, vars, taskVars, connVars, userVars
<1> QED BY <1>1, KeepFrame DEF vars, taskVars, connVars, userVars

-----------------------------------------------------------------------------
\* The steps that change the histories, one by one.
LEMMA ConnectKeeps ==
  ASSUME OneHandler, TaskInv, KeepInv, NEW c \in Conns, Connect(c)
  PROVE  KeepInv'
<1>1. /\ \A d \in Conns : d = c
      /\ pc[c] = "gone" /\ hist[c] = <<>> /\ follow[c] = 0
  BY DEF OneHandler, Connect, TaskInv, TypeOK
<1>2. /\ current' = current /\ start' = start /\ work' = work /\ final' = final
      /\ hist' = hist /\ follow' = follow /\ phase' = phase /\ running' = running
      /\ stored' = stored /\ sent' = sent /\ answered' = answered /\ spent' = spent
      /\ stopped' = stopped /\ job' = job
      /\ (pc'[c] = "idle" /\ stored = <<>>) \/ pc'[c] = "loading"
  BY DEF Connect, Goto, taskVars, TaskInv, TypeOK
<1>3. FollowsCurrent'
  BY <1>1, <1>2 DEF KeepInv, FollowsCurrent
<1>4. Results' /\ StoredAnswers' /\ Lost' = Lost /\ Expected' = Expected
  BY <1>2 DEF KeepInv, Results, StoredAnswers, Live, Born, Output, Lost, Expected
<1>5. WorkCovers'
  BY <1>1, <1>2, <1>4, CoversNothing DEF KeepInv, WorkCovers
<1>6. HistoryCovers'
  BY <1>1, <1>2, <1>4, CoversNothing DEF KeepInv, HistoryCovers, Serving
<1>7. TakenIsKept'
  BY <1>1, <1>2, <1>4 DEF KeepInv, TakenIsKept, HandedOut, Serving
<1> QED BY <1>3, <1>4, <1>5, <1>6, <1>7 DEF KeepInv

LEMMA LoadHistoryKeeps ==
  ASSUME Undisturbed, TaskInv, AnswerInv, KeepInv, NEW c \in Conns, LoadHistory(c)
  PROVE  KeepInv'
<1>1. /\ \A d \in Conns : d = c
      /\ pc[c] = "loading"
  BY DEF Undisturbed, OneHandler, LoadHistory
<1>2. /\ current' = current /\ start' = start /\ work' = work /\ final' = final
      /\ phase' = phase /\ running' = running
      /\ stored' = stored /\ sent' = sent /\ answered' = answered /\ spent' = spent
      /\ stopped' = stopped /\ hist'[c] = stored
  BY DEF LoadHistory, taskVars, userVars, TaskInv, TypeOK
<1>3. \/ /\ Resumable /\ pc'[c] = "resuming" /\ follow'[c] = current /\ job'[c] = current
      \/ pc'[c] = "idle" /\ follow'[c] = 0
  BY DEF LoadHistory, Goto, TaskInv, TypeOK
<1>4. FollowsCurrent'
  BY <1>1, <1>2, <1>3 DEF FollowsCurrent, Resumable
<1>5. Results' /\ StoredAnswers' /\ Lost' = Lost /\ Expected' = Expected
  BY <1>2 DEF KeepInv, Results, StoredAnswers, Live, Born, Output, Lost, Expected
<1>6. WorkCovers'
  BY <1>1, <1>2, <1>5 DEF KeepInv, WorkCovers
<1>7. HistoryCovers'
  BY <1>1, <1>2, <1>3, <1>5, CoversItself DEF HistoryCovers
<1>8. current # 0 /\ HandedOut(current) /\ current \notin stopped \cup spent =>
        (start[current].n = sent => sent \in answered)
  BY <1>1 DEF KeepInv, TakenIsKept, Serving
<1>9. Resumable => start[current].n = sent /\ start[current].n \notin answered /\ current # 0
  BY ResumableIsUnanswered DEF Undisturbed, KeepInv, StoredAnswers, Resumable
<1>10. TakenIsKept'
  <2>1. CASE Resumable
    BY <1>2, <1>8, <1>9, <2>1 DEF TakenIsKept, HandedOut
  <2>2. CASE ~Resumable
    BY <1>1, <1>2, <1>3, <1>8, <2>2 DEF TakenIsKept, HandedOut
  <2> QED BY <2>1, <2>2
<1> QED BY <1>4, <1>5, <1>6, <1>7, <1>10 DEF KeepInv

\* What taking the history of the registered task changes.
LEMMA TakeIsAdoption ==
  ASSUME TaskInv, KeepInv, NEW h, Take(current)
  PROVE  \/ /\ current # 0 /\ ~running[current] /\ final[current] # <<>>
            /\ Adopted(current, h) = work[current]
            /\ final' = [final EXCEPT ![current] = <<>>]
         \/ /\ ~(current # 0 /\ ~running[current] /\ final[current] # <<>>)
            /\ Adopted(current, h) = h
            /\ final' = final
<1>1. current # 0 => current \in Tasks
  BY Bounds DEF TaskInv, TypeOK, Tasks
<1>2. CASE current # 0 /\ ~running[current] /\ final[current] # <<>>
  BY <1>1, <1>2 DEF Take, Adopted, KeepInv, Results
<1>3. CASE current # 0 /\ ~running[current] /\ final[current] = <<>>
  BY <1>1, <1>3 DEF Take, Adopted, TaskInv, TypeOK
<1>4. CASE ~(current # 0 /\ ~running[current])
  BY <1>4 DEF Take, Adopted
<1> QED BY <1>2, <1>3, <1>4

LEMMA ResumeKeeps ==
  ASSUME OneHandler, TaskInv, KeepInv, NEW c \in Conns, Resume(c)
  PROVE  KeepInv'
<1>1. /\ \A d \in Conns : d = c
      /\ pc[c] = "resuming" /\ job[c] = current /\ follow[c] = current /\ current \in Tasks
  BY Bounds DEF OneHandler, Resume, KeepInv, FollowsCurrent, TaskInv, TypeOK, Tasks
<1>2. /\ current' = current /\ start' = start /\ work' = work
      /\ phase' = phase /\ running' = running /\ follow' = follow
      /\ stored' = stored /\ sent' = sent /\ answered' = answered /\ spent' = spent
      /\ stopped' = stopped /\ pc'[c] = "idle"
  BY DEF Resume, Goto, userVars, TaskInv, TypeOK
<1>3. hist'[c] = Adopted(current, hist[c]) /\ Take(current)
  BY <1>1 DEF Resume, TaskInv, TypeOK
<1>4. FollowsCurrent'
  BY <1>1, <1>2 DEF KeepInv, FollowsCurrent
<1>5. StoredAnswers' /\ Lost' = Lost
  BY <1>2 DEF KeepInv, StoredAnswers, Born, Output, Lost
<1>6. Serving(c) /\ Serving(c)'
  BY <1>1, <1>2 DEF Serving
<1>7. CASE hist'[c] = work[current] /\ final' = [final EXCEPT ![current] = <<>>]
  <2>1. Results'
    BY <1>1, <1>2, <1>7 DEF KeepInv, Results, Live, Born, TaskInv, TypeOK
  <2>2. WorkCovers'
    BY <1>1, <1>2, <1>5, <1>7, CoversItself DEF KeepInv, WorkCovers
  <2>3. Covers(hist'[c], stored', Lost')
    BY <1>1, <1>2, <1>5, <1>7 DEF KeepInv, WorkCovers, Tasks
  <2>4. HistoryCovers'
    BY <1>1, <2>3, CoversMore DEF HistoryCovers
  <2>5. TakenIsKept'
    BY <1>1, <1>2, <1>6, <1>7, CoversItself DEF TakenIsKept
  <2> QED BY <1>4, <1>5, <2>1, <2>2, <2>4, <2>5 DEF KeepInv
<1>8. CASE hist'[c] = hist[c] /\ final' = final
  <2>1. Results' /\ Expected' = Expected
    BY <1>2, <1>8 DEF KeepInv, Results, Live, Born, Expected
  <2>2. WorkCovers'
    BY <1>1, <1>2, <1>5, <1>6, <1>8 DEF KeepInv, WorkCovers
  <2>3. HistoryCovers'
    BY <1>1, <1>2, <1>5, <1>6, <1>8, <2>1 DEF KeepInv, HistoryCovers
  <2>4. TakenIsKept'
    BY <1>1, <1>2, <1>5, <1>6, <1>8 DEF KeepInv, TakenIsKept, HandedOut
  <2> QED BY <1>4, <1>5, <2>1, <2>2, <2>3, <2>4 DEF KeepInv
<1> QED BY <1>3, <1>7, <1>8, TakeIsAdoption

LEMMA DisconnectKeeps ==
  ASSUME OneHandler, TaskInv, KeepInv, NEW c \in Conns, Disconnect(c)
  PROVE  KeepInv'
<1>1. /\ \A d \in Conns : d = c
      /\ pc[c] \in {"loading", "idle", "preparing"}
  BY DEF OneHandler, Disconnect
<1>2. /\ current' = current /\ start' = start /\ work' = work /\ final' = final
      /\ phase' = phase /\ running' = running
      /\ stored' = stored /\ sent' = sent /\ answered' = answered
      /\ stopped' = stopped /\ pc'[c] = "gone" /\ follow'[c] = 0
      /\ spent' = IF HandedOut(follow[c]) THEN spent \cup {follow[c]} ELSE spent
  BY DEF Disconnect, Goto, taskVars, TaskInv, TypeOK
<1>3. HandedOut(follow[c]) => follow[c] \in Born
  <2>1. follow[c] # 0 => follow[c] \in Tasks
    BY Bounds DEF TaskInv, TypeOK, Tasks
  <2> QED BY <2>1 DEF HandedOut, Born
<1>4. FollowsCurrent'
  BY <1>1, <1>2 DEF FollowsCurrent
<1>5. Results' /\ StoredAnswers'
  BY <1>2, <1>3 DEF KeepInv, Results, StoredAnswers, Live, Born, Output
<1>6. Lost \subseteq Lost'
  BY <1>2, LostKept DEF KeepInv
<1>7. ~Serving(c)'
  BY <1>2 DEF Serving
<1>8. WorkCovers'
  BY <1>1, <1>2, <1>6, <1>7, CoversMore DEF KeepInv, WorkCovers
<1>9. HistoryCovers'
  BY <1>1, <1>7 DEF HistoryCovers
<1>10. TakenIsKept'
  BY <1>1, <1>2, <1>7 DEF KeepInv, TakenIsKept, HandedOut
<1> QED BY <1>4, <1>5, <1>8, <1>9, <1>10 DEF KeepInv

\* The last user message stays the last while answers are stored.
LEMMA LastUserStays ==
  ASSUME TypeOK, NEW m \in Messages, m.role = "assistant", stored' = Append(stored, m),
         sent' = sent, \A i \in 1 .. Len(stored) : IsLastUser(stored, i) => stored[i].n = sent
  PROVE  \A i \in 1 .. Len(stored') : IsLastUser(stored', i) => stored'[i].n = sent'
<1>1. /\ Len(stored') = Len(stored) + 1 /\ Len(stored) \in Nat
      /\ stored'[Len(stored) + 1] = m /\ \A i \in 1 .. Len(stored) : stored'[i] = stored[i]
  BY DEF TypeOK
<1>2. SUFFICES ASSUME NEW i \in 1 .. Len(stored'), IsLastUser(stored', i)
               PROVE  stored'[i].n = sent'
  OBVIOUS
<1>3. stored'[i].role = "user"
  BY <1>2 DEF IsLastUser
<1>4. i \in 1 .. Len(stored)
  BY <1>1, <1>3
<1>5. IsLastUser(stored, i)
  BY <1>1, <1>2, <1>4 DEF IsLastUser
<1> QED BY <1>1, <1>4, <1>5

LEMMA ReceiveKeeps ==
  ASSUME OneHandler, TaskInv, KeepInv, NEW c \in Conns, Receive(c)
  PROVE  KeepInv'
<1>0. /\ sent \in Nat /\ sent + 1 \in Tasks /\ stored \in Seq(Messages)
      /\ User(sent + 1) \in Messages
      /\ User(sent + 1).role = "user" /\ User(sent + 1).n = sent + 1
  <2>1. sent \in Nat /\ sent + 1 \in Tasks /\ stored \in Seq(Messages)
    BY Bounds DEF Receive, TaskInv, TypeOK, Tasks
  <2> QED BY <2>1, UserTypes
<1>1. /\ \A d \in Conns : d = c
      /\ pc[c] = "idle"
  BY DEF OneHandler, Receive
<1>2. /\ current' = current /\ start' = start /\ work' = work
      /\ phase' = phase /\ running' = running /\ follow' = follow /\ job' = job
      /\ stored' = Append(stored, User(sent + 1)) /\ sent' = sent + 1
      /\ answered' = answered /\ spent' = spent /\ stopped' = stopped
  BY DEF Receive
<1>3. \/ Busy /\ pc'[c] = "idle" /\ hist' = hist /\ final' = final
      \/ /\ ~Busy /\ pc'[c] = "preparing"
         /\ hist'[c] = Adopted(current, hist[c]) /\ Take(current)
  BY <1>1 DEF Receive, Goto, TaskInv, TypeOK
<1>4. FollowsCurrent'
  BY <1>1, <1>2, <1>3 DEF KeepInv, FollowsCurrent
<1>5. Lost' = Lost /\ Born' = Born /\ Serving(c) /\ Serving(c)'
  BY <1>1, <1>2, <1>3 DEF Lost, Born, Serving
<1>6. StoredAnswers'
  <2>1. PICK s : s = stored'
    OBVIOUS
  <2>2. /\ Len(s) = Len(stored) + 1 /\ Len(stored) \in Nat
        /\ s[Len(stored) + 1] = User(sent + 1)
    BY <1>0, <1>2, <2>1
  <2>3. \A i \in 1 .. Len(s) : IsLastUser(s, i) => s[i].n = sent + 1
    <3>1. SUFFICES ASSUME NEW i \in 1 .. Len(s), IsLastUser(s, i) PROVE s[i].n = sent + 1
      OBVIOUS
    <3>2. ~(Len(stored) + 1 > i)
      BY <1>0, <2>2, <3>1 DEF IsLastUser
    <3>3. i = Len(stored) + 1
      BY <2>2, <3>1, <3>2
    <3> QED BY <1>0, <2>2, <3>3
  <2>4. Elems(stored) \subseteq Elems(stored')
    BY <1>0, <1>2, ElemsAppend
  <2>5. \A t \in Born : Output(t)' = Output(t)
    BY <1>2 DEF Output
  <2> QED BY <1>2, <1>5, <2>1, <2>3, <2>4, <2>5 DEF KeepInv, StoredAnswers
<1>7. \A h, L : Covers(h, stored, L) => Covers(h, stored', L)
  BY <1>0, <1>2, CoversAppend
<1>8. current # 0 => start'[current].n # sent'
  <2>1. current # 0 => current \in Born
    BY DEF TaskInv, Engaged
  <2>2. current # 0 => start[current].n \in 1 .. sent
    BY <2>1, StartedByUser
  <2> QED BY <1>0, <1>2, <2>2
<1>9. CASE Busy /\ pc'[c] = "idle" /\ hist' = hist /\ final' = final
  <2>1. Results' /\ Expected' = Expected
    BY <1>2, <1>5, <1>9 DEF KeepInv, Results, Live, Expected
  <2>2. WorkCovers'
    BY <1>1, <1>2, <1>5, <1>7, <1>9 DEF KeepInv, WorkCovers
  <2>3. HistoryCovers'
    BY <1>1, <1>2, <1>5, <1>7, <1>9, <2>1 DEF KeepInv, HistoryCovers
  <2>4. TakenIsKept'
    BY <1>1, <1>2, <1>5, <1>8, <1>9 DEF KeepInv, TakenIsKept, HandedOut
  <2> QED BY <1>4, <1>6, <2>1, <2>2, <2>3, <2>4 DEF KeepInv
<1>10. CASE /\ hist'[c] = work[current] /\ final' = [final EXCEPT ![current] = <<>>]
            /\ current # 0 /\ pc'[c] = "preparing"
  <2>1. current \in Tasks
    BY <1>10, Bounds DEF TaskInv, TypeOK, Tasks
  <2>2. Results'
    BY <1>1, <1>2, <1>5, <1>10, <2>1 DEF KeepInv, Results, Live, TaskInv, TypeOK
  <2>3. WorkCovers'
    BY <1>1, <1>2, <1>5, <1>7, <1>10, CoversItself DEF KeepInv, WorkCovers
  <2>4. Covers(hist'[c], stored', Lost')
    BY <1>5, <1>7, <1>10 DEF KeepInv, WorkCovers
  <2>5. HistoryCovers'
    BY <1>1, <2>4, CoversMore DEF HistoryCovers
  <2>6. TakenIsKept'
    BY <1>1, <1>2, <1>8, <1>10, CoversItself DEF TakenIsKept
  <2> QED BY <1>4, <1>6, <2>2, <2>3, <2>5, <2>6 DEF KeepInv
<1>11. CASE /\ ~(current # 0 /\ ~running[current] /\ final[current] # <<>>)
            /\ hist'[c] = hist[c] /\ final' = final /\ ~Busy /\ pc'[c] = "preparing"
  <2>1. Results' /\ Expected' = Expected
    BY <1>2, <1>5, <1>11 DEF KeepInv, Results, Live, Expected
  <2>2. WorkCovers'
    BY <1>1, <1>2, <1>5, <1>7, <1>11 DEF KeepInv, WorkCovers
  <2>3. Expected \subseteq Lost
    <3>1. SUFFICES ASSUME NEW t \in Tasks, t = current, phase[t] \in {"ending", "answered"} \/ final[t] # <<>>
                   PROVE  start[t].n \in Lost
      BY DEF Expected
    <3>2. ~running[t] /\ phase[t] \in {"ending", "answered"}
      BY <1>11, <3>1, Bounds DEF Busy, Tasks
    <3>3. t \in stopped
      BY <3>2 DEF KeepInv, Results, Live
    <3> QED BY <3>3 DEF Lost
  <2>4. Covers(hist[c], stored, Lost \cup Expected)
    BY <1>5 DEF KeepInv, HistoryCovers
  <2>5. Covers(hist[c], stored, Lost)
    BY <2>3, <2>4, CoversMore
  <2>6. Covers(hist'[c], stored', Lost')
    BY <1>5, <1>7, <1>11, <2>5
  <2>7. HistoryCovers'
    BY <1>1, <2>6, CoversMore DEF HistoryCovers
  <2>8. TakenIsKept'
    BY <1>1, <1>2, <1>5, <1>8, <1>11 DEF KeepInv, TakenIsKept, HandedOut
  <2> QED BY <1>4, <1>6, <2>1, <2>2, <2>7, <2>8 DEF KeepInv
<1> QED BY <1>3, <1>9, <1>10, <1>11, TakeIsAdoption

LEMMA RegisterKeeps ==
  ASSUME OneHandler, TaskInv, TaskInv', KeepInv, NEW c \in Conns, Register(c)
  PROVE  KeepInv'
<1>1. /\ \A d \in Conns : d = c
      /\ pc[c] = "preparing" /\ Serving(c)
  BY DEF OneHandler, Register, Serving
<1>2. PICK t : t = Cardinality(Born) + 1
  OBVIOUS
<1>3. t \in Tasks /\ t \notin Born /\ phase[t] = "none"
  <2>1. t \in Tasks \ Born
    BY <1>1, <1>2, NextTaskIsNew
  <2> QED BY <2>1 DEF Born
<1>4. /\ hist' = [hist EXCEPT ![c] = Append(hist[c], asked[c])]
      /\ start' = [start EXCEPT ![t] = asked[c]]
      /\ work' = [work EXCEPT ![t] = Append(hist[c], asked[c])]
      /\ phase' = [phase EXCEPT ![t] = "registered"]
      /\ running' = [running EXCEPT ![t] = TRUE]
      /\ current' = t
      /\ follow' = [follow EXCEPT ![c] = t]
      /\ pc' = [pc EXCEPT ![c] = "spawning"]
  BY <1>2 DEF Register, Goto
<1>5. /\ final' = final /\ stopped' = stopped /\ stored' = stored /\ sent' = sent
      /\ answered' = answered /\ spent' = spent
  BY DEF Register, userVars
<1>6. /\ hist'[c] = Append(hist[c], asked[c]) /\ work'[t] = Append(hist[c], asked[c])
      /\ phase'[t] = "registered" /\ running'[t] /\ start'[t] = asked[c]
      /\ follow'[c] = t /\ pc'[c] = "spawning"
      /\ \A s \in Tasks : s # t =>
           /\ start'[s] = start[s] /\ work'[s] = work[s] /\ phase'[s] = phase[s]
           /\ running'[s] = running[s]
      /\ hist[c] \in Seq(Messages) /\ asked[c] \in Messages
  BY <1>3, <1>4 DEF TaskInv, TypeOK
<1>7. Born' = Born \cup {t}
  BY <1>3, <1>6 DEF Born
<1>8. FollowsCurrent'
  BY <1>1, <1>4, <1>6 DEF FollowsCurrent
<1>9. Results'
  <2>1. ASSUME NEW s \in Tasks, final'[s] # <<>>
        PROVE  phase'[s] \in {"published", "ended"} /\ final'[s][1] = work'[s]
    BY <1>3, <1>5, <1>6, <2>1 DEF KeepInv, Results
  <2>2. ASSUME NEW s \in Tasks, Live(s)', ~running'[s] PROVE s \in stopped'
    BY <1>5, <1>6, <2>2 DEF KeepInv, Results, Live
  <2> QED BY <1>5, <1>7, <2>1, <2>2 DEF KeepInv, Results
<1>10. Lost \subseteq Lost'
  BY <1>3, <1>5, <1>6, LostKept DEF KeepInv, Born
<1>11. StoredAnswers'
  <2>1. asked[c].n \notin answered
    BY <1>1 DEF TaskInv, Prepared, KeepInv, StoredAnswers
  <2>2. ASSUME NEW s \in Born', start'[s].n \in answered'
        PROVE  phase'[s] \in {"ending", "answered", "published", "ended"} /\ Output(s)' \in Elems(stored')
    <3>1. s \in Born /\ s # t /\ s \in Tasks
      BY <1>3, <1>5, <1>6, <1>7, <2>1, <2>2 DEF Born
    <3>2. Output(s)' = Output(s)
      BY <1>6, <3>1 DEF Output
    <3> QED BY <1>5, <1>6, <2>2, <3>1, <3>2 DEF KeepInv, StoredAnswers
  <2>3. ASSUME NEW n \in answered' PROVE \E s \in Born' : start'[s].n = n
    <3>1. PICK s \in Born : start[s].n = n
      BY <1>5 DEF KeepInv, StoredAnswers
    <3> QED BY <1>3, <1>6, <1>7, <3>1 DEF Born
  <2>4. \A i \in 1 .. Len(stored') : IsLastUser(stored', i) => stored'[i].n = sent'
    BY <1>5 DEF KeepInv, StoredAnswers
  <2> QED BY <2>2, <2>3, <2>4 DEF StoredAnswers
<1>12. Covers(hist'[c], stored', Lost')
  <2>1. Covers(hist[c], stored, Lost)
    BY <1>1 DEF KeepInv, HistoryCovers
  <2>2. Covers(hist[c], stored, Lost')
    BY <1>10, <2>1, CoversMore
  <2> QED BY <1>5, <1>6, <2>2, CoversLonger
<1>13. WorkCovers'
  <2>1. Covers(work'[current'], stored', Lost')
    BY <1>4, <1>6, <1>12
  <2>2. Covers(work'[current'], hist'[c], Lost')
    BY <1>4, <1>6, CoversItself
  <2> QED BY <1>1, <2>1, <2>2 DEF WorkCovers
<1>14. HistoryCovers'
  BY <1>1, <1>12, CoversMore DEF HistoryCovers
<1>15. TakenIsKept'
  BY <1>4, <1>6 DEF TakenIsKept, HandedOut
<1> QED BY <1>8, <1>9, <1>11, <1>13, <1>14, <1>15 DEF KeepInv

LEMMA TurnEndsKeeps ==
  ASSUME TaskInv, KeepInv, NEW t \in Tasks, TurnEnds(t)
  PROVE  KeepInv'
<1>1. /\ current' = current /\ start' = start /\ final' = final /\ running' = running
      /\ stored' = stored /\ sent' = sent /\ answered' = answered /\ spent' = spent
      /\ stopped' = stopped /\ pc' = pc /\ hist' = hist /\ follow' = follow /\ job' = job
      /\ phase[t] = "running" /\ phase' = [phase EXCEPT ![t] = "ending"]
  BY DEF TurnEnds, connVars, userVars
<1>2. \/ work' = [work EXCEPT ![t] = Append(work[t], Answer(start[t]))]
      \/ work' = work
  BY Zenon DEF TurnEnds
<1>3. /\ work[t] \in Seq(Messages) /\ Answer(start[t]) \in Messages
      /\ \A s \in Tasks : s # t => work'[s] = work[s] /\ phase'[s] = phase[s]
      /\ phase'[t] = "ending"
      /\ work'[t] \in {work[t], Append(work[t], Answer(start[t]))}
  BY <1>1, <1>2, ReplyTypes DEF TaskInv, TypeOK
<1>4. Born' = Born /\ Lost' = Lost
  BY <1>1 DEF Born, Lost, TaskInv, TypeOK
<1>5. FollowsCurrent'
  BY <1>1 DEF KeepInv, FollowsCurrent
<1>6. Results'
  BY <1>1, <1>3, <1>4 DEF KeepInv, Results, Live
<1>7. StoredAnswers'
  <2>1. ASSUME NEW s \in Born, start[s].n \in answered
        PROVE  phase'[s] \in {"ending", "answered", "published", "ended"} /\ Output(s)' \in Elems(stored)
    <3>1. s \in Tasks /\ s # t
      BY <1>1, <2>1 DEF Born, KeepInv, StoredAnswers
    <3>2. Output(s)' = Output(s)
      BY <1>1, <1>3, <3>1 DEF Output
    <3> QED BY <1>3, <2>1, <3>1, <3>2 DEF KeepInv, StoredAnswers
  <2> QED BY <1>1, <1>4, <2>1 DEF KeepInv, StoredAnswers
<1>8. current # 0 => current \in Tasks
  BY Bounds DEF TaskInv, TypeOK, Tasks
<1>9. \A g, L : current # 0 /\ Covers(work[current], g, L) => Covers(work'[current], g, L)
  <2>1. \A g, L : Covers(work[t], g, L) => Covers(Append(work[t], Answer(start[t])), g, L)
    BY <1>3, CoversLonger
  <2> QED BY <1>3, <1>8, <2>1
<1>10. WorkCovers'
  BY <1>1, <1>4, <1>9 DEF KeepInv, WorkCovers, Serving
<1>11. Expected \subseteq Expected'
  BY <1>1, <1>3 DEF Expected
<1>12. HistoryCovers'
  <2>1. Lost \cup Expected \subseteq Lost' \cup Expected'
    BY <1>4, <1>11
  <2> QED BY <1>1, <1>4, <2>1, CoversMore DEF KeepInv, HistoryCovers, Serving
<1>13. current # 0 /\ HandedOut(current)' => HandedOut(current) /\ work'[current] = work[current]
  BY <1>1, <1>3, <1>8 DEF HandedOut
<1>14. TakenIsKept'
  BY <1>1, <1>4, <1>13 DEF KeepInv, TakenIsKept, Serving, HandedOut
<1> QED BY <1>5, <1>6, <1>7, <1>10, <1>12, <1>14 DEF KeepInv

LEMMA PublishKeeps ==
  ASSUME TaskInv, KeepInv, NEW t \in Tasks, Publish(t)
  PROVE  KeepInv'
<1>1. /\ current' = current /\ start' = start /\ work' = work /\ running' = running
      /\ stored' = stored /\ sent' = sent /\ answered' = answered /\ spent' = spent
      /\ stopped' = stopped /\ pc' = pc /\ hist' = hist /\ follow' = follow /\ job' = job
      /\ phase[t] = "answered" /\ phase' = [phase EXCEPT ![t] = "published"]
      /\ final' = [final EXCEPT ![t] = <<work[t]>>]
  BY DEF Publish, connVars, userVars
<1>2. /\ \A s \in Tasks : s # t => final'[s] = final[s] /\ phase'[s] = phase[s]
      /\ phase'[t] = "published" /\ final'[t] = <<work[t]>>
      /\ <<work[t]>> # <<>> /\ <<work[t]>>[1] = work[t]
  BY <1>1 DEF TaskInv, TypeOK
<1>3. Born' = Born /\ Lost' = Lost
  BY <1>1 DEF Born, Lost, TaskInv, TypeOK
<1>4. FollowsCurrent'
  BY <1>1 DEF KeepInv, FollowsCurrent
<1>5. Results'
  BY <1>1, <1>2, <1>3 DEF KeepInv, Results, Live
<1>6. StoredAnswers'
  <2>1. \A s \in Born : phase[s] \in {"ending", "answered", "published", "ended"} =>
          phase'[s] \in {"ending", "answered", "published", "ended"}
    BY <1>2 DEF Born
  <2> QED BY <1>1, <1>3, <2>1 DEF KeepInv, StoredAnswers, Output
<1>7. WorkCovers'
  BY <1>1, <1>3 DEF KeepInv, WorkCovers, Serving
<1>8. Expected \subseteq Expected'
  BY <1>1, <1>2 DEF Expected
<1>9. HistoryCovers'
  <2>1. Lost \cup Expected \subseteq Lost' \cup Expected'
    BY <1>3, <1>8
  <2> QED BY <1>1, <1>3, <2>1, CoversMore DEF KeepInv, HistoryCovers, Serving
<1>10. current # 0 /\ HandedOut(current)' => HandedOut(current)
  <2>1. current # 0 => current \in Tasks
    BY Bounds DEF TaskInv, TypeOK, Tasks
  <2> QED BY <1>1, <1>2, <2>1 DEF HandedOut
<1>11. TakenIsKept'
  BY <1>1, <1>3, <1>10 DEF KeepInv, TakenIsKept, Serving, HandedOut
<1> QED BY <1>4, <1>5, <1>6, <1>7, <1>9, <1>11 DEF KeepInv

\* What a task shows its followers is in its history, unless it is the text sent
\* when there is no answer.
LEMMA OutputIsInWork ==
  ASSUME TaskInv, NEW t \in Born
  PROVE  /\ Output(t) \in Messages /\ Output(t).role = "assistant" /\ Output(t).n = start[t].n
         /\ Output(t).text # "fallback" => Output(t) \in Answers(work[t])
<1>1. t \in Tasks /\ start[t] \in Messages
  BY DEF Born, TaskInv, TypeOK
<1>2. Output(t) \in Messages /\ Output(t).role = "assistant" /\ Output(t).n = start[t].n
  BY <1>1, OutputIsReply, ReplyTypes
<1>3. Output(t).text # "fallback" => Output(t) \in Answers(work[t])
  BY <1>2 DEF Output, Fallback, Answers
<1> QED BY <1>2, <1>3

LEMMA DeliverKeeps ==
  ASSUME OneHandler, TaskInv, KeepInv, NEW c \in Conns, Deliver(c)
  PROVE  KeepInv'
<1>1. /\ \A d \in Conns : d = c
      /\ pc[c] = "idle" /\ Serving(c) /\ current # 0 /\ follow[c] = current
  BY DEF OneHandler, Deliver, Serving, KeepInv, FollowsCurrent
<1>2. current \in Born /\ current \in Tasks /\ stored \in Seq(Messages)
  BY <1>1, Bounds DEF TaskInv, TypeOK, Engaged, Tasks
<1>3. PICK m : m = Output(current)
  OBVIOUS
<1>4. /\ m \in Messages /\ m.role = "assistant" /\ m.n = start[current].n
      /\ m.text # "fallback" => m \in Answers(work[current])
  BY <1>2, <1>3, OutputIsInWork
<1>5. /\ current' = current /\ start' = start /\ work' = work /\ final' = final
      /\ phase' = phase /\ running' = running /\ stopped' = stopped
      /\ pc' = pc /\ hist' = hist /\ job' = job /\ sent' = sent /\ spent' = spent
      /\ phase[current] \in {"ending", "answered", "published", "ended"}
      /\ stored' = Append(stored, m) /\ answered' = answered \cup {start[current].n}
      /\ follow'[c] = 0
  BY <1>1, <1>3 DEF Deliver, taskVars, TaskInv, TypeOK
<1>6. FollowsCurrent'
  BY <1>1, <1>5 DEF KeepInv, FollowsCurrent
<1>7. Results' /\ Lost' = Lost /\ Expected' = Expected /\ Born' = Born
  BY <1>5 DEF KeepInv, Results, Live, Born, Lost, Expected
<1>8. StoredAnswers'
  <2>1. Elems(stored') = Elems(stored) \cup {m}
    BY <1>2, <1>4, <1>5, ElemsAppend
  <2>2. ASSUME NEW s \in Born, start[s].n \in answered'
        PROVE  phase[s] \in {"ending", "answered", "published", "ended"} /\ Output(s) \in Elems(stored')
    <3>1. CASE start[s].n \in answered
      BY <2>1, <3>1 DEF KeepInv, StoredAnswers
    <3>2. CASE start[s].n = start[current].n
      <4>1. s = current
        BY <1>2, <3>2 DEF TaskInv, Started
      <4> QED BY <1>3, <1>5, <2>1, <4>1
    <3> QED BY <1>5, <2>2, <3>1, <3>2
  <2>3. \A n \in answered' : \E s \in Born : start[s].n = n
    BY <1>2, <1>5 DEF KeepInv, StoredAnswers
  <2>4. \A i \in 1 .. Len(stored') : IsLastUser(stored', i) => stored'[i].n = sent'
    BY <1>4, <1>5, LastUserStays DEF TaskInv, KeepInv, StoredAnswers
  <2>5. \A s \in Born : Output(s)' = Output(s)
    BY <1>5 DEF Output
  <2> QED BY <1>5, <1>7, <2>2, <2>3, <2>4, <2>5 DEF StoredAnswers
<1>9. Covers(work[current], stored', Lost)
  BY <1>1, <1>2, <1>4, <1>5, CoversAppend DEF KeepInv, WorkCovers
<1>10. WorkCovers'
  BY <1>1, <1>5, <1>7, <1>9 DEF KeepInv, WorkCovers
<1>11. m.text # "fallback" => m \in Answers(hist[c]) \/ m.n \in Lost \cup Expected
  <2>1. CASE phase[current] \in {"ending", "answered"} \/ final[current] # <<>>
    BY <1>2, <1>4, <2>1 DEF Expected
  <2>2. CASE phase[current] \notin {"ending", "answered"} /\ final[current] = <<>>
    <3>1. HandedOut(current)
      BY <1>1, <1>5, <2>2 DEF HandedOut
    <3>2. CASE current \in stopped \cup spent
      BY <1>4, <3>2 DEF Lost
    <3>3. CASE current \notin stopped \cup spent
      <4>1. Covers(hist[c], work[current], Lost)
        BY <1>1, <3>1, <3>3 DEF KeepInv, TakenIsKept
      <4> QED BY <1>4, <4>1 DEF Covers
    <3> QED BY <3>2, <3>3
  <2> QED BY <2>1, <2>2
<1>12. Covers(hist[c], stored', Lost \cup Expected)
  <2>1. Covers(hist[c], stored, Lost \cup Expected)
    BY <1>1 DEF KeepInv, HistoryCovers
  <2> QED BY <1>2, <1>4, <1>5, <1>11, <2>1, CoversAppend
<1>13. HistoryCovers'
  BY <1>1, <1>5, <1>7, <1>12 DEF HistoryCovers
<1>14. TakenIsKept'
  BY <1>1, <1>5 DEF TakenIsKept
<1> QED BY <1>6, <1>7, <1>8, <1>10, <1>13, <1>14 DEF KeepInv

LEMMA DeliverStoppedKeeps ==
  ASSUME OneHandler, TaskInv, KeepInv, NEW c \in Conns, DeliverStopped(c)
  PROVE  KeepInv'
<1>1. /\ \A d \in Conns : d = c
      /\ pc[c] = "idle" /\ Serving(c) /\ follow[c] \in stopped
  BY DEF OneHandler, DeliverStopped, Serving
<1>2. current \in Born /\ current \in Tasks /\ current # 0 /\ follow[c] = current
      /\ stored \in Seq(Messages)
  BY <1>1, Bounds DEF TaskInv, TypeOK, Tasks, KeepInv, Results, FollowsCurrent
<1>3. PICK m : m = Partial(start[current])
  OBVIOUS
<1>4. m \in Messages /\ m.role = "assistant" /\ m.n = start[current].n /\ m.n \in Lost
  BY <1>1, <1>2, <1>3, ReplyTypes DEF TaskInv, TypeOK, Lost
<1>5. /\ current' = current /\ start' = start /\ work' = work /\ final' = final
      /\ phase' = phase /\ running' = running /\ stopped' = stopped
      /\ pc' = pc /\ hist' = hist /\ job' = job /\ sent' = sent /\ spent' = spent
      /\ answered' = answered /\ follow'[c] = 0
  BY <1>1 DEF DeliverStopped, taskVars, TaskInv, TypeOK
<1>6. stored' = Append(stored, m) \/ stored' = stored
  <2>1. \/ stored' = Append(stored, Partial(start[follow[c]]))
        \/ stored' = stored
    BY Zenon DEF DeliverStopped
  <2> QED BY <1>2, <1>3, <2>1
<1>7. FollowsCurrent'
  BY <1>1, <1>5 DEF KeepInv, FollowsCurrent
<1>8. Results' /\ Lost' = Lost /\ Expected' = Expected /\ Born' = Born
  BY <1>5 DEF KeepInv, Results, Live, Born, Lost, Expected
<1>9. StoredAnswers'
  <2>1. Elems(stored) \subseteq Elems(stored')
    BY <1>2, <1>4, <1>6, ElemsAppend
  <2>2. \A i \in 1 .. Len(stored') : IsLastUser(stored', i) => stored'[i].n = sent'
    BY <1>4, <1>5, <1>6, LastUserStays DEF TaskInv, KeepInv, StoredAnswers
  <2> QED BY <1>5, <1>8, <2>1, <2>2 DEF KeepInv, StoredAnswers, Output
<1>10. \A h, L : Covers(h, stored, L) /\ Lost \subseteq L => Covers(h, stored', L)
  BY <1>2, <1>4, <1>6, CoversAppend
<1>11. WorkCovers'
  BY <1>1, <1>5, <1>8, <1>10 DEF KeepInv, WorkCovers
<1>12. HistoryCovers'
  BY <1>1, <1>5, <1>8, <1>10 DEF KeepInv, HistoryCovers
<1>13. TakenIsKept'
  BY <1>1, <1>2, <1>5 DEF TakenIsKept
<1> QED BY <1>7, <1>8, <1>9, <1>11, <1>12, <1>13 DEF KeepInv

LEMMA KeepInit == Init => KeepInv
<1> SUFFICES ASSUME Init PROVE KeepInv
  OBVIOUS
<1>1. Born = {} /\ \A t \in Tasks : ~Live(t)
  BY DEF Init, Born, Live
<1>2. FollowsCurrent /\ Results /\ StoredAnswers
  BY <1>1 DEF Init, FollowsCurrent, Results, StoredAnswers
<1>3. WorkCovers /\ HistoryCovers /\ TakenIsKept
  BY DEF Init, WorkCovers, HistoryCovers, TakenIsKept, Serving
<1> QED BY <1>2, <1>3 DEF KeepInv

LEMMA NoActions ==
  ASSUME Undisturbed, TaskInv, KeepInv, NEW c \in Conns
  PROVE  ~Expire /\ ~ActionStarts(c) /\ ~ActionEnds(c)
<1>1. ~ActionStarts(c)
  BY Bounds DEF Undisturbed, TaskInv, TypeOK, ActionStarts
<1>2. ~Expire /\ ~ActionEnds(c)
  BY DEF Undisturbed, KeepInv, FollowsCurrent, Expire, ActionEnds
<1> QED BY <1>1, <1>2

LEMMA KeepNext ==
  ASSUME Undisturbed, TaskInv, TaskInv', RunInv, AnswerInv, KeepInv, [Next]_vars
  PROVE  KeepInv'
<1>0. OneHandler
  BY DEF Undisturbed
<1>1. ASSUME NEW t \in Tasks, TaskStep(t) PROVE KeepInv'
  BY <1>0, <1>1, TurnEndsKeeps, PublishKeeps, EndKeeps DEF TaskStep
<1>2. ASSUME NEW c \in Conns, Resume(c) \/ Refuse(c) \/ Register(c) \/ Spawn(c) \/ SetHandle(c)
                                 \/ LogStop(c)
      PROVE  KeepInv'
  BY <1>0, <1>2, ResumeKeeps, PlaceKeeps, RegisterKeeps, SpawnKeeps
<1>3. ASSUME NEW c \in Conns, LoadHistory(c) \/ StopAct(c) \/ StopCheck(c) \/ Connect(c)
      PROVE  KeepInv'
  BY <1>0, <1>3, LoadHistoryKeeps, StopActKeeps, PlaceKeeps, ConnectKeeps
<1>4. ASSUME NEW c \in Conns, Disconnect(c) \/ Deliver(c) \/ DeliverStopped(c) \/ Receive(c)
      PROVE  KeepInv'
  BY <1>0, <1>4, DisconnectKeeps, DeliverKeeps, DeliverStoppedKeeps, ReceiveKeeps
<1>5. CASE UNCHANGED vars
  BY <1>0, <1>5, StutterKeeps
<1>6. CASE Expire
  BY <1>6 DEF Undisturbed, Expire
<1>7. ASSUME NEW c \in Conns, ActionStarts(c) \/ ActionEnds(c) PROVE KeepInv'
  BY <1>7, NoActions
<1> QED BY <1>1, <1>2, <1>3, <1>4, <1>5, <1>6, <1>7 DEF Next, HandlerStep

\* Every answer shown is with the handler, the registered task or the next
\* client to load the history, but for those that are lost (ws.rs:430-598).
THEOREM KeepInvariance == ASSUME Undisturbed PROVE Spec => []KeepInv
<1>1. OneHandler
  BY DEF Undisturbed
<1>2. Spec => []RunInv
  BY <1>1, RunInvariance
<1>3. TaskInv /\ TaskInv' /\ RunInv /\ AnswerInv /\ KeepInv /\ [Next]_vars => KeepInv'
  BY KeepNext
<1> QED BY KeepInit, <1>2, <1>3, TaskInvariance, AnswerInvariance, PTL DEF Spec

\* A handler that goes on has its history, or that of the registered task.
LEMMA HistoryReplaced ==
  ASSUME Undisturbed, TaskInv, KeepInv, Next, NEW c \in Conns,
         pc[c] \in {"idle", "resuming"}, pc'[c] # "gone"
  PROVE  hist'[c] = hist[c] \/ (current # 0 /\ hist'[c] = work[current])
<1>1. \A d \in Conns : d = c
  BY DEF Undisturbed, OneHandler
<1>2. ASSUME NEW t \in Tasks, TaskStep(t) PROVE hist' = hist
  BY <1>2 DEF TaskStep, TurnEnds, LogEnd, Publish, Exit, Die, connVars
<1>3. CASE Resume(c)
  <2>1. job[c] = current /\ hist'[c] = Adopted(job[c], hist[c]) /\ Take(job[c])
    BY <1>3 DEF Resume, KeepInv, FollowsCurrent, TaskInv, TypeOK
  <2> QED BY <2>1, TakeIsAdoption
<1>4. CASE Receive(c)
  <2>1. \/ hist' = hist
        \/ hist'[c] = Adopted(current, hist[c]) /\ Take(current)
    BY <1>4 DEF Receive, TaskInv, TypeOK
  <2> QED BY <2>1, TakeIsAdoption
<1>5. CASE Spawn(c) \/ SetHandle(c) \/ StopAct(c) \/ LogStop(c) \/ StopCheck(c) \/ Connect(c)
           \/ Deliver(c) \/ DeliverStopped(c)
  BY <1>5 DEF Spawn, SetHandle, StopAct, LogStop, StopCheck, Connect, Deliver, DeliverStopped
<1>6. ~(LoadHistory(c) \/ Refuse(c) \/ Register(c))
  BY DEF LoadHistory, Refuse, Register
<1>7. ~Disconnect(c)
  BY DEF Disconnect, Goto, TaskInv, TypeOK
<1> QED BY <1>1, <1>2, <1>3, <1>4, <1>5, <1>6, <1>7, NoActions DEF Next, HandlerStep

\* session.rs:39-41: adopting a task's history takes no answer away, but those
\* of stopped tasks, and of tasks whose history went with an earlier handler.
THEOREM AdoptionForgetsNothingAlways ==
  ASSUME Undisturbed PROVE Spec => AdoptionForgetsNothing
<1>1. TaskInv /\ KeepInv /\ [Next]_vars =>
        [\A c \in Conns : pc[c] \in {"idle", "resuming"} /\ pc'[c] # "gone" =>
           \A m \in Answers(hist[c]) :
             m \in Answers(hist'[c]) \/ \E s \in stopped \cup spent : start[s].n = m.n]_vars
  <2> SUFFICES ASSUME TaskInv, KeepInv, Next, NEW c \in Conns,
                      pc[c] \in {"idle", "resuming"}, pc'[c] # "gone",
                      NEW m \in Answers(hist[c])
               PROVE  m \in Answers(hist'[c]) \/ \E s \in stopped \cup spent : start[s].n = m.n
    OBVIOUS
  <2>1. CASE hist'[c] = hist[c]
    BY <2>1
  <2>2. CASE current # 0 /\ hist'[c] = work[current]
    <3>1. Covers(work[current], hist[c], Lost)
      BY <2>2 DEF KeepInv, WorkCovers, Serving
    <3> QED BY <2>2, <3>1 DEF Covers, Lost
  <2> QED BY <2>1, <2>2, HistoryReplaced
<1> QED BY <1>1, TaskInvariance, KeepInvariance, PTL DEF Spec, AdoptionForgetsNothing

LEMMA OnlyRegisterMakes ==
  ASSUME TaskInv, Next, NEW t \in Tasks, phase[t] = "none", phase'[t] = "registered"
  PROVE  \E c \in Conns : Register(c) /\ t = Cardinality(Born) + 1
<1>1. phase' # phase
  OBVIOUS
<1>2. ASSUME NEW s, NEW l, phase' = [phase EXCEPT ![s] = l] PROVE s = t /\ l = "registered"
  BY <1>2 DEF TaskInv, TypeOK
<1>3. ASSUME NEW s \in Tasks, TaskStep(s) PROVE FALSE
  BY <1>2, <1>3 DEF TaskStep, TurnEnds, LogEnd, Publish, Exit, Die
<1>4. ASSUME NEW c \in Conns, Spawn(c) PROVE FALSE
  BY <1>2, <1>4 DEF Spawn
<1>5. ~Expire
  BY <1>1 DEF Expire
<1>6. ASSUME NEW c \in Conns,
             \/ LoadHistory(c) \/ Resume(c) \/ Refuse(c) \/ SetHandle(c) \/ StopAct(c) \/ LogStop(c)
             \/ ActionEnds(c)
             \/ Connect(c) \/ Disconnect(c) \/ Deliver(c) \/ DeliverStopped(c) \/ StopCheck(c)
             \/ ActionStarts(c) \/ Receive(c)
      PROVE  FALSE
  BY <1>1, <1>6 DEF LoadHistory, Resume, Refuse, SetHandle, StopAct, LogStop, ActionEnds, Connect,
     Disconnect, Deliver, DeliverStopped, StopCheck, ActionStarts, Receive, taskVars
<1>7. ASSUME NEW c \in Conns, Register(c) PROVE t = Cardinality(Born) + 1
  <2>1. PICK n : n = Cardinality(Born) + 1
    OBVIOUS
  <2>2. phase' = [phase EXCEPT ![n] = "registered"]
    BY <1>7, <2>1 DEF Register
  <2> QED BY <1>2, <2>1, <2>2
<1> QED BY <1>3, <1>4, <1>5, <1>6, <1>7 DEF Next, HandlerStep

\* ws.rs:502-503: a new task is given every answer the user has been shown, but
\* those of stopped tasks, and of tasks whose history went with an earlier handler.
THEOREM FollowUpKeepsContextAlways ==
  ASSUME Undisturbed PROVE Spec => FollowUpKeepsContext
<1>1. TaskInv /\ KeepInv /\ [Next]_vars =>
        [\A t \in Tasks : phase[t] = "none" /\ phase'[t] = "registered" =>
           \A s \in Tasks : Shown(s) /\ s \notin spent => Output(s) \in Answers(work'[t])]_vars
  <2> SUFFICES ASSUME TaskInv, KeepInv, Next, NEW t \in Tasks,
                      phase[t] = "none", phase'[t] = "registered",
                      NEW s \in Tasks, Shown(s), s \notin spent
               PROVE  Output(s) \in Answers(work'[t])
    OBVIOUS
  <2>1. PICK c \in Conns : Register(c) /\ t = Cardinality(Born) + 1
    BY OnlyRegisterMakes
  <2>2. pc[c] = "preparing" /\ work'[t] = Append(hist[c], asked[c])
    BY <2>1 DEF Register, TaskInv, TypeOK
  <2>3. s \in Born /\ start[s].n \in answered /\ s \notin stopped \cup spent
        /\ Output(s) \in Answers(work[s])
    BY DEF Shown, Born
  <2>4. Output(s) \in Answers(stored)
    BY <2>3 DEF KeepInv, StoredAnswers, Answers
  <2>5. Covers(hist[c], stored, Lost)
    BY <2>2 DEF KeepInv, HistoryCovers, Serving
  <2>6. Output(s).n \notin Lost
    <3>1. Output(s).n = start[s].n
      BY <2>3, OutputIsInWork
    <3>2. SUFFICES ASSUME NEW r \in stopped \cup spent, start[r].n = start[s].n PROVE FALSE
      BY <3>1 DEF Lost
    <3>3. r \in Born
      BY DEF KeepInv, Results
    <3>4. r = s
      BY <2>3, <3>2, <3>3 DEF TaskInv, Started
    <3> QED BY <2>3, <3>2, <3>4
  <2>7. Output(s) \in Answers(hist[c])
    BY <2>4, <2>5, <2>6 DEF Covers
  <2>8. hist[c] \in Seq(Messages) /\ asked[c] \in Messages
    BY DEF TaskInv, TypeOK
  <2> QED BY <2>2, <2>7, <2>8, AnswersAppend
<1> QED BY <1>1, TaskInvariance, KeepInvariance, PTL DEF Spec, FollowUpKeepsContext

=============================================================================
