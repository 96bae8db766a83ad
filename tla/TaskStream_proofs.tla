------------------------- MODULE TaskStream_proofs -------------------------
(***************************************************************************)
(* Proofs about TaskStream, for any number of connections, any channel     *)
(* capacity and any number of events.                                      *)
(***************************************************************************)
EXTENDS TaskStream, SequenceTheorems, TLAPS

\* The numbers of the events broadcast so far.
Numbers == 1 .. Len(chan)

\* Every event broadcast is in exactly one place: once in the log, or in the
\* hands of the one emitter that is about to log it; a handler inside abort()
\* has nothing else in flight.
LogInv ==
  /\ \A c \in armed : pending[c] = 0
  /\ \A e \in Emitters : pending[e] <= Len(chan)
  /\ \A e, f \in Emitters : pending[e] = pending[f] /\ pending[e] # 0 => e = f
  /\ \A i \in 1 .. Len(log) : log[i] \in Numbers
  /\ \A i, j \in 1 .. Len(log) : log[i] = log[j] => i = j
  /\ \A i \in 1 .. Len(log), e \in Emitters : log[i] # pending[e]
  /\ \A n \in Numbers : \/ \E i \in 1 .. Len(log) : log[i] = n
                     \/ \E e \in Emitters : pending[e] = n

\* What a snapshot holds was broadcast before the subscription, and what had
\* been broadcast and is not in the snapshot is excused.
ConnInv ==
  \A c \in Conns : link[c] = "attached" =>
    /\ \A i \in 1 .. snap[c] : log[i] <= base[c]
    /\ excused[c] = (1 .. base[c]) \ {log[i] : i \in 1 .. snap[c]}

StreamInv == TypeOK /\ LogInv /\ ConnInv

-----------------------------------------------------------------------------
(* Types.                                                                  *)

\* The initial state satisfies the invariant.
LEMMA InitInv == Init => StreamInv
  BY CreatorAssumption, AgentAssumption, CapacityAssumption
     DEF Init, StreamInv, TypeOK, LogInv, ConnInv, Numbers, Emitters, Events, Kinds

\* A broadcast keeps the types of what emit() touches.
LEMMA SendType ==
  ASSUME TypeOK, NEW e \in Emitters, NEW kind \in Kinds, Send(e, kind)
  PROVE  /\ chan' \in Seq(Events) /\ Len(chan') = Len(chan) + 1
         /\ pending' \in [Emitters -> Nat]
         /\ \A c \in Conns : cur[c] <= Len(chan')
<1>1. [kind |-> kind, by |-> e] \in Events
  BY DEF Events
<1>2. chan' \in Seq(Events) /\ Len(chan') = Len(chan) + 1
  BY <1>1 DEF TypeOK, Send
<1> QED BY <1>2 DEF TypeOK, Send

\* Every step keeps the types.
LEMMA TypeStep == TypeOK /\ [Next]_vars => TypeOK'
<1> SUFFICES ASSUME TypeOK, [Next]_vars PROVE TypeOK'
  OBVIOUS
<1> USE CreatorAssumption, AgentAssumption DEF TypeOK
<1>1. CASE AgentEmit
  <2>1. Agent \in Emitters /\ "delta" \in Kinds
    BY DEF Emitters, Kinds
  <2>2. Send(Agent, "delta") /\ UNCHANGED <<log, running, agent, armed, connVars>>
    BY <1>1 DEF AgentEmit
  <2>3. /\ chan' \in Seq(Events) /\ pending' \in [Emitters -> Nat]
        /\ \A d \in Conns : cur[d] <= Len(chan')
    BY <2>1, <2>2, SendType
  <2> QED BY <2>2, <2>3 DEF connVars
<1>2. CASE AgentDone
  <2>1. Agent \in Emitters /\ "done" \in Kinds
    BY DEF Emitters, Kinds
  <2>2. Send(Agent, "done") /\ agent' = "done" /\ UNCHANGED <<log, running, armed, connVars>>
    BY <1>2 DEF AgentDone
  <2>3. /\ chan' \in Seq(Events) /\ pending' \in [Emitters -> Nat]
        /\ \A d \in Conns : cur[d] <= Len(chan')
    BY <2>1, <2>2, SendType
  <2> QED BY <2>2, <2>3 DEF connVars
<1>3. CASE AgentExit
  BY <1>3 DEF AgentExit, connVars
<1>4. CASE AgentAborted
  BY <1>4 DEF AgentAborted, connVars
<1>5. CASE AgentPanic
  BY <1>5 DEF AgentPanic, connVars
<1>6. CASE CreatorAttach
  BY <1>6 DEF CreatorAttach, Subscribe
<1>7. CASE \E e \in Emitters : Push(e)
  BY <1>7 DEF Push, connVars
<1>8. ASSUME NEW c \in Conns, ConnStep(c) PROVE TypeOK'
  <2>1. CASE Attach(c)
    <3>1. InFlight \in SUBSET Nat
      BY DEF InFlight
    <3> QED BY <2>1, <3>1 DEF Attach, Subscribe, taskVars
  <2>2. CASE Detach(c)
    BY <2>2 DEF Detach, Unsubscribe, taskVars
  <2>3. CASE Replay(c)
    <3>1. replayed' = [replayed EXCEPT ![c] = @ + 1] /\ replayed[c] < snap[c]
          /\ UNCHANGED <<taskVars, link, snap, base, cur, excused>>
      BY <2>3 DEF Replay
    <3>2. replayed' \in [Conns -> Nat] /\ \A d \in Conns : replayed'[d] <= snap[d]
      BY <3>1
    <3> QED BY <3>1, <3>2 DEF taskVars
  <2>4. CASE Recv(c)
    <3>1. cur' = [cur EXCEPT ![c] = @ + 1] /\ cur[c] < Len(chan)
          /\ UNCHANGED <<taskVars, link, snap, replayed, base, excused>>
      BY <2>4, CapacityAssumption DEF Recv, Unread
    <3>2. cur' \in [Conns -> Nat]
          /\ \A d \in Conns : base[d] <= cur'[d] /\ cur'[d] <= Len(chan)
      BY <3>1
    <3> QED BY <3>1, <3>2 DEF taskVars
  <2>5. CASE Lagged(c)
    BY <2>5 DEF Lagged, Unsubscribe, taskVars
  <2>6. CASE Close(c)
    BY <2>6 DEF Close, Unsubscribe, taskVars
  <2>7. CASE Connect(c)
    BY <2>7 DEF Connect, taskVars
  <2>8. CASE StopCheck(c)
    BY <2>8 DEF StopCheck, connVars
  <2>9. CASE StopEmit(c)
    <3>1. c \in Emitters /\ "stopped" \in Kinds
      BY DEF Emitters, Kinds
    <3>2. Send(c, "stopped") /\ armed' = armed \ {c} /\ running' = FALSE
          /\ UNCHANGED <<log, agent, connVars>>
      BY <2>9 DEF StopEmit
    <3>3. /\ chan' \in Seq(Events) /\ pending' \in [Emitters -> Nat]
          /\ \A d \in Conns : cur[d] <= Len(chan')
      BY <3>1, <3>2, SendType
    <3> QED BY <3>2, <3>3 DEF connVars
  <2> QED BY <1>8, <2>1, <2>2, <2>3, <2>4, <2>5, <2>6, <2>7, <2>8, <2>9 DEF ConnStep
<1>9. CASE UNCHANGED vars
  BY <1>9 DEF vars, taskVars, connVars
<1> QED BY <1>1, <1>2, <1>3, <1>4, <1>5, <1>6, <1>7, <1>8, <1>9 DEF Next, AgentStep

-----------------------------------------------------------------------------
(* The log.                                                                *)

\* emit() up to its broadcast: the new event is in flight.
LEMMA SendLog ==
  ASSUME TypeOK, LogInv, NEW e \in Emitters, NEW kind \in Kinds,
         pending[e] = 0, Send(e, kind), log' = log,
         armed' \subseteq armed \ {e}
  PROVE  LogInv'
<1>1. Len(chan') = Len(chan) + 1 /\ pending' = [pending EXCEPT ![e] = Len(chan) + 1]
  BY DEF Send, TypeOK
<1>2. \A n \in Numbers' : n \in Numbers \/ n = Len(chan) + 1
  BY <1>1 DEF Numbers, TypeOK
<1>3. Len(chan) \in Nat
  BY DEF TypeOK
<1>4. \A f \in Emitters : pending'[f] = IF f = e THEN Len(chan) + 1 ELSE pending[f]
  BY <1>1 DEF TypeOK
<1>5. \A f \in Emitters : pending[f] \in Nat /\ pending[f] <= Len(chan)
  BY DEF TypeOK, LogInv
<1>6. /\ \A f \in Emitters : pending'[f] <= Len(chan')
      /\ \A f, g \in Emitters : pending'[f] = pending'[g] /\ pending'[f] # 0 => f = g
  BY <1>1, <1>3, <1>4, <1>5 DEF LogInv
<1>7. /\ \A i \in 1 .. Len(log') : log'[i] \in Numbers'
      /\ \A i \in 1 .. Len(log'), f \in Emitters : log'[i] # pending'[f]
  BY <1>1, <1>3, <1>4, <1>5 DEF LogInv, Numbers
<1>8. \A n \in Numbers' : \/ \E i \in 1 .. Len(log') : log'[i] = n
                          \/ \E f \in Emitters : pending'[f] = n
  <2> SUFFICES ASSUME NEW n \in Numbers'
               PROVE  \/ \E i \in 1 .. Len(log') : log'[i] = n
                      \/ \E f \in Emitters : pending'[f] = n
    OBVIOUS
  <2>1. CASE n = Len(chan) + 1
    BY <2>1, <1>4
  <2>2. CASE n \in Numbers
    <3>1. n # 0
      BY <2>2 DEF Numbers
    <3>2. \A f \in Emitters : pending[f] = n => pending'[f] = n
      BY <3>1, <1>4
    <3> QED BY <2>2, <3>2 DEF LogInv
  <2> QED BY <1>2, <2>1, <2>2
<1>9. \A c \in armed' : pending'[c] = 0
  BY <1>4 DEF LogInv, TypeOK, Emitters
<1> QED BY <1>6, <1>7, <1>8, <1>9 DEF LogInv

\* The append: the event moves from its emitter to the log.
LEMMA PushLog ==
  ASSUME TypeOK, LogInv, NEW e \in Emitters, Push(e)
  PROVE  LogInv'
<1>1. /\ log' = Append(log, pending[e]) /\ Len(log') = Len(log) + 1
      /\ \A i \in 1 .. Len(log) : log'[i] = log[i]
      /\ log'[Len(log) + 1] = pending[e]
      /\ pending' = [pending EXCEPT ![e] = 0] /\ pending[e] # 0
      /\ chan' = chan /\ armed' = armed
  BY DEF Push, TypeOK
<1>2. \A i \in 1 .. Len(log') : i \in 1 .. Len(log) \/ i = Len(log) + 1
  BY <1>1 DEF TypeOK
<1>3. Len(log) \in Nat /\ Len(chan) \in Nat /\ pending[e] \in Nat
  BY DEF TypeOK
<1>4. /\ \A f \in Emitters : pending'[f] <= Len(chan')
      /\ \A f, g \in Emitters : pending'[f] = pending'[g] /\ pending'[f] # 0 => f = g
  BY <1>1, <1>3 DEF LogInv, TypeOK
<1>5. \A i \in 1 .. Len(log') : log'[i] \in Numbers'
  BY <1>1, <1>2, <1>3 DEF LogInv, Numbers
<1>6. \A i, j \in 1 .. Len(log') : log'[i] = log'[j] => i = j
  BY <1>1, <1>2, <1>3 DEF LogInv
<1>7. \A i \in 1 .. Len(log'), f \in Emitters : log'[i] # pending'[f]
  BY <1>1, <1>2, <1>3 DEF LogInv, TypeOK, Numbers
<1>8. \A n \in Numbers' : \/ \E i \in 1 .. Len(log') : log'[i] = n
                          \/ \E f \in Emitters : pending'[f] = n
  <2> SUFFICES ASSUME NEW n \in Numbers',
                      ~ \E f \in Emitters : pending'[f] = n
               PROVE  \E i \in 1 .. Len(log') : log'[i] = n
    OBVIOUS
  <2>1. n \in Numbers
    BY <1>1 DEF Numbers
  <2>2. CASE n = pending[e]
    BY <2>2, <1>1, <1>3
  <2>3. CASE n # pending[e]
    <3>1. ~ \E f \in Emitters : pending[f] = n
      BY <2>3, <1>1 DEF TypeOK
    <3>2. PICK i \in 1 .. Len(log) : log[i] = n
      BY <3>1, <2>1 DEF LogInv
    <3> QED BY <3>2, <1>1, <1>3
  <2> QED BY <2>2, <2>3
<1>9. \A c \in armed' : pending'[c] = 0
  BY <1>1 DEF LogInv, TypeOK, Emitters
<1> QED BY <1>4, <1>5, <1>6, <1>7, <1>8, <1>9 DEF LogInv

\* Every step keeps the log invariant.
LEMMA LogStep == TypeOK /\ LogInv /\ [Next]_vars => LogInv'
<1> SUFFICES ASSUME TypeOK, LogInv, [Next]_vars PROVE LogInv'
  OBVIOUS
<1>1. ASSUME UNCHANGED <<chan, log, pending>>,
             \A c \in armed' : pending[c] = 0
      PROVE  LogInv'
  BY <1>1 DEF LogInv, Numbers
<1>2. CASE AgentEmit \/ AgentDone
  <2>1. PICK kind \in Kinds : Send(Agent, kind)
    BY <1>2 DEF AgentEmit, AgentDone, Kinds
  <2>2. /\ Agent \in Emitters /\ pending[Agent] = 0 /\ log' = log
        /\ armed' \subseteq armed \ {Agent}
    BY <1>2, AgentAssumption DEF AgentEmit, AgentDone, AgentIdle, Emitters, TypeOK
  <2> QED BY <2>1, <2>2, SendLog
<1>3. CASE AgentExit \/ AgentAborted \/ AgentPanic
  BY <1>1, <1>3 DEF AgentExit, AgentAborted, AgentPanic, LogInv
<1>4. CASE CreatorAttach
  BY <1>1, <1>4 DEF CreatorAttach, LogInv
<1>5. CASE \E e \in Emitters : Push(e)
  BY <1>5, PushLog
<1>6. ASSUME NEW c \in Conns, ConnStep(c) PROVE LogInv'
  <2>1. CASE StopEmit(c)
    <3>1. c \in Emitters /\ "stopped" \in Kinds /\ Send(c, "stopped") /\ log' = log
      BY <2>1 DEF StopEmit, Emitters, Kinds
    <3>2. pending[c] = 0 /\ armed' \subseteq armed \ {c}
      BY <2>1 DEF StopEmit, LogInv
    <3> QED BY <3>1, <3>2, SendLog
  <2>2. CASE ~StopEmit(c)
    BY <1>1, <1>6, <2>2 DEF ConnStep, Attach, Detach, Replay, Recv, Lagged, Close,
       Connect, StopCheck, Ready, Serves, Free, taskVars, LogInv
  <2> QED BY <2>1, <2>2
<1>7. CASE UNCHANGED vars
  BY <1>1, <1>7 DEF vars, taskVars, LogInv
<1> QED BY <1>2, <1>3, <1>4, <1>5, <1>6, <1>7 DEF Next, AgentStep

-----------------------------------------------------------------------------
(* The connections.                                                        *)

\* The invariant of one connection.
FollowInv(c) ==
  link[c] = "attached" =>
    /\ \A i \in 1 .. snap[c] : log[i] <= base[c]
    /\ excused[c] = (1 .. base[c]) \ {log[i] : i \in 1 .. snap[c]}

\* The events in flight are those the log does not hold yet.
LEMMA InFlightIsUnlogged ==
  ASSUME TypeOK, LogInv
  PROVE  InFlight = Numbers \ {log[i] : i \in 1 .. Len(log)}
<1>1. ASSUME NEW n \in InFlight
      PROVE  n \in Numbers \ {log[i] : i \in 1 .. Len(log)}
  <2>1. PICK e \in Emitters : n = pending[e] /\ n # 0
    BY <1>1 DEF InFlight
  <2>2. n \in Numbers
    BY <2>1 DEF TypeOK, LogInv, Numbers
  <2> QED BY <2>1, <2>2 DEF LogInv
<1>2. ASSUME NEW n \in Numbers \ {log[i] : i \in 1 .. Len(log)}
      PROVE  n \in InFlight
  <2>1. PICK e \in Emitters : pending[e] = n
    BY <1>2 DEF LogInv
  <2>2. n # 0
    BY <1>2 DEF Numbers
  <2> QED BY <2>1, <2>2 DEF InFlight
<1> QED BY <1>1, <1>2

\* A connection keeps its invariant while its own state does not change and
\* the log is not rewritten below its snapshot.
LEMMA FollowStutter ==
  ASSUME NEW c \in Conns, FollowInv(c),
         link'[c] = link[c], snap'[c] = snap[c], base'[c] = base[c],
         excused'[c] = excused[c], \A i \in 1 .. snap[c] : log'[i] = log[i]
  PROVE  FollowInv(c)'
<1>1. {log'[i] : i \in 1 .. snap[c]} = {log[i] : i \in 1 .. snap[c]}
  OBVIOUS
<1> QED BY <1>1 DEF FollowInv

\* attach() establishes it.
LEMMA FollowAttach ==
  ASSUME TypeOK, LogInv, NEW c \in Conns, Attach(c)
  PROVE  FollowInv(c)'
<1>1. /\ snap'[c] = Len(log) /\ base'[c] = Len(chan) /\ excused'[c] = InFlight
      /\ log' = log
  BY DEF Attach, Subscribe, TypeOK, taskVars
<1>2. \A i \in 1 .. Len(log) : log[i] <= Len(chan)
  BY DEF LogInv, Numbers
<1> QED BY <1>1, <1>2, InFlightIsUnlogged DEF FollowInv, Numbers

\* Every step keeps the invariant of every connection.
LEMMA FollowStep ==
  ASSUME TypeOK, LogInv, [Next]_vars, NEW d \in Conns, FollowInv(d)
  PROVE  FollowInv(d)'
<1> USE DEF TypeOK
<1>1. CASE UNCHANGED <<log, connVars>>
  BY <1>1, FollowStutter DEF connVars
<1>2. CASE AgentStep
  BY <1>1, <1>2 DEF AgentStep, AgentEmit, AgentDone, AgentExit, AgentAborted, AgentPanic
<1>3. CASE CreatorAttach
  <2>1. CASE d = Creator
    <3>1. snap'[d] = 0 /\ base'[d] = Len(chan) /\ excused'[d] = 1 .. Len(chan)
      BY <1>3, <2>1 DEF CreatorAttach, Subscribe
    <3>2. 1 .. snap'[d] = {}
      BY <3>1
    <3> QED BY <3>1, <3>2 DEF FollowInv
  <2>2. CASE d # Creator
    BY <1>3, <2>2, FollowStutter DEF CreatorAttach, Subscribe
  <2> QED BY <2>1, <2>2
<1>4. ASSUME NEW e \in Emitters, Push(e) PROVE FollowInv(d)'
  <2>1. \A i \in 1 .. Len(log) : log'[i] = log[i]
    BY <1>4 DEF Push
  <2>2. snap[d] <= Len(log) /\ snap[d] \in Nat /\ Len(log) \in Nat
    OBVIOUS
  <2> QED BY <1>4, <2>1, <2>2, FollowStutter DEF Push, connVars
<1>5. ASSUME NEW c \in Conns, ConnStep(c) PROVE FollowInv(d)'
  <2>1. CASE Attach(c)
    <3>1. CASE d = c
      BY <2>1, <3>1, FollowAttach
    <3>2. CASE d # c
      BY <2>1, <3>2, FollowStutter DEF Attach, Subscribe, taskVars
    <3> QED BY <3>1, <3>2
  <2>2. ASSUME NEW state \in {"none", "gone"}, Unsubscribe(c, state), UNCHANGED taskVars
        PROVE  FollowInv(d)'
    <3>1. CASE d = c
      BY <2>2, <3>1 DEF Unsubscribe, FollowInv
    <3>2. CASE d # c
      BY <2>2, <3>2, FollowStutter DEF Unsubscribe, taskVars
    <3> QED BY <3>1, <3>2
  <2>3. CASE Detach(c) \/ Lagged(c) \/ Close(c)
    BY <2>2, <2>3 DEF Detach, Lagged, Close
  <2>4. CASE Connect(c)
    <3>1. CASE d = c
      BY <2>4, <3>1 DEF Connect, FollowInv
    <3>2. CASE d # c
      BY <2>4, <3>2, FollowStutter DEF Connect, taskVars
    <3> QED BY <3>1, <3>2
  <2>5. CASE Replay(c) \/ Recv(c)
    BY <2>5, FollowStutter DEF Replay, Recv, taskVars
  <2>6. CASE StopCheck(c) \/ StopEmit(c)
    BY <1>1, <2>6 DEF StopCheck, StopEmit
  <2> QED BY <1>5, <2>1, <2>3, <2>4, <2>5, <2>6 DEF ConnStep
<1>6. CASE UNCHANGED vars
  BY <1>1, <1>6 DEF vars, taskVars
<1> QED BY <1>2, <1>3, <1>4, <1>5, <1>6 DEF Next

\* The invariant of all connections is that of each.
LEMMA ConnInvIsFollowInv == ConnInv <=> \A c \in Conns : FollowInv(c)
  BY DEF ConnInv, FollowInv

\* Every step keeps the invariant of all connections.
LEMMA ConnInvStep == TypeOK /\ LogInv /\ ConnInv /\ [Next]_vars => ConnInv'
<1> SUFFICES ASSUME TypeOK, LogInv, ConnInv, [Next]_vars PROVE ConnInv'
  OBVIOUS
<1>1. \A c \in Conns : FollowInv(c)'
  BY FollowStep, ConnInvIsFollowInv
<1> QED BY <1>1 DEF ConnInv, FollowInv

-----------------------------------------------------------------------------
(* The theorems.                                                           *)

\* The stream invariant holds in every reachable state.
THEOREM StreamInvariance == Spec => []StreamInv
<1>1. Init => StreamInv
  BY InitInv
<1>2. StreamInv /\ [Next]_vars => StreamInv'
  BY TypeStep, LogStep, ConnInvStep DEF StreamInv
<1> QED BY <1>1, <1>2, PTL DEF Spec

\* The variables keep their types, and no connection's cursor overtakes what
\* it reads (session.rs, ws.rs:345-370 and 466-494).
THEOREM TypeCorrect == Spec => []TypeOK
<1>1. StreamInv => TypeOK
  BY DEF StreamInv
<1> QED BY <1>1, StreamInvariance, PTL

\* What an attached client gets, by the part of its view: the snapshot, then
\* the live events, which all came later.
LEMMA ViewParts ==
  ASSUME StreamInv, NEW c \in Conns, link[c] = "attached"
  PROVE  /\ snap[c] \in Nat /\ base[c] \in Nat /\ Len(chan) \in Nat /\ base[c] <= Len(chan)
         /\ DOMAIN View(c) = 1 .. snap[c] + (Len(chan) - base[c])
         /\ \A i \in 1 .. snap[c] : View(c)[i] = log[i] /\ log[i] \in 1 .. base[c]
         /\ \A i \in DOMAIN View(c) : i > snap[c] => View(c)[i] = base[c] + (i - snap[c])
         /\ \A i, j \in 1 .. snap[c] : log[i] = log[j] => i = j
<1>1. /\ snap[c] \in Nat /\ base[c] \in Nat /\ Len(chan) \in Nat /\ Len(log) \in Nat
      /\ base[c] <= Len(chan) /\ snap[c] <= Len(log)
  BY DEF StreamInv, TypeOK
<1>2. \A i \in 1 .. snap[c] : i \in 1 .. Len(log) /\ log[i] \in 1 .. base[c]
  BY <1>1 DEF StreamInv, LogInv, ConnInv, Numbers
<1>3. \A i, j \in 1 .. snap[c] : log[i] = log[j] => i = j
  BY <1>2 DEF StreamInv, LogInv
<1> QED BY <1>1, <1>2, <1>3 DEF View

\* No event is twice in a view.
LEMMA ViewOnce == StreamInv => NoDuplicate
<1> SUFFICES ASSUME StreamInv, NEW c \in Conns, link[c] = "attached",
                    NEW i \in DOMAIN View(c), NEW j \in DOMAIN View(c),
                    View(c)[i] = View(c)[j]
             PROVE  i = j
  BY DEF NoDuplicate
<1>1. \A k \in DOMAIN View(c) : k \in Nat /\ (k <= snap[c] => k \in 1 .. snap[c])
  BY ViewParts
<1>2. CASE i <= snap[c] /\ j <= snap[c]
  BY <1>1, <1>2, ViewParts
<1>3. CASE i <= snap[c] /\ j > snap[c]
  BY <1>1, <1>3, ViewParts
<1>4. CASE i > snap[c] /\ j <= snap[c]
  BY <1>1, <1>4, ViewParts
<1>5. CASE i > snap[c] /\ j > snap[c]
  BY <1>1, <1>5, ViewParts
<1>6. snap[c] \in Nat
  BY ViewParts
<1> QED BY <1>1, <1>2, <1>3, <1>4, <1>5, <1>6

\* No client is sent an event twice, whatever emits while it attaches (the
\* half of session.rs:62-63 that holds).
THEOREM NeverDuplicates == Spec => []NoDuplicate
<1> QED BY ViewOnce, StreamInvariance, PTL

\* A client misses exactly the events that were between the halves of emit()
\* when it attached (session.rs:64-81), and nothing after that.
THEOREM LossIsExact == Spec => []LossIsExcused
<1>1. StreamInv => LossIsExcused
  <2> SUFFICES ASSUME StreamInv, NEW c \in Conns, link[c] = "attached"
               PROVE  Lost(c) = excused[c]
    BY DEF LossIsExcused
  <2>1. excused[c] = (1 .. base[c]) \ {log[i] : i \in 1 .. snap[c]}
    BY DEF StreamInv, ConnInv
  <2>2. ASSUME NEW n \in Lost(c) PROVE n \in excused[c]
    <3>1. n \in 1 .. Len(chan) /\ \A i \in DOMAIN View(c) : View(c)[i] # n
      BY <2>2 DEF Lost
    <3>2. \A i \in 1 .. snap[c] : log[i] # n
      BY <3>1, ViewParts
    <3>3. n <= base[c]
      <4> SUFFICES ASSUME n > base[c] PROVE FALSE
        BY <3>1, ViewParts
      <4> DEFINE i == snap[c] + (n - base[c])
      <4>1. i \in DOMAIN View(c) /\ i > snap[c] /\ base[c] + (i - snap[c]) = n
        BY <3>1, ViewParts
      <4> QED BY <3>1, <4>1, ViewParts
    <3> QED BY <2>1, <3>1, <3>2, <3>3, ViewParts
  <2>3. ASSUME NEW n \in excused[c] PROVE n \in Lost(c)
    <3>1. n \in 1 .. base[c] /\ \A i \in 1 .. snap[c] : log[i] # n
      BY <2>1, <2>3
    <3>2. ASSUME NEW i \in DOMAIN View(c) PROVE View(c)[i] # n
      <4>1. CASE i <= snap[c]
        BY <4>1, <3>1, ViewParts
      <4>2. CASE i > snap[c]
        BY <4>2, <3>1, ViewParts
      <4> QED BY <4>1, <4>2, ViewParts
    <3> QED BY <3>1, <3>2, ViewParts DEF Lost
  <2> QED BY <2>2, <2>3
<1> QED BY <1>1, StreamInvariance, PTL

-----------------------------------------------------------------------------
(* The order of an emitter's events.                                       *)

\* An emitter's events are logged in the order it broadcast them: what it has
\* in flight is later than what it has logged.
OrderInv ==
  /\ \A e \in Emitters : pending[e] # 0 => chan[pending[e]].by = e
  /\ \A i, j \in 1 .. Len(log) :
       i < j /\ chan[log[i]].by = chan[log[j]].by => log[i] < log[j]
  /\ \A i \in 1 .. Len(log), e \in Emitters :
       pending[e] # 0 /\ chan[log[i]].by = e => log[i] < pending[e]

\* emit() up to its broadcast
LEMMA SendOrder ==
  ASSUME StreamInv, OrderInv, NEW e \in Emitters, NEW kind \in Kinds,
         pending[e] = 0, Send(e, kind), log' = log
  PROVE  OrderInv'
<1>1. PICK r : r = [kind |-> kind, by |-> e]
  OBVIOUS
<1>2. r \in Events /\ r.by = e
  BY <1>1 DEF Events
<1>3. chan' = Append(chan, r) /\ chan \in Seq(Events)
  BY <1>1 DEF Send, StreamInv, TypeOK
<1>4. /\ Len(chan) \in Nat /\ \A n \in Numbers : chan'[n] = chan[n]
      /\ chan'[Len(chan) + 1] = r
  BY <1>2, <1>3 DEF Numbers
<1>5. \A f \in Emitters : pending'[f] = IF f = e THEN Len(chan) + 1 ELSE pending[f]
  BY DEF Send, StreamInv, TypeOK
<1>6. \A f \in Emitters : pending[f] # 0 => pending[f] \in Numbers
  BY DEF StreamInv, TypeOK, LogInv, Numbers
<1>7. \A i \in 1 .. Len(log) : log[i] \in Numbers /\ log[i] <= Len(chan)
  BY DEF StreamInv, LogInv, Numbers
<1>8. \A f \in Emitters : pending'[f] # 0 => chan'[pending'[f]].by = f
  BY <1>2, <1>4, <1>5, <1>6 DEF OrderInv
<1>9. \A i \in 1 .. Len(log), f \in Emitters :
        pending'[f] # 0 /\ chan'[log[i]].by = f => log[i] < pending'[f]
  <2> SUFFICES ASSUME NEW i \in 1 .. Len(log), NEW f \in Emitters,
                      pending'[f] # 0, chan'[log[i]].by = f
               PROVE  log[i] < pending'[f]
    OBVIOUS
  <2>1. CASE f = e
    BY <1>4, <1>5, <1>7, <2>1 DEF Numbers
  <2>2. CASE f # e
    BY <1>4, <1>5, <1>7, <2>2 DEF OrderInv
  <2> QED BY <2>1, <2>2
<1>10. \A i, j \in 1 .. Len(log) :
         i < j /\ chan'[log[i]].by = chan'[log[j]].by => log[i] < log[j]
  BY <1>4, <1>7 DEF OrderInv
<1> QED BY <1>8, <1>9, <1>10 DEF OrderInv

\* The append
LEMMA PushOrder ==
  ASSUME StreamInv, OrderInv, NEW e \in Emitters, Push(e)
  PROVE  OrderInv'
<1>1. PICK p : p = pending[e] /\ p # 0 /\ chan[p].by = e
  BY DEF Push, OrderInv
<1>2. /\ log' = Append(log, p) /\ Len(log') = Len(log) + 1 /\ Len(log) \in Nat
      /\ \A i \in 1 .. Len(log) : log'[i] = log[i]
      /\ log'[Len(log) + 1] = p /\ p \in Nat
      /\ chan' = chan
      /\ \A f \in Emitters : pending'[f] = IF f = e THEN 0 ELSE pending[f]
  BY <1>1 DEF Push, StreamInv, TypeOK
<1>3. \A i \in 1 .. Len(log') : i \in 1 .. Len(log) \/ i = Len(log) + 1
  BY <1>2
<1>4. \A f \in Emitters : pending'[f] # 0 => chan'[pending'[f]].by = f
  BY <1>2 DEF OrderInv
<1>5. \A i, j \in 1 .. Len(log') :
        i < j /\ chan[log'[i]].by = chan[log'[j]].by => log'[i] < log'[j]
  <2> SUFFICES ASSUME NEW i \in 1 .. Len(log'), NEW j \in 1 .. Len(log'),
                      i < j, chan[log'[i]].by = chan[log'[j]].by
               PROVE  log'[i] < log'[j]
    OBVIOUS
  <2>1. i \in 1 .. Len(log)
    BY <1>2
  <2>2. CASE j \in 1 .. Len(log)
    BY <1>2, <2>1, <2>2 DEF OrderInv
  <2>3. CASE j = Len(log) + 1
    BY <1>1, <1>2, <2>1, <2>3 DEF OrderInv
  <2> QED BY <1>3, <2>2, <2>3
<1>6. \A i \in 1 .. Len(log'), f \in Emitters :
        pending'[f] # 0 /\ chan[log'[i]].by = f => log'[i] < pending'[f]
  BY <1>1, <1>2, <1>3 DEF OrderInv
<1> QED BY <1>2, <1>4, <1>5, <1>6 DEF OrderInv

\* Every step keeps the order.
LEMMA OrderStep == StreamInv /\ OrderInv /\ [Next]_vars => OrderInv'
<1> SUFFICES ASSUME StreamInv, OrderInv, [Next]_vars PROVE OrderInv'
  OBVIOUS
<1>1. ASSUME UNCHANGED <<chan, log, pending>> PROVE OrderInv'
  BY <1>1 DEF OrderInv
<1>2. CASE AgentEmit \/ AgentDone
  <2>1. PICK kind \in Kinds : Send(Agent, kind)
    BY <1>2 DEF AgentEmit, AgentDone, Kinds
  <2>2. Agent \in Emitters /\ pending[Agent] = 0 /\ log' = log
    BY <1>2 DEF AgentEmit, AgentDone, AgentIdle, Emitters
  <2> QED BY <2>1, <2>2, SendOrder
<1>3. CASE AgentExit \/ AgentAborted \/ AgentPanic \/ CreatorAttach
  BY <1>1, <1>3 DEF AgentExit, AgentAborted, AgentPanic, CreatorAttach
<1>4. CASE \E e \in Emitters : Push(e)
  BY <1>4, PushOrder
<1>5. ASSUME NEW c \in Conns, ConnStep(c) PROVE OrderInv'
  <2>1. CASE StopEmit(c)
    <3>1. c \in Emitters /\ "stopped" \in Kinds /\ Send(c, "stopped") /\ log' = log
      BY <2>1 DEF StopEmit, Emitters, Kinds
    <3>2. pending[c] = 0
      BY <2>1 DEF StopEmit, StreamInv, LogInv
    <3> QED BY <3>1, <3>2, SendOrder
  <2>2. CASE ~StopEmit(c)
    BY <1>1, <1>5, <2>2 DEF ConnStep, Attach, Detach, Replay, Recv, Lagged, Close,
       Connect, StopCheck, taskVars
  <2> QED BY <2>1, <2>2
<1>6. CASE UNCHANGED vars
  BY <1>1, <1>6 DEF vars, taskVars
<1> QED BY <1>2, <1>3, <1>4, <1>5, <1>6 DEF Next, AgentStep

\* An attached client gets the events of one emitter in the order they were
\* emitted, across the seam between replay and live stream (session.rs:64-81),
\* although the log does not keep the order in which they were broadcast.
THEOREM EmitterOrderHolds == Spec => []EmitterOrder
<1>1. Init => OrderInv
  BY DEF Init, OrderInv
<1>2. StreamInv /\ OrderInv => EmitterOrder
  <2> SUFFICES ASSUME StreamInv, OrderInv, NEW c \in Conns, link[c] = "attached",
                      NEW i \in DOMAIN View(c), NEW j \in DOMAIN View(c),
                      i < j, chan[View(c)[i]].by = chan[View(c)[j]].by
               PROVE  View(c)[i] < View(c)[j]
    BY DEF EmitterOrder
  <2>1. /\ i \in Nat /\ (i <= snap[c] => i \in 1 .. snap[c])
        /\ j \in Nat /\ (j <= snap[c] => j \in 1 .. snap[c])
        /\ snap[c] \in Nat /\ base[c] \in Nat
    BY ViewParts
  <2>2. CASE j <= snap[c]
    <3>1. View(c)[i] = log[i] /\ View(c)[j] = log[j]
      BY <2>1, <2>2, ViewParts
    <3>2. snap[c] <= Len(log) /\ Len(log) \in Nat
      BY DEF StreamInv, TypeOK
    <3> QED BY <2>1, <2>2, <3>1, <3>2 DEF OrderInv
  <2>3. CASE i <= snap[c] /\ j > snap[c]
    <3>1. View(c)[i] = log[i] /\ log[i] \in 1 .. base[c]
      BY <2>1, <2>3, ViewParts
    <3>2. View(c)[j] = base[c] + (j - snap[c])
      BY <2>3, ViewParts
    <3> QED BY <2>1, <2>3, <3>1, <3>2
  <2>4. CASE i > snap[c]
    <3>1. View(c)[i] = base[c] + (i - snap[c])
      BY <2>4, ViewParts
    <3>2. j > snap[c]
      BY <2>1, <2>4
    <3>3. View(c)[j] = base[c] + (j - snap[c])
      BY <3>2, ViewParts
    <3> QED BY <2>1, <3>1, <3>3
  <2> QED BY <2>1, <2>2, <2>3, <2>4
<1> QED BY <1>1, <1>2, OrderStep, StreamInvariance, PTL DEF Spec

-----------------------------------------------------------------------------
(* The stream implements the feed.                                         *)

\* A connection that follows no task has forgotten the last one, and the live
\* events wait until the snapshot has been sent.
CursorInv ==
  \A c \in Conns :
    /\ link[c] # "attached" =>
         snap[c] = 0 /\ replayed[c] = 0 /\ base[c] = 0 /\ cur[c] = 0 /\ excused[c] = {}
    /\ cur[c] # base[c] => replayed[c] = snap[c]

\* Every step keeps it.
LEMMA CursorStep == TypeOK /\ CursorInv /\ [Next]_vars => CursorInv'
<1> SUFFICES ASSUME TypeOK, CursorInv, [Next]_vars PROVE CursorInv'
  OBVIOUS
<1> USE DEF TypeOK
<1>1. CASE UNCHANGED connVars
  BY <1>1 DEF connVars, CursorInv
<1>2. CASE AgentStep \/ (\E e \in Emitters : Push(e)) \/ UNCHANGED vars
  BY <1>1, <1>2 DEF AgentStep, AgentEmit, AgentDone, AgentExit, AgentAborted, AgentPanic,
     Push, vars
<1>3. ASSUME NEW c \in Conns, NEW n, NEW lost, Subscribe(c, n, lost) PROVE CursorInv'
  BY <1>3 DEF Subscribe, CursorInv
<1>4. CASE CreatorAttach
  BY <1>3, <1>4, CreatorAssumption DEF CreatorAttach
<1>5. ASSUME NEW c \in Conns, ConnStep(c) PROVE CursorInv'
  <2>1. CASE Attach(c)
    BY <1>3, <2>1 DEF Attach
  <2>2. ASSUME NEW state, state # "attached", Unsubscribe(c, state) PROVE CursorInv'
    BY <2>2 DEF Unsubscribe, CursorInv
  <2>3. CASE Detach(c) \/ Lagged(c) \/ Close(c)
    BY <2>2, <2>3 DEF Detach, Lagged, Close
  <2>4. CASE Connect(c)
    BY <2>4 DEF Connect, CursorInv
  <2>5. CASE Replay(c)
    BY <2>5 DEF Replay, CursorInv
  <2>6. CASE Recv(c)
    BY <2>6 DEF Recv, Ready, CursorInv
  <2>7. CASE StopCheck(c) \/ StopEmit(c)
    BY <1>1, <2>7 DEF StopCheck, StopEmit
  <2> QED BY <1>5, <2>1, <2>3, <2>4, <2>5, <2>6, <2>7 DEF ConnStep
<1> QED BY <1>2, <1>4, <1>5 DEF Next

\* What the feed sees of the stream.
Published == Len(chan)
Settled == {log[i] : i \in DOMAIN log}
Following == {c \in Conns : link[c] = "attached"}
Seen == [c \in Conns |-> Shown(c)]

FeedInv == StreamInv /\ CursorInv

\* A prefix of a sequence depends on that prefix only, and grows at its end.
LEMMA Prefixes ==
  ASSUME NEW n \in Nat, NEW m \in Nat, NEW v \in [1 .. n -> Nat], NEW w \in [1 .. m -> Nat],
         NEW k \in Nat, k <= n, k <= m, \A i \in 1 .. k : v[i] = w[i]
  PROVE  /\ SubSeq(v, 1, k) = SubSeq(w, 1, k)
         /\ k < m => SubSeq(w, 1, k + 1) = Append(SubSeq(v, 1, k), w[k + 1])
<1>1. /\ SubSeq(v, 1, k) \in Seq(Nat) /\ Len(SubSeq(v, 1, k)) = k
      /\ \A i \in 1 .. k : SubSeq(v, 1, k)[i] = v[i]
  <2>1. \A i \in 1 .. k : v[i] \in Nat
    OBVIOUS
  <2> QED BY <2>1, SubSeqProperties
<1>2. /\ SubSeq(w, 1, k) \in Seq(Nat) /\ Len(SubSeq(w, 1, k)) = k
      /\ \A i \in 1 .. k : SubSeq(w, 1, k)[i] = w[i]
  <2>1. \A i \in 1 .. k : w[i] \in Nat
    OBVIOUS
  <2> QED BY <2>1, SubSeqProperties
<1>3. SubSeq(v, 1, k) = SubSeq(w, 1, k)
  BY <1>1, <1>2, SeqEqual
<1>4. ASSUME k < m PROVE SubSeq(w, 1, k + 1) = Append(SubSeq(v, 1, k), w[k + 1])
  <2>1. \A i \in 1 .. k + 1 : w[i] \in Nat
    BY <1>4
  <2>2. /\ SubSeq(w, 1, k + 1) \in Seq(Nat) /\ Len(SubSeq(w, 1, k + 1)) = k + 1
        /\ \A i \in 1 .. k + 1 : SubSeq(w, 1, k + 1)[i] = w[i]
    BY <2>1, SubSeqProperties
  <2>3. PICK t : t = Append(SubSeq(v, 1, k), w[k + 1])
    OBVIOUS
  <2>4. /\ t \in Seq(Nat) /\ Len(t) = k + 1 /\ t[k + 1] = w[k + 1]
        /\ \A i \in 1 .. k : t[i] = v[i]
    BY <1>1, <2>1, <2>3, AppendProperties
  <2>5. \A i \in 1 .. k + 1 : SubSeq(w, 1, k + 1)[i] = t[i]
    BY <2>2, <2>4
  <2> QED BY <2>2, <2>3, <2>4, <2>5, SeqEqual
<1> QED BY <1>3, <1>4

\* A view as a sequence, and how much of it has been sent
LEMMA ViewSeq ==
  ASSUME TypeOK, NEW c \in Conns
  PROVE  /\ View(c) \in [1 .. snap[c] + (Len(chan) - base[c]) -> Nat]
         /\ snap[c] + (Len(chan) - base[c]) \in Nat
         /\ replayed[c] + (cur[c] - base[c]) \in Nat
         /\ replayed[c] + (cur[c] - base[c]) <= snap[c] + (Len(chan) - base[c])
BY DEF TypeOK, View

\* What has been sent to a connection stays, while its cursors do.
LEMMA ShownStays ==
  ASSUME TypeOK, TypeOK', NEW c \in Conns,
         snap'[c] = snap[c], replayed'[c] = replayed[c], base'[c] = base[c], cur'[c] = cur[c],
         \A i \in 1 .. snap[c] : log'[i] = log[i], Len(chan) <= Len(chan')
  PROVE  Shown(c)' = Shown(c)
<1>1. PICK v : v = View(c)
  OBVIOUS
<1>2. PICK w : w = View(c)'
  OBVIOUS
<1>3. PICK n : n = snap[c] + (Len(chan) - base[c])
  OBVIOUS
<1>4. PICK m : m = snap[c] + (Len(chan') - base[c])
  OBVIOUS
<1>5. PICK k : k = replayed[c] + (cur[c] - base[c])
  OBVIOUS
<1>6. n \in Nat /\ m \in Nat /\ k \in Nat /\ k <= n /\ k <= m
  <2>1. /\ snap[c] \in Nat /\ replayed[c] \in Nat /\ base[c] \in Nat /\ cur[c] \in Nat
        /\ Len(chan) \in Nat /\ Len(chan') \in Nat /\ replayed[c] <= snap[c]
        /\ base[c] <= cur[c] /\ cur[c] <= Len(chan)
    BY DEF TypeOK
  <2>2. PICK sn \in Nat, re \in Nat, ba \in Nat, cu \in Nat, le \in Nat, nl \in Nat :
            /\ sn = snap[c] /\ re = replayed[c] /\ ba = base[c] /\ cu = cur[c]
            /\ le = Len(chan) /\ nl = Len(chan')
    BY <2>1
  <2>3. re <= sn /\ ba <= cu /\ cu <= le /\ le <= nl
    BY <2>1, <2>2
  <2>4. n = sn + (le - ba) /\ m = sn + (nl - ba) /\ k = re + (cu - ba)
    BY <1>3, <1>4, <1>5, <2>2
  <2> QED BY <2>3, <2>4
<1>7. v \in [1 .. n -> Nat]
  BY <1>1, <1>3, ViewSeq
<1>8. w = [i \in 1 .. m |-> IF i <= snap[c] THEN log'[i] ELSE base[c] + (i - snap[c])]
  BY <1>2, <1>4 DEF View
<1>9. w \in [1 .. m -> Nat]
  BY <1>4, <1>8 DEF TypeOK
<1>10. \A i \in 1 .. k : v[i] = w[i]
  BY <1>1, <1>3, <1>6, <1>8 DEF View, TypeOK
<1>11. SubSeq(v, 1, k) = SubSeq(w, 1, k)
  BY <1>6, <1>7, <1>9, <1>10, Prefixes
<1> QED BY <1>1, <1>2, <1>5, <1>11 DEF Shown

\* One event more of an unchanged view is sent, and it is a new one.
LEMMA ShownGrows ==
  ASSUME FeedInv, NEW c \in Conns, link[c] = "attached",
         UNCHANGED <<chan, log, snap, base>>,
         replayed'[c] + (cur'[c] - base'[c]) = replayed[c] + (cur[c] - base[c]) + 1,
         replayed[c] + (cur[c] - base[c]) < snap[c] + (Len(chan) - base[c])
  PROVE  \E e \in 1 .. Published :
           /\ Shown(c)' = Append(Shown(c), e)
           /\ e \notin excused[c]
           /\ e \notin {Shown(c)[i] : i \in 1 .. Len(Shown(c))}
<1>1. PICK v : v = View(c)
  OBVIOUS
<1>2. PICK n : n = snap[c] + (Len(chan) - base[c])
  OBVIOUS
<1>3. PICK k : k = replayed[c] + (cur[c] - base[c])
  OBVIOUS
<1>4. v \in [1 .. n -> Nat] /\ n \in Nat /\ k \in Nat /\ k < n
  BY <1>1, <1>2, <1>3, ViewSeq DEF FeedInv, StreamInv
<1>5. View(c)' = v
  BY <1>1 DEF View
<1>6. Shown(c) = SubSeq(v, 1, k) /\ Shown(c)' = SubSeq(v, 1, k + 1)
  BY <1>1, <1>3, <1>5 DEF Shown
<1>7. Shown(c)' = Append(Shown(c), v[k + 1])
  BY <1>4, <1>6, Prefixes
<1>8. v[k + 1] \notin {Shown(c)[i] : i \in 1 .. Len(Shown(c))}
  <2>1. /\ Len(SubSeq(v, 1, k)) = k
        /\ \A i \in 1 .. k : SubSeq(v, 1, k)[i] = v[i]
    <3>1. \A i \in 1 .. k : v[i] \in Nat
      BY <1>4
    <3> QED BY <1>4, <3>1, SubSeqProperties
  <2>2. \A i \in 1 .. k : v[i] # v[k + 1]
    <3>1. NoDuplicate
      BY ViewOnce DEF FeedInv
    <3> QED BY <1>1, <1>2, <1>4, <3>1 DEF NoDuplicate
  <2> QED BY <1>4, <1>6, <2>1, <2>2
<1>9. v[k + 1] \in 1 .. Published /\ v[k + 1] \notin excused[c]
  <2>1. DOMAIN v = 1 .. n /\ k + 1 \in DOMAIN v
    BY <1>4
  <2>2. excused[c] = (1 .. base[c]) \ {log[i] : i \in 1 .. snap[c]}
    BY DEF FeedInv, StreamInv, ConnInv
  <2>3. snap[c] \in Nat /\ base[c] \in Nat /\ Len(chan) \in Nat /\ base[c] <= Len(chan)
    BY DEF FeedInv, StreamInv, TypeOK
  <2>4. CASE k + 1 <= snap[c]
    <3>1. v[k + 1] = log[k + 1] /\ log[k + 1] \in 1 .. base[c] /\ k + 1 \in 1 .. snap[c]
      BY <1>1, <1>4, <2>3, <2>4, ViewParts DEF FeedInv
    <3> QED BY <2>2, <2>3, <3>1 DEF Published
  <2>5. CASE k + 1 > snap[c]
    <3>1. v[k + 1] = base[c] + ((k + 1) - snap[c])
      BY <1>1, <2>1, <2>5, ViewParts DEF FeedInv
    <3> QED BY <1>2, <1>4, <2>2, <2>3, <2>5, <3>1 DEF Published
  <2> QED BY <1>4, <2>3, <2>4, <2>5
<1> QED BY <1>7, <1>8, <1>9

\* Nothing has been sent to a connection that follows no task, or is new.
LEMMA NothingShown ==
  ASSUME TypeOK', NEW c \in Conns, replayed'[c] = 0, cur'[c] = base'[c]
  PROVE  Shown(c)' = <<>>
<1>1. replayed'[c] + (cur'[c] - base'[c]) = 0
  BY DEF TypeOK
<1>2. Shown(c)' = SubSeq(View(c)', 1, 0)
  BY <1>1 DEF Shown
<1> QED BY <1>2, SubSeqEmpty

-----------------------------------------------------------------------------
(* Steps of the stream are steps of the feed.                              *)

\* All connections see what they saw.
LEMMA SeenStays ==
  ASSUME FeedInv, TypeOK', UNCHANGED connVars, Len(chan) <= Len(chan'),
         \A i \in 1 .. Len(log) : log'[i] = log[i]
  PROVE  Seen' = Seen /\ Following' = Following /\ excused' = excused
<1>1. ASSUME NEW c \in Conns PROVE Shown(c)' = Shown(c)
  <2>1. \A i \in 1 .. snap[c] : log'[i] = log[i]
    BY DEF FeedInv, StreamInv, TypeOK
  <2> QED BY <2>1, ShownStays DEF connVars, FeedInv, StreamInv
<1> QED BY <1>1 DEF Seen, Following, connVars

\* What one connection sees may change.
LEMMA SeenBut ==
  ASSUME FeedInv, TypeOK', NEW c \in Conns, UNCHANGED <<chan, log>>,
         \A d \in Conns \ {c} : /\ snap'[d] = snap[d] /\ replayed'[d] = replayed[d]
                                /\ base'[d] = base[d] /\ cur'[d] = cur[d]
  PROVE  Seen' = [Seen EXCEPT ![c] = Shown(c)']
<1>1. TypeOK /\ Len(chan) <= Len(chan')
  BY DEF FeedInv, StreamInv, TypeOK
<1>2. ASSUME NEW d \in Conns \ {c} PROVE Shown(d)' = Shown(d)
  BY <1>1, ShownStays
<1> QED BY <1>2 DEF Seen

\* A broadcast is a publication.
LEMMA SendPublishes ==
  ASSUME FeedInv, TypeOK', NEW e \in Emitters, NEW kind \in Kinds, Send(e, kind),
         UNCHANGED <<log, connVars>>
  PROVE  Feed!Publish
<1>1. Published' = Published + 1 /\ Settled' = Settled
  BY DEF Published, Settled, Send, FeedInv, StreamInv, TypeOK
<1>2. Seen' = Seen /\ Following' = Following /\ excused' = excused
  BY <1>1, SeenStays DEF Published, FeedInv, StreamInv, TypeOK
<1> QED BY <1>1, <1>2 DEF Feed!Publish, Published, Settled, Seen, Following

\* The append settles the event.
LEMMA PushSettles ==
  ASSUME FeedInv, TypeOK', NEW e \in Emitters, Push(e)
  PROVE  \E n \in 1 .. Published : Feed!Settle(n)
<1>1. PICK p : p = pending[e]
  OBVIOUS
<1>2. /\ p \in 1 .. Published /\ p \notin Settled
      /\ log' = Append(log, p) /\ log \in Seq(Nat) /\ p \in Nat
      /\ UNCHANGED <<chan, connVars>>
  <2>1. p \in Nat /\ p # 0 /\ p <= Len(chan) /\ log \in Seq(Nat) /\ Len(chan) \in Nat
    BY <1>1 DEF Push, FeedInv, StreamInv, LogInv, TypeOK
  <2>2. \A i \in 1 .. Len(log) : log[i] # p
    BY <1>1 DEF FeedInv, StreamInv, LogInv
  <2>3. DOMAIN log = 1 .. Len(log)
    BY <2>1
  <2> QED BY <1>1, <2>1, <2>2, <2>3 DEF Push, Published, Settled
<1>3. /\ Len(log') = Len(log) + 1 /\ Len(log) \in Nat
      /\ \A i \in 1 .. Len(log) : log'[i] = log[i]
      /\ log'[Len(log) + 1] = p
  BY <1>2
<1>4. Settled' = Settled \cup {p}
  <2>1. DOMAIN log = 1 .. Len(log) /\ DOMAIN log' = 1 .. (Len(log) + 1)
    BY <1>2, <1>3 DEF TypeOK
  <2> QED BY <1>3, <2>1 DEF Settled
<1>5. Seen' = Seen /\ Following' = Following /\ excused' = excused /\ Published' = Published
  BY <1>2, <1>3, SeenStays DEF Published, FeedInv, StreamInv, TypeOK
<1> QED BY <1>2, <1>4, <1>5 DEF Feed!Settle, Published, Settled, Seen, Following

\* attach() subscribes to the feed.
LEMMA SubscribeFollows ==
  ASSUME FeedInv, TypeOK', NEW c \in Conns, NEW n, NEW lost, Subscribe(c, n, lost),
         UNCHANGED <<chan, log>>
  PROVE  Feed!SubscribeWith(c, lost)
<1>1. /\ replayed'[c] = 0 /\ cur'[c] = base'[c]
      /\ \A d \in Conns \ {c} : /\ snap'[d] = snap[d] /\ replayed'[d] = replayed[d]
                                /\ base'[d] = base[d] /\ cur'[d] = cur[d]
      /\ Following' = Following \cup {c} /\ excused' = [excused EXCEPT ![c] = lost]
  BY DEF Subscribe, FeedInv, StreamInv, TypeOK, Following
<1>2. Seen' = [Seen EXCEPT ![c] = <<>>]
  BY <1>1, SeenBut, NothingShown
<1>3. Published' = Published /\ Settled' = Settled
  BY DEF Published, Settled
<1> QED BY <1>1, <1>2, <1>3 DEF Feed!SubscribeWith, Published, Settled, Seen, Following

\* A handler that drops its receiver leaves the feed, if it was following.
LEMMA UnsubscribeLeaves ==
  ASSUME FeedInv, TypeOK', NEW c \in Conns, NEW state, state # "attached",
         Unsubscribe(c, state), UNCHANGED taskVars
  PROVE  Feed!Unsubscribe(c) \/ UNCHANGED <<Published, Settled, Following, Seen, excused>>
<1>1. /\ replayed'[c] = 0 /\ cur'[c] = base'[c]
      /\ \A d \in Conns \ {c} : /\ snap'[d] = snap[d] /\ replayed'[d] = replayed[d]
                                /\ base'[d] = base[d] /\ cur'[d] = cur[d]
      /\ Following' = Following \ {c} /\ excused' = [excused EXCEPT ![c] = {}]
  BY DEF Unsubscribe, FeedInv, StreamInv, TypeOK, Following
<1>2. Seen' = [Seen EXCEPT ![c] = <<>>]
  BY <1>1, SeenBut, NothingShown DEF taskVars
<1>3. Published' = Published /\ Settled' = Settled
  BY DEF Published, Settled, taskVars
<1>4. CASE c \in Following
  BY <1>1, <1>2, <1>3, <1>4 DEF Feed!Unsubscribe, Published, Settled, Seen, Following
<1>5. CASE c \notin Following
  <2>1. /\ snap[c] = 0 /\ replayed[c] = 0 /\ base[c] = 0 /\ cur[c] = 0 /\ excused[c] = {}
    BY <1>5 DEF FeedInv, CursorInv, Following
  <2>2. /\ snap'[c] = 0 /\ base'[c] = 0
    BY DEF Unsubscribe, FeedInv, StreamInv, TypeOK
  <2>3. Shown(c)' = Shown(c)
    BY <1>1, <2>1, <2>2, ShownStays DEF taskVars, FeedInv, StreamInv, TypeOK
  <2>4. Seen' = Seen
    <3>1. Seen' = [Seen EXCEPT ![c] = Shown(c)']
      BY <1>1, SeenBut DEF taskVars
    <3> QED BY <2>3, <3>1 DEF Seen
  <2>5. excused' = excused
    BY <1>1, <2>1 DEF FeedInv, StreamInv, TypeOK
  <2> QED BY <1>1, <1>3, <1>5, <2>4, <2>5
<1> QED BY <1>4, <1>5

\* An event sent to the client is delivered.
LEMMA SendingDelivers ==
  ASSUME FeedInv, TypeOK', NEW c \in Conns, link[c] = "attached",
         UNCHANGED <<chan, log, link, snap, base, excused>>,
         \A d \in Conns \ {c} : replayed'[d] = replayed[d] /\ cur'[d] = cur[d],
         replayed'[c] + (cur'[c] - base'[c]) = replayed[c] + (cur[c] - base[c]) + 1,
         replayed[c] + (cur[c] - base[c]) < snap[c] + (Len(chan) - base[c])
  PROVE  \E e \in 1 .. Published : Feed!Deliver(c, e)
<1>1. PICK e \in 1 .. Published :
           /\ Shown(c)' = Append(Shown(c), e)
           /\ e \notin excused[c]
           /\ e \notin {Shown(c)[i] : i \in 1 .. Len(Shown(c))}
  BY ShownGrows
<1>2. Seen' = [Seen EXCEPT ![c] = Append(@, e)]
  <2>1. Seen' = [Seen EXCEPT ![c] = Shown(c)']
    BY SeenBut
  <2> QED BY <1>1, <2>1 DEF Seen
<1>3. c \in Following /\ e \notin excused[c] \cup {Seen[c][i] : i \in 1 .. Len(Seen[c])}
  BY <1>1 DEF Following, Seen
<1>4. UNCHANGED <<Published, Settled, Following, excused>>
  BY DEF Published, Settled, Following
<1> QED BY <1>2, <1>3, <1>4 DEF Feed!Deliver, Feed!Sent, Published, Settled, Seen, Following

\* A step that broadcasts and logs nothing and moves no cursor is no step of
\* the feed.
LEMMA Stutters ==
  ASSUME FeedInv, TypeOK', UNCHANGED <<chan, log, connVars>>
  PROVE  UNCHANGED <<Published, Settled, Following, Seen, excused>>
<1>1. Seen' = Seen /\ Following' = Following /\ excused' = excused
  BY SeenStays DEF FeedInv, StreamInv, TypeOK
<1> QED BY <1>1 DEF Published, Settled

\* What a step of the stream is for the feed.
FeedStep ==
  \/ Feed!Publish
  \/ \E n \in 1 .. Published : Feed!Settle(n)
  \/ \E lost : lost = 1 .. Published /\ Feed!SubscribeWith(Creator, lost)
  \/ \E c \in Conns : \/ \E lost : lost = (1 .. Published) \ Settled /\ Feed!SubscribeWith(c, lost)
                      \/ Feed!Unsubscribe(c)
                      \/ \E e \in 1 .. Published : Feed!Deliver(c, e)
  \/ UNCHANGED <<Published, Settled, Following, Seen, excused>>

\* A step of a connection
LEMMA ConnFeeds ==
  ASSUME FeedInv, TypeOK', NEW c \in Conns, ConnStep(c) PROVE FeedStep
<1>1. CASE Attach(c)
  <2>1. InFlight = (1 .. Published) \ Settled
    <3>1. DOMAIN log = 1 .. Len(log)
      BY DEF FeedInv, StreamInv, TypeOK
    <3> QED BY <3>1, InFlightIsUnlogged DEF FeedInv, StreamInv, Numbers, Published, Settled
  <2>2. PICK n, lost : n = Len(log) /\ lost = InFlight
    OBVIOUS
  <2>3. Subscribe(c, n, lost) /\ UNCHANGED <<chan, log>>
    BY <1>1, <2>2 DEF Attach, taskVars
  <2>4. Feed!SubscribeWith(c, lost)
    BY <2>3, SubscribeFollows
  <2> QED BY <2>1, <2>2, <2>4 DEF FeedStep
<1>2. CASE Detach(c) \/ Lagged(c) \/ Close(c)
  <2>1. PICK state \in {"none", "gone"} : Unsubscribe(c, state) /\ UNCHANGED taskVars
    BY <1>2 DEF Detach, Lagged, Close
  <2> QED BY <2>1, UnsubscribeLeaves DEF FeedStep
<1>3. CASE Replay(c) \/ Recv(c)
  <2>1. /\ link[c] = "attached" /\ UNCHANGED <<chan, log, link, snap, base, excused>>
        /\ \A d \in Conns \ {c} : replayed'[d] = replayed[d] /\ cur'[d] = cur[d]
    BY <1>3 DEF Replay, Recv, taskVars, FeedInv, StreamInv, TypeOK
  <2>2. /\ replayed'[c] + (cur'[c] - base'[c]) = replayed[c] + (cur[c] - base[c]) + 1
        /\ replayed[c] + (cur[c] - base[c]) < snap[c] + (Len(chan) - base[c])
    <3>3. /\ snap[c] \in Nat /\ replayed[c] \in Nat /\ base[c] \in Nat /\ cur[c] \in Nat
          /\ Len(chan) \in Nat /\ base[c] <= cur[c] /\ cur[c] <= Len(chan)
      BY DEF FeedInv, StreamInv, TypeOK
    <3>1. CASE Replay(c)
      <4>1. replayed'[c] = replayed[c] + 1 /\ cur' = cur /\ base' = base /\ replayed[c] < snap[c]
        BY <3>1 DEF Replay, FeedInv, StreamInv, TypeOK
      <4>2. cur[c] = base[c]
        BY <4>1 DEF FeedInv, CursorInv, StreamInv, TypeOK
      <4> QED BY <3>3, <4>1, <4>2
    <3>2. CASE Recv(c)
      <4>1. /\ cur'[c] = cur[c] + 1 /\ replayed' = replayed /\ base' = base
            /\ cur[c] < Len(chan) /\ replayed[c] = snap[c]
        BY <3>2, CapacityAssumption DEF Recv, Ready, Unread, FeedInv, StreamInv, TypeOK
      <4> QED BY <3>3, <4>1
    <3> QED BY <1>3, <3>1, <3>2
  <2> QED BY <2>1, <2>2, SendingDelivers DEF FeedStep
<1>4. CASE Connect(c)
  <2>1. /\ UNCHANGED <<chan, log, snap, replayed, base, cur, excused>>
        /\ Following' = Following
    BY <1>4 DEF Connect, taskVars, FeedInv, StreamInv, TypeOK, Following
  <2>2. \A d \in Conns : Shown(d)' = Shown(d)
    BY <2>1 DEF Shown, View
  <2>3. Seen' = Seen
    BY <2>2 DEF Seen
  <2> QED BY <2>1, <2>3 DEF FeedStep, Published, Settled
<1>5. CASE StopCheck(c)
  BY <1>5, Stutters DEF StopCheck, FeedStep
<1>6. CASE StopEmit(c)
  <2>1. c \in Emitters /\ "stopped" \in Kinds /\ Send(c, "stopped") /\ UNCHANGED <<log, connVars>>
    BY <1>6 DEF StopEmit, Emitters, Kinds
  <2> QED BY <2>1, SendPublishes DEF FeedStep
<1> QED BY <1>1, <1>2, <1>3, <1>4, <1>5, <1>6 DEF ConnStep

\* Every step of the stream is one of the feed, or none.
LEMMA StreamFeeds ==
  ASSUME FeedInv, TypeOK', [Next]_vars PROVE FeedStep
<1>1. CASE AgentEmit \/ AgentDone
  <2>1. PICK kind \in Kinds : Send(Agent, kind)
    BY <1>1 DEF AgentEmit, AgentDone, Kinds
  <2>2. Agent \in Emitters /\ UNCHANGED <<log, connVars>>
    BY <1>1 DEF AgentEmit, AgentDone, Emitters
  <2> QED BY <2>1, <2>2, SendPublishes DEF FeedStep
<1>2. CASE AgentExit \/ AgentAborted \/ AgentPanic \/ UNCHANGED vars
  BY <1>2, Stutters DEF AgentExit, AgentAborted, AgentPanic, vars, taskVars, FeedStep
<1>3. CASE CreatorAttach
  <2>1. PICK lost : lost = 1 .. Len(chan)
    OBVIOUS
  <2>2. Subscribe(Creator, 0, lost) /\ UNCHANGED <<chan, log>>
    BY <1>3, <2>1 DEF CreatorAttach
  <2>3. Feed!SubscribeWith(Creator, lost)
    BY <2>2, SubscribeFollows, CreatorAssumption
  <2> QED BY <2>1, <2>3 DEF FeedStep, Published
<1>4. CASE \E e \in Emitters : Push(e)
  BY <1>4, PushSettles DEF FeedStep
<1>5. CASE \E c \in Conns : ConnStep(c)
  BY <1>5, ConnFeeds
<1> QED BY <1>1, <1>2, <1>3, <1>4, <1>5 DEF Next, AgentStep

LEMMA FeedStepIsNext ==
  ASSUME FeedStep PROVE [Feed!Next]_Feed!vars
<1>1. CASE Feed!Publish
  BY <1>1 DEF Feed!Next
<1>2. CASE \E n \in 1 .. Published : Feed!Settle(n)
  BY <1>2 DEF Feed!Next, Published
<1>3. CASE \E lost : lost = 1 .. Published /\ Feed!SubscribeWith(Creator, lost)
  BY <1>3 DEF Feed!Next, Feed!SubscribeFirst, Feed!SubscribeWith, Published
<1>4. CASE \E c \in Conns : \E lost :
             lost = (1 .. Published) \ Settled /\ Feed!SubscribeWith(c, lost)
  BY <1>4 DEF Feed!Next, Feed!Subscribe, Feed!SubscribeWith, Published, Settled
<1>5. CASE \E c \in Conns : Feed!Unsubscribe(c) \/ \E e \in 1 .. Published : Feed!Deliver(c, e)
  BY <1>5 DEF Feed!Next, Published
<1>6. CASE UNCHANGED <<Published, Settled, Following, Seen, excused>>
  BY <1>6 DEF Feed!vars, Published, Settled, Following, Seen
<1> QED BY <1>1, <1>2, <1>3, <1>4, <1>5, <1>6 DEF FeedStep

\* The initial state
LEMMA FeedInitially == Init => Feed!Init
<1> SUFFICES ASSUME Init PROVE Feed!Init
  OBVIOUS
<1>1. ASSUME NEW c \in Conns PROVE Shown(c) = <<>>
  <2>1. replayed[c] + (cur[c] - base[c]) = 0
    BY DEF Init
  <2>2. Shown(c) = SubSeq(View(c), 1, 0)
    BY <2>1 DEF Shown
  <2> QED BY <2>2, SubSeqEmpty
<1> QED BY <1>1 DEF Init, Feed!Init

\* The stream implements the feed: a client is delivered every event once, but
\* for those that were between the halves of emit() when it attached, and an
\* event in the log stays available to the next client (session.rs:61-81).
THEOREM StreamIsAFeed == Spec => FeedSpec
<1>1. Init => CursorInv
  BY DEF Init, CursorInv
<1>2. TypeOK /\ CursorInv /\ [Next]_vars => CursorInv'
  BY CursorStep
<1>3. StreamInv => TypeOK
  BY DEF StreamInv
<1>4. StreamInv /\ CursorInv /\ StreamInv' /\ [Next]_vars => [Feed!Next]_Feed!vars
  BY StreamFeeds, FeedStepIsNext DEF FeedInv, StreamInv
<1> QED BY <1>1, <1>2, <1>3, <1>4, FeedInitially, StreamInvariance, PTL
        DEF Spec, FeedSpec, Feed!Spec
=============================================================================
