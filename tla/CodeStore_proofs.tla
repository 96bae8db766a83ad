-------------------------- MODULE CodeStore_proofs --------------------------
(***************************************************************************)
(* Proofs about CodeStore, for every set of targets and requests and every *)
(* value of the limits: types, the daily budget, and for limits in the     *)
(* order of the code's the throttle of a target and its last code.         *)
(***************************************************************************)
EXTENDS CodeStore, FiniteSetTheorems, TLAPS

\* What is used of division: the first second of a day, and the order of days.

LEMMA DayBounds ==
  ASSUME NEW D \in Nat \ {0}, NEW a \in Nat
  PROVE  /\ a \div D \in Nat
         /\ (a \div D) * D <= a
         /\ a < (a \div D) * D + D
  BY Z3

LEMMA Mult ==
  ASSUME NEW D \in Nat \ {0}, NEW p \in Nat, NEW q \in Nat, p < q
  PROVE  p * D + D <= q * D
  <1>1. PICK k \in Nat : q = p + 1 + k
    <2>1. q - p - 1 \in Nat /\ q = p + 1 + (q - p - 1)
      OBVIOUS
    <2> QED BY <2>1
  <1>2. q * D = p * D + D + k * D
    BY <1>1, Z3
  <1>3. k * D \in Nat
    BY Z3
  <1>4. p * D \in Nat /\ q * D \in Nat
    BY Z3
  <1> QED BY <1>2, <1>3, <1>4

LEMMA DayMono ==
  ASSUME NEW D \in Nat \ {0}, NEW a \in Nat, NEW b \in Nat, a <= b
  PROVE  a \div D <= b \div D
  <1>1. PICK p \in Nat : p = a \div D /\ p * D <= a /\ a < p * D + D
    BY DayBounds
  <1>2. PICK q \in Nat : q = b \div D /\ q * D <= b /\ b < q * D + D
    BY DayBounds
  <1>3. p * D \in Nat /\ q * D \in Nat
    BY Z3
  <1>4. ~(q < p)
    BY <1>1, <1>2, <1>3, Mult
  <1> QED BY <1>1, <1>2, <1>4

LEMMA DayLater ==
  ASSUME NEW D \in Nat \ {0}, NEW a \in Nat, NEW b \in Nat, a + D <= b
  PROVE  a \div D < b \div D
  <1>1. PICK p \in Nat : p = a \div D /\ p * D <= a /\ a < p * D + D
    BY DayBounds
  <1>2. PICK q \in Nat : q = b \div D /\ q * D <= b /\ b < q * D + D
    BY DayBounds
  <1>3. p * D \in Nat /\ q * D \in Nat
    BY Z3
  <1>4. p # q
    BY <1>1, <1>2, <1>3
  <1>5. ~(q < p)
    BY <1>1, <1>2, <1>3, Mult
  <1> QED BY <1>1, <1>2, <1>4, <1>5

LEMMA DayFirst ==
  ASSUME NEW D \in Nat \ {0}, NEW a \in Nat, NEW b \in Nat, a + D <= b + 1, a \div D = b \div D
  PROVE  a = (b \div D) * D
  <1>1. PICK p \in Nat : p = a \div D /\ p * D <= a /\ a < p * D + D
    BY DayBounds
  <1>2. p = b \div D /\ p * D <= b /\ b < p * D + D
    BY DayBounds, <1>1
  <1>3. p * D \in Nat
    BY Z3
  <1> QED BY <1>1, <1>2, <1>3

-----------------------------------------------------------------------------
(* Types.                                                                  *)

LEMMA LimitsNat ==
  /\ Daily \in Nat /\ MaxAttempts \in Nat /\ Cooldown \in Nat
  /\ TTL \in Nat /\ Lock \in Nat /\ SendTime \in Nat
  BY LimitsAssumption

\* An entry changed in the way each operation changes it is still an entry.
LEMMA EntryRolled ==
  ASSUME NEW e \in Entry, NEW d \in Nat
  PROVE  [e EXCEPT !.day = d, !.sent = 0] \in Entry
  <1>1. 0 \in 0 .. Daily
    BY LimitsNat
  <1> QED
    BY <1>1 DEF Entry

LEMMA EntryStaged ==
  ASSUME NEW e \in Entry, NEW r \in Requests, NEW now \in Nat, e.sent < Daily
  PROVE  [e EXCEPT !.code = r, !.expires = now + TTL, !.attempts = 0,
                   !.last = now, !.sent = @ + 1] \in Entry
  <1>1. /\ e.sent + 1 \in 0 .. Daily
        /\ now + TTL \in Nat
        /\ 0 \in 0 .. MaxAttempts
    BY LimitsNat DEF Entry
  <1> QED
    BY <1>1 DEF Entry

LEMMA EntryGuessed ==
  ASSUME NEW e \in Entry, NEW now \in Nat, e.attempts < MaxAttempts
  PROVE  /\ [e EXCEPT !.attempts = @ + 1] \in Entry
         /\ [e EXCEPT !.attempts = @ + 1, !.code = NoCode, !.expires = now] \in Entry
  <1>1. e.attempts + 1 \in 0 .. MaxAttempts
    BY LimitsNat DEF Entry
  <1> QED
    BY <1>1 DEF Entry

LEMMA FreshIsEntry == Fresh \in Entry
  BY LimitsNat DEF Fresh, Entry

LEMMA TypeInit == Init => TypeOK
  <1> SUFFICES ASSUME Init PROVE TypeOK
    OBVIOUS
  <1>1. call \in [Requests -> Call]
    BY FreshIsEntry DEF Init, Call
  <1> QED
    BY <1>1, FreshIsEntry, CapAssumption, TimeAssumption DEF Init, TypeOK

LEMMA TypeStep == TypeOK /\ [Next]_vars => TypeOK'
  <1> SUFFICES ASSUME TypeOK, [Next]_vars PROVE TypeOK'
    OBVIOUS
  <1> USE CapAssumption, LimitsAssumption, TimeAssumption
  <1>1. ASSUME NEW r \in Requests, Begin(r) PROVE TypeOK'
    <2>1. Today \in Nat
      BY DayBounds DEF Today, TypeOK
    <2>2. call' \in [Requests -> Call]
      <3>1. PICK c : c = [call[r] EXCEPT !.pc = "begun", !.now = clock, !.day = Today]
        OBVIOUS
      <3>2. c \in Call
        BY <2>1, <3>1 DEF TypeOK, Call
      <3>3. call' = [call EXCEPT ![r] = c]
        BY <1>1, <3>1 DEF Begin, TypeOK
      <3> QED BY <3>2, <3>3 DEF TypeOK
    <2>3. crowded' \subseteq Targets
      BY <1>1 DEF Begin, TypeOK, Call, UnderWay, SameTarget
    <2> QED
      BY <1>1, <2>2, <2>3 DEF Begin, TypeOK
  <1>2. ASSUME NEW r \in Requests, Reserve(r) PROVE TypeOK'
    <2>1. entries' \in [Targets -> Entry]
      BY <1>2, FreshIsEntry DEF Reserve, Swept, TypeOK
    <2>2. call' \in [Requests -> Call] /\ call[r].day \in Nat
      BY <1>2 DEF Reserve, Goto, TypeOK, Call
    <2>3. counter' \in 0 .. Cap
      BY <1>2 DEF Reserve, Counted, TypeOK
    <2>4. held' \subseteq Requests /\ late' \in Nat
      BY <1>2 DEF Reserve, TypeOK
    <2> QED
      BY <1>2, <2>1, <2>2, <2>3, <2>4 DEF Reserve, TypeOK
  <1>3. ASSUME NEW r \in Requests, Copy(r) PROVE TypeOK'
    <2>1. call' \in [Requests -> Call]
      BY <1>3 DEF Copy, TypeOK, Call
    <2> QED
      BY <1>3, <2>1 DEF Copy, TypeOK
  <1>4. ASSUME NEW r \in Requests, Stage(r) PROVE TypeOK'
    <2> DEFINE t == call[r].target
               e == Rolled(r)
               now == call[r].now
    <2>0. call[r] \in Call /\ t \in Targets /\ now \in Nat /\ call[r].day \in Nat
      BY DEF TypeOK, Call
    <2>a. entries[t] \in Entry
      BY <2>0 DEF TypeOK
    <2>b. e \in Entry
      BY <2>0, <2>a, EntryRolled DEF Rolled, e
    <2>1. t \in Targets /\ now \in Nat /\ e \in Entry
      BY <2>0, <2>b
    <2> HIDE DEF e
    <2>2. call' \in [Requests -> Call]
      <3>1. \/ call' = [call EXCEPT ![r].pc = "releasing"]
            \/ call' = [call EXCEPT ![r].pc = "sending"]
        BY <1>4 DEF Stage, Goto
      <3> QED
        BY <3>1 DEF TypeOK, Call
    <2>3. entries' \in [Targets -> Entry]
      <3>1. CASE Refused(e, now)
        <4>1. entries' = [entries EXCEPT ![t] = e]
          BY <1>4, <3>1 DEF Stage, e
        <4> QED
          BY <4>1, <2>1 DEF TypeOK
      <3>2. CASE ~Refused(e, now)
        <4>1. entries' = [entries EXCEPT ![t] =
                [e EXCEPT !.code = r, !.expires = now + TTL, !.attempts = 0,
                          !.last = now, !.sent = @ + 1]]
          BY <1>4, <3>2 DEF Stage, e
        <4>2. e.sent < Daily
          BY <3>2, <2>1, LimitsNat DEF Refused, Entry
        <4>3. [e EXCEPT !.code = r, !.expires = now + TTL, !.attempts = 0,
                        !.last = now, !.sent = @ + 1] \in Entry
          BY <2>1, <4>2, EntryStaged
        <4> QED
          BY <4>1, <4>3, <2>1 DEF TypeOK
      <3> QED
        BY <3>1, <3>2
    <2> QED
      BY <1>4, <2>2, <2>3 DEF Stage, TypeOK
  <1>5. ASSUME NEW r \in Requests, Commit(r) PROVE TypeOK'
    BY <1>5 DEF Commit, Goto, TypeOK, Call
  <1>6. ASSUME NEW r \in Requests, Rollback(r) PROVE TypeOK'
    BY <1>6 DEF Rollback, Goto, TypeOK, Call
  <1>7. ASSUME NEW r \in Requests, Release(r) PROVE TypeOK'
    <2>1. call' \in [Requests -> Call]
      BY <1>7 DEF Release, Goto, TypeOK, Call
    <2>2. counter' \in 0 .. Cap /\ late' \in Nat /\ held' \subseteq Requests
      BY <1>7 DEF Release, TypeOK
    <2> QED
      BY <1>7, <2>1, <2>2 DEF Release, TypeOK
  <1>8. ASSUME NEW t \in Targets, LockOut(t) PROVE TypeOK'
    <2>0. entries[t] \in Entry /\ clock \in Nat
      BY DEF TypeOK
    <2>1. [entries[t] EXCEPT !.locked = clock + Lock] \in Entry
      BY <2>0 DEF Entry
    <2> QED
      BY <1>8, <2>1 DEF LockOut, TypeOK
  <1>9. ASSUME NEW t \in Targets, Wrong(t) PROVE TypeOK'
    <2>0. entries[t] \in Entry
      BY DEF TypeOK
    <2>1. [entries[t] EXCEPT !.attempts = @ + 1] \in Entry
      BY <1>9, <2>0, EntryGuessed DEF Wrong, TypeOK
    <2> QED
      BY <1>9, <2>1 DEF Wrong, TypeOK
  <1>10. ASSUME NEW t \in Targets, Accept(t) PROVE TypeOK'
    <2>0. entries[t] \in Entry /\ clock \in Nat
      BY DEF TypeOK
    <2>1. [entries[t] EXCEPT !.attempts = @ + 1, !.code = NoCode,
                             !.expires = clock] \in Entry
      BY <1>10, <2>0, EntryGuessed DEF Accept
    <2>2. uses' \in [Requests -> Nat]
      BY <1>10, <2>0 DEF Accept, Judged, TypeOK, Entry
    <2> QED
      BY <1>10, <2>1, <2>2 DEF Accept, TypeOK
  <1>11. CASE Tick
    BY <1>11 DEF Tick, TypeOK
  <1>12. CASE UNCHANGED vars
    BY <1>12 DEF vars, TypeOK
  <1> QED
    BY <1>1, <1>2, <1>3, <1>4, <1>5, <1>6, <1>7, <1>8, <1>9, <1>10, <1>11, <1>12
    DEF Next

\* The counters stay in their ranges whatever the requests do; in particular
\* releasing a slot never takes the process-wide counter below zero, and no
\* target is sent more than its allowance in one entry's day.
THEOREM CodeTypeCorrect == Spec => []TypeOK
  BY TypeInit, TypeStep, PTL DEF Spec

-----------------------------------------------------------------------------
(* The budget.  Every slot taken since the last reset is in the counter,   *)
(* except for those that a release of an older slot took out of it.        *)

BudgetInv == Cardinality(held) <= counter + late

LEMMA HeldFinite ==
  ASSUME TypeOK
  PROVE  IsFiniteSet(held) /\ Cardinality(held) \in Nat
  BY RequestsAssumption, FS_Subset, FS_CardinalityType DEF TypeOK

LEMMA BudgetInit == Init => BudgetInv
  BY FS_EmptySet DEF Init, BudgetInv

LEMMA BudgetStep == TypeOK /\ TypeOK' /\ BudgetInv /\ [Next]_vars => BudgetInv'
  <1> SUFFICES ASSUME TypeOK, TypeOK', BudgetInv, [Next]_vars PROVE BudgetInv'
    OBVIOUS
  <1> USE HeldFinite
  <1>1. ASSUME NEW r \in Requests, Reserve(r) PROVE BudgetInv'
    <2> DEFINE same == budgetDay = call[r].day
               before == IF same THEN held ELSE {}
    <2>1. IsFiniteSet(before) /\ Cardinality(before) \in Nat
      BY FS_EmptySet
    <2>2. Counted(r) \in Nat /\ late' \in Nat
      BY DEF Counted, TypeOK
    <2>3. Cardinality(before) <= Counted(r) + late'
      BY <1>1, FS_EmptySet DEF Reserve, Counted, BudgetInv, TypeOK
    <2>4. CASE Counted(r) >= Cap
      BY <1>1, <2>3, <2>4 DEF Reserve, BudgetInv
    <2>5. CASE ~(Counted(r) >= Cap)
      <3>1. held' = before \cup {r} /\ counter' = Counted(r) + 1
        BY <1>1, <2>5 DEF Reserve
      <3>2. Cardinality(before \cup {r}) <= Cardinality(before) + 1
        BY <2>1, FS_AddElement
      <3>3. Cardinality(before \cup {r}) \in Nat
        BY <2>1, FS_AddElement, FS_CardinalityType
      <3> HIDE DEF before
      <3> QED
        BY <3>1, <3>2, <3>3, <2>1, <2>2, <2>3 DEF BudgetInv
    <2> QED
      BY <2>4, <2>5
  <1>2. ASSUME NEW r \in Requests, Release(r) PROVE BudgetInv'
    <2>1. CASE r \in held
      <3>1. Cardinality(held \ {r}) = Cardinality(held) - 1
        BY <2>1, FS_RemoveElement
      <3>2. held' = held \ {r} /\ late' = late
        BY <1>2, <2>1 DEF Release
      <3>3. counter' >= counter - 1 /\ counter \in Nat /\ counter' \in Nat /\ late \in Nat
        BY <1>2 DEF Release, TypeOK
      <3> QED
        BY <3>1, <3>2, <3>3 DEF BudgetInv
    <2>2. CASE r \notin held
      <3>1. held' = held /\ late' = late + 1
        BY <1>2, <2>2 DEF Release
      <3>2. counter' >= counter - 1 /\ counter \in Nat /\ counter' \in Nat /\ late \in Nat
        BY <1>2 DEF Release, TypeOK
      <3> QED
        BY <3>1, <3>2 DEF BudgetInv
    <2> QED
      BY <2>1, <2>2
  <1>3. CASE UNCHANGED <<held, counter, late>>
    BY <1>3 DEF BudgetInv
  <1> QED
    BY <1>1, <1>2, <1>3
    DEF Next, vars, Begin, Copy, Stage, Commit, Rollback, LockOut, Wrong, Accept, Tick

\* The cap of code_store.rs:350-355 is honest: however requests overlap, fail
\* or are dropped, the slots taken since the counter was last reset exceed the
\* cap by no more than the number of older slots given back after the reset.
THEOREM BudgetIsHonest == Spec => []BudgetHonest
  <1>1. TypeOK /\ BudgetInv => BudgetHonest
    BY HeldFinite, CapAssumption DEF TypeOK, BudgetInv, BudgetHonest
  <1> QED
    BY <1>1, TypeInit, TypeStep, BudgetInit, BudgetStep, PTL DEF Spec

-----------------------------------------------------------------------------
(* The throttle of one target.  It rests on the order of the limits (60 s  *)
(* between messages, 300 s for a code, a day for an entry) and on a send   *)
(* being over, either way, before the next message may go (sms/aliyun.rs   *)
(* gives up after 10 s, mail/smtp.rs after 20 s).                          *)

Timing == SendTime \in 1 .. Cooldown - 1 /\ Cooldown < DayLen /\ TTL < DayLen

Staged(r) == call[r].pc \in {"sending", "sent"}

\* A request came no later than now, and goes on without delay.
ClockInv ==
  \A r \in Requests :
    /\ r \in mail <=> At(r, "sent")
    /\ ~At(r, "new") => call[r].now <= clock
    /\ call[r].pc \in {"begun", "reserved", "copied"} => clock <= call[r].now + 1
    /\ At(r, "sending") => clock <= call[r].now + SendTime

\* An entry still tells that a request of that time was staged, or that was
\* a day ago.
Remembers(e, now) == e.last >= now \/ clock >= now + DayLen

\* What was staged and not rolled back is remembered; by the copy of a request
\* under way as well, unless the copy came first.  A copy that came first
\* is not staged: the next request is, a cooldown after the last one.
SpacedInv ==
  \A r \in Requests : Staged(r) =>
    /\ Remembers(entries[call[r].target], call[r].now)
    /\ \A s \in SameTarget(r) :
         /\ At(s, "copied") =>
              Remembers(call[s].previous, call[r].now) \/ call[s].now <= call[r].now + 1
         /\ At(s, "sending") =>
              Remembers(call[s].previous, call[r].now) /\ call[s].now >= call[r].now + Cooldown

ThrottleInv == ClockInv /\ SpacedInv /\ CooldownHolds


\* Every step keeps it; a step of one request says nothing of the others.
LEMMA ClockStep == Timing /\ TypeOK /\ ClockInv /\ [Next]_vars => ClockInv'
<1> SUFFICES ASSUME Timing, TypeOK, ClockInv, [Next]_vars PROVE ClockInv'
  OBVIOUS
<1>0. /\ clock \in Nat /\ SendTime \in Nat /\ SendTime >= 1
      /\ call \in [Requests -> Call] /\ mail \subseteq Requests
      /\ \A r \in Requests : call[r].now \in Nat
  BY LimitsNat DEF TypeOK, Call, Timing
<1>1. ASSUME NEW r \in Requests, Begin(r) PROVE ClockInv'
  BY <1>0, <1>1 DEF Begin, ClockInv, At
<1>2. ASSUME NEW r \in Requests, Reserve(r) PROVE ClockInv'
  <2>1. call' = [call EXCEPT ![r].pc = "over"] \/ call' = [call EXCEPT ![r].pc = "reserved"]
    BY <1>2 DEF Reserve, Goto
  <2> QED BY <1>0, <1>2, <2>1 DEF Reserve, ClockInv, At, Call
<1>3. ASSUME NEW r \in Requests, Copy(r) PROVE ClockInv'
  BY <1>0, <1>3 DEF Copy, ClockInv, At, Call
<1>4. ASSUME NEW r \in Requests, Stage(r) PROVE ClockInv'
  <2>1. call' = [call EXCEPT ![r].pc = "releasing"] \/ call' = [call EXCEPT ![r].pc = "sending"]
    BY <1>4 DEF Stage, Goto
  <2> QED BY <1>0, <1>4, <2>1 DEF Stage, ClockInv, At, Call
<1>5. ASSUME NEW r \in Requests, Commit(r) PROVE ClockInv'
  BY <1>0, <1>5 DEF Commit, Goto, ClockInv, At, Call
<1>6. ASSUME NEW r \in Requests, Rollback(r) PROVE ClockInv'
  BY <1>0, <1>6 DEF Rollback, Goto, ClockInv, At, Call
<1>7. ASSUME NEW r \in Requests, Release(r) PROVE ClockInv'
  BY <1>0, <1>7 DEF Release, Goto, ClockInv, At, Call
<1>8. CASE Tick
  <2>1. ASSUME NEW r \in Requests, ~At(r, "new") PROVE call[r].now <= clock'
    BY <1>0, <1>8, <2>1 DEF Tick, ClockInv
  <2>2. ASSUME NEW r \in Requests, call[r].pc \in {"begun", "reserved", "copied"}
        PROVE  clock' <= call[r].now + 1
    BY <1>0, <1>8, <2>2 DEF Tick
  <2>3. ASSUME NEW r \in Requests, At(r, "sending") PROVE clock' <= call[r].now + SendTime
    BY <1>0, <1>8, <2>3 DEF Tick
  <2>4. call' = call /\ mail' = mail
    BY <1>8 DEF Tick
  <2> QED BY <2>1, <2>2, <2>3, <2>4 DEF ClockInv, At
<1>9. CASE UNCHANGED <<clock, call, mail>>
  BY <1>9 DEF ClockInv, At
<1> QED
  BY <1>1, <1>2, <1>3, <1>4, <1>5, <1>6, <1>7, <1>8, <1>9
  DEF Next, vars, LockOut, Wrong, Accept


\* One pair of requests of one target.
Pair(r, s) ==
  /\ At(s, "copied") =>
       Remembers(call[s].previous, call[r].now) \/ call[s].now <= call[r].now + 1
  /\ At(s, "sending") =>
       Remembers(call[s].previous, call[r].now) /\ call[s].now >= call[r].now + Cooldown

\* A step that stages nothing and copies nothing forgets nothing, as long as
\* no entry does.
LEMMA SpacedKept ==
  ASSUME TypeOK, TypeOK', SpacedInv, clock <= clock',
         \A q \in Requests : Staged(q)' => Staged(q),
         \A q \in Requests : call'[q].target = call[q].target,
         \A q \in Requests : Staged(q)' => call'[q].now = call[q].now,
         \A q \in Requests : Staged(q)' =>
             \/ entries'[call[q].target].last >= call[q].now
             \/ clock' >= call[q].now + DayLen,
         \A s \in Requests : call'[s].pc \in {"copied", "sending"} => call'[s] = call[s]
  PROVE  SpacedInv'
<1>0. /\ clock \in Nat /\ clock' \in Nat /\ DayLen \in Nat /\ call \in [Requests -> Call]
      /\ \A r \in Requests : call[r].now \in Nat
  BY TimeAssumption DEF TypeOK, Call
<1>1. ASSUME NEW r \in Requests, Staged(r)'
      PROVE  Remembers(entries[call[r].target], call[r].now)'
  BY <1>1 DEF Remembers
<1>2. ASSUME NEW r \in Requests, Staged(r)', NEW s \in Requests \ {r},
             call'[s].target = call'[r].target
      PROVE  Pair(r, s)'
  <2>1. call'[r].target = call[r].target /\ call'[r].now = call[r].now
    BY <1>2
  <2>2. Pair(r, s)
    BY <1>2, <2>1 DEF SpacedInv, SameTarget, Pair
  <2>3. CASE call'[s].pc \in {"copied", "sending"}
    BY <2>1, <2>2, <2>3, <1>0 DEF Pair, At, Remembers
  <2> QED BY <2>3 DEF Pair, At
<1> QED BY <1>1, <1>2 DEF SpacedInv, SameTarget, Pair

LEMMA SpacedStep ==
  Timing /\ TypeOK /\ TypeOK' /\ ClockInv /\ SpacedInv /\ [Next]_vars => SpacedInv'
<1> SUFFICES ASSUME Timing, TypeOK, TypeOK', ClockInv, SpacedInv, [Next]_vars
             PROVE  SpacedInv'
  OBVIOUS
<1>0. /\ clock \in Nat /\ DayLen \in Nat \ {0} /\ Cooldown \in Nat /\ SendTime \in Nat
      /\ SendTime >= 1 /\ SendTime < Cooldown /\ Cooldown < DayLen
      /\ call \in [Requests -> Call] /\ entries \in [Targets -> Entry]
      /\ \A r \in Requests : call[r].now \in Nat /\ call[r].target \in Targets
                             /\ call[r].previous.last \in Nat
      /\ \A t \in Targets : entries[t].last \in Nat
  BY LimitsNat, TimeAssumption DEF TypeOK, Call, Entry, Timing
<1>s. \A q \in Requests : Staged(q) =>
        \/ entries[call[q].target].last >= call[q].now
        \/ clock >= call[q].now + DayLen
  BY DEF SpacedInv, Remembers
<1>1. ASSUME NEW r \in Requests, Begin(r) PROVE SpacedInv'
  <2>1. /\ call'[r].pc = "begun" /\ call'[r].target = call[r].target
        /\ \A q \in Requests \ {r} : call'[q] = call[q]
        /\ entries' = entries /\ clock' = clock
    BY <1>0, <1>1 DEF Begin, Call
  <2> QED BY <1>0, <1>s, <2>1, SpacedKept DEF Staged
<1>2. ASSUME NEW r \in Requests, Reserve(r) PROVE SpacedInv'
  <2>1. call' = [call EXCEPT ![r].pc = "over"] \/ call' = [call EXCEPT ![r].pc = "reserved"]
    BY <1>2 DEF Reserve, Goto
  <2>2. /\ call'[r].pc \in {"over", "reserved"} /\ call'[r].target = call[r].target
        /\ \A q \in Requests \ {r} : call'[q] = call[q]
    BY <1>0, <2>1 DEF Call
  <2>3. \A t \in Targets : \/ entries'[t] = entries[t]
                           \/ entries[t].last <= call[r].now - DayLen
    BY <1>0, <1>2 DEF Reserve, Swept
  <2>4. clock' = clock /\ call[r].now <= clock
    BY <1>2 DEF Reserve, ClockInv, At
  <2>5. \A q \in Requests : Staged(q) =>
          \/ entries'[call[q].target].last >= call[q].now
          \/ clock' >= call[q].now + DayLen
    BY <1>0, <1>s, <2>3, <2>4
  <2> QED BY <2>2, <2>4, <1>0, <2>5, SpacedKept DEF Staged
<1>3. ASSUME NEW r \in Requests, Copy(r) PROVE SpacedInv'
  <2>1. /\ call'[r].pc = "copied" /\ call'[r].target = call[r].target
        /\ call'[r].now = call[r].now /\ call'[r].previous = entries[call[r].target]
        /\ \A q \in Requests \ {r} : call'[q] = call[q]
        /\ entries' = entries /\ clock' = clock
    BY <1>0, <1>3 DEF Copy, Call
  <2>2. ASSUME NEW q \in Requests, Staged(q)'
        PROVE  /\ q # r /\ Staged(q) /\ call'[q] = call[q]
               /\ Remembers(entries[call[q].target], call[q].now)'
    BY <1>s, <2>1, <2>2 DEF Staged, Remembers
  <2>3. ASSUME NEW q \in Requests, Staged(q)', NEW s \in Requests \ {q},
               call'[s].target = call'[q].target
        PROVE  Pair(q, s)'
    <3>1. q # r /\ Staged(q) /\ call'[q] = call[q]
      BY <2>2, <2>3
    <3>2. CASE s = r
      BY <2>1, <2>3, <3>1, <3>2, <1>s DEF Pair, At, Remembers
    <3>3. CASE s # r
      <4>1. Pair(q, s)
        BY <2>1, <2>3, <3>1, <3>3 DEF SpacedInv, SameTarget, Pair
      <4> QED BY <2>1, <3>1, <3>3, <4>1 DEF Pair, At, Remembers
    <3> QED BY <3>2, <3>3
  <2> QED BY <2>2, <2>3 DEF SpacedInv, SameTarget, Pair
<1>4. ASSUME NEW r \in Requests, Stage(r) PROVE SpacedInv'
  <2>0. PICK t \in Targets : t = call[r].target
    BY <1>0
  <2>1. PICK e \in Entry : /\ e = Rolled(r) /\ e.last = entries[t].last
    <3>1. Rolled(r) \in Entry
      BY <2>0, <1>0, EntryRolled DEF Rolled, TypeOK, Call
    <3>2. Rolled(r).last = entries[t].last
      BY <2>0, <1>0 DEF Rolled, Entry
    <3> QED BY <3>1, <3>2
  <2>2. /\ clock' = clock /\ At(r, "copied")
        /\ call[r].now <= clock /\ clock <= call[r].now + 1
    BY <1>4 DEF Stage, ClockInv, At
  <2>3. CASE Refused(e, call[r].now)
    <3>1. entries' = [entries EXCEPT ![t] = e] /\ call' = [call EXCEPT ![r].pc = "releasing"]
      BY <1>4, <2>0, <2>1, <2>3 DEF Stage, Goto
    <3>2. /\ call'[r].pc = "releasing" /\ call'[r].target = call[r].target
          /\ \A q \in Requests \ {r} : call'[q] = call[q]
          /\ \A u \in Targets : entries'[u].last = entries[u].last
      BY <1>0, <3>1, <2>1 DEF Call
    <3>3. \A q \in Requests : Staged(q) =>
            \/ entries'[call[q].target].last >= call[q].now
            \/ clock' >= call[q].now + DayLen
      BY <1>0, <1>s, <3>2, <2>2
    <3> QED BY <1>0, <2>2, <3>2, <3>3, SpacedKept DEF Staged
  <2>4. CASE ~Refused(e, call[r].now)
    <3>1. /\ entries' = [entries EXCEPT ![t] =
                 [e EXCEPT !.code = r, !.expires = call[r].now + TTL, !.attempts = 0,
                           !.last = call[r].now, !.sent = @ + 1]]
          /\ call' = [call EXCEPT ![r].pc = "sending"]
      BY <1>4, <2>0, <2>1, <2>4 DEF Stage, Goto
    <3>2. PICK f : f = [e EXCEPT !.code = r, !.expires = call[r].now + TTL, !.attempts = 0,
                           !.last = call[r].now, !.sent = @ + 1]
      OBVIOUS
    <3>3. f.last = call[r].now
      BY <3>2 DEF Entry
    <3>4. /\ entries'[t].last = call[r].now
          /\ \A u \in Targets \ {t} : entries'[u] = entries[u]
      BY <1>0, <2>0, <3>1, <3>2, <3>3
    <3>5. /\ call'[r].pc = "sending" /\ call'[r].target = t /\ call'[r].now = call[r].now
          /\ call'[r].previous = call[r].previous
          /\ \A q \in Requests \ {r} : call'[q] = call[q]
      BY <1>0, <2>0, <3>1 DEF Call
    <3>6. ~(call[r].now - entries[t].last < Cooldown)
      BY <2>1, <2>4 DEF Refused
    \* whatever else was staged for the target was a cooldown ago
    <3>7. ASSUME NEW q \in Requests \ {r}, Staged(q), call[q].target = t
          PROVE  /\ call[r].now >= call[q].now + Cooldown
                 /\ Remembers(call[r].previous, call[q].now)
                 /\ At(q, "sent")
      <4>1. Remembers(entries[t], call[q].now) /\ Pair(q, r)
        BY <2>0, <3>7 DEF SpacedInv, SameTarget, Pair
      <4>2. call[r].now >= call[q].now + Cooldown
        BY <1>0, <2>2, <3>6, <4>1 DEF Remembers
      <4>3. Remembers(call[r].previous, call[q].now)
        BY <1>0, <2>2, <4>1, <4>2 DEF Pair
      <4>4. ~At(q, "sending")
        BY <1>0, <2>2, <4>2 DEF ClockInv
      <4> QED BY <3>7, <4>2, <4>3, <4>4 DEF Staged, At
    <3>8. ASSUME NEW q \in Requests, Staged(q)'
          PROVE  Remembers(entries[call[q].target], call[q].now)'
      <4>1. CASE q = r
        BY <1>0, <3>4, <3>5, <4>1 DEF Remembers
      <4>2. CASE q # r /\ call[q].target = t
        <5>1. Staged(q) /\ call'[q] = call[q]
          BY <3>5, <3>8, <4>2 DEF Staged
        <5> QED BY <1>0, <3>4, <3>5, <3>7, <4>2, <5>1 DEF Remembers
      <4>3. CASE q # r /\ call[q].target # t
        <5>1. Staged(q) /\ call'[q] = call[q]
          BY <3>5, <3>8, <4>3 DEF Staged
        <5> QED BY <1>0, <1>s, <3>4, <4>3, <5>1, <2>2 DEF Remembers
      <4> QED BY <4>1, <4>2, <4>3
    <3>9. ASSUME NEW q \in Requests, Staged(q)', NEW s \in Requests \ {q},
                 call'[s].target = call'[q].target
          PROVE  Pair(q, s)'
      <4>1. CASE q = r
        <5>1. call'[s] = call[s] /\ call[s].target = t
          BY <3>5, <3>9, <4>1
        <5>2. ~At(s, "sending")
          BY <3>7, <5>1, <4>1 DEF Staged, At
        <5>3. At(s, "copied") => call[s].now <= call[r].now + 1
          BY <1>0, <2>2 DEF ClockInv, At
        <5> QED BY <4>1, <3>5, <5>1, <5>2, <5>3 DEF Pair, At
      <4>2. CASE q # r /\ s = r
        <5>1. Staged(q) /\ call'[q] = call[q] /\ call[q].target = t
          BY <3>5, <3>9, <4>2 DEF Staged
        <5>2. /\ call[r].now >= call[q].now + Cooldown
              /\ Remembers(call[r].previous, call[q].now)
          BY <3>7, <4>2, <5>1
        <5> QED BY <2>2, <3>5, <4>2, <5>1, <5>2 DEF Pair, At, Remembers
      <4>3. CASE q # r /\ s # r
        <5>1. Staged(q) /\ call'[q] = call[q] /\ call'[s] = call[s]
          BY <3>5, <3>9, <4>3 DEF Staged
        <5>2. Pair(q, s)
          BY <3>9, <5>1 DEF SpacedInv, SameTarget, Pair
        <5> QED BY <2>2, <5>1, <5>2 DEF Pair, At, Remembers
      <4> QED BY <4>1, <4>2, <4>3
    <3> QED BY <3>8, <3>9 DEF SpacedInv, SameTarget, Pair
  <2> QED BY <2>3, <2>4
<1>5. ASSUME NEW r \in Requests, Commit(r) PROVE SpacedInv'
  <2>1. /\ At(r, "sending") /\ call'[r].pc = "sent" /\ call'[r].target = call[r].target
        /\ call'[r].now = call[r].now
        /\ \A q \in Requests \ {r} : call'[q] = call[q]
        /\ entries' = entries /\ clock' = clock
    BY <1>0, <1>5 DEF Commit, Goto, Call
  <2> QED BY <1>0, <1>s, <2>1, SpacedKept DEF Staged, At
<1>6. ASSUME NEW r \in Requests, Rollback(r) PROVE SpacedInv'
  <2>1. /\ At(r, "sending") /\ call'[r].pc = "releasing" /\ call'[r].target = call[r].target
        /\ \A q \in Requests \ {r} : call'[q] = call[q]
        /\ entries'[call[r].target] = call[r].previous
        /\ \A u \in Targets \ {call[r].target} : entries'[u] = entries[u]
        /\ clock' = clock
    BY <1>0, <1>6 DEF Rollback, Goto, Call
  <2>2. ASSUME NEW q \in Requests, q # r, Staged(q), call[q].target = call[r].target
        PROVE  Remembers(call[r].previous, call[q].now)
    BY <2>1, <2>2 DEF SpacedInv, SameTarget
  <2>3. \A q \in Requests : Staged(q)' => Staged(q) /\ q # r /\ call'[q] = call[q]
    BY <2>1 DEF Staged
  <2>4. \A q \in Requests : Staged(q)' =>
          \/ entries'[call[q].target].last >= call[q].now
          \/ clock' >= call[q].now + DayLen
    BY <1>0, <1>s, <2>1, <2>2, <2>3 DEF Remembers
  <2>5. \A s \in Requests : call'[s].pc \in {"copied", "sending"} => call'[s] = call[s]
    BY <2>1
  <2> QED BY <1>0, <2>1, <2>3, <2>4, <2>5, SpacedKept
<1>7. ASSUME NEW r \in Requests, Release(r) PROVE SpacedInv'
  <2>1. /\ call'[r].pc = "over" /\ call'[r].target = call[r].target
        /\ \A q \in Requests \ {r} : call'[q] = call[q]
        /\ entries' = entries /\ clock' = clock
    BY <1>0, <1>7 DEF Release, Goto, Call
  <2> QED BY <1>0, <1>s, <2>1, SpacedKept DEF Staged
<1>8. ASSUME NEW t \in Targets, LockOut(t) \/ Wrong(t) \/ Accept(t) PROVE SpacedInv'
  <2>1. \A u \in Targets : entries'[u].last = entries[u].last
    <3>0. entries[t] \in Entry
      BY <1>0
    <3>1. CASE LockOut(t)
      BY <1>0, <3>0, <3>1 DEF LockOut, Entry
    <3>2. CASE Wrong(t)
      BY <1>0, <3>0, <3>2 DEF Wrong, Entry
    <3>3. CASE Accept(t)
      <4>1. PICK f : f = [entries[t] EXCEPT !.attempts = @ + 1, !.code = NoCode,
                                            !.expires = clock]
        OBVIOUS
      <4>2. entries' = [entries EXCEPT ![t] = f] /\ f.last = entries[t].last
        BY <1>0, <3>0, <3>3, <4>1 DEF Accept, Entry
      <4> QED BY <1>0, <4>2
    <3> QED BY <1>8, <3>1, <3>2, <3>3
  <2>2. call' = call /\ clock' = clock
    BY <1>8 DEF LockOut, Wrong, Accept
  <2> QED BY <1>0, <1>s, <2>1, <2>2, SpacedKept DEF Staged
<1>9. CASE Tick \/ UNCHANGED vars
  <2>1. call' = call /\ entries' = entries /\ clock' \in Nat /\ clock <= clock'
    BY <1>0, <1>9 DEF Tick, vars
  <2>2. \A q \in Requests : Staged(q) =>
          \/ entries'[call[q].target].last >= call[q].now
          \/ clock' >= call[q].now + DayLen
    BY <1>0, <1>s, <2>1
  <2> QED BY <2>1, <2>2, SpacedKept DEF Staged
<1> QED
  BY <1>1, <1>2, <1>3, <1>4, <1>5, <1>6, <1>7, <1>8, <1>9 DEF Next

\* Two messages are a cooldown apart: the second was staged when it was over.
LEMMA CooldownStep ==
  Timing /\ TypeOK /\ ClockInv /\ SpacedInv /\ CooldownHolds /\ [Next]_vars => CooldownHolds'
<1> SUFFICES ASSUME Timing, TypeOK, ClockInv, SpacedInv, CooldownHolds, [Next]_vars
             PROVE  CooldownHolds'
  OBVIOUS
<1>0. mail \subseteq Requests /\ call \in [Requests -> Call]
  BY DEF TypeOK
<1>1. ASSUME NEW r \in Requests, Commit(r) PROVE CooldownHolds'
  <2>1. /\ At(r, "sending") /\ mail' = mail \cup {r}
        /\ \A q \in Requests : call'[q].target = call[q].target /\ call'[q].now = call[q].now
    BY <1>0, <1>1 DEF Commit, Goto, Call
  <2>2. ASSUME NEW q \in mail, call[q].target = call[r].target
        PROVE  q # r /\ call[r].now >= call[q].now + Cooldown
    BY <1>0, <2>1, <2>2 DEF SpacedInv, SameTarget, Staged, At, ClockInv
  <2> QED BY <1>0, <2>1, <2>2 DEF CooldownHolds
<1>2. ASSUME mail' = mail, \A q \in mail : call'[q] = call[q] PROVE CooldownHolds'
  BY <1>2 DEF CooldownHolds
<1>3. ASSUME NEW r \in Requests,
             Begin(r) \/ Reserve(r) \/ Copy(r) \/ Stage(r) \/ Rollback(r) \/ Release(r)
      PROVE  CooldownHolds'
  <2>1. mail' = mail /\ r \notin mail
    BY <1>3 DEF Begin, Reserve, Copy, Stage, Rollback, Release, ClockInv, At
  <2>2. \A q \in Requests \ {r} : call'[q] = call[q]
    BY <1>0, <1>3 DEF Begin, Reserve, Copy, Stage, Rollback, Release, Goto
  <2> QED BY <1>0, <1>2, <2>1, <2>2
<1>4. CASE call' = call /\ mail' = mail
  BY <1>2, <1>4
<1> QED
  BY <1>1, <1>3, <1>4 DEF Next, vars, LockOut, Wrong, Accept, Tick

LEMMA ThrottleInit == Timing /\ Init => ThrottleInv
  BY DEF Init, ThrottleInv, ClockInv, SpacedInv, CooldownHolds, Staged, At

\* Messages to one target are a cooldown apart for any number of requests at a
\* time, whatever is refused, fails, is dropped or is swept in between, if a
\* send is over before the cooldown is.
THEOREM CooldownHoldsAlways ==
  ASSUME Timing
  PROVE  Spec => []CooldownHolds
<1>1. ThrottleInv /\ TypeOK /\ TypeOK' /\ [Next]_vars => ThrottleInv'
  BY ClockStep, SpacedStep, CooldownStep DEF ThrottleInv
<1>2. Init => ThrottleInv
  BY ThrottleInit
<1>3. ThrottleInv => CooldownHolds
  BY DEF ThrottleInv
<1> QED BY <1>1, <1>2, <1>3, TypeInit, TypeStep, PTL DEF Spec

-----------------------------------------------------------------------------
(* The last code a target was sent.                                        *)

\* Requests for one target under way at once have been noticed.
AloneInv ==
  \A r, s \in UnderWay : r # s /\ call[r].target = call[s].target =>
    call[r].target \in crowded

\* The last message of its target, its code neither used nor expired.
Alive(r) ==
  /\ r \in mail
  /\ clock <= call[r].now + TTL
  /\ uses[r] = 0
  /\ \A s \in SameTarget(r) : s \in mail => call[s].now <= call[r].now

\* While the requests for a target come one at a time, its entry has the code
\* of the message that is being sent, or else that of the last one; so has
\* the copy for a rollback.
Code(r) ==
  /\ At(r, "sending") /\ uses[r] = 0 => entries[call[r].target].code = r
  /\ Alive(r) =>
       /\ \/ \E s \in SameTarget(r) : At(s, "sending")
          \/ entries[call[r].target].code = r
       /\ \A s \in SameTarget(r) :
            call[s].pc \in {"copied", "sending"} => call[s].previous.code = r

CodeInv == \A r \in Requests : call[r].target \notin crowded => Code(r)

\* No step moves a request to another target, or takes back that two met.
LEMMA TargetsKept ==
  TypeOK /\ [Next]_vars =>
    /\ \A r \in Requests : call'[r].target = call[r].target
    /\ \A r \in Requests : ~At(r, "new") => call'[r].now = call[r].now
    /\ crowded \subseteq crowded'
<1> SUFFICES ASSUME TypeOK, [Next]_vars
             PROVE  /\ \A r \in Requests : call'[r].target = call[r].target
                    /\ \A r \in Requests : ~At(r, "new") => call'[r].now = call[r].now
                    /\ crowded \subseteq crowded'
  OBVIOUS
<1>0. call \in [Requests -> Call]
  BY DEF TypeOK
<1>1. ASSUME NEW r \in Requests, Begin(r) \/ Copy(r)
      PROVE  /\ \A q \in Requests : call'[q].target = call[q].target
             /\ \A q \in Requests : ~At(q, "new") => call'[q].now = call[q].now
             /\ crowded \subseteq crowded'
  BY <1>0, <1>1 DEF Begin, Copy, At, Call
<1>2. ASSUME NEW r \in Requests, NEW l, Goto(r, l), crowded' = crowded
      PROVE  /\ \A q \in Requests : call'[q].target = call[q].target
             /\ \A q \in Requests : ~At(q, "new") => call'[q].now = call[q].now
             /\ crowded \subseteq crowded'
  BY <1>0, <1>2 DEF Goto, Call
<1>3. CASE call' = call /\ crowded' = crowded
  BY <1>3
<1>4. ASSUME NEW r \in Requests, Reserve(r) \/ Stage(r) \/ Commit(r) \/ Rollback(r) \/ Release(r)
      PROVE  crowded' = crowded /\ \E l : Goto(r, l)
  BY <1>4 DEF Reserve, Stage, Commit, Rollback, Release
<1> QED
  BY <1>1, <1>2, <1>3, <1>4 DEF Next, vars, LockOut, Wrong, Accept, Tick

LEMMA AloneStep == TypeOK /\ AloneInv /\ [Next]_vars => AloneInv'
<1> SUFFICES ASSUME TypeOK, AloneInv, [Next]_vars PROVE AloneInv'
  OBVIOUS
<1>0. call \in [Requests -> Call] /\ \A r \in Requests : call'[r].target = call[r].target
  BY TargetsKept DEF TypeOK
<1>1. ASSUME NEW r \in Requests, Begin(r) PROVE AloneInv'
  <2>1. /\ \A q \in Requests \ {r} : call'[q] = call[q]
        /\ \A q \in UnderWay : q # r /\ call[q].target = call[r].target =>
             call[r].target \in crowded'
        /\ crowded \subseteq crowded'
    BY <1>0, <1>1 DEF Begin, SameTarget, UnderWay
  <2>2. UnderWay' \subseteq UnderWay \cup {r}
    BY <2>1 DEF UnderWay
  <2> QED BY <1>0, <2>1, <2>2 DEF AloneInv, UnderWay
<1>2. ASSUME UnderWay' \subseteq UnderWay, crowded' = crowded PROVE AloneInv'
  BY <1>0, <1>2 DEF AloneInv, UnderWay
<1>3. ASSUME NEW r \in Requests, r \in UnderWay, crowded' = crowded,
             \A q \in Requests \ {r} : call'[q] = call[q]
      PROVE  AloneInv'
  BY <1>2, <1>3 DEF UnderWay
<1>4. ASSUME NEW r \in Requests, Copy(r) \/ Reserve(r) \/ Stage(r) \/ Commit(r)
                                   \/ Rollback(r) \/ Release(r)
      PROVE  AloneInv'
  <2>1. r \in UnderWay /\ crowded' = crowded
    BY <1>4 DEF Copy, Reserve, Stage, Commit, Rollback, Release, At, UnderWay
  <2>2. \A q \in Requests \ {r} : call'[q] = call[q]
    BY <1>0, <1>4 DEF Copy, Reserve, Stage, Commit, Rollback, Release, Goto
  <2> QED BY <1>3, <2>1, <2>2
<1>5. CASE call' = call /\ crowded' = crowded
  BY <1>2, <1>5 DEF UnderWay
<1> QED
  BY <1>1, <1>4, <1>5 DEF Next, vars, LockOut, Wrong, Accept, Tick

\* A message that is alive was alive before, unless it was sent in this step.
LEMMA AliveKept ==
  ASSUME TypeOK, ClockInv, [Next]_vars, NEW q \in mail, Alive(q)'
  PROVE  Alive(q)
<1>0. /\ call \in [Requests -> Call] /\ mail \subseteq Requests
      /\ \A r \in Requests : call'[r].target = call[r].target
      /\ \A r \in mail : call'[r].now = call[r].now
  BY TargetsKept DEF TypeOK, ClockInv, At
<1>1. mail \subseteq mail' /\ clock \in Nat /\ clock' \in Nat /\ clock <= clock'
  <2>1. clock \in Nat
    BY DEF TypeOK
  <2>2. clock' = clock \/ clock' = clock + 1
    BY DEF Next, vars, Begin, Reserve, Copy, Stage, Commit, Rollback, Release,
           LockOut, Wrong, Accept, Tick
  <2>3. mail' = mail \/ \E r : mail' = mail \cup {r}
    BY DEF Next, vars, Begin, Reserve, Copy, Stage, Commit, Rollback, Release,
           LockOut, Wrong, Accept, Tick
  <2> QED BY <2>1, <2>2, <2>3
<1>2. uses'[q] = 0 => uses[q] = 0
  <2>1. uses' = uses \/ \E c : uses' = [uses EXCEPT ![c] = @ + 1]
    BY DEF Next, vars, Begin, Reserve, Copy, Stage, Commit, Rollback, Release,
           LockOut, Wrong, Accept, Tick
  <2>2. uses \in [Requests -> Nat]
    BY DEF TypeOK
  <2> QED BY <2>1, <2>2, <1>0
<1>3. call[q].now \in Nat /\ TTL \in Nat
  BY <1>0, LimitsNat DEF Call
<1> QED BY <1>0, <1>1, <1>2, <1>3 DEF Alive, SameTarget

\* The code stays where it is as long as nobody else's send begins or ends.
LEMMA CodeKept ==
  ASSUME NEW q \in Requests, Code(q), call'[q].target = call[q].target,
         Alive(q)' => Alive(q),
         At(q, "sending")' => At(q, "sending"),
         uses'[q] = 0 => uses[q] = 0,
         Alive(q)' \/ (At(q, "sending")' /\ uses'[q] = 0) =>
           entries'[call[q].target].code = entries[call[q].target].code,
         \A s \in Requests : call'[s].target = call[s].target,
         \A s \in SameTarget(q) : call'[s].pc \in {"copied", "sending"} => call'[s] = call[s],
         \A s \in SameTarget(q) : At(s, "sending") => At(s, "sending")'
  PROVE  Code(q)'
<1>1. SameTarget(q)' = SameTarget(q)
  BY DEF SameTarget
<1>2. At(q, "sending")' /\ uses'[q] = 0 => entries'[call'[q].target].code = q
  BY DEF Code
<1>3. ASSUME Alive(q)'
      PROVE  \/ \E s \in SameTarget(q) : At(s, "sending")'
             \/ entries'[call'[q].target].code = q
  BY <1>3 DEF Code
<1>4. ASSUME Alive(q)', NEW s \in SameTarget(q), call'[s].pc \in {"copied", "sending"}
      PROVE  call'[s].previous.code = q
  BY <1>4 DEF Code
<1> QED BY <1>1, <1>2, <1>3, <1>4 DEF Code, At

LEMMA CodeStep ==
  /\ Timing /\ TypeOK /\ ThrottleInv /\ AloneInv /\ CodeInv /\ [Next]_vars
  => CodeInv'
<1> SUFFICES ASSUME Timing, TypeOK, ThrottleInv, AloneInv, CodeInv, [Next]_vars,
                    NEW q \in Requests, call'[q].target \notin crowded'
             PROVE  Code(q)'
  BY DEF CodeInv
<1> DEFINE t == call[q].target
<1>0. /\ clock \in Nat /\ DayLen \in Nat \ {0} /\ Cooldown \in Nat /\ SendTime \in Nat
      /\ TTL \in Nat /\ TTL < DayLen /\ SendTime < DayLen /\ Cooldown >= 1
      /\ call \in [Requests -> Call] /\ entries \in [Targets -> Entry]
      /\ mail \subseteq Requests /\ uses \in [Requests -> Nat]
      /\ \A r \in Requests : call[r].now \in Nat /\ call[r].target \in Targets
      /\ \A u \in Targets : entries[u].last \in Nat
  BY LimitsNat, TimeAssumption DEF TypeOK, Call, Entry, Timing
<1>1. /\ \A r \in Requests : call'[r].target = call[r].target
      /\ t \notin crowded /\ Code(q) /\ t \in Targets
      /\ ClockInv /\ SpacedInv
  BY <1>0, TargetsKept DEF CodeInv, ThrottleInv
<1>2. q \in mail /\ Alive(q)' => Alive(q)
  BY <1>1, AliveKept
<1>3. ASSUME NEW r \in Requests, r \in UnderWay, q \in UnderWay, call[r].target = t
      PROVE  r = q
  BY <1>1, <1>3 DEF AloneInv
<1>4. ASSUME NEW r \in UnderWay, NEW s \in UnderWay, call[r].target = t, call[s].target = t
      PROVE  r = s
  BY <1>1, <1>4 DEF AloneInv
\* steps that leave the sends alone
<1>5. ASSUME NEW r \in Requests, \A s \in Requests \ {r} : call'[s] = call[s],
             ~At(r, "sending"), call'[r].pc \notin {"copied", "sending"}, mail' = mail,
             uses' = uses,
             Alive(q) \/ At(q, "sending") => entries'[t].code = entries[t].code
      PROVE  Code(q)'
  <2>1. Alive(q)' => Alive(q)
    BY <1>2, <1>5 DEF Alive
  <2>2. At(q, "sending")' => At(q, "sending")
    BY <1>5 DEF At
  <2>3. \A s \in SameTarget(q) : call'[s].pc \in {"copied", "sending"} => call'[s] = call[s]
    BY <1>5 DEF SameTarget
  <2>4. \A s \in SameTarget(q) : At(s, "sending") => At(s, "sending")'
    BY <1>5 DEF SameTarget, At
  <2> QED BY <1>1, <1>5, <2>1, <2>2, <2>3, <2>4, CodeKept
<1>6. ASSUME NEW r \in Requests, Begin(r) PROVE Code(q)'
  <2>1. /\ \A s \in Requests \ {r} : call'[s] = call[s]
        /\ ~At(r, "sending") /\ call'[r].pc \notin {"copied", "sending"} /\ mail' = mail
        /\ uses' = uses /\ entries' = entries
    BY <1>0, <1>6 DEF Begin, At
  <2> QED BY <1>5, <2>1
<1>7. ASSUME NEW r \in Requests, Reserve(r) PROVE Code(q)'
  <2>1. call' = [call EXCEPT ![r].pc = "over"] \/ call' = [call EXCEPT ![r].pc = "reserved"]
    BY <1>7 DEF Reserve, Goto
  <2>2. /\ \A s \in Requests \ {r} : call'[s] = call[s]
        /\ ~At(r, "sending") /\ call'[r].pc \notin {"copied", "sending"} /\ mail' = mail
        /\ uses' = uses
    <3>1. ~At(r, "sending") /\ mail' = mail /\ uses' = uses
      BY <1>7 DEF Reserve, At
    <3>2. call'[r].pc \in {"over", "reserved"} /\ \A s \in Requests \ {r} : call'[s] = call[s]
      BY <1>0, <2>1 DEF Call
    <3> QED BY <3>1, <3>2
  <2>3. ASSUME Alive(q) \/ At(q, "sending")
        PROVE  entries[t].last > call[r].now - DayLen
    <3>1. Staged(q) /\ clock < call[q].now + DayLen
      BY <1>0, <1>1, <2>3 DEF Alive, ClockInv, Staged, At
    <3>2. entries[t].last >= call[q].now
      BY <1>0, <1>1, <3>1 DEF SpacedInv, Remembers
    <3>3. call[r].now <= clock
      BY <1>1, <1>7 DEF Reserve, ClockInv, At
    <3> QED BY <1>0, <1>1, <3>1, <3>2, <3>3
  <2>4. Alive(q) \/ At(q, "sending") => entries'[t].code = entries[t].code
    BY <1>1, <1>7, <2>3 DEF Reserve, Swept
  <2> QED BY <1>5, <2>2, <2>4
<1>8. ASSUME NEW r \in Requests, Copy(r) PROVE Code(q)'
  <2>1. /\ \A s \in Requests \ {r} : call'[s] = call[s]
        /\ At(r, "reserved") /\ call'[r].pc = "copied"
        /\ call'[r].previous = entries[call[r].target]
        /\ mail' = mail /\ uses' = uses /\ entries' = entries
    BY <1>0, <1>8 DEF Copy, At, Call
  <2>2. At(q, "sending")' /\ uses'[q] = 0 => entries'[call'[q].target].code = q
    BY <1>1, <2>1 DEF At, Code
  <2>3. ASSUME Alive(q)'
        PROVE  /\ \/ \E s \in SameTarget(q) : At(s, "sending")'
                  \/ entries'[call'[q].target].code = q
               /\ \A s \in SameTarget(q) :
                    call'[s].pc \in {"copied", "sending"} => call'[s].previous.code = q
    <3>1. Alive(q)
      BY <1>2, <2>1, <2>3 DEF Alive
    <3>2. \/ \E s \in SameTarget(q) : At(s, "sending") /\ At(s, "sending")'
          \/ entries[t].code = q
      BY <1>1, <2>1, <3>1 DEF Code, At, SameTarget
    <3>3. ASSUME r \in SameTarget(q) PROVE entries[t].code = q
      <4>1. \A s \in SameTarget(q) : ~At(s, "sending")
        BY <1>1, <1>4, <2>1, <3>3 DEF SameTarget, UnderWay, At
      <4> QED BY <3>2, <4>1
    <3> QED BY <1>1, <2>1, <3>1, <3>2, <3>3 DEF Code, SameTarget
  <2>4. SameTarget(q)' = SameTarget(q)
    BY <1>1 DEF SameTarget
  <2> QED BY <2>2, <2>3, <2>4 DEF Code, At
<1>9. ASSUME NEW r \in Requests, Stage(r) PROVE Code(q)'
  <2>1. At(r, "copied") /\ mail' = mail /\ uses' = uses /\ clock' = clock
    BY <1>9 DEF Stage
  <2>2. Rolled(r).code = entries[call[r].target].code
    BY <1>0 DEF Rolled, Entry
  <2>3. CASE Refused(Rolled(r), call[r].now)
    <3>1. /\ call' = [call EXCEPT ![r].pc = "releasing"]
          /\ entries' = [entries EXCEPT ![call[r].target] = Rolled(r)]
      BY <1>9, <2>3 DEF Stage, Goto
    <3>2. /\ \A s \in Requests \ {r} : call'[s] = call[s]
          /\ call'[r].pc \notin {"copied", "sending"} /\ ~At(r, "sending")
      BY <1>0, <2>1, <3>1 DEF At
    <3>3. entries'[t].code = entries[t].code
      BY <1>0, <1>1, <2>2, <3>1
    <3> QED BY <1>5, <2>1, <3>2, <3>3
  <2>4. CASE ~Refused(Rolled(r), call[r].now)
    <3>1. PICK f : f = [Rolled(r) EXCEPT !.code = r, !.expires = call[r].now + TTL,
                            !.attempts = 0, !.last = call[r].now, !.sent = @ + 1]
      OBVIOUS
    <3>2. /\ call' = [call EXCEPT ![r].pc = "sending"]
          /\ entries' = [entries EXCEPT ![call[r].target] = f]
      BY <1>9, <2>4, <3>1 DEF Stage, Goto
    <3>3. Rolled(r) \in Entry
      BY <1>0, EntryRolled DEF Rolled, Call
    <3>4. f.code = r
      BY <3>1, <3>3 DEF Entry
    <3>5. /\ \A s \in Requests \ {r} : call'[s] = call[s]
          /\ call'[r].pc = "sending" /\ call'[r].previous = call[r].previous
          /\ entries'[call[r].target].code = r
          /\ \A u \in Targets \ {call[r].target} : entries'[u] = entries[u]
      BY <1>0, <3>2, <3>4 DEF Call
    <3>6. SameTarget(q)' = SameTarget(q)
      BY <1>1 DEF SameTarget
    <3>7. CASE q = r
      <4>1. entries'[call'[q].target].code = q
        BY <1>1, <3>5, <3>7
      <4>2. ~Alive(q)'
        BY <1>1, <2>1, <3>7 DEF Alive, ClockInv, At
      <4> QED BY <4>1, <4>2 DEF Code
    <3>8. CASE q # r /\ call[r].target = t
      <4>1. ~At(q, "sending")'
        BY <1>1, <1>3, <2>1, <3>5, <3>8 DEF At, UnderWay
      <4>2. r \in SameTarget(q) /\ At(r, "sending")'
        BY <1>1, <3>5, <3>8 DEF SameTarget, At
      <4>3. ASSUME Alive(q)', NEW s \in SameTarget(q), call'[s].pc \in {"copied", "sending"}
            PROVE  call'[s].previous.code = q
        BY <1>1, <1>2, <2>1, <3>5, <4>3 DEF Alive, Code, SameTarget, At
      <4> QED BY <3>6, <4>1, <4>2, <4>3 DEF Code, At
    <3>9. CASE q # r /\ call[r].target # t
      <4>1. entries'[t].code = entries[t].code
        BY <1>1, <3>5, <3>9
      <4>2. Alive(q)' => Alive(q)
        BY <1>2, <2>1 DEF Alive
      <4>3. At(q, "sending")' => At(q, "sending")
        BY <3>5, <3>9 DEF At
      <4>4. \A s \in SameTarget(q) : call'[s] = call[s]
        BY <3>5, <3>9 DEF SameTarget
      <4>5. \A s \in SameTarget(q) : At(s, "sending") => At(s, "sending")'
        BY <4>4 DEF At
      <4> QED BY <1>1, <2>1, <4>1, <4>2, <4>3, <4>4, <4>5, CodeKept
    <3> QED BY <3>7, <3>8, <3>9
  <2> QED BY <2>3, <2>4
<1>10. ASSUME NEW r \in Requests, Commit(r) PROVE Code(q)'
  <2>1. /\ \A s \in Requests \ {r} : call'[s] = call[s]
        /\ At(r, "sending") /\ call'[r].pc = "sent" /\ call'[r].now = call[r].now
        /\ mail' = mail \cup {r} /\ uses' = uses /\ entries' = entries
    BY <1>0, <1>10 DEF Commit, Goto, At, Call
  <2>2. SameTarget(q)' = SameTarget(q)
    BY <1>1 DEF SameTarget
  <2>3. CASE q = r
    <3>1. ~At(q, "sending")'
      BY <2>1, <2>3 DEF At
    <3>2. Alive(q)' => entries'[call'[q].target].code = q
      BY <1>1, <2>1, <2>3 DEF Alive, Code
    <3>3. ASSUME NEW s \in SameTarget(q) PROVE call'[s].pc \notin {"copied", "sending"}
      <4>1. s \in Requests /\ s # r /\ call[s].target = t /\ r \in UnderWay
        BY <2>1, <2>3 DEF SameTarget, UnderWay, At
      <4>2. s \notin UnderWay
        BY <4>1, <1>4, <2>3
      <4> QED BY <2>1, <4>1, <4>2 DEF UnderWay
    <3> QED BY <2>2, <3>1, <3>2, <3>3 DEF Code
  <2>4. CASE q # r /\ call[r].target = t
    <3>1. ~At(q, "sending")'
      BY <1>3, <2>1, <2>4 DEF At, UnderWay
    <3>2. ~Alive(q)'
      <4>1. SUFFICES ASSUME Alive(q)' PROVE FALSE
        OBVIOUS
      <4>2. q \in mail /\ Staged(q) /\ call'[q] = call[q]
        BY <1>1, <2>1, <2>4, <4>1 DEF Alive, ClockInv, Staged, At
      <4>3. call[r].now >= call[q].now + Cooldown
        BY <1>1, <2>1, <2>4, <4>2 DEF SpacedInv, SameTarget
      <4>4. r \in SameTarget(q)'
        BY <1>1, <2>4 DEF SameTarget
      <4>5. call'[r].now <= call'[q].now
        BY <2>1, <4>1, <4>4 DEF Alive
      <4> QED BY <1>0, <2>1, <4>2, <4>3, <4>5
    <3> QED BY <3>1, <3>2 DEF Code
  <2>5. CASE q # r /\ call[r].target # t
    <3>1. Alive(q)' => Alive(q)
      BY <1>2, <2>1, <2>5 DEF Alive
    <3>2. At(q, "sending")' => At(q, "sending")
      BY <2>1, <2>5 DEF At
    <3>3. \A s \in SameTarget(q) : call'[s] = call[s]
      BY <2>1, <2>5 DEF SameTarget
    <3>4. \A s \in SameTarget(q) : At(s, "sending") => At(s, "sending")'
      BY <3>3 DEF At
    <3> QED BY <1>1, <2>1, <3>1, <3>2, <3>3, <3>4, CodeKept
  <2> QED BY <2>3, <2>4, <2>5
<1>11. ASSUME NEW r \in Requests, Rollback(r) PROVE Code(q)'
  <2>1. /\ \A s \in Requests \ {r} : call'[s] = call[s]
        /\ At(r, "sending") /\ call'[r].pc = "releasing"
        /\ mail' = mail /\ uses' = uses
        /\ entries'[call[r].target] = call[r].previous
        /\ \A u \in Targets \ {call[r].target} : entries'[u] = entries[u]
    BY <1>0, <1>11 DEF Rollback, Goto, At, Call
  <2>2. SameTarget(q)' = SameTarget(q)
    BY <1>1 DEF SameTarget
  <2>3. CASE call[r].target = t
    <3>1. ~At(q, "sending")'
      BY <1>3, <2>1, <2>3 DEF At, UnderWay
    <3>2. ASSUME Alive(q)' PROVE entries'[call'[q].target].code = q
      <4>1. Alive(q) /\ q # r
        BY <1>1, <1>2, <2>1, <3>2 DEF Alive, ClockInv, At
      <4>2. r \in SameTarget(q)
        BY <2>3, <4>1 DEF SameTarget
      <4> QED BY <1>1, <2>1, <2>3, <4>1, <4>2 DEF Code, At
    <3>3. ASSUME Alive(q)', NEW s \in SameTarget(q), call'[s].pc \in {"copied", "sending"}
          PROVE  call'[s].previous.code = q
      BY <1>1, <1>2, <2>1, <3>3 DEF Alive, Code, SameTarget
    <3> QED BY <2>2, <3>1, <3>2, <3>3 DEF Code
  <2>4. CASE call[r].target # t
    <3>1. Alive(q)' => Alive(q)
      BY <1>2, <2>1 DEF Alive
    <3>2. At(q, "sending")' => At(q, "sending")
      BY <2>1, <2>4 DEF At
    <3>3. \A s \in SameTarget(q) : call'[s] = call[s]
      BY <2>1, <2>4 DEF SameTarget
    <3>4. \A s \in SameTarget(q) : At(s, "sending") => At(s, "sending")'
      BY <3>3 DEF At
    <3> QED BY <1>1, <2>1, <2>4, <3>1, <3>2, <3>3, <3>4, CodeKept
  <2> QED BY <2>3, <2>4
<1>12. ASSUME NEW r \in Requests, Release(r) PROVE Code(q)'
  <2>1. /\ \A s \in Requests \ {r} : call'[s] = call[s]
        /\ ~At(r, "sending") /\ call'[r].pc \notin {"copied", "sending"} /\ mail' = mail
        /\ uses' = uses /\ entries' = entries
    BY <1>0, <1>12 DEF Release, Goto, At
  <2> QED BY <1>5, <2>1
<1>13. ASSUME call' = call, mail' = mail, uses'[q] = 0 => uses[q] = 0,
              Alive(q)' \/ (At(q, "sending") /\ uses'[q] = 0) =>
                entries'[t].code = entries[t].code
       PROVE  Code(q)'
  <2>1. Alive(q)' => Alive(q)
    BY <1>2, <1>13 DEF Alive
  <2> QED BY <1>1, <1>13, <2>1, CodeKept DEF At
<1>14. ASSUME NEW u \in Targets, LockOut(u) \/ Wrong(u) PROVE Code(q)'
  <2>1. entries'[t].code = entries[t].code
    BY <1>0, <1>1, <1>14 DEF LockOut, Wrong, Entry
  <2> QED BY <1>13, <1>14, <2>1 DEF LockOut, Wrong
<1>15. ASSUME NEW u \in Targets, Accept(u) PROVE Code(q)'
  <2>1. /\ call' = call /\ mail' = mail /\ clock' = clock
        /\ uses' = [uses EXCEPT ![entries[u].code] = @ + 1]
        /\ \A v \in Targets \ {u} : entries'[v] = entries[v]
    BY <1>0, <1>15 DEF Accept
  <2>2. uses'[q] = 0 => uses[q] = 0 /\ entries[u].code # q
    BY <1>0, <2>1
  <2>3. CASE u # t
    BY <1>1, <1>13, <2>1, <2>2, <2>3
  <2>4. CASE u = t
    <3>1. ~(At(q, "sending") /\ uses'[q] = 0)
      BY <1>1, <2>2, <2>4 DEF Code
    <3>2. ASSUME Alive(q)'
          PROVE  /\ \E s \in SameTarget(q) : At(s, "sending")
                 /\ \A s \in SameTarget(q) :
                      call[s].pc \in {"copied", "sending"} => call[s].previous.code = q
      <4>1. Alive(q) /\ uses'[q] = 0
        BY <1>2, <2>1, <3>2 DEF Alive
      <4> QED BY <1>1, <2>2, <2>4, <4>1 DEF Code
    <3> QED BY <2>1, <3>1, <3>2 DEF Code, At, SameTarget
  <2> QED BY <2>3, <2>4
<1>16. CASE Tick \/ UNCHANGED vars
  BY <1>13, <1>16 DEF Tick, vars
<1> QED
  BY <1>6, <1>7, <1>8, <1>9, <1>10, <1>11, <1>12, <1>14, <1>15, <1>16 DEF Next

\* The code of the last message is the one that is accepted until it expires:
\* no refused request, failed or dropped send, and no sweep takes it away.
THEOREM CodeWorksAlways ==
  ASSUME Timing
  PROVE  Spec => []CodeWorks
<1>1. TypeOK /\ ThrottleInv /\ CodeInv => CodeWorks
  <2> SUFFICES ASSUME TypeOK, ThrottleInv, CodeInv,
                      NEW r \in mail, Current(r), call[r].target \notin crowded
               PROVE  entries[call[r].target].code = r
    BY DEF CodeWorks
  <2>1. r \in Requests /\ At(r, "sent") /\ Staged(r) /\ Cooldown \in Nat /\ Cooldown >= 1
    BY LimitsNat DEF TypeOK, ThrottleInv, ClockInv, Staged, At, Timing
  <2>2. \A s \in Requests : call[s].now \in Nat
    BY DEF TypeOK, Call
  <2>3. ASSUME NEW s \in SameTarget(r) PROVE ~At(s, "sending")
    <3>1. At(s, "sending") => call[s].now > call[r].now
      BY <2>1, <2>2, <2>3 DEF ThrottleInv, SpacedInv, SameTarget
    <3> QED BY <2>3, <3>1 DEF Current, Superseded, SameTarget, At
  <2>4. ASSUME NEW s \in SameTarget(r), s \in mail PROVE call[s].now <= call[r].now
    <3>1. At(s, "sent")
      BY <2>4 DEF ThrottleInv, ClockInv, SameTarget
    <3> QED BY <2>1, <2>2, <2>4, <3>1 DEF Current, Superseded, SameTarget, At
  <2>5. Alive(r)
    BY <2>4 DEF Alive, Current
  <2> QED BY <2>1, <2>3, <2>5 DEF CodeInv, Code
<1>2. ThrottleInv /\ TypeOK /\ TypeOK' /\ [Next]_vars => ThrottleInv'
  BY ClockStep, SpacedStep, CooldownStep DEF ThrottleInv
<1>3. Init => ThrottleInv /\ AloneInv /\ CodeInv
  BY ThrottleInit DEF Init, AloneInv, CodeInv, Code, Alive, UnderWay, At
<1> QED BY <1>1, <1>2, <1>3, AloneStep, CodeStep, TypeInit, TypeStep, PTL DEF Spec

-----------------------------------------------------------------------------
(* The daily limit.  Requests of the last second of a day may find the     *)
(* entry swept by one of the first second of the next; then one message of *)
(* that day, of its first second, is forgotten.  With a limit of at least  *)
(* two (it is ten) there is room for it.                                   *)

\* Days are told by the clock.
DayInv ==
  /\ clock >= DayLen
  /\ \A r \in Requests : ~At(r, "new") =>
       call[r].now >= DayLen /\ call[r].day = call[r].now \div DayLen
  /\ \A t \in Targets : entries[t].day <= Today
  /\ \A r \in Requests : call[r].previous.day <= Today

\* The number of messages a target was sent on a day, failed sends aside.
Sent(t, d) == {r \in mail : call[r].target = t /\ call[r].day = d}
Number(t, d) == Cardinality(Sent(t, d))

\* The entry has the count of day d, or there was nothing to count.
Counts(e, t, d) == IF e.day = d THEN Number(t, d) <= e.sent ELSE Number(t, d) = 0

\* What is known of one target and one day, by the progress of the request
\* under way.
Limited(t, d) ==
  /\ Number(t, d) <= Daily
  /\ d > Today => Number(t, d) = 0
  /\ d = Today => Counts(entries[t], t, d)
  /\ \A s \in Requests : call[s].target = t =>
       /\ call[s].pc \in {"begun", "reserved", "copied", "sending"} /\ d > call[s].day =>
            Number(t, d) = 0
       /\ call[s].pc \in {"copied", "sending"} /\ d = Today => Counts(call[s].previous, t, d)
       /\ call[s].pc \in {"begun", "reserved", "copied"} /\ d = call[s].day =>
            Number(t, d) <= IF entries[t].day = d THEN entries[t].sent ELSE 1
       /\ At(s, "sending") /\ d = call[s].day =>
            /\ entries[t].day = d /\ Number(t, d) < Daily
            /\ d = Today => Number(t, d) < entries[t].sent

LimitInv == \A t \in Targets \ crowded : \A d \in Nat : Limited(t, d)

LEMMA DayStep == TypeOK /\ ClockInv /\ DayInv /\ [Next]_vars => DayInv'
<1> SUFFICES ASSUME TypeOK, ClockInv, DayInv, [Next]_vars PROVE DayInv'
  OBVIOUS
<1>0. /\ clock \in Nat /\ DayLen \in Nat \ {0}
      /\ call \in [Requests -> Call] /\ entries \in [Targets -> Entry]
      /\ \A r \in Requests : /\ call[r].now \in Nat /\ call[r].day \in Nat
                             /\ call[r].target \in Targets /\ call[r].previous.day \in Nat
      /\ \A t \in Targets : entries[t] \in Entry /\ entries[t].day \in Nat
  BY TimeAssumption DEF TypeOK, Call, Entry
<1>1. clock' \in Nat /\ clock <= clock'
  <2>1. clock' = clock \/ clock' = clock + 1
    BY DEF Next, vars, Begin, Reserve, Copy, Stage, Commit, Rollback, Release,
           LockOut, Wrong, Accept, Tick
  <2> QED BY <1>0, <2>1
<1>2. Today \in Nat /\ Today' \in Nat /\ Today <= Today'
  BY <1>0, <1>1, DayBounds, DayMono DEF Today
\* what is left to show of a step
<1>3. ASSUME \A r \in Requests : ~At(r, "new")' =>
               \/ ~At(r, "new") /\ call'[r].now = call[r].now /\ call'[r].day = call[r].day
               \/ call'[r].now = clock /\ call'[r].day = Today,
             \A t \in Targets :
               entries'[t].day \in {entries[t].day, 0}
                                     \cup {call[r].day : r \in {q \in Requests : ~At(q, "new")}}
                                     \cup {call[r].previous.day : r \in Requests},
             \A r \in Requests :
               call'[r].previous.day \in {call[r].previous.day} \cup {entries[t].day : t \in Targets}
      PROVE  DayInv'
  <2>1. \A r \in Requests : ~At(r, "new")' =>
          call'[r].now >= DayLen /\ call'[r].day = call'[r].now \div DayLen
    BY <1>3, <1>0 DEF DayInv, Today
  <2>2. \A r \in Requests : ~At(r, "new") => call[r].day <= Today
    BY <1>0, DayMono DEF DayInv, ClockInv, Today
  <2>3. \A t \in Targets : entries'[t].day <= Today'
    BY <1>0, <1>2, <1>3, <2>2 DEF DayInv
  <2>4. \A r \in Requests : call'[r].previous.day <= Today'
    BY <1>0, <1>2, <1>3 DEF DayInv
  <2> QED BY <1>0, <1>1, <2>1, <2>3, <2>4 DEF DayInv
<1>4. ASSUME NEW r \in Requests, Begin(r) PROVE DayInv'
  <2>1. /\ call'[r].now = clock /\ call'[r].day = Today
        /\ call'[r].previous = call[r].previous
        /\ \A q \in Requests \ {r} : call'[q] = call[q]
        /\ entries' = entries
    BY <1>0, <1>4 DEF Begin, Call
  <2> QED BY <1>3, <2>1 DEF At
<1>5. ASSUME NEW r \in Requests, NEW l, ~At(r, "new"), Goto(r, l),
             \A t \in Targets :
               entries'[t].day \in {entries[t].day, 0, call[r].day, call[r].previous.day}
      PROVE  DayInv'
  <2>1. /\ \A q \in Requests : /\ call'[q].now = call[q].now /\ call'[q].day = call[q].day
                               /\ call'[q].previous = call[q].previous
        /\ \A q \in Requests \ {r} : call'[q] = call[q]
    BY <1>0, <1>5 DEF Goto, Call
  <2> QED BY <1>3, <1>5, <2>1 DEF At
<1>6. ASSUME NEW r \in Requests, Reserve(r) PROVE DayInv'
  <2>1. ~At(r, "new") /\ \E l : Goto(r, l)
    BY <1>6 DEF Reserve, At
  <2>2. \A t \in Targets : entries'[t].day \in {entries[t].day, 0}
    BY <1>0, <1>6 DEF Reserve, Swept, Fresh
  <2> QED BY <1>5, <2>1, <2>2
<1>7. ASSUME NEW r \in Requests, Copy(r) PROVE DayInv'
  <2>1. /\ ~At(r, "new")
        /\ call'[r].now = call[r].now /\ call'[r].day = call[r].day
        /\ call'[r].previous = entries[call[r].target]
        /\ \A q \in Requests \ {r} : call'[q] = call[q]
        /\ entries' = entries
    BY <1>0, <1>7 DEF Copy, Call, At
  <2> QED BY <1>0, <1>3, <2>1 DEF At
<1>8. ASSUME NEW r \in Requests, Stage(r) PROVE DayInv'
  <2>1. ~At(r, "new") /\ \E l : Goto(r, l)
    BY <1>8 DEF Stage, At
  <2>2. PICK e : e = Rolled(r)
    OBVIOUS
  <2>3. e \in Entry /\ e.day \in {entries[call[r].target].day, call[r].day}
    BY <1>0, <2>2, EntryRolled DEF Rolled, Entry
  <2>4. PICK f : f = [e EXCEPT !.code = r, !.expires = call[r].now + TTL,
                            !.attempts = 0, !.last = call[r].now, !.sent = @ + 1]
    OBVIOUS
  <2>5. f.day = e.day
    BY <2>3, <2>4 DEF Entry
  <2>6. \/ entries' = [entries EXCEPT ![call[r].target] = e]
        \/ entries' = [entries EXCEPT ![call[r].target] = f]
    BY <1>8, <2>2, <2>4 DEF Stage
  <2>7. \A t \in Targets : entries'[t].day \in {entries[t].day, call[r].day}
    BY <1>0, <2>3, <2>5, <2>6
  <2> QED BY <1>5, <2>1, <2>7
<1>9. ASSUME NEW r \in Requests, Commit(r) \/ Release(r) PROVE DayInv'
  <2>1. ~At(r, "new") /\ (\E l : Goto(r, l)) /\ entries' = entries
    BY <1>9 DEF Commit, Release, At
  <2> QED BY <1>5, <2>1
<1>10. ASSUME NEW r \in Requests, Rollback(r) PROVE DayInv'
  <2>1. ~At(r, "new") /\ \E l : Goto(r, l)
    BY <1>10 DEF Rollback, At
  <2>2. \A t \in Targets : entries'[t].day \in {entries[t].day, call[r].previous.day}
    BY <1>0, <1>10 DEF Rollback
  <2> QED BY <1>5, <2>1, <2>2
<1>11. ASSUME call' = call, \A t \in Targets : entries'[t].day = entries[t].day PROVE DayInv'
  BY <1>3, <1>11 DEF At
<1>12. ASSUME NEW t \in Targets, LockOut(t) \/ Wrong(t) \/ Accept(t) PROVE DayInv'
  <2>1. entries[t] \in Entry
    BY <1>0
  <2>2. CASE LockOut(t)
    BY <1>0, <1>11, <2>1, <2>2 DEF LockOut, Entry
  <2>3. CASE Wrong(t)
    BY <1>0, <1>11, <2>1, <2>3 DEF Wrong, Entry
  <2>4. CASE Accept(t)
    <3>1. PICK f : f = [entries[t] EXCEPT !.attempts = @ + 1, !.code = NoCode,
                                          !.expires = clock]
      OBVIOUS
    <3>2. entries' = [entries EXCEPT ![t] = f] /\ f.day = entries[t].day /\ call' = call
      BY <1>0, <2>1, <2>4, <3>1 DEF Accept, Entry
    <3>3. \A u \in Targets : entries'[u].day = entries[u].day
      BY <1>0, <3>2
    <3> QED BY <1>11, <3>2, <3>3
  <2> QED BY <1>12, <2>2, <2>3, <2>4
<1>13. CASE Tick \/ UNCHANGED vars
  BY <1>11, <1>13 DEF Tick, vars
<1> QED
  BY <1>4, <1>6, <1>7, <1>8, <1>9, <1>10, <1>12, <1>13 DEF Next

\* A step that sends nothing leaves the numbers as they are.
LEMMA NumberKept ==
  ASSUME mail' = mail,
         \A r \in mail : call'[r].target = call[r].target /\ call'[r].day = call[r].day,
         NEW t, NEW d
  PROVE  Number(t, d)' = Number(t, d)
<1>1. Sent(t, d)' = Sent(t, d)
  BY DEF Sent
<1> QED BY <1>1 DEF Number

LEMMA NumberNat ==
  ASSUME TypeOK, NEW t, NEW d
  PROVE  Number(t, d) \in Nat /\ IsFiniteSet(Sent(t, d))
<1>1. Sent(t, d) \subseteq Requests
  BY DEF Sent, TypeOK
<1>2. IsFiniteSet(Sent(t, d))
  BY <1>1, RequestsAssumption, FS_Subset
<1> QED BY <1>2, FS_CardinalityType DEF Number

\* Steps that neither send nor record nor sweep.
LEMMA LimitKept ==
  ASSUME NEW t \in Targets, NEW d \in Nat, Limited(t, d),
         Number(t, d)' = Number(t, d), Today' = Today,
         entries'[t].day = entries[t].day, entries'[t].sent = entries[t].sent,
         \A s \in Requests : call'[s].target = t =>
           /\ call[s].target = t
           /\ call'[s].pc \in {"copied", "sending"} => call'[s] = call[s]
           /\ call'[s].pc \in {"begun", "reserved"} =>
                call[s].pc \in {"begun", "reserved"} /\ call'[s].day = call[s].day
  PROVE  Limited(t, d)'
<1>1. PICK n : n = Number(t, d)
  OBVIOUS
<1> QED BY <1>1 DEF Limited, Counts, At

\* An entry is swept only when the day of every message has passed; a request
\* that is a second older than the sweep may still find one of its own day.
LEMMA SweptIsOver ==
  ASSUME Timing, TypeOK, ThrottleInv, DayInv, NEW r \in Requests, At(r, "begun"),
         NEW t \in Targets, entries[t].last <= call[r].now - DayLen
  PROVE  /\ Number(t, Today) = 0
         /\ \A s \in Requests : call[s].target = t => ~At(s, "sending")
         /\ \A s \in Requests : call[s].pc \in {"begun", "reserved", "copied"} =>
              Number(t, call[s].day) <= 1
<1>0. /\ clock \in Nat /\ DayLen \in Nat \ {0} /\ mail \subseteq Requests
      /\ \A q \in Requests : call[q].now \in Nat /\ call[q].day \in Nat
      /\ SendTime \in Nat /\ SendTime < DayLen /\ Cooldown \in Nat /\ Cooldown >= 1
      /\ entries[t].last \in Nat
  BY TimeAssumption, LimitsNat DEF TypeOK, Call, Entry, Timing
<1>1. call[r].now <= clock
  BY DEF ThrottleInv, ClockInv, At
<1>2. ASSUME NEW q \in Requests, Staged(q), call[q].target = t
      PROVE  call[q].now + DayLen <= clock
  BY <1>0, <1>1, <1>2 DEF ThrottleInv, SpacedInv, Remembers
<1>3. \A q \in mail : Staged(q) /\ ~At(q, "new") /\ call[q].day = call[q].now \div DayLen
  BY <1>0 DEF ThrottleInv, ClockInv, Staged, At, DayInv
<1>4. Number(t, Today) = 0
  <2>1. ASSUME NEW q \in Sent(t, Today) PROVE FALSE
    <3>1. q \in Requests /\ call[q].day = Today /\ call[q].now + DayLen <= clock
      BY <1>0, <1>2, <1>3 DEF Sent
    <3>2. call[q].day = call[q].now \div DayLen
      BY <1>3 DEF Sent
    <3>3. call[q].now \div DayLen < clock \div DayLen
      BY <1>0, <3>1, DayLater
    <3>4. clock \div DayLen \in Nat
      BY <1>0, DayBounds
    <3> QED BY <1>0, <3>1, <3>2, <3>3, <3>4 DEF Today
  <2>2. Sent(t, Today) = {}
    BY <2>1
  <2> QED BY <2>2, FS_EmptySet DEF Number
<1>5. ASSUME NEW s \in Requests, call[s].target = t, At(s, "sending") PROVE FALSE
  <2>1. clock <= call[s].now + SendTime
    BY <1>5 DEF ThrottleInv, ClockInv
  <2>2. call[s].now + DayLen <= clock
    BY <1>2, <1>5 DEF Staged, At
  <2> QED BY <1>0, <2>1, <2>2
<1>6. ASSUME NEW s \in Requests, call[s].pc \in {"begun", "reserved", "copied"}
      PROVE  Number(t, call[s].day) <= 1
  <2>1. PICK d \in Nat : d = call[s].day
    BY <1>0
  <2>2. clock <= call[s].now + 1 /\ d = call[s].now \div DayLen
    BY <1>6, <2>1 DEF ThrottleInv, ClockInv, DayInv, At
  <2>3. ASSUME NEW q \in Sent(t, d) PROVE call[q].now = d * DayLen
    <3>1. /\ q \in Requests /\ call[q].now + DayLen <= clock
          /\ call[q].now \div DayLen = call[s].now \div DayLen
      BY <1>0, <1>2, <1>3, <2>2 DEF Sent
    <3>2. PICK a \in Nat, b \in Nat : a = call[q].now /\ b = call[s].now
      BY <1>0, <3>1
    <3>3. a + DayLen <= b + 1 /\ a \div DayLen = b \div DayLen /\ d = b \div DayLen
      BY <1>0, <2>2, <3>1, <3>2
    <3> QED BY <1>0, <3>2, <3>3, DayFirst
  <2>4. ASSUME NEW p \in Sent(t, d), NEW q \in Sent(t, d), p # q PROVE FALSE
    <3>1. p \in mail /\ q \in mail /\ call[p].target = call[q].target
      BY DEF Sent
    <3>2. \/ call[p].now >= call[q].now + Cooldown
          \/ call[q].now >= call[p].now + Cooldown
      BY <2>4, <3>1 DEF ThrottleInv, CooldownHolds
    <3>3. call[p].now = call[q].now /\ call[p].now \in Nat
      BY <1>0, <2>3, <3>1
    <3> QED BY <1>0, <3>2, <3>3
  <2>5. CASE Sent(t, d) = {}
    BY <2>1, <2>5, FS_EmptySet DEF Number
  <2>6. ASSUME NEW q \in Sent(t, d) PROVE Number(t, d) = 1
    <3>1. Sent(t, d) = {q}
      BY <2>4
    <3> QED BY <3>1, FS_Singleton DEF Number
  <2> QED BY <2>1, <2>5, <2>6
<1> QED BY <1>4, <1>5, <1>6

LEMMA LimitStep ==
  ASSUME Timing, Daily >= 2, TypeOK, TypeOK', ThrottleInv, AloneInv, DayInv, LimitInv,
         [Next]_vars
  PROVE  LimitInv'
<1> SUFFICES ASSUME NEW t \in Targets, t \notin crowded', NEW d \in Nat
             PROVE  Limited(t, d)'
  BY DEF LimitInv
<1>0. /\ clock \in Nat /\ DayLen \in Nat \ {0} /\ Daily \in Nat
      /\ call \in [Requests -> Call] /\ entries \in [Targets -> Entry]
      /\ mail \subseteq Requests
      /\ \A r \in Requests : call[r].target \in Targets /\ call[r].day \in Nat
      /\ entries[t].sent \in 0 .. Daily /\ entries[t].day \in Nat /\ entries[t] \in Entry
  BY LimitsNat, TimeAssumption DEF TypeOK, Call, Entry
<1>1. /\ \A r \in Requests : call'[r].target = call[r].target
      /\ t \notin crowded
  BY TargetsKept
<1>2. Limited(t, d) /\ ClockInv
  BY <1>1 DEF LimitInv, ThrottleInv
<1>3. Number(t, d) \in Nat /\ Today \in Nat
  BY <1>0, NumberNat, DayBounds DEF Today
<1>4. ASSUME NEW r \in Requests, r \in UnderWay, call[r].target = t,
             NEW s \in Requests, call[s].target = t, s # r
      PROVE  s \notin UnderWay
  BY <1>1, <1>4 DEF AloneInv
<1>5. PICK n \in Nat : n = Number(t, d)
  BY <1>3
<1>6. \A r \in Requests : ~At(r, "new") => call[r].day <= Today
  <2>1. ASSUME NEW r \in Requests, ~At(r, "new") PROVE call[r].day <= Today
    <3>1. PICK a \in Nat : a = call[r].now
      BY DEF TypeOK, Call
    <3>2. a <= clock /\ call[r].day = a \div DayLen
      BY <1>2, <2>1, <3>1 DEF ClockInv, DayInv
    <3> QED BY <1>0, <3>2, DayMono DEF Today
  <2> QED BY <2>1
<1>7. ASSUME NEW r \in Requests, ~At(r, "sent"), mail' = mail,
             \A q \in Requests \ {r} : call'[q] = call[q]
      PROVE  Number(t, d)' = n
  BY <1>0, <1>1, <1>2, <1>5, <1>7, NumberKept DEF ClockInv, At
<1>8. ASSUME NEW r \in Requests, Begin(r) PROVE Limited(t, d)'
  <2>1. /\ At(r, "new") /\ call'[r].pc = "begun" /\ call'[r].day = Today
        /\ \A q \in Requests \ {r} : call'[q] = call[q]
        /\ entries' = entries /\ clock' = clock /\ mail' = mail
    BY <1>0, <1>8 DEF Begin, Call, At
  <2>2. Number(t, d)' = n
    <3>1. \A q \in mail : q # r
      BY <2>1, <1>0, <1>2 DEF ClockInv, At
    <3> QED BY <1>0, <1>5, <2>1, <3>1, NumberKept
  <2>3. Today' = Today
    BY <2>1 DEF Today
  <2>4. CASE call[r].target = t
    <3>1. d > Today => n = 0
      BY <1>2, <1>5 DEF Limited
    <3>2. d = Today => n <= IF entries[t].day = d THEN entries[t].sent ELSE 1
      BY <1>2, <1>5 DEF Limited, Counts
    <3>3. ASSUME NEW s \in Requests \ {r}, call[s].target = t
          PROVE  call'[s] = call[s]
      BY <2>1
    <3> QED BY <1>1, <1>2, <1>5, <2>1, <2>2, <2>3, <3>1, <3>2, <3>3 DEF Limited, Counts, At
  <2>5. CASE call[r].target # t
    BY <1>1, <1>2, <1>5, <2>1, <2>2, <2>3, <2>5, LimitKept
  <2> QED BY <2>4, <2>5
<1>9. ASSUME NEW r \in Requests, Reserve(r) PROVE Limited(t, d)'
  <2>1. call' = [call EXCEPT ![r].pc = "over"] \/ call' = [call EXCEPT ![r].pc = "reserved"]
    BY <1>9 DEF Reserve, Goto
  <2>2. At(r, "begun") /\ mail' = mail /\ clock' = clock
    BY <1>9 DEF Reserve
  <2>3. /\ call'[r].pc \in {"over", "reserved"} /\ call'[r].day = call[r].day
        /\ \A q \in Requests \ {r} : call'[q] = call[q]
    BY <1>0, <2>1 DEF Call
  <2>4. Number(t, d)' = n
    BY <1>7, <2>2, <2>3 DEF At
  <2>5. Today' = Today
    BY <2>2 DEF Today
  <2>6. CASE entries'[t] = entries[t]
    BY <1>1, <1>2, <1>5, <2>2, <2>3, <2>4, <2>5, <2>6, LimitKept DEF At
  <2>7. CASE entries'[t] # entries[t]
    <3>1. entries'[t].day = 0 /\ entries[t].last <= call[r].now - DayLen
      BY <1>0, <1>9, <2>7 DEF Reserve, Swept, Fresh, TypeOK, Call, Entry
    <3>2. /\ d = Today => n = 0
          /\ \A s \in Requests : call[s].target = t => ~At(s, "sending")
          /\ \A s \in Requests :
               call[s].pc \in {"begun", "reserved", "copied"} /\ d = call[s].day => n <= 1
      BY <1>5, <2>2, <3>1, SweptIsOver
    <3>3. \A s \in Requests : ~At(s, "new") => call[s].day # 0
      <4>1. ASSUME NEW s \in Requests, ~At(s, "new") PROVE call[s].day > 0
        <5>1. PICK b \in Nat : b = call[s].now /\ 0 + DayLen <= b /\ call[s].day = b \div DayLen
          BY <1>0, <4>1 DEF DayInv, TypeOK, Call
        <5>2. 0 \div DayLen < b \div DayLen
          BY <1>0, <5>1, DayLater
        <5>3. 0 \div DayLen \in Nat /\ b \div DayLen \in Nat
          BY <1>0, <5>1, DayBounds
        <5> QED BY <5>1, <5>2, <5>3
      <4> QED BY <4>1
    <3>4. Today > 0
      <4>0. 0 + DayLen <= clock
        BY <1>0 DEF DayInv
      <4>1. 0 \div DayLen < clock \div DayLen
        BY <1>0, <4>0, DayLater
      <4>2. 0 \div DayLen \in Nat /\ clock \div DayLen \in Nat
        BY <1>0, DayBounds
      <4> QED BY <4>1, <4>2 DEF Today
    <3>5. /\ n <= Daily
          /\ d > Today => n = 0
      BY <1>2, <1>5 DEF Limited
    <3>6. ASSUME NEW s \in Requests, call[s].target = t
          PROVE  /\ call'[s].pc \in {"begun", "reserved", "copied", "sending"} /\ d > call'[s].day =>
                      n = 0
                 /\ call'[s].pc \in {"copied", "sending"} /\ d = Today =>
                      IF call'[s].previous.day = d THEN n <= call'[s].previous.sent ELSE n = 0
                 /\ call'[s].pc \in {"begun", "reserved", "copied"} /\ d = call'[s].day =>
                      n <= 1 /\ d # 0
                 /\ ~At(s, "sending")'
      <4>1. CASE s = r
        BY <1>2, <1>5, <2>2, <2>3, <3>2, <3>3, <3>6, <4>1 DEF Limited, At
      <4>2. CASE s # r
        BY <1>2, <1>5, <2>2, <2>3, <3>2, <3>3, <3>6, <4>2 DEF Limited, At, Counts
      <4> QED BY <4>1, <4>2
    <3> QED BY <1>1, <2>4, <2>5, <3>1, <3>2, <3>4, <3>5, <3>6 DEF Limited, Counts
  <2> QED BY <2>6, <2>7
<1>10. ASSUME NEW r \in Requests, Copy(r) PROVE Limited(t, d)'
  <2>1. /\ At(r, "reserved") /\ call'[r].pc = "copied" /\ call'[r].day = call[r].day
        /\ call'[r].previous = entries[call[r].target]
        /\ \A q \in Requests \ {r} : call'[q] = call[q]
        /\ entries' = entries /\ clock' = clock /\ mail' = mail
    BY <1>0, <1>10 DEF Copy, Call, At
  <2>2. Number(t, d)' = n
    BY <1>7, <2>1 DEF At
  <2>3. Today' = Today
    BY <2>1 DEF Today
  <2>4. CASE call[r].target = t
    BY <1>1, <1>2, <1>5, <2>1, <2>2, <2>3, <2>4 DEF Limited, Counts, At
  <2>5. CASE call[r].target # t
    BY <1>1, <1>2, <1>5, <2>1, <2>2, <2>3, <2>5, LimitKept
  <2> QED BY <2>4, <2>5
<1>11. ASSUME NEW r \in Requests, Stage(r) PROVE Limited(t, d)'
  <2>1. At(r, "copied") /\ mail' = mail /\ clock' = clock
    BY <1>11 DEF Stage
  <2>2. Today' = Today
    BY <2>1 DEF Today
  <2>3. PICK e : e = Rolled(r)
    OBVIOUS
  <2>4. PICK f : f = [e EXCEPT !.code = r, !.expires = call[r].now + TTL,
                            !.attempts = 0, !.last = call[r].now, !.sent = @ + 1]
    OBVIOUS
  <2>5. /\ e \in Entry /\ e.day = call[r].day
        /\ e.sent = IF entries[call[r].target].day = call[r].day
                    THEN entries[call[r].target].sent ELSE 0
    <3>1. PICK x \in Entry : x = entries[call[r].target]
      BY <1>0
    <3>2. PICK y : y = [x EXCEPT !.day = call[r].day, !.sent = 0]
      OBVIOUS
    <3>3. y \in Entry
      BY <1>0, <3>2, EntryRolled
    <3>4. y.day = call[r].day /\ y.sent = 0
      BY <3>2 DEF Entry
    <3>5. e = IF x.day = call[r].day THEN x ELSE y
      BY <2>3, <3>1, <3>2 DEF Rolled
    <3> QED BY <3>1, <3>3, <3>4, <3>5
  <2>6. f.day = e.day /\ f.sent = e.sent + 1 /\ e.sent \in Nat
    BY <2>4, <2>5 DEF Entry
  <2>7. \/ /\ call' = [call EXCEPT ![r].pc = "releasing"]
           /\ entries' = [entries EXCEPT ![call[r].target] = e]
        \/ /\ call' = [call EXCEPT ![r].pc = "sending"]
           /\ entries' = [entries EXCEPT ![call[r].target] = f]
           /\ e.sent < Daily
    <3>1. CASE Refused(e, call[r].now)
      BY <1>11, <2>3, <3>1 DEF Stage, Goto
    <3>2. CASE ~Refused(e, call[r].now)
      <4>1. e.sent < Daily
        BY <1>0, <2>6, <3>2 DEF Refused
      <4> QED BY <1>11, <2>3, <2>4, <3>2, <4>1 DEF Stage, Goto
    <3> QED BY <3>1, <3>2
  <2>8. /\ call'[r].day = call[r].day /\ call'[r].previous = call[r].previous
        /\ \A q \in Requests \ {r} : call'[q] = call[q]
        /\ \A u \in Targets \ {call[r].target} : entries'[u] = entries[u]
        /\ \/ call'[r].pc = "releasing" /\ entries'[call[r].target] = e
           \/ call'[r].pc = "sending" /\ entries'[call[r].target] = f /\ e.sent < Daily
    BY <1>0, <2>7 DEF Call
  <2>9. Number(t, d)' = n
    BY <1>7, <2>1, <2>8 DEF At
  <2>10. CASE call[r].target = t
    <3>1. /\ n <= Daily
          /\ d > Today => n = 0
          /\ d > call[r].day => n = 0
          /\ d = Today => IF entries[t].day = d THEN n <= entries[t].sent ELSE n = 0
          /\ d = Today => IF call[r].previous.day = d THEN n <= call[r].previous.sent ELSE n = 0
          /\ d = call[r].day => n <= IF entries[t].day = d THEN entries[t].sent ELSE 1
      BY <1>2, <1>5, <2>1, <2>10 DEF Limited, Counts, At
    <3>2. d = Today /\ d = call[r].day => n <= e.sent
      BY <1>0, <2>5, <2>10, <3>1
    <3>3. d = Today /\ d # call[r].day => n = 0
      BY <1>0, <1>3, <1>6, <2>1, <3>1 DEF At
    <3>4. d = call[r].day /\ e.sent < Daily => n < Daily
      BY <1>0, <2>5, <2>10, <3>1
    <3>5. ASSUME NEW s \in Requests, call[s].target = t, s # r
          PROVE  call'[s].pc \notin {"begun", "reserved", "copied", "sending"}
      BY <1>4, <2>1, <2>8, <2>10, <3>5 DEF UnderWay, At
    <3>6. /\ n <= Daily
          /\ d > Today => n = 0
          /\ d = Today => IF entries'[t].day = d THEN n <= entries'[t].sent ELSE n = 0
      BY <1>0, <1>3, <2>5, <2>6, <2>8, <2>10, <3>1, <3>2, <3>3
    <3>7. /\ d > call'[r].day => n = 0
          /\ d = Today => IF call'[r].previous.day = d THEN n <= call'[r].previous.sent ELSE n = 0
          /\ call'[r].pc \notin {"begun", "reserved", "copied"}
          /\ call'[r].pc = "sending" /\ d = call'[r].day =>
               entries'[t].day = d /\ n < Daily /\ (d = Today => n < entries'[t].sent)
      BY <1>0, <2>5, <2>6, <2>8, <2>10, <3>1, <3>2, <3>4
    <3> QED BY <1>1, <2>2, <2>9, <3>5, <3>6, <3>7 DEF Limited, Counts, At
  <2>11. CASE call[r].target # t
    <3>1. entries'[t] = entries[t]
      BY <2>8, <2>11
    <3> QED BY <1>1, <1>2, <1>5, <2>2, <2>8, <2>9, <2>11, <3>1, LimitKept
  <2> QED BY <2>10, <2>11
<1>12. ASSUME NEW r \in Requests, Commit(r) PROVE Limited(t, d)'
  <2>1. /\ At(r, "sending") /\ call'[r].pc = "sent" /\ call'[r].day = call[r].day
        /\ \A q \in Requests \ {r} : call'[q] = call[q]
        /\ mail' = mail \cup {r} /\ entries' = entries /\ clock' = clock
    BY <1>0, <1>12 DEF Commit, Goto, At, Call
  <2>2. Today' = Today
    BY <2>1 DEF Today
  <2>3. r \notin mail
    BY <1>2, <2>1 DEF ClockInv, At
  <2>a. \A q \in mail' : q \in Requests /\ call'[q].target = call[q].target
                                       /\ call'[q].day = call[q].day
    BY <1>0, <1>1, <2>1
  <2>b. Sent(t, d)' = {q \in mail' : call[q].target = t /\ call[q].day = d}
    BY <2>a DEF Sent
  <2>4. ASSUME ~(call[r].target = t /\ call[r].day = d)
        PROVE  Number(t, d)' = n
    <3>1. Sent(t, d)' = Sent(t, d)
      BY <2>1, <2>b, <2>4 DEF Sent
    <3> QED BY <3>1, <1>5 DEF Number
  <2>5. ASSUME call[r].target = t, call[r].day = d
        PROVE  Number(t, d)' = n + 1
    <3>1. Sent(t, d)' = Sent(t, d) \cup {r} /\ r \notin Sent(t, d)
      BY <2>1, <2>3, <2>b, <2>5 DEF Sent
    <3>2. IsFiniteSet(Sent(t, d))
      BY NumberNat
    <3> QED BY <3>1, <3>2, <1>5, FS_AddElement DEF Number
  <2>6. CASE call[r].target = t
    <3>1. /\ n <= Daily
          /\ d > Today => n = 0
          /\ d > call[r].day => n = 0
          /\ d = Today => IF entries[t].day = d THEN n <= entries[t].sent ELSE n = 0
          /\ d = call[r].day =>
               entries[t].day = d /\ n < Daily /\ (d = Today => n < entries[t].sent)
      BY <1>2, <1>5, <2>1, <2>6 DEF Limited, Counts, At
    <3>2. \A q \in Requests : call[q].target = t =>
            call'[q].pc \notin {"begun", "reserved", "copied", "sending"}
      BY <1>4, <2>1, <2>6 DEF UnderWay, At
    <3>3. CASE call[r].day = d
      <4>1. d <= Today
        BY <1>6, <2>1, <3>3 DEF At
      <4> QED BY <1>0, <1>1, <1>3, <2>1, <2>2, <2>5, <2>6, <3>1, <3>2, <3>3, <4>1
              DEF Limited, Counts, At
    <3>4. CASE call[r].day # d
      <4>1. Number(t, d)' = n
        BY <2>4, <3>4
      <4> QED BY <1>1, <2>1, <2>2, <3>1, <3>2, <4>1 DEF Limited, Counts, At
    <3> QED BY <3>3, <3>4
  <2>7. CASE call[r].target # t
    <3>1. Number(t, d)' = n
      BY <2>4, <2>7
    <3> QED BY <1>1, <1>2, <1>5, <2>1, <2>2, <2>7, <3>1, LimitKept
  <2> QED BY <2>6, <2>7
<1>13. ASSUME NEW r \in Requests, Rollback(r) PROVE Limited(t, d)'
  <2>1. /\ At(r, "sending") /\ call'[r].pc = "releasing"
        /\ \A q \in Requests \ {r} : call'[q] = call[q]
        /\ entries'[call[r].target] = call[r].previous
        /\ \A u \in Targets \ {call[r].target} : entries'[u] = entries[u]
        /\ mail' = mail /\ clock' = clock
    BY <1>0, <1>13 DEF Rollback, Goto, At, Call
  <2>2. Today' = Today
    BY <2>1 DEF Today
  <2>3. Number(t, d)' = n
    BY <1>7, <2>1 DEF At
  <2>4. CASE call[r].target = t
    <3>1. /\ n <= Daily
          /\ d > Today => n = 0
          /\ d = Today => IF call[r].previous.day = d THEN n <= call[r].previous.sent ELSE n = 0
      BY <1>2, <1>5, <2>1, <2>4 DEF Limited, Counts, At
    <3>2. \A q \in Requests : call[q].target = t =>
            call'[q].pc \notin {"begun", "reserved", "copied", "sending"}
      BY <1>4, <2>1, <2>4 DEF UnderWay, At
    <3> QED BY <1>1, <2>1, <2>2, <2>3, <2>4, <3>1, <3>2 DEF Limited, Counts, At
  <2>5. CASE call[r].target # t
    BY <1>1, <1>2, <1>5, <2>1, <2>2, <2>3, <2>5, LimitKept
  <2> QED BY <2>4, <2>5
<1>14. ASSUME NEW r \in Requests, Release(r) PROVE Limited(t, d)'
  <2>1. /\ At(r, "releasing") /\ call'[r].pc = "over"
        /\ \A q \in Requests \ {r} : call'[q] = call[q]
        /\ entries' = entries /\ clock' = clock /\ mail' = mail
    BY <1>0, <1>14 DEF Release, Goto, At, Call
  <2>2. Today' = Today
    BY <2>1 DEF Today
  <2>3. Number(t, d)' = n
    BY <1>7, <2>1 DEF At
  <2> QED BY <1>1, <1>2, <1>5, <2>1, <2>2, <2>3, LimitKept
<1>15. ASSUME mail' = mail, call' = call, clock' = clock,
              entries'[t].day = entries[t].day, entries'[t].sent = entries[t].sent
       PROVE  Limited(t, d)'
  <2>1. Today' = Today
    BY <1>15 DEF Today
  <2>2. Number(t, d)' = n
    BY <1>5, <1>15, NumberKept
  <2> QED BY <1>1, <1>2, <1>5, <1>15, <2>1, <2>2, LimitKept
<1>16. ASSUME NEW u \in Targets, LockOut(u) \/ Wrong(u) \/ Accept(u) PROVE Limited(t, d)'
  <2>1. entries[u] \in Entry
    BY <1>0
  <2>2. CASE LockOut(u)
    BY <1>0, <1>15, <2>1, <2>2 DEF LockOut, Entry
  <2>3. CASE Wrong(u)
    BY <1>0, <1>15, <2>1, <2>3 DEF Wrong, Entry
  <2>4. CASE Accept(u)
    <3>1. PICK f : f = [entries[u] EXCEPT !.attempts = @ + 1, !.code = NoCode,
                                          !.expires = clock]
      OBVIOUS
    <3>2. /\ entries' = [entries EXCEPT ![u] = f]
          /\ f.day = entries[u].day /\ f.sent = entries[u].sent
          /\ call' = call /\ mail' = mail /\ clock' = clock
      BY <1>0, <2>1, <2>4, <3>1 DEF Accept, Entry
    <3>3. entries'[t].day = entries[t].day /\ entries'[t].sent = entries[t].sent
      BY <1>0, <3>2
    <3> QED BY <1>15, <3>2, <3>3
  <2> QED BY <1>16, <2>2, <2>3, <2>4
<1>17. CASE Tick
  <2>1. clock' = clock + 1 /\ call' = call /\ mail' = mail /\ entries' = entries
    BY <1>17 DEF Tick
  <2>2. Number(t, d)' = n
    BY <1>5, <2>1, NumberKept
  <2>3. Today <= Today' /\ Today' \in Nat
    BY <1>0, <2>1, DayMono, DayBounds DEF Today
  <2>4. CASE Today' = Today
    <3>1. entries'[t].day = entries[t].day /\ entries'[t].sent = entries[t].sent
      BY <2>1
    <3> QED BY <1>1, <1>2, <1>5, <2>1, <2>2, <2>4, <3>1, LimitKept
  <2>5. CASE Today' # Today
    <3>1. d >= Today' => n = 0
      BY <1>2, <1>3, <1>5, <2>3, <2>5 DEF Limited
    <3>2. \A s \in Requests : ~At(s, "new") => call[s].day # Today'
      BY <1>0, <1>3, <1>6, <2>3, <2>5
    <3>3. \A s \in Requests : call[s].previous.day # Today'
      BY <1>3, <2>3, <2>5 DEF DayInv, TypeOK, Call, Entry
    <3>4. entries[t].day # Today'
      BY <1>0, <1>3, <2>3, <2>5 DEF DayInv
    <3>5. /\ n <= Daily /\ n >= 0
          /\ d > Today' => n = 0
          /\ d = Today' => entries'[t].day # d /\ n = 0
      BY <1>2, <1>3, <1>5, <2>1, <2>3, <3>1, <3>4 DEF Limited
    <3>6. ASSUME NEW s \in Requests, call[s].target = t
          PROVE  /\ call[s].pc \in {"begun", "reserved", "copied", "sending"} /\ d > call[s].day =>
                      n = 0
                 /\ d = Today' => call[s].previous.day # d /\ n = 0
                 /\ call[s].pc \in {"begun", "reserved", "copied"} /\ d = call[s].day =>
                      n <= IF entries[t].day = d THEN entries[t].sent ELSE 1
                 /\ At(s, "sending") /\ d = call[s].day =>
                      entries[t].day = d /\ n < Daily /\ d # Today'
      BY <1>2, <1>5, <3>1, <3>2, <3>3, <3>6 DEF Limited, At
    <3> QED BY <2>1, <2>2, <3>5, <3>6 DEF Limited, Counts, At
  <2> QED BY <2>4, <2>5
<1>18. CASE UNCHANGED vars
  BY <1>15, <1>18 DEF vars
<1> QED
  BY <1>8, <1>9, <1>10, <1>11, <1>12, <1>13, <1>14, <1>16, <1>17, <1>18 DEF Next

\* The daily limit of a target holds, whatever is refused, fails or is dropped,
\* and over midnight, for limits of at least two.
THEOREM DailyHoldsAlways ==
  ASSUME Timing, Daily >= 2
  PROVE  Spec => []DailyHolds
<1>1. TypeOK /\ ThrottleInv /\ DayInv /\ LimitInv => DailyHolds
  <2> SUFFICES ASSUME TypeOK, LimitInv, NEW t \in Targets \ crowded,
                      NEW d \in {call[r].day : r \in mail}
               PROVE  Cardinality({r \in mail : call[r].target = t /\ call[r].day = d}) <= Daily
    BY DEF DailyHolds
  <2>1. d \in Nat
    BY DEF TypeOK, Call
  <2> QED BY <2>1 DEF LimitInv, Limited, Number, Sent
<1>2. ThrottleInv /\ TypeOK /\ TypeOK' /\ [Next]_vars => ThrottleInv'
  BY ClockStep, SpacedStep, CooldownStep DEF ThrottleInv
<1>3. TypeOK /\ ThrottleInv /\ DayInv /\ [Next]_vars => DayInv'
  BY DayStep DEF ThrottleInv
<1>4. Init => ThrottleInv /\ AloneInv /\ DayInv /\ LimitInv
  <2> SUFFICES ASSUME Init PROVE ThrottleInv /\ AloneInv /\ DayInv /\ LimitInv
    OBVIOUS
  <2>1. /\ clock = DayLen /\ mail = {} /\ entries = [t \in Targets |-> Fresh]
        /\ \A r \in Requests : call[r].pc = "new" /\ call[r].previous = Fresh
    BY DEF Init
  <2>2. DayLen \in Nat \ {0} /\ Today \in Nat /\ Daily \in Nat
    BY <2>1, TimeAssumption, LimitsNat, DayBounds DEF Today
  <2>3. ThrottleInv /\ AloneInv
    BY ThrottleInit, <2>1 DEF AloneInv, UnderWay
  <2>4. DayInv
    BY <2>1, <2>2 DEF DayInv, At, Fresh
  <2>5. \A t, d : Number(t, d) = 0
    BY <2>1, FS_EmptySet DEF Number, Sent
  <2>6. LimitInv
    BY <2>1, <2>2, <2>5 DEF LimitInv, Limited, Counts, At, Fresh
  <2> QED BY <2>3, <2>4, <2>6
<1> QED BY <1>1, <1>2, <1>3, <1>4, AloneStep, LimitStep, TypeInit, TypeStep, PTL DEF Spec
=============================================================================
