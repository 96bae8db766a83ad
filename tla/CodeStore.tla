------------------------------ MODULE CodeStore ------------------------------
(***************************************************************************)
(* Verification codes (CodeStore in code_store.rs): sending one is         *)
(* throttled per target and per day, and a code is good for one use.       *)
(*                                                                         *)
(* issue() runs without a lock around it: it reads the clock, takes a slot *)
(* of the daily budget, copies the target's entry for a rollback, and only *)
(* then checks and changes the entry under the table's lock.  The message  *)
(* is sent with the entry already changed; when sending fails, or when the *)
(* request is dropped, PendingSend puts the copy back and BudgetSlot gives *)
(* the slot back.  Each of these is a step of its own here.                *)
(*                                                                         *)
(* Time is a counter of ticks.  The steps of issue() before the message is *)
(* sent happen within a tick of each other, and a send takes at most       *)
(* SendTime ticks.  Code r is the one request r generated.                 *)
(***************************************************************************)
EXTENDS Integers, FiniteSets

CONSTANTS
  Targets,      \* phone numbers or addresses
  Requests,     \* the calls of issue(), each with a code of its own
  NoCode,       \* the empty string
  Cap,          \* daily_global_cap
  Daily,        \* PER_TARGET_DAILY
  MaxAttempts,  \* MAX_ATTEMPTS
  Cooldown,     \* RESEND_COOLDOWN_SECS
  TTL,          \* CODE_TTL_SECS
  Lock,         \* LOCK_SECS
  DayLen,       \* a day
  SendTime,     \* how long a message can take to be sent
  MaxTime       \* bound: the clock stops here

ASSUME RequestsAssumption == IsFiniteSet(Requests) /\ NoCode \notin Requests
ASSUME CapAssumption == Cap \in Nat
ASSUME LimitsAssumption == {Daily, MaxAttempts, Cooldown, TTL, Lock, SendTime} \subseteq Nat
ASSUME TimeAssumption == DayLen \in Nat \ {0} /\ MaxTime \in Nat

VARIABLES
  clock,      \* seconds since the epoch
  entries,    \* CodeStore.entries; Fresh stands for a target without an entry
  counter,    \* CodeStore.sent_today
  budgetDay,  \* CodeStore.day_key
  call,       \* per request: its progress and the locals of its handler
  held,       \* history: the slots taken since the counter was last reset, and kept
  late,       \* history: the slots of an earlier period given back since then
  mail,       \* history: the requests whose message went out and was committed
  uses,       \* history: how often each code was accepted
  crowded     \* history: the targets that had two requests under way at once

vars == <<clock, entries, counter, budgetDay, call, held, late, mail, uses, crowded>>

Today == clock \div DayLen

\* What or_insert_with would make, and what consume() takes for no entry.
Fresh == [code |-> NoCode, expires |-> 0, attempts |-> 0, locked |-> 0,
          last |-> 0, day |-> 0, sent |-> 0]

Entry == [code : Requests \cup {NoCode}, expires : Nat, attempts : 0 .. MaxAttempts,
          locked : Nat, last : Nat, day : Nat, sent : 0 .. Daily]

Call == [pc : {"new", "begun", "reserved", "copied", "sending", "releasing", "over", "sent"},
         target : Targets, now : Nat, day : Nat, previous : Entry]

Init ==
  /\ clock = DayLen
  /\ entries = [t \in Targets |-> Fresh]
  /\ counter = 0
  /\ budgetDay = 0
  /\ call \in [Requests -> {[pc |-> "new", target |-> t, now |-> 0, day |-> 0,
                             previous |-> Fresh] : t \in Targets}]
  /\ held = {}
  /\ late = 0
  /\ mail = {}
  /\ uses = [r \in Requests |-> 0]
  /\ crowded = {}

At(r, l) == call[r].pc = l
UnderWay == {r \in Requests : call[r].pc \notin {"new", "over", "sent"}}
SameTarget(r) == {s \in Requests \ {r} : call[s].target = call[r].target}
Goto(r, l) == call' = [call EXCEPT ![r].pc = l]

-----------------------------------------------------------------------------
(* issue().                                                                *)

Begin(r) ==
  /\ At(r, "new")
  /\ call' = [call EXCEPT ![r].pc = "begun", ![r].now = clock, ![r].day = Today]
  /\ crowded' = crowded \cup {call[s].target : s \in UnderWay \cap SameTarget(r)}
  /\ UNCHANGED <<clock, entries, counter, budgetDay, held, late, mail, uses>>

\* The sweep of entries that have been idle for a day.
Swept(now) == [t \in Targets |->
                 IF entries[t].last > now - DayLen THEN entries[t] ELSE Fresh]

\* The counter that request r finds, after the rollover.
Counted(r) == IF budgetDay = call[r].day THEN counter ELSE 0

\* Mutated form of Reserve: off by one.
ReserveOneMore(r) ==
  /\ At(r, "begun")
  /\ entries' = Swept(call[r].now)
  /\ budgetDay' = call[r].day
  /\ LET same == budgetDay = call[r].day IN
     /\ late' = IF same THEN late ELSE 0
     /\ IF Counted(r) > Cap
        THEN /\ counter' = Counted(r)
             /\ held' = IF same THEN held ELSE {}
             /\ Goto(r, "over")
        ELSE /\ counter' = Counted(r) + 1
             /\ held' = (IF same THEN held ELSE {}) \cup {r}
             /\ Goto(r, "reserved")
  /\ UNCHANGED <<clock, mail, uses, crowded>>

\* Under the day_key lock: the counter starts again when the day has changed,
\* and a slot is taken, or the request refused when the budget is spent.
Reserve(r) ==
  /\ At(r, "begun")
  /\ entries' = Swept(call[r].now)
  /\ budgetDay' = call[r].day
  /\ LET same == budgetDay = call[r].day IN
     /\ late' = IF same THEN late ELSE 0
     /\ IF Counted(r) >= Cap
        THEN /\ counter' = Counted(r)
             /\ held' = IF same THEN held ELSE {}
             /\ Goto(r, "over")
        ELSE /\ counter' = Counted(r) + 1
             /\ held' = (IF same THEN held ELSE {}) \cup {r}
             /\ Goto(r, "reserved")
  /\ UNCHANGED <<clock, mail, uses, crowded>>

\* The snapshot for the rollback.
Copy(r) ==
  /\ At(r, "reserved")
  /\ call' = [call EXCEPT ![r].pc = "copied", ![r].previous = entries[call[r].target]]
  /\ UNCHANGED <<clock, entries, counter, budgetDay, held, late, mail, uses, crowded>>

\* Mutated form of Rolled: every request starts a new count.
RolledAlways(r) ==
  [entries[call[r].target] EXCEPT !.day = call[r].day, !.sent = 0]

\* The target's entry with its daily count rolled over.
Rolled(r) ==
  LET e == entries[call[r].target]
  IN  IF e.day = call[r].day THEN e ELSE [e EXCEPT !.day = call[r].day, !.sent = 0]

\* Why issue() refuses the target: lockout, cooldown, daily limit.
Refused(e, now) ==
  \/ now < e.locked
  \/ now - e.last < Cooldown
  \/ e.sent >= Daily

\* Mutated form of Stage: the time of the send is not recorded.
StageUnstamped(r) ==
  /\ At(r, "copied")
  /\ LET t == call[r].target
         e == Rolled(r)
         now == call[r].now IN
       IF Refused(e, now)
       THEN /\ entries' = [entries EXCEPT ![t] = e]
            /\ Goto(r, "releasing")
       ELSE /\ entries' = [entries EXCEPT ![t] =
                 [e EXCEPT !.code = r, !.expires = now + TTL, !.attempts = 0,
                           !.sent = @ + 1]]
            /\ Goto(r, "sending")
  /\ UNCHANGED <<clock, counter, budgetDay, held, late, mail, uses, crowded>>

\* Under the table's lock: the throttle is checked and the code recorded.
Stage(r) ==
  /\ At(r, "copied")
  /\ LET t == call[r].target
         e == Rolled(r)
         now == call[r].now IN
       IF Refused(e, now)
       THEN /\ entries' = [entries EXCEPT ![t] = e]
            /\ Goto(r, "releasing")
       ELSE /\ entries' = [entries EXCEPT ![t] =
                 [e EXCEPT !.code = r, !.expires = now + TTL, !.attempts = 0,
                           !.last = now, !.sent = @ + 1]]
            /\ Goto(r, "sending")
  /\ UNCHANGED <<clock, counter, budgetDay, held, late, mail, uses, crowded>>

-----------------------------------------------------------------------------
(* The end of a send.                                                      *)

\* PendingSend.commit(): the slot and the entry are kept.
Commit(r) ==
  /\ At(r, "sending")
  /\ Goto(r, "sent")
  /\ mail' = mail \cup {r}
  /\ UNCHANGED <<clock, entries, counter, budgetDay, held, late, uses, crowded>>

\* Mutated form of Rollback: the staged entry is removed, not replaced.
RollbackRemoves(r) ==
  /\ At(r, "sending")
  /\ entries' = [entries EXCEPT ![call[r].target] = Fresh]
  /\ Goto(r, "releasing")
  /\ UNCHANGED <<clock, counter, budgetDay, held, late, mail, uses, crowded>>

\* PendingSend is dropped: the copy goes back into the table ...
Rollback(r) ==
  /\ At(r, "sending")
  /\ entries' = [entries EXCEPT ![call[r].target] = call[r].previous]
  /\ Goto(r, "releasing")
  /\ UNCHANGED <<clock, counter, budgetDay, held, late, mail, uses, crowded>>

\* Mutated form of Release: not saturating.
ReleaseWraps(r) ==
  /\ At(r, "releasing")
  /\ counter' = counter - 1
  /\ held' = held \ {r}
  /\ late' = IF r \in held THEN late ELSE late + 1
  /\ Goto(r, "over")
  /\ UNCHANGED <<clock, entries, budgetDay, mail, uses, crowded>>

\* ... and BudgetSlot gives the slot back, saturating.
Release(r) ==
  /\ At(r, "releasing")
  /\ counter' = IF counter = 0 THEN 0 ELSE counter - 1
  /\ held' = held \ {r}
  /\ late' = IF r \in held THEN late ELSE late + 1
  /\ Goto(r, "over")
  /\ UNCHANGED <<clock, entries, budgetDay, mail, uses, crowded>>

-----------------------------------------------------------------------------
(* consume(), all of it under the table's lock.                            *)

\* Locked out, no code, or a code that has expired: nothing changes.
Judged(e) == clock >= e.locked /\ e.code # NoCode /\ clock <= e.expires

LockOut(t) ==
  /\ Judged(entries[t])
  /\ entries[t].attempts >= MaxAttempts
  /\ entries' = [entries EXCEPT ![t].locked = clock + Lock]
  /\ UNCHANGED <<clock, counter, budgetDay, call, held, late, mail, uses, crowded>>

Wrong(t) ==
  /\ Judged(entries[t])
  /\ entries[t].attempts < MaxAttempts
  /\ entries' = [entries EXCEPT ![t].attempts = @ + 1]
  /\ UNCHANGED <<clock, counter, budgetDay, call, held, late, mail, uses, crowded>>

Accept(t) ==
  /\ Judged(entries[t])
  /\ entries[t].attempts < MaxAttempts
  /\ entries' = [entries EXCEPT ![t].attempts = @ + 1, ![t].code = NoCode,
                                ![t].expires = clock]
  /\ uses' = [uses EXCEPT ![entries[t].code] = @ + 1]
  /\ UNCHANGED <<clock, counter, budgetDay, call, held, late, mail, crowded>>

-----------------------------------------------------------------------------
Tick ==
  /\ clock < MaxTime
  /\ \A r \in Requests :
       /\ call[r].pc \in {"begun", "reserved", "copied"} => call[r].now = clock
       /\ At(r, "sending") => clock - call[r].now < SendTime
  /\ clock' = clock + 1
  /\ UNCHANGED <<entries, counter, budgetDay, call, held, late, mail, uses, crowded>>

Next ==
  \/ \E r \in Requests :
       \/ Begin(r) \/ Reserve(r) \/ Copy(r) \/ Stage(r)
       \/ Commit(r) \/ Rollback(r) \/ Release(r)
  \/ \E t \in Targets : LockOut(t) \/ Wrong(t) \/ Accept(t)
  \/ Tick

Spec == Init /\ [][Next]_vars

-----------------------------------------------------------------------------
\* Types and the ranges of the counters.
TypeOK ==
  /\ clock \in Nat
  /\ entries \in [Targets -> Entry]
  /\ counter \in 0 .. Cap
  /\ budgetDay \in Nat
  /\ call \in [Requests -> Call]
  /\ held \subseteq Requests
  /\ late \in Nat
  /\ mail \subseteq Requests
  /\ uses \in [Requests -> Nat]
  /\ crowded \subseteq Targets

\* Since the counter was last reset no more slots are taken than the cap
\* allows, but for those of an earlier period that were given back after the
\* reset (code_store.rs:350-355, 385-387).
BudgetHonest == Cardinality(held) <= Cap + late

\* Two messages to one target are a cooldown apart, failed sends in between
\* or not (code_store.rs:18, 214-216).
CooldownHolds ==
  \A r, s \in mail :
    r # s /\ call[r].target = call[s].target =>
      \/ call[r].now >= call[s].now + Cooldown
      \/ call[s].now >= call[r].now + Cooldown

\* The target's entry has been staged for another request since r.
Superseded(r) ==
  \E s \in Requests \ {r} :
    /\ call[s].target = call[r].target
    /\ call[s].pc \in {"sending", "sent"}
    /\ call[s].now > call[r].now

\* The last code that target was sent, as long as nothing was staged since.
Current(r) ==
  /\ r \in mail
  /\ ~Superseded(r)
  /\ clock <= call[r].now + TTL
  /\ uses[r] = 0

\* A user can use the last code he was sent until it expires: a request that
\* was refused, or whose send failed, does not take it away, unless two
\* requests for the target were under way at once (code_store.rs:177-180).  This
\* is about what takes a code away; the lockout of a target after too many wrong
\* guesses, which refuses every code (code_store.rs:289), is aside.
CodeWorks ==
  \A r \in mail :
    Current(r) /\ call[r].target \notin crowded =>
      entries[call[r].target].code = r

\* A target is sent no more than its daily number of messages on one day,
\* failed sends aside, unless two requests for it were under way at once
\* (code_store.rs:20).  With a limit of one this is so for one target only: a
\* request that read the clock a second before midnight may find its entry
\* swept by one for another target that read it at midnight.
DailyHolds ==
  \A t \in Targets \ crowded : \A d \in {call[r].day : r \in mail} :
    Cardinality({r \in mail : call[r].target = t /\ call[r].day = d}) <= Daily

=============================================================================
