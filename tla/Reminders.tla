------------------------------ MODULE Reminders ------------------------------
(***************************************************************************)
(* One-time reminders: add_reminder, remove_reminder and the timer task of *)
(* each reminder (scheduler.rs), and the chat connections of the user that *)
(* are told when it fires (ws.rs).  Nothing of this is persisted.          *)
(*                                                                         *)
(* The record and the handle of the timer are in two maps with a lock      *)
(* each.  Triggers of periodic tasks (CronScheduler) and the reminders of  *)
(* other users use the same broadcast channel.  An add that is refused,    *)
(* for a time in the past, changes nothing and is left out.                *)
(***************************************************************************)
EXTENDS Naturals, Sequences, FiniteSets

CONSTANTS
    Reminders,
    WithAction,   \* the reminders that ask the agent to do something
    Removers,     \* requests and tool calls that remove a reminder
    Requests,     \* the requests: the server drops one whose client goes away
    Conns,        \* chat connections of the user
    Other,        \* a broadcast that is not for them
    None,
    Capacity,     \* size of the broadcast channel (256 in the code)
    MaxOthers,    \* bound: broadcasts that are not for them
    MaxRemovals,  \* bound: removals
    MaxConnects,  \* bound: connections opened
    MaxCrashes    \* bound: restarts

ASSUME ReminderAssumption ==
    /\ WithAction \subseteq Reminders
    /\ Requests \subseteq Removers
    /\ Other \notin Reminders
    /\ None \notin Reminders \cup [reminder : Reminders, cancelled : BOOLEAN]
    /\ Capacity \in Nat \ {0}
    /\ {MaxOthers, MaxRemovals, MaxConnects, MaxCrashes} \subseteq Nat

VARIABLES
    reminders,  \* the map reminders: "none", "pending" or "triggered"
    timers,     \* the map timers: the reminders whose handle is in it
    adding,     \* per reminder: how far add_reminder is
    task,       \* per reminder: the spawned timer task
    aborted,    \* the timer tasks that were aborted while they ran
    removing,   \* per remover: what it removes, and whether its timer was cancelled
    conn,       \* per connection: "off", "on", or "acting" while it runs an action
    inbox,      \* per connection: what its receiver has not returned yet
    lagged,     \* the connections whose receiver was overtaken
    count,      \* others, removals, connects, crashes so far
    due,        \* history: what was broadcast to a connection since it was opened
    told,       \* history: what the connection's client was sent
    overtaken,  \* history: what its receiver lost
    removed,    \* history: the reminders whose removal has returned
    overlapped, \* history: those removed while they were added or fired
    rungLate,   \* history: those that rang after their removal had returned
    abandoned   \* history: those whose timer was aborted by a removal that was dropped

maps == <<reminders, timers>>
clients == <<conn, inbox, lagged>>
shown == <<due, told, overtaken>>
removals == <<removed, overlapped, rungLate, abandoned>>
vars == <<maps, adding, task, aborted, removing, clients, count, shown, removals>>

Messages == Reminders \cup {Other}

Init ==
    /\ reminders = [r \in Reminders |-> "none"]
    /\ timers = {}
    /\ adding = [r \in Reminders |-> "new"]
    /\ task = [r \in Reminders |-> "none"]
    /\ aborted = {}
    /\ removing = [h \in Removers |-> None]
    /\ conn = [c \in Conns |-> "off"]
    /\ inbox = [c \in Conns |-> <<>>]
    /\ lagged = {}
    /\ count = [others |-> 0, removals |-> 0, connects |-> 0, crashes |-> 0]
    /\ due = [c \in Conns |-> {}]
    /\ told = [c \in Conns |-> {}]
    /\ overtaken = [c \in Conns |-> {}]
    /\ removed = {}
    /\ overlapped = {}
    /\ rungLate = {}
    /\ abandoned = {}

(***************************************************************************)
(* add_reminder: the record, the task, and then its handle                 *)
(***************************************************************************)
Add(r) ==
    /\ adding[r] = "new"
    /\ reminders' = [reminders EXCEPT ![r] = "pending"]
    /\ adding' = [adding EXCEPT ![r] = "stored"]
    /\ UNCHANGED <<timers, task, aborted, removing, clients, count, shown, removals>>

SpawnTimer(r) ==
    /\ adding[r] = "stored"
    /\ task' = [task EXCEPT ![r] = "sleeping"]
    /\ adding' = [adding EXCEPT ![r] = "spawned"]
    /\ UNCHANGED <<maps, aborted, removing, clients, count, shown, removals>>

RegisterTimer(r) ==
    /\ adding[r] = "spawned"
    /\ timers' = timers \cup {r}
    /\ adding' = [adding EXCEPT ![r] = "added"]
    /\ UNCHANGED <<reminders, task, aborted, removing, clients, count, shown, removals>>

(***************************************************************************)
(* The timer task                                                          *)
(***************************************************************************)
Firing(r) == task[r] \in {"woken", "marked"}

\* The sleep is over.  The runtime polls the task, and an abort counts only
\* once the task waits again, for the lock of the map, or never.
Wake(r) ==
    /\ task[r] = "sleeping"
    /\ task' = [task EXCEPT ![r] = "woken"]
    /\ UNCHANGED <<maps, adding, aborted, removing, clients, count, shown, removals>>

\* Mutated form of Mark: the record stays as it is.
MarkNothing(r) ==
    /\ task[r] = "woken"
    /\ task' = [task EXCEPT ![r] = "marked"]
    /\ UNCHANGED <<maps, adding, aborted, removing, clients, count, shown, removals>>

\* A record that is still there is marked as triggered.
Mark(r) ==
    /\ task[r] = "woken"
    /\ reminders' = [reminders EXCEPT ![r] = IF @ = "none" THEN @ ELSE "triggered"]
    /\ task' = [task EXCEPT ![r] = "marked"]
    /\ UNCHANGED <<timers, adding, aborted, removing, clients, count, shown, removals>>

Dropped(r) ==
    /\ task[r] = "woken"
    /\ r \in aborted
    /\ task' = [task EXCEPT ![r] = "ended"]
    /\ UNCHANGED <<maps, adding, aborted, removing, clients, count, shown, removals>>

Open == {c \in Conns : conn[c] # "off"}

\* reminder_tx.send(): a full receiver loses the oldest value.
Broadcast(m) ==
    LET full == {c \in Open : Len(inbox[c]) = Capacity} IN
    /\ inbox' = [c \in Conns |->
                   IF c \notin Open THEN inbox[c]
                   ELSE Append(IF c \in full THEN Tail(inbox[c]) ELSE inbox[c], m)]
    /\ overtaken' = [c \in Conns |->
                   IF c \in full THEN overtaken[c] \cup ({Head(inbox[c])} \cap Reminders) ELSE overtaken[c]]
    /\ lagged' = lagged \cup full
    /\ due' = [c \in Conns |-> IF c \in Open THEN due[c] \cup ({m} \cap Reminders) ELSE due[c]]

Ring(r) ==
    /\ task[r] = "marked"
    /\ task' = [task EXCEPT ![r] = "ended"]
    /\ Broadcast(r)
    /\ rungLate' = IF r \in removed THEN rungLate \cup {r} ELSE rungLate
    /\ UNCHANGED <<maps, adding, aborted, removing, conn, count, told, removed, overlapped,
                   abandoned>>

RingOther ==
    /\ count.others < MaxOthers
    /\ count' = [count EXCEPT !.others = @ + 1]
    /\ Broadcast(Other)
    /\ UNCHANGED <<maps, adding, task, aborted, removing, conn, told, removals>>

(***************************************************************************)
(* remove_reminder                                                         *)
(***************************************************************************)
\* The router has found the reminder in the list; the tool takes the id it is
\* given, which the agent knows from the list or from reminder_add.
Remove(h, r) ==
    /\ removing[h] = None
    /\ count.removals < MaxRemovals
    /\ reminders[r] = "pending" \/ (h \notin Requests /\ adding[r] = "added")
    /\ count' = [count EXCEPT !.removals = @ + 1]
    /\ removing' = [removing EXCEPT ![h] = [reminder |-> r, cancelled |-> FALSE]]
    /\ UNCHANGED <<maps, adding, task, aborted, clients, shown, removals>>

Cancelled(h) == removing' = [removing EXCEPT ![h].cancelled = TRUE]

\* Mutated form of Cancel: the handle is dropped, which detaches the task.
CancelDetaches(h) ==
    /\ removing[h] # None
    /\ ~removing[h].cancelled
    /\ timers' = timers \ {removing[h].reminder}
    /\ Cancelled(h)
    /\ UNCHANGED <<reminders, adding, task, aborted, clients, count, shown, removals>>

\* The handle is aborted if there is one.
Cancel(h) ==
    /\ removing[h] # None
    /\ ~removing[h].cancelled
    /\ LET r == removing[h].reminder IN
       /\ \/ /\ r \in timers
             /\ task' = [task EXCEPT ![r] = IF @ = "sleeping" THEN "ended" ELSE @]
             /\ aborted' = aborted \cup {r}
          \/ r \notin timers /\ UNCHANGED <<task, aborted>>
       /\ timers' = timers \ {r}
       /\ overlapped' = IF adding[r] # "added" \/ Firing(r) THEN overlapped \cup {r}
                        ELSE overlapped
    /\ Cancelled(h)
    /\ UNCHANGED <<reminders, adding, clients, count, shown, removed, rungLate, abandoned>>

\* Mutated form of Erase: only the timer is removed.
EraseNothing(h) ==
    /\ removing[h] # None
    /\ removing[h].cancelled
    /\ removed' = removed \cup {removing[h].reminder}
    /\ removing' = [removing EXCEPT ![h] = None]
    /\ UNCHANGED <<maps, adding, task, aborted, clients, count, shown, overlapped, rungLate,
                   abandoned>>

Erase(h) ==
    /\ removing[h] # None
    /\ removing[h].cancelled
    /\ reminders' = [reminders EXCEPT ![removing[h].reminder] = "none"]
    /\ removed' = removed \cup {removing[h].reminder}
    /\ removing' = [removing EXCEPT ![h] = None]
    /\ UNCHANGED <<timers, adding, task, aborted, clients, count, shown, overlapped, rungLate,
                   abandoned>>

\* The client of a request goes away while it waits for one of the two locks,
\* and the server drops its handler.  A tool call has a task of its own, which
\* ends whatever becomes of the turn.
DropRemoval(h) ==
    /\ h \in Requests
    /\ removing[h] # None
    /\ removing' = [removing EXCEPT ![h] = None]
    /\ abandoned' = IF removing[h].cancelled THEN abandoned \cup ({removing[h].reminder} \cap aborted)
                    ELSE abandoned
    /\ UNCHANGED <<maps, adding, task, aborted, clients, count, shown, removed, overlapped, rungLate>>

(***************************************************************************)
(* A connection                                                            *)
(***************************************************************************)
Connect(c) ==
    /\ conn[c] = "off"
    /\ count.connects < MaxConnects
    /\ count' = [count EXCEPT !.connects = @ + 1]
    /\ conn' = [conn EXCEPT ![c] = "on"]
    /\ UNCHANGED <<maps, adding, task, aborted, removing, inbox, lagged, shown, removals>>

Forgotten(c) ==
    /\ inbox' = [inbox EXCEPT ![c] = <<>>]
    /\ lagged' = lagged \ {c}
    /\ due' = [due EXCEPT ![c] = {}]
    /\ told' = [told EXCEPT ![c] = {}]
    /\ overtaken' = [overtaken EXCEPT ![c] = {}]

\* Between two turns of its loop the handler notices that the client is gone.
Close(c) ==
    /\ conn[c] = "on"
    /\ conn' = [conn EXCEPT ![c] = "off"]
    /\ Forgotten(c)
    /\ UNCHANGED <<maps, adding, task, aborted, removing, count, removals>>

\* Mutated form of Overtaken: the handler subscribes again.
OvertakenResubscribes(c) ==
    /\ conn[c] = "on"
    /\ c \in lagged
    /\ lagged' = lagged \ {c}
    /\ inbox' = [inbox EXCEPT ![c] = <<>>]
    /\ UNCHANGED <<maps, adding, task, aborted, removing, conn, count, shown, removals>>

\* recv() says how much it has lost, which the handler ignores.
Overtaken(c) ==
    /\ conn[c] = "on"
    /\ c \in lagged
    /\ lagged' = lagged \ {c}
    /\ UNCHANGED <<maps, adding, task, aborted, removing, conn, inbox, count, shown, removals>>

\* The client is sent what is for its user; an action is run at once, by every
\* connection that gets it, and the handler does nothing else meanwhile.
Receive(c) ==
    /\ conn[c] = "on"
    /\ c \notin lagged
    /\ inbox[c] # <<>>
    /\ LET m == Head(inbox[c]) IN
       /\ told' = [told EXCEPT ![c] = @ \cup ({m} \cap Reminders)]
       /\ conn' = [conn EXCEPT ![c] = IF m \in WithAction THEN "acting" ELSE "on"]
    /\ inbox' = [inbox EXCEPT ![c] = Tail(@)]
    /\ UNCHANGED <<maps, adding, task, aborted, removing, lagged, count, due, overtaken,
                   removals>>

\* run_turn has ended; each of its awaits has a timeout.
ActionEnds(c) ==
    /\ conn[c] = "acting"
    /\ conn' = [conn EXCEPT ![c] = "on"]
    /\ UNCHANGED <<maps, adding, task, aborted, removing, inbox, lagged, count, shown, removals>>

(***************************************************************************)
(* A restart forgets every reminder                                        *)
(***************************************************************************)
Crash ==
    /\ count.crashes < MaxCrashes
    /\ count' = [count EXCEPT !.crashes = @ + 1]
    /\ reminders' = [r \in Reminders |-> "none"]
    /\ timers' = {}
    /\ adding' = [r \in Reminders |-> IF adding[r] = "new" THEN "new" ELSE "added"]
    /\ task' = [r \in Reminders |-> IF adding[r] = "new" THEN "none" ELSE "ended"]
    /\ aborted' = {}
    /\ removing' = [h \in Removers |-> None]
    /\ conn' = [c \in Conns |-> "off"]
    /\ inbox' = [c \in Conns |-> <<>>]
    /\ lagged' = {}
    /\ due' = [c \in Conns |-> {}]
    /\ told' = [c \in Conns |-> {}]
    /\ overtaken' = [c \in Conns |-> {}]
    /\ UNCHANGED removals

(***************************************************************************)
(* Specification                                                           *)
(***************************************************************************)
Scheduled(r) ==
    SpawnTimer(r) \/ RegisterTimer(r) \/ Wake(r) \/ Mark(r) \/ Ring(r)

Serves(c) == Overtaken(c) \/ Receive(c) \/ ActionEnds(c)

Next ==
    \/ \E r \in Reminders : Add(r) \/ Scheduled(r) \/ Dropped(r)
    \/ \E h \in Removers, r \in Reminders : Remove(h, r)
    \/ \E h \in Removers : Cancel(h) \/ Erase(h) \/ DropRemoval(h)
    \/ \E c \in Conns : Connect(c) \/ Close(c) \/ Serves(c)
    \/ RingOther
    \/ Crash

\* A sleep ends and the runtime polls what is ready; a removal returns, or its
\* request is dropped.  Nobody has to add, remove, connect or close, and nothing is
\* asked of a connection: send() does not wait for its receivers.  Adds and removals
\* take a few steps each, so it is enough that some one of them goes on.
Fairness ==
    /\ WF_vars(\E r \in Reminders : Scheduled(r))
    /\ WF_vars(\E h \in Removers : Cancel(h) \/ Erase(h) \/ DropRemoval(h))

Spec == Init /\ [][Next]_vars /\ Fairness

(***************************************************************************)
(* Properties                                                              *)
(***************************************************************************)
\* The state is well typed; what a receiver holds fits in the channel.
TypeOK ==
    /\ reminders \in [Reminders -> {"none", "pending", "triggered"}]
    /\ timers \subseteq Reminders
    /\ adding \in [Reminders -> {"new", "stored", "spawned", "added"}]
    /\ task \in [Reminders -> {"none", "sleeping", "woken", "marked", "ended"}]
    /\ aborted \subseteq Reminders
    /\ removing \in [Removers -> [reminder : Reminders, cancelled : BOOLEAN] \cup {None}]
    /\ conn \in [Conns -> {"off", "on", "acting"}]
    /\ \A c \in Conns : /\ inbox[c] \in Seq(Messages)
                        /\ Len(inbox[c]) <= Capacity
                        /\ conn[c] = "off" => inbox[c] = <<>> /\ c \notin lagged
    /\ lagged \subseteq Conns
    /\ {removed, overlapped, rungLate, abandoned} \subseteq SUBSET Reminders

\* "List all active (untriggered) reminders" (tools/cron.rs:72): a reminder in
\* the list has a timer that will ring, unless it is being added or removed, or
\* the request that was removing it was dropped after it had aborted the timer
\* (scheduler.rs:671-674), which leaves it in the list for good; and a timer that
\* will ring is of a reminder in the list, unless a removal came before the timer
\* was registered or while it rang.
ListMatchesTimers ==
    \A r \in Reminders :
        /\ reminders[r] = "pending" =>
             \/ task[r] \in {"sleeping", "woken"}
             \/ adding[r] = "stored"
             \/ \E h \in Removers : removing[h] = [reminder |-> r, cancelled |-> TRUE]
             \/ r \in abandoned
        /\ task[r] = "sleeping" => reminders[r] = "pending" \/ r \in overlapped

\* "Cancel the timer if it exists" (scheduler.rs:670): a reminder does not ring
\* once its removal has returned, unless it was removed while it was being
\* added, before its timer was registered, or while it rang.
RemovedIsSilent == rungLate \subseteq overlapped

Waiting(c) == {inbox[c][i] : i \in 1..Len(inbox[c])}

\* A connection misses no broadcast but those that overtook its receiver: what
\* was sent since it was opened has been shown, is waiting, or was overtaken;
\* and it is shown once (ws.rs:946-956).
OnlyTheOvertakenAreMissed ==
    \A c \in Conns : \A r \in due[c] :
        /\ r \in told[c] \/ r \in Waiting(c) \/ r \in overtaken[c]
        /\ ~(r \in told[c] /\ (r \in Waiting(c) \/ r \in overtaken[c]))

\* "notify the user at the specified time" (tools/cron.rs:19): a listed reminder
\* rings, unless it is removed or the server restarts, or a request to remove it
\* was dropped between the abort of its timer and the end.
ListedRings ==
    \A r \in Reminders :
        reminders[r] = "pending" ~> reminders[r] # "pending" \/ r \in abandoned
===============================================================================
