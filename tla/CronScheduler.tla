---------------------------- MODULE CronScheduler ----------------------------
(***************************************************************************)
(* Periodic tasks: CronScheduler (scheduler.rs) with its SQLite store      *)
(* (cron_store.rs), and the executor that runs what it triggers            *)
(* (cron_executor.rs).                                                     *)
(*                                                                         *)
(* A job lives in three places: the map of jobs, the trigger loop spawned  *)
(* for it with a copy of its prompt, model and schedule, and the database. *)
(* An operation changes them one after the other, each under a lock of its *)
(* own, so each change is a step here, and a request handler ("caller") is *)
(* a process that takes one step at a time.  Edit n is the n-th prompt,    *)
(* model and schedule that an operation was given.                         *)
(*                                                                         *)
(* Saving to the database may fail; the code logs it and goes on.  The     *)
(* server drops the handler of a request whose client goes away, at any of *)
(* its awaits; a tool call has a task of its own, which is not dropped.    *)
(* The server may stop at any time; what it restarts with is the database. *)
(***************************************************************************)
EXTENDS Integers, Sequences, FiniteSets

CONSTANTS
  Jobs,        \* job ids; an id is used for one job only
  Callers,     \* request handlers and agent tools at work at the same time
  Slots,       \* bound: trigger loops of a job that can exist at one time
  MaxEdits,    \* bound: add and update operations
  MaxFires,    \* bound: triggers, scheduled or manual
  MaxCrashes,  \* bound: restarts of the server
  Capacity     \* size of the broadcast channel (256 in the code)

ASSUME SlotsAssumption == 1 \in Slots /\ Slots \subseteq Nat \ {0}
ASSUME JobsAssumption == "none" \notin Jobs
ASSUME CronBounds == {MaxEdits, MaxFires, MaxCrashes} \subseteq Nat
ASSUME CapacityAssumption == Capacity \in Nat \ {0}

VARIABLES
  jobs,     \* CronScheduler.cron_jobs, or NoJob
  handles,  \* CronScheduler.cron_handles: the slot of the job's loop, or 0
  loops,    \* the spawned trigger loops
  store,    \* table cron_jobs, or NoJob
  results,  \* table cron_task_results: how many rows of each job
  caller,   \* per caller: the operation it is in, and its locals
  queue,    \* reminders the executor has not received
  exec,     \* the reminder the executor is working on, or Nothing
  edits,    \* number of edits so far
  fires,    \* number of triggers so far
  crashes,  \* number of restarts so far
  born,     \* history: the jobs that were ever added
  removed,  \* history: the jobs whose removal has returned, deleted from store
  unsaved,  \* history: the jobs whose last save, delete or load failed or was not made
  astray,   \* history: the jobs an operation left without the one loop they should have
  spent     \* the edits whose schedule has no fire time left

memVars  == <<jobs, handles, loops>>
dbVars   == <<store, results>>
execVars == <<queue, exec>>
ghosts   == <<edits, fires, crashes, born, removed, unsaved, astray, spent>>
vars     == <<memVars, dbVars, caller, execVars, ghosts>>

NoJob   == [edit |-> 0, runs |-> 0]
Nothing == [job |-> "none", edit |-> 0]
NoLoop  == [pc |-> "none", edit |-> 0, aborted |-> FALSE]
Idle    == [pc |-> "idle", job |-> "none", edit |-> 0, runs |-> 0, slot |-> 0]

\* `runs` stands for last_run: it grows with every trigger.
Record == [edit : 0 .. MaxEdits, runs : Nat]

\* A trigger loop with its own edit, and a handler with its locals.
Loop == [pc : {"none", "sleeping", "bumped"}, edit : 0 .. MaxEdits, aborted : BOOLEAN]

Handler == [pc : {"idle", "spawned", "registered", "scheduled", "cloned", "stopped",
                  "forgotten", "deleted", "triggered", "bumped"},
            job : Jobs \cup {"none"}, edit : 0 .. MaxEdits, runs : Nat,
            slot : Slots \cup {0}]

Reminder == [job : Jobs, edit : 1 .. MaxEdits]

Init ==
  /\ jobs = [j \in Jobs |-> NoJob]
  /\ handles = [j \in Jobs |-> 0]
  /\ loops = [j \in Jobs |-> [s \in Slots |-> NoLoop]]
  /\ store = [j \in Jobs |-> NoJob]
  /\ results = [j \in Jobs |-> 0]
  /\ caller = [c \in Callers |-> Idle]
  /\ queue = <<>>
  /\ exec = Nothing
  /\ edits = 0 /\ fires = 0 /\ crashes = 0
  /\ born = {} /\ removed = {} /\ unsaved = {} /\ astray = {} /\ spent = {}

At(c, l) == caller[c].pc = l
Goto(c, l) == caller' = [caller EXCEPT ![c].pc = l]
Return(c) == caller' = [caller EXCEPT ![c] = Idle]

-----------------------------------------------------------------------------
(* Loops and handles.                                                      *)

\* A slot is not taken again while something still names it.
FreeSlots(j) ==
  {s \in Slots : /\ loops[j][s].pc = "none"
                 /\ handles[j] # s
                 /\ \A c \in Callers : caller[c].job = j => caller[c].slot # s}

FreeSlot(j) == CHOOSE s \in FreeSlots(j) : TRUE

Sleeping(edit) == [pc |-> "sleeping", edit |-> edit, aborted |-> FALSE]

\* The loops of job j once its registered handle has been aborted.
Aborted(j) ==
  IF handles[j] = 0 THEN loops[j]
  ELSE [loops[j] EXCEPT ![handles[j]].aborted = @ \/ loops[j][handles[j]].pc # "none"]

\* reminder_tx.send(): the executor's receiver drops the oldest reminder when
\* it is full.
Enqueue(j, edit) ==
  queue' = Append(IF Len(queue) = Capacity THEN Tail(queue) ELSE queue,
                  [job |-> j, edit |-> edit])

\* A save of record r may fail.
Save(j, r) ==
  \/ store' = [store EXCEPT ![j] = r] /\ unsaved' = unsaved \ {j}
  \/ UNCHANGED store /\ unsaved' = unsaved \cup {j}

-----------------------------------------------------------------------------
(* add_periodic_task, add_cron_job.                                        *)

\* spawn_job_loop spawns the loop ...
Add(c, j) ==
  /\ At(c, "idle") /\ j \notin born
  /\ edits < MaxEdits
  /\ edits' = edits + 1
  /\ born' = born \cup {j}
  /\ loops' = [loops EXCEPT ![j][FreeSlot(j)] = Sleeping(edits + 1)]
  /\ caller' = [caller EXCEPT ![c] = [pc |-> "spawned", job |-> j, edit |-> edits + 1,
                                      runs |-> 0, slot |-> FreeSlot(j)]]
  /\ UNCHANGED <<jobs, handles, dbVars, execVars, fires, crashes, removed, unsaved, astray, spent>>

\* ... registers the job ...
Register(c) ==
  /\ At(c, "spawned")
  /\ jobs' = [jobs EXCEPT ![caller[c].job] =
                [edit |-> caller[c].edit, runs |-> caller[c].runs]]
  /\ Goto(c, "registered")
  /\ UNCHANGED <<handles, loops, dbVars, execVars, ghosts>>

\* ... and then the handle of the loop; a handle it replaces is dropped,
\* which leaves its loop running.
RegisterHandle(c) ==
  /\ At(c, "registered")
  /\ handles' = [handles EXCEPT ![caller[c].job] = caller[c].slot]
  /\ Goto(c, "scheduled")
  /\ UNCHANGED <<jobs, loops, dbVars, execVars, ghosts>>

\* Mutated form of Persist: the record is not saved.
PersistNothing(c) ==
  /\ At(c, "scheduled")
  /\ Return(c)
  /\ UNCHANGED <<memVars, dbVars, execVars, ghosts>>

\* The operation saves the record it has made.
Persist(c) ==
  /\ At(c, "scheduled")
  /\ Save(caller[c].job, [edit |-> caller[c].edit, runs |-> caller[c].runs])
  /\ Return(c)
  /\ UNCHANGED <<memVars, results, execVars, edits, fires, crashes, born, removed, astray, spent>>

-----------------------------------------------------------------------------
(* update_periodic_task.                                                   *)

\* The current job is cloned; without one the operation fails.
Update(c, j) ==
  /\ At(c, "idle") /\ jobs[j] # NoJob
  /\ edits < MaxEdits
  /\ edits' = edits + 1
  /\ caller' = [caller EXCEPT ![c] = [pc |-> "cloned", job |-> j, edit |-> edits + 1,
                                      runs |-> jobs[j].runs, slot |-> 0]]
  /\ UNCHANGED <<memVars, dbVars, execVars, fires, crashes, born, removed, unsaved, astray,
                 spent>>

\* Mutated form of Replace: the old loop is not aborted.
ReplaceKeepsOld(c) ==
  /\ At(c, "cloned")
  /\ LET j == caller[c].job
         s == FreeSlot(j) IN
     /\ FreeSlots(j) # {}
     /\ loops' = [loops EXCEPT ![j] = [@ EXCEPT ![s] = Sleeping(caller[c].edit)]]
     /\ handles' = [handles EXCEPT ![j] = 0]
     /\ caller' = [caller EXCEPT ![c].pc = "spawned", ![c].slot = s]
  /\ UNCHANGED <<jobs, dbVars, execVars, ghosts>>

\* The registered loop is aborted and a new one spawned; Register,
\* RegisterHandle and Persist follow.  The schedule is looked at once more before
\* that: if it has run out since it was checked, the update fails, and the job
\* stays registered without a loop.  The schedules the router builds never run out.
Replace(c) ==
  /\ At(c, "cloned")
  /\ LET j == caller[c].job
         s == FreeSlot(j) IN
     /\ FreeSlots(j) # {}
     /\ loops' = [loops EXCEPT ![j] = [Aborted(j) EXCEPT ![s] = Sleeping(caller[c].edit)]]
     /\ handles' = [handles EXCEPT ![j] = 0]
     /\ caller' = [caller EXCEPT ![c].pc = "spawned", ![c].slot = s]
  /\ UNCHANGED <<jobs, dbVars, execVars, ghosts>>

ReplaceFails(c) ==
  /\ At(c, "cloned")
  /\ LET j == caller[c].job IN
     /\ loops' = [loops EXCEPT ![j] = Aborted(j)]
     /\ handles' = [handles EXCEPT ![j] = 0]
     /\ astray' = astray \cup {j}
  /\ spent' = spent \cup {caller[c].edit}
  /\ Return(c)
  /\ UNCHANGED <<jobs, dbVars, execVars, edits, fires, crashes, born, removed, unsaved>>

-----------------------------------------------------------------------------
(* remove_cron_job.                                                        *)

\* The registered loop is aborted.  A request has found the job in the list of
\* its user; a tool call looks nowhere, and removes any id that was given out.
Remove(c, j) ==
  /\ At(c, "idle") /\ j \in born
  /\ loops' = [loops EXCEPT ![j] = Aborted(j)]
  /\ handles' = [handles EXCEPT ![j] = 0]
  /\ caller' = [caller EXCEPT ![c] = [Idle EXCEPT !.pc = "stopped", !.job = j]]
  /\ UNCHANGED <<jobs, dbVars, execVars, ghosts>>

Forget(c) ==
  /\ At(c, "stopped")
  /\ jobs' = [jobs EXCEPT ![caller[c].job] = NoJob]
  /\ Goto(c, "forgotten")
  /\ UNCHANGED <<handles, loops, dbVars, execVars, ghosts>>

\* delete_job, which may fail.
DeleteJob(c) ==
  /\ At(c, "forgotten")
  /\ Save(caller[c].job, NoJob)
  /\ Goto(c, "deleted")
  /\ UNCHANGED <<memVars, results, execVars, edits, fires, crashes, born, removed, astray, spent>>

\* delete_results, which may fail; the removal returns.
DeleteResults(c) ==
  /\ At(c, "deleted")
  /\ LET j == caller[c].job IN
     /\ results' \in {results, [results EXCEPT ![j] = 0]}
     /\ removed' = IF j \in unsaved THEN removed ELSE removed \cup {j}
  /\ Return(c)
  /\ UNCHANGED <<memVars, store, execVars, edits, fires, crashes, born, unsaved, astray, spent>>

-----------------------------------------------------------------------------
(* trigger_cron_job_now.                                                   *)

\* The job is cloned ...
Trigger(c, j) ==
  /\ At(c, "idle") /\ jobs[j] # NoJob
  /\ fires < MaxFires
  /\ fires' = fires + 1
  /\ caller' = [caller EXCEPT ![c] = [Idle EXCEPT !.pc = "triggered", !.job = j,
                                                  !.edit = jobs[j].edit]]
  /\ UNCHANGED <<memVars, dbVars, execVars, edits, crashes, born, removed, unsaved, astray,
                 spent>>

\* The job with one more run, if it is still there.
Bumped(j) == IF jobs[j] = NoJob THEN NoJob ELSE [jobs[j] EXCEPT !.runs = @ + 1]

\* ... last_run is set if it is still there ...
TriggerBump(c) ==
  /\ At(c, "triggered")
  /\ jobs' = [jobs EXCEPT ![caller[c].job] = Bumped(caller[c].job)]
  /\ Goto(c, "bumped")
  /\ UNCHANGED <<handles, loops, dbVars, execVars, ghosts>>

\* Under the lock of the job map: the record is saved if it is still there.
SaveRun(j) ==
  IF jobs[j] = NoJob THEN UNCHANGED <<store, unsaved>> ELSE Save(j, jobs[j])

\* ... and saved, and the reminder goes out with what was cloned.
TriggerSend(c) ==
  /\ At(c, "bumped")
  /\ SaveRun(caller[c].job)
  /\ Enqueue(caller[c].job, caller[c].edit)
  /\ Return(c)
  /\ UNCHANGED <<memVars, results, exec, edits, fires, crashes, born, removed, astray, spent>>

-----------------------------------------------------------------------------
(* A request whose client goes away.                                       *)

\* The handler is dropped at the await it is suspended in.  A statement it has
\* sent is executed or not; nothing it would do after that is done.  For one
\* that is suspended in its last save, this is Persist.
DropCaller(c) ==
  /\ ~At(c, "idle") /\ ~At(c, "scheduled")
  /\ LET j == caller[c].job IN
     /\ \/ /\ At(c, "cloned") \/ At(c, "triggered")
           /\ UNCHANGED <<dbVars, unsaved, astray>>
        \/ /\ At(c, "spawned") \/ At(c, "stopped")
           /\ astray' = astray \cup {j}
           /\ UNCHANGED <<dbVars, unsaved>>
        \/ /\ At(c, "registered")
           /\ astray' = astray \cup {j} /\ unsaved' = unsaved \cup {j}
           /\ UNCHANGED dbVars
        \/ /\ At(c, "forgotten")
           /\ Save(j, NoJob)
           /\ UNCHANGED <<results, astray>>
        \/ /\ At(c, "deleted")
           /\ results' \in {results, [results EXCEPT ![j] = 0]}
           /\ UNCHANGED <<store, unsaved, astray>>
        \/ /\ At(c, "bumped")
           /\ SaveRun(j)
           /\ UNCHANGED <<results, astray>>
  /\ Return(c)
  /\ UNCHANGED <<memVars, execVars, edits, fires, crashes, born, removed, spent>>

-----------------------------------------------------------------------------
(* The trigger loop.                                                       *)

\* The loop is being registered: it sleeps for a second at least, and the lock
\* of the job map is fair, so it does not get there before Register.
Spawning(j, s) ==
  \E c \in Callers : At(c, "spawned") /\ caller[c].job = j /\ caller[c].slot = s

\* The sleep is over: last_run is set, or the loop ends when the job is gone.
LoopWake(j, s) ==
  /\ loops[j][s].pc = "sleeping" /\ ~loops[j][s].aborted
  /\ ~Spawning(j, s)
  /\ fires < MaxFires
  /\ jobs' = [jobs EXCEPT ![j] = Bumped(j)]
  /\ IF jobs[j] = NoJob
     THEN loops' = [loops EXCEPT ![j][s] = NoLoop] /\ UNCHANGED fires
     ELSE loops' = [loops EXCEPT ![j][s].pc = "bumped"] /\ fires' = fires + 1
  /\ UNCHANGED <<handles, dbVars, caller, execVars, edits, crashes, born, removed, unsaved, astray,
                 spent>>

\* What becomes of the loop after it has triggered the job: an aborted one
\* gets no further than its next await, and a schedule can have no fire time
\* left, which ends the loop but leaves the job registered.
LoopGoesOn(j, s) ==
  IF loops[j][s].aborted
  THEN loops' = [loops EXCEPT ![j][s] = NoLoop] /\ UNCHANGED spent
  ELSE \/ /\ loops' = [loops EXCEPT ![j][s].pc = "sleeping"]
          /\ UNCHANGED spent
       \/ /\ loops' = [loops EXCEPT ![j][s] = NoLoop]
          /\ spent' = spent \cup {loops[j][s].edit}

\* Mutated form of LoopSend: the job is saved whether it is still there or not.
LoopSendBlind(j, s) ==
  /\ loops[j][s].pc = "bumped"
  /\ Save(j, [edit |-> loops[j][s].edit, runs |-> jobs[j].runs])
  /\ Enqueue(j, loops[j][s].edit)
  /\ LoopGoesOn(j, s)
  /\ UNCHANGED <<jobs, handles, results, caller, exec, edits, fires, crashes, born, removed,
                 astray>>

\* The record is saved under the lock of the job map, and the reminder goes
\* out with the loop's own copy of the prompt and the model.
LoopSend(j, s) ==
  /\ loops[j][s].pc = "bumped"
  /\ SaveRun(j)
  /\ Enqueue(j, loops[j][s].edit)
  /\ LoopGoesOn(j, s)
  /\ UNCHANGED <<jobs, handles, results, caller, exec, edits, fires, crashes, born, removed,
                 astray>>

\* The runtime drops an aborted loop at the await it is suspended in, which may
\* be the save.
LoopDropped(j, s) ==
  /\ loops[j][s].pc # "none" /\ loops[j][s].aborted
  /\ loops' = [loops EXCEPT ![j][s] = NoLoop]
  /\ \/ UNCHANGED <<store, unsaved>>
     \/ loops[j][s].pc = "bumped" /\ SaveRun(j)
  /\ UNCHANGED <<jobs, handles, results, caller, execVars, edits, fires, crashes, born,
                 removed, astray, spent>>

-----------------------------------------------------------------------------
(* The executor: one reminder at a time.                                   *)

\* A reminder is received, and skipped when its owner is gone or trashed.
ExecTake ==
  /\ exec = Nothing /\ queue # <<>>
  /\ queue' = Tail(queue)
  /\ exec' \in {Head(queue), Nothing}
  /\ UNCHANGED <<memVars, dbVars, caller, ghosts>>

\* The run is over, or has failed or panicked: a result is stored.
ExecStore ==
  /\ exec # Nothing
  /\ results' = [results EXCEPT ![exec.job] = @ + 1]
  /\ exec' = Nothing
  /\ UNCHANGED <<memVars, store, caller, queue, ghosts>>

\* What restore() brings back: the jobs saved that have a fire time left, or
\* nothing when the table cannot be read.
Restored(ok) ==
  [j \in Jobs |-> IF ok /\ store[j].edit \notin spent THEN store[j] ELSE NoJob]

\* The server stops and restarts, with a loop for every job restored.
Crash ==
  /\ crashes < MaxCrashes
  /\ crashes' = crashes + 1
  /\ \E ok \in BOOLEAN :
       /\ jobs' = Restored(ok)
       /\ unsaved' = IF ok THEN {} ELSE Jobs
  /\ astray' = {}
  /\ handles' = [j \in Jobs |-> IF jobs'[j] = NoJob THEN 0 ELSE 1]
  /\ loops' = [j \in Jobs |-> [s \in Slots |->
                 IF s = 1 /\ jobs'[j] # NoJob THEN Sleeping(jobs'[j].edit) ELSE NoLoop]]
  /\ caller' = [c \in Callers |-> Idle]
  /\ queue' = <<>> /\ exec' = Nothing
  /\ UNCHANGED <<dbVars, edits, fires, born, removed, spent>>

-----------------------------------------------------------------------------
CallerStep(c) ==
  \/ Register(c) \/ RegisterHandle(c) \/ Persist(c)
  \/ Replace(c) \/ ReplaceFails(c)
  \/ Forget(c) \/ DeleteJob(c) \/ DeleteResults(c)
  \/ TriggerBump(c) \/ TriggerSend(c)
  \/ DropCaller(c)

Next ==
  \/ \E c \in Callers : CallerStep(c)
  \/ \E c \in Callers, j \in Jobs : Add(c, j) \/ Update(c, j) \/ Remove(c, j) \/ Trigger(c, j)
  \/ \E j \in Jobs, s \in Slots : LoopWake(j, s) \/ LoopSend(j, s) \/ LoopDropped(j, s)
  \/ ExecTake \/ ExecStore
  \/ Crash

Spec == Init /\ [][Next]_vars

-----------------------------------------------------------------------------
\* No operation is under way on job j.
Quiet(j) == \A c \in Callers : caller[c].job # j

\* The loops of job j that will go on triggering it.
Live(j) == {s \in Slots : loops[j][s].pc # "none" /\ ~loops[j][s].aborted}

TypeOK ==
  /\ jobs \in [Jobs -> Record]
  /\ handles \in [Jobs -> Slots \cup {0}]
  /\ loops \in [Jobs -> [Slots -> Loop]]
  /\ store \in [Jobs -> Record]
  /\ results \in [Jobs -> Nat]
  /\ caller \in [Callers -> Handler]
  /\ queue \in Seq(Reminder) /\ Len(queue) <= Capacity
  /\ exec \in Reminder \cup {Nothing}
  /\ edits \in 0 .. MaxEdits /\ fires \in 0 .. MaxFires /\ crashes \in 0 .. MaxCrashes
  /\ born \subseteq Jobs /\ removed \subseteq Jobs /\ unsaved \subseteq Jobs
  /\ astray \subseteq Jobs
  /\ spent \subseteq 1 .. MaxEdits

\* A registered job with fire times left has exactly one loop, the one whose
\* handle is registered, and that loop triggers what the job says now; a job
\* that is not registered has none (scheduler.rs:428-432, 464-467, 737-742).
\* Not so for a job whose handler was dropped between these steps, or failed in
\* between (482): until the next restart it has a loop too many, or none.
OneLoopPerJob ==
  \A j \in Jobs : Quiet(j) /\ j \notin astray =>
    /\ Live(j) = IF jobs[j] = NoJob \/ jobs[j].edit \in spent THEN {} ELSE {handles[j]}
    /\ \A s \in Live(j) : loops[j][s].edit = jobs[j].edit

\* A restart brings back what is in memory now: same jobs, same edits, unless
\* the last access to the job's row failed, or was never made because its handler
\* was dropped.  A job restore() could not schedule is only in the table.
StoreMatchesMemory ==
  \A j \in Jobs : Quiet(j) /\ j \notin unsaved =>
    \/ store[j].edit = jobs[j].edit
    \/ jobs[j] = NoJob /\ store[j].edit \in spent

\* A job whose removal has returned is gone, from the database too, and does
\* not come back with a restart.
RemovedStaysRemoved ==
  \A j \in removed : jobs[j] = NoJob /\ store[j] = NoJob
=============================================================================
