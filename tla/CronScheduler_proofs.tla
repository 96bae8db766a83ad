-------------------------- MODULE CronScheduler_proofs --------------------------
(***************************************************************************)
(* Proofs about CronScheduler, for any jobs, slots, channel size and       *)
(* numbers of edits, triggers and restarts: while operations are made one  *)
(* at a time, every job has one loop, the database says what memory says,  *)
(* and a removed job stays removed.                                        *)
(***************************************************************************)
EXTENDS CronScheduler, TLAPS

\* Operations are made one after the other; the trigger loops, the executor and
\* restarts still come in between.
Serial == \E c : Callers = {c}

(***************************************************************************)
(* The inductive invariant                                                 *)
(***************************************************************************)
\* Loop s alone triggers job j, with edit e, until e has no fire time left.
Runs(j, e, s) ==
    /\ Live(j) = IF e \in spent THEN {} ELSE {s}
    /\ \A r \in Live(j) : loops[j][r].edit = e

Steady(j) ==
    /\ jobs[j] = NoJob => Live(j) = {}
    /\ jobs[j] # NoJob => handles[j] \in Slots /\ Runs(j, jobs[j].edit, handles[j])

StoreOk(j) ==
    \/ j \in unsaved
    \/ store[j].edit = jobs[j].edit
    \/ jobs[j] = NoJob /\ store[j].edit \in spent

\* How the copies of job j are related while the operation q is under way on it.
\* The loops of a job that was left astray are of any number.
InPhase(j, q) ==
    /\ q.pc \in {"idle", "cloned", "triggered", "bumped"} => j \in astray \/ Steady(j)
    /\ q.pc \in {"idle", "cloned", "triggered", "bumped", "spawned", "stopped"} => StoreOk(j)
    /\ q.pc \in {"cloned", "triggered", "bumped"} => jobs[j] # NoJob
    /\ q.pc = "cloned" => j \in astray \/ q.edit \notin spent \cup {jobs[j].edit}
    /\ q.pc \in {"spawned", "registered", "scheduled"} =>
         q.slot \in Slots /\ (j \in astray \/ Runs(j, q.edit, q.slot))
    /\ q.pc \in {"registered", "scheduled"} => jobs[j].edit = q.edit
    /\ q.pc = "scheduled" => handles[j] = q.slot
    /\ q.pc \in {"stopped", "forgotten", "deleted"} => j \in astray \/ Live(j) = {}
    /\ q.pc \in {"forgotten", "deleted"} => jobs[j] = NoJob
    /\ q.pc = "deleted" => j \in unsaved \/ store[j] = NoJob

Doing(c, j) == IF caller[c].job = j THEN caller[c] ELSE Idle

Phase(c, j) == InPhase(j, Doing(c, j))

\* An edit belongs to one job; what is spent was given to an operation.
Owns(j, e) ==
    \/ e = jobs[j].edit
    \/ e = store[j].edit
    \/ \E s \in Slots : e = loops[j][s].edit
    \/ \E c \in Callers : caller[c].job = j /\ e = caller[c].edit

EditInv ==
    /\ \A j \in Jobs : \A e \in 1 .. MaxEdits : Owns(j, e) => e <= edits
    /\ \A e \in spent : e <= edits
    /\ \A j, k \in Jobs : \A e \in 1 .. MaxEdits : Owns(j, e) /\ Owns(k, e) => j = k
    /\ \A j \in Jobs : \A s \in Slots : loops[j][s].pc # "none" => loops[j][s].edit # 0

\* What is under way on job j is a removal at most.
Leaving(j) ==
    \A c \in Callers : caller[c].job = j => caller[c].pc \in {"stopped", "forgotten", "deleted"}

JobInv(j) ==
    /\ jobs[j].edit = 0 => jobs[j] = NoJob
    /\ store[j].edit = 0 => store[j] = NoJob
    /\ j \notin born => /\ jobs[j] = NoJob /\ store[j] = NoJob /\ handles[j] = 0 /\ Quiet(j)
                        /\ \A s \in Slots : loops[j][s].pc = "none"
    /\ j \in removed => jobs[j] = NoJob /\ store[j] = NoJob /\ j \in born /\ Leaving(j)

CallerInv(c) ==
    /\ caller[c].pc = "idle" <=> caller[c].job = "none"
    /\ caller[c].pc \in {"spawned", "registered", "scheduled", "cloned", "triggered", "bumped"} =>
         caller[c].edit # 0

CronInv ==
    /\ TypeOK
    /\ EditInv
    /\ \A c \in Callers : CallerInv(c)
    /\ \A j \in Jobs : JobInv(j)
    /\ \A c \in Callers, j \in Jobs : Phase(c, j)

LEMMA InvariantIsStronger ==
    ASSUME Serial, CronInv PROVE OneLoopPerJob /\ StoreMatchesMemory /\ RemovedStaysRemoved
<1>1. PICK c : Callers = {c}
  BY DEF Serial
<1>2. RemovedStaysRemoved
  BY DEF CronInv, TypeOK, RemovedStaysRemoved, JobInv
<1>3. ASSUME NEW j \in Jobs, Quiet(j) PROVE (j \in astray \/ Steady(j)) /\ StoreOk(j)
  <2>1. Doing(c, j) = Idle
    BY <1>1, <1>3 DEF Quiet, Doing
  <2> QED BY <1>1, <2>1 DEF CronInv, Phase, InPhase, Idle
<1>4. OneLoopPerJob
  <2> SUFFICES ASSUME NEW j \in Jobs, Quiet(j), j \notin astray
               PROVE  /\ Live(j) = IF jobs[j] = NoJob \/ jobs[j].edit \in spent THEN {} ELSE {handles[j]}
                      /\ \A s \in Live(j) : loops[j][s].edit = jobs[j].edit
    BY DEF OneLoopPerJob
  <2> QED BY <1>3 DEF Steady, Runs
<1>5. StoreMatchesMemory
  BY <1>3 DEF StoreMatchesMemory, StoreOk
<1> QED BY <1>2, <1>4, <1>5

-----------------------------------------------------------------------------
(***************************************************************************)
(* What a step about one job leaves to the others                          *)
(***************************************************************************)
Untouched(c, k) ==
    /\ jobs'[k] = jobs[k] /\ handles'[k] = handles[k] /\ loops'[k] = loops[k]
    /\ store'[k] = store[k] /\ Doing(c, k)' = Doing(c, k)
    /\ k \in unsaved' <=> k \in unsaved
    /\ k \in born' <=> k \in born
    /\ k \in removed' <=> k \in removed
    /\ k \in astray' <=> k \in astray
    /\ \A e \in 1 .. MaxEdits : Owns(k, e) => (e \in spent' <=> e \in spent)

LEMMA QuietIsIdle ==
    ASSUME CronInv, NEW c, Callers = {c}, NEW k \in Jobs
    PROVE  Quiet(k) <=> Doing(c, k) = Idle
BY JobsAssumption DEF Quiet, Doing, Idle

LEMMA UntouchedKeeps ==
    ASSUME CronInv, TypeOK', NEW c, Callers = {c}, NEW k \in Jobs, Untouched(c, k)
    PROVE  JobInv(k)' /\ Phase(c, k)'
<1>1. Quiet(k)' <=> Quiet(k)
  BY JobsAssumption DEF Untouched, Quiet, Doing, Idle
<1>0. Leaving(k) => Leaving(k)'
  BY JobsAssumption DEF Untouched, Leaving, Doing, Idle
<1>2. JobInv(k)'
  BY <1>0, <1>1 DEF CronInv, JobInv, Untouched
<1>3. PICK q : q = Doing(c, k)
  OBVIOUS
<1>4. q = Doing(c, k)'
  BY <1>3 DEF Untouched
<1>5. jobs[k].edit \in spent' <=> jobs[k].edit \in spent
  BY DEF Untouched, Owns, CronInv, TypeOK, Record
<1>6. store[k].edit \in spent' <=> store[k].edit \in spent
  BY DEF Untouched, Owns, CronInv, TypeOK, Record
<1>7. q.edit \in spent' <=> q.edit \in spent
  <2>1. CASE caller[c].job = k
    <3>1. Owns(k, q.edit) /\ q.edit \in 0 .. MaxEdits
      BY <1>3, <2>1 DEF Owns, Doing, CronInv, TypeOK, Handler
    <3> QED BY <3>1 DEF Untouched, CronInv, TypeOK
  <2>2. CASE caller[c].job # k
    BY <1>3, <2>2 DEF Doing, Idle, CronInv, TypeOK
  <2> QED BY <2>1, <2>2
<1>8. Live(k)' = Live(k) /\ \A s : loops'[k][s] = loops[k][s]
  BY DEF Untouched, Live
<1>9. Steady(k) => Steady(k)'
  BY <1>5, <1>8 DEF Steady, Runs, Untouched
<1>10. StoreOk(k) => StoreOk(k)'
  BY <1>6 DEF StoreOk, Untouched
<1>11. Runs(k, q.edit, q.slot) => Runs(k, q.edit, q.slot)'
  BY <1>7, <1>8 DEF Runs
<1>12. InPhase(k, q)
  BY <1>3 DEF CronInv, Phase
<1>13. InPhase(k, q)'
  <2>1. jobs'[k] = jobs[k] /\ handles'[k] = handles[k] /\ store'[k] = store[k]
        /\ (k \in unsaved' <=> k \in unsaved) /\ (k \in astray' <=> k \in astray)
    BY DEF Untouched
  <2> QED BY <1>7, <1>8, <1>9, <1>10, <1>11, <1>12, <2>1 DEF InPhase
<1> QED BY <1>2, <1>4, <1>13 DEF Phase, InPhase

\* A step about job j
LEMMA StepKeeps ==
    ASSUME CronInv, NEW c, Callers = {c}, NEW j \in Jobs, TypeOK', EditInv', CallerInv(c)',
           \A k \in Jobs \ {j} : Untouched(c, k),
           JobInv(j)', Phase(c, j)'
    PROVE  CronInv'
BY UntouchedKeeps DEF CronInv

\* Nobody takes an edit that another job owns.
LEMMA EditsKept ==
    ASSUME CronInv, TypeOK', NEW j \in Jobs,
           \A k \in Jobs \ {j} : \A e \in 1 .. MaxEdits : Owns(k, e)' => Owns(k, e),
           \A e \in 1 .. MaxEdits : Owns(j, e)' => Owns(j, e) \/ (edits' = edits + 1 /\ e = edits'),
           edits' = edits \/ edits' = edits + 1,
           \A e \in spent' : e \in spent \/ Owns(j, e),
           \A k \in Jobs, s \in Slots : loops'[k][s].pc # "none" =>
                loops'[k][s].edit # 0 \/ loops'[k][s] = loops[k][s]
    PROVE  EditInv'
<1>1. edits \in Nat /\ edits' \in Nat /\ edits <= edits'
      /\ spent \subseteq 1 .. MaxEdits /\ spent' \subseteq 1 .. MaxEdits
  BY DEF CronInv, TypeOK
<1>2. EditInv
  BY DEF CronInv
<1>3. ASSUME NEW k \in Jobs, NEW e \in 1 .. MaxEdits, Owns(k, e) PROVE e <= edits
  BY <1>2, <1>3 DEF EditInv
<1>4. ASSUME NEW k \in Jobs, NEW e \in 1 .. MaxEdits, Owns(k, e)' PROVE e <= edits'
  BY <1>1, <1>3, <1>4
<1>5. ASSUME NEW e \in spent' PROVE e <= edits'
  BY <1>1, <1>2, <1>3, <1>5 DEF EditInv
<1>6. ASSUME NEW i \in Jobs, NEW k \in Jobs, NEW e \in 1 .. MaxEdits, Owns(i, e)', Owns(k, e)'
      PROVE  i = k
  <2>1. CASE Owns(i, e) /\ Owns(k, e)
    BY <1>2, <2>1 DEF EditInv
  <2>2. CASE edits' = edits + 1 /\ e = edits'
    <3>1. ~(e <= edits)
      BY <1>1, <2>2
    <3>2. ~Owns(i, e) /\ ~Owns(k, e)
      BY <1>3, <3>1
    <3> QED BY <1>6, <3>2
  <2> QED BY <1>6, <2>1, <2>2
<1>7. ASSUME NEW k \in Jobs, NEW s \in Slots, loops'[k][s].pc # "none" PROVE loops'[k][s].edit # 0
  BY <1>2, <1>7 DEF EditInv
<1> QED BY <1>4, <1>5, <1>6, <1>7 DEF EditInv

\* The general step: it changes the copies of job j, and may take a new edit
\* or find an edit of j spent.
LEMMA JobStep ==
    ASSUME CronInv, NEW c, Callers = {c}, NEW j \in Jobs, TypeOK', CallerInv(c)',
           \A k \in Jobs \ {j} :
               /\ jobs'[k] = jobs[k] /\ handles'[k] = handles[k]
               /\ loops'[k] = loops[k] /\ store'[k] = store[k]
               /\ k \in unsaved' <=> k \in unsaved
               /\ k \in born' <=> k \in born
               /\ k \in removed' <=> k \in removed
               /\ k \in astray' <=> k \in astray,
           \/ caller' = caller
           \/ caller[c].job \in {j, "none"} /\ caller'[c].job \in {j, "none"},
           edits' = edits \/ edits' = edits + 1,
           \A e \in 1 .. MaxEdits : Owns(j, e)' => Owns(j, e) \/ (edits' = edits + 1 /\ e = edits'),
           spent \subseteq spent',
           \A e \in spent' : e \in spent \/ Owns(j, e),
           \A s \in Slots : loops'[j][s].pc # "none" =>
                loops'[j][s].edit # 0 \/ loops'[j][s] = loops[j][s],
           JobInv(j)', Phase(c, j)'
    PROVE  CronInv'
<1>1. \A k \in Jobs \ {j} : k # "none" /\ Doing(c, k)' = Doing(c, k)
  BY JobsAssumption DEF Doing
<1>2. ASSUME NEW k \in Jobs \ {j}, NEW e \in 1 .. MaxEdits PROVE Owns(k, e)' => Owns(k, e)
  BY <1>1 DEF Owns
<1>3. \A k \in Jobs, s \in Slots : loops'[k][s].pc # "none" =>
                loops'[k][s].edit # 0 \/ loops'[k][s] = loops[k][s]
  OBVIOUS
<1>4. EditInv'
  BY <1>2, <1>3, EditsKept
<1>5. ASSUME NEW k \in Jobs \ {j} PROVE Untouched(c, k)
  <2>1. ASSUME NEW e \in 1 .. MaxEdits, Owns(k, e), e \in spent' PROVE e \in spent
    BY <2>1 DEF CronInv, EditInv
  <2> QED BY <1>1, <2>1 DEF Untouched
<1> QED BY <1>4, <1>5, StepKeeps

\* A step that leaves the jobs alone
LEMMA OtherStep ==
    ASSUME CronInv, TypeOK',
           UNCHANGED <<jobs, handles, loops, store, caller, edits, born, removed, unsaved, astray, spent>>
    PROVE  CronInv'
<1>1. EditInv'
  BY DEF CronInv, EditInv, Owns
<1>2. \A c \in Callers : CallerInv(c)'
  BY DEF CronInv, CallerInv
<1>3. ASSUME NEW j \in Jobs PROVE JobInv(j)'
  BY DEF CronInv, JobInv, Quiet, Leaving
<1>4. ASSUME NEW c \in Callers, NEW j \in Jobs PROVE Phase(c, j)'
  <2>1. Doing(c, j)' = Doing(c, j) /\ Live(j)' = Live(j)
    BY DEF Doing, Live
  <2>2. Steady(j)' <=> Steady(j)
    BY <2>1 DEF Steady, Runs
  <2>3. StoreOk(j)' <=> StoreOk(j)
    BY DEF StoreOk
  <2> QED BY <2>1, <2>2, <2>3 DEF CronInv, Phase, InPhase, Runs
<1> QED BY <1>1, <1>2, <1>3, <1>4 DEF CronInv

LEMMA Constants ==
    /\ NoJob \in Record /\ NoJob.edit = 0 /\ Idle \in Handler
    /\ Idle.pc = "idle" /\ Idle.job = "none" /\ Idle.edit = 0 /\ Idle.slot = 0
    /\ NoLoop \in Loop /\ NoLoop.pc = "none" /\ NoLoop.edit = 0
    /\ \A e \in 0 .. MaxEdits : /\ Sleeping(e) \in Loop /\ Sleeping(e).pc = "sleeping"
                                /\ Sleeping(e).edit = e /\ Sleeping(e).aborted = FALSE
    /\ 0 \notin Slots /\ 1 \in Slots
BY CronBounds, SlotsAssumption
   DEF NoJob, Record, Idle, Handler, NoLoop, Loop, Sleeping

\* The job of an operation under way
LEMMA AtWork ==
    ASSUME CronInv, NEW c \in Callers, caller[c].pc # "idle"
    PROVE  /\ caller[c].job \in Jobs /\ caller[c].job \in born
           /\ caller[c].pc \notin {"stopped", "forgotten", "deleted"} => caller[c].job \notin removed
           /\ Doing(c, caller[c].job) = caller[c] /\ caller[c] \in Handler
<1>1. caller[c] \in Handler /\ caller[c].job \in Jobs
  BY DEF CronInv, CallerInv, TypeOK, Handler
<1>2. ~Quiet(caller[c].job)
  BY <1>1 DEF Quiet
<1> QED BY <1>1, <1>2 DEF CronInv, JobInv, Leaving, Doing

LEMMA GotoMoves ==
    ASSUME CronInv, NEW c \in Callers, NEW l, Goto(c, l),
           l \in {"registered", "scheduled", "forgotten", "deleted", "bumped"}
    PROVE  /\ caller' \in [Callers -> Handler] /\ caller'[c].pc = l
           /\ caller'[c].job = caller[c].job /\ caller'[c].edit = caller[c].edit
           /\ caller'[c].runs = caller[c].runs /\ caller'[c].slot = caller[c].slot
BY DEF CronInv, TypeOK, Handler, Goto

\* A record with an edit and a number of runs
LEMMA RecordFields ==
    ASSUME NEW e \in 0 .. MaxEdits, NEW n \in Nat, NEW r, r = [edit |-> e, runs |-> n]
    PROVE  r \in Record /\ r.edit = e /\ r.runs = n
BY DEF Record

\* The edits of a job whose operation goes on
LEMMA OwnsSame ==
    ASSUME CronInv, NEW c, Callers = {c}, NEW j \in Jobs, NEW e, Owns(j, e)',
           jobs'[j].edit = 0 \/ Owns(j, jobs'[j].edit),
           store'[j].edit = 0 \/ Owns(j, store'[j].edit),
           \A s \in Slots : loops'[j][s].edit = 0 \/ Owns(j, loops'[j][s].edit),
           caller'[c].job = j => caller'[c].edit = 0 \/ Owns(j, caller'[c].edit)
    PROVE  e = 0 \/ Owns(j, e)
BY DEF Owns

LEMMA SaveFields ==
    ASSUME CronInv, NEW j \in Jobs, NEW r \in Record, Save(j, r)
    PROVE  /\ store' \in [Jobs -> Record] /\ unsaved' \subseteq Jobs
           /\ \A k \in Jobs \ {j} : store'[k] = store[k] /\ (k \in unsaved' <=> k \in unsaved)
           /\ \/ store'[j] = r /\ j \notin unsaved'
              \/ store'[j] = store[j] /\ j \in unsaved'
BY DEF Save, CronInv, TypeOK

LEMMA SaveRunFields ==
    ASSUME CronInv, NEW j \in Jobs, SaveRun(j)
    PROVE  /\ store' \in [Jobs -> Record] /\ unsaved' \subseteq Jobs
           /\ \A k \in Jobs \ {j} : store'[k] = store[k] /\ (k \in unsaved' <=> k \in unsaved)
           /\ \/ store'[j] = store[j] /\ (j \in unsaved' <=> j \in unsaved)
              \/ jobs[j] # NoJob /\ store'[j] = jobs[j] /\ j \notin unsaved'
              \/ jobs[j] # NoJob /\ store'[j] = store[j] /\ j \in unsaved'
<1>1. jobs[j] \in Record
  BY DEF CronInv, TypeOK
<1>2. CASE jobs[j] = NoJob
  BY <1>2 DEF SaveRun, CronInv, TypeOK
<1>3. CASE jobs[j] # NoJob
  BY <1>1, <1>3, SaveFields DEF SaveRun
<1> QED BY <1>2, <1>3

LEMMA EnqueueFields ==
    ASSUME CronInv, NEW j \in Jobs, NEW e \in 1 .. MaxEdits, Enqueue(j, e)
    PROVE  queue' \in Seq(Reminder) /\ Len(queue') <= Capacity
<1> DEFINE q0 == IF Len(queue) = Capacity THEN Tail(queue) ELSE queue
           r == [job |-> j, edit |-> e]
<1>1. queue \in Seq(Reminder) /\ Len(queue) <= Capacity /\ Capacity \in Nat \ {0}
  BY CapacityAssumption DEF CronInv, TypeOK
<1>2. q0 \in Seq(Reminder) /\ Len(q0) <= Capacity - 1
  BY <1>1
<1>3. r \in Reminder
  BY DEF Reminder
<1>4. queue' = Append(q0, r)
  BY DEF Enqueue
<1> HIDE DEF q0, r
<1> QED BY <1>1, <1>2, <1>3, <1>4

\* A run of the job is saved, or not: what is known of the job stays.
LEMMA PhaseSaved ==
    ASSUME CronInv, NEW j \in Jobs, NEW q, InPhase(j, q),
           jobs'[j] = jobs[j], handles'[j] = handles[j],
           Live(j)' \subseteq Live(j), spent \subseteq spent', astray' = astray,
           \A e \in spent' : e \in spent \/ \E s \in Live(j) : e = loops[j][s].edit,
           j \in astray \/ \A e, s : Runs(j, e, s) => Runs(j, e, s)',
           \/ store'[j] = store[j] /\ (j \in unsaved' <=> j \in unsaved)
           \/ jobs[j] # NoJob /\ store'[j] = jobs[j]
           \/ jobs[j] # NoJob /\ j \in unsaved'
    PROVE  InPhase(j, q)'
<1>1. j \in astray \/ (Steady(j) => Steady(j)')
  BY DEF Steady
<1>2. StoreOk(j) => StoreOk(j)'
  BY DEF StoreOk
<1>3. j \in astray \/ (Runs(j, q.edit, q.slot) => Runs(j, q.edit, q.slot)')
  OBVIOUS
<1>4. q.pc = "cloned" => j \in astray \/ q.edit \notin spent' \cup {jobs'[j].edit}
  BY DEF InPhase, Steady, Runs
<1> QED BY <1>1, <1>2, <1>3, <1>4 DEF InPhase

-----------------------------------------------------------------------------
(***************************************************************************)
(* Steps of an operation that leave the loops alone                        *)
(***************************************************************************)
LEMMA RegisterKeeps ==
    ASSUME CronInv, NEW c, Callers = {c}, Register(c)
    PROVE  CronInv'
<1>1. /\ caller[c].pc = "spawned" /\ caller[c] \in Handler /\ caller[c].edit # 0
  BY AtWork DEF Register, At, CronInv, CallerInv
<1>2. PICK j \in Jobs : j = caller[c].job /\ j \in born /\ j \notin removed
                        /\ Doing(c, j) = caller[c]
  BY <1>1, AtWork
<1>3. PICK e \in 0 .. MaxEdits, n \in Nat : e = caller[c].edit /\ n = caller[c].runs
  BY <1>1 DEF Handler
<1>4. PICK r : r = [edit |-> e, runs |-> n]
  OBVIOUS
<1>5. /\ caller' \in [Callers -> Handler] /\ caller'[c].pc = "registered"
      /\ caller'[c].job = j /\ caller'[c].edit = e /\ caller'[c].slot = caller[c].slot
      /\ r \in Record /\ r.edit = e
      /\ jobs' \in [Jobs -> Record] /\ jobs'[j] = r
      /\ \A k \in Jobs \ {j} : jobs'[k] = jobs[k]
      /\ UNCHANGED <<handles, loops, store, results, queue, exec, edits, fires, crashes>>
      /\ UNCHANGED <<born, removed, unsaved, astray, spent>>
  <2>1. r \in Record /\ r.edit = e
    BY <1>4, RecordFields
  <2>2. jobs' = [jobs EXCEPT ![j] = r]
    BY <1>2, <1>3, <1>4 DEF Register
  <2>3. /\ jobs' \in [Jobs -> Record] /\ jobs'[j] = r
        /\ \A k \in Jobs \ {j} : jobs'[k] = jobs[k]
    BY <2>1, <2>2 DEF CronInv, TypeOK
  <2>4. Goto(c, "registered")
    BY DEF Register
  <2> QED BY <1>2, <1>3, <2>1, <2>3, <2>4, GotoMoves DEF Register, dbVars, execVars, ghosts
<1>6. TypeOK'
  BY <1>5 DEF CronInv, TypeOK
<1>7. CallerInv(c)'
  BY <1>1, <1>3, <1>5, JobsAssumption DEF CallerInv
<1>8. \A i \in 1 .. MaxEdits : Owns(j, i)' => Owns(j, i)
  BY <1>2, <1>3, <1>5 DEF Owns
<1>9. JobInv(j)'
  BY <1>1, <1>2, <1>3, <1>5 DEF CronInv, JobInv
<1>10. Phase(c, j)'
  <2>1. InPhase(j, caller[c])
    BY <1>2 DEF CronInv, Phase
  <2>2. PICK s \in Slots : s = caller[c].slot /\ (j \in astray \/ Runs(j, e, s))
    BY <1>1, <1>3, <2>1 DEF InPhase
  <2>3. j \in astray \/ Runs(j, e, s)'
    BY <1>5, <2>2 DEF Runs, Live
  <2>4. PICK q : q = caller'[c]
    OBVIOUS
  <2>5. InPhase(j, q)'
    BY <1>5, <2>2, <2>3, <2>4 DEF InPhase
  <2> QED BY <1>5, <2>4, <2>5 DEF InPhase, Phase, Doing
<1> QED BY <1>2, <1>4, <1>5, <1>6, <1>7, <1>8, <1>9, <1>10, JobStep

LEMMA RegisterHandleKeeps ==
    ASSUME CronInv, NEW c, Callers = {c}, RegisterHandle(c)
    PROVE  CronInv'
<1>1. /\ caller[c].pc = "registered" /\ caller[c] \in Handler /\ caller[c].edit # 0
  BY AtWork DEF RegisterHandle, At, CronInv, CallerInv
<1>2. PICK j \in Jobs : j = caller[c].job /\ j \in born /\ j \notin removed
                        /\ Doing(c, j) = caller[c]
  BY <1>1, AtWork
<1>3. InPhase(j, caller[c])
  BY <1>2 DEF CronInv, Phase
<1>4. PICK e \in 0 .. MaxEdits, s \in Slots :
          /\ e = caller[c].edit /\ s = caller[c].slot /\ jobs[j].edit = e
          /\ j \in astray \/ Runs(j, e, s)
  BY <1>1, <1>3 DEF InPhase, Handler
<1>5. /\ caller' \in [Callers -> Handler] /\ caller'[c].pc = "scheduled"
      /\ caller'[c].job = j /\ caller'[c].edit = e /\ caller'[c].slot = s
      /\ handles' \in [Jobs -> Slots \cup {0}] /\ handles'[j] = s
      /\ \A k \in Jobs \ {j} : handles'[k] = handles[k]
      /\ UNCHANGED <<jobs, loops, store, results, queue, exec, edits, fires, crashes>>
      /\ UNCHANGED <<born, removed, unsaved, astray, spent>>
  <2>1. Goto(c, "scheduled") /\ handles' = [handles EXCEPT ![j] = s]
    BY <1>2, <1>4 DEF RegisterHandle
  <2>2. /\ handles' \in [Jobs -> Slots \cup {0}] /\ handles'[j] = s
        /\ \A k \in Jobs \ {j} : handles'[k] = handles[k]
    BY <2>1 DEF CronInv, TypeOK
  <2> QED BY <1>2, <1>4, <2>1, <2>2, GotoMoves DEF RegisterHandle, dbVars, execVars, ghosts
<1>6. TypeOK'
  BY <1>5 DEF CronInv, TypeOK
<1>7. CallerInv(c)'
  BY <1>1, <1>4, <1>5, JobsAssumption DEF CallerInv
<1>8. \A i \in 1 .. MaxEdits : Owns(j, i)' => Owns(j, i)
  BY <1>2, <1>4, <1>5 DEF Owns
<1>9. JobInv(j)'
  BY <1>2, <1>5 DEF CronInv, JobInv
<1>10. Phase(c, j)'
  <2>1. j \in astray \/ Runs(j, e, s)'
    BY <1>4, <1>5 DEF Runs, Live
  <2>2. PICK q : q = caller'[c]
    OBVIOUS
  <2>3. InPhase(j, q)'
    BY <1>4, <1>5, <2>1, <2>2 DEF InPhase
  <2> QED BY <1>5, <2>2, <2>3 DEF InPhase, Phase, Doing
<1> QED BY <1>2, <1>5, <1>6, <1>7, <1>8, <1>9, <1>10, JobStep

\* The operation returns, and what it knew of the job is what holds at rest.
LEMMA ReturnIsRest ==
    ASSUME CronInv, NEW c, Callers = {c}, NEW j \in Jobs, Return(c),
           j \in astray' \/ Steady(j)', StoreOk(j)'
    PROVE  /\ caller' \in [Callers -> Handler] /\ caller'[c] = Idle /\ CallerInv(c)'
           /\ Phase(c, j)'
<1>1. caller' \in [Callers -> Handler] /\ caller'[c] = Idle
  BY Constants DEF Return, CronInv, TypeOK
<1>2. CallerInv(c)'
  BY <1>1, Constants DEF CallerInv
<1>3. Doing(c, j)' = Idle
  BY <1>1 DEF Doing
<1>4. Phase(c, j)'
  BY <1>3, Constants DEF Phase, InPhase
<1> QED BY <1>1, <1>2, <1>4

LEMMA PersistKeeps ==
    ASSUME CronInv, NEW c, Callers = {c}, Persist(c)
    PROVE  CronInv'
<1>1. /\ caller[c].pc = "scheduled" /\ caller[c] \in Handler /\ caller[c].edit # 0
  BY AtWork DEF Persist, At, CronInv, CallerInv
<1>2. PICK j \in Jobs : j = caller[c].job /\ j \in born /\ j \notin removed
                        /\ Doing(c, j) = caller[c]
  BY <1>1, AtWork
<1>3. InPhase(j, caller[c])
  BY <1>2 DEF CronInv, Phase
<1>4. PICK e \in 0 .. MaxEdits, n \in Nat : e = caller[c].edit /\ n = caller[c].runs
  BY <1>1 DEF Handler
<1>5. PICK r : r = [edit |-> e, runs |-> n]
  OBVIOUS
<1>6. r \in Record /\ r.edit = e
  BY <1>5, RecordFields
<1>7. Save(j, r) /\ Return(c)
      /\ UNCHANGED <<jobs, handles, loops, results, queue, exec, edits, fires, crashes>>
      /\ UNCHANGED <<born, removed, astray, spent>>
  BY <1>2, <1>4, <1>5 DEF Persist, memVars, execVars
<1>8. /\ store' \in [Jobs -> Record] /\ unsaved' \subseteq Jobs
      /\ \A k \in Jobs \ {j} : store'[k] = store[k] /\ (k \in unsaved' <=> k \in unsaved)
      /\ \/ store'[j] = r /\ j \notin unsaved'
         \/ store'[j] = store[j] /\ j \in unsaved'
  BY <1>6, <1>7, SaveFields
<1>9. (j \in astray' \/ Steady(j)') /\ StoreOk(j)'
  <2>1. /\ jobs[j].edit = e /\ e # 0 /\ handles[j] \in Slots
        /\ j \in astray \/ Runs(j, e, handles[j])
    BY <1>1, <1>3, <1>4 DEF InPhase
  <2>2. j \in astray \/ Runs(j, jobs[j].edit, handles[j])'
    BY <1>7, <2>1 DEF Runs, Live
  <2>3. jobs[j] # NoJob
    BY <2>1, Constants
  <2> QED BY <1>6, <1>7, <1>8, <2>1, <2>2, <2>3 DEF Steady, StoreOk
<1>10. caller' \in [Callers -> Handler] /\ caller'[c] = Idle /\ CallerInv(c)' /\ Phase(c, j)'
  BY <1>7, <1>9, ReturnIsRest
<1>11. TypeOK'
  BY <1>7, <1>8, <1>10 DEF CronInv, TypeOK
<1>12. \A i \in 1 .. MaxEdits : Owns(j, i)' => Owns(j, i)
  BY <1>2, <1>4, <1>6, <1>7, <1>8, <1>10, Constants, JobsAssumption DEF Owns
<1>13. JobInv(j)'
  BY <1>1, <1>2, <1>4, <1>6, <1>7, <1>8 DEF CronInv, JobInv
<1> QED BY <1>2, <1>7, <1>8, <1>10, <1>11, <1>12, <1>13, Constants, JobStep

LEMMA UpdateKeeps ==
    ASSUME CronInv, NEW c, Callers = {c}, NEW j \in Jobs, Update(c, j)
    PROVE  CronInv'
<1>1. /\ caller[c].pc = "idle" /\ caller[c].job = "none" /\ jobs[j] # NoJob
      /\ jobs[j] \in Record /\ edits < MaxEdits /\ edits' = edits + 1
  BY DEF Update, At, CronInv, CallerInv, TypeOK
<1>2. edits' \in 0 .. MaxEdits /\ edits \in Nat /\ edits' # 0
  BY <1>1, CronBounds DEF CronInv, TypeOK
<1>3. PICK q : q = [pc |-> "cloned", job |-> j, edit |-> edits + 1,
                    runs |-> jobs[j].runs, slot |-> 0]
  OBVIOUS
<1>4. q \in Handler /\ q.pc = "cloned" /\ q.job = j /\ q.edit = edits'
  BY <1>1, <1>2, <1>3 DEF Handler, Record
<1>5. /\ caller' \in [Callers -> Handler] /\ caller'[c] = q
      /\ UNCHANGED <<jobs, handles, loops, store, results, queue, exec, fires, crashes>>
      /\ UNCHANGED <<born, removed, unsaved, astray, spent>>
  BY <1>3, <1>4 DEF Update, memVars, dbVars, execVars, CronInv, TypeOK
<1>6. TypeOK'
  BY <1>2, <1>5 DEF CronInv, TypeOK
<1>7. CallerInv(c)'
  BY <1>2, <1>4, <1>5, JobsAssumption DEF CallerInv
<1>11. edits' \notin spent \cup {jobs[j].edit}
  <2>1. \A i \in 1 .. MaxEdits : i \in spent \/ Owns(j, i) => i <= edits
    BY DEF CronInv, EditInv
  <2> QED BY <1>1, <1>2, <2>1 DEF Owns
<1>8. \A i \in 1 .. MaxEdits : Owns(j, i)' => Owns(j, i) \/ i = edits'
  BY <1>4, <1>5 DEF Owns
<1>9. JobInv(j)'
  BY <1>1, <1>5 DEF CronInv, JobInv
<1>10. Phase(c, j)'
  <2>1. InPhase(j, Idle)
    BY <1>1, JobsAssumption DEF CronInv, Phase, Doing
  <2>2. (j \in astray \/ Steady(j)) /\ StoreOk(j)
    BY <2>1, Constants DEF InPhase
  <2>3. (j \in astray' \/ Steady(j)') /\ StoreOk(j)'
    BY <1>5, <2>2 DEF Steady, Runs, Live, StoreOk
  <2>4. Doing(c, j)' = q
    BY <1>4, <1>5 DEF Doing
  <2> QED BY <1>1, <1>4, <1>5, <1>11, <2>3, <2>4 DEF InPhase, Phase
<1> QED BY <1>1, <1>4, <1>5, <1>6, <1>7, <1>8, <1>9, <1>10, JobStep

LEMMA TriggerKeeps ==
    ASSUME CronInv, NEW c, Callers = {c}, NEW j \in Jobs, Trigger(c, j)
    PROVE  CronInv'
<1>1. /\ caller[c].pc = "idle" /\ caller[c].job = "none" /\ jobs[j] # NoJob
      /\ jobs[j] \in Record /\ jobs[j].edit \in 0 .. MaxEdits /\ jobs[j].edit # 0
      /\ fires' \in 0 .. MaxFires
  BY CronBounds DEF Trigger, At, CronInv, CallerInv, JobInv, TypeOK, Record
<1>2. PICK e \in 0 .. MaxEdits : e = jobs[j].edit
  BY <1>1
<1>3. PICK q : q = [Idle EXCEPT !.pc = "triggered", !.job = j, !.edit = e]
  OBVIOUS
<1>4. q \in Handler /\ q.pc = "triggered" /\ q.job = j /\ q.edit = e
  BY <1>3, CronBounds DEF Handler, Idle
<1>5. /\ caller' \in [Callers -> Handler] /\ caller'[c] = q
      /\ UNCHANGED <<jobs, handles, loops, store, results, queue, exec, edits, crashes>>
      /\ UNCHANGED <<born, removed, unsaved, astray, spent>>
  BY <1>2, <1>3, <1>4 DEF Trigger, memVars, dbVars, execVars, CronInv, TypeOK
<1>6. TypeOK'
  BY <1>1, <1>5 DEF CronInv, TypeOK
<1>7. CallerInv(c)'
  BY <1>1, <1>2, <1>4, <1>5, JobsAssumption DEF CallerInv
<1>8. \A i \in 1 .. MaxEdits : Owns(j, i)' => Owns(j, i)
  BY <1>2, <1>4, <1>5 DEF Owns
<1>9. JobInv(j)'
  BY <1>1, <1>5 DEF CronInv, JobInv
<1>10. Phase(c, j)'
  <2>1. InPhase(j, Idle)
    BY <1>1, JobsAssumption DEF CronInv, Phase, Doing
  <2>2. (j \in astray \/ Steady(j)) /\ StoreOk(j)
    BY <2>1, Constants DEF InPhase
  <2>3. (j \in astray' \/ Steady(j)') /\ StoreOk(j)'
    BY <1>5, <2>2 DEF Steady, Runs, Live, StoreOk
  <2>4. Doing(c, j)' = q
    BY <1>4, <1>5 DEF Doing
  <2> QED BY <1>1, <1>4, <1>5, <2>3, <2>4 DEF InPhase, Phase
<1> QED BY <1>1, <1>4, <1>5, <1>6, <1>7, <1>8, <1>9, <1>10, JobStep

LEMMA BumpedFields ==
    ASSUME CronInv, NEW j \in Jobs
    PROVE  Bumped(j) \in Record /\ Bumped(j).edit = jobs[j].edit /\ (Bumped(j) = NoJob <=> jobs[j] = NoJob)
<1>1. CASE jobs[j] = NoJob
  BY <1>1, Constants DEF Bumped
<1>2. CASE jobs[j] # NoJob
  <2>1. jobs[j] \in Record /\ jobs[j].edit # 0
    BY <1>2 DEF CronInv, TypeOK, JobInv
  <2>2. PICK r \in Record : r = jobs[j]
    BY <2>1
  <2>3. Bumped(j) = [r EXCEPT !.runs = @ + 1]
    BY <1>2, <2>2 DEF Bumped
  <2>4. Bumped(j) \in Record /\ Bumped(j).edit = r.edit
    BY <2>3 DEF Record
  <2> QED BY <1>2, <2>1, <2>2, <2>4, Constants
<1> QED BY <1>1, <1>2

\* One more run of the job, or its loop's next sleep: what is known stays.
LEMMA PhaseBumped ==
    ASSUME CronInv, NEW j \in Jobs, NEW q, InPhase(j, q),
           jobs'[j] = Bumped(j), handles'[j] = handles[j], store'[j] = store[j],
           spent' = spent, unsaved' = unsaved, astray' = astray,
           j \in astray \/ \A e, s : Runs(j, e, s) => Runs(j, e, s)',
           Live(j)' \subseteq Live(j)
    PROVE  InPhase(j, q)'
<1>1. jobs'[j].edit = jobs[j].edit /\ (jobs'[j] = NoJob <=> jobs[j] = NoJob)
  BY BumpedFields
<1>2. j \in astray \/ (Steady(j) => Steady(j)')
  BY <1>1 DEF Steady
<1>3. StoreOk(j) => StoreOk(j)'
  BY <1>1 DEF StoreOk
<1>4. j \in astray \/ (Runs(j, q.edit, q.slot) => Runs(j, q.edit, q.slot)')
  OBVIOUS
<1> QED BY <1>1, <1>2, <1>3, <1>4 DEF InPhase

LEMMA TriggerBumpKeeps ==
    ASSUME CronInv, NEW c, Callers = {c}, TriggerBump(c)
    PROVE  CronInv'
<1>1. /\ caller[c].pc = "triggered" /\ caller[c] \in Handler /\ caller[c].edit # 0
  BY AtWork DEF TriggerBump, At, CronInv, CallerInv
<1>2. PICK j \in Jobs : j = caller[c].job /\ j \in born /\ j \notin removed
                        /\ Doing(c, j) = caller[c]
  BY <1>1, AtWork
<1>3. PICK q \in Handler : q = caller[c] /\ InPhase(j, q)
  BY <1>1, <1>2 DEF CronInv, Phase
<1>4. /\ jobs' \in [Jobs -> Record] /\ jobs'[j] = Bumped(j)
      /\ \A k \in Jobs \ {j} : jobs'[k] = jobs[k]
      /\ jobs'[j].edit = jobs[j].edit /\ (jobs'[j] = NoJob <=> jobs[j] = NoJob)
  BY <1>2, BumpedFields DEF TriggerBump, CronInv, TypeOK
<1>5. /\ caller' \in [Callers -> Handler] /\ caller'[c].pc = "bumped"
      /\ caller'[c].job = j /\ caller'[c].edit = caller[c].edit
      /\ UNCHANGED <<handles, loops, store, results, queue, exec, edits, fires, crashes>>
      /\ UNCHANGED <<born, removed, unsaved, astray, spent>>
  <2>1. Goto(c, "bumped")
    BY DEF TriggerBump
  <2> QED BY <1>2, <2>1, GotoMoves DEF TriggerBump, dbVars, execVars, ghosts
<1>6. TypeOK'
  BY <1>4, <1>5 DEF CronInv, TypeOK
<1>7. CallerInv(c)'
  BY <1>1, <1>5, JobsAssumption DEF CallerInv
<1>8. \A i \in 1 .. MaxEdits : Owns(j, i)' => Owns(j, i)
  BY <1>2, <1>4, <1>5 DEF Owns
<1>9. JobInv(j)'
  BY <1>2, <1>4, <1>5 DEF CronInv, JobInv
<1>10. Phase(c, j)'
  <2>1. Live(j)' \subseteq Live(j) /\ \A e, s : Runs(j, e, s) => Runs(j, e, s)'
    BY <1>5 DEF Runs, Live
  <2>2. InPhase(j, q)'
    BY <1>3, <1>4, <1>5, <2>1, PhaseBumped
  <2>3. PICK p : p = caller'[c]
    OBVIOUS
  <2>4. InPhase(j, p)'
    BY <1>1, <1>3, <1>5, <2>2, <2>3 DEF InPhase
  <2> QED BY <1>5, <2>3, <2>4 DEF InPhase, Phase, Doing
<1> QED BY <1>2, <1>4, <1>5, <1>6, <1>7, <1>8, <1>9, <1>10, JobStep

LEMMA TriggerSendKeeps ==
    ASSUME CronInv, NEW c, Callers = {c}, TriggerSend(c)
    PROVE  CronInv'
<1>1. /\ caller[c].pc = "bumped" /\ caller[c] \in Handler /\ caller[c].edit # 0
  BY AtWork DEF TriggerSend, At, CronInv, CallerInv
<1>2. PICK j \in Jobs : j = caller[c].job /\ j \in born /\ j \notin removed
                        /\ Doing(c, j) = caller[c]
  BY <1>1, AtWork
<1>3. InPhase(j, caller[c])
  BY <1>2 DEF CronInv, Phase
<1>4. PICK e \in 1 .. MaxEdits : e = caller[c].edit
  BY <1>1, CronBounds DEF Handler
<1>5. /\ SaveRun(j) /\ Return(c) /\ Enqueue(j, e)
      /\ UNCHANGED <<jobs, handles, loops, results, exec, edits, fires, crashes>>
      /\ UNCHANGED <<born, removed, astray, spent>>
  BY <1>2, <1>4 DEF TriggerSend, memVars
<1>6. /\ store' \in [Jobs -> Record] /\ unsaved' \subseteq Jobs
      /\ \A k \in Jobs \ {j} : store'[k] = store[k] /\ (k \in unsaved' <=> k \in unsaved)
      /\ \/ store'[j] = store[j] /\ (j \in unsaved' <=> j \in unsaved)
         \/ jobs[j] # NoJob /\ store'[j] = jobs[j] /\ j \notin unsaved'
         \/ jobs[j] # NoJob /\ store'[j] = store[j] /\ j \in unsaved'
  BY <1>5, SaveRunFields
<1>7. (j \in astray' \/ Steady(j)') /\ StoreOk(j)'
  <2>1. (j \in astray \/ Steady(j)) /\ StoreOk(j)
    BY <1>1, <1>3 DEF InPhase
  <2>2. j \in astray' \/ Steady(j)'
    BY <1>5, <2>1 DEF Steady, Runs, Live
  <2> QED BY <1>5, <1>6, <2>1, <2>2 DEF StoreOk
<1>8. caller' \in [Callers -> Handler] /\ caller'[c] = Idle /\ CallerInv(c)' /\ Phase(c, j)'
  BY <1>5, <1>7, ReturnIsRest
<1>9. queue' \in Seq(Reminder) /\ Len(queue') <= Capacity
  BY <1>5, EnqueueFields
<1>10. TypeOK'
  BY <1>5, <1>6, <1>8, <1>9 DEF CronInv, TypeOK
<1>11. \A i \in 1 .. MaxEdits : Owns(j, i)' => Owns(j, i)
  BY <1>5, <1>6, <1>8, Constants, JobsAssumption DEF Owns
<1>12. JobInv(j)'
  BY <1>2, <1>5, <1>6, <1>8 DEF CronInv, JobInv
<1> QED BY <1>2, <1>5, <1>6, <1>8, <1>10, <1>11, <1>12, Constants, JobStep

LEMMA ForgetKeeps ==
    ASSUME CronInv, NEW c, Callers = {c}, Forget(c)
    PROVE  CronInv'
<1>1. caller[c].pc = "stopped" /\ caller[c] \in Handler
  BY AtWork DEF Forget, At, CronInv, CallerInv
<1>2. PICK j \in Jobs : j = caller[c].job /\ j \in born /\ Doing(c, j) = caller[c]
  BY <1>1, AtWork
<1>3. (j \in astray \/ Live(j) = {})
  BY <1>1, <1>2 DEF CronInv, Phase, InPhase
<1>4. /\ jobs' \in [Jobs -> Record] /\ jobs'[j] = NoJob
      /\ \A k \in Jobs \ {j} : jobs'[k] = jobs[k]
  BY <1>2, Constants DEF Forget, CronInv, TypeOK
<1>5. /\ caller' \in [Callers -> Handler] /\ caller'[c].pc = "forgotten"
      /\ caller'[c].job = j /\ caller'[c].edit = caller[c].edit
      /\ UNCHANGED <<handles, loops, store, results, queue, exec, edits, fires, crashes>>
      /\ UNCHANGED <<born, removed, unsaved, astray, spent>>
  <2>1. Goto(c, "forgotten")
    BY DEF Forget
  <2> QED BY <1>2, <2>1, GotoMoves DEF Forget, dbVars, execVars, ghosts
<1>6. TypeOK'
  BY <1>4, <1>5 DEF CronInv, TypeOK
<1>7. CallerInv(c)'
  BY <1>5, JobsAssumption DEF CallerInv
<1>8. \A i \in 1 .. MaxEdits : Owns(j, i)' => Owns(j, i)
  BY <1>2, <1>4, <1>5, Constants DEF Owns
<1>9. JobInv(j)'
  BY <1>2, <1>4, <1>5 DEF CronInv, JobInv, Leaving
<1>10. Phase(c, j)'
  BY <1>3, <1>4, <1>5 DEF Phase, InPhase, Doing, Live
<1> QED BY <1>2, <1>4, <1>5, <1>6, <1>7, <1>8, <1>9, <1>10, JobStep

LEMMA DeleteJobKeeps ==
    ASSUME CronInv, NEW c, Callers = {c}, DeleteJob(c)
    PROVE  CronInv'
<1>1. caller[c].pc = "forgotten" /\ caller[c] \in Handler
  BY AtWork DEF DeleteJob, At, CronInv, CallerInv
<1>2. PICK j \in Jobs : j = caller[c].job /\ j \in born /\ Doing(c, j) = caller[c]
  BY <1>1, AtWork
<1>3. (j \in astray \/ Live(j) = {}) /\ jobs[j] = NoJob
  BY <1>1, <1>2 DEF CronInv, Phase, InPhase
<1>4. /\ store' \in [Jobs -> Record] /\ unsaved' \subseteq Jobs
      /\ \A k \in Jobs \ {j} : store'[k] = store[k] /\ (k \in unsaved' <=> k \in unsaved)
      /\ \/ store'[j] = NoJob /\ j \notin unsaved'
         \/ store'[j] = store[j] /\ j \in unsaved'
  BY <1>2, SaveFields, Constants DEF DeleteJob
<1>5. /\ caller' \in [Callers -> Handler] /\ caller'[c].pc = "deleted"
      /\ caller'[c].job = j /\ caller'[c].edit = caller[c].edit
      /\ UNCHANGED <<jobs, handles, loops, results, queue, exec, edits, fires, crashes>>
      /\ UNCHANGED <<born, removed, astray, spent>>
  <2>1. Goto(c, "deleted")
    BY DEF DeleteJob
  <2> QED BY <1>2, <2>1, GotoMoves DEF DeleteJob, memVars, execVars
<1>6. TypeOK'
  BY <1>4, <1>5 DEF CronInv, TypeOK
<1>7. CallerInv(c)'
  BY <1>5, JobsAssumption DEF CallerInv
<1>8. \A i \in 1 .. MaxEdits : Owns(j, i)' => Owns(j, i)
  BY <1>2, <1>4, <1>5, Constants DEF Owns
<1>9. JobInv(j)'
  BY <1>2, <1>4, <1>5 DEF CronInv, JobInv, Leaving
<1>10. Phase(c, j)'
  BY <1>3, <1>4, <1>5 DEF Phase, InPhase, Doing, Live
<1> QED BY <1>2, <1>4, <1>5, <1>6, <1>7, <1>8, <1>9, <1>10, JobStep

LEMMA DeleteResultsKeeps ==
    ASSUME CronInv, NEW c, Callers = {c}, DeleteResults(c)
    PROVE  CronInv'
<1>1. caller[c].pc = "deleted" /\ caller[c] \in Handler
  BY AtWork DEF DeleteResults, At, CronInv, CallerInv
<1>2. PICK j \in Jobs : j = caller[c].job /\ j \in born /\ Doing(c, j) = caller[c]
  BY <1>1, AtWork
<1>3. (j \in astray \/ Live(j) = {}) /\ jobs[j] = NoJob /\ (j \in unsaved \/ store[j] = NoJob)
  BY <1>1, <1>2 DEF CronInv, Phase, InPhase
<1>4. /\ results' \in [Jobs -> Nat]
      /\ removed' = IF j \in unsaved THEN removed ELSE removed \cup {j}
      /\ Return(c)
      /\ UNCHANGED <<jobs, handles, loops, store, queue, exec, edits, fires, crashes>>
      /\ UNCHANGED <<born, unsaved, astray, spent>>
  <2>1. results' \in [Jobs -> Nat]
    <3>1. results \in [Jobs -> Nat]
      BY DEF CronInv, TypeOK
    <3>2. CASE results' = results
      BY <3>1, <3>2
    <3>3. CASE results' = [results EXCEPT ![j] = 0]
      BY <3>1, <3>3
    <3> QED BY <1>2, <3>2, <3>3 DEF DeleteResults
  <2> QED BY <1>2, <2>1 DEF DeleteResults, memVars, execVars
<1>5. (j \in astray' \/ Steady(j)') /\ StoreOk(j)'
  <2>1. j \in astray \/ Live(j)' = {}
    BY <1>3, <1>4 DEF Live
  <2> QED BY <1>3, <1>4, <2>1 DEF Steady, StoreOk
<1>6. caller' \in [Callers -> Handler] /\ caller'[c] = Idle /\ CallerInv(c)' /\ Phase(c, j)'
  BY <1>4, <1>5, ReturnIsRest
<1>7. TypeOK'
  BY <1>4, <1>6 DEF CronInv, TypeOK
<1>8. \A i \in 1 .. MaxEdits : Owns(j, i)' => Owns(j, i)
  BY <1>4, <1>6, Constants, JobsAssumption DEF Owns
<1>9. JobInv(j)'
  <2>1. Quiet(j)'
    BY <1>6, Constants, JobsAssumption DEF Quiet
  <2> QED BY <1>2, <1>3, <1>4, <2>1 DEF CronInv, JobInv, Quiet, Leaving
<1>10. \A k \in Jobs \ {j} : k \in removed' <=> k \in removed
  BY <1>4
<1> QED BY <1>2, <1>4, <1>6, <1>7, <1>8, <1>9, <1>10, Constants, JobStep

\* What a dropped handler leaves: the copies of its job, but for a statement
\* that was executed or not, and a job that may be astray.
LEMMA DropLeaves ==
    ASSUME CronInv, NEW c, Callers = {c}, NEW j \in Jobs, j = caller[c].job,
           Doing(c, j) = caller[c], DropCaller(c)
    PROVE  /\ store' \in [Jobs -> Record] /\ unsaved' \subseteq Jobs
           /\ results' \in [Jobs -> Nat] /\ astray \subseteq astray' /\ astray' \subseteq astray \cup {j}
           /\ \A k \in Jobs \ {j} : store'[k] = store[k] /\ (k \in unsaved' <=> k \in unsaved)
           /\ store'[j] \in {store[j], jobs[j], NoJob}
           /\ StoreOk(j)'
           /\ j \in astray' \/ Steady(j)
<1>1. InPhase(j, caller[c]) /\ caller[c] \in Handler
  BY DEF CronInv, Phase, TypeOK
<1>2. /\ store \in [Jobs -> Record] /\ unsaved \subseteq Jobs /\ results \in [Jobs -> Nat]
      /\ jobs' = jobs /\ spent' = spent
  BY DEF CronInv, TypeOK, DropCaller, memVars
<1>3. CASE At(c, "cloned") \/ At(c, "triggered")
  <2>1. UNCHANGED <<store, results, unsaved, astray>>
    BY <1>3 DEF DropCaller, At, dbVars
  <2>2. StoreOk(j) /\ (j \in astray \/ Steady(j))
    BY <1>1, <1>3 DEF InPhase, At
  <2> QED BY <1>2, <2>1, <2>2 DEF StoreOk
<1>4. CASE At(c, "spawned") \/ At(c, "stopped")
  <2>1. UNCHANGED <<store, results, unsaved>> /\ astray' = astray \cup {j}
    BY <1>4 DEF DropCaller, At, dbVars
  <2>2. StoreOk(j)
    BY <1>1, <1>4 DEF InPhase, At
  <2> QED BY <1>2, <2>1, <2>2 DEF StoreOk
<1>5. CASE At(c, "registered")
  <2>1. UNCHANGED <<store, results>> /\ astray' = astray \cup {j} /\ unsaved' = unsaved \cup {j}
    BY <1>5 DEF DropCaller, At, dbVars
  <2> QED BY <1>2, <2>1 DEF StoreOk
<1>6. CASE At(c, "forgotten")
  <2>1. Save(j, NoJob) /\ UNCHANGED <<results, astray>>
    BY <1>6 DEF DropCaller, At
  <2>2. jobs[j] = NoJob /\ (j \in astray \/ Live(j) = {})
    BY <1>1, <1>6 DEF InPhase, At
  <2>3. /\ store' \in [Jobs -> Record] /\ unsaved' \subseteq Jobs
        /\ \A k \in Jobs \ {j} : store'[k] = store[k] /\ (k \in unsaved' <=> k \in unsaved)
        /\ \/ store'[j] = NoJob /\ j \notin unsaved'
           \/ store'[j] = store[j] /\ j \in unsaved'
    BY <2>1, SaveFields, Constants
  <2> QED BY <1>2, <2>1, <2>2, <2>3 DEF StoreOk, Steady
<1>7. CASE At(c, "deleted")
  <2>1. /\ results' \in {results, [results EXCEPT ![j] = 0]}
        /\ UNCHANGED <<store, unsaved, astray>>
    BY <1>7 DEF DropCaller, At
  <2>2. /\ jobs[j] = NoJob /\ (j \in astray \/ Live(j) = {})
        /\ j \in unsaved \/ store[j] = NoJob
    BY <1>1, <1>7 DEF InPhase, At
  <2> QED BY <1>2, <2>1, <2>2 DEF StoreOk, Steady
<1>8. CASE At(c, "bumped")
  <2>1. SaveRun(j) /\ UNCHANGED <<results, astray>>
    BY <1>8 DEF DropCaller, At
  <2>2. StoreOk(j) /\ (j \in astray \/ Steady(j))
    BY <1>1, <1>8 DEF InPhase, At
  <2>3. /\ store' \in [Jobs -> Record] /\ unsaved' \subseteq Jobs
        /\ \A k \in Jobs \ {j} : store'[k] = store[k] /\ (k \in unsaved' <=> k \in unsaved)
        /\ \/ store'[j] = store[j] /\ (j \in unsaved' <=> j \in unsaved)
           \/ jobs[j] # NoJob /\ store'[j] = jobs[j] /\ j \notin unsaved'
           \/ jobs[j] # NoJob /\ store'[j] = store[j] /\ j \in unsaved'
    BY <2>1, SaveRunFields
  <2> QED BY <1>2, <2>1, <2>2, <2>3 DEF StoreOk
<1> QED BY <1>3, <1>4, <1>5, <1>6, <1>7, <1>8 DEF DropCaller

LEMMA DropCallerKeeps ==
    ASSUME CronInv, NEW c, Callers = {c}, DropCaller(c)
    PROVE  CronInv'
<1>1. caller[c].pc # "idle"
  BY DEF DropCaller, At
<1>2. PICK j \in Jobs : j = caller[c].job /\ j \in born /\ Doing(c, j) = caller[c]
  BY <1>1, AtWork
<1>3. /\ Return(c)
      /\ UNCHANGED <<jobs, handles, loops, queue, exec, edits, fires, crashes>>
      /\ UNCHANGED <<born, removed, spent>>
  BY DEF DropCaller, memVars, execVars
<1>4. /\ store' \in [Jobs -> Record] /\ unsaved' \subseteq Jobs
      /\ results' \in [Jobs -> Nat] /\ astray \subseteq astray' /\ astray' \subseteq astray \cup {j}
      /\ \A k \in Jobs \ {j} : store'[k] = store[k] /\ (k \in unsaved' <=> k \in unsaved)
      /\ store'[j] \in {store[j], jobs[j], NoJob}
      /\ StoreOk(j)'
      /\ j \in astray' \/ Steady(j)
  BY <1>2, DropLeaves
<1>5. j \in astray' \/ Steady(j)'
  BY <1>3, <1>4 DEF Steady, Runs, Live
<1>6. caller' \in [Callers -> Handler] /\ caller'[c] = Idle /\ CallerInv(c)' /\ Phase(c, j)'
  BY <1>3, <1>4, <1>5, ReturnIsRest
<1>7. TypeOK'
  BY <1>3, <1>4, <1>6 DEF CronInv, TypeOK
<1>8. \A i \in 1 .. MaxEdits : Owns(j, i)' => Owns(j, i)
  BY <1>3, <1>4, <1>6, Constants, JobsAssumption DEF Owns
<1>9. JobInv(j)'
  <2>1. Leaving(j)'
    BY <1>6, Constants, JobsAssumption DEF Leaving
  <2> QED BY <1>2, <1>3, <1>4, <2>1, Constants DEF CronInv, JobInv
<1>10. \A k \in Jobs \ {j} : k \in astray' <=> k \in astray
  BY <1>4
<1> QED BY <1>2, <1>3, <1>4, <1>6, <1>7, <1>8, <1>9, <1>10, Constants, JobStep

-----------------------------------------------------------------------------
(***************************************************************************)
(* Loops are spawned and aborted                                           *)
(***************************************************************************)
LEMMA AbortedShape ==
    ASSUME CronInv, NEW j \in Jobs, NEW l, l = Aborted(j)
    PROVE  /\ l \in [Slots -> Loop]
           /\ \A s \in Slots : /\ l[s].edit = loops[j][s].edit /\ l[s].pc = loops[j][s].pc
                               /\ Live(j) \subseteq {handles[j]} => l[s].pc = "none" \/ l[s].aborted
<1>1. PICK m \in [Slots -> Loop] : m = loops[j]
  BY DEF CronInv, TypeOK
<1>2. Live(j) \subseteq {handles[j]} =>
        \A s \in Slots : m[s].pc # "none" /\ ~m[s].aborted => s = handles[j]
  BY <1>1 DEF Live
<1>3. CASE handles[j] = 0
  BY <1>1, <1>2, <1>3, Constants DEF Aborted
<1>4. CASE handles[j] # 0
  <2>1. PICK i \in Slots : i = handles[j]
    BY <1>4 DEF CronInv, TypeOK
  <2>2. PICK p \in Loop : p = m[i]
    BY <1>1
  <2>3. PICK b \in BOOLEAN : b = (p.aborted \/ p.pc # "none")
    OBVIOUS
  <2>4. PICK n : n = [p EXCEPT !.aborted = b]
    OBVIOUS
  <2>5. n \in Loop /\ n.edit = p.edit /\ n.pc = p.pc /\ n.aborted = b
    BY <2>3, <2>4 DEF Loop
  <2>6. l = [m EXCEPT ![i] = n]
    BY <1>1, <1>4, <2>1, <2>2, <2>3, <2>4 DEF Aborted
  <2> QED BY <1>1, <1>2, <2>1, <2>2, <2>3, <2>5, <2>6
<1> QED BY <1>3, <1>4

\* The only loop that is alive is the one just spawned.
LEMMA SpawnedRuns ==
    ASSUME NEW j \in Jobs, NEW s \in Slots, NEW e \in 0 .. MaxEdits, e \notin spent',
           loops'[j][s] = Sleeping(e),
           \A r \in Slots \ {s} : loops'[j][r].pc = "none" \/ loops'[j][r].aborted
    PROVE  Runs(j, e, s)'
<1>1. Live(j)' = {s}
  BY Constants DEF Live
<1> QED BY <1>1, Constants DEF Runs

LEMMA AddKeeps ==
    ASSUME CronInv, NEW c, Callers = {c}, NEW j \in Jobs, Add(c, j)
    PROVE  CronInv'
<1>1. /\ caller[c].pc = "idle" /\ caller[c].job = "none" /\ j \notin born
      /\ edits < MaxEdits /\ edits' = edits + 1
  BY DEF Add, At, CronInv, CallerInv
<1>2. /\ edits' \in 0 .. MaxEdits /\ edits' # 0 /\ edits' \notin spent
  BY <1>1, CronBounds DEF CronInv, TypeOK, EditInv
<1>3. /\ jobs[j] = NoJob /\ store[j] = NoJob /\ handles[j] = 0 /\ Quiet(j) /\ j \notin removed
      /\ \A s \in Slots : loops[j][s].pc = "none"
  BY <1>1 DEF CronInv, JobInv
<1>4. PICK s \in Slots : s = FreeSlot(j)
  <2>1. 1 \in FreeSlots(j) /\ FreeSlots(j) \subseteq Slots
    BY <1>3, Constants DEF FreeSlots, Quiet
  <2> QED BY <2>1 DEF FreeSlot
<1>5. PICK e \in 0 .. MaxEdits : e = edits'
  BY <1>2
<1>6. PICK q : q = [pc |-> "spawned", job |-> j, edit |-> e, runs |-> 0, slot |-> s]
  OBVIOUS
<1>7. q \in Handler /\ q.pc = "spawned" /\ q.job = j /\ q.edit = e /\ q.slot = s
  BY <1>6 DEF Handler
<1>8. /\ caller' = [caller EXCEPT ![c] = q]
      /\ loops' = [loops EXCEPT ![j][s] = Sleeping(e)]
      /\ born' = born \cup {j}
      /\ UNCHANGED <<jobs, handles, store, results, queue, exec, fires, crashes>>
      /\ UNCHANGED <<removed, unsaved, astray, spent>>
  BY <1>1, <1>4, <1>5, <1>6 DEF Add, dbVars, execVars
<1>9. /\ caller' \in [Callers -> Handler] /\ caller'[c] = q
      /\ loops' \in [Jobs -> [Slots -> Loop]] /\ loops'[j][s] = Sleeping(e)
      /\ \A r \in Slots \ {s} : loops'[j][r] = loops[j][r]
      /\ \A k \in Jobs \ {j} : loops'[k] = loops[k]
  BY <1>7, <1>8, Constants DEF CronInv, TypeOK
<1>10. TypeOK'
  BY <1>2, <1>8, <1>9 DEF CronInv, TypeOK
<1>11. CallerInv(c)'
  BY <1>2, <1>5, <1>7, <1>9, JobsAssumption DEF CallerInv
<1>12. \A i \in 1 .. MaxEdits : Owns(j, i)' => Owns(j, i) \/ i = edits'
  BY <1>5, <1>7, <1>8, <1>9, Constants DEF Owns
<1>13. JobInv(j)'
  BY <1>3, <1>8 DEF CronInv, JobInv
<1>14. Phase(c, j)'
  <2>1. Runs(j, e, s)'
    BY <1>2, <1>3, <1>5, <1>8, <1>9, SpawnedRuns
  <2>2. Doing(c, j)' = q
    BY <1>7, <1>9 DEF Doing
  <2>3. StoreOk(j)'
    BY <1>3, <1>8 DEF StoreOk
  <2>4. InPhase(j, q)'
    BY <1>7, <2>1, <2>3 DEF InPhase
  <2> QED BY <2>2, <2>4 DEF InPhase, Phase
<1>15. \A i \in Slots : loops'[j][i].pc # "none" => loops'[j][i].edit # 0
  BY <1>2, <1>3, <1>5, <1>9, Constants
<1>16. \A k \in Jobs \ {j} : k \in born' <=> k \in born
  BY <1>8
<1> QED BY <1>1, <1>7, <1>8, <1>9, <1>10, <1>11, <1>12, <1>13, <1>14, <1>15, <1>16, JobStep

LEMMA ReplaceKeeps ==
    ASSUME CronInv, NEW c, Callers = {c}, Replace(c)
    PROVE  CronInv'
<1>1. /\ caller[c].pc = "cloned" /\ caller[c] \in Handler /\ caller[c].edit # 0
  BY AtWork DEF Replace, At, CronInv, CallerInv
<1>2. PICK j \in Jobs : j = caller[c].job /\ j \in born /\ j \notin removed
                        /\ Doing(c, j) = caller[c]
  BY <1>1, AtWork
<1>3. /\ j \in astray \/ (Steady(j) /\ caller[c].edit \notin spent)
      /\ jobs[j] # NoJob /\ StoreOk(j)
  <2>1. InPhase(j, caller[c])
    BY <1>2 DEF CronInv, Phase
  <2> QED BY <1>1, <2>1 DEF InPhase
<1>4. PICK s \in Slots : s = FreeSlot(j) /\ loops[j][s].pc = "none"
  <2>1. FreeSlots(j) # {}
    BY <1>2 DEF Replace
  <2> QED BY <2>1 DEF FreeSlots, FreeSlot
<1>5. PICK e \in 0 .. MaxEdits : e = caller[c].edit
  BY <1>1 DEF Handler
<1>6. PICK l : l = Aborted(j)
  OBVIOUS
<1>7. /\ l \in [Slots -> Loop]
      /\ \A r \in Slots : /\ l[r].edit = loops[j][r].edit /\ l[r].pc = loops[j][r].pc
                          /\ j \in astray \/ l[r].pc = "none" \/ l[r].aborted
  BY <1>3, <1>6, AbortedShape DEF Steady, Runs
<1>8. PICK m : m = [l EXCEPT ![s] = Sleeping(e)]
  OBVIOUS
<1>9. /\ m \in [Slots -> Loop] /\ m[s] = Sleeping(e)
      /\ \A r \in Slots \ {s} : m[r] = l[r]
  BY <1>7, <1>8, Constants
<1>10. /\ loops' = [loops EXCEPT ![j] = m] /\ handles' = [handles EXCEPT ![j] = 0]
       /\ caller' = [caller EXCEPT ![c].pc = "spawned", ![c].slot = s]
       /\ UNCHANGED <<jobs, store, results, queue, exec, edits, fires, crashes>>
       /\ UNCHANGED <<born, removed, unsaved, astray, spent>>
  BY <1>2, <1>4, <1>5, <1>6, <1>8 DEF Replace, dbVars, execVars, ghosts
<1>11. /\ loops' \in [Jobs -> [Slots -> Loop]] /\ loops'[j] = m
       /\ handles' \in [Jobs -> Slots \cup {0}]
       /\ \A k \in Jobs \ {j} : loops'[k] = loops[k] /\ handles'[k] = handles[k]
  BY <1>9, <1>10 DEF CronInv, TypeOK
<1>12. /\ caller' \in [Callers -> Handler] /\ caller'[c].pc = "spawned" /\ caller'[c].slot = s
       /\ caller'[c].job = j /\ caller'[c].edit = e
  <2>1. PICK p \in Handler : p = caller[c]
    BY <1>1
  <2>2. PICK p1 : p1 = [p EXCEPT !.pc = "spawned"]
    OBVIOUS
  <2>3. p1 \in Handler /\ p1.pc = "spawned" /\ p1.job = p.job /\ p1.edit = p.edit
    BY <2>2 DEF Handler
  <2>4. PICK p2 : p2 = [p1 EXCEPT !.slot = s]
    OBVIOUS
  <2>5. p2 \in Handler /\ p2.pc = "spawned" /\ p2.job = p.job /\ p2.edit = p.edit /\ p2.slot = s
    BY <2>3, <2>4 DEF Handler
  <2>6. caller \in [Callers -> Handler] /\ caller' = [caller EXCEPT ![c] = p2]
    BY <1>10, <2>1, <2>2, <2>4 DEF CronInv, TypeOK
  <2> QED BY <1>2, <1>5, <2>1, <2>5, <2>6
<1>13. TypeOK'
  BY <1>10, <1>11, <1>12 DEF CronInv, TypeOK
<1>14. CallerInv(c)'
  BY <1>1, <1>5, <1>12, JobsAssumption DEF CallerInv
<1>15. \A i \in 1 .. MaxEdits : Owns(j, i)' => Owns(j, i)
  <2>1. Owns(j, e)
    BY <1>2, <1>5 DEF Owns
  <2>2. \A r \in Slots : Owns(j, loops'[j][r].edit)
    <3>1. \A r \in Slots : loops'[j][r].edit \in {e, loops[j][r].edit}
      BY <1>7, <1>9, <1>11, Constants
    <3> QED BY <2>1, <3>1 DEF Owns
  <2>3. Owns(j, jobs'[j].edit) /\ Owns(j, store'[j].edit)
    BY <1>10 DEF Owns
  <2> QED BY <1>12, <2>1, <2>2, <2>3, OwnsSame
<1>16. JobInv(j)'
  BY <1>2, <1>10 DEF CronInv, JobInv
<1>17. Phase(c, j)'
  <2>1. j \in astray \/ Runs(j, e, s)'
    BY <1>3, <1>5, <1>7, <1>9, <1>10, <1>11, SpawnedRuns
  <2>2. PICK q : q = caller'[c]
    OBVIOUS
  <2>4. StoreOk(j)'
    BY <1>3, <1>10 DEF StoreOk
  <2>3. InPhase(j, q)'
    BY <1>10, <1>12, <2>1, <2>2, <2>4 DEF InPhase
  <2> QED BY <1>12, <2>2, <2>3 DEF InPhase, Phase, Doing
<1>18. \A r \in Slots : loops'[j][r].pc # "none" => loops'[j][r].edit # 0
  BY <1>1, <1>5, <1>7, <1>9, <1>11, Constants DEF CronInv, EditInv
<1> QED BY <1>2, <1>10, <1>11, <1>12, <1>13, <1>14, <1>15, <1>16, <1>17, <1>18, JobStep

LEMMA ReplaceFailsKeeps ==
    ASSUME CronInv, NEW c, Callers = {c}, ReplaceFails(c)
    PROVE  CronInv'
<1>1. /\ caller[c].pc = "cloned" /\ caller[c] \in Handler /\ caller[c].edit # 0
  BY AtWork DEF ReplaceFails, At, CronInv, CallerInv
<1>2. PICK j \in Jobs : j = caller[c].job /\ j \in born /\ j \notin removed
                        /\ Doing(c, j) = caller[c]
  BY <1>1, AtWork
<1>3. StoreOk(j)
  <2>1. InPhase(j, caller[c])
    BY <1>2 DEF CronInv, Phase
  <2> QED BY <1>1, <2>1 DEF InPhase
<1>4. PICK e \in 1 .. MaxEdits : e = caller[c].edit
  BY <1>1, CronBounds DEF Handler
<1>5. PICK l : l = Aborted(j)
  OBVIOUS
<1>6. /\ l \in [Slots -> Loop]
      /\ \A r \in Slots : l[r].edit = loops[j][r].edit /\ l[r].pc = loops[j][r].pc
  BY <1>5, AbortedShape
<1>7. /\ loops' = [loops EXCEPT ![j] = l] /\ handles' = [handles EXCEPT ![j] = 0]
      /\ astray' = astray \cup {j} /\ spent' = spent \cup {e} /\ Return(c)
      /\ UNCHANGED <<jobs, store, results, queue, exec, edits, fires, crashes>>
      /\ UNCHANGED <<born, removed, unsaved>>
  BY <1>2, <1>4, <1>5 DEF ReplaceFails, dbVars, execVars
<1>8. /\ loops' \in [Jobs -> [Slots -> Loop]] /\ loops'[j] = l
      /\ handles' \in [Jobs -> Slots \cup {0}]
      /\ \A k \in Jobs \ {j} : loops'[k] = loops[k] /\ handles'[k] = handles[k]
  BY <1>6, <1>7 DEF CronInv, TypeOK
<1>9. j \in astray' /\ StoreOk(j)'
  BY <1>3, <1>7 DEF StoreOk
<1>10. caller' \in [Callers -> Handler] /\ caller'[c] = Idle /\ CallerInv(c)' /\ Phase(c, j)'
  BY <1>7, <1>9, ReturnIsRest
<1>11. TypeOK'
  BY <1>7, <1>8, <1>10 DEF CronInv, TypeOK
<1>12. \A i \in 1 .. MaxEdits : Owns(j, i)' => Owns(j, i)
  BY <1>6, <1>7, <1>8, <1>10, Constants, JobsAssumption DEF Owns
<1>13. JobInv(j)'
  BY <1>2, <1>7 DEF CronInv, JobInv
<1>14. \A i \in spent' : i \in spent \/ Owns(j, i)
  BY <1>2, <1>4, <1>7 DEF Owns
<1>15. \A r \in Slots : loops'[j][r].pc # "none" => loops'[j][r].edit # 0
  BY <1>6, <1>8 DEF CronInv, EditInv
<1>16. spent \subseteq spent' /\ \A k \in Jobs \ {j} : k \in astray' <=> k \in astray
  BY <1>7
<1> QED BY <1>2, <1>7, <1>8, <1>10, <1>11, <1>12, <1>13, <1>14, <1>15, <1>16, Constants, JobStep

LEMMA RemoveKeeps ==
    ASSUME CronInv, NEW c, Callers = {c}, NEW j \in Jobs, Remove(c, j)
    PROVE  CronInv'
<1>1. /\ caller[c].pc = "idle" /\ caller[c].job = "none" /\ j \in born
  BY DEF Remove, At, CronInv, CallerInv
<1>2. (j \in astray \/ Steady(j)) /\ StoreOk(j)
  <2>1. Doing(c, j) = Idle
    BY <1>1, JobsAssumption DEF Doing
  <2> QED BY <2>1, Constants DEF CronInv, Phase, InPhase
<1>3. PICK l : l = Aborted(j)
  OBVIOUS
<1>4. /\ l \in [Slots -> Loop]
      /\ \A r \in Slots : /\ l[r].edit = loops[j][r].edit /\ l[r].pc = loops[j][r].pc
                          /\ j \in astray \/ l[r].pc = "none" \/ l[r].aborted
  BY <1>1, <1>2, <1>3, AbortedShape DEF Steady, Runs
<1>5. PICK q : q = [Idle EXCEPT !.pc = "stopped", !.job = j]
  OBVIOUS
<1>6. q \in Handler /\ q.pc = "stopped" /\ q.job = j /\ q.edit = 0
  <2>1. PICK p : p = [Idle EXCEPT !.pc = "stopped"]
    OBVIOUS
  <2>2. p \in Handler /\ p.pc = "stopped" /\ p.edit = 0
    BY <2>1, Constants DEF Handler
  <2>3. q = [p EXCEPT !.job = j]
    BY <1>5, <2>1
  <2> QED BY <2>2, <2>3 DEF Handler
<1>7. /\ loops' = [loops EXCEPT ![j] = l] /\ handles' = [handles EXCEPT ![j] = 0]
      /\ caller' = [caller EXCEPT ![c] = q]
      /\ UNCHANGED <<jobs, store, results, queue, exec, edits, fires, crashes>>
      /\ UNCHANGED <<born, removed, unsaved, astray, spent>>
  BY <1>3, <1>5 DEF Remove, dbVars, execVars, ghosts
<1>8. /\ loops' \in [Jobs -> [Slots -> Loop]] /\ loops'[j] = l
      /\ handles' \in [Jobs -> Slots \cup {0}]
      /\ caller' \in [Callers -> Handler] /\ caller'[c] = q
      /\ \A k \in Jobs \ {j} : loops'[k] = loops[k] /\ handles'[k] = handles[k]
  BY <1>4, <1>6, <1>7 DEF CronInv, TypeOK
<1>9. TypeOK'
  BY <1>7, <1>8 DEF CronInv, TypeOK
<1>10. CallerInv(c)'
  BY <1>6, <1>8, JobsAssumption DEF CallerInv
<1>11. \A i \in 1 .. MaxEdits : Owns(j, i)' => Owns(j, i)
  BY <1>4, <1>6, <1>7, <1>8 DEF Owns
<1>12. JobInv(j)'
  BY <1>1, <1>6, <1>7, <1>8 DEF CronInv, JobInv, Leaving
<1>13. Phase(c, j)'
  <2>1. (j \in astray \/ Live(j)' = {}) /\ StoreOk(j)'
    BY <1>2, <1>4, <1>7, <1>8 DEF Live, StoreOk
  <2>2. Doing(c, j)' = q
    BY <1>6, <1>8 DEF Doing
  <2> QED BY <1>6, <1>7, <2>1, <2>2 DEF Phase, InPhase
<1>14. \A r \in Slots : loops'[j][r].pc # "none" => loops'[j][r].edit # 0
  BY <1>4, <1>8 DEF CronInv, EditInv
<1> QED BY <1>1, <1>6, <1>7, <1>8, <1>9, <1>10, <1>11, <1>12, <1>13, <1>14, JobStep

-----------------------------------------------------------------------------
(***************************************************************************)
(* Steps of the trigger loops                                              *)
(***************************************************************************)
\* The loop that triggers the job cannot wake before the job is registered, so
\* the job it finds is there, unless it was left astray.
LEMMA AwakeFindsJob ==
    ASSUME CronInv, NEW c, Callers = {c}, NEW j \in Jobs, NEW s \in Slots,
           loops[j][s].pc = "sleeping", ~loops[j][s].aborted, ~Spawning(j, s)
    PROVE  /\ s \in Live(j) /\ j \in born
           /\ jobs[j] # NoJob => jobs[j].edit # 0 /\ j \notin removed
           /\ jobs[j] = NoJob => j \in astray
<1>1. s \in Live(j)
  BY DEF Live
<1>2. PICK q : q = Doing(c, j)
  OBVIOUS
<1>3. InPhase(j, q) /\ ((q = caller[c] /\ caller[c].job = j) \/ q = Idle)
  BY <1>2 DEF Doing, CronInv, Phase
<1>4. j \in astray \/ jobs[j] # NoJob
  <2>1. CASE q.pc \in {"idle", "cloned", "triggered", "bumped"}
    BY <1>1, <1>3, <2>1 DEF InPhase, Steady
  <2>2. CASE q.pc = "spawned"
    <3>1. q = caller[c] /\ caller[c].job = j
      BY <1>3, <2>2, Constants
    <3>2. j \in astray \/ s = q.slot
      <4>1. j \in astray \/ Runs(j, q.edit, q.slot)
        BY <1>3, <2>2 DEF InPhase
      <4> QED BY <1>1, <4>1 DEF Runs
    <3> QED BY <2>2, <3>1, <3>2 DEF Spawning, At
  <2>3. CASE q.pc \in {"registered", "scheduled"}
    <3>1. q = caller[c]
      BY <1>3, <2>3, Constants
    <3>2. jobs[j].edit # 0
      BY <1>3, <2>3, <3>1 DEF InPhase, CronInv, CallerInv
    <3> QED BY <3>2, Constants
  <2>4. CASE q.pc \in {"stopped", "forgotten", "deleted"}
    BY <1>1, <1>3, <2>4 DEF InPhase
  <2>5. q \in Handler
    BY <1>3, Constants DEF CronInv, TypeOK
  <2> QED BY <2>1, <2>2, <2>3, <2>4, <2>5 DEF Handler
<1>5. j \in born
  BY DEF CronInv, JobInv
<1> QED BY <1>1, <1>4, <1>5 DEF CronInv, JobInv

\* A loop that ends, aborted or with its edit spent, or that sleeps again
LEMMA LoopFields ==
    ASSUME CronInv, NEW j \in Jobs, NEW s \in Slots, NEW n \in Loop,
           loops[j][s].pc # "none", loops' = [loops EXCEPT ![j][s] = n],
           \/ n = NoLoop /\ (loops[j][s].aborted \/ j \in astray) /\ spent' = spent
           \/ /\ n.pc # "none" /\ n.edit = loops[j][s].edit
              /\ n.aborted = loops[j][s].aborted /\ spent' = spent
           \/ /\ n = NoLoop /\ ~loops[j][s].aborted
              /\ spent' = spent \cup {loops[j][s].edit}
    PROVE  /\ loops' \in [Jobs -> [Slots -> Loop]]
           /\ \A k \in Jobs \ {j} : loops'[k] = loops[k]
           /\ \A r \in Slots : loops'[j][r].edit \in {0, loops[j][r].edit}
           /\ \A r \in Slots : loops'[j][r].pc # "none" => loops'[j][r].edit # 0
           /\ spent' \subseteq 1 .. MaxEdits /\ spent \subseteq spent'
           /\ \A e \in spent' : e \in spent \/ \E r \in Live(j) : e = loops[j][r].edit
           /\ Live(j)' \subseteq Live(j)
           /\ j \in astray \/ \A e, r : Runs(j, e, r) => Runs(j, e, r)'
<1>1. PICK p \in Loop : p = loops[j][s] /\ p.edit \in 1 .. MaxEdits
  <2>1. loops[j][s] \in Loop /\ loops[j][s].edit # 0
    BY DEF CronInv, TypeOK, EditInv
  <2> QED BY <2>1, CronBounds DEF Loop
<1>2. /\ loops' \in [Jobs -> [Slots -> Loop]] /\ loops'[j][s] = n
      /\ \A r \in Slots \ {s} : loops'[j][r] = loops[j][r]
      /\ \A k \in Jobs \ {j} : loops'[k] = loops[k]
  BY DEF CronInv, TypeOK
<1>3. \A r \in Slots : loops'[j][r].edit \in {0, loops[j][r].edit}
  BY <1>2, Constants
<1>4. \A r \in Slots : loops'[j][r].pc # "none" => loops'[j][r].edit # 0
  BY <1>1, <1>2, Constants DEF CronInv, EditInv
<1>5. spent' \subseteq 1 .. MaxEdits /\ spent \subseteq spent'
  BY <1>1 DEF CronInv, TypeOK
<1>6. \A e \in spent' : e \in spent \/ \E r \in Live(j) : e = loops[j][r].edit
  BY DEF Live
<1>7. \/ Live(j)' = Live(j) /\ spent' = spent
      \/ Live(j)' = Live(j) \ {s} /\ s \in Live(j) /\ spent' = spent \cup {p.edit}
      \/ Live(j)' = Live(j) \ {s} /\ j \in astray
  <2>1. \A r \in Slots \ {s} : r \in Live(j)' <=> r \in Live(j)
    BY <1>2 DEF Live
  <2>2. s \in Live(j) <=> ~p.aborted
    BY <1>1 DEF Live
  <2>3. s \in Live(j)' <=> n.pc # "none" /\ ~n.aborted
    BY <1>2 DEF Live
  <2>4. Live(j) \subseteq Slots /\ Live(j)' \subseteq Slots
    BY DEF Live
  <2>5. (s \in Live(j) <=> s \in Live(j)') => Live(j)' = Live(j)
    BY <2>1, <2>4
  <2>6. s \notin Live(j)' => Live(j)' = Live(j) \ {s}
    BY <2>1, <2>4
  <2>7. n = NoLoop => s \notin Live(j)'
    BY <2>3, Constants
  <2> QED BY <1>1, <2>2, <2>3, <2>5, <2>6, <2>7
<1>8. ASSUME NEW e, NEW r, j \notin astray, Runs(j, e, r) PROVE Runs(j, e, r)'
  <2>1. \A i \in Live(j)' : loops'[j][i].edit = e
    <3>1. \A i \in Live(j)' : loops'[j][i].edit = loops[j][i].edit
      BY <1>2, Constants DEF Live
    <3> QED BY <1>7, <1>8, <3>1 DEF Runs
  <2>2. Live(j)' = IF e \in spent' THEN {} ELSE {r}
    <3>1. CASE Live(j)' = Live(j) /\ spent' = spent
      BY <1>8, <3>1 DEF Runs
    <3>2. CASE Live(j)' = Live(j) \ {s} /\ s \in Live(j) /\ spent' = spent \cup {p.edit}
      <4>1. Live(j) = {r} /\ s = r /\ p.edit = e
        BY <1>1, <1>8, <3>2 DEF Runs
      <4> QED BY <3>2, <4>1
    <3> QED BY <1>7, <1>8, <3>1, <3>2
  <2> QED BY <2>1, <2>2 DEF Runs
<1> QED BY <1>2, <1>3, <1>4, <1>5, <1>6, <1>7, <1>8

\* What a loop does after it has triggered the job, or when it is dropped
LEMMA LoopMovesOn ==
    ASSUME CronInv, NEW c, Callers = {c}, NEW j \in Jobs, NEW s \in Slots, NEW n \in Loop,
           loops[j][s].pc # "none", loops' = [loops EXCEPT ![j][s] = n],
           \/ n = NoLoop /\ (loops[j][s].aborted \/ j \in astray) /\ spent' = spent
           \/ /\ n.pc # "none" /\ n.edit = loops[j][s].edit
              /\ n.aborted = loops[j][s].aborted /\ spent' = spent
           \/ /\ n = NoLoop /\ ~loops[j][s].aborted
              /\ spent' = spent \cup {loops[j][s].edit},
           SaveRun(j) \/ UNCHANGED <<store, unsaved>>,
           queue' \in Seq(Reminder) /\ Len(queue') <= Capacity,
           UNCHANGED <<jobs, handles, results, caller, exec, edits, fires, crashes, born, removed>>,
           astray' = astray
    PROVE  CronInv'
<1>1. /\ loops' \in [Jobs -> [Slots -> Loop]]
      /\ \A k \in Jobs \ {j} : loops'[k] = loops[k]
      /\ \A r \in Slots : loops'[j][r].edit \in {0, loops[j][r].edit}
      /\ \A r \in Slots : loops'[j][r].pc # "none" => loops'[j][r].edit # 0
      /\ spent' \subseteq 1 .. MaxEdits /\ spent \subseteq spent'
      /\ \A e \in spent' : e \in spent \/ \E r \in Live(j) : e = loops[j][r].edit
      /\ Live(j)' \subseteq Live(j)
      /\ j \in astray \/ \A e, r : Runs(j, e, r) => Runs(j, e, r)'
  BY LoopFields
<1>2. /\ store' \in [Jobs -> Record] /\ unsaved' \subseteq Jobs
      /\ \A k \in Jobs \ {j} : store'[k] = store[k] /\ (k \in unsaved' <=> k \in unsaved)
      /\ \/ store'[j] = store[j] /\ (j \in unsaved' <=> j \in unsaved)
         \/ jobs[j] # NoJob /\ store'[j] = jobs[j] /\ j \notin unsaved'
         \/ jobs[j] # NoJob /\ store'[j] = store[j] /\ j \in unsaved'
  BY SaveRunFields DEF CronInv, TypeOK
<1>3. TypeOK'
  BY <1>1, <1>2 DEF CronInv, TypeOK
<1>4. CallerInv(c)'
  BY DEF CronInv, CallerInv
<1>5. \A i \in 1 .. MaxEdits : Owns(j, i)' => Owns(j, i)
  BY <1>1, <1>2 DEF Owns
<1>6. \A e \in spent' : e \in spent \/ Owns(j, e)
  BY <1>1 DEF Owns, Live
<1>7. JobInv(j)'
  <2>1. j \in born
    BY DEF CronInv, JobInv
  <2>2. (Leaving(j)' <=> Leaving(j)) /\ jobs'[j] = jobs[j]
    BY DEF Leaving
  <2>3. store'[j].edit = 0 => store'[j] = NoJob
    BY <1>2 DEF CronInv, JobInv
  <2> QED BY <1>2, <2>1, <2>2, <2>3 DEF CronInv, JobInv
<1>8. Phase(c, j)'
  <2>1. PICK q : q = Doing(c, j)
    OBVIOUS
  <2>2. InPhase(j, q)
    BY <2>1 DEF CronInv, Phase
  <2>3. InPhase(j, q)'
    BY <1>1, <1>2, <2>2, PhaseSaved
  <2>4. Doing(c, j)' = q
    BY <2>1 DEF Doing
  <2> QED BY <2>3, <2>4 DEF Phase, InPhase
<1> QED BY <1>1, <1>2, <1>3, <1>4, <1>5, <1>6, <1>7, <1>8, JobStep

LEMMA LoopWakeBumps ==
    ASSUME CronInv, NEW c, Callers = {c}, NEW j \in Jobs, NEW s \in Slots, LoopWake(j, s), jobs[j] # NoJob
    PROVE  CronInv'
<1>1. /\ loops[j][s].pc = "sleeping" /\ ~loops[j][s].aborted
      /\ s \in Live(j) /\ j \in born /\ j \notin removed /\ jobs[j].edit # 0
  BY AwakeFindsJob DEF LoopWake
<1>2. PICK p \in Loop : p = loops[j][s]
  BY DEF CronInv, TypeOK
<1>3. PICK n : n = [p EXCEPT !.pc = "bumped"]
  OBVIOUS
<1>4. n \in Loop /\ n.pc = "bumped" /\ n.edit = p.edit /\ n.aborted = p.aborted
  BY <1>3 DEF Loop
<1>5. /\ loops' = [loops EXCEPT ![j][s] = n]
      /\ fires' \in 0 .. MaxFires
      /\ UNCHANGED <<handles, store, results, caller, queue, exec, edits, crashes>>
      /\ UNCHANGED <<born, removed, unsaved, astray, spent>>
  BY <1>1, <1>2, <1>3, CronBounds DEF LoopWake, dbVars, execVars, CronInv, TypeOK
<1>6. /\ loops' \in [Jobs -> [Slots -> Loop]] /\ loops'[j][s] = n
      /\ \A r \in Slots \ {s} : loops'[j][r] = loops[j][r]
      /\ \A k \in Jobs \ {j} : loops'[k] = loops[k]
  BY <1>4, <1>5 DEF CronInv, TypeOK
<1>7. /\ jobs' \in [Jobs -> Record] /\ jobs'[j] # NoJob /\ jobs'[j].edit = jobs[j].edit
      /\ jobs'[j] = Bumped(j)
      /\ \A k \in Jobs \ {j} : jobs'[k] = jobs[k]
  <2>1. jobs' = [jobs EXCEPT ![j] = Bumped(j)]
    BY DEF LoopWake
  <2> QED BY <1>1, <2>1, BumpedFields DEF CronInv, TypeOK
<1>8. TypeOK'
  BY <1>5, <1>6, <1>7 DEF CronInv, TypeOK
<1>9. CallerInv(c)'
  BY <1>5 DEF CronInv, CallerInv
<1>10. \A r \in Slots : /\ loops'[j][r].edit = loops[j][r].edit
                        /\ loops'[j][r].aborted = loops[j][r].aborted
                        /\ loops'[j][r].pc = "none" <=> loops[j][r].pc = "none"
  BY <1>1, <1>2, <1>4, <1>6
<1>11. \A i \in 1 .. MaxEdits : Owns(j, i)' => Owns(j, i)
  BY <1>5, <1>7, <1>10 DEF Owns
<1>12. JobInv(j)'
  BY <1>1, <1>5, <1>7 DEF CronInv, JobInv
<1>13. Phase(c, j)'
  <2>1. Live(j)' = Live(j)
    BY <1>10 DEF Live
  <2>2. \A e, r : Runs(j, e, r) => Runs(j, e, r)'
    BY <1>5, <1>10, <2>1 DEF Runs, Live
  <2>3. PICK q : q = Doing(c, j)
    OBVIOUS
  <2>4. InPhase(j, q)
    BY <2>3 DEF CronInv, Phase
  <2>5. InPhase(j, q)'
    BY <1>1, <1>5, <1>7, <2>1, <2>2, <2>4, PhaseBumped
  <2>6. Doing(c, j)' = q
    BY <1>5, <2>3 DEF Doing
  <2> QED BY <2>5, <2>6 DEF Phase, InPhase
<1>14. \A r \in Slots : loops'[j][r].pc # "none" => loops'[j][r].edit # 0
  BY <1>10 DEF CronInv, EditInv
<1> QED BY <1>5, <1>6, <1>7, <1>8, <1>9, <1>11, <1>12, <1>13, <1>14, JobStep

\* The job is gone, and the loop ends.
LEMMA LoopWakeEnds ==
    ASSUME CronInv, NEW c, Callers = {c}, NEW j \in Jobs, NEW s \in Slots, LoopWake(j, s),
           jobs[j] = NoJob
    PROVE  CronInv'
<1>1. loops[j][s].pc # "none" /\ j \in astray
  BY AwakeFindsJob DEF LoopWake
<1>2. /\ loops' = [loops EXCEPT ![j][s] = NoLoop] /\ jobs' = jobs
      /\ UNCHANGED <<store, unsaved>> /\ spent' = spent
      /\ UNCHANGED <<jobs, handles, results, caller, exec, edits, fires, crashes, born, removed, astray>>
      /\ queue' \in Seq(Reminder) /\ Len(queue') <= Capacity
  BY DEF LoopWake, Bumped, dbVars, execVars, CronInv, TypeOK
<1> QED BY <1>1, <1>2, Constants, LoopMovesOn

LEMMA LoopWakeKeeps ==
    ASSUME CronInv, NEW c, Callers = {c}, NEW j \in Jobs, NEW s \in Slots, LoopWake(j, s)
    PROVE  CronInv'
BY LoopWakeBumps, LoopWakeEnds

LEMMA LoopSendKeeps ==
    ASSUME CronInv, NEW c, Callers = {c}, NEW j \in Jobs, NEW s \in Slots, LoopSend(j, s)
    PROVE  CronInv'
<1>1. /\ loops[j][s].pc = "bumped" /\ loops[j][s] \in Loop /\ loops[j][s].edit # 0
      /\ SaveRun(j) /\ Enqueue(j, loops[j][s].edit)
      /\ UNCHANGED <<jobs, handles, results, caller, exec, edits, fires, crashes, born, removed, astray>>
  BY DEF LoopSend, CronInv, TypeOK, EditInv
<1>2. PICK e \in 1 .. MaxEdits : e = loops[j][s].edit
  BY <1>1, CronBounds DEF Loop
<1>3. queue' \in Seq(Reminder) /\ Len(queue') <= Capacity
  BY <1>1, <1>2, EnqueueFields
<1>4. PICK p \in Loop : p = loops[j][s]
  BY <1>1
<1>5. PICK n : n = [p EXCEPT !.pc = "sleeping"]
  OBVIOUS
<1>6. n \in Loop /\ n.pc = "sleeping" /\ n.edit = p.edit /\ n.aborted = p.aborted
  BY <1>5 DEF Loop
<1>7. LoopGoesOn(j, s)
  BY DEF LoopSend
<1>8. CASE loops' = [loops EXCEPT ![j][s] = n] /\ spent' = spent
  BY <1>1, <1>3, <1>4, <1>6, <1>8, LoopMovesOn
<1>9. CASE /\ loops' = [loops EXCEPT ![j][s] = NoLoop]
           /\ \/ loops[j][s].aborted /\ spent' = spent
              \/ ~loops[j][s].aborted /\ spent' = spent \cup {loops[j][s].edit}
  BY <1>1, <1>3, <1>9, Constants, LoopMovesOn
<1> QED BY <1>4, <1>5, <1>7, <1>8, <1>9 DEF LoopGoesOn

LEMMA LoopDroppedKeeps ==
    ASSUME CronInv, NEW c, Callers = {c}, NEW j \in Jobs, NEW s \in Slots, LoopDropped(j, s)
    PROVE  CronInv'
<1>1. /\ loops[j][s].pc # "none" /\ loops[j][s].aborted /\ spent' = spent
      /\ loops' = [loops EXCEPT ![j][s] = NoLoop]
      /\ SaveRun(j) \/ UNCHANGED <<store, unsaved>>
      /\ UNCHANGED <<jobs, handles, results, caller, exec, edits, fires, crashes, born, removed, astray>>
      /\ queue' \in Seq(Reminder) /\ Len(queue') <= Capacity
  BY DEF LoopDropped, execVars, CronInv, TypeOK
<1> QED BY <1>1, Constants, LoopMovesOn

-----------------------------------------------------------------------------
(***************************************************************************)
(* The executor                                                            *)
(***************************************************************************)
LEMMA ExecTakeKeeps ==
    ASSUME CronInv, ExecTake PROVE CronInv'
<1>1. /\ UNCHANGED <<jobs, handles, loops, store, results, caller, edits, fires, crashes>>
      /\ UNCHANGED <<born, removed, unsaved, astray, spent>>
      /\ queue # <<>> /\ queue' = Tail(queue) /\ exec' \in {Head(queue), Nothing}
  BY DEF ExecTake, memVars, dbVars, ghosts
<1>2. /\ queue \in Seq(Reminder) /\ Len(queue) <= Capacity /\ Capacity \in Nat
  BY CapacityAssumption DEF CronInv, TypeOK
<1>3. /\ queue' \in Seq(Reminder) /\ Len(queue') <= Capacity /\ Head(queue) \in Reminder
  BY <1>1, <1>2
<1>4. TypeOK'
  BY <1>1, <1>3 DEF CronInv, TypeOK
<1> QED BY <1>1, <1>4, OtherStep

LEMMA ExecStoreKeeps ==
    ASSUME CronInv, ExecStore PROVE CronInv'
<1>1. /\ UNCHANGED <<jobs, handles, loops, store, caller, queue, edits, fires, crashes>>
      /\ UNCHANGED <<born, removed, unsaved, astray, spent>>
      /\ exec # Nothing /\ exec' = Nothing
      /\ results' = [results EXCEPT ![exec.job] = @ + 1]
  BY DEF ExecStore, memVars, ghosts
<1>2. PICK j \in Jobs : j = exec.job
  BY <1>1 DEF CronInv, TypeOK, Reminder
<1>3. results' \in [Jobs -> Nat]
  BY <1>1, <1>2 DEF CronInv, TypeOK
<1>4. TypeOK'
  BY <1>1, <1>3 DEF CronInv, TypeOK
<1> QED BY <1>1, <1>4, OtherStep

-----------------------------------------------------------------------------
(***************************************************************************)
(* Restart                                                                 *)
(***************************************************************************)
LEMMA CrashKeeps ==
    ASSUME CronInv, NEW c, Callers = {c}, Crash
    PROVE  CronInv'
<1>1. PICK ok \in BOOLEAN : jobs' = Restored(ok) /\ unsaved' = IF ok THEN {} ELSE Jobs
  BY DEF Crash
<1>2. /\ UNCHANGED <<store, results, edits, fires, born, removed, spent>>
      /\ crashes' \in 0 .. MaxCrashes
      /\ caller' = [d \in Callers |-> Idle] /\ queue' = <<>> /\ exec' = Nothing
  BY CronBounds DEF Crash, dbVars, CronInv, TypeOK
<1>3. \A j \in Jobs : /\ jobs'[j] \in Record
                      /\ \/ ok /\ store[j].edit \notin spent /\ jobs'[j] = store[j]
                         \/ (ok => store[j].edit \in spent) /\ jobs'[j] = NoJob
  BY <1>1, Constants DEF Restored, CronInv, TypeOK
<1>4. jobs' \in [Jobs -> Record]
  BY <1>1, <1>3 DEF Restored
<1>5. \A j \in Jobs : handles'[j] = IF jobs'[j] = NoJob THEN 0 ELSE 1
  BY DEF Crash
<1>6. handles' \in [Jobs -> Slots \cup {0}]
  BY Constants DEF Crash
<1>7. \A j \in Jobs, s \in Slots :
          loops'[j][s] = IF s = 1 /\ jobs'[j] # NoJob THEN Sleeping(jobs'[j].edit) ELSE NoLoop
  BY DEF Crash
<1>8. \A j \in Jobs : jobs'[j].edit \in 0 .. MaxEdits
  BY <1>3 DEF Record
<1>9. loops' \in [Jobs -> [Slots -> Loop]]
  <2>1. \A j \in Jobs, s \in Slots : loops'[j][s] \in Loop
    BY <1>7, <1>8, Constants
  <2> QED BY <2>1 DEF Crash
<1>10. TypeOK'
  <2>1. caller' \in [Callers -> Handler]
    BY <1>2, Constants
  <2>2. unsaved' \subseteq Jobs /\ astray' \subseteq Jobs
    BY <1>1 DEF Crash
  <2>3. <<>> \in Seq(Reminder) /\ Len(<<>>) <= Capacity
    BY CapacityAssumption
  <2>4. UNCHANGED <<store, results>> /\ UNCHANGED <<edits, fires, born, removed, spent>>
    BY <1>2
  <2> QED BY <1>2, <1>4, <1>6, <1>9, <2>1, <2>2, <2>3, <2>4 DEF CronInv, TypeOK
<1>11. caller'[c] = Idle
  BY <1>2
<1>12. \A j \in Jobs : Doing(c, j)' = Idle /\ Quiet(j)'
  BY <1>2, Constants, JobsAssumption DEF Doing, Quiet
<1>13. \A j \in Jobs : jobs'[j] # NoJob => jobs'[j].edit # 0 /\ jobs'[j].edit \notin spent
  BY <1>3 DEF CronInv, JobInv
<1>14. EditInv'
  <2>1. ASSUME NEW j \in Jobs, NEW e \in 1 .. MaxEdits, Owns(j, e)' PROVE Owns(j, e)
    <3>1. jobs'[j].edit \in {0, store[j].edit}
      BY <1>3, Constants
    <3>2. \A s \in Slots : loops'[j][s].edit \in {0, store[j].edit}
      BY <1>7, <1>8, <3>1, Constants
    <3> QED BY <1>2, <1>12, <2>1, <3>1, <3>2 DEF Owns, Quiet
  <2>2. ASSUME NEW j \in Jobs, NEW s \in Slots, loops'[j][s].pc # "none"
        PROVE  loops'[j][s].edit # 0
    BY <1>7, <1>8, <1>13, <2>2, Constants
  <2> QED BY <1>2, <2>1, <2>2 DEF CronInv, EditInv
<1>15. CallerInv(c)'
  BY <1>11, Constants DEF CallerInv
<1>16. ASSUME NEW j \in Jobs PROVE JobInv(j)'
  <2>1. jobs'[j].edit = 0 => jobs'[j] = NoJob
    BY <1>13
  <2>2. store'[j] = store[j] /\ (store[j] = NoJob => jobs'[j] = NoJob)
    BY <1>2, <1>3
  <2>3. jobs'[j] = NoJob => handles'[j] = 0 /\ \A s \in Slots : loops'[j][s].pc = "none"
    BY <1>5, <1>7, Constants
  <2>4. Leaving(j)'
    BY <1>12 DEF Quiet, Leaving
  <2> QED BY <1>2, <1>12, <2>1, <2>2, <2>3, <2>4 DEF CronInv, JobInv
<1>17. ASSUME NEW j \in Jobs PROVE Phase(c, j)'
  <2>1. CASE jobs'[j] = NoJob
    <3>1. Live(j)' = {}
      BY <1>7, <2>1, Constants DEF Live
    <3>2. StoreOk(j)'
      BY <1>1, <1>2, <1>3, <2>1, Constants DEF StoreOk
    <3> QED BY <1>12, <2>1, <3>1, <3>2, Constants DEF Phase, InPhase, Steady
  <2>2. CASE jobs'[j] # NoJob
    <3>1. PICK e \in 0 .. MaxEdits : e = jobs'[j].edit
      BY <1>8
    <3>2. Runs(j, e, 1)'
      <4>1. e \notin spent' /\ loops'[j][1] = Sleeping(e)
        BY <1>2, <1>7, <1>13, <2>2, <3>1, Constants
      <4>2. \A r \in Slots \ {1} : loops'[j][r].pc = "none" \/ loops'[j][r].aborted
        BY <1>7, Constants
      <4> QED BY <4>1, <4>2, Constants, SpawnedRuns
    <3>3. StoreOk(j)'
      BY <1>2, <1>3, <2>2 DEF StoreOk
    <3>4. Steady(j)'
      BY <1>5, <2>2, <3>1, <3>2, Constants DEF Steady
    <3> QED BY <1>12, <3>3, <3>4, Constants DEF Phase, InPhase
  <2> QED BY <2>1, <2>2
<1> QED BY <1>10, <1>14, <1>15, <1>16, <1>17 DEF CronInv

-----------------------------------------------------------------------------
(***************************************************************************)
(* The theorems                                                            *)
(***************************************************************************)
LEMMA CronInitially ==
    ASSUME Init PROVE CronInv
<1>1. /\ jobs \in [Jobs -> Record] /\ store \in [Jobs -> Record]
      /\ handles \in [Jobs -> Slots \cup {0}] /\ results \in [Jobs -> Nat]
      /\ loops \in [Jobs -> [Slots -> Loop]] /\ caller \in [Callers -> Handler]
  BY Constants DEF Init
<1>2. TypeOK
  BY <1>1, CronBounds, CapacityAssumption DEF Init, TypeOK
<1>3. \A j \in Jobs, e \in 1 .. MaxEdits : ~Owns(j, e)
  BY Constants DEF Init, Owns
<1>4. EditInv
  BY <1>3, Constants DEF Init, EditInv
<1>5. \A c \in Callers : CallerInv(c)
  BY Constants DEF Init, CallerInv
<1>6. \A j \in Jobs : JobInv(j)
  BY Constants, JobsAssumption DEF Init, JobInv, Quiet, Leaving
<1>7. ASSUME NEW c \in Callers, NEW j \in Jobs PROVE Phase(c, j)
  <2>1. Doing(c, j) = Idle /\ Live(j) = {}
    BY Constants DEF Init, Doing, Live
  <2> QED BY <2>1, Constants DEF Init, Phase, InPhase, Steady, StoreOk
<1> QED BY <1>2, <1>4, <1>5, <1>6, <1>7 DEF CronInv

LEMMA CronStep ==
    ASSUME Serial, CronInv, [Next]_vars PROVE CronInv'
<1>1. PICK c : Callers = {c}
  BY DEF Serial
<1>2. CASE CallerStep(c)
  BY <1>1, <1>2, RegisterKeeps, RegisterHandleKeeps, PersistKeeps, ReplaceKeeps, ReplaceFailsKeeps, DropCallerKeeps,
     ForgetKeeps,
     DeleteJobKeeps, DeleteResultsKeeps, TriggerBumpKeeps, TriggerSendKeeps DEF CallerStep
<1>3. CASE \E j \in Jobs : Add(c, j) \/ Update(c, j) \/ Remove(c, j) \/ Trigger(c, j)
  BY <1>1, <1>3, AddKeeps, UpdateKeeps, RemoveKeeps, TriggerKeeps
<1>4. CASE \E j \in Jobs, s \in Slots : LoopWake(j, s) \/ LoopSend(j, s) \/ LoopDropped(j, s)
  BY <1>1, <1>4, LoopWakeKeeps, LoopSendKeeps, LoopDroppedKeeps
<1>5. CASE ExecTake \/ ExecStore
  BY <1>5, ExecTakeKeeps, ExecStoreKeeps
<1>6. CASE Crash
  BY <1>1, <1>6, CrashKeeps
<1>7. CASE UNCHANGED vars
  <2>1. UNCHANGED <<jobs, handles, loops, store, results, caller, queue, exec>>
        /\ UNCHANGED <<edits, fires, crashes, born, removed, unsaved, astray, spent>>
    BY <1>7 DEF vars, memVars, dbVars, execVars, ghosts
  <2>2. TypeOK'
    BY <2>1 DEF CronInv, TypeOK
  <2> QED BY <2>1, <2>2, OtherStep
<1> QED BY <1>1, <1>2, <1>3, <1>4, <1>5, <1>6, <1>7 DEF Next

\* The inductive invariant holds in every state, when operations are made one
\* at a time, some of them dropped on their way or failing (scheduler.rs:231-768,
\* cron_executor.rs:203-330).
THEOREM CronInvariance == ASSUME Serial PROVE Spec => []CronInv
<1>1. Init => CronInv
  BY CronInitially
<1>2. CronInv /\ [Next]_vars => CronInv'
  BY CronStep
<1> QED BY <1>1, <1>2, PTL DEF Spec

\* Every state is of its type, when operations are made one at a time.
THEOREM TypeCorrect == ASSUME Serial PROVE Spec => []TypeOK
<1>1. CronInv => TypeOK
  BY DEF CronInv
<1> QED BY <1>1, CronInvariance, PTL

\* A registered job with fire times left has exactly one loop, the registered
\* one, with what the job says now, through triggers, edits and restarts
\* (scheduler.rs:428-432, 464-467, 737-742), unless an operation on it was dropped
\* or failed between the steps that replace or remove the loop.
THEOREM OneLoopAlways == ASSUME Serial PROVE Spec => []OneLoopPerJob
<1>1. CronInv => OneLoopPerJob
  BY InvariantIsStronger
<1> QED BY <1>1, CronInvariance, PTL

\* What a restart would bring back is what is in memory, unless the last access
\* to the job's row failed or was dropped.
THEOREM StoreMatchesMemoryAlways == ASSUME Serial PROVE Spec => []StoreMatchesMemory
<1>1. CronInv => StoreMatchesMemory
  BY InvariantIsStronger
<1> QED BY <1>1, CronInvariance, PTL

\* A job whose removal has returned is gone from memory and from the database,
\* and no loop that was still saving its run brings it back.
THEOREM RemovedStaysRemovedAlways == ASSUME Serial PROVE Spec => []RemovedStaysRemoved
<1>1. CronInv => RemovedStaysRemoved
  BY InvariantIsStronger
<1> QED BY <1>1, CronInvariance, PTL
===============================================================================
