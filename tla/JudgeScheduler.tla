--------------------------- MODULE JudgeScheduler ---------------------------
(***************************************************************************)
(* The asynchronous judge: JudgeScheduler (judge_scheduler.h), the POST    *)
(* /submissions handler that feeds it (submission_routes.h) and the four   *)
(* statements on the `submissions` table both rely on (submission_repo.h). *)
(*                                                                         *)
(* Processes: the main thread (start, shutdown), max_concurrent worker     *)
(* threads, one HTTP handler per submission, and an operator who may run   *)
(* the requeue sweep.  The database outlives a crash; everything else      *)
(* does not.                                                               *)
(*                                                                         *)
(* queue_mu_ is held across two steps only by a worker that has found the  *)
(* wait predicate false and has not yet gone to sleep ("parking").  Every  *)
(* other critical section is one step.                                     *)
(***************************************************************************)
EXTENDS Integers, Sequences, FiniteSets

CONSTANTS
  Workers,      \* the worker threads, one per cfg_.max_concurrent
  Submissions,  \* submission ids
  NoTask,       \* a worker's `task` outside run_one_task
  MaxQueue,     \* cfg_.max_queue_size (0: unbounded)
  HasDocker,    \* client_ != nullptr
  Faults,       \* the kinds of failure that may happen
  MaxEnqueue,   \* bound: enqueue calls per submission
  MaxSweeps,    \* bound: operator runs of requeue_stuck_running
  MaxCrashes    \* bound: process kills

\* fs, spawn: start();  db: any SQL statement (the statement may have been
\* applied all the same);  write, rmdir: the task directory;  create, start,
\* remove: docker calls.  A docker wait that times out, and a judge whose
\* stdout is lost or is not JSON, are ordinary outcomes.
FaultKinds == {"fs", "spawn", "db", "write", "create", "start", "remove", "rmdir"}

ASSUME SchedulerAssumption ==
  /\ NoTask \notin Submissions
  /\ IsFiniteSet(Workers)
  /\ MaxQueue \in Nat
  /\ HasDocker \in BOOLEAN
  /\ Faults \subseteq FaultKinds
  /\ MaxEnqueue \in Nat /\ MaxSweeps \in Nat /\ MaxCrashes \in Nat

VARIABLES
  rows, event,                      \* see SubmissionLifecycle
  queue,                            \* queue_
  running_, shutting_down_,         \* the two atomics
  mpc,                              \* main thread
  wpc, task, verdict, owned,        \* worker: program counter, task, result, files
  running_count_,
  hpc, cases, tries, acked,         \* handler: program counter, task.test_cases, 201s
  counted,                          \* submissions_total increments, by id and label
  checkins,                         \* submissions try_checkin was given
  late,                             \* submissions pushed after shutdown began
  litter,                           \* what outlived the task that made it
  hist,                             \* what happened to a submission's row
  sweeps, crashes

Lifecycle == INSTANCE SubmissionLifecycle
             WITH Submissions <- Submissions, rows <- rows, event <- event

dbVars == <<rows, hist>>
mainVars == <<mpc, running_, shutting_down_>>
workerVars == <<wpc, task, verdict, owned, running_count_>>
handlerVars == <<hpc, cases, tries, acked, late>>
tallyVars == <<event, counted, checkins>>
bounds == <<sweeps, crashes>>
vars == <<dbVars, queue, mainVars, workerVars, handlerVars, tallyVars, litter, bounds>>

Verdicts == {"ac", "wa", "se"}
Terminal(s) == rows[s] \in Verdicts

MainPCs == {"boot", "spawn", "unstarted", "up", "flagged", "joining", "down"}
WorkerPCs == {"unborn", "top", "parking", "parked", "exited", "popped", "claim",
              "stage", "create", "start", "wait", "logs", "reap", "persist",
              "account", "publish", "cleanup", "reapFail", "fail", "failReturn",
              "leave"}
HandlerPCs == {"idle", "made", "loaded", "checked", "pushed", "accepted", "refused",
               "failed", "cut"}
Outside == {"unborn", "top", "parking", "parked", "exited"}

TypeOK ==
  /\ rows \in [Submissions -> {"none", "pending", "running"} \cup Verdicts]
  /\ event \in [Submissions -> {"none"} \cup Verdicts]
  /\ hist \in [Submissions -> SUBSET {"db", "swept", "crash"}]
  /\ queue \in Seq(Submissions)
  /\ mpc \in MainPCs /\ running_ \in BOOLEAN /\ shutting_down_ \in BOOLEAN
  /\ wpc \in [Workers -> WorkerPCs]
  /\ task \in [Workers -> Submissions \cup {NoTask}]
  /\ \A w \in Workers : (task[w] = NoTask) <=> (wpc[w] \in Outside)
  /\ verdict \in [Workers -> {"none"} \cup Verdicts]
  /\ owned \in [Workers -> SUBSET {"dir", "box"}]
  /\ running_count_ \in Int         \* below zero the code's counter would wrap
  /\ hpc \in [Submissions -> HandlerPCs]
  /\ cases \in [Submissions -> {"none", "loaded", "missing"}]
  /\ tries \in [Submissions -> Nat]
  /\ acked \subseteq Submissions /\ late \subseteq Submissions
  /\ counted \in [Submissions -> [Verdicts -> Nat]]
  /\ checkins \subseteq Submissions
  /\ litter \subseteq {"dir", "box"}
  /\ sweeps \in Nat /\ crashes \in Nat

Init ==
  /\ rows = [s \in Submissions |-> "none"]
  /\ event = [s \in Submissions |-> "none"]
  /\ hist = [s \in Submissions |-> {}]
  /\ queue = << >>
  /\ mpc = "boot" /\ running_ = FALSE /\ shutting_down_ = FALSE
  /\ wpc = [w \in Workers |-> "unborn"]
  /\ task = [w \in Workers |-> NoTask]
  /\ verdict = [w \in Workers |-> "none"]
  /\ owned = [w \in Workers |-> {}]
  /\ running_count_ = 0
  /\ hpc = [s \in Submissions |-> "idle"]
  /\ cases = [s \in Submissions |-> "none"]
  /\ tries = [s \in Submissions |-> 0]
  /\ acked = {} /\ late = {}
  /\ counted = [s \in Submissions |-> [v \in Verdicts |-> 0]]
  /\ checkins = {}
  /\ litter = {}
  /\ sweeps = 0 /\ crashes = 0

MutexFree == \A w \in Workers : wpc[w] # "parking"

-----------------------------------------------------------------------------
(* submission_repo: each statement is atomic; CanX is its WHERE clause.    *)

\* Mutants: a WHERE clause that is missing, too wide, or names the wrong status.
CanClaimTwice(s) == rows[s] \in {"pending", "running"}
CanClaimWrong(s) == rows[s] = "running"
CanFinishAlways(s) == rows[s] # "none"

CanClaim(s) == rows[s] = "pending"
CanFinish(s) == rows[s] \in {"pending", "running"}

SetRow(s, st) ==
  /\ rows' = [rows EXCEPT ![s] = st]
  /\ UNCHANGED hist

\* A driver error: the caller cannot tell whether the statement was applied.
DbError(s, applies, st) ==
  /\ "db" \in Faults
  /\ hist' = [hist EXCEPT ![s] = @ \cup {"db"}]
  /\ \/ rows' = rows
     \/ applies /\ rows' = [rows EXCEPT ![s] = st]

-----------------------------------------------------------------------------
(* Main thread: start() and shutdown(), called from build_judge_deps and   *)
(* main().                                                                 *)

StartFails ==
  /\ mpc = "boot"
  /\ "fs" \in Faults
  /\ mpc' = "unstarted"
  /\ UNCHANGED <<dbVars, queue, running_, shutting_down_, workerVars, handlerVars,
                 tallyVars, litter, bounds>>

Start ==
  /\ mpc = "boot"
  /\ mpc' = "spawn"
  /\ running_' = TRUE
  /\ UNCHANGED <<dbVars, queue, shutting_down_, workerVars, handlerVars, tallyVars,
                 litter, bounds>>

Spawn(w) ==
  /\ mpc = "spawn"
  /\ wpc[w] = "unborn"
  /\ wpc' = [wpc EXCEPT ![w] = "top"]
  /\ mpc' = IF \A u \in Workers \ {w} : wpc[u] # "unborn" THEN "up" ELSE "spawn"
  /\ UNCHANGED <<dbVars, queue, running_, shutting_down_, task, verdict, owned,
                 running_count_, handlerVars, tallyVars, litter, bounds>>

\* shutting_down_.store happens without queue_mu_.
ShutdownFlag ==
  /\ \/ mpc \in {"up", "unstarted"}
     \/ mpc = "spawn" /\ "spawn" \in Faults
  /\ shutting_down_' = TRUE
  /\ mpc' = IF shutting_down_ /\ ~running_ THEN "down" ELSE "flagged"
  /\ UNCHANGED <<dbVars, queue, running_, workerVars, handlerVars, tallyVars, litter,
                 bounds>>

\* Mutant: a notification that is never sent.
WakeNone == UNCHANGED wpc

\* notify_all and notify_one reach workers that sleep at this moment, and only
\* them.
WakeAll == wpc' = [w \in Workers |-> IF wpc[w] = "parked" THEN "top" ELSE wpc[w]]

WakeOne ==
  LET Sleeping == {w \in Workers : wpc[w] = "parked"} IN
  \/ Sleeping = {} /\ UNCHANGED wpc
  \/ \E w \in Sleeping : wpc' = [wpc EXCEPT ![w] = "top"]

NotifyAll ==
  /\ mpc = "flagged"
  /\ WakeAll
  /\ mpc' = "joining"
  /\ UNCHANGED <<dbVars, queue, running_, shutting_down_, task, verdict, owned,
                 running_count_, handlerVars, tallyVars, litter, bounds>>

\* A shutdown() called by start() after a failed spawn leaves the server up
\* with a scheduler that refuses every task.
Join ==
  /\ mpc = "joining"
  /\ \A w \in Workers : wpc[w] \in {"exited", "unborn"}
  /\ running_' = FALSE
  /\ mpc' = IF "unborn" \in {wpc[w] : w \in Workers} /\ running_
              THEN "unstarted" ELSE "down"
  /\ UNCHANGED <<dbVars, queue, shutting_down_, workerVars, handlerVars, tallyVars,
                 litter, bounds>>

-----------------------------------------------------------------------------
(* create_submission_handler: INSERT, load the test cases, enqueue().      *)

Serving == mpc \in {"up", "unstarted"}

Goto(s, pc) == hpc' = [hpc EXCEPT ![s] = pc]

CreateRow(s) ==
  /\ Serving
  /\ hpc[s] = "idle"
  /\ \/ SetRow(s, "pending") /\ Goto(s, "made")
     \/ DbError(s, TRUE, "pending") /\ Goto(s, "failed")
  /\ UNCHANGED <<queue, mainVars, workerVars, cases, tries, acked, late, tallyVars,
                 litter, bounds>>

\* A failed load is logged and the handler goes on with no test case.
LoadCases(s) ==
  /\ hpc[s] = "made"
  /\ \/ cases' = [cases EXCEPT ![s] = "loaded"]
     \/ "db" \in Faults /\ cases' = [cases EXCEPT ![s] = "missing"]
  /\ Goto(s, "loaded")
  /\ UNCHANGED <<dbVars, queue, mainVars, workerVars, tries, acked, late, tallyVars,
                 litter, bounds>>

\* enqueue() reads running_ before it takes the lock.
CheckRunning(s) ==
  /\ hpc[s] = "loaded"
  /\ tries' = [tries EXCEPT ![s] = @ + 1]
  /\ Goto(s, IF running_ THEN "checked" ELSE "refused")
  /\ UNCHANGED <<dbVars, queue, mainVars, workerVars, cases, acked, late, tallyVars,
                 litter, bounds>>

Full == MaxQueue > 0 /\ Len(queue) >= MaxQueue

Push(s) ==
  /\ hpc[s] = "checked"
  /\ MutexFree
  /\ \/ Full /\ Goto(s, "refused") /\ UNCHANGED <<queue, late>>
     \/ /\ ~Full
        /\ Goto(s, "pushed")
        /\ queue' = Append(queue, s)
        /\ late' = IF shutting_down_ THEN late \cup {s} ELSE late
  /\ UNCHANGED <<dbVars, mainVars, workerVars, cases, tries, acked, tallyVars, litter,
                 bounds>>

\* notify_one, outside the lock; then the 201.
Notify(s) ==
  /\ hpc[s] = "pushed"
  /\ Goto(s, "accepted")
  /\ acked' = acked \cup {s}
  /\ WakeOne
  /\ UNCHANGED <<dbVars, queue, mainVars, task, verdict, owned, running_count_, cases,
                 tries, late, tallyVars, litter, bounds>>

\* enqueue() is documented to accept a task for a row it was given before.
Reenqueue(s) ==
  /\ Serving
  /\ hpc[s] \in {"accepted", "refused"}
  /\ tries[s] < MaxEnqueue
  /\ Goto(s, "loaded")
  /\ UNCHANGED <<dbVars, queue, mainVars, workerVars, cases, tries, acked, late, tallyVars,
                 litter, bounds>>

-----------------------------------------------------------------------------
(* worker_loop *)

Step(w, from, to) == wpc[w] = from /\ wpc' = [wpc EXCEPT ![w] = to]

\* Mutant: leave without draining the queue.
MayExitAtOnce == shutting_down_

MayExit == shutting_down_ /\ queue = << >>

\* Under queue_mu_: evaluate the wait predicate; leave, take a task, or wait.
Look(w) ==
  /\ MutexFree
  /\ \/ /\ queue = << >> /\ ~shutting_down_
        /\ Step(w, "top", "parking")
        /\ UNCHANGED <<queue, task>>
     \/ /\ MayExit
        /\ Step(w, "top", "exited")
        /\ UNCHANGED <<queue, task>>
     \/ /\ queue # << >> /\ ~MayExit
        /\ Step(w, "top", "popped")
        /\ task' = [task EXCEPT ![w] = Head(queue)]
        /\ queue' = Tail(queue)
  /\ UNCHANGED <<dbVars, mainVars, verdict, owned, running_count_, handlerVars,
                 tallyVars, litter, bounds>>

\* The wait releases the lock and sleeps in one step.
Park(w) ==
  /\ Step(w, "parking", "parked")
  /\ UNCHANGED <<dbVars, queue, mainVars, task, verdict, owned, running_count_,
                 handlerVars, tallyVars, litter, bounds>>

SpuriousWake(w) ==
  /\ Step(w, "parked", "top")
  /\ UNCHANGED <<dbVars, queue, mainVars, task, verdict, owned, running_count_,
                 handlerVars, tallyVars, litter, bounds>>

Enter(w) ==
  /\ Step(w, "popped", IF HasDocker THEN "claim" ELSE "failReturn")
  /\ running_count_' = running_count_ + 1
  /\ UNCHANGED <<dbVars, queue, mainVars, task, verdict, owned, handlerVars, tallyVars,
                 litter, bounds>>

\* Whatever the task still owns is left on the host.
Leave(w) ==
  /\ Step(w, "leave", "top")
  /\ running_count_' = running_count_ - 1
  /\ task' = [task EXCEPT ![w] = NoTask]
  /\ verdict' = [verdict EXCEPT ![w] = "none"]
  /\ owned' = [owned EXCEPT ![w] = {}]
  /\ litter' = litter \cup owned[w]
  /\ UNCHANGED <<dbVars, queue, mainVars, handlerVars, tallyVars, bounds>>

-----------------------------------------------------------------------------
(* run_one_task *)

\* 1. mark_running; a row that cannot be claimed, or an error, drops the task.
Claim(w) ==
  LET s == task[w] IN
  /\ wpc[w] = "claim"
  /\ \/ CanClaim(s) /\ SetRow(s, "running") /\ Step(w, "claim", "stage")
     \/ ~CanClaim(s) /\ UNCHANGED dbVars /\ Step(w, "claim", "leave")
     \/ DbError(s, CanClaim(s), "running") /\ Step(w, "claim", "leave")
  /\ UNCHANGED <<queue, mainVars, task, verdict, owned, running_count_, handlerVars,
                 tallyVars, litter, bounds>>

\* 2. make_task_dir and write_task_json; the directory may exist by the time
\* the write fails, and finish_se is not followed by a cleanup here.
Stage(w) ==
  /\ \/ /\ Step(w, "stage", "create")
        /\ owned' = [owned EXCEPT ![w] = {"dir"}]
     \/ /\ "write" \in Faults
        /\ Step(w, "stage", "failReturn")
        /\ \E made \in {{}, {"dir"}} : owned' = [owned EXCEPT ![w] = made]
  /\ UNCHANGED <<dbVars, queue, mainVars, task, verdict, running_count_, handlerVars,
                 tallyVars, litter, bounds>>

\* 4. docker create.  When the answer is lost the container exists but nobody
\* knows its id.
Create(w) ==
  /\ \/ /\ Step(w, "create", "start")
        /\ owned' = [owned EXCEPT ![w] = @ \cup {"box"}]
        /\ UNCHANGED litter
     \/ /\ "create" \in Faults
        /\ Step(w, "create", "fail")
        /\ \E made \in {{}, {"box"}} : litter' = litter \cup made
        /\ UNCHANGED owned
  /\ UNCHANGED <<dbVars, queue, mainVars, task, verdict, running_count_, handlerVars,
                 tallyVars, bounds>>

\* 5, 6. docker start, then docker wait under the outer watchdog.
Launch(w) ==
  /\ \/ Step(w, "start", "wait")
     \/ "start" \in Faults /\ Step(w, "start", "reapFail")
  /\ UNCHANGED <<dbVars, queue, mainVars, task, verdict, owned, running_count_,
                 handlerVars, tallyVars, litter, bounds>>

\* Mutant: a timed-out container is not killed and removed.
WaitForgetsBox(w) ==
  /\ Step(w, "wait", "logs") \/ Step(w, "wait", "fail")
  /\ UNCHANGED <<dbVars, queue, mainVars, task, verdict, owned, running_count_,
                 handlerVars, tallyVars, litter, bounds>>

Wait(w) ==
  /\ Step(w, "wait", "logs") \/ Step(w, "wait", "reapFail")
  /\ UNCHANGED <<dbVars, queue, mainVars, task, verdict, owned, running_count_,
                 handlerVars, tallyVars, litter, bounds>>

\* judge.sh answers AC when the task holds no test case.  Lost or unparseable
\* output is parsed as "se".
JudgeAnswers(s) == IF cases[s] = "missing" THEN {"ac"} ELSE {"ac", "wa", "se"}

\* 7, 8. docker logs and parse_judge_result_json.
Logs(w) ==
  /\ Step(w, "logs", "reap")
  /\ \E v \in JudgeAnswers(task[w]) \cup {"se"} : verdict' = [verdict EXCEPT ![w] = v]
  /\ UNCHANGED <<dbVars, queue, mainVars, task, owned, running_count_, handlerVars,
                 tallyVars, litter, bounds>>

\* try_remove, on the way to the result or (after a kill) to finish_se.
Reap(w) ==
  /\ Step(w, "reap", "persist") \/ Step(w, "reapFail", "fail")
  /\ \/ owned' = [owned EXCEPT ![w] = @ \ {"box"}]
     \/ "remove" \in Faults /\ UNCHANGED owned
  /\ UNCHANGED <<dbVars, queue, mainVars, task, verdict, running_count_, handlerVars,
                 tallyVars, litter, bounds>>

\* 9. mark_finished; only a row this statement flipped is accounted for.
Persist(w) ==
  LET s == task[w] IN
  /\ wpc[w] = "persist"
  /\ \/ CanFinish(s) /\ SetRow(s, verdict[w]) /\ Step(w, "persist", "account")
     \/ ~CanFinish(s) /\ UNCHANGED dbVars /\ Step(w, "persist", "cleanup")
     \/ DbError(s, CanFinish(s), verdict[w]) /\ Step(w, "persist", "cleanup")
  /\ UNCHANGED <<queue, mainVars, task, verdict, owned, running_count_, handlerVars,
                 tallyVars, litter, bounds>>

\* 9a. record_task_metrics and, on AC, try_checkin (whose failure is ignored).
Account(w) ==
  LET s == task[w] IN
  /\ Step(w, "account", "publish")
  /\ counted' = [counted EXCEPT ![s][verdict[w]] = @ + 1]
  /\ \/ verdict[w] = "ac" /\ checkins' = checkins \cup {s}
     \/ verdict[w] # "ac" /\ UNCHANGED checkins
     \/ "db" \in Faults /\ UNCHANGED checkins
  /\ UNCHANGED <<dbVars, queue, mainVars, task, verdict, owned, running_count_,
                 handlerVars, event, litter, bounds>>

\* 9b. notifier_->publish(published)
Publish(w) ==
  /\ Step(w, "publish", "cleanup")
  /\ event' = [event EXCEPT ![task[w]] = verdict[w]]
  /\ UNCHANGED <<dbVars, queue, mainVars, task, verdict, owned, running_count_,
                 handlerVars, counted, checkins, litter, bounds>>

\* finish_se: the result of mark_finished is ignored, the metric is not.
FinishSe(w) ==
  LET s == task[w] IN
  /\ Step(w, "fail", "cleanup") \/ Step(w, "failReturn", "leave")
  /\ \/ CanFinish(s) /\ SetRow(s, "se")
     \/ ~CanFinish(s) /\ UNCHANGED dbVars
     \/ DbError(s, CanFinish(s), "se")
  /\ counted' = [counted EXCEPT ![s]["se"] = @ + 1]
  /\ UNCHANGED <<queue, mainVars, task, verdict, owned, running_count_, handlerVars,
                 event, checkins, litter, bounds>>

\* cleanup_and_release (the pool's side of it is in WarmPool).
Cleanup(w) ==
  /\ Step(w, "cleanup", "leave")
  /\ \/ owned' = [owned EXCEPT ![w] = @ \ {"dir"}]
     \/ "rmdir" \in Faults /\ UNCHANGED owned
  /\ UNCHANGED <<dbVars, queue, mainVars, task, verdict, running_count_, handlerVars,
                 tallyVars, litter, bounds>>

-----------------------------------------------------------------------------
(* The operator's requeue_stuck_running, and a kill of the whole process.  *)

Sweep ==
  /\ sweeps < MaxSweeps
  /\ sweeps' = sweeps + 1
  /\ \E S \in SUBSET {s \in Submissions : rows[s] = "running"} :
       /\ rows' = [s \in Submissions |-> IF s \in S THEN "pending" ELSE rows[s]]
       /\ hist' = [s \in Submissions |-> IF s \in S THEN hist[s] \cup {"swept"}
                                                    ELSE hist[s]]
  /\ UNCHANGED <<queue, mainVars, workerVars, handlerVars, tallyVars, litter, crashes>>

Crash ==
  /\ crashes < MaxCrashes
  /\ crashes' = crashes + 1
  /\ mpc # "boot"
  /\ mpc' = "boot" /\ running_' = FALSE /\ shutting_down_' = FALSE
  /\ queue' = << >>
  /\ wpc' = [w \in Workers |-> "unborn"]
  /\ task' = [w \in Workers |-> NoTask]
  /\ verdict' = [w \in Workers |-> "none"]
  /\ owned' = [w \in Workers |-> {}]
  /\ litter' = litter \cup UNION {owned[w] : w \in Workers}
  /\ running_count_' = 0
  /\ hpc' = [s \in Submissions |->
               IF hpc[s] \in {"idle", "accepted", "refused", "failed"} THEN hpc[s]
                                                                       ELSE "cut"]
  /\ hist' = [s \in Submissions |-> IF CanFinish(s) THEN hist[s] \cup {"crash"}
                                                    ELSE hist[s]]
  /\ UNCHANGED <<rows, tallyVars, cases, tries, acked, late, sweeps>>

-----------------------------------------------------------------------------
Main ==
  \/ StartFails
  \/ Start
  \/ \E w \in Workers : Spawn(w)
  \/ ShutdownFlag
  \/ NotifyAll
  \/ Join

Handle(s) == LoadCases(s) \/ CheckRunning(s) \/ Push(s) \/ Notify(s)

Judge(w) ==
  \/ Claim(w) \/ Stage(w) \/ Create(w) \/ Launch(w) \/ Wait(w) \/ Logs(w)
  \/ Reap(w) \/ Persist(w) \/ Account(w) \/ Publish(w) \/ FinishSe(w) \/ Cleanup(w)

Work(w) == Look(w) \/ Park(w) \/ Enter(w) \/ Judge(w) \/ Leave(w)

Next ==
  \/ Main
  \/ \E s \in Submissions : CreateRow(s) \/ Handle(s) \/ Reenqueue(s)
  \/ \E w \in Workers : Work(w) \/ SpuriousWake(w)
  \/ Sweep
  \/ Crash

Spec == Init /\ [][Next]_vars

\* Threads keep running, every docker call returns (the client has timeouts,
\* wait has the watchdog), and a thread that waits for queue_mu_ gets it in
\* the end.  Nothing makes a request arrive, a sleeping thread wake by itself
\* or the operator act.
Fairness ==
  /\ WF_vars(Start \/ StartFails)
  /\ WF_vars(\E w \in Workers : Spawn(w))
  /\ WF_vars(NotifyAll)
  /\ WF_vars(Join)
  /\ \A s \in Submissions : WF_vars(Handle(s)) /\ SF_vars(Push(s))
  /\ \A w \in Workers : WF_vars(Work(w)) /\ SF_vars(Look(w))

FairSpec == Spec /\ Fairness

-----------------------------------------------------------------------------
(* Properties *)

Queued(s) == \E i \in 1..Len(queue) : queue[i] = s
Held(s) == \E w \in Workers : task[w] = s

\* The pipeline is a correct SubmissionLifecycle: a verdict is never
\* overwritten, and a result is published at most once, after it is stored and
\* as it is stored, however duplicates, sweeps, database errors and crashes
\* interleave (mark_running, mark_finished and the `persisted` guard of
\* run_one_task).
RefinesLifecycle == Lifecycle!LifeSpec

\* What SSE clients were told is what the table says.
EventMatchesRow == \A s \in Submissions : event[s] # "none" => event[s] = rows[s]

\* Past mark_running a worker has the submission to itself: two workers judge
\* the same row only after an operator requeued a row that was not stuck.
Judging(w) ==
  wpc[w] \in {"stage", "create", "start", "wait", "logs", "reap", "persist",
              "account", "publish", "reapFail", "fail"}
ExclusiveJudging ==
  \A w, u \in Workers :
    w # u /\ Judging(w) /\ Judging(u) /\ task[w] = task[u]
      => "swept" \in hist[task[w]]

\* submissions_total counts a verdict about the user's program at most once per
\* submission, and only the verdict the row ended in; a daily check-in is only
\* ever claimed for an accepted submission (the `persisted` guard, step 9a).
AccountingExact ==
  \A s \in Submissions :
    /\ \A v \in {"ac", "wa"} : counted[s][v] > 0 => counted[s][v] = 1 /\ rows[s] = v
    /\ s \in checkins => rows[s] = "ac"

\* enqueue() never lets the queue outgrow max_queue_size, whatever the number
\* of handlers that race for the last place.
QueueBounded == MaxQueue > 0 => Len(queue) <= MaxQueue

\* running_count() is the number of workers inside the task body, at every
\* instant and on every exit path of run_one_task.
InBody == {w \in Workers : wpc[w] \notin Outside \cup {"popped"}}
RunningCountExact == running_count_ = Cardinality(InBody)

\* A submission whose client was told 201 is finished, queued or in a worker's
\* hands; only a database error or a crash can leave it stranded.
NothingLost ==
  \A s \in acked :
    Terminal(s) \/ Queued(s) \/ Held(s) \/ hist[s] \cap {"db", "crash"} # {}

\* No task directory or container outlives its task unless removing it (or
\* writing into it, or learning its id) failed, or the process was killed.
LitterOnlyByFailure ==
  /\ "dir" \in litter => crashes > 0 \/ Faults \cap {"write", "rmdir"} # {}
  /\ "box" \in litter => crashes > 0 \/ Faults \cap {"create", "remove"} # {}

\* shutdown() drains: what is still queued when it returns was pushed after it
\* began.
DrainedAtShutdown == mpc = "down" => \A s \in Submissions : Queued(s) => s \in late

\* Every accepted submission reaches a verdict, unless its row met a database
\* error, or the scheduler is told to stop.
AcceptedIsJudged ==
  \A s \in Submissions :
    s \in acked ~> Terminal(s) \/ hist[s] # {} \/ shutting_down_

\* shutdown() returns, unless a worker that read shutting_down_ before the store
\* goes to sleep after notify_all: every other worker is woken, drains and exits.
ShutdownReturnsUnlessMissed ==
  mpc = "flagged" ~> \/ mpc \in {"down", "unstarted", "boot"}
                     \/ \E w \in Workers : mpc = "joining" /\ wpc[w] = "parking"

-----------------------------------------------------------------------------
(* The inductive invariant behind the theorems of JudgeSchedulerProofs.    *)

\* A submission whose request has not arrived is known to nobody.
FreshIsUnknown ==
  \A s \in Submissions : hpc[s] = "idle" => rows[s] = "none" /\ ~Queued(s) /\ ~Held(s)

VerdictKnown ==
  \A w \in Workers : wpc[w] \in {"reap", "persist", "account", "publish"}
                       => verdict[w] \in Verdicts

\* The worker whose mark_finished flipped the row, until it has published.
Won(w) == wpc[w] \in {"account", "publish"}

WinnerOwnsRow ==
  \A w \in Workers : Won(w) => rows[task[w]] = verdict[w] /\ event[task[w]] = "none"

OneWinner ==
  \A w, u \in Workers : Won(w) /\ Won(u) /\ task[w] = task[u] => w = u

CountedByWinner ==
  \A s \in Submissions, v \in {"ac", "wa"} :
    counted[s][v] > 0 => \A w \in Workers : ~(wpc[w] = "account" /\ task[w] = s)

JudgedIsClaimed ==
  \A w \in Workers :
    Judging(w) => rows[task[w]] \notin {"none", "pending"} \/ "swept" \in hist[task[w]]

\* Everything the theorems need at once: one worker wins a row, it owns the
\* row's event and counters until it has used them, and a claimed row stays
\* claimed unless the operator requeues it.
IInv ==
  /\ TypeOK
  /\ FreshIsUnknown
  /\ VerdictKnown
  /\ WinnerOwnsRow
  /\ OneWinner
  /\ EventMatchesRow
  /\ AccountingExact
  /\ CountedByWinner
  /\ JudgedIsClaimed
  /\ ExclusiveJudging
=============================================================================
