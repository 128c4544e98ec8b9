------------------------------ MODULE WarmPool ------------------------------
(***************************************************************************)
(* WarmPool (warm_pool.h): K created-but-not-started judge containers, the *)
(* refill thread that keeps them at K, and its users, the judge workers    *)
(* (run_one_task and cleanup_and_release in judge_scheduler.h).            *)
(*                                                                         *)
(* Containers of the pool are interchangeable, so the pool is the number   *)
(* of them.  `alive` counts the containers the docker daemon really has;   *)
(* `excused` those nobody could have removed, because the call that made   *)
(* or should have removed them ended in an error.                          *)
(*                                                                         *)
(* mu_ is never held across two steps.  cv_mu_ is held only by the refill  *)
(* thread, and no notifier takes it.                                       *)
(***************************************************************************)
EXTENDS Naturals, FiniteSets

CONSTANTS
  Workers,
  K,             \* target_ (0: prewarming is disabled)
  Retries,       \* cfg_.refill_retry_attempts
  MaxTasks,      \* bound: tasks the workers run
  MaxFaults      \* bound: docker calls that fail

ASSUME PoolAssumption ==
  /\ IsFiniteSet(Workers)
  /\ K \in Nat /\ Retries \in Nat /\ MaxTasks \in Nat /\ MaxFaults \in Nat

VARIABLES
  idle,                      \* idle_.size()
  running_, shutting_down_,
  mpc, left,                 \* main thread; containers left to precreate or to remove
  rpc, cur, attempts,        \* refill thread, `cur` and `i` of its loops
  wpc, gave,                 \* worker, `pool_gave_one`
  tasks, faults,
  alive, excused,            \* see above
  missed                     \* a nudge was not sent, or reached nobody who needed it

mainVars == <<running_, shutting_down_, mpc, left>>
refillVars == <<rpc, cur, attempts>>
workerVars == <<wpc, gave, tasks>>
dockerVars == <<alive, excused, faults>>
poolVars == <<idle, mainVars, refillVars, workerVars, dockerVars, missed>>

MainPCs == {"boot", "spawned", "up", "dead", "flagged", "joining", "drain", "down"}
RefillPCs == {"none", "look", "parking", "parked", "gap", "create", "push", "exited"}
WorkerPCs == {"idle", "fallback", "discard", "task"}

PoolTypeOK ==
  /\ idle \in Nat /\ left \in Nat /\ cur \in Nat /\ attempts \in Nat
  /\ tasks \in Nat /\ faults \in Nat /\ alive \in Nat /\ excused \in Nat
  /\ running_ \in BOOLEAN /\ shutting_down_ \in BOOLEAN
  /\ missed \in BOOLEAN
  /\ mpc \in MainPCs /\ rpc \in RefillPCs
  /\ wpc \in [Workers -> WorkerPCs]
  /\ gave \in [Workers -> BOOLEAN]

PoolInit ==
  /\ idle = 0 /\ left = K /\ cur = 0 /\ attempts = 0
  /\ tasks = 0 /\ faults = 0 /\ alive = 0 /\ excused = 0
  /\ running_ = FALSE /\ shutting_down_ = FALSE
  /\ missed = FALSE
  /\ mpc = "boot" /\ rpc = "none"
  /\ wpc = [w \in Workers |-> "idle"]
  /\ gave = [w \in Workers |-> FALSE]

-----------------------------------------------------------------------------
(* The docker daemon.  A call that fails may have been carried out.        *)

CreateOk ==
  /\ alive' = alive + 1
  /\ UNCHANGED <<excused, faults>>

CreateFails ==
  /\ faults < MaxFaults
  /\ faults' = faults + 1
  /\ \/ alive' = alive + 1 /\ excused' = excused + 1
     \/ UNCHANGED <<alive, excused>>

RemoveOk ==
  /\ alive' = alive - 1
  /\ UNCHANGED <<excused, faults>>

RemoveFails ==
  /\ faults < MaxFaults
  /\ faults' = faults + 1
  /\ \/ alive' = alive - 1 /\ UNCHANGED excused
     \/ excused' = excused + 1 /\ UNCHANGED alive

\* Mutant: a notification that is never sent.
NotifyNone == UNCHANGED rpc

\* cv_.notify_all() reaches the refill thread if it sleeps at this moment.
NotifyAll == rpc' = IF rpc = "parked" THEN "look" ELSE rpc

-----------------------------------------------------------------------------
(* Main thread: start(), called by build_judge_deps before the workers     *)
(* exist, and shutdown(), called by main() after they have been joined.    *)

Precreate ==
  /\ mpc = "boot" /\ left > 0
  /\ left' = left - 1
  /\ \/ CreateOk /\ idle' = idle + 1
     \/ CreateFails /\ UNCHANGED idle
  /\ UNCHANGED <<running_, shutting_down_, mpc, refillVars, workerVars, missed>>

\* No refill thread for K = 0; no running_ either if nothing could be created.
Started ==
  /\ mpc = "boot" /\ left = 0
  /\ IF K > 0 /\ idle = 0
       THEN mpc' = "dead" /\ UNCHANGED <<running_, rpc>>
       ELSE /\ running_' = TRUE
            /\ mpc' = IF idle < K THEN "spawned" ELSE "up"
            /\ rpc' = IF K = 0 THEN "none" ELSE "look"
  /\ UNCHANGED <<idle, shutting_down_, left, cur, attempts, workerVars, dockerVars, missed>>

NotifyPartial ==
  /\ mpc = "spawned"
  /\ NotifyAll
  /\ mpc' = "up"
  /\ UNCHANGED <<idle, running_, shutting_down_, left, cur, attempts, workerVars,
                 dockerVars, missed>>

\* shutting_down_.store happens without cv_mu_.
ShutdownFlag ==
  /\ mpc \in {"up", "dead"}
  /\ \A w \in Workers : wpc[w] = "idle"
  /\ shutting_down_' = TRUE
  /\ mpc' = "flagged"
  /\ UNCHANGED <<idle, running_, left, refillVars, workerVars, dockerVars, missed>>

ShutdownNotify ==
  /\ mpc = "flagged"
  /\ NotifyAll
  /\ missed' = (missed \/ rpc = "parking")
  /\ mpc' = "joining"
  /\ UNCHANGED <<idle, running_, shutting_down_, left, cur, attempts, workerVars, dockerVars>>

\* Mutant: the idle list is taken before the thread has stopped filling it.
MayDrainAtOnce == TRUE

\* refill_thread_.join() returns.
MayDrain == rpc \in {"none", "exited"}

\* Join, then swap the idle list out.
Drain ==
  /\ mpc = "joining"
  /\ MayDrain
  /\ mpc' = "drain"
  /\ left' = idle
  /\ idle' = 0
  /\ UNCHANGED <<running_, shutting_down_, refillVars, workerVars, dockerVars, missed>>

RemoveNext ==
  /\ mpc = "drain"
  /\ left > 0
  /\ left' = left - 1
  /\ RemoveOk \/ RemoveFails
  /\ UNCHANGED <<idle, running_, shutting_down_, mpc, refillVars, workerVars, missed>>

Stopped ==
  /\ mpc = "drain" /\ left = 0
  /\ running_' = FALSE
  /\ mpc' = "down"
  /\ UNCHANGED <<idle, shutting_down_, left, refillVars, workerVars, dockerVars, missed>>

-----------------------------------------------------------------------------
(* refill_loop and refill_once *)

BelowTarget == idle < K

\* The loop test and the wait predicate, under cv_mu_.
Look ==
  /\ rpc = "look"
  /\ rpc' = IF shutting_down_ THEN "exited" ELSE IF BelowTarget THEN "gap" ELSE "parking"
  /\ UNCHANGED <<idle, mainVars, cur, attempts, workerVars, dockerVars, missed>>

Park ==
  /\ rpc = "parking"
  /\ rpc' = "parked"
  /\ UNCHANGED <<idle, mainVars, cur, attempts, workerVars, dockerVars, missed>>

SpuriousWake ==
  /\ rpc = "parked"
  /\ rpc' = "look"
  /\ UNCHANGED <<idle, mainVars, cur, attempts, workerVars, dockerVars, missed>>

MeasureGap ==
  /\ rpc = "gap"
  /\ IF BelowTarget /\ ~shutting_down_
       THEN rpc' = "create" /\ cur' = idle /\ attempts' = 0
       ELSE rpc' = "look" /\ UNCHANGED <<cur, attempts>>
  /\ UNCHANGED <<idle, mainVars, workerVars, dockerVars, missed>>

\* refill_once returned false.
AfterFailure == rpc' = IF cur + 1 >= K THEN "look" ELSE "gap"

RefillCreate ==
  /\ rpc = "create"
  /\ \/ /\ shutting_down_
        /\ AfterFailure
        /\ UNCHANGED <<attempts, dockerVars>>
     \/ /\ ~shutting_down_
        /\ CreateOk
        /\ rpc' = "push"
        /\ UNCHANGED attempts
     \/ /\ ~shutting_down_
        /\ CreateFails
        /\ attempts' = attempts + 1
        /\ IF attempts < Retries
             THEN UNCHANGED rpc
             ELSE AfterFailure
  /\ UNCHANGED <<idle, mainVars, cur, workerVars, missed>>

RefillPush ==
  /\ rpc = "push"
  /\ idle' = idle + 1
  /\ rpc' = "gap"
  /\ UNCHANGED <<mainVars, cur, attempts, workerVars, dockerVars, missed>>

-----------------------------------------------------------------------------
(* A judge worker: acquire a container, discard it, run the task, release. *)

To(w, from, to) == wpc[w] = from /\ wpc' = [wpc EXCEPT ![w] = to]

\* acquire(): nothing if not running_, an idle container, or none is left.
Acquire(w) ==
  /\ mpc \in {"up", "dead"}
  /\ tasks < MaxTasks
  /\ tasks' = tasks + 1
  /\ \/ ~running_ /\ To(w, "idle", "task") /\ UNCHANGED idle
     \/ running_ /\ idle > 0 /\ To(w, "idle", "discard") /\ idle' = idle - 1
     \/ running_ /\ idle = 0 /\ To(w, "idle", "fallback") /\ UNCHANGED idle
  /\ UNCHANGED <<mainVars, refillVars, gave, dockerVars, missed>>

\* The synchronous create of acquire().
Fallback(w) ==
  /\ \/ CreateOk /\ To(w, "fallback", "discard")
     \/ CreateFails /\ To(w, "fallback", "task")
  /\ UNCHANGED <<idle, mainVars, refillVars, gave, tasks, missed>>

\* Mutant: the container is forgotten, not removed.
DiscardForgets(w) ==
  /\ To(w, "discard", "task")
  /\ gave' = [gave EXCEPT ![w] = TRUE]
  /\ UNCHANGED <<idle, mainVars, refillVars, tasks, dockerVars, missed>>

\* run_one_task removes the container it was given; if that fails it also
\* forgets that it was given one, and will not release it.
Discard(w) ==
  /\ To(w, "discard", "task")
  /\ \/ RemoveOk /\ gave' = [gave EXCEPT ![w] = TRUE] /\ UNCHANGED missed
     \/ RemoveFails /\ missed' = TRUE /\ UNCHANGED gave
  /\ UNCHANGED <<idle, mainVars, refillVars, tasks>>

\* cleanup_and_release, on every way out of the task.  release() does nothing
\* but notify, without cv_mu_.
Release(w) ==
  /\ To(w, "task", "idle")
  /\ gave' = [gave EXCEPT ![w] = FALSE]
  /\ \/ /\ gave[w] /\ running_
        /\ NotifyAll
        /\ missed' = (missed \/ rpc = "parking")
     \/ ~(gave[w] /\ running_) /\ UNCHANGED <<rpc, missed>>
  /\ UNCHANGED <<idle, mainVars, cur, attempts, tasks, dockerVars>>

-----------------------------------------------------------------------------
Main ==
  \/ Precreate \/ Started \/ NotifyPartial
  \/ ShutdownFlag \/ ShutdownNotify \/ Drain \/ RemoveNext \/ Stopped
Refill == Look \/ Park \/ MeasureGap \/ RefillCreate \/ RefillPush
Work(w) == Fallback(w) \/ Discard(w) \/ Release(w)
PoolNext == Main \/ Refill \/ SpuriousWake \/ \E w \in Workers : Acquire(w) \/ Work(w)

PoolSpec == PoolInit /\ [][PoolNext]_poolVars

\* Every thread runs and every docker call returns.  Nothing makes a worker
\* take a task, main() shut down, or a sleeper wake without a notification.
PoolFairSpec ==
  /\ PoolSpec
  /\ WF_poolVars(Refill)
  /\ WF_poolVars(Main /\ mpc # "up" /\ mpc # "dead")
  /\ \A w \in Workers : WF_poolVars(Work(w))

-----------------------------------------------------------------------------
(* Properties *)

Holding == {w \in Workers : wpc[w] = "discard"}
InHand == IF rpc = "push" THEN 1 ELSE 0
Draining == IF mpc = "drain" THEN left ELSE 0

\* Every container the daemon has is in the idle list, in the hands of the one
\* thread that will dispose of it, or excused: acquire() never hands out a
\* container twice and none falls between two owners.
EveryContainerOwned ==
  alive = idle + Cardinality(Holding) + InHand + Draining + excused

\* shutdown() takes the whole pool down: when it has returned, only containers
\* behind a failed docker call are left, and no thread can make another.
ShutdownLeavesNothing ==
  mpc = "down" => alive = excused /\ rpc \in {"none", "exited"}

\* The idle list never exceeds K, although the refill thread creates outside
\* the lock while workers take from the list.
NeverOverfull == idle + InHand <= K

\* After a burst of tasks the refill thread fills the pool up again, whatever
\* docker calls fail, unless a nudge was missed.
RefilledUnlessMissed ==
  (mpc = "up" /\ K > 0) ~> (idle = K \/ missed \/ mpc # "up")

\* shutdown() returns unless its notification found the refill thread between
\* its test of shutting_down_ and its sleep.
ShutdownReturnsUnlessMissed == (mpc = "flagged") ~> (mpc = "down" \/ missed)

-----------------------------------------------------------------------------
(* The inductive invariant behind the safety properties above.             *)

\* Nobody but main is at work while the pool is started or stopped, the refill
\* thread creates only below K, and once it is joined it stays so.
Phases ==
  /\ mpc \notin {"up", "dead"} => \A w \in Workers : wpc[w] = "idle"
  /\ mpc = "boot" => rpc = "none" /\ idle + left <= K
  /\ rpc \in {"create", "push"} => idle < K
  /\ mpc \in {"drain", "down"} => rpc \in {"none", "exited"} /\ idle = 0
  /\ mpc = "down" => left = 0

\* Counting containers is sound only together with the phases: this conjunction
\* is preserved by every step of start(), shutdown(), refill_loop() and the
\* workers.
PoolInv == PoolTypeOK /\ Phases /\ NeverOverfull /\ EveryContainerOwned

=============================================================================
