------------------------ MODULE JudgeSchedulerProofs ------------------------
(***************************************************************************)
(* JudgeScheduler implements SubmissionLifecycle, loses no accepted        *)
(* submission, drains its queue at shutdown and counts its running tasks:  *)
(* for any set of workers and submissions, any queue capacity, any set of  *)
(* faults and any number of duplicates, sweeps and crashes.                *)
(***************************************************************************)
EXTENDS JudgeSchedulerInvariant

USE SMTT(40), ZenonT(40)

-----------------------------------------------------------------------------
(* JudgeScheduler implements SubmissionLifecycle *)

LifeStep == Lifecycle!LifeNext \/ UNCHANGED <<rows, event>>

\* Every step of the pipeline is a step of the lifecycle or leaves it alone.
LEMMA NextIsLifeStep == IInv /\ Next => LifeStep
  <1> SUFFICES ASSUME IInv, Next PROVE LifeStep
    OBVIOUS
  <1> USE DEF LifeStep
  <1>1. CASE Main
    BY <1>1 DEF Main, StartFails, Start, Spawn, ShutdownFlag, NotifyAll, Join, dbVars,
                tallyVars
  <1>2. ASSUME NEW s \in Submissions, CreateRow(s)
        PROVE  LifeStep
    <2>1. rows[s] = "none" /\ UNCHANGED event
      BY <1>2 DEF CreateRow, IInv, FreshIsUnknown, tallyVars
    <2>2. UNCHANGED rows \/ rows' = [rows EXCEPT ![s] = "pending"]
      BY <1>2 DEF CreateRow, SetRow, DbError
    <2>3. CASE rows' = [rows EXCEPT ![s] = "pending"]
      <3>1. Lifecycle!Insert(s)
        BY <2>1, <2>3 DEF Lifecycle!Insert
      <3> QED
        BY <3>1 DEF Lifecycle!LifeNext
    <2> QED
      BY <2>1, <2>2, <2>3
  <1>3. ASSUME NEW s \in Submissions, Handle(s) \/ Reenqueue(s)
        PROVE  LifeStep
    BY <1>3 DEF Handle, LoadCases, CheckRunning, Push, Notify, Reenqueue, dbVars, tallyVars
  <1>4. ASSUME NEW w \in Workers, Claim(w)
        PROVE  LifeStep
    <2> DEFINE s == task[w]
    <2>0. s \in Submissions /\ UNCHANGED event
      BY <1>4, ZenonT(30) DEF Claim, IInv, TypeOK, Outside, tallyVars
    <2>1. UNCHANGED rows \/ (CanClaim(s) /\ rows' = [rows EXCEPT ![s] = "running"])
      BY <1>4, ZenonT(40) DEF Claim, SetRow, DbError, dbVars
    <2>2. CASE CanClaim(s) /\ rows' = [rows EXCEPT ![s] = "running"]
      <3>1. Lifecycle!MarkRunning(s)
        BY <2>0, <2>2 DEF CanClaim, Lifecycle!MarkRunning
      <3> QED
        BY <2>0, <3>1 DEF Lifecycle!LifeNext
    <2> QED
      BY <2>0, <2>1, <2>2
  <1>5. ASSUME NEW w \in Workers, Persist(w) \/ FinishSe(w)
        PROVE  LifeStep
    <2> DEFINE s == task[w]
    <2>0. s \in Submissions /\ UNCHANGED event
      BY <1>5, ZenonT(40) DEF Persist, FinishSe, Step, IInv, TypeOK, Outside, tallyVars
    <2>1. \/ UNCHANGED rows
          \/ \E v \in Verdicts : CanFinish(s) /\ rows' = [rows EXCEPT ![s] = v]
      <3>1. CASE Persist(w)
        <4>1. verdict[w] \in Verdicts
          BY <3>1 DEF Persist, IInv, VerdictKnown
        <4>2. UNCHANGED rows \/ (CanFinish(s) /\ rows' = [rows EXCEPT ![s] = verdict[w]])
          BY <3>1 DEF Persist, SetRow, DbError, dbVars
        <4> QED
          BY <4>1, <4>2
      <3>2. CASE FinishSe(w)
        <4>1. "se" \in Verdicts
          BY DEF Verdicts
        <4>2. UNCHANGED rows \/ (CanFinish(s) /\ rows' = [rows EXCEPT ![s] = "se"])
          BY <3>2 DEF FinishSe, SetRow, DbError, dbVars
        <4> QED
          BY <4>1, <4>2
      <3> QED
        BY <1>5, <3>1, <3>2
    <2>2. ASSUME NEW v \in Verdicts, CanFinish(s), rows' = [rows EXCEPT ![s] = v]
          PROVE  LifeStep
      <3>1. Lifecycle!MarkFinished(s, v)
        BY <2>0, <2>2 DEF CanFinish, Lifecycle!MarkFinished, Lifecycle!Transient
      <3> QED
        BY <2>0, <3>1 DEF Lifecycle!LifeNext, Lifecycle!Verdicts, Verdicts
    <2> QED
      BY <2>0, <2>1, <2>2
  <1>6. ASSUME NEW w \in Workers, Publish(w)
        PROVE  LifeStep
    <2> DEFINE s == task[w]
    <2>0. wpc[w] = "publish" /\ s \in Submissions /\ UNCHANGED rows
      BY <1>6, ZenonT(40) DEF Publish, Step, IInv, TypeOK, Outside, dbVars
    <2>1. rows[s] = verdict[w] /\ verdict[w] \in Verdicts /\ event[s] = "none"
      BY <2>0 DEF IInv, WinnerOwnsRow, Won, VerdictKnown
    <2>2. event' = [event EXCEPT ![s] = rows[s]]
      BY <1>6, <2>1 DEF Publish
    <2>3. Lifecycle!Announce(s)
      BY <2>0, <2>1, <2>2 DEF Lifecycle!Announce, Lifecycle!Verdicts, Verdicts
    <2> QED
      BY <2>0, <2>3 DEF Lifecycle!LifeNext
  <1>7. ASSUME NEW w \in Workers,
               \/ Look(w) \/ Park(w) \/ SpuriousWake(w) \/ Enter(w) \/ Leave(w) \/ Stage(w)
               \/ Create(w) \/ Launch(w) \/ Wait(w) \/ Logs(w) \/ Reap(w) \/ Account(w)
               \/ Cleanup(w)
        PROVE  LifeStep
    BY <1>7, ZenonT(40) DEF Look, Park, SpuriousWake, Enter, Leave, Stage, Create, Launch, Wait, Logs,
                Reap, Account, Cleanup, dbVars, tallyVars
  <1>8. CASE Sweep
    <2>1. PICK S \in SUBSET {s \in Submissions : rows[s] = "running"} :
            rows' = [s \in Submissions |-> IF s \in S THEN "pending" ELSE rows[s]]
      BY <1>8 DEF Sweep
    <2>2. Lifecycle!Requeue(S) /\ S \in SUBSET Submissions
      BY <1>8, <2>1 DEF Sweep, tallyVars, Lifecycle!Requeue
    <2> QED
      BY <2>2 DEF Lifecycle!LifeNext
  <1>9. CASE Crash
    BY <1>9 DEF Crash, tallyVars
  <1> QED
    BY <1>1, <1>2, <1>3, <1>4, <1>5, <1>6, <1>7, <1>8, <1>9 DEF Next, Work, Judge

\* The judge pipeline implements the submission lifecycle: verdicts are final,
\* and a result is announced once, after it is stored and as it is stored.
THEOREM LifecycleRefined == Spec => RefinesLifecycle
  <1>1. Init => Lifecycle!LifeInit
    BY DEF Init, Lifecycle!LifeInit
  <1>2. IInv /\ [Next]_vars => [Lifecycle!LifeNext]_(Lifecycle!lifeVars)
    <2>1. CASE UNCHANGED vars
      BY <2>1 DEF vars, dbVars, tallyVars, Lifecycle!lifeVars
    <2>2. ASSUME IInv, Next PROVE [Lifecycle!LifeNext]_(Lifecycle!lifeVars)
      BY <2>2, NextIsLifeStep DEF LifeStep, Lifecycle!lifeVars
    <2> QED
      BY <2>1, <2>2
  <1> QED
    BY <1>1, <1>2, InvariantHolds, PTL DEF Spec, RefinesLifecycle, Lifecycle!LifeSpec
-----------------------------------------------------------------------------
(* No accepted submission is lost *)

\* A worker that will store a verdict, whatever the row's status; and one that
\* will, if the row is still pending when it claims it.
Settling(w) ==
  wpc[w] \in {"stage", "create", "start", "wait", "logs", "reap", "persist", "reapFail",
              "fail", "failReturn"}
Pursuing(w) == Settling(w) \/ wpc[w] \in {"popped", "claim"}

\* The database answered every statement about the row, and no kill hit it.
Untroubled(s) == hist[s] \cap {"db", "crash"} = {}

\* enqueue() has taken responsibility for the submission.
Owed(s) == s \in acked \/ hpc[s] = "pushed"

\* A submission without a row was never enqueued.
RowPrecedes ==
  \A s \in Submissions : rows[s] = "none" => s \notin acked /\ hpc[s] \in {"idle", "failed"}

\* A running row has a worker that will settle it; a pending one that enqueue()
\* accepted is queued, or has a worker that will claim or settle it.
CaredFor(s) ==
  Untroubled(s) =>
    /\ rows[s] = "running" => \E w \in Workers : task[w] = s /\ Settling(w)
    /\ rows[s] = "pending" /\ Owed(s)
         => Queued(s) \/ \E w \in Workers : task[w] = s /\ Pursuing(w)

LossInv == RowPrecedes /\ \A s \in Submissions : CaredFor(s)

\* A push adds one submission to the queue.
LEMMA QueueAppend ==
  ASSUME TypeOK, NEW r \in Submissions, queue' = Append(queue, r), NEW s \in Submissions
  PROVE  Queued(s)' <=> Queued(s) \/ s = r
  <1>1. Len(queue') = Len(queue) + 1 /\ queue'[Len(queue) + 1] = r
    BY DEF TypeOK
  <1>2. \A i \in 1..Len(queue) : queue'[i] = queue[i]
    BY DEF TypeOK
  <1>3. Len(queue) \in Nat
    BY DEF TypeOK
  <1> QED
    BY <1>1, <1>2, <1>3 DEF Queued

\* A pop takes the first submission off the queue.
LEMMA QueuePop ==
  ASSUME TypeOK, queue # << >>, queue' = Tail(queue), NEW s \in Submissions
  PROVE  /\ Queued(s)' => Queued(s)
         /\ Queued(s) => Queued(s)' \/ s = Head(queue)
  <1>1. Len(queue') = Len(queue) - 1 /\ Len(queue) \in Nat /\ Len(queue) > 0
    BY DEF TypeOK
  <1>2. \A i \in 1..Len(queue') : queue'[i] = queue[i + 1]
    BY DEF TypeOK
  <1>3. Head(queue) = queue[1]
    BY DEF TypeOK
  <1>4. ASSUME NEW i \in 1..Len(queue), i # 1
        PROVE  i - 1 \in 1..Len(queue') /\ queue'[i - 1] = queue[i]
    <2>1. i - 1 \in 1..Len(queue') /\ (i - 1) + 1 = i
      BY <1>1, <1>4
    <2> QED
      BY <1>2, <2>1
  <1>5. ASSUME NEW i \in 1..Len(queue') PROVE i + 1 \in 1..Len(queue)
    BY <1>1
  <1> QED
    BY <1>2, <1>3, <1>4, <1>5 DEF Queued

\* A row's keeper stays when the step touches neither the row nor the worker.
LEMMA CareStays ==
  ASSUME NEW s \in Submissions, CaredFor(s), rows'[s] = rows[s], hist[s] \subseteq hist'[s],
         Owed(s)' => Owed(s), Queued(s) => Queued(s)',
         \A u \in Workers : task[u] = s /\ Pursuing(u)
           => task'[u] = s /\ Pursuing(u)' /\ (Settling(u) => Settling(u)')
  PROVE  CaredFor(s)'
  <1>1. Untroubled(s)' => Untroubled(s)
    BY DEF Untroubled
  <1>2. \A u \in Workers : Settling(u) => Pursuing(u)
    BY DEF Pursuing
  <1> QED
    BY <1>1, <1>2 DEF CaredFor

\* Only CreateRow makes a row, and a row never disappears.
LEMMA RowPrecedesStep ==
  ASSUME TypeOK, FreshIsUnknown, VerdictKnown, RowPrecedes, Next
  PROVE  RowPrecedes'
  <1> SUFFICES ASSUME NEW s \in Submissions, rows'[s] = "none"
               PROVE  s \notin acked' /\ hpc'[s] \in {"idle", "failed"}
    BY DEF RowPrecedes
  <1>q. rows[s] = "none" /\ UNCHANGED <<acked, hpc>>
          => s \notin acked' /\ hpc'[s] \in {"idle", "failed"}
    BY DEF RowPrecedes
  <1>1. CASE Main
    BY <1>1, <1>q DEF Main, StartFails, Start, Spawn, ShutdownFlag, NotifyAll, Join, dbVars,
                      handlerVars
  <1>2. ASSUME NEW r \in Submissions, CreateRow(r)
        PROVE  s \notin acked' /\ hpc'[s] \in {"idle", "failed"}
    <2>1. rows[r] = "none" /\ UNCHANGED acked
      BY <1>2 DEF CreateRow, FreshIsUnknown
    <2>2. CASE s = r
      <3>1. ~SetRow(r, "pending")
        BY <2>2 DEF SetRow, TypeOK
      <3>2. hpc'[s] = "failed"
        BY <1>2, <2>2, <3>1, ZenonT(40) DEF CreateRow, Goto, TypeOK
      <3> QED
        BY <2>1, <2>2, <3>2 DEF RowPrecedes
    <2>3. CASE s # r
      <3>1. rows[s] = "none" /\ hpc'[s] = hpc[s]
        BY <1>2, <2>3 DEF CreateRow, SetRow, DbError, Goto, TypeOK
      <3> QED
        BY <2>1, <3>1 DEF RowPrecedes
    <2> QED
      BY <2>2, <2>3
  <1>3. ASSUME NEW r \in Submissions, Handle(r) \/ Reenqueue(r)
        PROVE  s \notin acked' /\ hpc'[s] \in {"idle", "failed"}
    <2>1. rows[s] = "none"
      BY <1>3 DEF Handle, LoadCases, CheckRunning, Push, Notify, Reenqueue, dbVars
    <2>2. hpc[r] \notin {"idle", "failed"}
      BY <1>3, ZenonT(40) DEF Handle, LoadCases, CheckRunning, Push, Notify, Reenqueue
    <2>3. s # r /\ s \notin acked /\ hpc[s] \in {"idle", "failed"}
      BY <2>1, <2>2 DEF RowPrecedes
    <2>4. hpc'[s] = hpc[s] /\ acked' \subseteq acked \cup {r}
      BY <1>3, <2>3 DEF Handle, LoadCases, CheckRunning, Push, Notify, Reenqueue, Goto, TypeOK
    <2> QED
      BY <2>3, <2>4
  <1>4. ASSUME NEW w \in Workers, Work(w) \/ SpuriousWake(w)
        PROVE  s \notin acked' /\ hpc'[s] \in {"idle", "failed"}
    <2>1. UNCHANGED <<acked, hpc>>
      BY <1>4, ZenonT(40) DEF Work, Look, Park, SpuriousWake, Enter, Leave, Judge, Claim, Stage,
                  Create, Launch, Wait, Logs, Reap, Persist, Account, Publish, FinishSe, Cleanup,
                  handlerVars
    <2>2. CASE Claim(w) \/ Persist(w) \/ FinishSe(w)
      <3>1. rows[s] = "none"
        BY <2>2, ZenonT(40) DEF Claim, Persist, FinishSe, SetRow, DbError, dbVars, TypeOK, VerdictKnown,
                    Verdicts
      <3> QED
        BY <1>q, <2>1, <3>1
    <2>3. CASE UNCHANGED dbVars
      BY <1>q, <2>1, <2>3 DEF dbVars
    <2> QED
      BY <1>4, <2>2, <2>3, ZenonT(40) DEF Work, Look, Park, SpuriousWake, Enter, Leave, Judge, Stage,
                  Create, Launch, Wait, Logs, Reap, Account, Publish, Cleanup
  <1>5. CASE Sweep
    BY <1>5, <1>q, ZenonT(40) DEF Sweep, handlerVars
  <1>6. CASE Crash
    BY <1>6, ZenonT(40) DEF Crash, RowPrecedes
  <1> QED
    BY <1>1, <1>2, <1>3, <1>4, <1>5, <1>6 DEF Next

\* A handler's step: a fresh row is not yet owed, and a push queues what it owes.
LEMMA HandlerCares ==
  ASSUME TypeOK, FreshIsUnknown, LossInv, NEW r \in Submissions,
         CreateRow(r) \/ Handle(r) \/ Reenqueue(r), NEW s \in Submissions
  PROVE  CaredFor(s)'
  <1>0. CaredFor(s)
    BY DEF LossInv
  <1>1. UNCHANGED task
    BY ZenonT(40) DEF CreateRow, Handle, LoadCases, CheckRunning, Push, Notify, Reenqueue, workerVars
  <1>2. \A u \in Workers : Pursuing(u) => wpc'[u] = wpc[u]
    BY ZenonT(40) DEF CreateRow, Handle, LoadCases, CheckRunning, Push, Notify, WakeOne, Reenqueue,
                 workerVars, Pursuing, Settling, TypeOK
  <1>3. \A u \in Workers : Pursuing(u) => Pursuing(u)' /\ (Settling(u) => Settling(u)')
    BY <1>2 DEF Pursuing, Settling
  <1>4. CASE CreateRow(r)
    <2>1. rows[r] = "none" /\ hpc[r] = "idle" /\ UNCHANGED <<acked, queue>>
      BY <1>4, ZenonT(40) DEF CreateRow, FreshIsUnknown
    <2>2. CASE s = r
      <3>1. CASE SetRow(r, "pending") /\ Goto(r, "made")
        <4>1. rows'[s] = "pending" /\ hpc'[s] = "made"
          BY <2>2, <3>1 DEF SetRow, Goto, TypeOK
        <4>2. s \notin acked'
          BY <2>1, <2>2 DEF LossInv, RowPrecedes
        <4> QED
          BY <4>1, <4>2, ZenonT(40) DEF CaredFor, Owed
      <3>2. CASE DbError(r, TRUE, "pending")
        <4>1. "db" \in hist'[s]
          BY <2>2, <3>2 DEF DbError, TypeOK
        <4> QED
          BY <4>1 DEF CaredFor, Untroubled
      <3> QED
        BY <1>4, <3>1, <3>2, ZenonT(40) DEF CreateRow
    <2>3. CASE s # r
      <3>1. rows'[s] = rows[s] /\ hist'[s] = hist[s] /\ hpc'[s] = hpc[s]
        BY <1>4, <2>3 DEF CreateRow, SetRow, DbError, Goto, TypeOK
      <3>2. (Owed(s)' => Owed(s)) /\ (Queued(s) => Queued(s)')
        BY <2>1, <3>1 DEF Owed, Queued
      <3> QED
        BY <1>0, <1>1, <1>3, <3>1, <3>2, CareStays
    <2> QED
      BY <2>2, <2>3
  <1>5. CASE Push(r) /\ s = r /\ queue' = Append(queue, r)
    <2>1. Queued(s)'
      BY <1>5, QueueAppend
    <2>2. UNCHANGED dbVars
      BY <1>5 DEF Push
    <2>3. UNCHANGED rows /\ (Untroubled(s)' <=> Untroubled(s))
      BY <2>2 DEF dbVars, Untroubled
    <2>4. \A u \in Workers : Settling(u) => Pursuing(u)
      BY DEF Pursuing
    <2> QED
      BY <1>0, <1>1, <1>3, <2>1, <2>3, <2>4 DEF CaredFor
  <1>6. CASE (Handle(r) \/ Reenqueue(r)) /\ ~(Push(r) /\ s = r /\ queue' = Append(queue, r))
    <2>1. UNCHANGED dbVars
      BY <1>6 DEF Handle, LoadCases, CheckRunning, Push, Notify, Reenqueue
    <2>2. Owed(s)' => Owed(s)
      <3>1. CASE Push(r)
        <4>1. hpc'[s] = "pushed" => hpc[s] = "pushed"
          BY <1>6, <3>1 DEF Push, Goto, TypeOK
        <4> QED
          BY <3>1, <4>1 DEF Push, Owed
      <3>2. CASE Notify(r)
        BY <3>2 DEF Notify, Goto, TypeOK, Owed
      <3>3. CASE LoadCases(r) \/ CheckRunning(r) \/ Reenqueue(r)
        BY <3>3, ZenonT(40) DEF LoadCases, CheckRunning, Reenqueue, Goto, TypeOK, Owed
      <3> QED
        BY <1>6, <3>1, <3>2, <3>3 DEF Handle
    <2>3. Queued(s) => Queued(s)'
      <3>1. CASE queue' = Append(queue, r)
        BY <3>1, QueueAppend
      <3>2. CASE UNCHANGED queue
        BY <3>2 DEF Queued
      <3> QED
        BY <1>6, <3>1, <3>2 DEF Handle, LoadCases, CheckRunning, Push, Notify, Reenqueue
    <2> QED
      BY <1>0, <1>1, <1>3, <2>1, <2>2, <2>3, CareStays, ZenonT(40) DEF dbVars
  <1> QED
    BY <1>4, <1>5, <1>6

\* worker_loop pops a submission into its own hands, and lets go of one only
\* when it has no statement left to make about it.
LEMMA LoopCares ==
  ASSUME TypeOK, LossInv, NEW w \in Workers,
         Look(w) \/ Park(w) \/ SpuriousWake(w) \/ Enter(w) \/ Leave(w), NEW s \in Submissions
  PROVE  CaredFor(s)'
  <1>0. CaredFor(s)
    BY DEF LossInv
  <1>1. UNCHANGED dbVars /\ (Owed(s)' => Owed(s))
    BY DEF Look, Park, SpuriousWake, Enter, Leave, handlerVars, Owed
  <1>2. CASE Look(w) /\ queue # << >> /\ task' = [task EXCEPT ![w] = Head(queue)]
                     /\ queue' = Tail(queue) /\ Step(w, "top", "popped")
    <2>1. \A u \in Workers : Pursuing(u) => u # w /\ task'[u] = task[u] /\ wpc'[u] = wpc[u]
      BY <1>2 DEF Pursuing, Settling, Step, TypeOK
    <2>2. \A u \in Workers : Pursuing(u) =>
            task'[u] = task[u] /\ Pursuing(u)' /\ (Settling(u) => Settling(u)')
      BY <2>1 DEF Pursuing, Settling
    <2>3. Queued(s) => Queued(s)' \/ s = Head(queue)
      BY <1>2, QueuePop
    <2>4. CASE s # Head(queue)
      BY <1>0, <1>1, <2>2, <2>3, <2>4, CareStays DEF dbVars
    <2>5. CASE s = Head(queue)
      <3>1. task'[w] = s /\ Pursuing(w)'
        BY <1>2, <2>5 DEF Pursuing, Step, TypeOK
      <3>2. UNCHANGED rows /\ (Untroubled(s)' <=> Untroubled(s))
        BY <1>1 DEF dbVars, Untroubled
      <3>3. \A u \in Workers : Settling(u) => Pursuing(u)
        BY DEF Pursuing
      <3> QED
        BY <1>0, <2>2, <3>1, <3>2, <3>3 DEF CaredFor
    <2> QED
      BY <2>4, <2>5
  <1>3. CASE UNCHANGED <<queue, task>>
    <2>1. \A u \in Workers : Pursuing(u) => Pursuing(u)' /\ (Settling(u) => Settling(u)')
      BY <1>3 DEF Look, Park, SpuriousWake, Enter, Leave, Step, Pursuing, Settling, TypeOK
    <2>2. Queued(s) => Queued(s)'
      BY <1>3 DEF Queued
    <2> QED
      BY <1>0, <1>1, <1>3, <2>1, <2>2, CareStays, ZenonT(40) DEF dbVars
  <1>4. CASE Leave(w)
    <2>1. \A u \in Workers : Pursuing(u) => u # w /\ task'[u] = task[u] /\ wpc'[u] = wpc[u]
      BY <1>4 DEF Leave, Pursuing, Settling, Step, TypeOK
    <2>2. \A u \in Workers : Pursuing(u) =>
            task'[u] = task[u] /\ Pursuing(u)' /\ (Settling(u) => Settling(u)')
      BY <2>1 DEF Pursuing, Settling
    <2>3. Queued(s) => Queued(s)'
      BY <1>4 DEF Leave, Queued
    <2> QED
      BY <1>0, <1>1, <2>2, <2>3, CareStays, ZenonT(40) DEF dbVars
  <1> QED
    BY <1>2, <1>3, <1>4 DEF Look, Park, SpuriousWake, Enter

\* The statements of run_one_task: a claim makes the claimer responsible, and
\* whoever was responsible stores a verdict or meets a database error.
LEMMA StatementCares ==
  ASSUME TypeOK, VerdictKnown, LossInv, NEW w \in Workers,
         Claim(w) \/ Persist(w) \/ FinishSe(w), NEW s \in Submissions
  PROVE  CaredFor(s)'
  <1>0. CaredFor(s)
    BY DEF LossInv
  <1>1. UNCHANGED <<task, queue, acked, hpc>>
    BY DEF Claim, Persist, FinishSe, handlerVars
  <1>2. (Owed(s)' => Owed(s)) /\ (Queued(s) => Queued(s)')
    BY <1>1 DEF Owed, Queued
  <1>3. \A u \in Workers \ {w} : wpc'[u] = wpc[u]
    BY DEF Claim, Persist, FinishSe, Step, TypeOK
  <1>4. \A u \in Workers \ {w} : (Pursuing(u) => Pursuing(u)') /\ (Settling(u) => Settling(u)')
    BY <1>3, ZenonT(40) DEF Pursuing, Settling
  <1>5. CASE s # task[w]
    <2>1. rows'[s] = rows[s] /\ hist'[s] = hist[s]
      BY <1>5, ZenonT(40) DEF Claim, Persist, FinishSe, SetRow, DbError, dbVars, TypeOK
    <2> QED
      BY <1>0, <1>1, <1>2, <1>4, <1>5, <2>1, CareStays, ZenonT(40)
  <1>6. CASE s = task[w] /\ \E applies, st : DbError(s, applies, st)
    <2>1. "db" \in hist'[s]
      BY <1>6 DEF DbError, TypeOK
    <2> QED
      BY <2>1, ZenonT(40) DEF CaredFor, Untroubled
  <1>7. CASE s = task[w] /\ \E v \in Verdicts : SetRow(s, v)
    <2>1. rows'[s] \in Verdicts
      BY <1>7 DEF SetRow, TypeOK
    <2> QED
      BY <2>1 DEF CaredFor, Verdicts
  <1>8. CASE s = task[w] /\ ~CanFinish(s) /\ UNCHANGED dbVars
    BY <1>8, ZenonT(40) DEF CaredFor, CanFinish, dbVars
  <1>9. CASE s = task[w] /\ Claim(w) /\ CanClaim(s) /\ SetRow(s, "running")
                         /\ Step(w, "claim", "stage")
    <2>1. rows'[s] = "running" /\ task'[w] = s /\ Settling(w)'
      BY <1>1, <1>9 DEF SetRow, Step, Settling, TypeOK
    <2> QED
      BY <2>1 DEF CaredFor
  <1>10. CASE s = task[w] /\ Claim(w) /\ ~CanClaim(s) /\ UNCHANGED dbVars
    <2>1. ~Settling(w) /\ rows[s] # "pending"
      BY <1>10 DEF Claim, Settling, CanClaim
    <2>2. UNCHANGED rows /\ (Untroubled(s)' <=> Untroubled(s))
      BY <1>10 DEF dbVars, Untroubled
    <2> QED
      BY <1>0, <1>1, <1>4, <2>1, <2>2, ZenonT(40) DEF CaredFor
  <1>11. CASE Claim(w)
    BY <1>5, <1>6, <1>9, <1>10, <1>11, ZenonT(40) DEF Claim
  <1>12. CASE Persist(w)
    <2>1. verdict[w] \in Verdicts
      BY <1>12, ZenonT(40) DEF Persist, VerdictKnown
    <2> QED
      BY <1>5, <1>6, <1>7, <1>8, <1>12, <2>1, ZenonT(40) DEF Persist
  <1>13. CASE FinishSe(w)
    <2>1. "se" \in Verdicts
      BY DEF Verdicts
    <2> QED
      BY <1>5, <1>6, <1>7, <1>8, <1>13, <2>1 DEF FinishSe
  <1> QED
    BY <1>11, <1>12, <1>13

\* The other steps of run_one_task keep their worker responsible until it has
\* stored the verdict.
LEMMA JudgeCares ==
  ASSUME TypeOK, VerdictKnown, LossInv, NEW w \in Workers, Judge(w), NEW s \in Submissions
  PROVE  CaredFor(s)'
  <1>0. CaredFor(s)
    BY DEF LossInv
  <1>1. CASE \/ Stage(w) \/ Create(w) \/ Launch(w) \/ Wait(w) \/ Logs(w) \/ Reap(w)
             \/ Account(w) \/ Publish(w) \/ Cleanup(w)
    <2>1. UNCHANGED <<rows, hist, task, queue, acked, hpc>>
      BY <1>1, ZenonT(40) DEF Stage, Create, Launch, Wait, Logs, Reap, Account, Publish, Cleanup,
                  dbVars, handlerVars
    <2>2. (Owed(s)' => Owed(s)) /\ (Queued(s) => Queued(s)')
      BY <2>1 DEF Owed, Queued
    <2>3. \A u \in Workers : Pursuing(u) => Pursuing(u)' /\ (Settling(u) => Settling(u)')
      <3>1. CASE Stage(w) \/ Create(w) \/ Launch(w) \/ Wait(w)
        BY <3>1 DEF Stage, Create, Launch, Wait, Step, Pursuing, Settling, TypeOK
      <3>2. CASE Logs(w) \/ Reap(w)
        BY <3>2 DEF Logs, Reap, Step, Pursuing, Settling, TypeOK
      <3>3. CASE Account(w) \/ Publish(w) \/ Cleanup(w)
        BY <3>3 DEF Account, Publish, Cleanup, Step, Pursuing, Settling, TypeOK
      <3> QED
        BY <1>1, <3>1, <3>2, <3>3
    <2> QED
      BY <1>0, <2>1, <2>2, <2>3, CareStays, ZenonT(40)
  <1> QED
    BY <1>1, StatementCares DEF Judge

\* Every step keeps every row cared for; a sweep hands a row back to the worker
\* that still judges it, a kill marks the rows it strands.
LEMMA LossStep ==
  ASSUME TypeOK, FreshIsUnknown, VerdictKnown, LossInv, Next
  PROVE  LossInv'
  <1>0. RowPrecedes'
    BY RowPrecedesStep DEF LossInv
  <1> SUFFICES ASSUME NEW s \in Submissions PROVE CaredFor(s)'
    BY <1>0 DEF LossInv
  <1>c. CaredFor(s)
    BY DEF LossInv
  <1>1. CASE Main
    <2>1. UNCHANGED <<rows, hist, task, queue, acked, hpc>>
      BY <1>1, ZenonT(40) DEF Main, StartFails, Start, Spawn, ShutdownFlag, NotifyAll, Join, dbVars,
                  workerVars, handlerVars
    <2>2. \A u \in Workers : Pursuing(u) => wpc'[u] = wpc[u]
      BY <1>1, ZenonT(40) DEF Main, StartFails, Start, Spawn, ShutdownFlag, NotifyAll, WakeAll, Join,
                  workerVars, Pursuing, Settling, TypeOK
    <2>3. \A u \in Workers : Pursuing(u) => Pursuing(u)' /\ (Settling(u) => Settling(u)')
      BY <2>2 DEF Pursuing, Settling
    <2>4. (Owed(s)' => Owed(s)) /\ (Queued(s) => Queued(s)')
      BY <2>1 DEF Owed, Queued
    <2> QED
      BY <1>c, <2>1, <2>3, <2>4, CareStays, ZenonT(40)
  <1>2. ASSUME NEW r \in Submissions, CreateRow(r) \/ Handle(r) \/ Reenqueue(r)
        PROVE  CaredFor(s)'
    BY <1>2, HandlerCares
  <1>3. ASSUME NEW w \in Workers, Work(w) \/ SpuriousWake(w)
        PROVE  CaredFor(s)'
    BY <1>3, LoopCares, JudgeCares DEF Work
  <1>4. CASE Sweep
    <2>1. UNCHANGED <<queue, task, wpc, acked, hpc>>
      BY <1>4 DEF Sweep, workerVars, handlerVars
    <2>2. rows'[s] = rows[s] \/ (rows[s] = "running" /\ rows'[s] = "pending")
      BY <1>4 DEF Sweep, TypeOK
    <2>3. Untroubled(s)' => Untroubled(s)
      <3>1. hist'[s] = hist[s] \/ hist'[s] = hist[s] \cup {"swept"}
        BY <1>4 DEF Sweep, TypeOK
      <3> QED
        BY <3>1 DEF Untroubled
    <2>4. /\ Owed(s)' <=> Owed(s)
          /\ Queued(s)' <=> Queued(s)
          /\ \A u \in Workers : (Pursuing(u)' <=> Pursuing(u)) /\ (Settling(u)' <=> Settling(u))
      BY <2>1 DEF Owed, Queued, Pursuing, Settling
    <2>5. \A u \in Workers : Settling(u) => Pursuing(u)
      BY DEF Pursuing
    <2> QED
      BY <1>c, <2>1, <2>2, <2>3, <2>4, <2>5 DEF CaredFor
  <1>5. CASE Crash
    <2>1. CASE CanFinish(s)
      <3>1. "crash" \in hist'[s]
        BY <1>5, <2>1 DEF Crash
      <3> QED
        BY <3>1 DEF CaredFor, Untroubled
    <2>2. CASE ~CanFinish(s)
      BY <1>5, <2>2, ZenonT(40) DEF Crash, CaredFor, CanFinish
    <2> QED
      BY <2>1, <2>2
  <1> QED
    BY <1>1, <1>2, <1>3, <1>4, <1>5 DEF Next

\* A submission whose client was told 201 is finished, queued, or in a worker's
\* hands, unless the database failed on it or the process was killed.
THEOREM NothingIsLost == Spec => []NothingLost
  <1>1. Init => LossInv
    BY DEF Init, LossInv, RowPrecedes, CaredFor
  <1>2. IInv /\ LossInv /\ [Next]_vars => LossInv'
    <2>1. ASSUME LossInv, UNCHANGED vars
          PROVE  LossInv'
      <3>1. UNCHANGED <<rows, hpc, acked, hist, queue, wpc, task>>
        BY <2>1 DEF vars, dbVars, workerVars, handlerVars
      <3>2. RowPrecedes'
        BY <2>1, <3>1, ZenonT(40) DEF LossInv, RowPrecedes
      <3>3. /\ \A s : Untroubled(s)' = Untroubled(s) /\ Owed(s)' = Owed(s) /\ Queued(s)' = Queued(s)
            /\ \A w : Settling(w)' = Settling(w) /\ Pursuing(w)' = Pursuing(w)
        BY <3>1 DEF Untroubled, Owed, Queued, Settling, Pursuing
      <3> QED
        BY <2>1, <3>1, <3>2, <3>3, ZenonT(40) DEF LossInv, CaredFor
    <2> QED
      BY <2>1, LossStep DEF IInv
  <1>3. IInv /\ LossInv => NothingLost
    <2> SUFFICES ASSUME IInv, LossInv, NEW s \in acked, ~Terminal(s), Untroubled(s)
                 PROVE  Queued(s) \/ Held(s)
      BY DEF NothingLost, Untroubled
    <2>1. s \in Submissions /\ rows[s] \in {"none", "pending", "running"}
      BY DEF IInv, TypeOK, Terminal
    <2>2. rows[s] # "none" /\ CaredFor(s) /\ Owed(s)
      BY <2>1 DEF LossInv, RowPrecedes, Owed
    <2> QED
      BY <2>1, <2>2 DEF CaredFor, Held
  <1> QED
    BY <1>1, <1>2, <1>3, InvariantHolds, PTL DEF Spec

-----------------------------------------------------------------------------
(* shutdown() drains the queue *)

\* start() spawned every worker.
Manned == Workers # {} /\ \A w \in Workers : wpc[w] # "unborn"

\* What the two atomics are in each phase of the main thread, and which requests
\* can be under way in it.
PhaseFlags ==
  /\ mpc \in {"boot", "unstarted"} => ~running_
  /\ mpc \in {"spawn", "up"} => running_
  /\ mpc \in {"flagged", "joining", "down"} => shutting_down_
  /\ mpc = "up" => Manned
  /\ mpc \in {"boot", "spawn"} =>
       \A s \in Submissions : hpc[s] \notin {"made", "loaded", "checked"}

\* Whoever passed, or may still pass, the running_ test of enqueue() has workers.
ChecksAreManned ==
  \A s \in Submissions :
    /\ hpc[s] \in {"made", "loaded"} /\ running_ => Manned
    /\ hpc[s] = "checked" \/ Queued(s)
         => Manned /\ mpc \in {"up", "flagged", "joining", "down"}

\* A worker exits on an empty queue, after which every push is late.
ExitedIsDrained ==
  \A w \in Workers :
    wpc[w] = "exited" => shutting_down_ /\ \A s \in Submissions : Queued(s) => s \in late

DrainInv == PhaseFlags /\ ChecksAreManned /\ ExitedIsDrained /\ DrainedAtShutdown

\* A step that leaves the main thread and the handlers alone, pushes nothing and
\* lets no worker out.
LEMMA DrainStays ==
  ASSUME DrainInv, UNCHANGED <<hpc, late, mainVars>>, Manned => Manned',
         \A s \in Submissions : Queued(s)' => Queued(s),
         \A w \in Workers : wpc'[w] = "exited" => wpc[w] = "exited"
  PROVE  DrainInv'
  <1> USE DEF DrainInv, mainVars
  <1>1. PhaseFlags'
    BY ZenonT(40) DEF PhaseFlags
  <1>2. ChecksAreManned'
    BY DEF ChecksAreManned
  <1>3. ExitedIsDrained' /\ DrainedAtShutdown'
    BY DEF ExitedIsDrained, DrainedAtShutdown
  <1> QED
    BY <1>1, <1>2, <1>3

\* The main thread reaches "down" only over workers that drained the queue, or
\* when nothing could ever be pushed.
LEMMA MainDrains ==
  ASSUME TypeOK, DrainInv, Main
  PROVE  DrainInv'
  <1> USE DEF DrainInv
  <1>1. UNCHANGED <<hpc, late, queue>>
    BY ZenonT(40) DEF Main, StartFails, Start, Spawn, ShutdownFlag, NotifyAll, Join, handlerVars
  <1>2. \A s \in Submissions : Queued(s)' <=> Queued(s)
    BY <1>1 DEF Queued
  <1>3. \A u \in Workers : /\ wpc[u] # "unborn" => wpc'[u] # "unborn"
                           /\ wpc'[u] = "exited" => wpc[u] = "exited"
    BY ZenonT(40) DEF Main, StartFails, Start, Spawn, ShutdownFlag, NotifyAll, WakeAll, Join, workerVars,
           TypeOK
  <1>4. Manned => Manned'
    BY <1>3 DEF Manned
  <1>5. CASE StartFails
    <2>1. mpc = "boot" /\ mpc' = "unstarted" /\ UNCHANGED <<running_, shutting_down_>>
      BY <1>5 DEF StartFails
    <2> QED
      BY <1>1, <1>2, <1>3, <1>4, <2>1, ZenonT(40)
         DEF PhaseFlags, ChecksAreManned, ExitedIsDrained, DrainedAtShutdown
  <1>6. CASE Start
    <2>1. mpc = "boot" /\ mpc' = "spawn" /\ running_' = TRUE /\ UNCHANGED shutting_down_
      BY <1>6 DEF Start
    <2> QED
      BY <1>1, <1>2, <1>3, <1>4, <2>1, ZenonT(40)
         DEF PhaseFlags, ChecksAreManned, ExitedIsDrained, DrainedAtShutdown
  <1>7. ASSUME NEW w \in Workers, Spawn(w)
        PROVE  DrainInv'
    <2>1. mpc = "spawn" /\ mpc' \in {"spawn", "up"} /\ UNCHANGED <<running_, shutting_down_>>
      BY <1>7 DEF Spawn
    <2>2. mpc' = "up" => Manned'
      BY <1>7 DEF Spawn, Manned, TypeOK
    <2> QED
      BY <1>1, <1>2, <1>3, <1>4, <2>1, <2>2, ZenonT(40)
         DEF PhaseFlags, ChecksAreManned, ExitedIsDrained, DrainedAtShutdown
  <1>8. CASE ShutdownFlag
    <2>1. /\ mpc \in {"spawn", "up", "unstarted"} /\ mpc' \in {"flagged", "down"}
          /\ mpc' = "down" => ~running_
          /\ shutting_down_' = TRUE /\ UNCHANGED running_
      BY <1>8 DEF ShutdownFlag
    <2>2. PhaseFlags'
      BY <2>1 DEF PhaseFlags
    <2>3. ChecksAreManned'
      BY <1>1, <1>2, <1>4, <2>1 DEF ChecksAreManned
    <2>4. ExitedIsDrained'
      BY <1>1, <1>2, <1>3, <2>1 DEF ExitedIsDrained
    <2>5. DrainedAtShutdown'
      BY <1>2, <2>1 DEF DrainedAtShutdown, PhaseFlags, ChecksAreManned
    <2> QED
      BY <2>2, <2>3, <2>4, <2>5
  <1>9. CASE NotifyAll
    <2>1. mpc = "flagged" /\ mpc' = "joining" /\ UNCHANGED <<running_, shutting_down_>>
      BY <1>9 DEF NotifyAll
    <2> QED
      BY <1>1, <1>2, <1>3, <1>4, <2>1, ZenonT(40)
         DEF PhaseFlags, ChecksAreManned, ExitedIsDrained, DrainedAtShutdown
  <1>10. CASE Join
    <2>1. /\ mpc = "joining" /\ mpc' \in {"unstarted", "down"}
          /\ running_' = FALSE /\ UNCHANGED shutting_down_
          /\ \A w \in Workers : wpc[w] \in {"exited", "unborn"}
          /\ mpc' = "unstarted" => ~Manned
      BY <1>10 DEF Join, Manned
    <2>2. PhaseFlags'
      BY <2>1 DEF PhaseFlags
    <2>3. ChecksAreManned'
      BY <1>1, <1>2, <1>4, <2>1 DEF ChecksAreManned
    <2>4. ExitedIsDrained'
      BY <1>1, <1>2, <1>3, <2>1 DEF ExitedIsDrained
    <2>5. DrainedAtShutdown'
      <3> SUFFICES ASSUME NEW s \in Submissions, Queued(s)' PROVE s \in late'
        BY DEF DrainedAtShutdown
      <3>1. Manned
        BY <1>2 DEF ChecksAreManned
      <3>2. PICK w \in Workers : wpc[w] = "exited"
        BY <2>1, <3>1 DEF Manned
      <3> QED
        BY <1>1, <1>2, <3>2 DEF ExitedIsDrained
    <2> QED
      BY <2>2, <2>3, <2>4, <2>5
  <1> QED
    BY <1>5, <1>6, <1>7, <1>8, <1>9, <1>10 DEF Main

\* A handler that passed the running_ test has workers, and pushes late once
\* shutdown() has begun.
LEMMA HandlerDrains ==
  ASSUME TypeOK, DrainInv, NEW r \in Submissions, CreateRow(r) \/ Handle(r) \/ Reenqueue(r)
  PROVE  DrainInv'
  <1> USE DEF DrainInv
  <1>1. UNCHANGED <<mpc, running_, shutting_down_>>
    BY ZenonT(40) DEF CreateRow, Handle, LoadCases, CheckRunning, Push, Notify, Reenqueue, mainVars
  <1>2. \A u \in Workers : /\ wpc[u] # "unborn" => wpc'[u] # "unborn"
                           /\ wpc'[u] = "exited" => wpc[u] = "exited"
    BY ZenonT(40) DEF CreateRow, Handle, LoadCases, CheckRunning, Push, Notify, WakeOne, Reenqueue,
                 workerVars, TypeOK
  <1>3. Manned => Manned'
    BY <1>2 DEF Manned
  <1>4. \A s \in Submissions \ {r} : hpc'[s] = hpc[s]
    BY ZenonT(40) DEF CreateRow, Handle, LoadCases, CheckRunning, Push, Notify, Reenqueue, Goto, TypeOK
  <1>5. CASE Push(r) /\ queue' = Append(queue, r)
    <2>1. hpc[r] = "checked" /\ hpc'[r] = "pushed"
          /\ late' = IF shutting_down_ THEN late \cup {r} ELSE late
      BY <1>5 DEF Push, Goto, TypeOK, Full
    <2>2. \A s \in Submissions : Queued(s)' <=> Queued(s) \/ s = r
      BY <1>5, QueueAppend
    <2>3. PhaseFlags'
      BY <1>1, <1>3, <1>4, <2>1 DEF PhaseFlags
    <2>4. ChecksAreManned'
      BY <1>1, <1>3, <1>4, <2>1, <2>2, ZenonT(40) DEF ChecksAreManned
    <2>5. ExitedIsDrained' /\ DrainedAtShutdown'
      BY <1>1, <1>2, <2>1, <2>2, ZenonT(40) DEF PhaseFlags, ExitedIsDrained, DrainedAtShutdown
    <2> QED
      BY <2>3, <2>4, <2>5
  <1>6. CASE UNCHANGED <<queue, late>>
    <2>1. \A s \in Submissions : Queued(s)' <=> Queued(s)
      BY <1>6 DEF Queued
    <2>2. \/ hpc'[r] \notin {"made", "loaded", "checked"}
          \/ Serving /\ hpc'[r] \in {"made", "loaded"}
          \/ hpc[r] = "made" /\ hpc'[r] = "loaded"
          \/ hpc[r] = "loaded" /\ hpc'[r] = "checked" /\ running_
      BY ZenonT(40) DEF CreateRow, Handle, LoadCases, CheckRunning, Push, Notify, Reenqueue, Goto, TypeOK
    <2>3. PhaseFlags'
      BY <1>1, <1>3, <1>4, <2>2, ZenonT(40) DEF PhaseFlags, Serving
    <2>4. ChecksAreManned'
      BY <1>1, <1>3, <1>4, <2>1, <2>2 DEF PhaseFlags, ChecksAreManned, Serving, TypeOK, MainPCs
    <2>5. ExitedIsDrained' /\ DrainedAtShutdown'
      BY <1>1, <1>2, <1>6, <2>1, ZenonT(40) DEF ExitedIsDrained, DrainedAtShutdown
    <2> QED
      BY <2>3, <2>4, <2>5
  <1> QED
    BY <1>5, <1>6, ZenonT(40) DEF CreateRow, Handle, LoadCases, CheckRunning, Push, Notify, Reenqueue

\* A worker leaves worker_loop only on an empty queue.
LEMMA WorkerDrains ==
  ASSUME TypeOK, DrainInv, NEW w \in Workers, Work(w) \/ SpuriousWake(w)
  PROVE  DrainInv'
  <1>1. UNCHANGED <<hpc, late, mainVars>>
    BY ZenonT(40) DEF Work, Look, Park, SpuriousWake, Enter, Leave, Judge, Claim, Stage, Create,
                 Launch, Wait, Logs, Reap, Persist, Account, Publish, FinishSe, Cleanup,
                 handlerVars
  <1>2. CASE Look(w)
    <2>1. Manned => Manned'
      BY <1>2 DEF Look, Step, Manned, TypeOK
    <2>2. CASE MayExit /\ Step(w, "top", "exited") /\ UNCHANGED <<queue, task>>
      <3>1. shutting_down_ /\ \A s \in Submissions : ~Queued(s) /\ ~Queued(s)'
        BY <2>2 DEF MayExit, Queued
      <3>2. PhaseFlags'
        BY <1>1, <2>1, ZenonT(40) DEF DrainInv, PhaseFlags, mainVars
      <3>3. ChecksAreManned'
        BY <1>1, <2>1, <3>1 DEF DrainInv, ChecksAreManned, mainVars
      <3>4. ExitedIsDrained' /\ DrainedAtShutdown'
        BY <1>1, <3>1 DEF ExitedIsDrained, DrainedAtShutdown, mainVars
      <3> QED
        BY <3>2, <3>3, <3>4 DEF DrainInv
    <2>3. CASE Step(w, "top", "parking") \/ Step(w, "top", "popped")
      <3>1. \A u \in Workers : wpc'[u] = "exited" => wpc[u] = "exited"
        BY <2>3 DEF Step, TypeOK
      <3>2. UNCHANGED queue \/ (queue # << >> /\ queue' = Tail(queue))
        BY <1>2, ZenonT(40) DEF Look
      <3>3. \A s \in Submissions : Queued(s)' => Queued(s)
        BY <3>2, QueuePop DEF Queued
      <3> QED
        BY <1>1, <2>1, <3>1, <3>3, DrainStays
    <2> QED
      BY <1>2, <2>2, <2>3 DEF Look
  <1>3. CASE ~Look(w)
    <2>1. UNCHANGED queue
      BY <1>3, ZenonT(40) DEF Work, Park, SpuriousWake, Enter, Leave, Judge, Claim, Stage, Create,
                   Launch, Wait, Logs, Reap, Persist, Account, Publish, FinishSe, Cleanup
    <2>2. \E from, to \in WorkerPCs \ {"unborn", "exited"} : Step(w, from, to)
      <3>1. CASE Park(w) \/ SpuriousWake(w) \/ Enter(w) \/ Leave(w)
        BY <3>1 DEF Park, SpuriousWake, Enter, Leave, WorkerPCs
      <3>2. CASE Claim(w) \/ Stage(w) \/ Create(w) \/ Launch(w) \/ Wait(w) \/ Logs(w)
        BY <3>2, ZenonT(40) DEF Claim, Stage, Create, Launch, Wait, Logs, WorkerPCs
      <3>3. CASE Reap(w) \/ Persist(w) \/ Account(w) \/ Publish(w) \/ FinishSe(w) \/ Cleanup(w)
        BY <3>3 DEF Reap, Persist, Account, Publish, FinishSe, Cleanup, WorkerPCs
      <3> QED
        BY <1>3, <3>1, <3>2, <3>3 DEF Work, Judge
    <2>3. \A u \in Workers : /\ wpc[u] # "unborn" => wpc'[u] # "unborn"
                             /\ wpc'[u] = "exited" => wpc[u] = "exited"
      BY <2>2 DEF Step, TypeOK
    <2>4. Manned => Manned'
      BY <2>3 DEF Manned
    <2>5. \A s \in Submissions : Queued(s)' => Queued(s)
      BY <2>1 DEF Queued
    <2> QED
      BY <1>1, <2>3, <2>4, <2>5, DrainStays
  <1> QED
    BY <1>2, <1>3

\* When shutdown() has returned, what is still queued was pushed after it began:
\* a handler that passed the running_ test before the flag was stored.
THEOREM QueueIsDrained == Spec => []DrainedAtShutdown
  <1>1. Init => DrainInv
    BY DEF Init, DrainInv, PhaseFlags, ChecksAreManned, ExitedIsDrained, DrainedAtShutdown, Queued
  <1>2. TypeOK /\ DrainInv /\ [Next]_vars => DrainInv'
    <2> SUFFICES ASSUME TypeOK, DrainInv, [Next]_vars PROVE DrainInv'
      OBVIOUS
    <2>1. CASE UNCHANGED vars \/ Sweep
      <3>1. UNCHANGED <<hpc, late, mainVars, queue, wpc>>
        BY <2>1, ZenonT(40) DEF Sweep, vars, workerVars, handlerVars
      <3> QED
        BY <3>1, DrainStays DEF Manned, Queued
    <2>2. CASE Crash
      <3>1. /\ mpc' = "boot" /\ ~running_' /\ queue' = << >>
            /\ \A s \in Submissions : hpc'[s] \notin {"made", "loaded", "checked"}
            /\ \A w \in Workers : wpc'[w] # "exited"
        BY <2>2 DEF Crash
      <3>2. \A s : ~Queued(s)'
        BY <3>1 DEF Queued
      <3> QED
        BY <3>1, <3>2 DEF DrainInv, PhaseFlags, ChecksAreManned, ExitedIsDrained, DrainedAtShutdown
    <2> QED
      BY <2>1, <2>2, MainDrains, HandlerDrains, WorkerDrains DEF Next
  <1> QED
    BY <1>1, <1>2, TypesHold, PTL DEF Spec, DrainInv

-----------------------------------------------------------------------------
(* The health probe's counter *)

INSTANCE FiniteSetTheorems

\* A step that moves no worker in or out of the task body and leaves the counter
\* alone keeps it exact.
LEMMA QuietKeepsCount ==
  ASSUME RunningCountExact, InBody' = InBody, UNCHANGED running_count_
  PROVE  RunningCountExact'
  BY DEF RunningCountExact

\* running_count_ stays the number of workers in the task body.
LEMMA CountStep ==
  ASSUME TypeOK, RunningCountExact, Next
  PROVE  RunningCountExact'
  <1> USE DEF InBody, Outside
  <1>f. IsFiniteSet(InBody)
    BY SchedulerAssumption, FS_Subset
  <1>1. CASE Main
    <2>1. InBody' = InBody /\ UNCHANGED running_count_
      BY <1>1, ZenonT(40) DEF Main, StartFails, Start, Spawn, ShutdownFlag, NotifyAll, WakeAll, Join,
                  workerVars, TypeOK
    <2> QED
      BY <2>1, QuietKeepsCount
  <1>2. ASSUME NEW s \in Submissions, CreateRow(s) \/ Handle(s) \/ Reenqueue(s)
        PROVE  RunningCountExact'
    <2>1. InBody' = InBody /\ UNCHANGED running_count_
      BY <1>2, ZenonT(40) DEF CreateRow, Handle, LoadCases, CheckRunning, Push, Notify, WakeOne,
                  Reenqueue, workerVars, TypeOK
    <2> QED
      BY <2>1, QuietKeepsCount
  <1>3. ASSUME NEW w \in Workers, Look(w) \/ Park(w) \/ SpuriousWake(w) \/ Judge(w)
        PROVE  RunningCountExact'
    <2>1. InBody' = InBody /\ UNCHANGED running_count_
      <3>1. CASE Look(w) \/ Park(w) \/ SpuriousWake(w)
        BY <3>1 DEF Look, Park, SpuriousWake, Step, TypeOK
      <3>2. CASE Judge(w)
        BY <3>2, ZenonT(40) DEF Judge, Claim, Stage, Create, Launch, Wait, Logs, Reap, Persist, Account,
                    Publish, FinishSe, Cleanup, Step, TypeOK
      <3> QED
        BY <1>3, <3>1, <3>2
    <2> QED
      BY <2>1, QuietKeepsCount
  <1>4. ASSUME NEW w \in Workers, Enter(w)
        PROVE  RunningCountExact'
    <2>1. w \notin InBody /\ InBody' = InBody \cup {w} /\ running_count_' = running_count_ + 1
      BY <1>4 DEF Enter, Step, TypeOK
    <2> QED
      BY <1>f, <2>1, FS_AddElement, ZenonT(40) DEF RunningCountExact
  <1>5. ASSUME NEW w \in Workers, Leave(w)
        PROVE  RunningCountExact'
    <2>1. w \in InBody /\ InBody' = InBody \ {w} /\ running_count_' = running_count_ - 1
      BY <1>5 DEF Leave, Step, TypeOK
    <2> QED
      BY <1>f, <2>1, FS_RemoveElement, ZenonT(40) DEF RunningCountExact
  <1>6. CASE Sweep
    BY <1>6, QuietKeepsCount DEF Sweep, workerVars
  <1>7. CASE Crash
    <2>1. InBody' = {} /\ running_count_' = 0
      BY <1>7 DEF Crash
    <2> QED
      BY <2>1, FS_EmptySet DEF RunningCountExact
  <1> QED
    BY <1>1, <1>2, <1>3, <1>4, <1>5, <1>6, <1>7 DEF Next, Work

\* running_count() is the number of workers inside run_one_task, and so never
\* wraps below zero.
THEOREM RunningCountHolds == Spec => []RunningCountExact
  <1>1. Init => RunningCountExact
    <2> SUFFICES ASSUME Init PROVE RunningCountExact
      OBVIOUS
    <2>1. InBody = {}
      BY DEF Init, InBody, Outside
    <2> QED
      BY <2>1, FS_EmptySet DEF Init, RunningCountExact
  <1>2. TypeOK /\ RunningCountExact /\ [Next]_vars => RunningCountExact'
    <2> SUFFICES ASSUME TypeOK, RunningCountExact, [Next]_vars PROVE RunningCountExact'
      OBVIOUS
    <2>1. CASE UNCHANGED vars
      BY <2>1 DEF vars, workerVars, RunningCountExact, InBody
    <2> QED
      BY <2>1, CountStep
  <1> QED
    BY <1>1, <1>2, TypesHold, PTL DEF Spec
=============================================================================
