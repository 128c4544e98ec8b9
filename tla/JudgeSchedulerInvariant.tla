---------------------- MODULE JudgeSchedulerInvariant -----------------------
(***************************************************************************)
(* The inductive invariant of JudgeScheduler, for any set of workers and   *)
(* submissions, any queue capacity, any set of faults and any number of    *)
(* duplicates, sweeps and crashes.  First its types, and what rests on     *)
(* them alone: the queue never outgrows max_queue_size, a task leaves      *)
(* nothing on the host unless a removal failed, a fresh submission is      *)
(* unknown to the pipeline, and a worker that will persist a verdict has   *)
(* one.  Then who has won a row, and who has claimed it.                   *)
(***************************************************************************)
EXTENDS JudgeScheduler, TLAPS

USE SMTT(40), ZenonT(40)

\* The type of the table and of its history.
RowsTyped ==
  /\ rows \in [Submissions -> {"none", "pending", "running"} \cup Verdicts]
  /\ hist \in [Submissions -> SUBSET {"db", "swept", "crash"}]

\* A statement that is applied keeps the table typed.
LEMMA SetRowTyped ==
  ASSUME RowsTyped, NEW s \in Submissions,
         NEW st \in {"none", "pending", "running"} \cup Verdicts, SetRow(s, st)
  PROVE  RowsTyped'
  BY DEF SetRow, RowsTyped

\* A statement that fails, applied or not, keeps the table typed.
LEMMA DbErrorTyped ==
  ASSUME RowsTyped, NEW s \in Submissions, NEW applies,
         NEW st \in {"none", "pending", "running"} \cup Verdicts,
         DbError(s, applies, st)
  PROVE  RowsTyped'
  <1>1. hist[s] \cup {"db"} \in SUBSET {"db", "swept", "crash"}
    BY DEF RowsTyped
  <1>2. hist' \in [Submissions -> SUBSET {"db", "swept", "crash"}]
    BY <1>1 DEF RowsTyped, DbError
  <1> QED
    BY <1>2 DEF RowsTyped, DbError

\* The main thread's steps keep every variable in its type.
LEMMA MainKeepsTypes == TypeOK /\ Main => TypeOK'
  <1> SUFFICES ASSUME TypeOK, Main PROVE TypeOK'
    OBVIOUS
  <1>1. CASE StartFails
    BY <1>1 DEF StartFails, TypeOK, dbVars, workerVars, handlerVars, tallyVars,
                bounds, MainPCs
  <1>2. CASE Start
    BY <1>2 DEF Start, TypeOK, dbVars, workerVars, handlerVars, tallyVars,
                bounds, MainPCs
  <1>3. ASSUME NEW w \in Workers, Spawn(w) PROVE TypeOK'
    BY <1>3 DEF Spawn, TypeOK, dbVars, handlerVars, tallyVars, bounds, MainPCs,
                WorkerPCs, Outside
  <1>4. CASE ShutdownFlag
    BY <1>4 DEF ShutdownFlag, TypeOK, dbVars, workerVars, handlerVars, tallyVars,
                bounds, MainPCs
  <1>5. CASE NotifyAll
    BY <1>5 DEF NotifyAll, WakeAll, TypeOK, dbVars, handlerVars, tallyVars, bounds,
                MainPCs, WorkerPCs, Outside
  <1>6. CASE Join
    BY <1>6, ZenonT(40) DEF Join, TypeOK, dbVars, workerVars, handlerVars, tallyVars,
                bounds, MainPCs
  <1> QED
    BY <1>1, <1>2, <1>3, <1>4, <1>5, <1>6 DEF Main

\* A handler's steps keep every variable in its type.
LEMMA HandlerKeepsTypes ==
  ASSUME TypeOK, NEW s \in Submissions, CreateRow(s) \/ Handle(s) \/ Reenqueue(s)
  PROVE  TypeOK'
  <1>1. CASE CreateRow(s)
    <2>1. RowsTyped
      BY DEF TypeOK, RowsTyped
    <2>2. RowsTyped'
      BY <1>1, <2>1, SetRowTyped, DbErrorTyped, ZenonT(40) DEF CreateRow
    <2>3. hpc' \in [Submissions -> HandlerPCs]
      BY <1>1, ZenonT(40) DEF CreateRow, Goto, TypeOK, HandlerPCs
    <2> QED
      BY <1>1, <2>2, <2>3 DEF RowsTyped, CreateRow, TypeOK, mainVars, workerVars, tallyVars,
                                    bounds
  <1>2. CASE LoadCases(s)
    BY <1>2, ZenonT(40) DEF LoadCases, Goto, TypeOK, dbVars, mainVars, workerVars, tallyVars,
                bounds, HandlerPCs
  <1>3. CASE CheckRunning(s)
    BY <1>3 DEF CheckRunning, Goto, TypeOK, dbVars, mainVars, workerVars, tallyVars,
                bounds, HandlerPCs
  <1>4. CASE Push(s)
    <2>1. queue' \in Seq(Submissions)
      <3>1. Append(queue, s) \in Seq(Submissions)
        BY DEF TypeOK
      <3> QED
        BY <1>4, <3>1, ZenonT(40) DEF Push, TypeOK
    <2>2. hpc' \in [Submissions -> HandlerPCs] /\ late' \subseteq Submissions
      BY <1>4, ZenonT(40) DEF Push, Goto, TypeOK, HandlerPCs
    <2> QED
      BY <1>4, <2>1, <2>2 DEF Push, TypeOK, dbVars, mainVars, workerVars, tallyVars,
                              bounds
  <1>5. CASE Notify(s)
    BY <1>5, ZenonT(40) DEF Notify, WakeOne, Goto, TypeOK, dbVars, mainVars, tallyVars, bounds,
                HandlerPCs, WorkerPCs, Outside
  <1>6. CASE Reenqueue(s)
    BY <1>6 DEF Reenqueue, Goto, TypeOK, dbVars, mainVars, workerVars, tallyVars,
                bounds, HandlerPCs
  <1> QED
    BY <1>1, <1>2, <1>3, <1>4, <1>5, <1>6 DEF Handle

\* The steps of worker_loop keep every variable in its type.
LEMMA LoopKeepsTypes ==
  ASSUME TypeOK, NEW w \in Workers,
         Look(w) \/ Park(w) \/ SpuriousWake(w) \/ Enter(w) \/ Leave(w)
  PROVE  TypeOK'
  <1> USE DEF Step, dbVars, mainVars, handlerVars, tallyVars, bounds
  <1>1. CASE Look(w)
    <2> queue # << >> => Head(queue) \in Submissions /\ Tail(queue) \in Seq(Submissions)
      BY DEF TypeOK
    <2>1. queue' \in Seq(Submissions)
      BY <1>1, ZenonT(40) DEF Look, TypeOK
    <2>2. task' \in [Workers -> Submissions \cup {NoTask}]
      BY <1>1, ZenonT(40) DEF Look, TypeOK
    <2>3. wpc' \in [Workers -> WorkerPCs]
      BY <1>1, ZenonT(40) DEF Look, TypeOK, WorkerPCs
    <2>4. \A u \in Workers : (task'[u] = NoTask) <=> (wpc'[u] \in Outside)
      BY <1>1, SchedulerAssumption, ZenonT(30) DEF Look, TypeOK, Outside
    <2> QED
      BY <1>1, <2>1, <2>2, <2>3, <2>4 DEF Look, TypeOK
  <1>2. CASE Park(w)
    BY <1>2 DEF Park, TypeOK, WorkerPCs, Outside
  <1>3. CASE SpuriousWake(w)
    BY <1>3 DEF SpuriousWake, TypeOK, WorkerPCs, Outside
  <1>4. CASE Enter(w)
    BY <1>4 DEF Enter, TypeOK, WorkerPCs, Outside
  <1>5. CASE Leave(w)
    <2>1. running_count_' \in Int
      BY <1>5 DEF Leave, TypeOK
    <2>2. wpc' \in [Workers -> WorkerPCs] /\ task' \in [Workers -> Submissions \cup {NoTask}]
      BY <1>5 DEF Leave, TypeOK, WorkerPCs
    <2>3. \A u \in Workers : (task'[u] = NoTask) <=> (wpc'[u] \in Outside)
      BY <1>5 DEF Leave, TypeOK, Outside
    <2>4. owned' \in [Workers -> SUBSET {"dir", "box"}] /\ litter' \subseteq {"dir", "box"}
      BY <1>5, ZenonT(40) DEF Leave, TypeOK
    <2> QED
      BY <1>5, <2>1, <2>2, <2>3, <2>4 DEF Leave, TypeOK
  <1> QED
    BY <1>1, <1>2, <1>3, <1>4, <1>5

\* The steps of run_one_task keep every variable in its type.
LEMMA JudgeKeepsTypes ==
  ASSUME TypeOK, VerdictKnown, NEW w \in Workers, Judge(w)
  PROVE  TypeOK'
  <1> DEFINE Paired == \A u \in Workers : (task'[u] = NoTask) <=> (wpc'[u] \in Outside)
  <1> USE DEF Step, dbVars, mainVars, handlerVars, tallyVars, bounds
  <1>0. RowsTyped
    BY DEF TypeOK, RowsTyped
  <1>s. wpc[w] \notin Outside => task[w] \in Submissions
    BY DEF TypeOK
  <1>1. CASE Claim(w)
    <2>1. RowsTyped'
      BY <1>0, <1>1, <1>s, SetRowTyped, DbErrorTyped DEF Claim, Outside, RowsTyped
    <2>2. wpc' \in [Workers -> WorkerPCs] /\ Paired
      BY <1>1, ZenonT(40) DEF Claim, TypeOK, WorkerPCs, Outside
    <2> QED
      BY <1>1, <2>1, <2>2 DEF RowsTyped, Claim, TypeOK
  <1>2. CASE Stage(w)
    <2>1. wpc' \in [Workers -> WorkerPCs] /\ Paired
      BY <1>2, ZenonT(30) DEF Stage, TypeOK, WorkerPCs, Outside
    <2>2. PICK made \in {{}, {"dir"}} : owned' = [owned EXCEPT ![w] = made]
      BY <1>2 DEF Stage
    <2>3. made \in SUBSET {"dir", "box"}
      OBVIOUS
    <2>4. owned' \in [Workers -> SUBSET {"dir", "box"}]
      BY <2>2, <2>3 DEF TypeOK
    <2> QED
      BY <1>2, <2>1, <2>4 DEF Stage, TypeOK
  <1>3. CASE Create(w)
    <2>1. wpc' \in [Workers -> WorkerPCs] /\ Paired
      BY <1>3, ZenonT(40) DEF Create, TypeOK, WorkerPCs, Outside
    <2>2. owned[w] \cup {"box"} \in SUBSET {"dir", "box"}
      BY DEF TypeOK
    <2>3. owned' \in [Workers -> SUBSET {"dir", "box"}]
      BY <1>3, <2>2, ZenonT(40) DEF Create, TypeOK
    <2>4. litter' = litter \/ \E made \in {{}, {"box"}} : litter' = litter \cup made
      BY <1>3 DEF Create
    <2>5. litter' \subseteq {"dir", "box"}
      BY <2>4, ZenonT(40) DEF TypeOK
    <2> QED
      BY <1>3, <2>1, <2>3, <2>5 DEF Create, TypeOK
  <1>4. CASE Launch(w)
    BY <1>4, ZenonT(40) DEF Launch, TypeOK, WorkerPCs, Outside
  <1>5. CASE Wait(w)
    BY <1>5, ZenonT(30) DEF Wait, TypeOK, WorkerPCs, Outside
  <1>6. CASE Logs(w)
    BY <1>6 DEF Logs, JudgeAnswers, TypeOK, WorkerPCs, Outside, Verdicts
  <1>7. CASE Reap(w)
    <2>1. wpc' \in [Workers -> WorkerPCs] /\ Paired
      BY <1>7, ZenonT(40) DEF Reap, TypeOK, WorkerPCs, Outside
    <2>2. owned[w] \ {"box"} \in SUBSET {"dir", "box"}
      BY DEF TypeOK
    <2>3. owned' \in [Workers -> SUBSET {"dir", "box"}]
      BY <1>7, <2>2 DEF Reap, TypeOK
    <2> QED
      BY <1>7, <2>1, <2>3 DEF Reap, TypeOK
  <1>8. CASE Persist(w)
    <2>1. RowsTyped'
      BY <1>0, <1>8, <1>s, SetRowTyped, DbErrorTyped,
         ZenonT(40) DEF Persist, Outside, RowsTyped, VerdictKnown
    <2>2. wpc' \in [Workers -> WorkerPCs] /\ Paired
      BY <1>8, ZenonT(30) DEF Persist, TypeOK, WorkerPCs, Outside
    <2> QED
      BY <1>8, <2>1, <2>2 DEF RowsTyped, Persist, TypeOK
  <1>9. CASE Account(w)
    <2>1. wpc' \in [Workers -> WorkerPCs] /\ Paired
      BY <1>9 DEF Account, TypeOK, WorkerPCs, Outside
    <2>2. verdict[w] \in Verdicts /\ task[w] \in Submissions
      BY <1>9, <1>s DEF Account, VerdictKnown, Outside
    <2>3. counted' \in [Submissions -> [Verdicts -> Nat]] /\ checkins' \subseteq Submissions
      BY <1>9, <2>2 DEF Account, TypeOK
    <2> QED
      BY <1>9, <2>1, <2>3 DEF Account, TypeOK
  <1>10. CASE Publish(w)
    <2>1. verdict[w] \in Verdicts
      BY <1>10 DEF Publish, VerdictKnown
    <2> QED
      BY <1>10, <2>1, ZenonT(40) DEF Publish, TypeOK, WorkerPCs, Outside
  <1>11. CASE FinishSe(w)
    <2>1. wpc' \in [Workers -> WorkerPCs] /\ Paired
      BY <1>11, ZenonT(30) DEF FinishSe, TypeOK, WorkerPCs, Outside
    <2>2. task[w] \in Submissions /\ "se" \in Verdicts
      BY <1>11, <1>s DEF FinishSe, Outside, Verdicts
    <2>3. RowsTyped'
      BY <1>0, <1>11, <2>2, SetRowTyped, DbErrorTyped DEF FinishSe, RowsTyped
    <2>4. counted' \in [Submissions -> [Verdicts -> Nat]]
      BY <1>11, <2>2 DEF FinishSe, TypeOK
    <2> QED
      BY <1>11, <2>1, <2>3, <2>4 DEF RowsTyped, FinishSe, TypeOK
  <1>12. CASE Cleanup(w)
    <2>1. wpc' \in [Workers -> WorkerPCs] /\ Paired
      BY <1>12 DEF Cleanup, TypeOK, WorkerPCs, Outside
    <2>2. owned[w] \ {"dir"} \in SUBSET {"dir", "box"}
      BY DEF TypeOK
    <2>3. owned' \in [Workers -> SUBSET {"dir", "box"}]
      BY <1>12, <2>2, ZenonT(40) DEF Cleanup, TypeOK
    <2> QED
      BY <1>12, <2>1, <2>3 DEF Cleanup, TypeOK
  <1> QED
    BY <1>1, <1>2, <1>3, <1>4, <1>5, <1>6, <1>7, <1>8, <1>9, <1>10, <1>11, <1>12
       DEF Judge

\* A sweep and a crash keep every variable in its type.
LEMMA UpheavalKeepsTypes ==
  ASSUME TypeOK, Sweep \/ Crash
  PROVE  TypeOK'
  <1> USE DEF dbVars, mainVars, workerVars, handlerVars, tallyVars
  <1>1. CASE Sweep
    <2>1. rows' \in [Submissions -> {"none", "pending", "running"} \cup Verdicts]
      BY <1>1 DEF Sweep, TypeOK
    <2>2. \A s \in Submissions : hist[s] \cup {"swept"} \in SUBSET {"db", "swept", "crash"}
      BY DEF TypeOK
    <2>3. hist' \in [Submissions -> SUBSET {"db", "swept", "crash"}]
      BY <1>1, <2>2 DEF Sweep, TypeOK
    <2> QED
      BY <1>1, <2>1, <2>3 DEF Sweep, TypeOK
  <1>2. CASE Crash
    <2>1. \A s \in Submissions : hist[s] \cup {"crash"} \in SUBSET {"db", "swept", "crash"}
      BY DEF TypeOK
    <2>2. hist' \in [Submissions -> SUBSET {"db", "swept", "crash"}]
      BY <1>2, <2>1 DEF Crash, TypeOK
    <2>3. hpc' \in [Submissions -> HandlerPCs]
      BY <1>2 DEF Crash, TypeOK, HandlerPCs
    <2>4. litter' \subseteq {"dir", "box"}
      <3>1. \A u \in Workers : owned[u] \subseteq {"dir", "box"}
        BY DEF TypeOK
      <3>2. UNION {owned[u] : u \in Workers} \subseteq {"dir", "box"}
        BY <3>1
      <3>3. litter' = litter \cup UNION {owned[u] : u \in Workers}
        BY <1>2 DEF Crash
      <3> QED
        BY <3>2, <3>3, ZenonT(40) DEF TypeOK
    <2>5. queue' \in Seq(Submissions) /\ mpc' \in MainPCs
      BY <1>2 DEF Crash, MainPCs
    <2>6. wpc' \in [Workers -> WorkerPCs] /\ task' \in [Workers -> Submissions \cup {NoTask}]
      BY <1>2 DEF Crash, WorkerPCs
    <2>7. \A u \in Workers : (task'[u] = NoTask) <=> (wpc'[u] \in Outside)
      BY <1>2 DEF Crash, Outside
    <2>8. owned' \in [Workers -> SUBSET {"dir", "box"}]
      BY <1>2 DEF Crash
    <2>9. verdict' \in [Workers -> {"none"} \cup Verdicts] /\ running_count_' \in Int
      BY <1>2 DEF Crash
    <2>10. running_' \in BOOLEAN /\ shutting_down_' \in BOOLEAN
      BY <1>2, ZenonT(40) DEF Crash
    <2>12. crashes' \in Nat
      BY <1>2 DEF Crash, TypeOK
    <2>11. UNCHANGED <<rows, event, counted, checkins, cases, tries, acked, late, sweeps>>
      BY <1>2 DEF Crash
    <2> QED
      BY <2>2, <2>3, <2>4, <2>5, <2>6, <2>7, <2>8, <2>9, <2>10, <2>11, <2>12
         DEF TypeOK
  <1> QED
    BY <1>1, <1>2

-----------------------------------------------------------------------------
(* Who knows a submission, and which verdicts are known *)

\* Until its request arrives a submission has no row and is in no queue and in
\* no worker's hands.
LEMMA FreshStep ==
  ASSUME TypeOK, FreshIsUnknown, Next
  PROVE  FreshIsUnknown'
  <1> SUFFICES ASSUME NEW s \in Submissions, hpc'[s] = "idle"
               PROVE  rows'[s] = "none" /\ ~Queued(s)' /\ ~Held(s)'
    BY DEF FreshIsUnknown
  <1> DEFINE Ignored == rows'[s] = rows[s] /\ queue' = queue /\ UNCHANGED task
  <1>q. Ignored /\ hpc[s] = "idle" => rows'[s] = "none" /\ ~Queued(s)' /\ ~Held(s)'
    BY DEF FreshIsUnknown, Queued, Held
  <1>1. CASE Main
    BY <1>1, <1>q DEF Main, StartFails, Start, Spawn, ShutdownFlag, NotifyAll, Join, dbVars,
                      workerVars, handlerVars
  <1>2. ASSUME NEW r \in Submissions, CreateRow(r) \/ Handle(r) \/ Reenqueue(r)
        PROVE  rows'[s] = "none" /\ ~Queued(s)' /\ ~Held(s)'
    <2>1. hpc[s] = "idle" /\ s # r
      BY <1>2, ZenonT(40) DEF CreateRow, Handle, LoadCases, CheckRunning, Push, Notify, Reenqueue,
                  Goto, TypeOK
    <2>2. rows'[s] = rows[s] /\ UNCHANGED task
      BY <1>2, <2>1 DEF CreateRow, Handle, LoadCases, CheckRunning, Push, Notify, Reenqueue,
                        SetRow, DbError, dbVars, workerVars, TypeOK
    <2>3. CASE UNCHANGED queue
      BY <1>q, <2>1, <2>2, <2>3
    <2>4. CASE queue' = Append(queue, r)
      <3>1. ~Queued(s)
        BY <2>1 DEF FreshIsUnknown
      <3>2. ~Queued(s)'
        BY <2>1, <2>4, <3>1 DEF Queued, TypeOK
      <3> QED
        BY <2>1, <2>2, <3>2 DEF FreshIsUnknown, Held
    <2> QED
      BY <1>2, <2>3, <2>4, ZenonT(40) DEF CreateRow, Handle, LoadCases, CheckRunning, Push, Notify,
                              Reenqueue
  <1>3. ASSUME NEW w \in Workers, Work(w) \/ SpuriousWake(w)
        PROVE  rows'[s] = "none" /\ ~Queued(s)' /\ ~Held(s)'
    <2>1. hpc[s] = "idle"
      BY <1>3, ZenonT(40) DEF Work, Look, Park, SpuriousWake, Enter, Leave, Judge, Claim, Stage,
                  Create, Launch, Wait, Logs, Reap, Persist, Account, Publish, FinishSe, Cleanup,
                  handlerVars
    <2>2. rows[s] = "none" /\ ~Queued(s) /\ ~Held(s)
      BY <2>1 DEF FreshIsUnknown
    <2>3. CASE Look(w)
      <3>1. CASE UNCHANGED <<queue, task>>
        BY <1>q, <2>1, <2>3, <3>1 DEF Look, dbVars
      <3>2. CASE /\ queue # << >>
                 /\ task' = [task EXCEPT ![w] = Head(queue)]
                 /\ queue' = Tail(queue)
        <4>1. Head(queue) # s
          <5>1. Head(queue) = queue[1] /\ 1 \in 1..Len(queue)
            BY <3>2 DEF TypeOK
          <5> QED
            BY <2>2, <5>1 DEF Queued
        <4>2. ~Queued(s)'
          BY <2>2, <3>2 DEF Queued, TypeOK
        <4>3. ~Held(s)'
          BY <2>2, <3>2, <4>1 DEF Held, TypeOK
        <4> QED
          BY <2>2, <2>3, <4>2, <4>3 DEF Look, dbVars
      <3> QED
        BY <2>3, <3>1, <3>2 DEF Look
    <2>4. CASE Leave(w)
      <3>1. s # NoTask
        BY SchedulerAssumption
      <3>2. ~Held(s)'
        BY <2>2, <2>4, <3>1 DEF Leave, Held, TypeOK
      <3>3. ~Queued(s)'
        BY <2>2, <2>4 DEF Leave, Queued
      <3> QED
        BY <2>2, <2>4, <3>2, <3>3 DEF Leave, dbVars
    <2>5. CASE Park(w) \/ SpuriousWake(w) \/ Enter(w)
      BY <1>q, <2>1, <2>5 DEF Park, SpuriousWake, Enter, dbVars
    <2>6. CASE Judge(w)
      <3>1. UNCHANGED <<queue, task>>
        BY <2>6, ZenonT(40) DEF Judge, Claim, Stage, Create, Launch, Wait, Logs, Reap, Persist,
                           Account, Publish, FinishSe, Cleanup
      <3>2. s # task[w]
        BY <2>2 DEF Held
      <3>3. rows'[s] = rows[s]
        <4>1. CASE Claim(w) \/ Persist(w) \/ FinishSe(w)
          BY <3>2, <4>1 DEF Claim, Persist, FinishSe, SetRow, DbError, dbVars, TypeOK
        <4>2. CASE UNCHANGED dbVars
          BY <4>2 DEF dbVars
        <4> QED
          BY <2>6, <4>1, <4>2, ZenonT(40) DEF Judge, Stage, Create, Launch, Wait, Logs, Reap, Account,
                                         Publish, Cleanup
      <3> QED
        BY <1>q, <2>1, <3>1, <3>3
    <2> QED
      BY <1>3, <2>3, <2>4, <2>5, <2>6 DEF Work
  <1>4. CASE Sweep
    <2>1. hpc[s] = "idle" /\ rows[s] = "none" /\ UNCHANGED <<queue, task>>
      BY <1>4 DEF Sweep, FreshIsUnknown, handlerVars, workerVars
    <2>2. rows'[s] = rows[s]
      BY <1>4, <2>1 DEF Sweep
    <2> QED
      BY <1>q, <2>1, <2>2
  <1>5. CASE Crash
    <2>1. hpc[s] = "idle" /\ queue' = << >> /\ rows' = rows
      BY <1>5 DEF Crash, TypeOK
    <2>2. \A w \in Workers : task'[w] = NoTask
      BY <1>5 DEF Crash
    <2> QED
      BY <2>1, <2>2, SchedulerAssumption DEF FreshIsUnknown, Queued, Held
  <1> QED
    BY <1>1, <1>2, <1>3, <1>4, <1>5 DEF Next

\* From the moment the log is parsed a worker holds a verdict.
LEMMA VerdictStep ==
  ASSUME TypeOK, VerdictKnown, Next
  PROVE  VerdictKnown'
  <1> DEFINE Late == {"reap", "persist", "account", "publish"}
  <1> SUFFICES ASSUME NEW u \in Workers, wpc'[u] \in Late
               PROVE  verdict'[u] \in Verdicts
    BY DEF VerdictKnown
  <1>q. wpc[u] \in Late /\ verdict'[u] = verdict[u] => verdict'[u] \in Verdicts
    BY DEF VerdictKnown
  <1>1. CASE Main
    BY <1>1, <1>q DEF Main, StartFails, Start, Spawn, ShutdownFlag, NotifyAll, WakeAll, Join,
                      workerVars, TypeOK
  <1>2. ASSUME NEW s \in Submissions, CreateRow(s) \/ Handle(s) \/ Reenqueue(s)
        PROVE  verdict'[u] \in Verdicts
    BY <1>2, <1>q, ZenonT(40) DEF CreateRow, Handle, LoadCases, CheckRunning, Push, Notify, WakeOne,
                      Reenqueue, workerVars, TypeOK
  <1>3. ASSUME NEW w \in Workers, Look(w) \/ Park(w) \/ SpuriousWake(w) \/ Enter(w)
        PROVE  verdict'[u] \in Verdicts
    BY <1>3, <1>q DEF Look, Park, SpuriousWake, Enter, Step, TypeOK
  <1>4. ASSUME NEW w \in Workers, Leave(w)
        PROVE  verdict'[u] \in Verdicts
    BY <1>4, <1>q DEF Leave, Step, TypeOK
  <1>5. ASSUME NEW w \in Workers, Logs(w)
        PROVE  verdict'[u] \in Verdicts
    BY <1>5, <1>q DEF Logs, JudgeAnswers, Step, TypeOK, Verdicts
  <1>6. ASSUME NEW w \in Workers, Judge(w), ~Logs(w)
        PROVE  verdict'[u] \in Verdicts
    <2>1. CASE Claim(w) \/ Stage(w) \/ Create(w) \/ Launch(w) \/ Wait(w)
      BY <1>q, <2>1 DEF Claim, Stage, Create, Launch, Wait, Step, TypeOK
    <2>2. CASE Reap(w) \/ Persist(w) \/ Account(w)
      BY <1>q, <2>2 DEF Reap, Persist, Account, Step, TypeOK
    <2>3. CASE Publish(w) \/ FinishSe(w) \/ Cleanup(w)
      BY <1>q, <2>3 DEF Publish, FinishSe, Cleanup, Step, TypeOK
    <2> QED
      BY <1>6, <2>1, <2>2, <2>3 DEF Judge
  <1>7. CASE Sweep
    BY <1>7, <1>q, ZenonT(40) DEF Sweep, workerVars
  <1>8. CASE Crash
    BY <1>8, ZenonT(40) DEF Crash
  <1> QED
    BY <1>1, <1>2, <1>3, <1>4, <1>5, <1>6, <1>7, <1>8 DEF Next, Work
\* The process boots typed.
LEMMA InitTyped == Init => TypeOK /\ VerdictKnown
  <1> SUFFICES ASSUME Init PROVE TypeOK /\ VerdictKnown
    OBVIOUS
  <1>1. /\ running_count_ \in Int /\ sweeps \in Nat /\ crashes \in Nat
        /\ queue \in Seq(Submissions) /\ tries \in [Submissions -> Nat]
        /\ counted \in [Submissions -> [Verdicts -> Nat]]
    BY DEF Init
  <1>2. VerdictKnown
    BY DEF Init, VerdictKnown
  <1> QED
    BY <1>1, <1>2, ZenonT(40) DEF Init, TypeOK, MainPCs, WorkerPCs, HandlerPCs, Outside

\* Every step of every process keeps the types.
LEMMA NextTyped == TypeOK /\ VerdictKnown /\ [Next]_vars => TypeOK' /\ VerdictKnown'
  <1>1. TypeOK /\ UNCHANGED vars => TypeOK'
    BY ZenonT(40) DEF vars, dbVars, mainVars, workerVars, handlerVars, tallyVars, bounds, TypeOK
  <1>2. VerdictKnown /\ UNCHANGED vars => VerdictKnown'
    BY DEF vars, workerVars, VerdictKnown
  <1>3. TypeOK /\ VerdictKnown /\ Next => TypeOK'
    BY MainKeepsTypes, HandlerKeepsTypes, LoopKeepsTypes, JudgeKeepsTypes, UpheavalKeepsTypes
       DEF Next, Work
  <1> QED
    BY <1>1, <1>2, <1>3, VerdictStep

\* Every variable of the pipeline keeps its type.
THEOREM TypesHold == Spec => []TypeOK
  BY InitTyped, NextTyped, PTL DEF Spec

-----------------------------------------------------------------------------
(* The queue's bound *)

\* Under queue_mu_ the length is tested and the task pushed in one step, so no
\* race of handlers overfills the queue.
LEMMA QueueStep ==
  ASSUME TypeOK, QueueBounded, Next
  PROVE  QueueBounded'
  <1> SUFFICES ASSUME MaxQueue > 0 PROVE Len(queue') <= MaxQueue
    BY DEF QueueBounded
  <1>0. Len(queue) <= MaxQueue /\ Len(queue) \in Nat /\ MaxQueue \in Nat
    BY SchedulerAssumption DEF QueueBounded, TypeOK
  <1>1. CASE UNCHANGED queue
    BY <1>0, <1>1
  <1>2. ASSUME NEW s \in Submissions, ~Full, queue' = Append(queue, s)
        PROVE  Len(queue') <= MaxQueue
    <2>1. Len(queue') = Len(queue) + 1
      BY <1>2 DEF TypeOK
    <2> QED
      BY <1>0, <1>2, <2>1 DEF Full
  <1>3. CASE queue # << >> /\ queue' = Tail(queue)
    <2>1. Len(queue') = Len(queue) - 1
      BY <1>3 DEF TypeOK
    <2> QED
      BY <1>0, <2>1
  <1>4. CASE queue' = << >>
    BY <1>0, <1>4
  <1> QED
    BY <1>1, <1>2, <1>3, <1>4,
       ZenonT(40) DEF Next, Main, StartFails, Start, Spawn, ShutdownFlag, NotifyAll, Join, CreateRow,
           Handle, LoadCases, CheckRunning, Push, Notify, Reenqueue, Work, Look, Park,
           SpuriousWake, Enter, Leave, Judge, Claim, Stage, Create, Launch, Wait, Logs, Reap,
           Persist, Account, Publish, FinishSe, Cleanup, Sweep, Crash

\* The queue never outgrows max_queue_size.
THEOREM QueueHolds == Spec => []QueueBounded
  <1>1. Init => QueueBounded
    BY SchedulerAssumption DEF Init, QueueBounded
  <1>2. TypeOK /\ QueueBounded /\ [Next]_vars => QueueBounded'
    BY QueueStep DEF vars, QueueBounded
  <1> QED
    BY <1>1, <1>2, TypesHold, PTL DEF Spec

-----------------------------------------------------------------------------
(* What a task leaves on the host *)

\* Where run_one_task still means to remove the container, and the directory.
WillReap == {"start", "wait", "logs", "reap", "reapFail"}
WillClean == WillReap \cup {"create", "persist", "account", "publish", "cleanup", "fail"}

\* A worker owns a container or a directory it has no step left to remove only
\* if a docker or file-system call failed.
OwnedIsDue ==
  \A w \in Workers :
    /\ "box" \in owned[w] => wpc[w] \in WillReap \/ "remove" \in Faults
    /\ "dir" \in owned[w] => wpc[w] \in WillClean \/ Faults \cap {"write", "rmdir"} # {}

\* A step that leaves every worker's files alone, or takes some away, and moves
\* nobody out of the region that removes them.
LEMMA OwnedStep ==
  ASSUME TypeOK, OwnedIsDue, Next
  PROVE  OwnedIsDue'
  <1> USE DEF WillReap, WillClean
  <1> DEFINE Due(u) ==
        /\ "box" \in owned'[u] => wpc'[u] \in WillReap \/ "remove" \in Faults
        /\ "dir" \in owned'[u] => wpc'[u] \in WillClean \/ Faults \cap {"write", "rmdir"} # {}
  <1> SUFFICES ASSUME NEW u \in Workers PROVE Due(u)
    BY ZenonT(40) DEF OwnedIsDue
  <1>q. owned'[u] \subseteq owned[u] /\ wpc'[u] = wpc[u] => Due(u)
    BY DEF OwnedIsDue
  <1>n. wpc[u] \in Outside /\ owned'[u] = owned[u] => Due(u)
    BY DEF OwnedIsDue, Outside
  <1>1. CASE Main
    <2>1. UNCHANGED owned /\ (wpc'[u] = wpc[u] \/ wpc[u] \in Outside)
      BY <1>1 DEF Main, StartFails, Start, Spawn, ShutdownFlag, NotifyAll, WakeAll, Join,
                  workerVars, TypeOK, Outside
    <2> QED
      BY <1>q, <1>n, <2>1
  <1>2. ASSUME NEW s \in Submissions, CreateRow(s) \/ Handle(s) \/ Reenqueue(s)
        PROVE  Due(u)
    <2>1. UNCHANGED owned /\ (wpc'[u] = wpc[u] \/ wpc[u] \in Outside)
      BY <1>2, ZenonT(40) DEF CreateRow, Handle, LoadCases, CheckRunning, Push, Notify, WakeOne,
                  Reenqueue, workerVars, TypeOK, Outside
    <2> QED
      BY <1>q, <1>n, <2>1
  <1>3. ASSUME NEW w \in Workers, Work(w) \/ SpuriousWake(w), u # w
        PROVE  Due(u)
    <2>1. owned'[u] = owned[u] /\ wpc'[u] = wpc[u]
      BY <1>3, ZenonT(40) DEF Work, Look, Park, SpuriousWake, Enter, Leave, Judge, Claim, Stage, Create,
                  Launch, Wait, Logs, Reap, Persist, Account, Publish, FinishSe, Cleanup, Step,
                  TypeOK
    <2> QED
      BY <1>q, <2>1, ZenonT(40)
  <1>4. CASE Look(u) \/ Park(u) \/ SpuriousWake(u) \/ Enter(u) \/ Leave(u)
    BY <1>4, ZenonT(40) DEF Look, Park, SpuriousWake, Enter, Leave, Step, OwnedIsDue, TypeOK
  <1>5. CASE Judge(u)
    <2>1. CASE Claim(u) \/ Launch(u) \/ Wait(u) \/ Logs(u)
      BY <2>1, ZenonT(40) DEF Claim, Launch, Wait, Logs, Step, OwnedIsDue, TypeOK
    <2>2. CASE Stage(u)
      BY <2>2 DEF Stage, Step, OwnedIsDue, TypeOK
    <2>3. CASE Create(u)
      BY <2>3, ZenonT(40) DEF Create, Step, OwnedIsDue, TypeOK
    <2>4. CASE Reap(u)
      BY <2>4 DEF Reap, Step, OwnedIsDue, TypeOK
    <2>5. CASE Cleanup(u)
      <3>1. /\ wpc[u] = "cleanup"
            /\ \/ owned'[u] = owned[u] \ {"dir"}
               \/ "rmdir" \in Faults /\ owned'[u] = owned[u]
        BY <2>5, ZenonT(40) DEF Cleanup, Step, TypeOK
      <3> QED
        BY <3>1 DEF OwnedIsDue
    <2>6. CASE Persist(u) \/ Account(u) \/ Publish(u) \/ FinishSe(u)
      BY <2>6, ZenonT(40) DEF Persist, Account, Publish, FinishSe, Step, OwnedIsDue, TypeOK
    <2> QED
      BY <1>5, <2>1, <2>2, <2>3, <2>4, <2>5, <2>6, ZenonT(40) DEF Judge
  <1>6. CASE Sweep
    BY <1>6, <1>q DEF Sweep, workerVars
  <1>7. CASE Crash
    BY <1>7 DEF Crash
  <1> QED
    BY <1>1, <1>2, <1>3, <1>4, <1>5, <1>6, <1>7, ZenonT(40) DEF Next, Work

\* What a step adds to the litter was lost by a failed call or a kill.
LEMMA LitterStep ==
  ASSUME TypeOK, OwnedIsDue, LitterOnlyByFailure, Next
  PROVE  LitterOnlyByFailure'
  <1>1. CASE UNCHANGED <<litter, crashes>>
    BY <1>1 DEF LitterOnlyByFailure
  <1>2. ASSUME NEW w \in Workers, Leave(w)
        PROVE  LitterOnlyByFailure'
    <2>1. wpc[w] = "leave" /\ litter' = litter \cup owned[w] /\ UNCHANGED crashes
      BY <1>2 DEF Leave, Step, bounds
    <2>2. /\ "box" \in owned[w] => "remove" \in Faults
          /\ "dir" \in owned[w] => Faults \cap {"write", "rmdir"} # {}
      BY <2>1 DEF OwnedIsDue, WillReap, WillClean
    <2> QED
      BY <2>1, <2>2 DEF LitterOnlyByFailure
  <1>3. ASSUME NEW w \in Workers, Create(w)
        PROVE  LitterOnlyByFailure'
    BY <1>3 DEF Create, LitterOnlyByFailure, bounds
  <1>4. CASE Crash
    <2>1. crashes' > 0
      BY <1>4 DEF Crash, TypeOK
    <2> QED
      BY <2>1 DEF LitterOnlyByFailure
  <1> QED
    BY <1>1, <1>2, <1>3, <1>4,
       ZenonT(40) DEF Next, Main, StartFails, Start, Spawn, ShutdownFlag, NotifyAll, Join, CreateRow,
           Handle, LoadCases, CheckRunning, Push, Notify, Reenqueue, Work, Look, Park,
           SpuriousWake, Enter, Judge, Claim, Stage, Launch, Wait, Logs, Reap, Persist, Account,
           Publish, FinishSe, Cleanup, Sweep, bounds

\* On every way out of run_one_task the directory and the container are gone,
\* unless removing them (or writing, or learning the id) failed or the process
\* was killed.
THEOREM LitterHolds == Spec => []LitterOnlyByFailure
  <1>1. Init => OwnedIsDue /\ LitterOnlyByFailure
    BY DEF Init, OwnedIsDue, LitterOnlyByFailure
  <1>2. TypeOK /\ OwnedIsDue /\ LitterOnlyByFailure /\ [Next]_vars
          => OwnedIsDue' /\ LitterOnlyByFailure'
    <2>1. OwnedIsDue /\ LitterOnlyByFailure /\ UNCHANGED vars
            => OwnedIsDue' /\ LitterOnlyByFailure'
      BY DEF vars, workerVars, bounds, OwnedIsDue, LitterOnlyByFailure
    <2> QED
      BY <2>1, OwnedStep, LitterStep
  <1> QED
    BY <1>1, <1>2, TypesHold, PTL DEF Spec

-----------------------------------------------------------------------------
(* A stored verdict is final *)

TerminalStep == \A s \in Submissions : rows[s] \in Verdicts => rows'[s] = rows[s]

\* No statement of submission_repo overwrites a verdict.
LEMMA VerdictIsFinal ==
  ASSUME TypeOK, FreshIsUnknown, Next
  PROVE  TerminalStep
  <1> SUFFICES ASSUME NEW s \in Submissions, rows[s] \in Verdicts
               PROVE  rows'[s] = rows[s]
    BY DEF TerminalStep
  <1>0. rows[s] \notin {"none", "pending", "running"}
    BY DEF Verdicts
  <1>1. CASE Main
    BY <1>1 DEF Main, StartFails, Start, Spawn, ShutdownFlag, NotifyAll, Join, dbVars
  <1>2. ASSUME NEW r \in Submissions, CreateRow(r) \/ Handle(r) \/ Reenqueue(r)
        PROVE  rows'[s] = rows[s]
    <2>1. CASE CreateRow(r)
      BY <1>0, <2>1 DEF CreateRow, SetRow, DbError, FreshIsUnknown, TypeOK
    <2>2. CASE Handle(r) \/ Reenqueue(r)
      BY <2>2, ZenonT(40) DEF Handle, LoadCases, CheckRunning, Push, Notify, Reenqueue, dbVars
    <2> QED
      BY <1>2, <2>1, <2>2
  <1>3. ASSUME NEW w \in Workers, Work(w) \/ SpuriousWake(w)
        PROVE  rows'[s] = rows[s]
    BY <1>0, <1>3, ZenonT(40) DEF Work, Look, Park, SpuriousWake, Enter, Leave, Judge, Claim, Stage,
                      Create, Launch, Wait, Logs, Reap, Persist, Account, Publish, FinishSe,
                      Cleanup, SetRow, DbError, CanClaim, CanFinish, dbVars, TypeOK
  <1>4. CASE Sweep
    BY <1>0, <1>4, ZenonT(40) DEF Sweep
  <1>5. CASE Crash
    BY <1>5, ZenonT(40) DEF Crash
  <1> QED
    BY <1>1, <1>2, <1>3, <1>4, <1>5 DEF Next

-----------------------------------------------------------------------------
(* The worker whose mark_finished flipped the row *)

WinInv ==
  WinnerOwnsRow /\ OneWinner /\ EventMatchesRow /\ AccountingExact /\ CountedByWinner

SameCounts == \A s \in Submissions, v \in {"ac", "wa"} : counted'[s][v] = counted[s][v]

\* A step that makes no winner, moves none and overwrites no verdict.
LEMMA BystanderKeepsWinner ==
  ASSUME TypeOK, VerdictKnown, WinInv, TerminalStep, UNCHANGED <<event, checkins>>,
         SameCounts,
         \A u \in Workers : Won(u)' => /\ wpc'[u] = wpc[u]
                                       /\ task'[u] = task[u]
                                       /\ verdict'[u] = verdict[u]
  PROVE  WinInv'
  <1>0. \A u \in Workers : Won(u) => verdict[u] \in Verdicts /\ task[u] \in Submissions
    BY ZenonT(30) DEF Won, VerdictKnown, TypeOK, Outside
  <1>1. WinnerOwnsRow'
    BY <1>0 DEF WinInv, WinnerOwnsRow, Won, TerminalStep
  <1>2. OneWinner'
    BY DEF WinInv, OneWinner, Won
  <1>3. EventMatchesRow'
    BY DEF WinInv, EventMatchesRow, TerminalStep, TypeOK
  <1>4. AccountingExact'
    BY DEF WinInv, AccountingExact, TerminalStep, SameCounts, Verdicts
  <1>5. CountedByWinner'
    BY DEF WinInv, CountedByWinner, SameCounts, Won
  <1> QED
    BY <1>1, <1>2, <1>3, <1>4, <1>5 DEF WinInv

\* mark_finished flips a row: there was no winner, no event and no count before.
LEMMA FlipMakesWinner ==
  ASSUME TypeOK, VerdictKnown, WinInv, NEW w \in Workers, wpc[w] = "persist",
         CanFinish(task[w]), SetRow(task[w], verdict[w]), Step(w, "persist", "account"),
         UNCHANGED <<event, counted, checkins, task, verdict>>
  PROVE  WinInv'
  <1> DEFINE s == task[w]
  <1>0. s \in Submissions /\ verdict[w] \in Verdicts
    BY ZenonT(40) DEF VerdictKnown, TypeOK, Outside
  <1>1. rows[s] \notin Verdicts /\ rows' = [rows EXCEPT ![s] = verdict[w]]
    BY DEF CanFinish, SetRow, Verdicts
  <1>2. \A u \in Workers : Won(u) => task[u] # s /\ u # w
    BY <1>1 DEF WinInv, WinnerOwnsRow, Won, VerdictKnown
  <1>3. event[s] = "none"
    BY <1>0, <1>1 DEF WinInv, EventMatchesRow, TypeOK
  <1>4. \A v \in {"ac", "wa"} : ~(counted[s][v] > 0)
    BY <1>0, <1>1 DEF WinInv, AccountingExact, Verdicts
  <1>5. \A u \in Workers : Won(u)' <=> Won(u) \/ u = w
    BY DEF Won, Step, TypeOK
  <1>6. WinnerOwnsRow'
    BY <1>0, <1>1, <1>2, <1>3, <1>5 DEF WinInv, WinnerOwnsRow, TypeOK
  <1>7. OneWinner'
    BY <1>2, <1>5 DEF WinInv, OneWinner
  <1>8. EventMatchesRow'
    BY <1>0, <1>1, <1>3 DEF WinInv, EventMatchesRow, TypeOK
  <1>9. AccountingExact'
    BY <1>0, <1>1, <1>4 DEF WinInv, AccountingExact, TypeOK, Verdicts
  <1>10. CountedByWinner'
    BY <1>4 DEF WinInv, CountedByWinner, Step, TypeOK
  <1> QED
    BY <1>6, <1>7, <1>8, <1>9, <1>10 DEF WinInv

\* The winner counts its verdict, which nobody has counted before.
LEMMA AccountKeepsWinner ==
  ASSUME TypeOK, VerdictKnown, WinInv, NEW w \in Workers, Account(w)
  PROVE  WinInv'
  <1> DEFINE s == task[w]
  <1>0. s \in Submissions /\ verdict[w] \in Verdicts /\ wpc[w] = "account" /\ Won(w)
    BY ZenonT(40) DEF Account, Step, VerdictKnown, TypeOK, Outside, Won
  <1>1. UNCHANGED <<rows, event, task, verdict>>
    BY DEF Account, dbVars
  <1>2. \A u \in Workers : Won(u)' <=> Won(u)
    BY DEF Account, Step, Won, TypeOK
  <1>3. rows[s] = verdict[w]
    BY <1>0 DEF WinInv, WinnerOwnsRow
  <1>4. \A v \in {"ac", "wa"} : counted[s][v] = 0
    <2>1. \A v \in {"ac", "wa"} : counted[s][v] \in Nat
      BY <1>0 DEF TypeOK, Verdicts
    <2>2. \A v \in {"ac", "wa"} : ~(counted[s][v] > 0)
      BY <1>0 DEF WinInv, CountedByWinner
    <2> QED
      BY <2>1, <2>2
  <1>5. \A r \in Submissions, v \in Verdicts :
          counted'[r][v] = IF r = s /\ v = verdict[w] THEN counted[r][v] + 1
                                                      ELSE counted[r][v]
    BY <1>0 DEF Account, TypeOK
  <1>6. \A r \in checkins' : r \in checkins \/ (r = s /\ verdict[w] = "ac")
    BY DEF Account
  <1>7. WinnerOwnsRow' /\ OneWinner' /\ EventMatchesRow'
    BY <1>1, <1>2, ZenonT(40) DEF WinInv, WinnerOwnsRow, OneWinner, EventMatchesRow
  <1>8. AccountingExact'
    <2> SUFFICES ASSUME NEW r \in Submissions
                 PROVE  /\ \A v \in {"ac", "wa"} :
                             counted'[r][v] > 0 => counted'[r][v] = 1 /\ rows[r] = v
                        /\ r \in checkins' => rows[r] = "ac"
      BY <1>1 DEF AccountingExact
    <2>1. /\ \A v \in {"ac", "wa"} : counted[r][v] > 0 => counted[r][v] = 1 /\ rows[r] = v
          /\ r \in checkins => rows[r] = "ac"
      BY DEF WinInv, AccountingExact
    <2>2. ASSUME NEW v \in {"ac", "wa"}, counted'[r][v] > 0
          PROVE  counted'[r][v] = 1 /\ rows[r] = v
      <3>1. CASE r = s /\ v = verdict[w]
        BY <1>3, <1>4, <1>5, <3>1 DEF Verdicts
      <3>2. CASE ~(r = s /\ v = verdict[w])
        BY <1>5, <2>1, <2>2, <3>2 DEF Verdicts
      <3> QED
        BY <3>1, <3>2
    <2>3. r \in checkins' => rows[r] = "ac"
      BY <1>3, <1>6, <2>1
    <2> QED
      BY <2>2, <2>3
  <1>9. CountedByWinner'
    <2> SUFFICES ASSUME NEW r \in Submissions, NEW v \in {"ac", "wa"}, counted'[r][v] > 0,
                        NEW u \in Workers, wpc'[u] = "account", task'[u] = r
                 PROVE  FALSE
      BY DEF CountedByWinner
    <2>1. u # w /\ wpc[u] = "account" /\ task[u] = r
      BY <1>1 DEF Account, Step, TypeOK
    <2>2. r # s
      BY <1>0, <2>1 DEF WinInv, OneWinner, Won
    <2>3. counted[r][v] > 0
      BY <1>5, <2>2 DEF Verdicts
    <2> QED
      BY <2>1, <2>3 DEF WinInv, CountedByWinner
  <1> QED
    BY <1>7, <1>8, <1>9 DEF WinInv

\* The winner publishes what the row holds, and stops being the winner.
LEMMA PublishKeepsWinner ==
  ASSUME TypeOK, VerdictKnown, WinInv, NEW w \in Workers, Publish(w)
  PROVE  WinInv'
  <1> DEFINE s == task[w]
  <1>0. s \in Submissions /\ Won(w) /\ rows[s] = verdict[w]
    <2>1. wpc[w] = "publish"
      BY DEF Publish, Step
    <2>2. s \in Submissions /\ Won(w)
      BY <2>1, ZenonT(40) DEF TypeOK, Outside, Won
    <2> QED
      BY <2>2 DEF WinInv, WinnerOwnsRow
  <1>1. UNCHANGED <<rows, counted, checkins, task, verdict>>
    BY DEF Publish, dbVars
  <1>2. event' = [event EXCEPT ![s] = rows[s]]
    BY <1>0 DEF Publish
  <1>3. \A u \in Workers : Won(u)' <=> Won(u) /\ u # w
    BY DEF Publish, Step, Won, TypeOK
  <1>4. WinnerOwnsRow'
    BY <1>0, <1>1, <1>2, <1>3 DEF WinInv, WinnerOwnsRow, OneWinner, TypeOK
  <1>5. OneWinner'
    BY <1>1, <1>3 DEF WinInv, OneWinner
  <1>6. EventMatchesRow'
    BY <1>0, <1>1, <1>2 DEF WinInv, EventMatchesRow, TypeOK
  <1>7. AccountingExact'
    BY <1>1 DEF WinInv, AccountingExact
  <1>8. CountedByWinner'
    BY <1>1 DEF WinInv, CountedByWinner, Publish, Step, TypeOK
  <1> QED
    BY <1>4, <1>5, <1>6, <1>7, <1>8 DEF WinInv

\* One worker wins a row; until it has published, the row, its event and its
\* counters are its own.
LEMMA WinStep ==
  ASSUME TypeOK, FreshIsUnknown, VerdictKnown, WinInv, Next
  PROVE  WinInv'
  <1> DEFINE SameWinners == \A u \in Workers : Won(u)' => /\ wpc'[u] = wpc[u]
                                                          /\ task'[u] = task[u]
                                                          /\ verdict'[u] = verdict[u]
             SameTallies == UNCHANGED <<event, checkins>> /\ SameCounts
  <1>0. TerminalStep
    BY VerdictIsFinal
  <1>q. SameWinners /\ SameTallies => WinInv'
    BY <1>0, BystanderKeepsWinner
  <1> HIDE DEF SameWinners, SameTallies
  <1>c. UNCHANGED <<event, counted, checkins>> => SameTallies
    BY DEF SameTallies, SameCounts
  <1>1. CASE Main
    <2>1. SameTallies
      BY <1>1, <1>c, ZenonT(40) DEF Main, StartFails, Start, Spawn, ShutdownFlag, NotifyAll, Join,
                        tallyVars
    <2>2. SameWinners
      BY <1>1 DEF Main, StartFails, Start, Spawn, ShutdownFlag, NotifyAll, WakeAll, Join,
                  workerVars, TypeOK, Won, SameWinners
    <2> QED
      BY <1>q, <2>1, <2>2
  <1>2. ASSUME NEW s \in Submissions, CreateRow(s) \/ Handle(s) \/ Reenqueue(s)
        PROVE  WinInv'
    <2>1. SameTallies
      BY <1>2, <1>c, ZenonT(40) DEF CreateRow, Handle, LoadCases, CheckRunning, Push, Notify,
                        Reenqueue, tallyVars
    <2>2. SameWinners
      BY <1>2, ZenonT(40) DEF CreateRow, Handle, LoadCases, CheckRunning, Push, Notify, WakeOne,
                  Reenqueue, workerVars, TypeOK, Won, SameWinners
    <2> QED
      BY <1>q, <2>1, <2>2
  <1>3. ASSUME NEW w \in Workers,
               Look(w) \/ Park(w) \/ SpuriousWake(w) \/ Enter(w) \/ Leave(w)
        PROVE  WinInv'
    <2>1. SameTallies
      BY <1>3, <1>c DEF Look, Park, SpuriousWake, Enter, Leave, tallyVars
    <2>2. SameWinners
      BY <1>3 DEF Look, Park, SpuriousWake, Enter, Leave, Step, TypeOK, Won, SameWinners
    <2> QED
      BY <1>q, <2>1, <2>2
  <1>4. ASSUME NEW w \in Workers,
               \/ Claim(w) \/ Stage(w) \/ Create(w) \/ Launch(w) \/ Wait(w) \/ Logs(w)
               \/ Reap(w) \/ Cleanup(w)
        PROVE  WinInv'
    <2>1. SameTallies
      BY <1>4, <1>c, ZenonT(40) DEF Claim, Stage, Create, Launch, Wait, Logs, Reap, Cleanup, tallyVars
    <2>2. SameWinners
      BY <1>4 DEF Claim, Stage, Create, Launch, Wait, Logs, Reap, Cleanup, Step, TypeOK, Won,
                  SameWinners
    <2> QED
      BY <1>q, <2>1, <2>2
  <1>5. ASSUME NEW w \in Workers, Persist(w)
        PROVE  WinInv'
    <2>1. CASE CanFinish(task[w]) /\ SetRow(task[w], verdict[w])
                 /\ Step(w, "persist", "account")
      BY <1>5, <2>1, FlipMakesWinner DEF Persist, tallyVars
    <2>2. CASE Step(w, "persist", "cleanup")
      <3>1. SameTallies
        BY <1>5, <1>c DEF Persist, tallyVars
      <3>2. SameWinners
        BY <1>5, <2>2 DEF Persist, Step, TypeOK, Won, SameWinners
      <3> QED
        BY <1>q, <3>1, <3>2
    <2> QED
      BY <1>5, <2>1, <2>2, ZenonT(40) DEF Persist
  <1>6. ASSUME NEW w \in Workers, FinishSe(w)
        PROVE  WinInv'
    <2>1. SameTallies
      BY <1>6 DEF FinishSe, SameTallies, SameCounts, TypeOK, Verdicts
    <2>2. SameWinners
      BY <1>6 DEF FinishSe, Step, TypeOK, Won, SameWinners
    <2> QED
      BY <1>q, <2>1, <2>2
  <1>7. CASE Sweep
    <2>1. SameTallies
      BY <1>7, <1>c, ZenonT(40) DEF Sweep, tallyVars
    <2>2. SameWinners
      BY <1>7 DEF Sweep, workerVars, SameWinners
    <2> QED
      BY <1>q, <2>1, <2>2
  <1>8. CASE Crash
    <2>1. SameTallies
      BY <1>8, <1>c DEF Crash, tallyVars
    <2>2. SameWinners
      BY <1>8 DEF Crash, Won, SameWinners
    <2> QED
      BY <1>q, <2>1, <2>2
  <1> QED
    BY <1>1, <1>2, <1>3, <1>4, <1>5, <1>6, <1>7, <1>8, AccountKeepsWinner,
       PublishKeepsWinner DEF Next, Work, Judge

-----------------------------------------------------------------------------
(* Who judges a claimed row *)

ClaimInv == JudgedIsClaimed /\ ExclusiveJudging
Claimed(s) == rows[s] \notin {"none", "pending"} \/ "swept" \in hist[s]
MarksStay == \A s \in Submissions : "swept" \in hist[s] => "swept" \in hist'[s]
ClaimsStay == \A s \in Submissions : Claimed(s) => Claimed(s)'

\* A driver error marks one row and takes no mark away.
LEMMA DbMarkKeepsMarks ==
  ASSUME TypeOK, NEW r \in Submissions,
         hist' = hist \/ hist' = [hist EXCEPT ![r] = @ \cup {"db"}]
  PROVE  MarksStay
  <1> SUFFICES ASSUME NEW s \in Submissions PROVE hist[s] \subseteq hist'[s]
    BY DEF MarksStay
  <1>1. CASE hist' = hist
    BY <1>1
  <1>2. CASE hist' = [hist EXCEPT ![r] = @ \cup {"db"}]
    <2>1. hist'[s] = IF s = r THEN hist[s] \cup {"db"} ELSE hist[s]
      BY <1>2, ZenonT(30) DEF TypeOK
    <2> QED
      BY <2>1
  <1> QED
    BY <1>1, <1>2

\* Only a sweep unclaims a row, and it leaves its mark.
LEMMA ClaimsAreKept ==
  ASSUME TypeOK, FreshIsUnknown, VerdictKnown, Next
  PROVE  MarksStay /\ ClaimsStay
  <1> USE DEF ClaimsStay, Claimed
  <1>q. UNCHANGED dbVars => MarksStay /\ ClaimsStay
    BY DEF dbVars, MarksStay
  <1>1. CASE Main
    BY <1>1, <1>q DEF Main, StartFails, Start, Spawn, ShutdownFlag, NotifyAll, Join
  <1>2. ASSUME NEW r \in Submissions, CreateRow(r)
        PROVE  MarksStay /\ ClaimsStay
    <2>1. rows[r] = "none"
      BY <1>2, ZenonT(40) DEF CreateRow, FreshIsUnknown
    <2>2. hist' = hist \/ hist' = [hist EXCEPT ![r] = @ \cup {"db"}]
      BY <1>2, ZenonT(40) DEF CreateRow, SetRow, DbError
    <2>3. MarksStay
      BY <2>2, DbMarkKeepsMarks
    <2>4. \A s \in Submissions \ {r} : rows'[s] = rows[s]
      BY <1>2 DEF CreateRow, SetRow, DbError, TypeOK
    <2> QED
      BY <2>1, <2>3, <2>4 DEF MarksStay
  <1>3. ASSUME NEW r \in Submissions, Handle(r) \/ Reenqueue(r)
        PROVE  MarksStay /\ ClaimsStay
    BY <1>3, <1>q DEF Handle, LoadCases, CheckRunning, Push, Notify, Reenqueue
  <1>4. ASSUME NEW w \in Workers,
               \/ Look(w) \/ Park(w) \/ SpuriousWake(w) \/ Enter(w) \/ Leave(w) \/ Stage(w)
               \/ Create(w) \/ Launch(w) \/ Wait(w) \/ Logs(w) \/ Reap(w) \/ Account(w)
               \/ Publish(w) \/ Cleanup(w)
        PROVE  MarksStay /\ ClaimsStay
    BY <1>4, <1>q, ZenonT(40) DEF Look, Park, SpuriousWake, Enter, Leave, Stage, Create, Launch, Wait,
                      Logs, Reap, Account, Publish, Cleanup
  <1>5. ASSUME NEW w \in Workers, Claim(w) \/ Persist(w) \/ FinishSe(w)
        PROVE  MarksStay /\ ClaimsStay
    <2> DEFINE r == task[w]
    <2>0. r \in Submissions
      BY <1>5, ZenonT(40) DEF Claim, Persist, FinishSe, Step, TypeOK, Outside
    <2>1. hist' = hist \/ hist' = [hist EXCEPT ![r] = @ \cup {"db"}]
      BY <1>5 DEF Claim, Persist, FinishSe, SetRow, DbError, dbVars
    <2>2. MarksStay
      BY <2>0, <2>1, DbMarkKeepsMarks
    <2>3. \A s \in Submissions \ {r} : rows'[s] = rows[s]
      BY <1>5, ZenonT(40) DEF Claim, Persist, FinishSe, SetRow, DbError, dbVars, TypeOK
    <2>4. rows'[r] = rows[r] \/ rows'[r] \in {"running"} \cup Verdicts
      <3>1. Persist(w) => verdict[w] \in Verdicts
        BY DEF Persist, VerdictKnown
      <3>2. \/ rows' = rows
            \/ \E st \in {"running", "se"} \cup Verdicts : rows' = [rows EXCEPT ![r] = st]
        BY <1>5, <3>1 DEF Claim, Persist, FinishSe, SetRow, DbError, dbVars
      <3> QED
        BY <2>0, <3>2 DEF TypeOK, Verdicts
    <2> QED
      BY <2>0, <2>2, <2>3, <2>4 DEF Verdicts, MarksStay
  <1>6. CASE Sweep
    BY <1>6 DEF Sweep, MarksStay
  <1>7. CASE Crash
    BY <1>7 DEF Crash, MarksStay
  <1> QED
    BY <1>1, <1>2, <1>3, <1>4, <1>5, <1>6, <1>7, ZenonT(40) DEF Next, Work, Judge

\* Two workers judge one row only after a sweep requeued it.
LEMMA ClaimStep ==
  ASSUME TypeOK, FreshIsUnknown, VerdictKnown, ClaimInv, Next
  PROVE  ClaimInv'
  <1> DEFINE SameJudges == \A u \in Workers : Judging(u)' => Judging(u) /\ task'[u] = task[u]
  <1>0. MarksStay /\ ClaimsStay
    BY ClaimsAreKept
  <1>t. \A u \in Workers : Judging(u) => task[u] \in Submissions
    BY ZenonT(40) DEF Judging, TypeOK, Outside
  <1>q. SameJudges => ClaimInv'
    BY <1>0, <1>t, ZenonT(40) DEF ClaimInv, JudgedIsClaimed, ExclusiveJudging, MarksStay, ClaimsStay,
                      Claimed
  <1>1. CASE Main
    <2>1. /\ UNCHANGED task
          /\ wpc' = wpc \/ \A u \in Workers : wpc'[u] = wpc[u] \/ ~Judging(u)'
      BY <1>1 DEF Main, StartFails, Start, Spawn, ShutdownFlag, NotifyAll, WakeAll, Join,
                  workerVars, TypeOK, Judging
    <2> QED
      BY <1>q, <2>1, ZenonT(40) DEF Judging
  <1>2. ASSUME NEW s \in Submissions, CreateRow(s) \/ Handle(s) \/ Reenqueue(s)
        PROVE  ClaimInv'
    BY <1>2, <1>q, ZenonT(30) DEF CreateRow, Handle, LoadCases, CheckRunning, Push, Notify,
                      WakeOne, Reenqueue, workerVars, TypeOK, Judging
  <1>3. ASSUME NEW w \in Workers, Claim(w)
        PROVE  ClaimInv'
    <2>1. CASE CanClaim(task[w]) /\ SetRow(task[w], "running") /\ Step(w, "claim", "stage")
      <3> DEFINE s == task[w]
      <3>0. s \in Submissions /\ UNCHANGED task
        BY <1>3, ZenonT(40) DEF Claim, TypeOK, Outside
      <3>1. rows[s] = "pending" /\ rows'[s] = "running" /\ UNCHANGED hist
        BY <2>1, <3>0 DEF CanClaim, SetRow, TypeOK
      <3>2. \A u \in Workers : Judging(u)' <=> Judging(u) \/ u = w
        BY <2>1 DEF Step, Judging, TypeOK
      <3>3. \A u \in Workers : Judging(u) /\ task[u] = s => "swept" \in hist[s]
        BY <3>1 DEF ClaimInv, JudgedIsClaimed
      <3>4. JudgedIsClaimed'
        BY <1>0, <1>t, <3>0, <3>1, <3>2 DEF ClaimInv, JudgedIsClaimed, ClaimsStay, Claimed
      <3>5. ExclusiveJudging'
        BY <3>0, <3>1, <3>2, <3>3 DEF ClaimInv, ExclusiveJudging
      <3> QED
        BY <3>4, <3>5 DEF ClaimInv
    <2>2. CASE Step(w, "claim", "leave")
      BY <1>3, <1>q, <2>2 DEF Claim, Step, TypeOK, Judging
    <2> QED
      BY <1>3, <2>1, <2>2, ZenonT(40) DEF Claim
  <1>4. ASSUME NEW w \in Workers,
               Look(w) \/ Park(w) \/ SpuriousWake(w) \/ Enter(w) \/ Leave(w)
        PROVE  ClaimInv'
    BY <1>4, <1>q DEF Look, Park, SpuriousWake, Enter, Leave, Step, TypeOK, Judging
  <1>5. ASSUME NEW w \in Workers, Judge(w), ~Claim(w)
        PROVE  ClaimInv'
    <2>1. CASE Stage(w) \/ Create(w) \/ Launch(w) \/ Wait(w) \/ Logs(w)
      BY <1>q, <2>1 DEF Stage, Create, Launch, Wait, Logs, Step, TypeOK, Judging
    <2>2. CASE Reap(w) \/ Persist(w) \/ Account(w)
      BY <1>q, <2>2 DEF Reap, Persist, Account, Step, TypeOK, Judging
    <2>3. CASE Publish(w) \/ FinishSe(w)
      BY <1>q, <2>3 DEF Publish, FinishSe, Step, TypeOK, Judging
    <2>4. CASE Cleanup(w)
      BY <1>q, <2>4 DEF Cleanup, Step, TypeOK, Judging
    <2> QED
      BY <1>5, <2>1, <2>2, <2>3, <2>4 DEF Judge
  <1>6. CASE Sweep
    BY <1>6, <1>q, ZenonT(40) DEF Sweep, workerVars, Judging
  <1>7. CASE Crash
    BY <1>7, <1>q, ZenonT(40) DEF Crash, Judging
  <1> QED
    BY <1>1, <1>2, <1>3, <1>4, <1>5, <1>6, <1>7 DEF Next, Work

-----------------------------------------------------------------------------
(* The inductive invariant *)

\* The invariant holds when the process boots on an empty table.
LEMMA InitIInv == Init => IInv
  <1> SUFFICES ASSUME Init PROVE IInv
    OBVIOUS
  <1>1. TypeOK
    BY InitTyped
  <1>3. FreshIsUnknown
    BY SchedulerAssumption DEF Init, FreshIsUnknown, Queued, Held
  <1>4. VerdictKnown /\ WinnerOwnsRow /\ OneWinner /\ CountedByWinner
    BY DEF Init, VerdictKnown, WinnerOwnsRow, OneWinner, CountedByWinner, Won
  <1>5. EventMatchesRow /\ AccountingExact
    BY DEF Init, EventMatchesRow, AccountingExact, Verdicts
  <1>6. JudgedIsClaimed /\ ExclusiveJudging
    BY DEF Init, JudgedIsClaimed, ExclusiveJudging, Judging
  <1> QED
    BY <1>1, <1>3, <1>4, <1>5, <1>6 DEF IInv

\* Every step of every process keeps it.
LEMMA NextIInv == IInv /\ [Next]_vars => IInv'
  <1> SUFFICES ASSUME IInv, [Next]_vars PROVE IInv'
    OBVIOUS
  <1>0. CASE UNCHANGED vars
    <2> USE <1>0 DEF vars, dbVars, mainVars, workerVars, handlerVars, tallyVars, bounds
    <2>1. TypeOK'
      BY NextTyped DEF IInv
    <2>2. FreshIsUnknown' /\ VerdictKnown'
      BY ZenonT(40) DEF IInv, FreshIsUnknown, Queued, Held, VerdictKnown
    <2>3. WinnerOwnsRow' /\ OneWinner' /\ CountedByWinner'
      BY ZenonT(40) DEF IInv, WinnerOwnsRow, OneWinner, CountedByWinner, Won
    <2>4. EventMatchesRow' /\ AccountingExact'
      BY ZenonT(40) DEF IInv, EventMatchesRow, AccountingExact
    <2>5. JudgedIsClaimed' /\ ExclusiveJudging'
      BY DEF IInv, JudgedIsClaimed, ExclusiveJudging, Judging
    <2> QED
      BY <2>1, <2>2, <2>3, <2>4, <2>5 DEF IInv
  <1>1. CASE Next
    <2>1. TypeOK'
      BY NextTyped DEF IInv
    <2>2. FreshIsUnknown' /\ VerdictKnown'
      BY <1>1, FreshStep, VerdictStep DEF IInv
    <2>3. WinInv'
      BY <1>1, WinStep DEF IInv, WinInv
    <2>4. ClaimInv'
      BY <1>1, ClaimStep DEF IInv, ClaimInv
    <2> QED
      BY <2>1, <2>2, <2>3, <2>4 DEF IInv, WinInv, ClaimInv
  <1> QED
    BY <1>0, <1>1

\* IInv is an invariant of the judge pipeline.
THEOREM InvariantHolds == Spec => []IInv
  BY InitIInv, NextIInv, PTL DEF Spec

\* What SSE clients were told is what the submissions table holds.
THEOREM EventsMatch == Spec => []EventMatchesRow
  BY InvariantHolds, PTL DEF IInv

\* Two workers judge one submission only after an operator's sweep requeued it.
THEOREM JudgingIsExclusive == Spec => []ExclusiveJudging
  BY InvariantHolds, PTL DEF IInv

\* Verdict counters count each submission at most once and as stored; check-ins
\* are for accepted submissions.
THEOREM AccountingHolds == Spec => []AccountingExact
  BY InvariantHolds, PTL DEF IInv

=============================================================================
