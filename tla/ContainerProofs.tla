-------------------------- MODULE ContainerProofs ---------------------------
(***************************************************************************)
(* Proofs about the containers.  Where the script that judges (JudgeScript)*)
(* stops and what it answers, for any number of test cases and any limits; *)
(* and the pool that keeps containers ready (WarmPool), for any number of  *)
(* workers, any K and any number of failing docker calls.                  *)
(***************************************************************************)
EXTENDS JudgeScript, WarmPool, FiniteCounts, TLAPS

USE SMTT(40), ZenonT(40)

-----------------------------------------------------------------------------
(***************************************************************************)
(* The script.                                                             *)
(***************************************************************************)

Line == [status : Statuses \cup {"skipped"}, time : Nat]

\* What appending one line to case_results.jsonl does to the earlier ones.
LEMMA AppendLine ==
  ASSUME NEW s \in Seq(Line), NEW e \in Line
  PROVE  /\ Append(s, e) \in Seq(Line)
         /\ Len(Append(s, e)) = Len(s) + 1
         /\ \A k \in 1..Len(s) : Append(s, e)[k] = s[k]
         /\ Append(s, e)[Len(s) + 1] = e
  OBVIOUS

\* The initial states satisfy the invariant.
LEMMA InitHolds == Init => IInv
<1> SUFFICES ASSUME Init PROVE IInv
  OBVIOUS
<1>1. /\ task.types \in Seq(UsedTypes)
      /\ task.form \in {"ok", "empty", "no_id", "no_code", "bad_language"}
      /\ task.spj \in {"absent", "cpp", "other"}
  <2>1. CASE task \in [form : {"ok"},
                       types : UNION {[1..k -> UsedTypes] : k \in 0..MaxCases},
                       spj : {"absent", "cpp", "other"}]
    <3>1. PICK k \in 0..MaxCases : task.types \in [1..k -> UsedTypes]
      BY <2>1
    <3>2. k \in Nat
      BY <3>1, ScriptAssumption
    <3>3. task.types \in Seq(UsedTypes)
      BY <3>1, <3>2
    <3> QED
      BY <2>1, <3>3
  <2>2. CASE task \in [form : {"empty", "no_id", "no_code", "bad_language"},
                       types : {<< >>}, spj : {"absent"}]
    <3>1. task.types = << >> /\ task.spj = "absent"
          /\ task.form \in {"empty", "no_id", "no_code", "bad_language"}
      BY <2>2
    <3>2. << >> \in Seq(UsedTypes)
      OBVIOUS
    <3> QED
      BY <3>1, <3>2
  <2> QED
    BY <2>1, <2>2 DEF Init
<1>3. TypeOK
  <2>1. spjUsable \in BOOLEAN /\ spjBroken \in BOOLEAN
    BY ZenonT(40) DEF Init
  <2>2. lines \in Seq([status : Statuses \cup {"skipped"}, time : Nat])
    BY DEF Init
  <2> QED
    BY <1>1, <2>1, <2>2 DEF Init, TypeOK, Statuses, NoIndex
<1>4. Justified(NoAnswer)
  BY DEF Justified, NoAnswer, Failures
<1> QED
  BY <1>3, <1>4 DEF IInv, Init

-----------------------------------------------------------------------------
\* An answer that says neither "accepted" nor "this case failed" needs no support.
LEMMA NothingToJustify ==
  ASSUME NEW a, a.status \in {"none", "se", "ce"}
  PROVE  Justified(a) /\ Justified(a)'
  BY DEF Justified, Failures

\* The statuses judge.sh emits before the loop.
LEMMA Early ==
  ASSUME NEW s \in {"se", "ce"}, Emit(s, NoIndex, 0)
  PROVE  /\ stdout' \in Answers /\ stdout'.status = s
         /\ pc' = "exited"
  BY DEF Emit, Answers, Statuses, Failures, NoIndex

\* Section B preserves the invariant.
LEMMA ParseStep == IInv /\ Parse => IInv'
<1> SUFFICES ASSUME IInv, Parse PROVE IInv'
  OBVIOUS
<1>0. /\ result = NoAnswer /\ result' = NoAnswer /\ lines = << >> /\ FINAL_STATUS = "ac"
      /\ stdout = NoAnswer /\ pc' \in {"exited", "spj"}
      /\ lines' = lines /\ task' = task /\ FINAL_STATUS' = FINAL_STATUS
  BY DEF IInv, Parse, Emit
<1>1. stdout' \in Answers \cup {NoAnswer} /\ (pc' = "spj" => task.form = "ok" /\ stdout' = NoAnswer)
  BY <1>0 DEF Parse, Emit, Answers, Statuses, Failures, NoIndex
<1>2. TypeOK'
  <2>1. TypeOK
    BY DEF IInv
  <2> QED
    BY <2>1, <1>0, <1>1 DEF TypeOK, Parse
<1>3. Justified(stdout)'
  <2>1. CASE task.form # "ok" /\ Emit("se", NoIndex, 0)
    BY <2>1, Early, NothingToJustify DEF Justified, Failures
  <2>2. CASE task.form = "ok" /\ n = 0 /\ Emit("ac", NoIndex, 0)
    <3>1. stdout'.status = "ac" /\ Len(lines') = 0
      BY <2>2, <1>0 DEF Emit
    <3> QED
      BY <3>1, <2>2, <1>0 DEF Justified, AllPassed, Failures, n
  <2>3. CASE stdout' = stdout
    BY <2>3, <1>0 DEF NoAnswer, Justified, Failures
  <2> QED
    BY <2>1, <2>2, <2>3 DEF Parse
<1>4. Justified(result)'
  BY <1>0 DEF NoAnswer, Justified, Failures
<1> QED
  BY <1>0, <1>1, <1>2, <1>3, <1>4 DEF IInv

\* The compilation of the special judge preserves the invariant.
LEMMA CompileSpjStep == IInv /\ CompileSpj => IInv'
<1> SUFFICES ASSUME IInv, CompileSpj PROVE IInv'
  OBVIOUS
<1>0. /\ pc = "spj" /\ pc' = "compile"
      /\ UNCHANGED <<task, FINAL_STATUS, FAILED_CASE_INDEX, TOTAL_TIME_MS, lines,
                     elapsed, stdout, result>>
  BY DEF CompileSpj
<1>1. TypeOK
  BY DEF IInv
<1>2. spent' \in Nat
  <2>1. spent \in Nat
    BY <1>1 DEF TypeOK
  <2>2. CASE spent' = spent
    BY <2>1, <2>2
  <2>3. CASE \E t \in 0..MaxStep : spent' = spent + t
    BY <2>1, <2>3, ScriptAssumption
  <2> QED
    BY <2>2, <2>3 DEF CompileSpj
<1>3. spjUsable' \in BOOLEAN /\ spjBroken' \in BOOLEAN
  <2>1. spjUsable \in BOOLEAN /\ spjBroken \in BOOLEAN
    BY <1>1 DEF TypeOK
  <2> QED
    BY <2>1, ZenonT(40) DEF CompileSpj
<1>4. TypeOK'
  BY <1>0, <1>1, <1>2, <1>3 DEF TypeOK
<1> QED
  BY <1>0, <1>4 DEF IInv, Justified, AllPassed, Located, n

\* Section C preserves the invariant.
LEMMA CompileStep == IInv /\ Compile => IInv'
<1> SUFFICES ASSUME IInv, Compile PROVE IInv'
  OBVIOUS
<1>0. /\ pc = "compile" /\ lines = << >> /\ FINAL_STATUS = "ac" /\ task.form = "ok"
      /\ stdout = NoAnswer /\ result = NoAnswer /\ result' = NoAnswer
      /\ UNCHANGED <<task, spjUsable, spjBroken, FINAL_STATUS, FAILED_CASE_INDEX,
                     TOTAL_TIME_MS, lines, elapsed>>
  BY DEF IInv, Compile
<1>1. TypeOK
  BY DEF IInv
<1>2. spent' \in Nat
  BY <1>1, ScriptAssumption DEF TypeOK, Compile
<1>3. \/ pc' = "loop" /\ stdout' = NoAnswer
      \/ pc' = "exited" /\ stdout' \in Answers /\ stdout'.status \in {"se", "ce"}
  BY <1>0, Early DEF Compile
<1>4. TypeOK'
  BY <1>0, <1>1, <1>2, <1>3 DEF TypeOK
<1>5. Justified(stdout)' /\ Justified(result)'
  BY <1>0, <1>3 DEF Justified, NoAnswer, Failures
<1>6. Len(lines') <= n' /\ Summary'
  <2>1. n \in Nat /\ n' = n
    BY <1>0, <1>1 DEF n, TypeOK
  <2> QED
    BY <2>1, <1>0 DEF Summary
<1> QED
  BY <1>0, <1>3, <1>4, <1>5, <1>6 DEF IInv

\* The global hard timeout preserves the invariant: it gives up on Summary, and
\* with it the claim that the failed case is the first.
LEMMA HardTimeoutStep == IInv /\ HardTimeout => IInv'
<1> SUFFICES ASSUME IInv, HardTimeout PROVE IInv'
  OBVIOUS
<1> DEFINE e == [status |-> "se", time |-> 0]
<1>0. /\ pc = "loop" /\ pc' = "emit" /\ task.form = "ok" /\ FINAL_STATUS' = "se"
      /\ stdout = NoAnswer /\ stdout' = NoAnswer /\ result = NoAnswer /\ result' = NoAnswer
      /\ lines' = Append(lines, e) /\ FAILED_CASE_INDEX' = Len(lines)
      /\ UNCHANGED <<task, spjUsable, spjBroken, TOTAL_TIME_MS, elapsed, spent>>
  BY DEF IInv, HardTimeout, i
<1>1. TypeOK /\ lines \in Seq(Line)
  BY DEF IInv, TypeOK, Line
<1>2. e \in Line
  BY DEF Line, Statuses, Failures
<1>3. lines' \in Seq(Line) /\ FAILED_CASE_INDEX' \in Nat
  BY <1>0, <1>1, <1>2, AppendLine
<1>4. TypeOK'
  BY <1>0, <1>1, <1>3 DEF TypeOK, Line, Statuses, Failures
<1>5. Justified(stdout)' /\ Justified(result)'
  BY <1>0 DEF Justified, NoAnswer, Failures
<1> QED
  BY <1>0, <1>4, <1>5 DEF IInv

\* A skipped case preserves the invariant.
LEMMA SkipStep == IInv /\ Skip => IInv'
<1> SUFFICES ASSUME IInv, Skip PROVE IInv'
  OBVIOUS
<1> DEFINE e == [status |-> "skipped", time |-> 0]
<1>0. /\ pc = "loop" /\ pc' = "loop" /\ task.form = "ok" /\ FINAL_STATUS # "ac"
      /\ stdout = NoAnswer /\ stdout' = NoAnswer /\ result = NoAnswer /\ result' = NoAnswer
      /\ lines' = Append(lines, e) /\ Len(lines) < n /\ Summary
      /\ UNCHANGED <<task, spjUsable, spjBroken, FINAL_STATUS, FAILED_CASE_INDEX,
                     TOTAL_TIME_MS, elapsed, spent>>
  BY DEF IInv, Skip, FailedBefore, i
<1>1. TypeOK /\ lines \in Seq(Line)
  BY DEF IInv, TypeOK, Line
<1>2. e \in Line
  BY DEF Line
<1>3. /\ lines' \in Seq(Line) /\ Len(lines') = Len(lines) + 1
      /\ \A k \in 1..Len(lines) : lines'[k] = lines[k]
      /\ lines'[Len(lines) + 1] = e
  BY <1>0, <1>1, <1>2, AppendLine
<1>4. TypeOK'
  BY <1>0, <1>1, <1>3 DEF TypeOK, Line
<1>5. Justified(stdout)' /\ Justified(result)'
  BY <1>0 DEF Justified, NoAnswer, Failures
<1>6. Summary'
  <2> DEFINE f == FAILED_CASE_INDEX
  <2>1. FINAL_STATUS \in Failures /\ Located(FINAL_STATUS, f)
    BY <1>0 DEF Summary
  <2>2. Len(lines) \in Nat /\ f \in 0..Len(lines) - 1
    BY <1>1, <2>1 DEF Located
  <2>3. \A k \in f + 2..Len(lines') : lines'[k].status = "skipped"
    <3> SUFFICES ASSUME NEW k \in f + 2..Len(lines') PROVE lines'[k].status = "skipped"
      OBVIOUS
    <3>1. CASE k = Len(lines) + 1
      BY <3>1, <1>3
    <3>2. CASE k # Len(lines) + 1
      BY <3>2, <1>3, <2>1, <2>2 DEF Located
    <3> QED
      BY <3>1, <3>2
  <2>4. /\ f \in 0..Len(lines') - 1
        /\ lines'[f + 1].status = FINAL_STATUS
        /\ \A k \in 1..f : lines'[k].status = "ac"
    BY <1>3, <2>1, <2>2 DEF Located
  <2> QED
    BY <1>0, <2>1, <2>3, <2>4 DEF Summary, Located
<1>7. Len(lines') <= n'
  BY <1>0, <1>1, <1>3 DEF n, TypeOK
<1> QED
  BY <1>0, <1>4, <1>5, <1>6, <1>7 DEF IInv

\* A case that runs is recorded: its line, and the summary of the lines.
LEMMA RunCaseStep == IInv /\ RunCase => IInv'
<1> SUFFICES ASSUME IInv, RunCase PROVE IInv'
  OBVIOUS
<1>a. PICK v \in CaseVerdicts(task.types[i + 1]), t \in 0..MaxStep :
        /\ \E cpu \in 0..MaxStep : Record(v, cpu)
        /\ elapsed' = elapsed + t /\ spent' = spent + t
  BY DEF RunCase
<1>b. PICK cpu \in 0..MaxStep : Record(v, cpu)
  BY <1>a
<1>0. Record(v, cpu) /\ elapsed' = elapsed + t /\ spent' = spent + t
  BY <1>a, <1>b
<1> DEFINE e == [status |-> v, time |-> cpu]
<1>1. /\ pc = "loop" /\ pc' = "loop" /\ task.form = "ok" /\ FINAL_STATUS = "ac"
      /\ stdout = NoAnswer /\ stdout' = NoAnswer /\ result = NoAnswer /\ result' = NoAnswer
      /\ Len(lines) < n /\ Summary
      /\ UNCHANGED <<task, spjUsable, spjBroken>>
  BY DEF IInv, RunCase, FailedBefore, i
<1>2. TypeOK /\ lines \in Seq(Line)
  BY DEF IInv, TypeOK, Line
<1>3. v = "ac" \/ v \in Failures
  BY DEF CaseVerdicts, CompareVerdicts, SpecialVerdicts, Failures
<1>4. cpu \in Nat /\ t \in Nat
  BY ScriptAssumption
<1>5. e \in Line
  BY <1>3, <1>4 DEF Line, Statuses
<1>6. /\ lines' \in Seq(Line) /\ Len(lines') = Len(lines) + 1
      /\ \A k \in 1..Len(lines) : lines'[k] = lines[k]
      /\ lines'[Len(lines) + 1].status = v
  BY <1>0, <1>2, <1>5, AppendLine DEF Record
<1>7. \/ v = "ac" /\ FINAL_STATUS' = "ac" /\ FAILED_CASE_INDEX' = FAILED_CASE_INDEX
      \/ v \in Failures /\ FINAL_STATUS' = v /\ FAILED_CASE_INDEX' = Len(lines)
  BY <1>0, <1>1, <1>3 DEF Record, i
<1>8. TypeOK'
  <2>1. TOTAL_TIME_MS' \in Nat
    BY <1>0, <1>2, <1>4 DEF Record, update_max, TypeOK
  <2>2. elapsed' \in Nat /\ spent' \in Nat
    BY <1>0, <1>2, <1>4 DEF TypeOK
  <2>3. FINAL_STATUS' \in Statuses /\ FAILED_CASE_INDEX' \in Nat \cup {NoIndex}
    BY <1>2, <1>7 DEF TypeOK, Statuses
  <2> QED
    BY <1>1, <1>2, <1>6, <2>1, <2>2, <2>3 DEF TypeOK, Line
<1>9. Justified(stdout)' /\ Justified(result)'
  BY <1>1 DEF Justified, NoAnswer, Failures
<1>10. Summary'
  <2>1. Len(lines) \in Nat /\ \A k \in 1..Len(lines) : lines'[k].status = "ac"
    BY <1>1, <1>2, <1>6 DEF Summary, Failures
  <2>2. CASE v = "ac" /\ FINAL_STATUS' = "ac"
    BY <2>1, <2>2, <1>6 DEF Summary
  <2>3. CASE v \in Failures /\ FINAL_STATUS' = v /\ FAILED_CASE_INDEX' = Len(lines)
    BY <2>1, <2>3, <1>6 DEF Summary, Located
  <2> QED
    BY <1>7, <2>2, <2>3
<1>11. Len(lines') <= n'
  BY <1>1, <1>2, <1>6 DEF n, TypeOK
<1> QED
  BY <1>1, <1>8, <1>9, <1>10, <1>11 DEF IInv

\* A special judge that does not compile, or does not accept, ends the script
\* without an answer.
LEMMA SpjFailsStep == IInv /\ (SpjDoesNotCompile \/ SpjRejects) => IInv'
<1> SUFFICES ASSUME IInv, SpjDoesNotCompile \/ SpjRejects PROVE IInv'
  OBVIOUS
<1>0. /\ pc \in {"spj", "loop"} /\ pc' = "exited"
      /\ UNCHANGED <<task, spjUsable, spjBroken, FINAL_STATUS, FAILED_CASE_INDEX,
                     TOTAL_TIME_MS, lines, stdout, result>>
  BY DEF SpjDoesNotCompile, SpjRejects, ErrorExit
<1>1. TypeOK
  BY DEF IInv
<1>2. elapsed' \in Nat /\ spent' \in Nat
  <2>1. elapsed \in Nat /\ spent \in Nat
    BY <1>1 DEF TypeOK
  <2>2. CASE SpjDoesNotCompile
    BY <2>1, <2>2, ScriptAssumption DEF SpjDoesNotCompile
  <2>3. CASE SpjRejects
    BY <2>1, <2>3, ScriptAssumption DEF SpjRejects
  <2> QED
    BY <2>2, <2>3
<1>3. TypeOK'
  BY <1>0, <1>1, <1>2 DEF TypeOK
<1> QED
  BY <1>0, <1>3 DEF IInv, Justified, AllPassed, Located, n

\* A hanging special judge, and a container the host gives up on, preserve the invariant.
LEMMA HangStep == IInv /\ (SpjHangs \/ Watchdog \/ WaitFails) => IInv'
<1> SUFFICES ASSUME IInv, SpjHangs \/ Watchdog \/ WaitFails PROVE IInv'
  OBVIOUS
<1>1. TypeOK /\ Justified(stdout) /\ Justified(result)
  BY DEF IInv
<1>2. CASE SpjHangs
  <2>1. TypeOK'
    BY <1>1, <1>2 DEF SpjHangs, TypeOK
  <2> QED
    BY <1>2, <2>1 DEF SpjHangs, IInv, Summary, Justified, AllPassed, Located, n
<1>3. CASE Abandon
  <2>1. SystemError \in Answers /\ SystemError.status = "se"
    BY DEF SystemError, Answers, Statuses, Failures, NoIndex
  <2>2. TypeOK'
    BY <1>1, <1>3, <2>1 DEF Abandon, TypeOK
  <2>3. Justified(stdout)' /\ Justified(result)'
    BY <1>1, <1>3, <2>1 DEF Abandon, Justified, AllPassed, Located, n
  <2> QED
    BY <1>3, <2>2, <2>3 DEF Abandon, IInv
<1> QED
  BY <1>2, <1>3 DEF Watchdog, WaitFails

\* Section E: the line judge.sh prints is supported by the lines of the cases.
LEMMA EmitFinalStep == IInv /\ EmitFinal => IInv'
<1> SUFFICES ASSUME IInv, EmitFinal PROVE IInv'
  OBVIOUS
<1>1. TypeOK /\ result = NoAnswer /\ result' = NoAnswer /\ task.form = "ok" /\ pc' = "exited"
  BY DEF IInv, EmitFinal, Emit
<1>2. /\ stdout'.status = FINAL_STATUS /\ stdout'.failed = FAILED_CASE_INDEX
      /\ stdout' \in Answers
  BY <1>1 DEF EmitFinal, Emit, Answers, TypeOK
<1>3. TypeOK'
  BY <1>1, <1>2 DEF EmitFinal, TypeOK
<1>4. Justified(result)'
  BY <1>1 DEF NoAnswer, Justified, Failures
<1>5. Justified(stdout)'
  <2>1. UNCHANGED <<task, lines>>
    BY DEF EmitFinal
  <2>2. CASE pc = "emit"
    BY <1>2, <2>2 DEF IInv, Justified, Failures
  <2>3. CASE pc = "loop" /\ i = n
    BY <1>1, <1>2, <2>1, <2>3 DEF IInv, Summary, Justified, AllPassed, Located, n, i, Failures
  <2> QED
    BY <2>2, <2>3 DEF EmitFinal
<1> QED
  BY <1>1, <1>3, <1>4, <1>5 DEF IInv

\* The host takes judge.sh's answer or makes a system error of it.
LEMMA CollectStep == IInv /\ Collect => IInv'
<1> SUFFICES ASSUME IInv, Collect PROVE IInv'
  OBVIOUS
<1>1. TypeOK /\ Justified(stdout) /\ Justified(result)
  BY DEF IInv
<1>2. SystemError \in Answers /\ SystemError.status = "se"
  BY DEF SystemError, Answers, Statuses, Failures, NoIndex
<1>3. TypeOK'
  BY <1>1, <1>2 DEF Collect, scriptVars, TypeOK
<1>4. Justified(stdout)'
  BY <1>1 DEF Collect, scriptVars, Justified, AllPassed, Located, n
<1>5. Justified(result)'
  <2>1. CASE result' = stdout
    BY <1>1, <2>1 DEF Collect, scriptVars, Justified, AllPassed, Located, n
  <2>2. CASE result' = SystemError
    BY <1>2, <2>2 DEF Justified, Failures
  <2> QED
    BY <2>1, <2>2 DEF Collect
<1> QED
  BY <1>3, <1>4, <1>5 DEF Collect, scriptVars, IInv

\* Every step of the container and of the host preserves the invariant.
LEMMA NextHolds == IInv /\ [Next]_vars => IInv'
<1> SUFFICES ASSUME IInv, [Next]_vars PROVE IInv'
  OBVIOUS
<1>1. CASE UNCHANGED vars
  BY <1>1 DEF vars, scriptVars, IInv, TypeOK, Summary, Justified, AllPassed, Located, n
<1> QED
  BY <1>1, ParseStep, CompileSpjStep, SpjFailsStep, CompileStep, HardTimeoutStep, SkipStep,
     RunCaseStep, HangStep, EmitFinalStep, CollectStep DEF Next, Script

-----------------------------------------------------------------------------
\* The invariant of judge.sh and its host: the counters of the loop summarise
\* case_results.jsonl, and every answer is supported by it.
THEOREM ScriptInvariant == Spec => []IInv
  BY InitHolds, NextHolds, PTL DEF Spec

\* Accepted means accepted, for any number of cases and any timeouts: an "ac" that
\* the host stores stands for one "ac" line per test case.
THEOREM Accepted == Spec => []AcceptedPassedAll
<1>1. IInv => AcceptedPassedAll
  BY DEF IInv, Justified, AcceptedPassedAll
<1> QED
  BY <1>1, ScriptInvariant, PTL

\* A verdict about the program names the first case that did not pass, and
\* judge.sh ran no case after it.
THEOREM Blamed == Spec => []FailureIsLocated
<1>1. IInv => FailureIsLocated
  BY DEF IInv, Justified, FailureIsLocated
<1> QED
  BY <1>1, ScriptInvariant, PTL

-----------------------------------------------------------------------------
(***************************************************************************)
(* The pool.                                                               *)
(***************************************************************************)
\* The workers with a container in hand are finitely many.
LEMMA HoldingCounts ==
  ASSUME Counting
  PROVE  IsFiniteSet(Holding) /\ Cardinality(Holding) \in Nat
<1>1. Holding \in SUBSET Workers
  BY DEF Holding
<1>2. IsFiniteSet(Workers)
  BY PoolAssumption DEF PoolAssumption
<1>3. IsFiniteSet(Holding)
  BY <1>1, <1>2, ZenonT(40) DEF Counting
<1> QED
  BY <1>3, ZenonT(40) DEF Counting

\* A worker that takes a container (acquire) adds one to those held.
LEMMA TakeCounts ==
  ASSUME Counting, PoolTypeOK, NEW w \in Workers, wpc[w] # "discard",
         wpc' = [wpc EXCEPT ![w] = "discard"]
  PROVE  Cardinality(Holding') = Cardinality(Holding) + 1
<1>1. Holding' = Holding \cup {w} /\ w \notin Holding
  BY DEF Holding, PoolTypeOK
<1> QED
  BY <1>1, HoldingCounts, ZenonT(40) DEF Counting

\* A worker that discards its container takes one from those held.
LEMMA DropCounts ==
  ASSUME Counting, PoolTypeOK, NEW w \in Workers, wpc[w] = "discard",
         wpc' = [wpc EXCEPT ![w] = "task"]
  PROVE  /\ Cardinality(Holding') = Cardinality(Holding) - 1
         /\ Cardinality(Holding) > 0
<1>1. Holding' = Holding \ {w} /\ w \in Holding
  BY DEF Holding, PoolTypeOK
<1>2. Cardinality(Holding') = Cardinality(Holding) - 1
  BY <1>1, HoldingCounts, ZenonT(40) DEF Counting
<1>3. Holding' \in SUBSET Holding
  BY <1>1
<1>4. IsFiniteSet(Holding')
  BY <1>3, HoldingCounts, ZenonT(40) DEF Counting
<1>5. Cardinality(Holding') \in Nat
  BY <1>4, ZenonT(40) DEF Counting
<1> QED
  BY <1>2, <1>5, HoldingCounts

\* A worker's other steps leave the count alone.
LEMMA OtherCounts ==
  ASSUME PoolTypeOK, NEW w \in Workers, NEW to \in WorkerPCs \ {"discard"},
         wpc[w] # "discard", wpc' = [wpc EXCEPT ![w] = to]
  PROVE  Holding' = Holding
BY DEF Holding, PoolTypeOK

\* Where all workers are idle, none holds a container.
LEMMA IdleHoldsNone ==
  ASSUME Counting, \A w \in Workers : wpc[w] = "idle"
  PROVE  Cardinality(Holding) = 0
<1>1. Holding = {}
  BY DEF Holding
<1> QED
  BY <1>1, ZenonT(40) DEF Counting

\* A pool that was never started satisfies PoolInv.
LEMMA InitPoolInv == Counting /\ PoolInit => PoolInv
<1> SUFFICES ASSUME Counting, PoolInit PROVE PoolInv
  OBVIOUS
<1>1. Cardinality(Holding) = 0
  BY IdleHoldsNone DEF PoolInit
<1>2. PoolTypeOK
  BY PoolAssumption, ZenonT(40) DEF PoolInit, PoolTypeOK, PoolAssumption, MainPCs, RefillPCs, WorkerPCs
<1>3. Phases /\ NeverOverfull
  BY PoolAssumption DEF PoolInit, Phases, NeverOverfull, InHand, PoolAssumption
<1>4. EveryContainerOwned
  BY <1>1 DEF PoolInit, EveryContainerOwned, InHand, Draining
<1> QED
  BY <1>2, <1>3, <1>4 DEF PoolInv

\* The main thread: start() and shutdown().
LEMMA MainKeepsPoolInv == Counting /\ PoolInv /\ Main => PoolInv'
<1> SUFFICES ASSUME Counting, PoolInv, Main PROVE PoolInv'
  OBVIOUS
<1> USE PoolAssumption DEF PoolAssumption
<1>1. UNCHANGED workerVars
  BY DEF Main, Precreate, Started, NotifyPartial, ShutdownFlag, ShutdownNotify, Drain,
         RemoveNext, Stopped
<1>2. Holding' = Holding /\ Cardinality(Holding) \in Nat
  BY <1>1, HoldingCounts DEF Holding, workerVars
<1> USE DEF PoolInv, PoolTypeOK, Phases, NeverOverfull, EveryContainerOwned, InHand, Draining,
            workerVars, mainVars, refillVars, dockerVars
<1>3. CASE Precreate
  BY <1>2, <1>3 DEF Precreate, CreateOk, CreateFails
<1>4. CASE Started
  BY <1>2, <1>4, ZenonT(40) DEF Started, MainPCs, RefillPCs
<1>5. CASE NotifyPartial
  BY <1>2, <1>5 DEF NotifyPartial, NotifyAll, MainPCs, RefillPCs
<1>6. CASE ShutdownFlag
  BY <1>2, <1>6 DEF ShutdownFlag, MainPCs
<1>7. CASE ShutdownNotify
  BY <1>2, <1>7 DEF ShutdownNotify, NotifyAll, MainPCs, RefillPCs
<1>8. CASE Drain
  BY <1>2, <1>8 DEF Drain, MayDrain, MainPCs
<1>9. CASE RemoveNext
  BY <1>2, <1>9 DEF RemoveNext, RemoveOk, RemoveFails
<1>10. CASE Stopped
  BY <1>2, <1>10, ZenonT(40) DEF Stopped, MainPCs
<1> QED
  BY <1>3, <1>4, <1>5, <1>6, <1>7, <1>8, <1>9, <1>10, ZenonT(40) DEF Main

\* The refill thread: it is the only one to add to the idle list once start()
\* has returned, so what it measured can only have shrunk when it pushes.
LEMMA RefillKeepsPoolInv == Counting /\ PoolInv /\ (Refill \/ SpuriousWake) => PoolInv'
<1> SUFFICES ASSUME Counting, PoolInv, Refill \/ SpuriousWake PROVE PoolInv'
  OBVIOUS
<1> USE PoolAssumption DEF PoolAssumption
<1>1. UNCHANGED <<mainVars, workerVars>>
  BY DEF Refill, SpuriousWake, Look, Park, MeasureGap, RefillCreate, RefillPush
<1>2. Holding' = Holding /\ Cardinality(Holding) \in Nat
  BY <1>1, HoldingCounts DEF Holding, workerVars
<1> USE DEF PoolInv, PoolTypeOK, Phases, NeverOverfull, EveryContainerOwned, InHand, Draining,
            workerVars, mainVars, refillVars, dockerVars
<1>3. CASE Look
  BY <1>2, <1>3 DEF Look, BelowTarget, RefillPCs
<1>4. CASE Park \/ SpuriousWake
  BY <1>2, <1>4 DEF Park, SpuriousWake, RefillPCs
<1>5. CASE MeasureGap
  BY <1>2, <1>5 DEF MeasureGap, BelowTarget, RefillPCs
<1>6. CASE RefillCreate
  <2>1. CASE shutting_down_
    BY <1>2, <1>6, <2>1 DEF RefillCreate, AfterFailure, RefillPCs
  <2>2. CASE ~shutting_down_ /\ CreateOk
    BY <1>2, <1>6, <2>2 DEF RefillCreate, CreateOk, CreateFails, RefillPCs
  <2>3. CASE ~shutting_down_ /\ CreateFails
    <3>0. ~CreateOk
      BY <2>3 DEF CreateOk, CreateFails
    <3>1. rpc' \in {"create", "look", "gap"} /\ attempts' \in Nat
      <4>1. CASE attempts < Retries
        BY <1>6, <2>3, <3>0, <4>1 DEF RefillCreate
      <4>2. CASE ~(attempts < Retries)
        BY <1>6, <2>3, <3>0, <4>2 DEF RefillCreate, AfterFailure
      <4> QED
        BY <4>1, <4>2
    <3>2. alive' - excused' = alive - excused /\ alive' \in Nat /\ excused' \in Nat
          /\ faults' \in Nat
      BY <2>3 DEF CreateFails
    <3> QED
      BY <1>2, <1>6, <2>3, <3>1, <3>2 DEF RefillCreate, RefillPCs
  <2> QED
    BY <1>6, <2>1, <2>2, <2>3 DEF RefillCreate
<1>7. CASE RefillPush
  BY <1>2, <1>7 DEF RefillPush, RefillPCs
<1> QED
  BY <1>3, <1>4, <1>5, <1>6, <1>7 DEF Refill

\* A worker: acquire() moves a container from the list, or from the daemon, to
\* the worker's hands; only the discard takes it out of them.
LEMMA WorkKeepsPoolInv ==
  ASSUME Counting, PoolInv, NEW w \in Workers, Acquire(w) \/ Work(w)
  PROVE  PoolInv'
<1> USE PoolAssumption DEF PoolAssumption
<1>1. Cardinality(Holding) \in Nat
  BY HoldingCounts
<1>2. UNCHANGED mainVars /\ mpc \in {"up", "dead"}
  BY DEF Acquire, Work, Fallback, Discard, Release, To, PoolInv, Phases
<1> USE DEF PoolInv, PoolTypeOK, Phases, NeverOverfull, EveryContainerOwned, InHand, Draining,
            workerVars, mainVars, refillVars, dockerVars, To
<1>3. CASE Acquire(w)
  <2>1. CASE wpc' = [wpc EXCEPT ![w] = "discard"]
    <3>1. Cardinality(Holding') = Cardinality(Holding) + 1
      BY <1>3, <2>1, TakeCounts, ZenonT(40) DEF Acquire
    <3> QED
      BY <1>1, <1>2, <1>3, <2>1, <3>1 DEF Acquire, WorkerPCs
  <2>2. CASE wpc' \in {[wpc EXCEPT ![w] = "task"], [wpc EXCEPT ![w] = "fallback"]}
    <3>1. Holding' = Holding
      BY <1>3, <2>2, OtherCounts DEF Acquire, WorkerPCs
    <3> QED
      BY <1>1, <1>2, <1>3, <2>2, <3>1 DEF Acquire, WorkerPCs
  <2> QED
    BY <1>3, <2>1, <2>2 DEF Acquire
<1>4. CASE Fallback(w)
  <2>1. CASE wpc' = [wpc EXCEPT ![w] = "discard"]
    <3>1. Cardinality(Holding') = Cardinality(Holding) + 1
      BY <1>4, <2>1, TakeCounts, ZenonT(40) DEF Fallback
    <3> QED
      BY <1>1, <1>2, <1>4, <2>1, <3>1 DEF Fallback, CreateOk, CreateFails, WorkerPCs
  <2>2. CASE wpc' = [wpc EXCEPT ![w] = "task"]
    <3>1. Holding' = Holding
      BY <1>4, <2>2, OtherCounts, ZenonT(40) DEF Fallback, WorkerPCs
    <3> QED
      BY <1>1, <1>2, <1>4, <2>2, <3>1 DEF Fallback, CreateOk, CreateFails, WorkerPCs
  <2> QED
    BY <1>4, <2>1, <2>2 DEF Fallback
<1>5. CASE Discard(w)
  <2>1. Cardinality(Holding') = Cardinality(Holding) - 1 /\ Cardinality(Holding) > 0
    BY <1>5, DropCounts, ZenonT(40) DEF Discard
  <2>2. alive > 0
    BY <1>1, <2>1
  <2>3. /\ alive' - excused' = alive - excused - 1
        /\ alive' \in Nat /\ excused' \in Nat /\ faults' \in Nat
    BY <1>5, <2>2 DEF Discard, RemoveOk, RemoveFails
  <2>4. /\ wpc' \in [Workers -> WorkerPCs]
        /\ gave' \in [Workers -> BOOLEAN] /\ missed' \in BOOLEAN
    BY <1>5, ZenonT(40) DEF Discard, WorkerPCs
  <2> QED
    BY <1>1, <1>2, <1>5, <2>1, <2>3, <2>4 DEF Discard
<1>6. CASE Release(w)
  <2>1. Holding' = Holding
    BY <1>6, OtherCounts, ZenonT(40) DEF Release, WorkerPCs
  <2> QED
    BY <1>1, <1>2, <1>6, <2>1 DEF Release, NotifyAll, WorkerPCs, RefillPCs
<1> QED
  BY <1>3, <1>4, <1>5, <1>6 DEF Work

\* Every step preserves PoolInv.
LEMMA NextPoolInv == Counting /\ PoolInv /\ [PoolNext]_poolVars => PoolInv'
<1> SUFFICES ASSUME Counting, PoolInv, [PoolNext]_poolVars PROVE PoolInv'
  OBVIOUS
<1>1. CASE PoolNext
  BY <1>1, MainKeepsPoolInv, RefillKeepsPoolInv, WorkKeepsPoolInv DEF PoolNext
<1>2. CASE UNCHANGED poolVars
  BY <1>2 DEF poolVars, mainVars, refillVars, workerVars, dockerVars, PoolInv, PoolTypeOK,
              Phases, NeverOverfull, EveryContainerOwned, InHand, Draining, Holding
<1> QED
  BY <1>1, <1>2

-----------------------------------------------------------------------------
INSTANCE FiniteSetTheorems

\* The finite sets of the standard modules are as Counting says.
LEMMA CountingHolds == Counting
<1>1. IsFiniteSet({}) /\ Cardinality({}) = 0
  BY FS_EmptySet
<1>2. ASSUME NEW m \in Nat
      PROVE  IsFiniteSet(1 .. m)
  BY FS_Interval
<1>3. ASSUME NEW S, IsFiniteSet(S)
      PROVE  Cardinality(S) \in Nat
  BY <1>3, FS_CardinalityType
<1>4. ASSUME NEW S, NEW T \in SUBSET S, IsFiniteSet(S)
      PROVE  IsFiniteSet(T) /\ Cardinality(T) <= Cardinality(S)
  BY <1>4, FS_Subset
<1>5. ASSUME NEW S, NEW x, IsFiniteSet(S), x \notin S
      PROVE  IsFiniteSet(S \cup {x}) /\ Cardinality(S \cup {x}) = Cardinality(S) + 1
  BY <1>5, FS_AddElement
<1>6. ASSUME NEW S, NEW x \in S, IsFiniteSet(S)
      PROVE  Cardinality(S \ {x}) = Cardinality(S) - 1
  BY <1>6, FS_RemoveElement
<1>7. QED
  BY <1>1, <1>2, <1>3, <1>4, <1>5, <1>6, ZenonT(40) DEF Counting

-----------------------------------------------------------------------------
\* PoolInv is an invariant of the pool.
THEOREM PoolInvariant == PoolSpec => []PoolInv
BY CountingHolds, InitPoolInv, NextPoolInv, PTL DEF PoolSpec

\* Every container docker has is in the list, in one thread's hands, or behind a
\* failed call.
THEOREM ContainersOwned == PoolSpec => []EveryContainerOwned
BY PoolInvariant, PTL DEF PoolInv

\* The idle list never exceeds K.
THEOREM PoolNeverOverfull == PoolSpec => []NeverOverfull
BY PoolInvariant, PTL DEF PoolInv

\* When shutdown() has returned, only containers behind a failed call are left.
THEOREM NothingAfterShutdown == PoolSpec => []ShutdownLeavesNothing
<1>1. PoolInv => ShutdownLeavesNothing
  <2> SUFFICES ASSUME PoolInv, mpc = "down" PROVE ShutdownLeavesNothing
    BY DEF ShutdownLeavesNothing
  <2>1. Cardinality(Holding) = 0
    BY CountingHolds, IdleHoldsNone DEF PoolInv, Phases
  <2> QED
    BY <2>1 DEF PoolInv, PoolTypeOK, Phases, EveryContainerOwned, InHand, Draining,
                ShutdownLeavesNothing
<1> QED
  BY <1>1, PoolInvariant, PTL
=============================================================================
