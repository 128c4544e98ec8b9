----------------------------- MODULE JudgeScript -----------------------------
(***************************************************************************)
(* One container of the judge: judge.sh from task.json to its line of      *)
(* JSON, and the host that waits for it under the outer watchdog and       *)
(* parses what docker logs returns (steps 6 to 8 of run_one_task).         *)
(*                                                                         *)
(* A program's behaviour on a test case, the compiler's answer and the     *)
(* special judge's exit code are arbitrary; which outputs match which      *)
(* expected texts is the subject of JudgeCompare.  Time is in ticks of     *)
(* wall-clock time: `spent` since the container started, `elapsed` since   *)
(* JUDGE_START_MS, that is after the compilations.                         *)
(***************************************************************************)
EXTENDS Integers, Sequences

CONSTANTS
  UsedTypes,  \* bound: the judge types that occur in tasks
  MaxCases,   \* bound: test cases of a task
  Hard,       \* judge_hard_timeout_seconds, in ticks
  Slack,      \* the 5000 ms the host adds to it
  MaxStep     \* bound: ticks one compilation or one run takes

Types == {"exact", "ignore_trailing", "float_eps", "ignore_case",
          "ignore_all_whitespace", "special", "unknown"}

ASSUME ScriptAssumption ==
  /\ UsedTypes \subseteq Types
  /\ MaxCases \in Nat /\ Hard \in Nat /\ Slack \in Nat \ {0} /\ MaxStep \in Nat

VARIABLES
  task,              \* task.json: is it well formed, the judge types, the SPJ
  pc,                \* judge.sh; "hung" inside an SPJ that does not return
  spjUsable,         \* SPECIAL_JUDGE_ENABLED and an executable LITECODE_SPJ_BIN
  spjBroken,         \* SPJ_COMPILE_RC # 0, for a language that is not compiled
  FINAL_STATUS, FAILED_CASE_INDEX, TOTAL_TIME_MS,
  lines,             \* case_results.jsonl: one [status, time] per case so far
  elapsed, spent,
  stdout,            \* what judge.sh printed: a JSON line, or NoAnswer
  result             \* JudgeResult on the host, or NoAnswer

scriptVars == <<pc, spjUsable, spjBroken, FINAL_STATUS, FAILED_CASE_INDEX,
                TOTAL_TIME_MS, lines, elapsed, spent, stdout>>
vars == <<task, scriptVars, result>>

NoIndex == -1        \* failed_case_index: null
NoAnswer == [status |-> "none", failed |-> NoIndex, time |-> 0]

Failures == {"wa", "pe", "re", "tle", "mle", "ole", "se"}
Statuses == {"ac", "ce"} \cup Failures

Answers == [status : Statuses, failed : Nat \cup {NoIndex}, time : Nat]

n == Len(task.types)
i == Len(lines)      \* the loop variable: each iteration writes one line

TypeOK ==
  /\ task.form \in {"ok", "empty", "no_id", "no_code", "bad_language"}
  /\ task.types \in Seq(UsedTypes) /\ task.spj \in {"absent", "cpp", "other"}
  /\ pc \in {"parse", "spj", "compile", "loop", "hung", "emit", "exited", "killed"}
  /\ spjUsable \in BOOLEAN /\ spjBroken \in BOOLEAN
  /\ FINAL_STATUS \in Statuses
  /\ FAILED_CASE_INDEX \in Nat \cup {NoIndex}
  /\ TOTAL_TIME_MS \in Nat /\ elapsed \in Nat /\ spent \in Nat
  /\ lines \in Seq([status : Statuses \cup {"skipped"}, time : Nat])
  /\ stdout \in Answers \cup {NoAnswer} /\ result \in Answers \cup {NoAnswer}

\* write_task_json writes the five fields; the malformed tasks are what
\* judge.sh defends against.  A language other than cpp can be stored for an SPJ.
Init ==
  /\ task \in [form : {"ok"}, types : UNION {[1..k -> UsedTypes] : k \in 0..MaxCases},
               spj : {"absent", "cpp", "other"}]
              \cup [form : {"empty", "no_id", "no_code", "bad_language"},
                    types : {<< >>}, spj : {"absent"}]
  /\ pc = "parse"
  /\ spjUsable = FALSE /\ spjBroken = FALSE
  /\ FINAL_STATUS = "ac" /\ FAILED_CASE_INDEX = NoIndex /\ TOTAL_TIME_MS = 0
  /\ lines = << >>
  /\ elapsed = 0 /\ spent = 0
  /\ stdout = NoAnswer /\ result = NoAnswer

-----------------------------------------------------------------------------
(* judge.sh *)

\* emit_final_json (and the two printf calls that bypass it), then exit.
Emit(status, failed, time) ==
  /\ stdout' = [status |-> status, failed |-> failed, time |-> time]
  /\ pc' = "exited"

\* Section B: die_se_json, the empty task that is accepted as it stands, or on.
Parse ==
  /\ pc = "parse"
  /\ \/ task.form # "ok" /\ Emit("se", NoIndex, 0)
     \/ task.form = "ok" /\ n = 0 /\ Emit("ac", NoIndex, 0)
     \/ task.form = "ok" /\ n > 0 /\ pc' = "spj" /\ UNCHANGED stdout
  /\ UNCHANGED <<task, spjUsable, spjBroken, FINAL_STATUS, FAILED_CASE_INDEX,
                 TOTAL_TIME_MS, lines, elapsed, spent, result>>

\* compile_spj and run_spj switch `set -e` on again before they return, so an exit
\* code other than 0 ends the whole script there, without its line of JSON.
ErrorExit ==
  /\ pc' = "exited"
  /\ UNCHANGED stdout

\* SPECIAL_JUDGE_ENABLED: a source is attached and some case is special.
SpjWanted == task.spj # "absent" /\ \E k \in 1..n : task.types[k] = "special"

CompileSpj ==
  /\ pc = "spj"
  /\ \/ /\ ~SpjWanted
        /\ UNCHANGED <<spjUsable, spjBroken, spent>>
     \/ /\ SpjWanted /\ task.spj = "other"
        /\ spjBroken' = TRUE
        /\ UNCHANGED <<spjUsable, spent>>
     \/ /\ SpjWanted /\ task.spj = "cpp"
        /\ spjUsable' = TRUE
        /\ \E t \in 0..MaxStep : spent' = spent + t
        /\ UNCHANGED spjBroken
  /\ pc' = "compile"
  /\ UNCHANGED <<task, FINAL_STATUS, FAILED_CASE_INDEX, TOTAL_TIME_MS, lines, elapsed,
                 stdout, result>>

SpjDoesNotCompile ==
  /\ pc = "spj" /\ SpjWanted /\ task.spj = "cpp"
  /\ ErrorExit
  /\ \E t \in 0..MaxStep : spent' = spent + t
  /\ UNCHANGED <<task, spjUsable, spjBroken, FINAL_STATUS, FAILED_CASE_INDEX,
                 TOTAL_TIME_MS, lines, elapsed, result>>

\* Section C.  Exit 0 without a binary is a system error; 124, 137 and any
\* other exit code are compilation errors.
Compile ==
  /\ pc = "compile"
  /\ \/ pc' = "loop" /\ UNCHANGED stdout
     \/ \E s \in {"se", "ce"} : Emit(s, NoIndex, 0)
  /\ \E t \in 0..MaxStep : spent' = spent + t
  /\ UNCHANGED <<task, spjUsable, spjBroken, FINAL_STATUS, FAILED_CASE_INDEX,
                 TOTAL_TIME_MS, lines, elapsed, result>>

\* Section D, top of the loop: the global hard timeout comes before everything
\* else, also before the test whether a case has failed already.
HardTimeout ==
  /\ pc = "loop" /\ i < n
  /\ elapsed > Hard
  /\ FINAL_STATUS' = "se"
  /\ FAILED_CASE_INDEX' = i
  /\ lines' = Append(lines, [status |-> "se", time |-> 0])
  /\ pc' = "emit"
  /\ UNCHANGED <<task, spjUsable, spjBroken, TOTAL_TIME_MS, elapsed, spent, stdout, result>>

\* Mutant: go on running after a failed case.
FailedBeforeNever == FALSE

FailedBefore == FINAL_STATUS # "ac"

Skip ==
  /\ pc = "loop" /\ i < n
  /\ elapsed <= Hard
  /\ FailedBefore
  /\ lines' = Append(lines, [status |-> "skipped", time |-> 0])
  /\ UNCHANGED <<task, pc, spjUsable, spjBroken, FINAL_STATUS, FAILED_CASE_INDEX,
                 TOTAL_TIME_MS, elapsed, spent, stdout, result>>

\* judge_type=special: a usable SPJ that returns 0 accepts; without one, a broken
\* SPJ is a system error and a missing one a wrong answer.
SpecialVerdicts ==
  IF spjUsable THEN {"ac"} ELSE IF spjBroken THEN {"se"} ELSE {"wa"}

\* How a run that ended with exit code 0 and a small enough output is judged.
CompareVerdicts(type) ==
  CASE type = "ignore_trailing" -> {"ac", "pe"}
    [] type = "special" -> SpecialVerdicts
    [] type = "unknown" -> {"se"}
    [] OTHER -> {"ac", "wa"}

\* The order of the tests: output size, exit code, comparison.
CaseVerdicts(type) == {"ole", "tle", "mle", "re"} \cup CompareVerdicts(type)

update_max(old, new) == IF new > old THEN new ELSE old

\* Mutant: the failure is written to the case's line only.
RecordLineOnly(v, t) ==
  /\ lines' = Append(lines, [status |-> v, time |-> t])
  /\ TOTAL_TIME_MS' = update_max(TOTAL_TIME_MS, t)
  /\ UNCHANGED <<FINAL_STATUS, FAILED_CASE_INDEX>>

\* update_max, FINAL_STATUS, FAILED_CASE_INDEX and emit_case_line.
Record(v, t) ==
  /\ lines' = Append(lines, [status |-> v, time |-> t])
  /\ TOTAL_TIME_MS' = update_max(TOTAL_TIME_MS, t)
  /\ IF v = "ac" THEN UNCHANGED <<FINAL_STATUS, FAILED_CASE_INDEX>>
                 ELSE FINAL_STATUS' = v /\ FAILED_CASE_INDEX' = i

\* Recorded is the CPU time of the container's cgroup, elapsed is wall-clock time.
RunCase ==
  /\ pc = "loop" /\ i < n
  /\ elapsed <= Hard
  /\ ~FailedBefore
  /\ \E v \in CaseVerdicts(task.types[i + 1]), t \in 0..MaxStep :
       /\ \E cpu \in 0..MaxStep : Record(v, cpu)
       /\ elapsed' = elapsed + t /\ spent' = spent + t
  /\ UNCHANGED <<task, pc, spjUsable, spjBroken, stdout, result>>

\* The SPJ rejects the output or crashes.
SpjRejects ==
  /\ pc = "loop" /\ i < n
  /\ elapsed <= Hard /\ ~FailedBefore
  /\ task.types[i + 1] = "special" /\ spjUsable
  /\ ErrorExit
  /\ \E t \in 0..MaxStep : elapsed' = elapsed + t /\ spent' = spent + t
  /\ UNCHANGED <<task, spjUsable, spjBroken, FINAL_STATUS, FAILED_CASE_INDEX,
                 TOTAL_TIME_MS, lines, result>>

\* run_spj has no timeout of its own.
SpjHangs ==
  /\ pc = "loop" /\ i < n
  /\ elapsed <= Hard /\ ~FailedBefore
  /\ task.types[i + 1] = "special" /\ spjUsable
  /\ pc' = "hung"
  /\ UNCHANGED <<task, spjUsable, spjBroken, FINAL_STATUS, FAILED_CASE_INDEX,
                 TOTAL_TIME_MS, lines, elapsed, spent, stdout, result>>

\* Section E, after the last case or the break.
EmitFinal ==
  /\ pc = "emit" \/ (pc = "loop" /\ i = n)
  /\ Emit(FINAL_STATUS, FAILED_CASE_INDEX, TOTAL_TIME_MS)
  /\ UNCHANGED <<task, spjUsable, spjBroken, FINAL_STATUS, FAILED_CASE_INDEX,
                 TOTAL_TIME_MS, lines, elapsed, spent, result>>

-----------------------------------------------------------------------------
(* The host *)

SystemError == [status |-> "se", failed |-> NoIndex, time |-> 0]

\* try_kill_and_remove, then finish_se.
Abandon ==
  /\ result = NoAnswer
  /\ pc' = "killed"
  /\ result' = SystemError
  /\ UNCHANGED <<task, spjUsable, spjBroken, FINAL_STATUS, FAILED_CASE_INDEX,
                 TOTAL_TIME_MS, lines, elapsed, spent, stdout>>

\* Mutant: the time is only looked at when the script makes progress.
WatchdogAfterSteps == spent > Hard + Slack /\ Abandon

\* docker wait times out.  A container that has printed its line can still be
\* caught before it exits.
Watchdog == (spent > Hard + Slack \/ pc = "hung") /\ Abandon

\* docker wait fails for another reason, at any time.
WaitFails == Abandon

\* docker logs may fail or come back truncated; parse_judge_result_json takes
\* the last line that parses, and makes a system error of none.
Collect ==
  /\ pc = "exited" /\ result = NoAnswer
  /\ result' \in ({stdout} \ {NoAnswer}) \cup {SystemError}
  /\ UNCHANGED <<task, scriptVars>>

Script ==
  \/ Parse \/ CompileSpj \/ SpjDoesNotCompile \/ Compile
  \/ HardTimeout \/ Skip \/ RunCase \/ SpjRejects \/ SpjHangs \/ EmitFinal

Next == Script \/ Watchdog \/ WaitFails \/ Collect

Spec == Init /\ [][Next]_vars

\* A process that can step does, docker wait has a timeout, and the worker that
\* waited goes on to read the logs.
FairSpec == Spec /\ WF_vars(Script) /\ WF_vars(Watchdog) /\ WF_vars(Collect)

-----------------------------------------------------------------------------
(* Properties *)

AllPassed == Len(lines) = n /\ \A k \in 1..Len(lines) : lines[k].status = "ac"

\* Accepted means accepted: an "ac" that reaches the database stands for one "ac"
\* line per test case, of a task judge.sh could read; nothing that goes wrong on
\* the way (compiler, SPJ, timeout, lost output) is read as acceptance.
AcceptedPassedAll == result.status = "ac" => task.form = "ok" /\ AllPassed

\* The f-th line (from 0) has status s, those before it passed, those after it
\* did not run.
Located(s, f) ==
  /\ f \in 0..Len(lines) - 1
  /\ lines[f + 1].status = s
  /\ \A k \in 1..f : lines[k].status = "ac"
  /\ \A k \in f + 2..Len(lines) : lines[k].status = "skipped"

\* A verdict about the program names the case it is about: that case's line has
\* the verdict, the cases before it passed and the cases after it did not run.
FailureIsLocated ==
  result.status \in Failures \ {"se"} =>
    Len(lines) = n /\ Located(result.status, result.failed)

\* Every task is answered, also when the SPJ hangs: by the script or by the
\* watchdog.
EveryTaskAnswered == <>(result # NoAnswer)

-----------------------------------------------------------------------------
(* The inductive invariant behind AcceptedPassedAll and FailureIsLocated.  *)

\* FINAL_STATUS and FAILED_CASE_INDEX summarise the lines written so far.
Summary ==
  \/ FINAL_STATUS = "ac" /\ \A k \in 1..Len(lines) : lines[k].status = "ac"
  \/ FINAL_STATUS \in Failures /\ Located(FINAL_STATUS, FAILED_CASE_INDEX)

\* An answer is what the lines say, before and after the host has it.
Justified(answer) ==
  /\ answer.status = "ac" => task.form = "ok" /\ AllPassed
  /\ answer.status \in Failures \ {"se"} =>
       Len(lines) = n /\ Located(answer.status, answer.failed)

\* What every step of judge.sh preserves.
IInv ==
  /\ TypeOK
  /\ pc \in {"parse", "spj", "compile"} => lines = << >> /\ FINAL_STATUS = "ac"
  /\ pc \in {"spj", "compile", "loop", "hung", "emit"} => task.form = "ok"
  /\ pc \in {"loop", "hung"} => Len(lines) <= n /\ Summary
  /\ pc = "emit" => FINAL_STATUS = "se"
  /\ pc \notin {"exited", "killed"} => result = NoAnswer
  /\ Justified(stdout) /\ Justified(result)
  /\ stdout # NoAnswer => pc \in {"exited", "killed"}
=============================================================================
