---------------------------- MODULE SampleRunner ----------------------------
(***************************************************************************)
(* sample_runner.h and POST /submissions/run-samples: the samples of a     *)
(* problem are run in a container of their own, on the thread of the       *)
(* request, with at most MaxRuns at a time and no place to wait.           *)
(*                                                                         *)
(* The task file of a run lies in a directory that is named after the      *)
(* microsecond of its start.  Docker is modelled by what the runner sees:  *)
(* a call returns or throws, and a call that throws may have had effect.   *)
(***************************************************************************)
EXTENDS Requests

CONSTANTS MaxRuns,      \* sample_max_concurrent, which the constructor makes at least 1
          LastStamp     \* bound on the microseconds

ASSUME RunnerAssumption == MaxRuns \in Nat \ {0}

VARIABLES permits,      \* CountingSemaphore::permits_
          stamp,        \* the microsecond it is
          dirs,         \* task directories: their stamp and the run whose task.json is there
          containers,   \* containers of sample runs, by the run that made them
          litter,       \* history: what a failing call left behind
          clashed,      \* history: runs that shared a directory
          verdicts      \* history: the run that asked and the run whose task was judged

runVars == <<permits, stamp, dirs, containers, litter, clashed, verdicts>>

RunnerInit ==
    /\ permits = MaxRuns
    /\ stamp = 1
    /\ dirs = [s \in {} |-> 0]
    /\ containers = {} /\ litter = {} /\ clashed = {} /\ verdicts = {}

microsecond ==
    /\ stamp < LastStamp
    /\ stamp' = stamp + 1
    /\ UNCHANGED <<permits, dirs, containers, litter, clashed, verdicts>>

(***************************************************************************)
(* run_samples_handler up to the runner.  The special judge is optional: a *)
(* failure to read it is ignored.                                          *)
(***************************************************************************)
require_fields(c) == \E status \in {400, 429} : Answers(c, status)

samples_prepare(c) ==
    /\ \/ Receives(c, "samples_problem", [run |-> requests])
       \/ /\ At(c, "samples_problem")
          /\ require_fields(c) \/ QueriesAndAnswers(c, 400) \/ Queries(c, "samples_cases", <<>>)
       \/ /\ At(c, "samples_cases")
          /\ QueriesAndAnswers(c, 400) \/ Queries(c, "samples_spj", <<>>)
       \/ /\ At(c, "samples_spj")
          /\ \/ Queries(c, "run", <<>>)
             \/ (StatementFails \/ AcquireTimesOut) /\ Moves(c, "run", <<>>, 0)
                  /\ UNCHANGED <<requests, active>>
       \/ task[c].at \in {"samples_problem", "samples_cases"} /\ (Throws(c) \/ TimesOut(c))
    /\ UNCHANGED runVars

(***************************************************************************)
(* SampleRunner::run.  The permit goes back when run() is left, by return  *)
(* or by exception.                                                        *)
(***************************************************************************)
Releaser == permits' = permits + 1

run_enters(c) ==
    /\ At(c, "run")
    /\ IF permits = 0
       THEN Answers(c, 503) /\ UNCHANGED permits
       ELSE Goes(c, "run_dir", <<>>) /\ permits' = permits - 1
    /\ UNCHANGED <<stamp, dirs, containers, litter, clashed, verdicts>>

(***************************************************************************)
(* make_task_dir and write_task_json.  create_directories is content with  *)
(* a directory that exists.                                                *)
(***************************************************************************)
Sharers(c) == {d \in Clients \ {c} : "dir" \in DOMAIN task[d] /\ task[d].dir = stamp}

run_keeps_permit(c) ==
    /\ At(c, "run_dir")
    /\ \/ /\ Goes(c, "run_write", [dir |-> stamp])
          /\ dirs' = [s \in DOMAIN dirs \cup {stamp} |-> IF s \in DOMAIN dirs THEN dirs[s] ELSE NULL]
          /\ clashed' = IF Sharers(c) = {} THEN clashed
                        ELSE clashed \cup {task[d].run : d \in Sharers(c) \cup {c}}
          /\ UNCHANGED permits
       \/ Throws(c) /\ UNCHANGED <<permits, dirs, clashed>>
    /\ UNCHANGED <<stamp, containers, litter, verdicts>>

run_reuses_dir(c) ==
    /\ At(c, "run_dir")
    /\ \/ /\ Goes(c, "run_write", [dir |-> 0])
          /\ dirs' = [s \in DOMAIN dirs \cup {0} |-> IF s = 0 THEN NULL ELSE dirs[s]]
          /\ clashed' = IF Sharers(c) = {} THEN clashed
                        ELSE clashed \cup {task[d].run : d \in Sharers(c) \cup {c}}
          /\ UNCHANGED permits
       \/ Throws(c) /\ Releaser /\ UNCHANGED <<dirs, clashed>>
    /\ UNCHANGED <<stamp, containers, litter, verdicts>>

run_makes_dir(c) ==
    /\ At(c, "run_dir")
    /\ \/ /\ Goes(c, "run_write", [dir |-> stamp])
          /\ dirs' = [s \in DOMAIN dirs \cup {stamp} |-> IF s \in DOMAIN dirs THEN dirs[s] ELSE NULL]
          /\ clashed' = IF Sharers(c) = {} THEN clashed
                        ELSE clashed \cup {task[d].run : d \in Sharers(c) \cup {c}}
          /\ UNCHANGED permits
       \/ Throws(c) /\ Releaser /\ UNCHANGED <<dirs, clashed>>
    /\ UNCHANGED <<stamp, containers, litter, verdicts>>

run_writes_task(c) ==
    /\ At(c, "run_write")
    /\ task[c].dir \in DOMAIN dirs
    /\ \/ Goes(c, "run_create", <<>>) /\ dirs' = [dirs EXCEPT ![task[c].dir] = task[c].run]
       \/ /\ StatementFails /\ Moves(c, "run_cleanup", <<>>, 0)
          /\ UNCHANGED <<requests, active, dirs>>
    /\ UNCHANGED <<permits, stamp, containers, litter, clashed, verdicts>>

run_misses_dir(c) ==
    /\ At(c, "run_write")
    /\ task[c].dir \notin DOMAIN dirs
    /\ Goes(c, "run_cleanup", <<>>)
    /\ UNCHANGED runVars

(***************************************************************************)
(* docker create and start.  A create that throws may have made a          *)
(* container whose id nobody knows.                                        *)
(***************************************************************************)
run_creates(c) ==
    /\ At(c, "run_create")
    /\ \/ Goes(c, "run_start", <<>>) /\ containers' = containers \cup {task[c].run} /\ UNCHANGED litter
       \/ /\ StatementFails /\ Moves(c, "run_cleanup", <<>>, 0)
          /\ UNCHANGED <<requests, active>>
          /\ \/ UNCHANGED <<containers, litter>>
             \/ containers' = containers \cup {task[c].run}
               /\ litter' = litter \cup {<<"container", task[c].run>>}
    /\ UNCHANGED <<permits, stamp, dirs, clashed, verdicts>>

run_begins(c) ==
    /\ At(c, "run_start")
    /\ \/ Goes(c, "run_wait", <<>>)
       \/ StatementFails /\ Moves(c, "run_remove", <<>>, 0) /\ UNCHANGED <<requests, active>>
    /\ UNCHANGED runVars

(***************************************************************************)
(* docker wait: the container has read the task file and finished; or the  *)
(* hard timeout or a broken connection sends the runner to kill it.  The   *)
(* logs are the verdict, or nothing if reading them fails.                 *)
(***************************************************************************)
Judged(c) == IF task[c].dir \in DOMAIN dirs THEN dirs[task[c].dir] ELSE NULL

run_waits(c) ==
    /\ At(c, "run_wait")
    /\ \/ /\ Goes(c, "run_remove", <<>>)
          /\ verdicts' = verdicts \cup {<<task[c].run, Judged(c)>>}
       \/ /\ StatementFails /\ Moves(c, "run_remove", <<>>, 0)
          /\ UNCHANGED <<requests, active, verdicts>>
    /\ UNCHANGED <<permits, stamp, dirs, containers, litter, clashed>>

(***************************************************************************)
(* try_remove and cleanup_task_dir swallow their failures.                 *)
(***************************************************************************)
run_removes(c) ==
    /\ At(c, "run_remove")
    /\ \/ Goes(c, "run_cleanup", <<>>) /\ containers' = containers \ {task[c].run} /\ UNCHANGED litter
       \/ /\ StatementFails /\ Moves(c, "run_cleanup", <<>>, 0)
          /\ litter' = litter \cup {<<"container", task[c].run>>}
          /\ UNCHANGED <<requests, active, containers>>
    /\ UNCHANGED <<permits, stamp, dirs, clashed, verdicts>>

run_cleans_up(c) ==
    /\ At(c, "run_cleanup")
    /\ \/ /\ Answers(c, 200)
          /\ dirs' = [s \in DOMAIN dirs \ {task[c].dir} |-> dirs[s]]
          /\ UNCHANGED litter
       \/ /\ StatementFails /\ AnswersDespite(c, 200)
          /\ litter' = litter \cup {<<"dir", task[c].dir>>}
          /\ UNCHANGED dirs
    /\ Releaser
    /\ UNCHANGED <<stamp, containers, clashed, verdicts>>

RunnerNext(c) ==
    \/ samples_prepare(c)
    \/ run_enters(c)
    \/ run_makes_dir(c)
    \/ run_writes_task(c) \/ run_misses_dir(c)
    \/ run_creates(c)
    \/ run_begins(c)
    \/ run_waits(c)
    \/ run_removes(c)
    \/ run_cleans_up(c)

(***************************************************************************)
(* The runs beside everything else the server does, which for them is that *)
(* connections come and go.                                                *)
(***************************************************************************)
connections_elsewhere ==
    /\ active' \in 0 .. PoolSize
    /\ UNCHANGED <<task, requests, faults, runVars>>

RunnerSteps ==
    \/ \E c \in Clients : RunnerNext(c)
    \/ microsecond /\ UNCHANGED reqVars
    \/ connections_elsewhere

RunnerSpec ==
    /\ \E n \in Nat : RequestsInit(n)
    /\ RunnerInit
    /\ [][RunnerSteps]_<<reqVars, runVars>>

(***************************************************************************)
(* With no request under way every permit is back, and the containers and  *)
(* directories that are left are those of runs in which a call failed.     *)
(***************************************************************************)
RunsLeaveNothing ==
    Quiet =>
        /\ permits = MaxRuns
        /\ \A r \in containers : <<"container", r>> \in litter
        /\ \A s \in DOMAIN dirs : <<"dir", s>> \in litter

(***************************************************************************)
(* The verdict that a request is answered with is about its own program:   *)
(* only runs that started within one microsecond share a task directory    *)
(* and may be judged on the other's task or lose it.                       *)
(***************************************************************************)
SampleIsOwn == \A v \in verdicts : v[1] = v[2] \/ v[1] \in clashed
=============================================================================
