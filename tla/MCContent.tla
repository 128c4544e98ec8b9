----------------------------- MODULE MCContent -----------------------------
(***************************************************************************)
(* Administrators edit, delete and import problems, everybody reads them,  *)
(* runs their samples and reads the statistics, and the judge compares     *)
(* texts, on a small instance.  A behaviour exercises one group of         *)
(* handlers, chosen by focus.                                              *)
(***************************************************************************)
EXTENDS BulkImport, Catalogue, SampleRunner, Statistics, JudgeCompare

Budget ==
    [edits |-> 3, failing |-> 2, imports |-> 2, lapses |-> 2, reads |-> 3, samples |-> 3,
     stats |-> 1, texts |-> 0]

(***************************************************************************)
(* The longest runs of edits and imports meet no database failure; the     *)
(* shorter ones of "failing" and "lapses" do.                              *)
(***************************************************************************)
Faults(f) == IF f \in {"edits", "imports"} THEN 0 ELSE MaxFaults

MCBatches == {<<s>> : s \in Slugs} \cup {<<s, t>> : s, t \in Slugs}

(***************************************************************************)
(* The connections that the server's other handlers hold meanwhile.        *)
(***************************************************************************)
Others ==
    [edits |-> {0}, failing |-> {0}, imports |-> {1}, lapses |-> {1}, reads |-> {1},
     samples |-> {1}, stats |-> {1, 2}, texts |-> {0}]

Symmetry == Permutations(Clients) \cup Permutations(Slugs) \cup Permutations(Tasks)

VARIABLE focus

otherVars == <<runVars, statVars, compareVars>>

vars == <<reqVars, importVars, otherVars, focus>>

(***************************************************************************)
(* One problem is there, written by a request before the first.            *)
(***************************************************************************)
Init ==
    /\ focus \in DOMAIN Budget
    /\ task = [c \in Clients |-> Idle]
    /\ requests = Budget[focus]
    /\ faults = Faults(focus)
    /\ active \in Others[focus]
    /\ AuditInit /\ ImportInit /\ RunnerInit /\ StatisticsInit /\ CompareInit
    /\ focus # "stats" => standing = [p \in Tasks |-> "live"]
    /\ \E s \in Slugs : LET e == [action |-> "problem.create", no |-> Budget[focus] + 1] IN
         /\ problems = <<[Problem(s, e) EXCEPT !.tags = e, !.samples = e]>>
         /\ revisions = <<{[no |-> 1, edit |-> e]}>>
    /\ cut = {} /\ raced = {} /\ lost = {} /\ late = {}

edits_step(c) ==
    /\ focus \in {"edits", "failing"}
    /\ ProblemsNext(c)
    /\ UNCHANGED <<clobbered, otherVars, focus>>

Single(c) == "files" \in DOMAIN task[c] => Len(task[c].files) = 1

imports_step(c) ==
    /\ focus \in {"imports", "lapses"}
    /\ \/ ProblemsNext(c) /\ UNCHANGED clobbered
       \/ ImportNext(c) /\ (focus = "lapses" => Single(c)')
    /\ UNCHANGED <<otherVars, focus>>

reads_step(c) ==
    /\ focus = "reads"
    /\ CatalogueNext(c) \/ audits(c)
    /\ UNCHANGED <<clobbered, otherVars, focus>>

samples_step ==
    /\ focus = "samples"
    /\ \/ microsecond /\ UNCHANGED reqVars
       \/ \E c \in Clients : RunnerNext(c)
    /\ UNCHANGED <<importVars, statVars, compareVars, focus>>

stats_step ==
    /\ focus = "stats"
    /\ \/ (submission_created \/ submission_finished) /\ UNCHANGED reqVars
       \/ problem_saved \/ problem_deleted
       \/ \E c \in Clients : StatisticsNext(c)
    /\ UNCHANGED <<importVars, runVars, compareVars, focus>>

texts_step ==
    /\ focus = "texts"
    /\ CompareNext
    /\ UNCHANGED <<reqVars, importVars, runVars, statVars, focus>>

Next ==
    \/ \E c \in Clients : edits_step(c) \/ imports_step(c) \/ reads_step(c)
    \/ samples_step
    \/ stats_step
    \/ texts_step

Spec == Init /\ [][Next]_vars
=============================================================================
