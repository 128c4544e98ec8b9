---------------------------- MODULE ProblemTables ----------------------------
(***************************************************************************)
(* The tables a problem is spread over (problem_repo.h, tag_repo.h,        *)
(* test_case_repo.h, special_judge_repo.h, problem_revisions_repo.h), what *)
(* the handlers ask of them and what must be true of them.                 *)
(*                                                                         *)
(* What an edit writes into a table stands for the edit's texts: the       *)
(* fields of a row say which edit its columns, its tags, its samples, its  *)
(* hidden tests and its special judge come from.  Soft-deleted problems    *)
(* keep their slug.                                                        *)
(***************************************************************************)
EXTENDS AuditLog

CONSTANT Slugs

VARIABLES problems,     \* the id of a problem is its index
          revisions,    \* problem_revisions, of each problem
          cut,          \* history: problems whose last edit failed part way
          raced,        \* history: problems that edits wrote at the same time
          lost,         \* history: edits whose revision could not be stored
          late,         \* history: slugs taken between an import's look and its write
          clobbered     \* history: slugs whose live problem a "skip" import overwrote

problemVars == <<problems, revisions, cut, raced, lost, late>>

(***************************************************************************)
(* An edit is one request; the number of requests that are left tells them *)
(* apart.                                                                  *)
(***************************************************************************)
Edit(action) == [action |-> action, no |-> requests]

Nothing == [action |-> "none", no |-> 0]

Problem(s, e) ==
    [slug |-> s, is_deleted |-> FALSE, edit |-> e,
     tags |-> Nothing, samples |-> Nothing, tests |-> Nothing, checker |-> Nothing]

LastRevision(p) == Cardinality(revisions[p])

slug_exists(s) == \E p \in DOMAIN problems : problems[p].slug = s

find_by_slug(s) ==
    IF slug_exists(s) THEN CHOOSE p \in DOMAIN problems : problems[p].slug = s ELSE NULL

find_live(s) ==
    LET p == find_by_slug(s) IN IF p # NULL /\ ~problems[p].is_deleted THEN p ELSE NULL

(***************************************************************************)
(* A thread has the edit it makes among its locals; that of an import has  *)
(* the files that are left, of which the first is being stored.            *)
(***************************************************************************)
Imports(c) == task[c].edit.action = "problem.bulk_import"

File(c) == Head(task[c].files)

NextFile(c) == IF Len(task[c].files) = 1 THEN "audit" ELSE "import_exists"

(***************************************************************************)
(* The edits other threads have under way on problem p, from the statement *)
(* that wrote its row to the one that stores its revision.                 *)
(***************************************************************************)
Patching ==
    {"update_reread", "import_id", "patch_tags", "patch_replace", "patch_samples", "patch_tests",
     "rev_max", "rev_insert"}

Patches(d, p) == task[d].at \in Patching /\ task[d].id = p

(***************************************************************************)
(* History of a write of the row of p by c: an edit that has the problem   *)
(* for itself makes it whole again.                                        *)
(***************************************************************************)
Marks(c, p) ==
    IF \E d \in Clients \ {c} : Patches(d, p)
    THEN raced' = raced \cup {p} /\ UNCHANGED cut
    ELSE raced' = raced \ {p} /\ cut' = cut \ {p}

Surfaces(c, s) ==
    late' = IF \E d \in Clients \ {c} :
                  task[d].at \in {"import_create", "import_tombstone", "import_upsert"} /\ Head(task[d].files) = s
            THEN late \cup {s} ELSE late

(***************************************************************************)
(* With no handler under way, the row of a problem, its tags, its samples, *)
(* its hidden tests if an import wrote it, and its latest revision if an   *)
(* administrator did, all come from one edit, except on the problems where *)
(* an edit failed part way or two edits ran at the same time; the next     *)
(* edit that has the problem for itself makes it whole again.              *)
(***************************************************************************)
EditsAreWhole ==
    Quiet => \A p \in DOMAIN problems \ (cut \cup raced) : LET row == problems[p] IN
        /\ row.tags = row.edit /\ row.samples = row.edit
        /\ IF row.edit.action = "problem.bulk_import"
           THEN row.tests = row.edit
           ELSE row.edit \in lost \/ [no |-> LastRevision(p), edit |-> row.edit] \in revisions[p]

(***************************************************************************)
(* problem_revisions_repo::record numbers the revisions of a problem 1, 2, *)
(* ... without a gap or a repetition, whatever the editors' threads do,    *)
(* and stores one revision for every creation or update, except the lost   *)
(* ones: a statement failed, the number was taken twice or record's own    *)
(* validation refused the entry.                                           *)
(***************************************************************************)
RevisionsNumbered ==
    /\ \A p \in DOMAIN revisions : {r.no : r \in revisions[p]} = 1 .. Cardinality(revisions[p])
    /\ Quiet => \A e \in Range(acts) :
         e.action \in {"problem.create", "problem.update"} =>
             Cardinality({x \in (DOMAIN revisions) \X UNION Range(revisions) :
                 x[2] \in revisions[x[1]] /\ x[2].edit = e}) = IF e \in lost THEN 0 ELSE 1

(***************************************************************************)
(* on_duplicate=skip leaves the problems that exist as they are: such an   *)
(* import overwrites a live problem only if it came to life, or took the   *)
(* slug, after process_one_file had looked for it.                         *)
(***************************************************************************)
SkipKeepsProblems == clobbered \subseteq late
=============================================================================
