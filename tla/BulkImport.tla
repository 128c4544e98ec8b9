----------------------------- MODULE BulkImport -----------------------------
(***************************************************************************)
(* admin_bulk_import_routes.h: POST /admin/problems/bulk-import takes a    *)
(* batch of problem files and stores them one after the other.  A file     *)
(* that fails does not stop the batch.  An import stores no revision.      *)
(***************************************************************************)
EXTENDS Problems

CONSTANTS Batches       \* the sequences of slugs a request may carry

\* A request without files is refused before the first.
ASSUME ImportAssumption == \A b \in Batches : b \in Seq(Slugs) /\ b # <<>>

ImportInit == clobbered = {}

importVars == <<auditVars, problemVars, clobbered>>

\* The file is done: the next one, or the audit entry of the batch.
Rest(c) == [files |-> Tail(task[c].files), id |-> NULL]

Closes(c) == IF NextFile(c) = "audit" THEN Does(task[c].edit) ELSE UNCHANGED acts

parse_import_request(c) == Answers(c, 400)

import_starts(c) ==
    /\ \E batch \in Batches, policy \in {"skip", "overwrite"} :
         Receives(c, "import_request",
             [files |-> batch, policy |-> policy, edit |-> Edit("problem.bulk_import"), id |-> NULL])
    /\ UNCHANGED importVars

import_parses(c) ==
    /\ At(c, "import_request")
    /\ parse_import_request(c) \/ Goes(c, "import_exists", <<>>)
    /\ UNCHANGED importVars

(***************************************************************************)
(* process_one_file.  A file that does not parse or validate fails; a slug *)
(* that is live is skipped or overwritten; otherwise the row is inserted.  *)
(* A duplicate is then taken for a deleted problem and restored by upsert, *)
(* whatever the policy, although it may have come to life since the look.  *)
(***************************************************************************)
import_rejects(c) ==
    /\ At(c, "import_exists")
    /\ Goes(c, NextFile(c), Rest(c)) /\ Closes(c)
    /\ UNCHANGED <<audit_logs, unaudited, problemVars, clobbered>>

import_ignores_policy(c) ==
    LET live == find_live(File(c)) # NULL IN
    /\ At(c, "import_exists")
    /\ Queries(c, IF live THEN "import_upsert" ELSE "import_create", <<>>) /\ UNCHANGED acts
    /\ UNCHANGED <<audit_logs, unaudited, problemVars, clobbered>>

import_looks(c) ==
    LET live == find_live(File(c)) # NULL IN
    /\ At(c, "import_exists")
    /\ IF live /\ task[c].policy = "skip"
       THEN Queries(c, NextFile(c), Rest(c)) /\ Closes(c)
       ELSE Queries(c, IF live THEN "import_upsert" ELSE "import_create", <<>>) /\ UNCHANGED acts
    /\ UNCHANGED <<audit_logs, unaudited, problemVars, clobbered>>

import_inserts(c) ==
    LET s == File(c) IN
    /\ At(c, "import_create")
    /\ IF slug_exists(s)
       THEN Queries(c, "import_tombstone", <<>>) /\ UNCHANGED problemVars
       ELSE /\ problems' = Append(problems, Problem(s, task[c].edit))
            /\ revisions' = Append(revisions, {})
            /\ Queries(c, "patch_tags", [id |-> Len(problems) + 1])
            /\ Surfaces(c, s)
            /\ UNCHANGED <<cut, raced, lost>>
    /\ UNCHANGED <<auditVars, clobbered>>

(***************************************************************************)
(* slug_exists with the deleted rows decides only what the file is         *)
(* reported as.                                                            *)
(***************************************************************************)
import_asks_tombstone(c) ==
    /\ At(c, "import_tombstone") /\ Queries(c, "import_upsert", <<>>)
    /\ UNCHANGED importVars

(***************************************************************************)
(* upsert: INSERT ... ON DUPLICATE KEY UPDATE, which brings a deleted row  *)
(* back, and a SELECT of the id by slug over the same connection.          *)
(***************************************************************************)
upsert_writes(c) ==
    LET s == File(c)
        p == find_by_slug(s)
    IN
    /\ At(c, "import_upsert")
    /\ IF p = NULL
       THEN /\ problems' = Append(problems, Problem(s, task[c].edit))
            /\ revisions' = Append(revisions, {})
            /\ Acquires(c, "import_id", [id |-> Len(problems) + 1])
            /\ UNCHANGED <<cut, raced>>
       ELSE /\ problems' = [problems EXCEPT ![p].edit = task[c].edit, ![p].is_deleted = FALSE]
            /\ Acquires(c, "import_id", [id |-> p])
            /\ Marks(c, p)
            /\ UNCHANGED revisions
    /\ clobbered' = IF task[c].policy = "skip" /\ find_live(s) # NULL
                    THEN clobbered \cup {s} ELSE clobbered
    /\ Surfaces(c, s)
    /\ UNCHANGED <<auditVars, lost>>

upsert_finds_id(c) ==
    LET p == find_by_slug(File(c)) IN
    /\ At(c, "import_id")
    /\ IF p = NULL
       THEN /\ Releases(c, NextFile(c), Rest(c)) /\ Closes(c)
            /\ cut' = cut \cup {task[c].id}
            /\ UNCHANGED raced
       ELSE /\ Releases(c, "patch_tags", [id |-> p])
            /\ raced' = IF p = task[c].id THEN raced ELSE raced \cup {p, task[c].id}
            /\ UNCHANGED <<acts, cut>>
    /\ UNCHANGED <<audit_logs, unaudited, problems, revisions, lost, late, clobbered>>

patch_replaces_tests(c) ==
    /\ At(c, "patch_tests")
    /\ problems' = [problems EXCEPT ![task[c].id].tests = task[c].edit]
    /\ Queries(c, NextFile(c), Rest(c)) /\ Closes(c)
    /\ UNCHANGED <<audit_logs, unaudited, revisions, cut, raced, lost, late, clobbered>>

(***************************************************************************)
(* Any exception fails the file, which keeps what was written of it.       *)
(***************************************************************************)
import_acquires ==
    {"import_exists", "import_create", "import_tombstone", "import_upsert",
     "patch_tags", "patch_replace", "patch_samples", "patch_tests"}

import_fails(c) ==
    /\ \/ task[c].at \in import_acquires \cup {"import_id"} /\ StatementFails
       \/ task[c].at \in import_acquires /\ AcquireTimesOut
    /\ Imports(c)
    /\ Moves(c, NextFile(c), Rest(c), 0)
    /\ active' = active - task[c].held
    /\ Closes(c)
    /\ cut' = IF task[c].at \in Patching \cup {"import_id"} THEN cut \cup {task[c].id} ELSE cut
    /\ UNCHANGED <<requests, audit_logs, unaudited, problems, revisions, raced, lost, late, clobbered>>

ImportNext(c) ==
    \/ import_starts(c) \/ import_parses(c) \/ import_rejects(c) \/ import_looks(c)
    \/ import_inserts(c) \/ import_asks_tombstone(c)
    \/ upsert_writes(c) \/ upsert_finds_id(c)
    \/ patch_replaces_tests(c)
    \/ import_fails(c)

=============================================================================
