------------------------------ MODULE Problems ------------------------------
(***************************************************************************)
(* The handlers of admin_problem_routes.h that write problems.  A problem  *)
(* is spread over four tables and a handler writes them one after the      *)
(* other, each with a statement or a transaction of its own.               *)
(***************************************************************************)
EXTENDS ProblemTables

(***************************************************************************)
(* require_admin and the rate limit come before the handler.               *)
(***************************************************************************)
admin_guards(c) ==
    /\ \E status \in {401, 403, 429} : Refused(c, status)
    /\ UNCHANGED <<auditVars, problemVars>>

parse_problem_body(c) == Answers(c, 400)

(***************************************************************************)
(* POST /admin/problems.  A slug that is taken, by a deleted problem too,  *)
(* is 409.                                                                 *)
(***************************************************************************)
create_starts(c) ==
    /\ \E s \in Slugs :
         Receives(c, "create", [slug |-> s, edit |-> Edit("problem.create"), id |-> NULL])
    /\ UNCHANGED <<auditVars, problemVars>>

create_inserts(c) ==
    LET s == task[c].slug IN
    /\ At(c, "create")
    /\ \/ /\ parse_problem_body(c) \/ (slug_exists(s) /\ QueriesAndAnswers(c, 409))
          /\ UNCHANGED <<problemVars, acts>>
       \/ /\ ~slug_exists(s)
          /\ problems' = Append(problems, Problem(s, task[c].edit))
          /\ revisions' = Append(revisions, {})
          /\ Queries(c, "patch_tags", [id |-> Len(problems) + 1])
          /\ Does(task[c].edit)
          /\ Surfaces(c, s)
          /\ UNCHANGED <<cut, raced, lost>>
    /\ UNCHANGED <<audit_logs, unaudited>>

(***************************************************************************)
(* PUT /admin/problems/:slug.  The old title is read for the audit entry   *)
(* and a failure ignored.  problem_repo::update asks for the row and then  *)
(* updates it, over one connection; the UPDATE finds no row if the problem *)
(* was deleted or renamed in between, which the handler takes for "nothing *)
(* changed".  The problem the tags and samples belong to is looked up      *)
(* again by the new slug.  An UPDATE that found no row counts as done, as  *)
(* it does for the handler.                                                *)
(***************************************************************************)
update_starts(c) ==
    /\ \E s, t \in Slugs :
         Receives(c, "update_title",
             [old |-> s, slug |-> t, edit |-> Edit("problem.update"), id |-> NULL])
    /\ UNCHANGED <<auditVars, problemVars>>

update_reads_title(c) ==
    /\ At(c, "update_title")
    /\ \/ parse_problem_body(c)
       \/ Queries(c, "update_exists", <<>>)
       \/ (StatementFails \/ AcquireTimesOut)
            /\ Moves(c, "update_exists", <<>>, 0) /\ UNCHANGED <<requests, active>>
    /\ UNCHANGED <<auditVars, problemVars>>

update_asks(c) ==
    /\ At(c, "update_exists")
    /\ IF find_live(task[c].old) = NULL
       THEN QueriesAndAnswers(c, 404)
       ELSE Acquires(c, "update_write", <<>>)
    /\ UNCHANGED <<auditVars, problemVars>>

update_writes(c) ==
    LET p == find_live(task[c].old)
        t == task[c].slug
    IN
    /\ At(c, "update_write")
    /\ IF p # NULL /\ find_by_slug(t) \notin {NULL, p}
       THEN Answers(c, 409) /\ UNCHANGED <<problemVars, acts>>
       ELSE /\ Releases(c, "update_reread", [id |-> p])
            /\ Does(task[c].edit)
            /\ IF p = NULL
               THEN UNCHANGED problemVars
               ELSE /\ problems' = [problems EXCEPT ![p].slug = t, ![p].edit = task[c].edit]
                    /\ Marks(c, p)
                    /\ Surfaces(c, t)
                    /\ UNCHANGED <<revisions, lost>>
    /\ UNCHANGED <<audit_logs, unaudited>>

update_rereads(c) ==
    LET p == find_by_slug(task[c].slug) IN
    /\ At(c, "update_reread") /\ HasSession
    /\ IF p = NULL
       THEN /\ Answers(c, 500)
            /\ unaudited' = Append(unaudited, task[c].edit)
            /\ lost' = lost \cup {task[c].edit}
            /\ cut' = cut \cup {task[c].id}
            /\ UNCHANGED raced
       ELSE /\ Queries(c, "patch_tags", [id |-> p])
            /\ raced' = IF p = task[c].id THEN raced ELSE raced \cup {p, task[c].id}
            /\ UNCHANGED <<unaudited, lost, cut>>
    /\ UNCHANGED <<audit_logs, acts, problems, revisions, late>>

(***************************************************************************)
(* apply_tag_and_sample_patch, and apply_problem_patch of the import: the  *)
(* names of the tags become rows of tags, the links of the problem are     *)
(* replaced in one transaction, its samples in the next and, by an import, *)
(* its hidden tests in a third.                                            *)
(***************************************************************************)
patch_finds_tags(c) ==
    /\ At(c, "patch_tags")
    /\ Queries(c, "patch_replace", <<>>) \/ Goes(c, "patch_replace", <<>>)
    /\ UNCHANGED <<auditVars, problemVars>>

replace_only_nonempty(c) ==
    /\ At(c, "patch_replace") /\ Queries(c, "patch_samples", <<>>)
    /\ \E tags \in {task[c].edit, problems[task[c].id].tags} :
         problems' = [problems EXCEPT ![task[c].id].tags = tags]
    /\ UNCHANGED <<auditVars, revisions, cut, raced, lost, late>>

patch_replaces_tags(c) ==
    /\ At(c, "patch_replace") /\ Queries(c, "patch_samples", <<>>)
    /\ problems' = [problems EXCEPT ![task[c].id].tags = task[c].edit]
    /\ UNCHANGED <<auditVars, revisions, cut, raced, lost, late>>

patch_replaces_samples(c) ==
    /\ At(c, "patch_samples")
    /\ Queries(c, IF Imports(c) THEN "patch_tests" ELSE "rev_max", <<>>)
    /\ problems' = [problems EXCEPT ![task[c].id].samples = task[c].edit]
    /\ UNCHANGED <<auditVars, revisions, cut, raced, lost, late>>

(***************************************************************************)
(* problem_revisions_repo::record: INSERT ... SELECT MAX(revision_no) + 1. *)
(* The statement reads the maximum and inserts; where the engine does not  *)
(* lock what it reads, another revision may come between and the unique    *)
(* key refuses the number.  The statement is tried twice.  The handlers    *)
(* force no number.  record_best_effort swallows every failure, and a      *)
(* field that record's own validation refuses before it takes a            *)
(* connection.                                                             *)
(***************************************************************************)
record_reads_max(c) ==
    /\ At(c, "rev_max")
    /\ LET read == [no |-> LastRevision(task[c].id) + 1,
                    attempt |-> IF task[c].held = 0 THEN 0 ELSE 1] IN
       IF task[c].held = 0 THEN Acquires(c, "rev_insert", read) ELSE Goes(c, "rev_insert", read)
    /\ UNCHANGED <<auditVars, problemVars>>

record_takes_dup_for_done(c) ==
    LET p == task[c].id IN
    /\ At(c, "rev_insert")
    /\ Releases(c, "audit", <<>>)
    /\ IF \E r \in revisions[p] : r.no = task[c].no
       THEN UNCHANGED revisions
       ELSE revisions' = [revisions EXCEPT ![p] = @ \cup {[no |-> task[c].no, edit |-> task[c].edit]}]
    /\ UNCHANGED <<auditVars, problems, cut, raced, lost, late>>

record_inserts(c) ==
    LET p == task[c].id
        taken == \E r \in revisions[p] : r.no = task[c].no
    IN
    /\ At(c, "rev_insert")
    /\ \/ /\ ~taken
          /\ revisions' = [revisions EXCEPT ![p] = @ \cup {[no |-> task[c].no, edit |-> task[c].edit]}]
          /\ Releases(c, "audit", <<>>)
          /\ UNCHANGED lost
       \/ /\ taken /\ task[c].attempt = 0
          /\ Goes(c, "rev_max", <<>>)
          /\ UNCHANGED <<revisions, lost>>
       \/ /\ taken /\ task[c].attempt = 1
          /\ Releases(c, "audit", <<>>)
          /\ lost' = lost \cup {task[c].edit}
          /\ UNCHANGED revisions
    /\ UNCHANGED <<auditVars, problems, cut, raced, late>>

record_refuses(c) == At(c, "rev_max") /\ task[c].held = 0 /\ Goes(c, "audit", <<>>)

record_best_effort(c) ==
    /\ \/ record_refuses(c)
       \/ /\ At(c, "rev_max") /\ task[c].held = 0
          /\ AcquireTimesOut /\ Moves(c, "audit", <<>>, 0) /\ UNCHANGED <<requests, active>>
       \/ /\ At(c, "rev_insert")
          /\ StatementFails /\ Moves(c, "audit", <<>>, 0)
          /\ active' = active - 1 /\ UNCHANGED requests
    /\ lost' = lost \cup {task[c].edit}
    /\ UNCHANGED <<auditVars, problems, revisions, cut, raced, late>>

(***************************************************************************)
(* The audit entry is due after the work; without it the answer is 500     *)
(* and the work stays.  A problem that was written is then read back, its  *)
(* row, its tags and its samples over one connection each.                 *)
(***************************************************************************)
audits(c) ==
    /\ At(c, "audit")
    /\ \/ /\ record(task[c].edit)
          /\ CASE task[c].edit.action \in {"problem.create", "problem.update"} ->
                      Queries(c, "payload", <<>>)
               [] task[c].edit.action = "problem.spj_upsert" -> Queries(c, "spj_reread", <<>>)
               [] task[c].edit.action = "problem.bulk_import" -> QueriesAndAnswers(c, 200)
               [] OTHER -> QueriesAndAnswers(c, 204)
       \/ record_fails(task[c].edit) /\ (Throws(c) \/ TimesOut(c))
    /\ UNCHANGED problemVars

build_response_payload(c) ==
    /\ \/ At(c, "payload") /\ Queries(c, "payload_tags", <<>>)
       \/ At(c, "payload_tags") /\ Queries(c, "payload_samples", <<>>)
       \/ /\ At(c, "payload_samples")
          /\ QueriesAndAnswers(c, IF task[c].edit.action = "problem.create" THEN 201 ELSE 200)
    /\ UNCHANGED <<auditVars, problemVars>>

(***************************************************************************)
(* DELETE /admin/problems/:slug.  The title is read for the audit entry;   *)
(* the UPDATE decides.  No revision is stored.                             *)
(***************************************************************************)
delete_starts(c) ==
    /\ \E s \in Slugs :
         Receives(c, "delete_title", [slug |-> s, edit |-> Edit("problem.delete"), id |-> NULL])
    /\ UNCHANGED <<auditVars, problemVars>>

delete_reads_title(c) ==
    /\ At(c, "delete_title")
    /\ \/ parse_problem_body(c)
       \/ Queries(c, "delete", <<>>)
       \/ (StatementFails \/ AcquireTimesOut)
            /\ Moves(c, "delete", <<>>, 0) /\ UNCHANGED <<requests, active>>
    /\ UNCHANGED <<auditVars, problemVars>>

soft_deletes_unseen(c) ==
    LET p == find_live(task[c].slug) IN
    /\ At(c, "delete")
    /\ IF p = NULL
       THEN UNCHANGED <<problems, acts>>
       ELSE problems' = [problems EXCEPT ![p].is_deleted = TRUE] /\ Does(task[c].edit)
    /\ Queries(c, "audit", <<>>)
    /\ UNCHANGED <<audit_logs, unaudited, revisions, cut, raced, lost, late>>

soft_deletes(c) ==
    LET p == find_live(task[c].slug) IN
    /\ At(c, "delete")
    /\ IF p = NULL
       THEN QueriesAndAnswers(c, 404) /\ UNCHANGED <<problems, acts>>
       ELSE /\ problems' = [problems EXCEPT ![p].is_deleted = TRUE]
            /\ Does(task[c].edit)
            /\ Queries(c, "audit", <<>>)
    /\ UNCHANGED <<audit_logs, unaudited, revisions, cut, raced, lost, late>>

(***************************************************************************)
(* A failure ends the handler with 500.  What it has written stays: the    *)
(* row without its tags, the tags without the samples, no revision and no  *)
(* audit entry.                                                            *)
(***************************************************************************)
problem_acquires ==
    {"create", "update_exists", "update_reread", "patch_tags", "patch_replace", "patch_samples",
     "payload", "payload_tags", "payload_samples", "delete"}

problem_throws(c) ==
    /\ \/ task[c].at \in problem_acquires \cup {"update_write"} /\ Throws(c)
       \/ task[c].at \in problem_acquires /\ TimesOut(c)
    /\ ~Imports(c)
    /\ IF task[c].at \in Patching
       THEN /\ unaudited' = Append(unaudited, task[c].edit)
            /\ lost' = lost \cup {task[c].edit}
            /\ cut' = cut \cup {task[c].id}
       ELSE UNCHANGED <<unaudited, lost, cut>>
    /\ UNCHANGED <<audit_logs, acts, problems, revisions, raced, late>>

ProblemsNext(c) ==
    \/ admin_guards(c)
    \/ create_starts(c) \/ create_inserts(c)
    \/ update_starts(c) \/ update_reads_title(c) \/ update_asks(c)
    \/ update_writes(c) \/ update_rereads(c)
    \/ patch_finds_tags(c) \/ patch_replaces_tags(c) \/ patch_replaces_samples(c)
    \/ record_reads_max(c) \/ record_inserts(c) \/ record_best_effort(c)
    \/ audits(c) \/ build_response_payload(c)
    \/ delete_starts(c) \/ delete_reads_title(c) \/ soft_deletes(c)
    \/ problem_throws(c)

=============================================================================
