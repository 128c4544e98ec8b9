----------------------------- MODULE Catalogue -----------------------------
(***************************************************************************)
(* special_judge_repo.h and its handlers in admin_problem_routes.h, and    *)
(* the readers of problem_routes.h and tag_routes.h.                       *)
(***************************************************************************)
EXTENDS Problems

parse_spj_body(c) == Answers(c, 400)

(***************************************************************************)
(* PUT, DELETE and GET /admin/problems/:slug/special-judge.                *)
(***************************************************************************)
spj_starts(c) ==
    /\ \E s \in Slugs, action \in {"problem.spj_upsert", "problem.spj_delete", "spj_get"} :
         Receives(c, "spj_find", [slug |-> s, edit |-> Edit(action), id |-> NULL])
    /\ UNCHANGED <<auditVars, problemVars>>

spj_finds(c) ==
    LET p == find_live(task[c].slug) IN
    /\ At(c, "spj_find")
    /\ \/ parse_spj_body(c)
       \/ p = NULL /\ QueriesAndAnswers(c, 404)
       \/ p # NULL /\ Queries(c, IF task[c].edit.action = "spj_get" THEN "spj_get" ELSE "spj_write",
                                 [id |-> p])
    /\ UNCHANGED <<auditVars, problemVars>>

spj_upserts(c) ==
    /\ At(c, "spj_write") /\ task[c].edit.action = "problem.spj_upsert"
    /\ Queries(c, "audit", <<>>)
    /\ problems' = [problems EXCEPT ![task[c].id].checker = task[c].edit]
    /\ Does(task[c].edit)
    /\ UNCHANGED <<audit_logs, unaudited, revisions, cut, raced, lost, late>>

spj_removes(c) ==
    /\ At(c, "spj_write") /\ task[c].edit.action = "problem.spj_delete"
    /\ Queries(c, "audit", <<>>)
    /\ problems' = [problems EXCEPT ![task[c].id].checker = Nothing]
    /\ Does(task[c].edit)
    /\ UNCHANGED <<audit_logs, unaudited, revisions, cut, raced, lost, late>>

(***************************************************************************)
(* The time of the update is read back for the answer, and a failure       *)
(* ignored.                                                                *)
(***************************************************************************)
spj_rereads(c) ==
    /\ At(c, "spj_reread")
    /\ \/ QueriesAndAnswers(c, 200)
       \/ (StatementFails \/ AcquireTimesOut) /\ AnswersDespite(c, 200)
    /\ UNCHANGED <<auditVars, problemVars>>

get_special_judge(c) ==
    /\ At(c, "spj_get")
    /\ QueriesAndAnswers(c, IF problems[task[c].id].checker = Nothing THEN 404 ELSE 200)
    /\ UNCHANGED <<auditVars, problemVars>>

(***************************************************************************)
(* GET /problems/:slug reads the row, the tags, the samples and whether    *)
(* there is a special judge, one connection each.                          *)
(***************************************************************************)
get_problem_detail_handler(c) ==
    /\ \/ \E s \in Slugs : Receives(c, "detail", [slug |-> s])
       \/ /\ At(c, "detail")
          /\ \/ \E status \in {400, 429} : Answers(c, status)
             \/ IF find_live(task[c].slug) = NULL
                THEN QueriesAndAnswers(c, 404) ELSE Queries(c, "detail_tags", <<>>)
       \/ At(c, "detail_tags") /\ Queries(c, "detail_samples", <<>>)
       \/ At(c, "detail_samples") /\ Queries(c, "detail_spj", <<>>)
       \/ At(c, "detail_spj") /\ QueriesAndAnswers(c, 200)
    /\ UNCHANGED <<auditVars, problemVars>>

(***************************************************************************)
(* GET /problems, /problems/:slug/navigation and /tags: a count and a page *)
(* over one connection, or one statement.                                  *)
(***************************************************************************)
parse_list_query(c) == \E status \in {400, 429} : Answers(c, status)

list_problems_handler(c) ==
    /\ \/ Receives(c, "problems_count", <<>>)
       \/ At(c, "problems_count") /\ (parse_list_query(c) \/ Acquires(c, "problems_page", <<>>))
       \/ At(c, "problems_page") /\ Answers(c, 200)
    /\ UNCHANGED <<auditVars, problemVars>>

handle_problem_navigation(c) ==
    /\ \/ \E s \in Slugs : Receives(c, "navigation", [slug |-> s])
       \/ /\ At(c, "navigation")
          /\ \/ \E status \in {400, 429} : Answers(c, status)
             \/ IF find_live(task[c].slug) = NULL
                THEN QueriesAndAnswers(c, 404) ELSE Queries(c, "problems_count", <<>>)
    /\ UNCHANGED <<auditVars, problemVars>>

list_tags_handler(c) ==
    /\ \/ Receives(c, "tags", <<>>)
       \/ At(c, "tags") /\ QueriesAndAnswers(c, 200)
    /\ UNCHANGED <<auditVars, problemVars>>

catalogue_acquires ==
    {"spj_find", "spj_write", "spj_get", "detail", "detail_tags", "detail_samples", "detail_spj",
     "problems_count", "navigation", "tags"}

catalogue_throws(c) ==
    /\ \/ task[c].at \in catalogue_acquires \cup {"problems_page"} /\ Throws(c)
       \/ task[c].at \in catalogue_acquires /\ TimesOut(c)
    /\ UNCHANGED <<auditVars, problemVars>>

CatalogueNext(c) ==
    \/ spj_starts(c) \/ spj_finds(c) \/ spj_upserts(c) \/ spj_removes(c)
    \/ spj_rereads(c)
    \/ get_special_judge(c)
    \/ get_problem_detail_handler(c)
    \/ list_problems_handler(c) \/ handle_problem_navigation(c) \/ list_tags_handler(c)
    \/ catalogue_throws(c)
=============================================================================
