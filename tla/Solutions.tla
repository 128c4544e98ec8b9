----------------------------- MODULE Solutions -----------------------------
(***************************************************************************)
(* solution_repo.h, solution_comment_repo.h and solution_routes.h:         *)
(* solutions with their likes and comments.  comment_count stands in the   *)
(* solution's row beside the comments it counts.                           *)
(***************************************************************************)
EXTENDS Likes

VARIABLES solutions,  \* rows [user, comment_count, is_deleted], the id is the index
          comments    \* rows [solution, user, parent, is_deleted]

solVars == <<solutions, comments>>
shareVars == <<notifVars, likeVars, solVars>>

solution_found(s) == s \in DOMAIN solutions /\ ~solutions[s].is_deleted
comment_found(k) == k \in DOMAIN comments /\ ~comments[k].is_deleted

(***************************************************************************)
(* The repositories' single statements.                                    *)
(***************************************************************************)
create_solution(u) ==
    /\ Len(solutions) < MaxRows
    /\ solutions' = Append(solutions, [user |-> u, comment_count |-> 0, is_deleted |-> FALSE])
    /\ UNCHANGED comments

solution_soft_delete(s) ==
    solutions' = [solutions EXCEPT ![s].is_deleted = TRUE] /\ UNCHANGED comments

comment_create(s, u, parent) ==
    /\ Len(comments) < MaxRows
    /\ comments' = Append(comments,
         [solution |-> s, user |-> u, parent |-> parent, is_deleted |-> FALSE])
    /\ UNCHANGED solutions

comment_soft_delete(k) ==
    comments' = [comments EXCEPT ![k].is_deleted = TRUE] /\ UNCHANGED solutions

increment_comment_count(s) ==
    solutions' = [solutions EXCEPT ![s].comment_count = @ + 1] /\ UNCHANGED comments

decrement_comment_count(s) ==
    solutions' = [solutions EXCEPT ![s].comment_count = Greatest0(@)] /\ UNCHANGED comments

(***************************************************************************)
(* Solutions.  The list answers 200 with no items when it throws.          *)
(***************************************************************************)
handle_list_solutions(c) ==
    /\ \/ Receives(c, "sols_slug", <<>>)
       \/ /\ At(c, "sols_slug")
          /\ QueriesAndAnswers(c, 404) \/ Queries(c, "sols_count", <<>>)
       \/ At(c, "sols_count") /\ Acquires(c, "sols_page", <<>>)
       \/ At(c, "sols_page") /\ Answers(c, 200)
       \/ /\ \/ task[c].at \in {"sols_slug", "sols_count", "sols_page"} /\ StatementFails
             \/ task[c].at \in {"sols_slug", "sols_count"} /\ AcquireTimesOut
          /\ task' = [task EXCEPT ![c] = Idle]
          /\ active' = active - task[c].held
          /\ UNCHANGED requests
    /\ UNCHANGED shareVars

handle_create_solution(c) ==
    \/ /\ \/ \E u \in Users : Receives(c, "sol_slug", [user |-> u])
          \/ /\ At(c, "sol_slug")
             /\ \/ \E status \in {400, 404} : QueriesAndAnswers(c, status)
                \/ Queries(c, "sol_create", <<>>)
       /\ UNCHANGED shareVars
    \/ /\ At(c, "sol_create")
       /\ create_solution(task[c].user)
       /\ QueriesAndAnswers(c, 200)
       /\ UNCHANGED <<notifVars, likeVars>>

handle_get_solution(c) ==
    /\ \/ \E s \in DOMAIN solutions : Receives(c, "sol_find", [id |-> s])
       \/ /\ At(c, "sol_find")
          /\ IF solution_found(task[c].id)
             THEN Queries(c, "sol_author", <<>>)
             ELSE QueriesAndAnswers(c, 404)
       \/ At(c, "sol_author") /\ QueriesAndAnswers(c, 200)
    /\ UNCHANGED shareVars

(***************************************************************************)
(* POST /solutions/:id/like.  A new like of somebody else's solution is    *)
(* announced, with the liker's name fetched over a connection that stays   *)
(* held meanwhile.                                                         *)
(***************************************************************************)
toggle_solution_like(c) == toggle_like(c, <<"solution", task[c].id>>)

handle_like_solution(c) ==
    \/ /\ \/ \E u \in Users, s \in DOMAIN solutions :
               Receives(c, "sol_like", [user |-> u, id |-> s])
          \/ /\ At(c, "sol_like")
             /\ IF solution_found(task[c].id)
                THEN Queries(c, "like_read",
                             [kind |-> "solution", target |-> solutions[task[c].id].user])
                ELSE QueriesAndAnswers(c, 404)
          \/ /\ At(c, "like_reread") /\ task[c].kind = "solution"
             /\ IF ~task[c].existing /\ task[c].target # task[c].user
                THEN Queries(c, "like_name", <<>>)
                ELSE QueriesAndAnswers(c, 200)
          \/ /\ At(c, "like_name")
             /\ Acquires(c, "like_store", [type |-> "solution_like", ref |-> task[c].id])
       /\ UNCHANGED shareVars
    \/ /\ task[c].at \in {"like_read", "like_write", "like_count"}
       /\ task[c].kind = "solution"
       /\ toggle_solution_like(c)
       /\ UNCHANGED <<notifVars, solVars>>
    \/ notify_stores(c, "like_store", "like_push") /\ UNCHANGED <<likeVars, solVars>>
    \/ notify_pushes(c, "like_push") /\ UNCHANGED <<likeVars, solVars>>

handle_delete_solution(c) ==
    LET s == task[c].id IN
    \/ /\ \/ \E u \in Users, t \in DOMAIN solutions :
               Receives(c, "sol_delete", [user |-> u, id |-> t])
          \/ /\ At(c, "sol_delete")
             /\ \/ ~solution_found(s) /\ QueriesAndAnswers(c, 404)
                \/ /\ solution_found(s)
                   /\ IF task[c].user = solutions[s].user \/ task[c].user \in Admins
                      THEN Queries(c, "sol_remove", <<>>)
                      ELSE QueriesAndAnswers(c, 403)
       /\ UNCHANGED shareVars
    \/ /\ At(c, "sol_remove")
       /\ solution_soft_delete(s)
       /\ QueriesAndAnswers(c, 200)
       /\ UNCHANGED <<notifVars, likeVars>>

(***************************************************************************)
(* Comments.  The list reads its page first and counts afterwards.         *)
(***************************************************************************)
handle_list_solution_comments(c) ==
    /\ \/ \E s \in DOMAIN solutions : Receives(c, "com_list", [id |-> s])
       \/ /\ At(c, "com_list")
          /\ IF solution_found(task[c].id)
             THEN Queries(c, "com_page", <<>>)
             ELSE QueriesAndAnswers(c, 404)
       \/ At(c, "com_page") /\ Queries(c, "com_total", <<>>)
       \/ At(c, "com_total") /\ QueriesAndAnswers(c, 200)
    /\ UNCHANGED shareVars

(***************************************************************************)
(* POST /solutions/:id/comments.  A failure to read the parent is answered *)
(* as a malformed parent_id; once the comment is counted, whatever goes    *)
(* wrong with its notification is swallowed.                               *)
(***************************************************************************)
handle_create_solution_comment(c) ==
    LET s == task[c].id
        parent == task[c].parent
    IN
    \/ /\ \/ \E u \in Users, t \in DOMAIN solutions, p \in {NULL} \cup DOMAIN comments :
               Receives(c, "com_solution", [user |-> u, id |-> t, parent |-> p])
          \/ /\ At(c, "com_solution")
             /\ \/ ~solution_found(s) /\ QueriesAndAnswers(c, 404)
                \/ solution_found(s) /\ QueriesAndAnswers(c, 400)
                \/ /\ solution_found(s)
                   /\ Queries(c, IF parent = NULL THEN "com_create" ELSE "com_parent",
                              [author |-> solutions[s].user])
          \/ /\ At(c, "com_parent")
             /\ \/ ~comment_found(parent) /\ QueriesAndAnswers(c, 404)
                \/ /\ comment_found(parent) /\ comments[parent].solution # s
                   /\ QueriesAndAnswers(c, 400)
                \/ /\ comment_found(parent) /\ comments[parent].solution = s
                   /\ Queries(c, "com_create", <<>>)
                \/ /\ StatementFails \/ AcquireTimesOut
                   /\ task' = [task EXCEPT ![c] = Idle]
                   /\ UNCHANGED <<requests, active>>
          \/ /\ At(c, "com_name") /\ parent # NULL
             /\ Acquires(c, "com_reread", <<>>)
          \/ /\ At(c, "com_name") /\ parent = NULL
             /\ IF task[c].author = task[c].user
                THEN QueriesAndAnswers(c, 200)
                ELSE Acquires(c, "com_store", [target |-> task[c].author,
                                               type |-> "solution_comment", ref |-> s])
          \/ /\ At(c, "com_reread")
             /\ IF comment_found(parent) /\ comments[parent].user # task[c].user
                THEN Queries(c, "com_store", [target |-> comments[parent].user,
                                              type |-> "solution_comment_reply", ref |-> s])
                ELSE QueriesAndAnswers(c, 200)
          \/ /\ task[c].at \in {"com_name", "com_reread"}
             /\ StatementFails \/ AcquireTimesOut
             /\ task' = [task EXCEPT ![c] = Idle]
             /\ active' = active - task[c].held
             /\ UNCHANGED requests
       /\ UNCHANGED shareVars
    \/ /\ At(c, "com_create")
       /\ comment_create(s, task[c].user, parent)
       /\ Queries(c, "com_count", <<>>)
       /\ UNCHANGED <<notifVars, likeVars>>
    \/ /\ At(c, "com_count")
       /\ increment_comment_count(s)
       /\ Queries(c, "com_name", <<>>)
       /\ UNCHANGED <<notifVars, likeVars>>
    \/ notify_stores(c, "com_store", "comment_push") /\ UNCHANGED <<likeVars, solVars>>
    \/ notify_pushes(c, "comment_push") /\ UNCHANGED <<likeVars, solVars>>

handle_delete_solution_comment(c) ==
    LET k == task[c].id IN
    \/ /\ \/ \E u \in Users, j \in DOMAIN comments :
               Receives(c, "com_delete", [user |-> u, id |-> j])
          \/ /\ At(c, "com_delete")
             /\ \/ ~comment_found(k) /\ QueriesAndAnswers(c, 404)
                \/ /\ comment_found(k)
                   /\ IF task[c].user = comments[k].user \/ task[c].user \in Admins
                      THEN Queries(c, "com_remove", <<>>)
                      ELSE QueriesAndAnswers(c, 403)
       /\ UNCHANGED shareVars
    \/ /\ At(c, "com_remove")
       /\ comment_soft_delete(k)
       /\ drifted' = IF comments[k].is_deleted
                     THEN drifted \cup {<<"comments", comments[k].solution>>} ELSE drifted
       /\ Queries(c, "com_discount", <<>>)
       /\ UNCHANGED <<notifVars, likes, like_count>>
    \/ /\ At(c, "com_discount")
       /\ LET s == comments[k].solution IN
          /\ decrement_comment_count(s)
          /\ drifted' = IF solutions[s].comment_count = 0
                        THEN drifted \cup {<<"comments", s>>} ELSE drifted
       /\ QueriesAndAnswers(c, 200)
       /\ UNCHANGED <<notifVars, likes, like_count>>

comment_toggle_like(c) == toggle_like(c, <<"comment", task[c].id>>)

handle_like_solution_comment(c) ==
    \/ /\ \/ \E u \in Users, k \in DOMAIN comments :
               Receives(c, "com_like", [user |-> u, id |-> k])
          \/ /\ At(c, "com_like")
             /\ IF comment_found(task[c].id)
                THEN Queries(c, "like_read", [kind |-> "comment"])
                ELSE QueriesAndAnswers(c, 404)
          \/ At(c, "like_reread") /\ task[c].kind = "comment" /\ QueriesAndAnswers(c, 200)
       /\ UNCHANGED shareVars
    \/ /\ task[c].at \in {"like_read", "like_write", "like_count"}
       /\ task[c].kind = "comment"
       /\ comment_toggle_like(c)
       /\ UNCHANGED <<notifVars, solVars>>

solution_acquires ==
    {"sol_slug", "sol_create", "sol_find", "sol_author", "sol_like", "like_read", "like_reread",
     "like_name", "sol_delete", "sol_remove", "com_list", "com_page", "com_total",
     "com_solution", "com_create", "com_count", "com_delete", "com_remove",
     "com_discount", "com_like"}
solution_holds == {"like_write", "like_count"}

solution_throws(c) ==
    /\ \/ task[c].at \in solution_acquires \cup solution_holds /\ Throws(c)
       \/ task[c].at \in solution_acquires /\ TimesOut(c)
    /\ drifted' = drifted \cup
         CASE At(c, "like_count") -> {<<task[c].kind, task[c].id>>}
           [] At(c, "com_count") -> {<<"comments", task[c].id>>}
           [] At(c, "com_discount") -> {<<"comments", comments[task[c].id].solution>>}
           [] OTHER -> {}
    /\ UNCHANGED <<notifVars, likes, like_count, solVars>>

SolutionsNext(c) ==
    \/ handle_list_solutions(c)
    \/ handle_create_solution(c)
    \/ handle_get_solution(c)
    \/ handle_like_solution(c)
    \/ handle_delete_solution(c)
    \/ handle_list_solution_comments(c)
    \/ handle_create_solution_comment(c)
    \/ handle_delete_solution_comment(c)
    \/ handle_like_solution_comment(c)
    \/ solution_throws(c)

(***************************************************************************)
(* With no handler under way comment_count is the number of comments of    *)
(* the solution that are not deleted, except on the drifted solutions.     *)
(***************************************************************************)
CommentCountsExact ==
    Quiet => \A s \in DOMAIN solutions :
        \/ <<"comments", s>> \in drifted
        \/ solutions[s].comment_count =
              Cardinality({k \in DOMAIN comments :
                  comments[k].solution = s /\ ~comments[k].is_deleted})
=============================================================================
