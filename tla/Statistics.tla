----------------------------- MODULE Statistics -----------------------------
(***************************************************************************)
(* The readers that count: stats_routes.h (profile and ranking), the list  *)
(* of a user's submissions, admin_stats_routes.h, admin_queue_routes.h and *)
(* admin_audit_log_routes.h.  An answer is put together from several       *)
(* statements, each over a connection of its own, while submissions arrive *)
(* and are judged and problems are created, deleted and restored.          *)
(***************************************************************************)
EXTENDS Requests, FiniteSetsExt, TLC

CONSTANTS Members,      \* users
          Tasks,        \* problems
          MaxSubmissions,
          MaxTurns      \* problems saved or deleted while one answer is put together

VARIABLES submissions,  \* in the order of their ids
          standing,     \* of each problem: no row yet, live, or with is_deleted
          profiles,     \* history: the profile answered last
          overviews     \* history: the system statistics answered last

statVars == <<submissions, standing, profiles, overviews>>

StatisticsInit ==
    /\ submissions = <<>>
    /\ standing \in [Tasks -> {"absent", "live", "deleted"}]
    /\ profiles = {} /\ overviews = {}

(***************************************************************************)
(* What the others do to the tables.  submission_repo::create comes after  *)
(* the handler's look at the problem, which may have been deleted since.   *)
(* "pending" stands for "running" too, and "wa" for every verdict but      *)
(* "ac".  No statement deletes a submission or takes a verdict back.       *)
(***************************************************************************)
submission_created ==
    /\ Len(submissions) < MaxSubmissions
    /\ \E u \in Members, p \in {p \in Tasks : standing[p] # "absent"} :
         submissions' = Append(submissions, [user |-> u, problem |-> p, status |-> "pending"])
    /\ UNCHANGED <<standing, profiles, overviews>>

submission_finished ==
    /\ \E i \in DOMAIN submissions, verdict \in {"ac", "wa"} :
         /\ submissions[i].status = "pending"
         /\ submissions' = [submissions EXCEPT ![i].status = verdict]
    /\ UNCHANGED <<standing, profiles, overviews>>

(***************************************************************************)
(* A problem comes to life, by create or by the upsert of an import, which *)
(* restores a deleted one, or is deleted by soft_delete.  The answers that *)
(* are being put together count how many came and went meanwhile.          *)
(***************************************************************************)
Tallying == {c \in Clients : "turns" \in DOMAIN task[c]}

Turns(p, to, kind) ==
    /\ standing' = [standing EXCEPT ![p] = to]
    /\ \A c \in Tallying : task[c].turns.came + task[c].turns.went < MaxTurns
    /\ task' = [c \in Clients |->
                  IF c \in Tallying THEN [task[c] EXCEPT !.turns[kind] = @ + 1] ELSE task[c]]
    /\ UNCHANGED <<requests, faults, active, submissions, profiles, overviews>>

problem_saved == \E p \in Tasks : standing[p] # "live" /\ Turns(p, "live", "came")

problem_deleted == \E p \in Tasks : standing[p] = "live" /\ Turns(p, "deleted", "went")

NoTurns == [came |-> 0, went |-> 0]

(***************************************************************************)
(* The counts.                                                             *)
(***************************************************************************)
Of(u) == {i \in DOMAIN submissions : submissions[i].user = u}
Standing(s) == {p \in Tasks : standing[p] = s}
OnLive(u) == {i \in Of(u) : submissions[i].problem \in Standing("live")}
Accepted(S) == {i \in S : submissions[i].status = "ac"}
ProblemsOf(S) == {submissions[i].problem : i \in S}

count_user_submissions(u) == Cardinality(Of(u))
count_user_solved_problems(u) == Cardinality(ProblemsOf(Accepted(OnLive(u))))
count_user_attempted_problems(u) == Cardinality(ProblemsOf(OnLive(u)))
count_solved_by_difficulty(u) == count_user_solved_problems(u)  \* summed: every problem has one
count_problems == Cardinality(Standing("live"))
count_submissions_by_status(u) ==
    [s \in {"pending", "ac", "wa"} |-> Cardinality({i \in Of(u) : submissions[i].status = s})]

(***************************************************************************)
(* GET /stats/profile/:username: the user, then compute_user_stats with    *)
(* six statements.                                                         *)
(***************************************************************************)
profile_starts(c) ==
    /\ \E u \in Members : Receives(c, "profile", [user |-> u])
    /\ UNCHANGED statVars

profile_finds(c) ==
    /\ At(c, "profile")
    /\ Answers(c, 400) \/ QueriesAndAnswers(c, 404) \/ Queries(c, "profile_total", [turns |-> NoTurns])
    /\ UNCHANGED statVars

profile_counts_attempted_first(c) ==
    LET u == task[c].user IN
    /\ \/ /\ At(c, "profile_total")
          /\ Queries(c, "profile_attempted", [total |-> count_user_submissions(u)])
       \/ /\ At(c, "profile_attempted")
          /\ Queries(c, "profile_solved", [attempted |-> count_user_attempted_problems(u)])
       \/ /\ At(c, "profile_solved")
          /\ Queries(c, "profile_problems", [solved |-> count_user_solved_problems(u)])
       \/ /\ At(c, "profile_problems")
          /\ Queries(c, "profile_status", [problems |-> count_problems])
       \/ /\ At(c, "profile_status")
          /\ Queries(c, "profile_difficulty", [by_status |-> count_submissions_by_status(u)])
    /\ UNCHANGED statVars

profile_counts(c) ==
    LET u == task[c].user IN
    /\ \/ /\ At(c, "profile_total")
          /\ Queries(c, "profile_solved", [total |-> count_user_submissions(u)])
       \/ /\ At(c, "profile_solved")
          /\ Queries(c, "profile_attempted", [solved |-> count_user_solved_problems(u)])
       \/ /\ At(c, "profile_attempted")
          /\ Queries(c, "profile_problems", [attempted |-> count_user_attempted_problems(u)])
       \/ /\ At(c, "profile_problems")
          /\ Queries(c, "profile_status", [problems |-> count_problems])
       \/ /\ At(c, "profile_status")
          /\ Queries(c, "profile_difficulty", [by_status |-> count_submissions_by_status(u)])
    /\ UNCHANGED statVars

profile_answers(c) ==
    /\ At(c, "profile_difficulty") /\ QueriesAndAnswers(c, 200)
    /\ profiles' =
         {[total |-> task[c].total, solved |-> task[c].solved, attempted |-> task[c].attempted,
           problems |-> task[c].problems, by_status |-> task[c].by_status,
           by_difficulty |-> count_solved_by_difficulty(task[c].user), turns |-> task[c].turns]}
    /\ UNCHANGED <<submissions, standing, overviews>>

(***************************************************************************)
(* GET /stats/ranking: the number of users, then a page.  A page past the  *)
(* last user is answered without a second statement.                       *)
(***************************************************************************)
rank_counts(c) ==
    /\ \/ \E offset \in 0 .. Cardinality(Members) : Receives(c, "rank_count", [offset |-> offset])
       \/ /\ At(c, "rank_count")
          /\ \/ \E status \in {400, 429} : Answers(c, status)
             \/ IF task[c].offset < Cardinality(Members)
                THEN Queries(c, "rank_page", <<>>) ELSE QueriesAndAnswers(c, 200)
    /\ UNCHANGED statVars

list_leaderboard(c) ==
    /\ At(c, "rank_page")
    /\ QueriesAndAnswers(c, 200)
    /\ UNCHANGED statVars

(***************************************************************************)
(* GET /submissions and /submissions/:id: a user sees their own, an        *)
(* administrator anybody's.                                                *)
(***************************************************************************)
submission_count(c) == At(c, "subs_count") /\ Queries(c, "subs_page", <<>>)
submission_list(c) == At(c, "subs_page") /\ QueriesAndAnswers(c, 200)

list_submissions_handler(c) ==
    /\ \/ Receives(c, "subs_count", <<>>)
       \/ At(c, "subs_count") /\ Answers(c, 400)
       \/ submission_count(c)
       \/ submission_list(c)
    /\ UNCHANGED statVars

get_submission_handler(c) ==
    /\ \/ \E u \in Members, admin \in BOOLEAN, id \in 1 .. MaxSubmissions :
            Receives(c, "submission", [user |-> u, admin |-> admin, id |-> id])
       \/ /\ At(c, "submission")
          /\ \/ Answers(c, 400)
             \/ QueriesAndAnswers(c,
                  IF task[c].id > Len(submissions) THEN 404
                  ELSE IF task[c].admin \/ submissions[task[c].id].user = task[c].user THEN 200
                  ELSE 403)
    /\ UNCHANGED statVars

(***************************************************************************)
(* GET /admin/stats: a ping that cannot fail the request, then the counts  *)
(* of compute_system_stats in their order.  Those no claim is about are    *)
(* only statements.  The judge's snapshot and the probe of Docker come     *)
(* last and swallow what they throw.                                       *)
(***************************************************************************)
SystemCounts ==
    <<"users", "admins", "problems", "live", "deleted", "difficulty", "tags", "total",
      "by_status", "language", "audits", "recent", "recent_ac", "new_users">>

Counted(what) ==
    CASE what = "problems"  -> Cardinality(Tasks \ Standing("absent"))
      [] what = "live"      -> count_problems
      [] what = "deleted"   -> Cardinality(Standing("deleted"))
      [] what = "total"     -> Len(submissions)
      [] what = "by_status" -> MapThenSumSet(LAMBDA u : count_user_submissions(u), Members)
      [] OTHER              -> 0

system_starts(c) ==
    /\ \/ \E status \in {401, 403} : Refused(c, status)
       \/ Receives(c, "system", [seen |-> [what \in {} |-> 0], turns |-> NoTurns])
    /\ UNCHANGED statVars

NextCount(c) == SystemCounts[Cardinality(DOMAIN task[c].seen) + 1]

system_counts(c) ==
    /\ At(c, "system")
    /\ Cardinality(DOMAIN task[c].seen) < Len(SystemCounts)
    /\ Queries(c, "system", [seen |-> (NextCount(c) :> Counted(NextCount(c))) @@ task[c].seen])
    /\ UNCHANGED statVars

system_answers(c) ==
    /\ At(c, "system")
    /\ Cardinality(DOMAIN task[c].seen) = Len(SystemCounts)
    /\ Answers(c, 200)
    /\ overviews' = {[seen |-> task[c].seen, turns |-> task[c].turns]}
    /\ UNCHANGED <<submissions, standing, profiles>>

(***************************************************************************)
(* GET /admin/queue: the pending submissions are counted only if the ping  *)
(* came back, and a count that fails is shown as 0: never 500.             *)
(***************************************************************************)
get_admin_queue_handler(c) ==
    /\ \/ Receives(c, "queue", <<>>)
       \/ At(c, "queue") /\ (Answers(c, 429) \/ Queries(c, "queue_pending", <<>>))
       \/ At(c, "queue_pending") /\ QueriesAndAnswers(c, 200)
       \/ /\ task[c].at \in {"queue", "queue_pending"}
          /\ StatementFails \/ AcquireTimesOut
          /\ Moves(c, "queue_answer", <<>>, 0)
          /\ UNCHANGED <<requests, active>>
       \/ At(c, "queue_answer") /\ Answers(c, 200)
    /\ UNCHANGED statVars

(***************************************************************************)
(* GET /admin/audit-logs: the total and a page, as a list of submissions.  *)
(***************************************************************************)
audit_log_count(c) == At(c, "audit_count") /\ Queries(c, "audit_page", <<>>)
audit_log_list(c) == At(c, "audit_page") /\ QueriesAndAnswers(c, 200)

list_admin_audit_logs_handler(c) ==
    /\ \/ Receives(c, "audit_count", <<>>)
       \/ At(c, "audit_count") /\ \E status \in {400, 429} : Answers(c, status)
       \/ audit_log_count(c)
       \/ audit_log_list(c)
    /\ UNCHANGED statVars

(***************************************************************************)
(* Every other statement that fails answers 500.                           *)
(***************************************************************************)
StatementLabels ==
    {"profile", "profile_total", "profile_solved", "profile_attempted", "profile_problems",
     "profile_status", "profile_difficulty", "rank_count", "rank_page", "subs_count", "subs_page",
     "submission", "audit_count", "audit_page"}

statistics_throws(c) ==
    /\ \/ task[c].at \in StatementLabels
       \/ At(c, "system") /\ Cardinality(DOMAIN task[c].seen) < Len(SystemCounts)
    /\ Throws(c) \/ TimesOut(c)
    /\ UNCHANGED statVars

StatisticsNext(c) ==
    \/ profile_starts(c) \/ profile_finds(c) \/ profile_counts(c) \/ profile_answers(c)
    \/ rank_counts(c) \/ list_leaderboard(c)
    \/ list_submissions_handler(c) \/ get_submission_handler(c)
    \/ system_starts(c) \/ system_counts(c) \/ system_answers(c)
    \/ get_admin_queue_handler(c)
    \/ list_admin_audit_logs_handler(c)
    \/ statistics_throws(c)

(***************************************************************************)
(* What a reader is shown at once was counted at different times by        *)
(* compute_user_stats and compute_system_stats.  Submissions agree in one  *)
(* direction, because parts are counted after their total and what is      *)
(* contained in something before it.  Counts of problems are off by no     *)
(* more than the problems that came or went while the answer was put       *)
(* together.                                                               *)
(***************************************************************************)
CountsAgree ==
    /\ \A f \in profiles :
         /\ f.total <= f.by_status["pending"] + f.by_status["ac"] + f.by_status["wa"]
         /\ f.solved > 0 => f.by_status["ac"] > 0
         /\ f.solved <= f.attempted + f.turns.went
         /\ f.solved <= f.by_difficulty + f.turns.went
         /\ f.attempted <= f.problems + f.turns.went
    /\ \A o \in overviews : LET n == o.seen IN
         /\ n["problems"] <= n["live"] + n["deleted"] + o.turns.came
         /\ n["live"] + n["deleted"] <= n["problems"] + o.turns.came + o.turns.went
         /\ n["total"] <= n["by_status"]
=============================================================================
