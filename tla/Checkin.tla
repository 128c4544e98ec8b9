------------------------------ MODULE Checkin ------------------------------
(***************************************************************************)
(* checkin_repo.h and checkin_routes.h: the daily check-in and its streak. *)
(* An accepted submission makes a judge worker call try_checkin, which     *)
(* runs five statements on one connection, each with the CURDATE() of its  *)
(* own moment; midnight may fall between any two of them.                  *)
(***************************************************************************)
EXTENDS Requests, FiniteSetsExt

CONSTANTS Members,      \* users who solve problems
          MaxDay        \* bound on the days of a behaviour

VARIABLES today,        \* CURDATE()
          checkin_records,  \* pairs <<user, day>>, unique
          streaks,      \* users.last_checkin, current_streak, longest_streak
          torn          \* history: users of a check-in whose record was written
                        \* and whose streak was not, or only on a later day

checkVars == <<today, checkin_records, streaks, torn>>

CheckinInit ==
    /\ today = 1
    /\ checkin_records = {}
    /\ streaks = [u \in Members |-> [last |-> NULL, current |-> 0, longest |-> 0]]
    /\ torn = {}

written == {"ci_user", "ci_yesterday", "ci_update"}

(***************************************************************************)
(* try_checkin.  The unique key (user, date) turns a second INSERT of a    *)
(* day into an error, which ends the call like any other error: with false *)
(* and no exception.                                                       *)
(***************************************************************************)
ci_starts(c) ==
    /\ \E u \in Members : Receives(c, "ci_today", [user |-> u])
    /\ UNCHANGED checkVars

ci_today(c) ==
    /\ At(c, "ci_today")
    /\ IF <<task[c].user, today>> \in checkin_records
       THEN QueriesAndAnswers(c, 200)
       ELSE Acquires(c, "ci_insert", <<>>)
    /\ UNCHANGED checkVars

ci_insert(c) ==
    /\ At(c, "ci_insert")
    /\ IF <<task[c].user, today>> \in checkin_records
       THEN Answers(c, 200) /\ UNCHANGED checkin_records
       ELSE /\ checkin_records' = checkin_records \cup {<<task[c].user, today>>}
            /\ Goes(c, "ci_user", <<>>)
    /\ UNCHANGED <<today, streaks, torn>>

ci_user(c) ==
    /\ At(c, "ci_user")
    /\ LET row == streaks[task[c].user] IN
       IF row.last = NULL
       THEN Goes(c, "ci_update", [streak |-> 1, longest |-> row.longest])
       ELSE Goes(c, "ci_yesterday", [streak |-> row.current, longest |-> row.longest])
    /\ UNCHANGED checkVars

ci_yesterday_is_today(c) ==
    /\ At(c, "ci_yesterday")
    /\ LET met == <<task[c].user, today>> \in checkin_records IN
       Goes(c, "ci_update", [streak |-> IF met THEN task[c].streak + 1 ELSE 1])
    /\ UNCHANGED checkVars

ci_yesterday(c) ==
    /\ At(c, "ci_yesterday")
    /\ LET met == <<task[c].user, today - 1>> \in checkin_records IN
       Goes(c, "ci_update", [streak |-> IF met THEN task[c].streak + 1 ELSE 1])
    /\ UNCHANGED checkVars

ci_update(c) ==
    /\ At(c, "ci_update")
    /\ streaks' = [streaks EXCEPT ![task[c].user] =
         [last |-> today, current |-> task[c].streak,
          longest |-> IF task[c].longest > task[c].streak
                      THEN task[c].longest ELSE task[c].streak]]
    /\ Answers(c, 200)
    /\ UNCHANGED <<today, checkin_records, torn>>

try_checkin(c) ==
    \/ ci_starts(c)
    \/ ci_today(c)
    \/ ci_insert(c)
    \/ ci_user(c)
    \/ ci_yesterday(c)
    \/ ci_update(c)

(***************************************************************************)
(* GET /checkin/today, /checkin/calendar (one statement each) and          *)
(* /checkin/stats (three statements on one connection).                    *)
(***************************************************************************)
handle_checkin_today(c) ==
    /\ \/ \E u \in Members : Receives(c, "ci_get", [user |-> u])
       \/ At(c, "ci_get") /\ QueriesAndAnswers(c, 200)
    /\ UNCHANGED checkVars

handle_checkin_calendar(c) ==
    /\ \/ \E u \in Members : Receives(c, "ci_calendar", [user |-> u])
       \/ At(c, "ci_calendar") /\ QueriesAndAnswers(c, 200)
    /\ UNCHANGED checkVars

handle_checkin_stats(c) ==
    /\ \/ \E u \in Members : Receives(c, "ci_streak", [user |-> u])
       \/ At(c, "ci_streak") /\ Acquires(c, "ci_done", <<>>)
       \/ At(c, "ci_done") /\ Goes(c, "ci_total", <<>>)
       \/ At(c, "ci_total") /\ Answers(c, 200)
    /\ UNCHANGED checkVars

checkin_acquires == {"ci_today", "ci_get", "ci_calendar", "ci_streak"}
checkin_holds == {"ci_insert", "ci_done", "ci_total"} \cup written

checkin_throws(c) ==
    /\ \/ task[c].at \in checkin_acquires \cup checkin_holds /\ Throws(c)
       \/ task[c].at \in checkin_acquires /\ TimesOut(c)
    /\ torn' = IF task[c].at \in written THEN torn \cup {task[c].user} ELSE torn
    /\ UNCHANGED <<today, checkin_records, streaks>>

midnight ==
    /\ today < MaxDay
    /\ today' = today + 1
    /\ torn' = torn \cup {task[c].user : c \in {d \in Clients : task[d].at \in written}}
    /\ UNCHANGED reqVars
    /\ UNCHANGED <<checkin_records, streaks>>

CheckinNext(c) ==
    \/ try_checkin(c)
    \/ handle_checkin_today(c)
    \/ handle_checkin_calendar(c)
    \/ handle_checkin_stats(c)
    \/ checkin_throws(c)

(***************************************************************************)
(* The streak that try_checkin stores is the number of consecutive days    *)
(* with a record that end with the last check-in, and longest_streak is    *)
(* the longest such run ever: with no call under way, for every user whose *)
(* check-ins were neither cut by an error nor by midnight, however the     *)
(* calls of two workers interleaved.                                       *)
(***************************************************************************)
Days(u) == {d \in 1 .. MaxDay : <<u, d>> \in checkin_records}

RunEnding(u, d) == Max({n \in 0 .. d : \A k \in (d - n + 1) .. d : k \in Days(u)})

StreaksExact ==
    Quiet => \A u \in Members \ torn :
        /\ Days(u) = {} => streaks[u].last = NULL
        /\ Days(u) # {} => streaks[u].last = Max(Days(u))
        /\ streaks[u].current =
             (IF streaks[u].last = NULL THEN 0 ELSE RunEnding(u, streaks[u].last))
        /\ streaks[u].longest = Max({0} \cup {RunEnding(u, d) : d \in Days(u)})
=============================================================================
