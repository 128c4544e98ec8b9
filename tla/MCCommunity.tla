---------------------------- MODULE MCCommunity ----------------------------
(***************************************************************************)
(* The discussions, the solutions and the check-ins on a small instance.   *)
(* They share threads, connections, the bell and the broadcaster, and      *)
(* touch no table of each other: a behaviour exercises one of them, chosen *)
(* by focus, beside the bell and the stream.                               *)
(***************************************************************************)
EXTENDS Discussions, Solutions, Checkin

CONSTANTS Foci        \* the components this model explores

Budget == [discussions |-> 2, solutions |-> 2, checkin |-> 4, stream |-> 2]

VARIABLE focus

vars == <<reqVars, notifVars, likeVars, discVars, solVars, checkVars, focus>>

Init ==
    /\ focus \in Foci
    /\ RequestsInit(Budget[focus])
    /\ NotificationsInit
    /\ CheckinInit
    /\ images = {}
    /\ \E a, b \in Users :
         /\ a # b
         /\ focus = "solutions" => b \in Admins
         /\ discussions =
              <<[user |-> a, problem |-> NULL, parent |-> NULL, root |-> NULL,
                 reply_count |-> 1, is_deleted |-> FALSE],
                [user |-> b, problem |-> NULL, parent |-> 1, root |-> 1,
                 reply_count |-> 0, is_deleted |-> FALSE]>>
         /\ notifications =
              <<[user |-> a, type |-> "discussion_reply", ref |-> 1, is_read |-> FALSE]>>
         /\ solutions = <<[user |-> a, comment_count |-> 1, is_deleted |-> FALSE],
                          [user |-> b, comment_count |-> 0, is_deleted |-> FALSE]>>
         /\ likes = {<<b, <<"discussion", 1>>>>, <<b, <<"solution", 1>>>>}
         /\ like_count = [s \in Subjects |->
              IF s \in {<<"discussion", 1>>, <<"solution", 1>>} THEN 1 ELSE 0]
         /\ drifted = {}
         /\ comments = <<[solution |-> 1, user |-> a, parent |-> NULL, is_deleted |-> FALSE]>>

discussions_step(c) ==
    /\ focus = "discussions"
    /\ DiscussionsNext(c)
    /\ UNCHANGED <<solVars, checkVars, focus>>

solutions_step(c) ==
    /\ focus = "solutions"
    /\ SolutionsNext(c)
    /\ UNCHANGED <<discVars, checkVars, focus>>

bell_step(c) ==
    /\ focus = "stream"
    /\ NotificationsNext(c)
    /\ UNCHANGED <<likeVars, discVars, solVars, checkVars, focus>>

reply_step(c) ==
    /\ focus = "stream"
    /\ handle_reply_discussion(c)
    /\ UNCHANGED <<solVars, checkVars, focus>>

checkin_step(c) ==
    /\ focus = "checkin"
    /\ CheckinNext(c)
    /\ UNCHANGED <<notifVars, likeVars, discVars, solVars, focus>>

day_passes ==
    /\ focus = "checkin"
    /\ midnight
    /\ UNCHANGED <<notifVars, likeVars, discVars, solVars, focus>>

Step(c) ==
    \/ discussions_step(c)
    \/ solutions_step(c)
    \/ bell_step(c)
    \/ reply_step(c)
    \/ checkin_step(c)

Next ==
    \/ \E c \in Clients : Step(c)
    \/ day_passes

(***************************************************************************)
(* A thread that is inside a handler goes on: the server's threads are     *)
(* scheduled by the operating system and every statement returns or times  *)
(* out.  No browser has to disconnect and no statement to fail.  A thread  *)
(* that waits for the broadcaster's mutex gets it some time if it is       *)
(* released again and again: a stream that sleeps in pop() gives it up     *)
(* every 30 s only to take it at once, and std::mutex alone promises the   *)
(* others nothing.                                                         *)
(***************************************************************************)
Locking(c) == task[c].at \in {"stream_join", "stream_leave", "reply_push"}

Fairness ==
    \A c \in Clients :
        /\ WF_vars(~At(c, "idle") /\ Step(c) /\ ~browser_disconnects(c) /\ UNCHANGED faults)
        /\ SF_vars(Locking(c) /\ Step(c))

Spec == Init /\ [][Next]_vars /\ Fairness

(***************************************************************************)
(* The counters that stand beside the rows they count, of likes, replies   *)
(* and comments, agree with the rows whenever no handler is under way,     *)
(* except on the subjects an error or a race has put off (drifted).        *)
(***************************************************************************)
CountersExact == LikeCountsExact /\ ReplyCountsExact /\ CommentCountsExact

(***************************************************************************)
(* Every request but an open stream is answered, although handlers hold    *)
(* one connection while they wait for another: acquire() gives up after    *)
(* its timeout.                                                            *)
(***************************************************************************)
RequestsAnswered ==
    \A c \in Clients :
        (task[c].at \notin {"idle", "stream_poll", "stream_sleep"}) ~>
            (task[c].at \in {"idle", "stream_poll"})
=============================================================================
