------------------------------- MODULE Likes -------------------------------
(***************************************************************************)
(* The likes of discussions, solutions and comments.  Three repositories   *)
(* hold the same statements over three pairs of tables: a unique like row  *)
(* per user and subject, and a like_count in the subject's row.            *)
(*                                                                         *)
(* A subject is <<kind, id>>.  drifted is a history variable: the subjects *)
(* whose counters an event of one of the kinds named here has put off:     *)
(*   - a statement between the write of a row and the update of its        *)
(*     counter fails;                                                      *)
(*   - a like or a reply is deleted that is already gone;                  *)
(*   - GREATEST(0, n - 1) meets a counter that is 0.                       *)
(***************************************************************************)
EXTENDS Notifications

CONSTANTS Admins,        \* users whose token carries the role "admin"
          MaxRows        \* bound on the rows of a table

VARIABLES likes,         \* pairs <<user, subject>>
          like_count,    \* subject -> the column like_count
          drifted

likeVars == <<likes, like_count, drifted>>

Kinds == {"discussion", "solution", "comment"}
Subjects == Kinds \X (1 .. MaxRows)

Greatest0(n) == IF n > 0 THEN n - 1 ELSE 0

(***************************************************************************)
(* toggle_like, on one connection: read whether the user likes the         *)
(* subject, then delete or insert the like, then move the counter.  An     *)
(* INSERT of a like that exists by then breaks the unique key and throws.  *)
(***************************************************************************)
toggle_reads(c, s) ==
    /\ At(c, "like_read")
    /\ Acquires(c, "like_write", [existing |-> <<task[c].user, s>> \in likes])
    /\ UNCHANGED likeVars

toggle_deletes(c, s) ==
    /\ At(c, "like_write") /\ task[c].existing
    /\ likes' = likes \ {<<task[c].user, s>>}
    /\ drifted' = IF <<task[c].user, s>> \in likes THEN drifted ELSE drifted \cup {s}
    /\ Goes(c, "like_count", <<>>)
    /\ UNCHANGED like_count

toggle_inserts(c, s) ==
    /\ At(c, "like_write") /\ ~task[c].existing
    /\ IF <<task[c].user, s>> \in likes
       THEN Answers(c, 500) /\ UNCHANGED likes
       ELSE /\ likes' = likes \cup {<<task[c].user, s>>}
            /\ Goes(c, "like_count", <<>>)
    /\ UNCHANGED <<like_count, drifted>>

toggle_counts_always_up(c, s) ==
    /\ At(c, "like_count")
    /\ like_count' = [like_count EXCEPT ![s] = @ + 1]
    /\ Releases(c, "like_reread", <<>>)
    /\ UNCHANGED <<likes, drifted>>

toggle_counts(c, s) ==
    /\ At(c, "like_count")
    /\ IF task[c].existing
       THEN /\ like_count' = [like_count EXCEPT ![s] = Greatest0(@)]
            /\ drifted' = IF like_count[s] = 0 THEN drifted \cup {s} ELSE drifted
       ELSE /\ like_count' = [like_count EXCEPT ![s] = @ + 1]
            /\ UNCHANGED drifted
    /\ Releases(c, "like_reread", <<>>)
    /\ UNCHANGED likes

toggle_like(c, s) ==
    \/ toggle_reads(c, s)
    \/ toggle_deletes(c, s)
    \/ toggle_inserts(c, s)
    \/ toggle_counts(c, s)

(***************************************************************************)
(* Whatever the threads have done, when none is inside a handler like_count*)
(* is the number of like rows, except on the drifted subjects.             *)
(***************************************************************************)
LikeCountsExact ==
    Quiet => \A s \in Subjects \ drifted :
        like_count[s] = Cardinality({l \in likes : l[2] = s})
=============================================================================
