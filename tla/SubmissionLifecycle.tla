------------------------- MODULE SubmissionLifecycle -------------------------
(***************************************************************************)
(* What the judge pipeline promises the rest of the server about one       *)
(* submission: how its row in the `submissions` table may move, and when   *)
(* the "result is ready" event for it may be published to the SSE layer.   *)
(*                                                                         *)
(* The row moves only through the four writers of submission_repo.h:       *)
(* create, mark_running, mark_finished and requeue_stuck_running.  The     *)
(* event is the row handed to JudgeNotifier::publish.                      *)
(***************************************************************************)
CONSTANT Submissions

VARIABLES
  rows,     \* submissions.status of every id ("none": no such row yet)
  event     \* the status carried by the event published for the id

lifeVars == <<rows, event>>

\* The verdicts a row can end in.  "wa" stands for the seven verdicts about
\* the user's program that the pipeline treats alike (wa re tle mle ole pe ce).
Verdicts == {"ac", "wa", "se"}
Transient == {"pending", "running"}
Statuses == {"none"} \cup Transient \cup Verdicts

LifeInit ==
  /\ rows = [s \in Submissions |-> "none"]
  /\ event = [s \in Submissions |-> "none"]

Insert(s) ==
  /\ rows[s] = "none"
  /\ rows' = [rows EXCEPT ![s] = "pending"]
  /\ UNCHANGED event

MarkRunning(s) ==
  /\ rows[s] = "pending"
  /\ rows' = [rows EXCEPT ![s] = "running"]
  /\ UNCHANGED event

MarkFinished(s, v) ==
  /\ rows[s] \in Transient
  /\ rows' = [rows EXCEPT ![s] = v]
  /\ UNCHANGED event

\* The sweep is one UPDATE: it moves every row it selects at once.
Requeue(S) ==
  /\ \A s \in S : rows[s] = "running"
  /\ rows' = [s \in Submissions |-> IF s \in S THEN "pending" ELSE rows[s]]
  /\ UNCHANGED event

\* A result is announced at most once, and only the result the row holds.
Announce(s) ==
  /\ event[s] = "none"
  /\ rows[s] \in Verdicts
  /\ event' = [event EXCEPT ![s] = rows[s]]
  /\ UNCHANGED rows

LifeNext ==
  \/ \E s \in Submissions :
       \/ Insert(s)
       \/ MarkRunning(s)
       \/ \E v \in Verdicts : MarkFinished(s, v)
       \/ Announce(s)
  \/ \E S \in SUBSET Submissions : Requeue(S)

LifeSpec == LifeInit /\ [][LifeNext]_lifeVars
=============================================================================
