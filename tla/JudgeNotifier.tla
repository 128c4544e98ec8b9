---------------------------- MODULE JudgeNotifier ----------------------------
(***************************************************************************)
(* JudgeNotifier (judge_notifier.h), the one-shot publish/subscribe table  *)
(* between the judge workers and the SSE requests, and its client, the     *)
(* GET /submissions/sse/:id handler (submission_routes.h).                 *)
(*                                                                         *)
(* The judge is the environment: it takes any step SubmissionLifecycle     *)
(* allows, which is all JudgeSchedulerProofs says about it.  Announcing a  *)
(* result is here the call of publish().                                   *)
(*                                                                         *)
(* A wait_for() call keeps its mutex cb_mu, its flag and its result in its *)
(* own stack frame, and the subscription refers to them.  The frame lives  *)
(* while the client is "waiting" or "leaving"; "leaving" is the stretch    *)
(* from the end of the wait to the return, during which cb_mu is held.     *)
(***************************************************************************)
EXTENDS Naturals, Sequences, FiniteSets

CONSTANTS
  Submissions,
  Listeners,      \* SSE requests
  HasNotifier,  \* notifier != nullptr
  DbFails       \* find_by_id may throw

ASSUME NotifierAssumption ==
  /\ IsFiniteSet(Listeners)
  /\ HasNotifier \in BOOLEAN /\ DbFails \in BOOLEAN

VARIABLES
  rows, event,   \* the environment: see SubmissionLifecycle
  subs,          \* subs_: per submission, the clients whose callbacks it holds
  snap,          \* per submission, what publish() has yet to invoke
  dangling,      \* a callback was invoked after its frame was gone
  watch,         \* the submission a client asks about
  cpc,           \* client: program counter
  seen,          \* client: the status find_by_id last returned
  fired,         \* client: result of the callback ("none": not fired)
  answer         \* client: the event sent ("pending": timeout event)

Lifecycle == INSTANCE SubmissionLifecycle
             WITH Submissions <- Submissions, rows <- rows, event <- event

lifeVars == <<rows, event>>
hubVars == <<subs, snap, dangling>>
clientVars == <<watch, cpc, seen, fired, answer>>
notifierVars == <<lifeVars, hubVars, clientVars>>

Verdicts == {"ac", "wa", "se"}
RowStatuses == {"none", "pending", "running"} \cup Verdicts
ClientPCs == {"idle", "recheck", "rechecked", "waiting", "leaving", "answered"}

NotifierTypeOK ==
  /\ rows \in [Submissions -> RowStatuses] /\ event \in [Submissions -> {"none"} \cup Verdicts]
  /\ subs \in [Submissions -> Seq(Listeners)] /\ snap \in [Submissions -> Seq(Listeners)]
  /\ dangling \in BOOLEAN
  /\ watch \in [Listeners -> Submissions]
  /\ cpc \in [Listeners -> ClientPCs]
  /\ seen \in [Listeners -> RowStatuses]
  /\ fired \in [Listeners -> {"none"} \cup Verdicts]
  /\ answer \in [Listeners -> RowStatuses \cup {"error", "timeout"}]

NotifierInit ==
  /\ Lifecycle!LifeInit
  /\ subs = [s \in Submissions |-> << >>]
  /\ snap = [s \in Submissions |-> << >>]
  /\ dangling = FALSE
  /\ watch \in [Listeners -> Submissions]
  /\ cpc = [c \in Listeners |-> "idle"]
  /\ seen = [c \in Listeners |-> "none"]
  /\ fired = [c \in Listeners |-> "none"]
  /\ answer = [c \in Listeners |-> "none"]

-----------------------------------------------------------------------------
(* The judge *)

\* Rows move as the lifecycle allows.
Environment ==
  /\ \/ \E s \in Submissions :
          \/ Lifecycle!Insert(s)
          \/ Lifecycle!MarkRunning(s)
          \/ \E v \in Verdicts : Lifecycle!MarkFinished(s, v)
     \/ \E S \in SUBSET Submissions : Lifecycle!Requeue(S)
  /\ UNCHANGED <<hubVars, clientVars>>

\* Mutant: callbacks are invoked under mu_.
MuFreeBetweenCalls == \A s \in Submissions : snap[s] = << >>

\* mu_ is never held across two steps: publish() releases it before it invokes.
MuFree == TRUE

\* publish(), under mu_: the whole vector is moved out of the map.
Snapshot(s) ==
  /\ snap' = [snap EXCEPT ![s] = subs[s]]
  /\ subs' = [subs EXCEPT ![s] = << >>]

Publish(s) ==
  /\ MuFree
  /\ Lifecycle!Announce(s)
  /\ Snapshot(s)
  /\ UNCHANGED <<dangling, clientVars>>

\* Mutant: a row that is not the published one.
DeliveredStale(s) == "wa"

Delivered(s) == event[s]

\* publish(), outside mu_: invoke the next callback.  It needs the client's
\* cb_mu, so it waits while the client is leaving; afterwards the frame is gone,
\* the call is undefined, and the publisher may or may not return from it.
InvokeCallback(s) ==
  /\ snap[s] # << >>
  /\ LET c == Head(snap[s]) IN
       \/ /\ cpc[c] = "waiting"
          /\ fired' = [fired EXCEPT ![c] = Delivered(s)]
          /\ snap' = [snap EXCEPT ![s] = Tail(@)]
          /\ UNCHANGED dangling
       \/ /\ cpc[c] = "answered"
          /\ dangling' = TRUE
          /\ snap' = [snap EXCEPT ![s] = Tail(@)] \/ UNCHANGED snap
          /\ UNCHANGED fired
  /\ UNCHANGED <<lifeVars, subs, watch, cpc, seen, answer>>

-----------------------------------------------------------------------------
(* sse_submission_handler and wait_for *)

Answer(c, a) ==
  /\ cpc' = [cpc EXCEPT ![c] = "answered"]
  /\ answer' = [answer EXCEPT ![c] = a]

Read(c) == seen' = [seen EXCEPT ![c] = rows[watch[c]]]

\* 1 to 5.  An error event (401, 400, 500, 403, and 404 if there is no row), the
\* row as the first find_by_id saw it, or on to wait.
Fetch(c) ==
  /\ cpc[c] = "idle"
  /\ LET row == rows[watch[c]] IN
       \/ Answer(c, "error") /\ UNCHANGED seen
       \/ /\ row \in Verdicts \/ (row # "none" /\ ~HasNotifier)
          /\ Answer(c, row)
          /\ Read(c)
       \/ /\ row \in {"pending", "running"} /\ HasNotifier
          /\ cpc' = [cpc EXCEPT ![c] = "recheck"]
          /\ Read(c)
          /\ UNCHANGED answer
  /\ UNCHANGED <<lifeVars, hubVars, watch, fired>>

\* The second find_by_id; a throw is caught and the first row is sent as it is.
Recheck(c) ==
  /\ cpc[c] = "recheck"
  /\ \/ /\ DbFails
        /\ Answer(c, seen[c])
        /\ UNCHANGED seen
     \/ /\ Read(c)
        /\ cpc' = [cpc EXCEPT ![c] = "rechecked"]
        /\ UNCHANGED answer
  /\ UNCHANGED <<lifeVars, hubVars, watch, fired>>

\* wait_for: a terminal row is returned at once, otherwise subscribe.
Subscribe(c) ==
  /\ cpc[c] = "rechecked"
  /\ \/ seen[c] \in Verdicts /\ Answer(c, seen[c]) /\ UNCHANGED subs
     \/ /\ seen[c] \notin Verdicts /\ MuFree
        /\ subs' = [subs EXCEPT ![watch[c]] = Append(@, c)]
        /\ cpc' = [cpc EXCEPT ![c] = "waiting"]
        /\ UNCHANGED answer
  /\ UNCHANGED <<lifeVars, snap, dangling, watch, seen, fired>>

\* wait_until returns, with cb_mu: the callback has fired or the deadline passed.
StopWaiting(c) ==
  /\ cpc[c] = "waiting"
  /\ cpc' = [cpc EXCEPT ![c] = "leaving"]
  /\ UNCHANGED <<lifeVars, hubVars, watch, seen, fired, answer>>

\* Mutant: no unsubscribe on the way out.
DropNothing(q) == q

\* unsubscribe() drops the most recently added callback, whosever it is.
DropOne(q) == IF q = << >> THEN q ELSE SubSeq(q, 1, Len(q) - 1)

Return(c) ==
  /\ cpc[c] = "leaving"
  /\ MuFree
  /\ subs' = [subs EXCEPT ![watch[c]] = DropOne(@)]
  /\ Answer(c, IF fired[c] # "none" THEN fired[c] ELSE "timeout")
  /\ UNCHANGED <<lifeVars, snap, dangling, watch, seen, fired>>

-----------------------------------------------------------------------------
Serve(c) == Fetch(c) \/ Recheck(c) \/ Subscribe(c) \/ StopWaiting(c) \/ Return(c)

NotifierNext ==
  \/ Environment
  \/ \E s \in Submissions : Publish(s) \/ InvokeCallback(s)
  \/ \E c \in Listeners : Serve(c)

NotifierSpec == NotifierInit /\ [][NotifierNext]_notifierVars

\* Handler threads run, a wait ends at its deadline at the latest, and a
\* publisher works through its snapshot.  Nothing makes the judge finish.
NotifierFairSpec ==
  /\ NotifierSpec
  /\ \A c \in Listeners : WF_notifierVars(Serve(c))
  /\ \A s \in Submissions : WF_notifierVars(InvokeCallback(s))

-----------------------------------------------------------------------------
(* Properties *)

Attached(s) == {c \in Listeners : watch[c] = s /\ cpc[c] \in {"waiting", "leaving"}}
Holds(q, c) == \E i \in 1..Len(q) : q[i] = c

\* A verdict sent to a client is the verdict in the table, on each of the three
\* ways it can get there: first read, second read, callback.
AnswerIsTheVerdict ==
  \A c \in Listeners : answer[c] \in Verdicts => answer[c] = rows[watch[c]]

\* The map never holds more callbacks for a submission than there are requests
\* waiting for it, so it is empty when nobody waits: every exit of wait_for
\* unsubscribes something.
NoEntryLeaks == \A s \in Submissions : Len(subs[s]) <= Cardinality(Attached(s))

\* Every SSE request is answered: the wait is bounded, and neither a publisher
\* nor another client can keep it from returning.
EveryRequestAnswered == \A c \in Listeners : cpc[c] # "idle" ~> cpc[c] = "answered"

-----------------------------------------------------------------------------
(* The inductive invariant behind AnswerIsTheVerdict and NoEntryLeaks.     *)

\* Whatever a client has read or been handed is the stored verdict, because a
\* finished row never changes again; and callbacks are filed under the
\* submission their client watches.
VerdictsAgree ==
  /\ \A s \in Submissions : event[s] # "none" => event[s] = rows[s]
  /\ \A s \in Submissions : snap[s] # << >> => event[s] # "none"
  /\ \A c \in Listeners : seen[c] \in Verdicts => seen[c] = rows[watch[c]]
  /\ \A c \in Listeners : fired[c] # "none" => fired[c] = rows[watch[c]]

Filed ==
  \A s \in Submissions :
    /\ \A i \in 1..Len(subs[s]) : watch[subs[s][i]] = s
    /\ \A i \in 1..Len(snap[s]) : watch[snap[s][i]] = s

\* The conjunction every step of publish(), wait_for() and the SSE handler
\* preserves.
NotifierIInv == NotifierTypeOK /\ VerdictsAgree /\ Filed /\ AnswerIsTheVerdict /\ NoEntryLeaks

-----------------------------------------------------------------------------
(* What a comment in the source says and the code does not do.             *)

\* judge_notifier.h:287 "unsubscribe on every exit so a late publish doesn't try
\* to invoke a dangling lambda".  A publish that took its snapshot before the
\* timeout invokes the callback after the frame is gone.
NoDanglingCall == ~dangling
=============================================================================
