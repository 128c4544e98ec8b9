------------------------------ MODULE Requests ------------------------------
(***************************************************************************)
(* The frame in which every route handler of litecode-cpp runs: a thread   *)
(* of the HTTP server takes a request, runs the handler statement by       *)
(* statement over pooled database connections and answers.  Each SQL       *)
(* statement is one atomic step (autocommit), so handlers interleave       *)
(* between statements.                                                     *)
(*                                                                         *)
(* task[c] is what thread c is doing: the label of its next statement, the *)
(* number of pooled connections it holds and the handler's locals.  active *)
(* is PoolStats::active.                                                   *)
(***************************************************************************)
EXTENDS Naturals, FiniteSets, Sequences, Functions

CONSTANTS Clients,      \* threads of httplib's pool
          PoolSize,     \* PoolConfig::max_size
          MaxFaults     \* bound on the statements that fail in a behaviour

ASSUME RequestsAssumption ==
    /\ IsFiniteSet(Clients)
    /\ PoolSize \in Nat \ {0}
    /\ MaxFaults \in Nat

VARIABLES task, requests, faults, active

reqVars == <<task, requests, faults, active>>

NULL == 0

Idle == [at |-> "idle", held |-> 0]

\* The locals of r, with those of l new or assigned.
With(r, l) == [x \in DOMAIN r \cup DOMAIN l |-> IF x \in DOMAIN l THEN l[x] ELSE r[x]]

(***************************************************************************)
(* budget bounds the requests of a behaviour.                              *)
(***************************************************************************)
RequestsInit(budget) ==
    /\ task = [c \in Clients |-> Idle]
    /\ requests = budget
    /\ faults = MaxFaults
    /\ active = 0

At(c, label) == task[c].at = label

Statuses == {200, 201, 202, 204, 400, 401, 403, 404, 409, 413, 423, 429, 500, 503}

(***************************************************************************)
(* A request reaches thread c: the handler starts at its first statement   *)
(* with the arguments taken from the path, the token and the body.         *)
(***************************************************************************)
Starts(c, locals) ==
    /\ At(c, "idle")
    /\ requests > 0
    /\ requests' = requests - 1
    /\ task' = [task EXCEPT ![c] = locals]
    /\ UNCHANGED <<faults, active>>

Receives(c, label, arguments) == Starts(c, With([at |-> label, held |-> 0], arguments))

(***************************************************************************)
(* A request that is turned away before its handler starts.                *)
(***************************************************************************)
Refused(c, status) ==
    /\ At(c, "idle")
    /\ requests > 0
    /\ status \in Statuses
    /\ requests' = requests - 1
    /\ UNCHANGED <<task, faults, active>>

(***************************************************************************)
(* The ways to run one statement and go on at label.                       *)
(*   Queries    a repository call of one statement: it needs a connection  *)
(*              for as long as the statement runs                          *)
(*   Proceeds   a step that changes no local                               *)
(*   Acquires   the first statement on a connection that is kept           *)
(*   Goes       a statement on a connection the thread already holds, or   *)
(*              a step that uses no database                               *)
(*   Releases   the last statement before the connection's scope ends      *)
(***************************************************************************)
HasSession == active < PoolSize

Moves(c, label, locals, held) ==
    task' = [task EXCEPT ![c] = With(With(@, locals), [at |-> label, held |-> held])]

Queries(c, label, locals) ==
    /\ HasSession
    /\ Moves(c, label, locals, task[c].held)
    /\ UNCHANGED <<requests, faults, active>>

Proceeds(c, label) ==
    /\ task' = [task EXCEPT ![c].at = label]
    /\ UNCHANGED <<requests, faults, active>>

Acquires(c, label, locals) ==
    /\ HasSession
    /\ Moves(c, label, locals, task[c].held + 1)
    /\ active' = active + 1
    /\ UNCHANGED <<requests, faults>>

Goes(c, label, locals) ==
    /\ Moves(c, label, locals, task[c].held)
    /\ UNCHANGED <<requests, faults, active>>

Releases(c, label, locals) ==
    /\ Moves(c, label, locals, task[c].held - 1)
    /\ active' = IF active > 0 THEN active - 1 ELSE 0
    /\ UNCHANGED <<requests, faults>>

(***************************************************************************)
(* The handler returns or throws: every PooledConnection it still holds is *)
(* destroyed and the thread is free again.  The status is written for the  *)
(* reader; a thread forgets it with the request.                           *)
(***************************************************************************)
AnswersKeeping(c, status) ==
    /\ status \in Statuses
    /\ task' = [task EXCEPT ![c] = Idle]
    /\ UNCHANGED <<requests, faults, active>>

Answers(c, status) ==
    /\ status \in Statuses
    /\ task' = [task EXCEPT ![c] = Idle]
    /\ active' = IF active > task[c].held THEN active - task[c].held ELSE 0
    /\ UNCHANGED <<requests, faults>>

QueriesAndAnswers(c, status) == HasSession /\ Answers(c, status)

(***************************************************************************)
(* A statement throws (the server fails, the connection breaks) or         *)
(* acquire() times out because every connection is in use.                 *)
(***************************************************************************)
StatementFails == faults > 0 /\ faults' = faults - 1

AcquireWaits == FALSE /\ UNCHANGED faults

AcquireTimesOut == ~HasSession /\ UNCHANGED faults

(***************************************************************************)
(* The route wrapper turns an exception of the handler into 500.           *)
(***************************************************************************)
Unwinds(c) ==
    /\ task' = [task EXCEPT ![c] = Idle]
    /\ active' = IF active > task[c].held THEN active - task[c].held ELSE 0
    /\ UNCHANGED requests

Throws(c) == StatementFails /\ Unwinds(c)

TimesOut(c) == AcquireTimesOut /\ Unwinds(c)

\* The last call of the handler failed and it answers all the same.
AnswersDespite(c, status) == status \in Statuses /\ Unwinds(c)

Quiet == \A c \in Clients : At(c, "idle")

(***************************************************************************)
(* PoolStats::active is the number of connections the threads hold: no     *)
(* path through a handler, an exception or a timeout leaks a connection or *)
(* gives one back twice.                                                   *)
(***************************************************************************)
ConnectionsAccounted ==
    /\ active = Cardinality({x \in Clients \X (1 .. PoolSize) : x[2] <= task[x[1]].held})
    /\ active <= PoolSize
=============================================================================
