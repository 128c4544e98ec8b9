------------------------------ MODULE Lockout ------------------------------
(***************************************************************************)
(* LoginFailureTracker and login_handler of auth_routes.h: too many wrong  *)
(* passwords for one name lock the name for a while.  The tracker is one   *)
(* bounded map under one mutex; a login asks it, looks the user up, checks *)
(* the password and reports to it in separate steps.  It asks about the    *)
(* name as it was typed and reports the name as the row spells it, if the  *)
(* database found one.                                                     *)
(***************************************************************************)
EXTENDS Accounts, AuditLog

CONSTANTS Threshold,    \* LoginLockoutConfig::threshold
          Window,       \* window_seconds, in ticks
          LockedFor,    \* lockout_duration_seconds, in ticks
          MaxTracked,   \* max_entries_
          AuditEvery    \* kAuditLogEvery

ASSUME LockoutAssumption ==
    /\ Threshold \in Nat \ {0} /\ Window \in Nat \ {0} /\ LockedFor \in Nat \ {0}
    /\ MaxTracked \in Nat \ {0} /\ AuditEvery \in Nat \ {0}

VARIABLES failures,     \* name -> [count, first, until], partial
          wrong         \* history: wrong passwords checked for a name that was
                        \* typed as it is reported, since its entry was made,
                        \* or its last lock ran out

lockVars == <<failures, wrong>>

LockoutInit ==
    /\ failures = [n \in {} |-> 0]
    /\ wrong = [n \in Names |-> 0]

LockedAt(entry) == entry.until > clock

is_locked(name) == name \in DOMAIN failures /\ LockedAt(failures[name])

Without(map, keys) == [k \in DOMAIN map \ keys |-> map[k]]

(***************************************************************************)
(* record_failure.  A full map first gives up one entry, even one for name *)
(* itself: an unlocked one if there is any, with the largest count.        *)
(***************************************************************************)
Victims ==
    LET unlocked == {n \in DOMAIN failures : ~LockedAt(failures[n])}
        eligible == IF unlocked = {} THEN DOMAIN failures ELSE unlocked
    IN {n \in eligible : \A k \in eligible : failures[k].count <= failures[n].count}

Evictions ==
    IF Cardinality(DOMAIN failures) < MaxTracked THEN {{}} ELSE {{n} : n \in Victims}

Fresh == [count |-> 1, first |-> clock, until |-> 0]

Counted(map, name) ==
    IF name \notin DOMAIN map \/ clock - map[name].first >= Window
    THEN Fresh
    ELSE [map[name] EXCEPT !.count = @ + 1]

Armed(entry) ==
    IF entry.count >= Threshold /\ entry.until <= clock
    THEN [entry EXCEPT !.until = clock + LockedFor]
    ELSE entry

\* The entry after the failure, with the audit entries that become due.
Outcome(map, name) ==
    LET already == name \in DOMAIN map /\ LockedAt(map[name])
        counted == Counted(map, name)
        armed == Armed(counted)
        report(action) == [action |-> action, target |-> name, count |-> counted.count]
    IN IF already
       THEN [entry |-> map[name], due |-> <<>>, anew |-> FALSE]
       ELSE [entry |-> armed,
             due |-> (IF counted.count % AuditEvery = 0
                      THEN <<report("auth.login_failure")>> ELSE <<>>)
                     \o (IF armed # counted THEN <<report("auth.login_locked")>> ELSE <<>>),
             anew |-> counted = Fresh \/ counted.until > 0]

(***************************************************************************)
(* POST /auth/login, with the right password or with a wrong one.          *)
(***************************************************************************)
parse_login_request(c) == Answers(c, 400)

login_starts(c) ==
    /\ \E n \in Names, right \in BOOLEAN :
         Receives(c, "login_locked", [name |-> n, right |-> right])
    /\ UNCHANGED <<tokenVars, accountVars, auditVars, lockVars>>

login_asks_nobody(c) ==
    /\ At(c, "login_locked")
    /\ Goes(c, "login_find", <<>>)
    /\ UNCHANGED <<tokenVars, accountVars, auditVars, lockVars>>

login_asks(c) ==
    /\ At(c, "login_locked")
    /\ \/ parse_login_request(c)
       \/ IF is_locked(task[c].name) THEN Answers(c, 423) ELSE Goes(c, "login_find", <<>>)
    /\ UNCHANGED <<tokenVars, accountVars, auditVars, lockVars>>

login_finds(c) ==
    /\ At(c, "login_find")
    /\ \/ \E u \in DOMAIN users :
            /\ HasName(u, task[c].name)
            /\ Queries(c, IF task[c].right THEN "login_reset" ELSE "login_deny",
                       [user |-> u, reported |-> users[u].name])
       \/ /\ ~username_exists(task[c].name)
          /\ Queries(c, "login_deny", [reported |-> task[c].name])
    /\ UNCHANGED <<tokenVars, accountVars, auditVars, lockVars>>

login_denies(c) ==
    /\ At(c, "login_deny")
    /\ \E evicted \in Evictions :
         LET n == task[c].reported
             map == Without(failures, evicted)
             outcome == Outcome(map, n)
             one == IF task[c].name = n THEN 1 ELSE 0
         IN /\ failures' = [k \in DOMAIN map \cup {n} |-> IF k = n THEN outcome.entry ELSE map[k]]
            /\ wrong' = [k \in Names |->
                 CASE k = n -> IF outcome.anew THEN one ELSE wrong[k] + one
                   [] k \in evicted \ {n} -> 0
                   [] OTHER -> wrong[k]]
            /\ acts' = acts \o outcome.due
            /\ IF outcome.due = <<>>
               THEN Answers(c, 401)
               ELSE Goes(c, "login_audit", [due |-> outcome.due])
    /\ UNCHANGED <<tokenVars, accountVars, audit_logs, unaudited>>

login_audits(c) ==
    /\ At(c, "login_audit")
    /\ \/ /\ HasSession /\ UNCHANGED faults
          /\ record(Head(task[c].due))
       \/ /\ AcquireTimesOut \/ StatementFails
          /\ record_fails(Head(task[c].due))
    /\ task' = [task EXCEPT ![c] = IF Len(task[c].due) = 1 THEN Idle
                                   ELSE With(task[c], [due |-> Tail(task[c].due)])]
    /\ UNCHANGED <<requests, active, tokenVars, accountVars, lockVars>>

login_succeeds(c) ==
    /\ At(c, "login_reset")
    /\ failures' = Without(failures, {task[c].reported})
    /\ wrong' = [wrong EXCEPT ![task[c].reported] = 0]
    /\ Goes(c, "login_stamp", <<>>)
    /\ UNCHANGED <<tokenVars, accountVars, auditVars>>

login_stamps(c) ==
    /\ At(c, "login_stamp")
    /\ \/ /\ HasSession /\ UNCHANGED faults
          /\ users' = [users EXCEPT ![task[c].user].last_login = clock]
       \/ StatementFails /\ UNCHANGED users
    /\ issue_token_pair(task[c].user)
    /\ task' = [task EXCEPT ![c] = Idle]
    /\ UNCHANGED <<requests, active, clock, blacklist, revoked, forgotten, minted,
                   history, avatars, given_up, auditVars, lockVars>>

login_throws(c) ==
    /\ \/ At(c, "login_find") /\ (Throws(c) \/ TimesOut(c))
       \/ At(c, "login_stamp") /\ TimesOut(c)
    /\ UNCHANGED <<tokenVars, accountVars, auditVars, lockVars>>

login_handler(c) ==
    \/ login_starts(c)
    \/ login_asks(c)
    \/ login_finds(c)
    \/ login_denies(c)
    \/ login_audits(c)
    \/ login_succeeds(c)
    \/ login_stamps(c)
    \/ login_throws(c)

(***************************************************************************)
(* Until a lock runs out or a right password is given, no more wrong       *)
(* passwords are checked for a name, typed as the row spells it, than the  *)
(* threshold and the requests that had passed is_locked before the lock,   *)
(* one for every other thread.  Of the other spellings that lead to the    *)
(* same row nothing is said: is_locked knows only the reported one.        *)
(***************************************************************************)
WrongPasswordsBounded ==
    \A n \in Names : wrong[n] < Threshold + Cardinality(Clients)
=============================================================================
