----------------------------- MODULE AdminUsers -----------------------------
(***************************************************************************)
(* admin_user_routes.h: the list of users and the change of a role.  Who   *)
(* is an administrator is what the token says, so a demoted administrator  *)
(* goes on for as long as the token lives.                                 *)
(***************************************************************************)
EXTENDS Accounts, AuditLog

CONSTANTS TokenAdmins   \* users whose access token carries the role admin

Roles == {"user", "admin"}

RoleChange(u, old, new) == [action |-> "user.role_change", target |-> u, old |-> old, new |-> new]

require_admin(c) ==
    /\ \E status \in {401, 403} : Refused(c, status)
    /\ UNCHANGED <<tokenVars, accountVars, auditVars>>

(***************************************************************************)
(* GET /admin/users: a count and a page, over two connections.             *)
(***************************************************************************)
parse_list_query(c) == Answers(c, 400)

list_admin_users_handler(c) ==
    /\ \/ Receives(c, "users_count", <<>>)
       \/ At(c, "users_count") /\ (parse_list_query(c) \/ Queries(c, "users_list", <<>>))
       \/ At(c, "users_list") /\ QueriesAndAnswers(c, 200)
    /\ UNCHANGED <<tokenVars, accountVars, auditVars>>

(***************************************************************************)
(* PUT /admin/users/:id/role.                                              *)
(***************************************************************************)
parse_role_request(c) == Answers(c, 400)

role_starts(c) ==
    /\ \E a \in TokenAdmins, u \in DOMAIN users \cup {NULL}, r \in Roles :
         Receives(c, "role_find", [admin |-> a, user |-> u, role |-> r])
    /\ UNCHANGED <<tokenVars, accountVars, auditVars>>

role_finds(c) ==
    LET u == task[c].user IN
    /\ At(c, "role_find")
    /\ \/ parse_role_request(c)
       \/ task[c].role = "user" /\ u = task[c].admin /\ Answers(c, 403)
       \/ /\ task[c].role = "admin" \/ u # task[c].admin
          /\ \/ u = NULL /\ QueriesAndAnswers(c, 404)
             \/ /\ u # NULL
                /\ IF users[u].role = task[c].role
                   THEN QueriesAndAnswers(c, 200)
                   ELSE Queries(c, "role_update", [old |-> users[u].role])
    /\ UNCHANGED <<tokenVars, accountVars, auditVars>>

role_updates_blindly(c) ==
    LET u == task[c].user IN
    /\ At(c, "role_update") /\ HasSession
    /\ users' = [users EXCEPT ![u].role = task[c].role]
    /\ IF users[u].role = task[c].role
       THEN UNCHANGED acts
       ELSE Does(RoleChange(u, users[u].role, task[c].role))
    /\ Goes(c, "role_audit", <<>>)
    /\ UNCHANGED <<tokenVars, history, avatars, given_up, audit_logs, unaudited>>

role_updates(c) ==
    LET u == task[c].user IN
    /\ At(c, "role_update") /\ HasSession
    /\ IF users[u].role = task[c].role
       THEN Answers(c, 404) /\ UNCHANGED <<users, acts>>
       ELSE /\ users' = [users EXCEPT ![u].role = task[c].role]
            /\ Does(RoleChange(u, users[u].role, task[c].role))
            /\ Goes(c, "role_audit", <<>>)
    /\ UNCHANGED <<tokenVars, history, avatars, given_up, audit_logs, unaudited>>

role_audits(c) ==
    LET entry == RoleChange(task[c].user, task[c].old, task[c].role) IN
    /\ At(c, "role_audit")
    /\ \/ record(entry) /\ Queries(c, "role_reread", <<>>)
       \/ record_fails(entry) /\ (Throws(c) \/ TimesOut(c))
    /\ UNCHANGED <<tokenVars, accountVars>>

role_rereads(c) ==
    /\ At(c, "role_reread") /\ QueriesAndAnswers(c, 200)
    /\ UNCHANGED <<tokenVars, accountVars, auditVars>>

admin_users_throws(c) ==
    /\ task[c].at \in {"users_count", "users_list", "role_find", "role_update", "role_reread"}
    /\ Throws(c) \/ TimesOut(c)
    /\ UNCHANGED <<tokenVars, accountVars, auditVars>>

AdminUsersNext(c) ==
    \/ require_admin(c)
    \/ list_admin_users_handler(c)
    \/ role_starts(c)
    \/ role_finds(c)
    \/ role_updates(c)
    \/ role_audits(c)
    \/ role_rereads(c)
    \/ admin_users_throws(c)
=============================================================================
