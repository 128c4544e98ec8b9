------------------------------ MODULE Accounts ------------------------------
(***************************************************************************)
(* user_repo.h and the account handlers of auth_routes.h: registration,    *)
(* profile, avatar and change of name.  A user is the id of its row.  The  *)
(* name a user gives up stays in user_username_history, whose old_username *)
(* is UNIQUE, and leads GET /users/lookup to the user.                     *)
(*                                                                         *)
(* The database compares names by utf8mb4_unicode_ci, the C++ code compares*)
(* them byte by byte: Fold takes a name to the one that stands for all its *)
(* spellings.                                                              *)
(***************************************************************************)
EXTENDS Tokens

CONSTANTS Names,        \* user names, as they are spelled
          Fold,         \* the collation of users.username
          Emails,       \* up to their collation: only the database compares them
          Cooldown,     \* kUsernameChangeCooldownSeconds, in ticks
          MaxUsers      \* bound on the rows of users

ASSUME AccountsAssumption == Fold \in [Names -> Names]

VARIABLES users,        \* the id of a row is its index
          history,      \* user_username_history
          avatars,      \* files under uploads/avatars: <<user, extension>>
          given_up      \* history: <<user, name>> of every completed rename

accountVars == <<users, history, avatars, given_up>>

User(name, email) ==
    [name |-> name, email |-> email, role |-> "user", avatar |-> "none",
     changed_at |-> NULL, last_login |-> NULL]

AccountsInit == history = {} /\ avatars = {} /\ given_up = {}

(***************************************************************************)
(* user_repo.  users.username and users.email are UNIQUE (a NULL e-mail is *)
(* no value), which turns the losing statement of a race into false or 0.  *)
(* An UPDATE that changes nothing affects no row; update_profile also      *)
(* writes columns of which nothing depends and which may be what changes.  *)
(***************************************************************************)
SameName(n, m) == Fold[n] = Fold[m]

\* find_by_username finds this row, if there is any.
HasName(u, name) == SameName(users[u].name, name)

username_exists(name) == \E u \in DOMAIN users : HasName(u, name)

email_exists(email) == email # NULL /\ \E u \in DOMAIN users : users[u].email = email

find_by_old_username(name) == {h.user : h \in {g \in history : SameName(g.old, name)}}

create_user(name, email) ==
    /\ Len(users) < MaxUsers
    /\ ~username_exists(name) /\ ~email_exists(email)
    /\ users' = Append(users, User(name, email))

update_profile(u, email) ==
    /\ users[u].email = email \/ ~email_exists(email)
    /\ users' = [users EXCEPT ![u].email = email]

update_avatar(u, url) ==
    /\ users[u].avatar # url
    /\ users' = [users EXCEPT ![u].avatar = url]

(***************************************************************************)
(* A route that wants a token refuses a request without a valid one before *)
(* its handler does anything; the handlers' first steps refuse a body that *)
(* fails validation.                                                       *)
(***************************************************************************)
require_authentication(c) ==
    /\ Refused(c, 401)
    /\ UNCHANGED <<tokenVars, accountVars>>

parse_register_request(c) == Answers(c, 400)

validate_profile(c) == Answers(c, 400)

(***************************************************************************)
(* POST /auth/register.  The loser of a race for a name or an e-mail looks *)
(* both up again only to word its 409.                                     *)
(***************************************************************************)
register_handler(c) ==
    \/ /\ \E n \in Names, e \in Emails \cup {NULL} :
            Receives(c, "register_create", [name |-> n, email |-> e])
       /\ UNCHANGED <<tokenVars, accountVars>>
    \/ /\ At(c, "register_create") /\ HasSession
       /\ \/ parse_register_request(c) /\ UNCHANGED users
          \/ /\ create_user(task[c].name, task[c].email)
             /\ Goes(c, "register_issue", [user |-> Len(users) + 1])
          \/ /\ username_exists(task[c].name) \/ email_exists(task[c].email)
             /\ Goes(c, "register_name", <<>>)
             /\ UNCHANGED users
       /\ UNCHANGED <<tokenVars, history, avatars, given_up>>
    \/ /\ At(c, "register_issue")
       /\ issue_token_pair(task[c].user)
       /\ Answers(c, 201)
       /\ UNCHANGED <<clock, blacklist, revoked, forgotten, minted, accountVars>>
    \/ /\ \/ At(c, "register_name") /\ IF task[c].email = NULL
                                      THEN QueriesAndAnswers(c, 409)
                                      ELSE Queries(c, "register_email", <<>>)
          \/ At(c, "register_email") /\ QueriesAndAnswers(c, 409)
       /\ UNCHANGED <<tokenVars, accountVars>>

(***************************************************************************)
(* GET /auth/profile and PUT /auth/profile.                                *)
(***************************************************************************)
profile_handler(c) ==
    /\ \/ \E u \in DOMAIN users : Receives(c, "profile_find", [user |-> u])
       \/ At(c, "profile_find") /\ QueriesAndAnswers(c, 200)
    /\ UNCHANGED <<tokenVars, accountVars>>

update_profile_handler(c) ==
    \/ /\ \E u \in DOMAIN users, e \in Emails \cup {NULL} :
            Receives(c, "profile_update", [user |-> u, email |-> e])
       /\ UNCHANGED <<tokenVars, accountVars>>
    \/ /\ At(c, "profile_update") /\ HasSession
       /\ LET u == task[c].user
              e == task[c].email
          IN \/ validate_profile(c) /\ UNCHANGED users
             \/ update_profile(u, e) /\ Goes(c, "profile_reread", <<>>)
             \/ /\ users[u].email = e \/ email_exists(e)
                /\ UNCHANGED users
                /\ IF e = NULL THEN Answers(c, 404) ELSE Goes(c, "profile_email", <<>>)
       /\ UNCHANGED <<tokenVars, history, avatars, given_up>>
    \/ /\ \/ At(c, "profile_reread") /\ QueriesAndAnswers(c, 200)
          \/ /\ At(c, "profile_email")
             /\ QueriesAndAnswers(c, IF email_exists(task[c].email) THEN 409 ELSE 404)
       /\ UNCHANGED <<tokenVars, accountVars>>

(***************************************************************************)
(* POST /auth/avatar.  The file is written over the previous one before    *)
(* the row is; nothing removes it when the row is not changed.             *)
(***************************************************************************)
update_avatar_handler(c) ==
    \/ /\ \E u \in DOMAIN users, ext \in {"jpg", "png"} :
            Receives(c, "avatar_write", [user |-> u, ext |-> ext])
       /\ UNCHANGED <<tokenVars, accountVars>>
    \/ /\ At(c, "avatar_write")
       /\ \/ \E status \in {400, 413, 500} : Answers(c, status) /\ UNCHANGED avatars
          \/ /\ avatars' = avatars \cup {<<task[c].user, task[c].ext>>}
             /\ Goes(c, "avatar_update", <<>>)
       /\ UNCHANGED <<tokenVars, users, history, given_up>>
    \/ /\ At(c, "avatar_update") /\ HasSession
       /\ \/ update_avatar(task[c].user, task[c].ext) /\ Answers(c, 200)
          \/ /\ users[task[c].user].avatar = task[c].ext
             /\ Answers(c, 404)
             /\ UNCHANGED users
       /\ UNCHANGED <<tokenVars, history, avatars, given_up>>

(***************************************************************************)
(* PUT /auth/username.  update_username runs three statements on one       *)
(* connection: it reads the name, stores it in the history and writes the  *)
(* new one.  A duplicate key in either of the last two is answered 409.    *)
(***************************************************************************)
rename_starts(c) ==
    /\ \E u \in DOMAIN users, n \in Names : Receives(c, "rename_find", [user |-> u, name |-> n])
    /\ UNCHANGED <<tokenVars, accountVars>>

\* changed_at is one more than the tick of the change: 0 is NULL.
CoolingDown(u) == users[u].changed_at # NULL /\ clock + 1 < users[u].changed_at + Cooldown

rename_finds(c) ==
    /\ At(c, "rename_find")
    /\ \/ users[task[c].user].name = task[c].name /\ QueriesAndAnswers(c, 200)
       \/ /\ users[task[c].user].name # task[c].name
          /\ IF CoolingDown(task[c].user)
             THEN QueriesAndAnswers(c, 429)
             ELSE Queries(c, "rename_taken", <<>>)
       \/ \E status \in {400, 409} : Answers(c, status)
    /\ UNCHANGED <<tokenVars, accountVars>>

rename_checks(c) ==
    /\ At(c, "rename_taken")
    /\ IF username_exists(task[c].name)
       THEN QueriesAndAnswers(c, 409)
       ELSE Queries(c, "rename_old", <<>>)
    /\ UNCHANGED <<tokenVars, accountVars>>

rename_reads_old(c) ==
    /\ At(c, "rename_old")
    /\ LET old == users[task[c].user].name IN
       IF old = task[c].name
       THEN QueriesAndAnswers(c, 200)
       ELSE Acquires(c, "rename_history", [old |-> old])
    /\ UNCHANGED <<tokenVars, accountVars>>

rename_stores_new(c) ==
    /\ At(c, "rename_history")
    /\ history' = history \cup {[user |-> task[c].user, old |-> task[c].name]}
    /\ Goes(c, "rename_update", <<>>)
    /\ UNCHANGED <<tokenVars, users, avatars, given_up>>

rename_stores_old(c) ==
    /\ At(c, "rename_history")
    /\ IF find_by_old_username(task[c].old) # {}
       THEN Answers(c, 409) /\ UNCHANGED history
       ELSE /\ history' = history \cup {[user |-> task[c].user, old |-> task[c].old]}
            /\ Goes(c, "rename_update", <<>>)
    /\ UNCHANGED <<tokenVars, users, avatars, given_up>>

rename_updates(c) ==
    LET u == task[c].user IN
    /\ At(c, "rename_update")
    /\ IF \E v \in DOMAIN users \ {u} : HasName(v, task[c].name)
       THEN Answers(c, 409) /\ UNCHANGED <<users, given_up>>
       ELSE /\ users' = [users EXCEPT ![u].name = task[c].name, ![u].changed_at = clock + 1]
            /\ given_up' = IF users[u].name = task[c].name THEN given_up
                           ELSE given_up \cup {<<u, users[u].name>>}
            /\ Answers(c, 200)
    /\ UNCHANGED <<tokenVars, history, avatars>>

update_username_handler(c) ==
    \/ rename_starts(c)
    \/ rename_finds(c)
    \/ rename_checks(c)
    \/ rename_reads_old(c)
    \/ rename_stores_old(c)
    \/ rename_updates(c)

(***************************************************************************)
(* GET /users/lookup: the user who has the name now, else the one whose    *)
(* alias it is.                                                            *)
(***************************************************************************)
lookup_user_handler(c) ==
    /\ \/ \E n \in Names : Receives(c, "lookup_current", [name |-> n])
       \/ /\ At(c, "lookup_current")
          /\ IF username_exists(task[c].name)
             THEN QueriesAndAnswers(c, 200)
             ELSE Queries(c, "lookup_alias", <<>>)
       \/ /\ At(c, "lookup_alias")
          /\ QueriesAndAnswers(c, IF find_by_old_username(task[c].name) = {} THEN 404 ELSE 200)
    /\ UNCHANGED <<tokenVars, accountVars>>

(***************************************************************************)
(* Statements that fail.  A rename that fails after it stored the old name *)
(* leaves the user with an alias that equals the name.                     *)
(***************************************************************************)
account_acquires == {"register_create", "register_name", "register_email", "profile_find",
                     "profile_update", "profile_reread", "profile_email", "avatar_update",
                     "rename_find", "rename_taken", "rename_old", "lookup_current",
                     "lookup_alias"}
account_holds == {"rename_history", "rename_update"}

account_throws(c) ==
    /\ \/ task[c].at \in account_acquires \cup account_holds /\ Throws(c)
       \/ task[c].at \in account_acquires /\ TimesOut(c)
    /\ UNCHANGED <<tokenVars, accountVars>>

AccountsNext(c) ==
    \/ require_authentication(c)
    \/ register_handler(c)
    \/ profile_handler(c)
    \/ update_profile_handler(c)
    \/ update_avatar_handler(c)
    \/ update_username_handler(c)
    \/ lookup_user_handler(c)
    \/ account_throws(c)

(***************************************************************************)
(* A name that a user gave up leads to that user for as long as nobody     *)
(* bears it: no failed or racing rename loses an alias or gives it to      *)
(* somebody else.                                                          *)
(***************************************************************************)
AliasesResolve ==
    \A g \in given_up :
        username_exists(g[2]) \/ find_by_old_username(g[2]) = {g[1]}
=============================================================================
