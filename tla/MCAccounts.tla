----------------------------- MODULE MCAccounts -----------------------------
(***************************************************************************)
(* Accounts, sessions, the login lockout, the rate limiter and the         *)
(* administrators' list of users on a small instance.  A behaviour         *)
(* exercises one of them, chosen by focus, over the tables they share.     *)
(***************************************************************************)
EXTENDS Lockout, AdminUsers, RateLimiter

Budget == [sessions |-> 4, names |-> 3, login |-> 4, roles |-> 3, limits |-> 5]

Horizon == [sessions |-> 5, names |-> 3, login |-> 3, roles |-> 0, limits |-> 0]

\* Two spellings of one name, and names of one spelling.
Spelled == {"alice", "ALICE", "bob", "carol"}

Folded == [n \in Spelled |-> IF n = "ALICE" THEN "alice" ELSE n]

Symmetry == Permutations(Clients)

VARIABLE focus

vars == <<reqVars, tokenVars, accountVars, auditVars, lockVars, rateVars, focus>>

Init ==
    /\ focus \in DOMAIN Budget
    /\ RequestsInit(Budget[focus])
    /\ TokensInit /\ AccountsInit /\ AuditInit /\ LockoutInit /\ RateInit
    /\ users = <<[User("alice", NULL) EXCEPT !.role = "admin"],
                 User("bob", CHOOSE e \in Emails : TRUE)>>
    /\ tokens = IF focus = "sessions" THEN <<Token(1), Token(2)>> ELSE <<>>

sessions_step(c) ==
    /\ focus = "sessions"
    /\ refresh_handler(c) \/ logout_handler(c)
    /\ UNCHANGED <<accountVars, auditVars, lockVars, rateVars, focus>>

names_step(c) ==
    /\ focus = "names"
    /\ AccountsNext(c)
    /\ UNCHANGED <<auditVars, lockVars, rateVars, focus>>

login_step(c) ==
    /\ focus = "login"
    /\ login_handler(c)
    /\ UNCHANGED <<rateVars, focus>>

roles_step(c) ==
    /\ focus = "roles"
    /\ AdminUsersNext(c)
    /\ UNCHANGED <<lockVars, rateVars, focus>>

limits_step ==
    /\ focus = "limits"
    /\ \/ rate_tick /\ UNCHANGED requests
       \/ requests > 0 /\ requests' = requests - 1 /\ \E k \in Keys : consume(k)
    /\ UNCHANGED <<task, faults, active, tokenVars, accountVars, auditVars, lockVars, focus>>

time_passes ==
    /\ clock < Horizon[focus]
    /\ tick
    /\ UNCHANGED <<accountVars, auditVars, lockVars, rateVars, focus>>

Next ==
    \/ \E c \in Clients :
         \/ sessions_step(c)
         \/ names_step(c)
         \/ login_step(c)
         \/ roles_step(c)
    \/ limits_step
    \/ time_passes

Spec == Init /\ [][Next]_vars
=============================================================================
