------------------------------- MODULE Tokens -------------------------------
(***************************************************************************)
(* refresh_token.h, jwt_utils.h and the refresh and logout handlers of     *)
(* auth_routes.h: refresh tokens, and the bounded in-memory blacklist of   *)
(* the ones that were exchanged or logged out.                             *)
(*                                                                         *)
(* A token is its jti; signatures, issuers and kinds are not modelled (a   *)
(* request presents a token that was issued).  The clock counts ticks,     *)
(* Second of them to a second: the JWT keeps its expiry in whole seconds   *)
(* and the blacklist counts the remaining whole seconds from a finer now.  *)
(***************************************************************************)
EXTENDS Requests, TLC

CONSTANTS Second,       \* ticks of a second
          RefreshTtl,   \* JwtConfig::refresh_ttl_seconds
          MaxRevoked,   \* InMemoryRefreshTokenStore::max_entries_
          MaxTime       \* bound on the ticks of a behaviour

ASSUME TokensAssumption ==
    /\ Second \in Nat \ {0}
    /\ RefreshTtl \in Nat \ {0}
    /\ MaxRevoked \in Nat \ {0}

VARIABLES clock,
          tokens,       \* the tokens issued: the jti of one is its index
          blacklist,    \* jti -> the tick at which its revocation lapses
          revoked,      \* history: every jti ever revoked
          forgotten,    \* history: the jti evicted before they lapsed
          minted        \* history: the jti a new pair was given for, in order,
                        \* but for pairs given in the token's last second

tokenVars == <<clock, tokens, blacklist, revoked, forgotten, minted>>

TokensInit ==
    /\ clock = 0
    /\ blacklist = [j \in {} |-> 0]
    /\ revoked = {} /\ forgotten = {} /\ minted = <<>>

WholeSeconds(ticks) == ticks \div Second

Token(u) == [user |-> u, expires |-> WholeSeconds(clock + RefreshTtl * Second) * Second]

issue_token_pair(u) == tokens' = Append(tokens, Token(u))

verify(j) == clock < tokens[j].expires

(***************************************************************************)
(* InMemoryRefreshTokenStore.  is_revoked drops the lapsed entry it meets. *)
(* revoke drops every lapsed entry and, if the map is still full, the one  *)
(* that lapses soonest, whether or not jti is in the map; emplace keeps an *)
(* entry that is there.                                                    *)
(***************************************************************************)
Lapsed(j) == clock >= blacklist[j]

is_revoked(j) == j \in DOMAIN blacklist /\ ~Lapsed(j)

is_revoked_drops(j) ==
    blacklist' = [i \in {k \in DOMAIN blacklist : k = j => ~Lapsed(k)} |-> blacklist[i]]

Live == {j \in DOMAIN blacklist : ~Lapsed(j)}

Soonest == {j \in Live : \A k \in Live : blacklist[j] <= blacklist[k]}

revoke_counts_ticks(j, seconds) ==
    /\ revoked' = revoked \cup {j}
    /\ blacklist' = blacklist @@ (j :> clock + seconds)
    /\ UNCHANGED forgotten

revoke(j, seconds) ==
    /\ revoked' = revoked \cup {j}
    /\ IF seconds = 0
       THEN UNCHANGED <<blacklist, forgotten>>
       ELSE \E evicted \in SUBSET Soonest :
              /\ Cardinality(evicted) = (IF Cardinality(Live) >= MaxRevoked THEN 1 ELSE 0)
              /\ blacklist' = [i \in (Live \ evicted) \cup {j} |->
                                IF i \in Live \ evicted THEN blacklist[i]
                                ELSE clock + seconds * Second]
              /\ forgotten' = forgotten \cup (evicted \ {j})

Remaining(j) == IF verify(j) THEN WholeSeconds(tokens[j].expires - clock) ELSE 0

(***************************************************************************)
(* POST /auth/refresh.  rotate_token_pair asks is_revoked and calls revoke *)
(* in two critical sections of the store, so two requests with one token   *)
(* can both pass the first before either reaches the second.               *)
(***************************************************************************)
Presented == {NULL} \cup DOMAIN tokens

parse_refresh_request(c) == Answers(c, 400)

refresh_starts(c) ==
    /\ \E j \in Presented : Starts(c, [at |-> "refresh_find", held |-> 0, jti |-> j])
    /\ UNCHANGED tokenVars

refresh_finds(c) ==
    /\ At(c, "refresh_find")
    /\ \/ parse_refresh_request(c)
       \/ IF task[c].jti # NULL /\ verify(task[c].jti)
          THEN HasSession /\ Proceeds(c, "rotate_check")
          ELSE Answers(c, 401)
    /\ UNCHANGED tokenVars

rotate_checks(c) ==
    LET j == task[c].jti IN
    /\ At(c, "rotate_check")
    /\ \/ /\ ~verify(j) \/ is_revoked(j)
          /\ Answers(c, 401)
          /\ UNCHANGED blacklist
       \/ /\ verify(j) /\ ~is_revoked(j)
          /\ is_revoked_drops(j)
          /\ Proceeds(c, "rotate_revoke")
    /\ UNCHANGED <<clock, tokens, revoked, forgotten, minted>>

rotate_only_issues(c) ==
    /\ At(c, "rotate_revoke")
    /\ minted' = Append(minted, task[c].jti)
    /\ issue_token_pair(tokens[task[c].jti].user)
    /\ Answers(c, 200)
    /\ UNCHANGED <<clock, blacklist, revoked, forgotten>>

rotate_revokes(c) ==
    /\ At(c, "rotate_revoke")
    /\ revoke(task[c].jti, Remaining(task[c].jti))
    /\ minted' = IF Remaining(task[c].jti) = 0 THEN minted ELSE Append(minted, task[c].jti)
    /\ issue_token_pair(tokens[task[c].jti].user)
    /\ Answers(c, 200)
    /\ UNCHANGED clock

refresh_throws(c) ==
    /\ At(c, "refresh_find")
    /\ Throws(c) \/ TimesOut(c)
    /\ UNCHANGED tokenVars

refresh_handler(c) ==
    \/ refresh_starts(c)
    \/ refresh_finds(c)
    \/ rotate_checks(c)
    \/ rotate_revokes(c)
    \/ refresh_throws(c)

(***************************************************************************)
(* POST /auth/logout by user u with one of the tokens, or with none (the   *)
(* cookie was never set or is already cleared).  A token that does not     *)
(* verify or belongs to another user is left alone; the answer is 200.     *)
(***************************************************************************)
revoke_refresh_token(j, u) ==
    IF verify(j) /\ tokens[j].user = u
    THEN revoke(j, IF Remaining(j) > RefreshTtl THEN RefreshTtl ELSE Remaining(j))
    ELSE UNCHANGED <<blacklist, revoked, forgotten>>

parse_logout_request(c) == Answers(c, 400)

logout_handler(c) ==
    \/ /\ \E u \in {tokens[j].user : j \in DOMAIN tokens}, j \in Presented :
            Starts(c, [at |-> "logout_revoke", held |-> 0, jti |-> j, user |-> u])
       /\ UNCHANGED tokenVars
    \/ /\ At(c, "logout_revoke")
       /\ \/ parse_logout_request(c) /\ UNCHANGED <<blacklist, revoked, forgotten>>
          \/ /\ Answers(c, 200)
             /\ IF task[c].jti = NULL
                THEN UNCHANGED <<blacklist, revoked, forgotten>>
                ELSE revoke_refresh_token(task[c].jti, task[c].user)
       /\ UNCHANGED <<clock, tokens, minted>>

tick ==
    /\ clock < MaxTime
    /\ clock' = clock + 1
    /\ UNCHANGED reqVars
    /\ UNCHANGED <<tokens, blacklist, revoked, forgotten, minted>>

(***************************************************************************)
(* The sessions beside everything else the server does, which for them is  *)
(* that a login or a registration of some user issues a token.             *)
(***************************************************************************)
session_opens ==
    /\ \E u \in Nat \ {NULL} : issue_token_pair(u)
    /\ UNCHANGED reqVars
    /\ UNCHANGED <<clock, blacklist, revoked, forgotten, minted>>

TokensNext ==
    \/ \E c \in Clients : refresh_handler(c) \/ logout_handler(c)
    \/ session_opens
    \/ tick

TokensSpec ==
    /\ \E n \in Nat : RequestsInit(n)
    /\ TokensInit /\ tokens = <<>>
    /\ [][TokensNext]_<<reqVars, tokenVars>>

(***************************************************************************)
(* A token that was exchanged or logged out is refused by every refresh    *)
(* that starts after that, until less than a second before its expiry:     *)
(* only the eviction of a full store may bring it back before.             *)
(***************************************************************************)
RevokedIsRefused ==
    \A j \in revoked \ forgotten :
        clock + Second <= tokens[j].expires => is_revoked(j)

(***************************************************************************)
(* One token may be exchanged more than once, by the requests that passed  *)
(* is_revoked before the first of them called revoke; but never more often *)
(* than there are threads to hold such requests, unless it was evicted.    *)
(***************************************************************************)
ExchangesBounded ==
    \A j \in DOMAIN tokens :
        Cardinality({k \in DOMAIN minted : minted[k] = j}) > Cardinality(Clients)
            => j \in forgotten
=============================================================================
