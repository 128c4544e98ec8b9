---------------------------- MODULE ClientProofs ----------------------------
(***************************************************************************)
(* Proofs about what clients are told.  A refresh token that was exchanged *)
(* or logged out stays refused and is exchanged a bounded number of times  *)
(* (Tokens), for any number of threads, users and tokens, any lifetime, any*)
(* size of the store and any resolution of the clock; and an SSE request   *)
(* answers with the stored verdict (JudgeNotifier), for any number of      *)
(* submissions and of requests per submission.                             *)
(***************************************************************************)
EXTENDS Tokens, JudgeNotifier, FiniteCounts, TLAPS

USE SMTT(40), ZenonT(40)

-----------------------------------------------------------------------------
(***************************************************************************)
(* A refresh token that was exchanged or logged out stays refused, for any *)
(* number of threads, users and tokens, any lifetime, any size of the      *)
(* store and any resolution of the clock.                                  *)
(*                                                                         *)
(* The store counts the whole seconds that remain from a now that lies     *)
(* within a second, so an entry lapses less than a second before the token *)
(* does (Outlives).  What leaves the store has lapsed or is forgotten, so  *)
(* a revoked token is there for as long as it matters (Kept).              *)
(***************************************************************************)
TokenTypeOK ==
    /\ clock \in Nat
    /\ tokens \in Seq([user : Nat, expires : Nat])
    /\ DOMAIN blacklist \subseteq DOMAIN tokens
    /\ blacklist \in [DOMAIN blacklist -> Nat]
    /\ revoked \subseteq DOMAIN tokens

(***************************************************************************)
(* A request on its way carries a token that was issued, or none.          *)
(***************************************************************************)
Refreshing ==
    [at : {"refresh_find", "rotate_check", "rotate_revoke"}, held : {0}, jti : Nat]

LoggingOut == [at : {"logout_revoke"}, held : {0}, jti : Nat, user : Nat]

Carries(r) ==
    r # Idle =>
        /\ r.jti \in {NULL} \cup DOMAIN tokens
        /\ r.at \in {"rotate_check", "rotate_revoke"} => r.jti # NULL

Carried ==
    /\ task \in [Clients -> {Idle} \cup Refreshing \cup LoggingOut]
    /\ \A c \in Clients : Carries(task[c])

Bounded ==
    \A j \in DOMAIN tokens : tokens[j].expires <= clock + RefreshTtl * Second

Outlives ==
    \A j \in DOMAIN blacklist : blacklist[j] + Second > tokens[j].expires

Kept ==
    \A j \in revoked \ forgotten :
        clock + Second <= tokens[j].expires => j \in DOMAIN blacklist

TokenInv == TokenTypeOK /\ Carried /\ Bounded /\ Outlives /\ Kept

tokenStep == <<reqVars, tokenVars>>

-----------------------------------------------------------------------------
(***************************************************************************)
(* Arithmetic.                                                             *)
(***************************************************************************)
LEMMA Division ==
    ASSUME NEW x \in Nat, NEW d \in Nat \ {0}
    PROVE  x \div d \in Nat /\ (x \div d) * d <= x /\ x < (x \div d) * d + d
    OBVIOUS

LEMMA Ordered ==
    ASSUME NEW x \in Nat, NEW y \in Nat, NEW z \in Nat, x <= y
    PROVE  x * z \in Nat /\ y * z \in Nat /\ x * z <= y * z
<1>1. PICK d \in Nat : y = x + d
    BY y - x \in Nat
<1>2. y * z = x * z + d * z
    BY <1>1
<1>3. x * z \in Nat /\ d * z \in Nat
    OBVIOUS
<1>4. QED
    BY <1>2, <1>3

LEMMA ElementOf ==
    ASSUME NEW S, NEW s \in Seq(S), NEW j \in DOMAIN s
    PROVE  s[j] \in S /\ j \in 1 .. Len(s) /\ Len(s) \in Nat
    OBVIOUS

LEMMA TokenFields ==
    ASSUME TokenTypeOK, NEW j \in DOMAIN tokens
    PROVE  tokens[j].expires \in Nat /\ tokens[j].user \in Nat /\ j \in Nat \ {NULL}
<1>1. tokens[j] \in [user : Nat, expires : Nat] /\ j \in 1 .. Len(tokens) /\ Len(tokens) \in Nat
    <2>1. tokens \in Seq([user : Nat, expires : Nat])
        BY DEF TokenTypeOK
    <2>2. QED
        BY <2>1, ElementOf, ZenonT(40)
<1>2. QED
    BY <1>1 DEF NULL

(***************************************************************************)
(* What remains of a token, in whole seconds.                              *)
(***************************************************************************)
LEMMA RemainingOutlives ==
    ASSUME TokenTypeOK, NEW j \in DOMAIN tokens
    PROVE  /\ Remaining(j) \in Nat /\ Remaining(j) * Second \in Nat
           /\ clock + Remaining(j) * Second + Second > tokens[j].expires
           /\ clock < tokens[j].expires => clock + Remaining(j) * Second <= tokens[j].expires
<1> DEFINE e == tokens[j].expires
           q == (e - clock) \div Second
<1>1. clock \in Nat /\ e \in Nat /\ Second \in Nat \ {0}
    BY TokensAssumption, TokenFields DEF TokenTypeOK
<1>2. CASE clock < e
    <2>1. Remaining(j) = q
        BY <1>2 DEF Remaining, verify, WholeSeconds
    <2>2. e - clock \in Nat
        BY <1>1, <1>2
    <2>3. q \in Nat /\ q * Second <= e - clock /\ e - clock < q * Second + Second
        <3> HIDE DEF e
        <3> QED BY <1>1, <2>2, Division
    <2>4. q * Second \in Nat
        <3> HIDE DEF q
        <3> QED BY <1>1, <2>3
    <2>5. QED
        <3> HIDE DEF q
        <3> QED BY <1>1, <1>2, <2>1, <2>3, <2>4
<1>3. CASE ~(clock < e)
    <2>1. Remaining(j) = 0
        BY <1>3 DEF Remaining, verify
    <2>2. 0 * Second = 0
        BY <1>1
    <2>3. QED
        BY <1>1, <1>3, <2>1, <2>2
<1>4. QED
    BY <1>2, <1>3

LEMMA RemainingBounded ==
    ASSUME TokenTypeOK, Bounded, NEW j \in DOMAIN tokens
    PROVE  ~(Remaining(j) > RefreshTtl)
<1> DEFINE R == Remaining(j)
<1>1. SUFFICES ASSUME R > RefreshTtl
               PROVE  FALSE
    OBVIOUS
<1>2. clock \in Nat /\ tokens[j].expires \in Nat /\ Second \in Nat \ {0} /\ RefreshTtl \in Nat
    BY TokensAssumption, TokenFields DEF TokenTypeOK
<1>3. R \in Nat /\ R * Second \in Nat
    BY RemainingOutlives
<1>4. clock < tokens[j].expires
    BY <1>1, <1>2, <1>3 DEF Remaining, verify
<1>5. clock + R * Second <= clock + RefreshTtl * Second
    <2>1. clock + R * Second <= tokens[j].expires
        BY <1>4, RemainingOutlives
    <2>2. tokens[j].expires <= clock + RefreshTtl * Second
        BY DEF Bounded
    <2>3. RefreshTtl * Second \in Nat
        BY <1>2
    <2>4. QED
        <3> HIDE DEF R
        <3> QED BY <1>2, <1>3, <2>1, <2>2, <2>3
<1>6. (RefreshTtl + 1) * Second <= R * Second
    <2> HIDE DEF R
    <2> QED BY <1>1, <1>2, <1>3, Ordered
<1>7. (RefreshTtl + 1) * Second = RefreshTtl * Second + Second /\ RefreshTtl * Second \in Nat
    BY <1>2
<1>8. QED
    <2> HIDE DEF R
    <2> QED BY <1>2, <1>3, <1>5, <1>6, <1>7

-----------------------------------------------------------------------------
(***************************************************************************)
(* What a step of the handlers does to the tokens: it issues some, and     *)
(* changes none.                                                           *)
(***************************************************************************)
Grows ==
    /\ clock' \in Nat /\ clock <= clock'
    /\ tokens' \in Seq([user : Nat, expires : Nat])
    /\ DOMAIN tokens \subseteq DOMAIN tokens'
    /\ \A j \in DOMAIN tokens : tokens'[j] = tokens[j]
    /\ \A j \in DOMAIN tokens' \ DOMAIN tokens : tokens'[j].expires <= clock' + RefreshTtl * Second

LEMMA SameTokensGrow ==
    ASSUME TokenTypeOK, clock' \in Nat, clock <= clock', tokens' = tokens
    PROVE  Grows
    BY DEF TokenTypeOK, Grows

LEMMA IssuedTokensGrow ==
    ASSUME TokenTypeOK, clock' = clock, NEW u \in Nat, issue_token_pair(u)
    PROVE  Grows
<1> DEFINE x == clock + RefreshTtl * Second
           e == (x \div Second) * Second
<1>1. clock \in Nat /\ Second \in Nat \ {0} /\ RefreshTtl \in Nat /\ RefreshTtl * Second \in Nat
    BY TokensAssumption DEF TokenTypeOK
<1>2. x \in Nat
    BY <1>1
<1>3. x \div Second \in Nat /\ e <= x
    <2> HIDE DEF x
    <2> QED BY <1>1, <1>2, Division
<1>4. e \in Nat
    <2>1. PICK q \in Nat : q = x \div Second
        BY <1>3
    <2>2. QED
        <3> HIDE DEF x
        <3> QED BY <1>1, <2>1
<1>5. tokens' = Append(tokens, [user |-> u, expires |-> e])
    BY DEF issue_token_pair, Token, WholeSeconds
<1>6. [user |-> u, expires |-> e] \in [user : Nat, expires : Nat]
    BY <1>4
<1>7. QED
    <2> HIDE DEF e
    <2>1. /\ tokens' \in Seq([user : Nat, expires : Nat])
          /\ DOMAIN tokens' = DOMAIN tokens \cup {Len(tokens) + 1}
          /\ \A j \in DOMAIN tokens : tokens'[j] = tokens[j]
          /\ tokens'[Len(tokens) + 1].expires = e
        BY <1>5, <1>6 DEF TokenTypeOK
    <2>2. clock' \in Nat /\ clock <= clock'
        BY <1>1
    <2>3. QED
        BY <1>3, <2>1, <2>2 DEF Grows

LEMMA GrowsKeepsBounded ==
    ASSUME TokenTypeOK, Bounded, Grows
    PROVE  Bounded'
<1>1. clock \in Nat /\ clock' \in Nat /\ clock <= clock' /\ RefreshTtl * Second \in Nat
    BY TokensAssumption DEF TokenTypeOK, Grows
<1>2. ASSUME NEW j \in DOMAIN tokens'
      PROVE  tokens'[j].expires <= clock' + RefreshTtl * Second
    <2>1. CASE j \in DOMAIN tokens
        <3>1. tokens'[j].expires = tokens[j].expires /\ tokens[j].expires \in Nat
            BY <2>1, TokenFields DEF Grows
        <3>2. tokens[j].expires <= clock + RefreshTtl * Second
            BY <2>1 DEF Bounded
        <3>3. QED
            BY <1>1, <3>1, <3>2
    <2>2. CASE j \notin DOMAIN tokens
        BY <1>2, <2>2 DEF Grows
    <2>3. QED
        BY <2>1, <2>2
<1>3. QED
    BY <1>2 DEF Bounded

(***************************************************************************)
(* The store.  Whatever it does not touch stays as it is; what it drops    *)
(* has lapsed; what it adds outlives the token.                            *)
(***************************************************************************)
Store == TokenTypeOK /\ Outlives /\ Kept

LEMMA UntouchedStore ==
    ASSUME Store, Grows, UNCHANGED <<blacklist, revoked, forgotten>>
    PROVE  Store'
<1> USE DEF Store
<1>1. TokenTypeOK'
    BY DEF TokenTypeOK, Grows
<1>2. Outlives'
    BY DEF Outlives, Grows, TokenTypeOK
<1>3. Kept'
    <2>1. ASSUME NEW j \in revoked \ forgotten, clock' + Second <= tokens'[j].expires
          PROVE  j \in DOMAIN blacklist
        <3>1. j \in DOMAIN tokens /\ tokens'[j] = tokens[j] /\ tokens[j].expires \in Nat
            BY <2>1, TokenFields DEF TokenTypeOK, Grows
        <3>2. clock + Second <= tokens[j].expires
            <4>1. clock \in Nat /\ clock' \in Nat /\ clock <= clock' /\ Second \in Nat
                BY TokensAssumption DEF TokenTypeOK, Grows
            <4>2. clock' + Second <= tokens[j].expires
                BY <2>1, <3>1
            <4>3. QED
                BY <3>1, <4>1, <4>2
        <3>3. QED
            BY <2>1, <3>2 DEF Kept
    <2>2. QED
        BY <2>1 DEF Kept
<1>4. QED
    BY <1>1, <1>2, <1>3

LEMMA LapsedIsOver ==
    ASSUME Store, NEW j \in DOMAIN blacklist, Lapsed(j)
    PROVE  ~(clock + Second <= tokens[j].expires)
<1>1. /\ j \in DOMAIN tokens /\ blacklist[j] \in Nat /\ clock \in Nat /\ Second \in Nat
      /\ tokens[j].expires \in Nat
    BY TokenFields, TokensAssumption DEF Store, TokenTypeOK
<1>2. clock >= blacklist[j] /\ blacklist[j] + Second > tokens[j].expires
    BY DEF Lapsed, Store, Outlives
<1>3. QED
    BY <1>1, <1>2

LEMMA DroppingStore ==
    ASSUME Store, NEW j, is_revoked_drops(j), UNCHANGED <<clock, tokens, revoked, forgotten>>
    PROVE  Store'
<1>1. /\ DOMAIN blacklist' \subseteq DOMAIN blacklist
      /\ blacklist' = [i \in DOMAIN blacklist' |-> blacklist[i]]
      /\ \A i \in DOMAIN blacklist : ~Lapsed(i) => i \in DOMAIN blacklist'
    BY DEF is_revoked_drops
<1>2. TokenTypeOK'
    BY <1>1 DEF Store, TokenTypeOK
<1>3. Outlives'
    BY <1>1 DEF Store, Outlives
<1>4. Kept'
    BY <1>1, LapsedIsOver DEF Store, Kept
<1>5. QED
    BY <1>2, <1>3, <1>4 DEF Store

LEMMA RevokingStore ==
    ASSUME Store, Grows, clock' = clock, NEW j \in DOMAIN tokens, revoke(j, Remaining(j))
    PROVE  Store'
<1> DEFINE R == Remaining(j)
<1>1. /\ R \in Nat /\ R * Second \in Nat /\ clock + R * Second + Second > tokens[j].expires
      /\ tokens[j].expires \in Nat /\ clock \in Nat /\ Second \in Nat
    BY RemainingOutlives, TokenFields, TokensAssumption, ZenonT(40) DEF Store, TokenTypeOK
<1>2. revoked' = revoked \cup {j}
    BY DEF revoke
<1>3. ASSUME NEW i \in revoked
      PROVE  i \in DOMAIN tokens /\ tokens'[i] = tokens[i]
    BY <1>3 DEF Store, TokenTypeOK, Grows
<1>4. CASE R = 0
    <2>1. UNCHANGED <<blacklist, forgotten>>
        BY <1>4 DEF revoke
    <2>2. ~(clock + Second <= tokens[j].expires) /\ tokens'[j] = tokens[j]
        <3>1. R * Second = 0
            BY <1>1, <1>4
        <3>2. QED
            <4> HIDE DEF R
            <4> QED BY <1>1, <3>1 DEF Grows
    <2>3. TokenTypeOK'
        BY <1>2, <2>1 DEF Store, TokenTypeOK, Grows
    <2>4. Outlives'
        BY <2>1 DEF Store, TokenTypeOK, Outlives, Grows
    <2>5. Kept'
        BY <1>2, <1>3, <2>1, <2>2 DEF Store, Kept
    <2>6. QED
        BY <2>3, <2>4, <2>5 DEF Store
<1>5. CASE R # 0
    <2>1. PICK evicted \in SUBSET Soonest :
            /\ blacklist' = [i \in (Live \ evicted) \cup {j} |->
                               IF i \in Live \ evicted THEN blacklist[i] ELSE clock + R * Second]
            /\ forgotten' = forgotten \cup (evicted \ {j})
        BY <1>5, ZenonT(40) DEF revoke
    <2>2. Live \subseteq DOMAIN blacklist /\ DOMAIN blacklist \subseteq DOMAIN tokens
        BY DEF Live, Store, TokenTypeOK
    <2>3. TokenTypeOK'
        <3>1. \A i \in DOMAIN blacklist' : blacklist'[i] \in Nat
            <4> HIDE DEF R
            <4> QED BY <1>1, <2>1, <2>2 DEF Store, TokenTypeOK
        <3>2. DOMAIN blacklist' \subseteq DOMAIN tokens /\ blacklist' \in [DOMAIN blacklist' -> Nat]
            BY <2>1, <2>2, <3>1, ZenonT(40)
        <3>3. QED
            BY <1>2, <3>2 DEF Store, TokenTypeOK, Grows
    <2>4. Outlives'
        <3>1. ASSUME NEW i \in DOMAIN blacklist'
              PROVE  blacklist'[i] + Second > tokens'[i].expires
            <4>1. CASE i \in Live \ evicted
                BY <2>1, <2>2, <4>1 DEF Store, Outlives, Grows
            <4>2. CASE i \notin Live \ evicted
                <5>1. i = j /\ blacklist'[i] = clock + R * Second /\ tokens'[i] = tokens[j]
                    BY <2>1, <3>1, <4>2 DEF Grows
                <5>2. QED
                    <6> HIDE DEF R
                    <6> QED BY <1>1, <5>1
            <4>3. QED
                BY <4>1, <4>2
        <3>2. QED
            BY <3>1 DEF Outlives
    <2>5. Kept'
        <3>1. ASSUME NEW i \in revoked' \ forgotten', clock + Second <= tokens'[i].expires
              PROVE  i \in DOMAIN blacklist'
            <4>1. CASE i = j
                BY <2>1, <4>1
            <4>2. CASE i # j
                <5>1. i \in revoked \ forgotten /\ i \notin evicted
                    BY <1>2, <2>1, <3>1, <4>2
                <5>2. clock + Second <= tokens[i].expires
                    BY <1>3, <3>1, <5>1
                <5>3. i \in DOMAIN blacklist
                    BY <5>1, <5>2 DEF Store, Kept
                <5>4. i \in Live
                    BY <5>2, <5>3, LapsedIsOver DEF Live
                <5>5. QED
                    BY <2>1, <5>1, <5>4
            <4>3. QED
                BY <4>1, <4>2
        <3>2. QED
            BY <3>1 DEF Kept
    <2>6. QED
        BY <2>3, <2>4, <2>5 DEF Store
<1>6. QED
    BY <1>4, <1>5

-----------------------------------------------------------------------------
(***************************************************************************)
(* The requests.                                                           *)
(***************************************************************************)
LEMMA RequestMoves ==
    ASSUME TokenTypeOK, Carried, Grows, NEW c \in Clients,
           NEW r \in {Idle} \cup Refreshing \cup LoggingOut, Carries(r),
           task' = [task EXCEPT ![c] = r]
    PROVE  Carried'
<1>1. DOMAIN tokens \subseteq DOMAIN tokens'
    BY DEF Grows
<1>2. task' \in [Clients -> {Idle} \cup Refreshing \cup LoggingOut]
    BY DEF Carried
<1>3. ASSUME NEW d \in Clients
      PROVE  task'[d] # Idle =>
                 /\ task'[d].jti \in {NULL} \cup DOMAIN tokens'
                 /\ task'[d].at \in {"rotate_check", "rotate_revoke"} => task'[d].jti # NULL
    <2>1. CASE d = c
        BY <1>1, <2>1 DEF Carried, Carries
    <2>2. CASE d # c
        BY <1>1, <2>2 DEF Carried, Carries
    <2>3. QED
        BY <2>1, <2>2
<1>4. QED
    BY <1>2, <1>3 DEF Carried, Carries

LEMMA RequestEnds ==
    ASSUME TokenTypeOK, Carried, Grows, NEW c \in Clients, task' = [task EXCEPT ![c] = Idle]
    PROVE  Carried'
    BY RequestMoves, ZenonT(40) DEF Carries

LEMMA RequestProceeds ==
    ASSUME TokenTypeOK, Carried, Grows, NEW c \in Clients,
           NEW label \in {"rotate_check", "rotate_revoke"}, Proceeds(c, label),
           task[c].at \in {"refresh_find", "rotate_check"}, task[c].jti # NULL
    PROVE  Carried'
<1>1. task[c] \in Refreshing /\ task[c] # Idle
    BY DEF Carried, Refreshing, LoggingOut, Idle
<1> DEFINE r == [task[c] EXCEPT !.at = label]
<1>2. task' = [task EXCEPT ![c] = r]
    BY DEF Proceeds
<1>3. r \in Refreshing /\ r.jti = task[c].jti
    BY <1>1 DEF Refreshing
<1>4. Carries(r)
    BY <1>1, <1>3 DEF Carried, Carries
<1>5. QED
    <2> HIDE DEF r
    <2> QED BY <1>2, <1>3, <1>4, RequestMoves, ZenonT(40)

LEMMA Presents ==
    ASSUME TokenTypeOK, Carried, NEW c \in Clients,
           task[c].at \in {"refresh_find", "rotate_check", "rotate_revoke", "logout_revoke"}
    PROVE  /\ task[c].jti \in {NULL} \cup DOMAIN tokens
           /\ task[c].at \in {"rotate_check", "rotate_revoke"} => task[c].jti \in DOMAIN tokens
<1>1. task[c] # Idle
    BY DEF Idle
<1>2. QED
    BY <1>1 DEF Carried, Carries

-----------------------------------------------------------------------------
(***************************************************************************)
(* One lemma per handler.                                                  *)
(***************************************************************************)
LEMMA StepKeeps ==
    ASSUME TokenInv, Grows, Carried', Store'
    PROVE  TokenInv'
    BY GrowsKeepsBounded DEF TokenInv, Store

LEMMA RefreshKeeps ==
    ASSUME TokenInv, NEW c \in Clients, refresh_handler(c)
    PROVE  TokenInv'
<1>1. TokenTypeOK /\ Carried /\ Bounded /\ Store /\ clock \in Nat
    BY DEF TokenInv, Store, TokenTypeOK
<1>2. ASSUME UNCHANGED tokenVars
      PROVE  Grows /\ Store'
    <2>1. Grows
        BY <1>1, <1>2, SameTokensGrow DEF tokenVars
    <2>2. QED
        BY <1>1, <1>2, <2>1, UntouchedStore DEF tokenVars
<1>3. CASE refresh_starts(c)
    <2>1. Grows /\ Store'
        BY <1>2, <1>3 DEF refresh_starts
    <2>2. PICK j \in Presented : task' = [task EXCEPT ![c] = [at |-> "refresh_find", held |-> 0, jti |-> j]]
        BY <1>3, ZenonT(40) DEF refresh_starts, Starts
    <2> DEFINE r == [at |-> "refresh_find", held |-> 0, jti |-> j]
    <2>3. j \in {NULL} \cup DOMAIN tokens /\ j \in Nat
        BY <1>1, TokenFields DEF Presented, NULL
    <2>4. r \in Refreshing /\ Carries(r)
        BY <2>3 DEF Refreshing, Carries
    <2>5. Carried'
        <3> HIDE DEF r
        <3>1. task' = [task EXCEPT ![c] = r]
            BY <2>2 DEF r
        <3>2. QED
            BY <1>1, <2>1, <2>4, <3>1, RequestMoves, ZenonT(40)
    <2>6. QED
        BY <2>1, <2>5, StepKeeps
<1>4. CASE refresh_finds(c)
    <2>1. Grows /\ Store'
        BY <1>2, <1>4 DEF refresh_finds
    <2>2. CASE task' = [task EXCEPT ![c] = Idle]
        BY <1>1, <2>1, <2>2, RequestEnds, StepKeeps, ZenonT(40)
    <2>3. CASE task[c].jti # NULL /\ Proceeds(c, "rotate_check")
        BY <1>1, <1>4, <2>1, <2>3, RequestProceeds, StepKeeps DEF refresh_finds, At
    <2>4. QED
        BY <1>4, <2>2, <2>3 DEF refresh_finds, parse_refresh_request, Answers
<1>5. CASE rotate_checks(c)
    <2>1. task[c].at = "rotate_check" /\ clock' = clock /\ tokens' = tokens
          /\ revoked' = revoked /\ forgotten' = forgotten
        BY <1>5 DEF rotate_checks, At
    <2>2. Grows
        BY <1>1, <2>1, SameTokensGrow
    <2>3. CASE task' = [task EXCEPT ![c] = Idle] /\ UNCHANGED blacklist
        <3>1. Store'
            BY <1>1, <2>1, <2>2, <2>3, UntouchedStore
        <3>2. QED
            BY <1>1, <2>2, <2>3, <3>1, RequestEnds, StepKeeps, ZenonT(40)
    <2>4. CASE is_revoked_drops(task[c].jti) /\ Proceeds(c, "rotate_revoke")
        <3>1. Store'
            BY <1>1, <2>1, <2>4, DroppingStore
        <3>2. task[c].jti # NULL
            <4>1. task[c].jti \in DOMAIN tokens
                BY <1>1, <2>1, Presents
            <4>2. QED
                BY <1>1, <4>1, TokenFields
        <3>3. Carried'
            BY <1>1, <2>1, <2>2, <2>4, <3>2, RequestProceeds
        <3>4. QED
            BY <2>2, <3>1, <3>3, StepKeeps
    <2>5. QED
        BY <1>5, <2>3, <2>4 DEF rotate_checks, Answers
<1>6. CASE rotate_revokes(c)
    <2> DEFINE j == task[c].jti
    <2>1. /\ task[c].at = "rotate_revoke" /\ clock' = clock /\ revoke(j, Remaining(j))
          /\ issue_token_pair(tokens[j].user) /\ task' = [task EXCEPT ![c] = Idle]
        BY <1>6 DEF rotate_revokes, At, Answers
    <2>2. j \in DOMAIN tokens
        BY <1>1, <2>1, Presents
    <2>3. tokens[j].user \in Nat
        BY <1>1, <2>2, TokenFields
    <2>4. Grows
        BY <1>1, <2>1, <2>3, IssuedTokensGrow
    <2>5. Store'
        BY <1>1, <2>1, <2>2, <2>4, RevokingStore
    <2>6. QED
        BY <1>1, <2>1, <2>4, <2>5, RequestEnds, StepKeeps, ZenonT(40)
<1>7. CASE refresh_throws(c)
    <2>1. Grows /\ Store'
        BY <1>2, <1>7 DEF refresh_throws
    <2>2. task' = [task EXCEPT ![c] = Idle]
        BY <1>7 DEF refresh_throws, Throws, TimesOut, Unwinds
    <2>3. QED
        BY <1>1, <2>1, <2>2, RequestEnds, StepKeeps, ZenonT(40)
<1>8. QED
    BY <1>3, <1>4, <1>5, <1>6, <1>7 DEF refresh_handler

LEMMA LogoutKeeps ==
    ASSUME TokenInv, NEW c \in Clients, logout_handler(c)
    PROVE  TokenInv'
<1>1. TokenTypeOK /\ Carried /\ Bounded /\ Store /\ clock \in Nat
    BY DEF TokenInv, Store, TokenTypeOK
<1>2. clock' = clock /\ tokens' = tokens
    BY DEF logout_handler, tokenVars
<1>3. Grows
    BY <1>1, <1>2, SameTokensGrow
<1>4. CASE UNCHANGED <<blacklist, revoked, forgotten>> /\ task' = [task EXCEPT ![c] = Idle]
    BY <1>1, <1>3, <1>4, UntouchedStore, RequestEnds, StepKeeps, ZenonT(40)
<1>5. ASSUME NEW u \in {tokens[j].user : j \in DOMAIN tokens}, NEW j \in Presented,
             task' = [task EXCEPT ![c] = [at |-> "logout_revoke", held |-> 0, jti |-> j, user |-> u]],
             UNCHANGED tokenVars
      PROVE  TokenInv'
    <2> DEFINE r == [at |-> "logout_revoke", held |-> 0, jti |-> j, user |-> u]
    <2>1. j \in {NULL} \cup DOMAIN tokens /\ j \in Nat /\ u \in Nat
        BY <1>1, <1>5, TokenFields DEF Presented, NULL
    <2>2. r \in LoggingOut /\ Carries(r)
        BY <2>1 DEF LoggingOut, Carries
    <2>3. Carried'
        <3>1. task' = [task EXCEPT ![c] = r]
            BY <1>5
        <3>2. QED
            <4> HIDE DEF r
            <4> QED BY <1>1, <1>3, <2>2, <3>1, RequestMoves, ZenonT(40)
    <2>4. Store'
        BY <1>1, <1>3, <1>5, UntouchedStore DEF tokenVars
    <2>5. QED
        BY <1>3, <2>3, <2>4, StepKeeps
<1>6. CASE /\ task[c].at = "logout_revoke" /\ task[c].jti # NULL
           /\ task' = [task EXCEPT ![c] = Idle]
           /\ revoke_refresh_token(task[c].jti, task[c].user)
    <2> DEFINE j == task[c].jti
    <2>1. j \in DOMAIN tokens
        BY <1>1, <1>6, Presents
    <2>2. ~(Remaining(j) > RefreshTtl)
        BY <1>1, <2>1, RemainingBounded
    <2>3. CASE UNCHANGED <<blacklist, revoked, forgotten>>
        BY <1>4, <1>6, <2>3
    <2>4. CASE revoke(j, Remaining(j))
        <3>1. Store'
            BY <1>1, <1>2, <1>3, <2>1, <2>4, RevokingStore
        <3>2. QED
            BY <1>1, <1>3, <1>6, <3>1, RequestEnds, StepKeeps, ZenonT(40)
    <2>5. QED
        BY <1>6, <2>2, <2>3, <2>4 DEF revoke_refresh_token
<1>7. QED
    BY <1>4, <1>5, <1>6 DEF logout_handler, Starts, At, Answers, parse_logout_request, tokenVars

-----------------------------------------------------------------------------
TokenStart == (\E n \in Nat : RequestsInit(n)) /\ TokensInit /\ tokens = <<>>

LEMMA StartHolds == TokenStart => TokenInv
<1> SUFFICES ASSUME TokenStart
             PROVE  TokenInv
    OBVIOUS
<1>1. /\ clock = 0 /\ tokens = <<>> /\ blacklist = [j \in {} |-> 0] /\ revoked = {}
      /\ task = [c \in Clients |-> Idle]
    BY DEF TokenStart, TokensInit, RequestsInit
<1>2. Carried
    BY <1>1 DEF Carried, Carries
<1>3. TokenTypeOK /\ Bounded /\ Outlives /\ Kept
    BY <1>1 DEF TokenTypeOK, Bounded, Outlives, Kept
<1>4. QED
    BY <1>2, <1>3 DEF TokenInv

LEMMA TokensInductive == TokenInv /\ [TokensNext]_tokenStep => TokenInv'
<1> SUFFICES ASSUME TokenInv, [TokensNext]_tokenStep
             PROVE  TokenInv'
    OBVIOUS
<1>1. TokenTypeOK /\ Carried /\ Bounded /\ Store /\ clock \in Nat
    BY DEF TokenInv, Store, TokenTypeOK
<1>2. ASSUME Grows, UNCHANGED task, UNCHANGED <<blacklist, revoked, forgotten>>
      PROVE  TokenInv'
    <2>1. Carried'
        <3>1. DOMAIN tokens \subseteq DOMAIN tokens'
            BY <1>2 DEF Grows
        <3>2. QED
            BY <1>1, <1>2, <3>1 DEF Carried, Carries
    <2>2. QED
        BY <1>1, <1>2, <2>1, UntouchedStore, StepKeeps
<1>3. ASSUME NEW c \in Clients, refresh_handler(c) \/ logout_handler(c)
      PROVE  TokenInv'
    BY <1>3, RefreshKeeps, LogoutKeeps
<1>4. CASE session_opens
    <2>1. PICK u \in Nat : issue_token_pair(u)
        BY <1>4 DEF session_opens
    <2>2. clock' = clock /\ UNCHANGED task /\ UNCHANGED <<blacklist, revoked, forgotten>>
        BY <1>4 DEF session_opens, reqVars
    <2>3. QED
        BY <1>1, <1>2, <2>1, <2>2, IssuedTokensGrow
<1>5. CASE tick
    <2>1. /\ clock' = clock + 1 /\ tokens' = tokens /\ UNCHANGED task
          /\ UNCHANGED <<blacklist, revoked, forgotten>>
        BY <1>5 DEF tick, reqVars
    <2>2. clock' \in Nat /\ clock <= clock'
        BY <1>1, <2>1
    <2>3. QED
        BY <1>1, <1>2, <2>1, <2>2, SameTokensGrow
<1>6. CASE UNCHANGED tokenStep
    <2>1. clock' = clock /\ tokens' = tokens /\ UNCHANGED task
          /\ UNCHANGED <<blacklist, revoked, forgotten>>
        BY <1>6 DEF tokenStep, tokenVars, reqVars
    <2>2. QED
        BY <1>1, <1>2, <2>1, SameTokensGrow
<1>7. QED
    BY <1>3, <1>4, <1>5, <1>6 DEF TokensNext

LEMMA InvRefuses == TokenInv => RevokedIsRefused
<1> SUFFICES ASSUME TokenInv, NEW j \in revoked \ forgotten,
                    clock + Second <= tokens[j].expires
             PROVE  is_revoked(j)
    BY DEF RevokedIsRefused
<1>1. j \in DOMAIN blacklist
    BY DEF TokenInv, Kept
<1>2. ~Lapsed(j)
    BY <1>1, LapsedIsOver DEF TokenInv, Store
<1>3. QED
    BY <1>1, <1>2 DEF is_revoked

(***************************************************************************)
(* For every number of threads and tokens, every lifetime, every size of   *)
(* the store and every resolution of the clock: a refresh token that was   *)
(* exchanged or logged out is refused by is_revoked until less than a      *)
(* second before it expires, unless revoke evicted it from a full store.   *)
(***************************************************************************)
THEOREM RevocationHolds == TokensSpec => []RevokedIsRefused
<1>1. TokensSpec => TokenStart /\ [][TokensNext]_tokenStep
    BY DEF TokensSpec, TokenStart, tokenStep
<1>2. QED
    BY <1>1, InvRefuses, StartHolds, TokensInductive, PTL

-----------------------------------------------------------------------------
(***************************************************************************)
(* How often one token is exchanged.  The requests that passed is_revoked  *)
(* and did not yet call revoke may all mint a pair, so they are counted    *)
(* with the pairs minted, as long as a revocation of the token would still *)
(* be kept; in the last second of a token no pair counts.                  *)
(***************************************************************************)
Exchanges(j) == {k \in DOMAIN minted : minted[k] = j}

Passed(j) == {c \in Clients : At(c, "rotate_revoke") /\ task[c].jti = j}

Lasting(j) == clock + Second <= tokens[j].expires

ExchangeInv ==
    /\ minted \in Seq(DOMAIN tokens)
    /\ \A j \in DOMAIN tokens \ forgotten :
         /\ Exchanges(j) # {} => j \in revoked
         /\ Cardinality(Exchanges(j)) <= Cardinality(Clients)
         /\ Lasting(j) =>
                Cardinality(Exchanges(j)) + Cardinality(Passed(j)) <= Cardinality(Clients)

LEMMA ClientSets ==
    ASSUME Counting, NEW P \in SUBSET Clients
    PROVE  /\ IsFiniteSet(P) /\ Cardinality(P) \in Nat /\ Cardinality(Clients) \in Nat
           /\ Cardinality(P) <= Cardinality(Clients)
<1>1. IsFiniteSet(Clients)
    BY RequestsAssumption
<1>2. QED
    BY <1>1, ZenonT(40) DEF Counting

LEMMA ExchangesFinite ==
    ASSUME Counting, NEW S, minted \in Seq(S), NEW j
    PROVE  IsFiniteSet(Exchanges(j)) /\ Cardinality(Exchanges(j)) \in Nat
<1>1. DOMAIN minted = 1 .. Len(minted) /\ Len(minted) \in Nat
    OBVIOUS
<1>2. IsFiniteSet(DOMAIN minted)
    BY <1>1, ZenonT(40) DEF Counting
<1>3. Exchanges(j) \in SUBSET (DOMAIN minted)
    BY DEF Exchanges
<1>4. QED
    BY <1>2, <1>3, ZenonT(40) DEF Counting

(***************************************************************************)
(* A step that mints nothing, and lets nobody pass is_revoked with a token *)
(* that was exchanged and whose revocation is kept.                        *)
(***************************************************************************)
LEMMA NothingMinted ==
    ASSUME Counting, TokenInv, ExchangeInv, Grows, minted' = minted,
           forgotten \subseteq forgotten', revoked \subseteq revoked',
           \A j \in DOMAIN tokens' \ forgotten' :
               \/ Passed(j)' \subseteq Passed(j)
               \/ j \in DOMAIN tokens /\ (Exchanges(j) = {} \/ ~Lasting(j)')
    PROVE  ExchangeInv'
<1>1. minted' \in Seq(DOMAIN tokens') /\ minted \in Seq(DOMAIN tokens)
    BY DEF ExchangeInv, Grows
<1>2. ASSUME NEW j \in DOMAIN tokens' \ forgotten'
      PROVE  /\ Exchanges(j)' # {} => j \in revoked'
             /\ Cardinality(Exchanges(j)') <= Cardinality(Clients)
             /\ Lasting(j)' =>
                    Cardinality(Exchanges(j)') + Cardinality(Passed(j)') <= Cardinality(Clients)
    <2>1. Exchanges(j)' = Exchanges(j) /\ Cardinality(Exchanges(j)) \in Nat
        BY <1>1, ExchangesFinite, ZenonT(40) DEF Exchanges
    <2>2. Passed(j) \in SUBSET Clients /\ Passed(j)' \in SUBSET Clients
        BY DEF Passed
    <2>3. /\ IsFiniteSet(Passed(j)) /\ Cardinality(Passed(j)) \in Nat
          /\ IsFiniteSet(Passed(j)') /\ Cardinality(Passed(j)') \in Nat
          /\ Cardinality(Passed(j)') <= Cardinality(Clients) /\ Cardinality(Clients) \in Nat
        BY <2>2, ClientSets
    <2>4. Passed(j)' \subseteq Passed(j) => Cardinality(Passed(j)') <= Cardinality(Passed(j))
        BY <2>3, ZenonT(40) DEF Counting
    <2>5. CASE Exchanges(j) = {}
        <3>1. Cardinality(Exchanges(j)) = 0
            BY <2>5, ZenonT(40) DEF Counting
        <3>2. QED
            BY <2>1, <2>3, <2>5, <3>1
    <2>6. CASE Exchanges(j) # {}
        <3>1. j \in DOMAIN tokens \ forgotten
            <4>1. PICK k \in DOMAIN minted : minted[k] = j
                BY <2>6 DEF Exchanges
            <4>2. j \in DOMAIN tokens
                BY <1>1, <4>1, ElementOf
            <4>3. QED
                BY <1>2, <4>2
        <3>2. /\ j \in revoked /\ Cardinality(Exchanges(j)) <= Cardinality(Clients)
              /\ Lasting(j) => Cardinality(Exchanges(j)) + Cardinality(Passed(j)) <= Cardinality(Clients)
            BY <2>6, <3>1 DEF ExchangeInv
        <3>3. Lasting(j)' => Lasting(j)
            <4>1. tokens'[j] = tokens[j] /\ tokens[j].expires \in Nat
                BY <3>1, TokenFields DEF Grows, TokenInv
            <4>2. clock \in Nat /\ clock' \in Nat /\ clock <= clock' /\ Second \in Nat
                BY TokensAssumption DEF TokenInv, TokenTypeOK, Grows
            <4>3. QED
                BY <4>1, <4>2 DEF Lasting
        <3>4. Lasting(j)' => Cardinality(Passed(j)') <= Cardinality(Passed(j))
            BY <1>2, <2>4, <2>6
        <3>5. QED
            BY <2>1, <2>3, <3>2, <3>3, <3>4
    <2>7. QED
        BY <2>5, <2>6
<1>3. QED
    BY <1>1, <1>2 DEF ExchangeInv

LEMMA Appended ==
    ASSUME NEW S, NEW s \in Seq(S), NEW x \in S
    PROVE  /\ Append(s, x) \in Seq(S) /\ Len(s) \in Nat
           /\ DOMAIN Append(s, x) = DOMAIN s \cup {Len(s) + 1}
           /\ Len(s) + 1 \notin DOMAIN s
           /\ \A k \in DOMAIN s : Append(s, x)[k] = s[k]
           /\ Append(s, x)[Len(s) + 1] = x
    OBVIOUS

LEMMA RevokeRecords ==
    ASSUME NEW j, NEW n, revoke(j, n)
    PROVE  forgotten \subseteq forgotten' /\ revoked' = revoked \cup {j}
    BY ZenonT(40) DEF revoke

(***************************************************************************)
(* Only the step to rotate_revoke adds a request to those that passed.     *)
(***************************************************************************)
LEMMA ThreadPasses ==
    ASSUME Carried, NEW c \in Clients, Proceeds(c, "rotate_revoke"), NEW j, task[c].jti # j
    PROVE  Passed(j)' \subseteq Passed(j)
<1>1. task'[c].jti = task[c].jti /\ \A d \in Clients \ {c} : task'[d] = task[d]
    BY DEF Carried, Proceeds
<1>2. QED
    BY <1>1 DEF Passed, At

LEMMA ThreadElsewhere ==
    ASSUME Carried, NEW c \in Clients, NEW r, r.at # "rotate_revoke",
           task' = [task EXCEPT ![c] = r]
    PROVE  \A j : Passed(j)' \subseteq Passed(j) \ {c}
<1>1. task'[c].at # "rotate_revoke" /\ \A d \in Clients \ {c} : task'[d] = task[d]
    BY DEF Carried
<1>2. QED
    BY <1>1 DEF Passed, At

LEMMA ThreadLeaves ==
    ASSUME Carried, NEW c \in Clients, task' = [task EXCEPT ![c] = Idle]
    PROVE  \A j : Passed(j)' \subseteq Passed(j) \ {c}
<1>1. Idle.at # "rotate_revoke"
    BY DEF Idle
<1>2. QED
    BY <1>1, ThreadElsewhere, ZenonT(40)

(***************************************************************************)
(* rotate_token_pair calls revoke for a token whose revocation is kept:    *)
(* the request is no longer on its way and its pair is counted.            *)
(***************************************************************************)
LEMMA PairMinted ==
    ASSUME Counting, TokenInv, ExchangeInv, NEW c \in Clients, rotate_revokes(c), Grows
    PROVE  ExchangeInv'
<1> DEFINE i == task[c].jti
           R == Remaining(i)
<1>1. /\ c \in Passed(i) /\ i \in DOMAIN tokens /\ clock' = clock
      /\ forgotten \subseteq forgotten' /\ revoked' = revoked \cup {i}
      /\ minted' = IF R = 0 THEN minted ELSE Append(minted, i)
      /\ task' = [task EXCEPT ![c] = Idle]
    BY Presents, RevokeRecords DEF rotate_revokes, At, Passed, TokenInv, Answers
<1>2. \A j : Passed(j)' \subseteq Passed(j) \ {c}
    <2>1. Carried /\ task' = [task EXCEPT ![c] = Idle]
        BY <1>1 DEF TokenInv
    <2>2. QED
        BY <2>1, ThreadLeaves, ZenonT(30)
<1>3. CASE R = 0
    BY <1>1, <1>2, <1>3, NothingMinted
<1>4. CASE R # 0
    <2>1. /\ minted \in Seq(DOMAIN tokens) /\ minted' = Append(minted, i)
          /\ DOMAIN tokens \subseteq DOMAIN tokens'
        BY <1>1, <1>4 DEF ExchangeInv, Grows
    <2>2. /\ minted' \in Seq(DOMAIN tokens') /\ Len(minted) \in Nat
          /\ DOMAIN minted' = DOMAIN minted \cup {Len(minted) + 1}
          /\ Len(minted) + 1 \notin DOMAIN minted
          /\ \A k \in DOMAIN minted : minted'[k] = minted[k]
          /\ minted'[Len(minted) + 1] = i
        <3>1. minted \in Seq(DOMAIN tokens') /\ i \in DOMAIN tokens'
            BY <1>1, <2>1
        <3>2. QED
            <4> HIDE DEF i
            <4> QED BY <2>1, <3>1, Appended
    <2>3. Lasting(i)
        <3>1. clock \in Nat /\ tokens[i].expires \in Nat /\ Second \in Nat \ {0}
            BY <1>1, TokenFields, TokensAssumption DEF TokenInv, TokenTypeOK
        <3>2. clock < tokens[i].expires /\ R = (tokens[i].expires - clock) \div Second
            BY <1>4 DEF Remaining, verify, WholeSeconds
        <3>3. PICK x \in Nat : x = tokens[i].expires - clock
            BY <3>1, <3>2
        <3>4. x \div Second # 0 => Second <= x
            BY <3>1
        <3>5. QED
            <4>1. x \div Second # 0
                BY <1>4, <3>2, <3>3
            <4>2. QED
                BY <3>1, <3>3, <3>4, <4>1 DEF Lasting
    <2>4. ASSUME NEW j \in DOMAIN tokens' \ forgotten'
          PROVE  /\ Exchanges(j)' # {} => j \in revoked'
                 /\ Cardinality(Exchanges(j)') <= Cardinality(Clients)
                 /\ Lasting(j)' =>
                        Cardinality(Exchanges(j)') + Cardinality(Passed(j)') <= Cardinality(Clients)
        <3>1. Passed(j) \in SUBSET Clients /\ Passed(j)' \in SUBSET Clients
              /\ Passed(j) \ {c} \in SUBSET Clients
            BY DEF Passed
        <3>2. /\ IsFiniteSet(Passed(j)) /\ Cardinality(Passed(j)) \in Nat
              /\ IsFiniteSet(Passed(j) \ {c}) /\ Cardinality(Passed(j) \ {c}) \in Nat
              /\ Cardinality(Passed(j)') \in Nat /\ Cardinality(Clients) \in Nat
              /\ Cardinality(Passed(j)') <= Cardinality(Clients)
            BY <3>1, ClientSets
        <3>3. Cardinality(Passed(j)') <= Cardinality(Passed(j) \ {c})
            BY <1>2, <3>2, ZenonT(40) DEF Counting
        <3>4. Cardinality(Passed(j) \ {c}) =
                  IF c \in Passed(j) THEN Cardinality(Passed(j)) - 1 ELSE Cardinality(Passed(j))
            <4>1. CASE c \in Passed(j)
                BY <3>2, <4>1, ZenonT(40) DEF Counting
            <4>2. CASE c \notin Passed(j)
                <5>1. Passed(j) \ {c} = Passed(j)
                    BY <4>2
                <5>2. QED
                    BY <4>2, <5>1
            <4>3. QED
                BY <4>1, <4>2
        <3>5. IsFiniteSet(Exchanges(j)) /\ Cardinality(Exchanges(j)) \in Nat
            BY <2>1, ExchangesFinite
        <3>6. CASE j = i
            <4>1. Exchanges(j)' = Exchanges(j) \cup {Len(minted) + 1}
                BY <2>2, <3>6 DEF Exchanges
            <4>2. Len(minted) + 1 \notin Exchanges(j)
                BY <2>2 DEF Exchanges
            <4>3. Cardinality(Exchanges(j)') = Cardinality(Exchanges(j)) + 1
                BY <3>5, <4>1, <4>2, ZenonT(40) DEF Counting
            <4>4. Cardinality(Exchanges(j)) + Cardinality(Passed(j)) <= Cardinality(Clients)
                BY <1>1, <2>3, <2>4, <3>6 DEF ExchangeInv
            <4>5. Cardinality(Passed(j)') <= Cardinality(Passed(j)) - 1
                BY <1>1, <3>3, <3>4, <3>6
            <4>6. QED
                BY <1>1, <3>2, <3>5, <3>6, <4>3, <4>4, <4>5
        <3>7. CASE j # i
            <4>1. Exchanges(j)' = Exchanges(j)
                BY <2>2, <3>7 DEF Exchanges
            <4>2. Cardinality(Passed(j)') <= Cardinality(Passed(j))
                BY <3>2, <3>3, <3>4
            <4>3. CASE j \in DOMAIN tokens
                <5>1. Lasting(j)' => Lasting(j)
                    BY <1>1, <4>3 DEF Lasting, Grows
                <5>2. j \in DOMAIN tokens \ forgotten
                    BY <1>1, <2>4, <4>3
                <5>3. /\ Exchanges(j) # {} => j \in revoked
                      /\ Cardinality(Exchanges(j)) <= Cardinality(Clients)
                      /\ Lasting(j) => Cardinality(Exchanges(j)) + Cardinality(Passed(j)) <= Cardinality(Clients)
                    BY <5>2 DEF ExchangeInv
                <5>4. QED
                    BY <1>1, <3>2, <3>5, <4>1, <4>2, <5>1, <5>3
            <4>4. CASE j \notin DOMAIN tokens
                <5>1. Exchanges(j) = {}
                    BY <2>1, <4>4, ElementOf DEF Exchanges
                <5>2. Cardinality(Exchanges(j)) = 0
                    BY <5>1, ZenonT(40) DEF Counting
                <5>3. QED
                    BY <3>2, <4>1, <5>1, <5>2
            <4>5. QED
                BY <4>3, <4>4
        <3>8. QED
            BY <3>6, <3>7
    <2>5. QED
        BY <2>2, <2>4 DEF ExchangeInv
<1>5. QED
    BY <1>3, <1>4

LEMMA RefreshCounts ==
    ASSUME Counting, TokenInv, ExchangeInv, NEW c \in Clients, refresh_handler(c)
    PROVE  ExchangeInv'
<1>1. TokenTypeOK /\ Carried /\ clock \in Nat
    BY DEF TokenInv, TokenTypeOK
<1>2. ASSUME UNCHANGED tokenVars, \A j : Passed(j)' \subseteq Passed(j)
      PROVE  ExchangeInv'
    <2>1. Grows
        BY <1>1, <1>2, SameTokensGrow DEF tokenVars
    <2>2. QED
        BY <1>2, <2>1, NothingMinted DEF tokenVars
<1>3. CASE refresh_starts(c)
    <2>1. PICK j \in Presented : task' = [task EXCEPT ![c] = [at |-> "refresh_find", held |-> 0, jti |-> j]]
        BY <1>3, ZenonT(40) DEF refresh_starts, Starts
    <2>2. [at |-> "refresh_find", held |-> 0, jti |-> j].at # "rotate_revoke"
        OBVIOUS
    <2>3. \A k : Passed(k)' \subseteq Passed(k)
        BY <1>1, <2>1, <2>2, ThreadElsewhere, ZenonT(40)
    <2>4. QED
        BY <1>2, <1>3, <2>3 DEF refresh_starts
<1>4. CASE refresh_finds(c)
    <2>1. CASE task' = [task EXCEPT ![c] = Idle]
        BY <1>1, <1>2, <1>4, <2>1, ThreadLeaves, ZenonT(40) DEF refresh_finds
    <2>2. CASE Proceeds(c, "rotate_check")
        <3>1. task[c] \in Refreshing
            BY <1>1, <1>4 DEF refresh_finds, At, Carried, Refreshing, LoggingOut, Idle
        <3>2. [task[c] EXCEPT !.at = "rotate_check"].at # "rotate_revoke"
            BY <3>1 DEF Refreshing
        <3>3. task' = [task EXCEPT ![c] = [task[c] EXCEPT !.at = "rotate_check"]]
            BY <2>2 DEF Proceeds
        <3>4. \A k : Passed(k)' \subseteq Passed(k)
            BY <1>1, <3>2, <3>3, ThreadElsewhere, ZenonT(40)
        <3>5. QED
            BY <1>2, <1>4, <3>4 DEF refresh_finds
    <2>3. QED
        BY <1>4, <2>1, <2>2 DEF refresh_finds, parse_refresh_request, Answers
<1>5. CASE rotate_checks(c)
    <2>0. PICK i : i = task[c].jti
        OBVIOUS
    <2>1. /\ task[c].at = "rotate_check" /\ clock' = clock /\ tokens' = tokens
          /\ revoked' = revoked /\ forgotten' = forgotten /\ minted' = minted
        BY <1>5 DEF rotate_checks, At
    <2>2. Grows /\ i \in DOMAIN tokens
        BY <1>1, <2>0, <2>1, SameTokensGrow, Presents
    <2>3. CASE task' = [task EXCEPT ![c] = Idle]
        <3>1. \A k : Passed(k)' \subseteq Passed(k)
            BY <1>1, <2>3, ThreadLeaves, ZenonT(40)
        <3>2. QED
            BY <2>1, <2>2, <3>1, NothingMinted
    <2>4. CASE ~is_revoked(i) /\ Proceeds(c, "rotate_revoke")
        <3>1. \A k : k # i => Passed(k)' \subseteq Passed(k)
            BY <1>1, <2>0, <2>4, ThreadPasses
        <3>2. CASE i \notin forgotten
            <4>1. Exchanges(i) = {} \/ ~Lasting(i)
                <5>1. i \in revoked => ~Lasting(i)
                    BY <2>4, <3>2, InvRefuses DEF Lasting, RevokedIsRefused
                <5>2. Exchanges(i) # {} => i \in revoked
                    BY <2>2, <3>2 DEF ExchangeInv
                <5>3. QED
                    BY <5>1, <5>2
            <4>2. ~Lasting(i) => ~Lasting(i)'
                BY <2>1 DEF Lasting
            <4>3. QED
                BY <2>1, <2>2, <3>1, <4>1, <4>2, NothingMinted
        <3>3. CASE i \in forgotten
            <4>1. \A k \in DOMAIN tokens' \ forgotten' : Passed(k)' \subseteq Passed(k)
                BY <2>1, <3>1, <3>3
            <4>2. QED
                BY <2>1, <2>2, <4>1, NothingMinted
        <3>4. QED
            BY <3>2, <3>3
    <2>5. QED
        BY <1>5, <2>0, <2>3, <2>4 DEF rotate_checks, Answers
<1>6. CASE rotate_revokes(c)
    <2>1. /\ task[c].at = "rotate_revoke" /\ clock' = clock
          /\ issue_token_pair(tokens[task[c].jti].user)
        BY <1>6 DEF rotate_revokes, At
    <2>2. tokens[task[c].jti].user \in Nat
        BY <1>1, <2>1, Presents, TokenFields
    <2>3. Grows
        BY <1>1, <2>1, <2>2, IssuedTokensGrow
    <2>4. QED
        BY <1>6, <2>3, PairMinted
<1>7. CASE refresh_throws(c)
    BY <1>1, <1>2, <1>7, ThreadLeaves DEF refresh_throws, Throws, TimesOut, Unwinds
<1>8. QED
    BY <1>3, <1>4, <1>5, <1>6, <1>7 DEF refresh_handler

LEMMA LogoutCounts ==
    ASSUME Counting, TokenInv, ExchangeInv, NEW c \in Clients, logout_handler(c)
    PROVE  ExchangeInv'
<1>1. TokenTypeOK /\ Carried /\ clock \in Nat
    BY DEF TokenInv, TokenTypeOK
<1>2. clock' = clock /\ tokens' = tokens /\ minted' = minted
    BY DEF logout_handler, tokenVars
<1>3. Grows
    BY <1>1, <1>2, SameTokensGrow
<1>4. forgotten \subseteq forgotten' /\ revoked \subseteq revoked'
    <2>1. CASE UNCHANGED <<revoked, forgotten>>
        BY <2>1
    <2>2. CASE \E j, n : revoke(j, n)
        BY <2>2, RevokeRecords
    <2>3. QED
        BY <2>1, <2>2 DEF logout_handler, revoke_refresh_token, tokenVars
<1>5. \A j : Passed(j)' \subseteq Passed(j)
    <2>1. CASE task' = [task EXCEPT ![c] = Idle]
        BY <1>1, <2>1, ThreadLeaves, ZenonT(40)
    <2>2. ASSUME NEW j, NEW u,
                 task' = [task EXCEPT ![c] = [at |-> "logout_revoke", held |-> 0, jti |-> j, user |-> u]]
          PROVE  \A k : Passed(k)' \subseteq Passed(k)
        <3>1. [at |-> "logout_revoke", held |-> 0, jti |-> j, user |-> u].at # "rotate_revoke"
            OBVIOUS
        <3>2. QED
            BY <1>1, <2>2, <3>1, ThreadElsewhere, ZenonT(40)
    <2>3. QED
        BY <2>1, <2>2, ZenonT(40) DEF logout_handler, Starts, Answers, parse_logout_request
<1>6. QED
    BY <1>2, <1>3, <1>4, <1>5, NothingMinted

LEMMA ExchangesStep == Counting /\ TokenInv /\ ExchangeInv /\ [TokensNext]_tokenStep => ExchangeInv'
<1> SUFFICES ASSUME Counting, TokenInv, ExchangeInv, [TokensNext]_tokenStep
             PROVE  ExchangeInv'
    OBVIOUS
<1>1. TokenTypeOK /\ clock \in Nat
    BY DEF TokenInv, TokenTypeOK
<1>2. ASSUME Grows, UNCHANGED task, UNCHANGED <<revoked, forgotten, minted>>
      PROVE  ExchangeInv'
    <2>1. \A j : Passed(j)' \subseteq Passed(j)
        BY <1>2 DEF Passed, At
    <2>2. QED
        BY <1>2, <2>1, NothingMinted
<1>3. ASSUME NEW c \in Clients, refresh_handler(c) \/ logout_handler(c)
      PROVE  ExchangeInv'
    BY <1>3, RefreshCounts, LogoutCounts
<1>4. CASE session_opens
    <2>1. PICK u \in Nat : issue_token_pair(u)
        BY <1>4 DEF session_opens
    <2>2. clock' = clock /\ UNCHANGED task /\ UNCHANGED <<revoked, forgotten, minted>>
        BY <1>4 DEF session_opens, reqVars
    <2>3. QED
        BY <1>1, <1>2, <2>1, <2>2, IssuedTokensGrow
<1>5. CASE tick
    <2>1. clock' = clock + 1 /\ tokens' = tokens /\ UNCHANGED task /\ UNCHANGED <<revoked, forgotten, minted>>
        BY <1>5 DEF tick, reqVars
    <2>2. clock' \in Nat /\ clock <= clock'
        BY <1>1, <2>1
    <2>3. QED
        BY <1>1, <1>2, <2>1, <2>2, SameTokensGrow
<1>6. CASE UNCHANGED tokenStep
    <2>1. clock' = clock /\ tokens' = tokens /\ UNCHANGED task /\ UNCHANGED <<revoked, forgotten, minted>>
        BY <1>6 DEF tokenStep, tokenVars, reqVars
    <2>2. QED
        BY <1>1, <1>2, <2>1, SameTokensGrow
<1>7. QED
    BY <1>3, <1>4, <1>5, <1>6 DEF TokensNext

-----------------------------------------------------------------------------
(***************************************************************************)
(* The notifier.                                                           *)
(***************************************************************************)
\* What the notifier's vectors do: push_back, and a walk from the front.
LEMMA Appending ==
  ASSUME NEW q \in Seq(Listeners), NEW c \in Listeners
  PROVE  /\ Append(q, c) \in Seq(Listeners)
         /\ Len(q) \in Nat /\ Len(Append(q, c)) = Len(q) + 1
         /\ \A k \in 1..Len(q) : Append(q, c)[k] = q[k]
         /\ Append(q, c)[Len(q) + 1] = c
OBVIOUS

LEMMA Walking ==
  ASSUME NEW q \in Seq(Listeners), q # << >>
  PROVE  /\ Len(q) \in Nat \ {0} /\ Head(q) = q[1] /\ Head(q) \in Listeners
         /\ Tail(q) \in Seq(Listeners) /\ Len(Tail(q)) = Len(q) - 1
         /\ \A k \in 1..Len(Tail(q)) : Tail(q)[k] = q[k + 1]
OBVIOUS

LEMMA Shortening ==
  ASSUME NEW q \in Seq(Listeners), NEW l \in Nat, Len(q) = l + 1
  PROVE  /\ SubSeq(q, 1, l) \in Seq(Listeners) /\ Len(SubSeq(q, 1, l)) = l
         /\ \A k \in 1..l : SubSeq(q, 1, l)[k] = q[k]
OBVIOUS

\* The requests attached to a submission are finitely many.
LEMMA AttachedCounts ==
  ASSUME Counting, NEW s \in Submissions
  PROVE  IsFiniteSet(Attached(s)) /\ Cardinality(Attached(s)) \in Nat
<1>1. Attached(s) \in SUBSET Listeners
  BY DEF Attached
<1>2. IsFiniteSet(Listeners)
  BY NotifierAssumption DEF NotifierAssumption
<1>3. IsFiniteSet(Attached(s))
  BY <1>1, <1>2, ZenonT(40) DEF Counting
<1> QED
  BY <1>3, ZenonT(40) DEF Counting

\* A finished row never changes again, whatever the judge does: the fact the
\* WHERE clauses of submission_repo give the SSE layer.
LEMMA FinishedRowIsFinal ==
  ASSUME NotifierTypeOK, Environment
  PROVE  /\ rows' \in [Submissions -> RowStatuses]
         /\ \A s \in Submissions : rows[s] \in Verdicts => rows'[s] = rows[s]
         /\ UNCHANGED event
<1> USE DEF NotifierTypeOK, RowStatuses, Verdicts
<1>1. CASE \E s \in Submissions : Lifecycle!Insert(s)
  BY <1>1 DEF Lifecycle!Insert
<1>2. CASE \E s \in Submissions : Lifecycle!MarkRunning(s)
  BY <1>2 DEF Lifecycle!MarkRunning
<1>3. CASE \E s \in Submissions : \E v \in Verdicts : Lifecycle!MarkFinished(s, v)
  BY <1>3 DEF Lifecycle!MarkFinished, Lifecycle!Transient
<1>4. CASE \E S \in SUBSET Submissions : Lifecycle!Requeue(S)
  BY <1>4 DEF Lifecycle!Requeue
<1> QED
  BY <1>1, <1>2, <1>3, <1>4 DEF Environment

\* unsubscribe() shortens the vector by one entry, if there is one, and leaves
\* the others where they are.
LEMMA DropIsSeq ==
  ASSUME NEW q \in Seq(Listeners)
  PROVE  /\ DropOne(q) \in Seq(Listeners)
         /\ q # << >> => Len(DropOne(q)) = Len(q) - 1
         /\ q = << >> => DropOne(q) = q
         /\ \A k \in 1..Len(DropOne(q)) : k \in 1..Len(q) /\ DropOne(q)[k] = q[k]
<1>1. CASE q = << >>
  BY <1>1 DEF DropOne
<1>2. CASE q # << >>
  <2>1. PICK l \in Nat : Len(q) = l + 1
    BY <1>2, Walking
  <2>2. DropOne(q) = SubSeq(q, 1, l)
    BY <1>2, <2>1 DEF DropOne
  <2>3. \A k \in 1..l : k \in 1..Len(q)
    BY <2>1
  <2> QED
    BY <1>2, <2>1, <2>2, <2>3, Shortening
<1> QED
  BY <1>1, <1>2

-----------------------------------------------------------------------------
(* One lemma per conjunct of NotifierIInv *)

\* Every step keeps the types.
LEMMA TypeStep ==
  ASSUME NotifierTypeOK, NotifierNext
  PROVE  NotifierTypeOK'
<1>1. CASE Environment
  BY <1>1, FinishedRowIsFinal DEF Environment, NotifierTypeOK, hubVars, clientVars
<1>2. ASSUME NEW s \in Submissions, Publish(s)
      PROVE  NotifierTypeOK'
  <2>1. event' \in [Submissions -> {"none"} \cup Verdicts] /\ UNCHANGED rows
    BY <1>2 DEF Publish, Lifecycle!Announce, Lifecycle!Verdicts, NotifierTypeOK, Verdicts
  <2>2. << >> \in Seq(Listeners)
    OBVIOUS
  <2> QED
    BY <1>2, <2>1, <2>2, ZenonT(40) DEF Publish, Snapshot, NotifierTypeOK, clientVars
<1>3. ASSUME NEW s \in Submissions, InvokeCallback(s)
      PROVE  NotifierTypeOK'
  <2>0. snap[s] \in Seq(Listeners) /\ snap[s] # << >>
    BY <1>3 DEF InvokeCallback, NotifierTypeOK
  <2>1. Tail(snap[s]) \in Seq(Listeners) /\ Head(snap[s]) \in Listeners
    BY <2>0, Walking
  <2>2. snap' \in [Submissions -> Seq(Listeners)]
    BY <1>3, <2>1, ZenonT(40) DEF InvokeCallback, NotifierTypeOK
  <2>3. fired' \in [Listeners -> {"none"} \cup Verdicts]
    BY <1>3, <2>1, ZenonT(40) DEF InvokeCallback, Delivered, NotifierTypeOK
  <2>4. dangling' \in BOOLEAN
    BY <1>3, ZenonT(40) DEF InvokeCallback, NotifierTypeOK
  <2> QED
    BY <1>3, <2>2, <2>3, <2>4, ZenonT(40) DEF InvokeCallback, NotifierTypeOK, lifeVars
<1>4. ASSUME NEW c \in Listeners, Fetch(c) \/ Recheck(c)
      PROVE  NotifierTypeOK'
  <2>1. CASE Fetch(c)
    BY <2>1, ZenonT(40) DEF Fetch, Answer, Read, NotifierTypeOK, ClientPCs, RowStatuses, lifeVars, hubVars
  <2>2. CASE Recheck(c)
    BY <2>2, ZenonT(40) DEF Recheck, Answer, Read, NotifierTypeOK, ClientPCs, RowStatuses, lifeVars, hubVars
  <2> QED
    BY <1>4, <2>1, <2>2
<1>5. ASSUME NEW c \in Listeners, Subscribe(c)
      PROVE  NotifierTypeOK'
  <2>0. subs[watch[c]] \in Seq(Listeners)
    BY DEF NotifierTypeOK
  <2>1. Append(subs[watch[c]], c) \in Seq(Listeners)
    BY <2>0, Appending
  <2>2. subs' \in [Submissions -> Seq(Listeners)]
    BY <1>5, <2>1, ZenonT(40) DEF Subscribe, NotifierTypeOK
  <2> QED
    BY <1>5, <2>2, ZenonT(40) DEF Subscribe, Answer, NotifierTypeOK, ClientPCs, RowStatuses, lifeVars
<1>6. ASSUME NEW c \in Listeners, StopWaiting(c)
      PROVE  NotifierTypeOK'
  BY <1>6 DEF StopWaiting, NotifierTypeOK, ClientPCs, lifeVars, hubVars
<1>7. ASSUME NEW c \in Listeners, Return(c)
      PROVE  NotifierTypeOK'
  <2>0. subs[watch[c]] \in Seq(Listeners)
    BY DEF NotifierTypeOK
  <2>1. DropOne(subs[watch[c]]) \in Seq(Listeners)
    BY <2>0, DropIsSeq
  <2>2. subs' \in [Submissions -> Seq(Listeners)]
    BY <1>7, <2>1 DEF Return, NotifierTypeOK
  <2> QED
    BY <1>7, <2>2 DEF Return, Answer, NotifierTypeOK, ClientPCs, RowStatuses, lifeVars
<1> QED
  BY <1>1, <1>2, <1>3, <1>4, <1>5, <1>6, <1>7 DEF NotifierNext, Serve

\* What clients read and were handed stays the stored verdict.
LEMMA VerdictStep ==
  ASSUME NotifierTypeOK, Filed, VerdictsAgree, NotifierNext
  PROVE  VerdictsAgree'
<1> USE DEF Verdicts, RowStatuses
<1>1. CASE Environment
  <2>1. /\ \A s \in Submissions : rows[s] \in Verdicts => rows'[s] = rows[s]
        /\ UNCHANGED <<event, snap, seen, fired, watch>>
    BY <1>1, FinishedRowIsFinal DEF Environment, hubVars, clientVars
  <2>2. \A s \in Submissions : event[s] # "none" => event[s] \in Verdicts
    BY DEF NotifierTypeOK
  <2>3. \A c \in Listeners : watch[c] \in Submissions
                            /\ (fired[c] # "none" => fired[c] \in Verdicts)
    BY DEF NotifierTypeOK
  <2> QED
    BY <2>1, <2>2, <2>3 DEF VerdictsAgree
<1>2. ASSUME NEW s \in Submissions, Publish(s)
      PROVE  VerdictsAgree'
  <2>1. /\ rows[s] \in Verdicts /\ event' = [event EXCEPT ![s] = rows[s]]
        /\ UNCHANGED <<rows, seen, fired, watch>>
        /\ snap' = [snap EXCEPT ![s] = subs[s]]
    BY <1>2 DEF Publish, Snapshot, Lifecycle!Announce, Lifecycle!Verdicts, clientVars
  <2> QED
    BY <2>1 DEF VerdictsAgree, NotifierTypeOK
<1>3. ASSUME NEW s \in Submissions, InvokeCallback(s)
      PROVE  VerdictsAgree'
  <2>0. snap[s] \in Seq(Listeners) /\ snap[s] # << >>
    BY <1>3 DEF InvokeCallback, NotifierTypeOK
  <2>1. Head(snap[s]) \in Listeners /\ watch[Head(snap[s])] = s
    <3>1. 1 \in 1..Len(snap[s]) /\ Head(snap[s]) = snap[s][1] /\ Head(snap[s]) \in Listeners
      BY <2>0, Walking
    <3> QED
      BY <3>1 DEF Filed
  <2>2. event[s] # "none" /\ event[s] = rows[s]
    BY <2>0 DEF VerdictsAgree
  <2>3. /\ \A c \in Listeners : fired'[c] = fired[c]
                              \/ (c = Head(snap[s]) /\ fired'[c] = event[s])
        /\ \A u \in Submissions : snap'[u] # << >> => snap[u] # << >>
        /\ UNCHANGED <<rows, event, watch, seen>>
    BY <1>3, <2>0, <2>1 DEF InvokeCallback, Delivered, NotifierTypeOK, lifeVars
  <2> QED
    BY <2>1, <2>2, <2>3 DEF VerdictsAgree
<1>4. ASSUME NEW c \in Listeners, Serve(c)
      PROVE  VerdictsAgree'
  <2>1. /\ UNCHANGED <<rows, event, watch, fired, snap>>
        /\ seen' = seen \/ Read(c)
    BY <1>4, ZenonT(40) DEF Serve, Fetch, Recheck, Subscribe, StopWaiting, Return, lifeVars, hubVars
  <2>2. \A d \in Listeners : seen'[d] = seen[d] \/ seen'[d] = rows[watch[d]]
    BY <2>1 DEF Read, NotifierTypeOK
  <2> QED
    BY <2>1, <2>2 DEF VerdictsAgree
<1> QED
  BY <1>1, <1>2, <1>3, <1>4 DEF NotifierNext

\* A callback stays filed under the submission its client watches.
LEMMA FiledStep ==
  ASSUME NotifierTypeOK, Filed, NotifierNext
  PROVE  Filed'
<1>0. UNCHANGED watch
  BY ZenonT(40) DEF NotifierNext, Environment, Publish, InvokeCallback, Serve, Fetch, Recheck, Subscribe,
         StopWaiting, Return, clientVars
<1>1. CASE Environment
  BY <1>1 DEF Environment, Filed, hubVars, clientVars
<1>2. ASSUME NEW s \in Submissions, Publish(s)
      PROVE  Filed'
  <2>1. Len(<< >>) = 0
    OBVIOUS
  <2> QED
    BY <1>0, <1>2, <2>1 DEF Publish, Snapshot, Filed, NotifierTypeOK
<1>3. ASSUME NEW s \in Submissions, InvokeCallback(s)
      PROVE  Filed'
  <2>0. snap[s] \in Seq(Listeners) /\ snap[s] # << >>
    BY <1>3 DEF InvokeCallback, NotifierTypeOK
  <2>1. /\ Len(Tail(snap[s])) = Len(snap[s]) - 1
        /\ \A k \in 1..Len(Tail(snap[s])) : Tail(snap[s])[k] = snap[s][k + 1]
    BY <2>0, Walking
  <2>2. \A k \in 1..Len(Tail(snap[s])) : watch[Tail(snap[s])[k]] = s
    BY <2>0, <2>1, Walking DEF Filed
  <2>3. \A u \in Submissions : snap'[u] = snap[u] \/ (u = s /\ snap'[u] = Tail(snap[s]))
    BY <1>3 DEF InvokeCallback, NotifierTypeOK
  <2> QED
    BY <1>0, <1>3, <2>2, <2>3, ZenonT(40) DEF InvokeCallback, Filed
<1>4. ASSUME NEW c \in Listeners, Fetch(c) \/ Recheck(c) \/ StopWaiting(c)
      PROVE  Filed'
  BY <1>0, <1>4 DEF Fetch, Recheck, StopWaiting, Filed, hubVars
<1>5. ASSUME NEW c \in Listeners, Subscribe(c)
      PROVE  Filed'
  <2>0. subs[watch[c]] \in Seq(Listeners) /\ watch[c] \in Submissions
    BY DEF NotifierTypeOK
  <2>1. LET q == subs[watch[c]] IN
          /\ Len(Append(q, c)) = Len(q) + 1
          /\ \A k \in 1..Len(q) : Append(q, c)[k] = q[k]
          /\ Append(q, c)[Len(q) + 1] = c
          /\ Len(q) \in Nat
    BY <2>0, Appending
  <2>2. \A k \in 1..Len(Append(subs[watch[c]], c)) :
          watch[Append(subs[watch[c]], c)[k]] = watch[c]
    BY <2>0, <2>1 DEF Filed
  <2>3. \A u \in Submissions : subs'[u] = subs[u]
                               \/ (u = watch[c] /\ subs'[u] = Append(subs[watch[c]], c))
    BY <1>5 DEF Subscribe, NotifierTypeOK
  <2> QED
    BY <1>0, <1>5, <2>2, <2>3, ZenonT(40) DEF Subscribe, Filed
<1>6. ASSUME NEW c \in Listeners, Return(c)
      PROVE  Filed'
  <2>0. subs[watch[c]] \in Seq(Listeners) /\ watch[c] \in Submissions
    BY DEF NotifierTypeOK
  <2>1. \A k \in 1..Len(DropOne(subs[watch[c]])) :
          watch[DropOne(subs[watch[c]])[k]] = watch[c]
    BY <2>0, DropIsSeq DEF Filed
  <2>2. \A u \in Submissions : subs'[u] = subs[u]
                               \/ (u = watch[c] /\ subs'[u] = DropOne(subs[watch[c]]))
    BY <1>6 DEF Return, NotifierTypeOK
  <2> QED
    BY <1>0, <1>6, <2>1, <2>2, ZenonT(40) DEF Return, Filed
<1> QED
  BY <1>1, <1>2, <1>3, <1>4, <1>5, <1>6 DEF NotifierNext, Serve

\* A verdict sent to a client is the stored one.
LEMMA AnswerStep ==
  ASSUME NotifierTypeOK, VerdictsAgree, AnswerIsTheVerdict, NotifierNext
  PROVE  AnswerIsTheVerdict'
<1> USE DEF Verdicts, RowStatuses
<1>1. CASE Environment
  <2>1. /\ \A s \in Submissions : rows[s] \in Verdicts => rows'[s] = rows[s]
        /\ UNCHANGED <<answer, watch>>
    BY <1>1, FinishedRowIsFinal DEF Environment, clientVars
  <2>2. \A c \in Listeners : watch[c] \in Submissions
    BY DEF NotifierTypeOK
  <2> QED
    BY <2>1, <2>2 DEF AnswerIsTheVerdict
<1>2. ASSUME NEW s \in Submissions, Publish(s) \/ InvokeCallback(s)
      PROVE  AnswerIsTheVerdict'
  BY <1>2 DEF Publish, InvokeCallback, Lifecycle!Announce, AnswerIsTheVerdict, clientVars,
              lifeVars
<1>3. ASSUME NEW c \in Listeners, Serve(c)
      PROVE  AnswerIsTheVerdict'
  <2>1. UNCHANGED <<rows, watch>>
    BY <1>3 DEF Serve, Fetch, Recheck, Subscribe, StopWaiting, Return, lifeVars
  <2>2. \/ UNCHANGED answer
        \/ \E a \in {"error", "timeout", rows[watch[c]], seen[c], fired[c]} :
             answer' = [answer EXCEPT ![c] = a]
    BY <1>3 DEF Serve, Fetch, Recheck, Subscribe, StopWaiting, Return, Answer
  <2>3. \A a \in {"error", "timeout", rows[watch[c]], seen[c], fired[c]} :
          a \in Verdicts => a = rows[watch[c]]
    BY DEF VerdictsAgree
  <2>4. \A d \in Listeners :
          \/ answer'[d] = answer[d]
          \/ d = c /\ answer'[d] \in {"error", "timeout", rows[watch[c]], seen[c], fired[c]}
    BY <2>2 DEF NotifierTypeOK
  <2> QED
    BY <2>1, <2>3, <2>4 DEF AnswerIsTheVerdict
<1> QED
  BY <1>1, <1>2, <1>3 DEF NotifierNext

\* Where nobody arrives or leaves and no vector grows, no entry leaks.
LEMMA QuietLeaksNothing ==
  ASSUME NoEntryLeaks, UNCHANGED subs, \A s \in Submissions : Attached(s)' = Attached(s)
  PROVE  NoEntryLeaks'
BY DEF NoEntryLeaks

\* Every callback in the map is paid for by a request that is still attached.
LEMMA LeakStep ==
  ASSUME Counting, NotifierTypeOK, NoEntryLeaks, NotifierNext
  PROVE  NoEntryLeaks'
<1>0. UNCHANGED watch
  BY ZenonT(40) DEF NotifierNext, Environment, Publish, InvokeCallback, Serve, Fetch, Recheck, Subscribe,
         StopWaiting, Return, clientVars
<1>a. \A s \in Submissions : Len(subs[s]) \in Nat /\ Cardinality(Attached(s)) \in Nat
  <2> TAKE s \in Submissions
  <2>1. subs[s] \in Seq(Listeners)
    BY DEF NotifierTypeOK
  <2> QED
    BY <2>1, AttachedCounts
<1>1. CASE Environment
  BY <1>1, QuietLeaksNothing DEF Environment, hubVars, clientVars, Attached
<1>2. ASSUME NEW s \in Submissions, Publish(s)
      PROVE  NoEntryLeaks'
  <2>1. Len(<< >>) = 0
    OBVIOUS
  <2>2. \A u \in Submissions : Attached(u)' = Attached(u)
    BY <1>2 DEF Publish, clientVars, Attached
  <2>3. \A u \in Submissions : subs'[u] = subs[u] \/ subs'[u] = << >>
    BY <1>2 DEF Publish, Snapshot, NotifierTypeOK
  <2> QED
    BY <1>a, <2>1, <2>2, <2>3 DEF NoEntryLeaks
<1>3. ASSUME NEW s \in Submissions, InvokeCallback(s)
      PROVE  NoEntryLeaks'
  BY <1>3, QuietLeaksNothing DEF InvokeCallback, Attached
<1>4. ASSUME NEW c \in Listeners, Fetch(c) \/ Recheck(c) \/ StopWaiting(c)
      PROVE  NoEntryLeaks'
  <2>1. \A s \in Submissions : Attached(s)' = Attached(s)
    BY <1>4 DEF Fetch, Recheck, StopWaiting, Answer, NotifierTypeOK, Attached
  <2> QED
    BY <1>4, <2>1, QuietLeaksNothing DEF Fetch, Recheck, StopWaiting, hubVars
<1>5. ASSUME NEW c \in Listeners, Subscribe(c)
      PROVE  NoEntryLeaks'
  <2>0. subs[watch[c]] \in Seq(Listeners) /\ watch[c] \in Submissions
    BY DEF NotifierTypeOK
  <2>1. CASE seen[c] \in Verdicts
    <3>1. \A s \in Submissions : Attached(s)' = Attached(s)
      BY <1>5, <2>1 DEF Subscribe, Answer, NotifierTypeOK, Attached
    <3> QED
      BY <1>5, <2>1, <3>1, QuietLeaksNothing, ZenonT(40) DEF Subscribe
  <2>2. CASE seen[c] \notin Verdicts
    <3>0. PICK s \in Submissions : s = watch[c]
      BY <2>0
    <3>1. /\ Attached(s)' = Attached(s) \cup {c} /\ c \notin Attached(s)
          /\ \A u \in Submissions \ {s} : Attached(u)' = Attached(u)
      BY <1>5, <2>2, <3>0 DEF Subscribe, NotifierTypeOK, Attached
    <3>2. Cardinality(Attached(s)') = Cardinality(Attached(s)) + 1
      <4>1. IsFiniteSet(Attached(s))
        BY AttachedCounts
      <4> QED
        BY <3>1, <4>1, ZenonT(40) DEF Counting
    <3>3. Len(Append(subs[s], c)) = Len(subs[s]) + 1
      BY <2>0, <3>0, Appending
    <3>4. /\ subs'[s] = Append(subs[s], c)
          /\ \A u \in Submissions \ {s} : subs'[u] = subs[u]
      BY <1>5, <2>2, <3>0 DEF Subscribe, NotifierTypeOK
    <3>5. Len(subs'[s]) <= Cardinality(Attached(s)')
      BY <1>a, <3>2, <3>3, <3>4 DEF NoEntryLeaks
    <3> QED
      BY <3>1, <3>4, <3>5, ZenonT(40) DEF NoEntryLeaks
  <2> QED
    BY <2>1, <2>2
<1>6. ASSUME NEW c \in Listeners, Return(c)
      PROVE  NoEntryLeaks'
  <2>0. subs[watch[c]] \in Seq(Listeners) /\ watch[c] \in Submissions
    BY DEF NotifierTypeOK
  <2>1. PICK s \in Submissions : s = watch[c]
    BY <2>0
  <2>2. /\ Attached(s)' = Attached(s) \ {c} /\ c \in Attached(s)
        /\ \A u \in Submissions \ {s} : Attached(u)' = Attached(u)
    BY <1>6, <2>1 DEF Return, Answer, NotifierTypeOK, Attached
  <2>3. /\ Cardinality(Attached(s)') = Cardinality(Attached(s)) - 1
        /\ Cardinality(Attached(s)) # 0
    <3>1. IsFiniteSet(Attached(s)) /\ Cardinality(Attached(s)) \in Nat
      BY AttachedCounts
    <3>2. Cardinality(Attached(s)') = Cardinality(Attached(s)) - 1
      BY <2>2, <3>1, ZenonT(40) DEF Counting
    <3>3. Attached(s)' \in SUBSET Attached(s)
      BY <2>2
    <3>4. IsFiniteSet(Attached(s)')
      BY <3>1, <3>3, ZenonT(40) DEF Counting
    <3>5. Cardinality(Attached(s)') \in Nat
      BY <3>4, ZenonT(40) DEF Counting
    <3> QED
      BY <3>1, <3>2, <3>5
  <2>4. Len(DropOne(subs[s])) = Len(subs[s]) - 1 \/ Len(DropOne(subs[s])) = 0
    <3>1. CASE subs[s] = << >>
      <4>1. Len(<< >>) = 0
        OBVIOUS
      <4>2. DropOne(subs[s]) = << >>
        BY <2>0, <2>1, <3>1, DropIsSeq, ZenonT(40)
      <4> QED
        BY <4>1, <4>2
    <3>2. CASE subs[s] # << >>
      BY <2>0, <2>1, <3>2, DropIsSeq
    <3> QED
      BY <3>1, <3>2
  <2>5. /\ subs'[s] = DropOne(subs[s])
        /\ \A u \in Submissions \ {s} : subs'[u] = subs[u]
    BY <1>6, <2>1 DEF Return, NotifierTypeOK
  <2>6. Len(subs'[s]) <= Cardinality(Attached(s)')
    BY <1>a, <2>3, <2>4, <2>5 DEF NoEntryLeaks
  <2> QED
    BY <2>2, <2>5, <2>6, ZenonT(40) DEF NoEntryLeaks
<1> QED
  BY <1>1, <1>2, <1>3, <1>4, <1>5, <1>6 DEF NotifierNext, Serve

-----------------------------------------------------------------------------
\* Before the first request NotifierIInv holds.
LEMMA InitIInv == Counting /\ NotifierInit => NotifierIInv
<1> SUFFICES ASSUME Counting, NotifierInit PROVE NotifierIInv
  OBVIOUS
<1>1. << >> \in Seq(Listeners) /\ Len(<< >>) = 0
  OBVIOUS
<1>2. NotifierTypeOK
  BY <1>1, ZenonT(40) DEF NotifierInit, Lifecycle!LifeInit, NotifierTypeOK, RowStatuses, ClientPCs
<1>3. VerdictsAgree /\ AnswerIsTheVerdict
  BY DEF NotifierInit, Lifecycle!LifeInit, VerdictsAgree, AnswerIsTheVerdict, Verdicts
<1>4. Filed
  BY <1>1 DEF NotifierInit, Filed
<1>5. NoEntryLeaks
  BY <1>1, AttachedCounts DEF NotifierInit, NoEntryLeaks
<1> QED
  BY <1>2, <1>3, <1>4, <1>5 DEF NotifierIInv

\* Every step preserves NotifierIInv.
LEMMA NextIInv == Counting /\ NotifierIInv /\ [NotifierNext]_notifierVars => NotifierIInv'
<1> SUFFICES ASSUME Counting, NotifierIInv, [NotifierNext]_notifierVars PROVE NotifierIInv'
  OBVIOUS
<1>1. CASE NotifierNext
  BY <1>1, TypeStep, VerdictStep, FiledStep, AnswerStep, LeakStep DEF NotifierIInv
<1>2. CASE UNCHANGED notifierVars
  BY <1>2, ZenonT(40) DEF notifierVars, lifeVars, hubVars, clientVars, NotifierIInv,
              NotifierTypeOK, VerdictsAgree, Filed, AnswerIsTheVerdict, NoEntryLeaks, Attached
<1> QED
  BY <1>1, <1>2

-----------------------------------------------------------------------------
INSTANCE FiniteSetTheorems

LEMMA CountingHolds == Counting
<1>1. IsFiniteSet({}) /\ Cardinality({}) = 0
    BY FS_EmptySet
<1>2. ASSUME NEW n \in Nat
      PROVE  IsFiniteSet(1 .. n)
    BY FS_Interval
<1>3. ASSUME NEW S, IsFiniteSet(S)
      PROVE  Cardinality(S) \in Nat
    BY <1>3, FS_CardinalityType
<1>4. ASSUME NEW S, NEW T \in SUBSET S, IsFiniteSet(S)
      PROVE  IsFiniteSet(T) /\ Cardinality(T) <= Cardinality(S)
    BY <1>4, FS_Subset
<1>5. ASSUME NEW S, NEW x, IsFiniteSet(S), x \notin S
      PROVE  IsFiniteSet(S \cup {x}) /\ Cardinality(S \cup {x}) = Cardinality(S) + 1
    BY <1>5, FS_AddElement
<1>6. ASSUME NEW S, NEW x \in S, IsFiniteSet(S)
      PROVE  Cardinality(S \ {x}) = Cardinality(S) - 1
    BY <1>6, FS_RemoveElement
<1>7. QED
    BY <1>1, <1>2, <1>3, <1>4, <1>5, <1>6, ZenonT(40) DEF Counting

-----------------------------------------------------------------------------
(***************************************************************************)
(* For every number of threads and tokens, every lifetime and every size   *)
(* of the store: rotate_token_pair mints no more pairs for one token than  *)
(* the server has threads, unless the token was evicted from a full store. *)
(***************************************************************************)
THEOREM ExchangesHold == TokensSpec => []ExchangesBounded
<1>1. TokenStart => ExchangeInv
    BY DEF TokenStart, TokensInit, ExchangeInv
<1>2. ExchangeInv => ExchangesBounded
    <2> SUFFICES ASSUME ExchangeInv, NEW j \in DOMAIN tokens, j \notin forgotten
                 PROVE  ~(Cardinality(Exchanges(j)) > Cardinality(Clients))
        BY DEF ExchangesBounded, Exchanges
    <2>1. Cardinality(Exchanges(j)) <= Cardinality(Clients) /\ minted \in Seq(DOMAIN tokens)
        BY DEF ExchangeInv
    <2>2. Cardinality(Exchanges(j)) \in Nat /\ Cardinality(Clients) \in Nat
        BY <2>1, CountingHolds, ExchangesFinite, ClientSets
    <2>3. QED
        BY <2>1, <2>2
<1>3. TokensSpec => TokenStart /\ [][TokensNext]_tokenStep
    BY DEF TokensSpec, TokenStart, tokenStep
<1>4. QED
    BY <1>1, <1>2, <1>3, StartHolds, TokensInductive, ExchangesStep, CountingHolds, PTL

-----------------------------------------------------------------------------
\* NotifierIInv is an invariant of the notifier and its clients.
THEOREM NotifierInvariant == NotifierSpec => []NotifierIInv
BY CountingHolds, InitIInv, NextIInv, PTL DEF NotifierSpec

\* No SSE client is ever sent a verdict that is not the stored one.
THEOREM AnswersAgree == NotifierSpec => []AnswerIsTheVerdict
BY NotifierInvariant, PTL DEF NotifierIInv

\* The subscription map holds no more entries than there are waiting requests.
THEOREM EntriesPaidFor == NotifierSpec => []NoEntryLeaks
BY NotifierInvariant, PTL DEF NotifierIInv
=============================================================================
