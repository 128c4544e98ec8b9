----------------------------- MODULE RunProofs ------------------------------
(***************************************************************************)
(* Proofs about what a request for a sample run meets: the rate limiter    *)
(* (RateLimiter), for every capacity, window, clock and number of clients, *)
(* and the runner of samples (SampleRunner), for any number of threads,    *)
(* permits and clock ticks and wherever Docker or the file system fails.   *)
(***************************************************************************)
EXTENDS RateLimiter, SampleRunner, FiniteCounts, TLAPS

USE SMTT(40), ZenonT(40)

-----------------------------------------------------------------------------
(***************************************************************************)
(* The token buckets keep their rate and their promise for every capacity, *)
(* window, clock and number of clients.                                    *)
(*                                                                         *)
(* The argument is a balance.  What a client was granted since its i-th    *)
(* grant, with what is left in its bucket, is covered by a full bucket and *)
(* by the time from that grant to the last refill.  A grant may lie after  *)
(* the last refill, by less than a millisecond; then the bucket is at      *)
(* least one token short of full, and that token pays for the part of the  *)
(* millisecond that the next refill counts twice.                          *)
(***************************************************************************)
Spent(k, i) == (Len(granted[k]) - i + 1) * WindowMs

RateTypeOK ==
    /\ now \in Nat
    /\ DOMAIN buckets \subseteq Keys
    /\ buckets \in [DOMAIN buckets -> [tokens : Nat, last_refill : Nat]]
    /\ granted \in [Keys -> Seq(Nat)]
    /\ hint \in [Keys -> Nat]

(***************************************************************************)
(* consume() takes a token or leaves less than one, so no stored bucket is *)
(* full.                                                                   *)
(***************************************************************************)
Short ==
    \A k \in DOMAIN buckets :
        /\ buckets[k].last_refill <= now
        /\ buckets[k].tokens < WindowMs \/ buckets[k].tokens + WindowMs <= Full

Covered(b, spent, g) ==
    /\ g <= b.last_refill =>
         spent * Ms + b.tokens * Ms <= Full * Ms + (b.last_refill - g) * Capacity
    /\ g > b.last_refill =>
         /\ g < b.last_refill + Ms
         /\ spent * Ms + b.tokens * Ms + WindowMs * Ms <= Full * Ms

Balanced(b, k, i) ==
    granted[k][i] <= now /\ Covered(b, Spent(k, i), granted[k][i])

Balance ==
    \A k \in Keys :
        /\ k \in DOMAIN buckets => \A i \in DOMAIN granted[k] : Balanced(buckets[k], k, i)
        /\ k \notin DOMAIN buckets => granted[k] = <<>>

(***************************************************************************)
(* A refused client has a bucket that whole milliseconds, as many as pass  *)
(* until one after its hint, fill up to a token.                           *)
(***************************************************************************)
Hinted ==
    \A k \in DOMAIN buckets :
        hint[k] > 0 => \E n \in Nat :
            /\ buckets[k].last_refill + n * Ms <= hint[k] + Ms
            /\ buckets[k].tokens + n * Capacity >= WindowMs

RateInv == RateTypeOK /\ Short /\ Balance /\ Hinted /\ RateBounded

-----------------------------------------------------------------------------
(***************************************************************************)
(* Arithmetic.                                                             *)
(***************************************************************************)
LEMMA MaxOfTwo ==
    ASSUME NEW a \in Int, NEW b \in Int
    PROVE  Max({a, b}) \in {a, b} /\ Max({a, b}) >= a /\ Max({a, b}) >= b
<1>1. \E x \in {a, b} : \A y \in {a, b} : x >= y
    OBVIOUS
<1>2. QED
    BY <1>1 DEF Max

LEMMA RateDivision ==
    ASSUME NEW x \in Nat, NEW d \in Nat \ {0}
    PROVE  x \div d \in Nat /\ (x \div d) * d <= x /\ x < (x \div d) * d + d
    OBVIOUS

LEMMA Product ==
    ASSUME NEW x \in Nat, NEW y \in Nat
    PROVE  x * y \in Nat
    OBVIOUS

LEMMA GrantsOrdered ==
    ASSUME NEW x \in Nat, NEW y \in Nat, NEW z \in Nat, x <= y
    PROVE  x * z <= y * z
<1>1. PICK d \in Nat : y = x + d
    BY y - x \in Nat
<1>2. y * z = x * z + d * z
    BY <1>1
<1>3. d * z >= 0
    BY Product
<1>4. QED
    BY <1>2, <1>3, x * z \in Int, d * z \in Int

(***************************************************************************)
(* A refill of e milliseconds, seen from a grant before and from one after *)
(* the last refill.  spent and full are in ticks times parts.              *)
(***************************************************************************)
LEMMA RefillBefore ==
    ASSUME NEW spent \in Nat, NEW full \in Nat, NEW t \in Nat, NEW u \in Nat, NEW g \in Nat,
           NEW r \in Nat, NEW s \in Nat, NEW e \in Nat, NEW C \in Nat, NEW M \in Nat,
           g <= r, r + e * M <= s, u <= t + e * C,
           spent + t * M <= full + (r - g) * C
    PROVE  spent + u * M <= full + (s - g) * C
<1>0. e * M \in Nat /\ e * C \in Nat
    BY Product
<1>1. u * M <= (t + e * C) * M
    BY <1>0, GrantsOrdered
<1>2. (t + e * C) * M = t * M + (e * M) * C
    BY <1>0
<1>3. ((r - g) + e * M) * C <= (s - g) * C
    BY <1>0, GrantsOrdered, r - g \in Nat, s - g \in Nat
<1>4. ((r - g) + e * M) * C = (r - g) * C + (e * M) * C
    BY <1>0
<1>5. /\ u * M \in Int /\ t * M \in Int /\ (e * M) * C \in Int
      /\ (r - g) * C \in Int /\ (s - g) * C \in Int
    BY <1>0
<1>6. QED
    BY <1>1, <1>2, <1>3, <1>4, <1>5

LEMMA RefillAfter ==
    ASSUME NEW spent \in Nat, NEW full \in Nat, NEW t \in Nat, NEW u \in Nat, NEW g \in Nat,
           NEW r \in Nat, NEW s \in Nat, NEW e \in Nat, NEW C \in Nat, NEW M \in Nat, NEW W \in Nat,
           r < g, g < r + M, g <= s, r + e * M <= s, u <= t + e * C, C <= W,
           spent + t * M + W * M <= full
    PROVE  spent + u * M <= full + (s - g) * C
<1>0. e * M \in Nat /\ e * C \in Nat /\ s - g \in Nat /\ g - r \in Nat /\ s - r \in Nat
    BY Product
<1>1. u * M <= (t + e * C) * M
    BY <1>0, GrantsOrdered
<1>2. (t + e * C) * M = t * M + (e * M) * C
    BY <1>0
<1>3. (e * M) * C <= (s - r) * C
    BY <1>0, GrantsOrdered
<1>4. (s - r) * C = (s - g) * C + (g - r) * C
    BY <1>0
<1>5. (g - r) * C <= M * C
    BY <1>0, GrantsOrdered
<1>6. M * C <= W * M
    BY GrantsOrdered, M * C = C * M
<1>7. /\ u * M \in Int /\ t * M \in Int /\ (e * M) * C \in Int /\ W * M \in Int /\ M * C \in Int
      /\ (g - r) * C \in Int /\ (s - g) * C \in Int
    BY <1>0
<1>8. QED
    BY <1>1, <1>2, <1>3, <1>4, <1>5, <1>6, <1>7

LEMMA FullHoldsOne ==
    Full \in Nat /\ WindowMs \in Nat /\ WindowMs > 0 /\ WindowMs <= Full /\ Ms \in Nat /\ Ms > 0
<1>1. Capacity \in Nat /\ 1 <= Capacity /\ WindowMs \in Nat /\ WindowMs > 0 /\ Ms \in Nat /\ Ms > 0
    BY RateAssumption
<1>2. 1 * WindowMs <= Capacity * WindowMs
    BY <1>1, GrantsOrdered
<1>3. QED
    BY <1>1, <1>2, Product DEF Full

-----------------------------------------------------------------------------
(***************************************************************************)
(* The bucket that consume() works on.                                     *)
(***************************************************************************)
Ready(b) ==
    /\ b \in [tokens : Nat, last_refill : Nat]
    /\ b.tokens <= Full
    /\ b.last_refill <= now /\ now < b.last_refill + Ms
    /\ b.tokens < WindowMs \/ b.tokens + WindowMs <= Full \/ b.last_refill = now

LEMMA SpentIsNat ==
    ASSUME RateTypeOK, NEW k \in Keys, NEW i \in DOMAIN granted[k]
    PROVE  Spent(k, i) \in Nat /\ Spent(k, i) * Ms \in Nat
<1>1. Len(granted[k]) - i + 1 \in Nat
    BY DEF RateTypeOK
<1>2. Spent(k, i) \in Nat
    BY <1>1, Product, FullHoldsOne DEF Spent
<1>3. QED
    BY <1>2, Product, FullHoldsOne

LEMMA RefilledIsReady ==
    ASSUME RateTypeOK, Short, NEW k \in DOMAIN buckets
    PROVE  /\ Ready(Refilled(buckets[k]))
           /\ \A i \in DOMAIN granted[k] :
                Balanced(buckets[k], k, i) => Balanced(Refilled(buckets[k]), k, i)
<1> DEFINE b == buckets[k]
           e == ElapsedMs(b)
           s == now - b.last_refill
<1>1. /\ now \in Nat /\ b.last_refill \in Nat /\ b.tokens \in Nat /\ b.last_refill <= now
      /\ b.tokens < WindowMs \/ b.tokens + WindowMs <= Full
      /\ b \in [tokens : Nat, last_refill : Nat] /\ k \in Keys
    BY DEF RateTypeOK, Short
<1>2. s \in Nat
    BY <1>1
<1>3. e \in Nat /\ e * Ms <= s /\ s < e * Ms + Ms
    <2>1. Ms \in Nat \ {0}
        BY FullHoldsOne
    <2>2. s \div Ms \in Nat /\ (s \div Ms) * Ms <= s /\ s < (s \div Ms) * Ms + Ms
        <3> HIDE DEF s
        <3> QED BY <1>2, <2>1, RateDivision
    <2>3. QED
        BY <2>2 DEF ElapsedMs
<1>4. e * Ms \in Nat /\ e * Capacity \in Nat
    BY <1>3, Product, FullHoldsOne, RateAssumption
<1>5. CASE e > 0
    <2> DEFINE u == Least(Full, b.tokens + e * Capacity)
    <2>1. Refilled(b) = [tokens |-> u, last_refill |-> now]
        BY <1>5 DEF Refilled
    <2>2. u \in Nat /\ u <= Full /\ u <= b.tokens + e * Capacity
        BY <1>1, <1>4, FullHoldsOne DEF Least
    <2>3. Ready(Refilled(b))
        BY <1>1, <2>1, <2>2, FullHoldsOne DEF Ready
    <2>4. ASSUME NEW i \in DOMAIN granted[k], Balanced(b, k, i)
          PROVE  Balanced(Refilled(b), k, i)
        <3> DEFINE g == granted[k][i]
        <3>1. g \in Nat /\ g <= now
            BY <2>4, <1>1 DEF RateTypeOK, Balanced
        <3>2. Spent(k, i) * Ms \in Nat /\ Full * Ms \in Nat
            BY <1>1, SpentIsNat, FullHoldsOne, Product
        <3>3. b.last_refill + e * Ms <= now
            BY <1>1, <1>3, <1>4
        <3>4. Spent(k, i) * Ms + u * Ms <= Full * Ms + (now - g) * Capacity
            <4>1. CASE g <= b.last_refill
                <5>1. Spent(k, i) * Ms + b.tokens * Ms
                        <= Full * Ms + (b.last_refill - g) * Capacity
                    BY <4>1, <2>4 DEF Balanced, Covered
                <5>2. QED
                    BY <1>1, <1>3, <2>2, <3>1, <3>2, <3>3, <4>1, <5>1, RefillBefore,
                       FullHoldsOne, RateAssumption
            <4>2. CASE b.last_refill < g
                <5>1. /\ g < b.last_refill + Ms
                      /\ Spent(k, i) * Ms + b.tokens * Ms + WindowMs * Ms <= Full * Ms
                    BY <4>2, <2>4, <1>1, <3>1 DEF Balanced, Covered
                <5>2. QED
                    BY <1>1, <1>3, <2>2, <3>1, <3>2, <3>3, <4>2, <5>1, RefillAfter,
                       FullHoldsOne, RateAssumption, QuotaAssumption
            <4>3. QED
                BY <4>1, <4>2, <1>1, <3>1
        <3>5. QED
            BY <2>1, <3>1, <3>4, <1>1 DEF Balanced, Covered
    <2>5. QED
        BY <2>3, <2>4
<1>6. CASE ~(e > 0)
    <2>1. Refilled(b) = b /\ e = 0
        BY <1>6, <1>3 DEF Refilled
    <2>2. s < Ms
        BY <1>2, <1>3, <2>1, FullHoldsOne
    <2>3. Ready(b)
        BY <1>1, <2>2, FullHoldsOne DEF Ready
    <2>4. QED
        BY <2>1, <2>3
<1>7. QED
    BY <1>5, <1>6

LEMMA BucketIsReady ==
    ASSUME RateTypeOK, Short, Balance, NEW k \in Keys, NEW kept \in SUBSET DOMAIN buckets
    PROVE  /\ Ready(BucketOf(k, kept))
           /\ k \in kept => \A i \in DOMAIN granted[k] : Balanced(BucketOf(k, kept), k, i)
<1>1. CASE k \in kept
    BY <1>1, RefilledIsReady DEF BucketOf, Balance
<1>2. CASE k \notin kept
    <2>1. BucketOf(k, kept) = [tokens |-> Full, last_refill |-> now]
        BY <1>2 DEF BucketOf
    <2>2. Ready(BucketOf(k, kept))
        BY <2>1, FullHoldsOne DEF Ready, RateTypeOK
    <2>3. QED
        BY <1>2, <2>2
<1>3. QED
    BY <1>1, <1>2

(***************************************************************************)
(* No stored bucket is full, so prune_if_needed_locked finds none to drop  *)
(* in its first pass.                                                      *)
(***************************************************************************)
LEMMA NoneIsFull ==
    ASSUME RateTypeOK, Short
    PROVE  NotFull = DOMAIN buckets
<1>1. ASSUME NEW k \in DOMAIN buckets
      PROVE  buckets[k].tokens < Full
    <2>1. buckets[k].tokens \in Nat
        BY DEF RateTypeOK
    <2>2. QED
        BY <2>1, FullHoldsOne DEF Short
<1>2. QED
    BY <1>1 DEF NotFull

(***************************************************************************)
(* Retry-After in parts: with one millisecond more it pays for the token.  *)
(***************************************************************************)
LEMMA RetryPays ==
    ASSUME NEW t \in Nat, t < WindowMs
    PROVE  /\ RetryAfter(t) \in Nat /\ RetryAfter(t) > 0
           /\ t + (RetryAfter(t) * SecondMs + 1) * Capacity >= WindowMs
<1> DEFINE x == WindowMs - t + Capacity * (SecondMs - 1)
           d == Capacity * SecondMs
           R == RetryAfter(t)
<1>1. /\ Capacity \in Nat /\ Capacity > 0 /\ SecondMs \in Nat /\ SecondMs > 0
      /\ SecondMs - 1 \in Nat /\ WindowMs \in Nat /\ WindowMs - t \in Nat
    BY RateAssumption
<1>2. Capacity * (SecondMs - 1) = d - Capacity /\ d \in Nat
    BY <1>1, Product
<1>3. Capacity * 1 <= SecondMs * Capacity
    BY <1>1, GrantsOrdered
<1>4. d \in Nat \ {0} /\ x \in Nat /\ x = WindowMs - t + d - Capacity
    <2>1. d >= Capacity
        BY <1>1, <1>2, <1>3
    <2>2. QED
        BY <1>1, <1>2, <2>1
<1>5. x \div d \in Nat /\ x < (x \div d) * d + d
    <2> HIDE DEF x, d
    <2> QED BY <1>4, RateDivision
<1>6. R = Max({1, x \div d})
    BY DEF RetryAfter
<1>7. R \in Nat /\ R > 0 /\ R >= x \div d
    <2> HIDE DEF x, d, R
    <2>1. PICK q \in Nat : q = x \div d
        BY <1>5
    <2>2. R = Max({1, q})
        BY <1>6, <2>1
    <2>3. R \in {1, q} /\ R >= 1 /\ R >= q
        BY <2>2, MaxOfTwo
    <2> QED BY <2>1, <2>3
<1>8. (x \div d) * d <= R * d
    <2> HIDE DEF x, d, R
    <2> QED BY <1>4, <1>5, <1>7, GrantsOrdered
<1>9. (R * SecondMs + 1) * Capacity = R * d + Capacity
    <2> HIDE DEF R
    <2> QED BY <1>1, <1>7
<1>10. QED
    <2>1. R * d \in Int /\ (x \div d) * d \in Int
        <3> HIDE DEF x, d, R
        <3> QED BY <1>4, <1>5, <1>7
    <2>2. x < R * d + d
        <3> HIDE DEF x, d, R
        <3> QED BY <1>4, <1>5, <1>8, <2>1
    <2>3. WindowMs - t < R * d + Capacity
        <3> HIDE DEF x, d, R
        <3> QED BY <1>1, <1>4, <2>1, <2>2
    <2>4. t + (R * d + Capacity) >= WindowMs
        <3> HIDE DEF d, R
        <3> QED BY <1>1, <2>1, <2>3
    <2>5. QED
        BY <1>7, <1>9, <2>4

-----------------------------------------------------------------------------
(***************************************************************************)
(* What a grant does to the balance: the token it takes out of the bucket  *)
(* is the token it adds to what was granted.                               *)
(***************************************************************************)
LEMMA GrantCovers ==
    ASSUME NEW b \in [tokens : Nat, last_refill : Nat], NEW spent \in Nat, NEW g \in Nat,
           b.tokens >= WindowMs, Covered(b, spent, g)
    PROVE  Covered([b EXCEPT !.tokens = @ - WindowMs], spent + WindowMs, g)
<1>1. /\ b.tokens \in Nat /\ b.last_refill \in Nat /\ b.tokens - WindowMs \in Nat
      /\ WindowMs \in Nat /\ Ms \in Nat
    BY FullHoldsOne
<1>2. (spent + WindowMs) * Ms + (b.tokens - WindowMs) * Ms = spent * Ms + b.tokens * Ms
    BY <1>1
<1>3. /\ [b EXCEPT !.tokens = @ - WindowMs].tokens = b.tokens - WindowMs
      /\ [b EXCEPT !.tokens = @ - WindowMs].last_refill = b.last_refill
    OBVIOUS
<1>4. QED
    BY <1>2, <1>3 DEF Covered

LEMMA NewGrantCovers ==
    ASSUME now \in Nat, NEW b, Ready(b), b.tokens >= WindowMs
    PROVE  Covered([b EXCEPT !.tokens = @ - WindowMs], WindowMs, now)
<1>1. /\ b.tokens \in Nat /\ b.last_refill \in Nat /\ b.tokens - WindowMs \in Nat
      /\ WindowMs \in Nat /\ Ms \in Nat /\ Full \in Nat /\ Capacity \in Nat
    BY FullHoldsOne, RateAssumption DEF Ready
<1>2. WindowMs * Ms + (b.tokens - WindowMs) * Ms = b.tokens * Ms
    BY <1>1
<1>3. /\ [b EXCEPT !.tokens = @ - WindowMs].tokens = b.tokens - WindowMs
      /\ [b EXCEPT !.tokens = @ - WindowMs].last_refill = b.last_refill
    BY DEF Ready
<1>4. CASE b.last_refill = now
    <2>1. b.tokens * Ms <= Full * Ms
        BY <1>1, GrantsOrdered DEF Ready
    <2>2. (now - now) * Capacity = 0 /\ Full * Ms \in Int
        BY <1>1
    <2>3. QED
        BY <1>2, <1>3, <1>4, <2>1, <2>2 DEF Covered
<1>5. CASE b.last_refill # now
    <2>1. b.last_refill < now /\ now < b.last_refill + Ms /\ b.tokens + WindowMs <= Full
        BY <1>1, <1>5 DEF Ready
    <2>2. (b.tokens + WindowMs) * Ms <= Full * Ms
        BY <1>1, <2>1, GrantsOrdered
    <2>3. (b.tokens + WindowMs) * Ms = b.tokens * Ms + WindowMs * Ms
        BY <1>1
    <2>4. ~(now <= b.last_refill)
        BY <1>1, <2>1
    <2>5. QED
        BY <1>2, <1>3, <2>1, <2>2, <2>3, <2>4 DEF Covered
<1>6. QED
    BY <1>4, <1>5

LEMMA CoveredBounds ==
    ASSUME now \in Nat, NEW b \in [tokens : Nat, last_refill : Nat], NEW spent \in Nat,
           NEW g \in Nat, g <= now, b.last_refill <= now, Covered(b, spent, g)
    PROVE  spent * Ms <= Full * Ms + (now - g) * Capacity
<1>1. /\ b.tokens \in Nat /\ b.last_refill \in Nat /\ WindowMs \in Nat /\ Ms \in Nat
      /\ Full \in Nat /\ Capacity \in Nat
    BY FullHoldsOne, RateAssumption
<1>2. /\ spent * Ms \in Nat /\ b.tokens * Ms \in Nat /\ WindowMs * Ms \in Nat /\ Full * Ms \in Nat
      /\ now - g \in Nat /\ (now - g) * Capacity \in Nat
    BY <1>1, Product
<1>3. CASE g <= b.last_refill
    <2>1. b.last_refill - g \in Nat /\ (b.last_refill - g) * Capacity \in Nat
        BY <1>1, <1>3, Product
    <2>2. (b.last_refill - g) * Capacity <= (now - g) * Capacity
        BY <1>1, <1>2, <2>1, GrantsOrdered
    <2>3. spent * Ms + b.tokens * Ms <= Full * Ms + (b.last_refill - g) * Capacity
        BY <1>3 DEF Covered
    <2>4. QED
        BY <1>2, <2>1, <2>2, <2>3
<1>4. CASE g > b.last_refill
    <2>1. spent * Ms + b.tokens * Ms + WindowMs * Ms <= Full * Ms
        BY <1>4 DEF Covered
    <2>2. QED
        BY <1>2, <2>1
<1>5. QED
    BY <1>1, <1>3, <1>4

-----------------------------------------------------------------------------
(***************************************************************************)
(* A request of client k leaves its bucket as v, the times it was let in   *)
(* as G and its hint as h; every other client keeps what it had or, if its *)
(* bucket was dropped, starts afresh.                                      *)
(***************************************************************************)
Recorded(k, kept, G) ==
    [l \in Keys |-> IF l = k THEN G ELSE IF l \in kept THEN granted[l] ELSE <<>>]

Fits(v, G, h) ==
    /\ v \in [tokens : Nat, last_refill : Nat] /\ G \in Seq(Nat) /\ h \in Nat
    /\ v.last_refill <= now
    /\ v.tokens < WindowMs \/ v.tokens + WindowMs <= Full
    /\ \A i \in DOMAIN G : G[i] <= now /\ Covered(v, (Len(G) - i + 1) * WindowMs, G[i])
    /\ h > 0 => \E n \in Nat : /\ v.last_refill + n * Ms <= h + Ms
                               /\ v.tokens + n * Capacity >= WindowMs
    /\ \A i, j \in DOMAIN G :
           i <= j => (j - i + 1) * WindowMs * Ms <= Full * Ms + (G[j] - G[i]) * Capacity

LEMMA LimiterKeeps ==
    ASSUME RateInv, now' = now, NEW k \in Keys, NEW kept \in SUBSET DOMAIN buckets,
           NEW v, NEW G, NEW h, Fits(v, G, h),
           buckets' = Stored(k, kept, v),
           granted' = Recorded(k, kept, G),
           hint' = [hint EXCEPT ![k] = h]
    PROVE  RateInv'
<1> USE DEF RateInv, Fits, Recorded
<1>1. /\ DOMAIN buckets' = kept \cup {k} /\ kept \subseteq Keys
      /\ buckets'[k] = v /\ granted'[k] = G /\ hint'[k] = h
      /\ \A l \in kept : l # k => /\ buckets'[l] = buckets[l] /\ granted'[l] = granted[l]
                                  /\ hint'[l] = hint[l]
      /\ \A l \in Keys : l \notin kept /\ l # k => granted'[l] = <<>>
    BY DEF Stored, RateTypeOK
<1>2. RateTypeOK'
    <2>1. buckets' \in [DOMAIN buckets' -> [tokens : Nat, last_refill : Nat]]
        BY <1>1 DEF Stored, RateTypeOK
    <2>2. granted' \in [Keys -> Seq(Nat)] /\ hint' \in [Keys -> Nat]
        BY DEF RateTypeOK
    <2>3. QED
        BY <1>1, <2>1, <2>2 DEF RateTypeOK
<1>3. Short'
    BY <1>1, ZenonT(40) DEF Short
<1>4. Balance'
    <2>1. ASSUME NEW i \in DOMAIN granted'[k]
          PROVE  Balanced(buckets[k], k, i)'
        BY <1>1 DEF Balanced, Spent, Covered
    <2>2. ASSUME NEW l \in kept, l # k, NEW i \in DOMAIN granted'[l]
          PROVE  Balanced(buckets[l], l, i)'
        <3>1. Balanced(buckets[l], l, i)
            BY <1>1, <2>2 DEF Balance, RateTypeOK
        <3>2. QED
            BY <1>1, <2>2, <3>1, ZenonT(40) DEF Balanced, Spent, Covered
    <2>3. QED
        BY <1>1, <2>1, <2>2 DEF Balance
<1>5. Hinted'
    BY <1>1, ZenonT(40) DEF Hinted
<1>6. RateBounded'
    <2>1. ASSUME NEW l \in Keys, NEW i \in DOMAIN granted'[l], NEW j \in DOMAIN granted'[l], i <= j
          PROVE  (j - i + 1) * WindowMs * Ms
                     <= Full * Ms + (granted'[l][j] - granted'[l][i]) * Capacity
        <3>1. CASE l = k
            BY <1>1, <2>1, <3>1
        <3>2. CASE l # k /\ l \in kept
            BY <1>1, <2>1, <3>2 DEF RateBounded
        <3>3. CASE l # k /\ l \notin kept
            <4>1. DOMAIN granted'[l] = {}
                BY <1>1, <3>3
            <4>2. QED
                BY <2>1, <4>1
        <3>4. QED
            BY <3>1, <3>2, <3>3
    <2>2. QED
        BY <2>1 DEF RateBounded, Full
<1>7. QED
    BY <1>2, <1>3, <1>4, <1>5, <1>6

LEMMA ConsumeKeeps ==
    ASSUME RateInv, NEW k \in Keys, consume(k)
    PROVE  RateInv'
<1>1. RateTypeOK /\ Short /\ Balance /\ Hinted /\ RateBounded
    BY DEF RateInv
<1>2. NotFull = DOMAIN buckets
    BY <1>1, NoneIsFull
<1> DEFINE Past(kept) == [l \in Keys |-> IF l \in NotFull \ kept THEN <<>> ELSE granted[l]]
<1>3. PICK kept \in SUBSET DOMAIN buckets :
          /\ now' = now
          /\ \/ /\ BucketOf(k, kept).tokens >= WindowMs
                /\ buckets' = Stored(k, kept, [BucketOf(k, kept) EXCEPT !.tokens = @ - WindowMs])
                /\ granted' = [Past(kept) EXCEPT ![k] = Append(@, now)]
                /\ hint' = [hint EXCEPT ![k] = 0]
             \/ /\ ~(BucketOf(k, kept).tokens >= WindowMs)
                /\ buckets' = Stored(k, kept, BucketOf(k, kept))
                /\ granted' = Past(kept)
                /\ hint' = [hint EXCEPT
                     ![k] = now + RetryAfter(BucketOf(k, kept).tokens) * SecondMs * Ms]
    BY ZenonT(40) DEF consume
<1> DEFINE b == BucketOf(k, kept)
           P == IF k \in kept THEN granted[k] ELSE <<>>
<1>4. Past(kept) = [l \in Keys |-> IF l \in kept THEN granted[l] ELSE <<>>]
    BY <1>1, <1>2 DEF Balance
<1>5. /\ Ready(b) /\ b \in [tokens : Nat, last_refill : Nat] /\ b.last_refill <= now
      /\ b.tokens \in Nat /\ b.last_refill \in Nat
      /\ k \in kept => \A i \in DOMAIN granted[k] : Balanced(b, k, i)
    BY <1>1, BucketIsReady DEF Ready
<1>6. now \in Nat /\ P \in Seq(Nat)
    BY <1>1 DEF RateTypeOK
<1>7. ASSUME NEW i \in DOMAIN P
      PROVE  /\ P[i] \in Nat /\ P[i] <= now
             /\ (Len(P) - i + 1) * WindowMs \in Nat
             /\ Covered(b, (Len(P) - i + 1) * WindowMs, P[i])
    <2>1. k \in kept /\ P = granted[k] /\ i \in DOMAIN granted[k]
        BY <1>7
    <2>2. Balanced(b, k, i) /\ Spent(k, i) \in Nat
        BY <1>1, <1>5, <2>1, SpentIsNat
    <2>3. P[i] \in Nat
        BY <1>6, <1>7
    <2>4. QED
        BY <2>1, <2>2, <2>3 DEF Balanced, Spent
<1>8. \A i, j \in DOMAIN P :
          i <= j => (j - i + 1) * WindowMs * Ms <= Full * Ms + (P[j] - P[i]) * Capacity
    BY <1>1 DEF RateBounded
<1>9. CASE b.tokens >= WindowMs
    <2> DEFINE v == [b EXCEPT !.tokens = @ - WindowMs]
               G == Append(P, now)
    <2>1. /\ buckets' = Stored(k, kept, v) /\ hint' = [hint EXCEPT ![k] = 0]
          /\ granted' = Recorded(k, kept, G)
        BY <1>3, <1>4, <1>9, ZenonT(40) DEF Recorded
    <2>2. /\ v \in [tokens : Nat, last_refill : Nat] /\ v.last_refill = b.last_refill
          /\ v.tokens = b.tokens - WindowMs /\ v.tokens + WindowMs <= Full
        BY <1>5, <1>9, FullHoldsOne DEF Ready
    <2>3. /\ G \in Seq(Nat) /\ Len(G) = Len(P) + 1 /\ DOMAIN G = DOMAIN P \cup {Len(P) + 1}
          /\ G[Len(P) + 1] = now /\ \A i \in DOMAIN P : G[i] = P[i]
        BY <1>6
    <2>4. ASSUME NEW i \in DOMAIN G
          PROVE  /\ G[i] \in Nat /\ G[i] <= now /\ (Len(G) - i + 1) * WindowMs \in Nat
                 /\ Covered(v, (Len(G) - i + 1) * WindowMs, G[i])
        <3>1. CASE i \in DOMAIN P
            <4>1. (Len(G) - i + 1) * WindowMs = (Len(P) - i + 1) * WindowMs + WindowMs
                BY <1>6, <2>3, <3>1, FullHoldsOne
            <4>2. Covered(v, (Len(P) - i + 1) * WindowMs + WindowMs, P[i])
                BY <1>5, <1>7, <1>9, <3>1, GrantCovers
            <4>3. /\ P[i] \in Nat /\ P[i] <= now /\ G[i] = P[i]
                  /\ (Len(P) - i + 1) * WindowMs + WindowMs \in Nat
                <5>1. P[i] \in Nat /\ P[i] <= now /\ (Len(P) - i + 1) * WindowMs \in Nat
                    BY <1>7, <3>1
                <5>2. G[i] = P[i]
                    BY <2>3, <3>1
                <5>3. QED
                    <6> HIDE DEF G, P
                    <6> QED BY <5>1, <5>2, FullHoldsOne
            <4>4. QED
                <5> HIDE DEF v, G, P
                <5> QED BY <4>1, <4>2, <4>3
        <3>2. CASE i = Len(P) + 1
            <4>1. (Len(G) - i + 1) * WindowMs = WindowMs
                BY <1>6, <2>3, <3>2, FullHoldsOne
            <4>2. Covered(v, WindowMs, now)
                BY <1>5, <1>6, <1>9, NewGrantCovers
            <4>3. QED
                BY <1>6, <2>3, <3>2, <4>1, <4>2, FullHoldsOne
        <3>3. QED
            BY <2>3, <2>4, <3>1, <3>2
    <2>5. ASSUME NEW i \in DOMAIN G, NEW j \in DOMAIN G, i <= j
          PROVE  (j - i + 1) * WindowMs * Ms <= Full * Ms + (G[j] - G[i]) * Capacity
        <3>1. CASE j \in DOMAIN P
            <4>1. i \in DOMAIN P
                BY <1>6, <2>3, <2>5, <3>1
            <4>2. QED
                BY <1>8, <2>3, <2>5, <3>1, <4>1
        <3>2. CASE j = Len(P) + 1
            <4>1. (Len(G) - i + 1) * WindowMs * Ms <= Full * Ms + (now - G[i]) * Capacity
                BY <1>5, <1>6, <2>2, <2>4, CoveredBounds, ZenonT(40)
            <4>2. QED
                BY <2>3, <3>2, <4>1
        <3>3. QED
            BY <2>3, <2>5, <3>1, <3>2
    <2>6. QED
        <3> HIDE DEF v, G
        <3>1. Fits(v, G, 0)
            BY <1>5, <2>2, <2>3, <2>4, <2>5 DEF Fits
        <3>2. QED
            BY <1>3, <2>1, <3>1, LimiterKeeps, ZenonT(40)
<1>10. CASE ~(b.tokens >= WindowMs)
    <2> DEFINE R == RetryAfter(b.tokens)
               h == now + R * SecondMs * Ms
    <2>1. /\ buckets' = Stored(k, kept, b) /\ hint' = [hint EXCEPT ![k] = h]
          /\ granted' = Recorded(k, kept, P)
        BY <1>3, <1>4, <1>10 DEF Recorded
    <2>2. b.tokens < WindowMs
        BY <1>5, <1>10, FullHoldsOne
    <2>3. R \in Nat /\ b.tokens + (R * SecondMs + 1) * Capacity >= WindowMs
        BY <1>5, <2>2, RetryPays
    <2>4. R * SecondMs \in Nat /\ R * SecondMs * Ms \in Nat
        <3> HIDE DEF R
        <3> QED BY <2>3, Product, RateAssumption
    <2>5. (R * SecondMs + 1) * Ms = R * SecondMs * Ms + Ms
        <3> HIDE DEF R
        <3> QED BY <2>4, FullHoldsOne
    <2>6. h \in Nat /\ b.last_refill + (R * SecondMs + 1) * Ms <= h + Ms
        <3> HIDE DEF R, b
        <3> QED BY <1>5, <1>6, <2>4, <2>5, FullHoldsOne
    <2>7. \E n \in Nat : b.last_refill + n * Ms <= h + Ms /\ b.tokens + n * Capacity >= WindowMs
        <3> HIDE DEF R, b, h
        <3>1. R * SecondMs + 1 \in Nat
            BY <2>4
        <3>2. QED
            BY <2>3, <2>6, <3>1
    <2>8. QED
        <3> HIDE DEF b, P, R, h
        <3>1. Fits(b, P, h)
            BY <1>5, <1>6, <1>7, <1>8, <2>2, <2>6, <2>7 DEF Fits
        <3>2. QED
            BY <1>3, <2>1, <3>1, LimiterKeeps, ZenonT(40)
<1>11. QED
    BY <1>9, <1>10

-----------------------------------------------------------------------------
(***************************************************************************)
(* RateInv is inductive: time only moves away from what is balanced, and a *)
(* request keeps the balance.                                              *)
(***************************************************************************)
LEMMA LimiterBegins == RateInit => RateInv
    BY DEF RateInit, RateInv, RateTypeOK, Short, Balance, Hinted, RateBounded

LEMMA TickKeeps ==
    ASSUME RateInv, rate_tick
    PROVE  RateInv'
<1>1. /\ now \in Nat /\ now' = now + 1
      /\ buckets' = buckets /\ granted' = granted /\ hint' = hint
    BY DEF RateInv, RateTypeOK, rate_tick
<1>2. RateTypeOK' /\ Hinted' /\ RateBounded'
    BY <1>1 DEF RateInv, RateTypeOK, Hinted, RateBounded, Full
<1>3. Short'
    <2>1. \A k \in DOMAIN buckets : buckets[k].last_refill \in Nat
        BY DEF RateInv, RateTypeOK
    <2>2. QED
        BY <1>1, <2>1 DEF RateInv, Short
<1>4. Balance'
    <2>1. ASSUME NEW k \in DOMAIN buckets, NEW i \in DOMAIN granted[k]
          PROVE  Balanced(buckets[k], k, i)'
        <3>1. Balanced(buckets[k], k, i) /\ granted[k][i] \in Nat
            BY <2>1 DEF RateInv, Balance, RateTypeOK
        <3>2. granted[k][i] <= now + 1
            BY <1>1, <3>1 DEF Balanced
        <3>3. QED
            BY <1>1, <3>1, <3>2 DEF Balanced, Spent, Covered
    <2>2. QED
        BY <1>1, <2>1 DEF RateInv, Balance
<1>5. QED
    BY <1>2, <1>3, <1>4 DEF RateInv

LEMMA RateInductive == RateInv /\ [RateNext]_rateVars => RateInv'
<1> SUFFICES ASSUME RateInv, [RateNext]_rateVars
             PROVE  RateInv'
    OBVIOUS
<1>1. CASE rate_tick
    BY <1>1, TickKeeps
<1>2. ASSUME NEW k \in Keys, consume(k)
      PROVE  RateInv'
    BY <1>2, ConsumeKeeps
<1>3. CASE UNCHANGED rateVars
    BY <1>3 DEF rateVars, RateInv, RateTypeOK, Short, Balance, Balanced, Covered, Spent, Hinted,
                RateBounded, Full
<1>4. QED
    BY <1>1, <1>2, <1>3 DEF RateNext

LEMMA InvImpliesRetry == RateInv => RetryAfterSuffices
<1> SUFFICES ASSUME RateInv, NEW k \in Keys, hint[k] > 0, now >= hint[k] + Ms
             PROVE  BucketOf(k, DOMAIN buckets).tokens >= WindowMs
    BY DEF RetryAfterSuffices
<1>1. CASE k \notin DOMAIN buckets
    BY <1>1, FullHoldsOne DEF BucketOf
<1>2. CASE k \in DOMAIN buckets
    <2> DEFINE b == buckets[k]
               s == now - b.last_refill
               e == s \div Ms
    <2>1. /\ now \in Nat /\ b.last_refill \in Nat /\ b.tokens \in Nat /\ s \in Nat
          /\ hint[k] \in Nat /\ Ms \in Nat \ {0} /\ Capacity \in Nat
        BY <1>2, FullHoldsOne, RateAssumption DEF RateInv, RateTypeOK, Short
    <2>2. PICK n \in Nat : b.last_refill + n * Ms <= hint[k] + Ms
                           /\ b.tokens + n * Capacity >= WindowMs
        BY <1>2 DEF RateInv, Hinted
    <2>3. e \in Nat /\ e * Ms <= s /\ s < e * Ms + Ms
        <3> HIDE DEF s
        <3> QED BY <2>1, RateDivision
    <2>4. n * Ms \in Nat /\ e * Ms \in Nat /\ n * Capacity \in Nat /\ e * Capacity \in Nat
        <3> HIDE DEF e
        <3> QED BY <2>1, <2>3, Product
    <2>5. n * Ms <= s
        BY <2>1, <2>2, <2>4
    <2>6. n <= e
        <3> HIDE DEF e, s
        <3> SUFFICES ASSUME e + 1 <= n
                     PROVE  FALSE
            BY <2>3
        <3>1. (e + 1) * Ms <= n * Ms
            BY <2>1, <2>3, GrantsOrdered
        <3>2. (e + 1) * Ms = e * Ms + Ms
            BY <2>1, <2>3
        <3>3. QED
            BY <2>1, <2>3, <2>4, <2>5, <3>1, <3>2
    <2>7. n * Capacity <= e * Capacity
        <3> HIDE DEF e
        <3> QED BY <2>1, <2>3, <2>6, GrantsOrdered
    <2>8. b.tokens + e * Capacity >= WindowMs
        <3> HIDE DEF e, b
        <3> QED BY <2>1, <2>2, <2>4, <2>7, FullHoldsOne
    <2>9. BucketOf(k, DOMAIN buckets)
              = IF e > 0 THEN [tokens |-> Least(Full, b.tokens + e * Capacity), last_refill |-> now]
                ELSE b
        BY <1>2 DEF BucketOf, Refilled, ElapsedMs
    <2>10. CASE e > 0
        <3>1. Least(Full, b.tokens + e * Capacity) >= WindowMs
            BY <2>8, FullHoldsOne DEF Least
        <3>2. QED
            BY <2>9, <2>10, <3>1
    <2>11. CASE ~(e > 0)
        <3>1. e = 0
            BY <2>3, <2>11
        <3>2. e * Capacity = 0
            BY <2>1, <3>1
        <3>3. b.tokens >= WindowMs
            <4> HIDE DEF e, b
            <4> QED BY <2>1, <2>8, <3>2
        <3>4. QED
            BY <2>9, <2>11, <3>3
    <2>12. QED
        BY <2>10, <2>11
<1>3. QED
    BY <1>1, <1>2

(***************************************************************************)
(* For every quota of at most one request per millisecond, any number of   *)
(* clients and any clock: consume() lets no client in more often than its  *)
(* capacity and the time that passed allow, in any stretch of its requests *)
(* over which its bucket was kept.                                         *)
(***************************************************************************)
THEOREM RateHolds == RateSpec => []RateBounded
<1>1. RateInv => RateBounded
    BY DEF RateInv
<1>2. QED
    BY <1>1, LimiterBegins, RateInductive, PTL DEF RateSpec

(***************************************************************************)
(* And for the same quotas: a client that consume() refused and that waits *)
(* for the Retry-After it was told, and a millisecond, finds a token.      *)
(***************************************************************************)
THEOREM RetryHolds == RateSpec => []RetryAfterSuffices
<1>1. QED
    BY InvImpliesRetry, LimiterBegins, RateInductive, PTL DEF RateSpec

-----------------------------------------------------------------------------
(***************************************************************************)
(* A sample run leaves nothing behind and meets no other run's files, for  *)
(* any number of threads, permits and clock ticks and wherever Docker or   *)
(* the file system fails.                                                  *)
(***************************************************************************)
-----------------------------------------------------------------------------
(***************************************************************************)
(* The frame of a request: what With makes of a handler's locals.          *)
(***************************************************************************)
LEMMA EmptyTuple == DOMAIN <<>> = {}
    OBVIOUS

LEMMA WithNone ==
    ASSUME NEW l, DOMAIN l = {}, NEW r, r = [x \in DOMAIN r |-> r[x]]
    PROVE  With(r, l) = r
    BY DEF With

LEMMA WithNothing ==
    ASSUME NEW r, r = [x \in DOMAIN r |-> r[x]]
    PROVE  With(r, <<>>) = r
    BY EmptyTuple, WithNone

LEMMA OthersStay ==
    ASSUME NEW S, task \in [Clients -> S], NEW c \in Clients, NEW r, task' = [task EXCEPT ![c] = r]
    PROVE  task'[c] = r /\ \A d \in Clients : d # c => task'[d] = task[d]
    OBVIOUS

-----------------------------------------------------------------------------
(***************************************************************************)
(* SampleRunner.  A thread on its way to run() has a run number; from      *)
(* make_task_dir on it has a directory, too.                               *)
(***************************************************************************)
Coming ==
    [at : {"samples_problem", "samples_cases", "samples_spj", "run", "run_dir"},
     held : {0}, run : Nat]

Working == {"run_write", "run_create", "run_start", "run_wait", "run_remove", "run_cleanup"}

Running == [at : Working, held : {0}, run : Nat, dir : Nat]

RunTasks == {Idle} \cup Coming \cup Running

RunTypeOK ==
    /\ task \in [Clients -> RunTasks]
    /\ requests \in Nat /\ permits \in Nat /\ stamp \in Nat
    /\ dirs = [s \in DOMAIN dirs |-> dirs[s]] /\ DOMAIN dirs \subseteq Nat

(***************************************************************************)
(* A permit is out for every thread between its acquisition and the        *)
(* Releaser.                                                               *)
(***************************************************************************)
Permitted == {c \in Clients : task[c].at \in Working \cup {"run_dir"}}

PermitsCounted == permits + Cardinality(Permitted) = MaxRuns

(***************************************************************************)
(* What is there has a thread that will remove it, or is litter.           *)
(***************************************************************************)
Owned ==
    /\ \A r \in containers :
         \/ <<"container", r>> \in litter
         \/ \E c \in Clients : task[c].at \in {"run_start", "run_wait", "run_remove"} /\ task[c].run = r
    /\ \A s \in DOMAIN dirs :
         \/ <<"dir", s>> \in litter
         \/ \E c \in Clients : task[c].at \in Working /\ task[c].dir = s

(***************************************************************************)
(* Two threads with one directory are known to clash, and a thread that    *)
(* does not clash finds its own task there.                                *)
(***************************************************************************)
ClashesKnown ==
    \A c, d \in Clients :
        /\ c # d
        /\ task[c].at \in Working /\ task[d].at \in Working
        /\ task[c].dir = task[d].dir
        => task[c].run \in clashed

TaskIsThere ==
    \A c \in Clients :
        task[c].at \in {"run_create", "run_start", "run_wait"} =>
            \/ task[c].run \in clashed
            \/ task[c].dir \in DOMAIN dirs /\ dirs[task[c].dir] = task[c].run

RunInv ==
    RunTypeOK /\ PermitsCounted /\ Owned /\ ClashesKnown /\ TaskIsThere /\ SampleIsOwn

runStep == <<reqVars, runVars>>

(***************************************************************************)
(* The record of a thread after a step.                                    *)
(***************************************************************************)
LEMMA ComingRecord ==
    ASSUME NEW r \in Coming, NEW label, NEW h
    PROVE  With(With(r, <<>>), [at |-> label, held |-> h])
                = [at |-> label, held |-> h, run |-> r.run]
<1>1. With(r, <<>>) = r
    <2>1. r = [x \in DOMAIN r |-> r[x]]
        BY DEF Coming
    <2>2. QED
        BY <2>1, WithNothing
<1>2. With(r, [at |-> label, held |-> h]) = [at |-> label, held |-> h, run |-> r.run]
    BY DEF Coming, With
<1>3. QED
    BY <1>1, <1>2

LEMMA DirRecord ==
    ASSUME NEW r \in Coming, NEW d, NEW label, NEW h
    PROVE  With(With(r, [dir |-> d]), [at |-> label, held |-> h])
                = [at |-> label, held |-> h, run |-> r.run, dir |-> d]
    BY DEF Coming, With

LEMMA RunningRecord ==
    ASSUME NEW r \in Running, NEW label, NEW h
    PROVE  With(With(r, <<>>), [at |-> label, held |-> h])
                = [at |-> label, held |-> h, run |-> r.run, dir |-> r.dir]
<1>1. With(r, <<>>) = r
    <2>1. r = [x \in DOMAIN r |-> r[x]]
        BY DEF Running
    <2>2. QED
        BY <2>1, WithNothing
<1>2. With(r, [at |-> label, held |-> h]) = [at |-> label, held |-> h, run |-> r.run, dir |-> r.dir]
    BY DEF Running, With
<1>3. QED
    BY <1>1, <1>2

LEMMA RunRecords ==
    ASSUME RunTypeOK, NEW c \in Clients
    PROVE  /\ task[c].at \in Working => task[c] \in Running
           /\ task[c].at \in {"samples_problem", "samples_cases", "samples_spj", "run", "run_dir"}
                => task[c] \in Coming
           /\ task[c].held = 0
    BY DEF RunTypeOK, RunTasks, Coming, Running, Working, Idle

(***************************************************************************)
(* The permits.                                                            *)
(***************************************************************************)
Holding == Working \cup {"run_dir"}

LEMMA PermitsStay ==
    ASSUME RunTypeOK, PermitsCounted, NEW c \in Clients, NEW r, task' = [task EXCEPT ![c] = r],
           r.at \in Holding <=> task[c].at \in Holding, permits' = permits
    PROVE  PermitsCounted'
<1>1. task'[c] = r /\ \A d \in Clients : d # c => task'[d] = task[d]
    BY OthersStay DEF RunTypeOK
<1>2. Permitted' = Permitted
    BY <1>1 DEF Permitted, Holding
<1>3. QED
    BY <1>2 DEF PermitsCounted

LEMMA PermitTaken ==
    ASSUME Counting, RunTypeOK, PermitsCounted, NEW c \in Clients, NEW r, task' = [task EXCEPT ![c] = r],
           r.at \in Holding, task[c].at \notin Holding, permits' = permits - 1
    PROVE  PermitsCounted'
<1>1. task'[c] = r /\ \A d \in Clients : d # c => task'[d] = task[d]
    BY OthersStay DEF RunTypeOK
<1>2. Permitted' = Permitted \cup {c} /\ c \notin Permitted
    BY <1>1 DEF Permitted, Holding
<1>3. IsFiniteSet(Permitted)
    <2>1. IsFiniteSet(Clients) /\ Permitted \in SUBSET Clients
        BY RequestsAssumption DEF Permitted
    <2>2. QED
        BY <2>1, ZenonT(40) DEF Counting
<1>4. Cardinality(Permitted') = Cardinality(Permitted) + 1 /\ Cardinality(Permitted) \in Nat
    BY <1>2, <1>3, ZenonT(40) DEF Counting
<1>5. QED
    BY <1>4 DEF PermitsCounted, RunTypeOK

LEMMA PermitReturned ==
    ASSUME Counting, RunTypeOK, PermitsCounted, NEW c \in Clients, NEW r, task' = [task EXCEPT ![c] = r],
           r.at \notin Holding, task[c].at \in Holding, Releaser
    PROVE  PermitsCounted'
<1>1. task'[c] = r /\ \A d \in Clients : d # c => task'[d] = task[d]
    BY OthersStay DEF RunTypeOK
<1>2. Permitted' = Permitted \ {c} /\ c \in Permitted
    BY <1>1 DEF Permitted, Holding
<1>3. IsFiniteSet(Permitted)
    <2>1. IsFiniteSet(Clients) /\ Permitted \in SUBSET Clients
        BY RequestsAssumption DEF Permitted
    <2>2. QED
        BY <2>1, ZenonT(40) DEF Counting
<1>4. Cardinality(Permitted') = Cardinality(Permitted) - 1 /\ Cardinality(Permitted) \in Nat
    BY <1>2, <1>3, ZenonT(40) DEF Counting
<1>5. QED
    BY <1>4 DEF PermitsCounted, RunTypeOK, Releaser

(***************************************************************************)
(* A thread outside a directory steps and stays outside.                   *)
(***************************************************************************)
Ownership == Owned /\ ClashesKnown /\ TaskIsThere /\ SampleIsOwn

LEMMA StaysOutside ==
    ASSUME RunInv, NEW c \in Clients, NEW r, task' = [task EXCEPT ![c] = r],
           r.at \notin Working, task[c].at \notin Working,
           UNCHANGED <<dirs, containers, litter, clashed, verdicts>>
    PROVE  Ownership'
<1>1. task'[c] = r /\ \A d \in Clients : d # c => task'[d] = task[d]
    BY OthersStay DEF RunInv, RunTypeOK
<1>2. \A d \in Clients : task'[d].at \in Working => task'[d] = task[d]
    BY <1>1
<1>3. \A d \in Clients : task[d].at \in Working => task'[d] = task[d]
    BY <1>1
<1>4. Owned'
    BY <1>3 DEF RunInv, Owned, Working
<1>5. ClashesKnown'
    BY <1>2 DEF RunInv, ClashesKnown
<1>6. TaskIsThere'
    BY <1>2 DEF RunInv, TaskIsThere, Working
<1>7. SampleIsOwn'
    BY DEF RunInv, SampleIsOwn
<1>8. QED
    BY <1>4, <1>5, <1>6, <1>7 DEF Ownership

LEMMA PreparesKeeps ==
    ASSUME Counting, RunInv, NEW c \in Clients, samples_prepare(c) \/ run_enters(c)
    PROVE  RunInv'
<1>1. RunTypeOK /\ PermitsCounted
    BY DEF RunInv
<1>2. ASSUME NEW r \in RunTasks, r.at \notin Holding, task[c].at \notin Holding,
             task' = [task EXCEPT ![c] = r], UNCHANGED runVars, requests' \in Nat
      PROVE  RunInv'
    <2>1. RunTypeOK'
        BY <1>1, <1>2 DEF RunTypeOK, runVars
    <2>2. PermitsCounted'
        BY <1>1, <1>2, PermitsStay, ZenonT(40) DEF runVars
    <2>3. Ownership'
        BY <1>2, StaysOutside, ZenonT(40) DEF runVars, Holding
    <2>4. QED
        BY <2>1, <2>2, <2>3 DEF RunInv, Ownership
<1>3. Idle \in RunTasks /\ Idle.at \notin Holding
    BY DEF RunTasks, Idle, Holding, Working
<1>4. ASSUME task[c].at \in {"samples_problem", "samples_cases", "samples_spj", "run"},
             NEW label \in {"samples_problem", "samples_cases", "samples_spj", "run", "run_dir"},
             Moves(c, label, <<>>, 0)
      PROVE  \E r \in Coming : r.at = label /\ task' = [task EXCEPT ![c] = r]
    <2>1. task[c] \in Coming
        BY <1>1, <1>4, RunRecords
    <2> DEFINE r == [at |-> label, held |-> 0, run |-> task[c].run]
    <2>2. task' = [task EXCEPT ![c] = r]
        BY <1>4, <2>1, ComingRecord, ZenonT(40) DEF Moves
    <2>3. r \in Coming /\ r.at = label
        BY <2>1 DEF Coming
    <2>4. QED
        BY <2>2, <2>3, ZenonT(40)
<1>5. task[c].held = 0
    BY <1>1, RunRecords
<1>6. CASE samples_prepare(c)
    <2>0. UNCHANGED runVars
        BY <1>6, ZenonT(40) DEF samples_prepare
    <2>1. CASE Receives(c, "samples_problem", [run |-> requests])
        <3> DEFINE r == [at |-> "samples_problem", held |-> 0, run |-> requests]
        <3>1. With([at |-> "samples_problem", held |-> 0], [run |-> requests]) = r
            BY DEF With
        <3>2. task' = [task EXCEPT ![c] = r] /\ task[c].at = "idle" /\ requests > 0 /\ requests' = requests - 1
            BY <2>1, <3>1, ZenonT(40) DEF Receives, Starts, At
        <3>3. r \in RunTasks /\ r.at \notin Holding /\ task[c].at \notin Holding /\ requests' \in Nat
            BY <1>1, <3>2 DEF RunTasks, Coming, Holding, Working, RunTypeOK
        <3>4. QED
            <4> HIDE DEF r
            <4> QED BY <1>2, <2>0, <3>2, <3>3, ZenonT(40)
    <2>2. CASE /\ task[c].at \in {"samples_problem", "samples_cases", "samples_spj"}
               /\ task' = [task EXCEPT ![c] = Idle] /\ requests' = requests
        <3>1. task[c].at \notin Holding /\ requests' \in Nat
            BY <1>1, <2>2 DEF Holding, Working, RunTypeOK
        <3>2. QED
            BY <1>2, <1>3, <2>0, <2>2, <3>1, ZenonT(40)
    <2>3. ASSUME task[c].at \in {"samples_problem", "samples_cases", "samples_spj"},
                 NEW label \in {"samples_cases", "samples_spj", "run"},
                 Moves(c, label, <<>>, 0), requests' = requests
          PROVE  RunInv'
        <3>1. PICK r \in Coming : r.at = label /\ task' = [task EXCEPT ![c] = r]
            BY <1>4, <2>3
        <3>2. r \in RunTasks /\ r.at \notin Holding /\ task[c].at \notin Holding /\ requests' \in Nat
            BY <1>1, <2>3, <3>1 DEF RunTasks, Holding, Working, RunTypeOK
        <3>3. QED
            BY <1>2, <2>0, <3>1, <3>2, ZenonT(40)
    <2>4. QED
        BY <1>5, <1>6, <2>1, <2>2, <2>3
        DEF samples_prepare, require_fields, QueriesAndAnswers, Queries, Answers, Throws, TimesOut,
            Unwinds, At
<1>7. CASE run_enters(c)
    <2>1. CASE Answers(c, 503) /\ UNCHANGED permits
        <3>1. task' = [task EXCEPT ![c] = Idle] /\ requests' = requests /\ UNCHANGED runVars
              /\ task[c].at = "run"
            BY <1>7, <2>1 DEF run_enters, Answers, runVars, At
        <3>2. task[c].at \notin Holding /\ requests' \in Nat
            BY <1>1, <3>1 DEF Holding, Working, RunTypeOK
        <3>3. QED
            BY <1>2, <1>3, <3>1, <3>2, ZenonT(40)
    <2>2. CASE permits # 0 /\ Goes(c, "run_dir", <<>>) /\ permits' = permits - 1
        <3>1. /\ UNCHANGED <<dirs, containers, litter, clashed, verdicts>> /\ stamp' = stamp
              /\ task[c].at = "run" /\ requests' = requests /\ Moves(c, "run_dir", <<>>, 0)
            BY <1>5, <1>7, <2>2 DEF run_enters, Goes, At
        <3>2. PICK r \in Coming : r.at = "run_dir" /\ task' = [task EXCEPT ![c] = r]
            BY <1>4, <3>1
        <3>3. RunTypeOK'
            BY <1>1, <2>2, <3>1, <3>2 DEF RunTypeOK, RunTasks
        <3>4. PermitsCounted'
            BY <1>1, <2>2, <3>1, <3>2, PermitTaken, ZenonT(40) DEF Holding, Working
        <3>5. Ownership'
            BY <3>1, <3>2, StaysOutside, ZenonT(40) DEF Working
        <3>6. QED
            BY <3>3, <3>4, <3>5 DEF RunInv, Ownership
    <2>3. QED
        BY <1>7, <2>1, <2>2 DEF run_enters
<1>8. QED
    BY <1>6, <1>7

(***************************************************************************)
(* make_task_dir: whoever has the directory of this microsecond already    *)
(* is a Sharer, and all of them are marked.                                *)
(***************************************************************************)
LEMMA SharersWork ==
    ASSUME RunTypeOK, NEW c \in Clients
    PROVE  Sharers(c) = {d \in Clients \ {c} : task[d].at \in Working /\ task[d].dir = stamp}
<1>1. ASSUME NEW d \in Clients
      PROVE  "dir" \in DOMAIN task[d] <=> task[d].at \in Working
    BY DEF RunTypeOK, RunTasks, Coming, Running, Working, Idle
<1>2. QED
    BY <1>1 DEF Sharers

LEMMA MakesDirKeeps ==
    ASSUME Counting, RunInv, NEW c \in Clients, run_makes_dir(c)
    PROVE  RunInv'
<1>1. /\ RunTypeOK /\ PermitsCounted /\ task[c].at = "run_dir" /\ task[c] \in Coming
      /\ task[c].held = 0 /\ UNCHANGED <<stamp, containers, litter, verdicts>>
    BY RunRecords DEF RunInv, run_makes_dir, At
<1>2. CASE Throws(c) /\ Releaser /\ UNCHANGED <<dirs, clashed>>
    <2>1. task' = [task EXCEPT ![c] = Idle] /\ requests' = requests /\ Idle.at \notin Holding
        BY <1>2 DEF Throws, Unwinds, Idle, Holding, Working
    <2>2. RunTypeOK'
        BY <1>1, <1>2, <2>1 DEF RunTypeOK, RunTasks, Releaser
    <2>3. PermitsCounted'
        BY <1>1, <1>2, <2>1, PermitReturned, ZenonT(40) DEF Holding
    <2>4. Ownership'
        BY <1>1, <1>2, <2>1, StaysOutside, ZenonT(40) DEF Holding, Working
    <2>5. QED
        BY <2>2, <2>3, <2>4 DEF RunInv, Ownership
<1>3. CASE /\ Goes(c, "run_write", [dir |-> stamp]) /\ UNCHANGED permits
           /\ dirs' = [s \in DOMAIN dirs \cup {stamp} |-> IF s \in DOMAIN dirs THEN dirs[s] ELSE NULL]
           /\ clashed' = IF Sharers(c) = {} THEN clashed
                         ELSE clashed \cup {task[d].run : d \in Sharers(c) \cup {c}}
    <2> DEFINE r == [at |-> "run_write", held |-> 0, run |-> task[c].run, dir |-> stamp]
    <2>1. task' = [task EXCEPT ![c] = r] /\ requests' = requests
        <3>1. With(With(task[c], [dir |-> stamp]), [at |-> "run_write", held |-> 0]) = r
            BY <1>1, DirRecord
        <3>2. task' = [task EXCEPT ![c] =
                 With(With(task[c], [dir |-> stamp]), [at |-> "run_write", held |-> task[c].held])]
            BY <1>3 DEF Goes, Moves
        <3>3. requests' = requests
            BY <1>3 DEF Goes
        <3>4. QED
            BY <1>1, <3>1, <3>2, <3>3, ZenonT(40)
    <2>2. /\ r \in Running /\ r.at = "run_write" /\ r.dir = stamp /\ r.run = task[c].run
          /\ r.at \in Working /\ r.at \in Holding
        BY <1>1 DEF Running, Working, Coming, RunTypeOK, Holding
    <2> HIDE DEF r
    <2>3. task'[c] = r /\ \A d \in Clients : d # c => task'[d] = task[d]
        BY <1>1, <2>1, OthersStay DEF RunTypeOK
    <2>4. RunTypeOK'
        <3>1. DOMAIN dirs' = DOMAIN dirs \cup {stamp} /\ dirs' = [s \in DOMAIN dirs' |-> dirs'[s]]
            BY <1>3
        <3>2. QED
            BY <1>1, <1>3, <2>1, <2>2, <3>1 DEF RunTypeOK, RunTasks
    <2>5. PermitsCounted'
        BY <1>1, <1>3, <2>1, <2>2, PermitsStay, ZenonT(40) DEF Holding
    <2>6. Owned'
        <3>1. \A d \in Clients : task[d].at \in Working => task'[d] = task[d]
            BY <1>1, <2>3 DEF Working
        <3>2. DOMAIN dirs' = DOMAIN dirs \cup {stamp}
            BY <1>3
        <3>3. ASSUME NEW s \in DOMAIN dirs'
              PROVE  \/ <<"dir", s>> \in litter'
                     \/ \E d \in Clients : task'[d].at \in Working /\ task'[d].dir = s
            <4>1. CASE s = stamp
                BY <2>2, <2>3, <4>1
            <4>2. CASE s # stamp
                BY <1>1, <3>1, <3>2, <3>3, <4>2 DEF RunInv, Owned
            <4>3. QED
                BY <4>1, <4>2
        <3>4. ASSUME NEW k \in containers'
              PROVE  \/ <<"container", k>> \in litter'
                     \/ \E d \in Clients :
                          task'[d].at \in {"run_start", "run_wait", "run_remove"} /\ task'[d].run = k
            BY <1>1, <3>1, <3>4 DEF RunInv, Owned, Working
        <3>5. QED
            BY <3>3, <3>4 DEF Owned
    <2>7. ClashesKnown'
        <3>1. clashed \subseteq clashed'
            BY <1>3
        <3>2. ASSUME NEW d \in Clients, d # c, task[d].at \in Working, task[d].dir = stamp
              PROVE  task[d].run \in clashed' /\ task[c].run \in clashed'
            <4>1. d \in Sharers(c)
                BY <1>1, <3>2, SharersWork
            <4>2. QED
                BY <1>3, <4>1
        <3>3. ASSUME NEW a \in Clients, NEW b \in Clients, a # b,
                     task'[a].at \in Working, task'[b].at \in Working, task'[a].dir = task'[b].dir
              PROVE  task'[a].run \in clashed'
            <4>1. CASE a = c
                BY <2>2, <2>3, <3>2, <3>3, <4>1
            <4>2. CASE b = c
                BY <2>2, <2>3, <3>2, <3>3, <4>2
            <4>3. CASE a # c /\ b # c
                BY <2>3, <3>1, <3>3, <4>3 DEF RunInv, ClashesKnown
            <4>4. QED
                BY <4>1, <4>2, <4>3
        <3>4. QED
            BY <3>3 DEF ClashesKnown
    <2>8. TaskIsThere'
        <3>1. /\ clashed \subseteq clashed' /\ DOMAIN dirs \subseteq DOMAIN dirs'
              /\ \A s \in DOMAIN dirs : dirs'[s] = dirs[s]
            BY <1>3
        <3>2. ASSUME NEW d \in Clients, task'[d].at \in {"run_create", "run_start", "run_wait"}
              PROVE  d # c /\ task'[d] = task[d]
            BY <2>2, <2>3, <3>2
        <3>3. QED
            BY <3>1, <3>2 DEF RunInv, TaskIsThere
    <2>9. SampleIsOwn'
        BY <1>1, <1>3 DEF RunInv, SampleIsOwn
    <2>10. QED
        BY <2>4, <2>5, <2>6, <2>7, <2>8, <2>9 DEF RunInv
<1>4. QED
    BY <1>2, <1>3 DEF run_makes_dir

(***************************************************************************)
(* A thread with a directory steps, keeps it and says what becomes of its  *)
(* container and of the directories.                                       *)
(***************************************************************************)
Works(c, label) ==
    /\ label \in Working
    /\ task' = [task EXCEPT ![c] = [at |-> label, held |-> 0, run |-> task[c].run, dir |-> task[c].dir]]
    /\ UNCHANGED <<requests, permits, stamp, clashed>>

LEMMA WorksMoves ==
    ASSUME RunTypeOK, NEW c \in Clients, task[c].at \in Working, NEW label, Moves(c, label, <<>>, 0)
    PROVE  task' = [task EXCEPT ![c] = [at |-> label, held |-> 0, run |-> task[c].run, dir |-> task[c].dir]]
<1>1. task[c] \in Running
    BY RunRecords
<1>2. QED
    BY <1>1, RunningRecord, ZenonT(40) DEF Moves

LEMMA WorksFacts ==
    ASSUME RunTypeOK, NEW c \in Clients, task[c].at \in Working, NEW label, Works(c, label)
    PROVE  /\ task' \in [Clients -> RunTasks]
           /\ task'[c].at = label /\ task'[c].run = task[c].run /\ task'[c].dir = task[c].dir
           /\ \A d \in Clients : d # c => task'[d] = task[d]
<1>1. task[c] \in Running /\ label \in Working
    BY RunRecords DEF Works
<1> DEFINE r == [at |-> label, held |-> 0, run |-> task[c].run, dir |-> task[c].dir]
<1>2. r \in RunTasks /\ r.at = label /\ r.run = task[c].run /\ r.dir = task[c].dir
    BY <1>1 DEF Running, RunTasks
<1>3. task' = [task EXCEPT ![c] = r]
    BY DEF Works
<1> HIDE DEF r
<1>4. task'[c] = r /\ \A d \in Clients : d # c => task'[d] = task[d]
    BY <1>3, OthersStay DEF RunTypeOK
<1>5. task' \in [Clients -> RunTasks]
    BY <1>2, <1>3 DEF RunTypeOK
<1>6. QED
    BY <1>2, <1>4, <1>5

LEMMA WorksPermitsAndClashes ==
    ASSUME RunInv, NEW c \in Clients, task[c].at \in Working, NEW label, Works(c, label)
    PROVE  PermitsCounted' /\ ClashesKnown'
<1>1. RunTypeOK /\ PermitsCounted /\ label \in Working /\ permits' = permits /\ clashed' = clashed
    BY DEF RunInv, Works
<1>2. /\ task'[c].at = label /\ task'[c].run = task[c].run /\ task'[c].dir = task[c].dir
      /\ \A d \in Clients : d # c => task'[d] = task[d]
    BY <1>1, WorksFacts
<1>3. Permitted' = Permitted
    BY <1>1, <1>2 DEF Permitted
<1>4. \A d \in Clients : /\ task'[d].at \in Working => task[d].at \in Working
                         /\ task'[d].run = task[d].run /\ (task'[d].at \in Working => task'[d].dir = task[d].dir)
    BY <1>1, <1>2
<1>5. ClashesKnown'
    BY <1>1, <1>4 DEF RunInv, ClashesKnown
<1>6. QED
    BY <1>1, <1>3, <1>5 DEF PermitsCounted

LEMMA WritesKeeps ==
    ASSUME RunInv, NEW c \in Clients, run_writes_task(c) \/ run_misses_dir(c)
    PROVE  RunInv'
<1>1. /\ RunTypeOK /\ task[c].at = "run_write" /\ task[c].at \in Working /\ task[c].held = 0
      /\ UNCHANGED <<permits, stamp, containers, litter, clashed, verdicts>>
    BY RunRecords DEF RunInv, run_writes_task, run_misses_dir, At, Working, runVars
<1>2. PICK label \in {"run_create", "run_cleanup"} :
        /\ Works(c, label)
        /\ \/ label = "run_create" /\ task[c].dir \in DOMAIN dirs
              /\ dirs' = [dirs EXCEPT ![task[c].dir] = task[c].run]
           \/ label = "run_cleanup" /\ dirs' = dirs
    <2>1. ASSUME NEW label \in {"run_create", "run_cleanup"}, Moves(c, label, <<>>, 0), requests' = requests
          PROVE  Works(c, label)
        <3>1. task' = [task EXCEPT ![c] = [at |-> label, held |-> 0, run |-> task[c].run, dir |-> task[c].dir]]
            BY <1>1, <2>1, WorksMoves
        <3>2. QED
            BY <1>1, <2>1, <3>1 DEF Works, Working
    <2>2. CASE Goes(c, "run_create", <<>>) /\ task[c].dir \in DOMAIN dirs
               /\ dirs' = [dirs EXCEPT ![task[c].dir] = task[c].run]
        BY <1>1, <2>1, <2>2 DEF Goes
    <2>3. CASE Moves(c, "run_cleanup", <<>>, 0) /\ requests' = requests /\ dirs' = dirs
        BY <2>1, <2>3
    <2>4. QED
        BY <1>1, <2>2, <2>3, ZenonT(40) DEF run_writes_task, run_misses_dir, Goes, runVars
<1>3. /\ task' \in [Clients -> RunTasks]
      /\ task'[c].at = label /\ task'[c].run = task[c].run /\ task'[c].dir = task[c].dir
      /\ \A d \in Clients : d # c => task'[d] = task[d]
    BY <1>1, <1>2, WorksFacts
<1>4. DOMAIN dirs' = DOMAIN dirs /\ dirs' = [s \in DOMAIN dirs' |-> dirs'[s]]
    BY <1>1, <1>2 DEF RunTypeOK
<1>5. RunTypeOK'
    BY <1>1, <1>2, <1>3, <1>4 DEF RunTypeOK, Works
<1>6. PermitsCounted' /\ ClashesKnown'
    BY <1>1, <1>2, WorksPermitsAndClashes
<1>7. Owned'
    <2>1. \A d \in Clients : task[d].at \in Working => task'[d].at \in Working /\ task'[d].dir = task[d].dir
        BY <1>1, <1>2, <1>3 DEF Working
    <2>2. \A d \in Clients : task[d].at \in {"run_start", "run_wait", "run_remove"} => task'[d] = task[d]
        BY <1>1, <1>3
    <2>3. QED
        BY <1>1, <1>4, <2>1, <2>2 DEF RunInv, Owned
<1>8. TaskIsThere'
    <2>1. ASSUME NEW d \in Clients, task'[d].at \in {"run_create", "run_start", "run_wait"}
          PROVE  \/ task'[d].run \in clashed
                 \/ task'[d].dir \in DOMAIN dirs' /\ dirs'[task'[d].dir] = task'[d].run
        <3>1. CASE d = c
            BY <1>1, <1>2, <1>3, <2>1, <3>1 DEF RunTypeOK
        <3>2. CASE d # c /\ task[d].dir = task[c].dir
            BY <1>1, <1>3, <2>1, <3>2 DEF RunInv, ClashesKnown, Working
        <3>3. CASE d # c /\ task[d].dir # task[c].dir
            <4>1. task'[d] = task[d]
                BY <1>3, <3>3
            <4>2. task[d].dir \in DOMAIN dirs => dirs'[task[d].dir] = dirs[task[d].dir]
                BY <1>1, <1>2, <3>3 DEF RunTypeOK
            <4>3. QED
                BY <1>4, <2>1, <4>1, <4>2 DEF RunInv, TaskIsThere
        <3>4. QED
            BY <3>1, <3>2, <3>3
    <2>2. QED
        BY <1>1, <2>1 DEF TaskIsThere
<1>9. SampleIsOwn'
    BY <1>1 DEF RunInv, SampleIsOwn
<1>10. QED
    BY <1>5, <1>6, <1>7, <1>8, <1>9 DEF RunInv

(***************************************************************************)
(* The container is created, started, waited for and removed.  Only a call *)
(* that fails leaves it, and its run, behind.                              *)
(***************************************************************************)
Docks(c, label) ==
    /\ Works(c, label) /\ dirs' = dirs /\ litter \subseteq litter'
    /\ label \in {"run_start", "run_wait", "run_remove", "run_cleanup"}
    /\ task[c].at \in {"run_create", "run_start", "run_wait", "run_remove"}
    /\ \A r \in containers' : r = task[c].run \/ r \in containers
    /\ task[c].run \in containers' =>
           \/ label # "run_cleanup"
           \/ <<"container", task[c].run>> \in litter'
           \/ task[c].at = "run_create" /\ containers' = containers
    /\ label = "run_start" => task[c].at = "run_create"
    /\ label = "run_wait" => task[c].at = "run_start"
    /\ \A v \in verdicts' :
           v \in verdicts \/ (task[c].at = "run_wait" /\ v = <<task[c].run, Judged(c)>>)

LEMMA DocksKeeps ==
    ASSUME RunInv, NEW c \in Clients, NEW label, Docks(c, label)
    PROVE  RunInv'
<1>1. RunTypeOK /\ task[c].at \in Working /\ Works(c, label) /\ clashed' = clashed /\ dirs' = dirs
    BY DEF RunInv, Docks, Working, Works
<1>2. /\ task' \in [Clients -> RunTasks]
      /\ task'[c].at = label /\ task'[c].run = task[c].run /\ task'[c].dir = task[c].dir
      /\ \A d \in Clients : d # c => task'[d] = task[d]
    BY <1>1, WorksFacts
<1>3. RunTypeOK'
    BY <1>1, <1>2 DEF RunTypeOK, Works
<1>4. PermitsCounted' /\ ClashesKnown'
    BY <1>1, WorksPermitsAndClashes
<1>5. Owned'
    <2>1. \A d \in Clients : task[d].at \in Working => task'[d].at \in Working /\ task'[d].dir = task[d].dir
        BY <1>1, <1>2 DEF Works
    <2>2. ASSUME NEW s \in DOMAIN dirs'
          PROVE  \/ <<"dir", s>> \in litter'
                 \/ \E d \in Clients : task'[d].at \in Working /\ task'[d].dir = s
        BY <1>1, <2>1, <2>2 DEF RunInv, Owned, Docks
    <2>3. ASSUME NEW k \in containers'
          PROVE  \/ <<"container", k>> \in litter'
                 \/ \E d \in Clients :
                      task'[d].at \in {"run_start", "run_wait", "run_remove"} /\ task'[d].run = k
        <3>1. CASE k = task[c].run /\ label # "run_cleanup"
            BY <1>2, <3>1 DEF Docks
        <3>2. CASE k = task[c].run /\ <<"container", k>> \in litter'
            BY <3>2
        <3>3. CASE k # task[c].run \/ (task[c].at = "run_create" /\ containers' = containers)
            <4>1. k \in containers
                BY <2>3, <3>3 DEF Docks
            <4>2. CASE <<"container", k>> \in litter
                BY <4>2 DEF Docks
            <4>3. ASSUME NEW d \in Clients, task[d].at \in {"run_start", "run_wait", "run_remove"},
                         task[d].run = k
                  PROVE  task'[d] = task[d]
                BY <1>2, <3>3, <4>3
            <4>4. QED
                BY <4>1, <4>2, <4>3 DEF RunInv, Owned
        <3>4. QED
            BY <2>3, <3>1, <3>2, <3>3 DEF Docks
    <2>4. QED
        BY <2>2, <2>3 DEF Owned
<1>6. TaskIsThere'
    <2>1. ASSUME NEW d \in Clients, task'[d].at \in {"run_create", "run_start", "run_wait"}
          PROVE  /\ task[d].at \in {"run_create", "run_start", "run_wait"}
                 /\ task'[d].run = task[d].run /\ task'[d].dir = task[d].dir
        BY <1>2, <2>1 DEF Docks
    <2>2. QED
        BY <1>1, <2>1 DEF RunInv, TaskIsThere
<1>7. SampleIsOwn'
    <2>1. task[c].at = "run_wait" => task[c].run \in clashed \/ task[c].run = Judged(c)
        BY DEF RunInv, TaskIsThere, Judged
    <2>2. QED
        BY <1>1, <2>1 DEF RunInv, SampleIsOwn, Docks
<1>8. QED
    BY <1>3, <1>4, <1>5, <1>6, <1>7 DEF RunInv

LEMMA DockerKeeps ==
    ASSUME RunInv, NEW c \in Clients,
           run_creates(c) \/ run_begins(c) \/ run_waits(c) \/ run_removes(c)
    PROVE  RunInv'
<1>1. RunTypeOK /\ task[c].held = 0
    BY RunRecords DEF RunInv
<1>2. ASSUME task[c].at \in Working, NEW label \in Working, Moves(c, label, <<>>, 0),
             UNCHANGED <<requests, permits, stamp, clashed>>
      PROVE  Works(c, label)
    BY <1>1, <1>2, WorksMoves DEF Works
<1>3. CASE run_creates(c)
    <2>1. task[c].at = "run_create" /\ UNCHANGED <<permits, stamp, dirs, clashed, verdicts>>
        BY <1>3 DEF run_creates, At
    <2>2. CASE Goes(c, "run_start", <<>>) /\ containers' = containers \cup {task[c].run} /\ UNCHANGED litter
        <3>1. Works(c, "run_start")
            BY <1>1, <1>2, <2>1, <2>2, ZenonT(40) DEF Goes, Working
        <3>2. Docks(c, "run_start")
            BY <2>1, <2>2, <3>1 DEF Docks
        <3>3. QED
            BY <3>2, DocksKeeps
    <2>3. CASE /\ Moves(c, "run_cleanup", <<>>, 0) /\ requests' = requests
               /\ \/ UNCHANGED <<containers, litter>>
                  \/ containers' = containers \cup {task[c].run}
                     /\ litter' = litter \cup {<<"container", task[c].run>>}
        <3>1. Works(c, "run_cleanup")
            BY <1>2, <2>1, <2>3 DEF Working
        <3>2. Docks(c, "run_cleanup")
            BY <2>1, <2>3, <3>1 DEF Docks
        <3>3. QED
            BY <3>2, DocksKeeps
    <2>4. QED
        BY <1>3, <2>2, <2>3 DEF run_creates
<1>4. CASE run_begins(c)
    <2>1. task[c].at = "run_start" /\ UNCHANGED <<permits, stamp, dirs, containers, litter, clashed, verdicts>>
        BY <1>4 DEF run_begins, At, runVars
    <2>2. ASSUME NEW label \in {"run_wait", "run_remove"}, Moves(c, label, <<>>, 0), requests' = requests
          PROVE  RunInv'
        <3>1. Works(c, label)
            BY <1>2, <2>1, <2>2, ZenonT(40) DEF Working
        <3>2. Docks(c, label)
            BY <2>1, <2>2, <3>1, ZenonT(40) DEF Docks
        <3>3. QED
            BY <3>2, DocksKeeps
    <2>3. QED
        BY <1>1, <1>4, <2>2 DEF run_begins, Goes
<1>5. CASE run_waits(c)
    <2>1. task[c].at = "run_wait" /\ UNCHANGED <<permits, stamp, dirs, containers, litter, clashed>>
        BY <1>5 DEF run_waits, At
    <2>2. ASSUME Moves(c, "run_remove", <<>>, 0), requests' = requests,
                 verdicts' = verdicts \/ verdicts' = verdicts \cup {<<task[c].run, Judged(c)>>}
          PROVE  RunInv'
        <3>1. Works(c, "run_remove")
            BY <1>2, <2>1, <2>2 DEF Working
        <3>2. Docks(c, "run_remove")
            BY <2>1, <2>2, <3>1 DEF Docks
        <3>3. QED
            BY <3>2, DocksKeeps
    <2>3. QED
        BY <1>1, <1>5, <2>2, ZenonT(40) DEF run_waits, Goes
<1>6. CASE run_removes(c)
    <2>1. task[c].at = "run_remove" /\ UNCHANGED <<permits, stamp, dirs, clashed, verdicts>>
        BY <1>6 DEF run_removes, At
    <2>2. ASSUME Moves(c, "run_cleanup", <<>>, 0), requests' = requests,
                 \/ containers' = containers \ {task[c].run} /\ UNCHANGED litter
                 \/ litter' = litter \cup {<<"container", task[c].run>>} /\ UNCHANGED containers
          PROVE  RunInv'
        <3>1. Works(c, "run_cleanup")
            BY <1>2, <2>1, <2>2 DEF Working
        <3>2. Docks(c, "run_cleanup")
            BY <2>1, <2>2, <3>1 DEF Docks
        <3>3. QED
            BY <3>2, DocksKeeps
    <2>3. QED
        BY <1>1, <1>6, <2>2 DEF run_removes, Goes
<1>7. QED
    BY <1>3, <1>4, <1>5, <1>6

LEMMA CleanupKeeps ==
    ASSUME Counting, RunInv, NEW c \in Clients, run_cleans_up(c)
    PROVE  RunInv'
<1>1. /\ RunTypeOK /\ PermitsCounted /\ task[c].at = "run_cleanup" /\ Releaser
      /\ UNCHANGED <<stamp, containers, clashed, verdicts>>
      /\ task' = [task EXCEPT ![c] = Idle] /\ requests' = requests
    BY DEF RunInv, run_cleans_up, At, Answers, AnswersDespite, Unwinds
<1>2. /\ task'[c] = Idle /\ Idle.at \notin Holding
      /\ \A d \in Clients : d # c => task'[d] = task[d]
    BY <1>1, OthersStay DEF RunTypeOK, Idle, Holding, Working
<1>3. \/ /\ DOMAIN dirs' = DOMAIN dirs \ {task[c].dir} /\ UNCHANGED litter
         /\ \A s \in DOMAIN dirs' : dirs'[s] = dirs[s]
      \/ litter' = litter \cup {<<"dir", task[c].dir>>} /\ UNCHANGED dirs
    BY DEF run_cleans_up
<1>4. /\ DOMAIN dirs' \subseteq DOMAIN dirs /\ litter \subseteq litter'
      /\ dirs' = [s \in DOMAIN dirs' |-> dirs'[s]]
      /\ \A s \in DOMAIN dirs' : dirs'[s] = dirs[s]
      /\ \A s \in DOMAIN dirs : s = task[c].dir \/ s \in DOMAIN dirs'
      /\ task[c].dir \in DOMAIN dirs' => <<"dir", task[c].dir>> \in litter'
    <2>1. dirs' = [s \in DOMAIN dirs' |-> dirs'[s]]
        BY <1>1 DEF RunTypeOK, run_cleans_up
    <2>2. QED
        BY <1>3, <2>1
<1>5. RunTypeOK'
    BY <1>1, <1>4 DEF RunTypeOK, RunTasks, Releaser
<1>6. PermitsCounted'
    BY <1>1, <1>2, PermitReturned, ZenonT(40) DEF Holding, Working
<1>7. \A d \in Clients : task'[d].at \in Working => d # c /\ task'[d] = task[d]
    BY <1>2 DEF Holding
<1>8. Owned'
    <2>1. \A d \in Clients : task[d].at \in {"run_start", "run_wait", "run_remove"} => task'[d] = task[d]
        BY <1>1, <1>2
    <2>2. ASSUME NEW s \in DOMAIN dirs'
          PROVE  \/ <<"dir", s>> \in litter'
                 \/ \E d \in Clients : task'[d].at \in Working /\ task'[d].dir = s
        <3>1. CASE s = task[c].dir
            BY <1>4, <2>2, <3>1
        <3>2. CASE s # task[c].dir
            <4>1. \A d \in Clients : task[d].dir = s => task'[d] = task[d]
                BY <1>2, <3>2
            <4>2. QED
                BY <1>4, <2>2, <4>1 DEF RunInv, Owned
        <3>3. QED
            BY <3>1, <3>2
    <2>3. QED
        BY <1>1, <1>4, <2>1, <2>2 DEF RunInv, Owned
<1>9. ClashesKnown'
    BY <1>1, <1>7 DEF RunInv, ClashesKnown
<1>10. TaskIsThere'
    <2>1. ASSUME NEW d \in Clients, task'[d].at \in {"run_create", "run_start", "run_wait"}
          PROVE  \/ task'[d].run \in clashed
                 \/ task'[d].dir \in DOMAIN dirs' /\ dirs'[task'[d].dir] = task'[d].run
        <3>1. d # c /\ task'[d] = task[d] /\ task[d].at \in Working
            BY <1>7, <2>1 DEF Working
        <3>2. CASE task[d].dir = task[c].dir
            BY <1>1, <3>1, <3>2 DEF RunInv, ClashesKnown, Working
        <3>3. CASE task[d].dir # task[c].dir
            BY <1>4, <2>1, <3>1, <3>3 DEF RunInv, TaskIsThere
        <3>4. QED
            BY <3>2, <3>3
    <2>2. QED
        BY <1>1, <2>1 DEF TaskIsThere
<1>11. SampleIsOwn'
    BY <1>1 DEF RunInv, SampleIsOwn
<1>12. QED
    BY <1>5, <1>6, <1>8, <1>9, <1>10, <1>11 DEF RunInv

RunStart == (\E n \in Nat : RequestsInit(n)) /\ RunnerInit

LEMMA RunStartHolds == Counting /\ RunStart => RunInv
<1> SUFFICES ASSUME Counting, RunStart
             PROVE  RunInv
    OBVIOUS
<1>1. /\ task = [c \in Clients |-> Idle] /\ requests \in Nat /\ permits = MaxRuns /\ stamp = 1
      /\ dirs = [s \in {} |-> 0] /\ containers = {} /\ verdicts = {}
    BY DEF RunStart, RequestsInit, RunnerInit
<1>2. \A c \in Clients : task[c] = Idle /\ task[c].at = "idle"
    BY <1>1 DEF Idle
<1>3. RunTypeOK
    BY <1>1, RunnerAssumption DEF RunTypeOK, RunTasks
<1>4. PermitsCounted
    <2>1. Permitted = {}
        BY <1>2 DEF Permitted, Working
    <2>2. QED
        BY <1>1, <2>1, RunnerAssumption DEF Counting, PermitsCounted
<1>5. Owned /\ SampleIsOwn
    BY <1>1 DEF Owned, SampleIsOwn
<1>6. ClashesKnown /\ TaskIsThere
    BY <1>2 DEF ClashesKnown, TaskIsThere, Working
<1>7. QED
    BY <1>3, <1>4, <1>5, <1>6 DEF RunInv

LEMMA RunInductive == Counting /\ RunInv /\ [RunnerSteps]_runStep => RunInv'
<1> SUFFICES ASSUME Counting, RunInv, [RunnerSteps]_runStep
             PROVE  RunInv'
    OBVIOUS
<1>1. ASSUME UNCHANGED <<task, requests, permits, dirs, containers, litter, clashed, verdicts>>, stamp' \in Nat
      PROVE  RunInv'
    <2>1. RunTypeOK'
        BY <1>1 DEF RunInv, RunTypeOK
    <2>2. PermitsCounted'
        BY <1>1 DEF RunInv, PermitsCounted, Permitted
    <2>3. Owned' /\ ClashesKnown' /\ TaskIsThere' /\ SampleIsOwn'
        BY <1>1 DEF RunInv, Owned, ClashesKnown, TaskIsThere, SampleIsOwn
    <2>4. QED
        BY <2>1, <2>2, <2>3 DEF RunInv
<1>2. stamp \in Nat
    BY DEF RunInv, RunTypeOK
<1>3. ASSUME NEW c \in Clients, RunnerNext(c)
      PROVE  RunInv'
    BY <1>3, PreparesKeeps, MakesDirKeeps, WritesKeeps, DockerKeeps, CleanupKeeps, ZenonT(40) DEF RunnerNext
<1>4. CASE microsecond /\ UNCHANGED reqVars
    BY <1>1, <1>2, <1>4 DEF microsecond, reqVars
<1>5. CASE connections_elsewhere
    BY <1>1, <1>2, <1>5 DEF connections_elsewhere, runVars
<1>6. CASE UNCHANGED runStep
    BY <1>1, <1>2, <1>6 DEF runStep, reqVars, runVars
<1>7. QED
    BY <1>3, <1>4, <1>5, <1>6 DEF RunnerSteps

-----------------------------------------------------------------------------
INSTANCE FiniteSetTheorems

LEMMA CountingHolds == Counting
<1>1. IsFiniteSet({}) /\ Cardinality({}) = 0
    BY FS_EmptySet
<1>2. ASSUME NEW n \in Nat
      PROVE  IsFiniteSet(1 .. n)
    BY FS_Interval
<1>3. ASSUME NEW S, IsFiniteSet(S)
      PROVE  Cardinality(S) \in Nat
    BY <1>3, FS_CardinalityType
<1>4. ASSUME NEW S, NEW T \in SUBSET S, IsFiniteSet(S)
      PROVE  IsFiniteSet(T) /\ Cardinality(T) <= Cardinality(S)
    BY <1>4, FS_Subset
<1>5. ASSUME NEW S, NEW x, IsFiniteSet(S), x \notin S
      PROVE  IsFiniteSet(S \cup {x}) /\ Cardinality(S \cup {x}) = Cardinality(S) + 1
    BY <1>5, FS_AddElement
<1>6. ASSUME NEW S, NEW x \in S, IsFiniteSet(S)
      PROVE  Cardinality(S \ {x}) = Cardinality(S) - 1
    BY <1>6, FS_RemoveElement
<1>7. QED
    BY <1>1, <1>2, <1>3, <1>4, <1>5, <1>6, ZenonT(40) DEF Counting

-----------------------------------------------------------------------------
(***************************************************************************)
(* For every number of threads, permits and failing calls: once no request *)
(* is under way, SampleRunner::run has given back every permit, and what   *)
(* is left of containers and task directories was left by a call that      *)
(* failed.                                                                 *)
(***************************************************************************)
THEOREM RunsCleanUp == RunnerSpec => []RunsLeaveNothing
<1>1. RunInv => RunsLeaveNothing
    <2> SUFFICES ASSUME RunInv, Quiet
                 PROVE  /\ permits = MaxRuns
                        /\ \A r \in containers : <<"container", r>> \in litter
                        /\ \A s \in DOMAIN dirs : <<"dir", s>> \in litter
        BY DEF RunsLeaveNothing
    <2>1. \A c \in Clients : task[c].at = "idle"
        BY DEF Quiet, At
    <2>2. permits = MaxRuns
        <3>1. Permitted = {}
            BY <2>1 DEF Permitted, Working
        <3>2. QED
            BY <3>1, CountingHolds, RunnerAssumption DEF Counting, RunInv, RunTypeOK, PermitsCounted
    <2>3. QED
        BY <2>1, <2>2 DEF RunInv, Owned, Working
<1>2. RunnerSpec => RunStart /\ [][RunnerSteps]_runStep
    BY DEF RunnerSpec, RunStart, runStep
<1>3. QED
    BY <1>1, <1>2, RunStartHolds, RunInductive, CountingHolds, PTL

(***************************************************************************)
(* For every number of threads, permits and failing calls: the samples a   *)
(* request is answered with are those of its own program, unless another   *)
(* run's task directory was made in the same microsecond.                  *)
(***************************************************************************)
THEOREM SamplesAreOwn == RunnerSpec => []SampleIsOwn
<1>1. RunInv => SampleIsOwn
    BY DEF RunInv
<1>2. RunnerSpec => RunStart /\ [][RunnerSteps]_runStep
    BY DEF RunnerSpec, RunStart, runStep
<1>3. QED
    BY <1>1, <1>2, RunStartHolds, RunInductive, CountingHolds, PTL
=============================================================================
