----------------------------- MODULE RateLimiter -----------------------------
(***************************************************************************)
(* rate_limit.h: a token bucket for every client of a quota.  consume()    *)
(* runs under the limiter's mutex, so it is one step.  Time is in ticks,   *)
(* Ms of them to a millisecond: elapsed time is cut to whole milliseconds. *)
(* A token is counted in parts of 1/WindowMs, so that a millisecond adds   *)
(* Capacity parts; the code counts in double.                              *)
(***************************************************************************)
EXTENDS Naturals, Sequences, FiniteSets, FiniteSetsExt

CONSTANTS Keys,         \* what resolve_client_key returns: users and addresses
          Capacity,     \* RateLimitQuota::capacity
          WindowMs,     \* RateLimitQuota::window, in milliseconds
          Ms,           \* ticks to a millisecond
          SecondMs,     \* milliseconds to the second that Retry-After counts
          MaxKeys,      \* kRateLimitMaxTrackedKeys
          LastTick      \* bound on the time

ASSUME RateAssumption ==
    /\ {Capacity, WindowMs, Ms, SecondMs, MaxKeys} \subseteq Nat \ {0}
    /\ LastTick \in Nat

ASSUME QuotaAssumption == Capacity <= WindowMs  \* at most one request per millisecond

VARIABLES now,
          buckets,      \* buckets_, of the keys that have one
          granted,      \* history: when requests were let in, by key
          hint          \* history: from when on a refused client was told to come back

rateVars == <<now, buckets, granted, hint>>

Full == Capacity * WindowMs

RateInit ==
    /\ now = 0
    /\ buckets = [k \in {} |-> 0]
    /\ granted = [k \in Keys |-> <<>>]
    /\ hint = [k \in Keys |-> 0]

Least(a, b) == IF a < b THEN a ELSE b

(***************************************************************************)
(* prune_if_needed_locked: with too many buckets the full ones go, and if  *)
(* that does not help the tenth that was used least recently, at least     *)
(* one.  std::sort orders equal times as it likes.                         *)
(***************************************************************************)
NotFull == {k \in DOMAIN buckets : buckets[k].tokens < Full}

Oldest(drop) ==
    /\ drop \subseteq NotFull
    /\ Cardinality(drop) = Max({1, Cardinality(NotFull) \div 10})
    /\ \A k \in drop, l \in NotFull \ drop : buckets[k].last_refill <= buckets[l].last_refill

Pruned(kept) ==
    IF Cardinality(DOMAIN buckets) < MaxKeys THEN kept = DOMAIN buckets
    ELSE IF Cardinality(NotFull) < MaxKeys THEN kept = NotFull
    ELSE Oldest(NotFull \ kept) /\ kept \subseteq NotFull

(***************************************************************************)
(* The bucket of k at this time: a new one is full; elapsed_ms adds its    *)
(* share and moves last_refill only if it is not zero.                     *)
(***************************************************************************)
ElapsedMs(b) == (now - b.last_refill) \div Ms

Refilled(b) ==
    IF ElapsedMs(b) > 0
    THEN [tokens |-> Least(Full, b.tokens + ElapsedMs(b) * Capacity), last_refill |-> now]
    ELSE b

BucketOf_keeps_time(k, kept) ==
    IF k \in kept
    THEN [Refilled(buckets[k]) EXCEPT !.last_refill = buckets[k].last_refill]
    ELSE [tokens |-> Full, last_refill |-> now]

BucketOf(k, kept) ==
    IF k \in kept THEN Refilled(buckets[k]) ELSE [tokens |-> Full, last_refill |-> now]

Stored(k, kept, b) == [l \in kept \cup {k} |-> IF l = k THEN b ELSE buckets[l]]

(***************************************************************************)
(* retry_after: need_ms / 1000 + 0.999, cut to whole seconds, at least 1.  *)
(***************************************************************************)
RetryCut(tokens) == Max({1, (WindowMs - tokens) \div (Capacity * SecondMs)})

RetryAfter(tokens) ==
    Max({1, (WindowMs - tokens + Capacity * (SecondMs - 1)) \div (Capacity * SecondMs)})

(***************************************************************************)
(* consume.  A client whose bucket was dropped before it was full starts   *)
(* afresh, and so does its history.                                        *)
(***************************************************************************)
consume(k) ==
    \E kept \in SUBSET DOMAIN buckets :
        LET b == BucketOf(k, kept)
            past == [l \in Keys |-> IF l \in NotFull \ kept THEN <<>> ELSE granted[l]]
        IN
        /\ Pruned(kept)
        /\ IF b.tokens >= WindowMs
           THEN /\ buckets' = Stored(k, kept, [b EXCEPT !.tokens = @ - WindowMs])
                /\ granted' = [past EXCEPT ![k] = Append(@, now)]
                /\ hint' = [hint EXCEPT ![k] = 0]
           ELSE /\ buckets' = Stored(k, kept, b)
                /\ granted' = past
                /\ hint' = [hint EXCEPT ![k] = now + RetryAfter(b.tokens) * SecondMs * Ms]
        /\ UNCHANGED now

rate_tick ==
    /\ now < LastTick
    /\ now' = now + 1
    /\ UNCHANGED <<buckets, granted, hint>>

RateNext == rate_tick \/ \E k \in Keys : consume(k)

RateSpec == RateInit /\ [][RateNext]_rateVars

(***************************************************************************)
(* Whatever the limiter forgets or refills, the requests of a client that  *)
(* consume() lets in between any two of them are at most the capacity and  *)
(* what the time between them is worth, unless its bucket was dropped to   *)
(* make room before it was full.                                           *)
(***************************************************************************)
RateBounded ==
    \A k \in Keys : \A i, j \in DOMAIN granted[k] :
        i <= j => (j - i + 1) * WindowMs * Ms <=
                      Full * Ms + (granted[k][j] - granted[k][i]) * Capacity

(***************************************************************************)
(* "Retry-After": a client that was refused and comes back a millisecond   *)
(* after the seconds it was told is let in.  A millisecond, because        *)
(* consume() rounds with 0.999 and the need may be a fraction of one.      *)
(***************************************************************************)
RetryAfterSuffices ==
    \A k \in Keys :
        (hint[k] > 0 /\ now >= hint[k] + Ms) => BucketOf(k, DOMAIN buckets).tokens >= WindowMs
=============================================================================
