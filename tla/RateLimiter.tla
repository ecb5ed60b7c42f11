----------------------------- MODULE RateLimiter -----------------------------
(***************************************************************************)
(* internal/ratelimit: a token bucket per client, filled up lazily from    *)
(* the time of its last use, created on the first request and deleted by a *)
(* sweeper goroutine when it has been idle for longer than an interval.    *)
(*                                                                         *)
(* Every action is one critical section of Limiter.mu.  Token counts are   *)
(* integers in units of 1/Token token; the rounding of float64 is left     *)
(* out.  The clock is Go's monotonic clock in ticks, up to MaxTime.        *)
(***************************************************************************)
EXTENDS Integers

CONSTANTS
    Keys,            \* client keys
    Rate,            \* units a bucket gains per tick
    Token,           \* units that make one token
    Burst,           \* BurstSize, in tokens
    CleanupInterval, \* ticks between sweeps, and the idle time that a bucket survives
    NoBucket, NoAnswer,
    MaxTime          \* bound on the clock

ASSUME LimiterAssumption ==
    /\ Rate \in Nat \ {0}
    /\ Token \in Nat \ {0}
    /\ Burst \in Nat \ {0}
    /\ CleanupInterval \in Nat \ {0}
    /\ MaxTime \in Nat
    /\ NoBucket \notin [tokens : Int, last : Int]

Full == Burst * Token

AtMostFull(x) == IF x > Full THEN Full ELSE x

VARIABLES
    now,      \* the clock
    bucket,   \* l.buckets: key -> bucket, or NoBucket
    ticked,   \* the ticker's channel, of capacity one, holds a tick
    stopCh,   \* "open" or "closed"
    sweeper,  \* the cleanup goroutine is alive
    answer,   \* history: the last call of a client and its answer, or NoAnswer
    granted,  \* history: requests granted to a key since it was last reset ...
    since     \* ... and the time of that reset

vars == <<now, bucket, ticked, stopCh, sweeper, answer, granted, since>>

Init ==
    /\ now     = 0
    /\ bucket  = [k \in Keys |-> NoBucket]
    /\ ticked  = FALSE
    /\ stopCh  = "open"
    /\ sweeper = TRUE
    /\ answer  = NoAnswer
    /\ granted = [k \in Keys |-> 0]
    /\ since   = [k \in Keys |-> 0]

-----------------------------------------------------------------------------

\* Units in bucket b once the time since its last use is credited.
Refilled(b) == AtMostFull(b.tokens + (now - b.last) * Rate)

\* The first request of a client, which creates its bucket ...
AllowNew(k) ==
    /\ bucket[k] = NoBucket
    /\ bucket'  = [bucket EXCEPT ![k] = [tokens |-> Full - Token, last |-> now]]
    /\ answer'  = <<k, "granted">>
    /\ granted' = [granted EXCEPT ![k] = @ + 1]

\* Mutant: credit for idle time is not limited to the burst.
AllowKnownUncapped(k) ==
    LET t == bucket[k].tokens + (now - bucket[k].last) * Rate
    IN /\ bucket[k] # NoBucket
       /\ bucket' = [bucket EXCEPT ![k].tokens = IF t >= Token THEN t - Token ELSE t,
                                   ![k].last = now]
       /\ granted' = [granted EXCEPT ![k] = IF t >= Token THEN @ + 1 ELSE @]
       /\ answer' = <<k, IF t >= Token THEN "granted" ELSE "denied">>

\* Mutant: a denied request credits the idle time but keeps the old lastUpdate.
AllowKnownTwiceCredited(k) ==
    LET t == Refilled(bucket[k])
    IN /\ bucket[k] # NoBucket
       /\ \/ /\ t >= Token
             /\ bucket'  = [bucket EXCEPT ![k] = [tokens |-> t - Token, last |-> now]]
             /\ granted' = [granted EXCEPT ![k] = @ + 1]
             /\ answer'  = <<k, "granted">>
          \/ /\ t < Token
             /\ bucket' = [bucket EXCEPT ![k].tokens = t]
             /\ answer' = <<k, "denied">>
             /\ UNCHANGED granted

\* ... and a later one, which credits the time since the last.
AllowKnown(k) ==
    LET t == Refilled(bucket[k])
    IN /\ bucket[k] # NoBucket
       /\ \/ /\ t >= Token
             /\ bucket'  = [bucket EXCEPT ![k] = [tokens |-> t - Token, last |-> now]]
             /\ granted' = [granted EXCEPT ![k] = @ + 1]
             /\ answer'  = <<k, "granted">>
          \/ /\ t < Token
             /\ bucket' = [bucket EXCEPT ![k] = [tokens |-> t, last |-> now]]
             /\ answer' = <<k, "denied">>
             /\ UNCHANGED granted

Allow(k) ==
    /\ AllowNew(k) \/ AllowKnown(k)
    /\ UNCHANGED <<now, ticked, stopCh, sweeper, since>>

\* Mutant: Remaining does not limit the credit for idle time to the burst.
RemainingUncapped(k) ==
    LET t == bucket[k].tokens + (now - bucket[k].last) * Rate
    IN /\ \/ bucket[k] = NoBucket /\ answer' = <<k, "remaining", Burst>>
          \/ bucket[k] # NoBucket /\ answer' = <<k, "remaining", t \div Token>>
       /\ UNCHANGED <<now, bucket, ticked, stopCh, sweeper, granted, since>>

\* Remaining computes the credit anew and leaves the bucket alone.
Remaining(k) ==
    LET t == bucket[k].tokens + (now - bucket[k].last) * Rate
    IN /\ \/ bucket[k] = NoBucket /\ answer' = <<k, "remaining", Burst>>
          \/ /\ bucket[k] # NoBucket
             /\ answer' = <<k, "remaining", (IF t > Full THEN Full ELSE t) \div Token>>
       /\ UNCHANGED <<now, bucket, ticked, stopCh, sweeper, granted, since>>

Reset(k) ==
    /\ bucket'  = [bucket EXCEPT ![k] = NoBucket]
    /\ granted' = [granted EXCEPT ![k] = 0]
    /\ since'   = [since EXCEPT ![k] = now]
    /\ answer'  = <<k, "reset">>
    /\ UNCHANGED <<now, ticked, stopCh, sweeper>>

\* A close of a closed channel panics: Stop is called once.
Stop ==
    /\ stopCh = "open"
    /\ stopCh' = "closed"
    /\ UNCHANGED <<now, bucket, ticked, sweeper, answer, granted, since>>

-----------------------------------------------------------------------------
(* Time, and the cleanup goroutine *)

Tick ==
    /\ now < MaxTime
    /\ now' = now + 1
    /\ ticked' = (ticked \/ (sweeper /\ now' % CleanupInterval = 0))
    /\ UNCHANGED <<bucket, stopCh, sweeper, answer, granted, since>>

Stale(k) == bucket[k] # NoBucket /\ now - bucket[k].last > CleanupInterval

\* Mutant: half the idle time is enough for a bucket to be swept.
SweepEarly ==
    /\ sweeper
    /\ ticked
    /\ ticked' = FALSE
    /\ bucket' = [k \in Keys |-> IF /\ bucket[k] # NoBucket
                                    /\ 2 * (now - bucket[k].last) > CleanupInterval
                                 THEN NoBucket ELSE bucket[k]]
    /\ UNCHANGED <<now, stopCh, sweeper, answer, granted, since>>

\* The goroutine receives the tick and, under the lock, deletes the buckets
\* that are stale then.  It may do so after stopCh was closed: select chooses.
Sweep ==
    /\ sweeper
    /\ ticked
    /\ ticked' = FALSE
    /\ bucket' = [k \in Keys |-> IF Stale(k) THEN NoBucket ELSE bucket[k]]
    /\ UNCHANGED <<now, stopCh, sweeper, answer, granted, since>>

SweeperExit ==
    /\ sweeper
    /\ stopCh = "closed"
    /\ sweeper' = FALSE
    /\ ticked' = FALSE
    /\ UNCHANGED <<now, bucket, stopCh, answer, granted, since>>

Next ==
    \/ \E k \in Keys : Allow(k) \/ Remaining(k) \/ Reset(k)
    \/ Stop
    \/ Tick
    \/ Sweep
    \/ SweeperExit

Spec == Init /\ [][Next]_vars

-----------------------------------------------------------------------------
(* Properties *)

TypeOK ==
    /\ now     \in 0 .. MaxTime
    /\ bucket  \in [Keys -> [tokens : 0 .. Full, last : 0 .. MaxTime] \cup {NoBucket}]
    /\ ticked  \in BOOLEAN
    /\ stopCh  \in {"open", "closed"}
    /\ sweeper \in BOOLEAN
    /\ answer  \in {NoAnswer} \cup (Keys \X {"granted", "denied", "reset"})
                  \cup (Keys \X {"remaining"} \X Nat)
    /\ granted \in [Keys -> Nat]
    /\ since   \in [Keys -> 0 .. MaxTime]

\* The units a client has at its disposal, whether or not it has a bucket.
Level(k) == IF bucket[k] = NoBucket THEN Full ELSE Refilled(bucket[k])

\* The limit itself: since it was last reset, a client was granted no more
\* than one burst plus what the rate allows for the time elapsed.  Deleting a
\* bucket (sweeper) and creating it anew (Allow) must not hand out a second burst.
RateBound ==
    \A k \in Keys : granted[k] * Token <= Full + (now - since[k]) * Rate

Ideal == INSTANCE IdealLimiter WITH level <- [k \in Keys |-> Level(k)]

\* Seen from its clients, the lazy limiter with its sweeper is the ideal one:
\* each request is granted or denied, and each Remaining answered, as by a bucket
\* that exists for ever and is filled up by time and by Reset alone.  A sweep of a
\* bucket that was not full would be a refill nobody asked for.
\* It holds of configurations whose CleanupInterval suffices to fill a bucket.
ImplementsIdeal == Ideal!Spec
=============================================================================
