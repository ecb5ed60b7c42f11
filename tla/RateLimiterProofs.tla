------------------------- MODULE RateLimiterProofs -------------------------
(***************************************************************************)
(* For every configuration whose CleanupInterval is long enough to fill a  *)
(* bucket, the limiter grants no more than its rate and implements the     *)
(* ideal limiter.                                                          *)
(*                                                                         *)
(* The argument is a potential: what a client was granted plus what its    *)
(* bucket holds never exceeds a burst plus what time has refilled.         *)
(***************************************************************************)
EXTENDS RateLimiter, TLAPS

\* Idle for longer than CleanupInterval means full.
SweepIsLate == (CleanupInterval + 1) * Rate >= Full

ClockOK == \A k \in Keys :
             /\ since[k] <= now
             /\ bucket[k] # NoBucket => bucket[k].last <= now

Potential ==
    \A k \in Keys : granted[k] * Token + Level(k) <= Full + (now - since[k]) * Rate

TypeInv == TypeOK /\ ClockOK

IInv == TypeInv /\ Potential

-----------------------------------------------------------------------------

LEMMA ConstantFacts ==
    /\ Rate \in Nat /\ Rate >= 1
    /\ Token \in Nat /\ Token >= 1
    /\ Burst \in Nat
    /\ Full \in Nat /\ Full >= Token
    /\ CleanupInterval \in Nat
    /\ MaxTime \in Nat
    /\ \A b \in [tokens : 0 .. Full, last : 0 .. MaxTime] : b # NoBucket
<1>1. Rate \in Nat /\ Rate >= 1 /\ Token \in Nat /\ Token >= 1 /\ Burst \in Nat
      /\ Burst >= 1 /\ CleanupInterval \in Nat /\ MaxTime \in Nat
  BY LimiterAssumption
<1>2. \A a, b \in Nat : b >= 1 => b * a \in Nat /\ b * a >= a
  OBVIOUS
<1>3. Full \in Nat /\ Full >= Token
  BY <1>1, <1>2 DEF Full
<1>4. \A b \in [tokens : 0 .. Full, last : 0 .. MaxTime] : b # NoBucket
  <2>1. 0 .. Full \subseteq Int /\ 0 .. MaxTime \subseteq Int
    BY <1>1, <1>3
  <2>2. [tokens : 0 .. Full, last : 0 .. MaxTime] \subseteq [tokens : Int, last : Int]
    BY <2>1
  <2> QED
    BY <2>2, LimiterAssumption
<1> QED
  BY <1>1, <1>3, <1>4

\* Refilling is linear in time, and a product of naturals is a natural.
LEMMA Product ==
  ASSUME NEW a \in Nat, NEW r \in Nat
  PROVE  /\ a * r \in Nat
         /\ (a + 1) * r = a * r + r
  OBVIOUS

LEMMA ProductMonotone ==
  ASSUME NEW a \in Nat, NEW b \in Nat, NEW r \in Nat, a <= b
  PROVE  a * r <= b * r
<1>1. PICK d \in Nat : b = a + d
  <2>1. b - a \in Nat /\ b = a + (b - a)
    OBVIOUS
  <2> QED
    BY <2>1
<1>2. b * r = a * r + d * r /\ d * r \in Nat /\ a * r \in Nat
  BY <1>1
<1> QED
  BY <1>2

\* A natural divided by a positive one is a natural, and so many whole tokens
\* count as that number of tokens.
LEMMA Quotient ==
  ASSUME NEW x \in Nat, NEW d \in Nat, d >= 1
  PROVE  x \div d \in Nat
OBVIOUS

LEMMA WholeTokens ==
  ASSUME NEW b \in Nat, NEW d \in Nat, d >= 1
  PROVE  (b * d) \div d = b
<1>1. PICK q \in Nat : q = (b * d) \div d
  <2>1. b * d \in Nat
    BY Product
  <2> QED
    BY <2>1, Quotient
<1>2. PICK r \in Nat : b * d = q * d + r /\ r < d
  <2>1. b * d \in Nat /\ q * d \in Nat
    BY Product
  <2>2. q * d <= b * d /\ b * d < q * d + d
    BY <1>1, <2>1
  <2>3. b * d - q * d \in Nat
    BY <2>1, <2>2
  <2> QED
    BY <2>1, <2>2, <2>3
<1>3. CASE q >= b + 1
  <2>1. (b + 1) * d <= q * d /\ (b + 1) * d = b * d + d
    BY <1>3, ProductMonotone, Product
  <2>2. b * d \in Nat /\ q * d \in Nat
    BY Product
  <2> QED
    BY <1>2, <2>1, <2>2
<1>4. CASE q + 1 <= b
  <2>1. (q + 1) * d <= b * d /\ (q + 1) * d = q * d + d
    BY <1>4, ProductMonotone, Product
  <2>2. b * d \in Nat /\ q * d \in Nat
    BY Product
  <2> QED
    BY <1>2, <2>1, <2>2
<1> QED
  BY <1>1, <1>3, <1>4

\* The level of a client is a natural number of at most a full bucket.
LEMMA LevelRange ==
  ASSUME TypeOK, ClockOK, NEW k \in Keys
  PROVE  Level(k) \in 0 .. Full
<1>1. CASE bucket[k] = NoBucket
  BY <1>1, ConstantFacts DEF Level
<1>2. CASE bucket[k] # NoBucket
  <2>1. bucket[k].tokens \in 0 .. Full /\ now - bucket[k].last \in Nat
    BY <1>2 DEF TypeOK, ClockOK
  <2>2. (now - bucket[k].last) * Rate \in Nat
    BY <2>1, Product, ConstantFacts
  <2> QED
    BY <1>2, <2>1, <2>2, ConstantFacts DEF Level, Refilled, AtMostFull
<1> QED
  BY <1>1, <1>2

\* A bucket that has just been written holds the tokens written.
LEMMA LevelOfFresh ==
  ASSUME NEW k \in Keys, NEW t \in 0 .. Full, NEW n \in 0 .. MaxTime,
         now' = n, bucket'[k] = [tokens |-> t, last |-> n]
  PROVE  Level(k)' = t
<1>1. bucket'[k] # NoBucket /\ bucket'[k].tokens = t /\ bucket'[k].last = n
  BY ConstantFacts
<1>2. (n - n) * Rate = 0
  BY ConstantFacts
<1> QED
  BY <1>1, <1>2, ConstantFacts DEF Level, Refilled, AtMostFull

\* A tick refills every client, with or without a bucket, by Rate.
LEMMA LevelAfterTick ==
  ASSUME TypeOK, ClockOK, Tick, NEW k \in Keys
  PROVE  Level(k)' = AtMostFull(Level(k) + Rate)
<1>1. now' = now + 1 /\ bucket' = bucket /\ now \in Nat
  BY ConstantFacts DEF Tick, TypeOK
<1>2. CASE bucket[k] = NoBucket
  BY <1>1, <1>2, ConstantFacts DEF Level, AtMostFull
<1>3. CASE bucket[k] # NoBucket
  <2> DEFINE idle == now - bucket[k].last
             t == bucket[k].tokens
  <2>1. t \in 0 .. Full /\ idle \in Nat /\ now' - bucket[k].last = idle + 1
    BY <1>1, <1>3 DEF TypeOK, ClockOK
  <2>2. (idle + 1) * Rate = idle * Rate + Rate /\ idle * Rate \in Nat
    BY <2>1, Product, ConstantFacts
  <2>3. Level(k)' = AtMostFull(t + (idle + 1) * Rate)
    BY <1>1, <1>3, <2>1 DEF Level, Refilled, AtMostFull, Full
  <2>4. Level(k) = AtMostFull(t + idle * Rate)
    BY <1>3 DEF Level, Refilled
  <2> HIDE DEF idle, t
  <2> QED
    BY <2>1, <2>2, <2>3, <2>4, ConstantFacts DEF AtMostFull
<1> QED
  BY <1>2, <1>3

\* The sweeper, if it is late enough, only deletes what is full.
LEMMA LevelAfterSweep ==
  ASSUME SweepIsLate, TypeOK, ClockOK, Sweep, NEW k \in Keys
  PROVE  Level(k)' = Level(k)
<1>1. now' = now /\ bucket'[k] = IF Stale(k) THEN NoBucket ELSE bucket[k]
  BY DEF Sweep
<1>2. CASE ~Stale(k)
  BY <1>1, <1>2 DEF Level, Refilled, AtMostFull, Full
<1>3. CASE Stale(k)
  <2>1. /\ bucket[k].tokens \in 0 .. Full
        /\ now - bucket[k].last \in Nat
        /\ CleanupInterval + 1 <= now - bucket[k].last
    BY <1>3, ConstantFacts DEF TypeOK, ClockOK, Stale
  <2>2. (CleanupInterval + 1) * Rate <= (now - bucket[k].last) * Rate
    BY <2>1, ProductMonotone, ConstantFacts
  <2>3. (now - bucket[k].last) * Rate \in Nat /\ (CleanupInterval + 1) * Rate \in Nat
    BY <2>1, Product, ConstantFacts
  <2>4. Level(k) = Full
    BY <1>3, <2>1, <2>2, <2>3, ConstantFacts
       DEF SweepIsLate, Stale, Level, Refilled, AtMostFull
  <2>5. Level(k)' = Full
    BY <1>1, <1>3 DEF Level, Full
  <2> QED
    BY <2>4, <2>5
<1> QED
  BY <1>2, <1>3

\* Allow touches the bucket and the history of one client only.
LEMMA AllowFrame ==
  ASSUME TypeOK, NEW k \in Keys, Allow(k)
  PROVE  /\ UNCHANGED <<now, ticked, stopCh, sweeper, since>>
         /\ \A j \in Keys : j # k => /\ bucket'[j] = bucket[j]
                                     /\ granted'[j] = granted[j]
                                     /\ Level(j)' = Level(j)
<1>1. UNCHANGED <<now, ticked, stopCh, sweeper, since>>
  BY DEF Allow
<1>2. \A j \in Keys : j # k => bucket'[j] = bucket[j]
  BY DEF Allow, AllowNew, AllowKnown, TypeOK
<1>3. \A j \in Keys : j # k => granted'[j] = granted[j]
  BY DEF Allow, AllowNew, AllowKnown, TypeOK
<1>4. \A j \in Keys : j # k => Level(j)' = Level(j)
  BY <1>1, <1>2 DEF Level, Refilled, AtMostFull, Full
<1> QED
  BY <1>1, <1>2, <1>3, <1>4

\* What a request does to the bucket, by the level it finds.
LEMMA AllowBucket ==
  ASSUME TypeOK, ClockOK, NEW k \in Keys, Allow(k), NEW L \in Int, L = Level(k)
  PROVE  /\ L >= Token => /\ bucket'  = [bucket EXCEPT ![k] = [tokens |-> L - Token, last |-> now]]
                          /\ answer'  = <<k, "granted">>
                          /\ granted' = [granted EXCEPT ![k] = @ + 1]
         /\ L < Token => /\ bucket'  = [bucket EXCEPT ![k] = [tokens |-> L, last |-> now]]
                         /\ answer'  = <<k, "denied">>
                         /\ granted' = granted
<1>1. CASE AllowNew(k)
  <2>1. L = Full /\ L >= Token
    BY <1>1, ConstantFacts DEF AllowNew, Level
  <2>2. ~(L < Token)
    BY <2>1, ConstantFacts
  <2> QED
    BY <1>1, <2>1, <2>2 DEF AllowNew
<1>2. CASE AllowKnown(k)
  <2>1. L = Refilled(bucket[k])
    BY <1>2 DEF AllowKnown, Level
  <2>2. \/ /\ L >= Token
           /\ bucket'  = [bucket EXCEPT ![k] = [tokens |-> L - Token, last |-> now]]
           /\ granted' = [granted EXCEPT ![k] = @ + 1]
           /\ answer'  = <<k, "granted">>
        \/ /\ L < Token
           /\ bucket' = [bucket EXCEPT ![k] = [tokens |-> L, last |-> now]]
           /\ answer' = <<k, "denied">>
           /\ granted' = granted
    BY <1>2, <2>1, Zenon DEF AllowKnown
  <2>3. L < Token <=> ~(L >= Token)
    BY ConstantFacts
  <2> QED
    BY <2>2, <2>3, Zenon
<1> QED
  BY <1>1, <1>2 DEF Allow

\* The level after a request, and the shape of the bucket it leaves.
LEMMA LevelAfterAllow ==
  ASSUME TypeOK, ClockOK, NEW k \in Keys, Allow(k), NEW L \in Int, L = Level(k)
  PROVE  /\ L >= Token => Level(k)' = L - Token
         /\ L < Token => Level(k)' = L
         /\ \E t \in 0 .. Full : bucket' = [bucket EXCEPT ![k] = [tokens |-> t, last |-> now]]
<1>1. now' = now /\ now \in 0 .. MaxTime
  BY AllowFrame DEF TypeOK
<1>2. L \in 0 .. Full
  BY LevelRange
<1>3. CASE L >= Token
  <2>1. L - Token \in 0 .. Full /\ ~(L < Token)
    BY <1>2, <1>3, ConstantFacts
  <2>2. bucket' = [bucket EXCEPT ![k] = [tokens |-> L - Token, last |-> now]]
    BY <1>3, AllowBucket
  <2>3. bucket'[k] = [tokens |-> L - Token, last |-> now]
    BY <2>2 DEF TypeOK
  <2>4. Level(k)' = L - Token
    BY <1>1, <2>1, <2>3, LevelOfFresh
  <2> QED
    BY <1>3, <2>1, <2>2, <2>4
<1>4. CASE L < Token
  <2>1. ~(L >= Token)
    BY <1>4, ConstantFacts
  <2>2. bucket' = [bucket EXCEPT ![k] = [tokens |-> L, last |-> now]]
    BY <1>4, AllowBucket
  <2>3. bucket'[k] = [tokens |-> L, last |-> now]
    BY <2>2 DEF TypeOK
  <2>4. Level(k)' = L
    BY <1>1, <1>2, <2>3, LevelOfFresh
  <2> QED
    BY <1>2, <1>4, <2>1, <2>2, <2>4
<1>5. L >= Token \/ L < Token
  BY ConstantFacts
<1> QED
  BY <1>3, <1>4, <1>5

-----------------------------------------------------------------------------

LEMMA InitInv == Init => IInv
<1> SUFFICES ASSUME Init PROVE IInv
  OBVIOUS
<1>1. /\ now = 0
      /\ bucket = [k \in Keys |-> NoBucket]
      /\ granted = [k \in Keys |-> 0]
      /\ since = [k \in Keys |-> 0]
  BY DEF Init
<1>2. \A k \in Keys : bucket[k] = NoBucket /\ granted[k] = 0 /\ since[k] = 0
  BY <1>1
<1>3. TypeOK
  <2>1. /\ now \in 0 .. MaxTime
        /\ granted \in [Keys -> Nat]
        /\ since \in [Keys -> 0 .. MaxTime]
    BY <1>1, ConstantFacts
  <2>2. bucket \in [Keys -> [tokens : 0 .. Full, last : 0 .. MaxTime] \cup {NoBucket}]
    BY <1>1
  <2>3. ticked \in BOOLEAN /\ sweeper \in BOOLEAN /\ stopCh \in {"open", "closed"}
    BY DEF Init
  <2>4. answer = NoAnswer
    BY DEF Init
  <2> QED
    BY <2>1, <2>2, <2>3, <2>4 DEF TypeOK
<1>4. ClockOK
  <2>1. now = 0 /\ \A k \in Keys : since[k] = 0
    BY <1>1, <1>2
  <2>2. 0 <= 0
    OBVIOUS
  <2>3. \A k \in Keys : since[k] <= now
    BY <2>1, <2>2, Zenon
  <2> QED
    BY <1>2, <2>3 DEF ClockOK
<1>5. Potential
  <2> SUFFICES ASSUME NEW k \in Keys
               PROVE  granted[k] * Token + Level(k) <= Full + (now - since[k]) * Rate
    BY DEF Potential
  <2>1. Level(k) = Full
    BY <1>2 DEF Level
  <2>2. 0 * Token = 0 /\ 0 * Rate = 0 /\ 0 - 0 = 0
    BY ConstantFacts
  <2>3. Full <= Full /\ 0 + Full = Full /\ Full + 0 = Full
    BY ConstantFacts
  <2> QED
    BY <1>1, <1>2, <2>1, <2>2, <2>3
<1> QED
  BY <1>3, <1>4, <1>5 DEF IInv, TypeInv

\* A step that leaves the clock and the history of a client alone keeps its
\* potential if it keeps its level.
LEMMA PotentialKept ==
  ASSUME Potential, NEW k \in Keys, now' = now, granted'[k] = granted[k],
         since'[k] = since[k], Level(k)' = Level(k)
  PROVE  (granted[k] * Token + Level(k) <= Full + (now - since[k]) * Rate)'
<1>1. granted[k] * Token + Level(k) <= Full + (now - since[k]) * Rate
  BY DEF Potential
<1> QED
  BY <1>1 DEF Full

LEMMA AllowInv ==
  ASSUME TypeInv, NEW k \in Keys, Allow(k)
  PROVE  TypeInv' /\ (Potential => Potential')
<1> USE DEF TypeInv
<1>1. PICK L \in Int : L = Level(k)
  BY LevelRange, ConstantFacts
<1>2. L \in 0 .. Full /\ (L >= Token \/ L < Token)
  BY <1>1, LevelRange, ConstantFacts
<1>3. PICK t \in 0 .. Full : bucket' = [bucket EXCEPT ![k] = [tokens |-> t, last |-> now]]
  BY <1>1, LevelAfterAllow
<1>4. TypeOK'
  <2>1. answer' \in Keys \X {"granted", "denied", "reset"}
    BY <1>1, <1>2, AllowBucket
  <2>2. bucket' \in [Keys -> [tokens : 0 .. Full, last : 0 .. MaxTime] \cup {NoBucket}]
    BY <1>3 DEF TypeOK
  <2>3. granted' \in [Keys -> Nat]
    <3>1. granted' = granted \/ granted' = [granted EXCEPT ![k] = @ + 1]
      BY <1>1, <1>2, AllowBucket
    <3> QED
      BY <3>1 DEF TypeOK
  <2> QED
    BY <2>1, <2>2, <2>3, AllowFrame DEF TypeOK, Full
<1>5. ClockOK'
  <2> SUFFICES ASSUME NEW j \in Keys
               PROVE  (/\ since[j] <= now
                       /\ bucket[j] # NoBucket => bucket[j].last <= now)'
    BY DEF ClockOK
  <2>1. since'[j] <= now'
    BY AllowFrame DEF ClockOK
  <2>2. CASE j = k
    <3>1. bucket'[j].last = now' /\ now' \in Int
      BY <1>3, <2>2, AllowFrame DEF TypeOK
    <3> QED
      BY <2>1, <3>1
  <2>3. CASE j # k
    BY <2>1, <2>3, AllowFrame DEF ClockOK
  <2> QED
    BY <2>2, <2>3
<1>6. ASSUME Potential PROVE Potential'
  <2> SUFFICES ASSUME NEW j \in Keys
               PROVE  (granted[j] * Token + Level(j) <= Full + (now - since[j]) * Rate)'
    BY DEF Potential
  <2>1. CASE j # k
    BY <2>1, AllowFrame, PotentialKept, <1>6
  <2>2. CASE j = k /\ L < Token
    <3>1. granted' = granted /\ Level(k)' = Level(k)
      BY <1>1, <2>2, AllowBucket, LevelAfterAllow
    <3> QED
      BY <2>2, <3>1, AllowFrame, PotentialKept, <1>6
  <2>3. CASE j = k /\ L >= Token
    <3>1. granted'[k] = granted[k] + 1 /\ granted[k] \in Nat /\ Token \in Nat
      BY <1>1, <2>3, AllowBucket, ConstantFacts DEF TypeOK
    <3>2. Level(k)' = L - Token
      BY <1>1, <2>3, LevelAfterAllow
    <3>3. (granted[k] + 1) * Token = granted[k] * Token + Token /\ granted[k] * Token \in Nat
      BY <3>1, Product
    <3>4. granted[k] * Token + L <= Full + (now - since[k]) * Rate
      BY <1>1, <1>6 DEF Potential
    <3>5. granted'[k] * Token + (L - Token) = granted[k] * Token + L
      BY <3>1, <3>3
    <3>6. (Full + (now - since[k]) * Rate)' = Full + (now - since[k]) * Rate
      BY AllowFrame DEF Full
    <3> QED
      BY <2>3, <3>2, <3>4, <3>5, <3>6
  <2> QED
    BY <1>2, <2>1, <2>2, <2>3
<1> QED
  BY <1>4, <1>5, <1>6

LEMMA ResetInv ==
  ASSUME TypeInv, NEW k \in Keys, Reset(k)
  PROVE  TypeInv' /\ (Potential => Potential')
<1> USE DEF TypeInv
<1>1. /\ bucket'  = [bucket EXCEPT ![k] = NoBucket]
      /\ granted' = [granted EXCEPT ![k] = 0]
      /\ since'   = [since EXCEPT ![k] = now]
      /\ answer'  = <<k, "reset">>
      /\ UNCHANGED <<now, ticked, stopCh, sweeper>>
  BY DEF Reset
<1>2. now \in 0 .. MaxTime /\ now <= now
  BY ConstantFacts DEF TypeOK
<1>3. TypeOK'
  <2>1. answer' \in Keys \X {"granted", "denied", "reset"}
    BY <1>1
  <2>2. bucket' \in [Keys -> [tokens : 0 .. Full, last : 0 .. MaxTime] \cup {NoBucket}]
    BY <1>1 DEF TypeOK
  <2> QED
    BY <1>1, <1>2, <2>1, <2>2 DEF TypeOK, Full
<1>4. ClockOK'
  <2> SUFFICES ASSUME NEW j \in Keys
               PROVE  (/\ since[j] <= now
                       /\ bucket[j] # NoBucket => bucket[j].last <= now)'
    BY DEF ClockOK
  <2>1. CASE j = k
    <3>1. bucket'[k] = NoBucket /\ since'[k] = now
      BY <1>1 DEF TypeOK
    <3> QED
      BY <1>1, <1>2, <2>1, <3>1
  <2>2. CASE j # k
    <3>1. bucket'[j] = bucket[j] /\ since'[j] = since[j]
      BY <1>1, <2>2 DEF TypeOK
    <3> QED
      BY <1>1, <3>1 DEF ClockOK
  <2> QED
    BY <2>1, <2>2
<1>5. ASSUME Potential PROVE Potential'
  <2> SUFFICES ASSUME NEW j \in Keys
               PROVE  (granted[j] * Token + Level(j) <= Full + (now - since[j]) * Rate)'
    BY DEF Potential
  <2>1. CASE j = k
    <3>1. granted'[k] = 0 /\ since'[k] = now /\ bucket'[k] = NoBucket
      BY <1>1 DEF TypeOK
    <3>2. Level(k)' = Full
      BY <3>1 DEF Level, Full
    <3>3. now - now = 0 /\ 0 * Token = 0 /\ 0 * Rate = 0 /\ 0 + Full <= Full + 0
      BY <1>2, ConstantFacts
    <3>4. Full' = Full
      BY DEF Full
    <3> QED
      BY <1>1, <2>1, <3>1, <3>2, <3>3, <3>4
  <2>2. CASE j # k
    <3>1. bucket'[j] = bucket[j] /\ since'[j] = since[j] /\ granted'[j] = granted[j]
      BY <1>1, <2>2 DEF TypeOK
    <3>2. Level(j)' = Level(j)
      BY <1>1, <3>1 DEF Level, Refilled, AtMostFull, Full
    <3> QED
      BY <1>1, <3>1, <3>2, PotentialKept, <1>5
  <2> QED
    BY <2>1, <2>2
<1> QED
  BY <1>3, <1>4, <1>5

LEMMA TickInv ==
  ASSUME TypeInv, Tick
  PROVE  TypeInv' /\ (Potential => Potential')
<1> USE DEF TypeInv
<1>1. /\ now' = now + 1
      /\ now < MaxTime
      /\ UNCHANGED <<bucket, stopCh, sweeper, answer, granted, since>>
  BY DEF Tick
<1>2. now \in 0 .. MaxTime /\ now' \in 0 .. MaxTime /\ now <= now'
  BY <1>1, ConstantFacts DEF TypeOK
<1>3. TypeOK'
  <2>1. ticked' \in BOOLEAN
    BY DEF Tick, TypeOK
  <2> QED
    BY <1>1, <1>2, <2>1 DEF TypeOK, Full
<1>4. ClockOK'
  <2> SUFFICES ASSUME NEW j \in Keys
               PROVE  (/\ since[j] <= now
                       /\ bucket[j] # NoBucket => bucket[j].last <= now)'
    BY DEF ClockOK
  <2>1. since[j] <= now + 1
    BY <1>2 DEF ClockOK, TypeOK
  <2>2. bucket[j] # NoBucket => bucket[j].last <= now + 1
    BY <1>2 DEF ClockOK, TypeOK
  <2> QED
    BY <1>1, <2>1, <2>2
<1>5. ASSUME Potential PROVE Potential'
  <2> SUFFICES ASSUME NEW j \in Keys
               PROVE  (granted[j] * Token + Level(j) <= Full + (now - since[j]) * Rate)'
    BY DEF Potential
  <2>1. PICK L \in 0 .. Full : L = Level(j)
    BY LevelRange
  <2>2. Level(j)' = AtMostFull(L + Rate)
    BY <2>1, LevelAfterTick
  <2>3. AtMostFull(L + Rate) <= L + Rate /\ AtMostFull(L + Rate) \in Int
    BY ConstantFacts DEF AtMostFull
  <2>4. now - since[j] \in Nat /\ granted[j] \in Nat
    BY <1>2 DEF TypeOK, ClockOK
  <2>5. (now - since[j] + 1) * Rate = (now - since[j]) * Rate + Rate
        /\ (now - since[j]) * Rate \in Nat /\ granted[j] * Token \in Nat
    BY <2>4, Product, ConstantFacts
  <2>6. now' - since'[j] = now - since[j] + 1
    BY <1>1, <1>2 DEF TypeOK
  <2>7. granted[j] * Token + L <= Full + (now - since[j]) * Rate
    BY <2>1, <1>5 DEF Potential
  <2>8. granted[j] * Token + AtMostFull(L + Rate) <= Full + ((now - since[j]) * Rate + Rate)
    BY <2>1, <2>3, <2>5, <2>7, ConstantFacts
  <2>9. Full' = Full /\ granted' = granted
    BY <1>1 DEF Full
  <2> QED
    BY <2>2, <2>5, <2>6, <2>8, <2>9
<1> QED
  BY <1>3, <1>4, <1>5

\* The only step whose effect on the potential depends on how late it comes.
LEMMA SweepInv ==
  ASSUME TypeInv, Sweep
  PROVE  TypeInv' /\ (SweepIsLate /\ Potential => Potential')
<1> USE DEF TypeInv
<1>1. /\ UNCHANGED <<now, stopCh, sweeper, answer, granted, since>>
      /\ ticked' = FALSE
      /\ bucket' = [k \in Keys |-> IF Stale(k) THEN NoBucket ELSE bucket[k]]
  BY DEF Sweep
<1>2. TypeOK'
  BY <1>1 DEF TypeOK, Full
<1>3. ClockOK'
  <2> SUFFICES ASSUME NEW j \in Keys
               PROVE  (/\ since[j] <= now
                       /\ bucket[j] # NoBucket => bucket[j].last <= now)'
    BY DEF ClockOK
  <2>1. bucket'[j] = NoBucket \/ bucket'[j] = bucket[j]
    BY <1>1
  <2> QED
    BY <1>1, <2>1 DEF ClockOK
<1>4. ASSUME SweepIsLate, Potential PROVE Potential'
  BY <1>1, <1>4, LevelAfterSweep, PotentialKept DEF Potential
<1> QED
  BY <1>2, <1>3, <1>4

\* What Remaining answers: the whole tokens of the client's level.
LEMMA RemainingAnswer ==
  ASSUME TypeOK, ClockOK, NEW k \in Keys, Remaining(k), NEW L \in Int, L = Level(k)
  PROVE  /\ answer' = <<k, "remaining", L \div Token>>
         /\ L \div Token \in Nat
<1>1. L \in 0 .. Full
  BY LevelRange
<1>2. L \div Token \in Nat
  BY <1>1, Quotient, ConstantFacts
<1>3. CASE bucket[k] = NoBucket
  <2>1. L = Full /\ answer' = <<k, "remaining", Burst>>
    BY <1>3 DEF Level, Remaining
  <2>2. Full \div Token = Burst
    BY WholeTokens, ConstantFacts DEF Full
  <2> QED
    BY <1>2, <2>1, <2>2
<1>4. CASE bucket[k] # NoBucket
  <2>1. L = AtMostFull(bucket[k].tokens + (now - bucket[k].last) * Rate)
    BY <1>4 DEF Level, Refilled
  <2>2. answer' = <<k, "remaining",
                    AtMostFull(bucket[k].tokens + (now - bucket[k].last) * Rate) \div Token>>
    BY <1>4, Zenon DEF Remaining, AtMostFull
  <2> QED
    BY <1>2, <2>1, <2>2
<1> QED
  BY <1>3, <1>4

\* A question changes no bucket.
LEMMA RemainingInv ==
  ASSUME TypeInv, NEW k \in Keys, Remaining(k)
  PROVE  TypeInv' /\ (Potential => Potential')
<1> USE DEF TypeInv
<1>1. UNCHANGED <<now, bucket, ticked, stopCh, sweeper, granted, since>>
  BY DEF Remaining
<1>2. PICK L \in Int : L = Level(k)
  BY LevelRange, ConstantFacts
<1>3. answer' \in Keys \X {"remaining"} \X Nat
  <2>1. PICK n \in Nat : answer' = <<k, "remaining", n>>
    BY <1>2, RemainingAnswer
  <2> QED
    BY <2>1
<1>4. TypeOK'
  BY <1>1, <1>3 DEF TypeOK, Full
<1>5. ClockOK' /\ (Potential => Potential')
  BY <1>1 DEF ClockOK, Potential, Level, Refilled, AtMostFull, Full
<1> QED
  BY <1>4, <1>5

\* Starting and stopping the sweeper touches no bucket.
LEMMA StopInv ==
  ASSUME TypeInv, Stop \/ SweeperExit \/ UNCHANGED vars
  PROVE  TypeInv' /\ (Potential => Potential')
<1> USE DEF TypeInv
<1>1. UNCHANGED <<now, bucket, answer, granted, since>>
  BY DEF Stop, SweeperExit, vars
<1>2. TypeOK'
  BY <1>1 DEF TypeOK, Full, Stop, SweeperExit, vars
<1>3. ClockOK' /\ (Potential => Potential')
  BY <1>1 DEF ClockOK, Potential, Level, Refilled, AtMostFull, Full
<1> QED
  BY <1>2, <1>3

LEMMA TypeStep == TypeInv /\ [Next]_vars => TypeInv'
  BY AllowInv, RemainingInv, ResetInv, TickInv, SweepInv, StopInv DEF Next

LEMMA NextInv == SweepIsLate /\ IInv /\ [Next]_vars => IInv'
  BY AllowInv, RemainingInv, ResetInv, TickInv, SweepInv, StopInv DEF Next, IInv

-----------------------------------------------------------------------------
(* The limiter implements the ideal one *)

LEMMA InitRefines == Init => Ideal!Init
<1> SUFFICES ASSUME Init PROVE Ideal!Init
  OBVIOUS
<1>1. \A k \in Keys : Level(k) = Full
  BY DEF Init, Level
<1>2. answer = NoAnswer
  BY DEF Init
<1> QED
  BY <1>1, <1>2 DEF Ideal!Init, Ideal!Full, Full

\* A request is granted or denied as the ideal limiter would.
LEMMA AllowRefines ==
  ASSUME IInv, NEW k \in Keys, Allow(k)
  PROVE  Ideal!Next
<1> USE DEF IInv, TypeInv
<1> DEFINE level == [j \in Keys |-> Level(j)]
<1>1. PICK L \in Int : L = Level(k)
  BY LevelRange, ConstantFacts
<1>2. L >= Token \/ L < Token
  BY <1>1, ConstantFacts
<1>3. CASE L >= Token
  <2>1. Level(k)' = L - Token /\ answer' = <<k, "granted">>
    BY <1>1, <1>3, AllowBucket, LevelAfterAllow
  <2>2. level' = [level EXCEPT ![k] = @ - Token]
    BY <1>1, <2>1, AllowFrame
  <2> QED
    BY <1>1, <1>3, <2>1, <2>2 DEF Ideal!Next, Ideal!Grant
<1>4. CASE L < Token
  <2>1. Level(k)' = L /\ answer' = <<k, "denied">>
    BY <1>1, <1>4, AllowBucket, LevelAfterAllow
  <2>2. level' = level
    BY <1>1, <2>1, AllowFrame
  <2> QED
    BY <1>1, <1>4, <2>1, <2>2 DEF Ideal!Next, Ideal!Deny
<1> QED
  BY <1>2, <1>3, <1>4

LEMMA StepRefines ==
  SweepIsLate /\ IInv /\ [Next]_vars => [Ideal!Next]_(Ideal!vars)
<1> SUFFICES ASSUME SweepIsLate, IInv, [Next]_vars
             PROVE  [Ideal!Next]_(Ideal!vars)
  OBVIOUS
<1> USE DEF IInv, TypeInv
<1> DEFINE level == [j \in Keys |-> Level(j)]
<1>1. ASSUME NEW k \in Keys, Allow(k) PROVE Ideal!Next
  BY <1>1, AllowRefines
<1>2. ASSUME NEW k \in Keys, Reset(k) PROVE Ideal!Next
  <2>1. now' = now /\ answer' = <<k, "reset">> /\ bucket' = [bucket EXCEPT ![k] = NoBucket]
    BY <1>2 DEF Reset
  <2>2. Level(k)' = Full
    BY <2>1 DEF Level, Full, TypeOK
  <2>3. \A j \in Keys : j # k => Level(j)' = Level(j)
    BY <2>1 DEF TypeOK, Level, Refilled, AtMostFull, Full
  <2>4. level' = [level EXCEPT ![k] = Full]
    BY <2>2, <2>3
  <2> QED
    BY <2>1, <2>4 DEF Ideal!Next, Ideal!Reset, Ideal!Full, Full
<1>3. CASE Tick
  <2>1. answer' = answer
    BY <1>3 DEF Tick
  <2>2. \A j \in Keys : Level(j)' = AtMostFull(Level(j) + Rate)
    BY <1>3, LevelAfterTick
  <2>3. level' = [j \in Keys |-> AtMostFull(level[j] + Rate)]
    BY <2>2
  <2> QED
    BY <2>1, <2>3 DEF Ideal!Next, Ideal!Tick, Ideal!AtMostFull, Ideal!Full, AtMostFull, Full
<1>4. CASE Sweep
  <2>1. answer' = answer
    BY <1>4 DEF Sweep
  <2>2. level' = level
    BY <1>4, LevelAfterSweep
  <2> QED
    BY <2>1, <2>2 DEF Ideal!vars
<1>5. CASE Stop \/ SweeperExit \/ UNCHANGED vars
  <2>1. UNCHANGED <<now, bucket, answer>>
    BY <1>5 DEF Stop, SweeperExit, vars
  <2>2. level' = level
    BY <2>1 DEF Level, Refilled, AtMostFull, Full
  <2> QED
    BY <2>1, <2>2 DEF Ideal!vars
<1>6. ASSUME NEW k \in Keys, Remaining(k) PROVE Ideal!Next
  <2>1. PICK L \in Int : L = Level(k)
    BY LevelRange, ConstantFacts
  <2>2. answer' = <<k, "remaining", level[k] \div Token>>
    BY <1>6, <2>1, RemainingAnswer
  <2>3. level' = level
    BY <1>6 DEF Remaining, Level, Refilled, AtMostFull, Full
  <2> QED
    BY <2>2, <2>3 DEF Ideal!Next, Ideal!Remaining
<1> QED
  BY <1>1, <1>2, <1>3, <1>4, <1>5, <1>6 DEF Next

-----------------------------------------------------------------------------

LEMMA TypeInvariant == Spec => []TypeInv
<1>1. Init => TypeInv
  BY InitInv DEF IInv
<1> QED
  BY <1>1, TypeStep, PTL DEF Spec

\* Every bucket holds between nothing and a burst and was used in the past, whatever
\* the configuration, a sweeper that comes too early included.
THEOREM TypeCorrect == Spec => []TypeOK
<1>1. TypeInv => TypeOK
  BY DEF TypeInv
<1> QED
  BY <1>1, TypeInvariant, PTL

LEMMA InductiveInvariant == ASSUME SweepIsLate PROVE Spec => []IInv
  BY InitInv, NextInv, PTL DEF Spec

\* No client is granted more than a burst plus its rate, although buckets are
\* filled lazily and deleted behind its back.
THEOREM RateIsBounded == ASSUME SweepIsLate PROVE Spec => []RateBound
<1>1. IInv => RateBound
  <2> SUFFICES ASSUME IInv, NEW k \in Keys
               PROVE  granted[k] * Token <= Full + (now - since[k]) * Rate
    BY DEF RateBound
  <2>1. PICK L \in 0 .. Full : L = Level(k)
    BY LevelRange DEF IInv, TypeInv
  <2>2. granted[k] * Token + L <= Full + (now - since[k]) * Rate
    BY <2>1 DEF IInv, Potential
  <2>3. granted[k] * Token \in Int /\ Full + (now - since[k]) * Rate \in Int
    BY ConstantFacts DEF IInv, TypeInv, TypeOK
  <2> QED
    BY <2>1, <2>2, <2>3, ConstantFacts
<1> QED
  BY <1>1, InductiveInvariant, PTL

\* Lazy refilling and the sweeper are invisible: every behaviour of the limiter is
\* one of the ideal token buckets, which only time and a visible Reset refill.
THEOREM LimiterImplementsIdeal == ASSUME SweepIsLate PROVE Spec => ImplementsIdeal
  BY InitRefines, StepRefines, InductiveInvariant, PTL DEF Spec, ImplementsIdeal, Ideal!Spec
=============================================================================
