---------------------------- MODULE PacerProofs ----------------------------
(***************************************************************************)
(* The pacer honours every Retry-After, for all rates, payloads and delays.*)
(* What is owed to the backend is carried by retryIn between two uploads,  *)
(* by the sleep of acquire once retryIn was reset, and is nothing in the   *)
(* stages after that sleep.                                                *)
(*                                                                         *)
(* And it keeps its pace: for every age up to a window, what was let       *)
(* through at most so many ticks ago and what the bucket holds now are     *)
(* together no more than its capacity and what flowed in meanwhile.        *)
(***************************************************************************)
EXTENDS UploadPipelineProofs, MCPipelinePacer, FiniteSetTheorems, TLAPS

USE PacerAssumption

\* Where the debt of the last Retry-After is carried in each stage of acquire.
DebtCarried ==
    /\ retryIn \in Int /\ owed \in Nat
    /\ stage \in {"idle", "retry", "slow429", "slow5xx", "bucket", "granted"}
    /\ stage \in {"idle", "granted"} => owed <= Larger(0, retryIn)
    /\ stage = "retry" => sleeping \in Nat /\ owed <= sleeping
    /\ stage \in {"slow429", "slow5xx", "bucket"} => owed = 0

\* A deadline that has passed lies in the past.
LEMMA PastIsPast == Past \in Int /\ Past <= 0
<1>1. SetBacks \in Nat /\ SetBack \in Nat
  OBVIOUS
<1>2. SetBacks * SetBack \in Nat
  BY <1>1
<1>3. Past = -SetBacks * SetBack
  BY DEF Past
<1>4. -SetBacks * SetBack = -(SetBacks * SetBack)
  BY <1>1
<1> QED
  BY <1>2, <1>3, <1>4

\* The greater of two integers.
LEMMA LargerInt == ASSUME NEW a \in Int, NEW b \in Int
                   PROVE  Larger(a, b) \in Int /\ Larger(a, b) >= a /\ Larger(a, b) >= b
                          /\ Larger(a, b) \in {a, b}
  BY DEF Larger

\* A fresh pacer owes nothing.
LEMMA DebtInit == PacerInit => DebtCarried
  BY PastIsPast, LargerInt DEF PacerInit, DebtCarried, Larger

\* A noted Retry-After is carried by the deadline.
LEMMA NotedIsCarried ==
  ASSUME DebtCarried, owed <= Larger(0, retryIn), NEW t \in RetryAfters, NotifyRetryAfter(t)
  PROVE  retryIn' \in Int /\ owed' \in Nat /\ owed' <= Larger(0, retryIn')
<1>1. t \in Nat
  OBVIOUS
<1>2. retryIn' = Larger(retryIn, t) /\ owed' = Larger(owed, t)
  BY DEF NotifyRetryAfter
<1> QED
  BY <1>1, <1>2 DEF DebtCarried, Larger

\* Every step keeps the debt carried.
LEMMA DebtStep == DebtCarried /\ [PacerNext]_pacerVars => DebtCarried'
<1> SUFFICES ASSUME DebtCarried, [PacerNext]_pacerVars PROVE DebtCarried'
  OBVIOUS
<1>1. CASE Acquire
  <2>1. stage' = "retry" /\ retryIn' = Past /\ owed' = owed /\ sleeping' = Larger(0, retryIn)
    BY <1>1 DEF Acquire, RetrySleep
  <2>2. owed <= Larger(0, retryIn)
    BY <1>1 DEF Acquire, DebtCarried
  <2>3. sleeping' \in Nat /\ owed' <= sleeping'
    BY <2>1, <2>2, LargerInt DEF DebtCarried
  <2> QED
    BY <2>1, <2>3, PastIsPast DEF DebtCarried
<1>2. CASE SlowAfter429
  <2>1. stage = "retry" /\ sleeping = 0 /\ stage' = "slow429" /\ owed' = owed /\ retryIn' = retryIn
    BY <1>2 DEF SlowAfter429, Awake, Sleep
  <2> QED
    BY <2>1 DEF DebtCarried
<1>3. CASE SlowAfter5xx
  <2>1. stage = "slow429" /\ stage' = "slow5xx" /\ owed' = owed /\ retryIn' = retryIn
    BY <1>3 DEF SlowAfter5xx, Awake, Sleep
  <2> QED
    BY <2>1 DEF DebtCarried
<1>4. CASE ToBuckets
  <2>1. stage = "slow5xx" /\ stage' = "bucket" /\ owed' = owed /\ retryIn' = retryIn
    BY <1>4 DEF ToBuckets, Awake, Sleep
  <2> QED
    BY <2>1 DEF DebtCarried
<1>5. CASE TakeTokens
  <2>1. stage = "bucket" /\ stage' \in {"bucket", "granted"} /\ owed' = owed /\ retryIn' = retryIn
    BY <1>5 DEF TakeTokens, Awake, Sleep
  <2>2. owed = 0 /\ 0 <= Larger(0, retryIn)
    BY <2>1, LargerInt DEF DebtCarried
  <2> QED
    BY <2>1, <2>2 DEF DebtCarried, Larger
<1>6. CASE Notify429
  <2>1. stage' = "idle" /\ owed <= Larger(0, retryIn)
    BY <1>6 DEF Notify429, DebtCarried
  <2>2. CASE \E t \in RetryAfters : NotifyRetryAfter(t)
    BY <2>1, <2>2, NotedIsCarried DEF DebtCarried
  <2>3. CASE UNCHANGED <<retryIn, owed>>
    BY <2>1, <2>3 DEF DebtCarried, Larger
  <2> QED
    BY <1>6, <2>2, <2>3 DEF Notify429
<1>7. CASE NotifyServiceUnavailable
  <2>1. stage' = "idle" /\ owed <= Larger(0, retryIn)
    BY <1>7 DEF NotifyServiceUnavailable, DebtCarried
  <2>2. CASE \E t \in RetryAfters : NotifyRetryAfter(t)
    BY <2>1, <2>2, NotedIsCarried DEF DebtCarried
  <2>3. CASE UNCHANGED <<retryIn, owed>>
    BY <2>1, <2>3 DEF DebtCarried, Larger
  <2> QED
    BY <1>7, <2>2, <2>3 DEF NotifyServiceUnavailable
<1>8. CASE PacerTick
  <2>1. /\ stage' = stage /\ sleeping' = Larger(0, sleeping - 1)
        /\ retryIn' = Larger(Past, retryIn - 1) /\ owed' = Larger(0, owed - 1)
    BY <1>8 DEF PacerTick
  <2>2. retryIn' \in Int /\ owed' \in Nat
    BY <2>1, PastIsPast DEF DebtCarried, Larger
  <2>3. ASSUME stage \in {"idle", "granted"} PROVE owed' <= Larger(0, retryIn')
    BY <2>1, <2>3, PastIsPast DEF DebtCarried, Larger
  <2>4. ASSUME stage = "retry" PROVE sleeping' \in Nat /\ owed' <= sleeping'
    BY <2>1, <2>4 DEF DebtCarried, Larger
  <2>5. owed = 0 => owed' = 0
    BY <2>1 DEF Larger
  <2> QED
    BY <2>1, <2>2, <2>3, <2>4, <2>5 DEF DebtCarried
<1>9. CASE SetsBack
  <2>1. stage' = stage /\ sleeping' = sleeping /\ owed' = owed /\ retryIn' = retryIn + SetBack
    BY <1>9 DEF SetsBack
  <2>2. SetBack \in Nat
    OBVIOUS
  <2> QED
    BY <2>1, <2>2 DEF DebtCarried, Larger
<1>10. CASE UNCHANGED pacerVars
  <2>1. UNCHANGED <<stage, sleeping, retryIn, owed>>
    BY <1>10 DEF pacerVars
  <2> QED
    BY <2>1 DEF DebtCarried, Larger
<1> QED
  BY <1>1, <1>2, <1>3, <1>4, <1>5, <1>6, <1>7, <1>8, <1>9, <1>10 DEF PacerNext, AcquireStep

\* In every reachable state the debt is carried.
THEOREM DebtIsCarried == PacerSpec => []DebtCarried
  BY DebtInit, DebtStep, PTL DEF PacerSpec

\* No capture is let through before the longest Retry-After that was noted is over,
\* whatever the rates, the payloads, the delays, and however the clock is set back
\* (acquire and notifyRetryAfter of the pacer).
THEOREM HonoursRetryAfter == PacerSpec => RetryAfterHonoured
<1>1. ASSUME DebtCarried, [PacerNext]_pacerVars
      PROVE  [stage' = "granted" /\ stage # "granted" => owed = 0]_pacerVars
  <2> SUFFICES ASSUME stage' = "granted", stage # "granted", ~UNCHANGED pacerVars PROVE owed = 0
    OBVIOUS
  <2>1. stage = "bucket"
    <3>1. CASE Acquire BY <3>1 DEF Acquire
    <3>2. CASE AcquireStep
      BY <3>2 DEF AcquireStep, SlowAfter429, SlowAfter5xx, ToBuckets, TakeTokens, Awake, Sleep
    <3>3. CASE Notify429 BY <3>3 DEF Notify429
    <3>4. CASE NotifyServiceUnavailable BY <3>4 DEF NotifyServiceUnavailable
    <3>5. CASE PacerTick BY <3>5 DEF PacerTick
    <3>6. CASE SetsBack BY <3>6 DEF SetsBack
    <3> QED
      BY <1>1, <3>1, <3>2, <3>3, <3>4, <3>5, <3>6 DEF PacerNext
  <2> QED
    BY <1>1, <2>1 DEF DebtCarried
<1> QED
  BY <1>1, DebtIsCarried, PTL DEF PacerSpec, RetryAfterHonoured

-----------------------------------------------------------------------------
(* The pace.  What was let through at most so many ticks ago, and what the *)
(* bucket would hold now, came out of a full bucket or flowed in since.    *)

BucketT(rate, window) == [tokens : 0 .. rate * window, since : Int]
Holds(b, rate, window) == Refill(b, rate, window).tokens

CapturesPaced ==
  \A age \in Ages :
    grants[age].captures * RateWindow + Holds(batchBucket, BatchRate, RateWindow)
      <= BatchRate * RateWindow + BatchRate * age
BytesPaced ==
  \A age \in Ages :
    grants[age].bytes * ByteWindow + Holds(byteBucket, ByteRate, ByteWindow)
      <= ByteRate * ByteWindow + ByteRate * age

PaceTyped ==
  /\ payload \in Nat
  /\ batchBucket \in BucketT(BatchRate, RateWindow)
  /\ byteBucket \in BucketT(ByteRate, ByteWindow)
  /\ grants \in [Ages -> [captures : Nat, bytes : Nat]]

PaceInv == PaceTyped /\ CapturesPaced /\ BytesPaced

\* Filling a bucket again at once adds nothing, and it never holds more than it can.
LEMMA Refilled ==
  ASSUME NEW rate \in Nat \ {0}, NEW window \in Nat \ {0}, NEW b \in BucketT(rate, window)
  PROVE  /\ Refill(b, rate, window) \in BucketT(rate, window)
         /\ Refill(b, rate, window).since <= 0
         /\ Holds(Refill(b, rate, window), rate, window) = Holds(b, rate, window)
         /\ Holds(b, rate, window) \in 0 .. rate * window
<1>1. rate * window \in Nat
  OBVIOUS
<1>2. b.tokens \in 0 .. rate * window /\ b.since \in Int
  BY DEF BucketT
<1>3. CASE b.since <= 0
  BY <1>1, <1>2, <1>3 DEF Refill, Holds, BucketT
<1>4. CASE b.since > 0
  <2>1. b.since * rate \in Nat
    BY <1>2, <1>4
  <2>2. Refill(b, rate, window)
          = [tokens |-> Lesser(rate * window, b.tokens + b.since * rate), since |-> 0]
    BY <1>2, <1>4 DEF Refill
  <2>3. Lesser(rate * window, b.tokens + b.since * rate) \in 0 .. rate * window
    BY <1>1, <1>2, <2>1 DEF Lesser
  <2> QED
    BY <2>2, <2>3 DEF Refill, Holds, BucketT
<1> QED
  BY <1>2, <1>3, <1>4

\* In a tick a bucket gains at most its rate.
LEMMA GainsRate ==
  ASSUME NEW rate \in Nat \ {0}, NEW window \in Nat \ {0}, NEW b \in BucketT(rate, window)
  PROVE  /\ Passes(b, window) \in BucketT(rate, window)
         /\ Holds(Passes(b, window), rate, window) <= Holds(b, rate, window) + rate
<1> DEFINE later == Lesser(window, b.since + 1)
<1>1. rate * window \in Nat /\ b.tokens \in 0 .. rate * window /\ b.since \in Int
  BY DEF BucketT
<1>2. later \in Int /\ later <= b.since + 1
  BY <1>1 DEF Lesser
<1>3. Passes(b, window) = [tokens |-> b.tokens, since |-> later]
  BY DEF Passes, BucketT
<1> HIDE DEF later
<1>4. Passes(b, window) \in BucketT(rate, window)
  BY <1>1, <1>2, <1>3 DEF BucketT
<1>5. CASE later <= 0
  <2>1. Holds(Passes(b, window), rate, window) = b.tokens
    BY <1>3, <1>5 DEF Holds, Refill
  <2>2. b.tokens <= Holds(b, rate, window)
    <3>1. CASE b.since <= 0
      BY <1>1, <3>1 DEF Holds, Refill
    <3>2. CASE b.since > 0
      <4>1. b.since * rate \in Nat
        BY <1>1, <3>2
      <4>2. Holds(b, rate, window) = Lesser(rate * window, b.tokens + b.since * rate)
        BY <1>1, <3>2 DEF Holds, Refill
      <4> QED
        BY <1>1, <4>1, <4>2 DEF Lesser
    <3> QED
      BY <1>1, <3>1, <3>2
  <2> QED
    BY <1>4, <2>1, <2>2, <1>1, Refilled
<1>6. CASE later > 0
  <2>1. Holds(Passes(b, window), rate, window) = Lesser(rate * window, b.tokens + later * rate)
    BY <1>2, <1>3, <1>6 DEF Holds, Refill
  <2>2. later * rate \in Nat /\ later * rate <= b.since * rate + rate
    <3>1. b.since >= 0 /\ later - 1 \in Nat /\ b.since - (later - 1) \in Nat
      BY <1>1, <1>2, <1>6
    <3>2. (b.since - (later - 1)) * rate \in Nat
      BY <3>1
    <3>3. (b.since - (later - 1)) * rate = b.since * rate + rate - later * rate
      BY <1>1, <1>2
    <3> QED
      BY <1>1, <1>2, <1>6, <3>2, <3>3
  <2>3. CASE b.since <= 0
    <3>1. Holds(b, rate, window) = b.tokens
      BY <2>3 DEF Holds, Refill
    <3>2. later = 1
      BY <1>1, <1>2, <1>6, <2>3
    <3> QED
      BY <1>1, <1>4, <2>1, <3>1, <3>2 DEF Lesser
  <2>4. CASE b.since > 0
    <3>1. Holds(b, rate, window) = Lesser(rate * window, b.tokens + b.since * rate)
      BY <1>1, <2>4 DEF Holds, Refill
    <3>2. b.since * rate \in Nat
      BY <1>1, <2>4
    <3> QED
      BY <1>1, <1>4, <2>1, <2>2, <3>1, <3>2 DEF Lesser
  <2> QED
    BY <1>1, <2>3, <2>4
<1> QED
  BY <1>2, <1>5, <1>6

\* A clock that is set back takes nothing out of what was promised, and adds nothing.
LEMMA SetBackAddsNothing ==
  ASSUME NEW rate \in Nat \ {0}, NEW window \in Nat \ {0}, NEW b \in BucketT(rate, window),
         NEW c, c = [b EXCEPT !.since = @ - SetBack]
  PROVE  c \in BucketT(rate, window) /\ Holds(c, rate, window) <= Holds(b, rate, window)
<1>1. /\ rate * window \in Nat /\ b.tokens \in 0 .. rate * window /\ b.since \in Int
      /\ SetBack \in Nat /\ c = [tokens |-> b.tokens, since |-> b.since - SetBack]
  BY DEF BucketT
<1>2. c \in BucketT(rate, window)
  BY <1>1 DEF BucketT
<1>3. CASE b.since <= 0
  BY <1>1, <1>2, <1>3 DEF Holds, Refill
<1>4. CASE b.since > 0
  <2>1. Holds(b, rate, window) = Lesser(rate * window, b.tokens + b.since * rate)
    BY <1>1, <1>4 DEF Holds, Refill
  <2>2. b.since * rate \in Nat /\ SetBack * rate \in Nat
    BY <1>1, <1>4
  <2>3. CASE c.since <= 0
    BY <1>1, <1>2, <2>1, <2>2, <2>3 DEF Holds, Refill, Lesser
  <2>4. CASE c.since > 0
    <3>1. Holds(c, rate, window) = Lesser(rate * window, b.tokens + (b.since - SetBack) * rate)
      BY <1>1, <2>4 DEF Holds, Refill
    <3>2. (b.since - SetBack) * rate = b.since * rate - SetBack * rate
      BY <1>1
    <3> QED
      BY <1>1, <1>2, <2>1, <2>2, <3>1, <3>2 DEF Lesser
  <2> QED
    BY <1>1, <1>2, <2>3, <2>4
<1> QED
  BY <1>1, <1>3, <1>4

LEMMA CeilPositive ==
  ASSUME NEW a \in Nat \ {0}, NEW b \in Nat \ {0}
  PROVE  CeilDiv(a, b) \in Nat \ {0}
BY DEF CeilDiv

\* What a bucket that can give what is asked for holds afterwards.
LEMMA Taken ==
  ASSUME NEW rate \in Nat \ {0}, NEW window \in Nat \ {0}, NEW b \in BucketT(rate, window),
         NEW need \in Nat, TimeUntil(Refill(b, rate, window), need, rate) <= 0,
         NEW c, c = [Refill(b, rate, window) EXCEPT !.tokens = Larger(0, @ - need)]
  PROVE  /\ c \in BucketT(rate, window)
         /\ Holds(c, rate, window) = Holds(b, rate, window) - need
<1> DEFINE full == Refill(b, rate, window)
<1>1. /\ full \in BucketT(rate, window) /\ full.tokens \in 0 .. rate * window
      /\ full.since \in Int /\ full.since <= 0 /\ full.tokens = Holds(b, rate, window)
  BY Refilled DEF BucketT, Holds
<1> HIDE DEF full
<1>2. full.tokens >= need
  <2>1. TimeUntil(full, need, rate) <= 0
    BY DEF full
  <2>2. ASSUME full.tokens < need PROVE CeilDiv(need - full.tokens, rate) \in Nat \ {0}
    <3>1. need - full.tokens \in Nat \ {0}
      BY <1>1, <2>2
    <3> QED
      BY <3>1, CeilPositive
  <2> QED
    BY <1>1, <2>1, <2>2 DEF TimeUntil
<1>3. c = [tokens |-> full.tokens - need, since |-> full.since]
  BY <1>1, <1>2 DEF Larger, BucketT, full
<1>4. full.tokens - need \in 0 .. rate * window
  <2>1. rate * window \in Nat
    OBVIOUS
  <2> QED
    BY <1>1, <1>2, <2>1
<1> QED
  BY <1>1, <1>3, <1>4 DEF BucketT, Holds, Refill

LEMMA AgeFacts ==
  /\ LongWindow \in Nat \ {0} /\ RateWindow - 1 \in Ages /\ ByteWindow - 1 \in Ages
  /\ Ages \subseteq Nat /\ \A age \in Ages : age # 0 => age - 1 \in Ages
BY DEF LongWindow, Ages, Larger

LEMMA PaceInit == PacerInit => PaceInv
<1> SUFFICES ASSUME PacerInit PROVE PaceInv
  OBVIOUS
<1>1. BatchRate * RateWindow \in Nat /\ ByteRate * ByteWindow \in Nat
  OBVIOUS
<1>2. /\ batchBucket = [tokens |-> BatchRate * RateWindow, since |-> 0]
      /\ byteBucket = [tokens |-> ByteRate * ByteWindow, since |-> 0]
      /\ grants = [age \in Ages |-> NoGrants] /\ payload = 0
  BY DEF PacerInit
<1>3. PaceTyped
  BY <1>1, <1>2 DEF PaceTyped, BucketT, NoGrants
<1>4. /\ Holds(batchBucket, BatchRate, RateWindow) = BatchRate * RateWindow
      /\ Holds(byteBucket, ByteRate, ByteWindow) = ByteRate * ByteWindow
  BY <1>2 DEF Holds, Refill
<1>5. ASSUME NEW age \in Ages
      PROVE  /\ grants[age].captures * RateWindow = 0 /\ grants[age].bytes * ByteWindow = 0
             /\ BatchRate * age \in Nat /\ ByteRate * age \in Nat
  BY <1>2, AgeFacts DEF NoGrants
<1> QED
  BY <1>1, <1>3, <1>4, <1>5 DEF PaceInv, CapturesPaced, BytesPaced

\* A step that lets nothing through and puts nothing into the buckets keeps the pace.
LEMMA PaceKept ==
  ASSUME PaceInv, payload' \in Nat, grants' = grants,
         batchBucket' \in BucketT(BatchRate, RateWindow),
         Holds(batchBucket', BatchRate, RateWindow) <= Holds(batchBucket, BatchRate, RateWindow),
         byteBucket' \in BucketT(ByteRate, ByteWindow),
         Holds(byteBucket', ByteRate, ByteWindow) <= Holds(byteBucket, ByteRate, ByteWindow)
  PROVE  PaceInv'
<1>1. PaceTyped'
  BY DEF PaceInv, PaceTyped
<1>2. ASSUME NEW age \in Ages
      PROVE  /\ grants[age].captures * RateWindow \in Nat /\ BatchRate * age \in Nat
             /\ grants[age].bytes * ByteWindow \in Nat /\ ByteRate * age \in Nat
  <2>1. age \in Nat /\ grants[age].captures \in Nat /\ grants[age].bytes \in Nat
    BY AgeFacts DEF PaceInv, PaceTyped
  <2> QED
    BY <2>1
<1>3. /\ Holds(batchBucket, BatchRate, RateWindow) \in Int
      /\ Holds(batchBucket', BatchRate, RateWindow) \in Int
      /\ Holds(byteBucket, ByteRate, ByteWindow) \in Int
      /\ Holds(byteBucket', ByteRate, ByteWindow) \in Int
  BY Refilled DEF PaceInv, PaceTyped
<1>4. BatchRate * RateWindow \in Nat /\ ByteRate * ByteWindow \in Nat
  OBVIOUS
<1>5. CapturesPaced'
  BY <1>2, <1>3, <1>4 DEF PaceInv, CapturesPaced
<1>6. BytesPaced'
  BY <1>2, <1>3, <1>4 DEF PaceInv, BytesPaced
<1> QED
  BY <1>1, <1>5, <1>6 DEF PaceInv

LEMMA Times ==
  ASSUME NEW a \in Nat, NEW b \in Nat, NEW c \in Nat
  PROVE  (a + b) * c = a * c + b * c /\ a * c \in Nat /\ b * c \in Nat /\ c * a = a * c
OBVIOUS

\* So does one that lets a capture through for what it takes out of the buckets.
LEMMA PaceGranted ==
  ASSUME PaceInv, payload' = payload,
         Holds(batchBucket', BatchRate, RateWindow)
           = Holds(batchBucket, BatchRate, RateWindow) - RateWindow,
         batchBucket' \in BucketT(BatchRate, RateWindow),
         Holds(byteBucket', ByteRate, ByteWindow)
           = Holds(byteBucket, ByteRate, ByteWindow) - NeedBytes,
         byteBucket' \in BucketT(ByteRate, ByteWindow),
         grants' = Granted(Lesser(payload, ByteRate))
  PROVE  PaceInv'
<1> DEFINE bytes == Lesser(payload, ByteRate)
<1>1. bytes \in Nat /\ NeedBytes = bytes * ByteWindow
  BY DEF PaceInv, PaceTyped, Lesser, NeedBytes
<1> HIDE DEF bytes
<1>2. /\ grants \in [Ages -> [captures : Nat, bytes : Nat]]
      /\ grants' = [age \in Ages |-> [captures |-> grants[age].captures + 1,
                                      bytes |-> grants[age].bytes + bytes]]
  BY DEF PaceInv, PaceTyped, Granted, bytes
<1>3. PaceTyped'
  BY <1>1, <1>2 DEF PaceInv, PaceTyped
<1>4. /\ Holds(batchBucket, BatchRate, RateWindow) \in Int
      /\ Holds(byteBucket, ByteRate, ByteWindow) \in Int
      /\ BatchRate * RateWindow \in Nat /\ ByteRate * ByteWindow \in Nat
      /\ bytes * ByteWindow \in Nat
  BY <1>1, Refilled DEF PaceInv, PaceTyped
<1>5. ASSUME NEW age \in Ages
      PROVE  /\ grants'[age].captures * RateWindow
                  = grants[age].captures * RateWindow + RateWindow
             /\ grants'[age].bytes * ByteWindow
                  = grants[age].bytes * ByteWindow + bytes * ByteWindow
             /\ grants[age].captures * RateWindow \in Nat /\ BatchRate * age \in Nat
             /\ grants[age].bytes * ByteWindow \in Nat /\ ByteRate * age \in Nat
  <2>1. /\ age \in Nat /\ grants[age].captures \in Nat /\ grants[age].bytes \in Nat
        /\ grants'[age].captures = grants[age].captures + 1
        /\ grants'[age].bytes = grants[age].bytes + bytes
    BY <1>2, AgeFacts
  <2>2. /\ grants'[age].captures * RateWindow
             = grants[age].captures * RateWindow + 1 * RateWindow
        /\ grants[age].captures * RateWindow \in Nat
    BY <2>1, Times
  <2>3. /\ grants'[age].bytes * ByteWindow
             = grants[age].bytes * ByteWindow + bytes * ByteWindow
        /\ grants[age].bytes * ByteWindow \in Nat
    BY <1>1, <2>1, Times
  <2>4. BatchRate * age \in Nat /\ ByteRate * age \in Nat
    BY <2>1
  <2> QED
    BY <2>2, <2>3, <2>4
<1>6. CapturesPaced'
  <2> SUFFICES ASSUME NEW age \in Ages
               PROVE  grants'[age].captures * RateWindow + Holds(batchBucket', BatchRate, RateWindow)
                        <= BatchRate * RateWindow + BatchRate * age
    BY DEF CapturesPaced
  <2>1. grants[age].captures * RateWindow + Holds(batchBucket, BatchRate, RateWindow)
          <= BatchRate * RateWindow + BatchRate * age
    BY DEF PaceInv, CapturesPaced
  <2> QED
    BY <1>4, <1>5, <2>1
<1>7. BytesPaced'
  <2> SUFFICES ASSUME NEW age \in Ages
               PROVE  grants'[age].bytes * ByteWindow + Holds(byteBucket', ByteRate, ByteWindow)
                        <= ByteRate * ByteWindow + ByteRate * age
    BY DEF BytesPaced
  <2>1. grants[age].bytes * ByteWindow + Holds(byteBucket, ByteRate, ByteWindow)
          <= ByteRate * ByteWindow + ByteRate * age
    BY DEF PaceInv, BytesPaced
  <2> QED
    BY <1>1, <1>4, <1>5, <2>1
<1> QED
  BY <1>3, <1>6, <1>7 DEF PaceInv

\* And a tick, in which what was let through grows older as the buckets gain.
LEMMA PaceTicks == ASSUME PaceInv, PacerTick PROVE PaceInv'
<1>1. /\ payload' = payload /\ batchBucket' = Passes(batchBucket, RateWindow)
      /\ byteBucket' = Passes(byteBucket, ByteWindow)
      /\ grants' = [age \in Ages |-> IF age = 0 THEN NoGrants ELSE grants[age - 1]]
  BY DEF PacerTick, Older
<1>2. /\ batchBucket' \in BucketT(BatchRate, RateWindow)
      /\ Holds(batchBucket', BatchRate, RateWindow)
           <= Holds(batchBucket, BatchRate, RateWindow) + BatchRate
      /\ byteBucket' \in BucketT(ByteRate, ByteWindow)
      /\ Holds(byteBucket', ByteRate, ByteWindow)
           <= Holds(byteBucket, ByteRate, ByteWindow) + ByteRate
  BY <1>1, GainsRate DEF PaceInv, PaceTyped
<1>3. PaceTyped'
  BY <1>1, <1>2, AgeFacts DEF PaceInv, PaceTyped, NoGrants
<1>4. /\ Holds(batchBucket, BatchRate, RateWindow) \in Int
      /\ Holds(batchBucket', BatchRate, RateWindow) \in 0 .. BatchRate * RateWindow
      /\ Holds(byteBucket, ByteRate, ByteWindow) \in Int
      /\ Holds(byteBucket', ByteRate, ByteWindow) \in 0 .. ByteRate * ByteWindow
      /\ BatchRate * RateWindow \in Nat /\ ByteRate * ByteWindow \in Nat
  BY <1>2, Refilled DEF PaceInv, PaceTyped
<1>5. ASSUME NEW age \in Ages, age = 0
      PROVE  /\ grants'[age].captures * RateWindow = 0 /\ BatchRate * age = 0
             /\ grants'[age].bytes * ByteWindow = 0 /\ ByteRate * age = 0
  BY <1>1, <1>5 DEF NoGrants
<1>6. ASSUME NEW age \in Ages, age # 0
      PROVE  /\ age - 1 \in Ages /\ grants'[age] = grants[age - 1]
             /\ BatchRate * age = BatchRate * (age - 1) + BatchRate
             /\ ByteRate * age = ByteRate * (age - 1) + ByteRate
             /\ grants[age - 1].captures * RateWindow \in Nat /\ BatchRate * (age - 1) \in Nat
             /\ grants[age - 1].bytes * ByteWindow \in Nat /\ ByteRate * (age - 1) \in Nat
  <2>1. age \in Nat \ {0} /\ age - 1 \in Ages /\ grants'[age] = grants[age - 1]
    BY <1>1, <1>6, AgeFacts
  <2>2. grants[age - 1].captures \in Nat /\ grants[age - 1].bytes \in Nat
    BY <2>1 DEF PaceInv, PaceTyped
  <2>3. /\ BatchRate * age = BatchRate * (age - 1) + BatchRate /\ BatchRate * (age - 1) \in Nat
        /\ ByteRate * age = ByteRate * (age - 1) + ByteRate /\ ByteRate * (age - 1) \in Nat
    <3>1. age - 1 \in Nat /\ age = (age - 1) + 1
      BY <2>1
    <3> HIDE <2>1
    <3> QED
      BY <3>1, Times
  <2>4. /\ grants[age - 1].captures * RateWindow \in Nat
        /\ grants[age - 1].bytes * ByteWindow \in Nat
    BY <2>2, Times
  <2> QED
    BY <2>1, <2>3, <2>4
<1>7. CapturesPaced'
  <2> SUFFICES ASSUME NEW age \in Ages
               PROVE  grants'[age].captures * RateWindow
                        + Holds(batchBucket', BatchRate, RateWindow)
                        <= BatchRate * RateWindow + BatchRate * age
    BY DEF CapturesPaced
  <2>1. CASE age = 0
    BY <1>4, <1>5, <2>1
  <2>2. CASE age # 0
    <3>1. grants[age - 1].captures * RateWindow + Holds(batchBucket, BatchRate, RateWindow)
            <= BatchRate * RateWindow + BatchRate * (age - 1)
      BY <1>6, <2>2 DEF PaceInv, CapturesPaced
    <3> QED
      BY <1>2, <1>4, <1>6, <2>2, <3>1
  <2> QED
    BY <2>1, <2>2
<1>8. BytesPaced'
  <2> SUFFICES ASSUME NEW age \in Ages
               PROVE  grants'[age].bytes * ByteWindow
                        + Holds(byteBucket', ByteRate, ByteWindow)
                        <= ByteRate * ByteWindow + ByteRate * age
    BY DEF BytesPaced
  <2>1. CASE age = 0
    BY <1>4, <1>5, <2>1
  <2>2. CASE age # 0
    <3>1. grants[age - 1].bytes * ByteWindow + Holds(byteBucket, ByteRate, ByteWindow)
            <= ByteRate * ByteWindow + ByteRate * (age - 1)
      BY <1>6, <2>2 DEF PaceInv, BytesPaced
    <3> QED
      BY <1>2, <1>4, <1>6, <2>2, <3>1
  <2> QED
    BY <2>1, <2>2
<1> QED
  BY <1>3, <1>7, <1>8 DEF PaceInv

\* A look at the buckets fills them, and either asks for a wait or takes what is needed.
LEMMA PaceTakes == ASSUME PaceInv, TakeTokens PROVE PaceInv'
<1> DEFINE filled == Refill(batchBucket, BatchRate, RateWindow)
           byte == IF NeedBytes > 0 THEN Refill(byteBucket, ByteRate, ByteWindow)
                                    ELSE byteBucket
           waitBatch == TimeUntil(filled, RateWindow, BatchRate)
           waitByte == IF NeedBytes > 0 THEN TimeUntil(byte, NeedBytes, ByteRate) ELSE 0
<1>1. /\ payload' = payload /\ payload \in Nat
      /\ \/ batchBucket' = filled /\ byteBucket' = byte /\ grants' = grants
         \/ /\ Larger(waitBatch, waitByte) = 0
            /\ batchBucket' = [filled EXCEPT !.tokens = Larger(0, @ - RateWindow)]
            /\ byteBucket' = [byte EXCEPT !.tokens = Larger(0, @ - NeedBytes)]
            /\ grants' = Granted(Lesser(payload, ByteRate))
  BY DEF TakeTokens, Sleep, PaceInv, PaceTyped
<1>2. NeedBytes \in Nat
  <2>1. Lesser(payload, ByteRate) \in Nat
    BY <1>1 DEF Lesser
  <2> QED
    BY <2>1 DEF NeedBytes
<1>3. /\ batchBucket \in BucketT(BatchRate, RateWindow)
      /\ byteBucket \in BucketT(ByteRate, ByteWindow)
  BY DEF PaceInv, PaceTyped
<1>4. /\ filled \in BucketT(BatchRate, RateWindow)
      /\ Holds(filled, BatchRate, RateWindow) = Holds(batchBucket, BatchRate, RateWindow)
      /\ byte \in BucketT(ByteRate, ByteWindow)
      /\ Holds(byte, ByteRate, ByteWindow) = Holds(byteBucket, ByteRate, ByteWindow)
      /\ Holds(batchBucket, BatchRate, RateWindow) \in Int
      /\ Holds(byteBucket, ByteRate, ByteWindow) \in Int
  BY <1>3, Refilled
<1>5. CASE batchBucket' = filled /\ byteBucket' = byte /\ grants' = grants
  BY <1>1, <1>4, <1>5, PaceKept
<1>6. CASE /\ Larger(waitBatch, waitByte) = 0
           /\ batchBucket' = [filled EXCEPT !.tokens = Larger(0, @ - RateWindow)]
           /\ byteBucket' = [byte EXCEPT !.tokens = Larger(0, @ - NeedBytes)]
           /\ grants' = Granted(Lesser(payload, ByteRate))
  <2>1. waitBatch \in Int /\ waitByte \in Int
    <3>1. ASSUME NEW need \in Nat, NEW rate \in Nat \ {0}, NEW window \in Nat \ {0},
                 NEW b \in BucketT(rate, window)
          PROVE  TimeUntil(b, need, rate) \in Int
      <4>1. b.tokens \in Int
        BY DEF BucketT
      <4>2. CASE b.tokens < need
        <5>1. CeilDiv(need - b.tokens, rate) \in Nat \ {0}
          BY <4>1, <4>2, CeilPositive
        <5> QED
          BY <4>1, <4>2, <5>1 DEF TimeUntil
      <4> QED
        BY <4>1, <4>2 DEF TimeUntil
    <3> QED
      BY <1>2, <1>4, <3>1
  <2>2. waitBatch <= 0 /\ waitByte <= 0
    <3> HIDE DEF waitBatch, waitByte
    <3> QED
      BY <1>6, <2>1 DEF Larger
  <2>3. /\ batchBucket' \in BucketT(BatchRate, RateWindow)
        /\ Holds(batchBucket', BatchRate, RateWindow)
             = Holds(batchBucket, BatchRate, RateWindow) - RateWindow
    BY <1>3, <1>6, <2>2, Taken
  <2>4. /\ byteBucket' \in BucketT(ByteRate, ByteWindow)
        /\ Holds(byteBucket', ByteRate, ByteWindow)
             = Holds(byteBucket, ByteRate, ByteWindow) - NeedBytes
    <3>1. CASE NeedBytes > 0
      BY <1>2, <1>3, <1>6, <2>2, <3>1, Taken
    <3>2. CASE NeedBytes = 0
      <4>1. byteBucket' = byteBucket
        <5>1. byteBucket.tokens \in Nat
          BY <1>3 DEF BucketT
        <5>2. Larger(0, byteBucket.tokens - 0) = byteBucket.tokens
          BY <5>1 DEF Larger
        <5> QED
          BY <1>3, <1>6, <3>2, <5>2 DEF BucketT
      <4> QED
        BY <1>3, <1>4, <3>2, <4>1
    <3> QED
      BY <1>2, <3>1, <3>2
  <2> QED
    BY <1>1, <1>6, <2>3, <2>4, PaceGranted
<1> QED
  BY <1>1, <1>5, <1>6

LEMMA PaceStep == PaceInv /\ [PacerNext]_pacerVars => PaceInv'
<1> SUFFICES ASSUME PaceInv, [PacerNext]_pacerVars PROVE PaceInv'
  OBVIOUS
<1>1. /\ payload \in Nat /\ batchBucket \in BucketT(BatchRate, RateWindow)
      /\ byteBucket \in BucketT(ByteRate, ByteWindow)
  BY DEF PaceInv, PaceTyped
<1>2. /\ Holds(batchBucket, BatchRate, RateWindow) <= Holds(batchBucket, BatchRate, RateWindow)
      /\ Holds(byteBucket, ByteRate, ByteWindow) <= Holds(byteBucket, ByteRate, ByteWindow)
  BY <1>1, Refilled
<1>3. ASSUME payload' \in Nat, UNCHANGED <<batchBucket, byteBucket, grants>> PROVE PaceInv'
  BY <1>1, <1>2, <1>3, PaceKept
<1>4. CASE Acquire
  BY <1>3, <1>4 DEF Acquire
<1>5. CASE SlowAfter429 \/ SlowAfter5xx \/ ToBuckets
  BY <1>1, <1>3, <1>5 DEF SlowAfter429, SlowAfter5xx, ToBuckets, Sleep, After
<1>6. CASE TakeTokens
  BY <1>6, PaceTakes
<1>7. CASE Notify429 \/ NotifyServiceUnavailable
  BY <1>1, <1>3, <1>7 DEF Notify429, NotifyServiceUnavailable
<1>8. CASE PacerTick
  BY <1>8, PaceTicks
<1>9. CASE SetsBack
  <2>1. /\ payload' = payload /\ grants' = grants
        /\ batchBucket' = [batchBucket EXCEPT !.since = @ - SetBack]
        /\ byteBucket' = [byteBucket EXCEPT !.since = @ - SetBack]
    BY <1>9 DEF SetsBack
  <2>2. /\ batchBucket' \in BucketT(BatchRate, RateWindow)
        /\ Holds(batchBucket', BatchRate, RateWindow)
             <= Holds(batchBucket, BatchRate, RateWindow)
        /\ byteBucket' \in BucketT(ByteRate, ByteWindow)
        /\ Holds(byteBucket', ByteRate, ByteWindow) <= Holds(byteBucket, ByteRate, ByteWindow)
    BY <1>1, <2>1, SetBackAddsNothing
  <2> QED
    BY <1>1, <2>1, <2>2, PaceKept
<1>10. CASE UNCHANGED pacerVars
  BY <1>1, <1>3, <1>10 DEF pacerVars
<1> QED
  BY <1>4, <1>5, <1>6, <1>7, <1>8, <1>9, <1>10 DEF PacerNext, AcquireStep

\* What the buckets hold and what was let through stay in balance.
THEOREM PaceIsBalanced == PacerSpec => []PaceInv
  BY PaceInit, PaceStep, PTL DEF PacerSpec

\* In no window is more let through than twice what the configuration allows for it,
\* for every rate, payload and delay, and however the clock is set back (acquire, refill
\* and timeUntil of the pacer).
THEOREM KeepsPace == PacerSpec => []PaceHeld
<1>1. ASSUME NEW rate \in Nat \ {0}, NEW window \in Nat \ {0}, NEW passed \in Nat,
             NEW held \in Nat,
             passed * window + held <= rate * window + rate * (window - 1)
      PROVE  passed <= 2 * rate
  <2> SUFFICES ASSUME passed >= 2 * rate + 1 PROVE FALSE
    OBVIOUS
  <2>1. (passed - 2 * rate) * window \in Nat
    OBVIOUS
  <2>2. (passed - 2 * rate) * window = passed * window - 2 * (rate * window)
    OBVIOUS
  <2>3. rate * (window - 1) = rate * window - rate
    OBVIOUS
  <2>4. passed * window \in Nat /\ rate * window \in Nat
    OBVIOUS
  <2> QED
    BY <1>1, <2>1, <2>2, <2>3, <2>4
<1>2. PaceInv => PaceHeld
  <2> SUFFICES ASSUME PaceInv PROVE PaceHeld
    OBVIOUS
  <2>1. /\ grants[RateWindow - 1].captures \in Nat /\ grants[ByteWindow - 1].bytes \in Nat
        /\ Holds(batchBucket, BatchRate, RateWindow) \in Nat
        /\ Holds(byteBucket, ByteRate, ByteWindow) \in Nat
    <3>1. BatchRate * RateWindow \in Nat /\ ByteRate * ByteWindow \in Nat
      OBVIOUS
    <3> QED
      BY <3>1, AgeFacts, Refilled DEF PaceInv, PaceTyped
  <2>2. /\ grants[RateWindow - 1].captures * RateWindow + Holds(batchBucket, BatchRate, RateWindow)
             <= BatchRate * RateWindow + BatchRate * (RateWindow - 1)
        /\ grants[ByteWindow - 1].bytes * ByteWindow + Holds(byteBucket, ByteRate, ByteWindow)
             <= ByteRate * ByteWindow + ByteRate * (ByteWindow - 1)
    BY AgeFacts DEF PaceInv, CapturesPaced, BytesPaced
  <2>3. grants[RateWindow - 1].captures <= 2 * BatchRate
    BY <1>1, <2>1, <2>2
  <2>4. grants[ByteWindow - 1].bytes <= 2 * ByteRate
    BY <1>1, <2>1, <2>2
  <2> QED
    BY <2>3, <2>4 DEF PaceHeld
<1> QED
  BY <1>2, PaceIsBalanced, PTL

-----------------------------------------------------------------------------
(* The types.  That a delay that grows has a length at all needs what the  *)
(* powers of a number are: they are defined one by the one before it, so   *)
(* that there is such a function has to be shown first.                    *)

\* A set of numbers has a least one: < on the numbers is well founded.
LEMMA LeastIn ==
  ASSUME NEW S, S \subseteq Nat, S # {}
  PROVE  \E x \in S : \A y \in S : x <= y
<1> DEFINE R == OpToRel(<, Nat)
<1>1. IsWellFoundedOn(R, Nat)
  BY NatLessThanWellFounded
<1>2. PICK x \in S : \A y \in S : <<y, x>> \notin R
  <2> HIDE DEF R
  <2> QED
    BY <1>1, WFMin
<1>3. \A y \in S : ~ (y < x)
  BY <1>2 DEF OpToRel
<1> QED
  BY <1>3

\* The powers of b up to the n-th.
PowersTo(b, n, p) ==
    /\ p \in [0 .. n -> Nat \ {0}]
    /\ \A k \in 0 .. n : p[k] = IF k = 0 THEN 1 ELSE b * p[k - 1]

LEMMA SomePowers ==
  ASSUME NEW b \in Nat \ {0}, NEW n \in Nat
  PROVE  \E p : PowersTo(b, n, p)
<1> DEFINE S == {m \in Nat : ~ \E p : PowersTo(b, m, p)}
<1> SUFFICES ASSUME S # {} PROVE FALSE
  OBVIOUS
<1>1. PICK m \in S : \A k \in S : m <= k
  <2>1. S \subseteq Nat
    OBVIOUS
  <2> HIDE DEF S
  <2> QED
    BY <2>1, LeastIn
<1>2. m # 0
  <2>1. PowersTo(b, 0, [k \in 0 .. 0 |-> 1])
    BY DEF PowersTo
  <2> QED
    BY <1>1, <2>1
<1>3. PICK p : PowersTo(b, m - 1, p)
  BY <1>1, <1>2
<1> DEFINE q == [k \in 0 .. m |-> IF k = m THEN b * p[m - 1] ELSE p[k]]
<1>4. m - 1 \in Nat /\ m \in Nat /\ p[m - 1] \in Nat \ {0}
  BY <1>1, <1>2, <1>3 DEF PowersTo
<1>5. b * p[m - 1] \in Nat \ {0}
  BY <1>4
<1>6. \A k \in 0 .. m : k # m => k \in 0 .. m - 1
  BY <1>4
<1>7. q \in [0 .. m -> Nat \ {0}]
  BY <1>3, <1>5, <1>6 DEF PowersTo
<1>8. \A j \in 0 .. m : q[j] = IF j = m THEN b * p[m - 1] ELSE p[j]
  OBVIOUS
<1> HIDE DEF q, S
<1>9. ASSUME NEW k \in 0 .. m PROVE q[k] = IF k = 0 THEN 1 ELSE b * q[k - 1]
  <2>1. CASE k = m
    <3>1. m - 1 \in 0 .. m /\ m - 1 # m /\ m \in 0 .. m
      BY <1>2, <1>4
    <3>2. q[m] = b * p[m - 1] /\ q[m - 1] = p[m - 1]
      BY <1>8, <3>1
    <3> QED
      BY <1>2, <2>1, <3>2
  <2>2. CASE k # m /\ k # 0
    <3>1. k \in 0 .. m - 1 /\ k - 1 \in 0 .. m /\ k - 1 # m
      BY <1>4, <2>2
    <3>2. q[k] = p[k] /\ q[k - 1] = p[k - 1]
      BY <1>8, <2>2, <3>1
    <3>3. p[k] = b * p[k - 1]
      BY <1>3, <2>2, <3>1 DEF PowersTo
    <3> QED
      BY <2>2, <3>2, <3>3
  <2>3. CASE k # m /\ k = 0
    <3>1. q[k] = p[k] /\ p[k] = 1
      BY <1>3, <1>6, <1>8, <2>3 DEF PowersTo
    <3> QED
      BY <2>3, <3>1
  <2> QED
    BY <2>1, <2>2, <2>3
<1>10. PowersTo(b, m, q)
  BY <1>7, <1>9 DEF PowersTo
<1> QED
  BY <1>1, <1>10 DEF S

\* They are the same, however far they are counted.
LEMMA SamePowers ==
  ASSUME NEW b \in Nat \ {0}, NEW m \in Nat, NEW n \in Nat, NEW p, NEW q,
         PowersTo(b, m, p), PowersTo(b, n, q), NEW k \in Nat, k <= m, k <= n
  PROVE  p[k] = q[k]
<1> DEFINE S == {j \in Nat : j <= m /\ j <= n /\ p[j] # q[j]}
<1> SUFFICES ASSUME S # {} PROVE FALSE
  OBVIOUS
<1>1. PICK j \in S : \A i \in S : j <= i
  <2>1. S \subseteq Nat
    OBVIOUS
  <2> HIDE DEF S
  <2> QED
    BY <2>1, LeastIn
<1>2. CASE j = 0
  BY <1>1, <1>2 DEF PowersTo
<1>3. CASE j # 0
  <2>1. j \in 0 .. m /\ j \in 0 .. n /\ j - 1 \in Nat /\ j - 1 <= m /\ j - 1 <= n
    BY <1>1, <1>3
  <2>2. p[j - 1] = q[j - 1]
    BY <1>1, <2>1
  <2> QED
    BY <1>1, <1>3, <2>1, <2>2 DEF PowersTo
<1> QED
  BY <1>2, <1>3

\* The powers of a positive number are positive numbers.
LEMMA Powers ==
  ASSUME NEW b \in Nat \ {0}, NEW n \in Nat
  PROVE  Power(b)[n] \in Nat \ {0}
<1> DEFINE IsPower(f) == f = [m \in Nat |-> IF m = 0 THEN 1 ELSE b * f[m - 1]]
           to(m) == CHOOSE p : PowersTo(b, m, p)
           all == [m \in Nat |-> to(m)[m]]
<1>1. \A m \in Nat : PowersTo(b, m, to(m))
  BY SomePowers
<1> HIDE DEF to
<1>2. ASSUME NEW m \in Nat PROVE all[m] = IF m = 0 THEN 1 ELSE b * all[m - 1]
  <2>1. CASE m = 0
    <3>1. PowersTo(b, 0, to(0)) /\ 0 \in 0 .. 0
      BY <1>1
    <3>2. to(0)[0] = 1
      BY <3>1 DEF PowersTo
    <3> QED
      BY <2>1, <3>2
  <2>2. CASE m # 0
    <3>1. m - 1 \in Nat /\ m \in 0 .. m /\ m - 1 <= m
      BY <2>2
    <3>2. to(m)[m] = b * to(m)[m - 1]
      BY <1>1, <2>2, <3>1 DEF PowersTo
    <3>3. to(m)[m - 1] = to(m - 1)[m - 1]
      BY <1>1, <3>1, SamePowers
    <3> QED
      BY <2>2, <3>1, <3>2, <3>3
  <2> QED
    BY <2>1, <2>2
<1>3. IsPower(all)
  BY <1>2
<1> HIDE DEF all
<1>4. IsPower(CHOOSE f : IsPower(f))
  BY <1>3
<1>5. Power(b) = CHOOSE f : IsPower(f)
  BY DEF Power
<1>6. IsPower(Power(b))
  BY <1>4, <1>5
<1>7. \A m \in Nat : Power(b)[m] = IF m = 0 THEN 1 ELSE b * Power(b)[m - 1]
  BY <1>6
<1> DEFINE S == {m \in Nat : Power(b)[m] \notin Nat \ {0}}
<1>8. S = {}
  <2> SUFFICES ASSUME S # {} PROVE FALSE
    OBVIOUS
  <2>1. PICK m \in S : \A k \in S : m <= k
    <3>1. S \subseteq Nat
      OBVIOUS
    <3> HIDE DEF S
    <3> QED
      BY <3>1, LeastIn
  <2>2. m # 0
    BY <1>7, <2>1
  <2>3. m - 1 \in Nat /\ Power(b)[m - 1] \in Nat \ {0}
    BY <2>1, <2>2
  <2>4. Power(b)[m] = b * Power(b)[m - 1]
    BY <1>7, <2>1, <2>2
  <2>5. b * Power(b)[m - 1] \in Nat \ {0}
    BY <2>3
  <2> QED
    BY <2>1, <2>4, <2>5
<1> QED
  BY <1>8

\* A finite set of integers has a greatest one, and Max is it.
LEMMA GreatestIs ==
  ASSUME NEW S, S \subseteq Int, S # {}, IsFiniteSet(S)
  PROVE  Max(S) \in S /\ \A y \in S : y <= Max(S)
<1> DEFINE Above(x) == {y \in S : y > x}
           C == {Cardinality(Above(x)) : x \in S}
<1>1. \A x \in S : IsFiniteSet(Above(x)) /\ Cardinality(Above(x)) \in Nat
  BY FS_Subset, FS_CardinalityType
<1>2. PICK x \in S : \A y \in S : Cardinality(Above(x)) <= Cardinality(Above(y))
  <2>1. C \subseteq Nat /\ C # {}
    BY <1>1
  <2>2. PICK c \in C : \A d \in C : c <= d
    BY <2>1, LeastIn
  <2> QED
    BY <2>2
<1>3. ASSUME NEW y \in S, y > x PROVE FALSE
  <2>1. y \in Above(x) /\ y \notin Above(y) /\ \A z \in Above(y) : z \in Above(x)
    BY <1>3
  <2> HIDE DEF Above
  <2>2. Above(y) \in SUBSET Above(x) /\ Above(y) # Above(x) /\ IsFiniteSet(Above(x))
    BY <1>1, <2>1
  <2>3. Cardinality(Above(y)) <= Cardinality(Above(x))
        /\ Cardinality(Above(y)) # Cardinality(Above(x))
    BY <2>2, FS_Subset
  <2> QED
    BY <1>1, <1>2, <2>3
<1>4. \E z \in S : \A y \in S : z >= y
  <2>1. \A y \in S : x >= y
    BY <1>3
  <2> QED
    BY <2>1
<1>5. Max(S) \in S /\ \A y \in S : Max(S) >= y
  BY <1>4, Zenon DEF Max
<1> QED
  BY <1>5

\* The longest Retry-After, and how far the clock was set back so far.
Asked == Max(RetryAfters \cup {0})
Back == setBacks * SetBack

LEMMA Waits ==
  /\ Asked \in Nat /\ \A t \in RetryAfters \cup {0} : t \in Nat /\ t <= Asked
  /\ MaxWait \in Nat /\ MaxWait = Asked + SetBacks * SetBack /\ SetBacks * SetBack \in Nat
  /\ Past = -(SetBacks * SetBack)
<1>1. RetryAfters \cup {0} \subseteq Int /\ RetryAfters \cup {0} # {}
  OBVIOUS
<1>2. IsFiniteSet(RetryAfters \cup {0})
  BY FS_AddElement
<1>3. Asked \in RetryAfters \cup {0} /\ \A t \in RetryAfters \cup {0} : t <= Asked
  BY <1>1, <1>2, GreatestIs DEF Asked
<1>4. SetBacks * SetBack \in Nat /\ -SetBacks * SetBack = -(SetBacks * SetBack)
  BY PastIsPast DEF Past
<1>5. \A t \in RetryAfters \cup {0} : t \in Nat
  OBVIOUS
<1>6. MaxWait = Asked + SetBacks * SetBack /\ Past = -SetBacks * SetBack
  BY DEF MaxWait, Asked, Past
<1>7. Asked \in Nat
  BY <1>3, <1>5
<1>8. Asked + SetBacks * SetBack \in Nat
  <2> HIDE DEF Asked
  <2> QED
    BY <1>4, <1>7
<1> QED
  BY <1>3, <1>4, <1>5, <1>6, <1>7, <1>8

LEMMA Sleeps ==
  /\ LongestSleep \in Nat /\ MaxWait <= LongestSleep /\ MaxBackoff <= LongestSleep
  /\ LongestDelay <= LongestSleep /\ RateWindow <= LongestSleep /\ ByteWindow <= LongestSleep
<1> DEFINE S == {MaxWait, MaxBackoff, LongestDelay, RateWindow, ByteWindow}
<1>1. S \subseteq Nat /\ S # {}
  BY Waits
<1>2. IsFiniteSet(S)
  <2>1. IsFiniteSet({MaxWait} \cup {MaxBackoff})
    BY FS_Singleton, FS_AddElement
  <2>2. IsFiniteSet(({MaxWait} \cup {MaxBackoff}) \cup {LongestDelay})
    BY <2>1, FS_AddElement
  <2>3. IsFiniteSet((({MaxWait} \cup {MaxBackoff}) \cup {LongestDelay}) \cup {RateWindow})
    BY <2>2, FS_AddElement
  <2>4. IsFiniteSet(((({MaxWait} \cup {MaxBackoff}) \cup {LongestDelay}) \cup {RateWindow})
                      \cup {ByteWindow})
    BY <2>3, FS_AddElement
  <2>5. S = (((({MaxWait} \cup {MaxBackoff}) \cup {LongestDelay}) \cup {RateWindow})
               \cup {ByteWindow})
    OBVIOUS
  <2> QED
    BY <2>4, <2>5
<1>3. Max(S) \in S /\ \A y \in S : y <= Max(S)
  <2>1. S \subseteq Int
    BY <1>1
  <2> HIDE DEF S
  <2> QED
    BY <1>1, <1>2, <2>1, GreatestIs
<1> QED
  BY <1>1, <1>3 DEF LongestSleep

\* PacerTypeOK in three parts, and how far each bucket's clock and retryIn can be off.
SleepTypes ==
    /\ stage \in {"idle", "retry", "slow429", "slow5xx", "bucket", "granted"}
    /\ payload \in Payloads \cup {0} /\ sleeping \in 0 .. LongestSleep

AnswerTypes ==
    /\ steps429 \in 0 .. MaxSteps /\ steps5xx \in 0 .. MaxSteps
    /\ pending429 \in BOOLEAN /\ pending5xx \in BOOLEAN
    /\ floor5xx \in RetryAfters \cup {0} /\ pendingFloor \in RetryAfters \cup {0}

ClockTypes ==
    /\ setBacks \in 0 .. SetBacks
    /\ batchBucket.since \in -Back .. RateWindow /\ byteBucket.since \in -Back .. ByteWindow
    /\ retryIn \in Past .. Asked + Back /\ owed \in 0 .. Asked

PacerTypes == SleepTypes /\ AnswerTypes /\ ClockTypes

\* The clock is set back a number of times, and by no more than it may be in all.
LEMMA Backs ==
  ASSUME setBacks \in 0 .. SetBacks
  PROVE  Back \in Nat /\ Back <= SetBacks * SetBack
<1>1. SetBacks - setBacks \in Nat /\ SetBack \in Nat /\ setBacks \in Nat
  OBVIOUS
<1>2. (SetBacks - setBacks) * SetBack \in Nat /\ setBacks * SetBack \in Nat
  BY <1>1
<1>3. (SetBacks - setBacks) * SetBack = SetBacks * SetBack - setBacks * SetBack
  BY <1>1
<1> QED
  BY <1>2, <1>3, Waits DEF Back

LEMMA PacerTypesSuffice == PacerTypes /\ PaceInv => PacerTypeOK
<1> SUFFICES ASSUME PacerTypes, PaceInv PROVE PacerTypeOK
  OBVIOUS
<1>1. Back \in Nat /\ Back <= SetBacks * SetBack
  BY Backs DEF PacerTypes, ClockTypes
<1>2. retryIn \in Past .. MaxWait /\ owed \in 0 .. MaxWait
  BY <1>1, Waits DEF PacerTypes, ClockTypes
<1>3. ASSUME NEW rate \in Nat \ {0}, NEW window \in Nat \ {0}, NEW b \in BucketT(rate, window),
             b.since \in -Back .. window
      PROVE  b \in Bucket(rate, window)
  <2>1. b.since \in Past .. window
    BY <1>1, <1>3, Waits
  <2> QED
    BY <2>1 DEF Bucket, BucketT
<1>4. /\ batchBucket \in Bucket(BatchRate, RateWindow)
      /\ byteBucket \in Bucket(ByteRate, ByteWindow)
  BY <1>3 DEF PacerTypes, ClockTypes, PaceInv, PaceTyped
<1> QED
  BY <1>2, <1>4 DEF PacerTypes, SleepTypes, AnswerTypes, ClockTypes, PacerTypeOK

LEMMA PacerTypesInit == PacerInit => PacerTypes
<1> SUFFICES ASSUME PacerInit PROVE PacerTypes
  OBVIOUS
<1>1. SleepTypes
  BY Sleeps DEF PacerInit, SleepTypes
<1>2. AnswerTypes
  <2>1. pending429 \in BOOLEAN /\ pending5xx \in BOOLEAN
    BY Zenon DEF PacerInit
  <2>2. 0 \in 0 .. MaxSteps
    OBVIOUS
  <2> QED
    BY <2>1, <2>2 DEF PacerInit, AnswerTypes
<1>3. setBacks = 0 /\ Back = 0
  BY DEF PacerInit, Back
<1>4. ClockTypes
  BY <1>3, Waits DEF PacerInit, ClockTypes
<1> QED
  BY <1>1, <1>2, <1>4 DEF PacerTypes

\* A quotient is at most the factor that the dividend is within.
LEMMA CeilBounded ==
  ASSUME NEW a \in Nat, NEW b \in Nat \ {0}, NEW w \in Nat, a <= b * w
  PROVE  CeilDiv(a, b) \in 0 .. w
<1> DEFINE q == (a + b - 1) \div b
<1>1. q \in Nat /\ b * q <= a + b - 1
  OBVIOUS
<1>2. q <= w
  <2> SUFFICES ASSUME q >= w + 1 PROVE FALSE
    BY <1>1
  <2>1. b * q >= b * (w + 1)
    <3>1. b * (q - (w + 1)) \in Nat
      <4>1. q - (w + 1) \in Nat
        BY <1>1
      <4> HIDE DEF q
      <4> QED
        BY <4>1
    <3>2. b * (q - (w + 1)) = b * q - b * (w + 1)
      <4> HIDE DEF q
      <4> QED
        BY <1>1
    <3> HIDE DEF q
    <3> QED
      BY <1>1, <3>1, <3>2
  <2>2. b * (w + 1) = b * w + b
    OBVIOUS
  <2> HIDE DEF q
  <2> QED
    BY <1>1, <2>1, <2>2
<1> QED
  BY <1>1, <1>2 DEF CeilDiv

\* A bucket that is filled holds what is asked for within its window.
LEMMA WaitBounded ==
  ASSUME NEW rate \in Nat \ {0}, NEW window \in Nat \ {0}, NEW b \in BucketT(rate, window),
         NEW need \in Nat, need <= rate * window
  PROVE  TimeUntil(b, need, rate) \in 0 .. window
<1>1. b.tokens \in Nat
  BY DEF BucketT
<1>2. CASE b.tokens >= need
  BY <1>2 DEF TimeUntil
<1>3. CASE ~ (b.tokens >= need)
  <2>1. need - b.tokens \in Nat /\ need - b.tokens <= rate * window
    <3>1. rate * window \in Nat
      OBVIOUS
    <3> QED
      BY <1>1, <1>3, <3>1
  <2>2. CeilDiv(need - b.tokens, rate) \in 0 .. window
    BY <2>1, CeilBounded
  <2> QED
    BY <1>3, <2>2 DEF TimeUntil
<1> QED
  BY <1>2, <1>3

\* No sleep of acquire is longer than the longest.
LEMMA SlowSleeps ==
  ASSUME PacerTypes
  PROVE  Slot429 \in 0 .. LongestSleep /\ Delay5xx \in 0 .. LongestSleep
<1>1. Slot429 \in 0 .. MaxBackoff
  <2>1. Power(Multiplier)[steps429] - 1 \in Nat
    BY Powers DEF PacerTypes, AnswerTypes
  <2>2. RateWindow * (Power(Multiplier)[steps429] - 1) \in Nat
    BY <2>1
  <2>3. CeilDiv(RateWindow * (Power(Multiplier)[steps429] - 1), BatchRate) \in Nat
    BY <2>2 DEF CeilDiv
  <2> QED
    BY <2>3 DEF Slot429, Lesser
<1>2. floor5xx \in 0 .. MaxWait
  BY Waits DEF PacerTypes, AnswerTypes
<1>3. CASE steps5xx = 0
  BY <1>1, <1>3, Sleeps DEF Delay5xx
<1>4. CASE steps5xx # 0
  <2>1. steps5xx - 1 \in Nat
    BY <1>4 DEF PacerTypes, AnswerTypes
  <2>2. Power(2)[steps5xx - 1] \in Nat
    BY <2>1, Powers
  <2>3. FirstDelay * Power(2)[steps5xx - 1] \in Nat
    BY <2>2
  <2>4. Lesser(LongestDelay, FirstDelay * Power(2)[steps5xx - 1]) \in 0 .. LongestDelay
    BY <2>3 DEF Lesser
  <2>5. Delay5xx \in 0 .. LongestSleep
    BY <1>2, <1>4, <2>4, Sleeps, Waits DEF Delay5xx, Larger
  <2> QED
    BY <1>1, <2>5, Sleeps
<1> QED
  BY <1>3, <1>4

\* Nor is a wait for the buckets.
LEMMA BucketSleeps ==
  ASSUME PaceInv, TakeTokens
  PROVE  sleeping' \in 0 .. LongestSleep
<1> DEFINE filled == Refill(batchBucket, BatchRate, RateWindow)
           byte == IF NeedBytes > 0 THEN Refill(byteBucket, ByteRate, ByteWindow)
                                    ELSE byteBucket
           waitBatch == TimeUntil(filled, RateWindow, BatchRate)
           waitByte == IF NeedBytes > 0 THEN TimeUntil(byte, NeedBytes, ByteRate) ELSE 0
<1>1. sleeping' = Larger(waitBatch, waitByte) \/ sleeping' = 0
  BY DEF TakeTokens, Sleep
<1>2. /\ filled \in BucketT(BatchRate, RateWindow) /\ byte \in BucketT(ByteRate, ByteWindow)
      /\ payload \in Nat
  BY Refilled DEF PaceInv, PaceTyped
<1>3. NeedBytes \in Nat /\ NeedBytes <= ByteRate * ByteWindow
  <2>1. Lesser(payload, ByteRate) \in Nat /\ ByteRate - Lesser(payload, ByteRate) \in Nat
    BY <1>2 DEF Lesser
  <2>2. /\ (ByteRate - Lesser(payload, ByteRate)) * ByteWindow \in Nat
        /\ (ByteRate - Lesser(payload, ByteRate)) * ByteWindow
             = ByteRate * ByteWindow - Lesser(payload, ByteRate) * ByteWindow
        /\ Lesser(payload, ByteRate) * ByteWindow \in Nat /\ ByteRate * ByteWindow \in Nat
    BY <2>1
  <2> QED
    BY <2>2 DEF NeedBytes
<1>4. RateWindow <= BatchRate * RateWindow
  <2>1. (BatchRate - 1) * RateWindow \in Nat
    OBVIOUS
  <2>2. (BatchRate - 1) * RateWindow = BatchRate * RateWindow - RateWindow
        /\ BatchRate * RateWindow \in Nat
    OBVIOUS
  <2> QED
    BY <2>1, <2>2
<1> HIDE DEF filled, byte
<1>5. waitBatch \in 0 .. RateWindow
  BY <1>2, <1>4, WaitBounded
<1>6. waitByte \in 0 .. ByteWindow
  BY <1>2, <1>3, WaitBounded
<1> HIDE DEF waitBatch, waitByte
<1> QED
  BY <1>1, <1>5, <1>6, Sleeps DEF Larger

\* Each step keeps the parts of PacerTypes, whatever it is that moves.
LEMMA SleepsKept ==
  ASSUME PacerTypes, PaceInv, [PacerNext]_pacerVars
  PROVE  SleepTypes'
<1>1. /\ stage \in {"idle", "retry", "slow429", "slow5xx", "bucket", "granted"}
      /\ payload \in Payloads \cup {0} /\ sleeping \in 0 .. LongestSleep
      /\ LongestSleep \in Nat
  BY Sleeps DEF PacerTypes, SleepTypes
<1>2. CASE Acquire
  <2>1. retryIn \in Int /\ retryIn <= MaxWait /\ MaxWait \in Nat
    <3>1. Back \in Nat /\ Back <= SetBacks * SetBack
      BY Backs DEF PacerTypes, ClockTypes
    <3> QED
      BY <3>1, Waits DEF PacerTypes, ClockTypes
  <2>2. sleeping' = RetrySleep /\ RetrySleep \in 0 .. LongestSleep
    BY <1>2, <2>1, Sleeps DEF Acquire, RetrySleep, Larger
  <2> QED
    BY <1>2, <2>2 DEF Acquire, SleepTypes
<1>3. CASE SlowAfter429
  BY <1>1, <1>3, SlowSleeps DEF SlowAfter429, Sleep, SleepTypes
<1>4. CASE SlowAfter5xx
  BY <1>1, <1>4, SlowSleeps DEF SlowAfter5xx, Sleep, SleepTypes
<1>5. CASE ToBuckets
  BY <1>1, <1>5 DEF ToBuckets, Sleep, SleepTypes
<1>6. CASE TakeTokens
  <2>1. stage' \in {"bucket", "granted"} /\ payload' = payload
    BY <1>6 DEF TakeTokens, Sleep
  <2> QED
    BY <1>1, <1>6, <2>1, BucketSleeps DEF SleepTypes
<1>7. CASE Notify429 \/ NotifyServiceUnavailable
  BY <1>1, <1>7 DEF Notify429, NotifyServiceUnavailable, SleepTypes
<1>8. CASE PacerTick
  BY <1>1, <1>8 DEF PacerTick, SleepTypes, Larger
<1>9. CASE SetsBack
  BY <1>1, <1>9 DEF SetsBack, SleepTypes
<1>10. CASE UNCHANGED pacerVars
  BY <1>1, <1>10 DEF pacerVars, SleepTypes
<1> QED
  BY <1>2, <1>3, <1>4, <1>5, <1>6, <1>7, <1>8, <1>9, <1>10 DEF PacerNext, AcquireStep

LEMMA AnswersKept ==
  ASSUME PacerTypes, [PacerNext]_pacerVars
  PROVE  AnswerTypes'
<1>1. /\ steps429 \in 0 .. MaxSteps /\ steps5xx \in 0 .. MaxSteps
      /\ floor5xx \in RetryAfters \cup {0} /\ pendingFloor \in RetryAfters \cup {0}
      /\ 0 \in 0 .. MaxSteps
  BY DEF PacerTypes, AnswerTypes
<1>2. pending429 \in BOOLEAN /\ pending5xx \in BOOLEAN
  BY DEF PacerTypes, AnswerTypes
<1>3. CASE Acquire
  <2>1. pending429' \in BOOLEAN /\ pending5xx' \in BOOLEAN
    BY <1>3, Zenon DEF Acquire
  <2>2. ASSUME NEW n \in 0 .. MaxSteps PROVE Lesser(n + 1, MaxSteps) \in 0 .. MaxSteps
    BY DEF Lesser
  <2>3. Lesser(steps429 + 1, MaxSteps) \in 0 .. MaxSteps
        /\ Lesser(steps5xx + 1, MaxSteps) \in 0 .. MaxSteps
    BY <1>1, <2>2
  <2>4. steps429' \in 0 .. MaxSteps /\ steps5xx' \in 0 .. MaxSteps
        /\ floor5xx' \in RetryAfters \cup {0} /\ pendingFloor' \in RetryAfters \cup {0}
    BY <1>1, <1>3, <2>3 DEF Acquire
  <2> QED
    BY <2>1, <2>4 DEF AnswerTypes
<1>4. CASE Notify429
  <2>1. pending429' \in BOOLEAN /\ pending5xx' \in BOOLEAN
    BY <1>2, <1>4, Zenon DEF Notify429
  <2> QED
    BY <1>1, <1>4, <2>1 DEF Notify429, AnswerTypes
<1>5. CASE NotifyServiceUnavailable
  <2>1. pending429' \in BOOLEAN /\ pending5xx' \in BOOLEAN
    BY <1>2, <1>5, Zenon DEF NotifyServiceUnavailable
  <2>2. ASSUME NEW t \in RetryAfters, pendingFloor' = Larger(pendingFloor, t)
        PROVE  pendingFloor' \in RetryAfters \cup {0}
    BY <1>1, <2>2 DEF Larger
  <2>3. pendingFloor' \in RetryAfters \cup {0}
    BY <1>1, <1>5, <2>2 DEF NotifyServiceUnavailable
  <2> QED
    BY <1>1, <1>5, <2>1, <2>3 DEF NotifyServiceUnavailable, AnswerTypes
<1>6. ASSUME UNCHANGED <<steps429, steps5xx, pending429, pending5xx, floor5xx, pendingFloor>>
      PROVE  AnswerTypes'
  <2>1. pending429' \in BOOLEAN /\ pending5xx' \in BOOLEAN
    BY <1>2, <1>6, Zenon
  <2> QED
    BY <1>1, <1>6, <2>1 DEF AnswerTypes
<1>7. CASE SlowAfter429 \/ SlowAfter5xx \/ ToBuckets \/ TakeTokens
  <2>1. UNCHANGED <<steps429, steps5xx, pending429, pending5xx, floor5xx, pendingFloor>>
    BY <1>7, Zenon DEF SlowAfter429, SlowAfter5xx, ToBuckets, TakeTokens, Sleep
  <2> QED
    BY <1>6, <2>1
<1>8. CASE PacerTick
  BY <1>6, <1>8, Zenon DEF PacerTick
<1>9. CASE SetsBack
  BY <1>6, <1>9, Zenon DEF SetsBack
<1>10. CASE UNCHANGED pacerVars
  BY <1>6, <1>10, Zenon DEF pacerVars
<1> QED
  BY <1>3, <1>4, <1>5, <1>7, <1>8, <1>9, <1>10 DEF PacerNext, AcquireStep

\* A bucket's clock stays within its window and what the clock was set back.
LEMMA SinceBounds ==
  ASSUME PaceInv, PacerTypes, [PacerNext]_pacerVars, ~ SetsBack
  PROVE  /\ batchBucket'.since \in -Back .. RateWindow
         /\ byteBucket'.since \in -Back .. ByteWindow
<1>1. /\ Back \in Nat
      /\ batchBucket.since \in -Back .. RateWindow /\ byteBucket.since \in -Back .. ByteWindow
  BY Backs DEF PacerTypes, ClockTypes
<1>2. /\ batchBucket \in BucketT(BatchRate, RateWindow)
      /\ byteBucket \in BucketT(ByteRate, ByteWindow)
  BY DEF PaceInv, PaceTyped
<1>3. CASE TakeTokens
  <2>1. ASSUME NEW rate \in Nat \ {0}, NEW window \in Nat \ {0}, NEW b \in BucketT(rate, window),
               b.since \in -Back .. window, NEW n
        PROVE  /\ Refill(b, rate, window).since \in -Back .. window
               /\ [Refill(b, rate, window) EXCEPT !.tokens = n].since \in -Back .. window
               /\ [b EXCEPT !.tokens = n].since \in -Back .. window
    <3>1. Refill(b, rate, window) \in BucketT(rate, window)
      BY Refilled
    <3>2. Refill(b, rate, window).since \in -Back .. window
      BY <1>1, <2>1 DEF Refill
    <3> QED
      BY <2>1, <3>1, <3>2 DEF BucketT
  <2> DEFINE filled == Refill(batchBucket, BatchRate, RateWindow)
             byte == IF NeedBytes > 0 THEN Refill(byteBucket, ByteRate, ByteWindow)
                                      ELSE byteBucket
  <2>2. /\ \/ batchBucket' = filled
           \/ batchBucket' = [filled EXCEPT !.tokens = Larger(0, @ - RateWindow)]
        /\ \/ byteBucket' = byte
           \/ byteBucket' = [byte EXCEPT !.tokens = Larger(0, @ - NeedBytes)]
    BY <1>3 DEF TakeTokens
  <2>3. batchBucket'.since \in -Back .. RateWindow
    BY <1>1, <1>2, <2>1, <2>2
  <2>4. byteBucket'.since \in -Back .. ByteWindow
    <3>1. CASE NeedBytes > 0
      BY <1>1, <1>2, <2>1, <2>2, <3>1
    <3>2. CASE ~ (NeedBytes > 0)
      BY <1>1, <1>2, <2>1, <2>2, <3>2
    <3> QED
      BY <3>1, <3>2
  <2> QED
    BY <2>3, <2>4
<1>4. CASE PacerTick
  <2>1. /\ batchBucket'.since = Lesser(RateWindow, batchBucket.since + 1)
        /\ byteBucket'.since = Lesser(ByteWindow, byteBucket.since + 1)
    BY <1>2, <1>4 DEF PacerTick, Passes, BucketT
  <2> QED
    BY <1>1, <2>1 DEF Lesser
<1>5. CASE UNCHANGED <<batchBucket, byteBucket>>
  BY <1>1, <1>5
<1>6. Acquire \/ SlowAfter429 \/ SlowAfter5xx \/ ToBuckets \/ Notify429
        \/ NotifyServiceUnavailable \/ UNCHANGED pacerVars
      => UNCHANGED <<batchBucket, byteBucket>>
  BY DEF Acquire, SlowAfter429, SlowAfter5xx, ToBuckets, After, Notify429,
         NotifyServiceUnavailable, pacerVars
<1> QED
  BY <1>3, <1>4, <1>5, <1>6 DEF PacerNext, AcquireStep

LEMMA ClocksKept ==
  ASSUME PaceInv, PacerTypes, [PacerNext]_pacerVars
  PROVE  ClockTypes'
<1>1. /\ Back \in Nat /\ Back <= SetBacks * SetBack /\ setBacks \in 0 .. SetBacks
      /\ Asked \in Nat /\ Past \in Int /\ Past <= 0
      /\ retryIn \in Past .. Asked + Back /\ owed \in 0 .. Asked
  BY Backs, Waits, PastIsPast DEF PacerTypes, ClockTypes
<1>2. CASE SetsBack
  <2>1. setBacks' \in 0 .. SetBacks /\ setBacks' = setBacks + 1
    BY <1>1, <1>2 DEF SetsBack
  <2>2. Back' = Back + SetBack
    <3>1. Back' = (setBacks + 1) * SetBack
      BY <2>1 DEF Back
    <3>2. (setBacks + 1) * SetBack = setBacks * SetBack + SetBack
      BY <1>1
    <3> QED
      BY <3>1, <3>2 DEF Back
  <2>3. /\ batchBucket'.since = batchBucket.since - SetBack
        /\ byteBucket'.since = byteBucket.since - SetBack
        /\ batchBucket.since \in -Back .. RateWindow /\ byteBucket.since \in -Back .. ByteWindow
    BY <1>2 DEF SetsBack, PaceInv, PaceTyped, BucketT, PacerTypes, ClockTypes
  <2>4. /\ retryIn' = retryIn + SetBack /\ owed' = owed /\ Asked' = Asked /\ Past' = Past
    BY <1>2 DEF SetsBack, Asked, Past
  <2> HIDE DEF Back, Asked
  <2> QED
    BY <1>1, <2>1, <2>2, <2>3, <2>4 DEF ClockTypes
<1>3. CASE ~ SetsBack
  <2>1. setBacks' = setBacks /\ Back' = Back /\ Asked' = Asked /\ Past' = Past
    <3>1. setBacks' = setBacks
      BY <1>3 DEF PacerNext, AcquireStep, Acquire, SlowAfter429, SlowAfter5xx, ToBuckets,
                  TakeTokens, Sleep, Notify429, NotifyServiceUnavailable, PacerTick, pacerVars
    <3> QED
      BY <3>1 DEF Back, Asked, Past
  <2>2. retryIn' \in Past .. Asked + Back /\ owed' \in 0 .. Asked
    <3>1. ASSUME NEW t \in RetryAfters, NotifyRetryAfter(t)
          PROVE  retryIn' \in Past .. Asked + Back /\ owed' \in 0 .. Asked
      <4>1. t \in Nat /\ t <= Asked
        BY Waits
      <4> HIDE DEF Back, Asked
      <4> QED
        BY <1>1, <3>1, <4>1 DEF NotifyRetryAfter, Larger
    <3>2. CASE UNCHANGED <<retryIn, owed>>
      BY <1>1, <3>2
    <3>3. CASE Notify429 \/ NotifyServiceUnavailable
      BY <3>1, <3>2, <3>3 DEF Notify429, NotifyServiceUnavailable
    <3>4. CASE PacerTick
      <4> HIDE DEF Back, Asked
      <4> QED
        BY <1>1, <3>4 DEF PacerTick, Larger
    <3>5. CASE Acquire
      BY <1>1, <3>5 DEF Acquire
    <3>6. SlowAfter429 \/ SlowAfter5xx \/ ToBuckets \/ TakeTokens \/ UNCHANGED pacerVars
          => UNCHANGED <<retryIn, owed>>
      BY DEF SlowAfter429, SlowAfter5xx, ToBuckets, TakeTokens, Sleep, pacerVars
    <3> QED
      BY <1>3, <3>2, <3>3, <3>4, <3>5, <3>6 DEF PacerNext, AcquireStep
  <2>3. /\ batchBucket'.since \in -Back .. RateWindow
        /\ byteBucket'.since \in -Back .. ByteWindow
    BY <1>3, SinceBounds
  <2> QED
    BY <1>1, <2>1, <2>2, <2>3 DEF ClockTypes
<1> QED
  BY <1>2, <1>3

LEMMA PacerTypesStep == PaceInv /\ PacerTypes /\ [PacerNext]_pacerVars => PacerTypes'
  BY SleepsKept, AnswersKept, ClocksKept DEF PacerTypes

-----------------------------------------------------------------------------
(* The run of the pipeline and its pacer.  A step of the run is one of one *)
(* module and leaves the other as it is.                                   *)

LEMMA PacedSteps ==
  [MCNext]_<<vars, pacerVars, subject>> => [Next]_vars /\ [PacerNext]_pacerVars
  BY DEF MCNext

\* In that run every variable of the pipeline and of the pacer (services/uploader/pacer.ts)
\* keeps to its type: no delay grows beyond its cap, and no sleep is longer than the
\* longest that a setting or an answer can ask for.
THEOREM PacedTypes == MCSpec => []TypesOK
<1>1. MCInit => Inductive /\ PaceInv /\ PacerTypes
  BY InductiveInit, PaceInit, PacerTypesInit DEF MCInit
<1>2. Inductive /\ PaceInv /\ PacerTypes /\ [MCNext]_<<vars, pacerVars, subject>>
      => (Inductive /\ PaceInv /\ PacerTypes)'
  BY PacedSteps, InductiveStep, PaceStep, PacerTypesStep
<1>3. Inductive /\ PaceInv /\ PacerTypes => TypesOK
  BY PacerTypesSuffice DEF Inductive, TypesOK
<1> QED
  BY <1>1, <1>2, <1>3, PTL DEF MCSpec

=============================================================================
