------------------------------- MODULE Pacer -------------------------------
(***************************************************************************)
(* The pacer an upload waits for (services/uploader/pacer.ts): two token   *)
(* buckets, one for captures and one for bytes, the Retry-After of the     *)
(* last answers, and a growing backoff after 429 and 5xx.                  *)
(*                                                                         *)
(* Times are in ticks, relative to now.  A bucket of `rate` units in       *)
(* `window` ticks is counted in window-ths of a unit, so that it fills by  *)
(* `rate` a tick.  The clock the buckets read is the wall clock, which may *)
(* be set back; the timers of a sleep are not affected by that.            *)
(***************************************************************************)
EXTENDS Integers, FiniteSets, FiniteSetsExt

CONSTANTS
    BatchRate, RateWindow,      \* maxBatchesPerSec, in ticks
    ByteRate, ByteWindow,       \* maxBytesPerMinute, in ticks
    Payloads,                   \* sizes of a capture
    RetryAfters,                \* what an answer may ask for, in ticks
    Multiplier, MaxBackoff,     \* backoffMultiplier, MAX_BACKOFF_MS
    FirstDelay, LongestDelay,   \* SERVICE_UNAVAILABLE_INITIAL/MAX_DELAY_MS
    MaxSteps,                   \* how far a backoff counts
    SetBacks, SetBack           \* bound: how often, and how far, the clock is set back

\* The rate of captures is at least one: with the less that the configuration allows
\* (MIN_UPLOAD_MAX_BATCHES_PER_SEC) the bucket never holds what a capture takes.
ASSUME PacerAssumption ==
    /\ {BatchRate, RateWindow, ByteRate, ByteWindow, FirstDelay, Multiplier}
         \subseteq Nat \ {0}
    /\ {MaxBackoff, LongestDelay, MaxSteps, SetBacks, SetBack} \subseteq Nat
    /\ Payloads \subseteq Nat /\ RetryAfters \subseteq Nat \ {0}
    /\ IsFiniteSet(RetryAfters)

VARIABLES
    stage,       \* "idle", the stages of acquire ("retry", "slow429", "slow5xx",
                 \* "bucket"), and "granted", until the answer of the upload is known
    payload,     \* the bytes it is for
    sleeping,    \* ticks its sleep still takes
    batchBucket, byteBucket,  \* tokens, and the time since they were filled
    retryIn,     \* retryAfterUntil; 0 or less when it has passed
    steps429, pending429,
    steps5xx, pending5xx,
    floor5xx, pendingFloor,
    setBacks,    \* how often the clock was set back
    owed,        \* ticks for which the backend asked to be left alone
    grants       \* of each age, what was let through since: captures and bytes

pacerVars == <<stage, payload, sleeping, batchBucket, byteBucket, retryIn, steps429,
               pending429, steps5xx, pending5xx, floor5xx, pendingFloor, setBacks,
               owed, grants>>

Lesser(a, b) == IF a < b THEN a ELSE b
Larger(a, b) == IF a < b THEN b ELSE a

LongWindow == Larger(RateWindow, ByteWindow)
Past == -SetBacks * SetBack     \* long enough ago not to come back
Ages == 0..LongWindow - 1
NoGrants == [captures |-> 0, bytes |-> 0]

PacerInit ==
    /\ stage = "idle" /\ payload = 0 /\ sleeping = 0
    /\ batchBucket = [tokens |-> BatchRate * RateWindow, since |-> 0]
    /\ byteBucket = [tokens |-> ByteRate * ByteWindow, since |-> 0]
    /\ retryIn = Past
    /\ steps429 = 0 /\ pending429 = FALSE
    /\ steps5xx = 0 /\ pending5xx = FALSE
    /\ floor5xx = 0 /\ pendingFloor = 0
    /\ setBacks = 0 /\ owed = 0
    /\ grants = [age \in Ages |-> NoGrants]

-----------------------------------------------------------------------------
(* The buckets *)

RefillUncapped(b, rate, window) ==
    IF b.since <= 0 THEN b
    ELSE [tokens |-> b.tokens + b.since * rate, since |-> 0]

\* refill: nothing while the clock is behind the last filling.
Refill(b, rate, window) ==
    IF b.since <= 0 THEN b
    ELSE [tokens |-> Lesser(rate * window, b.tokens + b.since * rate), since |-> 0]

CeilDiv(a, b) == (a + b - 1) \div b

\* timeUntil of a bucket that was refilled.
TimeUntil(b, need, rate) == IF b.tokens >= need THEN 0 ELSE CeilDiv(need - b.tokens, rate)

NeedWhole == payload * ByteWindow

\* A payload larger than the bucket takes all of it.
NeedBytes == Lesser(payload, ByteRate) * ByteWindow

-----------------------------------------------------------------------------
(* acquire *)

\* The powers of a number.
Power(base) == LET power[n \in Nat] == IF n = 0 THEN 1 ELSE base * power[n - 1] IN power

Slot429 ==
    Lesser(MaxBackoff, CeilDiv(RateWindow * (Power(Multiplier)[steps429] - 1), BatchRate))
Delay5xx == IF steps5xx = 0 THEN 0
            ELSE Larger(Lesser(LongestDelay, FirstDelay * Power(2)[steps5xx - 1]), floor5xx)

RetrySleepAfterReset == 0

\* What is left of the Retry-After, read before it is reset.
RetrySleep == Larger(0, retryIn)

\* The answers noted since the last call are counted, and a Retry-After is slept off.
Acquire ==
    /\ stage \in {"idle", "granted"} /\ stage' = "retry"
    /\ payload' \in Payloads
    /\ steps429' = IF pending429 THEN Lesser(steps429 + 1, MaxSteps) ELSE 0
    /\ pending429' = FALSE
    /\ steps5xx' = IF pending5xx THEN Lesser(steps5xx + 1, MaxSteps) ELSE 0
    /\ floor5xx' = IF pending5xx THEN pendingFloor ELSE 0
    /\ pending5xx' = FALSE /\ pendingFloor' = 0
    /\ sleeping' = RetrySleep /\ retryIn' = Past
    /\ UNCHANGED <<batchBucket, byteBucket, setBacks, owed, grants>>

Awake(s) == stage = s /\ sleeping = 0
Sleep(s, ticks) ==
    /\ stage' = s /\ sleeping' = ticks
    /\ UNCHANGED <<payload, retryIn, steps429, pending429, steps5xx, pending5xx,
                   floor5xx, pendingFloor, setBacks, owed>>

After == UNCHANGED <<batchBucket, byteBucket, grants>>
SlowAfter429 == Awake("retry") /\ Sleep("slow429", Slot429) /\ After
SlowAfter5xx == Awake("slow429") /\ Sleep("slow5xx", Delay5xx) /\ After
ToBuckets == Awake("slow5xx") /\ Sleep("bucket", 0) /\ After

\* One more capture was let through, of so many bytes.
Granted(bytes) ==
    [age \in Ages |-> [captures |-> grants[age].captures + 1, bytes |-> grants[age].bytes + bytes]]

\* The longer wait of the two buckets; the one for bytes is not looked at when none
\* are needed.
TakeTokens ==
    /\ Awake("bucket")
    /\ LET batch == Refill(batchBucket, BatchRate, RateWindow)
           byte == IF NeedBytes > 0 THEN Refill(byteBucket, ByteRate, ByteWindow)
                                    ELSE byteBucket
           wait == Larger(TimeUntil(batch, RateWindow, BatchRate),
                        IF NeedBytes > 0 THEN TimeUntil(byte, NeedBytes, ByteRate) ELSE 0)
       IN  \/ /\ wait > 0
              /\ batchBucket' = batch /\ byteBucket' = byte
              /\ Sleep("bucket", wait) /\ UNCHANGED grants
           \/ /\ wait = 0
              /\ batchBucket' = [batch EXCEPT !.tokens = Larger(0, @ - RateWindow)]
              /\ byteBucket' = [byte EXCEPT !.tokens = Larger(0, @ - NeedBytes)]
              /\ grants' = Granted(Lesser(payload, ByteRate))
              /\ Sleep("granted", 0)

-----------------------------------------------------------------------------
(* What the uploader notes of an answer before it acquires again *)

\* notifyRetryAfter: an earlier, longer one stays.
NotifyRetryAfter(t) == retryIn' = Larger(retryIn, t) /\ owed' = Larger(owed, t)

\* A rate limit, with a Retry-After or without.
Notify429 ==
    /\ stage = "granted" /\ stage' = "idle" /\ pending429' = TRUE
    /\ \/ \E t \in RetryAfters : NotifyRetryAfter(t)
       \/ UNCHANGED <<retryIn, owed>>
    /\ UNCHANGED <<payload, sleeping, batchBucket, byteBucket, steps429, steps5xx,
                   pending5xx, floor5xx, pendingFloor, setBacks, grants>>

\* The service is not available: its Retry-After is a floor of the delay as well.
NotifyServiceUnavailable ==
    /\ stage = "granted" /\ stage' = "idle" /\ pending5xx' = TRUE
    /\ \/ \E t \in RetryAfters :
             NotifyRetryAfter(t) /\ pendingFloor' = Larger(pendingFloor, t)
       \/ UNCHANGED <<retryIn, owed, pendingFloor>>
    /\ UNCHANGED <<payload, sleeping, batchBucket, byteBucket, steps429,
                   pending429, steps5xx, floor5xx, setBacks, grants>>

-----------------------------------------------------------------------------
(* Time *)

Older == [age \in Ages |-> IF age = 0 THEN NoGrants ELSE grants[age - 1]]
Passes(b, window) == [b EXCEPT !.since = Lesser(window, @ + 1)]

PacerTick ==
    /\ sleeping' = Larger(0, sleeping - 1)
    /\ batchBucket' = Passes(batchBucket, RateWindow)
    /\ byteBucket' = Passes(byteBucket, ByteWindow)
    /\ retryIn' = Larger(Past, retryIn - 1)
    /\ owed' = Larger(0, owed - 1)
    /\ grants' = Older
    /\ UNCHANGED <<stage, payload, steps429, pending429, steps5xx, pending5xx, floor5xx,
                   pendingFloor, setBacks>>

\* The wall clock is set back.
SetsBack ==
    /\ setBacks < SetBacks /\ setBacks' = setBacks + 1
    /\ batchBucket' = [batchBucket EXCEPT !.since = @ - SetBack]
    /\ byteBucket' = [byteBucket EXCEPT !.since = @ - SetBack]
    /\ retryIn' = retryIn + SetBack
    /\ UNCHANGED <<stage, payload, sleeping, steps429, pending429, steps5xx, pending5xx,
                   floor5xx, pendingFloor, owed, grants>>

AcquireStep == SlowAfter429 \/ SlowAfter5xx \/ ToBuckets \/ TakeTokens

PacerNext ==
    \/ Acquire \/ AcquireStep
    \/ Notify429 \/ NotifyServiceUnavailable
    \/ PacerTick \/ SetsBack

\* Timers fire.
PacerSpec == PacerInit /\ [][PacerNext]_pacerVars
             /\ WF_pacerVars(AcquireStep) /\ WF_pacerVars(PacerTick)

-----------------------------------------------------------------------------
(* Properties *)

Bucket(rate, window) == [tokens : 0..rate * window, since : Past..window]
MaxWait == Max(RetryAfters \cup {0}) + SetBacks * SetBack
LongestSleep == Max({MaxWait, MaxBackoff, LongestDelay, RateWindow, ByteWindow})

PacerTypeOK ==
    /\ stage \in {"idle", "retry", "slow429", "slow5xx", "bucket", "granted"}
    /\ payload \in Payloads \cup {0} /\ sleeping \in 0..LongestSleep
    /\ batchBucket \in Bucket(BatchRate, RateWindow)
    /\ byteBucket \in Bucket(ByteRate, ByteWindow)
    /\ retryIn \in Past..MaxWait /\ owed \in 0..MaxWait
    /\ steps429 \in 0..MaxSteps /\ steps5xx \in 0..MaxSteps
    /\ {pending429, pending5xx} \subseteq BOOLEAN
    /\ {floor5xx, pendingFloor} \subseteq RetryAfters \cup {0}
    /\ setBacks \in 0..SetBacks

\* What passes in any window is at most what the bucket held at its start and what
\* flowed in since, even when the clock is set back: twice the rate of captures, and
\* twice that of bytes, of which a capture larger than the bucket counts as all of it.
PaceHeld ==
    /\ grants[RateWindow - 1].captures <= 2 * BatchRate
    /\ grants[ByteWindow - 1].bytes <= 2 * ByteRate

\* No capture is let through before the longest Retry-After that was noted is over.
RetryAfterHonoured == [][stage' = "granted" /\ stage # "granted" => owed = 0]_pacerVars

\* Every acquire ends: no payload is too large for the buckets, and no clock that was
\* set back holds it for ever.
AcquireEnds == stage = "retry" ~> stage = "granted"

=============================================================================
