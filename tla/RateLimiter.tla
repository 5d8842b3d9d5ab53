------------------------------ MODULE RateLimiter ------------------------------
(***************************************************************************)
(* The token bucket of one user: the Lua script TOKEN_BUCKET_SCRIPT, which *)
(* Redis runs atomically, RedisTokenBucketRateLimiter.consume around it,   *)
(* and the HTTP dependency enforce_invocation_rate_limit.  Buckets of      *)
(* different users share nothing.                                          *)
(*                                                                         *)
(* Tokens are counted in units of 1/period_ms of a token: a refill of      *)
(* elapsed * capacity / period tokens is elapsed * capacity units.  The    *)
(* script computes with doubles and stores all of their 17 digits.  Their  *)
(* errors, each about a 10^9th of a unit with the default limit, are       *)
(* taken to add up to less than one, and then show in two places only: a   *)
(* request that costs exactly what the bucket holds may be refused, and    *)
(* one that misses what a whole number of milliseconds refills may be told *)
(* one more.  Both are choices of the model.                               *)
(***************************************************************************)
EXTENDS Integers

CONSTANTS capacity,    \* settings.invocation_rate_limit_capacity
          period_ms,   \* settings.invocation_rate_limit_period_seconds * 1000
          Second,      \* milliseconds in a second
          MaxTime      \* bound of the model: the clock, and how far it runs

ASSUME LimiterAssumption ==
  /\ capacity \in Nat \ {0}
  /\ period_ms \in Nat \ {0}
  /\ Second \in Nat \ {0}
  /\ MaxTime \in Nat

VARIABLES
  now_ms,         \* the clock of Redis
  tokens,         \* the bucket: tokens, updated_at_ms, and when it expires
  updated_at_ms,
  expires_at,     \* 0 while there is no bucket
  spent,          \* units granted in the current window
  elapsed_time,   \* how far the clock has run forward in the window
  hint            \* the last refusal, while nothing was taken since

vars == <<now_ms, tokens, updated_at_ms, expires_at, spent, elapsed_time, hint>>

(* A refused request: its cost, when its retry_after_ms is over, and when  *)
(* its Retry-After header is over.                                         *)
NoHint == [cost |-> 0, at |-> 0, header |-> 0]

Full == capacity * period_ms

Init ==
  /\ now_ms \in 0..MaxTime
  /\ tokens = 0
  /\ updated_at_ms = 0
  /\ expires_at = 0
  /\ spent = 0
  /\ elapsed_time = 0
  /\ hint = NoHint

--------------------------------------------------------------------------------
(* Mutant: a clock that stepped back takes tokens away. *)
elapsed_ms_signed == now_ms - updated_at_ms

(* The time to refill for. *)
elapsed_ms == IF now_ms > updated_at_ms THEN now_ms - updated_at_ms ELSE 0

(* Mutant: without the limit of capacity. *)
refilled_unlimited ==
  IF now_ms >= expires_at THEN Full ELSE tokens + elapsed_ms * capacity

(* The tokens the script finds: all of them when there is no bucket. *)
refilled ==
  IF \/ now_ms >= expires_at
     \/ tokens + elapsed_ms * capacity >= Full
  THEN Full
  ELSE tokens + elapsed_ms * capacity

(* tokens < cost, as the doubles may have it. *)
falls_short(cost) ==
  \/ refilled < cost * period_ms
  \/ /\ now_ms < expires_at
     /\ tokens + elapsed_ms * capacity = cost * period_ms

(* Mutant: the time to refill the whole cost. *)
retry_after_ms_of_cost(cost) == {(cost * period_ms) \div capacity + 1}

(* The time after which the missing tokens are there, rounded up: of what  *)
(* the doubles make of a whole number, too.                                *)
retry_after_ms(cost) ==
  LET missing == cost * period_ms - refilled
  IN  {ms \in {(missing + capacity - 1) \div capacity, missing \div capacity + 1} :
         ms > 0}

(* The Retry-After header: whole seconds, at least one. *)
retry_after_seconds(ms) ==
  LET s == (ms + Second - 1) \div Second
  IN  IF s > 1 THEN s ELSE 1

(* Mutant: PEXPIRE with a quarter of the lifetime. *)
WriteBucket_short_lived(t) ==
  /\ tokens' = t
  /\ updated_at_ms' = now_ms
  /\ expires_at' = now_ms + period_ms \div 2
  /\ UNCHANGED <<now_ms, elapsed_time>>

(* The script writes the bucket back. *)
WriteBucket(t) ==
  /\ tokens' = t
  /\ updated_at_ms' = now_ms
  /\ expires_at' = now_ms + 2 * period_ms
  /\ UNCHANGED <<now_ms, elapsed_time>>

consume_allowed(cost) ==
  /\ refilled >= cost * period_ms
  /\ WriteBucket(refilled - cost * period_ms)
  /\ spent' = spent + cost * period_ms
  /\ hint' = NoHint

(* 429: the request is refused and told when to come back. *)
consume_refused(cost) ==
  /\ falls_short(cost)
  /\ WriteBucket(refilled)
  /\ \E ms \in retry_after_ms(cost) :
       hint' = [cost |-> cost, at |-> now_ms + ms,
                header |-> now_ms + retry_after_seconds(ms) * Second]
  /\ UNCHANGED spent

(* 503: the connection fails after the script has run; the request is not  *)
(* served, but its tokens are gone.                                        *)
consume_unavailable(cost) ==
  /\ \/ falls_short(cost) /\ WriteBucket(refilled)
     \/ refilled >= cost * period_ms /\ WriteBucket(refilled - cost * period_ms)
  /\ hint' = NoHint
  /\ UNCHANGED spent

--------------------------------------------------------------------------------
(* Redis deletes a bucket some time after it has expired. *)
DeleteExpired ==
  /\ now_ms >= expires_at
  /\ expires_at' = 0
  /\ UNCHANGED <<now_ms, tokens, updated_at_ms, spent, elapsed_time, hint>>

(* Time passes; the clock of Redis may also be set back. *)
Tick ==
  /\ now_ms < MaxTime
  /\ elapsed_time < MaxTime
  /\ now_ms' = now_ms + 1
  /\ elapsed_time' = elapsed_time + 1
  /\ UNCHANGED <<tokens, updated_at_ms, expires_at, spent, hint>>

ClockSetBack ==
  /\ now_ms' \in 0..(now_ms - 1)
  /\ hint' = NoHint
  /\ UNCHANGED <<tokens, updated_at_ms, expires_at, spent, elapsed_time>>

(* An observer starts to count anew, at any moment. *)
BeginWindow ==
  /\ spent' = 0
  /\ elapsed_time' = 0
  /\ UNCHANGED <<now_ms, tokens, updated_at_ms, expires_at, hint>>

Next ==
  \/ \E cost \in 1..capacity :
       consume_allowed(cost) \/ consume_refused(cost) \/ consume_unavailable(cost)
  \/ DeleteExpired
  \/ Tick
  \/ ClockSetBack
  \/ BeginWindow

Spec == Init /\ [][Next]_vars

--------------------------------------------------------------------------------
TypeOK ==
  /\ now_ms \in 0..MaxTime
  /\ tokens \in 0..Full
  /\ updated_at_ms \in 0..MaxTime
  /\ expires_at \in Nat
  /\ spent \in Nat
  /\ elapsed_time \in 0..MaxTime
  /\ hint \in [cost : 0..capacity, at : Nat, header : Nat]

(* The bucket expires two periods after it was written: by then it would   *)
(* be full anyway, so that expiry forgets nothing.                         *)
BucketLifetime ==
  expires_at = 0 \/ expires_at = updated_at_ms + 2 * period_ms

(* What was granted in the window and what is there to be granted are      *)
(* covered by one full bucket and by the refill of the window's time.      *)
Conservation == spent + refilled <= Full + elapsed_time * capacity

(* The rate limit: in every window of time, however the requests and the   *)
(* clock behave, the granted tokens are at most capacity plus what the     *)
(* forward run of the clock refills.                                       *)
GrantBound == spent <= Full + elapsed_time * capacity

(* retry_after_ms is right to the millisecond: a client that comes back    *)
(* more than one before it is over would be refused again, and one that    *)
(* comes back after it is over is granted, whatever the doubles are, if    *)
(* nobody else takes tokens.  The Retry-After header is not shorter, and   *)
(* less than a second longer.                                              *)
RetryAfterIsTight ==
  hint # NoHint =>
    /\ now_ms < hint.at - 1 => refilled < hint.cost * period_ms
    /\ now_ms > hint.at => ~falls_short(hint.cost)
    /\ hint.at <= hint.header /\ hint.header < hint.at + Second

(* The stored bucket, which is only brought up to date by requests and     *)
(* which Redis forgets after a while, implements the ideal one: what a     *)
(* request would find moves like the level of a TokenBucket, whatever the  *)
(* requests, the expiry and the clock do.                                  *)
Bucket == INSTANCE TokenBucket
            WITH Size <- Full, Rate <- capacity, Price <- period_ms, Most <- capacity,
                 level <- refilled, granted <- spent, time <- elapsed_time

ImplementsBucket == Bucket!Spec

(* A refusal that nobody has come after refers to the bucket as it was     *)
(* written then, or to none if that has expired since.                     *)
HintShape ==
  hint # NoHint =>
    LET missing == hint.cost * period_ms - tokens
        wait == hint.at - updated_at_ms
    IN
    /\ hint.cost \in 1..capacity
    /\ updated_at_ms <= now_ms
    /\ missing >= 0
    /\ wait \in {(missing + capacity - 1) \div capacity, missing \div capacity + 1}
    /\ hint.at <= hint.header /\ hint.header < hint.at + Second
    /\ expires_at = 0 => now_ms >= updated_at_ms + 2 * period_ms

BucketInvariant ==
  /\ TypeOK
  /\ BucketLifetime
  /\ Conservation

LimiterInvariant == BucketInvariant /\ HintShape
================================================================================
