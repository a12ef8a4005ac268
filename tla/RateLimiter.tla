------------------------------ MODULE RateLimiter ------------------------------
(***************************************************************************)
(* The token bucket in Redis that all workers share before they call a     *)
(* provider.  A caller reads its own clock, then sends the script, which   *)
(* refills for the time since last_refill, takes a token if there is one,  *)
(* and in both cases stores the caller's time: scripts that arrive out of  *)
(* order, or from a clock that is behind, move last_refill back.           *)
(*                                                                         *)
(* One token is Unit parts; time is in ticks.  A caller that gets no token *)
(* sleeps once and tries once more, and calls the provider in any case; so *)
(* does one that cannot reach Redis.  granted counts tokens, not calls.    *)
(***************************************************************************)
EXTENDS Integers

CONSTANTS
    Callers,
    Unit,        \* parts of a token
    Capacity,    \* capacity, in parts
    Rate,        \* refill_rate, in parts per tick
    MaxWait,     \* max_wait_s
    MaxDelay,    \* how old a caller's time may be when its script runs
    KeyTTL,      \* EXPIRE
    MaxTime      \* bound: ticks

ASSUME BucketAssumption ==
    /\ Unit \in Nat \ {0} /\ Capacity \in Nat /\ Rate \in Nat \ {0}
    /\ MaxWait \in Nat /\ MaxDelay \in Nat /\ KeyTTL \in Nat /\ MaxTime \in Nat
    /\ Capacity <= Rate * (KeyTTL - MaxDelay)

VARIABLES
    time,
    bucket,      \* the key: is it there, tokens, last_refill
    caller,      \* what each caller is doing
    granted,     \* history: tokens taken
    back         \* history: ticks that last_refill was moved back, in all

bucketVars == <<time, bucket, caller, granted, back>>

Least(a, b) == IF a < b THEN a ELSE b

Idle == [pc |-> "idle", now |-> 0, began |-> 0, retry |-> FALSE]

BucketInit ==
    /\ time = 0 /\ granted = 0 /\ back = 0
    /\ bucket = [there |-> FALSE, tokens |-> Capacity, last |-> 0]
    /\ caller = [c \in Callers |-> Idle]

\* Scripts under way are not older than MaxDelay.
TimePasses ==
    /\ time < MaxTime /\ time' = time + 1
    /\ \A c \in Callers : caller[c].pc = "sent" => time - caller[c].now < MaxDelay
    /\ UNCHANGED <<bucket, caller, granted, back>>

\* Nothing used the bucket for KeyTTL.
Forget ==
    /\ bucket.there /\ time - bucket.last >= KeyTTL
    /\ bucket' = [bucket EXCEPT !.there = FALSE]
    /\ UNCHANGED <<time, caller, granted, back>>

Acquire(c) ==
    /\ caller[c].pc = "idle"
    /\ caller' = [caller EXCEPT ![c] = [pc |-> "sent", now |-> time, began |-> time,
                                        retry |-> FALSE]]
    /\ UNCHANGED <<time, bucket, granted, back>>

\* What the script finds in the bucket at the caller's time.
Refilled(now) ==
    IF ~bucket.there THEN Capacity
    ELSE Least(Capacity, bucket.tokens + (IF now > bucket.last
                                          THEN Rate * (now - bucket.last) ELSE 0))

\* Ticks until there is a token, rounded up.
WaitFor(tokens) == (Unit - tokens + Rate - 1) \div Rate

\* Mutant: an empty bucket keeps its last_refill.
StoreOnSuccess(now, tokens) ==
    /\ bucket' = [there |-> TRUE, tokens |-> tokens,
                  last |-> IF tokens < Refilled(now) THEN now ELSE bucket.last]
    /\ back' = IF bucket.there /\ now < bucket.last THEN back + (bucket.last - now) ELSE back

\* HMSET tokens, last_refill
Store(now, tokens) ==
    /\ bucket' = [there |-> TRUE, tokens |-> tokens, last |-> now]
    /\ back' = IF bucket.there /\ now < bucket.last THEN back + (bucket.last - now) ELSE back

TakeToken(c) ==
    LET tokens == Refilled(caller[c].now)
    IN  /\ caller[c].pc = "sent" /\ tokens >= Unit
        /\ Store(caller[c].now, tokens - Unit)
        /\ granted' = granted + 1
        /\ caller' = [caller EXCEPT ![c] = Idle]
        /\ UNCHANGED time

\* One sleep, if the budget allows it; else the caller goes without.
FindEmpty(c) ==
    LET tokens == Refilled(caller[c].now)
        wait   == WaitFor(tokens)
        sleeps == ~caller[c].retry /\ wait <= MaxWait - (time - caller[c].began)
    IN  /\ caller[c].pc = "sent" /\ tokens < Unit
        /\ Store(caller[c].now, tokens)
        /\ caller' = [caller EXCEPT ![c] =
                         IF sleeps THEN [@ EXCEPT !.pc = "asleep", !.now = time + wait]
                         ELSE Idle]
        /\ UNCHANGED <<time, granted>>

Wake(c) ==
    /\ caller[c].pc = "asleep" /\ time >= caller[c].now
    /\ caller' = [caller EXCEPT ![c].pc = "sent", ![c].now = time, ![c].retry = TRUE]
    /\ UNCHANGED <<time, bucket, granted, back>>

\* Redis does not answer: the call goes on.
FailOpen(c) ==
    /\ caller[c].pc = "sent"
    /\ caller' = [caller EXCEPT ![c] = Idle]
    /\ UNCHANGED <<time, bucket, granted, back>>

BucketNext ==
    \/ TimePasses \/ Forget
    \/ \E c \in Callers :
          Acquire(c) \/ TakeToken(c) \/ FindEmpty(c) \/ Wake(c) \/ FailOpen(c)

BucketSpec == BucketInit /\ [][BucketNext]_bucketVars

-----------------------------------------------------------------------------
(* Properties *)

\* The tokens all workers took together are the capacity and what the rate gives
\* for the time that passed, also over a bucket that was forgotten; more only for
\* as long as callers' clocks moved last_refill back.
GrantsBounded == Unit * granted <= Capacity + Rate * (time + back)
=============================================================================
