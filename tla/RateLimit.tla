------------------------------ MODULE RateLimit ------------------------------
(***************************************************************************)
(* The rate limiter of the API: check_rate_limit_redis with its script on  *)
(* the bucket of one tenant, called by any number of API handlers, each    *)
(* with a clock of its own; and the struct TokenBucket, which implements   *)
(* the same algorithm in memory and is fed the same calls.                 *)
(*                                                                         *)
(* A token is Unit units, so that Rate (units per second) is a number even *)
(* for the plan that earns a token in six seconds.  Time is in seconds, as *)
(* in the code.                                                            *)
(*                                                                         *)
(* Bounds: a handler's reading of the time is at most MaxAhead seconds     *)
(* ahead of Redis, and at most MaxLag behind it when the script runs;      *)
(* MaxTime, MaxCalls, MaxChanges bound the clock, the calls and the        *)
(* changes of plan.                                                        *)
(***************************************************************************)
EXTENDS Integers, Sequences

CONSTANTS
    Handler,
    Plan,           \* TenantPlan
    Capacity,       \* RateLimit::bucket_capacity of a plan, in tokens
    Rate,           \* RateLimit::refill_rate of a plan, in units per second
    Unit,
    Ttl,            \* seconds after which Redis drops the bucket
    MaxLag, MaxAhead, MaxTime, MaxCalls, MaxChanges

\* The last conjunct relates the constants of the script: a bucket is full long
\* before it expires (120 seconds against 60, which leaves 60 for the clocks).
ASSUME RateAssumption ==
    /\ Plan # {} /\ {Unit, Ttl} \subseteq Nat \ {0}
    /\ Capacity \in [Plan -> Nat \ {0}] /\ Rate \in [Plan -> Nat \ {0}]
    /\ {MaxLag, MaxAhead, MaxTime, MaxCalls, MaxChanges} \subseteq Nat
    /\ \A p \in Plan : Capacity[p] * Unit <= Rate[p] * (Ttl - MaxLag - MaxAhead)

VARIABLES
    clock,          \* the time of Redis
    plan,           \* tenants.plan
    bucket,         \* the Redis hash, the last one written if it has expired
    pc, call,       \* per handler: its place, and the arguments of the script
    local,          \* a TokenBucket that gets the same calls, with the plan of the latest
    consumed,       \* history: the calls that took a token
    refused,        \* history: the refusals that were answered
    order,          \* history: "none" so far, "steady" (one plan, no clock behind an
                    \* earlier one) or "jumped"
    calls, changes

handlerVars == <<pc, call>>
vars == <<clock, plan, bucket, pc, call, local, consumed, refused, order, calls, changes>>

Smaller(a, b) == IF a <= b THEN a ELSE b
\* Mutant: rounded down.
Quotient_Floor(a, b) == IF a <= 0 THEN 0 ELSE a \div b

\* math.ceil(a / b), of a deficit a.
Quotient(a, b) == IF a <= 0 THEN 0 ELSE (a + b - 1) \div b

Full(p) == Capacity[p] * Unit

Call == [plan : Plan, now : Int]
NoCall == [plan |-> "none", now |-> 0]
TypeOK ==
    /\ clock \in 0 .. MaxTime /\ plan \in Plan
    /\ bucket \in [tokens : Nat, last : Int, expires : Nat]
    /\ pc \in [Handler -> {"idle", "found", "ready"}]
    /\ call \in [Handler -> Call \cup {NoCall}]
    /\ \A h \in Handler : pc[h] # "idle" => call[h] \in Call
    /\ local \in [plan : Plan, tokens : Int, last : Int]
    /\ consumed \in Seq([plan : Plan, now : Int, at : 0 .. MaxTime])
    /\ refused \subseteq [plan : Plan, now : Int, at : 0 .. MaxTime, wait : Nat, nth : Nat]
    /\ order \in {"none", "steady", "jumped"}
    /\ calls \in 0 .. MaxCalls /\ changes \in 0 .. MaxChanges

\* A key that is missing looks like one that expired at 0.
Init ==
    /\ clock = 0 /\ plan \in Plan
    /\ bucket = [tokens |-> 0, last |-> 0, expires |-> 0]
    /\ pc = [h \in Handler |-> "idle"]
    /\ call = [h \in Handler |-> NoCall]
    /\ local = [plan |-> plan, tokens |-> 0, last |-> 0]
    /\ consumed = <<>> /\ refused = {} /\ order = "none"
    /\ calls = 0 /\ changes = 0

-----------------------------------------------------------------------------
(* TokenBucket. *)

\* Mutant: a bucket without a token is not refilled, as in the script.
Refill_WhenEmpty(b, p, now) ==
    IF b.tokens < Unit THEN [b EXCEPT !.last = now]
    ELSE [plan |-> p, tokens |-> Smaller(b.tokens + (now - b.last) * Rate[p], Full(p)), last |-> now]

\* TokenBucket::refill.  The difference is unsigned: with now < last it panics
\* or wraps, which order = "steady" excludes.
Refill(b, p, now) ==
    [plan |-> p, tokens |-> Smaller(b.tokens + (now - b.last) * Rate[p], Full(p)), last |-> now]

\* TokenBucket::new
NewBucket(p, now) == [plan |-> p, tokens |-> Full(p), last |-> now]

\* TokenBucket::try_consume, for one token.
HasToken(b) == b.tokens >= Unit
TryConsume(b) == IF HasToken(b) THEN [b EXCEPT !.tokens = @ - Unit] ELSE b

\* TokenBucket::seconds_until_available
SecondsUntilAvailable(b, p) == Quotient(Unit - b.tokens, Rate[p])

-----------------------------------------------------------------------------
(* check_rate_limit_redis. *)

Stored == clock < bucket.expires

\* Mutant: a clock behind the bucket costs nothing.
Tokens_NeverNegative(p, now) ==
    IF Stored
    THEN Smaller(bucket.tokens + (IF now < bucket.last THEN 0 ELSE now - bucket.last) * Rate[p], Full(p))
    ELSE Full(p)

\* The tokens the script finds: of a missing key a full bucket, else the stored
\* tokens and those earned in the elapsed time, which may be negative.
Tokens(p, now) ==
    IF Stored THEN Smaller(bucket.tokens + (now - bucket.last) * Rate[p], Full(p))
    ELSE Full(p)

\* Mutant: a part of a token is enough.
Enough_Part(n) == n > 0

\* tokens >= 1
Enough(n) == n >= Unit

\* The layer reads the tenant and takes the limits of its plan.
FindTenant(h) ==
    /\ pc[h] = "idle" /\ calls < MaxCalls
    /\ calls' = calls + 1
    /\ pc' = [pc EXCEPT ![h] = "found"]
    /\ call' = [call EXCEPT ![h] = [plan |-> plan, now |-> 0]]
    /\ UNCHANGED <<clock, plan, bucket, local, consumed, refused, order, changes>>

\* SystemTime::now, in whole seconds, of the handler's machine.
ReadClock(h) ==
    /\ pc[h] = "found"
    /\ pc' = [pc EXCEPT ![h] = "ready"]
    /\ \E now \in clock - MaxLag .. clock + MaxAhead :
        call' = [call EXCEPT ![h].now = now]
    /\ UNCHANGED <<clock, plan, bucket, local, consumed, refused, order, calls, changes>>

\* The connection fails before the script runs: the request is answered 500.
CallFails(h) ==
    /\ pc[h] \in {"found", "ready"}
    /\ pc' = [pc EXCEPT ![h] = "idle"] /\ call' = [call EXCEPT ![h] = NoCall]
    /\ UNCHANGED <<clock, plan, bucket, local, consumed, refused, order, calls, changes>>

\* The call reaches both implementations.
Script(h) ==
    /\ pc[h] = "ready"
    /\ pc' = [pc EXCEPT ![h] = "idle"] /\ call' = [call EXCEPT ![h] = NoCall]
    /\ LET p == call[h].plan  now == call[h].now
           b == IF order = "none" THEN NewBucket(p, now) ELSE local
       IN  /\ local' = TryConsume(Refill(b, p, now))
           /\ order' = IF b.plan = p /\ b.last <= now /\ order # "jumped" THEN "steady" ELSE "jumped"
    /\ UNCHANGED <<clock, plan, calls, changes>>

\* The script takes a token, stores the rest and the time, and renews the key.
\* Its answer may be lost: the token is taken all the same.
Admit(h) ==
    /\ Script(h)
    /\ LET p == call[h].plan  now == call[h].now
       IN  /\ Enough(Tokens(p, now))
           /\ bucket' = [tokens |-> Tokens(p, now) - Unit, last |-> now, expires |-> clock + Ttl]
           /\ consumed' = Append(consumed, [plan |-> p, now |-> now, at |-> clock])
    /\ UNCHANGED refused

\* It refuses, stores nothing, and names the seconds until there is a token.
Refuse(h) ==
    /\ Script(h)
    /\ LET p == call[h].plan  now == call[h].now
       IN  /\ ~Enough(Tokens(p, now))
           /\ refused' = refused \cup {[plan |-> p, now |-> now, at |-> clock, nth |-> Len(consumed),
                                        wait |-> Quotient(Unit - Tokens(p, now), Rate[p])]}
    /\ UNCHANGED <<bucket, consumed>>

-----------------------------------------------------------------------------
(* The environment. *)

\* Tenant::update_plan
UpdatePlan ==
    /\ changes < MaxChanges /\ changes' = changes + 1
    /\ plan' \in Plan \ {plan}
    /\ UNCHANGED <<clock, bucket, handlerVars, local, consumed, refused, order, calls>>

\* Time passes, but a call does not take longer than MaxLag.
Tick ==
    /\ clock < MaxTime /\ clock' = clock + 1
    /\ \A h \in Handler : pc[h] = "ready" => clock < call[h].now + MaxLag
    /\ UNCHANGED <<plan, bucket, handlerVars, local, consumed, refused, order, calls, changes>>

HandlerStep(h) == FindTenant(h) \/ ReadClock(h) \/ CallFails(h) \/ Admit(h) \/ Refuse(h)
Next == UpdatePlan \/ Tick \/ \E h \in Handler : HandlerStep(h)
Spec == Init /\ [][Next]_vars

-----------------------------------------------------------------------------
(* Properties. *)

\* The calls that took tokens i .. j all had the plan p.
SamePlan(i, j, p) == \A k \in i .. j : consumed[k].plan = p

\* Whatever the order of the calls, their clocks and the expiry of the key, the
\* requests a tenant gets through between two moments are at most a full bucket
\* and what is earned in between, reckoned in the callers' readings of the time.
WindowBound ==
    \A p \in Plan : \A i, j \in DOMAIN consumed :
        i <= j /\ SamePlan(i, j, p) =>
            (j - i + 1) * Unit <= Full(p) + Rate[p] * (consumed[j].now - consumed[i].now)

\* No call that is w seconds later than a refused one, w being what this one was
\* told (retry_after), is refused again, unless the bucket gave tokens to others
\* or the plan has changed.  By the clocks of the handlers that is exact; a client
\* has to wait longer than it is told, by what the clock of the first handler may
\* be ahead and that of the second behind, and then that is enough.
RetryAfterSuffices ==
    \A r, s \in refused : r.nth = s.nth /\ r.plan = s.plan =>
        /\ s.now < r.now + r.wait
        /\ s.at < r.at + r.wait + MaxAhead + MaxLag

\* The script stores nothing when it refuses, and Redis drops the key when it is
\* old; TokenBucket stores each refill and forgets nothing.  While the plan stays
\* and no clock goes back, the next call finds the same tokens in both.
BucketsAgree ==
    order = "steady" =>
        \A now \in clock - MaxLag .. clock + MaxAhead : now >= local.last =>
            LET p == local.plan  b == Refill(local, p, now)
            IN  /\ HasToken(b) <=> Enough(Tokens(p, now))
                /\ b.tokens = Tokens(p, now)
                /\ SecondsUntilAvailable(b, p) = Quotient(Unit - Tokens(p, now), Rate[p])
=============================================================================
