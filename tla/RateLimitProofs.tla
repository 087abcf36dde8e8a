--------------------------- MODULE RateLimitProofs ---------------------------
(***************************************************************************)
(* Theorems about RateLimit, for any number of handlers, any plans and     *)
(* clocks as far apart as the expiry of the key allows.                    *)
(***************************************************************************)
EXTENDS RateLimit, TLAPS

(* Arithmetic of the refill. *)

LEMMA Earned ==
    ASSUME NEW r \in Nat, NEW a \in Int, NEW b \in Int, NEW c \in Int
    PROVE  r * (c - a) = r * (b - a) + r * (c - b)
OBVIOUS

LEMMA EarnedMore ==
    ASSUME NEW r \in Nat, NEW a \in Int, NEW b \in Int, a <= b
    PROVE  r * a <= r * b
OBVIOUS

LEMMA EarnedLess ==
    ASSUME NEW r \in Nat, NEW a \in Int, NEW b \in Int, r * a < r * b
    PROVE  a < b
<1>1. SUFFICES ASSUME b <= a PROVE FALSE
  OBVIOUS
<1> QED  BY <1>1, EarnedMore

LEMMA ProductType ==
    ASSUME NEW a \in Int, NEW b \in Int
    PROVE  a * b \in Int
OBVIOUS

LEMMA Commute ==
    ASSUME NEW a \in Int, NEW b \in Int
    PROVE  a * b = b * a
OBVIOUS

\* The seconds that Retry-After names are enough for the deficit.
LEMMA QuotientCovers ==
    ASSUME NEW a \in Nat \ {0}, NEW b \in Nat \ {0}
    PROVE  /\ Quotient(a, b) \in Nat
           /\ a <= b * Quotient(a, b)
BY DEF Quotient

-----------------------------------------------------------------------------
(* Types. *)

LEMMA BoundsType ==
    /\ MaxLag \in Nat /\ MaxAhead \in Nat /\ MaxTime \in Nat
    /\ MaxCalls \in Nat /\ MaxChanges \in Nat
    /\ Unit \in Nat \ {0} /\ Ttl \in Nat \ {0}
BY RateAssumption

LEMMA FullType ==
    ASSUME NEW p \in Plan
    PROVE  Full(p) \in Nat /\ Unit <= Full(p) /\ Rate[p] \in Nat \ {0}
<1>1. Capacity[p] \in Nat \ {0} /\ Unit \in Nat \ {0}
  BY RateAssumption
<1>2. 1 * Unit <= Capacity[p] * Unit
  BY <1>1, EarnedMore, Commute
<1> QED  BY <1>1, <1>2, RateAssumption DEF Full

LEMMA TokensType ==
    ASSUME TypeOK, NEW p \in Plan, NEW now \in Int
    PROVE  Tokens(p, now) \in Int /\ Tokens(p, now) <= Full(p)
BY FullType, SMTT(30) DEF TypeOK, Tokens, Smaller

LEMMA LocalType ==
    ASSUME NEW p \in Plan, NEW now \in Int, NEW b \in [plan : Plan, tokens : Int, last : Int]
    PROVE  TryConsume(Refill(b, p, now)) \in [plan : Plan, tokens : Int, last : Int]
<1>1. Refill(b, p, now) \in [plan : Plan, tokens : Int, last : Int]
  BY FullType DEF Refill, Smaller
<1> QED  BY <1>1, RateAssumption DEF TryConsume

LEMMA ScriptType ==
    ASSUME TypeOK, NEW h \in Handler, Script(h)
    PROVE  /\ call[h] \in Call /\ call[h].plan \in Plan /\ call[h].now \in Int
           /\ pc' \in [Handler -> {"idle", "found", "ready"}]
           /\ call' \in [Handler -> Call \cup {NoCall}]
           /\ \A k \in Handler : pc'[k] # "idle" => call'[k] \in Call
           /\ local' \in [plan : Plan, tokens : Int, last : Int]
           /\ order' \in {"none", "steady", "jumped"}
           /\ UNCHANGED <<clock, plan, calls, changes>>
<1>1. call[h] \in Call /\ call[h].plan \in Plan /\ call[h].now \in Int
  BY DEF TypeOK, Script, Call
<1>2. NewBucket(call[h].plan, call[h].now) \in [plan : Plan, tokens : Int, last : Int]
  BY <1>1, FullType DEF NewBucket
<1>3. local' \in [plan : Plan, tokens : Int, last : Int]
  BY <1>1, <1>2, LocalType DEF Script, TypeOK
<1> QED  BY <1>1, <1>3 DEF Script, TypeOK

LEMMA InitType == Init => TypeOK
BY RateAssumption, FullType DEF Init, TypeOK

\* Types: in particular the script never stores a negative number of tokens.
THEOREM TypeCorrect == Spec => []TypeOK
<1>1. Init => TypeOK
  BY InitType
<1>2. TypeOK /\ [Next]_vars => TypeOK'
  <2> SUFFICES ASSUME TypeOK, [Next]_vars PROVE TypeOK'
    OBVIOUS
  <2>1. CASE UpdatePlan
    BY <2>1, BoundsType DEF UpdatePlan, TypeOK, handlerVars
  <2>2. CASE Tick
    BY <2>2, BoundsType DEF Tick, TypeOK, handlerVars
  <2>3. ASSUME NEW h \in Handler, FindTenant(h) PROVE TypeOK'
    BY <2>3, BoundsType DEF FindTenant, TypeOK, Call, NoCall
  <2>4. ASSUME NEW h \in Handler, ReadClock(h) PROVE TypeOK'
    <3>1. PICK now \in clock - MaxLag .. clock + MaxAhead :
            call' = [call EXCEPT ![h].now = now]
      BY <2>4 DEF ReadClock
    <3>2. now \in Int
      BY <3>1, RateAssumption DEF TypeOK
    <3>3. call[h] \in Call
      BY <2>4 DEF ReadClock, TypeOK
    <3>4. [call[h] EXCEPT !.now = now] \in Call
      BY <3>2, <3>3 DEF Call
    <3> QED  BY <2>4, <3>1, <3>4 DEF ReadClock, TypeOK
  <2>5. ASSUME NEW h \in Handler, CallFails(h) PROVE TypeOK'
    BY <2>5 DEF CallFails, TypeOK
  <2>6. ASSUME NEW h \in Handler, Admit(h) PROVE TypeOK'
    <3> DEFINE p == call[h].plan  now == call[h].now
    <3>1. Script(h)
      BY <2>6 DEF Admit
    <3>2. p \in Plan /\ now \in Int
      BY <3>1, ScriptType
    <3>3. Tokens(p, now) - Unit \in Nat
      <4>1. Tokens(p, now) \in Int
        BY <3>2, TokensType
      <4>2. Enough(Tokens(p, now))
        BY <2>6 DEF Admit
      <4> QED  BY <4>1, <4>2, BoundsType DEF Enough
    <3>4. bucket' \in [tokens : Nat, last : Int, expires : Nat]
      BY <2>6, <3>2, <3>3, BoundsType DEF Admit, TypeOK
    <3>5. consumed' \in Seq([plan : Plan, now : Int, at : 0 .. MaxTime])
      BY <2>6, <3>2 DEF Admit, TypeOK
    <3> QED  BY <2>6, <3>1, <3>4, <3>5, ScriptType DEF Admit, TypeOK
  <2>7. ASSUME NEW h \in Handler, Refuse(h) PROVE TypeOK'
    <3> DEFINE p == call[h].plan  now == call[h].now
    <3>1. Script(h)
      BY <2>7 DEF Refuse
    <3>2. p \in Plan /\ now \in Int
      BY <3>1, ScriptType
    <3>3. Unit - Tokens(p, now) \in Nat \ {0}
      <4>1. Tokens(p, now) \in Int
        BY <3>2, TokensType
      <4>2. ~Enough(Tokens(p, now))
        BY <2>7 DEF Refuse
      <4> QED  BY <4>1, <4>2, BoundsType DEF Enough
    <3>4. Quotient(Unit - Tokens(p, now), Rate[p]) \in Nat
      BY <3>2, <3>3, QuotientCovers, RateAssumption
    <3>5. refused' \subseteq [plan : Plan, now : Int, at : 0 .. MaxTime, wait : Nat, nth : Nat]
      BY <2>7, <3>2, <3>4 DEF Refuse, TypeOK
    <3> QED  BY <2>7, <3>1, <3>5, ScriptType DEF Refuse, TypeOK
  <2>8. CASE UNCHANGED vars
    BY <2>8 DEF vars, TypeOK
  <2> QED
    BY <2>1, <2>2, <2>3, <2>4, <2>5, <2>6, <2>7, <2>8 DEF Next, HandlerStep
<1> QED  BY <1>1, <1>2, PTL DEF Spec

-----------------------------------------------------------------------------
(* The window. *)

\* The readings of the time, those of the calls that took a token and of the
\* calls on their way, are close to the time of Redis.
Readings ==
    /\ \A i \in DOMAIN consumed :
        /\ consumed[i].at <= clock
        /\ consumed[i].now <= consumed[i].at + MaxAhead
    /\ \A h \in Handler : pc[h] = "ready" => clock - MaxLag <= call[h].now /\ call[h].now <= clock + MaxAhead

\* The bucket is what the last call that took a token left.
Written ==
    IF Len(consumed) = 0 THEN bucket.expires = 0
    ELSE /\ bucket.last = consumed[Len(consumed)].now
         /\ bucket.expires = consumed[Len(consumed)].at + Ttl

\* The tokens that are left count against the window as if they were taken.
Credit ==
    \A p \in Plan : \A i \in DOMAIN consumed :
        SamePlan(i, Len(consumed), p) =>
            bucket.tokens + (Len(consumed) - i + 1) * Unit
                <= Full(p) + Rate[p] * (bucket.last - consumed[i].now)

Window == TypeOK /\ Readings /\ Written /\ Credit /\ WindowBound

LEMMA ElementType ==
    ASSUME NEW S, NEW s \in Seq(S), NEW i \in DOMAIN s
    PROVE  s[i] \in S /\ i \in 1 .. Len(s) /\ Len(s) \in Nat
OBVIOUS

LEMMA ClockType ==
    ASSUME TypeOK PROVE clock \in Int
BY BoundsType DEF TypeOK

LEMMA ConsumedType ==
    ASSUME TypeOK, NEW i \in DOMAIN consumed
    PROVE  /\ consumed[i].plan \in Plan /\ consumed[i].now \in Int
           /\ consumed[i].at \in Int /\ consumed[i].at <= MaxTime
           /\ i \in 1 .. Len(consumed) /\ Len(consumed) \in Nat
<1>1. consumed[i] \in [plan : Plan, now : Int, at : 0 .. MaxTime]
  BY ElementType DEF TypeOK
<1> QED  BY <1>1, ElementType, BoundsType DEF TypeOK

\* A bucket that has expired would be full.
LEMMA ExpiredIsFull ==
    ASSUME TypeOK, Readings, Written, ~Stored, Len(consumed) # 0,
           NEW p \in Plan, NEW now \in Int, clock - MaxLag <= now
    PROVE  bucket.last <= now /\ Full(p) <= Rate[p] * (now - bucket.last)
<1> DEFINE c == consumed[Len(consumed)]
<1>1. Len(consumed) \in DOMAIN consumed /\ Len(consumed) \in Nat
  BY DEF TypeOK
<1>3. c.now <= c.at + MaxAhead /\ bucket.last = c.now /\ bucket.expires = c.at + Ttl
  BY <1>1 DEF Readings, Written
<1>4. c.now \in Int /\ c.at \in Int /\ clock \in Int
  BY <1>1, ConsumedType, SMTT(30) DEF TypeOK
<1>5. c.at + Ttl <= clock
  BY <1>3, <1>4, BoundsType, SMTT(30) DEF Stored, TypeOK
<1> HIDE DEF c
<1>6. Ttl - MaxLag - MaxAhead <= now - bucket.last
  BY <1>3, <1>4, <1>5, BoundsType
<1>7. bucket.last \in Int /\ Ttl - MaxLag - MaxAhead \in Int
  BY <1>3, <1>4, BoundsType
<1>8. Rate[p] * (Ttl - MaxLag - MaxAhead) <= Rate[p] * (now - bucket.last)
  BY <1>6, <1>7, EarnedMore, FullType
<1>9. Full(p) <= Rate[p] * (Ttl - MaxLag - MaxAhead) /\ 0 < Full(p)
  BY FullType, BoundsType, RateAssumption DEF Full
<1>10. Full(p) <= Rate[p] * (now - bucket.last)
  BY <1>8, <1>9, <1>7, FullType, BoundsType, SMTT(30)
<1>11. Rate[p] * 0 < Rate[p] * (now - bucket.last)
  BY <1>9, <1>10, <1>7, FullType
<1>12. 0 < now - bucket.last
  BY <1>11, <1>7, EarnedLess, FullType
<1> QED  BY <1>7, <1>10, <1>12

\* The tokens of a call, with those of the calls before it.
LEMMA CreditBefore ==
    ASSUME Window, NEW p \in Plan, NEW now \in Int, clock - MaxLag <= now,
           NEW i \in DOMAIN consumed, SamePlan(i, Len(consumed), p)
    PROVE  Tokens(p, now) + (Len(consumed) - i + 1) * Unit
                <= Full(p) + Rate[p] * (now - consumed[i].now)
<1> DEFINE n == Len(consumed)
<1>1. n \in Nat /\ n \in DOMAIN consumed /\ i \in 1 .. n /\ n # 0
  BY SMTT(30) DEF Window, TypeOK
<1>2. consumed[i].now \in Int /\ consumed[n].now \in Int /\ bucket.tokens \in Nat /\ bucket.last \in Int
  BY <1>1, ConsumedType DEF Window, TypeOK
<1>3. bucket.last = consumed[n].now
  BY <1>1 DEF Window, Written
<1>4. Full(p) \in Nat /\ Rate[p] \in Nat /\ Unit \in Nat
  BY FullType, BoundsType
<1>5. Rate[p] * (now - consumed[i].now)
        = Rate[p] * (bucket.last - consumed[i].now) + Rate[p] * (now - bucket.last)
  BY <1>2, <1>4, Earned
<1>6. (n - i + 1) * Unit \in Int
  BY <1>1, <1>4
<1>7. /\ Rate[p] * (now - consumed[i].now) \in Int
      /\ Rate[p] * (bucket.last - consumed[i].now) \in Int
      /\ Rate[p] * (now - bucket.last) \in Int
  <2>1. now - consumed[i].now \in Int /\ bucket.last - consumed[i].now \in Int /\ now - bucket.last \in Int
    BY <1>2
  <2> QED  BY <1>4, <2>1, ProductType
<1>11. (now - bucket.last) * Rate[p] = Rate[p] * (now - bucket.last)
  <2>1. now - bucket.last \in Int
    BY <1>2
  <2> QED  BY <1>4, <2>1, Commute
<1>8. Tokens(p, now) \in Int
  BY TokensType DEF Window
<1>9. CASE Stored
  <2>1. Tokens(p, now) <= bucket.tokens + Rate[p] * (now - bucket.last)
    <3>1. Tokens(p, now) = Smaller(bucket.tokens + Rate[p] * (now - bucket.last), Full(p))
      BY <1>9, <1>11 DEF Tokens
    <3> DEFINE e == Rate[p] * (now - bucket.last)
    <3>2. e \in Int /\ Tokens(p, now) = Smaller(bucket.tokens + e, Full(p))
      BY <1>7, <3>1
    <3> HIDE DEF e
    <3>3. Tokens(p, now) <= bucket.tokens + e
      BY <1>2, <1>4, <3>2 DEF Smaller
    <3> QED  BY <3>3 DEF e
  <2>2. bucket.tokens + (n - i + 1) * Unit <= Full(p) + Rate[p] * (bucket.last - consumed[i].now)
    BY DEF Window, Credit
  <2> DEFINE k == (n - i + 1) * Unit
  <2>3. k \in Int
    BY <1>6
  <2>4. bucket.tokens + k <= Full(p) + Rate[p] * (bucket.last - consumed[i].now)
    BY <2>2
  <2> HIDE DEF k
  <2>5. Tokens(p, now) + k <= Full(p) + Rate[p] * (now - consumed[i].now)
    BY <1>2, <1>4, <1>5, <1>7, <1>8, <2>1, <2>3, <2>4, SMTT(30)
  <2> QED  BY <2>5 DEF k
<1>10. CASE ~Stored
  <2>1. Tokens(p, now) = Full(p)
    BY <1>10 DEF Tokens
  <2>2. (n - i + 1) * Unit <= Full(p) + Rate[p] * (consumed[n].now - consumed[i].now)
    BY <1>1 DEF Window, WindowBound
  <2>3. Full(p) <= Rate[p] * (now - bucket.last)
    BY <1>1, <1>10, ExpiredIsFull DEF Window
  <2> QED  BY <1>2, <1>3, <1>4, <1>5, <1>6, <1>7, <2>1, <2>2, <2>3
<1> QED  BY <1>9, <1>10

\* Only Admit touches the bucket and the history of tokens taken.
LEMMA KeptWindow ==
    ASSUME Window, Readings', UNCHANGED <<bucket, consumed>>
    PROVE  Readings' /\ Written' /\ Credit' /\ WindowBound'
BY DEF Window, Written, Credit, WindowBound, SamePlan

LEMMA AdmitWindow ==
    ASSUME Window, TypeOK', NEW h \in Handler, Admit(h)
    PROVE  Readings' /\ Written' /\ Credit' /\ WindowBound'
<1> DEFINE n == Len(consumed)  p == call[h].plan  now == call[h].now  T == Tokens(p, now)
           c == [plan |-> p, now |-> now, at |-> clock]
<1> USE DEF Window
<1>1. Script(h)
  BY DEF Admit
<1>2. p \in Plan /\ now \in Int /\ UNCHANGED clock
  BY <1>1, ScriptType
<1>3. clock - MaxLag <= now /\ now <= clock + MaxAhead
  BY <1>1 DEF Script, Readings
<1>4. n \in Nat /\ clock \in Nat /\ T \in Int /\ T <= Full(p) /\ Unit \in Nat
  <2>1. T \in Int /\ T <= Full(p)
    BY <1>2, TokensType
  <2>2. n \in Nat /\ clock \in Nat
    BY BoundsType DEF TypeOK
  <2> QED  BY <2>1, <2>2, BoundsType
<1>5. consumed' = Append(consumed, c)
  BY DEF Admit
<1>6. /\ Len(consumed') = n + 1 /\ DOMAIN consumed' = 1 .. n + 1
      /\ consumed'[n + 1] = c /\ \A i \in 1 .. n : consumed'[i] = consumed[i]
      /\ DOMAIN consumed = 1 .. n
  <2>1. consumed \in Seq([plan : Plan, now : Int, at : 0 .. MaxTime])
    BY DEF TypeOK
  <2>2. c \in [plan : Plan, now : Int, at : 0 .. MaxTime]
    BY <1>2 DEF TypeOK
  <2> QED  BY <1>5, <2>1, <2>2
<1>7. bucket' = [tokens |-> T - Unit, last |-> now, expires |-> clock + Ttl]
  BY DEF Admit
<1>8. bucket'.tokens = T - Unit /\ bucket'.last = now /\ bucket'.expires = clock + Ttl
  BY <1>7
<1>9. Readings'
  <2>1. ASSUME NEW i \in DOMAIN consumed'
        PROVE  consumed'[i].at <= clock /\ consumed'[i].now <= consumed'[i].at + MaxAhead
    <3>1. CASE i = n + 1
      BY <1>3, <1>4, <1>6, <3>1
    <3>2. CASE i # n + 1
      <4>1. i \in 1 .. n
        BY <1>4, <1>6, <3>2
      <4> QED  BY <1>6, <4>1 DEF Readings
    <3> QED  BY <3>1, <3>2
  <2>2. ASSUME NEW k \in Handler, pc'[k] = "ready"
        PROVE  clock - MaxLag <= call'[k].now /\ call'[k].now <= clock + MaxAhead
    <3>1. pc[k] = "ready" /\ call'[k] = call[k]
      BY <1>1, <2>2 DEF Script, TypeOK
    <3> QED  BY <3>1 DEF Readings
  <2> QED  BY <1>2, <2>1, <2>2 DEF Readings
<1>10. Written'
  BY <1>4, <1>6, <1>8 DEF Written
<1>11. Credit'
  <2> SUFFICES ASSUME NEW q \in Plan, NEW i \in 1 .. n + 1,
                      \A k \in i .. n + 1 : consumed'[k].plan = q
               PROVE  T - Unit + (n + 1 - i + 1) * Unit <= Full(q) + Rate[q] * (now - consumed'[i].now)
    BY <1>6, <1>8 DEF Credit, SamePlan
  <2>1. q = p
    <3>1. n + 1 \in i .. n + 1
      BY <1>4
    <3> QED  BY <1>6, <3>1
  <2>2. CASE i = n + 1
    <3>1. now - consumed'[i].now = 0 /\ n + 1 - i + 1 = 1
      BY <1>2, <1>4, <1>6, <2>2
    <3>2. Rate[p] * 0 = 0 /\ 1 * Unit = Unit /\ Full(p) \in Nat
      BY <1>2, <1>4, FullType
    <3>3. T - Unit + 1 * Unit <= Full(p) + Rate[p] * 0
      BY <1>4, <3>2
    <3> QED  BY <2>1, <3>1, <3>3
  <2>3. CASE i \in 1 .. n
    <3>1. SamePlan(i, n, p)
      <4> SUFFICES ASSUME NEW k \in i .. n PROVE consumed[k].plan = p
        BY DEF SamePlan
      <4>1. k \in i .. n + 1 /\ k \in 1 .. n
        BY <1>4, <2>3
      <4> QED  BY <1>6, <2>1, <4>1
    <3>2. T + (n - i + 1) * Unit <= Full(p) + Rate[p] * (now - consumed[i].now)
      BY <1>2, <1>3, <1>6, <2>3, <3>1, CreditBefore
    <3>3. T - Unit + (n + 1 - i + 1) * Unit = T + (n - i + 1) * Unit
      BY <1>4
    <3> QED  BY <1>6, <2>1, <2>3, <3>2, <3>3
  <2> QED  BY <1>4, <2>2, <2>3
<1>12. WindowBound'
  <2> SUFFICES ASSUME NEW q \in Plan, NEW i \in 1 .. n + 1, NEW j \in 1 .. n + 1, i <= j, SamePlan(i, j, q)'
               PROVE  (j - i + 1) * Unit <= Full(q) + Rate[q] * (consumed'[j].now - consumed'[i].now)
    BY <1>6 DEF WindowBound
  <2>1. CASE j = n + 1
    <3>1. bucket'.tokens + (n + 1 - i + 1) * Unit <= Full(q) + Rate[q] * (now - consumed'[i].now)
      <4>1. i \in DOMAIN consumed' /\ SamePlan(i, Len(consumed), q)'
        BY <1>6, <2>1 DEF SamePlan
      <4>2. bucket'.tokens + (Len(consumed') - i + 1) * Unit
              <= Full(q) + Rate[q] * (bucket'.last - consumed'[i].now)
        BY <1>11, <4>1, q \in Plan DEF Credit
      <4>3. Len(consumed') - i + 1 = n + 1 - i + 1 /\ bucket'.last = now
        BY <1>4, <1>6, <1>8
      <4> QED
        BY <4>2, <4>3
    <3>2. bucket'.tokens \in Nat
      BY DEF TypeOK
    <3>3. i \in DOMAIN consumed' /\ consumed'[i].now \in Int
      <4>1. consumed'[i].now \in Int
        <5>1. CASE i = n + 1
          BY <1>2, <1>6, <5>1
        <5>2. CASE i # n + 1
          <6>1. i \in DOMAIN consumed /\ consumed'[i] = consumed[i]
            BY <1>4, <1>6, <5>2
          <6> QED  BY <6>1, ConsumedType
        <5> QED  BY <5>1, <5>2
      <4> QED  BY <1>6, <4>1
    <3>4. now - consumed'[i].now \in Int /\ n + 1 - i + 1 \in Int
      BY <1>2, <1>4, <3>3
    <3>5. Rate[q] * (now - consumed'[i].now) \in Int /\ (n + 1 - i + 1) * Unit \in Int
      BY <1>4, <3>4, FullType, ProductType
    <3> DEFINE a == (n + 1 - i + 1) * Unit  e == Rate[q] * (now - consumed'[i].now)
    <3>6. a \in Int /\ e \in Int /\ bucket'.tokens + a <= Full(q) + e /\ Full(q) \in Nat
      BY <3>1, <3>5, FullType
    <3> HIDE DEF a, e
    <3>7. a <= Full(q) + e
      BY <3>2, <3>6
    <3> QED  BY <1>6, <2>1, <3>7 DEF a, e
  <2>2. CASE j # n + 1
    <3>1. i \in 1 .. n /\ j \in 1 .. n
      BY <1>4, <2>2
    <3>2. SamePlan(i, j, q)
      <4> SUFFICES ASSUME NEW k \in i .. j PROVE consumed[k].plan = q
        BY DEF SamePlan
      <4>1. k \in 1 .. n
        BY <1>4, <3>1
      <4> QED  BY <1>6, <4>1 DEF SamePlan
    <3>3. (j - i + 1) * Unit <= Full(q) + Rate[q] * (consumed[j].now - consumed[i].now)
      BY <1>6, <3>1, <3>2 DEF WindowBound
    <3> QED  BY <1>6, <3>1, <3>3
  <2> QED  BY <2>1, <2>2
<1> QED  BY <1>9, <1>10, <1>11, <1>12

\* The window is an inductive invariant.
THEOREM WindowInvariant == Spec => []Window
<1>1. Init => Window
  <2>1. Init => TypeOK
    BY InitType
  <2> QED
    BY <2>1 DEF Init, Window, Readings, Written, Credit, WindowBound
<1>2. Window /\ TypeOK' /\ [Next]_vars => Window'
  <2> SUFFICES ASSUME Window, TypeOK', [Next]_vars
               PROVE  Readings' /\ Written' /\ Credit' /\ WindowBound'
    BY DEF Window
  <2> USE DEF Window
  <2>1. CASE UpdatePlan
    <3>1. Readings'
      BY <2>1 DEF UpdatePlan, Readings, handlerVars
    <3> QED  BY <2>1, <3>1, KeptWindow DEF UpdatePlan
  <2>2. CASE Tick
    <3>1. ASSUME NEW i \in DOMAIN consumed
          PROVE  consumed[i].at <= clock' /\ consumed[i].now <= consumed[i].at + MaxAhead
      <4>1. consumed[i].at \in Int /\ clock \in Int /\ consumed[i].at <= clock
        <5>1. consumed[i].at \in Int /\ consumed[i].at <= clock
          BY ConsumedType DEF Readings
        <5>2. clock \in Int
          BY ClockType
        <5> QED  BY <5>1, <5>2
      <4> QED  BY <2>2, <4>1 DEF Tick, Readings
    <3>2. ASSUME NEW k \in Handler, pc[k] = "ready"
          PROVE  clock' - MaxLag <= call[k].now /\ call[k].now <= clock' + MaxAhead
      <4>1. call[k].now \in Int /\ clock \in Int
        BY <3>2, SMTT(30) DEF TypeOK, Call
      <4>2. clock < call[k].now + MaxLag /\ clock' = clock + 1 /\ call[k].now <= clock + MaxAhead
        BY <2>2, <3>2 DEF Tick, Readings
      <4> QED  BY <4>1, <4>2, BoundsType
    <3>3. Readings'
      BY <2>2, <3>1, <3>2 DEF Tick, Readings, handlerVars
    <3> QED  BY <2>2, <3>3, KeptWindow DEF Tick
  <2>3. ASSUME NEW h \in Handler, FindTenant(h) \/ CallFails(h)
        PROVE  Readings' /\ Written' /\ Credit' /\ WindowBound'
    <3>1. ASSUME NEW k \in Handler, pc'[k] = "ready" PROVE pc[k] = "ready" /\ call'[k] = call[k]
      BY <2>3, <3>1 DEF FindTenant, CallFails, TypeOK
    <3>2. Readings'
      BY <2>3, <3>1 DEF FindTenant, CallFails, Readings
    <3> QED  BY <2>3, <3>2, KeptWindow DEF FindTenant, CallFails
  <2>4. ASSUME NEW h \in Handler, ReadClock(h)
        PROVE  Readings' /\ Written' /\ Credit' /\ WindowBound'
    <3>1. PICK now \in clock - MaxLag .. clock + MaxAhead : call' = [call EXCEPT ![h].now = now]
      BY <2>4 DEF ReadClock
    <3>2. ASSUME NEW k \in Handler, pc'[k] = "ready"
          PROVE  clock - MaxLag <= call'[k].now /\ call'[k].now <= clock + MaxAhead
      <4>1. CASE k = h
        <5>1. call[h] \in Call
          BY <2>4 DEF ReadClock, TypeOK
        <5>2. call'[h].now = now
          BY <3>1, <5>1 DEF TypeOK, Call
        <5> QED  BY <3>1, <4>1, <5>2, BoundsType DEF TypeOK
      <4>2. CASE k # h
        BY <2>4, <3>1, <3>2, <4>2 DEF ReadClock, Readings, TypeOK
      <4> QED  BY <4>1, <4>2
    <3>3. Readings'
      BY <2>4, <3>2 DEF ReadClock, Readings
    <3> QED  BY <2>4, <3>3, KeptWindow DEF ReadClock
  <2>5. ASSUME NEW h \in Handler, Admit(h)
        PROVE  Readings' /\ Written' /\ Credit' /\ WindowBound'
    BY <2>5, AdmitWindow
  <2>6. ASSUME NEW h \in Handler, Refuse(h)
        PROVE  Readings' /\ Written' /\ Credit' /\ WindowBound'
    <3>1. Readings'
      BY <2>6 DEF Refuse, Script, Readings, TypeOK
    <3> QED  BY <2>6, <3>1, KeptWindow DEF Refuse
  <2>7. CASE UNCHANGED vars
    <3>1. Readings'
      BY <2>7 DEF vars, Readings
    <3> QED  BY <2>7, <3>1, KeptWindow DEF vars
  <2> QED
    BY <2>1, <2>2, <2>3, <2>4, <2>5, <2>6, <2>7 DEF Next, HandlerStep
<1> QED  BY <1>1, <1>2, TypeCorrect, PTL DEF Spec

\* However the calls of any number of handlers interleave, what a tenant gets
\* through between two moments is a full bucket and what it earned in between.
THEOREM WindowBoundHolds == Spec => []WindowBound
<1>1. Window => WindowBound
  BY DEF Window
<1> QED  BY <1>1, WindowInvariant, PTL

-----------------------------------------------------------------------------
(* The time to wait. *)

\* What a refusal found is still so while no token is taken: not enough when it
\* was asked, and enough at the end of the wait.
Waits(r) ==
    /\ bucket.tokens + Rate[r.plan] * (r.now - bucket.last) < Unit
    /\ Unit <= bucket.tokens + Rate[r.plan] * (r.now + r.wait - bucket.last)

Refusals ==
    \A r \in refused :
        /\ r.nth <= Len(consumed)
        /\ r.nth = Len(consumed) => Waits(r)

\* RetryAfterSuffices by the clocks of the handlers.
WaitsApart ==
    \A r, s \in refused : r.nth = s.nth /\ r.plan = s.plan => s.now < r.now + r.wait

\* The reading of the time that a refused call came with was close to the time of Redis.
RefusedReadings ==
    \A r \in refused : r.at - MaxLag <= r.now /\ r.now <= r.at + MaxAhead

Wait == TypeOK /\ Refusals /\ WaitsApart

\* Two refusals of one bucket: the second comes before the first's wait is over.
LEMMA WaitsBefore ==
    ASSUME bucket.tokens \in Int, bucket.last \in Int, NEW p \in Plan,
           NEW a \in Int, NEW b \in Int,
           bucket.tokens + Rate[p] * (a - bucket.last) < Unit,
           Unit <= bucket.tokens + Rate[p] * (b - bucket.last)
    PROVE  a < b
<1>1. a - bucket.last \in Int /\ b - bucket.last \in Int /\ Rate[p] \in Nat /\ Unit \in Nat
  BY FullType, BoundsType
<1>2. Rate[p] * (a - bucket.last) \in Int /\ Rate[p] * (b - bucket.last) \in Int
  BY <1>1, ProductType
<1>3. Rate[p] * (a - bucket.last) < Rate[p] * (b - bucket.last)
  BY <1>1, <1>2
<1>4. a - bucket.last < b - bucket.last
  BY <1>1, <1>3, EarnedLess
<1> QED  BY <1>4

\* A refusal finds the key stored: a missing one stands for a full bucket.
LEMMA RefusedTokens ==
    ASSUME TypeOK, NEW p \in Plan, NEW now \in Int, ~Enough(Tokens(p, now))
    PROVE  /\ Stored
           /\ Tokens(p, now) = bucket.tokens + Rate[p] * (now - bucket.last)
           /\ Tokens(p, now) \in Int /\ Tokens(p, now) < Unit
<1>1. Full(p) \in Nat /\ Unit \in Nat /\ Unit <= Full(p) /\ Rate[p] \in Nat
  BY FullType, BoundsType
<1>2. Tokens(p, now) \in Int /\ Tokens(p, now) < Unit
  <2>1. Tokens(p, now) \in Int
    BY TokensType
  <2> QED  BY <1>1, <2>1 DEF Enough
<1>3. Stored
  BY <1>1, <1>2 DEF Tokens
<1>4. now - bucket.last \in Int /\ bucket.tokens \in Int
  BY DEF TypeOK
<1>5. (now - bucket.last) * Rate[p] = Rate[p] * (now - bucket.last)
  BY <1>1, <1>4, Commute
<1>6. Tokens(p, now) = Smaller(bucket.tokens + Rate[p] * (now - bucket.last), Full(p))
  BY <1>3, <1>5 DEF Tokens
<1>7. Tokens(p, now) = bucket.tokens + Rate[p] * (now - bucket.last)
  BY <1>1, <1>2, <1>6 DEF Smaller
<1> QED  BY <1>2, <1>3, <1>7

\* What is earned in w seconds, on top of what a bucket of a tokens had at n.
LEMMA WaitCovers ==
    ASSUME NEW r \in Nat, NEW a \in Int, NEW last \in Int, NEW n \in Int, NEW w \in Nat,
           NEW u \in Nat, u - (a + r * (n - last)) <= r * w
    PROVE  u <= a + r * (n + w - last)
<1>1. r * (n + w - last) = r * (n - last) + r * (n + w - n)
  BY Earned
<1>2. n + w - n = w
  OBVIOUS
<1>3. r * (n - last) \in Int /\ r * w \in Int
  BY ProductType
<1> QED  BY <1>1, <1>2, <1>3

LEMMA KeptWait ==
    ASSUME Wait, UNCHANGED <<bucket, consumed, refused>>
    PROVE  Refusals' /\ WaitsApart'
BY DEF Wait, Refusals, Waits, WaitsApart

LEMMA AdmitWait ==
    ASSUME Wait, NEW h \in Handler, Admit(h)
    PROVE  Refusals' /\ WaitsApart'
<1>1. Len(consumed') = Len(consumed) + 1 /\ Len(consumed) \in Nat /\ UNCHANGED refused
  BY DEF Wait, TypeOK, Admit
<1>2. ASSUME NEW r \in refused PROVE r.nth <= Len(consumed') /\ r.nth # Len(consumed')
  BY <1>1 DEF Wait, Refusals, TypeOK
<1> QED  BY <1>1, <1>2 DEF Wait, Refusals, WaitsApart

LEMMA RefuseWait ==
    ASSUME Wait, NEW h \in Handler, Refuse(h)
    PROVE  Refusals' /\ WaitsApart'
<1> DEFINE p == call[h].plan  now == call[h].now  T == Tokens(p, now)
           new == [plan |-> p, now |-> now, at |-> clock, nth |-> Len(consumed), wait |-> Quotient(Unit - T, Rate[p])]
<1>1. Script(h) /\ ~Enough(T) /\ refused' = refused \cup {new} /\ UNCHANGED <<bucket, consumed>>
  BY DEF Refuse
<1>2. TypeOK /\ p \in Plan /\ now \in Int
  BY <1>1, ScriptType DEF Wait
<1>3. T \in Int /\ T < Unit /\ T = bucket.tokens + Rate[p] * (now - bucket.last)
  BY <1>1, <1>2, RefusedTokens
<1>4. bucket.tokens \in Int /\ bucket.last \in Int /\ Rate[p] \in Nat \ {0} /\ Unit \in Nat
  BY <1>2, FullType, BoundsType, SMTT(30) DEF TypeOK
<1>5. Unit - T \in Nat \ {0}
  BY <1>3, <1>4
<1>6. new.wait \in Nat /\ Unit - T <= Rate[p] * new.wait
  BY <1>4, <1>5, QuotientCovers
<1>7. new.plan = p /\ new.now = now /\ new.nth = Len(consumed)
  OBVIOUS
<1> HIDE DEF new
<1>8. Unit <= bucket.tokens + Rate[p] * (now + new.wait - bucket.last)
  BY <1>2, <1>3, <1>4, <1>6, WaitCovers
<1>9. Waits(new)
  BY <1>3, <1>7, <1>8 DEF Waits
<1>10. ASSUME NEW r \in refused' PROVE r.nth = Len(consumed) => Waits(r)
  BY <1>1, <1>9 DEF Wait, Refusals
<1>11. Refusals'
  <2>1. Len(consumed) \in Nat
    BY <1>2 DEF TypeOK
  <2> QED  BY <1>1, <1>7, <1>10, <2>1 DEF Wait, Refusals, Waits
<1>12. WaitsApart'
  <2> SUFFICES ASSUME NEW r \in refused', NEW s \in refused', r.nth = s.nth, r.plan = s.plan
               PROVE  s.now < r.now + r.wait
    BY DEF WaitsApart
  <2>1. CASE r # new /\ s # new
    BY <1>1, <2>1 DEF Wait, WaitsApart
  <2>2. CASE r = new \/ s = new
    <3>1. Waits(r) /\ Waits(s)
      BY <1>7, <1>10, <2>2
    <3>2. /\ r.plan \in Plan /\ s.now \in Int /\ r.now \in Int /\ r.wait \in Nat
      BY <1>1, <1>2, <1>6, <1>7 DEF TypeOK
    <3> QED  BY <1>4, <3>1, <3>2, WaitsBefore DEF Waits
  <2> QED  BY <2>1, <2>2
<1> QED  BY <1>11, <1>12

\* What a refusal found holds until a token is taken, and two refusals are apart.
LEMMA WaitInvariant == Spec => []Wait
<1>1. Init => Wait
  BY InitType DEF Init, Wait, Refusals, WaitsApart
<1>2. Wait /\ TypeOK' /\ [Next]_vars => Wait'
  <2> SUFFICES ASSUME Wait, TypeOK', [Next]_vars
               PROVE  Refusals' /\ WaitsApart'
    BY DEF Wait
  <2>1. ASSUME NEW h \in Handler, Admit(h) PROVE Refusals' /\ WaitsApart'
    BY <2>1, AdmitWait
  <2>2. ASSUME NEW h \in Handler, Refuse(h) PROVE Refusals' /\ WaitsApart'
    BY <2>2, RefuseWait
  <2>3. CASE \/ UpdatePlan \/ Tick \/ UNCHANGED vars
             \/ \E h \in Handler : FindTenant(h) \/ ReadClock(h) \/ CallFails(h)
    <3>1. UNCHANGED <<bucket, consumed, refused>>
      BY <2>3 DEF UpdatePlan, Tick, vars, FindTenant, ReadClock, CallFails
    <3> QED  BY <3>1, KeptWait
  <2> QED  BY <2>1, <2>2, <2>3 DEF Next, HandlerStep
<1> QED  BY <1>1, <1>2, TypeCorrect, PTL DEF Spec

-------\* A refused call came with a reading as good as when it was made.
LEMMA RefusedReadingsInvariant == Spec => []RefusedReadings
<1>1. Init => RefusedReadings
  BY DEF Init, RefusedReadings
<1>2. TypeOK /\ Readings /\ RefusedReadings /\ [Next]_vars => RefusedReadings'
  <2> SUFFICES ASSUME TypeOK, Readings, RefusedReadings, [Next]_vars PROVE RefusedReadings'
    OBVIOUS
  <2>1. ASSUME NEW h \in Handler, Refuse(h) PROVE RefusedReadings'
    <3> DEFINE now == call[h].now
    <3>1. clock - MaxLag <= now /\ now <= clock + MaxAhead
      BY <2>1 DEF Refuse, Script, Readings
    <3> DEFINE p == call[h].plan
               new == [plan |-> p, now |-> now, at |-> clock, nth |-> Len(consumed),
                       wait |-> Quotient(Unit - Tokens(p, now), Rate[p])]
    <3>2. refused' = refused \cup {new} /\ new.at = clock /\ new.now = now
      BY <2>1 DEF Refuse
    <3> HIDE DEF now, new
    <3> QED  BY <3>1, <3>2 DEF RefusedReadings
  <2>2. CASE UNCHANGED refused
    BY <2>2 DEF RefusedReadings
  <2>3. ASSUME NEW h \in Handler, FindTenant(h) \/ ReadClock(h) \/ CallFails(h) \/ Admit(h)
        PROVE  UNCHANGED refused
    BY <2>3 DEF FindTenant, ReadClock, CallFails, Admit
  <2> QED
    BY <2>1, <2>2, <2>3 DEF Next, HandlerStep, UpdatePlan, Tick, vars
<1>3. Window => TypeOK /\ Readings
  BY DEF Window
<1> QED  BY <1>1, <1>2, <1>3, WindowInvariant, PTL DEF Spec

\* A client that waits the seconds it was told, and as long again as the clocks of two
\* handlers may be apart from that of Redis, is not refused again, for any rates; by
\* the handlers' own clocks the seconds it was told are enough.
THEOREM RetryAfterSufficesHolds == Spec => []RetryAfterSuffices
<1>1. Wait /\ RefusedReadings => RetryAfterSuffices
  <2> SUFFICES ASSUME Wait, RefusedReadings, NEW r \in refused, NEW s \in refused,
                      r.nth = s.nth, r.plan = s.plan
               PROVE  s.now < r.now + r.wait /\ s.at < r.at + r.wait + MaxAhead + MaxLag
    BY DEF RetryAfterSuffices
  <2>1. s.now < r.now + r.wait
    BY DEF Wait, WaitsApart
  <2>2. r.now <= r.at + MaxAhead /\ s.at - MaxLag <= s.now
    BY DEF RefusedReadings
  <2>3. {r.now, s.now, r.at, s.at, r.wait} \subseteq Int
    <3>1. /\ r \in [plan : Plan, now : Int, at : 0 .. MaxTime, wait : Nat, nth : Nat]
          /\ s \in [plan : Plan, now : Int, at : 0 .. MaxTime, wait : Nat, nth : Nat]
      BY DEF Wait, TypeOK
    <3> QED  BY <3>1, BoundsType
  <2> QED  BY <2>1, <2>2, <2>3, BoundsType
<1> QED  BY <1>1, WaitInvariant, RefusedReadingsInvariant, PTL

----------------------------------------------------------------------
(* The two implementations. *)

\* In lockstep, the TokenBucket is the Redis bucket refilled at a later time.
InStep ==
    /\ order = "none" => Len(consumed) = 0
    /\ order = "steady" =>
        /\ Len(consumed) # 0
        /\ bucket.last <= local.last
        /\ local.tokens = Smaller(bucket.tokens + Rate[local.plan] * (local.last - bucket.last), Full(local.plan))

Lockstep == Window /\ InStep

\* Refilling twice, up to the capacity each time, is refilling once.
LEMMA RefillTwice ==
    ASSUME NEW a \in Int, NEW d \in Int, NEW e \in Int, 0 <= e, NEW f \in Int
    PROVE  Smaller(Smaller(a + d, f) + e, f) = Smaller(a + (d + e), f)
BY DEF Smaller

LEMMA SameTokens ==
    ASSUME Lockstep, order = "steady", NEW now \in Int, local.last <= now, clock - MaxLag <= now
    PROVE  /\ Refill(local, local.plan, now)
                = [plan |-> local.plan, tokens |-> Tokens(local.plan, now), last |-> now]
           /\ bucket.last <= now
<1> DEFINE p == local.plan  d == Rate[p] * (local.last - bucket.last)  e == Rate[p] * (now - local.last)
           f == Full(p)
<1>1. p \in Plan /\ local.last \in Int /\ bucket.last \in Int /\ bucket.tokens \in Nat
  BY DEF Lockstep, Window, TypeOK
<1>2. Rate[p] \in Nat /\ f \in Nat
  BY <1>1, FullType
<1>3. local.last - bucket.last \in Int /\ now - local.last \in Int /\ now - bucket.last \in Int /\ 0 <= now - local.last
  BY <1>1
<1>4. d \in Int /\ e \in Int /\ 0 <= e
  <2>1. Rate[p] * 0 <= Rate[p] * (now - local.last)
    BY <1>2, <1>3, EarnedMore
  <2> QED  BY <1>2, <1>3, <2>1, ProductType
<1>5. Rate[p] * (now - bucket.last) = d + e
  BY <1>1, <1>2, Earned
<1>6. /\ (now - bucket.last) * Rate[p] = d + e
      /\ (now - local.last) * Rate[p] = e
  <2>1. (now - bucket.last) * Rate[p] = Rate[p] * (now - bucket.last)
    BY <1>2, <1>3, Commute
  <2>2. (now - local.last) * Rate[p] = e
    BY <1>2, <1>3, Commute
  <2> QED  BY <1>5, <2>1, <2>2
<1>7. bucket.last <= local.last /\ local.tokens = Smaller(bucket.tokens + d, f) /\ Len(consumed) # 0
  BY DEF Lockstep, InStep
<1>8. bucket.last <= now
  BY <1>1, <1>7
<1>9. Tokens(p, now) = Smaller(bucket.tokens + (d + e), f)
  <2>1. CASE Stored
    BY <1>6, <2>1 DEF Tokens
  <2>2. CASE ~Stored
    <3>1. f <= Rate[p] * (now - bucket.last)
      BY <1>1, <1>7, <2>2, ExpiredIsFull DEF Lockstep, Window
    <3>2. f <= d + e
      BY <1>5, <3>1
    <3>3. Tokens(p, now) = f
      BY <2>2 DEF Tokens
    <3> HIDE DEF d, e, f
    <3> QED  BY <1>1, <1>2, <1>4, <3>2, <3>3 DEF Smaller
  <2> QED  BY <2>1, <2>2
<1>10. Smaller(local.tokens + (now - local.last) * Rate[p], Full(p)) = Tokens(p, now)
  <2>1. Smaller(Smaller(bucket.tokens + d, f) + e, f) = Smaller(bucket.tokens + (d + e), f)
    <3> HIDE DEF d, e, f
    <3> QED  BY <1>1, <1>2, <1>4, RefillTwice
  <2> QED  BY <1>6, <1>7, <1>9, <2>1
<1> QED  BY <1>8, <1>10 DEF Refill

\* What a call that keeps the steps finds.
LEMMA ScriptInStep ==
    ASSUME Lockstep, NEW h \in Handler, Script(h), order' = "steady"
    PROVE  LET p == call[h].plan  now == call[h].now IN
           /\ local' = TryConsume([plan |-> p, tokens |-> Tokens(p, now), last |-> now])
           /\ order = "none" => Enough(Tokens(p, now))
           /\ order # "none" => bucket.last <= now /\ order = "steady"
<1> DEFINE p == call[h].plan  now == call[h].now
           b == IF order = "none" THEN NewBucket(p, now) ELSE local
<1>1. TypeOK /\ p \in Plan /\ now \in Int /\ clock - MaxLag <= now
  BY ScriptType DEF Lockstep, Window, Script, Readings
<1>2. local' = TryConsume(Refill(b, p, now)) /\ b.plan = p /\ b.last <= now /\ order # "jumped"
  BY DEF Script
<1>3. Full(p) \in Nat /\ Unit <= Full(p) /\ Rate[p] \in Nat /\ Unit \in Nat
  BY <1>1, FullType, BoundsType
<1>4. CASE order = "none"
  <2>1. bucket.expires = 0 /\ clock >= 0
    <3>1. clock \in Nat
      BY <1>1, BoundsType DEF TypeOK
    <3> QED  BY <1>4, <3>1 DEF Lockstep, InStep, Window, Written
  <2>2. ~Stored
    BY <1>1, <2>1, ClockType DEF Stored
  <2>3. Tokens(p, now) = Full(p)
    BY <2>2 DEF Tokens
  <2>4. b = [plan |-> p, tokens |-> Full(p), last |-> now]
    BY <1>4 DEF NewBucket
  <2>5. (now - now) * Rate[p] = 0
    <3>1. now - now = 0 /\ 0 * Rate[p] = 0
      BY <1>1, <1>3
    <3> QED  BY <3>1
  <2>6. Refill(b, p, now) = [plan |-> p, tokens |-> Full(p), last |-> now]
    BY <1>3, <2>4, <2>5 DEF Refill, Smaller
  <2> QED  BY <1>2, <1>3, <1>4, <2>3, <2>6 DEF Enough
<1>5. CASE order # "none"
  <2>1. order = "steady" /\ local.plan = p /\ local.last <= now
    BY <1>1, <1>2, <1>5 DEF TypeOK
  <2>2. /\ Refill(local, p, now) = [plan |-> p, tokens |-> Tokens(p, now), last |-> now]
        /\ bucket.last <= now
    BY <1>1, <2>1, SameTokens
  <2> QED  BY <1>2, <1>5, <2>1, <2>2
<1> QED  BY <1>4, <1>5

LEMMA AdmitInStep ==
    ASSUME Lockstep, NEW h \in Handler, Admit(h)
    PROVE  InStep'
<1> DEFINE p == call[h].plan  now == call[h].now  T == Tokens(p, now)
<1>1. Script(h) /\ Enough(T) /\ bucket' = [tokens |-> T - Unit, last |-> now, expires |-> clock + Ttl]
  BY DEF Admit
<1>2. TypeOK /\ p \in Plan /\ now \in Int /\ T \in Int /\ T <= Full(p) /\ Unit \in Nat /\ Full(p) \in Nat
  BY <1>1, ScriptType, TokensType, FullType, BoundsType DEF Lockstep, Window
<1>3. Len(consumed') = Len(consumed) + 1 /\ Len(consumed) \in Nat
  BY <1>2 DEF TypeOK, Admit
<1>4. order' # "none"
  BY <1>1 DEF Script
<1>5. CASE order' = "steady"
  <2>1. local' = TryConsume([plan |-> p, tokens |-> T, last |-> now])
    BY <1>1, <1>5, ScriptInStep
  <2>2. local' = [plan |-> p, tokens |-> T - Unit, last |-> now]
    BY <1>1, <1>2, <2>1 DEF TryConsume, HasToken, Enough
  <2>3. /\ local'.plan = p /\ local'.last = now /\ local'.tokens = T - Unit
        /\ bucket'.last = now /\ bucket'.tokens = T - Unit
    BY <1>1, <2>2
  <2>4. Rate[p] * (now - now) = 0
    <3>1. now - now = 0 /\ Rate[p] * 0 = 0
      BY <1>2, FullType
    <3> QED  BY <3>1
  <2>5. T - Unit = Smaller(T - Unit + 0, Full(p))
    BY <1>2 DEF Smaller
  <2> QED  BY <1>2, <1>3, <1>4, <2>3, <2>4, <2>5 DEF InStep
<1> QED  BY <1>4, <1>5 DEF InStep

LEMMA RefuseInStep ==
    ASSUME Lockstep, NEW h \in Handler, Refuse(h)
    PROVE  InStep'
<1> DEFINE p == call[h].plan  now == call[h].now  T == Tokens(p, now)
<1>1. Script(h) /\ ~Enough(T) /\ UNCHANGED <<bucket, consumed>>
  BY DEF Refuse
<1>2. TypeOK /\ p \in Plan /\ now \in Int /\ Unit \in Nat /\ Full(p) \in Nat /\ Unit <= Full(p)
  BY <1>1, ScriptType, FullType, BoundsType DEF Lockstep, Window
<1>3. T = bucket.tokens + Rate[p] * (now - bucket.last) /\ T \in Int /\ T < Unit
  BY <1>1, <1>2, RefusedTokens
<1>4. order' # "none"
  BY <1>1 DEF Script
<1>5. CASE order' = "steady"
  <2>1. /\ local' = TryConsume([plan |-> p, tokens |-> T, last |-> now])
        /\ order = "steady" /\ bucket.last <= now
    BY <1>1, <1>5, ScriptInStep
  <2>2. local' = [plan |-> p, tokens |-> T, last |-> now]
    BY <1>1, <2>1 DEF TryConsume, HasToken, Enough
  <2>3. local'.plan = p /\ local'.last = now /\ local'.tokens = T
    BY <2>2
  <2>4. T = Smaller(bucket.tokens + Rate[p] * (now - bucket.last), Full(p))
    BY <1>2, <1>3 DEF Smaller
  <2> QED  BY <1>1, <1>4, <2>1, <2>3, <2>4 DEF InStep, Lockstep
<1> QED  BY <1>4, <1>5 DEF InStep

\* The script and TokenBucket, fed the same calls, answer alike.
THEOREM BucketsAgreeHolds == Spec => []BucketsAgree
<1>1. Init => InStep
  BY DEF Init, InStep
<1>2. InStep /\ Window /\ [Next]_vars => InStep'
  <2> SUFFICES ASSUME InStep, Window, [Next]_vars PROVE InStep'
    OBVIOUS
  <2>1. Lockstep
    BY DEF Lockstep
  <2>2. ASSUME NEW h \in Handler, Admit(h) PROVE InStep'
    BY <2>1, <2>2, AdmitInStep
  <2>3. ASSUME NEW h \in Handler, Refuse(h) PROVE InStep'
    BY <2>1, <2>3, RefuseInStep
  <2>4. CASE \/ UpdatePlan \/ Tick \/ UNCHANGED vars
             \/ \E h \in Handler : FindTenant(h) \/ ReadClock(h) \/ CallFails(h)
    <3>1. UNCHANGED <<bucket, consumed, local, order>>
      BY <2>4 DEF UpdatePlan, Tick, vars, FindTenant, ReadClock, CallFails
    <3> QED  BY <3>1 DEF InStep
  <2> QED  BY <2>2, <2>3, <2>4 DEF Next, HandlerStep
<1>3. InStep /\ Window => BucketsAgree
  <2> SUFFICES ASSUME InStep, Window, order = "steady",
                      NEW now \in clock - MaxLag .. clock + MaxAhead, now >= local.last
               PROVE  /\ HasToken(Refill(local, local.plan, now)) <=> Enough(Tokens(local.plan, now))
                      /\ Refill(local, local.plan, now).tokens = Tokens(local.plan, now)
                      /\ SecondsUntilAvailable(Refill(local, local.plan, now), local.plan)
                            = Quotient(Unit - Tokens(local.plan, now), Rate[local.plan])
    BY DEF BucketsAgree
  <2>1. clock \in Int /\ local.last \in Int
    BY ClockType DEF Window, TypeOK
  <2>2. now \in Int /\ clock - MaxLag <= now /\ local.last <= now
    BY <2>1, BoundsType
  <2>3. Refill(local, local.plan, now).tokens = Tokens(local.plan, now)
    <3>1. Lockstep
      BY DEF Lockstep
    <3>2. Refill(local, local.plan, now)
            = [plan |-> local.plan, tokens |-> Tokens(local.plan, now), last |-> now]
      BY <2>2, <3>1, SameTokens
    <3> QED  BY <3>2
  <2> QED  BY <2>3 DEF HasToken, Enough, SecondsUntilAvailable
<1> QED  BY <1>1, <1>2, <1>3, WindowInvariant, PTL DEF Spec
=============================================================================
