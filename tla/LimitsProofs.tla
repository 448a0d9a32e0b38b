----------------------------- MODULE LimitsProofs -----------------------------
(***************************************************************************)
(* Proofs about the two limits the client sets itself: how fast it sends   *)
(* (RateLimiter) and how often it tries to connect (CircuitBreaker).       *)
(***************************************************************************)
EXTENDS RateLimiter, CircuitBreaker, FiniteSetTheorems, TLAPS

-----------------------------------------------------------------------------
(***************************************************************************)
(* The rate limiter, for every bucket size, length of a minute, poll       *)
(* interval, delay, number of callers and every error of the arithmetic    *)
(* that is small enough (RoundingAssumption): the types, the bound on the  *)
(* tokens granted in any window, and that timeUntilAvailable() is enough   *)
(* to within a tick.                                                       *)
(*                                                                         *)
(* All three rest on the same observation: what a step does to credit and  *)
(* elapsed is a refill, a refill that takes a token, the passing of a tick *)
(* or a clock set back, whichever call makes it (lemma Steps).  What the   *)
(* next refill will find lies between Low and High, and these move by at   *)
(* most a tick's credits and one rounding (lemmas Ticks and SetBacks).     *)
(***************************************************************************)

\* Multiplication distributes over a sum, and keeps signs.
LEMMA Products ==
  ASSUME NEW r \in Nat, NEW a \in Int, NEW b \in Int
  PROVE  /\ (a + b) * r = a * r + b * r
         /\ (a - b) * r = a * r - b * r
         /\ a * r \in Int
         /\ (a >= 0 /\ r > 0) => a * r >= a
         /\ a >= 0 => a * r >= 0
         /\ a <= b => a * r <= b * r
  OBVIOUS

\* Rounding up loses nothing, and keeps the order.
LEMMA CeilDivEnough ==
  ASSUME NEW a \in Nat, NEW r \in Nat \ {0}
  PROVE  CeilDiv(a, r) \in Nat /\ CeilDiv(a, r) * r >= a
  BY DEF CeilDiv

LEMMA CeilDivMonotone ==
  ASSUME NEW a \in Nat, NEW b \in Nat, a <= b, NEW r \in Nat \ {0}
  PROVE  CeilDiv(a, r) <= CeilDiv(b, r)
  BY DEF CeilDiv

\* The least and the most a tick brings.
Least == Rate - Rounding
Most == Rate + Rounding

\* The amounts, in credits.
LEMMA Amounts ==
  /\ Rate \in Nat \ {0} /\ Rounding \in Nat /\ Token \in Nat \ {0}
  /\ Full \in Nat /\ Full >= Token /\ Full = Minute * Rate
  /\ LongestWait \in Nat /\ 2 * Rounding <= Rate
  /\ Least = Rate - Rounding /\ Least \in Nat /\ Most = Rate + Rounding /\ Most \in Nat \ {0}
  /\ MaxBack \in Nat /\ MaxElapsed \in Nat /\ Windows \subseteq Nat
<1>1. /\ MessagesPerMinute \in Nat \ {0} /\ Minute \in Nat \ {0} /\ Scale \in Nat \ {0}
      /\ Rounding \in Nat /\ MaxBack \in Nat
  BY LimiterAssumption
<1>2. Rate \in Nat \ {0} /\ Token \in Nat \ {0}
  <2>1. /\ MessagesPerMinute * Scale \in Int /\ MessagesPerMinute * Scale >= MessagesPerMinute
        /\ Minute * Scale \in Int /\ Minute * Scale >= Minute
    BY <1>1, Products
  <2> QED
    BY <1>1, <2>1 DEF Rate, Token
<1>3. Full \in Nat /\ Full >= Token
  <2>1. Full = MessagesPerMinute * Token
    BY DEF Full
  <2>2. 1 * Token <= MessagesPerMinute * Token /\ MessagesPerMinute * Token \in Int
    BY <1>1, <1>2, Products
  <2> QED
    BY <1>2, <2>1, <2>2
<1>4. Full = Minute * Rate
  BY <1>1 DEF Full, Token, Rate
<1>5. LongestWait \in Nat
  <2>1. MaxBack * Most \in Nat
    BY <1>1, <1>2, Products DEF Most
  <2>2. Token + MaxBack * Most + Rounding \in Nat
    BY <1>1, <1>2, <2>1
  <2> QED
    BY <1>2, <2>2, CeilDivEnough DEF LongestWait, Most
<1>6. 2 * Rounding <= Rate
  <2>1. 2 * Rounding <= (LongestWait + 2) * Rounding /\ (LongestWait + 2) * Rounding \in Int
    BY <1>1, <1>5, Products
  <2> QED
    BY <1>1, <1>2, <2>1, RoundingAssumption
<1> QED
  BY <1>1, <1>2, <1>3, <1>4, <1>5, <1>6, LimiterAssumption DEF MaxElapsed, Windows, Least, Most

\* What a wait for so many credits may come out as.
LEMMA WaitsEnough ==
  ASSUME NEW have \in Nat \ {0}, NEW w \in Waits(have)
  PROVE  /\ w \in Nat /\ w * Rate + Rounding >= have
         /\ \A most \in Nat : have + Rounding <= most => w <= CeilDiv(most, Rate)
<1>0. Rate \in Nat \ {0} /\ Rounding \in Nat
  BY Amounts
<1>1. PICK e \in (-Rounding)..Rounding : w = CeilDiv(Greater(1, have + e), Rate)
  BY DEF Waits
<1>2. /\ Greater(1, have + e) \in Nat /\ Greater(1, have + e) >= have - Rounding
      /\ Greater(1, have + e) <= have + Rounding
  BY <1>0 DEF Greater
<1>3. w \in Nat /\ w * Rate >= Greater(1, have + e)
  BY <1>0, <1>1, <1>2, CeilDivEnough
<1>4. w * Rate \in Int
  BY <1>0, <1>3, Products
<1>5. ASSUME NEW most \in Nat, have + Rounding <= most PROVE w <= CeilDiv(most, Rate)
  <2>1. Greater(1, have + e) <= most
    BY <1>0, <1>2, <1>5
  <2> QED
    BY <1>0, <1>1, <1>2, <2>1, CeilDivMonotone
<1> QED
  BY <1>0, <1>2, <1>3, <1>4, <1>5

-----------------------------------------------------------------------------

bucket == << credit, elapsed, backs, grants, promise >>

\* A refill without a token taken, by any call.
JustRefill ==
  /\ UNCHANGED << backs, grants >>
  /\ \E e \in Errors :
       /\ Refill(e)
       /\ \/ UNCHANGED promise
          \/ \E w \in WaitTimes(Refilled(e)) : promise' = IF w = 0 THEN 0 ELSE w + 1

\* What any step does to the bucket.
LEMMA Steps ==
  ASSUME [Next]_vars
  PROVE  \/ TakeToken /\ UNCHANGED backs
         \/ JustRefill
         \/ Tick
         \/ ClockSetBack
         \/ UNCHANGED bucket
<1>1. ASSUME NEW c \in Callers, Acquire(c) \/ Wake(c)
      PROVE  (TakeToken /\ UNCHANGED backs) \/ JustRefill
  BY <1>1 DEF Acquire, Wake, TryToAcquire, NoToken, JustRefill
<1>2. ASSUME NEW c \in Callers, DelayOver(c) \/ Abort(c) PROVE UNCHANGED bucket
  BY <1>2 DEF DelayOver, Abort, bucket
<1>3. CASE TryAcquire
  BY <1>3 DEF TryAcquire, NoToken, JustRefill
<1>4. CASE CanAcquire \/ TimeUntilAvailable
  BY <1>4 DEF CanAcquire, TimeUntilAvailable, JustRefill
<1>5. CASE UNCHANGED vars
  BY <1>5 DEF vars, bucket
<1> QED
  BY <1>1, <1>2, <1>3, <1>4, <1>5 DEF Next

\* What a step does to the calls of acquire() keeps their types.
LEMMA CallTypes ==
  ASSUME TypeOK, [Next]_vars
  PROVE  /\ humanLikeTiming' \in BOOLEAN
         /\ pc' \in [Callers -> {"idle", "polling", "delaying"}]
         /\ timer' \in [Callers -> Nat]
         /\ aborted' \in [Callers -> BOOLEAN]
<1>1. /\ pc \in [Callers -> {"idle", "polling", "delaying"}]
      /\ timer \in [Callers -> Nat] /\ aborted \in [Callers -> BOOLEAN]
  BY DEF TypeOK
<1>2. humanLikeTiming' \in BOOLEAN
  BY Zenon DEF TypeOK, Next, vars, calls, Acquire, Wake, DelayOver, Abort, TryAcquire, CanAcquire,
               TimeUntilAvailable, Tick, ClockSetBack
<1>3. Polls \subseteq Nat
  <2> SUFFICES ASSUME NEW w \in Waits(Token) PROVE Lesser(w, MaxPoll) \in Nat
    BY DEF Polls
  <2> QED
    BY Amounts, WaitsEnough, LimiterAssumption DEF Lesser
<1>4. ASSUME NEW c, NEW l \in {"idle", "polling", "delaying"}, NEW t \in Nat, Suspend(c, l, t)
      PROVE  /\ pc' \in [Callers -> {"idle", "polling", "delaying"}]
             /\ timer' \in [Callers -> Nat]
  BY <1>1, <1>4 DEF Suspend
<1>5. ASSUME NEW c \in Callers, TryToAcquire(c)
      PROVE  /\ pc' \in [Callers -> {"idle", "polling", "delaying"}]
             /\ timer' \in [Callers -> Nat]
  <2>1. CASE Return(c) \/ \E t \in Polls : Suspend(c, "polling", t)
    BY <1>3, <1>4, <2>1 DEF Return
  <2>2. ASSUME NEW t \in DelayMin..DelayMax, Suspend(c, "delaying", t)
        PROVE  /\ pc' \in [Callers -> {"idle", "polling", "delaying"}]
               /\ timer' \in [Callers -> Nat]
    BY <1>4, <2>2, LimiterAssumption
  <2> QED
    BY <1>5, <2>1, <2>2 DEF TryToAcquire
<1>6. ASSUME NEW c \in Callers, Acquire(c) \/ Wake(c)
      PROVE  /\ pc' \in [Callers -> {"idle", "polling", "delaying"}]
             /\ timer' \in [Callers -> Nat]
             /\ aborted' \in [Callers -> BOOLEAN]
  BY <1>1, <1>5, <1>6 DEF Acquire, Wake
<1>7. ASSUME NEW c \in Callers, DelayOver(c) \/ Abort(c)
      PROVE  /\ pc' \in [Callers -> {"idle", "polling", "delaying"}]
             /\ timer' \in [Callers -> Nat]
             /\ aborted' \in [Callers -> BOOLEAN]
  BY <1>1, <1>4, <1>7 DEF DelayOver, Abort, Return
<1>8. CASE Tick
  BY <1>1, <1>2, <1>8 DEF Tick
<1>9. CASE UNCHANGED calls
  BY <1>1, <1>2, <1>9 DEF calls
<1>10. CASE \/ TryAcquire \/ CanAcquire \/ TimeUntilAvailable \/ ClockSetBack
            \/ UNCHANGED vars
  BY <1>9, <1>10 DEF TryAcquire, CanAcquire, TimeUntilAvailable, ClockSetBack, vars
<1> QED
  BY <1>2, <1>6, <1>7, <1>8, <1>10 DEF Next

-----------------------------------------------------------------------------

\* The next refill, if it comes now, finds no less and no more than this.
Slip == IF elapsed = 0 THEN 0 ELSE Rounding
Lag == IF elapsed = 0 THEN 0 ELSE -Rounding
Low == credit + elapsed * Rate + Lag
High == credit + elapsed * Rate + Slip

\* The bucket in numbers.
LEMMA Numbers ==
  ASSUME credit \in Int, elapsed \in Int
  PROVE  /\ elapsed * Rate \in Int /\ Slip \in Nat /\ Slip <= Rounding
         /\ Lag \in Int /\ Lag <= 0 /\ Lag + Rounding >= 0
         /\ Low \in Int /\ High \in Int
         /\ \A e \in Errors : /\ Refilled(e) \in Int /\ Refilled(e) <= Full
                              /\ Refilled(e) >= Lesser(Full, Low)
                              /\ Refilled(e) <= Lesser(Full, High)
<1>1. elapsed * Rate \in Int /\ Rounding \in Nat /\ Full \in Nat
  BY Amounts, Products
<1>2. /\ Slip \in Nat /\ Slip <= Rounding
      /\ Lag \in Int /\ Lag <= 0 /\ Lag + Rounding >= 0
  BY <1>1 DEF Slip, Lag
<1> DEFINE p == elapsed * Rate
<1>3. ASSUME NEW e \in Errors
      PROVE  /\ Refilled(e) \in Int /\ Refilled(e) <= Full
             /\ Refilled(e) >= Lesser(Full, Low) /\ Refilled(e) <= Lesser(Full, High)
  <2>1. e \in Int /\ Lag <= e /\ e <= Slip
    BY <1>1 DEF Errors, Slip, Lag
  <2>2. /\ Refilled(e) = Lesser(Full, credit + p + e)
        /\ Low = credit + p + Lag /\ High = credit + p + Slip
    BY DEF Refilled, Low, High
  <2> HIDE DEF p
  <2> QED
    BY <1>1, <1>2, <2>1, <2>2 DEF Lesser, p
<1> QED
  BY <1>1, <1>2, <1>3 DEF Low, High

\* After a refill the next one finds exactly the credit.
LEMMA Settled ==
  ASSUME credit' \in Int, elapsed' = 0
  PROVE  Low' = credit' /\ High' = credit'
<1>1. 0 * Rate = 0
  BY Amounts
<1> QED
  BY <1>1 DEF Low, High, Slip, Lag

\* What a tick adds.
LEMMA Ticks ==
  ASSUME TypeOK, Tick
  PROVE  /\ credit' = credit /\ elapsed' \in Int /\ backs' = backs
         /\ elapsed' \in (-backs)..MaxElapsed
         /\ \/ elapsed' = elapsed + 1 /\ Low' >= Low + Least
            \/ elapsed' = MaxElapsed /\ Low' = Low
         /\ High' <= High + Most
<1>0. /\ credit \in Int /\ elapsed \in Int /\ elapsed \in (-backs)..MaxElapsed /\ backs \in Nat
      /\ Rate \in Nat \ {0} /\ Rounding \in Nat /\ MaxElapsed \in Nat
  BY Amounts DEF TypeOK
<1>1. /\ credit' = credit /\ backs' = backs /\ elapsed' = Lesser(MaxElapsed, elapsed + 1)
  BY DEF Tick
<1>2. elapsed' \in (-backs)..MaxElapsed /\ elapsed' \in Int
  BY <1>0, <1>1 DEF Lesser
<1>3. CASE elapsed' = elapsed + 1
  <2> DEFINE p == elapsed * Rate
             q == elapsed' * Rate
             low == Low'
             high == High'
             lag == Lag'
             slip == Slip'
  <2>1. p \in Int /\ q = p + Rate /\ q \in Int
    BY <1>0, <1>3, Products
  <2>2. /\ Low = credit + p + Lag /\ High = credit + p + Slip
        /\ low = credit + q + lag /\ high = credit + q + slip
    BY <1>1 DEF Low, High
  <2>3. /\ Slip \in Nat /\ Slip <= Rounding /\ slip \in Nat /\ slip <= Rounding
        /\ Lag \in Int /\ Lag <= 0 /\ Lag + Rounding >= 0
        /\ lag \in Int /\ lag <= 0 /\ lag + Rounding >= 0
    BY <1>0 DEF Slip, Lag
  <2>4. low >= Low + Least /\ high <= High + Most
    <3> HIDE DEF p, q, low, high, lag, slip
    <3> QED
      BY <1>0, <2>1, <2>2, <2>3, Amounts
  <2> QED
    BY <1>1, <1>2, <1>3, <2>4
<1>4. CASE elapsed' # elapsed + 1
  <2>1. elapsed' = elapsed /\ elapsed' = MaxElapsed
    BY <1>0, <1>1, <1>4 DEF Lesser
  <2>2. Low' = Low /\ High' = High
    BY <1>1, <2>1 DEF Low, High, Slip, Lag
  <2>3. High \in Int /\ Most \in Nat
    BY <1>0, Numbers, Amounts
  <2> QED
    BY <1>0, <1>1, <1>2, <2>1, <2>2, <2>3
<1> QED
  BY <1>3, <1>4

\* What a clock set back takes away.
LEMMA SetBacks ==
  ASSUME TypeOK, ClockSetBack
  PROVE  \E d \in Nat \ {0} :
           /\ credit' = credit /\ elapsed' = elapsed - d /\ backs' = backs + d
           /\ backs' \in 0..MaxBack
           /\ Low' >= Low - d * Most /\ High' <= High
<1>0. /\ credit \in Int /\ elapsed \in Int /\ backs \in 0..MaxBack
      /\ Rate \in Nat \ {0} /\ Rounding \in Nat /\ 2 * Rounding <= Rate /\ MaxBack \in Nat
  BY Amounts DEF TypeOK
<1>1. PICK d \in 1..(MaxBack - backs) : elapsed' = elapsed - d /\ backs' = backs + d
  BY DEF ClockSetBack
<1>2. credit' = credit /\ d \in Nat \ {0} /\ backs' \in 0..MaxBack
  BY <1>0, <1>1 DEF ClockSetBack
<1> DEFINE p == elapsed * Rate
           q == elapsed' * Rate
           low == Low'
           high == High'
           lag == Lag'
           slip == Slip'
           x == d * Rate
           y == d * Rounding
<1>3. p \in Int /\ q = p - x /\ x \in Int /\ x >= Rate /\ y \in Int /\ y >= Rounding
  <2>1. 1 * Rate <= d * Rate /\ 1 * Rounding <= d * Rounding
    BY <1>0, <1>2, Products
  <2> QED
    BY <1>0, <1>1, <1>2, <2>1, Products
<1>4. d * Most = x + y
  BY <1>0, <1>2 DEF Most
<1>5. /\ Low = credit + p + Lag /\ High = credit + p + Slip
      /\ low = credit + q + lag /\ high = credit + q + slip
  BY <1>2 DEF Low, High
<1>6. /\ Slip \in Nat /\ Slip <= Rounding /\ slip \in Nat /\ slip <= Rounding
        /\ Lag \in Int /\ Lag <= 0 /\ Lag + Rounding >= 0
        /\ lag \in Int /\ lag <= 0 /\ lag + Rounding >= 0
  BY <1>0 DEF Slip, Lag
<1>7. low >= Low - (x + y) /\ high <= High
  <2> HIDE DEF p, q, x, y, low, high, lag, slip
  <2> QED
    BY <1>0, <1>3, <1>5, <1>6
<1> QED
  BY <1>1, <1>2, <1>4, <1>7

-----------------------------------------------------------------------------

\* How far below zero clocks set back may have driven the bucket.
Debt == backs * Most

\* TypeOK is inductive once it is said that a refill may still come: the
\* bucket is below zero by no more than the clock was set back, counting the
\* ticks that lastRefill lies ahead.
TypeInv == TypeOK /\ Low + Debt >= 0

\* TypeInv holds initially and is kept by every step.
LEMMA TypeInvCorrect == Spec => []TypeInv
<1>1. Init => TypeInv
  <2> SUFFICES ASSUME Init PROVE TypeInv
    OBVIOUS
  <2>1. /\ Full \in Nat /\ 0 * Most = 0 /\ 0 * Rate = 0 /\ MaxElapsed \in Nat
        /\ MaxBack \in Nat
    BY Amounts
  <2>2. credit = Full /\ elapsed = 0 /\ backs = 0
    BY DEF Init
  <2>3. Debt = 0 /\ Low = Full
    BY <2>1, <2>2 DEF Debt, Low, Lag
  <2>4. credit \in (-Debt)..Full
    BY <2>1, <2>2, <2>3
  <2>5. TypeOK
    BY <2>1, <2>2, <2>4 DEF Init, TypeOK, Debt, Most
  <2> QED
    BY <2>1, <2>3, <2>5 DEF TypeInv
<1>2. ASSUME TypeInv, [Next]_vars PROVE TypeInv'
  <2>0. /\ credit \in Int /\ elapsed \in Int /\ backs \in 0..MaxBack /\ MaxBack \in Nat
        /\ grants \in [Windows -> Nat] /\ promise \in Nat \cup {-1} /\ Windows \subseteq Nat
        /\ Full \in Nat /\ Token \in Nat \ {0} /\ MaxElapsed \in Nat
        /\ Rate \in Nat \ {0} /\ Rounding \in Nat
        /\ elapsed \in (-backs)..MaxElapsed
    BY <1>2, Amounts DEF TypeInv, TypeOK
  <2>a. /\ Debt \in Nat /\ credit \in (-Debt)..Full /\ Low + Debt >= 0 /\ Low \in Int
    <3>1. Debt \in Nat
      BY <2>0, Amounts, Products DEF Debt
    <3> QED
      BY <1>2, <2>0, <3>1, Numbers DEF TypeInv, TypeOK, Debt, Most
  <2>b. \A e \in Errors : Refilled(e) \in (-Debt)..Full
    <3> SUFFICES ASSUME NEW e \in Errors PROVE Refilled(e) \in (-Debt)..Full
      OBVIOUS
    <3>1. /\ Refilled(e) \in Int /\ Refilled(e) <= Full /\ Refilled(e) >= Lesser(Full, Low)
      BY <2>0, Numbers
    <3> QED
      BY <2>0, <2>a, <3>1 DEF Lesser
  <2>c. ASSUME credit' \in (-Debt')..Full, elapsed' \in (-backs')..MaxElapsed,
               backs' \in 0..MaxBack, grants' \in [Windows -> Nat],
               promise' \in Nat \cup {-1}, Low' + Debt' >= 0
        PROVE  TypeInv'
    BY <1>2, <2>c, CallTypes DEF TypeInv, TypeOK, Debt, Most
  <2>1. CASE TakeToken /\ UNCHANGED backs
    <3>1. PICK e \in Errors : Refilled(e) >= Token /\ credit' = Refilled(e) - Token
      BY <2>1 DEF TakeToken
    <3>2. /\ elapsed' = 0 /\ backs' = backs /\ promise' = -1
          /\ grants' = [d \in Windows |-> grants[d] + 1] /\ Debt' = Debt
      BY <2>1 DEF TakeToken, Debt
    <3>3. grants' \in [Windows -> Nat]
      BY <2>0, <3>2
    <3>4. credit' \in 0..Full
      BY <2>0, <2>b, <3>1
    <3>5. credit' \in (-Debt')..Full /\ Low' + Debt' >= 0
      <4> DEFINE c == credit'
      <4>1. c \in 0..Full /\ Low' = c
        BY <3>2, <3>4, Settled
      <4>2. c \in (-Debt)..Full /\ c + Debt >= 0
        <5> HIDE DEF c
        <5> QED
          BY <2>0, <2>a, <4>1
      <4> QED
        BY <3>2, <4>1, <4>2, Zenon
    <3>6. elapsed' \in (-backs')..MaxElapsed
      BY <2>0, <3>2
    <3> QED
      BY <2>0, <2>c, <3>2, <3>3, <3>5, <3>6
  <2>2. CASE JustRefill
    <3>1. PICK e \in Errors :
            /\ credit' = Refilled(e) /\ elapsed' = 0
            /\ \/ promise' = promise
               \/ \E w \in WaitTimes(Refilled(e)) : promise' = IF w = 0 THEN 0 ELSE w + 1
      BY <2>2 DEF JustRefill, Refill
    <3>2. backs' = backs /\ grants' = grants /\ Debt' = Debt
      BY <2>2 DEF JustRefill, Debt
    <3>3. promise' \in Nat \cup {-1}
      <4>1. ASSUME NEW w \in WaitTimes(Refilled(e)) PROVE w \in Nat
        <5>1. CASE Refilled(e) >= Token
          BY <4>1, <5>1 DEF WaitTimes
        <5>2. CASE ~(Refilled(e) >= Token)
          <6>1. Token - Refilled(e) \in Nat \ {0} /\ w \in Waits(Token - Refilled(e))
            BY <2>0, <2>b, <4>1, <5>2 DEF WaitTimes
          <6> QED
            BY <6>1, WaitsEnough
        <5> QED
          BY <5>1, <5>2
      <4> QED
        BY <2>0, <3>1, <4>1
    <3>4. credit' \in (-Debt')..Full /\ Low' + Debt' >= 0
      <4> DEFINE c == credit'
      <4>1. c \in (-Debt)..Full
        BY <2>b, <3>1
      <4>2. Low' = c
        BY <2>0, <2>a, <3>1, <4>1, Settled
      <4>3. c + Debt >= 0
        <5> HIDE DEF c
        <5> QED
          BY <2>0, <2>a, <4>1
      <4> QED
        BY <3>2, <4>1, <4>2, <4>3, Zenon
    <3>5. elapsed' \in (-backs')..MaxElapsed
      BY <2>0, <3>1, <3>2
    <3> QED
      BY <2>0, <2>c, <3>2, <3>3, <3>4, <3>5
  <2>3. CASE Tick
    <3>1. /\ credit' = credit /\ backs' = backs /\ Debt' = Debt
          /\ grants' = [d \in Windows |-> IF d = 0 THEN 0 ELSE grants[d - 1]]
          /\ promise' = IF promise > 0 THEN promise - 1 ELSE promise
      BY <2>3 DEF Tick, Debt
    <3>2. grants' \in [Windows -> Nat]
      BY <2>0, <3>1, LimiterAssumption DEF Windows
    <3>3. promise' \in Nat \cup {-1}
      BY <2>0, <3>1
    <3>4. /\ elapsed' \in (-backs)..MaxElapsed /\ elapsed' \in Int
          /\ Low' >= Low + Least \/ Low' = Low
      BY <1>2, <2>3, Ticks DEF TypeInv
    <3>5. Low' + Debt' >= 0
      <4>1. Low' \in Int
        <5>1. credit' \in Int /\ elapsed' \in Int
          BY <2>0, <3>1, <3>4
        <5>2. elapsed' * Rate \in Int /\ Lag' \in Int
          BY <2>0, <5>1, Products DEF Lag
        <5> QED
          BY <5>1, <5>2 DEF Low
      <4> DEFINE l == Low'
      <4>2. l \in Int /\ (l >= Low + Least \/ l = Low)
        BY <3>4, <4>1
      <4>3. l + Debt >= 0
        <5> HIDE DEF l
        <5> QED
          BY <2>0, <2>a, <4>2, Amounts
      <4> QED
        BY <3>1, <4>3, Zenon
    <3> QED
      BY <2>0, <2>a, <2>c, <3>1, <3>2, <3>3, <3>4, <3>5
  <2>4. CASE ClockSetBack
    <3>1. PICK d \in Nat \ {0} :
            /\ credit' = credit /\ elapsed' = elapsed - d /\ backs' = backs + d
            /\ backs' \in 0..MaxBack /\ Low' >= Low - d * Most
      BY <1>2, <2>4, SetBacks DEF TypeInv
    <3>2. grants' = grants /\ promise' = -1
      BY <2>4 DEF ClockSetBack
    <3> DEFINE z == d * Most
    <3>3. Debt' = Debt + z /\ z \in Nat
      BY <2>0, <3>1, Amounts, Products DEF Debt
    <3>4. credit' \in (-Debt')..Full /\ Low' + Debt' >= 0
      <4>1. Low' \in Int
        <5>1. credit' \in Int /\ elapsed' \in Int
          BY <2>0, <3>1
        <5>2. elapsed' * Rate \in Int /\ Lag' \in Int
          BY <2>0, <5>1, Products DEF Lag
        <5> QED
          BY <5>1, <5>2 DEF Low
      <4> DEFINE l == Low'
      <4>2. l \in Int /\ l >= Low - z
        BY <3>1, <4>1
      <4>3. credit \in (-(Debt + z))..Full /\ l + (Debt + z) >= 0
        <5> HIDE DEF l, z
        <5> QED
          BY <2>0, <2>a, <3>3, <4>2
      <4> QED
        BY <3>1, <3>3, <4>3, Zenon
    <3>5. elapsed' \in (-backs')..MaxElapsed
      BY <2>0, <3>1
    <3> QED
      BY <2>0, <2>c, <3>1, <3>2, <3>4, <3>5
  <2>5. CASE UNCHANGED bucket
    <3>1. Low' = Low /\ Debt' = Debt
      BY <2>5 DEF bucket, Low, Lag, Debt
    <3> QED
      BY <2>0, <2>5, <2>a, <2>c, <3>1 DEF bucket
  <2> QED
    BY <1>2, <2>1, <2>2, <2>3, <2>4, <2>5, Steps
<1> QED
  BY <1>1, <1>2, PTL DEF Spec

\* No bucket owes more than clocks set back as far as they may be.
LEMMA Owed ==
  ASSUME TypeOK'
  PROVE  /\ backs' \in 0..MaxBack /\ MaxBack \in Nat
         /\ credit' \in Int /\ credit' >= -(backs' * Most)
         /\ backs' * Most <= MaxBack * Most
         /\ backs' * Most \in Int /\ MaxBack * Most \in Nat
<1> DEFINE b == backs'
           c == credit'
<1>1. b \in 0..MaxBack /\ c \in (-(b * Most))..Full
  BY DEF TypeOK, Most
<1>2. /\ b \in 0..MaxBack /\ MaxBack \in Nat
      /\ c \in Int /\ c >= -(b * Most)
      /\ b * Most <= MaxBack * Most
      /\ b * Most \in Int /\ MaxBack * Most \in Nat
  <2> HIDE DEF b, c
  <2>1. Most \in Nat /\ MaxBack \in Nat /\ b \in Int /\ b <= MaxBack /\ Full \in Nat
    BY <1>1, Amounts
  <2>2. b * Most <= MaxBack * Most /\ b * Most \in Int /\ MaxBack * Most \in Nat
    BY <2>1, Products
  <2> QED
    BY <1>1, <2>1, <2>2
<1> QED
  BY <1>2

\* Every reachable state has the right types; in particular the bucket is
\* never more than full.
THEOREM LimiterTypeCorrect == Spec => []TypeOK
<1>1. TypeInv => TypeOK
  BY DEF TypeInv
<1> QED
  BY <1>1, TypeInvCorrect, PTL

-----------------------------------------------------------------------------

\* The credits there would be now, at most, for a caller that asked.
Available == Greater(0, Lesser(Full, High))

\* What is inductive about the windows: a window's grants and the tokens that
\* are available now are together within the bound.
WindowInv ==
  \A d \in Windows : grants[d] * Token + Available <= Full + d * Most

\* No call, poll, abort or clock set back, in any order and by any number of
\* callers, and no rounding grants more than the bucket and the window's share
\* of tokens.
THEOREM GrantsBounded == Spec => []WindowBound
<1>0. /\ Most \in Nat \ {0} /\ Token \in Nat \ {0} /\ Full \in Nat /\ Windows \subseteq Nat
      /\ Rate \in Nat \ {0} /\ Rounding \in Nat
  BY Amounts
<1>1. \A d \in Nat : d * Most \in Nat /\ (d + 1) * Most = d * Most + Most
  BY <1>0, Products
<1>2. Init => WindowInv
  <2> SUFFICES ASSUME Init, NEW d \in Windows PROVE grants[d] * Token + Available <= Full + d * Most
    BY DEF WindowInv
  <2>1. grants[d] * Token = 0
    BY <1>0 DEF Init
  <2>2. Available <= Full /\ Available \in Nat
    <3>1. credit \in Int /\ elapsed \in Int
      BY <1>0 DEF Init
    <3>2. High \in Int
      BY <3>1, Numbers
    <3> QED
      BY <1>0, <3>2 DEF Available, Greater, Lesser
  <2> QED
    BY <1>0, <1>1, <2>1, <2>2
<1>3. ASSUME TypeOK, TypeOK', WindowInv, [Next]_vars PROVE WindowInv'
  <2>0. /\ credit \in Int /\ elapsed \in Int /\ grants \in [Windows -> Nat] /\ High \in Int
        /\ High' \in Int /\ credit' \in Int
    <3>1. credit \in Int /\ elapsed \in Int /\ grants \in [Windows -> Nat]
      BY <1>0, <1>3 DEF TypeOK
    <3>2. credit' \in Int /\ elapsed' \in Int
      BY <1>0, <1>3 DEF TypeOK
    <3>3. elapsed' * Rate \in Int /\ Slip' \in Int
      BY <1>0, <3>2, Products DEF Slip
    <3>4. High' \in Int
      BY <3>2, <3>3 DEF High
    <3> QED
      BY <3>1, <3>2, <3>4, Numbers
  <2>1. \A d \in Windows : grants[d] * Token \in Nat
                           /\ (grants[d] + 1) * Token = grants[d] * Token + Token
    BY <1>0, <2>0, Products
  <2>2. /\ Available \in Nat /\ Available = Greater(0, Lesser(Full, High))
        /\ Available' \in Nat /\ Available' = Greater(0, Lesser(Full, High'))
    BY <1>0, <2>0 DEF Available, Greater, Lesser
  <2> SUFFICES ASSUME NEW d \in Windows PROVE grants'[d] * Token + Available' <= Full + d * Most
    BY DEF WindowInv
  <2>3. grants[d] * Token + Available <= Full + d * Most
    BY <1>3 DEF WindowInv
  <2>4. CASE TakeToken
    <3>1. PICK e \in Errors : Refilled(e) >= Token /\ credit' = Refilled(e) - Token
      BY <2>4 DEF TakeToken
    <3>2. grants'[d] = grants[d] + 1 /\ elapsed' = 0
      BY <2>4 DEF TakeToken
    <3>3. Refilled(e) \in Int /\ Refilled(e) <= Lesser(Full, High) /\ High' = credit'
      BY <2>0, <3>2, Numbers, Settled
    <3>4. Available' + Token <= Available
      BY <1>0, <2>0, <2>2, <3>1, <3>3 DEF Greater, Lesser
    <3> QED
      BY <1>0, <1>1, <2>1, <2>2, <2>3, <3>2, <3>4
  <2>5. CASE JustRefill
    <3>1. PICK e \in Errors : credit' = Refilled(e) /\ elapsed' = 0
      BY <2>5 DEF JustRefill, Refill
    <3>2. Refilled(e) \in Int /\ Refilled(e) <= Lesser(Full, High) /\ High' = credit'
      BY <2>0, <3>1, Numbers, Settled
    <3>3. Available' <= Available /\ grants' = grants
      BY <1>0, <2>0, <2>2, <2>5, <3>1, <3>2 DEF Greater, Lesser, JustRefill
    <3> QED
      BY <1>0, <1>1, <2>1, <2>2, <2>3, <3>3
  <2>6. CASE Tick
    <3>1. Available' <= Available + Most /\ Available' <= Full
      <4>1. High' <= High + Most
        BY <1>3, <2>6, Ticks
      <4> QED
        BY <1>0, <2>0, <2>2, <4>1 DEF Greater, Lesser
    <3>2. CASE d = 0
      <4>1. grants'[d] * Token = 0 /\ d * Most = 0
        BY <1>0, <2>6, <3>2 DEF Tick
      <4> QED
        BY <1>0, <2>2, <3>1, <4>1
    <3>3. CASE d # 0
      <4>1. d - 1 \in Windows /\ d = (d - 1) + 1 /\ grants'[d] = grants[d - 1]
        BY <1>0, <2>6, <3>3, LimiterAssumption DEF Tick, Windows
      <4>2. grants[d - 1] * Token + Available <= Full + (d - 1) * Most
        BY <1>3, <4>1 DEF WindowInv
      <4> QED
        BY <1>0, <1>1, <2>1, <2>2, <3>1, <4>1, <4>2
    <3> QED
      BY <3>2, <3>3
  <2>7. CASE ClockSetBack
    <3>1. High' <= High /\ grants' = grants
      BY <1>3, <2>7, SetBacks DEF ClockSetBack
    <3>2. Available' <= Available
      BY <1>0, <2>0, <2>2, <3>1 DEF Greater, Lesser
    <3> QED
      BY <1>0, <1>1, <2>1, <2>2, <2>3, <3>1, <3>2
  <2>8. CASE UNCHANGED bucket
    BY <2>3, <2>8 DEF bucket, Available, High, Slip
  <2> QED
    BY <1>3, <2>4, <2>5, <2>6, <2>7, <2>8, Steps
<1>4. TypeOK /\ WindowInv => WindowBound
  <2> SUFFICES ASSUME TypeOK, WindowInv, NEW d \in Windows
               PROVE  grants[d] * Token <= Full + d * Most
    BY DEF WindowBound, Most
  <2>1. Available \in Nat /\ grants[d] * Token \in Nat
    <3>1. credit \in Int /\ elapsed \in Int /\ grants[d] \in Nat
      BY <1>0 DEF TypeOK
    <3>2. High \in Int
      BY <3>1, Numbers
    <3> QED
      BY <1>0, <3>1, <3>2, Products DEF Available, Greater, Lesser
  <2>2. grants[d] * Token + Available <= Full + d * Most
    BY DEF WindowInv
  <2> QED
    BY <1>0, <1>1, <2>1, <2>2
<1> QED
  BY <1>2, <1>3, <1>4, LimiterTypeCorrect, PTL DEF Spec

-----------------------------------------------------------------------------

\* What timeUntilAvailable() computed stays true as time passes: the ticks
\* left bring what is missing, though every tick may be rounded down once.
PromiseInv ==
  promise \in Nat => Low + promise * Least >= Token

\* Whoever sleeps a tick longer than timeUntilAvailable() returned finds a
\* token, unless one was taken or the clock was set back meanwhile, however
\* often the bucket is refilled in between.
THEOREM WaitIsEnough == Spec => []PromiseKept
<1>0. /\ Least \in Nat /\ Least = Rate - Rounding /\ Token \in Nat \ {0} /\ Full \in Nat /\ Full >= Token
      /\ Rate \in Nat \ {0} /\ Rounding \in Nat /\ LongestWait \in Nat
  BY Amounts
<1>1. Init => PromiseInv
  BY DEF Init, PromiseInv
<1>2. ASSUME TypeInv, TypeInv', PromiseInv, [Next]_vars PROVE PromiseInv'
  <2>0. /\ credit \in Int /\ elapsed \in Int /\ promise \in Nat \cup {-1} /\ Low \in Int
        /\ credit' \in Int /\ Low' \in Int
    <3>1. credit \in Int /\ elapsed \in Int /\ promise \in Nat \cup {-1}
      BY <1>2, Amounts DEF TypeInv, TypeOK
    <3>2. credit' \in Int /\ elapsed' \in Int
      BY <1>2, Amounts DEF TypeInv, TypeOK
    <3>3. elapsed' * Rate \in Int /\ Lag' \in Int
      BY <1>0, <3>2, Products DEF Lag
    <3> QED
      BY <3>1, <3>2, <3>3, Numbers DEF Low
  <2>1. CASE TakeToken
    BY <2>1 DEF TakeToken, PromiseInv
  <2>2. CASE JustRefill
    <3>1. PICK e \in Errors :
            /\ credit' = Refilled(e) /\ elapsed' = 0
            /\ \/ promise' = promise
               \/ \E w \in WaitTimes(Refilled(e)) : promise' = IF w = 0 THEN 0 ELSE w + 1
      BY <2>2 DEF JustRefill, Refill
    <3>2. /\ Refilled(e) \in Int /\ Refilled(e) >= Lesser(Full, Low) /\ Low' = credit'
      BY <2>0, <3>1, Numbers, Settled
    <3>3. CASE promise' = promise
      <4> SUFFICES ASSUME promise \in Nat PROVE Low' + promise * Least >= Token
        BY <3>3 DEF PromiseInv
      <4>1. promise * Least \in Nat /\ Low + promise * Least >= Token
        BY <1>0, <1>2, Products DEF PromiseInv
      <4> QED
        BY <1>0, <2>0, <3>1, <3>2, <4>1 DEF Lesser
    <3>4. ASSUME NEW w \in WaitTimes(Refilled(e)), promise' = IF w = 0 THEN 0 ELSE w + 1
          PROVE  PromiseInv'
      <4>1. CASE Refilled(e) >= Token
        <5>1. promise' = 0 /\ 0 * Least = 0
          BY <1>0, <3>4, <4>1 DEF WaitTimes
        <5> QED
          BY <1>0, <2>0, <3>1, <3>2, <4>1, <5>1 DEF PromiseInv
      <4>2. CASE ~(Refilled(e) >= Token)
        <5> DEFINE have == Refilled(e)
                   most == Token + MaxBack * Most + Rounding
        <5>1. Token - have \in Nat \ {0} /\ w \in Waits(Token - have)
          BY <1>0, <3>2, <3>4, <4>2 DEF WaitTimes
        <5>2. w \in Nat /\ w * Rate + Rounding >= Token - have
          BY <5>1, WaitsEnough
        <5>3. w <= LongestWait
          <6>1. backs' \in 0..MaxBack /\ MaxBack \in Nat /\ credit' >= -(backs' * Most)
            BY <1>2, Owed DEF TypeInv
          <6>2. /\ backs' * Most <= MaxBack * Most
                /\ backs' * Most \in Int /\ MaxBack * Most \in Nat
            BY <1>2, Owed DEF TypeInv
          <6>3. most \in Nat /\ (Token - have) + Rounding <= most
            <7> DEFINE x == backs' * Most
                       y == MaxBack * Most
            <7>1. x \in Int /\ y \in Nat /\ x <= y /\ have >= -x /\ have \in Int
              BY <3>1, <3>2, <6>1, <6>2
            <7>2. most = Token + y + Rounding
              OBVIOUS
            <7> HIDE DEF x, y, have, most
            <7> QED
              BY <1>0, <7>1, <7>2
          <6>4. w <= CeilDiv(most, Rate)
            <7> HIDE DEF most, have
            <7> QED
              BY <5>1, <6>3, WaitsEnough
          <6> QED
            BY <6>4 DEF LongestWait, Most
        <5>4. w * Rounding + 2 * Rounding <= Rate
          <6>1. (w + 2) * Rounding <= (LongestWait + 2) * Rounding
            BY <1>0, <5>2, <5>3, Products
          <6>2. /\ (w + 2) * Rounding = w * Rounding + 2 * Rounding
                /\ (w + 2) * Rounding \in Int /\ (LongestWait + 2) * Rounding \in Int
            BY <1>0, <5>2, Products
          <6> QED
            BY <1>0, <6>1, <6>2, RoundingAssumption
        <5>5. w # 0
          <6>1. CASE w = 0
            <7>1. 0 * Rate = 0
              BY <1>0
            <7>2. PICK i \in (-Rounding)..Rounding :
                    w = CeilDiv(Greater(1, Token - have + i), Rate)
              BY <5>1 DEF Waits
            <7>3. Greater(1, Token - have + i) \in Nat /\ Greater(1, Token - have + i) >= 1
              BY <1>0, <5>1 DEF Greater
            <7>4. w * Rate >= Greater(1, Token - have + i)
              BY <1>0, <7>2, <7>3, CeilDivEnough
            <7> QED
              BY <6>1, <7>1, <7>3, <7>4
          <6> QED
            BY <6>1
        <5>6. (w + 1) * Least = w * Rate - w * Rounding + Rate - Rounding
          BY <1>0, <5>2
        <5>7. have + (w + 1) * Least >= Token
          <6> DEFINE x == w * Rate
                     y == w * Rounding
          <6>1. x \in Int /\ y \in Int
            BY <1>0, <5>2, Products
          <6>2. /\ x + Rounding >= Token - have /\ y + 2 * Rounding <= Rate
                /\ (w + 1) * Least = x - y + Rate - Rounding
            BY <5>2, <5>4, <5>6
          <6>3. have \in Int
            BY <3>2
          <6> HIDE DEF x, y, have
          <6> QED
            BY <1>0, <6>1, <6>2, <6>3
        <5> QED
          BY <3>1, <3>2, <3>4, <5>5, <5>7 DEF PromiseInv
      <4> QED
        BY <4>1, <4>2
    <3> QED
      BY <3>1, <3>3, <3>4
  <2>3. CASE Tick
    <3>1. /\ credit' = credit
          /\ promise' = IF promise > 0 THEN promise - 1 ELSE promise
      BY <2>3 DEF Tick
    <3> SUFFICES ASSUME promise' \in Nat PROVE Low' + promise' * Least >= Token
      BY DEF PromiseInv
    <3>2. promise \in Nat /\ (promise' = promise \/ promise' = promise - 1)
      BY <2>0, <3>1
    <3>3. Low + promise * Least >= Token /\ promise * Least \in Nat /\ promise' * Least \in Nat
      <4>1. \A a \in Nat : a * Least \in Nat
        BY <1>0, Products
      <4> QED
        BY <1>2, <3>2, <4>1, Zenon DEF PromiseInv
    <3>4. \/ Low' >= Low + Least
          \/ elapsed' = MaxElapsed /\ Low' = Low
      BY <1>2, <2>3, Ticks DEF TypeInv
    <3>5. CASE Low' >= Low + Least
      <4>1. promise * Least <= promise' * Least + Least
        <5>1. ASSUME NEW a \in Nat, NEW b \in Nat, a <= b + 1
              PROVE  a * Least <= b * Least + Least
          <6>1. a * Least <= (b + 1) * Least /\ (b + 1) * Least = b * Least + 1 * Least
            BY <1>0, <5>1, Products
          <6> QED
            BY <1>0, <6>1
        <5> QED
          BY <3>2, <5>1
      <4> DEFINE l == Low'
                 a == promise * Least
                 b == promise' * Least
      <4>2. l \in Int /\ l >= Low + Least /\ a <= b + Least /\ a \in Nat /\ b \in Nat
        BY <2>0, <3>3, <3>5, <4>1
      <4>3. l + b >= Token
        <5>1. Low + a >= Token
          BY <3>3
        <5> HIDE DEF l, a, b
        <5> QED
          BY <1>0, <2>0, <4>2, <5>1
      <4> QED
        BY <4>3
    <3>6. CASE elapsed' = MaxElapsed /\ Low' = Low
      <4>0. /\ Minute \in Nat \ {0} /\ MaxBack \in Nat /\ backs' \in 0..MaxBack
            /\ credit' >= -(backs' * Most) /\ 2 * Rounding <= Rate
        BY <1>2, Owed, Amounts, LimiterAssumption DEF TypeInv
      <4> DEFINE x == backs' * Most
                 y == MaxBack * Rate
                 z == MaxBack * Rounding
      <4>1. /\ x \in Int /\ y \in Int /\ z \in Int /\ x <= y + z /\ z <= y /\ z >= 0
        <5>1. x <= MaxBack * Most /\ x \in Int
          BY <1>2, Owed DEF TypeInv
        <5>2. MaxBack * Most = y + z /\ y \in Int /\ z \in Int /\ z >= 0
          <6>1. y \in Int /\ z \in Int /\ z >= 0
            BY <1>0, <4>0, Products
          <6>2. MaxBack * Most = y + z
            BY <1>0, <4>0 DEF Most
          <6> QED
            BY <6>1, <6>2
        <5>3. z <= y
          <6>1. /\ Rounding * MaxBack <= Rate * MaxBack
            BY <1>0, <4>0, Products
          <6> QED
            BY <1>0, <4>0, <6>1
        <5> QED
          BY <5>1, <5>2, <5>3
      <4>2. elapsed' * Rate = Full + 2 * y + 2 * Rate
        <5>1. (Minute + 2 * MaxBack + 2) * Rate = Minute * Rate + 2 * (MaxBack * Rate) + 2 * Rate
          BY <1>0, <4>0
        <5> QED
          BY <3>6, <5>1, Amounts DEF MaxElapsed
      <4>3. Lag' \in Int /\ Lag' + Rounding >= 0
        BY <1>0 DEF Lag
      <4> DEFINE l == Low'
                 c == credit'
                 g == Lag'
      <4>4. /\ l = c + (Full + 2 * y + 2 * Rate) + g /\ c >= -x /\ c \in Int
            /\ g \in Int /\ g + Rounding >= 0
        BY <2>0, <4>0, <4>2, <4>3 DEF Low
      <4>5. l >= Token
        <5> HIDE DEF x, y, z, l, c, g
        <5> QED
          BY <1>0, <4>0, <4>1, <4>4
      <4> QED
        <5> DEFINE b == promise' * Least
        <5>1. l \in Int /\ b \in Nat
          BY <2>0, <3>3
        <5>2. l + b >= Token
          <6> HIDE DEF l, b
          <6> QED
            BY <1>0, <4>5, <5>1
        <5> QED
          BY <5>2
    <3> QED
      BY <3>4, <3>5, <3>6
  <2>4. CASE ClockSetBack
    BY <2>4 DEF ClockSetBack, PromiseInv
  <2>5. CASE UNCHANGED bucket
    BY <1>2, <2>5 DEF bucket, PromiseInv, Low, Lag
  <2> QED
    BY <1>2, <2>1, <2>2, <2>3, <2>4, <2>5, Steps
<1>3. TypeInv /\ PromiseInv => PromiseKept
  <2> SUFFICES ASSUME TypeInv, PromiseInv, promise = 0, NEW e \in Errors
               PROVE  Refilled(e) >= Token
    BY DEF PromiseKept
  <2>1. credit \in Int /\ elapsed \in Int
    BY Amounts DEF TypeInv, TypeOK
  <2>2. Low \in Int /\ Refilled(e) \in Int /\ Refilled(e) >= Lesser(Full, Low)
    BY <2>1, Numbers
  <2>3. Low >= Token
    <3>1. 0 * Least = 0 /\ Low + 0 * Least >= Token
      BY <1>0 DEF PromiseInv
    <3> QED
      BY <2>2, <3>1
  <2> QED
    BY <1>0, <2>2, <2>3 DEF Lesser
<1> QED
  BY <1>1, <1>2, <1>3, TypeInvCorrect, PTL DEF Spec

-----------------------------------------------------------------------------
(***************************************************************************)
(* The circuit breaker, for every threshold, window, cooldowns and number  *)
(* of trips: what it forgets when it closes, and that it implements its    *)
(* description without a clock.                                            *)
(***************************************************************************)

\* A power of two is the number of subsets of a set, so it is positive.
LEMMA PowersPositive ==
  ASSUME NEW k \in Nat
  PROVE  2 ^ k \in Nat \ {0}
<1>1. IsFiniteSet(1..k) /\ Cardinality(1..k) = k
  BY FS_Interval
<1>2. IsFiniteSet(SUBSET (1..k)) /\ Cardinality(SUBSET (1..k)) = 2 ^ k
  BY <1>1, FS_SUBSET
<1>3. Cardinality(SUBSET (1..k)) \in Nat
  BY <1>2, FS_CardinalityType
<1>4. SUBSET (1..k) # {}
  OBVIOUS
<1>5. Cardinality(SUBSET (1..k)) # 0
  BY <1>2, <1>4, FS_EmptySet
<1> QED
  BY <1>2, <1>3, <1>5

\* Min and Max of two numbers.
LEMMA MinMaxOfTwo ==
  ASSUME NEW a \in Int, NEW b \in Int
  PROVE  /\ Min({a, b}) = IF a <= b THEN a ELSE b
         /\ Max({a, b}) = IF a >= b THEN a ELSE b
  BY DEF Min, Max

\* What recordFailure() keeps: the newest k, the last of them first.
LEMMA NewestKept ==
  ASSUME NEW fs \in Seq(Nat), NEW k \in Nat
  PROVE  /\ Newest(fs, k) \in Seq(Nat)
         /\ Len(Newest(fs, k)) = IF Len(fs) <= k THEN Len(fs) ELSE k
<1>1. Len(fs) \in Nat
  OBVIOUS
<1> DEFINE b == Len(fs) - k + 1
           m == IF Len(fs) <= k THEN 1 ELSE b
<1>2. b \in Int /\ m \in 1..(Len(fs) + 1)
  BY <1>1
<1>3. Max({1, b}) = m
  <2>1. 1 >= b <=> (Len(fs) <= k)
    BY <1>1
  <2> HIDE DEF b
  <2> QED
    <3>1. \A a \in Int : Max({a, b}) = IF a >= b THEN a ELSE b
      BY <1>2, MinMaxOfTwo
    <3>2. Max({1, b}) = IF 1 >= b THEN 1 ELSE b
      BY <3>1
    <3> QED
      BY <2>1, <3>2
<1>4. Newest(fs, k) = SubSeq(fs, m, Len(fs))
  BY <1>3 DEF Newest
<1>5. SubSeq(fs, m, Len(fs)) \in Seq(Nat) /\ Len(SubSeq(fs, m, Len(fs))) = Len(fs) - m + 1
  <2> HIDE DEF m
  <2> QED
    BY <1>1, <1>2
<1>6. Len(fs) - m + 1 = IF Len(fs) <= k THEN Len(fs) ELSE k
  BY <1>1
<1> HIDE DEF m
<1> QED
  BY <1>4, <1>5, <1>6

LEMMA Cooldowns ==
  ASSUME NEW k \in Nat \ {0}
  PROVE  CooldownOfTrip(k) \in 1..MaxCooldown
<1>1. 2 ^ (k - 1) \in Nat \ {0}
  BY PowersPositive
<1> DEFINE c == BaseCooldown * 2 ^ (k - 1)
<1>2. c \in Nat \ {0}
  BY <1>1, CircuitBreakerAssumption
<1>3. MaxCooldown \in Nat \ {0}
  BY CircuitBreakerAssumption
<1>4. CooldownOfTrip(k) = IF c <= MaxCooldown THEN c ELSE MaxCooldown
  <2> HIDE DEF c
  <2>1. Min({c, MaxCooldown}) = IF c <= MaxCooldown THEN c ELSE MaxCooldown
    BY <1>2, <1>3, MinMaxOfTwo
  <2> QED
    BY <2>1 DEF c, CooldownOfTrip
<1> HIDE DEF c
<1> QED
  BY <1>2, <1>3, <1>4

-----------------------------------------------------------------------------
\* What the breaker has recorded: below the threshold when it is closed, for
\* at the threshold it trips, and no other way leads back than a success or a
\* reset, which forget.
Recorded ==
  /\ state \in {"closed", "open", "half-open"}
  /\ failures \in Seq(Nat) /\ Len(failures) <= FailureThreshold
  /\ state = "closed" => Len(failures) < FailureThreshold
  /\ openAge \in Nat

\* How long it cools down, and since how many trips.
Cooling ==
  /\ consecutiveTrips \in Nat
  /\ EscalationTracksTrips

BreakerInv == Recorded /\ Cooling

LEMMA CountBelowLength ==
  ASSUME Recorded
  PROVE  FreshFailures \in 0..Len(failures)
<1> DEFINE fresh == {i \in DOMAIN failures : Fresh(failures[i])}
<1>1. Len(failures) \in Nat /\ DOMAIN failures = 1..Len(failures)
  BY DEF Recorded
<1>2. fresh \in SUBSET (1..Len(failures))
  BY <1>1
<1>3. IsFiniteSet(1..Len(failures)) /\ Cardinality(1..Len(failures)) = Len(failures)
  <2> DEFINE n == Len(failures)
  <2>1. n \in Nat
    BY <1>1
  <2> HIDE DEF n
  <2>2. IsFiniteSet(1..n) /\ Cardinality(1..n) = n
    BY <2>1, FS_Interval
  <2> QED
    BY <2>2 DEF n
<1>6. FreshFailures = Cardinality(fresh)
  BY DEF FreshFailures
<1> HIDE DEF fresh
<1>4. Cardinality(fresh) <= Len(failures) /\ IsFiniteSet(fresh)
  BY <1>2, <1>3, FS_Subset
<1>5. Cardinality(fresh) \in Nat
  BY <1>4, FS_CardinalityType
<1> QED
  BY <1>1, <1>4, <1>5, <1>6

LEMMA BreakerInvInit ==
  ASSUME BreakerInit
  PROVE  BreakerInv
BY CircuitBreakerAssumption DEF BreakerInit, BreakerInv, Recorded, Cooling,
       EscalationTracksTrips

\* A trip: one more, up to MaxTrips, with its cooldown.
LEMMA TripSteps ==
  ASSUME BreakerInv, DoTrip
  PROVE  /\ Cooling'
         /\ state' = "open" /\ openAge' = 0 /\ cooldown' \in 1..MaxCooldown
<1>1. consecutiveTrips \in Nat /\ MaxTrips \in Nat \ {0}
  BY CircuitBreakerAssumption DEF BreakerInv, Cooling
<1>2. consecutiveTrips' \in Nat \ {0}
  <2>1. consecutiveTrips' = IF consecutiveTrips + 1 <= MaxTrips THEN consecutiveTrips + 1 ELSE MaxTrips
    <3>1. consecutiveTrips' = Min({consecutiveTrips + 1, MaxTrips})
      BY DEF DoTrip
    <3> QED
      BY <1>1, <3>1, MinMaxOfTwo
  <2> QED
    BY <1>1, <2>1
<1>3. cooldown' = CooldownOfTrip(consecutiveTrips') /\ state' = "open" /\ openAge' = 0
  BY DEF DoTrip
<1>4. cooldown' \in 1..MaxCooldown
  BY <1>2, <1>3, Cooldowns
<1>5. Cooling'
  <2>1. CooldownOfTrip(consecutiveTrips)' = CooldownOfTrip(consecutiveTrips')
    BY DEF CooldownOfTrip
  <2> QED
    BY <1>2, <1>3, <2>1 DEF Cooling, EscalationTracksTrips
<1> QED
  BY <1>3, <1>4, <1>5

\* recordFailure() keeps at most FailureThreshold failures, this one among
\* them, and trips when half-open or at the threshold.
LEMMA FailureSteps ==
  ASSUME BreakerInv, RecordFailure
  PROVE  /\ failures' \in Seq(Nat) /\ Len(failures') \in 1..FailureThreshold
         /\ Len(failures') <= Len(failures) + 1
         /\ IF state = "half-open" \/ Len(failures') >= FailureThreshold
            THEN DoTrip
            ELSE UNCHANGED << state, cooldown, openAge, consecutiveTrips >>
<1>1. /\ failures \in Seq(Nat) /\ Len(failures) \in Nat
      /\ FailureThreshold \in Nat \ {0}
  BY CircuitBreakerAssumption DEF BreakerInv, Recorded
<1>2. FreshFailures \in Nat /\ FreshFailures <= Len(failures)
  BY <1>1, CountBelowLength DEF BreakerInv
<1> DEFINE kept == Newest(failures, FreshFailures)
           recent == Append(kept, 0)
<1>3. kept \in Seq(Nat) /\ Len(kept) <= Len(failures)
  BY <1>1, <1>2, NewestKept
<1>4. /\ failures' = Newest(recent, FailureThreshold)
      /\ IF Trips(recent) THEN DoTrip
         ELSE UNCHANGED << state, cooldown, openAge, consecutiveTrips >>
  BY DEF RecordFailure
<1> HIDE DEF kept
<1>5. recent \in Seq(Nat) /\ Len(recent) = Len(kept) + 1 /\ Len(kept) \in Nat
  BY <1>3
<1> HIDE DEF recent
<1>6. /\ failures' \in Seq(Nat)
      /\ Len(failures') = IF Len(recent) <= FailureThreshold THEN Len(recent) ELSE FailureThreshold
  BY <1>1, <1>4, <1>5, NewestKept
<1>7. Trips(recent) <=> state = "half-open" \/ Len(failures') >= FailureThreshold
  BY <1>1, <1>5, <1>6 DEF Trips
<1> QED
  BY <1>1, <1>3, <1>4, <1>5, <1>6, <1>7

LEMMA BreakerInvNext ==
  ASSUME BreakerInv, [BreakerNext]_breakerVars
  PROVE  BreakerInv'
<1>0. FailureThreshold \in Nat \ {0} /\ FailureWindow \in Nat /\ MaxCooldown \in Nat
  BY CircuitBreakerAssumption
<1>1. CASE RecordFailure
  <2>1. CASE state = "half-open" \/ Len(failures') >= FailureThreshold
    BY <1>0, <1>1, <2>1, FailureSteps, TripSteps DEF BreakerInv, Recorded
  <2>2. CASE ~(state = "half-open" \/ Len(failures') >= FailureThreshold)
    <3>1. UNCHANGED << state, cooldown, openAge, consecutiveTrips >>
      BY <1>1, <2>2, FailureSteps
    <3>2. Cooling'
      BY <3>1 DEF BreakerInv, Cooling, EscalationTracksTrips, CooldownOfTrip
    <3> QED
      BY <1>0, <1>1, <2>2, <3>1, <3>2, FailureSteps DEF BreakerInv, Recorded
  <2> QED
    BY <2>1, <2>2
<1>2. CASE RecordSuccess \/ Reset
  <2>1. /\ state' = "closed" /\ failures' = << >> /\ openAge' = openAge
        /\ consecutiveTrips' = 0 /\ cooldown' = BaseCooldown
    BY <1>2 DEF RecordSuccess, Reset, Forget
  <2> QED
    BY <1>0, <2>1 DEF BreakerInv, Recorded, Cooling, EscalationTracksTrips
<1>3. CASE Trip
  <2>1. DoTrip /\ failures' = failures
    BY <1>3 DEF Trip
  <2> QED
    BY <2>1, TripSteps DEF BreakerInv, Recorded
<1>4. CASE ReadState
  BY <1>4 DEF ReadState, BreakerInv, Recorded, Cooling, EscalationTracksTrips,
              CooldownOfTrip
<1>5. CASE BreakerTick
  <2>1. /\ UNCHANGED << state, cooldown, consecutiveTrips >>
        /\ openAge' = Min({openAge + 1, MaxCooldown})
        /\ failures' = [i \in DOMAIN failures |-> Min({failures[i] + 1, FailureWindow})]
    BY <1>5 DEF BreakerTick
  <2>2. failures' \in Seq(Nat) /\ Len(failures') = Len(failures)
    <3>1. /\ failures \in Seq(Nat) /\ DOMAIN failures = 1..Len(failures) /\ Len(failures) \in Nat
          /\ \A i \in DOMAIN failures : failures[i] \in Nat
      BY DEF BreakerInv, Recorded
    <3>2. \A i \in DOMAIN failures : Min({failures[i] + 1, FailureWindow}) \in Nat
      BY <1>0, <3>1, MinMaxOfTwo
    <3> QED
      BY <2>1, <3>1, <3>2
  <2>3. openAge' \in Nat
    <3>1. openAge + 1 \in Nat
      BY DEF BreakerInv, Recorded
    <3> QED
      BY <1>0, <2>1, <3>1, MinMaxOfTwo
  <2> QED
    BY <2>1, <2>2, <2>3 DEF BreakerInv, Recorded, Cooling, EscalationTracksTrips,
                           CooldownOfTrip
<1>6. CASE UNCHANGED breakerVars
  BY <1>6 DEF breakerVars, BreakerInv, Recorded, Cooling, EscalationTracksTrips,
              CooldownOfTrip
<1> QED
  BY <1>1, <1>2, <1>3, <1>4, <1>5, <1>6 DEF BreakerNext

\* A breaker that closes has forgotten all that would trip it at once or keep
\* it open longer, and one that has not closed has forgotten nothing, for any
\* threshold, window, cooldowns and number of trips (circuit-breaker.ts).
THEOREM BreakerForgets == BreakerSpec => []ForgetsWhenClosed
<1>1. BreakerInv => ForgetsWhenClosed
  <2> SUFFICES ASSUME BreakerInv PROVE BelowThreshold /\ EscalationTracksTrips
    BY DEF ForgetsWhenClosed
  <2>1. FreshFailures \in 0..Len(failures)
    BY CountBelowLength DEF BreakerInv
  <2>2. Len(failures) \in Nat /\ FailureThreshold \in Nat
    BY CircuitBreakerAssumption DEF BreakerInv, Recorded
  <2> QED
    BY <2>1, <2>2 DEF BreakerInv, Recorded, Cooling, BelowThreshold
<1> QED
  BY <1>1, BreakerInvInit, BreakerInvNext, PTL DEF BreakerSpec

-----------------------------------------------------------------------------
\* What UntimedBreaker calls cooled.
Cooled == state = "open" /\ openAge >= cooldown

LEMMA UntimedInit ==
  ASSUME BreakerInit
  PROVE  Untimed!Init
BY DEF BreakerInit, Untimed!Init

\* Each operation of the breaker is the one of the same name, or none; the
\* passing of a tick is the end of the cooldown, or nothing.
LEMMA UntimedNext ==
  ASSUME BreakerInv, [BreakerNext]_breakerVars
  PROVE  [Untimed!Next]_(Untimed!vars)
<1>0. FailureThreshold \in Nat \ {0} /\ Len(failures) \in Nat
  BY CircuitBreakerAssumption DEF BreakerInv, Recorded
<1>1. ASSUME DoTrip PROVE Untimed!Open
  <2>1. state' = "open" /\ openAge' = 0 /\ cooldown' \in 1..MaxCooldown
    BY <1>1, TripSteps
  <2> QED
    BY <2>1 DEF Untimed!Open
<1>2. CASE RecordFailure
  <2> DEFINE count == Len(failures')
  <2>1. count \in 1..FailureThreshold /\ count <= Len(failures) + 1
    BY <1>2, FailureSteps
  <2>2. IF state = "half-open" \/ count >= FailureThreshold
        THEN Untimed!Open
        ELSE UNCHANGED << state, state = "open" /\ openAge >= cooldown >>
    <3>1. IF state = "half-open" \/ count >= FailureThreshold
          THEN DoTrip
          ELSE UNCHANGED << state, cooldown, openAge, consecutiveTrips >>
      BY <1>2, FailureSteps
    <3> QED
      BY <1>1, <3>1
  <2>3. Untimed!RecordFailure
    BY <2>1, <2>2 DEF Untimed!RecordFailure
  <2> QED
    BY <2>3 DEF Untimed!Next
<1>3. CASE RecordSuccess \/ Reset
  <2>1. state' = "closed" /\ failures' = << >>
    BY <1>3 DEF RecordSuccess, Reset, Forget
  <2>2. Untimed!Close
    BY <2>1 DEF Untimed!Close
  <2> QED
    BY <2>2 DEF Untimed!Next
<1>4. CASE Trip
  <2>1. Untimed!Trip
    BY <1>1, <1>4 DEF Trip, Untimed!Trip
  <2> QED
    BY <2>1 DEF Untimed!Next
<1>5. CASE ReadState
  <2>1. Untimed!ReadState
    BY <1>5 DEF ReadState, Untimed!ReadState
  <2> QED
    BY <2>1 DEF Untimed!Next
<1>6. CASE BreakerTick
  <2>1. UNCHANGED << state, cooldown >> /\ Len(failures') = Len(failures)
    <3>1. /\ failures \in Seq(Nat) /\ DOMAIN failures = 1..Len(failures)
          /\ failures' = [i \in DOMAIN failures |-> Min({failures[i] + 1, FailureWindow})]
      BY <1>6 DEF BreakerTick, BreakerInv, Recorded
    <3> QED
      BY <1>0, <1>6, <3>1 DEF BreakerTick
  <2>2. Cooled => Cooled'
    <3>1. /\ openAge \in Nat /\ MaxCooldown \in Nat
          /\ openAge' = Min({openAge + 1, MaxCooldown})
      BY <1>6, CircuitBreakerAssumption DEF BreakerTick, BreakerInv, Recorded
    <3>2. state = "open" => cooldown \in 1..MaxCooldown
      <4>1. state = "open" => consecutiveTrips \in Nat \ {0}
                              /\ cooldown = CooldownOfTrip(consecutiveTrips)
        BY DEF BreakerInv, Cooling, EscalationTracksTrips
      <4> QED
        BY <4>1, Cooldowns
    <3>3. openAge' = IF openAge + 1 <= MaxCooldown THEN openAge + 1 ELSE MaxCooldown
      BY <3>1, MinMaxOfTwo
    <3> QED
      BY <2>1, <3>1, <3>2, <3>3 DEF Cooled
  <2>3. CASE Cooled' = Cooled
    BY <2>1, <2>3 DEF Cooled, Untimed!vars
  <2>4. CASE Cooled' # Cooled
    <3>1. ~Cooled /\ Cooled'
      BY <2>2, <2>4 DEF Cooled
    <3>2. Untimed!CooldownElapses
      BY <2>1, <3>1 DEF Cooled, Untimed!CooldownElapses
    <3> QED
      BY <3>2 DEF Untimed!Next
  <2> QED
    BY <2>3, <2>4
<1>7. CASE UNCHANGED breakerVars
  BY <1>7 DEF breakerVars, Untimed!vars
<1> QED
  BY <1>2, <1>3, <1>4, <1>5, <1>6, <1>7 DEF BreakerNext

\* The breaker with its clock implements its description without one, which
\* Connection uses, for any threshold, window and cooldowns.
THEOREM BreakerRefines == BreakerSpec => Implements
<1>1. BreakerInit => Untimed!Init
  BY UntimedInit
<1>2. BreakerInv /\ [BreakerNext]_breakerVars => [Untimed!Next]_(Untimed!vars)
  BY UntimedNext
<1> QED
  BY <1>1, <1>2, BreakerInvInit, BreakerInvNext, PTL
  DEF BreakerSpec, Implements, Untimed!Spec

=============================================================================
