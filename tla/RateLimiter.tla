------------------------------ MODULE RateLimiter ------------------------------
(***************************************************************************)
(* The token bucket of the message queue (queue/rate-limiter.ts): tokens   *)
(* are added from the wall clock whenever somebody asks, acquire() polls   *)
(* for one and then waits a human-like delay.                              *)
(*                                                                         *)
(* The source counts tokens in floating-point fractions, messagesPerMinute *)
(* / 60000 of them per millisecond.  Here a minute has Minute ticks, a     *)
(* token is Minute * Scale credits, so that a tick adds MessagesPerMinute  *)
(* * Scale of them, and every result that the source computes from a       *)
(* fraction may be off by up to Rounding credits, either way.              *)
(*                                                                         *)
(* Date.now() may be set back: then lastRefill lies in the future and the  *)
(* next refill takes tokens away, below zero.                              *)
(***************************************************************************)
EXTENDS Integers

CONSTANTS
  Callers,            \* concurrent calls of acquire()
  MessagesPerMinute,  \* maxTokens
  Minute,             \* 60000 ms
  Scale,              \* credits that make a tick's share of one message per minute
  Rounding,           \* the error of a floating-point result, in credits
  MaxPoll,            \* 1000 ms, the longest sleep between two polls
  DelayMin, DelayMax, \* 500 and 5000 ms, the clamp of gaussianDelay()
  MaxBack,            \* bound: the ticks the clock is set back, all together
  Horizon             \* the longest window in which grants are counted

ASSUME LimiterAssumption ==
  /\ MessagesPerMinute \in Nat \ {0} /\ Minute \in Nat \ {0}
  /\ Scale \in Nat \ {0} /\ Rounding \in Nat
  /\ MaxPoll \in Nat \ {0}
  /\ DelayMin \in Nat /\ DelayMax \in Nat /\ DelayMin <= DelayMax
  /\ MaxBack \in Nat /\ Horizon \in Nat

\* A token, and what a tick adds, in credits.
Token == Minute * Scale
Rate == MessagesPerMinute * Scale

\* Math.ceil(a / b).
CeilDiv(a, b) == (a + b - 1) \div b

\* No wait for a token is longer, even for a bucket that clocks set back have
\* driven below zero.
LongestWait == CeilDiv(Token + MaxBack * (Rate + Rounding) + Rounding, Rate)

\* Rounding is small: in the longest wait its errors, one for every tick, do
\* not add up to what one tick brings.  (With 20 messages per minute a tick
\* brings 3e-4 tokens and is off by less than 1e-14.)
ASSUME RoundingAssumption == (LongestWait + 2) * Rounding <= Rate

VARIABLES
  credit,           \* tokens, in credits
  elapsed,          \* Date.now() - lastRefill
  humanLikeTiming,
  pc,               \* where each call of acquire() is suspended
  timer,            \* ticks until its timer is due
  aborted,          \* whether its signal is aborted
  backs,            \* history: how far the clock was set back
  grants,           \* history: tokens granted within the last d ticks, for each d
  promise           \* history: ticks left until a tick after the wait that
                    \* timeUntilAvailable() returned, 0 if that was 0, or -1

calls == << pc, timer, aborted >>
vars == << credit, elapsed, humanLikeTiming, calls, backs, grants, promise >>

Windows == 0..Horizon

Full == MessagesPerMinute * Token

\* Beyond this a longer wait makes no difference, even if the clock is set back.
MaxElapsed == Minute + 2 * MaxBack + 2

Init ==
  /\ credit = Full /\ elapsed = 0
  /\ humanLikeTiming \in BOOLEAN
  /\ pc = [c \in Callers |-> "idle"]
  /\ timer = [c \in Callers |-> 0]
  /\ aborted = [c \in Callers |-> FALSE]
  /\ backs = 0
  /\ grants = [d \in Windows |-> 0]
  /\ promise = -1

-----------------------------------------------------------------------------
\* The definitions named Bug... are seeded bugs: each replaces the definition
\* that follows it, to see that a property notices (README.md).

Lesser(a, b) == IF a <= b THEN a ELSE b
Greater(a, b) == IF a >= b THEN a ELSE b

\* By how much a refill may be off: not at all if no time has passed.
Errors == IF elapsed = 0 THEN {0} ELSE (-Rounding)..Rounding

BugNoCap(e) == credit + elapsed * Rate + e

\* The tokens after a refill() that is off by e.
Refilled(e) == Lesser(Full, credit + elapsed * Rate + e)

BugTruncate(e) == credit' = (Refilled(e) \div Token) * Token /\ elapsed' = 0

\* refill().
Refill(e) == credit' = Refilled(e) /\ elapsed' = 0

BugClockKept ==
  /\ \E e \in Errors : Refilled(e) >= Token /\ credit' = Refilled(e) - Token
  /\ UNCHANGED elapsed
  /\ grants' = [d \in Windows |-> grants[d] + 1]
  /\ promise' = -1

\* tryAcquire() returns true.
TakeToken ==
  /\ \E e \in Errors : Refilled(e) >= Token /\ credit' = Refilled(e) - Token
  /\ elapsed' = 0
  /\ grants' = [d \in Windows |-> grants[d] + 1]
  /\ promise' = -1

\* tryAcquire() returns false.
NoToken ==
  /\ \E e \in Errors : Refilled(e) < Token /\ Refill(e)
  /\ UNCHANGED << grants, promise >>

\* What Math.ceil() of the ticks that bring so many credits may return.
Waits(credits) ==
  { CeilDiv(Greater(1, credits + e), Rate) : e \in (-Rounding)..Rounding }

\* How long acquire() sleeps before it polls again.
Polls == { Lesser(w, MaxPoll) : w \in Waits(Token) }

BugPollTime(have) == IF have >= Token THEN {0} ELSE Waits(Token)

\* What timeUntilAvailable() may return, with so many credits after its refill.
WaitTimes(have) == IF have >= Token THEN {0} ELSE Waits(Token - have)

Suspend(c, l, t) == pc' = [pc EXCEPT ![c] = l] /\ timer' = [timer EXCEPT ![c] = t]

Return(c) == Suspend(c, "idle", 0)

\* One round of acquire()'s loop, and what follows it once a token was taken.
TryToAcquire(c) ==
  \/ /\ TakeToken
     /\ IF humanLikeTiming
        THEN \E t \in DelayMin..DelayMax : Suspend(c, "delaying", t)
        ELSE Return(c)
  \/ /\ NoToken
     /\ IF aborted'[c]
        THEN Return(c)
        ELSE \E t \in Polls : Suspend(c, "polling", t)

-----------------------------------------------------------------------------

\* acquire(signal) is called, perhaps with a signal that is aborted already.
Acquire(c) ==
  /\ pc[c] = "idle"
  /\ \E b \in BOOLEAN : aborted' = [aborted EXCEPT ![c] = b]
  /\ TryToAcquire(c)
  /\ UNCHANGED << humanLikeTiming, backs >>

\* The sleep between two polls is over.
Wake(c) ==
  /\ pc[c] = "polling" /\ timer[c] = 0
  /\ UNCHANGED aborted
  /\ TryToAcquire(c)
  /\ UNCHANGED << humanLikeTiming, backs >>

\* The human-like delay is over: acquire() returns.
DelayOver(c) ==
  /\ pc[c] = "delaying" /\ timer[c] = 0
  /\ Return(c)
  /\ UNCHANGED << credit, elapsed, humanLikeTiming, aborted, backs, grants, promise >>

\* The signal is aborted: acquire() rejects.  A token it took is gone.
Abort(c) ==
  /\ pc[c] # "idle" /\ ~aborted[c]
  /\ aborted' = [aborted EXCEPT ![c] = TRUE]
  /\ Return(c)
  /\ UNCHANGED << credit, elapsed, humanLikeTiming, backs, grants, promise >>

\* tryAcquire(), called by the application.
TryAcquire ==
  /\ TakeToken \/ NoToken
  /\ UNCHANGED << humanLikeTiming, calls, backs >>

\* canAcquire() and availableTokens.
CanAcquire ==
  /\ \E e \in Errors : Refill(e)
  /\ UNCHANGED << humanLikeTiming, calls, backs, grants, promise >>

TimeUntilAvailable ==
  /\ \E e \in Errors :
       /\ Refill(e)
       /\ \E w \in WaitTimes(Refilled(e)) : promise' = IF w = 0 THEN 0 ELSE w + 1
  /\ UNCHANGED << humanLikeTiming, calls, backs, grants >>

\* Time passes.  A timer may fire late.
Tick ==
  /\ elapsed' = Lesser(MaxElapsed, elapsed + 1)
  /\ timer' = [c \in Callers |-> IF timer[c] = 0 THEN 0 ELSE timer[c] - 1]
  /\ grants' = [d \in Windows |-> IF d = 0 THEN 0 ELSE grants[d - 1]]
  /\ promise' = IF promise > 0 THEN promise - 1 ELSE promise
  /\ UNCHANGED << credit, humanLikeTiming, pc, aborted, backs >>

\* The wall clock is set back.
ClockSetBack ==
  /\ \E d \in 1..(MaxBack - backs) :
       elapsed' = elapsed - d /\ backs' = backs + d
  /\ promise' = -1
  /\ UNCHANGED << credit, humanLikeTiming, calls, grants >>

Next ==
  \/ \E c \in Callers : Acquire(c) \/ Wake(c) \/ DelayOver(c) \/ Abort(c)
  \/ TryAcquire \/ CanAcquire \/ TimeUntilAvailable
  \/ Tick \/ ClockSetBack

Spec == Init /\ [][Next]_vars

\* Time passes and timers fire.
Fairness == WF_vars(Tick) /\ \A c \in Callers : WF_vars(Wake(c))

FairSpec == Spec /\ Fairness

-----------------------------------------------------------------------------
(***************************************************************************)
(* Properties                                                              *)
(***************************************************************************)

\* The types of the state: no more than the full bucket, and below zero by no
\* more than the clock was set back.
TypeOK ==
  /\ credit \in (-(backs * (Rate + Rounding)))..Full
  /\ elapsed \in (-backs)..MaxElapsed
  /\ humanLikeTiming \in BOOLEAN
  /\ pc \in [Callers -> {"idle", "polling", "delaying"}]
  /\ timer \in [Callers -> Nat]
  /\ aborted \in [Callers -> BOOLEAN]
  /\ backs \in 0..MaxBack
  /\ grants \in [Windows -> Nat]
  /\ promise \in Nat \cup {-1}

\* Within d ticks, whatever the interleaving of callers, polls, aborts and
\* clock changes, at most the full bucket and d ticks' worth of tokens are
\* granted, each tick rounded up at most once: in one minute that is twice
\* messagesPerMinute.
WindowBound ==
  \A d \in Windows : grants[d] * Token <= Full + d * (Rate + Rounding)

\* A tick after the time that timeUntilAvailable() returned there is a token,
\* however often the bucket was refilled meanwhile and however that was
\* rounded, if nobody has taken one and the clock was not set back.  (At the
\* returned time itself there may be none: with 6000 messages per minute ten
\* refills of 0.1 make 0.9999999999999999.)
PromiseKept == promise = 0 => \A e \in Errors : Refilled(e) >= Token

\* While a caller polls, tokens are granted again and again: polling more
\* often than tokens arrive does not keep the bucket empty, and a clock set
\* back delays a caller but does not stop it.
TokensAreGranted ==
  \A c \in Callers : pc[c] = "polling" ~> (pc[c] # "polling" \/ grants[0] > 0)

=============================================================================
