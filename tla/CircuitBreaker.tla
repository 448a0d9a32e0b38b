---------------------------- MODULE CircuitBreaker ----------------------------
(***************************************************************************)
(* The circuit breaker (socket/circuit-breaker.ts), with its clock.        *)
(*                                                                         *)
(* The code keeps timestamps and subtracts them from Date.now().  Here     *)
(* they are ages, which grow with every Tick up to the age after which     *)
(* the code cannot tell them apart: so time is unbounded and the states    *)
(* are finite.  Of the recorded failures only the newest FailureThreshold  *)
(* are kept, for an older one never decides whether the threshold is       *)
(* reached; and consecutiveTrips stops at MaxTrips, where the cooldown     *)
(* already is MaxCooldown.                                                 *)
(*                                                                         *)
(* LimitsProofs extends this module and RateLimiter: so the names that     *)
(* every component has are prefixed here.                                  *)
(***************************************************************************)
EXTENDS Integers, Sequences, FiniteSets, SequencesExt

CONSTANTS
  FailureThreshold,   \* config.failureThreshold
  FailureWindow,      \* config.failureWindow, in ticks
  BaseCooldown,       \* config.cooldownMs, in ticks
  MaxCooldown,        \* config.maxCooldownMs, in ticks
  MaxTrips            \* where consecutiveTrips stops counting

ASSUME CircuitBreakerAssumption ==
  /\ FailureThreshold \in Nat \ {0}
  /\ FailureWindow \in Nat \ {0}
  /\ BaseCooldown \in Nat \ {0}
  /\ MaxCooldown \in Nat /\ MaxCooldown >= BaseCooldown
  /\ MaxTrips \in Nat \ {0}
  /\ BaseCooldown * 2 ^ (MaxTrips - 1) >= MaxCooldown

VARIABLES
  state,              \* this._state
  failures,           \* this.failures: their ages, oldest first
  cooldown,           \* this.cooldownMs
  openAge,            \* Date.now() - this.openedAt
  consecutiveTrips    \* this.consecutiveTrips

breakerVars == << state, failures, cooldown, openAge, consecutiveTrips >>

BreakerInit ==
  /\ state = "closed"
  /\ failures = << >>
  /\ cooldown = BaseCooldown
  /\ openAge = MaxCooldown
  /\ consecutiveTrips = 0

-----------------------------------------------------------------------------

\* The definitions named Bug... are seeded bugs: each replaces the definition
\* that follows it, to see that a property notices (README.md).

\* The cooldown of the k-th consecutive trip: doubled each time, capped.
CooldownOfTrip(k) == Min({BaseCooldown * 2 ^ (k - 1), MaxCooldown})

BugKeepTrips == failures' = << >> /\ UNCHANGED << consecutiveTrips, cooldown >>

\* What recordSuccess() and reset() clear.
Forget ==
  /\ failures' = << >>
  /\ consecutiveTrips' = 0
  /\ cooldown' = BaseCooldown

\* trip().
DoTrip ==
  /\ consecutiveTrips' = Min({consecutiveTrips + 1, MaxTrips})
  /\ cooldown' = CooldownOfTrip(consecutiveTrips')
  /\ openAge' = 0
  /\ state' = "open"

\* A failure still counts for the threshold.
Fresh(age) == age < FailureWindow

FreshFailures == Cardinality({i \in DOMAIN failures : Fresh(failures[i])})

\* The newest k elements of fs.
Newest(fs, k) == SubSeq(fs, Max({1, Len(fs) - k + 1}), Len(fs))

-----------------------------------------------------------------------------

\* The tests that make a failure trip the breaker.
BugProbeTolerant(fs) == Len(fs) >= FailureThreshold
Trips(fs) == state = "half-open" \/ Len(fs) >= FailureThreshold

\* recordFailure(): drop what left the window, which is what comes first, add
\* this one, trip when half-open or at the threshold; the raw state is read,
\* not the getter.
RecordFailure ==
  LET recent == Append(Newest(failures, FreshFailures), 0) IN
  /\ failures' = Newest(recent, FailureThreshold)
  /\ IF Trips(recent)
     THEN DoTrip
     ELSE UNCHANGED << state, cooldown, openAge, consecutiveTrips >>

\* recordSuccess().
RecordSuccess ==
  /\ Forget
  /\ state' = "closed"
  /\ UNCHANGED openAge

\* trip(), called by the application.
Trip == DoTrip /\ UNCHANGED failures

\* reset().
Reset == RecordSuccess

BugNeedsQuiet ==
  /\ state = "open" /\ openAge >= cooldown /\ failures = << >>
  /\ state' = "half-open"
  /\ UNCHANGED << failures, cooldown, openAge, consecutiveTrips >>

\* The state getter, which isAllowed and the health snapshot read: after the
\* cooldown it moves the breaker to half-open.
ReadState ==
  /\ state = "open" /\ openAge >= cooldown
  /\ state' = "half-open"
  /\ UNCHANGED << failures, cooldown, openAge, consecutiveTrips >>

\* Time passes.
BreakerTick ==
  /\ failures' = [i \in DOMAIN failures |-> Min({failures[i] + 1, FailureWindow})]
  /\ openAge' = Min({openAge + 1, MaxCooldown})
  /\ UNCHANGED << state, cooldown, consecutiveTrips >>

BreakerNext == RecordFailure \/ RecordSuccess \/ Trip \/ Reset \/ ReadState \/ BreakerTick

BreakerSpec == BreakerInit /\ [][BreakerNext]_breakerVars

\* Time passes, and the connection loop and /health keep reading the state.
FairBreakerSpec == BreakerSpec /\ WF_breakerVars(BreakerTick) /\ WF_breakerVars(ReadState)

-----------------------------------------------------------------------------
(***************************************************************************)
(* Properties                                                              *)
(***************************************************************************)

\* A closed breaker has seen fewer than FailureThreshold failures within the
\* last FailureWindow: the failures left over from before a trip can never
\* be found in a breaker that closed again.
BelowThreshold ==
  state = "closed" => FreshFailures < FailureThreshold

\* The escalation of the cooldown is forgotten exactly when the breaker
\* closes, and until then the cooldown is the one of the last trip.
EscalationTracksTrips ==
  /\ state = "closed" <=> consecutiveTrips = 0
  /\ cooldown = IF state = "closed" THEN BaseCooldown
                ELSE CooldownOfTrip(consecutiveTrips)

\* A breaker that closes has forgotten all that would trip it at once or keep
\* it open longer, and one that has not closed has forgotten nothing.
ForgetsWhenClosed == BelowThreshold /\ EscalationTracksTrips

\* An open breaker does not stay open, unless it is tripped again and again.
Recovers == []<>(state # "open") \/ []<><<RecordFailure \/ Trip>>_breakerVars

\* The breaker implements its description without a clock.
Untimed == INSTANCE UntimedBreaker WITH
  Threshold <- FailureThreshold, st <- state, n <- Len(failures),
  cooled <- state = "open" /\ openAge >= cooldown

Implements == Untimed!Spec

=============================================================================
