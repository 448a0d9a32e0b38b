---------------------------- MODULE UntimedBreaker ----------------------------
(***************************************************************************)
(* What the circuit breaker (socket/circuit-breaker.ts) promises, without  *)
(* its clock: a breaker is closed, open or half-open; enough recent        *)
(* failures open it, a failure while half-open opens it again, and it      *)
(* closes only on a success or a reset.  Time shows only in which of the   *)
(* earlier failures still count and in when the cooldown is over.          *)
(*                                                                         *)
(* CircuitBreaker implements this specification; Connection uses it.       *)
(***************************************************************************)
EXTENDS Integers

CONSTANT Threshold            \* config.failureThreshold: positive, as the users assume

VARIABLES
  st,       \* "closed", "open" or "half-open"
  n,        \* how many recorded failures count, up to Threshold
  cooled    \* the breaker is open and its cooldown is over

vars == << st, n, cooled >>

TypeOK ==
  /\ st \in {"closed", "open", "half-open"}
  /\ n \in 0..Threshold
  /\ cooled \in BOOLEAN

Init == st = "closed" /\ n = 0 /\ cooled = FALSE

\* trip(): open, or stay open for a new cooldown.
Open == st' = "open" /\ cooled' = FALSE

\* recordFailure(): this failure counts, and some or all of the earlier ones.
RecordFailure ==
  \E count \in 1..Threshold :
    /\ count <= n + 1
    /\ n' = count
    /\ IF st = "half-open" \/ count >= Threshold
       THEN Open
       ELSE UNCHANGED << st, cooled >>

\* recordSuccess() and reset().
Close == st' = "closed" /\ n' = 0 /\ cooled' = FALSE

\* trip(), called by the application.
Trip == Open /\ UNCHANGED n

\* The cooldown ends.
CooldownElapses ==
  /\ st = "open" /\ ~cooled
  /\ cooled' = TRUE
  /\ UNCHANGED << st, n >>

\* The state getter, which opens the breaker half-way after the cooldown.
ReadState ==
  IF st = "open" /\ cooled
  THEN st' = "half-open" /\ cooled' = FALSE /\ UNCHANGED n
  ELSE UNCHANGED vars

Next == RecordFailure \/ Close \/ Trip \/ CooldownElapses \/ ReadState

Spec == Init /\ [][Next]_vars

=============================================================================
