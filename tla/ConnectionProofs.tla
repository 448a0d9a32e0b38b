--------------------------- MODULE ConnectionProofs ---------------------------
(***************************************************************************)
(* Proofs about Connection, for any number of calls of connect(), any      *)
(* number of attempts and any bound on the retries.                        *)
(***************************************************************************)
EXTENDS Connection, TLAPS

Labels == {"idle", "fetching", "loop", "cooling", "attempt", "connecting",
           "login", "backoff", "returned", "rejected"}

\* What the status and stopReconnect guarantee between two steps: nobody is
\* about to start an attempt once stopReconnect is set, and after disconnect()
\* it stays set, as every loop that still runs is to find it.
StopInv ==
  /\ pc \in [Calls -> Labels]
  /\ \A c \in Calls : pc[c] = "attempt" => ~stopReconnect
  /\ ~wanted => conn = "disconnected" /\ \A c \in Calls : pc[c] = "idle" \/ stopReconnect

\* A loop that is about to start an attempt does so at once: no task runs.
LEMMA QuietNoAttempt ==
  ASSUME Quiet, NEW c \in Calls
  PROVE  pc[c] \notin {"loop", "attempt"}
BY DEF Quiet, Ready

\* The catch block moves only its own loop, and never out of `disconnected`.
LEMMA CatchSteps ==
  ASSUME pc \in [Calls -> Labels], NEW c \in Calls, Catch(c)
  PROVE  /\ pc' \in [Calls -> Labels]
         /\ pc'[c] \in {"backoff", "rejected"}
         /\ \A d \in Calls : d # c => pc'[d] = pc[d]
         /\ conn = "disconnected" => conn' = "disconnected"
         /\ conn' # "connected"
<1>1. \E l \in {"backoff", "rejected"} : pc' = [pc EXCEPT ![c] = l]
  BY DEF Catch, GoTo
<1>2. pc' \in [Calls -> Labels] /\ pc'[c] \in {"backoff", "rejected"}
  BY <1>1 DEF Labels
<1>3. \A d \in Calls : d # c => pc'[d] = pc[d]
  BY <1>1
<1>4. conn = "disconnected" => conn' = "disconnected"
  BY DEF Catch, CanTransition
<1>5. conn' # "connected"
  BY DEF Catch, CanTransition
<1> QED
  BY <1>2, <1>3, <1>4, <1>5

\* StopInv holds initially and is kept by every step.
LEMMA StopInvCorrect == Spec => []StopInv
<1>1. Init => StopInv
  BY DEF Init, StopInv, Labels
<1>2. ASSUME StopInv, [Next]_vars PROVE StopInv'
  <2> USE <1>2 DEF StopInv
  <2>1. ASSUME NEW c \in Calls, Connect(c) PROVE StopInv'
    <3>1. \A d \in Calls : pc[d] # "attempt"
      BY <2>1, QuietNoAttempt DEF Connect
    <3> QED
      BY <2>1, <3>1 DEF Connect, GoTo, Labels
  <2>2. ASSUME NEW c \in Calls, Loop(c) PROVE StopInv'
    BY <2>2 DEF Loop, GoTo, Labels, history
  <2>3. ASSUME NEW c \in Calls, StartAttempt(c) PROVE StopInv'
    <3>1. wanted /\ ~stopReconnect
      BY <2>3 DEF StartAttempt
    <3>2. CASE CanTransition(conn, "connecting")
      BY <2>3, <3>1, <3>2 DEF StartAttempt, GoTo, Labels, history
    <3>3. CASE ~CanTransition(conn, "connecting")
      BY <2>3, <3>1, <3>3, CatchSteps DEF StartAttempt, Labels, history
    <3> QED
      BY <3>2, <3>3
  <2>4. ASSUME NEW c \in Calls, PairSuccessOutcome(c) PROVE StopInv'
    <3>1. CASE CanTransition(conn, "reconnecting")
      BY <2>4, <3>1 DEF PairSuccessOutcome, CanTransition, GoTo, Labels, history
    <3>2. CASE ~CanTransition(conn, "reconnecting")
      BY <2>4, <3>2, CatchSteps DEF PairSuccessOutcome, Labels, history
    <3> QED
      BY <3>1, <3>2
  <2>5. ASSUME NEW c \in Calls, FailureOutcome(c) PROVE StopInv'
    BY <2>5 DEF FailureOutcome, GoTo, Labels, history
  <2>6. ASSUME NEW c \in Calls, SuccessOutcome(c) PROVE StopInv'
    BY <2>6 DEF SuccessOutcome, GoTo, Labels, history
  <2>7. ASSUME NEW c \in Calls, AttemptFails(c) PROVE StopInv'
    BY <2>7, CatchSteps DEF AttemptFails, Labels, history
  <2>8. ASSUME NEW c \in Calls, Awaited(c), ~AttemptFails(c) PROVE StopInv'
    BY <2>8 DEF Awaited, Fetched, CooldownSlept, BackoffSlept, AttemptLive, GoTo,
                Labels, history
  <2>9. ASSUME NEW k \in Attempts, Success(k) PROVE StopInv'
    BY <2>9 DEF Success, CanTransition, LoggedIn, Ends, loops
  <2>10. ASSUME NEW k \in Attempts, NEW o, Quiet, EndSession(k, o), pc' = pc,
                wanted' = wanted, stopReconnect => stopReconnect'
         PROVE StopInv'
    <3>1. \A d \in Calls : pc[d] # "attempt"
      BY <2>10, QuietNoAttempt
    <3> QED
      BY <2>10, <3>1 DEF EndSession
  <2>11. ASSUME NEW k \in Attempts, Frame(k), ~Success(k) PROVE StopInv'
    <3>1. Quiet /\ \A d \in Calls : pc[d] # "attempt"
      BY <2>11, QuietNoAttempt DEF Frame, StreamError, XmlStreamEnd, Downgrade,
         PairSuccess, PairRefused, LinkCode, LinkAcked, Failure, Receives
    <3>2. ASSUME NEW r, Failure(k, r) PROVE StopInv'
      <4>1. stopReconnect => stopReconnect'
        BY <3>2 DEF Failure
      <4>2. PICK o : EndSession(k, o)
        BY <3>2 DEF Failure
      <4> QED
        BY <2>10, <3>1, <3>2, <4>1, <4>2 DEF Failure, loops
    <3>3. CASE StreamError(k)
      BY <2>10, <3>1, <3>3 DEF StreamError, loops
    <3>4. CASE XmlStreamEnd(k)
      BY <2>10, <3>1, <3>4 DEF XmlStreamEnd, loops
    <3>5. CASE Downgrade(k)
      BY <3>1, <3>5 DEF Downgrade, loops
    <3>6. CASE PairSuccess(k) \/ LinkCode(k) \/ LinkAcked(k)
      BY <3>6 DEF PairSuccess, LinkCode, LinkAcked, loops
    <3>7. CASE PairRefused(k)
      BY <3>7 DEF PairRefused, Ends, loops
    <3> QED
      BY <2>11, <3>2, <3>3, <3>4, <3>5, <3>6, <3>7 DEF Frame
  <2>12. ASSUME NEW k \in Attempts, LinkTimer(k) PROVE StopInv'
    BY <2>12 DEF LinkTimer, Ends, loops, history
  <2>13. ASSUME NEW k \in Attempts,
                \/ LinkBuilt(k) \/ LinkFails(k)
                \/ ConnectionLost(k) \/ SocketCloses(k) \/ DisposeTimer(k)
         PROVE StopInv'
    BY <2>13 DEF LinkBuilt, LinkFails, ConnectionLost, SocketCloses, DisposeTimer,
                 loops, history
  <2>14. ASSUME Disconnect PROVE StopInv'
    BY <2>14, QuietNoAttempt DEF Disconnect, loops
  <2>15. ASSUME CooldownElapses PROVE StopInv'
    BY <2>15 DEF CooldownElapses, loops, history
  <2>16. ASSUME UNCHANGED vars PROVE StopInv'
    BY <2>16 DEF vars, loops, history
  <2> QED
    BY <1>2, <2>1, <2>2, <2>3, <2>4, <2>5, <2>6, <2>7, <2>8, <2>9, <2>11, <2>12,
       <2>13, <2>14, <2>15, <2>16 DEF Next, Continue, Awaited
<1> QED
  BY <1>1, <1>2, PTL DEF Spec

\* However many calls, attempts and late callbacks there are, after
\* disconnect() the client is disconnected until the next connect().
THEOREM StaysDisconnected == Spec => []DisconnectSticks
<1>1. StopInv => DisconnectSticks
  BY DEF StopInv, DisconnectSticks
<1> QED
  BY <1>1, StopInvCorrect, PTL

\* stopReconnect is final: from the step that sets it to the next connect() no
\* attempt starts.
THEOREM NoAttemptOnceStopped == Spec => StopIsFinal
<1>1. ASSUME StopInv, [Next]_vars PROVE [stopReconnect /\ stopReconnect' => cur' = cur]_vars
  <2>1. ASSUME NEW c \in Calls, StartAttempt(c) PROVE ~stopReconnect
    BY <1>1, <2>1 DEF StopInv, StartAttempt
  <2>2. ASSUME NEW c \in Calls, Connect(c) \/ Continue(c) \/ Awaited(c), ~StartAttempt(c)
        PROVE cur' = cur
    BY <2>2 DEF Connect, Continue, Awaited, Loop, PairSuccessOutcome, FailureOutcome,
       SuccessOutcome, Fetched, CooldownSlept, BackoffSlept, AttemptFails, AttemptLive
  <2>3. ASSUME NEW k \in Attempts, Frame(k) PROVE cur' = cur
    BY <2>3 DEF Frame, Success, StreamError, XmlStreamEnd, Downgrade, PairSuccess,
       PairRefused, LinkCode, LinkAcked, Failure, Ends, loops
  <2>4. ASSUME NEW k \in Attempts,
               \/ LinkBuilt(k) \/ LinkFails(k) \/ LinkTimer(k)
               \/ ConnectionLost(k) \/ SocketCloses(k) \/ DisposeTimer(k)
        PROVE cur' = cur
    BY <2>4 DEF LinkBuilt, LinkFails, LinkTimer, ConnectionLost, SocketCloses,
       DisposeTimer, Ends, loops
  <2>5. ASSUME Disconnect \/ CooldownElapses PROVE cur' = cur
    BY <2>5 DEF Disconnect, CooldownElapses, loops
  <2>6. ASSUME UNCHANGED vars PROVE cur' = cur
    BY <2>6 DEF vars, loops
  <2> QED
    BY <1>1, <2>1, <2>2, <2>3, <2>4, <2>5, <2>6 DEF Next
<1> QED
  BY <1>1, StopInvCorrect, PTL DEF Spec, StopIsFinal

\* A step of the breaker that is not a failure keeps it closed.
LEMMA ReadKeepsClosed ==
  ASSUME st = "closed", n = 0, Breaker!ReadState \/ Breaker!Close \/ Breaker!CooldownElapses
  PROVE  st' = "closed" /\ n' = 0
BY DEF Breaker!ReadState, Breaker!Close, Breaker!CooldownElapses, Breaker!vars

\* While the client is connected the breaker is closed and has no failure on
\* record, whatever the other calls of connect() and the sockets do.
THEOREM ConnectedWithClosedBreaker == Spec => []ConnectedMeansClosed
<1>1. Init => ConnectedMeansClosed
  BY DEF Init, ConnectedMeansClosed
<1>2. ASSUME StopInv, ConnectedMeansClosed, [Next]_vars PROVE ConnectedMeansClosed'
  <2> SUFFICES ASSUME conn' = "connected" PROVE st' = "closed" /\ n' = 0
    BY DEF ConnectedMeansClosed
  <2>0. ASSUME UNCHANGED << conn, breaker >> PROVE st' = "closed" /\ n' = 0
    BY <1>2, <2>0 DEF ConnectedMeansClosed, breaker
  <2>2. ASSUME NEW c \in Calls PROVE ~Catch(c)
    BY <1>2, CatchSteps DEF StopInv
  <2>3. ASSUME NEW c \in Calls, Loop(c) PROVE st' = "closed" /\ n' = 0
    <3>1. st = "closed" /\ n = 0
      BY <1>2, <2>3 DEF Loop, ConnectedMeansClosed
    <3> QED
      BY <3>1, <2>3, ReadKeepsClosed DEF Loop, breaker
  <2>4. ASSUME NEW c \in Calls,
               \/ StartAttempt(c) \/ AttemptFails(c)
               \/ PairSuccessOutcome(c) \/ FailureOutcome(c)
        PROVE FALSE
    BY <2>2, <2>4 DEF StartAttempt, AttemptFails, PairSuccessOutcome, FailureOutcome
  <2>5. ASSUME NEW c \in Calls,
               \/ Connect(c) \/ SuccessOutcome(c)
               \/ Fetched(c) \/ CooldownSlept(c) \/ BackoffSlept(c) \/ AttemptLive(c)
        PROVE UNCHANGED << conn, breaker >>
    BY <2>5 DEF Connect, SuccessOutcome, Fetched, CooldownSlept, BackoffSlept, AttemptLive
  <2>6. ASSUME NEW k \in Attempts, Success(k) PROVE st' = "closed" /\ n' = 0
    BY <2>6 DEF Success, LoggedIn, Ends, Breaker!Close
  <2>7. ASSUME NEW k \in Attempts,
               \/ StreamError(k) \/ XmlStreamEnd(k) \/ PairRefused(k) \/ LinkTimer(k)
               \/ \E reason \in {"fatal", "463"} : Failure(k, reason)
        PROVE FALSE
    BY <2>7 DEF StreamError, XmlStreamEnd, PairRefused, LinkTimer, Failure,
       EndSession, Ends
  <2>8. ASSUME NEW k \in Attempts,
               \/ Downgrade(k) \/ PairSuccess(k) \/ LinkCode(k) \/ LinkAcked(k)
               \/ LinkBuilt(k) \/ LinkFails(k)
               \/ ConnectionLost(k) \/ SocketCloses(k) \/ DisposeTimer(k)
        PROVE UNCHANGED << conn, breaker >>
    BY <2>8 DEF Downgrade, PairSuccess, LinkCode, LinkAcked, LinkBuilt, LinkFails,
       ConnectionLost, SocketCloses, DisposeTimer
  <2>9. ASSUME Disconnect PROVE FALSE
    BY <2>9 DEF Disconnect
  <2>10. ASSUME CooldownElapses PROVE st' = "closed" /\ n' = 0
    <3>1. st = "closed" /\ n = 0
      BY <1>2, <2>10 DEF CooldownElapses, ConnectedMeansClosed
    <3> QED
      BY <3>1, <2>10, ReadKeepsClosed DEF CooldownElapses
  <2>11. ASSUME UNCHANGED vars PROVE UNCHANGED << conn, breaker >>
    BY <2>11 DEF vars
  <2> QED
    BY <1>2, <2>0, <2>3, <2>4, <2>5, <2>6, <2>7, <2>8, <2>9, <2>10, <2>11
       DEF Next, Continue, Awaited, Frame
<1> QED
  BY <1>1, <1>2, StopInvCorrect, PTL DEF Spec

\* The breaker's operations keep its types.
LEMMA BreakerTypes ==
  ASSUME Breaker!TypeOK,
         \/ Breaker!RecordFailure \/ Breaker!Close \/ Breaker!ReadState
         \/ Breaker!CooldownElapses \/ UNCHANGED breaker
  PROVE  Breaker!TypeOK'
<1>1. n' \in 0..Threshold
  BY ConnectionAssumption DEF Breaker!TypeOK, Breaker!RecordFailure, Breaker!Close,
     Breaker!ReadState, Breaker!CooldownElapses, Breaker!vars, breaker
<1>2. \/ UNCHANGED << st, cooled >>
      \/ st' = "open" /\ cooled' = FALSE
      \/ st' = "open" /\ cooled' = TRUE
      \/ st' = "closed" /\ cooled' = FALSE
      \/ st' = "half-open" /\ cooled' = FALSE
  <2>1. CASE Breaker!RecordFailure
    <3>1. Breaker!Open \/ UNCHANGED << st, cooled >>
      BY <2>1 DEF Breaker!RecordFailure
    <3> QED
      BY <3>1 DEF Breaker!Open
  <2>2. CASE Breaker!Close
    BY <2>2 DEF Breaker!Close
  <2>3. CASE Breaker!ReadState
    BY <2>3 DEF Breaker!ReadState, Breaker!vars
  <2>4. CASE Breaker!CooldownElapses
    <3>1. st' = "open" /\ cooled' = TRUE
      BY <2>4, Zenon DEF Breaker!CooldownElapses
    <3> QED
      BY <3>1
  <2>5. CASE UNCHANGED breaker
    BY <2>5 DEF breaker
  <2> QED
    BY <2>1, <2>2, <2>3, <2>4, <2>5
<1>3. st' \in {"closed", "open", "half-open"}
  BY <1>2 DEF Breaker!TypeOK
<1>4. cooled' \in BOOLEAN
  BY <1>2, Zenon DEF Breaker!TypeOK
<1> QED
  BY <1>1, <1>3, <1>4 DEF Breaker!TypeOK

\* What the handlers make of an attempt is an attempt.
LEMMA AttemptTypes ==
  ASSUME NEW a \in Attempt, NEW o \in {"success", "failure", "rate-limit", "pair-success"}
  PROVE  /\ Resolve(a, o) \in Attempt
         /\ Closing(a) \in Attempt
         /\ Dispose(a) \in Attempt
         /\ UnexpectedClose(a) \in Attempt
<1>1. /\ Resolve(a, "pair-success") \in Attempt /\ Resolve(a, "failure") \in Attempt
      /\ Resolve(a, o) \in Attempt
  BY DEF Resolve, Attempt
<1>2. Closing(a) \in Attempt /\ Dispose(a) \in Attempt
  <2>1. Closing(a) \in Attempt
    BY DEF Closing, Attempt
  <2> QED
    BY <2>1 DEF Dispose, Attempt
<1>3. UnexpectedClose(a) \in Attempt
  <2>1. Resolve(a, Reconnects(a)) \in Attempt
    BY <1>1 DEF Reconnects
  <2>2. [Resolve(a, Reconnects(a)) EXCEPT !.cli = TRUE] \in Attempt
    BY <2>1 DEF Attempt
  <2> QED
    BY <2>2 DEF UnexpectedClose
<1> QED
  BY <1>1, <1>2, <1>3

\* A fresh attempt is an attempt.
LEMMA FreshAttempt == Fresh \in Attempt
BY DEF Fresh, Attempt

\* TypeOK and what keeps backoff within its bound: a loop that backs off has
\* a retry left.
TypeInv ==
  /\ TypeOK
  /\ \A c \in Calls : pc[c] = "backoff" => backoff[c] < MaxBackoff

\* Closing the socket and cancelling the disposal keep an attempt's type.
LEMMA FieldTypes ==
  ASSUME NEW a \in Attempt
  PROVE  /\ [a EXCEPT !.sock = "closed"] \in Attempt
         /\ [a EXCEPT !.dispose = FALSE] \in Attempt
         /\ [a EXCEPT !.dispose = TRUE] \in Attempt
<1>1. [a EXCEPT !.sock = "closed"] \in Attempt
  BY DEF Attempt
<1>2. [a EXCEPT !.dispose = FALSE] \in Attempt
  BY DEF Attempt
<1>3. [a EXCEPT !.dispose = TRUE] \in Attempt
  BY DEF Attempt
<1> QED
  BY <1>1, <1>2, <1>3

\* The catch block keeps the types of what it changes.
LEMMA CatchTypes ==
  ASSUME TypeInv, NEW c \in Calls, Catch(c), UNCHANGED backoff
  PROVE  /\ conn' \in Statuses
         /\ Breaker!TypeOK'
         /\ pc' \in [Calls -> Labels]
         /\ \A d \in Calls : pc'[d] = "backoff" => backoff'[d] < MaxBackoff
<1>1. conn' \in Statuses
  BY DEF Catch, TypeInv, TypeOK, Statuses
<1>2. Breaker!TypeOK'
  BY BreakerTypes DEF Catch, TypeInv, TypeOK
<1>3. \/ pc' = [pc EXCEPT ![c] = "backoff"] /\ backoff[c] < MaxBackoff
      \/ pc' = [pc EXCEPT ![c] = "rejected"]
  BY DEF Catch, GoTo
<1>4. pc \in [Calls -> Labels]
  BY DEF TypeInv, TypeOK, Labels
<1>5. \A d \in Calls : pc[d] = "backoff" => backoff[d] < MaxBackoff
  BY DEF TypeInv
<1> HIDE DEF TypeInv
<1>6. pc' \in [Calls -> Labels]
  BY <1>3, <1>4 DEF Labels
<1>7. \A d \in Calls : pc'[d] = "backoff" => backoff'[d] < MaxBackoff
  BY <1>3, <1>4, <1>5
<1> QED
  BY <1>1, <1>2, <1>6, <1>7

\* The types of an attempt after one handler changed it.
LEMMA AttUpdate ==
  ASSUME att \in [Attempts -> Attempt], NEW k \in Attempts, NEW a \in Attempt,
         att' = [att EXCEPT ![k] = a]
  PROVE  att' \in [Attempts -> Attempt]
OBVIOUS

\* A continuation of a loop, or one of its awaits, keeps the types.
LEMMA LoopTypes ==
  ASSUME TypeInv, NEW c \in Calls, Connect(c) \/ Continue(c) \/ Awaited(c)
  PROVE  TypeInv'
<1> DEFINE BackoffOK == \A d \in Calls : pc[d] = "backoff" => backoff[d] < MaxBackoff
<1>0. TypeOK /\ BackoffOK /\ pc \in [Calls -> Labels] /\ att \in [Attempts -> Attempt]
  BY DEF TypeInv, TypeOK, Labels
<1>1. ASSUME pc' \in [Calls -> Labels], BackoffOK', conn' \in Statuses,
             stopReconnect' \in BOOLEAN, registered' = registered,
             disposer' \in 0..MaxAttempts, Breaker!TypeOK', thrown' = thrown,
             backoff' \in [Calls -> 0..MaxBackoff], cur' \in [Calls -> 0..MaxAttempts],
             att' \in [Attempts -> Attempt], wanted' \in BOOLEAN, late' = late
      PROVE  TypeInv'
  BY <1>0, <1>1 DEF TypeInv, TypeOK, Labels
<1>2. CASE Connect(c)
  <2>1. pc' \in [Calls -> Labels] /\ BackoffOK'
    BY <1>0, <1>2 DEF Connect, GoTo, Labels
  <2>2. Breaker!TypeOK'
    BY <1>0, <1>2, BreakerTypes DEF Connect, TypeOK
  <2> QED
    BY <1>0, <1>1, <1>2, <2>1, <2>2 DEF Connect, TypeOK
<1>3. CASE Loop(c)
  <2>1. pc' \in [Calls -> Labels] /\ BackoffOK'
    BY <1>0, <1>3 DEF Loop, GoTo, Labels
  <2>2. Breaker!TypeOK'
    BY <1>0, <1>3, BreakerTypes DEF Loop, TypeOK
  <2> QED
    BY <1>0, <1>1, <1>3, <2>1, <2>2 DEF Loop, TypeOK, history
<1>4. CASE StartAttempt(c)
  <2>1. CASE CanTransition(conn, "connecting")
    <3>1. PICK k \in Attempts :
            /\ att' = [att EXCEPT ![k] = [Fresh EXCEPT !.stage = "opening",
                                            !.sock = "open", !.login = registered]]
            /\ cur' = [cur EXCEPT ![c] = k]
            /\ conn' = "connecting"
            /\ GoTo(c, "connecting")
            /\ UNCHANGED breaker
      BY <1>4, <2>1 DEF StartAttempt
    <3>2. [Fresh EXCEPT !.stage = "opening", !.sock = "open", !.login = registered] \in Attempt
      BY <1>0, FreshAttempt DEF Attempt, TypeOK
    <3>3. att' \in [Attempts -> Attempt]
      BY <1>0, <3>1, <3>2, AttUpdate
    <3>4. pc' \in [Calls -> Labels] /\ BackoffOK'
      BY <1>0, <1>4, <3>1 DEF StartAttempt, GoTo, Labels
    <3>5. Breaker!TypeOK'
      BY <1>0, <3>1, BreakerTypes DEF TypeOK
    <3>6. cur' \in [Calls -> 0..MaxAttempts]
      BY <1>0, <3>1, ConnectionAssumption DEF TypeOK, Attempts
    <3> QED
      BY <1>0, <1>1, <1>4, <3>1, <3>3, <3>4, <3>5, <3>6
         DEF StartAttempt, TypeOK, Statuses, history
  <2>2. CASE ~CanTransition(conn, "connecting")
    <3>1. /\ Catch(c)
          /\ UNCHANGED << att, stopReconnect, registered, disposer, thrown, backoff, cur, history >>
      BY <1>4, <2>2 DEF StartAttempt
    <3> QED
      BY <1>0, <1>1, <3>1, CatchTypes DEF TypeOK, history
  <2> QED
    BY <2>1, <2>2
<1>5. CASE PairSuccessOutcome(c)
  <2>1. CASE CanTransition(conn, "reconnecting")
    <3>1. att' \in [Attempts -> Attempt]
      <4>1. \A k \in Attempts : [att[k] EXCEPT !.dispose = TRUE] \in Attempt
        BY <1>0, FieldTypes
      <4> QED
        BY <1>0, <1>5, <2>1, <4>1 DEF PairSuccessOutcome
    <3>2. pc' \in [Calls -> Labels] /\ BackoffOK'
      BY <1>0, <1>5, <2>1 DEF PairSuccessOutcome, GoTo, Labels
    <3>3. Breaker!TypeOK'
      BY <1>0, <1>5, <2>1, BreakerTypes DEF PairSuccessOutcome, TypeOK
    <3> QED
      BY <1>0, <1>1, <1>5, <2>1, <3>1, <3>2, <3>3
         DEF PairSuccessOutcome, TypeOK, Statuses, history
  <2>2. CASE ~CanTransition(conn, "reconnecting")
    BY <1>0, <1>1, <1>5, <2>2, CatchTypes DEF PairSuccessOutcome, TypeOK, history
  <2> QED
    BY <2>1, <2>2
<1>6. CASE FailureOutcome(c) \/ SuccessOutcome(c)
  <2>1. pc' \in [Calls -> Labels] /\ BackoffOK'
    <3>1. \E l \in Labels \ {"backoff"} : pc' = [pc EXCEPT ![c] = l]
      BY <1>6 DEF FailureOutcome, SuccessOutcome, GoTo, Labels
    <3>2. \A d \in Calls : d # c => backoff'[d] = backoff[d]
      BY <1>0, <1>6 DEF FailureOutcome, SuccessOutcome, TypeOK
    <3> QED
      BY <1>0, <3>1, <3>2
  <2>2. Breaker!TypeOK'
    BY <1>0, <1>6, BreakerTypes DEF FailureOutcome, SuccessOutcome, TypeOK
  <2>3. backoff' \in [Calls -> 0..MaxBackoff]
    BY <1>0, <1>6, ConnectionAssumption DEF FailureOutcome, SuccessOutcome, TypeOK
  <2> QED
    BY <1>0, <1>1, <1>6, <2>1, <2>2, <2>3
       DEF FailureOutcome, SuccessOutcome, TypeOK, Statuses, history
<1>7. CASE Fetched(c) \/ CooldownSlept(c) \/ BackoffSlept(c)
  <2>1. pc' \in [Calls -> Labels] /\ BackoffOK'
    <3>1. \E l \in Labels \ {"backoff"} : pc' = [pc EXCEPT ![c] = l]
      BY <1>7 DEF Fetched, CooldownSlept, BackoffSlept, GoTo, Labels
    <3>2. \A d \in Calls : d # c => backoff'[d] = backoff[d]
      BY <1>0, <1>7 DEF Fetched, CooldownSlept, BackoffSlept, TypeOK
    <3> QED
      BY <1>0, <3>1, <3>2
  <2>2. Breaker!TypeOK'
    BY <1>0, <1>7, BreakerTypes DEF Fetched, CooldownSlept, BackoffSlept, TypeOK
  <2>3. backoff' \in [Calls -> 0..MaxBackoff]
    BY <1>0, <1>7, ConnectionAssumption DEF Fetched, CooldownSlept, BackoffSlept, TypeOK
  <2> QED
    BY <1>0, <1>1, <1>7, <2>1, <2>2, <2>3
       DEF Fetched, CooldownSlept, BackoffSlept, TypeOK, history
<1>8. CASE AttemptFails(c)
  <2>1. att' \in [Attempts -> Attempt]
    <3>1. \A k \in Attempts : [att[k] EXCEPT !.stage = "failed"] \in Attempt
      BY <1>0 DEF Attempt
    <3> QED
      BY <1>0, <1>8, <3>1 DEF AttemptFails
  <2> QED
    BY <1>0, <1>1, <1>8, <2>1, CatchTypes DEF AttemptFails, TypeOK, history
<1>9. CASE AttemptLive(c)
  <2>1. PICK s \in {"open", "closed"} :
          att' = [att EXCEPT ![cur[c]].stage = "live", ![cur[c]].sock = s,
                             ![cur[c]].keepAlive = TRUE]
    BY <1>9 DEF AttemptLive
  <2>2. \A k \in Attempts :
          [att[k] EXCEPT !.stage = "live", !.sock = s, !.keepAlive = TRUE] \in Attempt
    <3>1. ASSUME NEW a \in Attempt
          PROVE  [a EXCEPT !.stage = "live", !.sock = s, !.keepAlive = TRUE] \in Attempt
      <4>1. [a EXCEPT !.stage = "live", !.sock = s] \in Attempt
        BY DEF Attempt
      <4> QED
        BY <4>1 DEF Attempt
    <3> QED
      BY <1>0, <3>1
  <2>3. att' \in [Attempts -> Attempt]
    BY <1>0, <2>1, <2>2
  <2>4. pc' \in [Calls -> Labels] /\ BackoffOK'
    BY <1>0, <1>9 DEF AttemptLive, GoTo, Labels
  <2>5. Breaker!TypeOK'
    BY <1>0, <1>9, BreakerTypes DEF AttemptLive, TypeOK
  <2> QED
    BY <1>0, <1>1, <1>9, <2>3, <2>4, <2>5 DEF AttemptLive, TypeOK, history
<1> QED
  BY <1>2, <1>3, <1>4, <1>5, <1>6, <1>7, <1>8, <1>9 DEF Continue, Awaited

\* A frame, a timer, a close or disconnect() keeps the types.
LEMMA TaskTypes ==
  ASSUME TypeInv,
         \/ \E k \in Attempts :
              \/ Frame(k) \/ LinkBuilt(k) \/ LinkFails(k) \/ LinkTimer(k)
              \/ ConnectionLost(k) \/ SocketCloses(k) \/ DisposeTimer(k)
         \/ Disconnect \/ CooldownElapses
  PROVE  TypeInv'
<1>0. TypeOK /\ att \in [Attempts -> Attempt]
  BY DEF TypeInv, TypeOK
<1>1. ASSUME UNCHANGED loops, conn' \in Statuses, stopReconnect' \in BOOLEAN,
             registered' \in BOOLEAN, disposer' \in 0..MaxAttempts, Breaker!TypeOK',
             thrown' \in {"nothing", "transition", "pairing", "timeout"},
             att' \in [Attempts -> Attempt], wanted' \in BOOLEAN,
             late' \in {"none", "restart", "frame"}
      PROVE  TypeInv'
  BY <1>1 DEF TypeInv, TypeOK, loops
<1>2. UNCHANGED breaker => Breaker!TypeOK'
  BY <1>0, BreakerTypes DEF TypeOK
<1>3. ASSUME NEW reason \in {"transition", "pairing", "timeout"}, Ends(reason)
      PROVE  /\ UNCHANGED << stopReconnect, loops >>
             /\ conn' \in Statuses /\ disposer' \in 0..MaxAttempts
             /\ att' \in [Attempts -> Attempt]
             /\ thrown' \in {"nothing", "transition", "pairing", "timeout"}
             /\ Breaker!TypeOK'
  <2>1. Breaker!TypeOK'
    BY <1>0, <1>3, BreakerTypes DEF Ends, TypeOK
  <2>2. att' \in [Attempts -> Attempt]
    BY <1>3, FreshAttempt DEF Ends
  <2> QED
    BY <1>3, <2>1, <2>2, ConnectionAssumption DEF Ends, Statuses
<1>4. ASSUME NEW k \in Attempts, NEW kind \in {"restart", "frame"}, Receives(k, kind)
      PROVE  late' \in {"none", "restart", "frame"}
  BY <1>0, <1>4 DEF Receives, TypeOK
<1>5. ASSUME NEW k \in Attempts, NEW o \in {"failure", "rate-limit", "pair-success"},
             EndSession(k, o)
      PROVE  conn' \in Statuses /\ att' \in [Attempts -> Attempt]
  <2>1. Resolve(att[k], o) \in Attempt
    BY <1>0, AttemptTypes
  <2>2. [Resolve(att[k], o) EXCEPT !.cli = TRUE, !.dispose = TRUE] \in Attempt
    BY <2>1 DEF Attempt
  <2> QED
    BY <1>0, <1>5, <2>2 DEF EndSession, Statuses
<1>6. ASSUME NEW k \in Attempts, Success(k) PROVE TypeInv'
  <2>1. CASE CanTransition(conn, "connected")
    <3>1. Resolve(att[k], "success") \in Attempt
      BY <1>0, AttemptTypes
    <3>2. [Resolve(att[k], "success") EXCEPT !.cli = TRUE] \in Attempt
      BY <3>1 DEF Attempt
    <3>3. att' \in [Attempts -> Attempt]
      BY <1>0, <1>6, <2>1, <3>2 DEF Success
    <3>4. Breaker!TypeOK'
      BY <1>0, <1>6, <2>1, BreakerTypes DEF Success, LoggedIn, TypeOK
    <3>5. conn' \in Statuses /\ late' \in {"none", "restart", "frame"}
      BY <1>4, <1>6, <2>1 DEF Success, LoggedIn, Statuses
    <3> QED
      BY <1>0, <1>1, <1>6, <2>1, <3>3, <3>4, <3>5 DEF Success, TypeOK
  <2>2. CASE ~CanTransition(conn, "connected")
    BY <1>0, <1>1, <1>3, <1>4, <1>6, <2>2 DEF Success, TypeOK
  <2> QED
    BY <2>1, <2>2
<1>7. ASSUME NEW k \in Attempts, NEW reason, Failure(k, reason) PROVE TypeInv'
  <2>1. stopReconnect' \in BOOLEAN
    BY <1>7 DEF Failure
  <2> QED
    BY <1>0, <1>1, <1>2, <1>4, <1>5, <1>7, <2>1 DEF Failure, TypeOK
<1>8. ASSUME NEW k \in Attempts, StreamError(k) \/ XmlStreamEnd(k) PROVE TypeInv'
  BY <1>0, <1>1, <1>2, <1>4, <1>5, <1>8 DEF StreamError, XmlStreamEnd, Reconnects, TypeOK
<1>9. ASSUME NEW k \in Attempts, Downgrade(k) PROVE TypeInv'
  BY <1>0, <1>1, <1>2, <1>4, <1>9, AttemptTypes DEF Downgrade, TypeOK
<1>10. ASSUME NEW k \in Attempts, PairSuccess(k) PROVE TypeInv'
  <2>1. Resolve(att[k], "pair-success") \in Attempt
    BY <1>0, AttemptTypes
  <2>2. [Resolve(att[k], "pair-success") EXCEPT !.pairing = TRUE] \in Attempt
    BY <2>1 DEF Attempt
  <2> QED
    BY <1>0, <1>1, <1>2, <1>4, <1>10, <2>2 DEF PairSuccess, TypeOK
<1>11. ASSUME NEW k \in Attempts, PairRefused(k) PROVE TypeInv'
  BY <1>0, <1>1, <1>3, <1>4, <1>11 DEF PairRefused, TypeOK
<1>12. ASSUME NEW k \in Attempts, LinkCode(k) \/ LinkAcked(k) PROVE TypeInv'
  <2>1. [att[k] EXCEPT !.link = "none"] \in Attempt
    BY <1>0 DEF Attempt
  <2>2. [att[k] EXCEPT !.pairing = TRUE, !.link = "building"] \in Attempt
    <3>1. [att[k] EXCEPT !.pairing = TRUE] \in Attempt
      BY <1>0, ZenonT(60) DEF Attempt
    <3> QED
      BY <3>1 DEF Attempt
  <2> QED
    BY <1>0, <1>1, <1>2, <1>4, <1>12, <2>1, <2>2 DEF LinkCode, LinkAcked, TypeOK
<1>13. ASSUME NEW k \in Attempts, LinkBuilt(k) \/ LinkFails(k) PROVE TypeInv'
  <2>1. Resolve(att[k], "failure") \in Attempt
    BY <1>0, AttemptTypes
  <2>2. /\ [att[k] EXCEPT !.link = "awaited"] \in Attempt
        /\ [Resolve(att[k], "failure") EXCEPT !.pairing = FALSE, !.link = "orphaned"] \in Attempt
        /\ [Resolve(att[k], "failure") EXCEPT !.pairing = FALSE, !.link = "none"] \in Attempt
    BY <1>0, <2>1 DEF Attempt
  <2> QED
    BY <1>0, <1>1, <1>2, <1>13, <2>2 DEF LinkBuilt, LinkFails, TypeOK, history
<1>14. ASSUME NEW k \in Attempts, LinkTimer(k) PROVE TypeInv'
  BY <1>0, <1>1, <1>3, <1>14 DEF LinkTimer, TypeOK, history
<1>15. ASSUME NEW k \in Attempts, ConnectionLost(k) \/ SocketCloses(k) \/ DisposeTimer(k)
       PROVE  TypeInv'
  <2>1. /\ UnexpectedClose(Closing(att[k])) \in Attempt
        /\ UnexpectedClose(att[k]) \in Attempt /\ Dispose(att[k]) \in Attempt
    BY <1>0, AttemptTypes
  <2> DEFINE a == UnexpectedClose(att[k])
             b == Dispose(att[k])
  <2>2. /\ [a EXCEPT !.sock = "closed"] \in Attempt
        /\ [b EXCEPT !.dispose = FALSE] \in Attempt
    BY <2>1, FieldTypes
  <2> QED
    BY <1>0, <1>1, <1>2, <1>15, <2>1, <2>2
       DEF ConnectionLost, SocketCloses, DisposeTimer, TypeOK, history
<1>16. CASE Disconnect
  <2>1. \A k \in Attempts : Dispose(att[k]) \in Attempt
    BY <1>0, AttemptTypes
  <2>2. att' \in [Attempts -> Attempt]
    BY <1>0, <1>16, <2>1 DEF Disconnect
  <2>3. /\ stopReconnect' \in BOOLEAN /\ wanted' \in BOOLEAN /\ conn' \in Statuses
        /\ registered' \in BOOLEAN /\ late' \in {"none", "restart", "frame"}
        /\ thrown' \in {"nothing", "transition", "pairing", "timeout"}
    BY <1>0, <1>16, Zenon DEF Disconnect, TypeOK, Statuses
  <2>4. disposer' \in 0..MaxAttempts
    BY <1>16, ConnectionAssumption DEF Disconnect
  <2>5. UNCHANGED breaker /\ UNCHANGED loops
    BY <1>16 DEF Disconnect
  <2> QED
    BY <1>1, <1>2, <2>2, <2>3, <2>4, <2>5
<1>17. CASE CooldownElapses
  <2>1. Breaker!TypeOK'
    BY <1>0, <1>17, BreakerTypes DEF CooldownElapses, TypeOK
  <2>2. UNCHANGED << loops, att, history >>
    BY <1>17 DEF CooldownElapses
  <2> QED
    BY <1>0, <1>1, <1>17, <2>1, <2>2 DEF CooldownElapses, TypeOK, history
<1> QED
  BY <1>6, <1>7, <1>8, <1>9, <1>10, <1>11, <1>12, <1>13, <1>14, <1>15, <1>16, <1>17 DEF Frame

\* Every reachable state has the right types, for all values of the constants.
THEOREM ConnectionTypeCorrect == Spec => []TypeOK
<1>1. Init => TypeInv
  <2> SUFFICES ASSUME Init PROVE TypeInv
    OBVIOUS
  <2>1. st \in {"closed", "open", "half-open"} /\ cooled \in BOOLEAN
    BY Zenon DEF Init, Breaker!Init
  <2>2. n \in 0..Threshold
    BY ConnectionAssumption DEF Init, Breaker!Init
  <2>3. Breaker!TypeOK
    BY <2>1, <2>2 DEF Breaker!TypeOK
  <2>4. att \in [Attempts -> Attempt]
    BY FreshAttempt DEF Init
  <2>5. /\ stopReconnect \in BOOLEAN /\ registered \in BOOLEAN /\ wanted \in BOOLEAN
        /\ conn \in Statuses /\ thrown \in {"nothing", "transition", "pairing", "timeout"}
        /\ late \in {"none", "restart", "frame"}
    BY Zenon DEF Init, Statuses
  <2>6. disposer \in 0..MaxAttempts /\ backoff \in [Calls -> 0..MaxBackoff]
        /\ cur \in [Calls -> 0..MaxAttempts]
    BY ConnectionAssumption DEF Init
  <2>7. pc = [c \in Calls |-> "idle"]
    BY DEF Init
  <2> QED
    BY <2>3, <2>4, <2>5, <2>6, <2>7 DEF TypeInv, TypeOK
<1>2. ASSUME TypeInv, [Next]_vars PROVE TypeInv'
  <2>1. CASE Next
    BY <1>2, <2>1, LoopTypes, TaskTypes DEF Next
  <2>2. CASE UNCHANGED vars
    BY <1>2, <2>2, BreakerTypes DEF vars, TypeInv, TypeOK, loops, history
  <2> QED
    BY <1>2, <2>1, <2>2
<1>3. TypeInv => TypeOK
  BY DEF TypeInv
<1> QED
  BY <1>1, <1>2, <1>3, PTL DEF Spec

-----------------------------------------------------------------------------
(***************************************************************************)
(* The status and the only loop                                            *)
(*                                                                         *)
(* In the ordinary use the loop that runs, the attempt it is at and the    *)
(* status agree at every await.  What keeps them so is that no frame on    *)
(* time can reach the attempt of a loop that has left it: such an attempt  *)
(* was disposed of, has no open socket, has failed or was never live.      *)
(***************************************************************************)

\* Attempt k can receive no frame that is not late: it is over for the client.
Over(k) ==
  \/ att[k].stage # "live" \/ att[k].dispose
  \/ att[k].sock # "open" \/ Failed(att[k])

\* Nothing has happened to attempt k yet that could settle its login.
Opening(k) ==
  /\ att[k].stage = "opening" /\ att[k].outcome = "none"
  /\ att[k].link = "none" /\ ~att[k].keepAlive /\ ~att[k].dispose

\* The attempts made are those up to the one call c is at.
Latest(c) == \A k \in Attempts : att[k].stage = "unused" <=> k > cur[c]

\* What a login says of the status while its loop has not gone on with it.
LoginStatus(k) ==
  /\ att[k].stage = "live"
  /\ att[k].outcome = "none" => conn = "connecting"
  /\ att[k].outcome = "success" => conn = "connected"
  /\ att[k].outcome = "pair-success" =>
       conn = "connecting" \/ (conn = "disconnected" /\ Over(k))

Between == {"loop", "cooling", "attempt", "backoff", "rejected"}

\* Where the only loop that runs is, its attempt and the status agree.
Agree(c) ==
  /\ Latest(c)
  /\ pc[c] = "fetching" => cur[c] = 0 /\ conn = "disconnected"
  /\ pc[c] \in {"loop", "cooling", "attempt"} => conn \in {"disconnected", "reconnecting"}
  /\ pc[c] = "backoff" => conn = "reconnecting"
  /\ pc[c] \in Between /\ cur[c] # 0 => Over(cur[c])
  /\ pc[c] = "connecting" => cur[c] # 0 /\ conn = "connecting" /\ Opening(cur[c])
  /\ pc[c] = "login" => cur[c] # 0 /\ LoginStatus(cur[c])
  /\ pc[c] = "returned" /\ cur[c] # 0 => Over(cur[c]) \/ conn = "connected"

AllIdle == \A c \in Calls : pc[c] = "idle"

AgreeInv ==
  /\ \A c \in Calls : pc[c] = "idle" => cur[c] = 0
  /\ AllIdle => conn = "disconnected" /\ \A k \in Attempts : att[k].stage = "unused"
  /\ Ordinary => thrown = "nothing" /\ \A c \in Calls : pc[c] # "idle" => Agree(c)

\* Resolve() settles an attempt that is not settled, and no other part of it.
LEMMA ResolveFields ==
  ASSUME NEW a \in Attempt, NEW o \in {"success", "failure", "rate-limit", "pair-success"}
  PROVE  /\ Resolve(a, o) \in Attempt
         /\ Resolve(a, o).stage = a.stage /\ Resolve(a, o).sock = a.sock
         /\ Resolve(a, o).dispose = a.dispose
         /\ Resolve(a, o).outcome = IF a.outcome = "none" THEN o ELSE a.outcome
<1>1. Resolve(a, o) \in Attempt
  BY AttemptTypes
<1>2. /\ Resolve(a, o).stage = a.stage /\ Resolve(a, o).sock = a.sock
      /\ Resolve(a, o).outcome = IF a.outcome = "none" THEN o ELSE a.outcome
  BY DEF Resolve, Attempt
<1>3. Resolve(a, o).dispose = a.dispose
  BY DEF Resolve, Attempt
<1> QED
  BY <1>1, <1>2, <1>3

\* Reporting a close that nobody expected settles the login, if it is not.
LEMMA CloseFields ==
  ASSUME NEW a \in Attempt
  PROVE  /\ UnexpectedClose(a) \in Attempt
         /\ UnexpectedClose(a).stage = a.stage /\ UnexpectedClose(a).sock = a.sock
         /\ UnexpectedClose(a).dispose = a.dispose
         /\ \/ UnexpectedClose(a).outcome = a.outcome
            \/ a.outcome = "none" /\ UnexpectedClose(a).outcome \in {"failure", "pair-success"}
<1>1. UnexpectedClose(a) \in Attempt
  BY AttemptTypes
<1>2. PICK o \in {"failure", "pair-success"} : o = Reconnects(a)
  BY DEF Reconnects
<1> DEFINE r == Resolve(a, o)
<1>3. /\ r \in Attempt /\ r.stage = a.stage /\ r.sock = a.sock /\ r.dispose = a.dispose
      /\ r.outcome = IF a.outcome = "none" THEN o ELSE a.outcome
  BY ResolveFields
<1>4. UnexpectedClose(a) = a \/ UnexpectedClose(a) = [r EXCEPT !.cli = TRUE]
  BY <1>2 DEF UnexpectedClose
<1> HIDE DEF r
<1> DEFINE e == [r EXCEPT !.cli = TRUE]
<1>5. e.stage = r.stage /\ e.sock = r.sock /\ e.outcome = r.outcome
  BY <1>3 DEF Attempt
<1>6. e.dispose = r.dispose
  BY <1>3 DEF Attempt
<1> HIDE DEF e
<1>7. CASE UnexpectedClose(a) = a
  BY <1>1, <1>7
<1>8. CASE UnexpectedClose(a) = e
  BY <1>1, <1>2, <1>3, <1>5, <1>6, <1>8
<1> QED
  BY <1>4, <1>7, <1>8 DEF e

\* What a timer, a close or the answer to companion_finish does to attempt k.
Calm(k) ==
  /\ UNCHANGED << conn, thrown, loops, history >>
  /\ \E a \in Attempt :
       /\ att' = [att EXCEPT ![k] = a]
       /\ a.stage = att[k].stage
       /\ Over(k) => Over(k)'
       /\ \/ a.outcome = att[k].outcome
          \/ att[k].outcome = "none" /\ a.outcome \in {"failure", "pair-success"}
  /\ ~Opening(k)

\* The timers and closes leave the status alone, settle a login at most, and
\* make no attempt receive again.
LEMMA CalmTasks ==
  ASSUME TypeOK, NEW k \in Attempts,
         \/ LinkBuilt(k) \/ LinkFails(k)
         \/ ConnectionLost(k) \/ SocketCloses(k) \/ DisposeTimer(k)
  PROVE  Calm(k)
<1>0. att \in [Attempts -> Attempt] /\ att[k] \in Attempt
  BY DEF TypeOK
<1>1. UNCHANGED << conn, thrown, loops, history >>
  BY DEF LinkBuilt, LinkFails, ConnectionLost, SocketCloses, DisposeTimer
<1>2. ~Opening(k)
  <2>1. CASE LinkBuilt(k) \/ LinkFails(k)
    BY <2>1 DEF LinkBuilt, LinkFails, Opening
  <2>2. CASE ConnectionLost(k) \/ DisposeTimer(k)
    BY <2>2, Zenon DEF ConnectionLost, DisposeTimer, Opening
  <2>3. CASE SocketCloses(k)
    BY <2>3 DEF SocketCloses, Opening
  <2> QED
    BY <2>1, <2>2, <2>3
<1>3. ASSUME NEW a \in Attempt, att' = [att EXCEPT ![k] = a], a.stage = att[k].stage,
             a.sock # "open" \/ (a.sock = att[k].sock /\ a.dispose = att[k].dispose),
             \/ a.outcome = att[k].outcome
             \/ att[k].outcome = "none" /\ a.outcome \in {"failure", "pair-success"}
      PROVE  Calm(k)
  <2>1. att'[k] = a
    BY <1>0, <1>3
  <2>2. Over(k) => Over(k)'
    BY <1>3, <2>1 DEF Over, Failed
  <2> QED
    BY <1>1, <1>2, <1>3, <2>2 DEF Calm
<1>4. CASE LinkBuilt(k) \/ LinkFails(k)
  <2>1. ASSUME att' = [att EXCEPT ![k].link = "awaited"] PROVE Calm(k)
    <3> DEFINE a == [att[k] EXCEPT !.link = "awaited"]
    <3>1. a \in Attempt /\ a.stage = att[k].stage /\ a.sock = att[k].sock
          /\ a.outcome = att[k].outcome
      BY <1>0 DEF Attempt
    <3>2. a.dispose = att[k].dispose
      BY <1>0 DEF Attempt
    <3>3. att' = [att EXCEPT ![k] = a]
      BY <2>1
    <3> HIDE DEF a
    <3> QED
      BY <1>3, <3>1, <3>2, <3>3
  <2>2. ASSUME NEW l \in {"none", "orphaned"},
               att' = [att EXCEPT ![k] =
                         [Resolve(att[k], "failure") EXCEPT !.pairing = FALSE, !.link = l]]
        PROVE  Calm(k)
    <3> DEFINE r == Resolve(att[k], "failure")
               a == [r EXCEPT !.pairing = FALSE, !.link = l]
    <3>1. /\ r \in Attempt /\ r.stage = att[k].stage /\ r.sock = att[k].sock
          /\ r.dispose = att[k].dispose
          /\ r.outcome = IF att[k].outcome = "none" THEN "failure" ELSE att[k].outcome
      BY <1>0, ResolveFields
    <3>2. att' = [att EXCEPT ![k] = a]
      BY <2>2
    <3> HIDE DEF r
    <3>3. a \in Attempt /\ a.stage = r.stage /\ a.sock = r.sock /\ a.outcome = r.outcome
      BY <3>1 DEF Attempt
    <3>4. a.dispose = r.dispose
      BY <3>1 DEF Attempt
    <3> HIDE DEF a
    <3> QED
      BY <1>3, <3>1, <3>2, <3>3, <3>4
  <2> QED
    BY <1>4, <2>1, <2>2 DEF LinkBuilt, LinkFails
<1>5. CASE ConnectionLost(k)
  <2> DEFINE b == Closing(att[k])
             a == UnexpectedClose(b)
  <2>1. b \in Attempt /\ b.stage = att[k].stage /\ b.sock # "open" /\ b.outcome = att[k].outcome
    <3>1. b \in Attempt
      BY <1>0, AttemptTypes
    <3> QED
      BY <1>0, <3>1 DEF Closing, Attempt
  <2>2. att' = [att EXCEPT ![k] = a]
    BY <1>0, <1>5 DEF ConnectionLost
  <2> HIDE DEF b
  <2>3. /\ a \in Attempt /\ a.stage = b.stage /\ a.sock = b.sock
        /\ \/ a.outcome = b.outcome
           \/ b.outcome = "none" /\ a.outcome \in {"failure", "pair-success"}
    BY <2>1, CloseFields
  <2> HIDE DEF a
  <2> QED
    BY <1>3, <2>1, <2>2, <2>3
<1>6. CASE SocketCloses(k)
  <2> DEFINE b == UnexpectedClose(att[k])
             a == [b EXCEPT !.sock = "closed"]
  <2>1. /\ b \in Attempt /\ b.stage = att[k].stage
        /\ \/ b.outcome = att[k].outcome
           \/ att[k].outcome = "none" /\ b.outcome \in {"failure", "pair-success"}
    BY <1>0, CloseFields
  <2>2. att' = [att EXCEPT ![k] = a]
    BY <1>0, <1>6 DEF SocketCloses
  <2> HIDE DEF b
  <2>3. a \in Attempt /\ a.stage = b.stage /\ a.sock = "closed" /\ a.outcome = b.outcome
    BY <2>1 DEF Attempt
  <2> HIDE DEF a
  <2> QED
    BY <1>3, <2>1, <2>2, <2>3
<1>7. CASE DisposeTimer(k)
  <2> DEFINE b == Closing(att[k])
             d == [b EXCEPT !.keepAlive = FALSE]
             a == [d EXCEPT !.dispose = FALSE]
  <2>1. b \in Attempt /\ b.stage = att[k].stage /\ b.sock # "open" /\ b.outcome = att[k].outcome
    <3>1. b \in Attempt
      BY <1>0, AttemptTypes
    <3> QED
      BY <1>0, <3>1 DEF Closing, Attempt
  <2>2. att' = [att EXCEPT ![k] = a]
    BY <1>0, <1>7 DEF DisposeTimer, Dispose
  <2> HIDE DEF b
  <2>3. d \in Attempt /\ d.stage = b.stage /\ d.sock = b.sock /\ d.outcome = b.outcome
    BY <2>1 DEF Attempt
  <2> HIDE DEF d
  <2>4. a \in Attempt /\ a.stage = d.stage /\ a.sock = d.sock /\ a.outcome = d.outcome
    BY <2>3 DEF Attempt
  <2> HIDE DEF a
  <2> QED
    BY <1>3, <2>1, <2>2, <2>3, <2>4
<1> QED
  BY <1>4, <1>5, <1>6, <1>7

\* What is ordinary after a step other than connect() was ordinary before it.
LEMMA OrdinaryBefore ==
  ASSUME TypeOK, Ordinary',
         \A c \in Calls : pc[c] # "idle" => pc'[c] # "idle",
         wanted' => wanted, late' = "none" => late = "none",
         thrown = "nothing" \/ thrown' = thrown
  PROVE  Ordinary
BY DEF Ordinary, OneCall

\* A frame that is not late arrives on the attempt of the only loop: that
\* loop waits for its outcome, or has returned and the client is connected.
LEMMA FrameOnTime ==
  ASSUME TypeOK, Ordinary, NEW c \in Calls, pc[c] # "idle", Agree(c),
         NEW k \in Attempts, NEW kind \in {"frame", "restart"}, Receives(k, kind),
         late' = "none"
  PROVE  /\ k = cur[c] /\ cur[c] # 0 /\ ~Over(k) /\ att[k].stage = "live"
         /\ \/ pc[c] = "login" /\ att[k].outcome = "none" /\ conn = "connecting"
            \/ pc[c] = "returned" /\ conn = "connected"
<1>1. att[k].stage = "live" /\ att[k].sock # "closed" /\ ~GivenUp(k) /\ Quiet
  BY DEF Receives
<1>2. ~Over(k)
  <2>1. att[k].sock \in {"open", "closing", "closed"}
    BY DEF TypeOK, Attempt
  <2> QED
    BY <1>1, <2>1 DEF Over, GivenUp
<1>3. k = cur[c] /\ cur[c] # 0
  <2>1. ~(k > cur[c])
    BY <1>1 DEF Agree, Latest
  <2>2. cur[c] \in 0..MaxAttempts /\ k \in Nat /\ k # 0 /\ MaxAttempts \in Nat
    BY ConnectionAssumption DEF TypeOK, Attempts
  <2>3. ~(cur[c] > k)
    <3> SUFFICES ASSUME cur[c] > k PROVE FALSE
      OBVIOUS
    <3>1. cur[c] \in Attempts
      BY <2>2 DEF Attempts
    <3>2. att[cur[c]].stage # "unused"
      BY <2>2, <3>1 DEF Agree, Latest
    <3> QED
      BY <1>1, <3>1, <3>2 DEF GivenUp
  <2> QED
    BY <2>1, <2>2, <2>3
<1>4. pc[c] \in {"login", "returned"}
  <2>1. pc[c] \in Labels
    BY DEF TypeOK, Labels
  <2> QED
    BY <1>1, <1>2, <1>3, <2>1 DEF Agree, Between, Opening, Labels
<1>5. pc[c] = "login" => att[k].outcome = "none" /\ conn = "connecting"
  BY <1>1, <1>3 DEF Quiet, Ready, Agree, LoginStatus
<1>6. pc[c] = "returned" => conn = "connected"
  BY <1>2, <1>3 DEF Agree
<1> QED
  BY <1>1, <1>2, <1>3, <1>4, <1>5, <1>6

\* A handler that makes a of an attempt keeps the loop, the attempt and the
\* status in agreement when it leaves the status alone and settles the login
\* at most, or logs in, or ends the session and disposes of the attempt.
LEMMA HandlerAgrees ==
  ASSUME TypeOK, NEW c \in Calls, pc[c] # "idle", Agree(c), UNCHANGED << pc, cur >>,
         cur[c] # 0, ~Over(cur[c]), cur[c] \in Attempts,
         \/ pc[c] = "login" /\ att[cur[c]].outcome = "none" /\ conn = "connecting"
         \/ pc[c] = "returned" /\ conn = "connected",
         NEW a \in Attempt, att' = [att EXCEPT ![cur[c]] = a], a.stage = att[cur[c]].stage,
         \/ /\ conn' = conn
            /\ \/ a.outcome = att[cur[c]].outcome
               \/ att[cur[c]].outcome = "none" /\ a.outcome \in {"failure", "pair-success"}
         \/ /\ conn' = "connected"
            /\ a.outcome = IF att[cur[c]].outcome = "none" THEN "success"
                           ELSE att[cur[c]].outcome
         \/ /\ conn' = "disconnected" /\ a.dispose
            /\ att[cur[c]].outcome = "none" =>
                 a.outcome \in {"failure", "rate-limit", "pair-success"}
  PROVE  Agree(c)'
<1>0. att \in [Attempts -> Attempt] /\ att'[cur[c]] = a /\ att[cur[c]].stage = "live"
  BY DEF TypeOK, Over
<1>1. Latest(c)'
  BY <1>0 DEF Agree, Latest
<1>2. a.dispose => Over(cur[c])'
  BY <1>0 DEF Over
<1>3. CASE pc[c] = "login"
  <2>1. LoginStatus(cur[c])'
    BY <1>0, <1>2, <1>3 DEF LoginStatus
  <2> QED
    BY <1>1, <1>3, <2>1 DEF Agree, Between
<1>4. CASE pc[c] = "returned"
  <2>1. Over(cur[c])' \/ conn' = "connected"
    BY <1>2, <1>4
  <2> QED
    BY <1>1, <1>4, <2>1 DEF Agree, Between
<1> QED
  BY <1>3, <1>4

\* The frames keep AgreeInv.
LEMMA FrameAgrees ==
  ASSUME TypeOK, AgreeInv, NEW k \in Attempts, Frame(k)
  PROVE  AgreeInv'
<1>0. att \in [Attempts -> Attempt] /\ att[k] \in Attempt
  BY DEF TypeOK
<1>1. PICK kind \in {"frame", "restart"} : Receives(k, kind)
  BY DEF Frame, Success, StreamError, XmlStreamEnd, Downgrade, PairSuccess, PairRefused,
     LinkCode, LinkAcked, Failure
<1>2. UNCHANGED << pc, cur, wanted >>
  BY DEF Frame, Success, StreamError, XmlStreamEnd, Downgrade, PairSuccess, PairRefused,
     LinkCode, LinkAcked, Failure, Ends, loops
<1>3. Quiet /\ thrown = "nothing" /\ att[k].stage = "live" /\ (late' = "none" => late = "none")
  BY <1>1 DEF Receives, Quiet
<1>4. ~AllIdle
  BY <1>3 DEF AgreeInv
<1> SUFFICES ASSUME Ordinary'
             PROVE  thrown' = "nothing" /\ \A c \in Calls : pc[c] # "idle" => Agree(c)'
  BY <1>2, <1>4 DEF AgreeInv, AllIdle
<1>5. Ordinary
  BY <1>2, <1>3, OrdinaryBefore
<1>6. late' = "none" /\ thrown' \in {"nothing", "transition"}
  BY DEF Ordinary
<1>7. ASSUME NEW c \in Calls, pc[c] # "idle"
      PROVE  /\ Agree(c) /\ k = cur[c] /\ cur[c] # 0 /\ ~Over(k)
             /\ \/ pc[c] = "login" /\ att[k].outcome = "none" /\ conn = "connecting"
                \/ pc[c] = "returned" /\ conn = "connected"
  <2>1. Agree(c)
    BY <1>5, <1>7 DEF AgreeInv
  <2> QED
    BY <1>1, <1>5, <1>6, <1>7, <2>1, FrameOnTime
<1>8. conn \in {"connecting", "connected"}
  BY <1>4, <1>7 DEF AllIdle
<1>9. ASSUME NEW a \in Attempt, att' = [att EXCEPT ![k] = a], a.stage = att[k].stage,
             thrown' = thrown,
             \/ /\ conn' = conn
                /\ \/ a.outcome = att[k].outcome
                   \/ att[k].outcome = "none" /\ a.outcome \in {"failure", "pair-success"}
             \/ /\ conn' = "connected"
                /\ a.outcome = IF att[k].outcome = "none" THEN "success" ELSE att[k].outcome
             \/ /\ conn' = "disconnected" /\ a.dispose
                /\ att[k].outcome = "none" =>
                     a.outcome \in {"failure", "rate-limit", "pair-success"}
      PROVE  thrown' = "nothing" /\ \A c \in Calls : pc[c] # "idle" => Agree(c)'
  <2> SUFFICES ASSUME NEW c \in Calls, pc[c] # "idle" PROVE Agree(c)'
    BY <1>3, <1>9
  <2>1. /\ Agree(c) /\ k = cur[c] /\ cur[c] # 0 /\ ~Over(k)
        /\ \/ pc[c] = "login" /\ att[k].outcome = "none" /\ conn = "connecting"
           \/ pc[c] = "returned" /\ conn = "connected"
    BY <1>7
  <2> QED
    BY <1>2, <1>9, <2>1, HandlerAgrees
<1> DEFINE Done == thrown' = "nothing" /\ \A c \in Calls : pc[c] # "idle" => Agree(c)'
<1> HIDE DEF Done
<1>10. CASE Success(k)
  <2>1. CanTransition(conn, "connected")
    BY <1>8 DEF CanTransition
  <2> DEFINE r == Resolve(att[k], "success")
             a == [r EXCEPT !.cli = TRUE]
  <2>2. /\ r \in Attempt /\ r.stage = att[k].stage
        /\ r.outcome = IF att[k].outcome = "none" THEN "success" ELSE att[k].outcome
    BY <1>0, ResolveFields
  <2>3. att' = [att EXCEPT ![k] = a] /\ thrown' = thrown /\ conn' = "connected"
    BY <1>0, <1>10, <2>1 DEF Success, LoggedIn
  <2> HIDE DEF r
  <2>4. a \in Attempt /\ a.stage = r.stage /\ a.outcome = r.outcome
    BY <2>2 DEF Attempt
  <2> HIDE DEF a
  <2> QED
    BY <1>9, <2>2, <2>3, <2>4 DEF Done
<1>11. ASSUME NEW o \in {"failure", "rate-limit", "pair-success"}, EndSession(k, o),
              thrown' = thrown
       PROVE  Done
  <2> DEFINE r == Resolve(att[k], o)
             s == [r EXCEPT !.cli = TRUE]
             a == [s EXCEPT !.dispose = TRUE]
  <2>2. /\ r \in Attempt /\ r.stage = att[k].stage
        /\ r.outcome = IF att[k].outcome = "none" THEN o ELSE att[k].outcome
    BY <1>0, ResolveFields
  <2>3. att' = [att EXCEPT ![k] = a] /\ conn' = "disconnected"
    BY <1>0, <1>11 DEF EndSession
  <2> HIDE DEF r
  <2>4. s \in Attempt /\ s.stage = r.stage /\ s.outcome = r.outcome
    BY <2>2 DEF Attempt
  <2> HIDE DEF s
  <2>5. a \in Attempt /\ a.stage = s.stage /\ a.outcome = s.outcome
    BY <2>4 DEF Attempt
  <2>6. a.dispose
    BY <2>4 DEF Attempt
  <2> HIDE DEF a
  <2>7. att[k].outcome = "none" => a.outcome \in {"failure", "rate-limit", "pair-success"}
    BY <2>2, <2>4, <2>5
  <2> QED
    BY <1>9, <1>11, <2>2, <2>3, <2>4, <2>5, <2>6, <2>7 DEF Done
<1>12. CASE StreamError(k) \/ XmlStreamEnd(k) \/ \E reason \in {"fatal", "463"} : Failure(k, reason)
  <2>1. \E o \in {"failure", "rate-limit", "pair-success"} : EndSession(k, o)
    BY <1>12 DEF StreamError, XmlStreamEnd, Failure, Reconnects
  <2>2. thrown' = thrown
    BY <1>12 DEF StreamError, XmlStreamEnd, Failure
  <2> QED
    BY <1>11, <2>1, <2>2 DEF Done
<1>13. CASE Downgrade(k)
  <2> DEFINE a == Resolve(att[k], "failure")
  <2>1. /\ a \in Attempt /\ a.stage = att[k].stage
        /\ a.outcome = IF att[k].outcome = "none" THEN "failure" ELSE att[k].outcome
    BY <1>0, ResolveFields
  <2>2. att' = [att EXCEPT ![k] = a] /\ thrown' = thrown /\ conn' = conn
    BY <1>0, <1>13 DEF Downgrade
  <2> HIDE DEF a
  <2> QED
    BY <1>9, <2>1, <2>2 DEF Done
<1>14. CASE PairSuccess(k)
  <2> DEFINE r == Resolve(att[k], "pair-success")
             a == [r EXCEPT !.pairing = TRUE]
  <2>1. /\ r \in Attempt /\ r.stage = att[k].stage
        /\ r.outcome = IF att[k].outcome = "none" THEN "pair-success" ELSE att[k].outcome
    BY <1>0, ResolveFields
  <2>2. att' = [att EXCEPT ![k] = a] /\ thrown' = thrown /\ conn' = conn
    BY <1>0, <1>14 DEF PairSuccess
  <2> HIDE DEF r
  <2>3. a \in Attempt /\ a.stage = r.stage /\ a.outcome = r.outcome
    BY <2>1 DEF Attempt
  <2> HIDE DEF a
  <2> QED
    BY <1>9, <2>1, <2>2, <2>3 DEF Done
<1>15. CASE PairRefused(k)
  <2>1. thrown' = "pairing"
    BY <1>15 DEF PairRefused, Ends
  <2> QED
    BY <1>6, <2>1
<1>16. CASE LinkCode(k)
  <2> DEFINE r == [att[k] EXCEPT !.pairing = TRUE]
             a == [r EXCEPT !.link = "building"]
  <2>1. att' = [att EXCEPT ![k] = a] /\ thrown' = thrown /\ conn' = conn
    BY <1>0, <1>16 DEF LinkCode
  <2>2. r \in Attempt /\ r.stage = att[k].stage /\ r.outcome = att[k].outcome
    BY <1>0 DEF Attempt
  <2> HIDE DEF r
  <2>3. a \in Attempt /\ a.stage = r.stage /\ a.outcome = r.outcome
    BY <2>2 DEF Attempt
  <2> HIDE DEF a
  <2> QED
    BY <1>9, <2>1, <2>2, <2>3 DEF Done
<1>17. CASE LinkAcked(k)
  <2> DEFINE a == [att[k] EXCEPT !.link = "none"]
  <2>1. att' = [att EXCEPT ![k] = a] /\ thrown' = thrown /\ conn' = conn
    BY <1>0, <1>17 DEF LinkAcked
  <2>2. a \in Attempt /\ a.stage = att[k].stage /\ a.outcome = att[k].outcome
    BY <1>0 DEF Attempt
  <2> HIDE DEF a
  <2> QED
    BY <1>9, <2>1, <2>2 DEF Done
<1> QED
  BY <1>10, <1>12, <1>13, <1>14, <1>15, <1>16, <1>17 DEF Frame, Done

\* So do the timers and the closes.
LEMMA CalmAgrees ==
  ASSUME TypeOK, AgreeInv, NEW k \in Attempts, Calm(k)
  PROVE  AgreeInv'
<1>0. att \in [Attempts -> Attempt] /\ UNCHANGED << conn, thrown, pc, cur, wanted, late >>
  BY DEF TypeOK, Calm, loops, history
<1>1. PICK a \in Attempt :
        /\ att' = [att EXCEPT ![k] = a]
        /\ a.stage = att[k].stage
        /\ Over(k) => Over(k)'
        /\ \/ a.outcome = att[k].outcome
           \/ att[k].outcome = "none" /\ a.outcome \in {"failure", "pair-success"}
  BY DEF Calm
<1>2. \A j \in Attempts : att'[j].stage = att[j].stage
  BY <1>0, <1>1
<1>3. AllIdle' => conn' = "disconnected" /\ \A j \in Attempts : att'[j].stage = "unused"
  BY <1>0, <1>2 DEF AgreeInv, AllIdle
<1>4. \A j \in Attempts : j # k => att'[j] = att[j]
  BY <1>0, <1>1
<1>5. \A j \in Attempts : Over(j) => Over(j)'
  BY <1>1, <1>4 DEF Over
<1>6. ASSUME NEW c \in Calls, pc[c] # "idle", Agree(c) PROVE Agree(c)'
  <2>1. Latest(c)'
    BY <1>0, <1>2, <1>6 DEF Agree, Latest
  <2>2. cur[c] # 0 => cur[c] \in Attempts
    BY ConnectionAssumption DEF TypeOK, Attempts
  <2>3. pc[c] = "connecting" => Opening(cur[c])'
    BY <1>0, <1>4, <1>6, <2>2 DEF Agree, Opening, Calm
  <2>4. pc[c] = "login" => LoginStatus(cur[c])'
    <3> SUFFICES ASSUME pc[c] = "login" PROVE LoginStatus(cur[c])'
      OBVIOUS
    <3>1. LoginStatus(cur[c]) /\ cur[c] \in Attempts
      BY <1>6, <2>2 DEF Agree
    <3>2. CASE cur[c] = k
      <4>1. att'[k] = a
        BY <1>0, <1>1
      <4> QED
        BY <1>0, <1>1, <1>5, <3>1, <3>2, <4>1 DEF LoginStatus
    <3>3. CASE cur[c] # k
      BY <1>0, <1>4, <1>5, <3>1, <3>3 DEF LoginStatus
    <3> QED
      BY <3>2, <3>3
  <2>5. cur[c] # 0 /\ Over(cur[c]) => Over(cur[c])'
    BY <1>0, <1>5, <2>2 DEF Over
  <2> QED
    BY <1>0, <1>6, <2>1, <2>3, <2>4, <2>5 DEF Agree
<1>7. Ordinary' => Ordinary
  BY <1>0 DEF Ordinary, OneCall
<1> QED
  BY <1>0, <1>3, <1>6, <1>7 DEF AgreeInv

\* A loop that goes on, or settles what it awaits, keeps AgreeInv.
LEMMA LoopAgrees ==
  ASSUME TypeOK, AgreeInv, NEW c \in Calls, Continue(c) \/ Awaited(c)
  PROVE  AgreeInv'
<1>0. /\ att \in [Attempts -> Attempt] /\ cur \in [Calls -> 0..MaxAttempts]
      /\ pc \in [Calls -> Labels] /\ MaxAttempts \in Nat
  BY ConnectionAssumption DEF TypeOK, Labels
<1>1. /\ UNCHANGED history /\ thrown' = thrown
      /\ pc[c] \in {"fetching", "cooling", "backoff", "loop", "attempt", "connecting", "login"}
      /\ \E l \in Labels \ {"idle"} : pc' = [pc EXCEPT ![c] = l]
  BY DEF Continue, Loop, StartAttempt, PairSuccessOutcome, FailureOutcome, SuccessOutcome,
     Awaited, Fetched, CooldownSlept, BackoffSlept, AttemptFails, AttemptLive, Catch, GoTo,
     Labels
<1>2. \A d \in Calls : d # c => pc'[d] = pc[d]
  BY <1>0, <1>1
<1>3. pc'[c] # "idle"
  BY <1>0, <1>1
<1>4. \A d \in Calls : d # c => cur'[d] = cur[d]
  BY <1>0 DEF Continue, Loop, StartAttempt, PairSuccessOutcome, FailureOutcome, SuccessOutcome,
     Awaited, Fetched, CooldownSlept, BackoffSlept, AttemptFails, AttemptLive
<1> SUFFICES ASSUME Ordinary'
             PROVE  thrown' = "nothing" /\ \A d \in Calls : pc'[d] # "idle" => Agree(d)'
  BY <1>2, <1>3, <1>4 DEF AgreeInv, AllIdle
<1>5. Ordinary
  BY <1>1, <1>2, <1>3, OrdinaryBefore DEF history
<1>6. thrown' = "nothing" /\ Agree(c)
  BY <1>1, <1>5 DEF AgreeInv
<1>7. \A d \in Calls : pc'[d] # "idle" => d = c
  BY <1>3 DEF Ordinary, OneCall
<1> SUFFICES Agree(c)'
  BY <1>6, <1>7
<1>8. \/ cur[c] = 0
      \/ cur[c] \in Attempts /\ att[cur[c]].stage # "unused"
  <2>1. cur[c] = 0 \/ cur[c] \in Attempts
    BY <1>0 DEF Attempts
  <2>2. cur[c] \in Attempts => ~(cur[c] > cur[c])
    BY <1>0
  <2> QED
    BY <1>6, <2>1, <2>2 DEF Agree, Latest
<1>9. ASSUME UNCHANGED << att, cur >> PROVE Latest(c)' /\ (Over(cur[c]) => Over(cur[c])')
  BY <1>6, <1>9 DEF Agree, Latest, Over
<1>10. CASE Fetched(c)
  <2>1. /\ pc'[c] = "loop" /\ pc[c] = "fetching" /\ conn' = conn /\ UNCHANGED << att, cur >>
    BY <1>0, <1>10 DEF Fetched, GoTo
  <2> QED
    BY <1>6, <1>9, <2>1 DEF Agree, Between
<1>11. CASE CooldownSlept(c) \/ BackoffSlept(c)
  <2>1. /\ pc'[c] = "loop" /\ pc[c] \in {"cooling", "backoff"} /\ conn' = conn
        /\ UNCHANGED << att, cur >>
    BY <1>0, <1>11 DEF CooldownSlept, BackoffSlept, GoTo
  <2> QED
    BY <1>6, <1>9, <2>1 DEF Agree, Between
<1>12. CASE Loop(c)
  <2>1. /\ pc'[c] \in {"returned", "cooling", "attempt"} /\ pc[c] = "loop" /\ conn' = conn
        /\ UNCHANGED << att, cur >>
    BY <1>0, <1>12 DEF Loop, GoTo
  <2> QED
    BY <1>6, <1>9, <2>1 DEF Agree, Between
<1>13. CASE StartAttempt(c)
  <2>1. CanTransition(conn, "connecting")
    BY <1>6, <1>13 DEF StartAttempt, Agree, CanTransition
  <2>2. PICK k \in Attempts :
          /\ att[k].stage = "unused" /\ \A j \in 1..(k - 1) : att[j].stage # "unused"
          /\ att' = [att EXCEPT ![k] = [Fresh EXCEPT !.stage = "opening",
                                          !.sock = "open", !.login = registered]]
          /\ cur' = [cur EXCEPT ![c] = k]
          /\ conn' = "connecting"
          /\ GoTo(c, "connecting")
    BY <1>13, <2>1 DEF StartAttempt
  <2>3. cur'[c] = k /\ pc'[c] = "connecting" /\ k # 0
    BY <1>0, <2>2 DEF GoTo, Attempts
  <2>4. att'[k].stage = "opening" /\ Opening(k)'
    <3> DEFINE a == [Fresh EXCEPT !.stage = "opening", !.sock = "open", !.login = registered]
    <3>1. att'[k] = a
      BY <1>0, <2>2
    <3>2. a.stage = "opening" /\ a.outcome = "none" /\ a.link = "none"
      BY DEF Fresh
    <3>3. ~a.keepAlive
      BY DEF Fresh
    <3>4. ~a.dispose
      BY DEF Fresh
    <3> HIDE DEF a
    <3> QED
      BY <3>1, <3>2, <3>3, <3>4 DEF Opening
  <2>5. Latest(c)'
    <3>1. k > cur[c]
      BY <1>6, <2>2 DEF Agree, Latest
    <3>2. \A j \in Attempts : j < k => att[j].stage # "unused"
      BY <2>2 DEF Attempts
    <3>3. \A j \in Attempts : j > k => att[j].stage = "unused"
      BY <1>0, <1>6, <3>1 DEF Agree, Latest, Attempts
    <3>4. \A j \in Attempts : j # k => att'[j] = att[j]
      BY <1>0, <2>2
    <3>5. \A j \in Attempts : j < k \/ j = k \/ j > k
      BY DEF Attempts
    <3> SUFFICES ASSUME NEW j \in Attempts PROVE att'[j].stage = "unused" <=> j > k
      BY <2>3 DEF Latest
    <3>6. ~(j < k /\ j > k) /\ ~(j = k /\ j > k)
      BY DEF Attempts
    <3> QED
      BY <2>4, <3>2, <3>3, <3>4, <3>5, <3>6
  <2>6. Opening(cur[c])' /\ cur'[c] # 0
    BY <2>3, <2>4 DEF Opening
  <2> QED
    BY <2>2, <2>3, <2>5, <2>6 DEF Agree, Between
<1>14. CASE AttemptFails(c)
  <2>1. /\ pc[c] = "connecting" /\ conn = "connecting" /\ cur[c] \in Attempts
        /\ att' = [att EXCEPT ![cur[c]].stage = "failed"] /\ cur' = cur /\ Catch(c)
    BY <1>6, <1>8, <1>14 DEF AttemptFails, Agree
  <2>2. att'[cur[c]].stage = "failed"
    BY <1>0, <2>1 DEF Attempt
  <2>3. Over(cur[c])'
    BY <2>1, <2>2 DEF Over
  <2>4. Latest(c)'
    <3>1. \A j \in Attempts : j # cur[c] => att'[j] = att[j]
      BY <1>0, <2>1
    <3> QED
      BY <1>0, <1>6, <1>8, <2>1, <2>2, <3>1 DEF Agree, Latest
  <2>5. (pc'[c] = "backoff" /\ conn' = "reconnecting") \/ pc'[c] = "rejected"
    BY <1>0, <2>1 DEF Catch, GoTo
  <2> QED
    BY <2>3, <2>4, <2>5 DEF Agree, Between
<1>15. CASE AttemptLive(c)
  <2>1. PICK s \in {"open", "closed"} :
          att' = [att EXCEPT ![cur[c]].stage = "live", ![cur[c]].sock = s,
                             ![cur[c]].keepAlive = TRUE]
    BY <1>15 DEF AttemptLive
  <2>2. /\ pc[c] = "connecting" /\ conn = "connecting" /\ cur[c] \in Attempts
        /\ Opening(cur[c]) /\ cur' = cur /\ conn' = conn /\ pc'[c] = "login"
    BY <1>0, <1>6, <1>8, <1>15 DEF AttemptLive, Agree, GoTo
  <2>3. att'[cur[c]].stage = "live" /\ att'[cur[c]].outcome = "none"
    BY <1>0, <2>1, <2>2 DEF Attempt, Opening
  <2>4. Latest(c)'
    <3>1. \A j \in Attempts : j # cur[c] => att'[j] = att[j]
      BY <1>0, <2>1
    <3> QED
      BY <1>0, <1>6, <1>8, <2>2, <2>3, <3>1 DEF Agree, Latest
  <2>5. LoginStatus(cur[c])' /\ cur'[c] # 0
    BY <1>8, <2>2, <2>3, ConnectionAssumption DEF LoginStatus, Attempts
  <2> QED
    BY <2>2, <2>4, <2>5 DEF Agree, Between
<1>16. CASE PairSuccessOutcome(c)
  <2>1. /\ pc[c] = "login" /\ att[cur[c]].outcome = "pair-success" /\ cur' = cur
        /\ cur[c] \in Attempts
        /\ conn = "connecting" \/ (conn = "disconnected" /\ Over(cur[c]))
    BY <1>6, <1>8, <1>16 DEF PairSuccessOutcome, Agree, LoginStatus
  <2>2. CASE conn = "connecting"
    <3>1. /\ conn' = "reconnecting" /\ pc'[c] = "loop"
          /\ att' = [att EXCEPT ![cur[c]].dispose = TRUE]
      BY <1>0, <1>16, <2>2 DEF PairSuccessOutcome, CanTransition, GoTo
    <3>2. att'[cur[c]].dispose
      BY <1>0, <2>1, <3>1 DEF Attempt
    <3>3. Over(cur[c])'
      BY <2>1, <3>2 DEF Over
    <3>4. Latest(c)'
      <4>1. \A j \in Attempts : att'[j].stage = att[j].stage
        BY <1>0, <2>1, <3>1 DEF Attempt
      <4> QED
        BY <1>6, <2>1, <4>1 DEF Agree, Latest
    <3> QED
      BY <3>1, <3>3, <3>4 DEF Agree, Between
  <2>3. CASE conn = "disconnected"
    <3>1. Over(cur[c]) /\ att' = att /\ Catch(c)
      BY <1>16, <2>1, <2>3 DEF PairSuccessOutcome, CanTransition
    <3>2. pc'[c] = "rejected"
      BY <1>0, <2>3, <3>1 DEF Catch, CanTransition, GoTo
    <3> QED
      BY <1>9, <2>1, <3>1, <3>2 DEF Agree, Between
  <2> QED
    BY <2>1, <2>2, <2>3
<1>17. CASE FailureOutcome(c)
  <2>1. /\ Failed(att[cur[c]]) /\ conn' = "disconnected" /\ pc'[c] \in {"returned", "loop"}
        /\ UNCHANGED << att, cur >>
    BY <1>0, <1>17 DEF FailureOutcome, GoTo
  <2>2. Over(cur[c])'
    BY <2>1 DEF Over
  <2> QED
    BY <1>9, <2>1, <2>2 DEF Agree, Between
<1>18. CASE SuccessOutcome(c)
  <2>1. /\ pc[c] = "login" /\ att[cur[c]].outcome = "success" /\ conn' = conn
        /\ pc'[c] = "returned" /\ UNCHANGED << att, cur >>
    BY <1>0, <1>18 DEF SuccessOutcome, GoTo
  <2>2. conn = "connected"
    BY <1>6, <2>1 DEF Agree, LoginStatus
  <2> QED
    BY <1>9, <2>1, <2>2 DEF Agree, Between
<1> QED
  BY <1>10, <1>11, <1>12, <1>13, <1>14, <1>15, <1>16, <1>17, <1>18 DEF Continue, Awaited

\* The initial state is in agreement, and every step keeps it.
LEMMA AgreeInvCorrect == Spec => []AgreeInv
<1>1. Init => AgreeInv
  <2> SUFFICES ASSUME Init PROVE AgreeInv
    OBVIOUS
  <2>1. ~wanted
    BY DEF Init
  <2> QED
    BY <2>1 DEF Init, AgreeInv, AllIdle, Ordinary, Fresh
<1>2. ASSUME TypeOK, AgreeInv, [Next]_vars PROVE AgreeInv'
  <2> USE <1>2
  <2>1. ASSUME NEW c \in Calls, Connect(c) PROVE AgreeInv'
    <3>1. /\ pc' = [pc EXCEPT ![c] = "fetching"] /\ pc[c] = "idle" /\ thrown = "nothing"
          /\ UNCHANGED << conn, thrown, cur, att >>
      BY <2>1 DEF Connect, Quiet, GoTo
    <3>2. pc'[c] = "fetching" /\ \A d \in Calls : d # c => pc'[d] = pc[d]
      BY <3>1 DEF TypeOK
    <3>3. \A d \in Calls : pc'[d] = "idle" => cur'[d] = 0
      BY <3>1, <3>2 DEF AgreeInv
    <3>4. ASSUME Ordinary', NEW d \in Calls, pc'[d] # "idle" PROVE Agree(d)'
      <4>1. d = c
        BY <3>2, <3>4 DEF Ordinary, OneCall
      <4>2. AllIdle
        BY <3>1, <3>2, <3>4 DEF Ordinary, OneCall, AllIdle
      <4>3. cur[c] = 0 /\ conn = "disconnected" /\ \A k \in Attempts : att[k].stage = "unused"
        BY <3>1, <4>2 DEF AgreeInv
      <4>4. Latest(c)'
        BY <3>1, <4>3 DEF Latest, Attempts
      <4> QED
        BY <3>1, <3>2, <4>1, <4>3, <4>4 DEF Agree, Between
    <3> QED
      BY <3>1, <3>2, <3>3, <3>4 DEF AgreeInv, AllIdle
  <2>2. ASSUME NEW k \in Attempts,
               \/ LinkBuilt(k) \/ LinkFails(k)
               \/ ConnectionLost(k) \/ SocketCloses(k) \/ DisposeTimer(k)
        PROVE  AgreeInv'
    BY <2>2, CalmTasks, CalmAgrees
  <2>3. ASSUME NEW k \in Attempts, LinkTimer(k) PROVE AgreeInv'
    <3>1. /\ UNCHANGED << pc, cur >> /\ thrown' = "timeout" /\ conn' = "disconnected"
          /\ att' = [j \in Attempts |-> Fresh]
      BY <2>3 DEF LinkTimer, Ends, loops
    <3> QED
      BY <3>1 DEF AgreeInv, AllIdle, Ordinary, Fresh
  <2>4. CASE Disconnect
    <3>1. ~wanted' /\ UNCHANGED << pc, cur >> /\ conn' = "disconnected"
      BY <2>4 DEF Disconnect, loops
    <3>2. \A k \in Attempts : att'[k].stage = att[k].stage
      <4>1. \A k \in Attempts : Dispose(att[k]).stage = att[k].stage
        BY DEF Dispose, Closing, TypeOK, Attempt
      <4> QED
        BY <2>4, <4>1 DEF Disconnect, TypeOK
    <3> QED
      BY <3>1, <3>2 DEF AgreeInv, AllIdle, Ordinary
  <2>5. CASE CooldownElapses \/ UNCHANGED vars
    <3>1. UNCHANGED << conn, thrown, pc, cur, att, wanted, late >>
      BY <2>5 DEF CooldownElapses, vars, loops, history
    <3> QED
      BY <3>1 DEF AgreeInv, AllIdle, Ordinary, OneCall, Agree, Latest, Over, Opening, LoginStatus,
         Failed
  <2> QED
    BY <2>1, <2>2, <2>3, <2>4, <2>5, LoopAgrees, FrameAgrees DEF Next
<1> QED
  BY <1>1, <1>2, ConnectionTypeCorrect, PTL DEF Spec

\* One connect() without disconnect() or late frames: the status says what the
\* loop does, whatever attempt it is at, and no <success> ends the process.
THEOREM StatusFollowsLoop == Spec => []StatusMatchesLoop
<1>1. ASSUME TypeOK, AgreeInv PROVE StatusMatchesLoop
  <2> SUFFICES ASSUME Ordinary, NEW c \in Calls
               PROVE  /\ thrown # "transition"
                      /\ pc[c] = "connecting" => conn = "connecting"
                      /\ pc[c] = "login" /\ att[cur[c]].outcome = "none" => conn = "connecting"
                      /\ pc[c] = "backoff" => conn = "reconnecting"
    BY <1>1 DEF StatusMatchesLoop, AgreeInv
  <2>1. thrown = "nothing"
    BY <1>1 DEF AgreeInv
  <2>2. CASE pc[c] = "idle"
    BY <2>1, <2>2
  <2>3. CASE pc[c] # "idle"
    <3>1. Agree(c)
      BY <1>1, <2>3 DEF AgreeInv
    <3> QED
      BY <2>1, <3>1 DEF Agree, LoginStatus
  <2> QED
    BY <2>2, <2>3
<1> QED
  BY <1>1, AgreeInvCorrect, ConnectionTypeCorrect, PTL

=============================================================================
