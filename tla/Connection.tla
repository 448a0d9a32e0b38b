------------------------------ MODULE Connection ------------------------------
(***************************************************************************)
(* NexaWhatsClient.connect() and disconnect() (client.ts), with what they  *)
(* drive: one connectOnce() per attempt (client/connect.ts, over           *)
(* socket/transport.ts, handshake.ts and keepalive.ts), the connection's   *)
(* state machine (socket/state-machine.ts) and the circuit breaker.        *)
(*                                                                         *)
(* A call of connect() is a loop that suspends at its awaits.  An attempt  *)
(* has its own socket, timers and callbacks, and these outlive the         *)
(* iteration that made them: frames, closes and timers of an earlier       *)
(* attempt still run the handlers, on the same client state.               *)
(*                                                                         *)
(* An event-loop task (a frame, a timer, a settled I/O promise, a call by  *)
(* the application) runs to its end, with the continuations it makes       *)
(* ready, before the next one: a task is an action guarded by Quiet, and a *)
(* continuation of a loop is an action that is not.                        *)
(***************************************************************************)
EXTENDS Integers, FiniteSets

CONSTANTS
  Calls,        \* the calls of connect()
  MaxAttempts,  \* bound: the connection attempts of all calls together
  MaxBackoff,   \* reconnect.maxRetries
  Threshold     \* circuitBreaker.failureThreshold

ASSUME ConnectionAssumption ==
  /\ MaxAttempts \in Nat \ {0}
  /\ MaxBackoff \in Nat
  /\ Threshold \in Nat \ {0}

Attempts == 1..MaxAttempts

VARIABLES
  conn,           \* this.connection.state
  stopReconnect,  \* this.stopReconnect
  registered,     \* creds.registered
  disposer,       \* this.disposeConnect: the attempt it disposes of, or 0
  st, n, cooled,  \* this.circuitBreaker (UntimedBreaker)
  pc,             \* where each call of connect() is suspended
  backoff,        \* backoffIdx of each call
  cur,            \* the attempt each call is at, or 0
  att,            \* what each attempt keeps
  thrown,         \* the rejection that nobody handled and that ended the process
  wanted,         \* history: the last API call was connect()
  late            \* history: what arrived on an attempt given up or superseded

breaker == << st, n, cooled >>
loops == << pc, backoff, cur >>
history == << wanted, late >>
vars == << conn, stopReconnect, registered, disposer, breaker, loops, att, thrown, history >>

Breaker == INSTANCE UntimedBreaker

Statuses == {"disconnected", "connecting", "connected", "reconnecting"}

\* An attempt: `login` tells whether it logs in or registers the device; `cli`
\* is closeReported of client.ts, which also covers the one of connect.ts (set
\* only where the first is set too).  A "rate-limit" is a 'failure' whose frame
\* had the reason 463.
Attempt ==
  [stage     : {"unused", "opening", "live", "failed"},
   sock      : {"open", "closing", "closed"},
   login     : BOOLEAN,
   cli       : BOOLEAN,
   pairing   : BOOLEAN,                \* pairSuccessReceived
   \* companion_finish: being built, or sent and its answer awaited; or it was
   \* not sent and the timer of the answer that nobody awaits still runs.
   link      : {"none", "building", "awaited", "orphaned"},
   keepAlive : BOOLEAN,
   dispose   : BOOLEAN,                \* setTimeout(() => result.dispose(), 0)
   outcome   : {"none", "success", "failure", "rate-limit", "pair-success"}]

Fresh ==
  [stage |-> "unused", sock |-> "closed", login |-> FALSE, cli |-> FALSE,
   pairing |-> FALSE, link |-> "none", keepAlive |-> FALSE, dispose |-> FALSE,
   outcome |-> "none"]

Init ==
  /\ conn = "disconnected"
  /\ stopReconnect = FALSE
  /\ registered \in BOOLEAN
  /\ disposer = 0
  /\ Breaker!Init
  /\ pc = [c \in Calls |-> "idle"]
  /\ backoff = [c \in Calls |-> 0]
  /\ cur = [c \in Calls |-> 0]
  /\ att = [k \in Attempts |-> Fresh]
  /\ thrown = "nothing"
  /\ wanted = FALSE
  /\ late = "none"

-----------------------------------------------------------------------------
(***************************************************************************)
(* Helpers                                                                 *)
(***************************************************************************)

\* The definitions named Bug... are seeded bugs: each replaces the definition
\* that follows it, to see that a property notices (README.md).

\* ConnectionStateMachine: the transitions that do not throw.
CanTransition(from, to) ==
  \/ from = to
  \/ from = "disconnected" /\ to = "connecting"
  \/ from = "connecting" /\ to \in {"connected", "reconnecting", "disconnected"}
  \/ from = "connected" /\ to \in {"reconnecting", "disconnected"}
  \/ from = "reconnecting" /\ to \in {"connecting", "disconnected"}

\* loginResolve(o): only the first call has an effect.
Resolve(a, o) == IF a.outcome = "none" THEN [a EXCEPT !.outcome = o] ELSE a

\* A login that ended with 'failure'.
Failed(a) == a.outcome \in {"failure", "rate-limit"}

\* transport.close(): the socket starts closing; frames may still arrive.
Closing(a) == IF a.sock = "open" THEN [a EXCEPT !.sock = "closing"] ELSE a

\* result.dispose().
Dispose(a) == [Closing(a) EXCEPT !.keepAlive = FALSE]

\* The outcome of a session that the server ends.
Reconnects(a) == IF a.pairing \/ registered THEN "pair-success" ELSE "failure"

BugSilentClose(a) == [a EXCEPT !.cli = TRUE]

\* The onUnexpectedClose callback of client.ts.
UnexpectedClose(a) ==
  IF a.cli THEN a ELSE [Resolve(a, Reconnects(a)) EXCEPT !.cli = TRUE]

\* A continuation of the loop of c is ready to run.
Ready(c) ==
  \/ pc[c] \in {"loop", "attempt"}
  \/ pc[c] = "login" /\ att[cur[c]].outcome # "none"

\* A new task can run.
Quiet == thrown = "nothing" /\ \A c \in Calls : ~Ready(c)

GoTo(c, l) == pc' = [pc EXCEPT ![c] = l]

\* The catch block of the loop, where connect() itself may reject: when the
\* retries are exhausted, and when `reconnecting` is no valid transition.
Catch(c) ==
  /\ Breaker!RecordFailure
  /\ IF backoff[c] < MaxBackoff
     THEN IF CanTransition(conn, "reconnecting")
          THEN conn' = "reconnecting" /\ GoTo(c, "backoff")
          ELSE UNCHANGED conn /\ GoTo(c, "rejected")
     ELSE conn' = "disconnected" /\ GoTo(c, "rejected")

-----------------------------------------------------------------------------
(***************************************************************************)
(* connect()                                                               *)
(***************************************************************************)

Connect(c) ==
  /\ Quiet
  /\ pc[c] = "idle"
  /\ stopReconnect' = FALSE
  /\ wanted' = TRUE
  /\ GoTo(c, "fetching")
  /\ UNCHANGED << conn, registered, disposer, thrown, breaker, backoff, cur, att, late >>

\* fetchLatestVersion() settled, or one of the loop's two sleeps is over.
Fetched(c) ==
  /\ Quiet
  /\ pc[c] = "fetching"
  /\ GoTo(c, "loop")
  /\ UNCHANGED << conn, stopReconnect, registered, disposer, thrown, breaker, backoff, cur,
                  att, history >>

CooldownSlept(c) ==
  /\ Quiet
  /\ pc[c] = "cooling" /\ (cooled \/ st # "open")
  /\ GoTo(c, "loop")
  /\ UNCHANGED << conn, stopReconnect, registered, disposer, thrown, breaker, backoff, cur,
                  att, history >>

BackoffSlept(c) ==
  /\ Quiet
  /\ pc[c] = "backoff"
  /\ backoff' = [backoff EXCEPT ![c] = @ + 1]
  /\ GoTo(c, "loop")
  /\ UNCHANGED << conn, stopReconnect, registered, disposer, thrown, breaker, cur, att, history >>

BugIgnoreStop(c) ==
  /\ pc[c] = "loop"
  /\ GoTo(c, IF st = "open" /\ ~cooled THEN "cooling" ELSE "attempt")
  /\ Breaker!ReadState
  /\ UNCHANGED << conn, stopReconnect, registered, disposer, thrown, backoff, cur, att, history >>

\* The loop test and isAllowed.
Loop(c) ==
  /\ pc[c] = "loop"
  /\ IF stopReconnect
     THEN GoTo(c, "returned") /\ UNCHANGED breaker
     ELSE /\ GoTo(c, IF st = "open" /\ ~cooled THEN "cooling" ELSE "attempt")
          /\ Breaker!ReadState
  /\ UNCHANGED << conn, stopReconnect, registered, disposer, thrown, backoff, cur, att, history >>

\* The try block up to the await of connectOnce().
StartAttempt(c) ==
  /\ pc[c] = "attempt"
  /\ IF CanTransition(conn, "connecting")
     THEN \E k \in Attempts :
            /\ att[k].stage = "unused" /\ \A j \in 1..(k - 1) : att[j].stage # "unused"
            /\ att' = [att EXCEPT ![k] = [Fresh EXCEPT !.stage = "opening",
                                            !.sock = "open", !.login = registered]]
            /\ cur' = [cur EXCEPT ![c] = k]
            /\ conn' = "connecting"
            /\ GoTo(c, "connecting")
            /\ UNCHANGED breaker
     ELSE Catch(c) /\ UNCHANGED << cur, att >>
  /\ UNCHANGED << stopReconnect, registered, disposer, thrown, backoff, history >>

\* connectOnce() rejected: the socket did not open, or the handshake failed
\* or timed out.
AttemptFails(c) ==
  /\ Quiet
  /\ pc[c] = "connecting"
  /\ att' = [att EXCEPT ![cur[c]].stage = "failed"]
  /\ Catch(c)
  /\ UNCHANGED << stopReconnect, registered, disposer, thrown, backoff, cur, history >>

\* connectOnce() resolved: the frame pump and the keepalive run.  A close that
\* arrived while no listener was attached has gone unnoticed.  The handshake
\* takes several rounds: the 0 ms timers of earlier handlers are over.
AttemptLive(c) ==
  /\ Quiet
  /\ pc[c] = "connecting"
  /\ \A k \in Attempts : ~att[k].dispose
  /\ \E s \in {"open", "closed"} :
       att' = [att EXCEPT ![cur[c]].stage = "live", ![cur[c]].sock = s,
                          ![cur[c]].keepAlive = TRUE]
  /\ disposer' = cur[c]
  /\ GoTo(c, "login")
  /\ UNCHANGED << conn, stopReconnect, registered, thrown, breaker, backoff, cur, history >>

\* The loop goes on with the login outcome.
PairSuccessOutcome(c) ==
  /\ pc[c] = "login" /\ att[cur[c]].outcome = "pair-success"
  /\ IF CanTransition(conn, "reconnecting")
     THEN /\ conn' = "reconnecting"
          /\ att' = [att EXCEPT ![cur[c]].dispose = TRUE]
          /\ GoTo(c, "loop")
          /\ UNCHANGED breaker
     ELSE Catch(c) /\ UNCHANGED att
  /\ UNCHANGED << stopReconnect, registered, disposer, thrown, backoff, cur, history >>

FailureOutcome(c) ==
  /\ pc[c] = "login" /\ Failed(att[cur[c]])
  /\ conn' = "disconnected"
  /\ GoTo(c, IF stopReconnect THEN "returned" ELSE "loop")
  /\ UNCHANGED << stopReconnect, registered, disposer, thrown, breaker, backoff, cur, att, history >>

SuccessOutcome(c) ==
  /\ pc[c] = "login" /\ att[cur[c]].outcome = "success"
  /\ backoff' = [backoff EXCEPT ![c] = 0]
  /\ GoTo(c, "returned")
  /\ UNCHANGED << conn, stopReconnect, registered, disposer, thrown, breaker, cur, att, history >>

-----------------------------------------------------------------------------
(***************************************************************************)
(* Frames                                                                  *)
(***************************************************************************)

\* Attempt k is over for the client, or superseded by another.
GivenUp(k) ==
  \/ att[k].dispose \/ att[k].sock = "closing" \/ Failed(att[k])
  \/ \E j \in Attempts : j > k /\ att[j].stage # "unused"

\* A frame reaches onFrame of attempt k.  Bound: at most one late frame.
Receives(k, kind) ==
  /\ Quiet
  /\ att[k].stage = "live" /\ att[k].sock # "closed"
  /\ GivenUp(k) => late = "none"
  /\ late' = IF GivenUp(k) THEN kind ELSE late

\* A promise was rejected and nobody handles it: the process ends, and with it
\* the client and its sockets.
Ends(reason) ==
  /\ thrown' = reason
  /\ conn' = "disconnected" /\ disposer' = 0
  /\ Breaker!Close
  /\ att' = [k \in Attempts |-> Fresh]
  /\ UNCHANGED << stopReconnect, loops >>

BugNoRecord == conn' = "connected" /\ UNCHANGED breaker

\* transition('connected') and recordSuccess().
LoggedIn == conn' = "connected" /\ Breaker!Close

\* <success>.  The handler is async and nobody awaits it.
Success(k) ==
  /\ Receives(k, "frame") /\ att[k].login
  /\ registered' = TRUE
  /\ IF CanTransition(conn, "connected")
     THEN /\ LoggedIn
          /\ att' = [att EXCEPT ![k] = [Resolve(@, "success") EXCEPT !.cli = TRUE]]
          /\ UNCHANGED << stopReconnect, disposer, thrown, loops >>
     ELSE Ends("transition")
  /\ UNCHANGED wanted

\* A frame that ends the session: report the close, transition to
\* disconnected, dispose in a later task, settle the login.
EndSession(k, o) ==
  /\ conn' = "disconnected"
  /\ att' = [att EXCEPT ![k] = [Resolve(@, o) EXCEPT !.cli = TRUE, !.dispose = TRUE]]

\* <failure>: 401, 403 and 405 are fatal, 463 is not.
Failure(k, reason) ==
  /\ Receives(k, "frame")
  /\ stopReconnect' = (stopReconnect \/ reason = "fatal")
  /\ EndSession(k, IF reason = "fatal" THEN "failure" ELSE "rate-limit")
  /\ UNCHANGED << registered, disposer, thrown, breaker, loops, wanted >>

\* <stream:error>: after a pairing the server restarts the stream with it.
StreamError(k) ==
  /\ Receives(k, IF att[k].pairing THEN "restart" ELSE "frame")
  /\ EndSession(k, IF att[k].pairing THEN "pair-success" ELSE "failure")
  /\ UNCHANGED << stopReconnect, registered, disposer, thrown, breaker, loops, wanted >>

\* <xmlstreamend>.
XmlStreamEnd(k) ==
  /\ Receives(k, "frame")
  /\ EndSession(k, Reconnects(att[k]))
  /\ UNCHANGED << stopReconnect, registered, disposer, thrown, breaker, loops, wanted >>

\* <downgrade_webclient>, while a device registers.
Downgrade(k) ==
  /\ Receives(k, "frame") /\ ~att[k].login
  /\ stopReconnect' = TRUE
  /\ att' = [att EXCEPT ![k] = Resolve(@, "failure")]
  /\ UNCHANGED << conn, registered, disposer, thrown, breaker, loops, wanted >>

\* <pair-success>: the QR code was scanned.  One that cannot be processed
\* throws out of the handler.
PairSuccess(k) ==
  /\ Receives(k, "frame") /\ ~att[k].login
  /\ registered' = TRUE
  /\ att' = [att EXCEPT ![k] = [Resolve(@, "pair-success") EXCEPT !.pairing = TRUE]]
  /\ UNCHANGED << conn, stopReconnect, disposer, thrown, breaker, loops, wanted >>

PairRefused(k) ==
  /\ Receives(k, "frame") /\ ~att[k].login
  /\ Ends("pairing")
  /\ UNCHANGED << registered, wanted >>

\* <notification type=link_code_companion_reg>: the pairing code was entered;
\* companion_finish is built, one at a time here.
LinkCode(k) ==
  /\ Receives(k, "frame") /\ ~att[k].login /\ att[k].link = "none"
  /\ att' = [att EXCEPT ![k].pairing = TRUE, ![k].link = "building"]
  /\ UNCHANGED << conn, stopReconnect, registered, disposer, thrown, breaker, loops, wanted >>

\* The answer to companion_finish.
LinkAcked(k) ==
  /\ Receives(k, "frame") /\ att[k].link = "awaited"
  /\ registered' = TRUE
  /\ att' = [att EXCEPT ![k].link = "none"]
  /\ UNCHANGED << conn, stopReconnect, disposer, thrown, breaker, loops, wanted >>

-----------------------------------------------------------------------------
(***************************************************************************)
(* Timers, closes, disconnect()                                            *)
(***************************************************************************)

\* companion_finish is built: it is sent, or the socket is not open any more
\* or refuses it, which leaves the timer of the answer running.
LinkBuilt(k) ==
  /\ Quiet
  /\ att[k].link = "building"
  /\ \/ att[k].sock = "open" /\ att' = [att EXCEPT ![k].link = "awaited"]
     \/ att' = [att EXCEPT ![k] =
                  [Resolve(@, "failure") EXCEPT !.pairing = FALSE, !.link = "orphaned"]]
  /\ UNCHANGED << conn, stopReconnect, registered, disposer, thrown, breaker, loops, history >>

\* companion_finish could not be built, was refused or timed out.
LinkFails(k) ==
  /\ Quiet
  /\ att[k].link \in {"building", "awaited"}
  /\ att' = [att EXCEPT ![k] =
               [Resolve(@, "failure") EXCEPT !.pairing = FALSE, !.link = "none"]]
  /\ UNCHANGED << conn, stopReconnect, registered, disposer, thrown, breaker, loops, history >>

\* The timer of an answer that nobody awaits rejects its promise.
LinkTimer(k) ==
  /\ Quiet
  /\ att[k].link = "orphaned"
  /\ Ends("timeout")
  /\ UNCHANGED << registered, history >>

\* The keepalive heard nothing for too long: it closes the transport and
\* reports the close itself.
ConnectionLost(k) ==
  /\ Quiet
  /\ att[k].keepAlive
  /\ att' = [att EXCEPT ![k] = UnexpectedClose(Closing(@))]
  /\ att' # att
  /\ UNCHANGED << conn, stopReconnect, registered, disposer, thrown, breaker, loops, history >>

BugCloseDisconnects(k) ==
  /\ Quiet
  /\ att[k].stage = "live" /\ att[k].sock # "closed"
  /\ att' = [att EXCEPT ![k] = [UnexpectedClose(@) EXCEPT !.sock = "closed"]]
  /\ conn' = "disconnected"
  /\ UNCHANGED << stopReconnect, registered, disposer, thrown, breaker, loops, history >>

\* The socket is closed, by the server or after transport.close().
SocketCloses(k) ==
  /\ Quiet
  /\ att[k].stage = "live" /\ att[k].sock # "closed"
  /\ att' = [att EXCEPT ![k] = [UnexpectedClose(@) EXCEPT !.sock = "closed"]]
  /\ UNCHANGED << conn, stopReconnect, registered, disposer, thrown, breaker, loops, history >>

\* The dispose timer of a handler.
DisposeTimer(k) ==
  /\ Quiet
  /\ att[k].dispose
  /\ att' = [att EXCEPT ![k] = [Dispose(@) EXCEPT !.dispose = FALSE]]
  /\ UNCHANGED << conn, stopReconnect, registered, disposer, thrown, breaker, loops, history >>

BugKeepStatus ==
  /\ Quiet
  /\ stopReconnect' = TRUE
  /\ wanted' = FALSE
  /\ disposer' = 0
  /\ att' = IF disposer = 0 THEN att ELSE [att EXCEPT ![disposer] = Dispose(@)]
  /\ UNCHANGED << conn, registered, thrown, breaker, loops, late >>

\* disconnect(), up to its await.
Disconnect ==
  /\ Quiet
  /\ stopReconnect' = TRUE
  /\ wanted' = FALSE
  /\ disposer' = 0
  /\ att' = IF disposer = 0 THEN att ELSE [att EXCEPT ![disposer] = Dispose(@)]
  /\ conn' = "disconnected"
  /\ UNCHANGED << registered, thrown, breaker, loops, late >>

CooldownElapses ==
  /\ Quiet
  /\ Breaker!CooldownElapses
  /\ UNCHANGED << conn, stopReconnect, registered, disposer, thrown, loops, att, history >>

-----------------------------------------------------------------------------

Continue(c) ==
  Loop(c) \/ StartAttempt(c) \/ PairSuccessOutcome(c) \/ FailureOutcome(c) \/ SuccessOutcome(c)

Awaited(c) ==
  Fetched(c) \/ CooldownSlept(c) \/ BackoffSlept(c) \/ AttemptFails(c) \/ AttemptLive(c)

Frame(k) ==
  \/ Success(k) \/ StreamError(k) \/ XmlStreamEnd(k) \/ Downgrade(k)
  \/ PairSuccess(k) \/ PairRefused(k) \/ LinkCode(k) \/ LinkAcked(k)
  \/ \E reason \in {"fatal", "463"} : Failure(k, reason)

Next ==
  \/ \E c \in Calls : Connect(c) \/ Continue(c) \/ Awaited(c)
  \/ \E k \in Attempts :
       \/ Frame(k)
       \/ LinkBuilt(k) \/ LinkFails(k) \/ LinkTimer(k)
       \/ ConnectionLost(k) \/ SocketCloses(k) \/ DisposeTimer(k)
  \/ Disconnect
  \/ CooldownElapses

Spec == Init /\ [][Next]_vars

\* Continuations run, timers fire, connectOnce() settles within its timeouts,
\* a socket that was told to close closes, and a server that never decides a
\* login does not answer pings forever: the keepalive notices that it is gone.
\* Nothing makes the server send a frame.
Fairness ==
  /\ \A c \in Calls : WF_vars(Continue(c)) /\ WF_vars(Awaited(c))
  /\ \A k \in Attempts :
       /\ WF_vars(ConnectionLost(k))
       /\ WF_vars(att[k].sock = "closing" /\ SocketCloses(k))
       /\ WF_vars(DisposeTimer(k))
       /\ WF_vars(LinkBuilt(k)) /\ WF_vars(LinkFails(k))
  /\ WF_vars(CooldownElapses)

FairSpec == Spec /\ Fairness

-----------------------------------------------------------------------------
(***************************************************************************)
(* Properties                                                              *)
(***************************************************************************)

\* The types of the state.
TypeOK ==
  /\ conn \in Statuses
  /\ stopReconnect \in BOOLEAN /\ registered \in BOOLEAN
  /\ disposer \in 0..MaxAttempts
  /\ Breaker!TypeOK
  /\ pc \in [Calls -> {"idle", "fetching", "loop", "cooling", "attempt", "connecting",
                       "login", "backoff", "returned", "rejected"}]
  /\ backoff \in [Calls -> 0..MaxBackoff]
  /\ cur \in [Calls -> 0..MaxAttempts]
  /\ att \in [Attempts -> Attempt]
  /\ thrown \in {"nothing", "transition", "pairing", "timeout"}
  /\ wanted \in BOOLEAN /\ late \in {"none", "restart", "frame"}

\* After disconnect() the client stays disconnected until the next connect(),
\* whatever the loop, the sockets and the timers it left behind still do.
DisconnectSticks == ~wanted => conn = "disconnected"

\* While the client is connected the breaker is closed and has forgotten every
\* failure, also when another connect() is failing.
ConnectedMeansClosed == conn = "connected" => st = "closed" /\ n = 0

\* Once stopReconnect is set no attempt starts before the next connect().
StopIsFinal ==
  [][stopReconnect /\ stopReconnect' => cur' = cur]_vars

\* Only one connect() was called.
OneCall == \A c, d \in Calls : pc[c] # "idle" /\ pc[d] # "idle" => c = d

\* The ordinary use: one connect(), no disconnect() after it, no frame on an
\* attempt that was given up, and no pairing that fails with an exception
\* nobody catches.
Ordinary ==
  /\ OneCall
  /\ wanted /\ late = "none" /\ thrown \in {"nothing", "transition"}

\* In the ordinary use the status says what the loop does: `connecting` while
\* an attempt opens or its login is undecided, `reconnecting` while backing
\* off; and no <success> is an invalid transition, which would end the process.
StatusMatchesLoop ==
  Ordinary =>
    /\ thrown # "transition"
    /\ \A c \in Calls :
         /\ pc[c] = "connecting" => conn = "connecting"
         /\ pc[c] = "login" /\ att[cur[c]].outcome = "none" => conn = "connecting"
         /\ pc[c] = "backoff" => conn = "reconnecting"

\* As long as the use is ordinary, a login that waits for its outcome goes on:
\* a server that closes the socket or falls silent is noticed, whatever was
\* received before.
LoginSettles ==
  \A c \in Calls : pc[c] = "login" ~> (pc[c] # "login" \/ ~Ordinary)

(***************************************************************************)
(* What the documentation says and the code does not do                    *)
(***************************************************************************)

\* client.ts:557, "so that if the server sends xmlstreamend before our async
\* handler completes, the reconnect still goes through": a login whose outcome
\* is pair-success goes on with the loop.
PairSuccessReconnects ==
  [][\A c \in Calls :
       /\ Ordinary
       /\ pc[c] = "login" /\ att[cur[c]].pairing /\ att[cur[c]].outcome = "pair-success"
       => pc'[c] # "rejected"]_vars

\* client.ts:327 takes a stream error after the pairing for an "expected
\* restart": when one connect() is made, no disconnect(), and nothing else
\* arrives late, no <success> is an invalid transition.
RestartIsExpected ==
  (OneCall /\ wanted /\ late \in {"none", "restart"}) => thrown # "transition"

\* circuit-breaker.ts:18, "Trips on consecutive 405/463 rate-limit errors":
\* when the last Threshold attempts were refused with 463 the breaker is not
\* closed.
TripsOnRateLimit ==
  \A k \in Attempts :
    /\ k >= Threshold
    /\ \A j \in Attempts : j > k => att[j].stage = "unused"
    /\ \A j \in (k - Threshold + 1)..k : att[j].outcome = "rate-limit"
    => st # "closed"

=============================================================================
