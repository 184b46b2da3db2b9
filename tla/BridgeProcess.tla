--------------------------- MODULE BridgeProcess ---------------------------
(***************************************************************************)
(* The main task of the bridge, from the first discovery to the exit       *)
(* status (server.py: run_startup_stage, run_bounded, _main, main, cli):   *)
(* attempts with deadlines and retries, Bluetooth operations that ignore   *)
(* their cancellation, the race of a session against the loss of the link, *)
(* MQTT reconnections, and SIGTERM at any await.                           *)
(*                                                                         *)
(* A step of the main task is what it does between two awaits.  Time is    *)
(* left out: a deadline may pass, or not, while an operation runs.         *)
(***************************************************************************)
EXTENDS Integers

CONSTANT Attempts       \* STARTUP_ATTEMPTS

ASSUME AttemptsAssumption == Attempts \in Nat \ {0}

VARIABLES
    pc,          \* the await of the main task
    stage,       \* startup stage, "discover" or "connect"
    attempt,     \* index of the stage's attempt
    wait,        \* run_bounded: "idle", "running", "unwinding" after the
                 \* deadline, "stopping" once its caller is cancelled, "done"
    result,      \* what the awaited operation, or the session, came to
    ops,         \* Bluetooth operations that have not ended
    category,    \* of the latest startup failure
    wedged,      \* StartupFailedError.wedged
    cause,       \* what makes the main task leave where it was
    connected, stopping,   \* locals of _main
    disconnected,          \* the event that the disconnect callback sets
    sigterm,     \* systemd has asked the process to stop; it does so once
    status,      \* the exit status
    swallowed,   \* history: the cancellation for SIGTERM was lost on its way
    crashed      \* history: an unexpected exception was raised

startup == <<stage, attempt, category>>
bounded == <<wait, result, ops>>
locals == <<connected, stopping, disconnected>>
fate == <<sigterm, status, swallowed, crashed>>
vars == <<pc, startup, bounded, wedged, cause, locals, fate>>

Lifecycle == INSTANCE BridgeLifecycle WITH
    life <- CASE pc = "exited" -> "gone"
              [] pc = "retry" -> "reconnecting"
              [] pc \notin {"exited", "retry"} ->
                    IF connected THEN "serving" ELSE "starting",
    asked <- sigterm,
    trouble <- IF crashed THEN "crash" ELSE IF disconnected THEN "lost" ELSE "none"

Stages == {"discover", "connect"}

\* What a discovery or a connection may raise, by the shape of the exception.
Raises(s) ==
    {"in_progress", "bluetooth", "not_found", "other"}
        \union (IF s = "connect" THEN {"auth"} ELSE {})

\* The fixed category of a failed attempt; a timeout counts as Bluetooth's.
Classify(error, s) ==
    CASE error = "in_progress" -> "ble_discovery_in_progress"
      [] error = "not_found" -> "network_not_found"
      [] error = "auth" -> "configuration"
      [] error \in {"bluetooth", "timeout"} ->
            IF s = "discover" THEN "ble_discovery_failed" ELSE "ble_connect_failed"
      [] OTHER -> "unknown"

BleStartupFailures ==
    {"ble_discovery_in_progress", "ble_discovery_failed", "ble_connect_failed"}
Transient == BleStartupFailures \union {"network_not_found"}
Categories == Transient \union {"configuration", "unknown"}

Init ==
    /\ pc = "new" /\ stage = "discover" /\ attempt = 0
    /\ wait = "idle" /\ result = "none" /\ ops = {}
    /\ category = "unknown" /\ wedged = FALSE /\ cause = "none"
    /\ connected = FALSE /\ stopping = FALSE /\ disconnected = FALSE
    /\ sigterm = FALSE /\ swallowed = FALSE /\ crashed = FALSE
    /\ status = Lifecycle!Running

----------------------------------------------------------------------------
(* run_bounded: the operation has a task of its own.                       *)

\* An operation is started and awaited.
Await(at, op) ==
    /\ pc' = at
    /\ wait' = "running" /\ result' = "none" /\ ops' = ops \union {op}

\* The operation that is being awaited.
Awaited == IF pc = "attempt" THEN stage ELSE pc

\* The operation ends by itself, or because it was cancelled.  An operation
\* that was cancelled for its deadline counts as timed out, whatever it did.
OpEnds ==
    /\ wait \in {"running", "unwinding", "stopping"}
    /\ wait' = "done" /\ ops' = ops \ {Awaited}
    /\ result' \in CASE wait = "unwinding" -> {"timeout"}
                     [] wait = "stopping" -> {"cancelled"}
                     [] OTHER -> {"ok"} \union (IF pc = "attempt" THEN Raises(stage)
                                                ELSE {"other"})
    /\ UNCHANGED <<pc, startup, wedged, cause, locals, fate>>

\* Mutant: cleanup and release have no deadline.
DeadlineOfAttempts ==
    /\ wait = "running" /\ pc = "attempt"
    /\ wait' = "unwinding"
    /\ UNCHANGED <<pc, startup, result, ops, wedged, cause, locals, fate>>

Deadline ==
    /\ wait = "running"
    /\ wait' = "unwinding"
    /\ UNCHANGED <<pc, startup, result, ops, wedged, cause, locals, fate>>

\* Mutant: an operation that is given up counts as timed out.
GraceOverTimedOut ==
    /\ wait \in {"unwinding", "stopping"}
    /\ wait' = "done"
    /\ result' = IF wait = "unwinding" THEN "timeout" ELSE "cancelled"
    /\ UNCHANGED <<pc, startup, ops, wedged, cause, locals, fate>>

\* BLE_CANCEL_GRACE has passed: the operation is given up and runs on.
GraceOver ==
    /\ wait \in {"unwinding", "stopping"}
    /\ wait' = "done"
    /\ result' = IF wait = "unwinding" THEN "wedged" ELSE "cancelled"
    /\ UNCHANGED <<pc, startup, ops, wedged, cause, locals, fate>>

----------------------------------------------------------------------------
(* The ways out of _main and main.                                         *)

\* The finally of _main, which releases the connection, within bounds.
Release(why) == cause' = why /\ Await("release", "release")

\* main handles what has left _main, and cli what has left main; a startup
\* failure is reported over MQTT first.
Handle(why) ==
    /\ cause' = why
    /\ pc' = IF why = "startup" THEN "report" ELSE "ending"
    /\ wait' = "idle" /\ result' = "none" /\ UNCHANGED ops

\* A startup stage ends with an exception.  Only the connect stage is inside
\* the try whose finally releases the connection.
LeaveStage(why) ==
    /\ IF stage = "connect" THEN Release(why) ELSE Handle(why)
    /\ stopping' = (stage = "connect" /\ why = "cancelled")
    /\ UNCHANGED <<stage, attempt, connected, disconnected, fate>>

\* os._exit, which waits for no task.
HardExit(code) ==
    /\ pc' = "exited" /\ status' = code
    /\ wait' = "idle" /\ result' = "none" /\ ops' = {}
    /\ UNCHANGED <<cause, sigterm, swallowed, crashed>>

----------------------------------------------------------------------------
(* run_startup_stage, for discovery and then for the connection.           *)

Attempt(s, i) == stage' = s /\ attempt' = i /\ Await("attempt", s)

\* A setting that is not valid, or the first discovery.
Start ==
    /\ pc = "new"
    /\ \/ Handle("configuration") /\ UNCHANGED startup
       \/ Attempt("discover", 0) /\ UNCHANGED <<category, cause>>
    /\ UNCHANGED <<wedged, locals, fate>>

\* create_casambi_connection follows discovery, before the try of _main.
DiscoveryOk ==
    /\ pc = "attempt" /\ stage = "discover" /\ wait = "done" /\ result = "ok"
    /\ \/ /\ Attempt("connect", 0)
          /\ category' = "unknown"
          /\ UNCHANGED <<cause, crashed>>
       \/ /\ Handle("error")
          /\ crashed' = TRUE
          /\ UNCHANGED startup
    /\ UNCHANGED <<wedged, locals, sigterm, status, swallowed>>

\* The disconnect callback is registered in the same step, then sleep(0).
ConnectOk ==
    /\ pc = "attempt" /\ stage = "connect" /\ wait = "done" /\ result = "ok"
    /\ pc' = "yield" /\ connected' = TRUE
    /\ wait' = "idle" /\ result' = "none"
    /\ UNCHANGED <<startup, ops, wedged, cause, stopping, disconnected, fate>>

\* Mutant: one attempt too many.
RetryOrFailOnceMore(failure) ==
    IF failure \in Transient /\ attempt < Attempts
    THEN /\ pc' = "backoff" /\ wait' = "idle" /\ result' = "none"
         /\ UNCHANGED <<stage, attempt, ops, cause, wedged, locals, fate>>
    ELSE LeaveStage("startup") /\ UNCHANGED wedged

\* An attempt that is over is followed by another one after a pause, unless
\* its failure is not transient or it was the last one.
RetryOrFail(failure) ==
    IF failure \in Transient /\ attempt + 1 < Attempts
    THEN /\ pc' = "backoff" /\ wait' = "idle" /\ result' = "none"
         /\ UNCHANGED <<stage, attempt, ops, cause, wedged, locals, fate>>
    ELSE LeaveStage("startup") /\ UNCHANGED wedged

\* Only the connect stage has a cleanup (casa.disconnect).
AttemptFailed ==
    /\ pc = "attempt" /\ wait = "done"
    /\ result \in Raises(stage) \union {"timeout"}
    /\ category' = Classify(result, stage)
    /\ IF stage = "connect"
       THEN /\ Await("cleanup", "cleanup")
            /\ UNCHANGED <<stage, attempt, cause, wedged, locals, fate>>
       ELSE RetryOrFail(category')

\* Whatever a cleanup raises changes nothing.
CleanupEnds ==
    /\ pc = "cleanup" /\ wait = "done"
    /\ result \notin {"wedged", "cancelled"}
    /\ RetryOrFail(category) /\ UNCHANGED category

\* An attempt or a cleanup that does not end fails the stage at once.
Wedged ==
    /\ pc \in {"attempt", "cleanup"} /\ wait = "done" /\ result = "wedged"
    /\ category' = IF pc = "attempt" THEN Classify("timeout", stage) ELSE category
    /\ wedged' = TRUE
    /\ LeaveStage("startup")

StageCancelled ==
    /\ pc \in {"attempt", "cleanup"} /\ wait = "done" /\ result = "cancelled"
    /\ LeaveStage("cancelled")
    /\ UNCHANGED <<category, wedged>>

\* Mutant: the attempts are counted from the last failure.
BackoffEndsAfresh ==
    /\ pc = "backoff"
    /\ Attempt(stage, 0)
    /\ UNCHANGED <<category, wedged, cause, locals, fate>>

BackoffEnds ==
    /\ pc = "backoff"
    /\ Attempt(stage, attempt + 1)
    /\ UNCHANGED <<category, wedged, cause, locals, fate>>

----------------------------------------------------------------------------
(* The connected bridge: _main's loop over MQTT sessions.                  *)

\* The disconnect callback has the event set, at any time from its
\* registration until the finally of _main.
LossHeard ==
    /\ pc \in {"yield", "mqtt", "session", "race", "discard", "drop", "unwind", "retry"}
    /\ ~disconnected
    /\ disconnected' = TRUE
    /\ UNCHANGED <<pc, startup, bounded, wedged, cause, connected, stopping, fate>>

\* Mutant: _main does not note that it is being stopped.
LeaveUnnoted(why) == Release(why) /\ UNCHANGED stopping

\* An exception, or the break after a cancellation, leaves the loop.
Leave(why) == Release(why) /\ stopping' = (stopping \/ why \in {"cancelled", "stopped"})

\* The head of the loop, before the MQTT client connects.
Loop ==
    IF disconnected
    THEN Leave("lost")
    ELSE /\ pc' = "mqtt" /\ cause' = "none"
         /\ UNCHANGED <<bounded, stopping>>

\* Mutant: an MQTT error is an MQTT error.
OnMqttErrorAlone ==
    /\ pc' = "retry" /\ cause' = "none"
    /\ wait' = "idle" /\ result' = "none"
    /\ UNCHANGED <<ops, stopping>>

\* "A BLE loss must never be retried as an MQTT reconnect."
OnMqttError ==
    IF disconnected
    THEN Leave("lost")
    ELSE /\ pc' = "retry" /\ cause' = "none"
         /\ wait' = "idle" /\ result' = "none"
         /\ UNCHANGED <<ops, stopping>>

\* The end of sleep(0), and of the pause before a reconnection.
LoopResumes ==
    /\ pc \in {"yield", "retry"}
    /\ Loop
    /\ UNCHANGED <<startup, wedged, connected, disconnected, fate>>

MqttConnects ==
    /\ pc = "mqtt"
    /\ pc' = "session"
    /\ UNCHANGED <<startup, bounded, wedged, cause, locals, fate>>

MqttRefused ==
    /\ pc = "mqtt"
    /\ OnMqttError
    /\ UNCHANGED <<startup, wedged, connected, disconnected, fate>>

\* The session task ends: by an MQTT error, another error, or by itself.  If
\* the event is set before, the session's end makes no difference, except to
\* CancelSession.
SessionEnds ==
    /\ pc = "session" /\ ~disconnected
    /\ pc' = "race" /\ result' \in {"mqtt", "error", "clean"}
    /\ crashed' = (crashed \/ result' = "error")
    /\ UNCHANGED <<startup, wait, ops, wedged, cause, locals, sigterm, status, swallowed>>

\* The disconnect wins whenever it is among what has ended.
RaceLost ==
    /\ pc \in {"session", "race"} /\ disconnected
    /\ pc' = "discard" /\ cause' = "lost" /\ result' = "none"
    /\ UNCHANGED <<startup, wait, ops, wedged, locals, fate>>

\* The session was first; an event set since then may come too late.
RaceOver ==
    /\ pc = "race"
    /\ pc' = "drop" /\ cause' = result /\ result' = "none"
    /\ UNCHANGED <<startup, wait, ops, wedged, locals, fate>>

\* The cancelled loser of the race has been awaited.
LoserEnds ==
    /\ pc \in {"discard", "drop"}
    /\ pc' = "unwind"
    /\ UNCHANGED <<startup, bounded, wedged, cause, locals, fate>>

\* What has left the session, cleaned up, meets the loop's handlers.
Caught(why) ==
    CASE why = "mqtt" -> OnMqttError
      [] why = "clean" -> Loop
      [] why = "cancelled" -> Leave("stopped")
      [] OTHER -> Leave(why)

\* _cleanup_connected_bridge, the final status and the client's exit, which
\* raises an MqttError of its own if the connection is gone.
UnwindEnds ==
    /\ pc = "unwind"
    /\ \/ Caught(cause) /\ UNCHANGED swallowed
       \/ /\ Caught("mqtt")
          /\ swallowed' = (swallowed \/ cause = "cancelled")
    /\ UNCHANGED <<startup, wedged, connected, disconnected, sigterm, status, crashed>>

----------------------------------------------------------------------------
(* The end of the process.                                                 *)

\* A release that does not end: "once connected this is a lost link (75)".
ReleaseEnds ==
    /\ pc = "release" /\ wait = "done"
    /\ IF result = "wedged"
       THEN HardExit(IF stopping THEN 0
                     ELSE IF connected THEN Lifecycle!Disconnected
                     ELSE Lifecycle!StartupFailed)
       ELSE /\ Handle(IF result = "cancelled" THEN "cancelled" ELSE cause)
            /\ UNCHANGED fate
    /\ UNCHANGED <<startup, wedged, locals>>

\* report_startup_failure, within STARTUP_REPORT_TIMEOUT; a process with a
\* wedged operation leaves hard.
ReportEnds ==
    /\ pc = "report"
    /\ IF wedged
       THEN HardExit(Lifecycle!StartupFailed)
       ELSE pc' = "ending" /\ UNCHANGED <<bounded, cause, fate>>
    /\ UNCHANGED <<startup, wedged, locals>>

ExitStatus ==
    CASE cause = "lost" -> Lifecycle!Disconnected
      [] cause = "error" -> 1
      [] cause = "configuration" -> Lifecycle!Configuration
      [] cause = "startup" ->
            IF category = "configuration" THEN Lifecycle!Configuration
            ELSE IF category \in BleStartupFailures THEN Lifecycle!StartupFailed
            ELSE Lifecycle!OtherFailure
      [] OTHER -> 0

\* asyncio.run cancels the tasks that are left and waits for all of them.
Ends ==
    /\ pc = "ending" /\ ops = {}
    /\ pc' = "exited" /\ status' = ExitStatus
    /\ UNCHANGED <<startup, bounded, wedged, cause, locals, sigterm, swallowed, crashed>>

\* An operation that was given up ends at last.
StrayEnds ==
    /\ \E op \in ops : /\ wait = "idle" \/ op # Awaited
                       /\ ops' = ops \ {op}
    /\ UNCHANGED <<pc, startup, wait, result, wedged, cause, locals, fate>>

----------------------------------------------------------------------------
(* SIGTERM cancels the main task where it awaits.                          *)

\* In run_bounded: the operation is cancelled as well, unless it already is,
\* or is over.
CancelBounded ==
    /\ wait \in {"running", "unwinding", "done"}
    /\ wait' = IF wait = "running" THEN "stopping" ELSE "done"
    /\ result' = IF wait = "running" THEN result ELSE "cancelled"
    /\ UNCHANGED <<pc, startup, ops, wedged, cause, locals, status, swallowed, crashed>>

\* Where the main task awaits a task it has cancelled, and in parts of the
\* cleanup, the cancellation is suppressed with that task's; and the report of
\* a failed startup catches an MQTT error that has taken its place.
Suppressed ==
    /\ pc \in {"discard", "drop", "unwind", "report"}
    /\ swallowed' = TRUE
    /\ UNCHANGED <<pc, startup, bounded, wedged, cause, locals, status, crashed>>

\* The session is cancelled as well, and awaited.  If it has just failed,
\* unnoticed as yet, its error takes the place of the cancellation.
CancelSession ==
    /\ \/ /\ pc \in {"session", "unwind"} \/ (pc = "race" /\ result = "clean")
          /\ cause' = "cancelled"
          /\ UNCHANGED <<swallowed, crashed>>
       \/ /\ \/ pc = "race" /\ cause' \in {result} \ {"clean"}
             \/ pc = "session" /\ disconnected /\ cause' \in {"mqtt", "error"}
          /\ swallowed' = TRUE
          /\ crashed' = (crashed \/ cause' = "error")
    /\ pc' = "unwind" /\ result' = "none"
    /\ UNCHANGED <<startup, wait, ops, wedged, locals, status>>

CancelOutside ==
    /\ \/ pc = "backoff" /\ stage = "discover" /\ Handle("cancelled") /\ UNCHANGED stopping
       \/ pc = "backoff" /\ stage = "connect" /\ Leave("cancelled")
       \/ pc \in {"yield", "retry"} /\ Leave("cancelled")
       \/ pc = "mqtt" /\ Leave("stopped")
       \/ pc = "report" /\ Handle("cancelled") /\ UNCHANGED stopping
    /\ UNCHANGED <<startup, wedged, connected, disconnected, status, swallowed, crashed>>

\* The handler is gone by then, and the signal kills.
Killed ==
    /\ pc = "ending"
    /\ pc' = "exited" /\ status' = Lifecycle!Terminated
    /\ UNCHANGED <<startup, bounded, wedged, cause, locals, swallowed, crashed>>

Sigterm ==
    /\ ~sigterm
    /\ sigterm' = TRUE
    /\ \/ CancelBounded \/ Suppressed \/ CancelSession \/ CancelOutside \/ Killed

----------------------------------------------------------------------------
Startup ==
    \/ Start \/ DiscoveryOk \/ ConnectOk \/ AttemptFailed \/ CleanupEnds
    \/ Wedged \/ StageCancelled \/ BackoffEnds

Serving ==
    \/ LoopResumes \/ MqttConnects \/ MqttRefused \/ RaceLost \/ RaceOver
    \/ LoserEnds \/ UnwindEnds

Main == Startup \/ Serving \/ ReleaseEnds \/ ReportEnds \/ Ends
Timers == Deadline \/ GraceOver
Environment == OpEnds \/ StrayEnds \/ LossHeard \/ SessionEnds \/ Sigterm

\* The process is gone.
Exited == pc = "exited" /\ UNCHANGED vars

Next == Main \/ Timers \/ Environment \/ Exited

Spec == Init /\ [][Next]_vars

\* The loop runs the main task when what it awaits is over, and timers fire.
\* Operations need not end, nor sessions; MQTT connects or is refused.
FairSpec == Spec /\ WF_vars(Main) /\ WF_vars(Timers)

----------------------------------------------------------------------------
(* Properties                                                              *)

TypeOK ==
    /\ pc \in {"new", "attempt", "cleanup", "backoff", "yield", "mqtt", "session",
               "race", "discard", "drop", "unwind", "retry", "release", "report",
               "ending", "exited"}
    /\ stage \in Stages /\ attempt \in 0..Attempts - 1
    /\ wait \in {"idle", "running", "unwinding", "stopping", "done"}
    /\ wait # "idle" <=> pc \in {"attempt", "cleanup", "release"}
    /\ result \in {"none", "ok", "timeout", "wedged", "cancelled", "mqtt", "error", "clean"}
                      \union Raises("connect")
    /\ ops \subseteq Stages \union {"cleanup", "release"}
    /\ category \in Categories
    /\ cause \in {"none", "configuration", "startup", "cancelled", "stopped", "lost",
                  "error", "mqtt", "clean"}
    /\ {wedged, connected, stopping, disconnected, sigterm, swallowed, crashed}
          \subseteq BOOLEAN
    /\ status \in {Lifecycle!Running, 0, 1, Lifecycle!Terminated, Lifecycle!Disconnected,
                   Lifecycle!StartupFailed, Lifecycle!Configuration,
                   Lifecycle!OtherFailure}

\* "Exactly one attempt runs at a time": no discovery or connection is started
\* beside an operation that has not ended, whichever timed out, ignored its
\* cancellation or was cleaned up after before.
OneAttempt ==
    [][wait' = "running" /\ pc' = "attempt" /\ (pc # "attempt" \/ stage' # stage)
          => ops = {}]_vars

\* "A stop cancels main(), runs its normal cleanup and exits 0, whichever phase
\* it was in": true where the cancellation is not lost on its way.
StopIsClean ==
    pc = "exited" /\ sigterm /\ ~swallowed => status \in {0, Lifecycle!Terminated}

\* The exit status tells what happened, as docs/pi-recovery.md promises; an
\* MQTT outage ends no process, and the MQTT error that a lost link causes is
\* never taken for one (_race_session_against_disconnect, _main).
TruthfulExit == Lifecycle!Spec

\* The loss of the link ends the process with 75, whatever the MQTT session is
\* doing or has come to at the time, or with the error it raised just before.
LossEndsIt ==
    disconnected ~> \/ status = Lifecycle!Disconnected \/ sigterm
                    \/ crashed /\ status = 1

\* "It never loops forever": the startup comes to a connection or to an end.
StartupEnds == ~connected ~> connected \/ pc = "exited" \/ sigterm

\* "Exit 76 means exactly these: the only failures a Bluetooth reset may fix":
\* fails where the BLE cleanup after a rejected login does not end.
Exit76MeansBle ==
    status = Lifecycle!StartupFailed => category \in BleStartupFailures
=============================================================================
