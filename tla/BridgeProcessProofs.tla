------------------------ MODULE BridgeProcessProofs ------------------------
(***************************************************************************)
(* What the main task keeps to for every number of startup attempts: one   *)
(* operation at a time, a stop that is clean, and exit statuses that tell  *)
(* what has happened, which is that BridgeProcess implements               *)
(* BridgeLifecycle.                                                        *)
(***************************************************************************)
EXTENDS BridgeProcess, TLAPS

----------------------------------------------------------------------------
(* The inductive invariant                                                 *)

\* Where the main task is before the first connection, and with one.
Early == {"new", "attempt", "cleanup", "backoff"}
Linked == {"yield", "mqtt", "session", "race", "discard", "drop", "unwind", "retry"}

\* The link exists from the yield on and can only be lost there; nothing
\* unexpected has been raised before, unless the process ends by it.
Link ==
    /\ pc \in Early => ~connected /\ ~crashed /\ ~stopping
    /\ pc \in Linked => connected /\ ~stopping
    /\ disconnected => connected
    /\ stopping => sigterm
    /\ pc = "backoff" => attempt + 1 < Attempts

\* A reason to leave is given only once the main task leaves, and is true.
Reason ==
    /\ pc \in {"new", "attempt", "cleanup", "backoff", "yield", "mqtt", "session",
               "race", "retry"} => cause = "none"
    /\ pc = "race" =>
          /\ result \in {"mqtt", "error", "clean"}
          /\ result = "error" => crashed
    /\ pc = "discard" => cause = "lost"
    /\ pc \in {"drop", "unwind"} => cause \in {"mqtt", "clean", "error", "lost", "cancelled"}
    /\ pc = "report" => cause = "startup"
    /\ pc = "release" => cause \in {"startup", "lost", "error", "cancelled", "stopped"}
    /\ pc = "ending" =>
          cause \in {"configuration", "startup", "lost", "error", "cancelled", "stopped"}
    /\ cause = "lost" => disconnected
    /\ cause = "error" => crashed
    /\ cause \in {"startup", "configuration"} => ~connected
    /\ cause \in {"cancelled", "stopped"} => sigterm
    /\ pc = "release" /\ cause \in {"cancelled", "stopped"} => stopping
    /\ wait = "stopping" \/ result = "cancelled" => sigterm

\* Up to the next attempt no operation runs but the one that is awaited.
Alone ==
    /\ pc \in {"new", "backoff"} => ops = {}
    /\ pc \in {"attempt", "cleanup"} =>
          /\ ops \subseteq {Awaited}
          /\ wait = "done" /\ result \notin {"wedged", "cancelled"} => ops = {}

\* Where a stop is on its way once it has been asked for.
Stopping ==
    sigterm /\ ~swallowed =>
        \/ /\ pc \in {"attempt", "cleanup", "release"}
           /\ wait = "stopping" \/ (wait = "done" /\ result = "cancelled")
        \/ pc = "release" /\ cause \in {"cancelled", "stopped"}
        \/ pc = "unwind" /\ cause = "cancelled"
        \/ pc = "ending" /\ cause \in {"cancelled", "stopped"}
        \/ pc = "exited" /\ status \in {0, Lifecycle!Terminated}

IInv == TypeOK /\ Link /\ Reason /\ Alone /\ Stopping

----------------------------------------------------------------------------
(* The invariant is inductive                                              *)

LEMMA Zero == 0 \in 0..Attempts - 1
BY AttemptsAssumption

LEMMA InitIInv == Init => IInv
BY Zero DEF Init, IInv, TypeOK, Link, Reason, Alone, Stopping, Linked, Stages,
   Categories

\* A hard exit leaves no wait and no operation, and a status.
LEMMA HardExitType ==
    ASSUME TypeOK, NEW code \in {0, 75, 76}, HardExit(code),
           UNCHANGED <<startup, wedged, locals>>
    PROVE  TypeOK'
<1>1. status' \in {Lifecycle!Running, 0, 1, Lifecycle!Terminated,
                   Lifecycle!Disconnected, Lifecycle!StartupFailed,
                   Lifecycle!Configuration, Lifecycle!OtherFailure}
  BY DEF HardExit, Lifecycle!Disconnected, Lifecycle!StartupFailed
<1>2. ({wedged, connected, stopping, disconnected, sigterm, swallowed, crashed}
          \subseteq BOOLEAN)'
  BY DEF HardExit, TypeOK, locals
<1> QED BY <1>1, <1>2 DEF HardExit, TypeOK, startup

\* The startup stages keep the invariant.
LEMMA StartupKeeps ==
    ASSUME IInv, Startup
    PROVE  IInv'
<1> USE DEF startup, bounded, locals, fate
<1>1. CASE Start
  <2>1. TypeOK'
    BY Zero, <1>1 DEF IInv, TypeOK, Stages, Start, Handle, Attempt, Await
  <2>2. Link'
    BY <1>1 DEF IInv, Link, Early, Linked, Start, Handle, Attempt, Await
  <2>3. Reason'
    BY <1>1 DEF IInv, Reason, Early, Link, Start, Handle, Attempt, Await
  <2>4. Alone'
    BY <1>1 DEF IInv, Alone, Awaited, Start, Handle, Attempt, Await
  <2>5. Stopping'
    BY <1>1 DEF IInv, Stopping, Start
  <2> QED BY <2>1, <2>2, <2>3, <2>4, <2>5 DEF IInv
<1>2. CASE DiscoveryOk
  <2>1. TypeOK'
    BY Zero, <1>2 DEF IInv, TypeOK, Stages, Categories, DiscoveryOk, Attempt,
       Handle, Await
  <2>2. Link'
    BY <1>2 DEF IInv, Link, Early, Linked, DiscoveryOk, Attempt, Handle, Await
  <2>3. Reason'
    BY <1>2 DEF IInv, Reason, DiscoveryOk, Attempt, Handle, Await
  <2>4. Alone'
    BY <1>2 DEF IInv, Alone, Awaited, DiscoveryOk, Attempt, Handle, Await
  <2>5. Stopping'
    BY <1>2 DEF IInv, Stopping, DiscoveryOk
  <2> QED BY <2>1, <2>2, <2>3, <2>4, <2>5 DEF IInv
<1>3. CASE ConnectOk
  <2>1. TypeOK'
    BY <1>3 DEF IInv, TypeOK, ConnectOk
  <2>2. Link'
    BY <1>3 DEF IInv, Link, Early, ConnectOk
  <2>3. Reason'
    BY <1>3 DEF IInv, Reason, ConnectOk
  <2>4. Alone'
    BY <1>3 DEF IInv, Alone, ConnectOk
  <2>5. Stopping'
    BY <1>3 DEF IInv, Stopping, ConnectOk
  <2> QED BY <2>1, <2>2, <2>3, <2>4, <2>5 DEF IInv
<1>4. CASE AttemptFailed
  <2>1. TypeOK'
    BY <1>4 DEF IInv, TypeOK, BleStartupFailures, Transient, Categories, Classify,
       AttemptFailed, Await, RetryOrFail, LeaveStage, Handle
  <2>2. Link'
    BY <1>4 DEF IInv, Link, Early, Linked, AttemptFailed, Await, RetryOrFail,
       LeaveStage, Handle
  <2>3. Reason'
    BY <1>4 DEF IInv, Reason, Early, Link, AttemptFailed, Await, RetryOrFail,
       LeaveStage, Handle
  <2>4. Alone'
    BY <1>4 DEF IInv, Alone, Awaited, Raises, AttemptFailed, Await, RetryOrFail,
       LeaveStage, Handle
  <2>5. Stopping'
    BY <1>4 DEF IInv, Stopping, Raises, AttemptFailed, RetryOrFail, LeaveStage
  <2> QED BY <2>1, <2>2, <2>3, <2>4, <2>5 DEF IInv
<1>5. CASE CleanupEnds
  <2>1. TypeOK'
    BY <1>5 DEF IInv, TypeOK, CleanupEnds, RetryOrFail, LeaveStage, Release, Handle,
       Await
  <2>2. Link'
    BY <1>5 DEF IInv, Link, Early, Linked, CleanupEnds, RetryOrFail, LeaveStage,
       Release, Handle, Await
  <2>3. Reason'
    BY <1>5 DEF IInv, Reason, Early, Link, CleanupEnds, RetryOrFail, LeaveStage,
       Release, Handle, Await
  <2>4. Alone'
    BY <1>5 DEF IInv, Alone, CleanupEnds, RetryOrFail, LeaveStage, Release, Handle,
       Await
  <2>5. Stopping'
    BY <1>5 DEF IInv, Stopping, CleanupEnds, RetryOrFail, LeaveStage
  <2> QED BY <2>1, <2>2, <2>3, <2>4, <2>5 DEF IInv
<1>6. CASE Wedged
  <2>1. TypeOK'
    BY <1>6 DEF IInv, TypeOK, BleStartupFailures, Transient, Categories, Classify,
       Wedged, LeaveStage, Release, Handle, Await
  <2>2. Link'
    BY <1>6 DEF IInv, Link, Early, Linked, Wedged, LeaveStage, Release, Handle,
       Await
  <2>3. Reason'
    BY <1>6 DEF IInv, Reason, Early, Link, Wedged, LeaveStage, Release, Handle,
       Await
  <2>4. Alone'
    BY <1>6 DEF IInv, Alone, Wedged, LeaveStage, Release, Handle, Await
  <2>5. Stopping'
    BY <1>6 DEF IInv, Stopping, Wedged, LeaveStage
  <2> QED BY <2>1, <2>2, <2>3, <2>4, <2>5 DEF IInv
<1>7. CASE StageCancelled
  <2>1. TypeOK'
    BY <1>7 DEF IInv, TypeOK, StageCancelled, LeaveStage, Release, Handle, Await
  <2>2. Link'
    BY <1>7 DEF IInv, Link, Early, Linked, Reason, StageCancelled, LeaveStage,
       Release, Handle, Await
  <2>3. Reason'
    BY <1>7 DEF IInv, Reason, StageCancelled, LeaveStage, Release, Handle, Await
  <2>4. Alone'
    BY <1>7 DEF IInv, Alone, StageCancelled, LeaveStage, Release, Handle, Await
  <2>5. Stopping'
    BY <1>7 DEF IInv, Stopping, StageCancelled, LeaveStage, Release, Handle, Await
  <2> QED BY <2>1, <2>2, <2>3, <2>4, <2>5 DEF IInv
<1>8. CASE BackoffEnds
  <2>1. TypeOK'
    BY <1>8, AttemptsAssumption DEF IInv, TypeOK, Link, BackoffEnds, Attempt, Await
  <2>2. Link'
    BY <1>8 DEF IInv, Link, Early, Linked, BackoffEnds, Attempt, Await
  <2>3. Reason'
    BY <1>8 DEF IInv, Reason, BackoffEnds, Attempt, Await
  <2>4. Alone'
    BY <1>8 DEF IInv, Alone, Awaited, BackoffEnds, Attempt, Await
  <2>5. Stopping'
    BY <1>8 DEF IInv, Stopping, BackoffEnds
  <2> QED BY <2>1, <2>2, <2>3, <2>4, <2>5 DEF IInv
<1> QED BY <1>1, <1>2, <1>3, <1>4, <1>5, <1>6, <1>7, <1>8 DEF Startup

\* So do the steps of the connected bridge,
LEMMA ServingKeeps ==
    ASSUME IInv, Serving
    PROVE  IInv'
<1> USE DEF startup, bounded, locals, fate
<1>1. CASE LoopResumes
  <2>1. TypeOK'
    BY <1>1 DEF IInv, TypeOK, LoopResumes, Loop, Leave, Release, Await
  <2>2. Link'
    BY <1>1 DEF IInv, Link, Early, Linked, LoopResumes, Loop, Leave, Release, Await
  <2>3. Reason'
    BY <1>1 DEF IInv, Reason, LoopResumes, Loop, Leave, Release, Await
  <2>4. Alone'
    BY <1>1 DEF IInv, Alone, LoopResumes, Loop, Leave, Release, Await
  <2>5. Stopping'
    BY <1>1 DEF IInv, Stopping, LoopResumes, Loop, Leave
  <2> QED BY <2>1, <2>2, <2>3, <2>4, <2>5 DEF IInv
<1>2. CASE MqttConnects
  <2>1. TypeOK'
    BY <1>2 DEF IInv, TypeOK, MqttConnects
  <2>2. Link'
    BY <1>2 DEF IInv, Link, Early, Linked, MqttConnects
  <2>3. Reason'
    BY <1>2 DEF IInv, Reason, MqttConnects
  <2>4. Alone'
    BY <1>2 DEF IInv, Alone, MqttConnects
  <2>5. Stopping'
    BY <1>2 DEF IInv, Stopping, MqttConnects
  <2> QED BY <2>1, <2>2, <2>3, <2>4, <2>5 DEF IInv
<1>3. CASE MqttRefused
  <2>1. TypeOK'
    BY <1>3 DEF IInv, TypeOK, MqttRefused, OnMqttError, Leave, Release, Await
  <2>2. Link'
    BY <1>3 DEF IInv, Link, Early, Linked, MqttRefused, OnMqttError, Leave, Release,
       Await
  <2>3. Reason'
    BY <1>3 DEF IInv, Reason, MqttRefused, OnMqttError, Leave, Release, Await
  <2>4. Alone'
    BY <1>3 DEF IInv, Alone, MqttRefused, OnMqttError, Leave, Release, Await
  <2>5. Stopping'
    BY <1>3 DEF IInv, Stopping, MqttRefused, OnMqttError, Leave
  <2> QED BY <2>1, <2>2, <2>3, <2>4, <2>5 DEF IInv
<1>4. CASE RaceLost
  <2>1. TypeOK'
    BY <1>4 DEF IInv, TypeOK, RaceLost
  <2>2. Link'
    BY <1>4 DEF IInv, Link, Early, Linked, RaceLost
  <2>3. Reason'
    BY <1>4 DEF IInv, Reason, RaceLost
  <2>4. Alone'
    BY <1>4 DEF IInv, Alone, RaceLost
  <2>5. Stopping'
    BY <1>4 DEF IInv, Stopping, RaceLost
  <2> QED BY <2>1, <2>2, <2>3, <2>4, <2>5 DEF IInv
<1>5. CASE RaceOver
  <2>1. TypeOK'
    BY <1>5 DEF IInv, TypeOK, Reason, RaceOver
  <2>2. Link'
    BY <1>5 DEF IInv, Link, Early, Linked, RaceOver
  <2>3. Reason'
    BY <1>5 DEF IInv, Reason, RaceOver
  <2>4. Alone'
    BY <1>5 DEF IInv, Alone, RaceOver
  <2>5. Stopping'
    BY <1>5 DEF IInv, Stopping, RaceOver
  <2> QED BY <2>1, <2>2, <2>3, <2>4, <2>5 DEF IInv
<1>6. CASE LoserEnds
  <2>1. TypeOK'
    BY <1>6 DEF IInv, TypeOK, LoserEnds
  <2>2. Link'
    BY <1>6 DEF IInv, Link, Early, Linked, LoserEnds
  <2>3. Reason'
    BY <1>6 DEF IInv, Reason, LoserEnds
  <2>4. Alone'
    BY <1>6 DEF IInv, Alone, LoserEnds
  <2>5. Stopping'
    BY <1>6 DEF IInv, Stopping, LoserEnds
  <2> QED BY <2>1, <2>2, <2>3, <2>4, <2>5 DEF IInv
<1>7. CASE UnwindEnds
  <2>1. TypeOK'
    BY <1>7 DEF IInv, TypeOK, UnwindEnds, Caught, OnMqttError, Loop, Leave, Release,
       Await
  <2>2. Link'
    BY <1>7 DEF IInv, Link, Early, Linked, Reason, UnwindEnds, Caught, OnMqttError,
       Loop, Leave, Release, Await
  <2>3. Reason'
    BY <1>7 DEF IInv, Reason, UnwindEnds, Caught, OnMqttError, Loop, Leave, Release,
       Await
  <2>4. Alone'
    BY <1>7 DEF IInv, Alone, UnwindEnds, Caught, OnMqttError, Loop, Leave, Release,
       Await
  <2>5. Stopping'
    BY <1>7 DEF IInv, Stopping, UnwindEnds, Caught, OnMqttError, Loop, Leave,
       Release, Await
  <2> QED BY <2>1, <2>2, <2>3, <2>4, <2>5 DEF IInv
<1> QED BY <1>1, <1>2, <1>3, <1>4, <1>5, <1>6, <1>7 DEF Serving

\* the ways out of the process,
LEMMA EndingKeeps ==
    ASSUME IInv, ReleaseEnds \/ ReportEnds \/ Ends \/ Exited
    PROVE  IInv'
<1> USE DEF startup, bounded, locals, fate
<1>1. CASE ReleaseEnds
  <2>1. TypeOK'
    <3>1. CASE result = "wedged"
      <4>1. PICK code \in {0, 75, 76} : HardExit(code)
        BY <1>1, <3>1 DEF ReleaseEnds, Lifecycle!Disconnected,
           Lifecycle!StartupFailed
      <4> QED BY <1>1, <4>1, HardExitType DEF IInv, ReleaseEnds
    <3>2. CASE result # "wedged"
      BY <1>1, <3>2 DEF IInv, TypeOK, ReleaseEnds, Handle
    <3> QED BY <3>1, <3>2
  <2>2. Link'
    BY <1>1 DEF IInv, Link, Early, Linked, ReleaseEnds, HardExit, Handle
  <2>3. Reason'
    BY <1>1 DEF IInv, Reason, ReleaseEnds, HardExit, Handle
  <2>4. Alone'
    BY <1>1 DEF IInv, Alone, ReleaseEnds, HardExit, Handle
  <2>5. Stopping'
    BY <1>1 DEF IInv, Stopping, Reason, ReleaseEnds, HardExit, Handle
  <2> QED BY <2>1, <2>2, <2>3, <2>4, <2>5 DEF IInv
<1>2. CASE ReportEnds
  <2>1. TypeOK'
    <3>1. CASE wedged
      <4>1. HardExit(76)
        BY <1>2, <3>1 DEF ReportEnds, Lifecycle!StartupFailed
      <4> QED BY <1>2, <4>1, HardExitType DEF IInv, ReportEnds
    <3>2. CASE ~wedged
      BY <1>2, <3>2 DEF IInv, TypeOK, ReportEnds
    <3> QED BY <3>1, <3>2
  <2>2. Link'
    BY <1>2 DEF IInv, Link, Early, Linked, ReportEnds, HardExit
  <2>3. Reason'
    BY <1>2 DEF IInv, Reason, ReportEnds, HardExit
  <2>4. Alone'
    BY <1>2 DEF IInv, Alone, ReportEnds, HardExit
  <2>5. Stopping'
    BY <1>2 DEF IInv, Stopping, ReportEnds, HardExit
  <2> QED BY <2>1, <2>2, <2>3, <2>4, <2>5 DEF IInv
<1>3. CASE Ends
  <2>1. TypeOK'
    BY <1>3 DEF IInv, TypeOK, ExitStatus, Ends
  <2>2. Link'
    BY <1>3 DEF IInv, Link, Early, Linked, Ends
  <2>3. Reason'
    BY <1>3 DEF IInv, Reason, Ends
  <2>4. Alone'
    BY <1>3 DEF IInv, Alone, Ends
  <2>5. Stopping'
    BY <1>3 DEF IInv, Stopping, ExitStatus, Ends
  <2> QED BY <2>1, <2>2, <2>3, <2>4, <2>5 DEF IInv
<1>4. CASE Exited
  <2>1. TypeOK'
    BY <1>4 DEF IInv, TypeOK, vars, Exited
  <2>2. Link'
    BY <1>4 DEF IInv, Link, vars, Exited
  <2>3. Reason'
    BY <1>4 DEF IInv, Reason, vars, Exited
  <2>4. Alone'
    BY <1>4 DEF IInv, Alone, vars, Exited
  <2>5. Stopping'
    BY <1>4 DEF IInv, Stopping, vars, Exited
  <2> QED BY <2>1, <2>2, <2>3, <2>4, <2>5 DEF IInv
<1> QED BY <1>1, <1>2, <1>3, <1>4

\* a stop, wherever it finds the main task,
LEMMA SigtermKeeps ==
    ASSUME IInv, ~sigterm, sigterm' = TRUE,
           \/ CancelBounded \/ Suppressed \/ CancelSession \/ CancelOutside \/ Killed
    PROVE  IInv'
<1> USE DEF startup, bounded, locals, fate
<1>1. CASE CancelBounded
  <2>1. TypeOK'
    BY <1>1 DEF IInv, TypeOK, CancelBounded
  <2>2. Link'
    BY <1>1 DEF IInv, Link, CancelBounded
  <2>3. Reason'
    BY <1>1 DEF IInv, TypeOK, Reason, CancelBounded
  <2>4. Alone'
    BY <1>1 DEF IInv, Alone, Awaited, CancelBounded
  <2>5. Stopping'
    BY <1>1 DEF IInv, TypeOK, Stopping, CancelBounded
  <2> QED BY <2>1, <2>2, <2>3, <2>4, <2>5 DEF IInv
<1>2. CASE Suppressed
  <2>1. TypeOK'
    BY <1>2 DEF IInv, TypeOK, Suppressed
  <2>2. Link'
    BY <1>2 DEF IInv, Link, Suppressed
  <2>3. Reason'
    BY <1>2 DEF IInv, Reason, Suppressed
  <2>4. Alone'
    BY <1>2 DEF IInv, Alone, Suppressed
  <2>5. Stopping'
    BY <1>2 DEF IInv, Stopping, Suppressed
  <2> QED BY <2>1, <2>2, <2>3, <2>4, <2>5 DEF IInv
<1>3. CASE CancelSession
  <2>1. TypeOK'
    <3>1. cause' \in {"cancelled", "mqtt", "error"}
      BY <1>3 DEF IInv, Reason, CancelSession
    <3>2. swallowed' \in BOOLEAN /\ crashed' \in BOOLEAN
      BY <1>3, Zenon DEF IInv, TypeOK, CancelSession
    <3>3. ({wedged, connected, stopping, disconnected, sigterm, swallowed, crashed}
              \subseteq BOOLEAN)'
      BY <1>3, <3>2 DEF IInv, TypeOK, CancelSession
    <3> QED BY <1>3, <3>1, <3>3 DEF IInv, TypeOK, CancelSession
  <2>2. Link'
    BY <1>3 DEF IInv, Link, Early, Linked, CancelSession
  <2>3. Reason'
    BY <1>3 DEF IInv, Reason, CancelSession
  <2>4. Alone'
    BY <1>3 DEF IInv, Alone, CancelSession
  <2>5. Stopping'
    BY <1>3 DEF IInv, Stopping, CancelSession
  <2> QED BY <2>1, <2>2, <2>3, <2>4, <2>5 DEF IInv
<1>4. CASE CancelOutside
  <2>1. TypeOK'
    BY <1>4 DEF IInv, TypeOK, CancelOutside, Handle, Leave, Release, Await
  <2>2. Link'
    BY <1>4 DEF IInv, Link, Early, Linked, CancelOutside, Handle, Leave, Release,
       Await
  <2>3. Reason'
    BY <1>4 DEF IInv, Reason, CancelOutside, Handle, Leave, Release, Await
  <2>4. Alone'
    BY <1>4 DEF IInv, Alone, CancelOutside, Handle, Leave, Release, Await
  <2>5. Stopping'
    BY <1>4 DEF IInv, Stopping, CancelOutside, Handle, Leave, Release, Await
  <2> QED BY <2>1, <2>2, <2>3, <2>4, <2>5 DEF IInv
<1>5. CASE Killed
  <2>1. TypeOK'
    BY <1>5 DEF IInv, TypeOK, Killed
  <2>2. Link'
    BY <1>5 DEF IInv, Link, Early, Linked, Killed
  <2>3. Reason'
    BY <1>5 DEF IInv, Reason, Killed
  <2>4. Alone'
    BY <1>5 DEF IInv, Alone, Killed
  <2>5. Stopping'
    BY <1>5 DEF IInv, Stopping, Killed
  <2> QED BY <2>1, <2>2, <2>3, <2>4, <2>5 DEF IInv
<1> QED BY <1>1, <1>2, <1>3, <1>4, <1>5

\* and what the timers, the operations and the link do.
LEMMA OutsideKeeps ==
    ASSUME IInv, Deadline \/ GraceOver \/ OpEnds \/ StrayEnds \/ LossHeard \/ SessionEnds
    PROVE  IInv'
<1> USE DEF startup, bounded, locals, fate
<1>1. CASE Deadline
  <2>1. TypeOK'
    BY <1>1 DEF IInv, TypeOK, Deadline
  <2>2. Link'
    BY <1>1 DEF IInv, Link, Deadline
  <2>3. Reason'
    BY <1>1 DEF IInv, Reason, Deadline
  <2>4. Alone'
    BY <1>1 DEF IInv, Alone, Awaited, Deadline
  <2>5. Stopping'
    BY <1>1 DEF IInv, Stopping, Deadline
  <2> QED BY <2>1, <2>2, <2>3, <2>4, <2>5 DEF IInv
<1>2. CASE GraceOver
  <2>1. TypeOK'
    BY <1>2 DEF IInv, TypeOK, GraceOver
  <2>2. Link'
    BY <1>2 DEF IInv, Link, GraceOver
  <2>3. Reason'
    BY <1>2 DEF IInv, TypeOK, Reason, GraceOver
  <2>4. Alone'
    BY <1>2 DEF IInv, Alone, Awaited, GraceOver
  <2>5. Stopping'
    BY <1>2 DEF IInv, Stopping, GraceOver
  <2> QED BY <2>1, <2>2, <2>3, <2>4, <2>5 DEF IInv
<1>3. CASE OpEnds
  <2>1. TypeOK'
    BY <1>3 DEF IInv, TypeOK, Raises, OpEnds
  <2>2. Link'
    BY <1>3 DEF IInv, Link, OpEnds
  <2>3. Reason'
    BY <1>3 DEF IInv, TypeOK, Reason, Raises, OpEnds
  <2>4. Alone'
    BY <1>3 DEF IInv, Alone, Raises, OpEnds
  <2>5. Stopping'
    BY <1>3 DEF IInv, Stopping, OpEnds
  <2> QED BY <2>1, <2>2, <2>3, <2>4, <2>5 DEF IInv
<1>4. CASE StrayEnds
  <2>1. TypeOK'
    BY <1>4 DEF IInv, TypeOK, StrayEnds
  <2>2. Link'
    BY <1>4 DEF IInv, Link, StrayEnds
  <2>3. Reason'
    BY <1>4 DEF IInv, Reason, StrayEnds
  <2>4. Alone'
    BY <1>4 DEF IInv, Alone, StrayEnds
  <2>5. Stopping'
    BY <1>4 DEF IInv, Stopping, StrayEnds
  <2> QED BY <2>1, <2>2, <2>3, <2>4, <2>5 DEF IInv
<1>5. CASE LossHeard
  <2>1. TypeOK'
    BY <1>5 DEF IInv, TypeOK, LossHeard
  <2>2. Link'
    BY <1>5 DEF IInv, Link, Linked, LossHeard
  <2>3. Reason'
    BY <1>5 DEF IInv, Reason, LossHeard
  <2>4. Alone'
    BY <1>5 DEF IInv, Alone, LossHeard
  <2>5. Stopping'
    BY <1>5 DEF IInv, Stopping, LossHeard
  <2> QED BY <2>1, <2>2, <2>3, <2>4, <2>5 DEF IInv
<1>6. CASE SessionEnds
  <2>1. TypeOK'
    BY <1>6 DEF IInv, TypeOK, SessionEnds
  <2>2. Link'
    BY <1>6 DEF IInv, Link, Early, Linked, SessionEnds
  <2>3. Reason'
    BY <1>6 DEF IInv, Reason, SessionEnds
  <2>4. Alone'
    BY <1>6 DEF IInv, Alone, SessionEnds
  <2>5. Stopping'
    BY <1>6 DEF IInv, Stopping, SessionEnds
  <2> QED BY <2>1, <2>2, <2>3, <2>4, <2>5 DEF IInv
<1> QED BY <1>1, <1>2, <1>3, <1>4, <1>5, <1>6

\* Every step keeps the invariant.
LEMMA StepKeeps == IInv /\ [Next]_vars => IInv'
<1>1. ASSUME IInv, UNCHANGED vars PROVE IInv'
  BY <1>1 DEF IInv, TypeOK, Link, Reason, Alone, Stopping, Awaited, vars, startup,
     bounded, locals, fate
<1>2. ASSUME IInv, Sigterm PROVE IInv'
  BY <1>2, SigtermKeeps DEF Sigterm
<1> QED
  BY <1>1, <1>2, StartupKeeps, ServingKeeps, EndingKeeps, OutsideKeeps DEF Next,
     Main, Timers, Environment, Startup, Serving

LEMMA Invariance == Spec => []IInv
BY InitIInv, StepKeeps, PTL DEF Spec

----------------------------------------------------------------------------
(* The properties                                                          *)

\* The type invariant of the main task, for every number of attempts.
THEOREM Typing == Spec => []TypeOK
<1>1. IInv => TypeOK
  BY DEF IInv
<1> QED BY <1>1, Invariance, PTL

\* A process that was asked to stop, and whose cancellation was not swallowed,
\* exits with 0, unless the signal itself has killed it.
THEOREM CleanStop == Spec => []StopIsClean
<1>1. IInv => StopIsClean
  BY DEF IInv, Stopping, StopIsClean
<1> QED BY <1>1, Invariance, PTL

\* No attempt is started while a Bluetooth operation has not ended
\* (run_bounded, run_startup_stage).
THEOREM NoSecondAttempt == Spec => OneAttempt
<1> DEFINE A == wait' = "running" /\ pc' = "attempt" /\ (pc # "attempt" \/ stage' # stage)
                    => ops = {}
<1>1. ASSUME IInv, [Next]_vars PROVE [A]_vars
  <2> SUFFICES ASSUME Next, wait' = "running", pc' = "attempt",
                      pc # "attempt" \/ stage' # stage
               PROVE  ops = {}
    BY <1>1
  <2> USE DEF startup, bounded, locals, fate
  <2>1. CASE Startup
    BY <1>1, <2>1 DEF IInv, Alone, Startup, Start, DiscoveryOk, ConnectOk,
       AttemptFailed, CleanupEnds, Wedged, StageCancelled, BackoffEnds, RetryOrFail,
       LeaveStage, Release, Handle, Await
  <2>2. CASE Serving
    BY <2>2 DEF Serving, LoopResumes, MqttConnects, MqttRefused, RaceLost, RaceOver,
       LoserEnds, UnwindEnds, Caught, OnMqttError, Loop, Leave, Release, Await
  <2>3. CASE ReleaseEnds \/ ReportEnds \/ Ends \/ Exited
    BY <2>3 DEF ReleaseEnds, ReportEnds, Ends, Exited, HardExit, Handle, vars
  <2>4. CASE Timers \/ OpEnds \/ StrayEnds \/ LossHeard \/ SessionEnds
    BY <2>4 DEF Timers, Deadline, GraceOver, OpEnds, StrayEnds, LossHeard,
       SessionEnds
  <2>5. CASE Sigterm
    BY <2>5 DEF Sigterm, CancelBounded, Suppressed, CancelSession, CancelOutside,
       Killed, Handle, Leave, Release, Await
  <2> QED BY <2>1, <2>2, <2>3, <2>4, <2>5 DEF Next, Main, Environment
<1> QED BY <1>1, Invariance, PTL DEF Spec, OneAttempt

----------------------------------------------------------------------------
(* BridgeProcess implements BridgeLifecycle                                *)

LEMMA InitMaps == Init => Lifecycle!Init
BY DEF Init, Lifecycle!Init, Lifecycle!Running

\* A step that changes none of what the lifecycle sees is a stutter.
LEMMA Stutters ==
    ASSUME UNCHANGED <<connected, disconnected, sigterm, crashed, status>>,
           pc \notin {"exited", "retry"}, pc' \notin {"exited", "retry"}
    PROVE  UNCHANGED Lifecycle!vars
BY DEF Lifecycle!vars

\* Up to the connection only an unexpected exception is seen, and the connection.
LEMMA StartupMaps ==
    ASSUME IInv, Startup
    PROVE  Lifecycle!Next \/ UNCHANGED Lifecycle!vars
<1> USE DEF startup, bounded, locals, fate
<1>1. CASE DiscoveryOk
  <2>1. CASE UNCHANGED crashed
    BY <1>1, <2>1, Stutters DEF DiscoveryOk, Attempt, Handle, Await
  <2>2. CASE ~UNCHANGED crashed
    <3>1. Lifecycle!Crash
      BY <1>1, <2>2 DEF DiscoveryOk, Handle, Lifecycle!Crash
    <3> QED BY <3>1 DEF Lifecycle!Next
  <2> QED BY <2>1, <2>2
<1>2. CASE ConnectOk
  <2>1. Lifecycle!Connect
    BY <1>2 DEF IInv, Link, Early, ConnectOk, Lifecycle!Connect
  <2> QED BY <2>1 DEF Lifecycle!Next
<1>3. CASE Start \/ AttemptFailed \/ CleanupEnds \/ Wedged \/ StageCancelled \/ BackoffEnds
  BY <1>3, Stutters DEF Start, AttemptFailed, CleanupEnds, Wedged, StageCancelled,
     BackoffEnds, RetryOrFail, LeaveStage, Release, Handle, Await, Attempt
<1> QED BY <1>1, <1>2, <1>3 DEF Startup

\* The pause before a reconnection is entered with the link as it was, and left.
LEMMA ServingMaps ==
    ASSUME IInv, Serving
    PROVE  Lifecycle!Next \/ UNCHANGED Lifecycle!vars
<1> USE DEF startup, bounded, locals, fate
<1>1. CASE pc = "retry"
  <2>1. LoopResumes
    BY <1>1 DEF Serving, LoopResumes, MqttConnects, MqttRefused, RaceLost, RaceOver,
       LoserEnds, UnwindEnds
  <2>2. Lifecycle!Resume
    BY <1>1, <2>1 DEF IInv, Link, Linked, LoopResumes, Loop, Leave, Release, Await,
       Lifecycle!Resume
  <2> QED BY <2>2 DEF Lifecycle!Next
<1>2. CASE pc # "retry" /\ pc' = "retry"
  <2>1. pc \in {"mqtt", "unwind"} /\ ~disconnected
        /\ UNCHANGED <<connected, disconnected, sigterm, crashed, status>>
    BY <1>2 DEF Serving, LoopResumes, MqttConnects, MqttRefused, RaceLost, RaceOver,
       LoserEnds, UnwindEnds, Caught, OnMqttError, Loop, Leave, Release, Await
  <2>2. Lifecycle!Reconnect
    BY <1>2, <2>1 DEF IInv, Link, Linked, Lifecycle!Reconnect
  <2> QED BY <2>2 DEF Lifecycle!Next
<1>3. CASE pc # "retry" /\ pc' # "retry"
  BY <1>3, Stutters DEF Serving, LoopResumes, MqttConnects, MqttRefused, RaceLost,
     RaceOver, LoserEnds, UnwindEnds, Caught, OnMqttError, Loop, Leave, Release,
     Await
<1> QED BY <1>1, <1>2, <1>3

\* A hard exit is one the lifecycle allows.
LEMMA ReleaseMaps ==
    ASSUME IInv, ReleaseEnds
    PROVE  Lifecycle!Next \/ UNCHANGED Lifecycle!vars
<1> USE DEF startup, bounded, locals, fate
<1>1. CASE result = "wedged"
  <2>1. pc = "release" /\ pc' = "exited" /\ UNCHANGED <<connected, disconnected, sigterm, crashed>>
    BY <1>1 DEF ReleaseEnds, HardExit
  <2>2. status' \in Lifecycle!Truthful
    <3>1. CASE stopping
      BY <1>1, <3>1 DEF IInv, Link, ReleaseEnds, HardExit, Lifecycle!Truthful
    <3>2. CASE ~stopping /\ connected
      BY <1>1, <3>2 DEF IInv, Reason, ReleaseEnds, HardExit, Lifecycle!Truthful
    <3>3. CASE ~stopping /\ ~connected
      BY <1>1, <3>3 DEF ReleaseEnds, HardExit, Lifecycle!Truthful
    <3> QED BY <3>1, <3>2, <3>3
  <2>3. Lifecycle!Exit
    BY <2>1, <2>2 DEF Lifecycle!Exit
  <2> QED BY <2>3 DEF Lifecycle!Next
<1>2. CASE result # "wedged"
  BY <1>2, Stutters DEF ReleaseEnds, Handle
<1> QED BY <1>1, <1>2

LEMMA ReportMaps ==
    ASSUME IInv, ReportEnds
    PROVE  Lifecycle!Next \/ UNCHANGED Lifecycle!vars
<1> USE DEF startup, bounded, locals, fate
<1>1. CASE wedged
  <2>1. Lifecycle!Exit
    BY <1>1 DEF IInv, Reason, ReportEnds, HardExit, Lifecycle!Exit,
       Lifecycle!Truthful
  <2> QED BY <2>1 DEF Lifecycle!Next
<1>2. CASE ~wedged
  BY <1>2, Stutters DEF ReportEnds
<1> QED BY <1>1, <1>2

\* The exit status is one the lifecycle allows.
LEMMA EndsMaps ==
    ASSUME IInv, Ends
    PROVE  Lifecycle!Next
<1> USE DEF startup, bounded, locals, fate
<1>1. pc = "ending" /\ pc' = "exited" /\ status' = ExitStatus
      /\ UNCHANGED <<connected, disconnected, sigterm, crashed>>
  BY DEF Ends
<1>2. ExitStatus \in Lifecycle!Truthful
  BY <1>1 DEF IInv, Link, Reason, ExitStatus, Lifecycle!Truthful
<1>3. Lifecycle!Exit
  BY <1>1, <1>2 DEF Lifecycle!Exit
<1> QED BY <1>3 DEF Lifecycle!Next

LEMMA LossMaps ==
    ASSUME IInv, LossHeard
    PROVE  Lifecycle!Next \/ UNCHANGED Lifecycle!vars
<1> USE DEF startup, bounded, locals, fate
<1>1. CASE crashed
  BY <1>1 DEF LossHeard, Lifecycle!vars
<1>2. CASE ~crashed
  <2>1. Lifecycle!LinkLost
    BY <1>2 DEF IInv, Link, Linked, LossHeard, Lifecycle!LinkLost
  <2> QED BY <2>1 DEF Lifecycle!Next
<1> QED BY <1>1, <1>2

LEMMA SessionMaps ==
    ASSUME IInv, SessionEnds
    PROVE  Lifecycle!Next \/ UNCHANGED Lifecycle!vars
<1> USE DEF startup, bounded, locals, fate
<1>1. CASE crashed' = crashed
  BY <1>1, Stutters DEF SessionEnds
<1>2. CASE crashed' # crashed
  <2>1. Lifecycle!Crash
    BY <1>2 DEF IInv, TypeOK, SessionEnds, Lifecycle!Crash
  <2> QED BY <2>1 DEF Lifecycle!Next
<1> QED BY <1>1, <1>2

\* A request is one wherever it cancels the main task, and the end if it kills.
LEMMA SigtermMaps ==
    ASSUME IInv, Sigterm
    PROVE  Lifecycle!Next
<1> USE DEF startup, bounded, locals, fate
<1>1. CASE Killed
  <2>1. Lifecycle!Exit
    BY <1>1 DEF Sigterm, Killed, Lifecycle!Exit, Lifecycle!Terminated
  <2> QED BY <2>1 DEF Lifecycle!Next
<1>2. CASE CancelBounded \/ Suppressed \/ CancelSession \/ CancelOutside
  <2>0. sigterm' = TRUE
    BY DEF Sigterm
  <2>1. pc # "exited" /\ pc' \notin {"exited", "retry"}
        /\ UNCHANGED <<connected, disconnected, status>>
        /\ (crashed' = crashed \/ crashed' = TRUE)
    BY <1>2 DEF IInv, TypeOK, CancelBounded, Suppressed, CancelSession,
       CancelOutside, Handle, Leave, Release, Await
  <2>2. pc = "retry" => connected
    BY DEF IInv, Link, Linked
  <2>3. Lifecycle!Ask
    BY <2>0, <2>1, <2>2 DEF Lifecycle!Ask
  <2> QED BY <2>3 DEF Lifecycle!Next
<1> QED BY <1>1, <1>2 DEF Sigterm

LEMMA StepMaps ==
    ASSUME IInv, [Next]_vars
    PROVE  [Lifecycle!Next]_Lifecycle!vars
<1> USE DEF startup, bounded, locals, fate
<1>1. CASE UNCHANGED vars
  BY <1>1 DEF vars, Lifecycle!vars
<1>2. CASE Deadline \/ GraceOver \/ OpEnds \/ StrayEnds \/ Exited
  BY <1>2 DEF Deadline, GraceOver, OpEnds, StrayEnds, Exited, vars, Lifecycle!vars
<1> QED
  BY <1>1, <1>2, StartupMaps, ServingMaps, ReleaseMaps, ReportMaps, EndsMaps,
     LossMaps, SessionMaps, SigtermMaps DEF Next, Main, Timers, Environment

\* The process implements the lifecycle systemd and the supervisor rely on: its
\* exit status tells what happened, whichever operations hang and whenever the
\* link is lost or a stop is asked for (_main, main, cli).
THEOREM Implementation == Spec => TruthfulExit
BY InitMaps, StepMaps, Invariance, PTL DEF Spec, Lifecycle!Spec, TruthfulExit
=============================================================================
