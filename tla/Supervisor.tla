----------------------------- MODULE Supervisor -----------------------------
(***************************************************************************)
(* The root-owned recovery supervisor (src/scripts/bridge_recovery.py)     *)
(* with the bridge unit it looks after.  A pass (run_once) is cut where it *)
(* persists, calls systemd or reads what others write, so the bridge, the  *)
(* operator, a crash or a reboot may come between any two of its steps.    *)
(*                                                                         *)
(* Processes are numbered in the order they start; the number stands for   *)
(* the PID and the instance identifier.  Stamps are clock readings.        *)
(***************************************************************************)
EXTENDS Integers, FiniteSets

CONSTANTS
    FailuresToReset, FailureWindow,     \* BLE evidence that asks for a reset
    MaxResetsShort, ShortWindow,        \* budget of Bluetooth resets
    MaxResetsLong, LongWindow,
    PlainWindow, MaxPlainStreak,        \* budget of plain restarts (1 a window)
    MaxStartupStreak,                   \* startup exits before giving up
    StuckTime, HealthyTime,
    ReadFaults,     \* state.json may be unreadable when a pass loads it
    MaxNow,         \* bound: clock
    MaxRuns         \* bound: bridge processes started

ASSUME SettingsAssumption ==
    /\ FailuresToReset \in Nat \ {0} /\ MaxResetsShort \in Nat \ {0}
    /\ MaxResetsLong \in Nat \ {0} /\ MaxResetsShort <= MaxResetsLong
    /\ FailureWindow \in Nat /\ ShortWindow \in Nat /\ LongWindow \in Nat
    /\ PlainWindow \in Nat /\ MaxPlainStreak \in Nat /\ MaxStartupStreak \in Nat
    /\ StuckTime \in Nat /\ HealthyTime \in Nat /\ ReadFaults \in BOOLEAN
ASSUME LimitsAssumption == MaxNow \in Nat /\ MaxRuns \in Nat \ {0}

\* What the budget needs and Settings.from_env does not check.
ASSUME WindowsAssumption ==
    /\ ShortWindow <= LongWindow
    /\ ReadFaults => LongWindow <= HealthyTime

VARIABLES
    now,        \* the clock
    active,     \* the unit's ActiveState
    run,        \* the running bridge process (0: none)
    runs,       \* processes started so far
    phase,      \* phase in its health record
    since,      \* when a connecting process last updated it
    manual,     \* a person started the unit
    log,        \* startup exits in exits.json, not yet consumed
    disk,       \* state.json
    mem,        \* the State object of the pass
    view,       \* what systemctl show returned to the pass
    ready,      \* the trusted record the pass read says ready
    previous,   \* the process of that record (0: none)
    pc,         \* the next step of the pass
    plan,       \* the action decide() chose
    charges,    \* resets charged since the operator reset; history
    bt,         \* Bluetooth restarts since then; history
    exits,      \* startup exits since ready was last recorded; history
    blamed      \* BLE failures since then; history

bridge  == <<active, run, runs, phase, since, manual>>
pass    == <<mem, view, ready, previous, pc, plan>>
history == <<charges, bt, exits, blamed>>
vars    == <<now, bridge, log, disk, pass, history>>

Times == 0..MaxNow
Never == -1

\* "connecting" is every phase before the BLE connection, and no record at all;
\* "connected" is starting or degraded, with a connection and not ready.
Phases == {"connecting", "connected", "ready"}
Stamp    == [t : Times, n : Nat]
Evidence == [t : Times, run : 1..MaxRuns, copy : 0..FailuresToReset]
Exit     == [t : Times, run : 1..MaxRuns, ble : BOOLEAN]

\* "config" is failed with exit status 78, "waiting" is activating with no
\* process, before an automatic restart.
Actives == {"inactive", "waiting", "active", "deactivating", "failed", "config"}

\* Deciding, acting and waiting points of a pass.
Steps == {"idle", "observe", "restart", "save", "charge", "rstop",
          "rwait", "rbt", "rstart", "verify", "cleanup", "stop", "swait"}
Plans == {"none", "recover", "restart", "latch", "stop"}

State ==
    [ble : SUBSET Evidence, resets : SUBSET Stamp, plain : SUBSET Times,
     plainStreak : Nat, streak : Nat, readyInst : 0..MaxRuns,
     readySince : Times \cup {Never}, stuck : SUBSET (1..MaxRuns),
     failed : BOOLEAN, pending : BOOLEAN]

NewState ==
    [ble |-> {}, resets |-> {}, plain |-> {}, plainStreak |-> 0, streak |-> 0,
     readyInst |-> 0, readySince |-> Never, stuck |-> {},
     failed |-> FALSE, pending |-> FALSE]

\* What parse_state and load_state return for a file they cannot use.
Unreadable == [NewState EXCEPT !.failed = TRUE]

NoView == [active |-> "inactive", run |-> 0]

TypeOK ==
    /\ now \in Times
    /\ active \in Actives
    /\ run \in 0..MaxRuns /\ runs \in 0..MaxRuns
    /\ phase \in Phases /\ since \in Times /\ manual \in BOOLEAN
    /\ log \in SUBSET Exit /\ IsFiniteSet(log)
    /\ disk \in State /\ mem \in State
    /\ view \in [active : Actives, run : 0..MaxRuns]
    /\ ready \in BOOLEAN /\ previous \in 0..MaxRuns
    /\ pc \in Steps /\ plan \in Plans
    /\ charges \in SUBSET Stamp /\ IsFiniteSet(charges)
    /\ bt \in Nat /\ exits \in Nat
    /\ blamed \in SUBSET ((1..MaxRuns) \X (0..FailuresToReset))

Init ==
    /\ now = 0
    /\ active = "active" /\ run = 1 /\ runs = 1
    /\ phase = "connecting" /\ since = 0 /\ manual = FALSE
    /\ log = {}
    /\ disk = NewState /\ mem = NewState
    /\ view = NoView /\ ready = FALSE /\ previous = 0
    /\ pc = "idle" /\ plan = "none"
    /\ charges = {} /\ bt = 0 /\ exits = 0 /\ blamed = {}

----------------------------------------------------------------------------
(* The unit under systemd, the bridge process, the people                  *)

\* The BLE failures in the log, as stamps; the failures stamps stand for.
BleFailures == {[t |-> x.t, run |-> x.run, copy |-> 0] : x \in {x \in log : x.ble}}
Blames(S) == {<<x.run, x.copy>> : x \in S}

Tick ==
    /\ now < MaxNow
    /\ now' = now + 1
    /\ UNCHANGED <<bridge, log, disk, pass, history>>

\* A new process replaces whatever the unit was doing.
Starts(byHand) ==
    /\ runs < MaxRuns
    /\ active' = "active"
    /\ run' = runs + 1 /\ runs' = runs + 1
    /\ phase' = "connecting" /\ since' = now
    /\ manual' = byHand

Ends(to) ==
    /\ active' = to
    /\ run' = 0 /\ phase' = "connecting" /\ since' = 0
    /\ UNCHANGED <<runs, manual>>

\* A lifecycle of main() that never connected: exit 76 (ble) or 79.  The
\* ExecStopPost hook logs it before systemd restarts the unit or gives up.
StartupExit(ble) ==
    /\ run # 0 /\ phase = "connecting"
    /\ \E to \in IF active = "active" THEN {"waiting", "failed"} ELSE {"failed"} :
          Ends(to)
    /\ log' = log \cup {[t |-> now, run |-> run, ble |-> ble]}
    /\ exits' = exits + 1
    /\ blamed' = IF ble THEN blamed \cup {<<run, 0>>} ELSE blamed
    /\ UNCHANGED <<now, disk, pass, charges, bt>>

\* Exit 78, which RestartPreventExitStatus does not restart.
ConfigExit ==
    /\ run # 0 /\ phase = "connecting"
    /\ Ends("config")
    /\ UNCHANGED <<now, log, disk, pass, history>>

\* Exit 75, a signal or another status; observe() ignores it in the log.
OtherExit ==
    /\ run # 0
    /\ \E to \in IF active = "active" THEN {"waiting", "failed"}
                                       ELSE {"inactive", "failed"} : Ends(to)
    /\ UNCHANGED <<now, log, disk, pass, history>>

AutoRestart ==
    /\ active = "waiting"
    /\ Starts(manual)
    /\ UNCHANGED <<now, log, disk, pass, history>>

\* The bridge rewrites its health record: another attempt to connect, an MQTT
\* session that starts or is lost, a snapshot that failed or succeeded.
Reports(p) ==
    /\ run # 0
    /\ p = "connecting" => phase = "connecting"
    /\ p = "ready" => phase # "connecting"
    /\ phase' = p
    /\ since' = IF p = "connecting" THEN now ELSE 0
    /\ UNCHANGED <<now, active, run, runs, manual, log, disk, pass, history>>

OperatorStart ==
    /\ active \in {"inactive", "failed", "config"}
    /\ Starts(TRUE)
    /\ UNCHANGED <<now, log, disk, pass, history>>

\* bridge_recovery.py reset, refused while a pass holds the lock.
OperatorReset ==
    /\ pc = "idle"
    /\ disk' = NewState
    /\ charges' = {} /\ bt' = 0
    /\ exits' = Cardinality(log)
    /\ blamed' = Blames(BleFailures)
    /\ UNCHANGED <<now, bridge, log, pass>>

----------------------------------------------------------------------------
(* The calls to systemctl                                                  *)

\* systemctl stop: the process is told to stop, an automatic restart is
\* called off.
StopIssued ==
    /\ active' = CASE run # 0             -> "deactivating"
                   [] active = "waiting"  -> "inactive"
                   [] OTHER               -> active
    /\ UNCHANGED <<run, runs, phase, since, manual>>

\* systemctl start: nothing to do for a unit that runs; one that is stopping
\* starts again once it has stopped.
StartIssued == IF active = "active" THEN UNCHANGED bridge ELSE Starts(FALSE)

FullyStopped == run = 0 /\ active \in {"inactive", "failed", "config"}

----------------------------------------------------------------------------
(* A pass: observing and deciding                                          *)

Recent(S, window) == {x \in S : now - x.t < window}

\* The pass ends, or is killed, and its variables with it.
PassOver ==
    /\ pc' = "idle" /\ plan' = "none"
    /\ mem' = NewState /\ view' = NoView /\ ready' = FALSE /\ previous' = 0

Goto(step) ==
    /\ pc' = step
    /\ UNCHANGED <<plan, view, ready, previous>>

\* Killed by TimeoutStartSec, or by anything else that ends a process.
Crash ==
    /\ pc # "idle"
    /\ PassOver
    /\ UNCHANGED <<now, bridge, log, disk, history>>

\* The host restarts: no hook runs for the process, the unit starts at boot.
Reboot ==
    /\ PassOver
    /\ Starts(FALSE)
    /\ UNCHANGED <<now, log, disk, history>>

\* The timer or OnFailure= starts a pass; it takes the lock and reads the unit.
\* A pass that fails to, or finds the lock held, does nothing.
Begin ==
    /\ pc = "idle"
    /\ pc' = "observe"
    /\ view' = [active |-> active, run |-> run]
    /\ UNCHANGED <<now, bridge, log, disk, mem, ready, previous, plan, history>>

\* What load_state may return.
Loaded == {disk} \cup (IF ReadFaults THEN {Unreadable} ELSE {})

\* A record counts only for the process systemd showed, while it lives.
Trusted == run # 0 /\ run = view.run
Ready == Trusted /\ phase = "ready"

\* A live process that has not left connecting for too long, seen first here.
Stuck(S) ==
    /\ Trusted /\ run \notin S.stuck
    /\ phase = "connecting"
    /\ now - since > StuckTime

\* Mutant: one entry more than it takes to reach the threshold.
StuckEvidenceMore ==
    {[t |-> now, run |-> run, copy |-> i] : i \in 1..(FailuresToReset + 1)}

StuckEvidence ==
    {[t |-> now, run |-> run, copy |-> i] : i \in 1..FailuresToReset}

\* The exits the pass takes from the log, then what has expired.
Counted(S) ==
    [S EXCEPT
       !.streak = @ + Cardinality(log),
       !.ble    = Recent(@ \cup BleFailures, FailureWindow),
       !.resets = Recent(@, LongWindow),
       !.plain  = {t \in @ : now - t < PlainWindow}]

\* Mutant: a ready bridge does not end the run of BLE failures.
SeenReadyKeepsFailures(S) ==
    LET known  == S.readyInst = run /\ S.readySince # Never
        unlatch == known /\ ~S.pending /\ now - S.readySince >= HealthyTime
    IN  [S EXCEPT
           !.plainStreak = 0, !.streak = 0,
           !.readyInst  = run,
           !.readySince = IF known THEN @ ELSE now,
           !.failed     = @ /\ ~unlatch]

\* A ready bridge ends every run of failures; ready for long clears the latch.
SeenReady(S) ==
    LET known  == S.readyInst = run /\ S.readySince # Never
        unlatch == known /\ ~S.pending /\ now - S.readySince >= HealthyTime
    IN  [S EXCEPT
           !.ble = {}, !.plainStreak = 0, !.streak = 0,
           !.readyInst  = run,
           !.readySince = IF known THEN @ ELSE now,
           !.failed     = @ /\ ~unlatch]

SeenNotReady(S) ==
    LET T == [S EXCEPT !.readyInst = 0, !.readySince = Never]
    IN  IF Stuck(S)
        THEN [T EXCEPT !.stuck = @ \cup {run}, !.ble = @ \cup StuckEvidence]
        ELSE T

Observed(S) == IF Ready THEN SeenReady(Counted(S)) ELSE SeenNotReady(Counted(S))

\* Mutant: the short window is not looked at.
BudgetUsedLong(S) == Cardinality(Recent(S.resets, LongWindow)) >= MaxResetsLong

BudgetUsed(S) ==
    \/ Cardinality(Recent(S.resets, ShortWindow)) >= MaxResetsShort
    \/ Cardinality(Recent(S.resets, LongWindow)) >= MaxResetsLong

\* Mutant: decide() does not look at the latch.
DecisionUnlatched(S) ==
    IF view.active = "config" \/ Ready             THEN "none"
    ELSE IF S.streak >= MaxStartupStreak           THEN "latch"
    ELSE IF Cardinality(S.ble) >= FailuresToReset
      THEN IF BudgetUsed(S) THEN "latch" ELSE "recover"
    ELSE IF view.active # "failed"                 THEN "none"
    ELSE IF S.plainStreak >= MaxPlainStreak        THEN "latch"
    ELSE IF S.plain # {}                           THEN "none"
    ELSE "restart"

\* Mutant: a latched pass does not try the pending stop again.
DecisionNoRetry(S) ==
    IF S.failed \/ view.active = "config" \/ Ready THEN "none"
    ELSE IF S.streak >= MaxStartupStreak           THEN "latch"
    ELSE IF Cardinality(S.ble) >= FailuresToReset
      THEN IF BudgetUsed(S) THEN "latch" ELSE "recover"
    ELSE IF view.active # "failed"                 THEN "none"
    ELSE IF S.plainStreak >= MaxPlainStreak        THEN "latch"
    ELSE IF S.plain # {}                           THEN "none"
    ELSE "restart"

\* decide(): the first of its returns that applies.
Decision(S) ==
    IF S.failed
      THEN IF S.pending /\ view.active # "config" /\ ~Ready THEN "stop" ELSE "none"
    ELSE IF view.active = "config" \/ Ready        THEN "none"
    ELSE IF S.streak >= MaxStartupStreak           THEN "latch"
    ELSE IF Cardinality(S.ble) >= FailuresToReset
      THEN IF BudgetUsed(S) THEN "latch" ELSE "recover"
    ELSE IF view.active # "failed"                 THEN "none"
    ELSE IF S.plainStreak >= MaxPlainStreak        THEN "latch"
    ELSE IF S.plain # {}                           THEN "none"
    ELSE "restart"

Latched(S) == [S EXCEPT !.failed = TRUE, !.pending = TRUE]

\* Mutant: the exits are read and left in the log.
ObserveKeepsLog ==
    /\ pc = "observe"
    /\ \E L \in Loaded :
          LET S == Observed(L)
              d == Decision(S)
          IN  /\ mem' = IF d = "latch" THEN Latched(S) ELSE S
              /\ plan' = d
              /\ pc' = IF d = "restart" THEN "restart" ELSE "save"
              /\ blamed' = IF Stuck(L) THEN blamed \cup Blames(StuckEvidence) ELSE blamed
    /\ ready' = Ready
    /\ previous' = IF Trusted THEN run ELSE 0
    /\ view' = NoView
    /\ UNCHANGED <<now, bridge, log, disk, charges, bt, exits>>

\* load_state, the reader, consume_exits, observe and decide follow each other
\* without waiting; with what the decision changes at once.
Observe ==
    /\ pc = "observe"
    /\ \E L \in Loaded :
          LET S == Observed(L)
              d == Decision(S)
          IN  /\ mem' = IF d = "latch" THEN Latched(S) ELSE S
              /\ plan' = d
              /\ pc' = IF d = "restart" THEN "restart" ELSE "save"
              /\ blamed' = IF Stuck(L) THEN blamed \cup Blames(StuckEvidence) ELSE blamed
    /\ ready' = Ready
    /\ previous' = IF Trusted THEN run ELSE 0
    /\ view' = NoView
    /\ log' = {}
    /\ UNCHANGED <<now, bridge, disk, charges, bt, exits>>

\* restart_bridge: reset-failed and start, with nothing saved yet.
RestartBridge ==
    /\ pc = "restart"
    /\ mem' = [mem EXCEPT !.plain = @ \cup {now}, !.plainStreak = @ + 1]
    /\ StartIssued \/ UNCHANGED bridge
    /\ Goto("save")
    /\ UNCHANGED <<now, log, disk, history>>

Save ==
    /\ pc = "save"
    /\ disk' = mem
    /\ IF plan \in {"none", "restart"}
         THEN PassOver
         ELSE /\ Goto(IF plan = "recover" THEN "charge" ELSE "stop")
              /\ UNCHANGED mem
    /\ exits'  = IF ready THEN Cardinality(log) ELSE exits
    /\ blamed' = IF ready THEN Blames(BleFailures) ELSE blamed
    /\ UNCHANGED <<now, bridge, log, charges, bt>>

----------------------------------------------------------------------------
(* A pass: recover()                                                       *)

\* The reset is charged and stored before anything is done.
Charge ==
    LET stamp == [t |-> now, n |-> Cardinality(charges) + 1]
    IN  /\ pc = "charge"
        /\ mem' = [mem EXCEPT !.resets = @ \cup {stamp}]
        /\ disk' = mem'
        /\ charges' = charges \cup {stamp}
        /\ Goto("rstop")
        /\ UNCHANGED <<now, bridge, log, bt, exits, blamed>>

\* fail(): latched and stored; a bridge that was stopped is started again.
Fails(stopped) ==
    /\ mem' = Latched(mem) /\ disk' = mem'
    /\ Goto(IF stopped THEN "cleanup" ELSE "stop")

RecoverStops ==
    /\ pc = "rstop"
    /\ \/ /\ StopIssued
          /\ Goto("rwait")
          /\ UNCHANGED <<mem, disk>>
       \/ /\ StopIssued \/ UNCHANGED bridge
          /\ Fails(FALSE)
    /\ UNCHANGED <<now, log, history>>

\* Mutant: no wait for the process to be gone.
RecoverWaitsNot ==
    /\ pc = "rwait"
    /\ \/ log' = {} /\ Goto("rbt") /\ UNCHANGED <<mem, disk>>
       \/ Fails(TRUE) /\ UNCHANGED log
    /\ UNCHANGED <<now, bridge, history>>

\* Once the unit is fully stopped, whatever the log holds is dropped: the exit
\* this stop caused was asked for.
RecoverWaits ==
    /\ pc = "rwait"
    /\ \/ FullyStopped /\ log' = {} /\ Goto("rbt") /\ UNCHANGED <<mem, disk>>
       \/ Fails(TRUE) /\ UNCHANGED log
    /\ UNCHANGED <<now, bridge, history>>

BluetoothRestart ==
    /\ pc = "rbt"
    /\ bt' = bt + 1
    /\ \/ Goto("rstart") /\ UNCHANGED <<mem, disk>>
       \/ Fails(TRUE)
    /\ UNCHANGED <<now, bridge, log, charges, exits, blamed>>

RecoverStarts ==
    /\ pc = "rstart"
    /\ \/ StartIssued /\ Goto("verify") /\ UNCHANGED <<mem, disk>>
       \/ (StartIssued \/ UNCHANGED bridge) /\ Fails(TRUE)
    /\ UNCHANGED <<now, log, history>>

\* A new process whose own record says ready.
Verified ==
    /\ pc = "verify"
    /\ run \notin {0, previous} /\ phase = "ready"
    /\ disk' = [mem EXCEPT !.ble = {}, !.streak = 0]
    /\ PassOver
    /\ exits' = Cardinality(log) /\ blamed' = Blames(BleFailures)
    /\ UNCHANGED <<now, bridge, log, charges, bt>>

VerifyTimesOut ==
    /\ pc = "verify"
    /\ IF Cardinality(Recent(mem.resets, LongWindow)) >= MaxResetsLong
         THEN Fails(FALSE)
         ELSE disk' = mem /\ PassOver
    /\ UNCHANGED <<now, bridge, log, history>>

\* The best-effort start of a failed recovery.
Cleanup ==
    /\ pc = "cleanup"
    /\ StartIssued \/ UNCHANGED bridge
    /\ Goto("stop")
    /\ UNCHANGED <<now, log, disk, mem, history>>

----------------------------------------------------------------------------
(* A pass: stop_terminally()                                               *)

\* Mutant: a stop that systemctl refused is taken for done.
TerminalStopTrusted ==
    /\ pc = "stop"
    /\ \/ StopIssued /\ Goto("swait") /\ UNCHANGED <<mem, disk>>
       \/ /\ StopIssued \/ UNCHANGED bridge
          /\ disk' = [mem EXCEPT !.pending = FALSE]
          /\ PassOver
    /\ UNCHANGED <<now, log, history>>

TerminalStop ==
    /\ pc = "stop"
    /\ \/ StopIssued /\ Goto("swait") /\ UNCHANGED mem
       \/ (StopIssued \/ UNCHANGED bridge) /\ PassOver
    /\ UNCHANGED <<now, log, disk, history>>

TerminalStopVerified ==
    /\ pc = "swait"
    /\ FullyStopped
    /\ disk' = [mem EXCEPT !.pending = FALSE]
    /\ PassOver
    /\ UNCHANGED <<now, bridge, log, history>>

TerminalStopTimesOut ==
    /\ pc = "swait"
    /\ PassOver
    /\ UNCHANGED <<now, bridge, log, disk, history>>

----------------------------------------------------------------------------

Environment ==
    \/ Tick \/ ConfigExit \/ OtherExit \/ AutoRestart
    \/ OperatorStart \/ OperatorReset
    \/ \E ble \in BOOLEAN : StartupExit(ble)
    \/ \E p \in Phases : Reports(p)

Pass ==
    \/ Begin \/ Observe \/ RestartBridge \/ Save
    \/ Charge \/ RecoverStops \/ RecoverWaits
    \/ BluetoothRestart \/ RecoverStarts \/ Verified \/ VerifyTimesOut \/ Cleanup
    \/ TerminalStop \/ TerminalStopVerified \/ TerminalStopTimesOut

Next == Environment \/ Pass \/ Crash \/ Reboot

Spec == Init /\ [][Next]_vars

----------------------------------------------------------------------------
(* Properties                                                              *)

\* Bluetooth resets are charged within both budgets, whatever crashes,
\* restarts, reboots and unreadable files come between ("at most one reset
\* per 10 minutes and two per 30 minutes").
ResetBudget ==
    /\ Cardinality(Recent(charges, ShortWindow)) <= MaxResetsShort
    /\ Cardinality(Recent(charges, LongWindow)) <= MaxResetsLong

\* recover() stores the charge of a Bluetooth restart before it restarts: a
\* crash halfway never hands out a free reset.
ChargedFirst ==
    [][bt' > bt => /\ bt < Cardinality(charges)
                   /\ \E c \in disk.resets : c.n = Cardinality(charges)]_vars

\* Bluetooth is not restarted under a bridge the supervisor or systemd
\* started: recover() waits until the unit is fully stopped.
BluetoothAlone == [][bt' > bt => run = 0 \/ manual]_vars

\* A pass that starts the bridge, in restart_bridge or recover.
PassStarts == runs' > runs /\ pc' \notin {pc, "idle"}

\* While the latch is stored no pass resets Bluetooth or starts the bridge,
\* but for the cleanup of the recovery that latched it.
LatchedQuiet ==
    [][disk.failed => ~(bt' > bt) /\ (PassStarts => pc = "cleanup")]_vars

\* A terminal stop is stored, with the latch, before it is attempted.
DurableStop == pc \in {"stop", "swait"} => disk.failed /\ disk.pending

\* No startup exit is counted twice: what is stored or held by a pass and
\* what is still in the log never exceed the exits there were since a ready
\* bridge was last recorded, although consuming and storing are two steps.
CountedOnce ==
    /\ disk.streak + Cardinality(log) <= exits
    /\ pc \notin {"idle", "observe"} => mem.streak + Cardinality(log) <= exits

\* Bluetooth is only reset on enough BLE failures (exit 76, or a process
\* stuck) since a ready bridge was last recorded; exit 79 adds none.
ResetJustified == [][bt' > bt => Cardinality(blamed) >= FailuresToReset]_vars

\* A stored terminal stop is only dropped for a unit verified to be stopped,
\* or by the operator ("Only a verified stop clears the pending flag; errors
\* never silently mark it complete").  Fails where state.json is unreadable.
PendingUntilVerified ==
    [][disk.pending /\ ~disk'.pending => FullyStopped \/ disk' = NewState]_vars

\* A startup exit in the log is on record until a ready bridge is ("Nothing
\* is lost between timer runs"): the code consumes the log before it stores
\* the state, and recover() drops what was logged since.
NothingLost == pc = "idle" => disk.streak + Cardinality(log) >= exits

\* The timer starts a pass every minute; a pass is killed or fails at any of
\* its steps, but not always at the same one, and systemd does not refuse or
\* delay every stop.
Fairness ==
    /\ WF_vars(Pass)
    /\ SF_vars(Observe) /\ SF_vars(Save)
    /\ SF_vars(pc = "stop" /\ TerminalStop /\ pc' = "swait")
    /\ WF_vars(active = "deactivating" /\ OtherExit)
    /\ SF_vars(TerminalStopVerified)

FairSpec == Spec /\ Fairness

\* A pending terminal stop is carried out, unless the bridge gets ready, the
\* configuration is refused or a person starts it again.
TerminalStopHappens ==
    []<>(disk.pending => phase = "ready" \/ active = "config")
=============================================================================
