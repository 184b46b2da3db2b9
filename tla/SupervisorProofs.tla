-------------------------- MODULE SupervisorProofs --------------------------
(***************************************************************************)
(* What the supervisor keeps to for every value of its settings: the       *)
(* budget of Bluetooth resets, the charge and the failures each stands on, *)
(* the quiet of a latched supervisor and the terminal stop.                *)
(***************************************************************************)
EXTENDS Supervisor, FiniteSetTheorems, TLAPS

----------------------------------------------------------------------------
(* The inductive invariant                                                 *)

\* The pass has read the state; it has taken a reset up.
Informed == pc \notin {"idle", "observe"}
Recovering == {"charge", "rstop", "rwait", "rbt", "rstart", "verify"}

\* Charges are in the past and numbered up to their count.
Past == \A c \in charges : c.t <= now /\ c.n <= Cardinality(charges)

\* Stored resets were charged; between passes there is no state but the stored.
Kept ==
    /\ disk.resets \subseteq charges /\ mem.resets \subseteq charges
    /\ ~Informed => mem = NewState

\* A state knows every reset that still counts, or it is latched and has not
\* watched a ready bridge for longer than since the last of them.
Known(S) ==
    \A c \in charges :
       now - c.t < LongWindow =>
          \/ c \in S.resets
          \/ ReadFaults /\ S.failed /\ (S.readySince # Never => c.t <= S.readySince)
Remembered == Known(disk) /\ (Informed => Known(mem))

\* A pass that has decided to reset is not latched and has budget left.
Room ==
    /\ pc = "charge" \/ (pc = "save" /\ plan = "recover") =>
          ~mem.failed /\ ~BudgetUsed(mem)
    /\ pc = "restart" => plan = "restart"

\* Bluetooth restarts never outnumber the charges, and a recovery under way
\* has stored a charge it has not used.
Paid ==
    /\ bt <= Cardinality(charges)
    /\ pc \in {"rstop", "rwait", "rbt"} =>
          /\ bt < Cardinality(charges)
          /\ \E c \in disk.resets : c.n = Cardinality(charges)

\* What is latched where.
Latch ==
    /\ pc \in Recovering \cup {"restart"} => ~disk.failed
    /\ pc = "save" /\ plan \in {"latch", "stop"} => mem.failed /\ mem.pending
    /\ pc \in {"cleanup", "stop", "swait"} => disk.failed /\ disk.pending

\* Nothing but a person gets the bridge running before Bluetooth restarts.
Alone == pc = "rbt" => manual \/ FullyStopped

\* A pending stop stays with a pass that read it.
StopKept == ~ReadFaults /\ Informed /\ disk.pending => mem.pending

\* Counting, with what a ready bridge clears.
Counting ==
    /\ CountedOnce
    /\ pc = "save" /\ ready => mem.streak = 0
    /\ pc = "restart" => ~ready

IInv ==
    /\ TypeOK /\ Past /\ Kept /\ Remembered /\ ResetBudget
    /\ Room /\ Paid /\ Latch /\ Alone /\ StopKept /\ Counting

----------------------------------------------------------------------------
(* Types                                                                   *)

LEMMA Settings ==
    /\ MaxNow \in Nat /\ MaxRuns \in Nat \ {0} /\ FailuresToReset \in Nat
    /\ Never \notin Times /\ 0 \in Times
    /\ NewState \in State /\ Unreadable \in State
<1>1. MaxNow \in Nat /\ MaxRuns \in Nat \ {0} /\ FailuresToReset \in Nat
      /\ Never \notin Times /\ 0 \in Times
  BY SettingsAssumption, LimitsAssumption DEF Times, Never
<1>2. NewState \in State
  BY <1>1 DEF NewState, State
<1>3. Unreadable \in State
  BY <1>2 DEF Unreadable, State
<1> QED BY <1>1, <1>2, <1>3

\* The cardinality of a log or a set of charges is a number.
LEMMA Counts == ASSUME TypeOK PROVE Cardinality(log) \in Nat /\ Cardinality(charges) \in Nat
BY FS_CardinalityType DEF TypeOK

LEMMA CountedType ==
    ASSUME TypeOK, NEW S \in State
    PROVE  Counted(S) \in State
<1>1. BleFailures \in SUBSET Evidence
  BY SettingsAssumption DEF TypeOK, BleFailures, Exit, Evidence
<1>2. Recent(S.ble \cup BleFailures, FailureWindow) \in SUBSET Evidence
  BY <1>1 DEF Recent, State
<1>3. Recent(S.resets, LongWindow) \in SUBSET Stamp
  BY DEF Recent, State
<1>4. S.streak + Cardinality(log) \in Nat
  BY Counts DEF State
<1>5. {t \in S.plain : now - t < PlainWindow} \in SUBSET Times
  BY DEF State
<1> QED BY <1>2, <1>3, <1>4, <1>5 DEF Counted, State

LEMMA ObservedType ==
    ASSUME TypeOK, NEW S \in State
    PROVE  Observed(S) \in State
<1> DEFINE C == Counted(S)
<1>1. C \in State
  BY CountedType
<1> HIDE DEF C
<1>2. SeenReady(C) \in State
  BY <1>1 DEF SeenReady, State, TypeOK
<1>3. ASSUME Stuck(C) PROVE StuckEvidence \in SUBSET Evidence /\ run \in 1..MaxRuns
  <2>1. run \in 1..MaxRuns
    BY <1>3, LimitsAssumption DEF Stuck, Trusted, TypeOK
  <2> QED BY <2>1, SettingsAssumption DEF StuckEvidence, Evidence, TypeOK
<1>4. SeenNotReady(C) \in State
  <2> DEFINE T == [C EXCEPT !.readyInst = 0, !.readySince = Never]
  <2>1. T \in State /\ T.stuck \in SUBSET (1..MaxRuns) /\ T.ble \in SUBSET Evidence
    <3>1. 0 \in 0..MaxRuns
      BY LimitsAssumption
    <3>2. T \in State
      BY <1>1, <3>1 DEF State
    <3> QED BY <3>2 DEF State
  <2> HIDE DEF T
  <2>2. CASE Stuck(C)
    <3>1. [T EXCEPT !.stuck = @ \cup {run}, !.ble = @ \cup StuckEvidence] \in State
      BY <1>3, <2>1, <2>2 DEF State
    <3> QED BY <2>2, <3>1 DEF SeenNotReady, T
  <2>3. CASE ~Stuck(C)
    BY <2>1, <2>3 DEF SeenNotReady, T
  <2> QED BY <2>2, <2>3
<1> QED BY <1>2, <1>4 DEF Observed, C

\* The types of what the actions share.
LEMMA StartsType ==
    ASSUME TypeOK, NEW b \in BOOLEAN, Starts(b)
    PROVE  /\ active' \in Actives /\ run' \in 0..MaxRuns /\ runs' \in 0..MaxRuns
           /\ phase' \in Phases /\ since' \in Times /\ manual' \in BOOLEAN
BY Settings DEF TypeOK, Starts, Actives, Phases

LEMMA EndsType ==
    ASSUME TypeOK, NEW to \in Actives, Ends(to)
    PROVE  /\ active' \in Actives /\ run' \in 0..MaxRuns /\ runs' \in 0..MaxRuns
           /\ phase' \in Phases /\ since' \in Times /\ manual' \in BOOLEAN
BY Settings DEF TypeOK, Ends, Phases

LEMMA CallsType ==
    ASSUME TypeOK, StartIssued \/ StopIssued \/ UNCHANGED bridge
    PROVE  /\ active' \in Actives /\ run' \in 0..MaxRuns /\ runs' \in 0..MaxRuns
           /\ phase' \in Phases /\ since' \in Times /\ manual' \in BOOLEAN
<1>1. CASE StartIssued
  BY <1>1, StartsType DEF StartIssued, bridge, TypeOK
<1>2. CASE StopIssued
  BY <1>2 DEF StopIssued, TypeOK, Actives
<1>3. CASE UNCHANGED bridge
  BY <1>3 DEF bridge, TypeOK
<1> QED BY <1>1, <1>2, <1>3

LEMMA PassOverType ==
    ASSUME PassOver
    PROVE  /\ mem' \in State /\ view' \in [active : Actives, run : 0..MaxRuns]
           /\ ready' \in BOOLEAN /\ previous' \in 0..MaxRuns
           /\ pc' \in Steps /\ plan' \in Plans
<1>1. 0 \in 0..MaxRuns
  BY Settings
<1>2. NoView \in [active : Actives, run : 0..MaxRuns]
  BY <1>1 DEF NoView, Actives
<1> QED BY <1>1, <1>2, Settings DEF PassOver, Steps, Plans

LEMMA GotoType ==
    ASSUME TypeOK, NEW step \in Steps, Goto(step)
    PROVE  /\ view' \in [active : Actives, run : 0..MaxRuns]
           /\ ready' \in BOOLEAN /\ previous' \in 0..MaxRuns
           /\ pc' \in Steps /\ plan' \in Plans
BY DEF TypeOK, Goto

LEMMA FailsType ==
    ASSUME TypeOK, NEW b \in BOOLEAN, Fails(b)
    PROVE  /\ mem' \in State /\ disk' \in State
           /\ view' \in [active : Actives, run : 0..MaxRuns]
           /\ ready' \in BOOLEAN /\ previous' \in 0..MaxRuns
           /\ pc' \in Steps /\ plan' \in Plans
<1>1. Latched(mem) \in State
  BY DEF TypeOK, Latched, State
<1>2. (IF b THEN "cleanup" ELSE "stop") \in Steps
  BY DEF Steps
<1> QED BY <1>1, <1>2, GotoType DEF Fails

LEMMA BlamesType ==
    ASSUME TypeOK
    PROVE  Blames(BleFailures) \in SUBSET ((1..MaxRuns) \X (0..FailuresToReset))
BY Settings DEF TypeOK, Blames, BleFailures, Exit


\* Every step keeps the types.
LEMMA TypeStep == ASSUME TypeOK, [Next]_vars PROVE TypeOK'
<1> USE Settings
<1>1. CASE Tick
  BY <1>1 DEF Tick, TypeOK, Times, bridge, pass, history
<1>2. CASE \E to \in Actives : Ends(to) /\ UNCHANGED <<now, log, disk, pass, history>>
  BY <1>2, EndsType DEF TypeOK, pass, history
<1>3. CASE \E b \in BOOLEAN : Starts(b) /\ UNCHANGED <<now, log, disk, pass, history>>
  BY <1>3, StartsType DEF TypeOK, pass, history
<1>4. CASE OperatorReset
  BY <1>4, Counts, BlamesType, FS_EmptySet DEF OperatorReset, TypeOK, bridge, pass
<1>5. CASE Reboot
  BY <1>5, StartsType, PassOverType DEF Reboot, TypeOK, history
<1>6. ASSUME NEW ble \in BOOLEAN, StartupExit(ble) PROVE TypeOK'
  <2> DEFINE x == [t |-> now, run |-> run, ble |-> ble]
  <2>1. PICK to \in Actives : Ends(to)
    BY <1>6 DEF StartupExit, Actives
  <2>2. run \in 1..MaxRuns /\ x \in Exit /\ 0 \in 0..FailuresToReset
    BY <1>6, LimitsAssumption, SettingsAssumption DEF StartupExit, TypeOK, Exit
  <2>3. log' \in SUBSET Exit /\ IsFiniteSet(log')
    BY <1>6, <2>2, FS_AddElement DEF StartupExit, TypeOK
  <2>4. blamed' \in SUBSET ((1..MaxRuns) \X (0..FailuresToReset))
    BY <1>6, <2>2 DEF StartupExit, TypeOK
  <2> QED BY <1>6, <2>1, <2>3, <2>4, EndsType DEF StartupExit, TypeOK, pass
<1>7. ASSUME NEW p \in Phases, Reports(p) PROVE TypeOK'
  BY <1>7 DEF Reports, TypeOK, pass, history
<1>8. CASE Crash
  BY <1>8, PassOverType DEF Crash, TypeOK, bridge, history
<1>9. CASE Begin
  BY <1>9 DEF Begin, TypeOK, bridge, history, Steps
<1>10. CASE Observe
  <2>1. PICK L \in Loaded :
          LET S == Observed(L)
              d == Decision(S)
          IN  /\ mem' = IF d = "latch" THEN Latched(S) ELSE S
              /\ plan' = d
              /\ pc' = IF d = "restart" THEN "restart" ELSE "save"
              /\ blamed' = IF Stuck(L) THEN blamed \cup Blames(StuckEvidence) ELSE blamed
    BY <1>10 DEF Observe
  <2>2. L \in State
    BY DEF Loaded, TypeOK
  <2> DEFINE S == Observed(L)
  <2>3. S \in State
    BY <2>2, ObservedType
  <2> HIDE DEF S
  <2>4. mem' \in State
    BY <2>1, <2>3 DEF Latched, State, S
  <2>5. plan' \in Plans /\ pc' \in Steps
    BY <2>1 DEF Decision, Plans, Steps
  <2>6. Stuck(L) => Blames(StuckEvidence) \in SUBSET ((1..MaxRuns) \X (0..FailuresToReset))
    BY LimitsAssumption, SettingsAssumption
       DEF Stuck, Trusted, Blames, StuckEvidence, TypeOK
  <2>7. blamed' \in SUBSET ((1..MaxRuns) \X (0..FailuresToReset))
    BY <2>1, <2>6 DEF TypeOK
  <2>8. NoView \in [active : Actives, run : 0..MaxRuns]
    BY LimitsAssumption DEF NoView, Actives
  <2>9. IsFiniteSet({})
    BY FS_EmptySet
  <2>10. ready' \in BOOLEAN /\ previous' \in 0..MaxRuns
    BY <1>10, LimitsAssumption DEF Observe, Ready, Trusted, TypeOK
  <2> QED BY <1>10, <2>4, <2>5, <2>7, <2>8, <2>9, <2>10 DEF Observe, TypeOK, bridge
<1>11. CASE RestartBridge
  <2>1. mem' \in State
    <3>1. mem \in State /\ now \in Times
      BY DEF TypeOK
    <3>2. mem.plain \cup {now} \in SUBSET Times /\ mem.plainStreak + 1 \in Nat
      BY <3>1 DEF State
    <3>3. [mem EXCEPT !.plain = mem.plain \cup {now},
                      !.plainStreak = mem.plainStreak + 1] \in State
      BY <3>1, <3>2 DEF State
    <3> QED BY <1>11, <3>3 DEF RestartBridge
  <2> QED BY <1>11, <2>1, CallsType, GotoType DEF RestartBridge, TypeOK, history, Steps
<1>12. CASE Save
  <2>1. exits' \in Nat /\ blamed' \in SUBSET ((1..MaxRuns) \X (0..FailuresToReset))
    BY <1>12, Counts, BlamesType DEF Save, TypeOK
  <2>2. CASE plan \in {"none", "restart"}
    BY <1>12, <2>1, <2>2, PassOverType DEF Save, TypeOK, bridge
  <2>3. CASE plan \notin {"none", "restart"}
    BY <1>12, <2>1, <2>3 DEF Save, Goto, TypeOK, bridge, Steps
  <2> QED BY <2>2, <2>3
<1>13. CASE Charge
  <2> DEFINE c == [t |-> now, n |-> Cardinality(charges) + 1]
  <2>1. c \in Stamp
    BY Counts DEF Stamp, TypeOK
  <2>2. charges' \in SUBSET Stamp /\ IsFiniteSet(charges')
    BY <1>13, <2>1, FS_AddElement DEF Charge, TypeOK
  <2>3. mem' \in State /\ disk' \in State
    BY <1>13, <2>1 DEF Charge, TypeOK, State
  <2> QED BY <1>13, <2>2, <2>3 DEF Charge, Goto, TypeOK, bridge, Steps
<1>14. CASE RecoverStops
  <2>1. CASE StopIssued /\ Goto("rwait") /\ UNCHANGED <<mem, disk>>
    BY <1>14, <2>1, CallsType, GotoType DEF RecoverStops, TypeOK, history, Steps
  <2>2. CASE (StopIssued \/ UNCHANGED bridge) /\ Fails(FALSE)
    BY <1>14, <2>2, CallsType, FailsType DEF RecoverStops, TypeOK, history
  <2> QED BY <1>14, <2>1, <2>2 DEF RecoverStops
<1>15. CASE RecoverWaits
  <2>1. CASE log' = {} /\ Goto("rbt") /\ UNCHANGED <<mem, disk>>
    BY <1>15, <2>1, GotoType, FS_EmptySet DEF RecoverWaits, TypeOK, bridge, history, Steps
  <2>2. CASE Fails(TRUE) /\ UNCHANGED log
    BY <1>15, <2>2, FailsType DEF RecoverWaits, TypeOK, bridge, history
  <2> QED BY <1>15, <2>1, <2>2 DEF RecoverWaits
<1>16. CASE BluetoothRestart
  <2>1. CASE Goto("rstart") /\ UNCHANGED <<mem, disk>>
    BY <1>16, <2>1, GotoType DEF BluetoothRestart, TypeOK, bridge, Steps
  <2>2. CASE Fails(TRUE)
    <3>1. bt' \in Nat
      BY <1>16 DEF BluetoothRestart, TypeOK
    <3>2. /\ mem' \in State /\ disk' \in State
          /\ view' \in [active : Actives, run : 0..MaxRuns]
          /\ ready' \in BOOLEAN /\ previous' \in 0..MaxRuns
          /\ pc' \in Steps /\ plan' \in Plans
      BY <2>2, FailsType
    <3> QED BY <1>16, <3>1, <3>2 DEF BluetoothRestart, TypeOK, bridge
  <2> QED BY <1>16, <2>1, <2>2 DEF BluetoothRestart
<1>17. CASE RecoverStarts
  <2>1. CASE StartIssued /\ Goto("verify") /\ UNCHANGED <<mem, disk>>
    BY <1>17, <2>1, CallsType, GotoType DEF RecoverStarts, TypeOK, history, Steps
  <2>2. CASE (StartIssued \/ UNCHANGED bridge) /\ Fails(TRUE)
    BY <1>17, <2>2, CallsType, FailsType DEF RecoverStarts, TypeOK, history
  <2> QED BY <1>17, <2>1, <2>2 DEF RecoverStarts
<1>18. CASE Verified
  <2>1. disk' \in State
    BY <1>18 DEF Verified, TypeOK, State
  <2> QED BY <1>18, <2>1, Counts, BlamesType, PassOverType DEF Verified, TypeOK, bridge
<1>19. CASE VerifyTimesOut
  BY <1>19, FailsType, PassOverType DEF VerifyTimesOut, TypeOK, bridge, history
<1>20. CASE Cleanup
  BY <1>20, CallsType, GotoType DEF Cleanup, TypeOK, history, Steps
<1>21. CASE TerminalStop
  <2>1. CASE StopIssued /\ Goto("swait") /\ UNCHANGED mem
    BY <1>21, <2>1, CallsType, GotoType DEF TerminalStop, TypeOK, history, Steps
  <2>2. CASE (StopIssued \/ UNCHANGED bridge) /\ PassOver
    BY <1>21, <2>2, CallsType, PassOverType DEF TerminalStop, TypeOK, history
  <2> QED BY <1>21, <2>1, <2>2 DEF TerminalStop
<1>22. CASE TerminalStopVerified
  <2>1. disk' \in State
    BY <1>22 DEF TerminalStopVerified, TypeOK, State
  <2> QED BY <1>22, <2>1, PassOverType DEF TerminalStopVerified, TypeOK, bridge, history
<1>23. CASE TerminalStopTimesOut
  BY <1>23, PassOverType DEF TerminalStopTimesOut, TypeOK, bridge, history
<1>24. CASE UNCHANGED vars
  BY <1>24 DEF vars, TypeOK, bridge, pass, history
<1>25. ConfigExit \/ OtherExit \/ AutoRestart \/ OperatorStart
         => (\/ \E to \in Actives : Ends(to) /\ UNCHANGED <<now, log, disk, pass, history>>
             \/ \E b \in BOOLEAN : Starts(b) /\ UNCHANGED <<now, log, disk, pass, history>>)
  BY DEF ConfigExit, OtherExit, AutoRestart, OperatorStart, Actives, TypeOK
<1> QED
  BY <1>1, <1>2, <1>3, <1>4, <1>5, <1>6, <1>7, <1>8, <1>9, <1>10, <1>11, <1>12, <1>13,
     <1>14, <1>15, <1>16, <1>17, <1>18, <1>19, <1>20, <1>21, <1>22, <1>23, <1>24, <1>25
     DEF Next, Environment, Pass

----------------------------------------------------------------------------
(* What the steps carry over                                               *)

\* Observing drops resets that have expired, adds none, and clears the latch
\* only after a bridge was watched for HealthyTime.
LEMMA ObservedFacts ==
    ASSUME TypeOK, NEW S \in State
    PROVE  /\ Observed(S).resets = Recent(S.resets, LongWindow)
           /\ Observed(S).failed => S.failed
           /\ S.failed /\ ~Observed(S).failed =>
                 S.readySince # Never /\ now - S.readySince >= HealthyTime /\ Ready
           /\ Observed(S).readySince \in {S.readySince, now, Never}
           /\ Observed(S).pending = S.pending
           /\ Ready => Observed(S).streak = 0
           /\ ~Ready => Observed(S).streak = S.streak + Cardinality(log)
<1> DEFINE C == Counted(S)
<1>1. C \in State
  BY CountedType
<1>2. /\ C.resets = Recent(S.resets, LongWindow) /\ C.failed = S.failed
      /\ C.readySince = S.readySince /\ C.pending = S.pending
      /\ C.streak = S.streak + Cardinality(log)
  BY DEF Counted, State
<1> HIDE DEF C
<1>3. CASE Ready
  <2>1. Observed(S) = SeenReady(C)
    BY <1>3 DEF Observed, C
  <2> QED BY <1>1, <1>2, <1>3, <2>1 DEF SeenReady, State
<1>4. CASE ~Ready
  <2>1. Observed(S) = SeenNotReady(C)
    BY <1>4 DEF Observed, C
  <2>2. /\ SeenNotReady(C).resets = C.resets /\ SeenNotReady(C).failed = C.failed
        /\ SeenNotReady(C).readySince = Never /\ SeenNotReady(C).pending = C.pending
        /\ SeenNotReady(C).streak = C.streak
    BY <1>1 DEF SeenNotReady, State
  <2> QED BY <1>1, <1>2, <1>4, <2>1, <2>2 DEF State
<1> QED BY <1>3, <1>4

\* What Observe leaves, without its quantifier.
LEMMA ObserveFacts ==
    ASSUME TypeOK, Observe
    PROVE  \E S \in State, L \in Loaded :
              /\ L \in State /\ S = Observed(L)
              /\ mem' = IF Decision(S) = "latch" THEN Latched(S) ELSE S
              /\ plan' = Decision(S)
              /\ pc' = IF Decision(S) = "restart" THEN "restart" ELSE "save"
<1>1. PICK L \in Loaded :
        /\ mem' = IF Decision(Observed(L)) = "latch" THEN Latched(Observed(L))
                                                      ELSE Observed(L)
        /\ plan' = Decision(Observed(L))
        /\ pc' = IF Decision(Observed(L)) = "restart" THEN "restart" ELSE "save"
  BY DEF Observe
<1>2. L \in State
  BY Settings DEF Loaded, TypeOK
<1>3. Observed(L) \in State
  BY <1>2, ObservedType
<1> QED BY <1>1, <1>2, <1>3

\* Time and charges only change in three actions.
LEMMA Timeless ==
    ASSUME [Next]_vars
    PROVE  Tick \/ Charge \/ OperatorReset \/ UNCHANGED <<now, charges>>
BY DEF Next, Environment, Pass, Crash, Reboot, ConfigExit, OtherExit, AutoRestart,
       OperatorStart, StartupExit, Reports, Begin, Observe, RestartBridge, Save,
       RecoverStops, RecoverWaits, BluetoothRestart, RecoverStarts, Verified,
       VerifyTimesOut, Cleanup, TerminalStop, TerminalStopVerified,
       TerminalStopTimesOut, vars, history

\* A state a step makes of another that keeps what the budget needs.
Carries(T, S) ==
    /\ T.resets = S.resets /\ T.readySince = S.readySince
    /\ S.failed => T.failed

\* But for four actions, what is stored or held afterwards was held before.
LEMMA Carried ==
    ASSUME TypeOK, Kept, [Next]_vars, ~Charge, ~OperatorReset, ~Observe
    PROVE  /\ disk' = disk \/ (Informed /\ Carries(disk', mem))
           /\ IF Informed' THEN Informed /\ Carries(mem', mem) ELSE mem' = NewState
<1> USE DEF Carries, Informed, bridge, pass, history
<1>1. CASE Environment
  BY <1>1 DEF Environment, Tick, ConfigExit, OtherExit, AutoRestart, OperatorStart,
              StartupExit, Reports, pass, Kept
<1>2. CASE Crash \/ Reboot
  BY <1>2 DEF Crash, Reboot, PassOver
<1>3. CASE Begin
  BY <1>3 DEF Begin, Kept
<1>4. CASE RestartBridge
  BY <1>4 DEF RestartBridge, Goto, TypeOK, State
<1>5. CASE Save
  BY <1>5 DEF Save, Goto, PassOver
<1>6. CASE RecoverStops
  BY <1>6 DEF RecoverStops, Goto, Fails, Latched, TypeOK, State
<1>7. CASE RecoverWaits
  BY <1>7 DEF RecoverWaits, Goto, Fails, Latched, TypeOK, State
<1>8. CASE BluetoothRestart
  BY <1>8 DEF BluetoothRestart, Goto, Fails, Latched, TypeOK, State
<1>9. CASE RecoverStarts
  BY <1>9 DEF RecoverStarts, Goto, Fails, Latched, TypeOK, State
<1>10. CASE Verified
  BY <1>10 DEF Verified, PassOver, TypeOK, State
<1>11. CASE VerifyTimesOut
  BY <1>11 DEF VerifyTimesOut, PassOver, Goto, Fails, Latched, TypeOK, State
<1>12. CASE Cleanup
  BY <1>12 DEF Cleanup, Goto
<1>13. CASE TerminalStop
  BY <1>13 DEF TerminalStop, Goto, PassOver
<1>14. CASE TerminalStopVerified
  BY <1>14 DEF TerminalStopVerified, PassOver, TypeOK, State
<1>15. CASE TerminalStopTimesOut
  BY <1>15 DEF TerminalStopTimesOut, PassOver
<1>16. CASE UNCHANGED vars
  BY <1>16 DEF vars, pass, Kept
<1> QED
  BY <1>1, <1>2, <1>3, <1>4, <1>5, <1>6, <1>7, <1>8, <1>9, <1>10, <1>11, <1>12, <1>13,
     <1>14, <1>15, <1>16 DEF Next, Pass

----------------------------------------------------------------------------
(* The budget                                                              *)

\* The set of recent stamps is finite, and one more stamp adds at most one.
LEMMA RecentCount ==
    ASSUME NEW S, IsFiniteSet(S), NEW w
    PROVE  /\ IsFiniteSet(Recent(S, w)) /\ Cardinality(Recent(S, w)) \in Nat
           /\ \A T : T \subseteq Recent(S, w) =>
                 IsFiniteSet(T) /\ Cardinality(T) <= Cardinality(Recent(S, w))
<1>1. Recent(S, w) \subseteq S
  BY DEF Recent
<1> QED BY <1>1, FS_Subset, FS_CardinalityType

LEMMA ChargeStamp ==
    ASSUME TypeOK, Past, Charge
    PROVE  /\ Cardinality(charges') = Cardinality(charges) + 1
           /\ \E c \in Stamp :
                 /\ c.t = now /\ c.n = Cardinality(charges) + 1
                 /\ charges' = charges \cup {c}
                 /\ mem' = [mem EXCEPT !.resets = @ \cup {c}] /\ disk' = mem'
<1> DEFINE c == [t |-> now, n |-> Cardinality(charges) + 1]
<1>1. c \in Stamp
  BY Counts DEF Stamp, TypeOK
<1>2. c \notin charges
  BY Counts DEF Past
<1>3. charges' = charges \cup {c} /\ mem' = [mem EXCEPT !.resets = @ \cup {c}] /\ disk' = mem'
  BY DEF Charge
<1>4. Cardinality(charges') = Cardinality(charges) + 1
  BY <1>2, <1>3, FS_AddElement DEF TypeOK
<1> QED BY <1>1, <1>3, <1>4

LEMMA PastStep == ASSUME TypeOK, Past, [Next]_vars PROVE Past'
<1>1. CASE Tick
  BY <1>1 DEF Tick, Past, TypeOK, Times, Stamp, history
<1>2. CASE Charge
  <2>1. PICK c \in Stamp : /\ c.t = now /\ c.n = Cardinality(charges) + 1
                           /\ charges' = charges \cup {c}
    BY <1>2, ChargeStamp
  <2>2. Cardinality(charges') = Cardinality(charges) + 1 /\ now' = now
    BY <1>2, ChargeStamp DEF Charge
  <2> QED BY <2>1, <2>2, Counts DEF Past, TypeOK, Times, Stamp
<1>3. CASE OperatorReset
  BY <1>3 DEF OperatorReset, Past
<1>4. CASE UNCHANGED <<now, charges>>
  BY <1>4 DEF Past
<1> QED BY <1>1, <1>2, <1>3, <1>4, Timeless

LEMMA KeptStep == ASSUME TypeOK, Past, Kept, [Next]_vars PROVE Kept'
<1>1. CASE Charge
  <2>1. PICK c \in Stamp : /\ charges' = charges \cup {c}
                           /\ mem' = [mem EXCEPT !.resets = @ \cup {c}] /\ disk' = mem'
    BY <1>1, ChargeStamp
  <2>2. mem'.resets = mem.resets \cup {c}
    BY <2>1 DEF TypeOK, State
  <2>3. Informed'
    BY <1>1 DEF Charge, Goto, Informed
  <2> QED BY <2>1, <2>2, <2>3 DEF Kept
<1>2. CASE OperatorReset
  BY <1>2 DEF OperatorReset, Kept, pass, NewState, Informed
<1>3. CASE Observe
  <2>1. PICK S \in State, L \in Loaded :
           /\ L \in State /\ S = Observed(L)
           /\ mem' = IF Decision(S) = "latch" THEN Latched(S) ELSE S
           /\ pc' = IF Decision(S) = "restart" THEN "restart" ELSE "save"
    BY <1>3, ObserveFacts
  <2>2. S.resets \subseteq L.resets
    BY <2>1, ObservedFacts DEF Recent
  <2>3. L.resets \subseteq charges
    BY <2>1 DEF Loaded, Unreadable, NewState, Kept
  <2>4. mem'.resets = S.resets
    BY <2>1 DEF Latched, State
  <2>5. Informed'
    BY <2>1 DEF Informed
  <2>6. UNCHANGED <<disk, charges>>
    BY <1>3 DEF Observe
  <2> QED BY <2>2, <2>3, <2>4, <2>5, <2>6 DEF Kept
<1>4. CASE ~Charge /\ ~OperatorReset /\ ~Observe
  <2>1. UNCHANGED charges
    BY <1>4, Timeless DEF Tick, history
  <2> QED BY <1>4, <2>1, Carried DEF Kept, Carries, NewState
<1> QED BY <1>1, <1>2, <1>3, <1>4

\* A state that carries another knows what that one knew.
LEMMA KnownCarried ==
    ASSUME NEW S, NEW T, Known(S), Carries(T, S), UNCHANGED <<now, charges>>
    PROVE  (\A c \in charges' :
              now' - c.t < LongWindow =>
                 \/ c \in T.resets
                 \/ ReadFaults /\ T.failed /\ (T.readySince # Never => c.t <= T.readySince))
BY DEF Known, Carries

LEMMA RememberedStep ==
    ASSUME TypeOK, Past, Kept, Remembered, Room, [Next]_vars PROVE Remembered'
<1> USE DEF Remembered
<1>1. CASE Charge
  <2>1. PICK c \in Stamp : /\ charges' = charges \cup {c}
                           /\ mem' = [mem EXCEPT !.resets = @ \cup {c}] /\ disk' = mem'
    BY <1>1, ChargeStamp
  <2>2. /\ mem'.resets = mem.resets \cup {c} /\ mem'.failed = mem.failed
        /\ mem'.readySince = mem.readySince
    BY <2>1 DEF TypeOK, State
  <2>3. Known(mem) /\ now' = now
    BY <1>1 DEF Charge, Informed
  <2> QED BY <2>1, <2>2, <2>3 DEF Known
<1>2. CASE OperatorReset
  BY <1>2 DEF OperatorReset, Known, pass, Informed
<1>3. CASE Observe
  <2>1. PICK S \in State, L \in Loaded :
           /\ L \in State /\ S = Observed(L)
           /\ mem' = IF Decision(S) = "latch" THEN Latched(S) ELSE S
    BY <1>3, ObserveFacts
  <2>2. UNCHANGED <<disk, charges, now>>
    BY <1>3 DEF Observe
  <2>3. Known(L)
    BY <2>1 DEF Loaded, Unreadable, NewState, Known
  <2>4. mem'.resets = S.resets /\ (S.failed => mem'.failed) /\ mem'.readySince = S.readySince
    BY <2>1 DEF Latched, State
  <2>5. ASSUME NEW c \in charges, now - c.t < LongWindow
        PROVE  \/ c \in S.resets
               \/ ReadFaults /\ S.failed /\ (S.readySince # Never => c.t <= S.readySince)
    <3>1. c.t \in Int /\ now \in Int /\ c.t <= now
      BY DEF Past, TypeOK, Stamp, Times
    <3>2. CASE c \in L.resets
      BY <2>1, <2>5, <3>2, ObservedFacts DEF Recent
    <3>3. CASE ReadFaults /\ L.failed /\ (L.readySince # Never => c.t <= L.readySince)
      <4>1. S.failed
        <5>1. SUFFICES ASSUME ~S.failed PROVE FALSE
          OBVIOUS
        <5>2. L.readySince # Never /\ now - L.readySince >= HealthyTime
          BY <2>1, <3>3, <5>1, ObservedFacts
        <5>3. L.readySince \in Int
          BY <2>1, <5>2 DEF State, Times
        <5> QED
          BY <2>5, <3>1, <3>3, <5>2, <5>3, WindowsAssumption, SettingsAssumption
      <4>2. S.readySince \in {L.readySince, now, Never}
        BY <2>1, ObservedFacts
      <4> QED BY <3>1, <3>3, <4>1, <4>2
    <3> QED BY <2>3, <2>5, <3>2, <3>3 DEF Known
  <2> QED BY <2>2, <2>4, <2>5 DEF Known
<1>4. CASE Tick
  <2>1. UNCHANGED <<disk, mem, pc, charges>> /\ now' = now + 1 /\ now \in Int
    BY <1>4 DEF Tick, pass, history, TypeOK, Times
  <2>2. \A c \in charges : c.t \in Int
    BY DEF TypeOK, Stamp, Times
  <2> QED BY <2>1, <2>2, SettingsAssumption DEF Known, Informed
<1>5. CASE ~Charge /\ ~OperatorReset /\ ~Observe /\ ~Tick
  <2>1. UNCHANGED <<now, charges>>
    BY <1>5, Timeless
  <2>2. Known(disk)'
    BY <1>5, <2>1, Carried, KnownCarried DEF Known
  <2>3. Informed' => Known(mem)'
    BY <1>5, <2>1, Carried, KnownCarried DEF Known
  <2> QED BY <2>2, <2>3
<1> QED BY <1>1, <1>2, <1>3, <1>4, <1>5

LEMMA RoomStep ==
    ASSUME TypeOK, Kept, Room, [Next]_vars PROVE Room'
<1>1. CASE Tick
  <2>1. UNCHANGED <<mem, pc, plan>> /\ now' = now + 1 /\ now \in Int
    BY <1>1 DEF Tick, pass, TypeOK, Times
  <2>2. IsFiniteSet(mem.resets) /\ \A x \in mem.resets : x.t \in Int
    BY FS_Subset DEF TypeOK, State, Stamp, Times, Kept
  <2>3. \A w \in Nat : Recent(mem.resets, w)' \subseteq Recent(mem.resets, w)
    BY <2>1, <2>2 DEF Recent
  <2>4. \A w \in Nat :
           /\ Cardinality(Recent(mem.resets, w))' <= Cardinality(Recent(mem.resets, w))
           /\ Cardinality(Recent(mem.resets, w)) \in Nat
           /\ Cardinality(Recent(mem.resets, w))' \in Nat
    BY <2>2, <2>3, RecentCount, FS_CardinalityType
  <2>5. BudgetUsed(mem)' => BudgetUsed(mem)
    BY <2>4, SettingsAssumption DEF BudgetUsed
  <2> QED BY <2>1, <2>5 DEF Room
<1>2. CASE Observe
  <2>1. PICK S \in State, L \in Loaded :
           /\ S = Observed(L)
           /\ mem' = IF Decision(S) = "latch" THEN Latched(S) ELSE S
           /\ plan' = Decision(S)
           /\ pc' = IF Decision(S) = "restart" THEN "restart" ELSE "save"
    BY <1>2, ObserveFacts
  <2>2. now' = now
    BY <1>2 DEF Observe
  <2>3. ASSUME plan' = "recover" PROVE ~mem'.failed /\ ~BudgetUsed(mem)'
    <3>1. mem' = S /\ ~S.failed /\ ~BudgetUsed(S)
      BY <2>1, <2>3 DEF Decision
    <3> QED BY <2>2, <3>1 DEF BudgetUsed, Recent
  <2> QED BY <2>1, <2>3 DEF Room
<1>3. CASE Save
  BY <1>3 DEF Save, Goto, PassOver, Room, BudgetUsed, Recent
<1>4. CASE RestartBridge
  <2>1. plan' = plan /\ pc' = "save" /\ pc = "restart"
    BY <1>4 DEF RestartBridge, Goto
  <2> QED BY <2>1 DEF Room
<1>5. CASE Begin \/ Charge \/ RecoverStops \/ RecoverWaits \/ BluetoothRestart
           \/ RecoverStarts \/ Verified \/ VerifyTimesOut \/ Cleanup \/ TerminalStop
           \/ TerminalStopVerified \/ TerminalStopTimesOut \/ Crash \/ Reboot
  <2>1. pc' \notin {"charge", "save", "restart"}
    BY <1>5 DEF Begin, Charge, RecoverStops, RecoverWaits, BluetoothRestart,
                RecoverStarts, Verified, VerifyTimesOut, Cleanup, TerminalStop,
                TerminalStopVerified, TerminalStopTimesOut, Crash, Reboot,
                Goto, Fails, PassOver
  <2> QED BY <2>1 DEF Room
<1>6. CASE UNCHANGED <<now, pass>>
  BY <1>6 DEF pass, Room, BudgetUsed, Recent
<1>7. Environment => Tick \/ UNCHANGED <<now, pass>>
  BY DEF Environment, ConfigExit, OtherExit, AutoRestart, OperatorStart,
         OperatorReset, StartupExit, Reports
<1>8. UNCHANGED vars => UNCHANGED <<now, pass>>
  BY DEF vars
<1> QED
  BY <1>1, <1>2, <1>3, <1>4, <1>5, <1>6, <1>7, <1>8 DEF Next, Pass

LEMMA BudgetStep ==
    ASSUME TypeOK, Past, Kept, Remembered, Room, ResetBudget, [Next]_vars
    PROVE  ResetBudget'
<1>1. CASE Tick
  <2>1. charges' = charges /\ now' = now + 1 /\ now \in Int
    BY <1>1 DEF Tick, history, TypeOK, Times
  <2>2. IsFiniteSet(charges) /\ \A c \in charges : c.t \in Int
    BY DEF TypeOK, Stamp, Times
  <2>3. \A w \in Nat : Recent(charges, w)' \subseteq Recent(charges, w)
    BY <2>1, <2>2 DEF Recent
  <2>4. \A w \in Nat :
           /\ Cardinality(Recent(charges, w))' <= Cardinality(Recent(charges, w))
           /\ Cardinality(Recent(charges, w)) \in Nat
           /\ Cardinality(Recent(charges, w))' \in Nat
    BY <2>2, <2>3, RecentCount, FS_CardinalityType
  <2> QED BY <2>4, SettingsAssumption DEF ResetBudget
<1>2. CASE Charge
  <2>1. PICK c \in Stamp : charges' = charges \cup {c}
    BY <1>2, ChargeStamp
  <2>2. now' = now /\ now \in Int /\ IsFiniteSet(mem.resets)
    BY <1>2, FS_Subset DEF Charge, TypeOK, Times, Kept
  <2>3. Known(mem) /\ ~mem.failed /\ ~BudgetUsed(mem)
    BY <1>2 DEF Charge, Remembered, Informed, Room
  <2>4. ASSUME NEW w \in Nat, w <= LongWindow, NEW m \in Nat,
               ~(Cardinality(Recent(mem.resets, w)) >= m)
        PROVE  Cardinality(Recent(charges, w)') <= m
    <3>1. Recent(charges, w)' \subseteq Recent(mem.resets, w) \cup {c}
      BY <2>1, <2>2, <2>3, <2>4, SettingsAssumption
         DEF Recent, Known, TypeOK, Stamp, Times
    <3>2. IsFiniteSet(Recent(mem.resets, w)) /\ Cardinality(Recent(mem.resets, w)) \in Nat
      BY <2>2, RecentCount
    <3>3. /\ IsFiniteSet(Recent(mem.resets, w) \cup {c})
          /\ Cardinality(Recent(mem.resets, w) \cup {c})
               <= Cardinality(Recent(mem.resets, w)) + 1
      BY <3>2, FS_AddElement
    <3>4. /\ Cardinality(Recent(charges, w)') <= Cardinality(Recent(mem.resets, w) \cup {c})
          /\ Cardinality(Recent(charges, w)') \in Nat
          /\ Cardinality(Recent(mem.resets, w) \cup {c}) \in Nat
      BY <3>1, <3>3, FS_Subset, FS_CardinalityType
    <3> QED BY <2>4, <3>2, <3>3, <3>4
  <2>5. Cardinality(Recent(charges, ShortWindow)') <= MaxResetsShort
    BY <2>3, <2>4, SettingsAssumption, WindowsAssumption DEF BudgetUsed
  <2>6. Cardinality(Recent(charges, LongWindow)') <= MaxResetsLong
    BY <2>3, <2>4, SettingsAssumption DEF BudgetUsed
  <2> QED BY <2>5, <2>6 DEF ResetBudget
<1>3. CASE OperatorReset
  <2>1. \A w : Recent(charges, w)' = {}
    BY <1>3 DEF OperatorReset, Recent
  <2> QED BY <2>1, FS_EmptySet, SettingsAssumption DEF ResetBudget
<1>4. CASE UNCHANGED <<now, charges>>
  BY <1>4 DEF ResetBudget, Recent
<1> QED BY <1>1, <1>2, <1>3, <1>4, Timeless

----------------------------------------------------------------------------
(* Charged before the reset, quiet while latched                           *)

LEMMA PaidStep ==
    ASSUME TypeOK, Past, Kept, Paid, [Next]_vars PROVE Paid'
<1> USE DEF Paid
<1>1. CASE Charge
  <2>1. PICK c \in Stamp : /\ c.n = Cardinality(charges) + 1
                           /\ charges' = charges \cup {c}
                           /\ mem' = [mem EXCEPT !.resets = @ \cup {c}] /\ disk' = mem'
    BY <1>1, ChargeStamp
  <2>2. Cardinality(charges') = Cardinality(charges) + 1 /\ bt' = bt
    BY <1>1, ChargeStamp DEF Charge
  <2>3. c \in disk'.resets
    BY <2>1 DEF TypeOK, State
  <2>4. c.n = Cardinality(charges')
    BY <2>1, <2>2
  <2>5. bt' < Cardinality(charges')
    BY <2>2, Counts DEF TypeOK
  <2> QED BY <2>3, <2>4, <2>5, <2>2, Counts DEF TypeOK
<1>2. CASE OperatorReset
  BY <1>2, FS_EmptySet DEF OperatorReset, pass
<1>3. CASE RecoverStops
  BY <1>3 DEF RecoverStops, Goto, Fails, history
<1>4. CASE RecoverWaits
  BY <1>4 DEF RecoverWaits, Goto, Fails, history
<1>5. CASE BluetoothRestart
  BY <1>5, Counts DEF BluetoothRestart, Goto, Fails, TypeOK
<1>6. CASE UNCHANGED <<bt, charges, pc, disk>>
  BY <1>6
<1>7. CASE UNCHANGED <<bt, charges>> /\ pc' \notin {"rstop", "rwait", "rbt"}
  BY <1>7
<1>8. Environment => OperatorReset \/ UNCHANGED <<bt, charges, pc, disk>>
  BY DEF Environment, Tick, ConfigExit, OtherExit, AutoRestart, OperatorStart,
         StartupExit, Reports, history, pass
<1>9. Begin \/ Observe \/ RestartBridge \/ Save \/ RecoverStarts \/ Verified
      \/ VerifyTimesOut \/ Cleanup \/ TerminalStop \/ TerminalStopVerified
      \/ TerminalStopTimesOut \/ Crash \/ Reboot
      => UNCHANGED <<bt, charges>> /\ pc' \notin {"rstop", "rwait", "rbt"}
  BY DEF Begin, Observe, RestartBridge, Save, RecoverStarts, Verified, VerifyTimesOut,
         Cleanup, TerminalStop, TerminalStopVerified, TerminalStopTimesOut, Crash,
         Reboot, Goto, Fails, PassOver, history
<1>10. UNCHANGED vars => UNCHANGED <<bt, charges, pc, disk>>
  BY DEF vars, history, pass
<1> QED
  BY <1>1, <1>2, <1>3, <1>4, <1>5, <1>6, <1>7, <1>8, <1>9, <1>10 DEF Next, Pass

LEMMA LatchStep ==
    ASSUME TypeOK, Room, Latch, [Next]_vars PROVE Latch'
<1> USE DEF Latch, Recovering
<1>1. CASE Environment
  <2>1. UNCHANGED pass /\ (UNCHANGED disk \/ pc = "idle")
    BY <1>1 DEF Environment, Tick, ConfigExit, OtherExit, AutoRestart, OperatorStart,
                OperatorReset, StartupExit, Reports
  <2> QED BY <2>1 DEF pass
<1>2. CASE Crash \/ Reboot \/ Begin \/ Verified \/ TerminalStopVerified
           \/ TerminalStopTimesOut
  BY <1>2 DEF Crash, Reboot, Begin, Verified, TerminalStopVerified,
              TerminalStopTimesOut, PassOver
<1>3. CASE Observe
  <2>1. PICK S \in State, L \in Loaded :
           /\ L \in State /\ S = Observed(L)
           /\ mem' = IF Decision(S) = "latch" THEN Latched(S) ELSE S
           /\ plan' = Decision(S)
           /\ pc' = IF Decision(S) = "restart" THEN "restart" ELSE "save"
    BY <1>3, ObserveFacts
  <2>2. disk' = disk
    BY <1>3 DEF Observe
  <2>3. ASSUME plan' = "restart" PROVE ~disk.failed
    <3>1. ~S.failed /\ ~Ready
      BY <2>1, <2>3 DEF Decision
    <3>2. ~L.failed
      BY <2>1, <3>1, ObservedFacts DEF State
    <3> QED BY <2>1, <3>2 DEF Loaded, Unreadable, NewState
  <2>4. ASSUME plan' \in {"latch", "stop"} PROVE mem'.failed /\ mem'.pending
    BY <2>1, <2>4 DEF Decision, Latched, State
  <2> QED BY <2>1, <2>2, <2>3, <2>4
<1>4. CASE RestartBridge
  BY <1>4 DEF RestartBridge, Goto, Room
<1>5. CASE Save
  BY <1>5 DEF Save, Goto, PassOver, Room, TypeOK, Plans
<1>6. CASE Charge
  BY <1>6 DEF Charge, Goto, Room, TypeOK, State
<1>7. CASE RecoverStops \/ RecoverWaits \/ BluetoothRestart \/ RecoverStarts
           \/ VerifyTimesOut
  BY <1>7 DEF RecoverStops, RecoverWaits, BluetoothRestart, RecoverStarts,
              VerifyTimesOut, Goto, Fails, PassOver, Latched, TypeOK, State
<1>8. CASE Cleanup \/ TerminalStop
  BY <1>8 DEF Cleanup, TerminalStop, Goto, PassOver
<1>9. CASE UNCHANGED vars
  BY <1>9 DEF vars, pass
<1> QED
  BY <1>1, <1>2, <1>3, <1>4, <1>5, <1>6, <1>7, <1>8, <1>9 DEF Next, Pass

LEMMA AloneStep == ASSUME TypeOK, Alone, [Next]_vars PROVE Alone'
<1> USE DEF Alone, FullyStopped
<1>1. CASE Environment
  BY <1>1 DEF Environment, Tick, ConfigExit, OtherExit, AutoRestart, OperatorStart,
              OperatorReset, StartupExit, Reports, Starts, Ends, pass, bridge
<1>2. CASE RecoverWaits
  BY <1>2 DEF RecoverWaits, Goto, Fails, bridge
<1>3. CASE UNCHANGED vars
  BY <1>3 DEF vars, pass, bridge
<1>4. Begin \/ Observe \/ RestartBridge \/ Save \/ Charge \/ RecoverStops
      \/ BluetoothRestart \/ RecoverStarts \/ Verified \/ VerifyTimesOut \/ Cleanup
      \/ TerminalStop \/ TerminalStopVerified \/ TerminalStopTimesOut \/ Crash \/ Reboot
      => pc' # "rbt"
  BY DEF Begin, Observe, RestartBridge, Save, Charge, RecoverStops, BluetoothRestart,
         RecoverStarts, Verified, VerifyTimesOut, Cleanup, TerminalStop,
         TerminalStopVerified, TerminalStopTimesOut, Crash, Reboot, Goto, Fails, PassOver
<1> QED BY <1>1, <1>2, <1>3, <1>4 DEF Next, Pass

LEMMA StopKeptStep == ASSUME TypeOK, Latch, StopKept, [Next]_vars PROVE StopKept'
<1> USE DEF StopKept, Informed
<1>1. CASE Environment
  BY <1>1 DEF Environment, Tick, ConfigExit, OtherExit, AutoRestart, OperatorStart,
              OperatorReset, StartupExit, Reports, pass, NewState
<1>2. CASE Crash \/ Reboot \/ Begin \/ Verified \/ TerminalStopVerified
           \/ TerminalStopTimesOut
  BY <1>2 DEF Crash, Reboot, Begin, Verified, TerminalStopVerified,
              TerminalStopTimesOut, PassOver
<1>3. CASE Observe
  <2>1. PICK S \in State, L \in Loaded :
           /\ L \in State /\ S = Observed(L)
           /\ mem' = IF Decision(S) = "latch" THEN Latched(S) ELSE S
    BY <1>3, ObserveFacts
  <2>2. disk' = disk /\ (~ReadFaults => L = disk)
    BY <1>3, <2>1 DEF Observe, Loaded
  <2>3. S.pending = L.pending
    BY <2>1, ObservedFacts
  <2>4. mem'.pending \/ mem'.pending = S.pending
    BY <2>1 DEF Latched, State
  <2> QED BY <2>2, <2>3, <2>4
<1>4. CASE RestartBridge
  BY <1>4 DEF RestartBridge, Goto, TypeOK, State
<1>5. CASE Save \/ Charge
  BY <1>5 DEF Save, Charge, Goto, PassOver, TypeOK, State
<1>6. CASE RecoverStops \/ RecoverWaits \/ BluetoothRestart \/ RecoverStarts
           \/ VerifyTimesOut
  BY <1>6 DEF RecoverStops, RecoverWaits, BluetoothRestart, RecoverStarts,
              VerifyTimesOut, Goto, Fails, PassOver, Latched, TypeOK, State
<1>7. CASE Cleanup \/ TerminalStop
  BY <1>7 DEF Cleanup, TerminalStop, Goto, PassOver
<1>8. CASE UNCHANGED vars
  BY <1>8 DEF vars, pass
<1> QED
  BY <1>1, <1>2, <1>3, <1>4, <1>5, <1>6, <1>7, <1>8 DEF Next, Pass

----------------------------------------------------------------------------
(* Counting exits                                                          *)

LEMMA CountingStep ==
    ASSUME TypeOK, TypeOK', Counting, [Next]_vars PROVE Counting'
<1> USE DEF Counting, CountedOnce
<1>0. /\ Cardinality(log) \in Nat /\ Cardinality(log') \in Nat
      /\ disk.streak \in Nat /\ mem.streak \in Nat /\ exits \in Nat
      /\ disk'.streak \in Nat /\ mem'.streak \in Nat /\ exits' \in Nat
  BY FS_CardinalityType DEF TypeOK, State
<1>1. CASE Tick \/ ConfigExit \/ OtherExit \/ AutoRestart \/ OperatorStart
           \/ (\E p \in Phases : Reports(p)) \/ UNCHANGED vars
  <2>1. UNCHANGED <<log, disk, mem, pc, ready, exits>>
    BY <1>1 DEF Tick, ConfigExit, OtherExit, AutoRestart, OperatorStart, Reports,
                vars, pass, history
  <2> QED BY <2>1
<1>2. ASSUME NEW ble \in BOOLEAN, StartupExit(ble) PROVE Counting'
  <2>1. UNCHANGED <<disk, mem, pc, ready>> /\ exits' = exits + 1
    BY <1>2 DEF StartupExit, pass
  <2> DEFINE x == [t |-> now, run |-> run, ble |-> ble]
  <2>2. Cardinality(log') <= Cardinality(log) + 1
    <3>1. log' = log \cup {x} /\ IsFiniteSet(log)
      BY <1>2 DEF StartupExit, TypeOK
    <3> HIDE DEF x
    <3>2. Cardinality(log \cup {x})
            = IF x \in log THEN Cardinality(log) ELSE Cardinality(log) + 1
      BY <3>1, FS_AddElement
    <3> QED BY <3>1, <3>2, <1>0
  <2> QED BY <1>0, <2>1, <2>2
<1>3. CASE OperatorReset
  BY <1>0, <1>3 DEF OperatorReset, pass, NewState
<1>4. CASE Crash \/ Reboot
  BY <1>4 DEF Crash, Reboot, PassOver, history
<1>5. CASE Begin
  BY <1>5 DEF Begin, history
<1>6. CASE Observe
  <2>1. PICK S \in State, L \in Loaded :
           /\ L \in State /\ S = Observed(L)
           /\ mem' = IF Decision(S) = "latch" THEN Latched(S) ELSE S
           /\ pc' = IF Decision(S) = "restart" THEN "restart" ELSE "save"
    BY <1>6, ObserveFacts
  <2>2. log' = {} /\ ready' = Ready /\ UNCHANGED <<disk, exits>>
    BY <1>6 DEF Observe
  <2>3. mem'.streak = S.streak /\ Cardinality(log') = 0
    BY <2>1, <2>2, FS_EmptySet DEF Latched, State
  <2>4. L.streak \in Nat /\ L.streak + Cardinality(log) <= exits
    BY <1>0, <2>1 DEF Loaded, Unreadable, NewState, State
  <2>5. S.streak + 0 <= exits /\ (Ready => S.streak = 0)
    BY <1>0, <2>1, <2>4, ObservedFacts
  <2>6. pc' = "restart" => ~Ready
    BY <2>1 DEF Decision
  <2> QED BY <1>0, <2>2, <2>3, <2>5, <2>6
<1>7. CASE RestartBridge
  <2>1. mem'.streak = mem.streak
    BY <1>7 DEF RestartBridge, TypeOK, State
  <2> QED BY <1>7, <2>1 DEF RestartBridge, Goto, history
<1>8. CASE Save
  <2>1. /\ disk' = mem /\ log' = log
        /\ exits' = IF ready THEN Cardinality(log) ELSE exits
        /\ pc' \notin {"save", "restart"}
    BY <1>8 DEF Save, Goto, PassOver
  <2>2. pc' \notin {"idle", "observe"} => mem' = mem
    BY <1>8 DEF Save, PassOver
  <2> QED BY <1>0, <1>8, <2>1, <2>2 DEF Save
<1>9. CASE Charge
  <2>1. mem'.streak = mem.streak /\ disk' = mem'
    BY <1>9 DEF Charge, TypeOK, State
  <2> QED BY <1>9, <2>1 DEF Charge, Goto
<1>10. CASE RecoverStops \/ RecoverWaits \/ BluetoothRestart \/ RecoverStarts
            \/ VerifyTimesOut
  <2>1. /\ exits' = exits /\ (log' = log \/ log' = {})
        /\ mem' = mem \/ mem' = Latched(mem) \/ pc' = "idle"
        /\ disk' = disk \/ disk' = Latched(mem) \/ disk' = mem
        /\ pc \notin {"idle", "observe"} /\ pc' \notin {"save", "restart"}
    BY <1>10 DEF RecoverStops, RecoverWaits, BluetoothRestart, RecoverStarts,
                 VerifyTimesOut, Goto, Fails, PassOver, history
  <2>2. Latched(mem).streak = mem.streak
    BY DEF Latched, TypeOK, State
  <2>3. Cardinality(log') <= Cardinality(log)
    BY <1>0, <2>1, FS_EmptySet
  <2> QED BY <1>0, <2>1, <2>2, <2>3
<1>11. CASE Verified
  <2>1. disk'.streak = 0 /\ exits' = Cardinality(log) /\ log' = log /\ pc' = "idle"
    BY <1>11 DEF Verified, PassOver, TypeOK, State
  <2> QED BY <1>0, <2>1
<1>12. CASE Cleanup \/ TerminalStop \/ TerminalStopTimesOut
  BY <1>12 DEF Cleanup, TerminalStop, TerminalStopTimesOut, Goto, PassOver, history
<1>13. CASE TerminalStopVerified
  <2>1. disk'.streak = mem.streak
    BY <1>13 DEF TerminalStopVerified, TypeOK, State
  <2> QED BY <1>13, <2>1 DEF TerminalStopVerified, PassOver, history
<1> QED
  BY <1>1, <1>2, <1>3, <1>4, <1>5, <1>6, <1>7, <1>8, <1>9, <1>10, <1>11, <1>12, <1>13
     DEF Next, Environment, Pass

----------------------------------------------------------------------------
(* The theorems                                                            *)

LEMMA InitInv == Init => IInv
<1> SUFFICES ASSUME Init PROVE IInv
  OBVIOUS
<1> USE Settings, FS_EmptySet DEF Init
<1>1. TypeOK
  <2>1. 1 \in 0..MaxRuns /\ 0 \in 0..MaxRuns
    BY LimitsAssumption
  <2>2. NoView \in [active : Actives, run : 0..MaxRuns]
    BY <2>1 DEF NoView, Actives
  <2> QED BY <2>1, <2>2 DEF TypeOK, Actives, Phases, Steps, Plans
<1>2. Past /\ Kept /\ Remembered
  BY DEF Past, Kept, Remembered, Known, NewState, Informed
<1>3. \A w : Recent(charges, w) = {}
  BY DEF Recent
<1>4. ResetBudget
  BY <1>3, SettingsAssumption DEF ResetBudget
<1>5. Room /\ Paid /\ Latch /\ Alone /\ StopKept /\ Counting
  BY DEF Room, Paid, Latch, Recovering, Alone, StopKept, Counting, CountedOnce,
         Informed, NewState
<1> QED BY <1>1, <1>2, <1>4, <1>5 DEF IInv

LEMMA NextInv == IInv /\ [Next]_vars => IInv'
<1> SUFFICES ASSUME IInv, [Next]_vars PROVE IInv'
  OBVIOUS
<1>1. TypeOK'
  BY TypeStep DEF IInv
<1>2. Past' /\ Kept' /\ Remembered' /\ Room' /\ ResetBudget' /\ Paid'
  BY PastStep, KeptStep, RememberedStep, RoomStep, BudgetStep, PaidStep DEF IInv
<1>3. Latch' /\ Alone' /\ StopKept' /\ Counting'
  BY <1>1, LatchStep, AloneStep, StopKeptStep, CountingStep DEF IInv
<1> QED BY <1>1, <1>2, <1>3 DEF IInv

\* The inductive invariant holds throughout.
THEOREM SupervisorInvariant == Spec => []IInv
BY InitInv, NextInv, PTL DEF Spec

\* Every variable keeps its type.
THEOREM SupervisorTypes == Spec => []TypeOK
<1>1. IInv => TypeOK
  BY DEF IInv
<1> QED BY <1>1, SupervisorInvariant, PTL

\* Bluetooth resets are charged within the short and the long budget, for any
\* settings with short window <= long window (<= healthy time, if state.json
\* can be unreadable), across crashes, reboots and restarts.
THEOREM BudgetHolds == Spec => []ResetBudget
<1>1. IInv => ResetBudget
  BY DEF IInv
<1> QED BY <1>1, SupervisorInvariant, PTL

\* A terminal stop is stored, with the latch, before it is attempted.
THEOREM StopIsDurable == Spec => []DurableStop
<1>1. IInv => DurableStop
  BY DEF IInv, Latch, DurableStop
<1> QED BY <1>1, SupervisorInvariant, PTL

\* No startup exit is counted twice.
THEOREM NoDoubleCount == Spec => []CountedOnce
<1>1. IInv => CountedOnce
  BY DEF IInv, Counting
<1> QED BY <1>1, SupervisorInvariant, PTL

\* Only one action restarts Bluetooth.
LEMMA OneRestart ==
    ASSUME TypeOK, [Next]_vars, bt' > bt PROVE BluetoothRestart
<1>0. bt \in Nat
  BY DEF TypeOK
<1>1. CASE Tick \/ ConfigExit \/ OtherExit \/ AutoRestart \/ OperatorStart
           \/ (\E ble \in BOOLEAN : StartupExit(ble))
           \/ (\E p \in Phases : Reports(p)) \/ UNCHANGED vars
  <2>1. bt' = bt
    BY <1>1 DEF Tick, ConfigExit, OtherExit, AutoRestart, OperatorStart, StartupExit,
                Reports, vars, history
  <2> QED BY <1>0, <2>1
<1>2. CASE OperatorReset
  <2>1. bt' = 0
    BY <1>2 DEF OperatorReset
  <2> QED BY <1>0, <2>1
<1>3. CASE Crash \/ Reboot \/ Begin \/ Observe \/ RestartBridge \/ Save \/ Charge
  <2>1. bt' = bt
    BY <1>3 DEF Crash, Reboot, Begin, Observe, RestartBridge, Save, Charge, history
  <2> QED BY <1>0, <2>1
<1>4. CASE RecoverStops \/ RecoverWaits \/ RecoverStarts \/ Verified
           \/ VerifyTimesOut \/ Cleanup
  <2>1. bt' = bt
    BY <1>4 DEF RecoverStops, RecoverWaits, RecoverStarts, Verified, VerifyTimesOut,
                Cleanup, history
  <2> QED BY <1>0, <2>1
<1>5. CASE TerminalStop \/ TerminalStopVerified \/ TerminalStopTimesOut
  <2>1. bt' = bt
    BY <1>5 DEF TerminalStop, TerminalStopVerified, TerminalStopTimesOut, history
  <2> QED BY <1>0, <2>1
<1> QED BY <1>1, <1>2, <1>3, <1>4, <1>5 DEF Next, Environment, Pass

\* Every Bluetooth restart has a charge of its own, already stored.
THEOREM ResetsAreCharged == Spec => ChargedFirst
<1>1. ASSUME IInv, [Next]_vars
      PROVE  [bt' > bt => /\ bt < Cardinality(charges)
                          /\ \E c \in disk.resets : c.n = Cardinality(charges)]_vars
  BY <1>1, OneRestart DEF IInv, Paid, BluetoothRestart
<1> QED BY <1>1, SupervisorInvariant, PTL DEF Spec, ChargedFirst

\* Bluetooth restarts under no bridge, or under one a person started meanwhile.
THEOREM ResetsAlone == Spec => BluetoothAlone
<1>1. ASSUME IInv, [Next]_vars PROVE [bt' > bt => run = 0 \/ manual]_vars
  BY <1>1, OneRestart DEF IInv, Alone, FullyStopped, BluetoothRestart
<1> QED BY <1>1, SupervisorInvariant, PTL DEF Spec, BluetoothAlone

\* A latched supervisor neither resets Bluetooth nor starts the bridge.
THEOREM LatchedIsQuiet == Spec => LatchedQuiet
<1>1. ASSUME IInv, [Next]_vars
      PROVE  [disk.failed => ~(bt' > bt) /\ (PassStarts => pc = "cleanup")]_vars
  <2>1. disk.failed /\ bt' > bt => FALSE
    BY <1>1, OneRestart DEF IInv, Latch, Recovering, BluetoothRestart
  <2>2. PassStarts => pc \in {"restart", "rstart", "cleanup"}
    <3>1. CASE Environment \/ UNCHANGED vars
      <4>1. pc' = pc
        BY <3>1 DEF Environment, Tick, ConfigExit, OtherExit, AutoRestart,
            OperatorStart, OperatorReset, StartupExit, Reports, vars, pass
      <4> QED BY <4>1 DEF PassStarts
    <3>2. CASE Crash \/ Reboot
      BY <3>2 DEF Crash, Reboot, PassOver, PassStarts
    <3>3. CASE Begin \/ Observe \/ Save \/ Charge \/ RecoverStops \/ RecoverWaits
               \/ BluetoothRestart \/ Verified \/ VerifyTimesOut \/ TerminalStop
               \/ TerminalStopVerified \/ TerminalStopTimesOut
      <4>1. runs' = runs
        BY <3>3 DEF Begin, Observe, Save, Charge, RecoverStops, RecoverWaits,
            BluetoothRestart, Verified, VerifyTimesOut, TerminalStop,
            TerminalStopVerified, TerminalStopTimesOut, StopIssued, bridge
      <4>2. runs \in Nat
        BY <1>1 DEF IInv, TypeOK
      <4> QED BY <4>1, <4>2 DEF PassStarts
    <3>4. CASE RestartBridge \/ RecoverStarts \/ Cleanup
      BY <3>4 DEF RestartBridge, RecoverStarts, Cleanup
    <3> QED BY <1>1, <3>1, <3>2, <3>3, <3>4 DEF Next, Pass
  <2> QED BY <1>1, <2>1, <2>2 DEF IInv, Latch, Recovering
<1> QED BY <1>1, SupervisorInvariant, PTL DEF Spec, LatchedQuiet

\* Where state.json can always be read, only a verified stop or the operator
\* clears a pending terminal stop.
THEOREM StopsAreVerified ==
    ASSUME ~ReadFaults PROVE Spec => PendingUntilVerified
<1>1. ASSUME IInv, [Next]_vars
      PROVE  [disk.pending /\ ~disk'.pending => FullyStopped \/ disk' = NewState]_vars
  <2>1. CASE Environment \/ Crash \/ Reboot \/ Begin \/ Observe \/ RestartBridge
             \/ Cleanup \/ TerminalStop \/ TerminalStopTimesOut \/ UNCHANGED vars
    BY <2>1 DEF Environment, Crash, Reboot, Tick, ConfigExit, OtherExit, AutoRestart,
        OperatorStart, OperatorReset, StartupExit, Reports, Begin, Observe,
        RestartBridge, Cleanup, TerminalStop, TerminalStopTimesOut, vars
  <2>2. CASE Save \/ Charge \/ Verified
    <3>1. Informed /\ disk'.pending = mem.pending
      BY <1>1, <2>2 DEF IInv, TypeOK, State, Save, Charge, Verified, Informed
    <3> QED BY <1>1, <3>1 DEF IInv, StopKept
  <2>3. CASE RecoverStops \/ RecoverWaits \/ BluetoothRestart \/ RecoverStarts
             \/ VerifyTimesOut
    <3>1. Informed /\ (disk' = disk \/ disk' = mem \/ disk'.pending)
      BY <1>1, <2>3 DEF IInv, TypeOK, State, RecoverStops, RecoverWaits,
          BluetoothRestart, RecoverStarts, VerifyTimesOut, Fails, Latched, Informed
    <3> QED BY <1>1, <3>1 DEF IInv, StopKept
  <2>4. CASE TerminalStopVerified
    BY <2>4 DEF TerminalStopVerified
  <2> QED BY <1>1, <2>1, <2>2, <2>3, <2>4 DEF Next, Pass
<1> QED BY <1>1, SupervisorInvariant, PTL DEF Spec, PendingUntilVerified

----------------------------------------------------------------------------
(* The grounds of a reset                                                  *)

\* The BLE evidence E of a state, with the processes it has found stuck, is of
\* failures that are blamed, each of them once: a process fails to start once,
\* and is found stuck once.
Grounded(E, found, blame, r, n) ==
    /\ Blames(E) \subseteq blame
    /\ \A x, y \in E : x.run = y.run /\ x.copy = y.copy => x = y
    /\ \A x \in E :
         /\ x.run \in 1..n
         /\ IF x.copy = 0 THEN x.run # r ELSE x.run \in found

\* So is what is stored or held together with what is still in the log.
Grounds(S) == Grounded(S.ble \cup BleFailures, S.stuck, blamed, run, runs)

\* A pass that has decided to reset holds the evidence for it until it does;
\* nothing is held against a bridge that is ready.
Enough ==
    /\ pc \in {"charge", "rstop", "rwait", "rbt"} \/ (pc = "save" /\ plan = "recover")
         => Cardinality(mem.ble) >= FailuresToReset
    /\ pc = "save" /\ ready => plan = "none" /\ mem.ble = {}

Warranted == Grounds(disk) /\ Grounds(mem) /\ Enough /\ run <= runs

LEMMA LogEvidence == ASSUME TypeOK PROVE BleFailures \in SUBSET Evidence
BY SettingsAssumption DEF TypeOK, BleFailures, Exit, Evidence

\* Some of the evidence, later: no process that has ended runs again.
LEMMA GroundedLater ==
    ASSUME NEW E, NEW F, F \subseteq E, NEW S, NEW T, NEW B, NEW C,
           NEW r, NEW q, NEW n \in Nat, NEW m \in Nat, n <= m,
           q \in {0, r} \/ (q \in Nat /\ q > n),
           Grounded(E, S, B, r, n),
           \A x \in F : x.copy = 0 \/ (x.run \in S => x.run \in T),
           Blames(F) \subseteq C
    PROVE  Grounded(F, T, C, q, m)
<1>1. \A x, y \in F : x.run = y.run /\ x.copy = y.copy => x = y
  BY DEF Grounded
<1>2. ASSUME NEW x \in F
      PROVE  x.run \in 1..m /\ (IF x.copy = 0 THEN x.run # q ELSE x.run \in T)
  <2>1. x.run \in 1..n /\ (IF x.copy = 0 THEN x.run # r ELSE x.run \in S)
    BY DEF Grounded
  <2> QED BY <2>1
<1> QED BY <1>1, <1>2 DEF Grounded

LEMMA BlamesSubset ==
    ASSUME NEW E, NEW F, F \subseteq E
    PROVE  Blames(F) \subseteq Blames(E)
BY DEF Blames

\* A process that ends before it connected has not ended before.
LEMMA GroundedExit ==
    ASSUME NEW E, NEW S, NEW B, NEW n \in Nat, NEW r \in 1..n, NEW t,
           Grounded(E, S, B, r, n)
    PROVE  Grounded(E \cup {[t |-> t, run |-> r, copy |-> 0]}, S, B \cup {<<r, 0>>}, 0, n)
<1> DEFINE e == [t |-> t, run |-> r, copy |-> 0]
           F == E \cup {e}
<1>1. e.run = r /\ e.copy = 0
  OBVIOUS
<1> HIDE DEF e
<1>2. Blames(F) \subseteq B \cup {<<r, 0>>}
  BY <1>1 DEF Blames, Grounded
<1>3. \A x \in E : ~(x.run = r /\ x.copy = 0)
  BY DEF Grounded
<1>4. \A x, y \in F : x.run = y.run /\ x.copy = y.copy => x = y
  BY <1>1, <1>3 DEF Grounded
<1>5. ASSUME NEW x \in F
      PROVE  x.run \in 1..n /\ (IF x.copy = 0 THEN x.run # 0 ELSE x.run \in S)
  <2>1. CASE x \in E
    BY <2>1 DEF Grounded
  <2>2. CASE x = e
    BY <1>1, <2>2
  <2> QED BY <2>1, <2>2
<1>6. Grounded(F, S, B \cup {<<r, 0>>}, 0, n)
  BY <1>2, <1>4, <1>5 DEF Grounded
<1> QED BY <1>6 DEF e

\* One that is found stuck has not been found stuck before.
LEMMA GroundedStuck ==
    ASSUME NEW E, NEW S, NEW B, NEW n \in Nat, run \in 1..n, run \notin S,
           Grounded(E, S, B, run, n)
    PROVE  Grounded(E \cup StuckEvidence, S \cup {run}, B \cup Blames(StuckEvidence), run, n)
<1> DEFINE F == E \cup StuckEvidence
<1>1. \A x \in StuckEvidence : x.run = run /\ x.copy # 0
  BY SettingsAssumption DEF StuckEvidence
<1>2. \A x, y \in StuckEvidence : x.copy = y.copy => x = y
  BY DEF StuckEvidence
<1>3. \A x \in E : x.run # run
  BY DEF Grounded
<1>4. \A x, y \in F : x.run = y.run /\ x.copy = y.copy => x = y
  BY <1>1, <1>2, <1>3 DEF Grounded
<1>5. Blames(F) \subseteq B \cup Blames(StuckEvidence)
  BY DEF Blames, Grounded
<1>6. \A x \in F : /\ x.run \in 1..n
                   /\ IF x.copy = 0 THEN x.run # run ELSE x.run \in S \cup {run}
  BY <1>1 DEF Grounded
<1> QED BY <1>4, <1>5, <1>6 DEF Grounded

\* Processes are numbered on.
Onward ==
    \/ run' \in {0, run} /\ runs' = runs
    \/ runs' = runs + 1 /\ run' = runs'

LEMMA CallsOnward ==
    ASSUME StartIssued \/ StopIssued \/ UNCHANGED bridge PROVE Onward
BY DEF StartIssued, StopIssued, Starts, bridge, Onward

LEMMA Numbering ==
    ASSUME TypeOK, run <= runs, [Next]_vars
    PROVE  Onward /\ run' <= runs'
<1>1. run \in Nat /\ runs \in Nat
  BY DEF TypeOK
<1> SUFFICES Onward
  BY <1>1 DEF Onward
<1>2. CASE UNCHANGED bridge
  BY <1>2, CallsOnward
<1>3. CASE \E b \in BOOLEAN : Starts(b)
  BY <1>3 DEF Onward, Starts
<1>4. CASE \E to : Ends(to)
  BY <1>4 DEF Onward, Ends
<1>5. ASSUME NEW p, Reports(p) PROVE Onward
  BY <1>5 DEF Onward, Reports
<1>6. CASE StartIssued \/ StopIssued
  BY <1>6, CallsOnward
<1>7. CASE Environment \/ Reboot \/ UNCHANGED vars
  <2>1. \/ UNCHANGED bridge
        \/ \E b \in BOOLEAN : Starts(b)
        \/ \E to : Ends(to)
        \/ \E p : Reports(p)
    <3>1. manual \in BOOLEAN
      BY DEF TypeOK
    <3> QED
      BY <1>7, <3>1 DEF Environment, Tick, ConfigExit, OtherExit, AutoRestart, OperatorStart,
         OperatorReset, StartupExit, Reboot, vars
  <2> QED BY <2>1, <1>2, <1>3, <1>4, <1>5
<1>8. CASE Pass \/ Crash
  <2>1. UNCHANGED bridge \/ StartIssued \/ StopIssued
    BY <1>8 DEF Crash, Pass, Begin, Observe, RestartBridge, Save, Charge, RecoverStops,
       RecoverWaits, BluetoothRestart, RecoverStarts, Verified, VerifyTimesOut, Cleanup,
       TerminalStop, TerminalStopVerified, TerminalStopTimesOut
  <2> QED BY <2>1, <1>2, <1>6
<1> QED BY <1>7, <1>8 DEF Next

\* A state that has the evidence of another.
Keeps(T, S) == T.ble = S.ble /\ T.stuck = S.stuck

\* But for five steps, what is stored or held afterwards was held before, and
\* nothing is logged or blamed.
LEMMA EvidenceCarried ==
    ASSUME TypeOK, Kept, [Next]_vars, \A b \in BOOLEAN : ~StartupExit(b),
           ~Observe, ~OperatorReset, ~(Save /\ ready), ~Verified
    PROVE  /\ disk' = disk \/ Keeps(disk', mem)
           /\ mem' = NewState \/ Keeps(mem', mem)
           /\ log' \subseteq log /\ blamed' = blamed
<1> USE DEF Keeps, pass, history
<1>1. CASE Environment
  BY <1>1 DEF Environment, Tick, ConfigExit, OtherExit, AutoRestart, OperatorStart, Reports
<1>2. CASE Crash \/ Reboot \/ Begin \/ Cleanup \/ TerminalStopTimesOut \/ UNCHANGED vars
  BY <1>2 DEF Crash, Reboot, Begin, Cleanup, TerminalStopTimesOut, PassOver, vars
<1>3. CASE RestartBridge
  BY <1>3 DEF RestartBridge, TypeOK, State
<1>4. CASE Save
  BY <1>4 DEF Save, PassOver
<1>5. CASE Charge
  BY <1>5 DEF Charge, TypeOK, State
<1>6. CASE RecoverStops
  BY <1>6 DEF RecoverStops, Fails, Latched, TypeOK, State
<1>7. CASE RecoverWaits
  BY <1>7 DEF RecoverWaits, Fails, Latched, TypeOK, State
<1>8. CASE BluetoothRestart
  BY <1>8 DEF BluetoothRestart, Fails, Latched, TypeOK, State
<1>9. CASE RecoverStarts
  BY <1>9 DEF RecoverStarts, Fails, Latched, TypeOK, State
<1>10. CASE VerifyTimesOut
  BY <1>10 DEF VerifyTimesOut, PassOver, Fails, Latched, TypeOK, State
<1>11. CASE TerminalStop
  BY <1>11 DEF TerminalStop, PassOver
<1>12. CASE TerminalStopVerified
  BY <1>12 DEF TerminalStopVerified, PassOver, TypeOK, State
<1> QED
  BY <1>1, <1>2, <1>3, <1>4, <1>5, <1>6, <1>7, <1>8, <1>9, <1>10, <1>11, <1>12
     DEF Next, Pass

\* A state that has no more evidence than one had is as well grounded.
LEMMA StillGrounded ==
    ASSUME TypeOK, Onward, NEW S, Grounds(S), BleFailures' \subseteq BleFailures,
           blamed' = blamed, NEW T, T.ble \subseteq S.ble, T.ble = {} \/ T.stuck = S.stuck
    PROVE  Grounded(T.ble \cup BleFailures', T.stuck, blamed', run', runs')
<1> DEFINE E == S.ble \cup BleFailures
           F == T.ble \cup BleFailures'
<1>1. F \subseteq E /\ (\A x \in BleFailures' : x.copy = 0)
  BY DEF BleFailures
<1>2. Grounded(E, S.stuck, blamed, run, runs)
  BY DEF Grounds
<1>3. runs \in Nat /\ runs' \in Nat /\ runs <= runs'
      /\ (run' \in {0, run} \/ (run' \in Nat /\ run' > runs))
  BY DEF TypeOK, Onward
<1>4. Blames(F) \subseteq blamed'
  BY <1>1, <1>2, BlamesSubset DEF Grounded
<1>5. \A x \in F : x.copy = 0 \/ (x.run \in S.stuck => x.run \in T.stuck)
  BY <1>1
<1> HIDE DEF E, F
<1>6. Grounded(F, T.stuck, blamed', run', runs')
  BY <1>1, <1>2, <1>3, <1>4, <1>5, GroundedLater
<1> QED BY <1>6 DEF F

\* Where a ready bridge is recorded only the log is left to blame.
LEMMA GroundedAfresh ==
    ASSUME TypeOK, Onward, NEW S, Grounds(S), log' = log, blamed' = Blames(BleFailures),
           NEW T, T.ble = {}
    PROVE  Grounded(T.ble \cup BleFailures', T.stuck, blamed', run', runs')
<1> DEFINE E == S.ble \cup BleFailures
           F == T.ble \cup BleFailures'
<1>1. F = BleFailures /\ F \subseteq E /\ (\A x \in F : x.copy = 0)
  BY DEF BleFailures
<1>2. Grounded(E, S.stuck, blamed, run, runs)
  BY DEF Grounds
<1>3. runs \in Nat /\ runs' \in Nat /\ runs <= runs'
      /\ (run' \in {0, run} \/ (run' \in Nat /\ run' > runs))
  BY DEF TypeOK, Onward
<1>4. Blames(F) \subseteq blamed'
  BY <1>1
<1> HIDE DEF E, F
<1>5. Grounded(F, T.stuck, blamed', run', runs')
  BY <1>1, <1>2, <1>3, <1>4, GroundedLater
<1> QED BY <1>5 DEF F

\* What observing adds to the evidence: the log, and a bridge found stuck.
LEMMA ObservedEvidence ==
    ASSUME TypeOK, NEW S \in State
    PROVE  /\ Ready => Observed(S).ble = {} /\ ~Stuck(S)
           /\ ~Ready /\ ~Stuck(S) => /\ Observed(S).ble \subseteq S.ble \cup BleFailures
                                     /\ Observed(S).stuck = S.stuck
           /\ Stuck(S) =>
                 /\ Observed(S).ble \subseteq S.ble \cup BleFailures \cup StuckEvidence
                 /\ Observed(S).stuck = S.stuck \cup {run}
<1> DEFINE C == Counted(S)
<1>1. C \in State
  BY CountedType
<1>2. C.ble \subseteq S.ble \cup BleFailures /\ C.stuck = S.stuck
  BY DEF Counted, Recent, State
<1>3. Stuck(C) <=> Stuck(S)
  BY <1>2 DEF Stuck
<1> HIDE DEF C
<1>4. CASE Ready
  <2>1. Observed(S) = SeenReady(C)
    BY <1>4 DEF Observed, C
  <2>2. SeenReady(C).ble = {}
    BY <1>1 DEF SeenReady, State
  <2> QED BY <1>4, <2>1, <2>2 DEF Ready, Stuck
<1>5. CASE ~Ready
  <2>1. Observed(S) = SeenNotReady(C)
    BY <1>5 DEF Observed, C
  <2>2. CASE Stuck(C)
    <3>1. SeenNotReady(C).ble = C.ble \cup StuckEvidence
          /\ SeenNotReady(C).stuck = C.stuck \cup {run}
      BY <1>1, <2>2 DEF SeenNotReady, State
    <3> QED BY <1>2, <1>3, <1>5, <2>1, <2>2, <3>1
  <2>3. CASE ~Stuck(C)
    <3>1. SeenNotReady(C).ble = C.ble /\ SeenNotReady(C).stuck = C.stuck
      BY <1>1, <2>3 DEF SeenNotReady, State
    <3> QED BY <1>2, <1>3, <1>5, <2>1, <2>3, <3>1
  <2> QED BY <2>2, <2>3
<1> QED BY <1>4, <1>5

LEMMA GroundsObserve ==
    ASSUME TypeOK, Warranted, Observe
    PROVE  Grounds(disk)' /\ Grounds(mem)'
<1>1. PICK L \in Loaded :
        /\ mem' = IF Decision(Observed(L)) = "latch" THEN Latched(Observed(L))
                                                      ELSE Observed(L)
        /\ blamed' = IF Stuck(L) THEN blamed \cup Blames(StuckEvidence) ELSE blamed
  BY DEF Observe
<1> DEFINE S == Observed(L)
           E == L.ble \cup BleFailures
<1>2. L \in State
  BY <1>1, Settings DEF Loaded, TypeOK
<1>3. S \in State
  BY <1>2, ObservedType
<1>4. /\ Ready => S.ble = {} /\ ~Stuck(L)
      /\ ~Ready /\ ~Stuck(L) => S.ble \subseteq E /\ S.stuck = L.stuck
      /\ Stuck(L) => S.ble \subseteq E \cup StuckEvidence /\ S.stuck = L.stuck \cup {run}
  BY <1>2, ObservedEvidence
<1> HIDE DEF S
<1>5. mem'.ble = S.ble /\ mem'.stuck = S.stuck
  BY <1>1, <1>3 DEF S, Latched, State
<1>6. disk' = disk /\ run' = run /\ runs' = runs /\ log' = {} /\ runs \in Nat
  BY DEF Observe, bridge, TypeOK
<1>7. BleFailures' = {}
  BY <1>6 DEF BleFailures
<1>8. blamed \subseteq blamed'
  BY <1>1
<1>9. Grounded(disk.ble \cup BleFailures, disk.stuck, blamed, run, runs)
  BY DEF Warranted, Grounds
<1>10. Grounds(disk)'
  <2>1. Blames(disk.ble) \subseteq Blames(disk.ble \cup BleFailures)
    BY BlamesSubset
  <2>2. Blames(disk.ble) \subseteq blamed'
    BY <1>8, <1>9, <2>1 DEF Grounded
  <2>3. Grounded(disk.ble, disk.stuck, blamed', run, runs)
    BY <1>6, <1>9, <2>2, GroundedLater
  <2>4. disk.ble \cup {} = disk.ble
    OBVIOUS
  <2> QED BY <1>6, <1>7, <2>3, <2>4 DEF Grounds
<1>11. Grounded(E, L.stuck, blamed, run, runs)
  <2>1. CASE L = disk
    BY <1>9, <2>1
  <2>2. CASE L = Unreadable
    <3>1. E = BleFailures /\ (\A x \in BleFailures : x.copy = 0)
      BY <2>2 DEF Unreadable, NewState, BleFailures
    <3>2. Blames(E) \subseteq blamed
      BY <1>9, <3>1, BlamesSubset DEF Grounded
    <3>3. E \subseteq disk.ble \cup BleFailures /\ (\A x \in E : x.copy = 0)
      BY <3>1
    <3> HIDE DEF E
    <3> QED BY <1>6, <1>9, <3>2, <3>3, GroundedLater
  <2> QED BY <1>1, <2>1, <2>2 DEF Loaded
<1> HIDE DEF E
<1>12. Grounded(S.ble, S.stuck, blamed', run, runs)
  <2>1. CASE Ready
    <3>1. S.ble = {} /\ Blames({}) = {}
      BY <1>4, <2>1 DEF Blames
    <3> QED BY <3>1 DEF Grounded
  <2>2. CASE ~Ready /\ ~Stuck(L)
    <3>1. Blames(S.ble) \subseteq Blames(E) /\ Blames(E) \subseteq blamed
      BY <1>4, <1>11, <2>2, BlamesSubset DEF Grounded
    <3>2. Blames(S.ble) \subseteq blamed'
      BY <1>8, <3>1
    <3> QED BY <1>4, <1>6, <1>11, <2>2, <3>2, GroundedLater
  <2>3. CASE Stuck(L)
    <3> DEFINE F == E \cup StuckEvidence
    <3>1. run \in 1..runs /\ run \notin L.stuck
      BY <2>3 DEF Stuck, Trusted, TypeOK, Warranted
    <3>2. Grounded(F, L.stuck \cup {run}, blamed \cup Blames(StuckEvidence), run, runs)
      BY <1>6, <1>11, <3>1, GroundedStuck
    <3> HIDE DEF F
    <3>3. S.ble \subseteq F
      BY <1>4, <2>3 DEF F
    <3>4. blamed' = blamed \cup Blames(StuckEvidence)
      BY <1>1, <2>3
    <3>5. Blames(S.ble) \subseteq blamed'
      BY <3>2, <3>3, <3>4, BlamesSubset DEF Grounded
    <3> QED BY <1>4, <1>6, <2>3, <3>2, <3>3, <3>5, GroundedLater
  <2> QED BY <2>1, <2>2, <2>3
<1>13. Grounds(mem)'
  <2>1. S.ble \cup {} = S.ble
    OBVIOUS
  <2> QED BY <1>5, <1>6, <1>7, <1>12, <2>1 DEF Grounds
<1> QED BY <1>10, <1>13

LEMMA GroundsExit ==
    ASSUME TypeOK, Warranted, NEW b \in BOOLEAN, StartupExit(b)
    PROVE  Grounds(disk)' /\ Grounds(mem)'
<1> DEFINE e == [t |-> now, run |-> run, copy |-> 0]
<1>1. /\ run \in 1..runs /\ runs \in Nat /\ run' = 0 /\ runs' = runs
      /\ log' = log \cup {[t |-> now, run |-> run, ble |-> b]}
      /\ blamed' = (IF b THEN blamed \cup {<<run, 0>>} ELSE blamed)
      /\ disk' = disk /\ mem' = mem
  BY DEF StartupExit, Ends, pass, TypeOK, Warranted
<1>2. BleFailures' = IF b THEN BleFailures \cup {e} ELSE BleFailures
  <2> DEFINE x == [t |-> now, run |-> run, ble |-> b]
  <2>1. log' = log \cup {x} /\ x.t = now /\ x.run = run /\ x.ble = b
    BY <1>1
  <2> HIDE DEF x
  <2>2. BleFailures' = {[t |-> y.t, run |-> y.run, copy |-> 0] : y \in {y \in log' : y.ble}}
    BY DEF BleFailures
  <2>3. CASE b
    <3>1. {y \in log' : y.ble} = {y \in log : y.ble} \cup {x}
      BY <2>1, <2>3
    <3> QED BY <2>1, <2>2, <2>3, <3>1 DEF BleFailures
  <2>4. CASE ~b
    <3>1. {y \in log' : y.ble} = {y \in log : y.ble}
      BY <2>1, <2>4
    <3> QED BY <2>2, <2>4, <3>1 DEF BleFailures
  <2> QED BY <2>3, <2>4
<1>3. ASSUME NEW S, Grounds(S)
      PROVE  Grounded(S.ble \cup BleFailures', S.stuck, blamed', run', runs')
  <2>1. CASE b
    <3>1. Grounded((S.ble \cup BleFailures) \cup {e}, S.stuck, blamed \cup {<<run, 0>>}, 0, runs)
      BY <1>1, <1>3, GroundedExit DEF Grounds
    <3>2. S.ble \cup BleFailures' = (S.ble \cup BleFailures) \cup {e}
      BY <1>2, <2>1
    <3> QED BY <1>1, <2>1, <3>1, <3>2
  <2>2. CASE ~b
    BY <1>1, <1>2, <1>3, <2>2, StillGrounded DEF Onward
  <2> QED BY <2>1, <2>2
<1>4. Grounded(disk.ble \cup BleFailures', disk.stuck, blamed', run', runs')
  BY <1>3 DEF Warranted
<1>5. Grounded(mem.ble \cup BleFailures', mem.stuck, blamed', run', runs')
  BY <1>3 DEF Warranted
<1> QED BY <1>1, <1>4, <1>5 DEF Grounds

LEMMA GroundsStep ==
    ASSUME TypeOK, Kept, Warranted, [Next]_vars
    PROVE  Grounds(disk)' /\ Grounds(mem)'
<1>1. Onward
  BY Numbering DEF Warranted
<1>2. CASE \E b \in BOOLEAN : StartupExit(b)
  BY <1>2, GroundsExit
<1>3. CASE Observe
  BY <1>3, GroundsObserve
<1>4. CASE OperatorReset \/ (Save /\ ready) \/ Verified
  <2>1. /\ log' = log /\ blamed' = Blames(BleFailures)
        /\ disk'.ble = {} /\ mem'.ble = {}
    <3>1. CASE OperatorReset
      BY <3>1 DEF OperatorReset, Kept, Informed, NewState, pass
    <3>2. CASE Save /\ ready
      BY <3>2 DEF Save, PassOver, NewState, Warranted, Enough
    <3>3. CASE Verified
      BY <3>3 DEF Verified, PassOver, NewState, TypeOK, State
    <3> QED BY <1>4, <3>1, <3>2, <3>3
  <2>2. Grounded(disk'.ble \cup BleFailures', disk'.stuck, blamed', run', runs')
    BY <1>1, <2>1, GroundedAfresh DEF Warranted
  <2>3. Grounded(mem'.ble \cup BleFailures', mem'.stuck, blamed', run', runs')
    BY <1>1, <2>1, GroundedAfresh DEF Warranted
  <2> QED BY <2>2, <2>3 DEF Grounds
<1>5. CASE /\ \A b \in BOOLEAN : ~StartupExit(b)
           /\ ~Observe /\ ~OperatorReset /\ ~(Save /\ ready) /\ ~Verified
  <2>1. /\ disk' = disk \/ Keeps(disk', mem)
        /\ mem' = NewState \/ Keeps(mem', mem)
        /\ log' \subseteq log /\ blamed' = blamed
    BY <1>5, EvidenceCarried
  <2>2. BleFailures' \subseteq BleFailures
    BY <2>1 DEF BleFailures
  <2>3. Grounded(disk'.ble \cup BleFailures', disk'.stuck, blamed', run', runs')
    BY <1>1, <2>1, <2>2, StillGrounded DEF Keeps, Warranted
  <2>4. Grounded(mem'.ble \cup BleFailures', mem'.stuck, blamed', run', runs')
    BY <1>1, <2>1, <2>2, StillGrounded DEF Keeps, Warranted, NewState
  <2> QED BY <2>3, <2>4 DEF Grounds
<1> QED BY <1>2, <1>3, <1>4, <1>5

\* A pass that has decided to reset goes on holding the evidence for it.
LEMMA EnoughStep ==
    ASSUME TypeOK, Room, Counting, Enough, [Next]_vars PROVE Enough'
<1> USE DEF Enough, pass
<1>1. CASE Environment \/ UNCHANGED vars
  <2>1. UNCHANGED <<mem, pc, plan, ready>>
    BY <1>1 DEF Environment, Tick, ConfigExit, OtherExit, AutoRestart, OperatorStart,
       OperatorReset, StartupExit, Reports, vars
  <2> QED BY <2>1
<1>2. CASE Crash \/ Reboot \/ Begin \/ Verified \/ TerminalStopVerified \/ TerminalStopTimesOut
  BY <1>2 DEF Crash, Reboot, Begin, Verified, TerminalStopVerified, TerminalStopTimesOut, PassOver
<1>3. CASE Observe
  <2>1. PICK S \in State, L \in Loaded :
           /\ L \in State /\ S = Observed(L)
           /\ mem' = IF Decision(S) = "latch" THEN Latched(S) ELSE S
           /\ plan' = Decision(S)
           /\ pc' = IF Decision(S) = "restart" THEN "restart" ELSE "save"
    BY <1>3, ObserveFacts
  <2>2. ready' = Ready
    BY <1>3 DEF Observe
  <2>3. Ready => S.ble = {} /\ Decision(S) = "none"
    BY <2>1, ObservedEvidence DEF Decision
  <2>4. Decision(S) = "recover" => Cardinality(S.ble) >= FailuresToReset
    BY DEF Decision
  <2>5. "none" # "latch" /\ "recover" # "latch"
    OBVIOUS
  <2> QED BY <2>1, <2>2, <2>3, <2>4, <2>5
<1>4. CASE RestartBridge
  BY <1>4 DEF RestartBridge, Goto, Room, Counting
<1>5. CASE Save
  BY <1>5 DEF Save, Goto, PassOver
<1>6. CASE Charge
  BY <1>6 DEF Charge, Goto, TypeOK, State
<1>7. CASE RecoverStops \/ RecoverWaits \/ BluetoothRestart \/ RecoverStarts \/ VerifyTimesOut
  <2>1. \/ mem'.ble = mem.ble /\ pc \in Recovering /\ pc' \in Recovering \cup {"cleanup", "stop"}
           /\ (pc' \in {"rwait", "rbt"} => pc \in {"rstop", "rwait"})
           /\ pc' \notin {"charge", "rstop"}
        \/ PassOver
    BY <1>7 DEF RecoverStops, RecoverWaits, BluetoothRestart, RecoverStarts, VerifyTimesOut,
       Goto, Fails, Latched, Recovering, TypeOK, State
  <2> QED BY <2>1 DEF PassOver, Recovering
<1>8. CASE Cleanup \/ TerminalStop
  BY <1>8 DEF Cleanup, TerminalStop, Goto, PassOver
<1> QED BY <1>1, <1>2, <1>3, <1>4, <1>5, <1>6, <1>7, <1>8 DEF Next, Pass

LEMMA InitWarranted == Init => Warranted
<1> SUFFICES ASSUME Init PROVE Warranted
  OBVIOUS
<1>1. /\ disk = NewState /\ mem = NewState /\ log = {} /\ blamed = {} /\ run = 1
      /\ runs = 1 /\ pc = "idle"
  BY DEF Init
<1>2. BleFailures = {} /\ NewState.ble = {} /\ Blames({}) = {}
  BY <1>1 DEF BleFailures, NewState, Blames
<1>3. Grounded({}, NewState.stuck, {}, run, runs)
  BY <1>2 DEF Grounded
<1>4. {} \cup {} = {}
  OBVIOUS
<1> QED BY <1>1, <1>2, <1>3, <1>4 DEF Warranted, Grounds, Enough

LEMMA WarrantedStep == IInv /\ Warranted /\ [Next]_vars => Warranted'
<1> SUFFICES ASSUME IInv, Warranted, [Next]_vars PROVE Warranted'
  OBVIOUS
<1>1. Grounds(disk)' /\ Grounds(mem)'
  BY GroundsStep DEF IInv
<1>2. Enough'
  BY EnoughStep DEF IInv, Warranted
<1>3. run' <= runs'
  BY Numbering DEF IInv, Warranted
<1> QED BY <1>1, <1>2, <1>3 DEF Warranted

\* No more evidence is held than there were failures.
LEMMA EvidenceBlamed ==
    ASSUME TypeOK, Grounds(mem)
    PROVE  /\ Cardinality(mem.ble) \in Nat /\ Cardinality(blamed) \in Nat
           /\ Cardinality(mem.ble) <= Cardinality(blamed)
<1> DEFINE E == mem.ble
           f == [x \in E |-> <<x.run, x.copy>>]
<1>1. Grounded(E \cup BleFailures, mem.stuck, blamed, run, runs)
  BY DEF Grounds
<1>2. \A x \in E : <<x.run, x.copy>> \in blamed
  BY <1>1 DEF Grounded, Blames
<1>3. \A x, y \in E : x.run = y.run /\ x.copy = y.copy => x = y
  BY <1>1 DEF Grounded
<1>4. f \in [E -> blamed]
  BY <1>2
<1>5. f \in Injection(E, blamed)
  BY <1>3, <1>4 DEF Injection, IsInjective
<1>6. IsFiniteSet(blamed)
  <2>1. IsFiniteSet(1..MaxRuns) /\ IsFiniteSet(0..FailuresToReset)
    BY Settings, FS_Interval
  <2>2. IsFiniteSet((1..MaxRuns) \X (0..FailuresToReset))
    BY <2>1, FS_Product
  <2> QED BY <2>2, FS_Subset DEF TypeOK
<1>7. IsFiniteSet(E) /\ Cardinality(E) <= Cardinality(blamed)
  BY <1>5, <1>6, FS_Injection
<1> QED BY <1>6, <1>7, FS_CardinalityType

\* Bluetooth is only reset on enough BLE failures since a ready bridge was
\* last recorded, each of them counted once: neither an unreadable file, a
\* crash between two steps nor a bridge seen stuck twice makes them more.
THEOREM ResetsAreJustified == Spec => ResetJustified
<1>1. ASSUME IInv, Warranted, [Next]_vars
      PROVE  [bt' > bt => Cardinality(blamed) >= FailuresToReset]_vars
  <2> SUFFICES ASSUME bt' > bt PROVE Cardinality(blamed) >= FailuresToReset
    OBVIOUS
  <2>1. pc = "rbt"
    BY <1>1, OneRestart DEF IInv, BluetoothRestart
  <2>2. Cardinality(mem.ble) >= FailuresToReset
    BY <1>1, <2>1 DEF Warranted, Enough
  <2>3. /\ Cardinality(mem.ble) \in Nat /\ Cardinality(blamed) \in Nat
        /\ Cardinality(mem.ble) <= Cardinality(blamed)
    BY <1>1, EvidenceBlamed DEF IInv, Warranted
  <2> QED BY <2>2, <2>3, SettingsAssumption
<1> QED
  BY <1>1, InitWarranted, WarrantedStep, SupervisorInvariant, PTL DEF Spec, ResetJustified

=============================================================================
