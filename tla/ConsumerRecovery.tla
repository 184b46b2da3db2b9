-------------------------- MODULE ConsumerRecovery --------------------------
(***************************************************************************)
(* The RecoveryManager of one config entry                                 *)
(* (src/custom_components/casambi_mqtt/recovery.py): the verdicts of       *)
(* consumer probes lead to reloads of the entry, limited by a budget that  *)
(* is stored, and to the recovery_failed latch with its repair issue.      *)
(*                                                                         *)
(* One event loop runs everything, so an action is what a task does        *)
(* between two awaits; hass.async_create_task starts a task at once.  The  *)
(* saves of the tasks wait for each other in the lock of the Store.        *)
(***************************************************************************)
EXTENDS Integers, FiniteSets, Sequences

CONSTANTS
    MaxReloads, Window,     \* budget of reloads
    Cooldown,               \* time between two of them
    Confirm, MaxGap,        \* time between the two proofs of a stale consumer
    WallSteps,              \* steps the wall clock may make
    MaxNow,                 \* bound: clock
    MaxOffset,              \* bound: what the steps of the wall clock add up to
    MaxQueue                \* bound: saves under way but those of the recovery

ASSUME BudgetAssumption ==
    /\ MaxReloads \in Nat \ {0} /\ Window \in Nat /\ Cooldown \in Nat
    /\ Confirm \in Nat /\ MaxGap \in Nat
ASSUME ClockAssumption ==
    /\ WallSteps \in SUBSET Int
    /\ MaxNow \in Nat /\ MaxOffset \in Nat /\ MaxQueue \in Nat \ {0}

VARIABLES
    now,        \* the monotonic clock
    offset,     \* the wall clock less the monotonic one
    entry,      \* the config entry
    proved,     \* a consumer probe has succeeded since the entry was set up
    lastStale,  \* when the streak's first stale proof was recorded (or Never)
    inProgress, \* in_progress
    failed,     \* the recovery_failed latch
    reloads,    \* the reloads charged, with their wall clock stamps
    task,       \* where _async_recover stands
    queue,      \* the saves that hold or await the lock of the Store
    writing,    \* what the first of them writes ({}: nothing)
    data,       \* what the next one will write ({}: nothing)
    disk,       \* the stored file
    issue,      \* the repair issue exists
    charges,    \* reloads ever charged; history
    reloaded,   \* automatic reloads that were started, with their time; history
    proofs      \* recent stale proofs nothing has contradicted; history

store   == <<queue, writing, data, disk>>
history == <<charges, reloaded, proofs>>
vars    == <<now, offset, entry, proved, lastStale, inProgress, failed,
             reloads, task, store, issue, history>>

Times  == 0..MaxNow
Never  == -1
\* A charge has a number because two of them may have the same stamp.
Stamp  == [n : Nat, wall : Int]
Stored == [reloads : SUBSET Stamp, failed : BOOLEAN]
NoFile == [reloads |-> {}, failed |-> FALSE]

\* Saves by what follows them: the reload; the end of a recovery, with the
\* latch or without; the issue of a latch alone; the end of the issue; nothing.
OfRecovery == {"charge", "giveup", "end"}
Saves      == OfRecovery \cup {"latch", "heal", "ack", "cancelled"}

TypeOK ==
    /\ now \in Times /\ offset \in (-MaxOffset)..MaxOffset
    /\ entry \in {"loaded", "reloading", "down", "removed"}
    /\ proved \in BOOLEAN /\ lastStale \in Times \cup {Never}
    /\ inProgress \in BOOLEAN /\ failed \in BOOLEAN /\ issue \in BOOLEAN
    /\ reloads \in SUBSET Stamp /\ IsFiniteSet(reloads)
    /\ Cardinality(reloads) <= MaxReloads
    /\ task \in {"off", "charging", "reloading", "verifying", "closing"}
    /\ inProgress = (task # "off")
    /\ queue \in Seq(Saves) /\ Len(queue) <= MaxQueue + 1
    /\ writing \in SUBSET Stored /\ data \in SUBSET Stored
    /\ disk \in Stored
    /\ charges \in Nat /\ proofs \in SUBSET Times
    /\ reloaded \in SUBSET [n : Nat, t : Times] /\ IsFiniteSet(reloaded)

Init ==
    /\ now = 0 /\ offset = 0
    /\ entry = "loaded" /\ proved = FALSE
    /\ lastStale = Never /\ inProgress = FALSE /\ failed = FALSE
    /\ reloads = {} /\ task = "off"
    /\ queue = <<>> /\ writing = {} /\ data = {} /\ disk = NoFile
    /\ issue = FALSE
    /\ charges = 0 /\ reloaded = {} /\ proofs = {}

----------------------------------------------------------------------------
(* Clocks and the Store                                                    *)

Wall == now + offset

\* A save takes no time to speak of: time passes between saves only.
Tick ==
    /\ now < MaxNow /\ queue = <<>>
    /\ now' = now + 1
    /\ UNCHANGED <<offset, entry, proved, lastStale, inProgress, failed,
                   reloads, task, store, issue, history>>

WallClockSteps ==
    /\ \E s \in WallSteps :
          /\ offset + s \in (-MaxOffset)..MaxOffset
          /\ offset' = offset + s
    /\ UNCHANGED <<now, entry, proved, lastStale, inProgress, failed, reloads,
                   task, store, issue, history>>

CanSave == Len(queue) < MaxQueue

\* _async_save up to its await: what is to be written replaces what waits to
\* be; the first in the queue has already taken its part.
Save(kind, r, f) ==
    LET d == {[reloads |-> r, failed |-> f]} IN
    /\ queue' = Append(queue, kind)
    /\ IF queue = <<>> THEN writing' = d /\ UNCHANGED data
                       ELSE data' = d /\ UNCHANGED writing
    /\ UNCHANGED disk

Reloads(kind) == kind = "charge"
Started(kind) == IF Reloads(kind) THEN {[n |-> charges, t |-> now]} ELSE {}
Ends(kind)    == kind \in {"giveup", "end"}
Latches(kind) == kind \in {"latch", "giveup"}

\* Mutant: async_mark_healthy does not delete the issue.
RelievesAck(kind) == kind = "ack"

Relieves(kind) == kind \in {"heal", "ack"}

\* Mutant: in_progress is reset after a verification only.
AfterWithoutFinally(kind) ==
    /\ task' = IF Reloads(kind) THEN "reloading"
               ELSE IF kind = "end" THEN "off" ELSE task
    /\ inProgress' = (inProgress /\ kind # "end")
    /\ entry' = IF Reloads(kind) THEN "reloading" ELSE entry
    /\ reloaded' = reloaded \cup Started(kind)
    /\ issue' = ((issue \/ Latches(kind)) /\ ~Relieves(kind))

\* What a task does once its save has returned.
After(kind) ==
    /\ task' = IF Reloads(kind) THEN "reloading"
               ELSE IF Ends(kind) THEN "off" ELSE task
    /\ inProgress' = (inProgress /\ ~Ends(kind))
    /\ entry' = IF Reloads(kind) THEN "reloading" ELSE entry
    /\ reloaded' = reloaded \cup Started(kind)
    /\ issue' = ((issue \/ Latches(kind)) /\ ~Relieves(kind))

\* The first save is done; the next one takes the lock, and what there is to
\* write, if no other save has written it.  A cancelled one may still write.
Written ==
    /\ queue # <<>>
    /\ disk' \in IF writing = {} \/ Head(queue) = "cancelled"
                 THEN {disk} \cup writing ELSE writing
    /\ queue' = Tail(queue)
    /\ writing' = data /\ data' = {}
    /\ After(Head(queue))
    /\ UNCHANGED <<now, offset, proved, lastStale, failed, reloads, charges,
                   proofs>>

----------------------------------------------------------------------------
(* Requests                                                                *)

Recent == {r \in reloads : Wall - r.wall < Window}

\* Mutant: one reload more than the budget allows.
BudgetUsedLate == Cardinality(Recent) > MaxReloads

BudgetUsed == Cardinality(Recent) >= MaxReloads

\* Mutant: the cooldown is not looked at.
CoolingNever == FALSE

Cooling == \E r \in Recent : Wall - r.wall < Cooldown

Charged == [n |-> charges + 1, wall |-> Wall]

\* Mutant: stamps that have left the window are kept.
ChargeAll ==
    /\ inProgress' = TRUE /\ task' = "charging"
    /\ reloads' = reloads \cup {Charged} /\ charges' = charges + 1
    /\ Save("charge", reloads', failed)
    /\ UNCHANGED <<entry, failed, reloaded>>

\* _async_recover up to its first await: the reload is charged and saved.
Charge ==
    /\ inProgress' = TRUE /\ task' = "charging"
    /\ reloads' = Recent \cup {Charged} /\ charges' = charges + 1
    /\ Save("charge", reloads', failed)
    /\ UNCHANGED <<entry, failed, reloaded>>

\* _async_latch outside a recovery.
LatchAlone ==
    /\ CanSave
    /\ failed' = TRUE
    /\ Save("latch", reloads, TRUE)
    /\ UNCHANGED <<entry, inProgress, reloads, task, charges, reloaded>>

Refuse ==
    UNCHANGED <<entry, inProgress, failed, reloads, task, store, charges, reloaded>>

RequestRecovery ==
    IF inProgress \/ failed THEN Refuse
    ELSE IF BudgetUsed THEN LatchAlone
    ELSE IF Cooling THEN Refuse
    ELSE Charge

----------------------------------------------------------------------------
(* Results of consumer probes, while the entry is loaded                   *)

\* async_mark_healthy, started if there is a streak or a latch to end.
ProbeOk ==
    /\ entry = "loaded"
    /\ proved' = TRUE /\ lastStale' = Never /\ proofs' = {}
    /\ IF failed
         THEN /\ CanSave
              /\ failed' = FALSE
              /\ Save("heal", reloads, FALSE)
         ELSE UNCHANGED <<failed, store>>
    /\ UNCHANGED <<now, offset, entry, inProgress, reloads, task, issue, charges,
                   reloaded>>

\* Neither healthy nor stale, or stale while the bridge is not healthy.  (A
\* busy or superseded probe changes nothing here.)
ProbeSaysNothing ==
    /\ entry = "loaded"
    /\ lastStale' = Never /\ proofs' = {}
    /\ UNCHANGED <<now, offset, entry, proved, inProgress, failed, reloads,
                   task, store, issue, charges, reloaded>>

StartsStreak == lastStale = Never \/ now - lastStale > MaxGap

\* Mutant: the second proof may come at once.
ConfirmedAtOnce == ~StartsStreak

Confirmed == ~StartsStreak /\ now - lastStale >= Confirm

\* record_stale, and the request it leads to.
ProbeStale ==
    /\ entry = "loaded"
    /\ proofs' = {t \in proofs \cup {now} : now - t <= MaxGap}
    /\ IF Confirmed
         THEN lastStale' = Never /\ RequestRecovery
         ELSE lastStale' = (IF StartsStreak THEN now ELSE lastStale) /\ Refuse
    /\ UNCHANGED <<now, offset, proved, issue>>

----------------------------------------------------------------------------
(* The recovery: reload, then verify                                       *)

\* _async_latch within a recovery.
GiveUp ==
    /\ failed' = TRUE /\ task' = "closing"
    /\ Save("giveup", reloads, TRUE)

\* async_reload returned False or raised.
ReloadFails ==
    /\ task = "reloading"
    /\ entry' \in {"loaded", "down"} /\ proved' = FALSE
    /\ GiveUp
    /\ UNCHANGED <<now, offset, lastStale, inProgress, reloads, issue, history>>

ReloadDone ==
    /\ task = "reloading"
    /\ entry' = "loaded" /\ proved' = FALSE
    /\ task' = "verifying"
    /\ UNCHANGED <<now, offset, lastStale, inProgress, failed, reloads, store,
                   issue, history>>

VerifyOk ==
    /\ task = "verifying"
    /\ entry = "loaded" /\ proved
    /\ lastStale' = Never
    /\ task' = "closing"
    /\ Save("end", reloads, failed)
    /\ UNCHANGED <<now, offset, entry, proved, inProgress, failed, reloads,
                   issue, history>>

\* The deadline: no probe succeeded, or a light is not available again.
VerifyFails ==
    /\ task = "verifying"
    /\ \/ BudgetUsed /\ GiveUp
       \/ /\ ~BudgetUsed
          /\ task' = "closing"
          /\ Save("end", reloads, failed)
          /\ UNCHANGED failed
    /\ UNCHANGED <<now, offset, entry, proved, lastStale, inProgress, reloads,
                   issue, history>>

----------------------------------------------------------------------------
(* People and Home Assistant                                               *)

\* Changed options, a reload or a retried setup; not during another reload.
SetUpAgain ==
    /\ entry \in {"loaded", "down"}
    /\ entry' \in {"loaded", "down"} /\ proved' = FALSE
    /\ UNCHANGED <<now, offset, lastStale, inProgress, failed, reloads, task,
                   store, issue, history>>

\* The fix flow of the repair issue is confirmed.
Acknowledge ==
    /\ issue /\ entry # "removed" /\ CanSave
    /\ failed' = FALSE /\ lastStale' = Never
    /\ Save("ack", reloads, FALSE)
    /\ UNCHANGED <<now, offset, entry, proved, inProgress, reloads, task,
                   issue, history>>

\* async_load; the issue does not survive a restart and comes back with it.
Load(d) == reloads' = d.reloads /\ failed' = d.failed /\ issue' = d.failed

\* Home Assistant stops or dies, perhaps while it writes, and is started.
Restart ==
    /\ entry # "removed"
    /\ \E d \in {disk} \cup writing : disk' = d /\ Load(d)
    /\ queue' = <<>> /\ writing' = {} /\ data' = {}
    /\ inProgress' = FALSE /\ task' = "off"
    /\ entry' \in {"loaded", "down"} /\ proved' = FALSE
    /\ lastStale' = Never /\ proofs' = {}
    /\ UNCHANGED <<now, offset, charges, reloaded>>

\* async_remove: the recovery is cancelled, the file and the issue go; other
\* saves go on.
Remove ==
    /\ entry \in {"loaded", "down"}
    /\ entry' = "removed" /\ proved' = FALSE
    /\ inProgress' = FALSE /\ task' = "off"
    /\ issue' = FALSE /\ disk' = NoFile
    /\ queue' = [i \in DOMAIN queue |->
                    IF queue[i] \in OfRecovery THEN "cancelled" ELSE queue[i]]
    /\ UNCHANGED <<now, offset, lastStale, failed, reloads, writing, data, history>>

----------------------------------------------------------------------------
Next ==
    \/ Tick \/ WallClockSteps \/ Written
    \/ ProbeOk \/ ProbeSaysNothing \/ ProbeStale
    \/ ReloadFails \/ ReloadDone \/ VerifyOk \/ VerifyFails
    \/ SetUpAgain \/ Acknowledge \/ Restart \/ Remove

Spec == Init /\ [][Next]_vars

\* A write, a reload and a verification (by its deadline) come to an end.
Fairness ==
    /\ WF_vars(Written)
    /\ WF_vars(ReloadFails \/ ReloadDone)
    /\ WF_vars(VerifyFails \/ VerifyOk)

FairSpec == Spec /\ Fairness

----------------------------------------------------------------------------
(* Properties                                                              *)

\* In any period of Window at most MaxReloads automatic reloads are started,
\* over restarts, acknowledgements and user reloads (RECOVERY_WINDOW_SECONDS,
\* "a clock change can only make the budget stricter").
ReloadBudget ==
    \A c \in reloaded :
        Cardinality({d \in reloaded : d.t <= c.t /\ c.t - d.t < Window}) <= MaxReloads

\* Two automatic reloads are at least the configured cooldown apart
\* (health_recovery_cooldown_seconds).
CooldownHolds ==
    \A c, d \in reloaded : c.n < d.n => d.t - c.t >= Cooldown

\* A reload is started only once its charge is stored ("a crash halfway
\* through can never hand out a free extra reload").
ChargedFirst ==
    [][reloaded' # reloaded
       => \A c \in reloaded' \ reloaded :
              disk'.reloads = reloads' /\ \E r \in reloads' : r.n = c.n]_vars

\* What a recovery starts from: an earlier stale proof, not too recent and not
\* too old, of the same Home Assistant run, that no later result contradicts.
TwoProofs ==
    [][inProgress' /\ ~inProgress
       => \E t \in proofs : Confirm <= now - t /\ now - t <= MaxGap]_vars

\* No reload is started while the latch is set or a person could still be
\* asked to acknowledge it ("none until acknowledged").
LatchHolds == [][reloaded' # reloaded => ~failed /\ ~issue]_vars

\* With no save under way the latch, its repair issue and the stored latch
\* agree, whatever latched, healed, acknowledged and restarted in between.
Consistent ==
    queue = <<>> /\ entry # "removed"
        => issue = failed /\ disk = [reloads |-> reloads, failed |-> failed]

\* A recovery comes to an end, so that the next fault can be recovered.
RecoveryEnds == inProgress ~> ~inProgress
=============================================================================
