--------------------------- MODULE StaleDetection ---------------------------
(***************************************************************************)
(* From a stuck consumer to a request for its recovery: the schedule of    *)
(* the probes (HealthObserver.tick, schedule and start_probe in            *)
(* custom_components/casambi_mqtt/health.py), what their results do        *)
(* (HealthCoordinator and RecoveryManager.record_stale in recovery.py),    *)
(* and the reload and verification that start probes of their own.         *)
(*                                                                         *)
(* Time is counted in ticks of the observer (TICK_SECONDS), which is how   *)
(* often a verification polls as well (VERIFY_POLL_SECONDS).  How a probe  *)
(* comes to its result is in ConsumerProbe, how a request is answered and  *)
(* what it costs in ConsumerRecovery; here both are choices.               *)
(***************************************************************************)
EXTENDS Integers, FiniteSetsExt

CONSTANTS
    StatusInterval,     \* probe_interval_seconds
    ConsumerInterval,   \* consumer_probe_interval_seconds
    Deadline,           \* probe_deadline_seconds
    Grace,              \* startup_grace_seconds
    Confirm,            \* stale_confirm_seconds
    VerifyTime,         \* how long _async_verify tries
    Spacing,            \* VERIFY_PROBE_SPACING_SECONDS
    MaxLate             \* bound: how late a probe is noted to be

\* SETTING_RANGES has the shortest interval at 300 s, the longest deadline at
\* 120 s; a verification takes at least Grace, Deadline and 60 s.  Probes of a
\* verification are further apart than a probe takes, by more than a tick: true of
\* 30 s and deadlines of up to 20 s, the default; with one of more than 30 s a
\* status probe may wait for the end of the verification.  MaxLate is beyond what
\* NeitherStarves allows.
ASSUME SettingsAssumption ==
    /\ {StatusInterval, ConsumerInterval, Deadline, Grace, Confirm, Spacing} \subseteq Nat \ {0}
    /\ StatusInterval > 2 * Deadline /\ ConsumerInterval > 2 * Deadline
    /\ VerifyTime \in Nat /\ VerifyTime >= Grace + Deadline
    /\ Spacing > Deadline + 1
    /\ MaxLate \in Nat /\ MaxLate > 2 * (Deadline + 1)

VARIABLES
    due,        \* _next_due, as the time that is left; negative is overdue
    pending,    \* the kind of the pending probe, "none" without one
    left,       \* time to its deadline
    lastOk,     \* a consumer probe has succeeded since the entry was set up
    loaded,     \* the entry is set up
    healthy,    \* the bridge is healthy, and the platforms are ready
    stuck,      \* the consumer handles nothing
    streak,     \* stale_streak
    age,        \* time since last_stale_at
    recovery,   \* "none", "reloading" or "verifying"
    verify,     \* time left for the verification
    spacing,    \* time since its last probe
    ticked,     \* the observer has ticked since time last passed
    polled,     \* the verification has polled since then
    held,       \* history: how long a consumer probe could have started
    calm,       \* history: how long nothing but the consumer has been wrong, since
                \* the last recovery that was verified
    busy        \* history: the bridge was busy once in that time

observer == <<due, pending, left, lastOk>>
entry == <<loaded, healthy, stuck>>
manager == <<streak, age, recovery, verify, spacing>>
clock == <<ticked, polled, held>>
fault == <<calm, busy>>
vars == <<observer, entry, manager, clock, fault>>

Kinds == {"status", "consumer"}
Interval(k) == IF k = "status" THEN StatusInterval ELSE ConsumerInterval

\* Mutant: no room for a busy bridge between the proofs.
MaxGapShort == Confirm + Deadline

MaxGap == 3 * Confirm + Deadline + ConsumerInterval

Init ==
    /\ due = [k \in Kinds |-> Grace] /\ pending = "none" /\ left = 0 /\ lastOk = FALSE
    /\ loaded = TRUE /\ healthy = FALSE /\ stuck \in BOOLEAN
    /\ streak = 0 /\ age = 0 /\ recovery = "none" /\ verify = 0 /\ spacing = Spacing
    /\ ticked = FALSE /\ polled = TRUE /\ held = 0
    /\ calm = 0 /\ busy = FALSE

----------------------------------------------------------------------------
(* Results: HealthCoordinator._on_probe_result.  "other" is every outcome  *)
(* that says nothing of a stuck consumer, "none" that no consumer probe    *)
(* has ended.                                                              *)

Proof(o) == o = "consumer_stale" /\ healthy
StartsStreak == streak = 0 \/ age > MaxGap

\* record_stale
First(o) == Proof(o) /\ StartsStreak
Confirmed(o) == Proof(o) /\ ~StartsStreak /\ age >= Confirm

\* Mutant: the probe is put off instead of brought forward.
DueAfterPutOff(o) ==
    IF Proof(o) /\ ~Confirmed(o) THEN [due EXCEPT !["consumer"] = @ + Confirm] ELSE due

\* The next consumer probe, after a proof that does not yet suffice.
DueAfter(o) ==
    IF Proof(o) /\ ~Confirmed(o) THEN [due EXCEPT !["consumer"] = Confirm] ELSE due

\* request_recovery is called, and starts a recovery or refuses to.
Requests ==
    recovery' \in IF recovery = "none" THEN {"none", "reloading"} ELSE {recovery}

Notice(o) ==
    /\ streak' = CASE First(o) -> 1
                   [] Confirmed(o) \/ o \in {"ok", "other"} -> 0
                   [] o = "consumer_stale" /\ ~healthy -> 0
                   [] OTHER -> streak
    /\ age' = IF First(o) THEN 0 ELSE age
    /\ IF Confirmed(o) THEN Requests ELSE UNCHANGED recovery
    /\ lastOk' = (lastOk \/ o = "ok")
    /\ IF Confirmed(o) \/ o \in {"ok", "other"} \/ (o = "bridge_busy" /\ busy)
       THEN calm' = 0 /\ busy' = FALSE
       ELSE calm' = calm /\ busy' = (busy \/ o = "bridge_busy")

\* What a probe may come to once its deadline has passed, and before.
Expiry ==
    CASE pending = "none" \/ left >= 0 -> {}
      [] pending = "status" -> {"none"}
      [] pending = "consumer" -> {"consumer_stale", "other"}
Answer ==
    CASE pending = "none" \/ left < 0 -> {}
      [] pending = "status" -> {"none"}
      [] pending = "consumer" -> {"ok", "bridge_busy", "other"}

----------------------------------------------------------------------------
(* HealthObserver                                                          *)

Start(k, d) ==
    /\ pending' = k /\ left' = Deadline
    /\ due' = [d EXCEPT ![k] = Interval(k)]
    /\ held' = IF k = "consumer" THEN 0 ELSE held

NoStart(d) ==
    /\ pending' = "none" /\ left' = 0 /\ due' = d
    /\ UNCHANGED held

\* A reply, a status of another process or a unit message ends the probe.
ProbeEnds ==
    /\ loaded
    /\ \E o \in Answer \union Expiry : Notice(o) /\ NoStart(DueAfter(o))
    /\ UNCHANGED <<entry, verify, spacing, ticked, polled>>

\* The kinds that tick may start, and the one it does: the most overdue first.
Runnable(d) == {k \in Kinds : d[k] <= 0 /\ (k = "consumer" => healthy)}
MostOverdue(d) ==
    IF Runnable(d) = Kinds /\ d["status"] > d["consumer"] THEN "consumer"
    ELSE IF "status" \in Runnable(d) THEN "status" ELSE "consumer"

\* Mutant: a consumer probe that may not start ends the search.
StartDueOrReturn(d) ==
    IF Runnable(d) # {} /\ (d["consumer"] < d["status"] => healthy)
    THEN Start(MostOverdue(d), d) ELSE NoStart(d)

StartDue(d) ==
    IF Runnable(d) # {} THEN Start(MostOverdue(d), d) ELSE NoStart(d)

Tick ==
    /\ loaded /\ ~ticked
    /\ ticked' = TRUE
    /\ IF pending # "none" /\ left >= 0
       THEN UNCHANGED <<observer, streak, age, recovery, held, fault>>
       ELSE \E o \in IF pending = "none" THEN {"none"} ELSE Expiry :
               Notice(o) /\ StartDue(DueAfter(o))
    /\ UNCHANGED <<entry, verify, spacing, polled>>

----------------------------------------------------------------------------
(* The recovery, and other ways to set the entry up                        *)

\* A new observer, whose probes wait for the grace to pass.
NewObserver ==
    /\ due' = [k \in Kinds |-> Grace] /\ pending' = "none" /\ left' = 0
    /\ lastOk' = FALSE /\ healthy' = FALSE /\ stuck' \in BOOLEAN
    /\ ticked' = TRUE /\ held' = 0 /\ calm' = 0 /\ busy' = FALSE

\* The reload of a recovery, and the start of its verification.
Reload ==
    /\ recovery = "reloading"
    /\ NewObserver
    /\ \/ loaded' = TRUE /\ recovery' = "verifying"
       \/ loaded' = FALSE /\ recovery' = "none"
    /\ verify' = VerifyTime /\ spacing' = Spacing /\ polled' = FALSE
    /\ UNCHANGED <<streak, age>>

\* A reload by the user, which leaves the manager as it is.
SetUp ==
    /\ recovery # "reloading"
    /\ NewObserver /\ loaded' = TRUE
    /\ UNCHANGED <<manager, polled>>

\* An iteration of _async_verify: it is too late, the entry is verified, a
\* probe is started, or nothing.
Poll ==
    /\ recovery = "verifying" /\ ~polled
    /\ polled' = TRUE
    /\ IF verify <= 0
       THEN recovery' = "none" /\ UNCHANGED <<observer, streak, spacing, held, fault>>
       ELSE \/ /\ loaded /\ lastOk
               /\ recovery' = "none" /\ streak' = 0 /\ calm' = 0 /\ busy' = FALSE
               /\ UNCHANGED <<observer, spacing, held>>
            \/ /\ UNCHANGED <<recovery, streak, fault>>
               /\ IF loaded /\ pending = "none" /\ healthy /\ spacing >= Spacing
                  THEN Start("consumer", due) /\ spacing' = 0 /\ UNCHANGED lastOk
                  ELSE UNCHANGED <<observer, spacing, held>>
    /\ UNCHANGED <<entry, age, verify, ticked>>

\* The operator acknowledges a failed recovery: the streak starts over.
Acknowledge ==
    /\ streak' = 0 /\ calm' = 0 /\ busy' = FALSE
    /\ UNCHANGED <<observer, entry, age, recovery, verify, spacing, clock>>

----------------------------------------------------------------------------
(* The bridge, the consumer and time                                       *)

Change ==
    /\ \/ healthy' = ~healthy /\ UNCHANGED stuck
       \/ stuck' = ~stuck /\ UNCHANGED healthy
    /\ held' = 0 /\ calm' = 0 /\ busy' = FALSE
    /\ UNCHANGED <<observer, loaded, manager, ticked, polled>>

TimePasses ==
    /\ (loaded => ticked) /\ (recovery = "verifying" => polled)
    /\ ticked' = FALSE /\ polled' = FALSE
    /\ due' = IF loaded THEN [k \in Kinds |-> Max({due[k] - 1, -MaxLate})] ELSE due
    /\ left' = IF pending = "none" THEN 0 ELSE Max({left - 1, -1})
    /\ age' = IF streak = 0 THEN 0 ELSE Min({age + 1, MaxGap + 1})
    /\ verify' = IF recovery = "verifying" THEN Max({verify - 1, 0}) ELSE 0
    /\ spacing' = Min({spacing + 1, Spacing})
    /\ held' = IF loaded /\ healthy /\ due["consumer"] <= 0 THEN held + 1 ELSE 0
    /\ calm' = IF loaded /\ healthy /\ stuck THEN calm + 1 ELSE 0
    /\ UNCHANGED <<pending, lastOk, entry, streak, recovery, busy>>

Next ==
    \/ ProbeEnds \/ Tick \/ Reload \/ SetUp \/ Poll \/ Acknowledge \/ Change \/ TimePasses

Spec == Init /\ [][Next]_vars

----------------------------------------------------------------------------
(* Properties                                                              *)

TypeOK ==
    /\ due \in [Kinds -> -MaxLate..Max({Grace, Confirm, StatusInterval, ConsumerInterval})]
    /\ pending \in Kinds \union {"none"} /\ left \in -1..Deadline
    /\ {lastOk, loaded, healthy, stuck, ticked, polled, busy} \subseteq BOOLEAN
    /\ streak \in {0, 1} /\ age \in 0..MaxGap + 1
    /\ recovery \in {"none", "reloading", "verifying"}
    /\ verify \in 0..VerifyTime /\ spacing \in 0..Spacing
    /\ held \in Nat /\ calm \in Nat

\* "Neither probe kind can starve the other": a consumer probe is started at
\* most a probe after it is due behind a healthy bridge, and a status probe at
\* most two probes after it is due, be the bridge healthy or not: one that was
\* more overdue, and one that a verification starts before the observer ticks.
NeitherStarves ==
    /\ due["status"] >= -2 * (Deadline + 1)
    /\ held <= Deadline + 1

\* A stuck consumer behind a healthy bridge is detected: within the time its
\* next probe may be due in, another interval and two confirmations, and the
\* time for three consumer probes with a status probe before two of them, its
\* recovery is requested, although status probes get no reply, a snapshot is
\* refused once because the bridge is busy, and a verification that fails starts
\* probes of its own, whose proof may come too early to confirm the first one.
\* Where a confirmation takes less time than two probes, the first proof may be
\* too old after the busy bridge, and two more are needed.
Lapse == IF Confirm < 2 * (Deadline + 1) THEN 2 * Confirm + 2 * (Deadline + 1) ELSE 0
DetectionTime ==
    Max({ConsumerInterval, Grace, Confirm}) + ConsumerInterval + 2 * Confirm
      + 5 * (Deadline + 1) + Lapse
DetectedInTime == calm <= DetectionTime
=============================================================================
