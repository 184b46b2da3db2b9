# TLA+ models of casambi-mqtt

casambi-mqtt carries the state of a Casambi Bluetooth lighting network to Home
Assistant through an MQTT broker. Most of its code is not about lights but about
staying alive and truthful: a bridge process that loses Bluetooth or the broker,
a root-owned supervisor that restarts it and at most a few times the whole
Bluetooth stack, and a Home Assistant integration that watches the bridge,
probes its own message path and may reload itself, within a budget. This
directory models those parts, checks them with TLC and proves what it can with
TLAPS. Every definition is translated from the source; `PROJECT.json` gives the
lines of each one.

## 1. The system

| component | where | state | operations |
|---|---|---|---|
| unit publishing | `server.py` `UnitStatePublisher`, `publish_snapshot`, `run_connected_bridge` | the queue of units to publish, one message in flight, two events, the failure streak; the broker's retained topics | submit, worker, baseline and commanded snapshot, registration, teardown (`aclose`), reconnection |
| bridge status | `server.py` `BridgeHealth`, `run_status_heartbeat` | instance id, sequence, phase; the retained status; the last will; the local health record | session start, heartbeat, snapshot result, final status, startup failure, replies |
| command processing | `server.py` `process_command` | rate-limit windows | SetLevel, TurnOn, SetScene, PUBLISH_ENTITIES, GET_STATUS |
| bridge process | `server.py` `run_startup_stage`, `run_bounded`, `_main`, `main`, `cli` | stage and attempt, deadlines, Bluetooth operations that have not ended, the disconnect event, exit status | discover, connect, retry, race of session and link, reconnect, release, exits 0/1/75/76/78/79, SIGTERM |
| switch events | `switch_decoder.py`, `server.py` `SwitchEventPublisher`, `__init__.py` `_async_process_switch_event` | records seen lately; 64 slots, deduplication window; last events, known buttons | decode, queue, publish, drain, deduplicate, store a button, fire |
| supervisor | `scripts/bridge_recovery.py` | `state.json`, `exits.json`; of a pass: its copy, the unit's view, its step | `run_once`: observe, decide, recover, restart, terminal stop; the exit hook; the operator reset |
| systemd units | `deploy/systemd` | ActiveState, main process | automatic restart, start limit, timer, start and stop jobs |
| health observer | `health.py`, `health_monitor.py` | `BridgeStatusTracker`, the pending probe and its evidence, due times | status, reply, raw message, handled message, tick, requested probe |
| consumer recovery | `recovery.py`, `repairs.py` | stale streak, in_progress, latch, charged reloads, the Store, the repair issue | stale and healthy verdicts, recovery task, latch, acknowledge, load, remove |
| integration | `__init__.py` and the platforms | entities, last messages | set-up, unload, unit, scene and switch processors |

How they interact: the library calls `unit_callback` in the bridge's event loop,
whose worker publishes to retained topics; a second worker publishes the presses
of physical switches, which are not retained, to be fired as events. Home
Assistant receives the units' topics twice, in the raw listener of the observer
and in the consumer (`event_processor`). The observer sends GET_STATUS and
PUBLISH_ENTITIES with a request id to the command topic and the bridge answers
on the reply topic; status goes through a retained topic of its own, and the
broker publishes the last will there when a connection is lost. A verdict
"consumer_stale" goes to `RecoveryManager`, which reloads the entry. On the host
the bridge writes a health record and its exit hook a log of startup exits; the
supervisor's timer reads both and calls systemctl.

What is hard: tasks that interleave at every await (worker, snapshot, session,
saves); a publish that times out and is delivered all the same; several writers
of one retained topic; last wills that arrive at the end of a keepalive;
crashes, reboots and restarts between two steps of a procedure that has already
stored half of what it does; files that cannot be read; budgets over windows of
a clock that steps; answers that belong to another request or another process;
Bluetooth operations that ignore their cancellation; a lost link that shows as
an MQTT error first; a stop at any await; one press that arrives as ten frames,
and two presses that look like one.
`PROJECT.json` lists these hazards at their lines with the properties aimed at
them.

## 2. Modules

| module | models | composition |
|---|---|---|
| `RetainedState` | abstract: a retained topic shows states the unit had, and moves forward but for replays, which leave it repaired unless the process ends in the middle of one | implemented by `UnitPublisher` |
| `UnitPublisher` | session, snapshots, coalescing worker, MQTT client and connections | `Refinement == Retained!Spec` |
| `Supervisor` | the recovery supervisor, with systemd, the bridge process and the operator as its environment | |
| `ConsumerRecovery` | `RecoveryManager`, its Store, issue and entry | |
| `BridgeStatus` | `BridgeHealth`, the broker, and `BridgeStatusTracker` at the other end | |
| `StaleDetection` | the schedule of the probes, the stale streak, the verification | results of probes and answers to requests are choices |
| `BridgeLifecycle` | abstract: the life of a bridge process and what its exit statuses promise | implemented by `BridgeProcess` |
| `BridgeProcess` | the main task of the bridge, from the first discovery to the exit status | `TruthfulExit == Lifecycle!Spec` |
| `SwitchEvents` | decoder, publisher, MQTT client and broker, the handler in Home Assistant | |
| `ConsumerProbe` | `HealthObserver` and `ProbeTracker`, the bridge that answers, the consumer they judge | statuses abstracted to "which process is live" |
| `*Proofs` | theorems about the module of that name | |
| `MC*` | instances for TLC | |

An action is what one task or process does between two points where another may
act (an await, a system call, a file that others write), with everything the
code does in between.

### UnitPublisher

A payload is the number of the state it carries, so "older" is a comparison.
`_main` makes one MQTT client for all sessions (`server.py:2098`). `wire` is what
that client holds unacknowledged, in order; `taken` counts how many of the first
the broker has stored on this connection, `Acknowledged` takes the oldest of
these away. A message stays after its publisher gave up (timeout, cancellation,
a connection that is dead), which is what makes requeueing delicate, and after
its connection is lost: `LinkDies` forgets what the broker has taken, so
`Connect` sends all of it again before anything new, and `old` counts that part
of the wire. `pending` and `value` are `_pending` with its insertion order,
`wakeup` and `idle` the two events, `flight` and `snap` the publishes that the
worker and a snapshot await. `phase` says where `run_connected_bridge` is: down,
baseline, announce (between the baseline and the live handler), live, ending,
closing (the drain of `aclose`). Between sessions the process may end (a BLE
loss, a stop), and `Restart` is the next one: its client holds nothing, so a
topic that a replay had put back stays there until the new baseline. History:
`newest`, `base`, and `best`, the newest state each topic showed with this
client. `RetainedState` keeps `best` too: a replay may put a topic back, and
ends only with every topic at its best again, or with its client.

### Supervisor

Processes of the bridge have numbers (for PID and instance id), stamps are clock
readings, sets replace lists: a reset is numbered by its charge, BLE evidence by
process. `run_once` is cut where it stores, calls systemctl or reads what others
write; load, record, consume, observe and decide do not wait for anything in
between and are one action, `Observe`, after `systemctl show` in `Begin`. A
crash may come between any two steps, and a reboot, an exit of the bridge,
systemd's own restart or a person may. `ReadFaults` lets a load of state.json
find it unreadable. The exit log holds startup exits (76 and 79) only; its caps
of 64 and 32 entries are not reached. The phases before the BLE connection are
one ("connecting"), those of a session but ready another ("connected"). The
start limit, failing and late systemctl calls are choices. The clock goes on
over a reboot and does not jump. An operator starts the unit at any time
(`manual`) and resets the supervisor when no pass runs. History: `charges`, `bt`,
`exits`, `blamed`.

### ConsumerRecovery

One loop; tasks run until their first await, which is always a save. The saves
queue at the lock of Home Assistant's `Store`, which writes the newest data it
was given; `queue` has one entry for each save with what its task does next.
`Next` has the verdicts of probes, the recovery task with its reload and
verification, the latch, the healthy mark, the acknowledgement, removal, user
reload, restart (memory lost, a write in flight may or may not land) and two
clocks: the monotonic one and a wall clock that steps (`WallSteps`). Time passes
only between saves. Saves succeed (the Store logs write errors and returns).
Recovery is enabled. Removal merges cancelling, unlinking and deleting the issue;
a save under way may still write. A probe that says "busy" changes nothing. A
reload by the user does not start while another runs. History: `charges`,
`reloaded`, `proofs`.

### BridgeStatus

Processes have numbers in the order they start; the tracker only compares them
for equality, like instance ids. `session` is "down", "connecting", "up" or
"dead" (lost, and neither end knows); a status published into a dead connection
stays with the client, which sends it, and the last one if its acknowledgement
was lost, again after reconnecting. `wills` are the processes whose lost
connection the broker has yet to notice; nothing bounds when it does. Two
sessions of the same client never hold one client id against each other: ids
are random. `retained`, `wire` and `linked` are the broker's side of Home
Assistant; `SetUp` is a new tracker (reload, restart). Heartbeats that are due,
and deliveries over a working connection, are not late by a unit of time, so
`HealsInTime` is a bounded property and needs no fairness. One protocol version;
unsupported ones only set a flag. History: `heard`, `calm`, `met`, `top`,
`stranger`. `stranger` says that a process older than the current one, which the
tracker had never met, was accepted: the one case in which the tracker goes
wrong (section 5), excused in `HealsInTime` and `NewestCounts`.

### ConsumerProbe

The broker delivers in order, so sending and receiving are one step, and a slow
message is one sent later. A request id that nothing carries any more is used
again. What is due at a tick is a choice, and so are the rate limits and whether
a reply, a command or a message of a snapshot is lost. A consumer probe starts
only when a bridge has been heard of (`healthy` needs a live status). The
consumer handles the messages it has received in any order (the callback is a
coroutine), rejects some, or is stuck; messages received outside a probe are not
kept. History: `ghost` and `ended`. A snapshot message that is lost on its way
may be stood in for by another message of that unit: `docs/health-protocol.md`
calls this "What remains uncorrelated", and `CertifiesSnapshot` excuses exactly
it (`lost`).

### StaleDetection

From a consumer that handles nothing to the call of `request_recovery`: `due` is
`_next_due`, counted down; `Tick` is `_on_tick`, whose result of an expired probe
may bring the next consumer probe forward before `tick` chooses what to start;
`ProbeEnds` is a message that ends a probe between ticks; `Poll` is an iteration
of `_async_verify`. `Reload` and `SetUp` make a new observer, and leave the
manager's streak. Results of a probe that say the same to the schedule are one
("other"); which of them comes, and whether a request is granted, are choices, as
`ConsumerProbe` and `ConsumerRecovery` have the details. Time is counted in
ticks, and a time that begins between two of them is rounded to one. History:
`calm` and `busy` (how long nothing but the consumer has been wrong, with the
bridge busy once at most, since the last proof, "ok" or verified recovery) and
`held`.

### BridgeProcess

One step is what the main task does between two awaits; `pc` names the await.
Time is left out: a deadline may pass or not while an operation runs, and the
budgets of `STARTUP_STAGE_BUDGET` and of single attempts are the same choice.
`run_bounded` gives each operation a task of its own, so `ops` is what still
runs, whoever waits for it; `wait` is "running", "unwinding" (cancelled for its
deadline, within `BLE_CANCEL_GRACE`), "stopping" (cancelled because its caller
was) or "done". `result` is what the operation, or the session, came to, and
`cause` the exception that is on its way out of `_main`. An operation that was
cancelled ends when it likes, or never. A session is one state here; its phases,
the status it publishes and the health record are in `UnitPublisher` and
`BridgeStatus`. `discard` and `drop` are the awaits of the cancelled loser of the
race, `unwind` the cleanup of a session. SIGTERM comes once, at any await, and
is a cancellation there, which the code may lose: suppressed with that of a task
it awaits, or replaced by the error of a session that has just failed or of the
client's exit. `LossHeard` is the callback, possible from the step in
which it is registered; a loss before that is not heard (section 5). The
listing mode of the command line ends after discovery and is left out. History:
`swallowed` (the stop was lost, see section 5) and `crashed`.

### SwitchEvents

What happens at a switch is an action with a number, not a packet: a control, a
phase, the `origin` that the frames of one action share, and the streams it is
reported on. A `Frame` of it arrives any number of times within `Spread`. The
unit of time is the 250 ms of the deduplication windows; ages are kept up to
where they stop to matter. An origin is used again only when the decoder may
have forgotten the earlier action. `__call__` puts an event into one of `Slots`
or counts it as dropped; `Take` skips a duplicate or hands the event to the MQTT
client; `unacked` is what that client keeps, also over a reconnection, and
`reached` what of it the broker has. QoS 1 may deliver twice. `PublishFails` is
the timeout of the publish, after which the message is still with the client.
`aclose` is `Unregister`, more steps of the worker, and `Close`, which discards
what is left. The decoder outlives sessions; nothing ever calls its `reset`. In
Home Assistant, a button heard for the first time is saved before its event
fires, and other events are handled meanwhile. Between sessions passes `Pause`
at least. Parsing of the byte stream (`parse_invocation_stream`) and the opcode
tables are not modelled. History: `heard`, `handed`, `discarded`, `again`,
`received`.

## 3. Runs

None takes longer than four minutes; a "violation" run is expected to fail.

| run | instance | what it shows |
|---|---|---|
| `publisher` | 2 units, 3 states each, 2 messages held by the client, symmetry | no newest state is lost (`NoUnitLost`), `idle` means drained, a snapshot reported ok is complete, `RetainedState` is implemented: topics go back only during a replay, and are repaired by its end unless the process ends before |
| `publisher_live` | 2 units, 2 states, 1 message | a waiting unit is published in the end, although others are submitted or fail for ever |
| `publisher_quiet` | | violation of `QuietMeansCurrent` |
| `supervisor` | 3 processes, 1 reset a unit of time and 2 in 2 units, unreadable files | budget, isolation of Bluetooth restarts, quiet latch, justified resets, exits counted once |
| `supervisor_live` | 2 processes, readable files | a pending terminal stop is kept until verified, and happens |
| `supervisor_lost` | | violation of `NothingLost` |
| `consumer_recovery` | 8 instants, window 5, cooldown 2, 2 reloads, clock set back by 2 | budget, cooldown, two proofs, agreement of latch, issue and file, and every recovery ends |
| `bridge_status` | 2 processes, 5 statuses each, 1 message on its way, heartbeat 1, stale 2 | healthy only on recent evidence, heals within a heartbeat, newest process counts, no status twice |
| `consumer_probe` | 2 units, 2 processes, deadline 1, 2 requests, 2 messages of a probe | "ok" certifies the snapshot, a diligent consumer is never blamed, one process per verdict |
| `stale_detection` | intervals 6 and 10 ticks, deadline 2, confirmation 6, verification 12 | neither kind of probe starves; the recovery of a stuck consumer is requested within a bound |
| `bridge_process` | 6 attempts, as in the code | `BridgeLifecycle` is implemented (`TruthfulExit`), one Bluetooth operation at a time, a stop is clean, a lost link ends the process, the startup comes to an end |
| `switch_events` | 2 actions out of 5, 1 slot, 2 sessions | an action fires once, and none is lost without a trace |

Why these bounds: two units are the least for one to starve, overtake or be
requeued behind another, and the third state lets a newer state arrive while the
second one is being requeued. `MaxWire` is what the client holds: two messages
are one of the worker and one of a snapshot for the same topic, sent again in
order after a reconnection, the least for a topic to go back and to be repaired.
On a live connection a full client makes the next publish wait; on a dead one it
keeps nothing beyond the bound, which is what the proofs have too, for every
bound. Three processes let the supervisor reset, see the result and act again,
with both budgets able to bind (1 in a short window, 2 in a long one; the unit
of time is the short window). In `consumer_recovery` the window is more than two
cooldowns, as in the code (600 s and 1800 s), so that it is the budget that
stops the third reload and not the cooldown. The settings of `stale_detection`
are in the order of size of the defaults (a probe is shorter than what separates
two of them anywhere, and an interval longer than two probes), but for the
verification: `SETTING_RANGES` allows one that is longer than the interval
between status probes, and only then does a status probe wait for two others,
the worst there is. `MaxLate` is beyond what `NeitherStarves` allows. Two
processes are needed for a status of the old one to meet the new one; five
statuses bring a session to ready, reconnect it and beat again. One message on
its way is enough to reorder, since late ones wait in `wills` and `unsent`; with
two processes the memory of retired ids cannot overflow (3 processes and a
memory of 1, where it does, were tried with the invariant of the proofs). A
probe with a deadline of one tick has messages before, at and after it; two
requests allow an answer to the earlier one to arrive. `bridge_process` has no
bound but the one in the code. In `switch_events` one slot overflows with the
second action; two actions are the least for one to be taken for the other, by
origin or by payload, and two sessions for a message to outlive one. That a
drained event is masked by a third action with its origin, published before it,
needs three actions and is not reached; the property allows it. Symmetry is over
units, which nothing tells apart, and only in runs of safety properties.
`consumer_recovery` switches the deadlock check off: a removed entry at the end
of time has no next step. All others check it.

Each property has a mutant in `PROJECT.json`: a definition changed as a plausible
slip would change the code (a requeue that is forgotten, a charge that is not
saved, topics compared instead of messages), for which the property fails.

### Fairness

- `UnitPublisher!FairSpec`: the loop runs ready tasks and the broker goes on
  storing and acknowledging for a connected client (WF of the two together, SF
  where a step may be disabled by a new message in flight); a unit that is
  published again and again is confirmed at last; the commands queued before a
  loss of the connection come to an end. Nothing is assumed about units,
  commands or stops.
- `Supervisor!FairSpec`: the timer fires every minute (WF of a pass's next step);
  passes may die at any step but not always at the same one, and systemd does
  not refuse or delay every stop (SF); a deactivating process exits, by SIGKILL
  if need be (`TimeoutStopSec`).
- `ConsumerRecovery!FairSpec`: a save is written, a reload returns, and the
  verification ends by its deadline.
- `BridgeProcess!FairSpec`: the loop runs the main task when what it awaits is
  over (WF of its steps), and timers fire (WF). Operations and sessions need not
  end. That SIGTERM comes is not assumed. A stop during an operation that ignores
  its cancellation waits for that operation in `asyncio.run`, so no property says
  that a stop ends the process.

`BridgeStatus`, `ConsumerProbe`, `StaleDetection` and `SwitchEvents` state safety
only: what must happen in the first and the third is bounded by a time.

## 4. Proofs

All theorems hold for every value of the constants that satisfies the modules'
assumptions. Each module's proof has an inductive invariant `IInv`, checked by
TLC before it was proved; one lemma for each conjunct, or for each action, says
that a step keeps it.

**`UnitPublisherProofs`.** `TypeCorrect`, `NothingLost`, `NewestWins`,
`ResendsRepair`, `Implements` (the refinement of `RetainedState`), `WakesUp`,
`DrainsCompletely`, `SnapshotsAreComplete`. `TypeCorrect` (`TypeOK`),
`NewestWins` (`NeverOlder`: topics go back only during a replay), `ResendsRepair`
(`Repaired`: not after it) and `WakesUp` (no lost wakeup) are in no run: the
second and the third are parts of the refinement, and what the fourth is for is
`WaitingIsPublished`. `IInv` = types, where the awaited messages are
(`Awaiting`), what the client holds (`WireInv`), the queue (`Queued`), and that
the newest state of a unit is queued, in flight or shown for good (`Newest`).
Neither `NeverOlder` nor `Repaired` is inductive. That a topic does not go back
depends on every message held being ordered for its unit (`Ordered`), also those
whose sender gave up; and that one that has gone back is repaired depends on no
message being held that is not followed by one as new as its topic ever showed
(`Followed`), in what is sent again as well as in all the client holds, since
that will be what is sent again next time. `Shown` says the same of the topics:
one is behind its best only while a message that repairs it is still to be
taken. "For good" is therefore an acknowledged message with nothing old before
it (`old = 0`), which `OkSnapshotIsComplete` and `IdleMeansDrained` rest on.
`Settled` adds what the two events say, and `Covered` what a running snapshot
has done: each unit is still to come, awaited, or shows a state that is new
enough.

**`SupervisorProofs`.** `SupervisorTypes`, `BudgetHolds`, `StopIsDurable`,
`NoDoubleCount`, `ResetsAreCharged`, `ResetsAlone`, `LatchedIsQuiet`,
`StopsAreVerified`, `ResetsAreJustified`. `IInv` says that every charge recent
enough to count is in state.json and in the memory of a pass that has read it
(`Kept`, `Remembered`), that a pass on its way to a reset still has room in both
budgets (`Room`), and what it has paid, latched and counted so far. For
`ResetsAreJustified` a second invariant, `Warranted`, says that the BLE evidence
that is stored, held or still in the log stands for failures that are blamed,
each of them once (`Grounds`): the process that runs has not ended before, and
one that is found stuck has not been found stuck before. So the evidence a pass
holds until it resets (`Enough`) maps one to one into the failures since a ready
bridge was recorded. `StopIsDurable` (a terminal stop is stored before it is
carried out) and `ResetsAreCharged` (so is the charge of a reset) are in no
run. `BudgetHolds` needs
`WindowsAssumption`: the short window is not longer than the long one and, if
the file can be unreadable, the healthy time that clears the fresh latch is at
least the long window. The defaults satisfy it; `Settings.from_env` does not
validate it. `StopsAreVerified` assumes `~ReadFaults`.

**`ConsumerRecoveryProofs`.** `RecoveryInvariant`, `RecoveryTypes`,
`LatchIsConsistent`, `LatchIsHeld`, `ReloadsAreCharged`, `ReloadsAreProved` for
any settings and any steps of the clock; `ReloadBudgetHolds` if the wall clock is
only set back (`SetBackOnly`), and `CooldownIsKept` if besides
`Cooldown <= Window`. `LatchIsHeld` and `ReloadsAreCharged` are in no run.
`IInv` describes the queue of saves: what each task waits
for, what the file will hold and whether there will be an issue once the queue
has been worked off (`Agrees`, `IssueFollows`). The budget's second invariant
says that each reload of the window is still among the stamps in memory and in
the file and looks recent by the wall clock (`Remembered`, `Numbered`, `Fresh`).

**`BridgeProcessProofs`.** `Typing`, `CleanStop`, `NoSecondAttempt` and
`Implementation` (the refinement of `BridgeLifecycle`), for every number of
attempts. `IInv` = types and four parts: `Link` (before the connection nothing
is connected, crashed or stopping), `Reason` (at each await which reasons to
leave there can be, and that each is true), `Alone` (up to the next attempt only
the awaited operation runs) and `Stopping` (where a stop that was asked for is
on its way). The refinement needs `Reason` most: that 75 means a lost link
depends on `cause` being set from the event and not from the MQTT error that
came first. One lemma for each group of steps shows which step of the abstract
process each is (`Connect`, `Reconnect`, `Resume`, `LinkLost`, `Crash`, `Ask`,
`Exit`), or that it is a stutter. A stop that finds a session just failed is an
`Ask` that brings the crash to light.

**`SwitchEventsProofs`.** `Typing`, `FiresOnce`, `NoneDisappears`. Neither
property is inductive: that an event is queued once needs that the decoder
remembers it as long as frames of it may come (`Remembered`), that it fires once
needs that what is in the broker's hands, received or saving are different
copies unless it was sent again (`Passed`, `Fires`), and that a duplicate is
justified needs that whatever set a deduplication window was published, and
fires (`Explained`).

**`ConsumerProbeProofs`.** `Typing`, `OkCertifies`, `NeverBlamed`,
`SameProcess`, for any set of units, deadline and bounds. The parts of `IInv`
are operators of a probe, its evidence and the messages that wait for the
consumer, because several handlers change the evidence and then judge it in the
same step: `Judge` is proved once to keep what its arguments have. `Covered` (a
unit of the snapshot was handled, or a message as new was received and not
handled) is what makes "ok" mean something; `Prompt` (a consumer that keeps up
has handled all that does not wait) is what makes a stale verdict just; `Room`
counts receipts against the bounds. `Undecided` says that a pending probe is one
whose evidence does not decide it.

**`BridgeStatusProofs`.** `Typing`, `FoundedVerdict`, `NumbersOnce` without a
condition; `NewestVerdict` and `Heals` as long as a tracker has met no more
processes than it remembers (`Remembers`), both but for the will of an older
process it had never met (`stranger`). The condition is needed: a process
that has been forgotten is taken for a new one, which `RETIRED_INSTANCE_MEMORY`
accepts. `IInv` bounds what may be on its way by what the bridge has said
(`Sent`, `Tracked`); `Recent` (a ready status is no younger at the tracker than
the last ready at the broker) gives `FoundedVerdict`, `Ordered` (those retired
are older than the current one, and fewer than those met) gives `NewestVerdict`.
`Heals` follows from `Alone` and `Timely`: once only heartbeats happen, the wire
holds the last heartbeat or nothing, and if nothing, the tracker has it.

**`StaleDetectionProofs`.** `Typing`, `NoStarvation` and `Detected`, for every
setting that `SettingsAssumption` allows. Its `Spacing > Deadline + 1` is true
of deadlines of up to 20 s (the default), and not of all that `SETTING_RANGES`
allows (5 to 120 s): above 30 s the claim of `health.py:547` fails (section 5).
`Late` says how long a status probe that is due may have waited at each point of
a probe and of a tick, `Held` the same for consumer probes, `Passed` that a tick
leaves only one kind waiting, `Spaced` that a probe under way leaves its own
kind an interval away. `Detected` needs a measure of what is left: `NextResult`
bounds the time to the next result of a consumer probe, `Doubt` the time in
which proofs may still come too early to confirm the first one, `Delay` what a
busy bridge may add. `OnTime` is that the first proof still to come (`Unproved`)
or the one there is (`Proved`) will be confirmed by `DetectionTime`, the latter
before `MaxGap` ages it out. Every step is one of a few moves of these numbers,
each a lemma about naturals (`Sooner`, `Elapses`, `Busied`, `Begins`, `Early`);
the lemmas about actions only name the move.

The attempts found two errors in the model's statements. `NeitherStarves` used to
allow one probe for both kinds, true in the instance that was checked and false
for a verification that lasts longer than an interval (its consumer probe may
start just after one of the observer's has ended). `DetectionTime` used to have
two consumer intervals, which a grace longer than the interval exceeds
(`SETTING_RANGES` allows 1800 s and 300 s), and took a confirmation to be longer
than two probes, which the ranges do not say (90 s and 120 s): then the busy
bridge may age the first proof out, and `Lapse` is the time for two more. TLC
confirmed both on small instances, and `OnTime` on seven, with grace longer than
the interval and confirmations of 1 to 6 ticks among them.

**Only model-checked:** all liveness (`WaitingIsPublished`,
`TerminalStopHappens`, `RecoveryEnds`, `LossEndsIt`, `StartupEnds`), which is
beyond the prover, as are ENABLED and induction over data. Every invariant and
every action property that a passing run checks is a theorem. No module declares a
RECURSIVE operator.

## 5. Where code and documents disagree

With a run that shows it:

- `QuietMeansCurrent` (`server.py:1688`): a unit that changes after its baseline
  publish and before the handler is registered is published by nobody until it
  changes again.
- `NothingLost` (`bridge_recovery.py:999`): the exit log is emptied before the
  state that counts it is stored; a pass that dies between loses those exits.

Stated in the modules, violated, and without a run of their own:

- `CooldownHolds` with a cooldown longer than the window (`recovery.py:196`): it
  is cut to the window of 1800 s, as only reloads inside that are looked at,
  though the option may be set to 86400 s. Set `Cooldown = 4` and `Window = 2` in
  `MCConsumerRecovery.cfg`.
- `PendingUntilVerified` with unreadable files (`bridge_recovery.py:493`): the
  state that replaces an unreadable one has no pending terminal stop. Set
  `ReadFaults = TRUE` in `MCSupervisorLive.cfg`.
- `RunningIsNotRetired` (`health.py:185`): a process that loses its connection
  and ends; Home Assistant is set up; the next process reports; the broker
  notices the loss and publishes the will of the first one. The tracker has
  never met it, takes it for the newer process, retires the one that runs and
  ignores it until the entry is set up again. Add it to `MCBridgeStatus.cfg`.
- `Exit76MeansBle` (`server.py:1732`): a BLE cleanup or release that does not end
  exits with 76 also after a failure that a Bluetooth reset does not fix, for
  instance a rejected login (`server.py:1957`, `server.py:2152`). Add it to
  `MCBridgeProcess.cfg`.

Known from the modelling, and excused in a property by name or left outside it:

- After a reconnection the client sends again what was not acknowledged before
  (`server.py:2098`), oldest first: a topic whose states 1 and 2 were both stored
  goes back to 1 and then to 2 again, and stays at 1 until the next connection
  or the next process's baseline if this one is lost in between. `NeverOlder` and `RetainedState` allow it
  during such a replay only. `server.py:952` says that coalescing "loses nothing
  observable: retained state means only the newest value is ever the correct one
  to have published anyway", and `server.py:968` that "newest-wins must still
  hold"; the worker does keep to it, the client under it does not.
- A stop may be lost: `contextlib.suppress(CancelledError)` around the awaits of
  cancelled tasks catches the one of SIGTERM too; an `MqttError` raised while
  the client closes replaces it, so that the bridge reconnects or the report of
  a failed startup goes on to its exit status; and so does the error of a session
  that has just failed (`server.py:1534`), with exit status 1 if it is not an
  `MqttError` (`swallowed` in `StopIsClean`; the docstring at `server.py:1909`
  says otherwise). A stop
  during an operation that ignores its cancellation waits for it without bound
  in `asyncio.run`, until systemd kills the process.
- The callback is registered an iteration of the loop after the connection is up
  (`run_bounded` awaits it in a task of its own). Unless the library calls a
  callback that is registered after the loss, a link lost in between is seen by
  nobody; the comment at `server.py:2085` says such a drop is never missed.
- `src/README.md:119-121` says that bursts of identical `(unit_id, button, event)`
  callbacks within 250 ms are collapsed. That is the key of callbacks that do not
  come from the decoder (`server.py:690`); those that do carry its identity, by
  which two presses of one button within 250 ms are both published
  (`DedupKey`).
- Switch events: the bridge tells two presses within 250 ms apart
  (`server.py:672`), but Home Assistant deduplicates by the payload and fires
  once; a message that was not acknowledged when the connection was lost fires
  again after it (`again`); an action first heard between two sessions is lost
  though its later frames arrive during the second, since the decoder remembers
  it; a release may fire before its press while a new button is stored.
- A wall clock that is put forward by the window expires the charges of
  `ConsumerRecovery` (against the comment at `recovery.py:143`; the theorem's
  `SetBackOnly` marks the border).
- "So neither probe kind can starve the other" (`health.py:547`): with a probe
  deadline of more than 30 s, which the options allow, a verification starts its
  next probe as soon as the last one is over, and a status probe that is due may
  wait for its end. `SettingsAssumption` of `StaleDetection` excludes it (and, as
  it counts in ticks of 5 s, deadlines between 20 s and 30 s); within it, a
  status probe waits for two consumer probes at most.
- After a recovery whose verification timed out the supervisor may latch on
  failures that are older than the reset (`bridge_recovery.py:924`).

## 6. Not modelled

The entity platforms, config flow, diagnostics, logging, wire formats and
container files keep no state that control depends on. SetLevel, TurnOn and
SetScene are single library calls. The parser of switch packets is a function of
bytes. The listing mode of the bridge and the switch probe of the command line
are diagnostic tools. Wall-clock jumps at the supervisor, its caps of log
entries, write errors of the Store, unsupported protocol versions and the memory
limit of retired ids are left out as said above. A heartbeat interval longer than
the stale limit is configurable (the two settings are on two hosts and nothing
compares them); `TimeAssumption` excludes it, since the bridge would then be
unavailable most of the time by design. Several switches at once are left out of
`SwitchEvents`: the decoder's records, the deduplication keys and the stored
buttons are all per unit, and only the queue is shared. `BridgeProcess` and
`Supervisor` are not composed; what the second assumes of exits is what
`BridgeLifecycle` allows.

## 7. Plan

Done, in this order: `RetainedState` and `UnitPublisher` (the program's purpose),
`Supervisor`, `ConsumerRecovery`, `BridgeStatus`, `ConsumerProbe`; proofs of the
first three components; `BridgeLifecycle` and `BridgeProcess`; `SwitchEvents`;
`StaleDetection`; proofs of `BridgeProcess`, `SwitchEvents`, `ConsumerProbe`,
`BridgeStatus` and `StaleDetection`.

1. `ConsumerRecovery`: nothing of a removed entry remains (`async_remove` does
   not wait for saves, `recovery.py:376`).
