--------------------------- MODULE UnitPublisher ---------------------------
(***************************************************************************)
(* How unit states reach the broker's retained topics: the baseline        *)
(* snapshot of a session, the registration of the live handler, the        *)
(* coalescing UnitStatePublisher and its one worker, snapshots requested   *)
(* by command, and the teardown and reconnection of a session              *)
(* (publish_snapshot, UnitStatePublisher, run_connected_bridge and         *)
(* _cleanup_connected_bridge of src/server.py).                            *)
(*                                                                         *)
(* A payload is the number of the unit state it carries.  One asyncio loop *)
(* runs all tasks, so an action is what a task does between two awaits.    *)
(* All sessions of a process share one MQTT client: what it has sent and   *)
(* the broker has not acknowledged outlives the connection and the         *)
(* publisher, and is sent again, in order and before anything new, on the  *)
(* next connection.  It dies with the process.                             *)
(***************************************************************************)
EXTENDS Integers, Sequences, Functions

CONSTANTS
    Units,          \* the units that have a topic (unit_event_topic is not None)
    NoUnit,         \* no message is awaited
    MaxState,       \* bound: states per unit
    MaxWire         \* bound: messages the client holds unacknowledged

ASSUME NoUnitAssumption == NoUnit \notin Units
ASSUME BoundsAssumption == MaxState \in Nat \ {0} /\ MaxWire \in Nat

VARIABLES
    state,      \* newest state of each unit, as casa.units holds it
    retained,   \* state the broker's retained topic shows (0: empty)
    phase,      \* where run_connected_bridge stands
    link,       \* the MQTT connection carries messages
    wire,       \* messages the client holds unacknowledged, in order
    taken,      \* how many of the first the broker stored on this connection
    old,        \* how many of the first it held when that connection was made
    best,       \* newest state each retained topic showed with this client; history
    pending,    \* keys of UnitStatePublisher._pending, in insertion order
    value,      \* the state _pending holds for each key (0: not a key)
    newest,     \* newest state submitted in this session (0: none); history
    wakeup,     \* the _wakeup event
    idle,       \* the _idle event
    failing,    \* _failure_streak > 0
    worker,     \* where the worker task stands
    flight,     \* the publish the worker awaits
    snap,       \* the publish the snapshot awaits
    todo,       \* units the running snapshot has still to publish
    snapping,   \* publish_snapshot is running
    snapFailed, \* one of the running snapshot's publishes failed
    snapOk,     \* the session's last snapshot reported no failure
    base        \* state each unit had when the snapshot began (0: it failed)

pubVars    == <<pending, value, newest, wakeup, idle>>
workVars   == <<failing, worker, flight>>
snapVars   == <<snap, todo, snapping, snapFailed, snapOk, base>>
brokerVars == <<retained, taken, old, best>>
vars == <<state, phase, link, wire, brokerVars, pubVars, workVars, snapVars>>

\* "ending": the session is over, its handlers not yet unregistered.
Phases == {"down", "baseline", "announce", "live", "ending", "closing"}

\* unit_callback is registered with the library.
Registered == phase \in {"live", "ending"}

\* The position of an awaited message on the wire: 0 once the broker has
\* acknowledged it, Lost when it never will.
Lost == -1
Nothing == [unit |-> NoUnit, val |-> 0, pos |-> Lost]
Message == [unit : Units, val : 1..MaxState]
Awaited == [unit : Units \cup {NoUnit}, val : 0..MaxState, pos : Lost..MaxWire]

TypeOK ==
    /\ state \in [Units -> 1..MaxState]
    /\ retained \in [Units -> 0..MaxState]
    /\ phase \in Phases
    /\ link \in BOOLEAN
    /\ wire \in Seq(Message) /\ Len(wire) <= MaxWire
    /\ taken \in 0..MaxWire /\ old \in 0..MaxWire
    /\ best \in [Units -> 0..MaxState]
    /\ pending \in Seq(Units)
    /\ value \in [Units -> 0..MaxState]
    /\ newest \in [Units -> 0..MaxState]
    /\ wakeup \in BOOLEAN /\ idle \in BOOLEAN /\ failing \in BOOLEAN
    /\ worker \in {"off", "wait", "flight", "backoff"}
    /\ flight \in Awaited /\ snap \in Awaited
    /\ todo \in SUBSET Units
    /\ snapping \in BOOLEAN /\ snapFailed \in BOOLEAN /\ snapOk \in BOOLEAN
    /\ base \in [Units -> 0..MaxState]

Init ==
    /\ state = [u \in Units |-> 1]
    /\ retained = [u \in Units |-> 0]
    /\ phase = "down"
    /\ link = FALSE
    /\ wire = <<>> /\ taken = 0 /\ old = 0
    /\ best = [u \in Units |-> 0]
    /\ pending = <<>>
    /\ value = [u \in Units |-> 0]
    /\ newest = [u \in Units |-> 0]
    /\ wakeup = FALSE /\ idle = TRUE /\ failing = FALSE
    /\ worker = "off"
    /\ flight = Nothing /\ snap = Nothing
    /\ todo = {}
    /\ snapping = FALSE /\ snapFailed = FALSE /\ snapOk = FALSE
    /\ base = [u \in Units |-> 0]

----------------------------------------------------------------------------
(* The MQTT connection                                                     *)

\* client.publish(..., qos=1) up to its await.  The client keeps the message
\* behind those it holds, although on a dead connection the call fails.
Sent(u, v) ==
    [unit |-> u, val |-> v, pos |-> IF link THEN Len(wire) + 1 ELSE Lost]

\* Bound: a dead connection's client keeps nothing beyond MaxWire.
WireWith(u, v) ==
    IF Len(wire) < MaxWire THEN Append(wire, [unit |-> u, val |-> v]) ELSE wire

CanSend == link => Len(wire) < MaxWire

Nearer(a) == [a EXCEPT !.pos = IF @ > 0 THEN @ - 1 ELSE @]
Cut(a)    == [a EXCEPT !.pos = IF @ > 0 THEN Lost ELSE @]

\* The broker stores the next message of the connection, be it sent for the
\* first time or again.
Deliver ==
    /\ link /\ taken < Len(wire)
    /\ LET m == wire[taken + 1] IN
           /\ retained' = [retained EXCEPT ![m.unit] = m.val]
           /\ best' = [best EXCEPT ![m.unit] = IF @ < m.val THEN m.val ELSE @]
    /\ taken' = taken + 1
    /\ UNCHANGED <<state, phase, link, wire, old, pubVars, workVars, snapVars>>

\* Its acknowledgement of the oldest one reaches the client, which forgets it.
Acknowledged ==
    /\ taken > 0
    /\ wire' = Tail(wire)
    /\ taken' = taken - 1
    /\ old' = IF old > 0 THEN old - 1 ELSE 0
    /\ flight' = Nearer(flight)
    /\ snap' = Nearer(snap)
    /\ UNCHANGED <<state, retained, best, phase, link, pubVars, failing, worker,
                   todo, snapping, snapFailed, snapOk, base>>

\* The connection is lost, with the acknowledgements on it.
LinkDies ==
    /\ link
    /\ link' = FALSE
    /\ taken' = 0
    /\ flight' = Cut(flight)
    /\ snap' = Cut(snap)
    /\ UNCHANGED <<state, retained, old, best, phase, wire, pubVars, failing,
                   worker, todo, snapping, snapFailed, snapOk, base>>

----------------------------------------------------------------------------
(* Live updates                                                            *)

\* Mutant: submit() forgets self._idle.clear().
SubmitLeavesIdle(u, v) ==
    /\ pending' = IF u \in Range(pending) THEN pending ELSE Append(pending, u)
    /\ value' = [value EXCEPT ![u] = v]
    /\ newest' = [newest EXCEPT ![u] = v]
    /\ UNCHANGED idle
    /\ wakeup' = TRUE

Submit(u, v) ==
    /\ pending' = IF u \in Range(pending) THEN pending ELSE Append(pending, u)
    /\ value' = [value EXCEPT ![u] = v]
    /\ newest' = [newest EXCEPT ![u] = v]
    /\ idle' = FALSE
    /\ wakeup' = TRUE

\* The network reports a new state; unit_callback sees it only while it is
\* registered.
UnitChanges(u) ==
    /\ state[u] < MaxState
    /\ state' = [state EXCEPT ![u] = @ + 1]
    /\ IF Registered THEN Submit(u, state[u] + 1) ELSE UNCHANGED pubVars
    /\ UNCHANGED <<brokerVars, phase, link, wire, workVars, snapVars>>

\* The library calls the handler again without a new state, as in the burst
\* it may emit on registration.
UnitRepeats(u) ==
    /\ Registered
    /\ Submit(u, state[u])
    /\ UNCHANGED <<state, brokerVars, phase, link, wire, workVars, snapVars>>

----------------------------------------------------------------------------
(* The worker task                                                         *)

\* Mutant: popitem() takes the newest key instead of the oldest.
TakeNewest ==
    \/ /\ pending # <<>>
       /\ CanSend
       /\ LET u == pending[Len(pending)] IN
              /\ flight' = Sent(u, value[u])
              /\ wire' = WireWith(u, value[u])
              /\ pending' = SubSeq(pending, 1, Len(pending) - 1)
              /\ value' = [value EXCEPT ![u] = 0]
       /\ worker' = "flight"
       /\ UNCHANGED idle
    \/ /\ pending = <<>>
       /\ idle' = TRUE
       /\ worker' = "wait"
       /\ flight' = Nothing
       /\ UNCHANGED <<wire, pending, value>>

\* The head of the worker's inner loop: send the oldest key's state, or go
\* back to waiting for _wakeup.
TakeNext ==
    \/ /\ pending # <<>>
       /\ CanSend
       /\ LET u == Head(pending) IN
              /\ flight' = Sent(u, value[u])
              /\ wire' = WireWith(u, value[u])
              /\ pending' = Tail(pending)
              /\ value' = [value EXCEPT ![u] = 0]
       /\ worker' = "flight"
       /\ UNCHANGED idle
    \/ /\ pending = <<>>
       /\ idle' = TRUE
       /\ worker' = "wait"
       /\ flight' = Nothing
       /\ UNCHANGED <<wire, pending, value>>

WorkerWakes ==
    /\ worker = "wait"
    /\ wakeup
    /\ wakeup' = FALSE
    /\ TakeNext
    /\ UNCHANGED <<state, brokerVars, phase, link, newest, failing, snapVars>>

WorkerConfirmed ==
    /\ worker = "flight"
    /\ flight.pos = 0
    /\ failing' = FALSE
    /\ TakeNext
    /\ UNCHANGED <<state, brokerVars, phase, link, newest, wakeup, snapVars>>

\* Mutant: a failed publish is not requeued.
RequeueNothing(u, v) == UNCHANGED <<pending, value>>

\* The publish raised or timed out, whether or not the broker has it or will
\* have it.  The state goes to the back unless a newer one is already there.
Requeue(u, v) ==
    IF u \in Range(pending)
    THEN UNCHANGED <<pending, value>>
    ELSE /\ pending' = Append(pending, u)
         /\ value' = [value EXCEPT ![u] = v]

WorkerFails ==
    /\ worker = "flight"
    /\ failing' = TRUE
    /\ Requeue(flight.unit, flight.val)
    /\ flight' = Nothing
    /\ worker' = "backoff"
    /\ UNCHANGED <<state, brokerVars, phase, link, wire, newest, wakeup, idle,
                   snapVars>>

\* After PUBLISH_RETRY_SECONDS: _wakeup is set and wait() returns at once.
WorkerResumes ==
    /\ worker = "backoff"
    /\ wakeup' = FALSE
    /\ TakeNext
    /\ UNCHANGED <<state, brokerVars, phase, link, newest, failing, snapVars>>

----------------------------------------------------------------------------
(* Snapshots: the baseline of a session, and one requested by command      *)

\* The legacy tombstone on events/ goes first; its failure counts.
BeginSnapshot ==
    /\ snapping' = TRUE
    /\ snapFailed' \in BOOLEAN
    /\ todo' = Units
    /\ snap' = Nothing
    /\ base' = IF snapFailed' THEN [u \in Units |-> 0] ELSE state

\* Its counters and what it had to do end with it.
SnapshotEnds ==
    /\ snapping' = FALSE
    /\ todo' = {}
    /\ snap' = Nothing
    /\ snapFailed' = FALSE
    /\ base' = [u \in Units |-> 0]

SnapshotPublish(u) ==
    /\ snapping /\ snap.unit = NoUnit
    /\ u \in todo
    /\ CanSend
    /\ snap' = Sent(u, state[u])
    /\ wire' = WireWith(u, state[u])
    /\ todo' = todo \ {u}
    /\ UNCHANGED <<state, brokerVars, phase, link, pubVars, workVars, snapping,
                   snapFailed, snapOk, base>>

SnapshotConfirmed ==
    /\ snap.unit # NoUnit
    /\ snap.pos = 0
    /\ snap' = Nothing
    /\ UNCHANGED <<state, brokerVars, phase, link, wire, pubVars, workVars, todo,
                   snapping, snapFailed, snapOk, base>>

\* Mutant: log_exceptions swallows the error of a snapshot publish.
SnapshotFailsUnseen ==
    /\ snap.unit # NoUnit
    /\ snap' = Nothing
    /\ UNCHANGED <<state, brokerVars, phase, link, wire, pubVars, workVars, todo,
                   snapping, snapFailed, snapOk, base>>

SnapshotFails ==
    /\ snap.unit # NoUnit
    /\ snap' = Nothing
    /\ snapFailed' = TRUE
    /\ base' = [u \in Units |-> 0]
    /\ UNCHANGED <<state, brokerVars, phase, link, wire, pubVars, workVars, todo,
                   snapping, snapOk>>

\* The scenes follow the units; the result is recorded, and a baseline's
\* session goes on to report its status before it registers any handler.
SnapshotDone ==
    /\ snapping /\ todo = {} /\ snap.unit = NoUnit
    /\ \E sceneFailed \in BOOLEAN : snapOk' = ~(snapFailed \/ sceneFailed)
    /\ SnapshotEnds
    /\ phase' = IF phase = "baseline" THEN "announce" ELSE phase
    /\ UNCHANGED <<state, brokerVars, link, wire, pubVars, workVars>>

CommandSnapshot ==
    /\ phase = "live" /\ ~snapping
    /\ BeginSnapshot
    /\ UNCHANGED <<state, brokerVars, phase, link, wire, pubVars, workVars, snapOk>>

----------------------------------------------------------------------------
(* One session                                                             *)

\* The client is entered again and sends all it holds before the baseline.
Connect ==
    /\ phase = "down"
    /\ phase' = "baseline"
    /\ link' = TRUE
    /\ old' = Len(wire)
    /\ snapOk' = FALSE
    /\ BeginSnapshot
    /\ UNCHANGED <<state, retained, taken, best, wire, pubVars, workVars>>

Register ==
    /\ phase = "announce"
    /\ phase' = "live"
    /\ worker' = "wait"
    /\ UNCHANGED <<state, brokerVars, link, wire, pubVars, failing, flight,
                   snapVars>>

\* The session task is cancelled or has failed, and its snapshot with it.
EndSession ==
    /\ phase' = IF phase = "live" THEN "ending" ELSE "closing"
    /\ SnapshotEnds
    /\ UNCHANGED <<state, brokerVars, link, wire, pubVars, workVars, snapOk>>

\* The command loop meets the dead connection.
MqttLost ==
    /\ phase = "live" /\ ~link /\ ~snapping
    /\ EndSession

\* BLE loss or a stop of the bridge, at any await.
Interrupted ==
    /\ phase \in {"baseline", "announce", "live"}
    /\ EndSession

\* The heartbeat tasks were awaited before the handlers are unregistered.
Unregister ==
    /\ phase = "ending"
    /\ phase' = "closing"
    /\ UNCHANGED <<state, brokerVars, link, wire, pubVars, workVars, snapVars>>

\* Mutant: the next session reuses the publisher and what it still held.
DiscardClientOnly ==
    /\ phase' = "down"
    /\ link' = FALSE
    /\ taken' = 0
    /\ worker' = "off"
    /\ flight' = Nothing
    /\ UNCHANGED <<state, retained, old, best, wire, pubVars, failing, snapVars>>

\* The worker is cancelled, the publisher discarded and the client left; the
\* next session has a publisher of its own, but the same client.
Discard ==
    /\ phase' = "down"
    /\ link' = FALSE
    /\ taken' = 0
    /\ pending' = <<>>
    /\ value' = [u \in Units |-> 0]
    /\ newest' = [u \in Units |-> 0]
    /\ wakeup' = FALSE /\ idle' = TRUE /\ failing' = FALSE
    /\ worker' = "off"
    /\ flight' = Nothing
    /\ UNCHANGED <<state, retained, old, best, wire, snapVars>>

\* aclose(): _idle within DRAIN_TIMEOUT, or no worker was ever started.
Drained ==
    /\ phase = "closing"
    /\ worker = "off" \/ idle
    /\ Discard

DrainTimesOut ==
    /\ phase = "closing"
    /\ worker # "off" /\ ~idle
    /\ Discard

\* The process has ended between two sessions, or after the last; another one
\* makes a client of its own, that repeats nothing.
Restart ==
    /\ phase = "down"
    /\ wire' = <<>> /\ old' = 0
    /\ best' = retained
    /\ UNCHANGED <<state, retained, phase, link, taken, pubVars, workVars, snapVars>>

----------------------------------------------------------------------------
Next ==
    \/ Deliver \/ Acknowledged \/ LinkDies
    \/ \E u \in Units : UnitChanges(u) \/ UnitRepeats(u) \/ SnapshotPublish(u)
    \/ WorkerWakes \/ WorkerConfirmed \/ WorkerFails \/ WorkerResumes
    \/ SnapshotConfirmed \/ SnapshotFails \/ SnapshotDone \/ CommandSnapshot
    \/ Connect \/ Register \/ MqttLost \/ Interrupted \/ Unregister
    \/ Drained \/ DrainTimesOut \/ Restart

Spec == Init /\ [][Next]_vars

\* The loop runs every ready task, and the session task has one thing to do
\* at a time; the broker answers a connected client; a unit whose publish fails
\* again and again is confirmed at last; commands queued before a connection
\* died come to an end.  Nothing is assumed of units, new commands or stops.
Resumes     == WorkerWakes \/ WorkerResumes
Confirms(u) == WorkerConfirmed /\ flight.unit = u
SessionRuns ==
    \/ \E u \in Units : SnapshotPublish(u)
    \/ SnapshotConfirmed \/ SnapshotFails \/ SnapshotDone \/ Register

Fairness ==
    /\ WF_vars(Deliver \/ Acknowledged)
    /\ SF_vars(Resumes)
    /\ \A u \in Units : SF_vars(Confirms(u))
    /\ SF_vars(SessionRuns)
    /\ SF_vars(MqttLost)

FairSpec == Spec /\ Fairness

----------------------------------------------------------------------------
(* Properties                                                              *)

\* A retry, a timed-out message the broker takes late or a snapshot running
\* beside the worker never puts an older state over a newer one on a retained
\* topic (newest-wins of UnitStatePublisher); only what an earlier connection
\* left unacknowledged, sent again, may.
NeverOlder ==
    [][\A u \in Units : retained'[u] >= retained[u] \/ taken < old]_vars

\* Once the broker has taken what the client sent again, every topic it had
\* put back shows the newest state it ever showed with that client.
Repaired == taken >= old => retained = best

\* Until its publisher is discarded, the newest state submitted for a unit is
\* in _pending, or is the one being published, or has reached the broker: no
\* distinct unit is dropped, however submissions, failures and requeues
\* interleave.
NoUnitLost ==
    \A u \in Units : newest[u] > 0 =>
        \/ u \in Range(pending) /\ value[u] = newest[u]
        \/ flight.unit = u /\ flight.val = newest[u]
        \/ retained[u] >= newest[u]

\* The worker never sleeps on _wakeup with work queued and the event clear,
\* although the event is cleared before the queue is read and set again by
\* whoever queues, and although a requeue does not set it.
NoLostWakeup == worker = "wait" /\ pending # <<>> => wakeup

\* aclose() stops waiting early only when nothing was left to publish: _idle
\* is set only if every state submitted in the session reached the broker.
IdleMeansDrained ==
    idle => /\ pending = <<>> /\ flight = Nothing /\ ~failing
            /\ \A u \in Units : retained[u] >= newest[u]

\* A snapshot reported without failures has put every unit's state as of its
\* beginning, or a newer one, on the broker ("a partial failure can never be
\* reported as a successful snapshot").
OkSnapshotIsComplete ==
    [][snapping /\ ~snapping' /\ snapOk' /\ phase' \in {"announce", "live"}
          => \A u \in Units : retained[u] >= base[u]]_vars

\* The topic of a waiting unit shows its newest state at last even if other
\* units are submitted without end or keep failing (FIFO order and requeue at
\* the back), as long as the session lasts.
WaitingIsPublished ==
    \A u \in Units :
        phase = "live" /\ u \in Range(pending)
            ~> phase # "live" \/ retained[u] = state[u]

\* The retained topics of this bridge are those of RetainedState.
Retained == INSTANCE RetainedState
                WITH latest <- state, shown <- retained, replay <- taken < old
Refinement == Retained!Spec

\* When nothing is queued, being published or on its way in a live session
\* whose baseline was reported complete, every retained topic shows its
\* unit's newest state ("This loses nothing observable").
QuietMeansCurrent ==
    phase = "live" /\ idle /\ wire = <<>> /\ ~snapping /\ snapOk
        => \A u \in Units : retained[u] = state[u]
=============================================================================
