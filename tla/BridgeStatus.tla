---------------------------- MODULE BridgeStatus ----------------------------
(***************************************************************************)
(* The status stream of the bridge (BridgeHealth and run_connected_bridge  *)
(* in src/server.py), the retained topic and the last wills at the broker, *)
(* and the BridgeStatusTracker that judges the stream in Home Assistant    *)
(* (src/custom_components/casambi_mqtt/health.py).                         *)
(*                                                                         *)
(* The unit of time is a part of the heartbeat interval; a working         *)
(* connection delivers within one unit, so time passes only once           *)
(* everything sent has been delivered.                                     *)
(***************************************************************************)
EXTENDS Integers, Sequences, SequencesExt

CONSTANTS
    Heartbeat,  \* time between two heartbeats
    Stale,      \* age at which a status is stale
    Grace,      \* startup grace of the tracker
    Memory,     \* RETIRED_INSTANCE_MEMORY
    MaxProcs,   \* bound: processes of the bridge
    MaxSeq,     \* bound: statuses and replies of a process but its last
    MaxWire     \* bound: statuses on their way, and those to be sent again

ASSUME TimeAssumption ==
    Heartbeat \in Nat \ {0} /\ Stale \in Nat /\ Heartbeat <= Stale /\ Grace \in Nat
ASSUME BoundAssumption ==
    /\ Memory \in Nat \ {0} /\ MaxProcs \in Nat \ {0} /\ MaxSeq \in Nat
    /\ MaxWire \in Nat \ {0}

VARIABLES
    proc,       \* the latest process of the bridge, its instance_id
    alive,      \* it runs
    seq,        \* its sequence
    phase,      \* its phase, "degraded" while live publishing fails
    session,    \* its MQTT session
    due,        \* time since its last heartbeat
    unsent,     \* what its MQTT client will send again after it reconnects
    wills,      \* processes with a lost connection the broker has yet to notice
    retained,   \* the retained status
    linked,     \* Home Assistant is connected to the broker
    wire,       \* statuses on their way to Home Assistant
    status,     \* the tracker's status
    maxSeq,     \* _max_sequence
    retired,    \* _retired
    age,        \* time since status was received
    grace,      \* what is left of the startup grace
    heard,      \* time since the broker was last sent a ready; history
    calm,       \* time since anything but heartbeats happened; history
    met,        \* processes accepted since the tracker was set up; history
    top,        \* the highest number it has accepted of its process; history
    stranger    \* an unknown process older than the current one was accepted

bridge  == <<proc, alive, seq, phase, session, due, unsent>>
tracker == <<status, maxSeq, retired, age>>
history == <<met, top, stranger>>
vars    == <<bridge, wills, retained, linked, wire, tracker, grace, heard, calm,
             history>>

Procs    == 1..MaxProcs
NoSeq    == -1
Seqs     == 1..(MaxSeq + 1)
Phases   == {"starting", "ready", "degraded", "offline"}
Statuses == [i : Procs, s : Seqs \cup {NoSeq}, phase : Phases]
NoStatus == [i |-> 0, s |-> NoSeq, phase |-> "none"]
Messages == [i : Procs, s : Seqs \cup {NoSeq}, phase : Phases, retain : BOOLEAN]

TypeOK ==
    /\ proc \in Procs /\ alive \in BOOLEAN /\ seq \in 0..(MaxSeq + 1)
    /\ phase \in Phases \ {"offline"}
    /\ session \in {"down", "connecting", "up", "dead"}
    /\ alive \/ session = "down"
    /\ due \in 0..Heartbeat
    /\ unsent \in Seq(Statuses) /\ wills \subseteq Procs
    /\ retained \in Statuses \cup {NoStatus} /\ linked \in BOOLEAN
    /\ wire \in Seq(Messages)
    /\ status \in Statuses \cup {NoStatus} /\ maxSeq \in Seqs \cup {NoSeq}
    /\ retired \in Seq(Procs) /\ Len(retired) <= Memory
    /\ age \in 0..(Stale + 1) /\ grace \in 0..Grace
    /\ heard \in 0..(Stale + 1) /\ calm \in 0..(Heartbeat + 1)
    /\ met \subseteq Procs /\ top \in 0..(MaxSeq + 1) /\ stranger \in BOOLEAN

Init ==
    /\ proc = 1 /\ alive = TRUE /\ seq = 0 /\ phase = "starting"
    /\ session = "down" /\ due = 0 /\ unsent = <<>>
    /\ wills = {} /\ retained = NoStatus /\ linked = TRUE /\ wire = <<>>
    /\ status = NoStatus /\ maxSeq = NoSeq /\ retired = <<>>
    /\ age = 0 /\ grace = Grace
    /\ heard = Stale + 1 /\ calm = 0
    /\ met = {} /\ top = 0 /\ stranger = FALSE

----------------------------------------------------------------------------
(* The broker                                                              *)

Copy(st, r) == [i |-> st.i, s |-> st.s, phase |-> st.phase, retain |-> r]

\* The broker receives the statuses q, in this order.
Receives(q) ==
    /\ Len(wire) < MaxWire
    /\ retained' = IF q = <<>> THEN retained ELSE Last(q)
    /\ wire' = IF linked THEN wire \o [k \in DOMAIN q |-> Copy(q[k], FALSE)] ELSE wire
    /\ heard' = IF \E k \in DOMAIN q : q[k].phase = "ready" THEN 0 ELSE heard

\* What a subscription to the topic is sent first.
Replay == IF retained = NoStatus THEN <<>> ELSE <<Copy(retained, TRUE)>>

\* will_payload, published once the broker has noticed the loss: at once, or
\* at the end of the keepalive, when the bridge may have connected again.
Will ==
    /\ \E i \in wills :
          /\ wills' = wills \ {i}
          /\ Receives(<<[i |-> i, s |-> NoSeq, phase |-> "offline"]>>)
    /\ calm' = 0
    /\ UNCHANGED <<bridge, linked, tracker, grace, history>>

----------------------------------------------------------------------------
(* The bridge                                                              *)

Built(p) == [i |-> proc, s |-> seq + 1, phase |-> p]

\* publish_status: the broker receives the status, or it stays with the client.
PublishStatus(p) ==
    /\ seq < MaxSeq /\ seq' = seq + 1
    /\ IF session = "dead"
         THEN /\ Len(unsent) < MaxWire
              /\ unsent' = Append(unsent, Built(p))
              /\ UNCHANGED <<retained, wire, heard>>
         ELSE Receives(<<Built(p)>>) /\ UNCHANGED unsent

\* The client is connected (again) and sends what has not been acknowledged.
Connect ==
    /\ alive /\ session = "down"
    /\ session' = "connecting"
    /\ Receives(unsent)
    /\ unsent' = <<>>
    /\ calm' = 0
    /\ UNCHANGED <<proc, alive, seq, phase, due, wills, linked, tracker,
                   grace, history>>

\* session_started, the status that says so, and its heartbeat task.
SessionStarts ==
    /\ session = "connecting" /\ session' = "up"
    /\ phase' = "starting" /\ due' = 0
    /\ PublishStatus("starting")
    /\ calm' = 0
    /\ UNCHANGED <<proc, alive, wills, linked, tracker, grace, history>>

\* The baseline snapshot: record_snapshot, and the status it leads to.
SnapshotDone ==
    /\ session \in {"up", "dead"} /\ phase = "starting"
    /\ phase' \in {"ready", "degraded"}
    /\ PublishStatus(phase')
    /\ calm' = 0
    /\ UNCHANGED <<proc, alive, session, due, wills, linked, tracker,
                   grace, history>>

\* run_status_heartbeat
Beat ==
    /\ session \in {"up", "dead"} /\ due = Heartbeat
    /\ due' = 0
    /\ PublishStatus(phase)
    /\ UNCHANGED <<proc, alive, phase, session, wills, linked, tracker,
                   grace, calm, history>>

\* A reply takes a number of its own; a snapshot on command changes the phase.
Reply ==
    /\ session \in {"up", "dead"} /\ phase # "starting"
    /\ seq < MaxSeq /\ seq' = seq + 1
    /\ phase' \in {phase, "ready", "degraded"}
    /\ calm' = 0
    /\ UNCHANGED <<proc, alive, session, due, unsent, wills, retained,
                   linked, wire, tracker, grace, heard, history>>

\* Publishing of unit states begins to fail, or works again.
PublishingTurns ==
    /\ session \in {"up", "dead"} /\ phase # "starting"
    /\ phase' \in {"ready", "degraded"} \ {phase}
    /\ calm' = 0
    /\ UNCHANGED <<proc, alive, seq, session, due, unsent, wills, retained, linked,
                   wire, tracker, grace, heard, history>>

\* The connection is gone, perhaps with the acknowledgement of the last
\* status; neither end knows.
LinkLost ==
    /\ session \in {"connecting", "up"} /\ session' = "dead"
    /\ wills' = wills \cup {proc}
    /\ unsent' \in {<<>>} \cup (IF retained.i = proc /\ retained.s # NoSeq
                                THEN {<<retained>>} ELSE {})
    /\ due' = 0 /\ calm' = 0
    /\ UNCHANGED <<proc, alive, seq, phase, retained, linked, wire, tracker, grace,
                   heard, history>>

\* MqttError: the session is over and there will be another one.
Notices ==
    /\ session = "dead" /\ session' = "down"
    /\ phase' = "degraded" /\ due' = 0 /\ calm' = 0
    /\ UNCHANGED <<proc, alive, seq, unsent, wills, retained, linked,
                   wire, tracker, grace, heard, history>>

\* Mutant: the session outlives its process.
GoneConnected ==
    /\ alive' = FALSE /\ UNCHANGED session /\ seq' = 0
    /\ phase' = "starting" /\ due' = 0 /\ unsent' = <<>>
    /\ calm' = 0
    /\ UNCHANGED <<proc, linked, tracker, grace, history>>

\* The process ends, and with it all it remembers.
Gone ==
    /\ alive' = FALSE /\ session' = "down" /\ seq' = 0
    /\ phase' = "starting" /\ due' = 0 /\ unsent' = <<>>
    /\ calm' = 0
    /\ UNCHANGED <<proc, linked, tracker, grace, history>>

\* BLE loss or shutdown: a final status, if it gets through in time, and a
\* clean end of the connection.
Finish ==
    /\ session # "down"
    /\ \E p \in {"degraded", "offline"} :
          \/ session # "dead" /\ Receives(<<Built(p)>>)
          \/ UNCHANGED <<retained, wire, heard>>
    /\ UNCHANGED wills
    /\ Gone

\* The process dies, or ends without a session to tell it in.
Dies ==
    /\ alive
    /\ wills' = IF session \in {"connecting", "up"} THEN wills \cup {proc} ELSE wills
    /\ UNCHANGED <<retained, wire, heard>>
    /\ Gone

\* report_startup_failure
StartupFails ==
    /\ alive /\ session = "down" /\ seq = 0 /\ phase = "starting"
    /\ Receives(<<[i |-> proc, s |-> 1, phase |-> "offline"]>>)
    /\ UNCHANGED wills
    /\ Gone

Start ==
    /\ ~alive /\ proc < MaxProcs
    /\ proc' = proc + 1 /\ alive' = TRUE
    /\ calm' = 0
    /\ UNCHANGED <<seq, phase, session, due, unsent, wills, retained, linked, wire,
                   tracker, grace, heard, history>>

----------------------------------------------------------------------------
(* The tracker                                                             *)

\* Mutant: a retained status counts like a live one.
LiveAll(m) == m.retain \in BOOLEAN

Live(m) == ~m.retain

\* Mutant: processes that have been replaced are not remembered.
ReplacedNever(m) == m.i = 0

Replaced(m) == m.i \in Range(retired)

\* Mutant: a last will leaves nothing to compare numbers with.
OutOfOrderAfterWill(m) ==
    m.i = status.i /\ m.s # NoSeq /\ status.s # NoSeq /\ m.s <= maxSeq

OutOfOrder(m) ==
    m.i = status.i /\ m.s # NoSeq /\ maxSeq # NoSeq /\ m.s <= maxSeq

\* Mutant: the last will is given the highest number there is.
AcceptWillLast(m) ==
    /\ status' = [i |-> m.i, s |-> m.s, phase |-> m.phase]
    /\ maxSeq' = IF m.s = NoSeq THEN MaxSeq + 1 ELSE m.s
    /\ retired' = IF status = NoStatus \/ m.i = status.i THEN retired
                  ELSE Append(retired, status.i)
    /\ age' = 0

Accept(m) ==
    /\ status' = [i |-> m.i, s |-> m.s, phase |-> m.phase]
    /\ maxSeq' = IF m.s # NoSeq THEN m.s
                 ELSE IF m.i = status.i THEN maxSeq ELSE NoSeq
    /\ retired' =
          IF status = NoStatus \/ m.i = status.i THEN retired
          ELSE LET r == Append(retired, status.i) IN
               IF Len(r) > Memory THEN Tail(r) ELSE r
    /\ age' = 0

\* on_message
Deliver ==
    /\ linked /\ wire # <<>> /\ wire' = Tail(wire)
    /\ LET m == Head(wire) IN
       IF Live(m) /\ ~Replaced(m) /\ ~OutOfOrder(m)
         THEN /\ Accept(m)
              /\ met' = met \cup {m.i}
              /\ top' = IF m.s # NoSeq THEN m.s ELSE IF m.i = status.i THEN top ELSE 0
              /\ stranger' = (stranger \/ (m.i < status.i /\ m.i \notin met))
         ELSE UNCHANGED <<tracker, history>>
    /\ UNCHANGED <<bridge, wills, retained, linked, grace, heard, calm>>

\* evaluate
BridgeState ==
    IF status = NoStatus THEN IF grace > 0 THEN "starting" ELSE "unknown"
    ELSE IF status.phase = "offline" \/ age > Stale THEN "unavailable"
    ELSE IF status.phase = "ready" THEN "healthy" ELSE status.phase

\* The entry is set up (again): a new tracker and a new subscription.
SetUp ==
    /\ Len(wire) < MaxWire
    /\ status' = NoStatus /\ maxSeq' = NoSeq /\ retired' = <<>> /\ age' = 0
    /\ grace' = Grace
    /\ wire' = IF linked THEN wire \o Replay ELSE wire
    /\ met' = {} /\ top' = 0 /\ stranger' = FALSE
    /\ calm' = 0
    /\ UNCHANGED <<bridge, wills, retained, linked, heard>>

\* Home Assistant loses the broker, and subscribes again.
HaLosesBroker ==
    /\ linked /\ linked' = FALSE /\ wire' = <<>>
    /\ calm' = 0
    /\ UNCHANGED <<bridge, wills, retained, tracker, grace, heard, history>>

HaReconnects ==
    /\ ~linked /\ linked' = TRUE /\ wire' = Replay
    /\ calm' = 0
    /\ UNCHANGED <<bridge, wills, retained, tracker, grace, heard, history>>

----------------------------------------------------------------------------
Up(n, limit) == IF n < limit THEN n + 1 ELSE n

\* A heartbeat is not late, nor is anything a working connection carries.
Tick ==
    /\ wire = <<>> /\ session # "connecting"
    /\ session = "up" => due < Heartbeat
    /\ due' = IF session \in {"up", "dead"} THEN Up(due, Heartbeat) ELSE due
    /\ age' = IF status = NoStatus THEN age ELSE Up(age, Stale + 1)
    /\ grace' = IF grace > 0 THEN grace - 1 ELSE 0
    /\ heard' = Up(heard, Stale + 1)
    /\ calm' = Up(calm, Heartbeat + 1)
    /\ UNCHANGED <<proc, alive, seq, phase, session, unsent, wills,
                   retained, linked, wire, status, maxSeq, retired, history>>

Next ==
    \/ Will \/ Connect \/ SessionStarts \/ SnapshotDone \/ Beat \/ Reply
    \/ PublishingTurns \/ LinkLost \/ Notices \/ Finish \/ Dies \/ StartupFails
    \/ Start \/ Deliver \/ SetUp \/ HaLosesBroker \/ HaReconnects \/ Tick

Spec == Init /\ [][Next]_vars

----------------------------------------------------------------------------
(* Properties                                                              *)

\* "healthy" is founded on a ready status the broker was sent less than Stale
\* ago, and never on a replay of the retained one.
Founded == BridgeState = "healthy" => heard <= Stale

\* A bridge that has been up and ready for a heartbeat, with Home Assistant
\* connected, is healthy, whatever wills, replays and lost statuses came
\* before; but see RunningIsNotRetired.
HealsInTime ==
    /\ calm > Heartbeat /\ wire = <<>> /\ linked
    /\ session = "up" /\ phase = "ready"
    /\ ~stranger
    => BridgeState = "healthy"

\* A process that was replaced has no say any more: the verdict is about the
\* newest process the tracker has met.
NewestCounts == ~stranger => \A i \in met : i <= status.i

\* No status counts twice, not even after a last will ("a late or redelivered
\* older heartbeat can never undo an ``offline``").
NeverAgain ==
    [][status' # status /\ status'.i = status.i /\ status'.s # NoSeq
       => top < status'.s]_vars

\* "After an `offline` only a newer heartbeat -- the same process after an MQTT
\* reconnect, or a new process -- is live again": the process that runs is never
\* one of those the tracker takes for replaced and ignores.
RunningIsNotRetired == alive => proc \notin Range(retired)
=============================================================================
