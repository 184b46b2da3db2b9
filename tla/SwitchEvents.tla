---------------------------- MODULE SwitchEvents ----------------------------
(***************************************************************************)
(* A press of a physical switch, from the radio to an automation:          *)
(* SwitchEventDecoder (switch_decoder.py) and SwitchEventPublisher         *)
(* (server.py) in the bridge, the MQTT clients and the broker, and         *)
(* _async_process_switch_event (custom_components/casambi_mqtt) in Home    *)
(* Assistant.                                                              *)
(*                                                                         *)
(* What happens at a switch is an action, known by its number; a frame of  *)
(* it is sent several times, on one stream or on both.  The unit of time   *)
(* is the 250 ms of the two deduplication windows; ages are counted up to  *)
(* the point where they no longer matter.  There is one switch and one     *)
(* process of the bridge.                                                  *)
(***************************************************************************)
EXTENDS Integers, Sequences, SequencesExt, FiniteSets

CONSTANTS
    Inputs,      \* what may happen at the switch: its control and phase, the
                 \* origin of the frames and the streams they are sent on
    Slots,       \* SWITCH_EVENT_QUEUE_MAX
    Window,      \* RETRANSMIT_WINDOW_SECONDS
    Dedup,       \* SWITCH_EVENT_DEDUP_SECONDS, of the bridge and of the consumer
    Spread,      \* time between the first and the last frame of an action
    Pause,       \* time between two sessions
    MaxActions,  \* bound: actions
    MaxSessions  \* bound: sessions

Phases == {"PRESS", "RELEASE", "HOLD", "RELEASE_AFTER_HOLD"}
Streams == {"button", "input"}

ASSUME InputsAssumption ==
    \A a \in Inputs : a.phase \in Phases /\ a.streams \subseteq Streams
ASSUME TimeAssumption ==
    /\ {Window, Dedup, Spread, Pause} \subseteq Nat
    /\ Spread < Window /\ Spread < Pause /\ 0 < Dedup /\ Dedup <= Window
ASSUME BoundAssumption == {Slots, MaxActions, MaxSessions} \subseteq Nat \ {0}

VARIABLES
    act,        \* the actions
    since,      \* time since each of them
    seen,       \* SwitchEventDecoder._seen, by age
    session,    \* "none", "live" (handler registered) or "closing" (aclose)
    sessions,   \* how many there were
    down,       \* time since the last one was over
    linked,     \* the bridge is connected to the broker
    queue,      \* SwitchEventPublisher._queue
    busy,       \* the event the worker is publishing, 0 if it waits for one
    last,       \* SwitchEventPublisher.last_seen, by age
    dropped,    \* what a full queue has refused; the code keeps the number
    unacked,    \* messages of the MQTT client the broker has not acknowledged
    reached,    \* those of them the broker has
    wire,       \* messages on their way to Home Assistant
    lastSeen,   \* last_switch_events, by age
    known,      \* SwitchUnit.buttons
    saving,     \* events whose handler waits for the store
    heard,      \* history: actions the decoder passed on to a session
    handed,     \* history: what was given to the MQTT client, in this order
    discarded,  \* history: what sessions had not published when they were over
    again,      \* history: what was sent again though the broker had it
    received,   \* history: what Home Assistant has received
    fired       \* history: how often it fired

radio == <<act, since>>
life == <<session, sessions, down>>
publisher == <<queue, busy, last, dropped>>
mqtt == <<linked, unacked, reached>>
consumer == <<lastSeen, known, saving>>
history == <<heard, handed, discarded, again, received, fired>>
vars == <<radio, seen, life, publisher, mqtt, wire, consumer, history>>

Actions == 1..MaxActions
Keys == {<<a.control, a.origin>> : a \in Inputs}
Payloads == {<<a.control, a.phase>> : a \in Inputs}
Old == Spread + Window

Key(n) == <<act[n].control, act[n].origin>>
Payload(n) == <<act[n].control, act[n].phase>>
Happened == DOMAIN act

Init ==
    /\ act = <<>> /\ since = <<>> /\ seen = [k \in Keys |-> Window]
    /\ session = "none" /\ sessions = 0 /\ down = Pause
    /\ queue = <<>> /\ busy = 0 /\ last = [k \in Keys |-> Dedup] /\ dropped = {}
    /\ linked = FALSE /\ unacked = {} /\ reached = {} /\ wire = <<>>
    /\ lastSeen = [p \in Payloads |-> Dedup] /\ known = {} /\ saving = {}
    /\ heard = {} /\ handed = <<>> /\ discarded = {} /\ again = {} /\ received = {}
    /\ fired = [n \in Actions |-> 0]

----------------------------------------------------------------------------
(* The radio and the decoder                                               *)

\* Something happens at the switch.  An origin is used again only after the
\* decoder may have forgotten it.
Press ==
    /\ Len(act) < MaxActions
    /\ \E a \in Inputs :
          /\ \A n \in Happened : Key(n) = <<a.control, a.origin>> => since[n] = Old
          /\ act' = Append(act, a)
    /\ since' = Append(since, 0)
    /\ UNCHANGED <<seen, life, publisher, mqtt, wire, consumer, history>>

\* The button stream owns PRESS and RELEASE, the input stream the others.
Owned(stream, phase) ==
    stream = "button" \/ phase \notin {"PRESS", "RELEASE"}

\* Mutant: the decoder's window is as short as the others.
IsRetransmitShort(key) == seen[key] < Dedup

IsRetransmit(key) == seen[key] < Window

\* Mutant: the queue is not bounded.
CallUnbounded(n) ==
    IF session = "live"
    THEN queue' = Append(queue, n) /\ heard' = heard \union {n} /\ UNCHANGED dropped
    ELSE UNCHANGED <<queue, dropped, heard>>

\* SwitchEventPublisher.__call__; without a session nobody is called.
Call(n) ==
    CASE session # "live" ->
            UNCHANGED <<queue, dropped, heard>>
      [] session = "live" /\ Len(queue) < Slots ->
            queue' = Append(queue, n) /\ heard' = heard \union {n} /\ UNCHANGED dropped
      [] OTHER ->
            dropped' = dropped \union {n} /\ heard' = heard \union {n} /\ UNCHANGED queue

\* A frame arrives.  One that means nothing, or nothing new, changes nothing.
Frame(n, stream) ==
    /\ since[n] <= Spread /\ stream \in act[n].streams
    /\ Owned(stream, act[n].phase) /\ ~IsRetransmit(Key(n))
    /\ seen' = [seen EXCEPT ![Key(n)] = 0]
    /\ Call(n)
    /\ UNCHANGED <<radio, life, busy, last, mqtt, wire, consumer, handed, discarded,
                   again, received, fired>>

----------------------------------------------------------------------------
(* The worker of SwitchEventPublisher                                      *)

\* Mutant: events with the same public fields are the same.
DedupKeyPublic(n) == Key(CHOOSE m \in Happened : Payload(m) = Payload(n))

\* switch_event_dedup_key of an event from the decoder.
DedupKey(n) == Key(n)

\* The next event: a duplicate is skipped, another given to the MQTT client,
\* which keeps it until it is acknowledged, whether it is connected or not.
Take ==
    /\ session # "none" /\ busy = 0 /\ queue # <<>>
    /\ queue' = Tail(queue)
    /\ LET n == Head(queue) IN
       IF last[DedupKey(n)] < Dedup
       THEN UNCHANGED <<busy, last, unacked, handed>>
       ELSE /\ busy' = n
            /\ last' = [last EXCEPT ![DedupKey(n)] = 0]
            /\ unacked' = unacked \union {n}
            /\ handed' = Append(handed, n)
    /\ UNCHANGED <<radio, seen, life, dropped, linked, reached, wire, consumer, heard,
                   discarded, again, received, fired>>

\* The publish fails, for instance because its timeout passes, and log_exceptions
\* has the worker go on; the client still has the message.
PublishFails ==
    /\ busy # 0
    /\ busy' = 0
    /\ UNCHANGED <<radio, seen, life, queue, last, dropped, mqtt, wire, consumer, history>>

\* The broker receives the message and passes it on, with QoS 1: perhaps twice.
Arrives ==
    /\ linked
    /\ \E n \in unacked \ reached :
          /\ reached' = reached \union {n}
          /\ wire' \in {wire \o <<n>>, wire \o <<n, n>>}
    /\ UNCHANGED <<radio, seen, life, publisher, linked, unacked, consumer, history>>

\* The client hears so, and the publish returns.
Acknowledged ==
    /\ linked
    /\ \E n \in reached :
          /\ reached' = reached \ {n}
          /\ unacked' = unacked \ {n}
          /\ busy' = IF busy = n THEN 0 ELSE busy
    /\ UNCHANGED <<radio, seen, life, queue, last, dropped, linked, wire, consumer, history>>

----------------------------------------------------------------------------
(* Sessions                                                                *)

\* The client connects, and sends what was not acknowledged again; after the
\* baseline snapshot the handler of a new publisher is registered.
NewSession ==
    /\ session = "none" /\ down = Pause /\ sessions < MaxSessions
    /\ session' = "live" /\ sessions' = sessions + 1 /\ linked' = TRUE
    /\ last' = [k \in Keys |-> Dedup]
    /\ again' = again \union reached
    /\ reached' = {}
    /\ UNCHANGED <<radio, seen, down, queue, busy, dropped, unacked, wire, consumer, heard,
                   handed, discarded, received, fired>>

LinkLost ==
    /\ linked
    /\ linked' = FALSE
    /\ UNCHANGED <<radio, seen, life, publisher, unacked, reached, wire, consumer, history>>

\* The session ends for any reason: _cleanup_connected_bridge unregisters the
\* handler, and aclose() lets the worker go on.
Unregister ==
    /\ session = "live"
    /\ session' = "closing"
    /\ UNCHANGED <<radio, seen, sessions, down, publisher, mqtt, wire, consumer, history>>

\* The queue is drained, or DRAIN_TIMEOUT has passed and the worker is cancelled;
\* the client disconnects.
Close ==
    /\ session = "closing"
    /\ session' = "none" /\ down' = 0 /\ linked' = FALSE
    /\ queue' = <<>> /\ busy' = 0
    /\ discarded' = discarded \union ToSet(queue)
    /\ UNCHANGED <<radio, seen, sessions, last, dropped, unacked, reached, wire, consumer,
                   heard, handed, again, received, fired>>

----------------------------------------------------------------------------
(* Home Assistant                                                          *)

\* is_duplicate_switch_event, which notes the time of a duplicate as well.
IsDuplicate(n) == lastSeen[Payload(n)] < Dedup

Fire(n) == fired' = [fired EXCEPT ![n] = @ + 1]

\* _async_process_switch_event; a button it did not know is stored first.
Receive ==
    /\ wire # <<>>
    /\ wire' = Tail(wire)
    /\ LET n == Head(wire) IN
       /\ received' = received \union {n}
       /\ lastSeen' = [lastSeen EXCEPT ![Payload(n)] = 0]
       /\ CASE IsDuplicate(n) ->
                  UNCHANGED <<known, saving, fired>>
            [] ~IsDuplicate(n) /\ act[n].control \in known ->
                  Fire(n) /\ UNCHANGED <<known, saving>>
            [] OTHER ->
                  /\ known' = known \union {act[n].control}
                  /\ saving' = saving \union {n}
                  /\ UNCHANGED fired
    /\ UNCHANGED <<radio, seen, life, publisher, mqtt, heard, handed, discarded, again>>

Saved ==
    /\ \E n \in saving : saving' = saving \ {n} /\ Fire(n)
    /\ UNCHANGED <<radio, seen, life, publisher, mqtt, wire, lastSeen, known, heard,
                   handed, discarded, again, received>>

----------------------------------------------------------------------------
Older(age, limit) == IF age < limit THEN age + 1 ELSE limit

\* Time passes once what the broker has was delivered, and the worker waits.
Tick ==
    /\ wire = <<>> /\ (busy = 0 => queue = <<>>)
    /\ since' = [n \in Happened |-> Older(since[n], Old)]
    /\ seen' = [k \in Keys |-> Older(seen[k], Window)]
    /\ last' = [k \in Keys |-> Older(last[k], Dedup)]
    /\ lastSeen' = [p \in Payloads |-> Older(lastSeen[p], Dedup)]
    /\ down' = IF session = "none" THEN Older(down, Pause) ELSE down
    /\ UNCHANGED <<act, session, sessions, queue, busy, dropped, mqtt, wire, known,
                   saving, history>>

Next ==
    \/ Press \/ \E n \in Happened, stream \in Streams : Frame(n, stream)
    \/ Take \/ PublishFails \/ Arrives \/ Acknowledged
    \/ NewSession \/ LinkLost \/ Unregister \/ Close
    \/ Receive \/ Saved \/ Tick

Spec == Init /\ [][Next]_vars

----------------------------------------------------------------------------
(* Properties                                                              *)

TypeOK ==
    /\ act \in Seq(Inputs) /\ since \in [Happened -> 0..Old]
    /\ seen \in [Keys -> 0..Window]
    /\ session \in {"none", "live", "closing"} /\ sessions \in 0..MaxSessions
    /\ down \in 0..Pause /\ linked \in BOOLEAN
    /\ queue \in Seq(Happened) /\ Len(queue) <= Slots
    /\ busy \in Happened \union {0} /\ last \in [Keys -> 0..Dedup]
    /\ session = "none" => queue = <<>> /\ busy = 0
    /\ unacked \subseteq Happened /\ reached \subseteq unacked
    /\ wire \in Seq(Happened) /\ lastSeen \in [Payloads -> 0..Dedup]
    /\ known \subseteq {a.control : a \in Inputs}
    /\ UNION {dropped, saving, heard, discarded, again, received} \subseteq Happened
    /\ handed \in Seq(Happened) /\ fired \in [Actions -> Nat]

\* Of the frames of one action, on two streams, at most one becomes an event:
\* it is published once, in the order of the actions heard, and fires once; a
\* release that the input stream reports in the middle of a hold never does.
\* Only what the broker had when the connection was lost may fire once more.
OncePerAction ==
    /\ IsInjective(handed)
    /\ \A n \in ToSet(handed) :
          act[n].phase \in {"PRESS", "RELEASE"} => "button" \in act[n].streams
    /\ \A n \in Actions : fired[n] > 1 => n \in again

\* "Every distinct press must reach MQTT": an action that was heard during a
\* session is waiting, was given to the MQTT client, was counted as dropped,
\* or was discarded with the session, unless another one with its origin was
\* published instead.  One that Home Assistant has received fires, or one like
\* it does.
EveryPressCounts ==
    /\ \A n \in heard :
          \/ n \in UNION {ToSet(queue), ToSet(handed), dropped, discarded}
          \/ \E m \in ToSet(handed) \ {n} :
                act[m].control = act[n].control /\ act[m].origin = act[n].origin
    /\ \A n \in received : \E m \in received :
          /\ act[m].control = act[n].control /\ act[m].phase = act[n].phase
          /\ m \in saving \/ fired[m] > 0
=============================================================================
