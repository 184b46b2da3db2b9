---------------------------- MODULE ConsumerProbe ----------------------------
(***************************************************************************)
(* The correlated probes of the Home Assistant integration: HealthObserver *)
(* and ProbeTracker (src/custom_components/casambi_mqtt/health.py), fed by *)
(* HealthMonitor, against the bridge that answers them (process_command in *)
(* src/server.py) and the consumer of unit messages they judge.            *)
(*                                                                         *)
(* The unit of time is a tick of the observer (TICK_SECONDS).  BridgeStatus *)
(* has the detail of the status stream; here a status says which process of *)
(* the bridge is live, and which probes are due and may run is a choice at *)
(* every tick.  The broker delivers in order, so a message on its way is one *)
(* that is sent later: delivery is a part of sending.                      *)
(***************************************************************************)
EXTENDS Integers, Sequences, SequencesExt, FiniteSets, FiniteSetsExt

CONSTANTS
    Units,          \* units with a topic of their own
    Deadline,       \* probe_deadline_seconds
    MaxProcs,       \* bound: processes of the bridge
    MaxReq,         \* bound: request ids in use at a time
    MaxRaw,         \* bound: unit messages received during a probe
    MaxBacklog      \* bound: messages the consumer has yet to handle

ASSUME DeadlineAssumption == Deadline \in Nat
ASSUME BoundAssumption ==
    /\ MaxProcs \in Nat \ {0} /\ MaxReq \in Nat \ {0}
    /\ MaxRaw \in Nat \ {0} /\ MaxBacklog \in Nat \ {0}

VARIABLES
    inst,       \* the bridge: its process
    commands,   \* commands on their way to it
    snap,       \* the snapshot it works on
    known,      \* the process of the last status; 0 is none
    pending,    \* the pending probe
    raw,        \* its raw_messages
    processed,  \* its processed_messages
    ticked,     \* the observer has ticked since time last passed
    backlog,    \* messages the consumer has received and not handled
    ghost,      \* what happened during the consumer probe; history
    ended       \* the consumer probe this step has ended, with its history

bridge  == <<inst, commands, snap>>
tracker == <<pending, raw, processed>>
vars    == <<bridge, known, tracker, ticked, backlog, ghost, ended>>

Procs    == 1..MaxProcs
Requests == 1..MaxReq
Keys     == Units \X (1..(MaxRaw + MaxBacklog))
Kinds    == {"status", "consumer"}
NoSnap   == [req |-> 0, todo |-> {}, done |-> {}, failed |-> FALSE]
NoProbe  == [kind |-> "none", req |-> 0, inst |-> 0, left |-> 0, by |-> 0, units |-> {}]
Outcomes == {"ok", "no_reply", "bridge_failed", "bridge_busy", "delivery_incomplete",
             "consumer_partial", "consumer_stale", "no_units", "superseded"}
\* covers: units its snapshot has published, perhaps again since; got: those of
\* which the consumer has handled a message as new as that; heard: processes of
\* the bridge; trouble: the consumer was late or rejected a message; lost: a
\* message of the snapshot did not arrive.
NoGhost  == [covers |-> {}, got |-> {}, heard |-> {}, trouble |-> FALSE, lost |-> FALSE]
NoResult == [outcome |-> "none", missing |-> {}, heard |-> {}, trouble |-> FALSE,
             lost |-> FALSE]

TypeOK ==
    /\ inst \in Procs /\ known \in 0..inst
    /\ commands \in Seq(Kinds \X Requests)
    /\ snap \in [req : 0..MaxReq, todo : SUBSET Units, done : SUBSET Units, failed : BOOLEAN]
    /\ pending = NoProbe \/
       pending \in [kind : Kinds, req : Requests, inst : 0..inst, left : -1..Deadline,
                    by : 0..inst, units : SUBSET Units]
    /\ raw \subseteq Keys /\ processed \subseteq Keys
    /\ pending.kind # "consumer" => raw \cup processed = {}
    /\ ticked \in BOOLEAN
    /\ backlog \subseteq Keys \X BOOLEAN
    /\ ghost \in [covers : SUBSET Units, got : SUBSET Units, heard : SUBSET Procs,
                  trouble : BOOLEAN, lost : BOOLEAN]
    /\ pending.kind # "consumer" => ghost = NoGhost
    /\ ended.outcome \in Outcomes \cup {"none"}

Init ==
    /\ inst = 1 /\ commands = <<>> /\ snap = NoSnap /\ known = 0
    /\ pending = NoProbe /\ raw = {} /\ processed = {}
    /\ ticked = FALSE /\ backlog = {}
    /\ ghost = NoGhost /\ ended = NoResult

----------------------------------------------------------------------------
(* ProbeTracker                                                            *)

\* History is only kept while a consumer probe is pending.
Note(g) == ghost' = IF pending.kind = "consumer" THEN g ELSE ghost

RawTopics(r) == {k[1] : k \in r}

\* Mutant: handling any message of a topic covers the topic.
AllHandledByTopic(r, d) == RawTopics(r) \subseteq RawTopics(d)

AllHandled(r, d) == r \subseteq d

\* Mutant: what was not delivered is held against the consumer.
ExpiredBlaming(p, r, d) ==
    IF p.by = 0 THEN "no_reply"
    ELSE IF r \cap d = {} THEN "consumer_stale" ELSE "consumer_partial"

Expired(p, r, d) ==
    IF p.by = 0 THEN "no_reply"
    ELSE IF Cardinality(RawTopics(r)) < Cardinality(p.units) THEN "delivery_incomplete"
    ELSE IF r \cap d = {} THEN "consumer_stale" ELSE "consumer_partial"

\* check: the outcome of probe p with this evidence, "none" while it is pending.
Check(p, r, d) ==
    IF p = NoProbe THEN "none"
    ELSE IF p.left < 0 THEN Expired(p, r, d)
    ELSE IF /\ p.kind = "consumer" /\ p.units # {}
            /\ Cardinality(RawTopics(r)) >= Cardinality(p.units)
            /\ AllHandled(r, d)
         THEN "ok" ELSE "none"

\* _publish_result, with what the history says of a consumer probe.
Result(o, p, g) ==
    IF p.kind # "consumer" THEN NoResult
    ELSE [outcome |-> o, missing |-> p.units \ g.got, heard |-> g.heard,
          trouble |-> g.trouble, lost |-> g.lost]

\* _finish
Finish(o, p, g) ==
    /\ pending' = NoProbe /\ raw' = {} /\ processed' = {}
    /\ ended' = Result(o, p, g) /\ ghost' = NoGhost

\* The evidence is now r and d: the probe ends, or goes on.
Judge(p, r, d, g) ==
    LET o == Check(p, r, d) IN
    IF o # "none" THEN Finish(o, p, g)
    ELSE /\ pending' = p /\ raw' = r /\ processed' = d /\ ghost' = g
         /\ ended' = NoResult

\* Mutant: unit messages are collected for every probe.
CollectingAlways == pending.left >= 0 /\ pending # NoProbe

\* _collecting
Collecting == pending.kind = "consumer" /\ pending.left >= 0

----------------------------------------------------------------------------
(* HealthObserver: messages                                                *)

\* Mutant: a new process of the bridge does not end the probe.
SupersededNever(i) == i = 0

Superseded(i) == pending # NoProbe /\ {pending.inst, pending.by} \ {0, i} # {}

\* on_status
StatusArrives(i) ==
    LET g == [ghost EXCEPT !.heard = @ \cup {i}] IN
    /\ known' = i
    /\ IF Superseded(i) THEN Finish("superseded", pending, g)
       ELSE Note(g) /\ ended' = NoResult /\ UNCHANGED tracker

\* on_reply: the reply to the pending probe, in time, from the live process.
Accepted(m) ==
    /\ pending # NoProbe /\ pending.by = 0 /\ pending.left >= 0
    /\ m.req = pending.req
    /\ known \in {0, inst}
    /\ m.kind = pending.kind

\* Some replies end the probe whatever the evidence.
Verdict(m) ==
    IF m.result = "rate_limited" THEN "bridge_busy"
    ELSE IF m.result # "ok" THEN "bridge_failed"
    ELSE IF pending.kind = "status" THEN "ok"
    ELSE IF m.units = {} THEN "no_units" ELSE "none"

ReplyArrives(m) ==
    LET p == [pending EXCEPT !.by = inst, !.units = m.units]
        g == [ghost EXCEPT !.heard = @ \cup {inst}] IN
    IF ~Accepted(m) THEN ended' = NoResult /\ UNCHANGED <<tracker, ghost>>
    ELSE IF Verdict(m) # "none" THEN Finish(Verdict(m), p, g)
    ELSE Judge(p, raw, processed, g)

\* The receipt of a message is its identity.
NewKey(u) ==
    LET used == {k[2] : k \in {j \in raw \cup processed \cup {b[1] : b \in backlog} :
                               j[1] = u}}
    IN  <<u, Min((1..(MaxRaw + MaxBacklog)) \ used)>>

\* on_raw_unit, and the consumer's callback has the message to handle.  Of the
\* messages received when none is collected, those of earlier probes will do.
UnitArrives(u, g) ==
    IF ~Collecting THEN Judge(pending, raw, processed, g) /\ UNCHANGED backlog
    ELSE LET k == NewKey(u) IN
         /\ Cardinality(raw) < MaxRaw /\ Cardinality(backlog) < MaxBacklog
         /\ backlog' = backlog \cup {<<k, u \in g.covers>>}
         /\ Judge(pending, raw \cup {k}, processed, g)

\* event_processor and on_processed_unit
Handles ==
    /\ \E b \in backlog :
          /\ backlog' = backlog \ {b}
          /\ Judge(pending, raw, IF Collecting THEN processed \cup {b[1]} ELSE processed,
                   IF pending.kind = "consumer" /\ b[2]
                     THEN [ghost EXCEPT !.got = @ \cup {b[1][1]}] ELSE ghost)
    /\ UNCHANGED <<bridge, known, ticked>>

\* event_processor rejects the message, or never sees it: a stuck consumer.
Ignores ==
    /\ \E b \in backlog : backlog' = backlog \ {b}
    /\ Note([ghost EXCEPT !.trouble = TRUE])
    /\ ended' = NoResult
    /\ UNCHANGED <<bridge, known, tracker, ticked>>

----------------------------------------------------------------------------
(* The bridge, and what arrives of what it sends                           *)

\* The heartbeat, or the last will.
BridgeStatus ==
    /\ StatusArrives(inst)
    /\ UNCHANGED <<bridge, ticked, backlog>>

\* A live update, a publish of the baseline, or a retained message again.
Ambient ==
    /\ \E u \in Units : UnitArrives(u, ghost)
    /\ UNCHANGED <<bridge, known, ticked>>

Nothing == ended' = NoResult /\ UNCHANGED <<tracker, ghost>>

Sent(k, req, res, us) == ReplyArrives([kind |-> k, req |-> req, result |-> res, units |-> us])

\* _handle_status_request: a reply, or none within the window of the last one.
AnswerStatus ==
    /\ commands # <<>> /\ snap = NoSnap
    /\ Head(commands)[1] = "status"
    /\ Nothing \/ Sent("status", Head(commands)[2], "ok", {})
    /\ commands' = Tail(commands)
    /\ UNCHANGED <<inst, snap, known, ticked, backlog>>

\* _handle_snapshot_request, when another one was too short a time ago.
RateLimited ==
    /\ commands # <<>> /\ snap = NoSnap
    /\ Head(commands)[1] = "consumer"
    /\ Nothing \/ Sent("consumer", Head(commands)[2], "rate_limited", {})
    /\ commands' = Tail(commands)
    /\ UNCHANGED <<inst, snap, known, ticked, backlog>>

SnapshotStarts ==
    /\ commands # <<>> /\ snap = NoSnap
    /\ Head(commands)[1] = "consumer"
    /\ \E s \in SUBSET Units :
          snap' = [req |-> Head(commands)[2], todo |-> s, done |-> {}, failed |-> FALSE]
    /\ commands' = Tail(commands)
    /\ Nothing
    /\ UNCHANGED <<inst, known, ticked, backlog>>

\* publish_unit for one unit of the snapshot: confirmed, though it may be lost
\* on its way to Home Assistant, or failed.
SnapshotPublishes ==
    /\ \E u \in snap.todo :
          LET g == IF pending.kind = "consumer" /\ snap.req = pending.req
                   THEN [ghost EXCEPT !.covers = @ \cup {u}] ELSE ghost IN
          \/ /\ snap' = [snap EXCEPT !.todo = @ \ {u}, !.done = @ \cup {u}]
             /\ UnitArrives(u, g)
          \/ /\ snap' = [snap EXCEPT !.todo = @ \ {u}, !.done = @ \cup {u}]
             /\ Note([g EXCEPT !.lost = TRUE])
             /\ ended' = NoResult /\ UNCHANGED <<tracker, backlog>>
          \/ /\ snap' = [snap EXCEPT !.todo = @ \ {u}, !.failed = TRUE]
             /\ Nothing /\ UNCHANGED backlog
    /\ UNCHANGED <<inst, commands, known, ticked>>

SnapshotAnswered ==
    /\ snap # NoSnap /\ snap.todo = {}
    /\ snap' = NoSnap
    /\ \/ Nothing
       \/ Sent("consumer", snap.req, IF snap.failed THEN "failed" ELSE "ok", snap.done)
    /\ UNCHANGED <<inst, commands, known, ticked, backlog>>

\* The bridge loses the broker, or is another process: what it works on is gone.
BridgeLost ==
    /\ inst' \in {inst, inst + 1} \cap Procs
    /\ commands' = <<>> /\ snap' = NoSnap
    /\ Nothing
    /\ UNCHANGED <<known, ticked, backlog>>

----------------------------------------------------------------------------
(* HealthObserver: time                                                    *)

\* A request id that nothing carries any more stands for a new one.
Unused == Requests \ ({c[2] : c \in Range(commands)} \cup {snap.req})

\* start_probe and _send: the command may fail to be published.  A consumer
\* probe needs a healthy bridge, so one that has been heard of.
StartProbe(k) ==
    /\ Unused # {} /\ (k = "consumer" => known # 0)
    /\ LET r == Min(Unused) IN
       /\ pending' = [kind |-> k, req |-> r, inst |-> known, left |-> Deadline,
                      by |-> 0, units |-> {}]
       /\ commands' \in {commands, Append(commands, <<k, r>>)}
    /\ raw' = {} /\ processed' = {}
    /\ ghost' = IF k = "consumer" THEN [NoGhost EXCEPT !.heard = {known} \ {0}] ELSE NoGhost
    /\ backlog' = {<<b[1], FALSE>> : b \in backlog}

\* tick
Tick ==
    /\ ~ticked /\ ticked' = TRUE
    /\ LET o == Check(pending, raw, processed) IN
       IF o = "none" /\ pending # NoProbe
         THEN Nothing /\ UNCHANGED <<commands, backlog>>
         ELSE /\ ended' = Result(o, pending, ghost)
              /\ \/ \E k \in Kinds : StartProbe(k)
                 \/ /\ pending' = NoProbe /\ raw' = {} /\ processed' = {}
                    /\ ghost' = NoGhost /\ UNCHANGED <<commands, backlog>>
    /\ UNCHANGED <<inst, snap, known>>

\* request_probe, from the verification of a recovery.
RequestProbe ==
    /\ pending = NoProbe
    /\ StartProbe("consumer")
    /\ ended' = NoResult
    /\ UNCHANGED <<inst, snap, known, ticked>>

TimePasses ==
    /\ ticked /\ ticked' = FALSE
    /\ pending' = IF pending = NoProbe THEN pending
                  ELSE [pending EXCEPT !.left = Max({-1, @ - 1})]
    /\ Note([ghost EXCEPT !.trouble = @ \/ backlog # {}])
    /\ ended' = NoResult
    /\ UNCHANGED <<bridge, known, raw, processed, backlog>>

Next ==
    \/ BridgeStatus \/ Ambient \/ AnswerStatus \/ RateLimited \/ SnapshotStarts
    \/ SnapshotPublishes \/ SnapshotAnswered \/ BridgeLost \/ Handles \/ Ignores
    \/ Tick \/ RequestProbe \/ TimePasses

Spec == Init /\ [][Next]_vars

----------------------------------------------------------------------------
(* Properties                                                              *)

\* "ok" certifies the snapshot: of every unit the bridge says it published for
\* this request, the consumer has handled a message as new as the snapshot's;
\* unless such a message did not arrive, for which others may stand in.
CertifiesSnapshot == ended.outcome = "ok" /\ ~ended.lost => ended.missing = {}

\* A consumer that handles all it receives, in time, is never blamed.
NoFalseAlarm ==
    ended.outcome \in {"consumer_stale", "consumer_partial"} => ended.trouble

\* "Evidence from one bridge process never certifies another."
OneProcess ==
    ended.outcome \in {"ok", "consumer_stale", "consumer_partial"} =>
        Cardinality(ended.heard) <= 1
=============================================================================
