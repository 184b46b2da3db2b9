------------------------- MODULE BridgeStatusProofs -------------------------
(***************************************************************************)
(* What Home Assistant may conclude from the status stream, for every      *)
(* heartbeat, staleness limit, grace and bound: a verdict is founded, no   *)
(* number counts twice; and, as long as a tracker has met no more          *)
(* processes than it remembers, the verdict is about the newest of them    *)
(* and heals within a heartbeat.                                           *)
(***************************************************************************)
EXTENDS BridgeStatus, FiniteSets, FiniteSetTheorems, SequenceTheorems, TLAPS

----------------------------------------------------------------------------
(* The inductive invariant                                                 *)

\* Every process the tracker has met, but the current one, is still in its
\* memory (RETIRED_INSTANCE_MEMORY).
Remembers == Cardinality(met) <= Memory + 1

\* What the bridge and the broker may have sent by now.
KnownStatus ==
    {st \in Statuses : st.i <= proc /\ (alive /\ st.i = proc => st.s <= seq)}
OnWire ==
    {m \in Messages : /\ m.i <= proc /\ (alive /\ m.i = proc => m.s <= seq)
                      /\ (~m.retain /\ m.phase = "ready" => heard = 0)}

Typed ==
    /\ proc \in Procs /\ alive \in BOOLEAN /\ seq \in 0..MaxSeq
    /\ phase \in Phases \ {"offline"}
    /\ session \in {"down", "connecting", "up", "dead"} /\ (alive \/ session = "down")
    /\ due \in 0..Heartbeat /\ wills \subseteq 1..proc /\ linked \in BOOLEAN
    /\ grace \in 0..Grace /\ heard \in 0..(Stale + 1) /\ calm \in 0..(Heartbeat + 1)

Sent ==
    /\ unsent \in Seq(KnownStatus) /\ retained \in KnownStatus \union {NoStatus}
    /\ wire \in Seq(OnWire) /\ (~linked => wire = <<>>)

\* The tracker knows of no process that there was not, and of no number that
\* the bridge did not use.
Tracked ==
    /\ status \in Statuses \union {NoStatus} /\ maxSeq \in Seqs \union {NoSeq}
    /\ retired \in Seq(Procs) /\ Len(retired) <= Memory /\ age \in 0..(Stale + 1)
    /\ met \subseteq 1..proc /\ status.i <= proc
    /\ status = NoStatus => met = {} /\ retired = <<>>
    /\ alive /\ status.i = proc => maxSeq <= seq
    /\ top \in 0..(MaxSeq + 1) /\ stranger \in BOOLEAN

Numbers == IF maxSeq = NoSeq THEN top = 0 ELSE top = maxSeq

Recent == status.phase = "ready" => heard <= age

\* The processes that were replaced are remembered, and older than the current.
Ordered ==
    Remembers /\ ~stranger =>
      /\ met \subseteq Range(retired) \union {status.i}
      /\ \A i \in Range(retired) : i < status.i
      /\ status # NoStatus => Len(retired) < Cardinality(met)

\* When only heartbeats happen, only the latest of them is on its way.
Alone ==
    calm > 0 /\ wire # <<>> =>
      /\ session = "up" /\ due = 0
      /\ wire = <<Copy([i |-> proc, s |-> seq, phase |-> phase], FALSE)>>
      /\ status.i = proc => maxSeq < seq

\* After the first of them the status is of the process that runs, and as old
\* as the last one.
Timely ==
    /\ Remembers /\ ~stranger /\ linked /\ session = "up" /\ phase = "ready"
    /\ calm > due /\ wire = <<>>
    => status.i = proc /\ status.phase = "ready" /\ age <= due

IInv == Typed /\ Sent /\ Tracked /\ Numbers /\ Recent /\ Ordered /\ Alone /\ Timely

----------------------------------------------------------------------------
(* Sequences                                                               *)

LEMMA Appended ==
    ASSUME NEW S, NEW s \in Seq(S), NEW x \in S
    PROVE  /\ Append(s, x) \in Seq(S) /\ Len(Append(s, x)) = Len(s) + 1
           /\ Append(s, x) # <<>> /\ Range(Append(s, x)) = Range(s) \union {x}
<1> DEFINE t == Append(s, x)
<1>1. /\ t \in Seq(S) /\ t # <<>> /\ Len(t) = Len(s) + 1 /\ Len(s) \in Nat
      /\ \A i \in 1..Len(s) : t[i] = s[i]
      /\ t[Len(s) + 1] = x
  BY AppendProperties, LenProperties
<1>2. Range(t) = {t[i] : i \in 1..Len(t)} /\ Range(s) = {s[i] : i \in 1..Len(s)}
  BY <1>1, RangeEquality
<1> HIDE DEF t
<1>3. 1..Len(t) = 1..Len(s) \union {Len(s) + 1}
  BY <1>1
<1>4. Range(t) = Range(s) \union {x}
  BY <1>1, <1>2, <1>3
<1> QED BY <1>1, <1>4 DEF t

LEMMA Shortened ==
    ASSUME NEW S, NEW s \in Seq(S), s # <<>>
    PROVE  /\ Head(s) \in S /\ Tail(s) \in Seq(S) /\ Len(Tail(s)) = Len(s) - 1
           /\ Len(s) \in Nat /\ Range(Tail(s)) \subseteq Range(s)
<1>1. /\ Head(s) \in S /\ Tail(s) \in Seq(S) /\ Len(Tail(s)) = Len(s) - 1
      /\ \A i \in 1..Len(Tail(s)) : Tail(s)[i] = s[i + 1]
      /\ Len(s) \in Nat
  BY HeadTailProperties, LenProperties
<1>2. /\ Range(Tail(s)) = {Tail(s)[i] : i \in 1..Len(Tail(s))}
      /\ Range(s) = {s[i] : i \in 1..Len(s)}
  BY <1>1, RangeEquality
<1> QED BY <1>1, <1>2

----------------------------------------------------------------------------
(* The broker                                                              *)

\* One status makes one copy.
LEMMA OneCopy ==
    ASSUME NEW x
    PROVE  [k \in DOMAIN <<x>> |-> Copy(<<x>>[k], FALSE)] = <<Copy(x, FALSE)>>
<1> DEFINE y == Copy(x, FALSE)
           s == <<x>>
           c == [k \in DOMAIN s |-> Copy(s[k], FALSE)]
<1>1. DOMAIN s = 1..1 /\ s[1] = x
  OBVIOUS
<1> HIDE DEF s
<1>2. \A k \in 1..1 : Copy(s[k], FALSE) = y
  <2> SUFFICES ASSUME NEW k \in 1..1 PROVE Copy(s[k], FALSE) = y
    OBVIOUS
  <2>1. k = 1
    OBVIOUS
  <2> QED BY <1>1, <2>1, Zenon
<1> HIDE DEF y
<1>3. c = [k \in 1..1 |-> y]
  BY <1>1, <1>2, Zenon
<1>4. [k \in 1..1 |-> y] = <<y>>
  OBVIOUS
<1> QED BY <1>3, <1>4 DEF y, s

\* A process keeps its number and adds to its sequence, or another takes over.
Onward ==
    \/ proc' = proc /\ (alive' => alive /\ seq <= seq')
    \/ proc' = proc + 1

\* What was known of the bridge is known of it later.
LEMMA StillKnown ==
    ASSUME Typed, Typed',
           Onward
    PROVE  KnownStatus \subseteq KnownStatus'
<1> SUFFICES ASSUME NEW st \in KnownStatus PROVE st \in KnownStatus'
  OBVIOUS
<1>1. st \in Statuses /\ st.i <= proc /\ (alive /\ st.i = proc => st.s <= seq)
  BY DEF KnownStatus
<1>2. st.i \in Nat /\ st.s \in Int /\ proc \in Nat /\ proc' \in Nat /\ seq \in Nat /\ seq' \in Nat
  BY <1>1 DEF Statuses, Procs, Seqs, NoSeq, Typed
<1>3. st.i <= proc' /\ (alive' /\ st.i = proc' => st.s <= seq')
  BY <1>1, <1>2 DEF Onward
<1> QED BY <1>1, <1>3 DEF KnownStatus

LEMMA StillOnWire ==
    ASSUME Typed, Typed', heard' \in {0, heard},
           Onward
    PROVE  OnWire \subseteq OnWire'
<1> SUFFICES ASSUME NEW m \in OnWire PROVE m \in OnWire'
  OBVIOUS
<1>1. /\ m \in Messages /\ m.i <= proc /\ (alive /\ m.i = proc => m.s <= seq)
      /\ ~m.retain /\ m.phase = "ready" => heard = 0
  BY DEF OnWire
<1>2. m.i \in Nat /\ m.s \in Int /\ proc \in Nat /\ proc' \in Nat /\ seq \in Nat /\ seq' \in Nat
  BY <1>1 DEF Messages, Procs, Seqs, NoSeq, Typed
<1>3. m.i <= proc' /\ (alive' /\ m.i = proc' => m.s <= seq')
  BY <1>1, <1>2 DEF Onward
<1>4. ~m.retain /\ m.phase = "ready" => heard' = 0
  BY <1>1
<1> QED BY <1>1, <1>3, <1>4 DEF OnWire

\* Nothing is sent, or what was sent is lost.
LEMMA NothingSent ==
    ASSUME IInv, Typed', heard' \in {0, heard},
           Onward,
           unsent' \in {<<>>, unsent}, UNCHANGED retained, wire' \in {<<>>, wire},
           ~linked' => wire' = <<>>
    PROVE  Sent'
<1>1. KnownStatus \subseteq KnownStatus' /\ OnWire \subseteq OnWire'
  BY StillKnown, StillOnWire DEF IInv
<1>2. unsent' \in Seq(KnownStatus') /\ wire' \in Seq(OnWire')
  BY <1>1, SeqMonotonic, EmptySeq DEF IInv, Sent
<1>3. retained' \in KnownStatus' \union {NoStatus}
  BY <1>1 DEF IInv, Sent
<1> QED BY <1>2, <1>3 DEF Sent

\* The broker passes on what it receives, and keeps the last of it.
LEMMA ReceivesKeeps ==
    ASSUME IInv, Typed',
           Onward,
           NEW q \in Seq(KnownStatus'), Receives(q), linked' = linked,
           unsent' \in {<<>>, unsent}
    PROVE  Sent' /\ heard' \in {0, heard}
<1>1. /\ retained' = IF q = <<>> THEN retained ELSE Last(q)
      /\ wire' = IF linked THEN wire \o [k \in DOMAIN q |-> Copy(q[k], FALSE)] ELSE wire
      /\ heard' = IF \E k \in DOMAIN q : q[k].phase = "ready" THEN 0 ELSE heard
  BY DEF Receives
<1>2. heard' \in {0, heard}
  BY <1>1
<1>3. KnownStatus \subseteq KnownStatus' /\ OnWire \subseteq OnWire'
  BY <1>2, StillKnown, StillOnWire DEF IInv
<1>4. /\ unsent \in Seq(KnownStatus') /\ wire \in Seq(OnWire')
      /\ retained \in KnownStatus' \union {NoStatus}
  BY <1>3, SeqMonotonic DEF IInv, Sent
<1>5. Len(q) \in Nat /\ DOMAIN q = 1..Len(q) /\ (\A k \in 1..Len(q) : q[k] \in KnownStatus')
  BY LenProperties, ElementOfSeq
<1>6. retained' \in KnownStatus' \union {NoStatus}
  <2>1. CASE q = <<>>
    BY <1>1, <1>4, <2>1
  <2>2. CASE q # <<>>
    <3>1. Len(q) \in 1..Len(q)
      BY <1>5, <2>2
    <3> QED BY <1>1, <1>5, <2>2, <3>1 DEF Last
  <2> QED BY <2>1, <2>2
<1>7. wire' \in Seq(OnWire')
  <2> DEFINE c == [k \in DOMAIN q |-> Copy(q[k], FALSE)]
  <2>1. ASSUME NEW k \in 1..Len(q) PROVE Copy(q[k], FALSE) \in OnWire'
    <3> DEFINE st == q[k]
               m == Copy(q[k], FALSE)
    <3>1. /\ st \in Statuses /\ st.i <= proc' /\ (alive' /\ st.i = proc' => st.s <= seq')
      BY <1>5 DEF KnownStatus
    <3>2. m.i = st.i /\ m.s = st.s /\ m.phase = st.phase /\ m.retain = FALSE
          /\ m \in Messages
      BY <3>1 DEF Copy, Statuses, Messages
    <3>3. m.phase = "ready" => heard' = 0
      BY <1>1, <1>5, <3>2
    <3> HIDE DEF m, st
    <3>4. m \in OnWire'
      BY <3>1, <3>2, <3>3 DEF OnWire
    <3> QED BY <3>4 DEF m
  <2>2. c \in Seq(OnWire')
    <3>1. c \in [1..Len(q) -> OnWire']
      BY <1>5, <2>1
    <3> HIDE DEF c
    <3> QED BY <1>5, <3>1, SeqDef
  <2> HIDE DEF c
  <2>3. wire \o c \in Seq(OnWire')
    BY <1>4, <2>2, ConcatProperties
  <2> QED BY <1>1, <1>4, <2>3 DEF c
<1>8. unsent' \in Seq(KnownStatus')
  BY <1>4, EmptySeq
<1>9. ~linked' => wire' = <<>>
  BY <1>1 DEF IInv, Sent
<1> QED BY <1>2, <1>6, <1>7, <1>8, <1>9 DEF Sent

\* A status of the process takes its next number.
LEMMA PublishKeeps ==
    ASSUME IInv, Typed', NEW p \in Phases, PublishStatus(p), alive,
           UNCHANGED <<proc, alive, linked>>
    PROVE  Sent' /\ heard' \in {0, heard}
<1>1. seq' = seq + 1 /\ seq \in Nat /\ seq < MaxSeq /\ proc \in Procs /\ MaxSeq \in Nat
  BY BoundAssumption DEF PublishStatus, IInv, Typed
<1>5. Onward
  BY <1>1 DEF Onward
<1>2. Built(p) \in KnownStatus'
  <2>1. Built(p).i = proc /\ Built(p).s = seq + 1 /\ Built(p) \in Statuses
    BY <1>1 DEF Built, Statuses, Seqs
  <2> QED BY <1>1, <2>1 DEF KnownStatus, Procs
<1>3. CASE session = "dead"
  <2>1. unsent' = Append(unsent, Built(p)) /\ UNCHANGED <<retained, wire, heard>>
    BY <1>3 DEF PublishStatus
  <2>2. KnownStatus \subseteq KnownStatus' /\ OnWire \subseteq OnWire'
    BY <1>5, <2>1, StillKnown, StillOnWire DEF IInv
  <2>3. unsent \in Seq(KnownStatus') /\ wire \in Seq(OnWire')
    BY <2>2, SeqMonotonic DEF IInv, Sent
  <2>4. unsent' \in Seq(KnownStatus')
    BY <1>2, <2>1, <2>3, AppendProperties
  <2> QED BY <2>1, <2>2, <2>3, <2>4 DEF IInv, Sent
<1>4. CASE session # "dead"
  <2>1. Receives(<<Built(p)>>) /\ UNCHANGED unsent
    BY <1>4 DEF PublishStatus
  <2>2. <<Built(p)>> \in Seq(KnownStatus')
    BY <1>2
  <2>3. unsent' \in {<<>>, unsent}
    BY <2>1
  <2> QED BY <1>5, <2>1, <2>2, <2>3, ReceivesKeeps
<1> QED BY <1>3, <1>4

----------------------------------------------------------------------------
(* The bridge                                                              *)

\* Anything but a heartbeat starts the count again, and leaves the tracker alone.
LEMMA Disturbed ==
    ASSUME IInv, Typed', Sent', Onward, calm' = 0, UNCHANGED <<tracker, history>>,
           heard' \in {0, heard}
    PROVE  IInv'
<1>1. UNCHANGED <<status, maxSeq, retired, age, met, top, stranger>>
  BY DEF tracker, history
<1>2. proc \in Nat /\ seq \in Nat /\ seq' \in Nat /\ due' \in Nat /\ heard \in Nat
  BY DEF IInv, Typed, Procs
<1>3. Tracked'
  <2>1. status.i \in Nat /\ maxSeq \in Int /\ status.i <= proc
        /\ (alive /\ status.i = proc => maxSeq <= seq)
    BY DEF IInv, Tracked, Statuses, NoStatus, Procs, Seqs
  <2>2. met \subseteq 1..proc' /\ status.i <= proc'
    BY <1>2, <2>1 DEF Onward, IInv, Tracked
  <2>3. alive' /\ status.i = proc' => maxSeq <= seq'
    BY <1>2, <2>1 DEF Onward
  <2> QED BY <1>1, <2>2, <2>3 DEF IInv, Tracked
<1>4. Numbers' /\ Ordered'
  BY <1>1 DEF IInv, Numbers, Ordered, Remembers
<1>5. Recent'
  <2>1. age \in Nat
    BY DEF IInv, Tracked
  <2> QED BY <1>1, <1>2, <2>1 DEF IInv, Recent
<1>6. Alone' /\ Timely'
  BY <1>2 DEF Alone, Timely
<1> QED BY <1>3, <1>4, <1>5, <1>6 DEF IInv

LEMMA WillKeeps ==
    ASSUME IInv, Will
    PROVE  IInv'
<1>1. PICK i \in wills :
         wills' = wills \ {i} /\ Receives(<<[i |-> i, s |-> NoSeq, phase |-> "offline"]>>)
  BY DEF Will
<1>2. /\ calm' = 0
      /\ UNCHANGED <<proc, alive, seq, phase, session, due, unsent, linked, grace>>
      /\ UNCHANGED <<tracker, history>>
  BY DEF Will, bridge
<1> DEFINE w == [i |-> i, s |-> NoSeq, phase |-> "offline"]
<1>3. Onward
  BY <1>2 DEF Onward, IInv, Typed
<1>4. Typed'
  <2>1. heard' \in 0..(Stale + 1) /\ 0 \in 0..(Heartbeat + 1)
    BY <1>1, TimeAssumption DEF Receives, IInv, Typed
  <2> QED BY <1>1, <1>2, <2>1 DEF IInv, Typed
<1>5. w \in KnownStatus'
  <2>1. i \in 1..proc /\ proc \in Procs /\ seq \in Nat
    BY DEF IInv, Typed
  <2>2. w \in Statuses /\ w.i = i /\ w.s = -1 /\ i <= proc
    BY <2>1, BoundAssumption DEF Statuses, Procs, NoSeq, Phases
  <2> QED BY <1>2, <2>1, <2>2 DEF KnownStatus
<1>6. <<w>> \in Seq(KnownStatus')
  BY <1>5
<1>7. unsent' \in {<<>>, unsent}
  BY <1>2
<1>8. Sent' /\ heard' \in {0, heard}
  BY <1>1, <1>2, <1>3, <1>4, <1>6, <1>7, ReceivesKeeps
<1> QED BY <1>2, <1>3, <1>4, <1>8, Disturbed

\* The client sends again what was not acknowledged.
LEMMA ConnectKeeps ==
    ASSUME IInv, Connect
    PROVE  IInv'
<1>1. /\ alive /\ session' = "connecting" /\ Receives(unsent) /\ unsent' = <<>> /\ calm' = 0
      /\ UNCHANGED <<proc, alive, seq, phase, due, wills, linked, grace>>
      /\ UNCHANGED <<tracker, history>>
  BY DEF Connect
<1>2. Onward
  BY <1>1 DEF Onward, IInv, Typed
<1>3. Typed'
  <2>1. heard' \in 0..(Stale + 1) /\ 0 \in 0..(Heartbeat + 1)
    BY <1>1, TimeAssumption DEF Receives, IInv, Typed
  <2> QED BY <1>1, <2>1 DEF IInv, Typed
<1>4. unsent \in Seq(KnownStatus') /\ unsent' \in {<<>>, unsent}
  <2>1. KnownStatus \subseteq KnownStatus'
    BY <1>2, <1>3, StillKnown DEF IInv
  <2> QED BY <1>1, <2>1, SeqMonotonic DEF IInv, Sent
<1>5. Sent' /\ heard' \in {0, heard}
  BY <1>1, <1>2, <1>3, <1>4, ReceivesKeeps
<1> QED BY <1>1, <1>2, <1>3, <1>5, Disturbed

\* The status that says a session has started, and the one after its snapshot.
LEMMA SessionKeeps ==
    ASSUME IInv, SessionStarts \/ SnapshotDone
    PROVE  IInv'
<1>1. PICK p \in {"starting", "ready", "degraded"} : PublishStatus(p) /\ phase' = p
  BY DEF SessionStarts, SnapshotDone
<1>2. /\ calm' = 0 /\ UNCHANGED <<proc, alive, wills, linked, grace>>
      /\ UNCHANGED <<tracker, history>>
      /\ session \in {"connecting", "up", "dead"} /\ session' \in {"up", session}
      /\ due' \in {0, due} /\ alive
  BY DEF SessionStarts, SnapshotDone, IInv, Typed
<1>3. seq' = seq + 1 /\ seq \in Nat /\ seq < MaxSeq /\ MaxSeq \in Nat /\ heard' \in {0, heard}
  <2>1. seq' = seq + 1 /\ seq \in Nat /\ seq < MaxSeq /\ MaxSeq \in Nat
    BY <1>1, BoundAssumption DEF PublishStatus, IInv, Typed
  <2>2. heard' \in {0, heard}
    BY <1>1 DEF PublishStatus, Receives
  <2> QED BY <2>1, <2>2
<1>4. Onward
  BY <1>2, <1>3 DEF Onward
<1>5. Typed'
  <2>1. heard' \in 0..(Stale + 1) /\ 0 \in 0..(Heartbeat + 1) /\ due' \in 0..Heartbeat
        /\ seq' \in 0..MaxSeq
    BY <1>2, <1>3, TimeAssumption DEF IInv, Typed
  <2> QED BY <1>1, <1>2, <2>1 DEF IInv, Typed, Phases
<1>6. Sent'
  BY <1>1, <1>2, <1>5, PublishKeeps DEF Phases
<1> QED BY <1>2, <1>3, <1>4, <1>5, <1>6, Disturbed

\* Steps of a session that send nothing.
LEMMA SilentKeeps ==
    ASSUME IInv, Reply \/ PublishingTurns \/ LinkLost \/ Notices
    PROVE  IInv'
<1>1. /\ calm' = 0 /\ UNCHANGED <<proc, alive, retained, linked, wire, grace, heard>>
      /\ UNCHANGED <<tracker, history>>
  BY DEF Reply, PublishingTurns, LinkLost, Notices
<1>2. /\ phase' \in Phases \ {"offline"} /\ session' \in {"down", "up", "dead"} /\ alive
      /\ due' \in {0, due} /\ wills' \in {wills, wills \union {proc}}
  BY DEF Reply, PublishingTurns, LinkLost, Notices, IInv, Typed, Phases
<1>3. seq' \in {seq, seq + 1} /\ seq \in Nat /\ seq' <= MaxSeq /\ MaxSeq \in Nat /\ proc \in Nat \ {0}
  BY BoundAssumption DEF Reply, PublishingTurns, LinkLost, Notices, IInv, Typed,
     Procs
<1>4. Onward
  BY <1>1, <1>3 DEF Onward
<1>5. Typed'
  <2>1. 0 \in 0..(Heartbeat + 1) /\ due' \in 0..Heartbeat /\ seq' \in 0..MaxSeq
    BY <1>2, <1>3, TimeAssumption DEF IInv, Typed
  <2>2. wills' \subseteq 1..proc'
    BY <1>1, <1>2, <1>3 DEF IInv, Typed
  <2> QED BY <1>1, <1>2, <2>1, <2>2 DEF IInv, Typed
<1>6. KnownStatus \subseteq KnownStatus' /\ OnWire \subseteq OnWire'
  BY <1>1, <1>4, <1>5, StillKnown, StillOnWire DEF IInv
<1>7. unsent' \in Seq(KnownStatus')
  <2>1. unsent \in Seq(KnownStatus')
    BY <1>6, SeqMonotonic DEF IInv, Sent
  <2>2. CASE UNCHANGED unsent
    BY <2>1, <2>2
  <2>3. CASE LinkLost
    <3>1. unsent' = <<>> \/ (unsent' = <<retained>> /\ retained.i = proc)
      BY <2>3 DEF LinkLost
    <3>2. retained.i = proc => retained \in KnownStatus'
      BY <1>3, <1>6 DEF IInv, Sent, NoStatus
    <3>3. retained.i = proc => <<retained>> \in Seq(KnownStatus')
      BY <3>2
    <3> QED BY <3>1, <3>3, EmptySeq
  <2> QED BY <2>2, <2>3 DEF Reply, PublishingTurns, Notices
<1>8. Sent'
  <2>1. wire' \in Seq(OnWire')
    BY <1>1, <1>6, SeqMonotonic DEF IInv, Sent
  <2> QED BY <1>1, <1>6, <1>7, <2>1 DEF IInv, Sent
<1>9. heard' \in {0, heard}
  BY <1>1
<1> QED BY <1>1, <1>4, <1>5, <1>8, <1>9, Disturbed

\* Whatever a process says last, it has no say after that.
LEMMA GoneKeeps ==
    ASSUME IInv, Finish \/ Dies \/ StartupFails
    PROVE  IInv'
<1>1. /\ alive' = FALSE /\ session' = "down" /\ seq' = 0 /\ phase' = "starting" /\ due' = 0
      /\ unsent' = <<>> /\ calm' = 0 /\ UNCHANGED <<proc, linked, grace>>
      /\ UNCHANGED <<tracker, history>>
  BY DEF Finish, Dies, StartupFails, Gone
<1>2. wills' \in {wills, wills \union {proc}} /\ proc \in Nat \ {0} /\ seq \in 0..MaxSeq
      /\ MaxSeq \in Nat /\ proc \in Procs
  BY BoundAssumption DEF Finish, Dies, StartupFails, IInv, Typed, Procs
<1>3. Onward
  BY <1>1 DEF Onward
<1>4. \/ UNCHANGED <<retained, wire, heard>>
      \/ \E st \in Statuses : st.i = proc /\ Receives(<<st>>)
  <2>1. ASSUME NEW p \in Phases PROVE Built(p) \in Statuses /\ Built(p).i = proc
    BY <1>2 DEF Built, Statuses, Seqs
  <2>2. CASE Finish
    BY <2>1, <2>2 DEF Finish, Phases
  <2>3. CASE StartupFails
    <3> DEFINE st == [i |-> proc, s |-> 1, phase |-> "offline"]
    <3>1. st \in Statuses /\ st.i = proc
      BY <1>2 DEF Statuses, Seqs, Phases
    <3> QED BY <2>3, <3>1 DEF StartupFails
  <2>4. CASE Dies
    BY <2>4 DEF Dies
  <2> QED BY <2>2, <2>3, <2>4
<1>5. Typed'
  <2>1. heard' \in {0, heard}
    BY <1>4 DEF Receives
  <2>2. heard' \in 0..(Stale + 1) /\ 0 \in 0..(Heartbeat + 1) /\ 0 \in 0..Heartbeat
        /\ 0 \in 0..MaxSeq
    BY <1>2, <2>1, TimeAssumption DEF IInv, Typed
  <2>3. wills' \subseteq 1..proc'
    BY <1>1, <1>2 DEF IInv, Typed
  <2> QED BY <1>1, <1>2, <2>2, <2>3 DEF IInv, Typed, Phases
<1>6. Sent' /\ heard' \in {0, heard}
  <2>1. unsent' \in {<<>>, unsent}
    BY <1>1
  <2>2. CASE UNCHANGED <<retained, wire, heard>>
    <3>1. wire' \in {<<>>, wire} /\ (~linked' => wire' = <<>>) /\ heard' \in {0, heard}
      BY <1>1, <2>2 DEF IInv, Sent
    <3> QED BY <1>3, <1>5, <2>1, <2>2, <3>1, NothingSent
  <2>3. CASE \E st \in Statuses : st.i = proc /\ Receives(<<st>>)
    <3>1. PICK st \in Statuses : st.i = proc /\ Receives(<<st>>)
      BY <2>3
    <3>2. st \in KnownStatus'
      BY <1>1, <1>2, <3>1 DEF KnownStatus
    <3>3. <<st>> \in Seq(KnownStatus')
      BY <3>2
    <3> QED BY <1>1, <1>3, <1>5, <2>1, <3>1, <3>3, ReceivesKeeps
  <2> QED BY <1>4, <2>2, <2>3
<1> QED BY <1>1, <1>3, <1>5, <1>6, Disturbed

LEMMA StartKeeps ==
    ASSUME IInv, Start
    PROVE  IInv'
<1>1. /\ ~alive /\ proc < MaxProcs /\ proc' = proc + 1 /\ alive' = TRUE /\ calm' = 0
      /\ UNCHANGED <<seq, phase, session, due, unsent, wills, retained, linked, wire,
                     grace, heard>>
      /\ UNCHANGED <<tracker, history>>
  BY DEF Start
<1>2. Onward
  BY <1>1 DEF Onward
<1>3. Typed'
  <2>1. proc \in Nat /\ MaxProcs \in Nat /\ 0 \in 0..(Heartbeat + 1)
    BY BoundAssumption, TimeAssumption DEF IInv, Typed, Procs
  <2>2. proc' \in Procs /\ 1..proc \subseteq 1..proc'
    BY <1>1, <2>1 DEF Procs
  <2> QED BY <1>1, <2>1, <2>2 DEF IInv, Typed
<1>4. /\ unsent' \in {<<>>, unsent} /\ wire' \in {<<>>, wire} /\ (~linked' => wire' = <<>>)
      /\ heard' \in {0, heard}
  BY <1>1 DEF IInv, Sent
<1>5. Sent'
  BY <1>1, <1>2, <1>3, <1>4, NothingSent
<1> QED BY <1>1, <1>2, <1>3, <1>4, <1>5, Disturbed

----------------------------------------------------------------------------
(* Home Assistant                                                          *)

\* A replay is not live, and of a status that is known.
LEMMA ReplayKnown ==
    ASSUME retained \in KnownStatus \union {NoStatus}
    PROVE  Replay \in Seq(OnWire)
<1>1. CASE retained = NoStatus
  BY <1>1 DEF Replay
<1>2. CASE retained # NoStatus
  <2> DEFINE m == Copy(retained, TRUE)
  <2>1. /\ retained \in Statuses /\ retained.i <= proc
        /\ alive /\ retained.i = proc => retained.s <= seq
    BY <1>2 DEF KnownStatus
  <2>2. m \in OnWire
    BY <2>1 DEF Copy, Statuses, Messages, OnWire
  <2>3. Replay = <<m>>
    BY <1>2 DEF Replay
  <2> HIDE DEF m
  <2> QED BY <2>2, <2>3
<1> QED BY <1>1, <1>2

LEMMA LinkKeeps ==
    ASSUME IInv, HaLosesBroker \/ HaReconnects
    PROVE  IInv'
<1>1. /\ calm' = 0 /\ UNCHANGED <<proc, alive, seq, phase, session, due, unsent, wills,
                                  retained, grace, heard>>
      /\ UNCHANGED <<tracker, history>>
      /\ linked' \in BOOLEAN /\ wire' \in {<<>>, Replay} /\ (~linked' => wire' = <<>>)
  BY DEF HaLosesBroker, HaReconnects, bridge
<1>2. Typed' /\ Onward /\ heard' \in {0, heard}
  BY <1>1, TimeAssumption DEF IInv, Typed, Onward
<1>3. KnownStatus \subseteq KnownStatus' /\ OnWire \subseteq OnWire'
  BY <1>2, StillKnown, StillOnWire DEF IInv
<1>4. wire' \in Seq(OnWire')
  <2>1. wire' \in Seq(OnWire)
    BY <1>1, ReplayKnown, EmptySeq DEF IInv, Sent
  <2> QED BY <1>3, <2>1, SeqMonotonic
<1>5. unsent' \in Seq(KnownStatus')
  BY <1>1, <1>3, SeqMonotonic DEF IInv, Sent
<1>6. Sent'
  BY <1>1, <1>3, <1>4, <1>5 DEF IInv, Sent
<1> QED BY <1>1, <1>2, <1>6, Disturbed

LEMMA SetUpKeeps ==
    ASSUME IInv, SetUp
    PROVE  IInv'
<1>1. /\ status' = NoStatus /\ maxSeq' = NoSeq /\ retired' = <<>> /\ age' = 0
      /\ grace' = Grace /\ met' = {} /\ top' = 0 /\ stranger' = FALSE /\ calm' = 0
      /\ wire' = IF linked THEN wire \o Replay ELSE wire
      /\ UNCHANGED <<proc, alive, seq, phase, session, due, unsent, wills, retained, linked,
                     heard>>
  BY DEF SetUp, bridge
<1>2. Typed' /\ Onward /\ heard' \in {0, heard}
  BY <1>1, TimeAssumption DEF IInv, Typed, Onward
<1>3. KnownStatus \subseteq KnownStatus' /\ OnWire \subseteq OnWire'
  BY <1>2, StillKnown, StillOnWire DEF IInv
<1>4. wire' \in Seq(OnWire')
  <2>1. Replay \in Seq(OnWire) /\ wire \in Seq(OnWire)
    BY ReplayKnown DEF IInv, Sent
  <2>2. wire \o Replay \in Seq(OnWire)
    BY <2>1, ConcatProperties
  <2> QED BY <1>1, <1>3, <2>1, <2>2, SeqMonotonic
<1>5. unsent' \in Seq(KnownStatus')
  BY <1>1, <1>3, SeqMonotonic DEF IInv, Sent
<1>6. Sent'
  BY <1>1, <1>3, <1>4, <1>5 DEF IInv, Sent
<1>7. proc \in Nat \ {0} /\ seq \in Nat /\ due \in Nat
  BY DEF IInv, Typed, Procs
<1>8. Tracked'
  <2>1. retired' \in Seq(Procs) /\ Len(retired') <= Memory /\ age' \in 0..(Stale + 1)
    BY <1>1, BoundAssumption, TimeAssumption
  <2>2. status'.i <= proc' /\ maxSeq' <= seq' /\ top' \in 0..(MaxSeq + 1)
    BY <1>1, <1>7, BoundAssumption DEF NoStatus, NoSeq
  <2> QED BY <1>1, <2>1, <2>2 DEF Tracked
<1>9. Numbers' /\ Recent' /\ Ordered'
  <2>1. Range(<<>>) = {}
    BY DEF Range
  <2> QED BY <1>1, <2>1 DEF Numbers, Recent, Ordered, NoStatus
<1>10. Alone' /\ Timely'
  BY <1>1, <1>7 DEF Alone, Timely
<1> QED BY <1>2, <1>6, <1>8, <1>9, <1>10 DEF IInv

\* The tracker's state, in numbers.
LEMMA Judged ==
    ASSUME IInv
    PROVE  /\ status.i \in Nat /\ status.i <= proc
           /\ status # NoStatus => status \in Statuses /\ status.i \in Procs
           /\ status = NoStatus => met = {} /\ retired = <<>>
           /\ retired \in Seq(Procs) /\ Len(retired) <= Memory /\ Len(retired) \in Nat
           /\ met \subseteq 1..proc /\ stranger \in BOOLEAN
           /\ maxSeq \in Seqs \union {NoSeq} /\ maxSeq \in Int
           /\ alive /\ status.i = proc => maxSeq <= seq
           /\ top \in 0..(MaxSeq + 1) /\ age \in 0..(Stale + 1)
<1>1. /\ status \in Statuses \union {NoStatus} /\ maxSeq \in Seqs \union {NoSeq}
      /\ retired \in Seq(Procs) /\ Len(retired) <= Memory /\ age \in 0..(Stale + 1)
      /\ met \subseteq 1..proc /\ status.i <= proc
      /\ status = NoStatus => met = {} /\ retired = <<>>
      /\ alive /\ status.i = proc => maxSeq <= seq
      /\ top \in 0..(MaxSeq + 1) /\ stranger \in BOOLEAN
  BY DEF IInv, Tracked
<1>2. status # NoStatus => status \in Statuses /\ status.i \in Procs
  BY <1>1 DEF Statuses
<1>3. status.i \in Nat
  <2>1. NoStatus.i = 0
    BY DEF NoStatus
  <2> QED BY <1>2, <2>1 DEF Procs
<1>4. maxSeq \in Int
  BY <1>1 DEF Seqs
<1>5. Len(retired) \in Nat
  BY <1>1, LenProperties
<1> QED BY <1>1, <1>2, <1>3, <1>4, <1>5

\* What the tracker accepts.
LEMMA Accepted ==
    ASSUME IInv, NEW m \in OnWire, ~Replaced(m), ~OutOfOrder(m), Accept(m),
           met' = met \union {m.i},
           top' = IF m.s # NoSeq THEN m.s ELSE IF m.i = status.i THEN top ELSE 0,
           stranger' = (stranger \/ (m.i < status.i /\ m.i \notin met)),
           UNCHANGED <<proc, alive, seq>>
    PROVE  Tracked' /\ Numbers' /\ Ordered'
<1>1. /\ m.i \in Procs /\ m.s \in Seqs \union {NoSeq} /\ m.phase \in Phases
      /\ m.i <= proc /\ (alive /\ m.i = proc => m.s <= seq)
  BY DEF OnWire, Messages
<1>2. /\ status' = [i |-> m.i, s |-> m.s, phase |-> m.phase] /\ age' = 0
      /\ maxSeq' = IF m.s # NoSeq THEN m.s ELSE IF m.i = status.i THEN maxSeq ELSE NoSeq
  BY DEF Accept
<1>3. /\ m.i \in Nat /\ m.i >= 1 /\ m.i <= MaxProcs /\ Memory \in Nat \ {0}
      /\ proc \in Nat /\ seq \in Nat /\ MaxProcs \in Nat /\ MaxSeq \in Nat
  BY <1>1, BoundAssumption DEF Procs, IInv, Typed
<1>4. /\ status.i \in Nat /\ status.i <= proc
      /\ status # NoStatus => status \in Statuses /\ status.i \in Procs
      /\ status = NoStatus => met = {} /\ retired = <<>>
      /\ retired \in Seq(Procs) /\ Len(retired) <= Memory /\ Len(retired) \in Nat
      /\ met \subseteq 1..proc /\ stranger \in BOOLEAN
      /\ maxSeq \in Seqs \union {NoSeq} /\ maxSeq \in Int
      /\ alive /\ status.i = proc => maxSeq <= seq
      /\ top \in 0..(MaxSeq + 1)
  BY Judged
<1>5. status'.i = m.i /\ status' \in Statuses /\ status' # NoStatus
  <2>1. status' \in Statuses /\ status'.i = m.i
    BY <1>1, <1>2 DEF Statuses
  <2>2. NoStatus.i = 0
    BY DEF NoStatus
  <2> QED BY <1>3, <2>1, <2>2
<1>6. /\ maxSeq' \in Seqs \union {NoSeq} /\ age' \in 0..(Stale + 1)
      /\ met' \subseteq 1..proc' /\ status'.i <= proc' /\ stranger' \in BOOLEAN
  <2>1. maxSeq' \in Seqs \union {NoSeq}
    BY <1>1, <1>2, <1>4
  <2>2. age' \in 0..(Stale + 1)
    BY <1>2, TimeAssumption
  <2>3. met' \subseteq 1..proc'
    <3>1. m.i \in 1..proc /\ proc' = proc /\ met' = met \union {m.i}
      BY <1>1, <1>3
    <3> QED BY <1>4, <3>1, Zenon
  <2>4. stranger' \in BOOLEAN
    OBVIOUS
  <2> QED BY <1>1, <1>5, <2>1, <2>2, <2>3, <2>4
<1>7. top' \in 0..(MaxSeq + 1)
  BY <1>1, <1>3, <1>4 DEF Seqs
<1>8. alive' /\ status'.i = proc' => maxSeq' <= seq'
  BY <1>1, <1>2, <1>3, <1>4, <1>5
<1>9. Numbers'
  BY <1>1, <1>2, <1>3, <1>4 DEF IInv, Numbers
<1>10. /\ IsFiniteSet(met) /\ IsFiniteSet(met') /\ Cardinality(met) \in Nat
       /\ Cardinality(met') = IF m.i \in met THEN Cardinality(met) ELSE Cardinality(met) + 1
  <2>1. IsFiniteSet(1..proc)
    BY <1>3, FS_Interval
  <2>2. IsFiniteSet(met)
    BY <1>4, <2>1, FS_Subset
  <2> QED BY <2>2, FS_AddElement, FS_CardinalityType
<1>11. Remembers' => Remembers
  BY <1>3, <1>10 DEF Remembers
<1>12. CASE status = NoStatus \/ m.i = status.i
  <2>1. retired' = retired
    BY <1>12 DEF Accept
  <2>2. Tracked'
    BY <1>4, <1>5, <1>6, <1>7, <1>8, <2>1 DEF Tracked
  <2>3. Ordered'
    <3> SUFFICES ASSUME Remembers, Remembers', ~stranger' PROVE Ordered'
      BY <1>11 DEF Ordered
    <3>1. ~stranger
      OBVIOUS
    <3>2. CASE status = NoStatus
      <4>1. Range(retired') = {} /\ Len(retired') = 0
        BY <1>4, <2>1, <3>2 DEF Range
      <4>2. met' = {m.i}
        BY <1>4, <3>2
      <4>3. Len(retired') < Cardinality(met')
        <5>1. Cardinality({m.i}) = 1
          BY FS_Singleton, Zenon
        <5>2. Cardinality(met') = 1
          BY <4>2, <5>1
        <5> QED BY <4>1, <5>2
      <4> QED BY <1>5, <4>1, <4>2, <4>3 DEF Ordered
    <3>3. CASE status # NoStatus /\ m.i = status.i
      <4>1. /\ met \subseteq Range(retired) \union {status.i}
            /\ \A i \in Range(retired) : i < status.i
            /\ Len(retired) < Cardinality(met)
        BY <3>1, <3>3 DEF IInv, Ordered
      <4>2. Len(retired') < Cardinality(met')
        BY <1>4, <1>10, <2>1, <4>1
      <4> QED BY <1>5, <2>1, <3>3, <4>1, <4>2 DEF Ordered
    <3> QED BY <1>12, <3>2, <3>3
  <2> QED BY <1>9, <2>2, <2>3
<1>13. CASE status # NoStatus /\ m.i # status.i
  <2> DEFINE r == Append(retired, status.i)
  <2>1. retired' = IF Len(r) > Memory THEN Tail(r) ELSE r
    BY <1>13 DEF Accept
  <2>2. /\ r \in Seq(Procs) /\ Len(r) = Len(retired) + 1 /\ r # <<>>
        /\ Range(r) = Range(retired) \union {status.i}
    BY <1>4, <1>13, Appended
  <2>3. Tail(r) \in Seq(Procs) /\ Len(Tail(r)) = Len(r) - 1
    BY <2>2, Shortened
  <2> HIDE DEF r
  <2>4. retired' \in Seq(Procs) /\ Len(retired') <= Memory
    BY <1>3, <1>4, <2>1, <2>2, <2>3
  <2>5. Tracked'
    BY <1>5, <1>6, <1>7, <1>8, <2>4 DEF Tracked
  <2>6. Ordered'
    <3> SUFFICES ASSUME Remembers, Remembers', ~stranger' PROVE Ordered'
      BY <1>11 DEF Ordered
    <3>1. /\ met \subseteq Range(retired) \union {status.i}
          /\ \A i \in Range(retired) : i < status.i
          /\ Len(retired) < Cardinality(met)
      BY <1>13 DEF IInv, Ordered
    <3>2. m.i \notin met
      <4>1. m.i \notin Range(retired)
        BY DEF Replaced
      <4> QED BY <1>13, <3>1, <4>1
    <3>3. status.i < m.i
      <4>1. ~(m.i < status.i)
        BY <3>2
      <4> QED BY <1>3, <1>4, <1>13, <4>1
    <3>4. Len(r) < Cardinality(met')
      BY <1>4, <1>10, <2>2, <3>1, <3>2
    <3>5. retired' = r
      BY <1>3, <1>4, <1>10, <2>1, <2>2, <3>4, <3>2 DEF Remembers
    <3>6. \A i \in Range(r) : i < m.i
      <4> SUFFICES ASSUME NEW i \in Range(r) PROVE i < m.i
        OBVIOUS
      <4>1. CASE i \in Range(retired)
        <5>1. i \in Nat
          <6>1. Range(retired) \subseteq Procs
            BY <1>4, RangeOfSeq
          <6> QED BY <1>3, <4>1, <6>1 DEF Procs
        <5>2. i < status.i
          BY <3>1, <4>1
        <5> QED BY <1>3, <1>4, <3>3, <5>1, <5>2
      <4>2. CASE i = status.i
        BY <3>3, <4>2
      <4> QED BY <2>2, <4>1, <4>2
    <3>7. met' \subseteq Range(r) \union {m.i}
      BY <2>2, <3>1
    <3> QED BY <1>5, <3>4, <3>5, <3>6, <3>7 DEF Ordered
  <2> QED BY <1>9, <2>5, <2>6
<1> QED BY <1>12, <1>13

LEMMA DeliverKeeps ==
    ASSUME IInv, Deliver
    PROVE  IInv'
<1> DEFINE m == Head(wire)
           live == Live(m) /\ ~Replaced(m) /\ ~OutOfOrder(m)
<1>1. /\ linked /\ wire # <<>> /\ wire' = Tail(wire)
      /\ UNCHANGED <<proc, alive, seq, phase, session, due, unsent, wills, retained, linked,
                     grace, heard, calm>>
  BY DEF Deliver, bridge
<1>2. m \in OnWire /\ Tail(wire) \in Seq(OnWire) /\ Typed /\ Alone /\ Timely /\ Recent
  BY <1>1, Shortened DEF IInv, Sent
<1>3. Typed'
  BY <1>1, <1>2 DEF Typed
<1>4. KnownStatus' = KnownStatus /\ OnWire' = OnWire
  BY <1>1 DEF KnownStatus, OnWire
<1>5. Sent'
  BY <1>1, <1>2, <1>4 DEF IInv, Sent
<1>6. Alone'
  <2>1. CASE calm > 0
    <3>1. wire = <<Copy([i |-> proc, s |-> seq, phase |-> phase], FALSE)>>
      BY <1>1, <1>2, <2>1 DEF Alone
    <3>2. wire' = <<>>
      BY <1>1, <3>1
    <3> QED BY <3>2 DEF Alone
  <2>2. CASE ~(calm > 0)
    BY <1>1, <2>2 DEF Alone
  <2> QED BY <2>1, <2>2
\* When only heartbeats happen, this is the latest of them.
<1>7. ASSUME calm > due
      PROVE  /\ m.i = proc /\ m.s = seq /\ m.phase = phase /\ m.retain = FALSE
             /\ status.i = proc => maxSeq < seq
  <2>1. calm > 0
    BY <1>2, <1>7 DEF Typed
  <2>2. /\ wire = <<Copy([i |-> proc, s |-> seq, phase |-> phase], FALSE)>>
        /\ status.i = proc => maxSeq < seq
    BY <1>1, <1>2, <2>1 DEF Alone
  <2>3. m = Copy([i |-> proc, s |-> seq, phase |-> phase], FALSE)
    BY <2>2
  <2> QED BY <2>2, <2>3 DEF Copy
<1>8. CASE live
  <2>1. /\ Accept(m) /\ met' = met \union {m.i}
        /\ top' = IF m.s # NoSeq THEN m.s ELSE IF m.i = status.i THEN top ELSE 0
        /\ stranger' = (stranger \/ (m.i < status.i /\ m.i \notin met))
    BY <1>8 DEF Deliver
  <2> HIDE DEF m
  <2>2. Tracked' /\ Numbers' /\ Ordered'
    BY <1>1, <1>2, <1>8, <2>1, Accepted
  <2>3. status' = [i |-> m.i, s |-> m.s, phase |-> m.phase] /\ age' = 0
    BY <2>1 DEF Accept
  <2>4. Recent'
    BY <1>1, <1>2, <1>8, <2>3 DEF Recent, Live, OnWire
  <2>5. Timely'
    <3> SUFFICES ASSUME calm' > due', phase' = "ready"
                 PROVE  status'.i = proc' /\ status'.phase = "ready" /\ age' <= due'
      BY DEF Timely
    <3> QED BY <1>1, <1>2, <1>7, <2>3 DEF Typed
  <2> QED BY <1>3, <1>5, <1>6, <2>2, <2>4, <2>5 DEF IInv
<1>9. CASE ~live
  <2>1. UNCHANGED <<status, maxSeq, retired, age, met, top, stranger>>
    BY <1>9 DEF Deliver, tracker, history
  <2> HIDE DEF m
  <2>2. Tracked' /\ Numbers' /\ Recent' /\ Ordered'
    BY <1>1, <2>1 DEF IInv, Tracked, Numbers, Recent, Ordered,
       Remembers
  <2>3. Timely'
    <3> SUFFICES ASSUME Remembers, ~stranger, calm > due PROVE FALSE
      BY <1>1, <2>1 DEF Timely, Remembers
    <3>1. Live(m) /\ ~OutOfOrder(m)
      <4>1. seq \in Nat /\ maxSeq \in Int
        BY <1>2, Judged DEF Typed
      <4>2. Live(m)
        BY <1>7, Zenon DEF Live
      <4>3. ~OutOfOrder(m)
        BY <1>7, <4>1 DEF OutOfOrder
      <4> QED BY <4>2, <4>3
    <3>2. ~Replaced(m)
      <4> SUFFICES ASSUME proc \in Range(retired) PROVE FALSE
        BY <1>7 DEF Replaced
      <4>1. proc < status.i
        BY DEF IInv, Ordered
      <4> QED BY <1>2, <4>1, Judged DEF Typed, Procs
    <3> QED BY <1>9, <3>1, <3>2
  <2> QED BY <1>3, <1>5, <1>6, <2>2, <2>3 DEF IInv
<1> QED BY <1>8, <1>9

----------------------------------------------------------------------------
(* Time                                                                    *)

LEMMA BeatKeeps ==
    ASSUME IInv, Beat
    PROVE  IInv'
<1>1. /\ session \in {"up", "dead"} /\ due = Heartbeat /\ due' = 0 /\ PublishStatus(phase)
      /\ UNCHANGED <<proc, alive, phase, session, wills, linked, grace, calm>>
      /\ UNCHANGED <<status, maxSeq, retired, age, met, top, stranger>>
  BY DEF Beat, tracker, history
<1>2. /\ seq' = seq + 1 /\ seq \in Nat /\ seq < MaxSeq /\ MaxSeq \in Nat /\ alive
      /\ proc \in Nat /\ heard' \in {0, heard} /\ heard \in Nat /\ age \in Nat
      /\ phase \in Phases /\ calm \in Nat
  <2>1. seq' = seq + 1 /\ seq < MaxSeq /\ heard' \in {0, heard}
    BY <1>1 DEF PublishStatus, Receives
  <2>2. /\ seq \in 0..MaxSeq /\ alive /\ proc \in Procs /\ heard \in 0..(Stale + 1)
        /\ phase \in Phases /\ calm \in 0..(Heartbeat + 1)
    BY <1>1 DEF IInv, Typed
  <2> QED BY <2>1, <2>2, Judged, BoundAssumption DEF Procs
<1>3. Typed'
  <2>1. seq' \in 0..MaxSeq /\ due' \in 0..Heartbeat /\ heard' \in 0..(Stale + 1)
    BY <1>1, <1>2, TimeAssumption DEF IInv, Typed
  <2> QED BY <1>1, <2>1 DEF IInv, Typed
<1>4. Sent'
  BY <1>1, <1>2, <1>3, PublishKeeps
<1>5. Tracked'
  <2>1. alive' /\ status'.i = proc' => maxSeq' <= seq'
    BY <1>1, <1>2, Judged
  <2> QED BY <1>1, <2>1 DEF IInv, Tracked
<1>6. Numbers' /\ Ordered'
  BY <1>1 DEF IInv, Numbers, Ordered, Remembers
<1>7. Recent'
  BY <1>1, <1>2 DEF IInv, Recent
\* The heartbeat before this one has been delivered.
<1>8. calm > 0 => wire = <<>>
  BY <1>1, TimeAssumption DEF IInv, Alone
<1>9. Alone'
  <2> SUFFICES ASSUME calm > 0, wire' # <<>> PROVE Alone'
    BY <1>1 DEF Alone
  <2>1. wire = <<>>
    BY <1>8
  <2>2. session = "up" /\ Receives(<<Built(phase)>>) /\ linked
    BY <1>1, <2>1 DEF PublishStatus, Receives
  <2> DEFINE q == <<Built(phase)>>
  <2>3. wire' = <<>> \o [k \in DOMAIN q |-> Copy(q[k], FALSE)]
    BY <2>1, <2>2 DEF Receives
  <2>4. [k \in DOMAIN q |-> Copy(q[k], FALSE)] = <<Copy(Built(phase), FALSE)>>
    BY OneCopy
  <2>5. wire' = <<Copy([i |-> proc', s |-> seq', phase |-> phase'], FALSE)>>
    BY <1>1, <1>2, <2>3, <2>4 DEF Built, Copy
  <2>6. status'.i = proc' => maxSeq' < seq'
    BY <1>1, <1>2, Judged
  <2> QED BY <1>1, <2>2, <2>5, <2>6 DEF Alone
<1>10. Timely'
  <2> SUFFICES ASSUME calm > 0, session = "up", linked, wire' = <<>> PROVE FALSE
    BY <1>1, <1>2 DEF Timely
  <2>1. wire' = wire \o [k \in DOMAIN <<Built(phase)>> |-> Copy(<<Built(phase)>>[k], FALSE)]
    BY <1>1 DEF PublishStatus, Receives
  <2>2. wire = <<>>
    BY <1>8
  <2>3. [k \in DOMAIN <<Built(phase)>> |-> Copy(<<Built(phase)>>[k], FALSE)]
        = <<Copy(Built(phase), FALSE)>>
    BY OneCopy
  <2> QED BY <2>1, <2>2, <2>3
<1> QED BY <1>3, <1>4, <1>5, <1>6, <1>7, <1>9, <1>10 DEF IInv

LEMMA TickKeeps ==
    ASSUME IInv, Tick
    PROVE  IInv'
<1>1. /\ wire = <<>> /\ session # "connecting" /\ (session = "up" => due < Heartbeat)
      /\ due' = IF session \in {"up", "dead"} THEN Up(due, Heartbeat) ELSE due
      /\ age' = IF status = NoStatus THEN age ELSE Up(age, Stale + 1)
      /\ grace' = IF grace > 0 THEN grace - 1 ELSE 0
      /\ heard' = Up(heard, Stale + 1) /\ calm' = Up(calm, Heartbeat + 1)
      /\ UNCHANGED <<proc, alive, seq, phase, session, unsent, wills, retained, linked,
                     wire, status, maxSeq, retired, met, top, stranger>>
  BY DEF Tick, history
<1>2. /\ due \in 0..Heartbeat /\ age \in 0..(Stale + 1) /\ grace \in 0..Grace
      /\ heard \in 0..(Stale + 1) /\ calm \in 0..(Heartbeat + 1)
      /\ Heartbeat \in Nat /\ Stale \in Nat /\ Grace \in Nat
  BY TimeAssumption DEF IInv, Typed, Tracked
<1>3. /\ due' \in 0..Heartbeat /\ age' \in 0..(Stale + 1) /\ grace' \in 0..Grace
      /\ heard' \in 0..(Stale + 1) /\ calm' \in 0..(Heartbeat + 1)
  BY <1>1, <1>2 DEF Up
<1>4. Typed'
  BY <1>1, <1>3 DEF IInv, Typed
<1>5. KnownStatus' = KnownStatus
  BY <1>1 DEF KnownStatus
<1>6. Sent'
  <2>1. unsent' \in Seq(KnownStatus') /\ retained' \in KnownStatus' \union {NoStatus}
    BY <1>1, <1>5 DEF IInv, Sent
  <2>2. wire' \in Seq(OnWire')
    BY <1>1
  <2> QED BY <1>1, <2>1, <2>2 DEF Sent
<1>7. Tracked' /\ Numbers' /\ Ordered' /\ Alone'
  BY <1>1, <1>3 DEF IInv, Tracked, Numbers, Ordered, Alone, Remembers
<1>8. Recent'
  <2> SUFFICES ASSUME status.phase = "ready" PROVE heard' <= age'
    BY <1>1 DEF Recent
  <2>1. status # NoStatus
    BY DEF NoStatus
  <2> QED BY <1>1, <1>2, <2>1 DEF IInv, Recent, Up
<1>9. Timely'
  <2> SUFFICES ASSUME Remembers, ~stranger, linked, session = "up", phase = "ready",
                      calm' > due'
               PROVE  status.i = proc /\ status.phase = "ready" /\ age' <= due'
    BY <1>1 DEF Timely, Remembers
  <2>1. due < Heartbeat /\ due' = due + 1
    BY <1>1, <1>2 DEF Up
  <2>2. calm > due
    BY <1>1, <1>2, <2>1 DEF Up
  <2>3. status.i = proc /\ status.phase = "ready" /\ age <= due
    BY <1>1, <2>2 DEF IInv, Timely
  <2> QED BY <1>1, <1>2, <2>1, <2>3 DEF Up
<1> QED BY <1>4, <1>6, <1>7, <1>8, <1>9 DEF IInv

----------------------------------------------------------------------------
(* The invariant                                                           *)

LEMMA InitIInv == Init => IInv
<1> SUFFICES ASSUME Init PROVE IInv
  OBVIOUS
<1>1. Typed /\ Sent
  <2>1. Typed
    BY TimeAssumption, BoundAssumption DEF Init, Typed, Procs, Phases
  <2> QED BY <2>1 DEF Init, Sent
<1>2. Tracked
  <2>1. /\ status = NoStatus /\ maxSeq = NoSeq /\ retired = <<>> /\ age = 0 /\ met = {}
        /\ proc = 1 /\ seq = 0 /\ top = 0 /\ stranger = FALSE
    BY DEF Init
  <2>2. retired \in Seq(Procs) /\ Len(retired) <= Memory /\ age \in 0..(Stale + 1)
    BY <2>1, BoundAssumption, TimeAssumption
  <2>3. status.i <= proc /\ maxSeq <= seq /\ top \in 0..(MaxSeq + 1)
    BY <2>1, BoundAssumption DEF NoStatus, NoSeq
  <2> QED BY <2>1, <2>2, <2>3 DEF Tracked
<1>3. Range(<<>>) = {}
  BY DEF Range
<1> QED
  BY <1>1, <1>2, <1>3 DEF Init, IInv, Numbers, Recent, Ordered, Alone, Timely,
     NoStatus

LEMMA StepKeeps == IInv /\ [Next]_vars => IInv'
<1> SUFFICES ASSUME IInv, [Next]_vars PROVE IInv'
  OBVIOUS
<1>1. ASSUME Next PROVE IInv'
  BY <1>1, WillKeeps, ConnectKeeps, SessionKeeps, BeatKeeps, SilentKeeps, GoneKeeps,
     StartKeeps, DeliverKeeps, SetUpKeeps, LinkKeeps, TickKeeps DEF Next
<1>2. ASSUME UNCHANGED vars PROVE IInv'
  <2>1. /\ UNCHANGED <<proc, alive, seq, phase, session, due, unsent>>
        /\ UNCHANGED <<wills, retained, linked, wire, grace, heard, calm>>
        /\ UNCHANGED <<status, maxSeq, retired, age, met, top, stranger>>
    BY <1>2 DEF vars, bridge, tracker, history
  <2>2. KnownStatus' = KnownStatus /\ OnWire' = OnWire
    BY <2>1 DEF KnownStatus, OnWire
  <2>3. Typed' /\ Sent' /\ Tracked'
    BY <2>1, <2>2 DEF IInv, Typed, Sent, Tracked
  <2>4. Numbers' /\ Recent' /\ Ordered' /\ Alone' /\ Timely'
    BY <2>1 DEF IInv, Numbers, Recent, Ordered, Alone, Timely, Remembers
  <2> QED BY <2>3, <2>4 DEF IInv
<1> QED BY <1>1, <1>2

THEOREM Invariance == Spec => []IInv
BY InitIInv, StepKeeps, PTL DEF Spec

----------------------------------------------------------------------------
(* The theorems                                                            *)

\* Bridge, broker and tracker keep to what they are made of.
THEOREM Typing == Spec => []TypeOK
<1>1. ASSUME IInv PROVE TypeOK
  <2>1. proc \in Nat /\ proc <= MaxProcs /\ 1..proc \subseteq Procs
    BY <1>1, BoundAssumption DEF IInv, Typed, Procs
  <2>2. wills \subseteq Procs /\ met \subseteq Procs /\ seq \in 0..(MaxSeq + 1)
    BY <1>1, <2>1, BoundAssumption DEF IInv, Typed, Tracked
  <2>3. unsent \in Seq(Statuses) /\ retained \in Statuses \cup {NoStatus}
        /\ wire \in Seq(Messages)
    <3>1. KnownStatus \subseteq Statuses /\ OnWire \subseteq Messages
      BY DEF KnownStatus, OnWire
    <3>2. unsent \in Seq(KnownStatus) /\ retained \in KnownStatus \union {NoStatus}
          /\ wire \in Seq(OnWire)
      BY <1>1 DEF IInv, Sent
    <3> QED BY <3>1, <3>2, SeqMonotonic
  <2> QED BY <1>1, <2>2, <2>3 DEF TypeOK, IInv, Typed, Tracked
<1> QED BY <1>1, Invariance, PTL

\* "healthy" is founded on a ready status the broker was sent less than Stale
\* ago: a replay of the retained one is never why, and every live one that is
\* ready was sent a moment ago.
THEOREM FoundedVerdict == Spec => []Founded
<1>1. ASSUME IInv PROVE Founded
  <2> SUFFICES ASSUME BridgeState = "healthy" PROVE heard <= Stale
    BY DEF Founded
  <2>1. age <= Stale /\ status.phase = "ready"
    <3>1. age \in Nat /\ Stale \in Nat
      BY <1>1, Judged, TimeAssumption
    <3>2. status # NoStatus => status.phase \in Phases
      BY <1>1, Judged DEF Statuses
    <3> QED BY <3>1, <3>2 DEF BridgeState, Phases
  <2>2. heard <= age /\ heard \in Nat /\ age \in Nat /\ Stale \in Nat
    BY <1>1, <2>1, Judged, TimeAssumption DEF IInv, Typed, Recent
  <2> QED BY <2>1, <2>2
<1> QED BY <1>1, Invariance, PTL

\* No status counts twice, not even after a last will, which leaves the number
\* of the last heartbeat to compare with.
THEOREM NumbersOnce == Spec => NeverAgain
<1> DEFINE Counts == status' # status /\ status'.i = status.i /\ status'.s # NoSeq
                     => top < status'.s
<1>1. ASSUME IInv, Next PROVE Counts
  <2> SUFFICES ASSUME status' # status, status'.i = status.i, status'.s # NoSeq
               PROVE  top < status'.s
    OBVIOUS
  <2>1. Deliver \/ SetUp
    BY <1>1 DEF Next, Will, Connect, SessionStarts, SnapshotDone, Beat, Reply,
       PublishingTurns, LinkLost, Notices, Finish, Dies, StartupFails, Gone, Start,
       HaLosesBroker, HaReconnects, Tick, tracker
  <2>2. ~SetUp
    BY DEF SetUp, NoStatus
  <2> DEFINE m == Head(wire)
  <2>3. ~OutOfOrder(m) /\ Accept(m) /\ m \in OnWire
    <3>1. Live(m) /\ ~Replaced(m) /\ ~OutOfOrder(m) /\ Accept(m)
      BY <2>1, <2>2 DEF Deliver, tracker
    <3>2. m \in OnWire
      BY <1>1, <2>1, <2>2, Shortened DEF Deliver, IInv, Sent
    <3> QED BY <3>1, <3>2
  <2> HIDE DEF m
  <2>4. m.i = status.i /\ m.s = status'.s /\ m.s \in Seqs
    BY <2>3 DEF Accept, OnWire, Messages
  <2>5. maxSeq = NoSeq \/ maxSeq < m.s
    BY <1>1, <2>3, <2>4, Judged DEF OutOfOrder, Seqs
  <2> QED BY <1>1, <2>4, <2>5 DEF IInv, Numbers, Seqs
<1>2. ASSUME IInv, UNCHANGED vars PROVE Counts
  BY <1>2 DEF vars, tracker
<1>3. IInv /\ [Next]_vars => [Counts]_vars
  BY <1>1, <1>2
<1> QED BY <1>3, Invariance, PTL DEF Spec, NeverAgain

\* As long as the tracker has met no more processes than it remembers, one that
\* was replaced has no say any more. (Without the condition it is false: a
\* process that has been forgotten may take over again.)
THEOREM NewestVerdict == Spec => [](Remembers => NewestCounts)
<1>1. ASSUME IInv, Remembers PROVE NewestCounts
  <2> SUFFICES ASSUME ~stranger, NEW i \in met PROVE i <= status.i
    BY DEF NewestCounts
  <2>1. i \in Range(retired) \/ i = status.i
    BY <1>1 DEF IInv, Ordered
  <2>2. i \in Nat
    BY <1>1, Judged
  <2>3. CASE i \in Range(retired)
    BY <1>1, <2>2, <2>3, Judged DEF IInv, Ordered
  <2>4. CASE i = status.i
    BY <1>1, <2>4, Judged
  <2> QED BY <2>1, <2>3, <2>4
<1> QED BY <1>1, Invariance, PTL

\* And a bridge that has been up and ready for a heartbeat, with Home Assistant
\* connected, is healthy, whatever wills, replays and lost statuses came before.
THEOREM Heals == Spec => [](Remembers => HealsInTime)
<1>1. ASSUME IInv, Remembers PROVE HealsInTime
  <2> SUFFICES ASSUME calm > Heartbeat, wire = <<>>, linked, session = "up",
                      phase = "ready", ~stranger
               PROVE  BridgeState = "healthy"
    BY DEF HealsInTime
  <2>1. calm \in Nat /\ due \in Nat /\ due <= Heartbeat
    BY <1>1 DEF IInv, Typed
  <2>2. status.phase = "ready" /\ age <= due
    BY <1>1, <2>1, TimeAssumption DEF IInv, Timely
  <2>3. ~(age > Stale)
    BY <1>1, <2>1, <2>2, Judged, TimeAssumption
  <2>4. status # NoStatus
    BY <2>2 DEF NoStatus
  <2> QED BY <2>2, <2>3, <2>4 DEF BridgeState
<1> QED BY <1>1, Invariance, PTL

=============================================================================
