------------------------- MODULE SwitchEventsProofs -------------------------
(***************************************************************************)
(* What becomes of a press, for every set of inputs, queue length, window  *)
(* and pause: the frames of an action are one event, which fires once, and *)
(* no press is lost without a trace.                                       *)
(***************************************************************************)
EXTENDS SwitchEvents, SequenceTheorems, TLAPS

----------------------------------------------------------------------------
(* The inductive invariant                                                 *)

\* The decoder remembers an action for as long as its frames may come.
Remembered ==
    /\ Len(act) <= MaxActions
    /\ \A n \in heard : seen[Key(n)] <= since[n]
    /\ \A n \in heard : act[n].phase \in {"PRESS", "RELEASE"} => "button" \in act[n].streams

\* An event is queued once, and once handed to the MQTT client.
Once ==
    /\ IsInjective(queue) /\ IsInjective(handed)
    /\ ToSet(queue) \intersect ToSet(handed) = {}
    /\ ToSet(queue) \union ToSet(handed) \subseteq heard

\* What the broker does not have was not on its way to Home Assistant, unless
\* it is there again.
Passed ==
    /\ unacked \union ToSet(wire) \union received \subseteq ToSet(handed)
    /\ \A n \in (unacked \ reached) \ again : n \notin ToSet(wire) \union received

\* What fires was received; what is received twice at once is a duplicate.
Fires ==
    /\ saving \subseteq received
    /\ \A n \in Actions : n \notin received => fired[n] = 0
    /\ \A n \in received \ again : fired[n] <= 1 /\ (n \in saving => fired[n] = 0)
    /\ \A n \in (received \intersect ToSet(wire)) \ again : lastSeen[Payload(n)] = 0

\* What makes an event a duplicate was published, and fires.
Explained ==
    /\ \A k \in Keys : last[k] < Dedup => \E m \in ToSet(handed) : Key(m) = k
    /\ \A p \in Payloads :
          lastSeen[p] < Dedup =>
             \E m \in received : Payload(m) = p /\ (m \in saving \/ fired[m] > 0)

IInv ==
    /\ TypeOK /\ Remembered /\ Once /\ Passed /\ Fires /\ Explained
    /\ EveryPressCounts

----------------------------------------------------------------------------
(* Sequences as sets                                                       *)

LEMMA SetOfSeq ==
    ASSUME NEW S, NEW s \in Seq(S)
    PROVE  ToSet(s) \subseteq S /\ s \in Seq(ToSet(s))
<1>1. /\ Len(s) \in Nat /\ DOMAIN s = 1..Len(s) /\ s \in [1..Len(s) -> S]
  BY LenProperties
<1>2. ToSet(s) \subseteq S
  BY <1>1 DEF ToSet
<1>3. s \in Seq(Range(s))
  BY SeqOfRange
<1>4. Range(s) = ToSet(s)
  BY DEF Range, ToSet
<1> QED BY <1>2, <1>3, <1>4

LEMMA SetOfAppend ==
    ASSUME NEW S, NEW s \in Seq(S), NEW x \in S
    PROVE  /\ Append(s, x) \in Seq(S) /\ Len(Append(s, x)) = Len(s) + 1
           /\ ToSet(Append(s, x)) = ToSet(s) \union {x}
           /\ IsInjective(s) /\ x \notin ToSet(s) => IsInjective(Append(s, x))
<1> DEFINE t == Append(s, x)
<1>1. /\ Len(s) \in Nat /\ t \in Seq(S) /\ Len(t) = Len(s) + 1
      /\ DOMAIN s = 1..Len(s) /\ DOMAIN t = 1..Len(t)
      /\ \A i \in 1..Len(s) : t[i] = s[i]
      /\ t[Len(s) + 1] = x
  BY AppendProperties, LenProperties
<1> HIDE DEF t
<1>2. ToSet(t) = ToSet(s) \union {x}
  <2>1. ToSet(t) \subseteq ToSet(s) \union {x}
    <3> SUFFICES ASSUME NEW i \in DOMAIN t, t[i] # x PROVE t[i] \in ToSet(s)
      BY DEF ToSet
    <3>1. i \in 1..Len(s)
      BY <1>1
    <3> QED BY <1>1, <3>1 DEF ToSet
  <2>2. ASSUME NEW i \in DOMAIN s PROVE s[i] \in ToSet(t)
    <3>1. i \in DOMAIN t /\ t[i] = s[i]
      BY <1>1
    <3> QED BY <3>1 DEF ToSet
  <2>3. x \in ToSet(t)
    <3>1. Len(s) + 1 \in DOMAIN t
      BY <1>1
    <3> QED BY <1>1, <3>1 DEF ToSet
  <2> QED BY <2>1, <2>2, <2>3 DEF ToSet
<1>3. ASSUME IsInjective(s), x \notin ToSet(s) PROVE IsInjective(t)
  <2>1. \A i \in DOMAIN s : s[i] # x
    BY <1>3 DEF ToSet
  <2> QED BY <1>1, <1>3, <2>1 DEF IsInjective
<1> QED BY <1>1, <1>2, <1>3 DEF t

LEMMA SetOfTail ==
    ASSUME NEW S, NEW s \in Seq(S), s # <<>>
    PROVE  /\ Head(s) \in S /\ Tail(s) \in Seq(S) /\ Len(Tail(s)) = Len(s) - 1
           /\ ToSet(s) = {Head(s)} \union ToSet(Tail(s))
           /\ IsInjective(s) => IsInjective(Tail(s)) /\ Head(s) \notin ToSet(Tail(s))
<1> DEFINE t == Tail(s)
<1>1. /\ Len(s) \in Nat \ {0} /\ Len(t) = Len(s) - 1 /\ Len(t) \in Nat
      /\ t \in Seq(S) /\ Head(s) \in S /\ Head(s) = s[1]
      /\ DOMAIN s = 1..Len(s) /\ DOMAIN t = 1..Len(t)
      /\ \A i \in 1..Len(t) : t[i] = s[i + 1]
  BY HeadTailProperties, LenProperties, EmptySeq
<1> HIDE DEF t
<1>2. ToSet(s) \subseteq {Head(s)} \union ToSet(t)
  <2> SUFFICES ASSUME NEW i \in DOMAIN s, i # 1 PROVE s[i] \in ToSet(t)
    BY <1>1 DEF ToSet
  <2>1. i - 1 \in DOMAIN t /\ t[i - 1] = s[i]
    BY <1>1
  <2> QED BY <2>1 DEF ToSet
<1>3. {Head(s)} \union ToSet(t) \subseteq ToSet(s)
  <2>1. 1 \in DOMAIN s
    BY <1>1
  <2>2. ASSUME NEW i \in DOMAIN t PROVE t[i] \in ToSet(s)
    <3>1. i + 1 \in DOMAIN s /\ t[i] = s[i + 1]
      BY <1>1
    <3> QED BY <3>1 DEF ToSet
  <2> QED BY <1>1, <2>1, <2>2 DEF ToSet
<1>4. ASSUME IsInjective(s) PROVE IsInjective(t) /\ Head(s) \notin ToSet(t)
  <2>1. ASSUME NEW i \in DOMAIN t, NEW j \in DOMAIN t, t[i] = t[j] PROVE i = j
    <3>1. i + 1 \in DOMAIN s /\ j + 1 \in DOMAIN s /\ s[i + 1] = s[j + 1]
      BY <1>1, <2>1
    <3>2. i + 1 = j + 1
      BY <1>4, <3>1 DEF IsInjective
    <3> QED BY <1>1, <3>2
  <2>2. ASSUME NEW i \in DOMAIN t PROVE t[i] # Head(s)
    <3>1. i + 1 \in DOMAIN s /\ 1 \in DOMAIN s /\ i + 1 # 1 /\ t[i] = s[i + 1]
      BY <1>1
    <3> QED BY <1>1, <1>4, <3>1 DEF IsInjective
  <2> QED BY <2>1, <2>2 DEF IsInjective, ToSet
<1> QED BY <1>1, <1>2, <1>3, <1>4 DEF t

\* What is delivered at least once is put once or twice on the wire.
LEMMA SetOfConcat ==
    ASSUME NEW S, NEW s \in Seq(S), NEW n \in S,
           NEW t, t = s \o <<n>> \/ t = s \o <<n, n>>
    PROVE  t \in Seq(S) /\ ToSet(t) = ToSet(s) \union {n}
<1>1. <<n>> \in Seq(S) /\ <<n, n>> \in Seq(S)
  OBVIOUS
<1>2. ASSUME NEW u \in Seq(S), t = s \o u
      PROVE  t \in Seq(S) /\ Range(t) = Range(s) \union Range(u)
  BY <1>2, ConcatProperties, RangeConcatenation
<1>3. Range(<<n>>) = {n} /\ Range(<<n, n>>) = {n}
  BY DEF Range
<1>4. Range(t) = ToSet(t) /\ Range(s) = ToSet(s)
  BY DEF Range, ToSet
<1> QED BY <1>1, <1>2, <1>3, <1>4

----------------------------------------------------------------------------
(* The invariant is inductive                                              *)

\* What every step needs to know of the types.
LEMMA Types ==
    ASSUME TypeOK
    PROVE  /\ Len(act) \in Nat /\ Happened = 1..Len(act)
           /\ \A n \in Happened : /\ act[n] \in Inputs
                                  /\ Key(n) \in Keys /\ Payload(n) \in Payloads
                                  /\ since[n] \in 0..Old
           /\ Window \in Nat /\ Spread \in Nat /\ Dedup \in Nat /\ Pause \in Nat
           /\ 0 < Dedup /\ Dedup <= Window /\ Spread < Window /\ Old = Spread + Window
           /\ ToSet(queue) \union ToSet(handed) \union ToSet(wire) \subseteq Happened
<1>1. Len(act) \in Nat /\ Happened = 1..Len(act)
  BY LenProperties DEF TypeOK, Happened
<1>2. ASSUME NEW n \in Happened PROVE act[n] \in Inputs
  BY <1>1, <1>2, ElementOfSeq DEF TypeOK
<1>3. \A n \in Happened : act[n] \in Inputs /\ Key(n) \in Keys /\ Payload(n) \in Payloads
  BY <1>2 DEF Key, Keys, Payload, Payloads
<1>4. ToSet(queue) \union ToSet(handed) \union ToSet(wire) \subseteq Happened
  BY SetOfSeq DEF TypeOK
<1> QED BY <1>1, <1>3, <1>4, TimeAssumption DEF TypeOK, Old

LEMMA InActions ==
    ASSUME IInv
    PROVE  Happened \subseteq Actions /\ received \subseteq Actions
<1>1. Len(act) \in Nat /\ Happened = 1..Len(act) /\ Len(act) <= MaxActions
  BY Types DEF IInv, Remembered
<1>2. MaxActions \in Nat
  BY BoundAssumption
<1>3. Happened \subseteq Actions
  BY <1>1, <1>2 DEF Actions
<1> QED BY <1>3 DEF IInv, TypeOK

LEMMA InitIInv == Init => IInv
<1> SUFFICES ASSUME Init PROVE IInv
  OBVIOUS
<1> USE DEF Init
<1>1. ToSet(<<>>) = {}
  BY DEF ToSet
<1>2. Happened = {} /\ Len(<<>>) = 0
  BY DEF Happened
<1>3. TypeOK
  <2>1. \A S : <<>> \in Seq(S) /\ <<>> \in [{} -> S]
    <3> SUFFICES ASSUME NEW S PROVE <<>> \in Seq(S) /\ <<>> \in [{} -> S]
      OBVIOUS
    <3>1. <<>> \in Seq(S) /\ Len(<<>>) = 0
      BY EmptySeq
    <3>2. <<>> \in [1..0 -> S]
      BY <3>1, LenProperties
    <3> QED BY <3>1, <3>2
  <2>2. since \in [Happened -> 0..Old]
    BY <1>2, <2>1
  <2>3. seen \in [Keys -> 0..Window] /\ down \in 0..Pause
    BY TimeAssumption
  <2>4. last \in [Keys -> 0..Dedup] /\ lastSeen \in [Payloads -> 0..Dedup]
    BY TimeAssumption
  <2>5. sessions \in 0..MaxSessions /\ Len(queue) <= Slots
    BY <1>2, BoundAssumption
  <2> QED BY <1>1, <1>2, <2>1, <2>2, <2>3, <2>4, <2>5 DEF TypeOK
<1>4. Remembered
  BY BoundAssumption DEF Remembered
<1>5. Once /\ Passed
  BY <1>1 DEF Once, Passed, IsInjective
<1>6. Fires /\ Explained /\ EveryPressCounts
  BY <1>1, TimeAssumption DEF Fires, Explained, EveryPressCounts
<1> QED BY <1>3, <1>4, <1>5, <1>6 DEF IInv

\* A press changes nothing of what came before.
LEMMA PressKeeps ==
    ASSUME IInv, Press
    PROVE  IInv'
<1> USE DEF life, publisher, mqtt, consumer, history
<1>1. PICK a \in Inputs : act' = Append(act, a) /\ since' = Append(since, 0)
                          /\ Len(act) < MaxActions
  BY DEF Press
<1>2. /\ Len(act) \in Nat /\ Happened = 1..Len(act) /\ TypeOK
      /\ \A n \in Happened : since[n] \in 0..Old
      /\ Old \in Nat
  BY Types DEF IInv
<1>3. since \in Seq(0..Old) /\ Len(since) = Len(act)
  <2>1. since \in [1..Len(act) -> 0..Old]
    BY <1>2 DEF TypeOK
  <2> QED BY <1>2, <2>1
<1>4. /\ act' \in Seq(Inputs) /\ Len(act') = Len(act) + 1
      /\ \A n \in Happened : act'[n] = act[n] /\ since'[n] = since[n]
      /\ since' \in Seq(0..Old) /\ Len(since') = Len(act) + 1
  BY <1>1, <1>2, <1>3, AppendProperties DEF TypeOK
<1>5. Happened' = 1..(Len(act) + 1) /\ Happened \subseteq Happened'
  BY <1>2, <1>4 DEF Happened
<1>6. since' \in [Happened' -> 0..Old]
  BY <1>4, <1>5, LenProperties
<1>7. TypeOK'
  <2>1. queue' \in Seq(Happened') /\ wire' \in Seq(Happened') /\ handed' \in Seq(Happened')
    BY <1>2, <1>5, SeqMonotonic DEF TypeOK, Press
  <2>2. /\ unacked' \subseteq Happened' /\ reached' \subseteq unacked'
        /\ busy' \in Happened' \union {0}
        /\ UNION {dropped', saving', heard', discarded', again', received'} \subseteq Happened'
    BY <1>2, <1>5 DEF TypeOK, Press
  <2> QED BY <1>2, <1>4, <1>6, <2>1, <2>2 DEF TypeOK, Press
<1>8. \A n \in Happened : Key(n)' = Key(n) /\ Payload(n)' = Payload(n)
  BY <1>4 DEF Key, Payload
<1>9. heard \subseteq Happened /\ received \subseteq Happened
      /\ ToSet(queue) \union ToSet(handed) \union ToSet(wire) \subseteq Happened
  BY <1>2, Types DEF TypeOK
<1>10. Remembered'
  <2>1. Len(act') <= MaxActions
    BY <1>1, <1>2, <1>4, BoundAssumption
  <2>2. \A n \in heard : seen[Key(n)'] <= since'[n]
    BY <1>4, <1>8, <1>9 DEF IInv, Remembered
  <2>3. \A n \in heard : act'[n].phase \in {"PRESS", "RELEASE"} => "button" \in act'[n].streams
    BY <1>4, <1>9 DEF IInv, Remembered
  <2> QED BY <2>1, <2>2, <2>3 DEF Remembered, Press
<1>11. Once' /\ Passed'
  BY DEF IInv, Once, Passed, Press
<1>12. Fires'
  BY <1>8, <1>9 DEF IInv, Fires, Press
<1>13. Explained'
  BY <1>8, <1>9 DEF IInv, Explained, Press
<1>14. EveryPressCounts'
  <2>1. \A n \in heard :
           \/ n \in UNION {ToSet(queue), ToSet(handed), dropped, discarded}
           \/ \E m \in ToSet(handed) \ {n} :
                 act'[m].control = act'[n].control /\ act'[m].origin = act'[n].origin
    BY <1>4, <1>9 DEF IInv, EveryPressCounts
  <2>2. \A n \in received : \E m \in received :
           /\ act'[m].control = act'[n].control /\ act'[m].phase = act'[n].phase
           /\ m \in saving \/ fired[m] > 0
    BY <1>4, <1>9 DEF IInv, EveryPressCounts
  <2> QED BY <2>1, <2>2 DEF EveryPressCounts, Press
<1> QED BY <1>7, <1>10, <1>11, <1>12, <1>13, <1>14 DEF IInv

\* A step that leaves the actions alone leaves what is known of them alone.
LEMMA Same ==
    ASSUME UNCHANGED act
    PROVE  Happened' = Happened /\ (\A n : Key(n)' = Key(n) /\ Payload(n)' = Payload(n))
BY DEF Happened, Key, Payload

\* A frame becomes an event at most once.
LEMMA FrameKeeps ==
    ASSUME IInv, NEW n \in Happened, NEW stream \in Streams, Frame(n, stream)
    PROVE  IInv'
<1> USE DEF radio, life, mqtt, consumer
<1>1. /\ UNCHANGED act /\ UNCHANGED since /\ seen' = [seen EXCEPT ![Key(n)] = 0] /\ Call(n)
      /\ since[n] <= Spread /\ ~(seen[Key(n)] < Window) /\ Owned(stream, act[n].phase)
      /\ stream \in act[n].streams
      /\ UNCHANGED <<life, busy, last, mqtt, wire, consumer, handed, discarded, again,
                     received, fired>>
  BY DEF Frame, IsRetransmit
<1>2. TypeOK /\ Key(n) \in Keys /\ since[n] \in 0..Old /\ seen[Key(n)] \in 0..Window
      /\ Window \in Nat /\ Spread \in Nat /\ Spread < Window /\ Old = Spread + Window
  BY Types DEF IInv, TypeOK
<1>3. Happened' = Happened /\ (\A m : Key(m)' = Key(m) /\ Payload(m)' = Payload(m))
  BY <1>1, Same
<1>4. n \notin heard
  BY <1>1, <1>2 DEF IInv, Remembered
<1>5. CASE UNCHANGED <<queue, dropped, heard>>
  <2>1. TypeOK'
    BY <1>1, <1>2, <1>3, <1>5 DEF TypeOK
  <2>2. Remembered'
    <3>1. \A m \in heard : m \in Happened /\ since[m] \in 0..Old /\ Key(m) \in Keys
      BY <1>2, Types DEF TypeOK
    <3>2. \A m \in heard : seen'[Key(m)] <= since[m]
      BY <1>1, <1>2, <3>1 DEF IInv, Remembered, TypeOK
    <3> QED BY <1>1, <1>3, <1>5, <3>2 DEF IInv, Remembered
  <2>3. Once' /\ Passed'
    BY <1>1, <1>5 DEF IInv, Once, Passed
  <2>4. Fires' /\ Explained'
    BY <1>1, <1>3, <1>5 DEF IInv, Fires, Explained
  <2>5. EveryPressCounts'
    BY <1>1, <1>5 DEF IInv, EveryPressCounts
  <2> QED BY <2>1, <2>2, <2>3, <2>4, <2>5 DEF IInv
<1>6. CASE /\ heard' = heard \union {n}
           /\ \/ queue' = Append(queue, n) /\ Len(queue) < Slots /\ session = "live"
                 /\ UNCHANGED dropped
              \/ dropped' = dropped \union {n} /\ UNCHANGED queue
  <2>1. queue \in Seq(Happened) /\ ToSet(queue) \subseteq heard /\ n \notin ToSet(queue)
    BY <1>2, <1>4 DEF IInv, Once, TypeOK
  <2>2. /\ queue' \in Seq(Happened) /\ Len(queue') <= Slots
        /\ ToSet(queue') \subseteq ToSet(queue) \union {n}
        /\ IsInjective(queue') /\ ToSet(queue) \subseteq ToSet(queue')
        /\ n \in ToSet(queue') \union dropped' /\ dropped \subseteq dropped'
        /\ (session = "none" => UNCHANGED queue)
    <3>1. CASE queue' = Append(queue, n) /\ Len(queue) < Slots /\ session = "live"
                 /\ UNCHANGED dropped
      BY <2>1, <3>1, SetOfAppend, LenProperties, BoundAssumption DEF IInv, Once
    <3>2. CASE dropped' = dropped \union {n} /\ UNCHANGED queue
      BY <1>2, <2>1, <3>2 DEF IInv, Once, TypeOK
    <3> QED BY <1>6, <3>1, <3>2
  <2>3. TypeOK'
    <3>1. seen' \in [Keys -> 0..Window]
      BY <1>1, <1>2 DEF TypeOK
    <3>2. UNION {dropped', saving', heard', discarded', again', received'} \subseteq Happened
      BY <1>1, <1>2, <1>6 DEF TypeOK
    <3> QED BY <1>1, <1>2, <1>3, <2>2, <3>1, <3>2 DEF TypeOK
  <2>4. Remembered'
    <3>1. \A m \in heard' : m \in Happened /\ since[m] \in 0..Old /\ Key(m) \in Keys
      BY <1>2, <1>6, Types DEF TypeOK
    <3>2. \A m \in heard' : seen'[Key(m)] <= since[m]
      BY <1>1, <1>2, <1>6, <3>1 DEF IInv, Remembered, TypeOK
    <3>3. act[n].phase \in {"PRESS", "RELEASE"} => "button" \in act[n].streams
      BY <1>1 DEF Owned
    <3> QED BY <1>1, <1>3, <1>6, <3>2, <3>3 DEF IInv, Remembered
  <2>5. Once'
    BY <1>1, <1>4, <1>6, <2>2 DEF IInv, Once
  <2>6. Passed' /\ Fires' /\ Explained'
    BY <1>1, <1>3 DEF IInv, Passed, Fires, Explained
  <2>7. EveryPressCounts'
    BY <1>1, <1>6, <2>2 DEF IInv, EveryPressCounts
  <2> QED BY <2>3, <2>4, <2>5, <2>6, <2>7 DEF IInv
<1> QED BY <1>1, <1>5, <1>6 DEF Call

\* An event that is skipped has been published under its key before.
LEMMA TakeKeeps ==
    ASSUME IInv, Take
    PROVE  IInv'
<1> USE DEF radio, life, consumer
<1> DEFINE n == Head(queue)
<1>1. /\ UNCHANGED act /\ queue # <<>> /\ queue' = Tail(queue) /\ session # "none"
      /\ UNCHANGED <<radio, seen, life, dropped, linked, reached, wire, consumer, heard,
                     discarded, again, received, fired>>
  BY DEF Take
<1>2. TypeOK /\ queue \in Seq(Happened) /\ Happened' = Happened
      /\ (\A m : Key(m)' = Key(m) /\ Payload(m)' = Payload(m))
  BY <1>1, Same DEF IInv, TypeOK
<1>3. /\ n \in Happened /\ queue' \in Seq(Happened) /\ Len(queue') = Len(queue) - 1
      /\ ToSet(queue) = {n} \union ToSet(queue') /\ IsInjective(queue')
      /\ n \notin ToSet(queue')
  BY <1>1, <1>2, SetOfTail DEF IInv, Once
<1>4. n \in heard /\ n \notin ToSet(handed) /\ Len(queue') <= Slots
  BY <1>2, <1>3, LenProperties, BoundAssumption DEF IInv, Once, TypeOK
<1> HIDE DEF n
<1>5. CASE last[Key(n)] < Dedup /\ UNCHANGED <<busy, last, unacked, handed>>
  <2>1. TypeOK'
    BY <1>1, <1>2, <1>3, <1>4, <1>5 DEF TypeOK
  <2>2. Remembered' /\ Passed' /\ Fires' /\ Explained'
    BY <1>1, <1>2, <1>5 DEF IInv, Remembered, Passed, Fires, Explained
  <2>3. Once'
    BY <1>1, <1>3, <1>5 DEF IInv, Once
  <2>4. PICK m \in ToSet(handed) : Key(m) = Key(n)
    BY <1>2, <1>3, <1>5, Types DEF IInv, Explained
  <2>5. m # n /\ act[m].control = act[n].control /\ act[m].origin = act[n].origin
    BY <1>4, <2>4 DEF Key
  <2>6. EveryPressCounts'
    BY <1>1, <1>3, <1>5, <2>4, <2>5 DEF IInv, EveryPressCounts
  <2> QED BY <2>1, <2>2, <2>3, <2>6 DEF IInv
<1>6. CASE /\ busy' = n /\ last' = [last EXCEPT ![Key(n)] = 0]
           /\ unacked' = unacked \union {n} /\ handed' = Append(handed, n)
  <2>1. /\ handed' \in Seq(Happened) /\ ToSet(handed') = ToSet(handed) \union {n}
        /\ IsInjective(handed')
    BY <1>2, <1>3, <1>4, <1>6, SetOfAppend DEF IInv, Once, TypeOK
  <2>2. TypeOK'
    <3>1. last' \in [Keys -> 0..Dedup]
      BY <1>2, <1>3, <1>6, Types DEF TypeOK
    <3> QED BY <1>1, <1>2, <1>3, <1>4, <1>6, <2>1, <3>1 DEF TypeOK
  <2>3. Remembered' /\ Fires'
    BY <1>1, <1>2 DEF IInv, Remembered, Fires
  <2>4. Once'
    BY <1>1, <1>3, <1>4, <2>1 DEF IInv, Once
  <2>5. Passed'
    BY <1>1, <1>4, <1>6, <2>1 DEF IInv, Passed
  <2>6. Explained'
    BY <1>1, <1>2, <1>6, <2>1, Types DEF IInv, Explained, TypeOK
  <2>7. EveryPressCounts'
    BY <1>1, <1>3, <2>1 DEF IInv, EveryPressCounts
  <2> QED BY <2>2, <2>3, <2>4, <2>5, <2>6, <2>7 DEF IInv
<1> QED BY <1>5, <1>6 DEF Take, DedupKey, n

\* The MQTT client and the broker.
LEMMA MqttKeeps ==
    ASSUME IInv, PublishFails \/ Arrives \/ Acknowledged
    PROVE  IInv'
<1> USE DEF radio, life, publisher, mqtt, consumer, history
<1>1. UNCHANGED <<act, since, seen, queue, last, dropped, heard, handed, discarded, again,
                  received, fired, consumer, session, sessions, down, linked>>
  BY DEF PublishFails, Arrives, Acknowledged
<1>2. TypeOK /\ Happened' = Happened
      /\ (\A m : Key(m)' = Key(m) /\ Payload(m)' = Payload(m))
  BY <1>1, Same DEF IInv
<1>3. /\ wire' \in Seq(Happened) /\ ToSet(wire) \subseteq ToSet(wire')
      /\ ToSet(wire') \subseteq ToSet(wire) \union (unacked \ reached)
      /\ unacked' \subseteq unacked /\ reached' \subseteq unacked'
      /\ unacked' \ reached' \subseteq unacked \ reached
      /\ (unacked' \ reached') \intersect ToSet(wire') \subseteq ToSet(wire)
      /\ busy' \in {0, busy}
  <2>1. CASE PublishFails
    BY <1>2, <2>1 DEF PublishFails, TypeOK
  <2>2. CASE Arrives
    <3>1. PICK n \in unacked \ reached : /\ reached' = reached \union {n}
                                         /\ wire' \in {wire \o <<n>>, wire \o <<n, n>>}
      BY <2>2 DEF Arrives
    <3>2. n \in Happened /\ wire \in Seq(Happened)
      BY <1>2, <3>1 DEF TypeOK
    <3>3. wire' \in Seq(Happened) /\ ToSet(wire') = ToSet(wire) \union {n}
      BY <3>1, <3>2, SetOfConcat
    <3> QED BY <1>2, <2>2, <3>1, <3>3 DEF Arrives, TypeOK
  <2>3. CASE Acknowledged
    BY <1>2, <2>3 DEF Acknowledged, TypeOK
  <2> QED BY <2>1, <2>2, <2>3
<1>4. TypeOK'
  BY <1>1, <1>2, <1>3 DEF TypeOK
<1>5. Remembered' /\ Once' /\ Explained'
  BY <1>1, <1>2 DEF IInv, Remembered, Once, Explained
<1>6. Passed'
  BY <1>1, <1>3 DEF IInv, Passed
<1>7. Fires'
  BY <1>1, <1>2, <1>3 DEF IInv, Fires, Passed
<1>8. EveryPressCounts'
  BY <1>1 DEF IInv, EveryPressCounts
<1> QED BY <1>4, <1>5, <1>6, <1>7, <1>8 DEF IInv

\* A session begins, loses the broker, and ends.
LEMMA SessionKeeps ==
    ASSUME IInv, NewSession \/ LinkLost \/ Unregister \/ Close
    PROVE  IInv'
<1> USE DEF radio, publisher, mqtt, consumer, history
<1>1. UNCHANGED <<act, since, seen, dropped, unacked, wire, consumer, heard, handed,
                  received, fired>>
  BY DEF NewSession, LinkLost, Unregister, Close
<1>2. TypeOK /\ Happened' = Happened
      /\ (\A m : Key(m)' = Key(m) /\ Payload(m)' = Payload(m))
  BY <1>1, Same DEF IInv
<1>3. \/ UNCHANGED <<queue, discarded>>
      \/ queue' = <<>> /\ discarded' = discarded \union ToSet(queue)
  BY DEF NewSession, LinkLost, Unregister, Close
<1>4. /\ queue' \in Seq(Happened) /\ Len(queue') <= Slots /\ IsInjective(queue')
      /\ ToSet(queue') \subseteq ToSet(queue)
      /\ ToSet(queue) \subseteq ToSet(queue') \union discarded'
      /\ discarded \subseteq discarded' /\ discarded' \subseteq Happened
  <2>1. /\ <<>> \in Seq(Happened) /\ Len(<<>>) = 0 /\ ToSet(<<>>) = {} /\ IsInjective(<<>>)
        /\ 0 <= Slots
    BY EmptySeq, BoundAssumption DEF ToSet, IsInjective
  <2>2. ToSet(queue) \subseteq Happened /\ discarded \subseteq Happened
    BY <1>2, Types DEF TypeOK
  <2> QED BY <1>2, <1>3, <2>1, <2>2 DEF IInv, Once, TypeOK
<1>5. /\ again \subseteq again' /\ again' \subseteq Happened
      /\ reached' \subseteq unacked /\ (unacked \ reached') \ again' \subseteq (unacked \ reached) \ again
  BY <1>2 DEF NewSession, LinkLost, Unregister, Close, TypeOK
<1>6. TypeOK'
  <2>0. MaxSessions \in Nat /\ Pause \in Nat
    BY BoundAssumption, TimeAssumption
  <2>1. session' \in {"none", "live", "closing"} /\ linked' \in BOOLEAN
    BY <1>2 DEF TypeOK, life, NewSession, LinkLost, Unregister, Close
  <2>4. sessions' \in 0..MaxSessions
    BY <1>2, <2>0 DEF TypeOK, life, NewSession, LinkLost, Unregister, Close
  <2>5. down' \in 0..Pause
    BY <1>2, <2>0 DEF TypeOK, life, NewSession, LinkLost, Unregister, Close
  <2>2. busy' \in {0, busy} /\ (session' = "none" => queue' = <<>> /\ busy' = 0)
    BY <1>2 DEF TypeOK, life, NewSession, LinkLost, Unregister, Close
  <2>3. last' \in [Keys -> 0..Dedup]
    BY <1>2, Types DEF TypeOK, NewSession, LinkLost, Unregister, Close
  <2> QED BY <1>1, <1>2, <1>4, <1>5, <2>1, <2>2, <2>3, <2>4, <2>5 DEF TypeOK
<1>7. Remembered' /\ Once'
  BY <1>1, <1>2, <1>4 DEF IInv, Remembered, Once
<1>8. Passed' /\ Fires'
  BY <1>1, <1>2, <1>5 DEF IInv, Passed, Fires
<1>9. Explained'
  <2>1. \A k \in Keys : last'[k] < Dedup => last[k] < Dedup
    BY Types DEF IInv, NewSession, LinkLost, Unregister, Close
  <2> QED BY <1>1, <1>2, <2>1 DEF IInv, Explained
<1>10. EveryPressCounts'
  BY <1>1, <1>4 DEF IInv, EveryPressCounts
<1> QED BY <1>6, <1>7, <1>8, <1>9, <1>10 DEF IInv

\* Home Assistant skips a message only if one like it fires.
LEMMA ReceiveKeeps ==
    ASSUME IInv, Receive
    PROVE  IInv'
<1> USE DEF radio, life, publisher, mqtt
<1> DEFINE n == Head(wire)
<1>1. /\ UNCHANGED <<radio, seen, life, publisher, mqtt, heard, handed, discarded, again>>
      /\ wire # <<>> /\ wire' = Tail(wire) /\ received' = received \union {n}
      /\ lastSeen' = [lastSeen EXCEPT ![Payload(n)] = 0]
  BY DEF Receive
<1>2. TypeOK /\ Happened' = Happened
      /\ (\A m : Key(m)' = Key(m) /\ Payload(m)' = Payload(m))
  BY <1>1, Same DEF IInv
<1>3. n \in Happened /\ wire' \in Seq(Happened) /\ ToSet(wire) = {n} \union ToSet(wire')
  BY <1>1, <1>2, SetOfTail DEF TypeOK
<1>4. /\ act[n] \in Inputs /\ Payload(n) \in Payloads /\ Dedup \in Nat /\ 0 < Dedup
      /\ lastSeen \in [Payloads -> 0..Dedup] /\ fired \in [Actions -> Nat]
      /\ n \in Actions
  BY <1>2, <1>3, Types, InActions DEF TypeOK
<1>5. /\ (IsDuplicate(n) /\ UNCHANGED <<saving, fired, known>>)
         \/ (~IsDuplicate(n) /\ fired' = [fired EXCEPT ![n] = @ + 1] /\ UNCHANGED <<known, saving>>)
         \/ (~IsDuplicate(n) /\ saving' = saving \union {n} /\ UNCHANGED fired
               /\ known' = known \union {act[n].control})
  BY DEF Receive, Fire
<1> HIDE DEF n
<1>6. TypeOK'
  <2>1. lastSeen' \in [Payloads -> 0..Dedup] /\ fired' \in [Actions -> Nat]
    BY <1>1, <1>4, <1>5
  <2>2. known' \subseteq {a.control : a \in Inputs} /\ saving' \subseteq Happened
        /\ received' \subseteq Happened
    BY <1>1, <1>2, <1>3, <1>4, <1>5 DEF TypeOK
  <2> QED BY <1>1, <1>2, <1>3, <2>1, <2>2 DEF TypeOK
<1>7. Remembered' /\ Once'
  BY <1>1, <1>2 DEF IInv, Remembered, Once
<1>8. Passed'
  BY <1>1, <1>3 DEF IInv, Passed
<1>9. n \notin again /\ ~IsDuplicate(n) => n \notin received
  BY <1>3, <1>4 DEF IInv, Fires, IsDuplicate
<1>10. /\ \A m \in Actions : fired'[m] \in {fired[m], fired[m] + 1} /\ fired[m] \in Nat
       /\ \A m \in Actions \ {n} : fired'[m] = fired[m]
       /\ saving \subseteq saving' /\ saving' \subseteq saving \union {n}
       /\ IsDuplicate(n) => fired' = fired /\ saving' = saving
       /\ ~IsDuplicate(n) => n \in saving' \/ fired'[n] > 0
       /\ ~IsDuplicate(n) => fired'[n] = fired[n] \/ (fired'[n] = fired[n] + 1 /\ saving' = saving)
  BY <1>4, <1>5
<1>11. Fires'
  <2>1. saving' \subseteq received'
    BY <1>1, <1>10 DEF IInv, Fires
  <2>2. \A m \in Actions : m \notin received' => fired'[m] = 0
    BY <1>1, <1>10 DEF IInv, Fires
  <2>3. ASSUME NEW m \in received' \ again'
        PROVE  fired'[m] <= 1 /\ (m \in saving' => fired'[m] = 0)
    <3>1. m \in Actions
      BY <1>1, <1>4, <2>3, InActions
    <3>2. CASE m = n /\ ~IsDuplicate(n)
      BY <1>1, <1>4, <1>9, <1>10, <2>3, <3>1, <3>2 DEF IInv, Fires
    <3>3. CASE m = n /\ IsDuplicate(n)
      BY <1>1, <1>4, <1>10, <2>3, <3>1, <3>3 DEF IInv, Fires
    <3>4. CASE m # n
      BY <1>1, <1>4, <1>10, <2>3, <3>1, <3>4 DEF IInv, Fires
    <3> QED BY <3>2, <3>3, <3>4
  <2>4. \A m \in (received' \intersect ToSet(wire')) \ again' : lastSeen'[Payload(m)] = 0
    <3> SUFFICES ASSUME NEW m \in (received' \intersect ToSet(wire')) \ again', m # n
                 PROVE  lastSeen'[Payload(m)] = 0
      BY <1>1, <1>4
    <3>1. m \in (received \intersect ToSet(wire)) \ again
      BY <1>1, <1>3
    <3>2. lastSeen[Payload(m)] = 0 /\ Payload(m) \in Payloads
      BY <1>2, <3>1, Types DEF IInv, Fires, TypeOK
    <3> QED BY <1>1, <1>4, <3>2
  <2> QED BY <1>2, <2>1, <2>2, <2>3, <2>4 DEF Fires
<1>12. \A p \in Payloads :
          lastSeen[p] < Dedup \/ p = Payload(n) =>
             \E m \in received' : Payload(m) = p /\ (m \in saving' \/ fired'[m] > 0)
  <2> SUFFICES ASSUME NEW p \in Payloads, lastSeen[p] < Dedup \/ p = Payload(n)
               PROVE  \E m \in received' : Payload(m) = p /\ (m \in saving' \/ fired'[m] > 0)
    OBVIOUS
  <2>1. CASE lastSeen[p] < Dedup
    <3>1. PICK m \in received : Payload(m) = p /\ (m \in saving \/ fired[m] > 0)
      BY <2>1 DEF IInv, Explained
    <3>2. m \in Actions
      BY InActions
    <3>3. m \in saving' \/ fired'[m] > 0
      BY <1>10, <3>1, <3>2
    <3> QED BY <1>1, <3>1, <3>3
  <2>2. CASE ~(lastSeen[p] < Dedup)
    BY <1>1, <1>10, <2>2 DEF IsDuplicate
  <2> QED BY <2>1, <2>2
<1>13. Explained'
  BY <1>1, <1>2, <1>4, <1>12 DEF IInv, Explained
<1>14. EveryPressCounts'
  <2>1. ASSUME NEW x \in received'
        PROVE  \E m \in received' :
                  /\ act[m].control = act[x].control /\ act[m].phase = act[x].phase
                  /\ m \in saving' \/ fired'[m] > 0
    <3>1. CASE x = n
      <4>1. PICK m \in received' : Payload(m) = Payload(n) /\ (m \in saving' \/ fired'[m] > 0)
        BY <1>4, <1>12
      <4> QED BY <3>1, <4>1 DEF Payload
    <3>2. CASE x # n
      <4>1. PICK m \in received : /\ act[m].control = act[x].control
                                  /\ act[m].phase = act[x].phase
                                  /\ m \in saving \/ fired[m] > 0
        BY <1>1, <2>1, <3>2 DEF IInv, EveryPressCounts
      <4>2. m \in Actions
        BY InActions
      <4>3. m \in saving' \/ fired'[m] > 0
        BY <1>10, <4>1, <4>2
      <4> QED BY <1>1, <4>1, <4>3
    <3> QED BY <3>1, <3>2
  <2> QED BY <1>1, <2>1 DEF IInv, EveryPressCounts
<1> QED BY <1>6, <1>7, <1>8, <1>11, <1>13, <1>14 DEF IInv

\* The event that waited for the store fires, for the first time.
LEMMA SavedKeeps ==
    ASSUME IInv, Saved
    PROVE  IInv'
<1> USE DEF radio, life, publisher, mqtt
<1>1. PICK n \in saving : saving' = saving \ {n} /\ Fire(n)
  BY DEF Saved
<1>2. UNCHANGED <<radio, seen, life, publisher, mqtt, wire, lastSeen, known, heard, handed,
                  discarded, again, received>>
  BY DEF Saved
<1>3. TypeOK /\ Happened' = Happened
      /\ (\A m : Key(m)' = Key(m) /\ Payload(m)' = Payload(m))
  BY <1>2, Same DEF IInv
<1>4. n \in received /\ n \in Actions /\ fired \in [Actions -> Nat]
      /\ fired' = [fired EXCEPT ![n] = @ + 1]
  BY <1>1, <1>3, InActions DEF IInv, Fires, Fire, TypeOK
<1>5. /\ \A m \in Actions : fired[m] \in Nat /\ fired'[m] \in {fired[m], fired[m] + 1}
      /\ \A m \in Actions \ {n} : fired'[m] = fired[m]
      /\ fired'[n] = fired[n] + 1
  BY <1>4
<1>6. TypeOK'
  BY <1>1, <1>2, <1>3, <1>4 DEF TypeOK
<1>7. Remembered' /\ Once' /\ Passed'
  BY <1>2, <1>3 DEF IInv, Remembered, Once, Passed
<1>8. Fires'
  <2>1. saving' \subseteq received' /\ (\A m \in Actions : m \notin received' => fired'[m] = 0)
    BY <1>1, <1>2, <1>4, <1>5 DEF IInv, Fires
  <2>2. ASSUME NEW m \in received' \ again'
        PROVE  fired'[m] <= 1 /\ (m \in saving' => fired'[m] = 0)
    <3>1. m \in Actions /\ m \in received \ again
      BY <1>2, <2>2, InActions
    <3>2. fired[m] <= 1 /\ (m \in saving => fired[m] = 0)
      BY <3>1 DEF IInv, Fires
    <3>3. CASE m = n
      BY <1>1, <1>5, <3>2, <3>3
    <3>4. CASE m # n
      BY <1>1, <1>5, <3>1, <3>2, <3>4
    <3> QED BY <3>3, <3>4
  <2>3. \A m \in (received' \intersect ToSet(wire')) \ again' : lastSeen'[Payload(m)] = 0
    BY <1>2 DEF IInv, Fires
  <2> QED BY <1>3, <2>1, <2>2, <2>3 DEF Fires
<1>9. \A m \in received : m \in saving \/ fired[m] > 0 => m \in saving' \/ fired'[m] > 0
  BY <1>1, <1>5, InActions
<1>10. Explained'
  BY <1>2, <1>3, <1>9 DEF IInv, Explained
<1>11. EveryPressCounts'
  BY <1>2, <1>9 DEF IInv, EveryPressCounts
<1> QED BY <1>6, <1>7, <1>8, <1>10, <1>11 DEF IInv

\* Time passes, for the actions and for what is remembered of them alike.
LEMMA TickKeeps ==
    ASSUME IInv, Tick
    PROVE  IInv'
<1> USE DEF mqtt, history
<1>1. /\ UNCHANGED <<act, session, sessions, queue, busy, dropped, mqtt, wire, known, saving,
                     history>>
      /\ wire = <<>>
      /\ since' = [n \in Happened |-> Older(since[n], Old)]
      /\ seen' = [k \in Keys |-> Older(seen[k], Window)]
      /\ last' = [k \in Keys |-> Older(last[k], Dedup)]
      /\ lastSeen' = [p \in Payloads |-> Older(lastSeen[p], Dedup)]
      /\ down' = IF session = "none" THEN Older(down, Pause) ELSE down
  BY DEF Tick
<1>2. TypeOK /\ Happened' = Happened
      /\ (\A m : Key(m)' = Key(m) /\ Payload(m)' = Payload(m))
  BY <1>1, Same DEF IInv
<1>3. ASSUME NEW limit \in Nat, NEW age \in 0..limit
      PROVE  Older(age, limit) \in 0..limit /\ age <= Older(age, limit)
  BY <1>3 DEF Older
<1>4. Window \in Nat /\ Dedup \in Nat /\ Pause \in Nat /\ Old \in Nat /\ Window <= Old
  BY <1>2, Types
<1>5. TypeOK'
  <2>1. since' \in [Happened -> 0..Old] /\ seen' \in [Keys -> 0..Window]
    BY <1>1, <1>2, <1>3, <1>4 DEF TypeOK
  <2>2. last' \in [Keys -> 0..Dedup] /\ lastSeen' \in [Payloads -> 0..Dedup]
    BY <1>1, <1>2, <1>3, <1>4 DEF TypeOK
  <2>3. down' \in 0..Pause
    BY <1>1, <1>2, <1>3, <1>4 DEF TypeOK
  <2> QED BY <1>1, <1>2, <2>1, <2>2, <2>3 DEF TypeOK
<1>6. Remembered'
  <2>1. ASSUME NEW n \in heard PROVE seen'[Key(n)] <= since'[n]
    <3>1. n \in Happened /\ Key(n) \in Keys /\ since[n] \in 0..Old /\ seen[Key(n)] \in 0..Window
      BY <1>2, Types DEF TypeOK
    <3>2. seen[Key(n)] <= since[n]
      BY DEF IInv, Remembered
    <3>3. Older(seen[Key(n)], Window) <= Older(since[n], Old)
      BY <1>4, <3>1, <3>2 DEF Older
    <3> QED BY <1>1, <3>1, <3>3
  <2> QED BY <1>1, <1>2, <2>1 DEF IInv, Remembered
<1>7. Once' /\ Passed'
  BY <1>1 DEF IInv, Once, Passed
<1>8. Fires'
  <2>1. ToSet(wire) = {}
    BY <1>1 DEF ToSet
  <2> QED BY <1>1, <2>1 DEF IInv, Fires
<1>9. Explained'
  <2>1. \A k \in Keys : last'[k] < Dedup => last[k] < Dedup
    BY <1>1, <1>2, <1>4 DEF Older, TypeOK
  <2>2. \A p \in Payloads : lastSeen'[p] < Dedup => lastSeen[p] < Dedup
    BY <1>1, <1>2, <1>4 DEF Older, TypeOK
  <2> QED BY <1>1, <1>2, <2>1, <2>2 DEF IInv, Explained
<1>10. EveryPressCounts'
  BY <1>1 DEF IInv, EveryPressCounts
<1> QED BY <1>5, <1>6, <1>7, <1>8, <1>9, <1>10 DEF IInv

LEMMA StepKeeps == IInv /\ [Next]_vars => IInv'
<1> SUFFICES ASSUME IInv, [Next]_vars PROVE IInv'
  OBVIOUS
<1>1. CASE Press
  BY <1>1, PressKeeps
<1>2. CASE \E n \in Happened, stream \in Streams : Frame(n, stream)
  BY <1>2, FrameKeeps
<1>3. CASE Take
  BY <1>3, TakeKeeps
<1>4. CASE PublishFails \/ Arrives \/ Acknowledged
  BY <1>4, MqttKeeps
<1>5. CASE NewSession \/ LinkLost \/ Unregister \/ Close
  BY <1>5, SessionKeeps
<1>6. CASE Receive
  BY <1>6, ReceiveKeeps
<1>7. CASE Saved
  BY <1>7, SavedKeeps
<1>8. CASE Tick
  BY <1>8, TickKeeps
<1>9. CASE UNCHANGED vars
  <2> USE DEF vars, radio, life, publisher, mqtt, consumer, history
  <2>1. UNCHANGED act
    BY <1>9
  <2>2. Happened' = Happened /\ (\A m : Key(m)' = Key(m) /\ Payload(m)' = Payload(m))
    BY <2>1, Same
  <2>3. TypeOK' /\ Remembered'
    BY <1>9, <2>2 DEF IInv, TypeOK, Remembered
  <2>4. Once' /\ Passed' /\ Fires'
    BY <1>9, <2>2 DEF IInv, Once, Passed, Fires
  <2>5. Explained' /\ EveryPressCounts'
    BY <1>9, <2>2 DEF IInv, Explained, EveryPressCounts
  <2> QED BY <2>3, <2>4, <2>5 DEF IInv
<1> QED BY <1>1, <1>2, <1>3, <1>4, <1>5, <1>6, <1>7, <1>8, <1>9 DEF Next

LEMMA Invariance == Spec => []IInv
BY InitIInv, StepKeeps, PTL DEF Spec

----------------------------------------------------------------------------
(* Theorems                                                                *)

\* The queue never exceeds SWITCH_EVENT_QUEUE_MAX, nothing of a session stays
\* in it when the session is over, and every message is about an action.
THEOREM Typing == Spec => []TypeOK
<1>1. IInv => TypeOK
  BY DEF IInv
<1> QED BY <1>1, Invariance, PTL

\* However the frames, the sessions and the deliveries of the broker interleave,
\* an action is published at most once, and fires at most once unless the
\* client sent it again although the broker had it.
THEOREM FiresOnce == Spec => []OncePerAction
<1>1. IInv => OncePerAction
  <2> SUFFICES ASSUME IInv PROVE OncePerAction
    OBVIOUS
  <2>1. IsInjective(handed) /\ ToSet(handed) \subseteq heard
    BY DEF IInv, Once
  <2>2. \A n \in ToSet(handed) :
           act[n].phase \in {"PRESS", "RELEASE"} => "button" \in act[n].streams
    BY <2>1 DEF IInv, Remembered
  <2>3. \A n \in Actions : fired[n] > 1 => n \in again
    <3> SUFFICES ASSUME NEW n \in Actions, n \notin again PROVE ~(fired[n] > 1)
      OBVIOUS
    <3>1. fired[n] \in Nat
      BY DEF IInv, TypeOK
    <3>2. fired[n] = 0 \/ fired[n] <= 1
      BY DEF IInv, Fires
    <3> QED BY <3>1, <3>2
  <2> QED BY <2>1, <2>2, <2>3 DEF OncePerAction
<1> QED BY <1>1, Invariance, PTL

\* No action that was heard disappears without a trace: the queue, the client,
\* the dropped or the discarded account for it, or another action of its origin.
THEOREM NoneDisappears == Spec => []EveryPressCounts
<1>1. IInv => EveryPressCounts
  BY DEF IInv
<1> QED BY <1>1, Invariance, PTL
=============================================================================
