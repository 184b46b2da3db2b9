------------------------ MODULE UnitPublisherProofs ------------------------
(***************************************************************************)
(* Proofs about UnitPublisher, for any set of units, any number of states  *)
(* and of messages the client holds: the types, NoUnitLost, NeverOlder,    *)
(* Repaired and the refinement of RetainedState, from the inductive        *)
(* invariant IInv; the worker's events; and that a snapshot reported       *)
(* complete is.                                                            *)
(***************************************************************************)
EXTENDS UnitPublisher, SequenceTheorems, TLAPS

----------------------------------------------------------------------------
(* The inductive invariant behind NeverOlder, Repaired and NoUnitLost       *)

\* The message at a position of the wire is unit u's, of state v or newer.
Holds(i, u, v) == wire[i].unit = u /\ wire[i].val >= v

\* An awaited message is some unit's, stands on the wire w where its position
\* says, behind the o messages an earlier connection left, and is on the topics
\* r for good once it is acknowledged.
GoodAwait(a, w, r, o) ==
    \/ a = Nothing
    \/ /\ a.unit \in Units
       /\ a.val > 0
       /\ a.pos > 0 => /\ o < a.pos /\ a.pos <= Len(w)
                       /\ w[a.pos] = [unit |-> a.unit, val |-> a.val]
       /\ a.pos = 0 => o = 0 /\ r[a.unit] >= a.val

Awaiting ==
    /\ GoodAwait(flight, wire, retained, old)
    /\ GoodAwait(snap, wire, retained, old)
    /\ worker = "flight" <=> flight # Nothing
    /\ phase \notin {"live", "ending", "closing"} =>
           worker = "off" /\ pending = <<>> /\ newest = [u \in Units |-> 0]
    /\ IF snapping THEN phase \in {"baseline", "live"} ELSE snap = Nothing
    /\ Registered => worker # "off"

\* The connection's bookkeeping.
Counted ==
    /\ taken <= Len(wire) /\ old <= Len(wire)
    /\ ~link => taken = 0
    /\ phase = "down" => ~link

\* The client holds each unit's states in order, and none is from the future.
Ordered ==
    /\ \A u \in Units : newest[u] <= state[u] /\ best[u] <= state[u]
    /\ \A i \in 1..Len(wire) : wire[i].val <= state[wire[i].unit]
    /\ \A i, j \in 1..Len(wire) :
           i < j /\ wire[i].unit = wire[j].unit => wire[i].val <= wire[j].val

\* What is yet to be taken of the new is no older than what its topic ever showed;
\* and no message is left that was not followed by one as new as that, among
\* what is sent again as well as among all the client holds.
Followed ==
    /\ link => \A i \in (taken + 1)..Len(wire) :
           old < i => best[wire[i].unit] <= wire[i].val
    /\ \A i \in 1..Len(wire) :
           \E j \in i..Len(wire) : Holds(j, wire[i].unit, best[wire[i].unit])
    /\ link => \A i \in (taken + 1)..old :
           \E j \in i..old : Holds(j, wire[i].unit, best[wire[i].unit])

\* A topic shows what was taken of its messages, and is behind only if one
\* that repairs it is still to be sent again.
Shown ==
    /\ \A i \in 1..taken : wire[i].val <= retained[wire[i].unit]
    /\ \A u \in Units :
           /\ retained[u] <= best[u]
           /\ retained[u] < best[u] =>
                  \E j \in (taken + 1)..old : Holds(j, u, best[u])

\* A unit is queued once, with the newest state submitted for it.
Queued ==
    /\ \A i, j \in 1..Len(pending) : pending[i] = pending[j] => i = j
    /\ \A i \in 1..Len(pending) :
           newest[pending[i]] > 0 /\ value[pending[i]] = newest[pending[i]]

\* Nothing newer than the newest submission is under way, and that one is
\* queued, in flight or published for good.
Newest ==
    /\ \A u \in Units : newest[u] > 0 =>
           /\ Registered => newest[u] = state[u]
           /\ best[u] <= newest[u]
           /\ \A i \in 1..Len(wire) : wire[i].unit = u => wire[i].val <= newest[u]
           /\ \/ u \in Range(pending)
              \/ flight.unit = u
              \/ old = 0 /\ retained[u] >= newest[u]
    /\ flight # Nothing =>
           /\ newest[flight.unit] > 0
           /\ flight.unit \notin Range(pending) => flight.val = newest[flight.unit]

WireInv == Counted /\ Ordered /\ Followed /\ Shown

IInv == TypeOK /\ Awaiting /\ WireInv /\ Queued /\ Newest

\* What IdleMeansDrained and NoLostWakeup need besides: a failure leaves
\* something queued, and the worker waits only after a success.
Settled ==
    /\ idle => pending = <<>> /\ flight = Nothing /\ ~failing
    /\ worker = "wait" => ~failing /\ (pending # <<>> => wakeup)
    /\ worker = "backoff" => pending # <<>>
    /\ worker = "off" => ~failing

USE DEF Registered

----------------------------------------------------------------------------
(* Lemmas about the operators                                              *)

\* Sending appends one message, where the awaited position says; only on a dead
\* connection may it leave the wire alone.
LEMMA Sending ==
    ASSUME TypeOK, CanSend, NEW u \in Units, NEW v \in 1..MaxState
    PROVE  /\ Sent(u, v) \in Awaited
           /\ Sent(u, v).unit = u /\ Sent(u, v).val = v
           /\ Sent(u, v).pos = IF link THEN Len(wire) + 1 ELSE Lost
           /\ WireWith(u, v) \in Seq(Message)
           /\ Len(WireWith(u, v)) <= MaxWire
           /\ \A i \in 1..Len(wire) : WireWith(u, v)[i] = wire[i]
           /\ \/ /\ Len(WireWith(u, v)) = Len(wire) + 1
                 /\ WireWith(u, v)[Len(wire) + 1] = [unit |-> u, val |-> v]
              \/ ~link /\ WireWith(u, v) = wire
<1> DEFINE m == [unit |-> u, val |-> v]
<1>1. m \in Message
  BY DEF Message
<1>2. wire \in Seq(Message) /\ Len(wire) \in Nat /\ Len(wire) <= MaxWire /\ MaxWire \in Nat
  BY BoundsAssumption, LenProperties DEF TypeOK
<1>3. /\ Sent(u, v) = [unit |-> u, val |-> v, pos |-> IF link THEN Len(wire) + 1 ELSE Lost]
      /\ Sent(u, v) \in Awaited
  <2>1. (IF link THEN Len(wire) + 1 ELSE Lost) \in Lost..MaxWire
    BY <1>2 DEF CanSend, Lost
  <2>2. v \in 0..MaxState
    BY BoundsAssumption
  <2> QED
    BY <2>1, <2>2 DEF Sent, Awaited
<1>4. CASE Len(wire) < MaxWire
  <2>1. Len(wire) + 1 <= MaxWire
    BY <1>2, <1>4
  <2>2. /\ Append(wire, m) \in Seq(Message)
        /\ Len(Append(wire, m)) = Len(wire) + 1
        /\ \A i \in 1..Len(wire) : Append(wire, m)[i] = wire[i]
        /\ Append(wire, m)[Len(wire) + 1] = m
    BY <1>1, <1>2, AppendProperties
  <2>3. WireWith(u, v) = Append(wire, m)
    BY <1>4 DEF WireWith
  <2> QED
    BY <1>3, <2>1, <2>2, <2>3
<1>5. CASE ~(Len(wire) < MaxWire)
  BY <1>2, <1>3, <1>5 DEF WireWith, CanSend
<1> QED
  BY <1>4, <1>5

\* Taking the first element of a non-empty sequence.
LEMMA Taking ==
    ASSUME NEW S, NEW s \in Seq(S), s # <<>>
    PROVE  /\ Len(s) \in Nat \ {0}
           /\ Head(s) \in S /\ Head(s) = s[1]
           /\ Tail(s) \in Seq(S)
           /\ Len(Tail(s)) = Len(s) - 1
           /\ \A i \in 1..Len(Tail(s)) : Tail(s)[i] = s[i + 1]
  BY HeadTailProperties, EmptySeq

\* Adding one element at the end of a sequence.
LEMMA Adding ==
    ASSUME NEW S, NEW s \in Seq(S), NEW e \in S
    PROVE  /\ Len(s) \in Nat
           /\ Append(s, e) \in Seq(S)
           /\ Len(Append(s, e)) = Len(s) + 1
           /\ \A i \in 1..Len(s) : Append(s, e)[i] = s[i]
           /\ Append(s, e)[Len(s) + 1] = e
  BY AppendProperties, LenProperties

\* What is in a sequence stands at one of its positions.
LEMMA Positions ==
    ASSUME NEW S, NEW s \in Seq(S), NEW e
    PROVE  e \in Range(s) <=> \E i \in 1..Len(s) : s[i] = e
  BY RangeEquality

----------------------------------------------------------------------------
(* The client's messages and the topics                                    *)

\* What the types say of the messages held and of the topics.
LEMMA WireTypes ==
    ASSUME TypeOK
    PROVE  /\ wire \in Seq(Message) /\ Len(wire) \in Nat
           /\ taken \in Nat /\ old \in Nat
           /\ \A i \in 1..Len(wire) : wire[i].unit \in Units /\ wire[i].val \in 1..MaxState
           /\ \A i \in 1..Len(wire) : wire[i].val \in Int
           /\ \A u \in Units : /\ state[u] \in Int /\ retained[u] \in Int
                               /\ best[u] \in Int /\ newest[u] \in Int
<1>1. wire \in Seq(Message) /\ Len(wire) \in Nat /\ taken \in Nat /\ old \in Nat
  BY LenProperties, BoundsAssumption DEF TypeOK
<1>2. \A i \in 1..Len(wire) : wire[i] \in Message
  BY <1>1, ElementOfSeq
<1>3. \A i \in 1..Len(wire) : wire[i].unit \in Units /\ wire[i].val \in 1..MaxState
  BY <1>2 DEF Message
<1>4. \A v \in 1..MaxState : v \in Int
  BY BoundsAssumption
<1>5. \A u \in Units : /\ state[u] \in Int /\ retained[u] \in Int
                       /\ best[u] \in Int /\ newest[u] \in Int
  BY BoundsAssumption DEF TypeOK
<1> QED
  BY <1>1, <1>3, <1>4, <1>5

\* A message that is no older than its topic ever showed and than those before
\* it, and no newer than its unit, may be sent.
LEMMA SendWire ==
    ASSUME TypeOK, WireInv, CanSend, NEW u \in Units, NEW v \in 1..MaxState,
           best[u] <= v, v <= state[u],
           \A i \in 1..Len(wire) : wire[i].unit = u => wire[i].val <= v,
           wire' = WireWith(u, v),
           UNCHANGED <<state, phase, link, newest, retained, taken, old, best>>
    PROVE  WireInv'
<1> USE DEF WireInv
<1> DEFINE m == [unit |-> u, val |-> v]
           n == Len(wire) + 1
<1>1. CASE wire' = wire
  BY <1>1 DEF Counted, Ordered, Followed, Shown, Holds
<1>2. CASE Len(wire') = n /\ wire'[n] = m
  <2>1. /\ Len(wire) \in Nat /\ taken \in Nat /\ old \in Nat
        /\ taken <= Len(wire) /\ old <= Len(wire)
        /\ \A i \in 1..Len(wire) : wire'[i] = wire[i]
        /\ m.unit = u /\ m.val = v /\ v \in Int /\ n \in 1..Len(wire')
    BY <1>2, WireTypes, Sending, BoundsAssumption DEF Counted
  <2> HIDE DEF m
  <2>2. \A i \in 1..Len(wire') : \/ i \in 1..Len(wire) /\ wire'[i] = wire[i]
                                 \/ i = n /\ wire'[i] = m
    BY <1>2, <2>1
  <2>3. Counted'
    BY <1>2, <2>1 DEF Counted
  <2>4. Ordered'
    <3>1. ASSUME NEW i \in 1..Len(wire'), NEW j \in 1..Len(wire'), i < j,
                 wire'[i].unit = wire'[j].unit
          PROVE  wire'[i].val <= wire'[j].val
      <4>1. i \in 1..Len(wire) /\ wire'[i] = wire[i]
        BY <1>2, <2>1, <3>1
      <4>2. CASE j \in 1..Len(wire)
        BY <2>1, <3>1, <4>1, <4>2 DEF Ordered
      <4>3. CASE j = n
        BY <1>2, <2>1, <3>1, <4>1, <4>3
      <4> QED
        BY <2>2, <4>2, <4>3
    <3>2. \A i \in 1..Len(wire') : wire'[i].val <= state[wire'[i].unit]
      BY <2>1, <2>2 DEF Ordered
    <3> QED
      BY <3>1, <3>2 DEF Ordered
  <2>5. Followed'
    <3>1. link => \A i \in (taken + 1)..Len(wire') :
                      old < i => best[wire'[i].unit] <= wire'[i].val
      BY <1>2, <2>1, <2>2 DEF Followed
    <3>2. ASSUME NEW i \in 1..Len(wire')
          PROVE  \E j \in i..Len(wire') : /\ wire'[j].unit = wire'[i].unit
                                          /\ wire'[j].val >= best[wire'[i].unit]
      <4>1. CASE i = n
        BY <1>2, <2>1, <4>1
      <4>2. CASE i \in 1..Len(wire)
        <5>1. PICK j \in i..Len(wire) : Holds(j, wire[i].unit, best[wire[i].unit])
          BY <4>2 DEF Followed
        <5>2. j \in i..Len(wire') /\ j \in 1..Len(wire)
          BY <1>2, <2>1, <4>2, <5>1
        <5> QED
          BY <2>1, <4>2, <5>1, <5>2 DEF Holds
      <4> QED
        BY <2>2, <4>1, <4>2
    <3>3. link => \A i \in (taken + 1)..old :
             \E j \in i..old : /\ wire'[j].unit = wire'[i].unit
                               /\ wire'[j].val >= best[wire'[i].unit]
      <4> SUFFICES ASSUME link, NEW i \in (taken + 1)..old
                   PROVE  \E j \in i..old : /\ wire'[j].unit = wire'[i].unit
                                            /\ wire'[j].val >= best[wire'[i].unit]
        OBVIOUS
      <4>1. PICK j \in i..old : Holds(j, wire[i].unit, best[wire[i].unit])
        BY DEF Followed
      <4>2. i \in 1..Len(wire) /\ j \in 1..Len(wire)
        BY <2>1
      <4> QED
        BY <2>1, <4>1, <4>2 DEF Holds
    <3> QED
      BY <3>1, <3>2, <3>3 DEF Followed, Holds
  <2>6. Shown'
    <3>1. /\ \A i \in 1..taken : i \in 1..Len(wire)
          /\ \A j \in (taken + 1)..old : j \in 1..Len(wire)
      BY <2>1
    <3> QED
      BY <2>1, <3>1 DEF Shown, Holds
  <2> QED
    BY <2>3, <2>4, <2>5, <2>6
<1> QED
  BY <1>1, <1>2, Sending

\* The broker takes the next message.  Unless it is one sent again, its topic
\* moves forward.
LEMMA DeliverWire ==
    ASSUME TypeOK, WireInv, Deliver
    PROVE  /\ WireInv'
           /\ \E u \in Units, v \in 1..MaxState :
                 /\ v <= state[u] /\ retained' = [retained EXCEPT ![u] = v]
                 /\ best' = [best EXCEPT ![u] = IF @ < v THEN v ELSE @]
                 /\ taken < old \/ best[u] <= v
                 /\ \E i \in 1..Len(wire) : wire[i].unit = u /\ wire[i].val = v
<1> USE DEF WireInv
<1> DEFINE k == taken + 1
           u == wire[k].unit
           v == wire[k].val
<1>1. /\ link /\ taken < Len(wire) /\ taken' = k
      /\ retained' = [retained EXCEPT ![u] = v]
      /\ best' = [best EXCEPT ![u] = IF @ < v THEN v ELSE @]
      /\ UNCHANGED <<state, phase, link, wire, old, newest>>
  BY DEF Deliver, pubVars
<1>2. /\ Len(wire) \in Nat /\ taken \in Nat /\ old \in Nat /\ k \in 1..Len(wire)
      /\ u \in Units /\ v \in 1..MaxState /\ v \in Int
      /\ old <= Len(wire)
      /\ \A i \in 1..Len(wire) : wire[i].unit \in Units /\ wire[i].val \in Int
      /\ \A w \in Units : /\ state[w] \in Int /\ retained[w] \in Int
                          /\ best[w] \in Int /\ newest[w] \in Int
  <2>1. /\ Len(wire) \in Nat /\ taken \in Nat /\ old \in Nat /\ old <= Len(wire)
        /\ \A i \in 1..Len(wire) : wire[i].unit \in Units /\ wire[i].val \in 1..MaxState
        /\ \A i \in 1..Len(wire) : wire[i].val \in Int
        /\ \A w \in Units : /\ state[w] \in Int /\ retained[w] \in Int
                            /\ best[w] \in Int /\ newest[w] \in Int
    BY WireTypes DEF Counted
  <2>2. k \in 1..Len(wire)
    BY <1>1, <2>1
  <2> QED
    BY <2>1, <2>2
<1>3. v <= state[u] /\ (taken < old \/ best[u] <= v)
  BY <1>1, <1>2 DEF Ordered, Followed
<1>4. /\ \A i \in 1..Len(wire) : k <= i /\ wire[i].unit = u => v <= wire[i].val
      /\ \A i \in 1..Len(wire) : i <= k /\ wire[i].unit = u => wire[i].val <= v
  <2>1. ASSUME NEW i \in 1..Len(wire), wire[i].unit = u
        PROVE  (k < i => v <= wire[i].val) /\ (i < k => wire[i].val <= v)
    BY <1>2, <2>1 DEF Ordered
  <2>2. \A i \in 1..Len(wire) : /\ k <= i => i = k \/ k < i
                                /\ i <= k => i = k \/ i < k
    BY <1>2
  <2>3. v <= v
    BY <1>2
  <2> QED
    BY <2>1, <2>2, <2>3
<1>5. \A w \in Units :
         /\ retained'[w] = IF w = u THEN v ELSE retained[w]
         /\ best'[w] = IF w = u /\ best[w] < v THEN v ELSE best[w]
  BY <1>1, <1>2 DEF TypeOK
<1> HIDE DEF u, v
<1>6. \A w \in Units : \/ best'[w] = best[w] /\ (w = u => v <= best[w])
                       \/ w = u /\ best'[w] = v /\ best[w] < v
  BY <1>2, <1>5
<1>7. Counted'
  BY <1>1, <1>2 DEF Counted
<1>8. Ordered'
  BY <1>1, <1>2, <1>3, <1>6 DEF Ordered
<1>9. Followed'
  <2>1. ASSUME NEW i \in (k + 1)..Len(wire), old < i
        PROVE  best'[wire[i].unit] <= wire[i].val
    <3>1. /\ i \in (taken + 1)..Len(wire) /\ i \in 1..Len(wire) /\ k <= i
          /\ wire[i].unit \in Units
      BY <1>2, <2>1
    <3>2. best[wire[i].unit] <= wire[i].val
      BY <1>1, <2>1, <3>1 DEF Followed
    <3> QED
      BY <1>4, <1>6, <3>1, <3>2
  <2>2. ASSUME NEW i \in 1..Len(wire)
        PROVE  \E j \in i..Len(wire) : /\ wire[j].unit = wire[i].unit
                                       /\ wire[j].val >= best'[wire[i].unit]
    <3>1. CASE best'[wire[i].unit] = best[wire[i].unit]
      BY <3>1 DEF Followed, Holds
    <3>2. CASE wire[i].unit = u /\ best'[u] = v
      <4>1. CASE i <= k
        <5>1. k \in i..Len(wire) /\ wire[k].unit = u /\ wire[k].val = v
          BY <1>2, <4>1 DEF u, v
        <5> QED
          BY <1>2, <3>2, <5>1
      <4>2. CASE k <= i
        <5>1. i \in i..Len(wire) /\ v <= wire[i].val
          BY <1>2, <1>4, <3>2, <4>2
        <5> QED
          BY <1>2, <3>2, <5>1
      <4> QED
        BY <1>2, <4>1, <4>2
    <3> QED
      BY <1>2, <1>6, <3>1, <3>2
  <2>3. ASSUME NEW i \in (k + 1)..old
        PROVE  \E j \in i..old : /\ wire[j].unit = wire[i].unit
                                 /\ wire[j].val >= best'[wire[i].unit]
    <3>1. i \in (taken + 1)..old /\ i \in 1..Len(wire) /\ k <= i /\ i \in i..old
      BY <1>2, <2>3
    <3>2. CASE best'[wire[i].unit] = best[wire[i].unit]
      BY <1>1, <3>1, <3>2 DEF Followed, Holds
    <3>3. CASE wire[i].unit = u /\ best'[u] = v
      BY <1>2, <1>4, <3>1, <3>3
    <3> QED
      BY <1>2, <1>6, <3>1, <3>2, <3>3
  <2> QED
    BY <1>1, <2>1, <2>2, <2>3 DEF Followed, Holds
<1>10. Shown'
  <2>1. ASSUME NEW i \in 1..k PROVE wire[i].val <= retained'[wire[i].unit]
    <3>1. i \in 1..Len(wire) /\ i <= k /\ (i = k \/ i \in 1..taken)
      BY <1>2, <2>1
    <3>2. CASE wire[i].unit = u
      <4>1. wire[i].val <= v /\ retained'[u] = v
        BY <1>2, <1>4, <1>5, <3>1, <3>2
      <4> QED
        BY <3>2, <4>1
    <3>3. CASE wire[i].unit # u
      <4>1. i \in 1..taken
        BY <3>1, <3>3 DEF u
      <4> QED
        BY <1>2, <1>5, <3>1, <3>3, <4>1 DEF Shown
    <3> QED
      BY <3>2, <3>3
  <2>2. ASSUME NEW w \in Units
        PROVE  /\ retained'[w] <= best'[w]
               /\ retained'[w] < best'[w] =>
                      \E j \in (k + 1)..old : wire[j].unit = w /\ wire[j].val >= best'[w]
    <3>1. CASE w # u
      <4>1. /\ retained'[w] = retained[w] /\ best'[w] = best[w] /\ retained[w] <= best[w]
            /\ retained[w] < best[w] =>
                   \E j \in k..old : wire[j].unit = w /\ wire[j].val >= best[w]
        BY <1>5, <3>1 DEF Shown, Holds
      <4>2. \A j \in k..old : wire[j].unit = w => j \in (k + 1)..old
        <5>1. \A j \in k..old : wire[j].unit = w => j # k
          BY <3>1 DEF u
        <5> QED
          BY <1>2, <5>1
      <4> QED
        BY <4>1, <4>2
    <3>2. CASE w = u /\ best[u] <= v
      BY <1>2, <1>5, <3>2
    <3>3. CASE w = u /\ v < best[u]
      <4>1. k \in k..old
        BY <1>2, <1>3, <3>3
      <4>2. PICK j \in k..old : Holds(j, u, best[u])
        BY <1>1, <4>1 DEF Followed, u
      <4>3. j \in 1..Len(wire) /\ wire[j].unit = u /\ wire[j].val >= best[u] /\ j # k
        <5>1. j = k => wire[j].val = v
          BY DEF v
        <5> QED
          BY <1>2, <3>3, <4>2, <5>1 DEF Holds
      <4>4. j \in (k + 1)..old
        BY <1>2, <4>2, <4>3
      <4> QED
        BY <1>2, <1>5, <3>3, <4>3, <4>4
    <3> QED
      BY <1>2, <3>1, <3>2, <3>3
  <2> QED
    BY <1>1, <2>1, <2>2 DEF Shown, Holds
<1>11. \E i \in 1..Len(wire) : wire[i].unit = u /\ wire[i].val = v
  BY <1>2 DEF u, v
<1> QED
  BY <1>1, <1>2, <1>3, <1>7, <1>8, <1>9, <1>10, <1>11 DEF u, v

\* An acknowledgement takes the oldest message off the wire, which the broker
\* has stored.
LEMMA AckWire ==
    ASSUME TypeOK, WireInv, Acknowledged
    PROVE  /\ WireInv'
           /\ wire # <<>> /\ wire[1].unit \in Units /\ wire[1].val <= retained[wire[1].unit]
<1> USE DEF WireInv
<1>1. /\ wire' = Tail(wire) /\ taken > 0 /\ taken' = taken - 1
      /\ old' = IF old > 0 THEN old - 1 ELSE 0
      /\ UNCHANGED <<state, phase, link, newest, retained, best>>
  BY DEF Acknowledged, pubVars
<1>2. /\ Len(wire) \in Nat /\ taken \in Nat /\ old \in Nat
      /\ taken <= Len(wire) /\ old <= Len(wire)
      /\ \A i \in 1..Len(wire) : wire[i].unit \in Units /\ wire[i].val \in Int
      /\ wire \in Seq(Message)
  BY WireTypes DEF Counted
<1>3. wire # <<>> /\ 1 \in 1..taken /\ 1 \in 1..Len(wire)
  BY <1>1, <1>2, EmptySeq
<1>4. Len(wire') = Len(wire) - 1 /\ \A i \in 1..Len(wire') : wire'[i] = wire[i + 1]
  BY <1>1, <1>2, <1>3, Taking
<1>5. \A i \in 1..Len(wire') : i + 1 \in 1..Len(wire) /\ wire'[i] = wire[i + 1]
  BY <1>2, <1>4
<1>6. /\ old > 0 => old' = old - 1
      /\ old = 0 => old' = 0
      /\ old' \in Nat /\ taken' \in Nat /\ taken' = taken - 1
  BY <1>1, <1>2
<1>7. Counted'
  BY <1>1, <1>2, <1>4, <1>6 DEF Counted
<1>8. Ordered'
  <2>1. \A i \in 1..Len(wire') : wire'[i].val <= state[wire'[i].unit]
    BY <1>5 DEF Ordered
  <2>2. ASSUME NEW i \in 1..Len(wire'), NEW j \in 1..Len(wire'), i < j,
               wire'[i].unit = wire'[j].unit
        PROVE  wire'[i].val <= wire'[j].val
    <3>1. i + 1 < j + 1
      BY <2>2
    <3> QED
      BY <1>5, <2>2, <3>1 DEF Ordered
  <2> QED
    BY <1>1, <2>1, <2>2 DEF Ordered
<1>9. Followed'
  <2>1. ASSUME link, NEW i \in (taken' + 1)..Len(wire'), old' < i
        PROVE  best[wire'[i].unit] <= wire'[i].val
    <3>1. i \in 1..Len(wire') /\ i + 1 \in (taken + 1)..Len(wire) /\ old < i + 1
      BY <1>2, <1>4, <1>6, <2>1
    <3>2. best[wire[i + 1].unit] <= wire[i + 1].val
      BY <2>1, <3>1 DEF Followed
    <3> QED
      BY <1>5, <3>1, <3>2
  <2>2. ASSUME NEW i \in 1..Len(wire')
        PROVE  \E j \in i..Len(wire') : /\ wire'[j].unit = wire'[i].unit
                                        /\ wire'[j].val >= best[wire'[i].unit]
    <3>1. i + 1 \in 1..Len(wire)
      BY <1>5
    <3>2. PICK j \in (i + 1)..Len(wire) : Holds(j, wire[i + 1].unit, best[wire[i + 1].unit])
      BY <3>1 DEF Followed
    <3>3. j - 1 \in i..Len(wire') /\ j - 1 \in 1..Len(wire') /\ (j - 1) + 1 = j
      BY <1>2, <1>4, <3>2
    <3>4. wire'[j - 1] = wire[j] /\ wire'[i] = wire[i + 1]
      BY <1>5, <3>3
    <3> QED
      BY <3>2, <3>3, <3>4 DEF Holds
  <2>3. ASSUME link, NEW i \in (taken' + 1)..old'
        PROVE  \E j \in i..old' : /\ wire'[j].unit = wire'[i].unit
                                  /\ wire'[j].val >= best[wire'[i].unit]
    <3>1. old > 0 /\ old' = old - 1 /\ i + 1 \in (taken + 1)..old /\ i \in 1..Len(wire')
      BY <1>2, <1>4, <1>6, <2>3
    <3>2. PICK j \in (i + 1)..old : Holds(j, wire[i + 1].unit, best[wire[i + 1].unit])
      BY <2>3, <3>1 DEF Followed
    <3>3. j - 1 \in i..old' /\ j - 1 \in 1..Len(wire') /\ (j - 1) + 1 = j
      BY <1>2, <1>4, <3>1, <3>2
    <3>4. wire'[j - 1] = wire[j] /\ wire'[i] = wire[i + 1]
      BY <1>5, <3>1, <3>3
    <3> QED
      BY <3>2, <3>3, <3>4 DEF Holds
  <2> QED
    BY <1>1, <2>1, <2>2, <2>3 DEF Followed, Holds
<1>10. Shown'
  <2>1. ASSUME NEW i \in 1..taken' PROVE wire'[i].val <= retained[wire'[i].unit]
    <3>1. i + 1 \in 1..taken /\ i \in 1..Len(wire')
      BY <1>2, <1>4, <1>6
    <3> QED
      BY <1>5, <3>1 DEF Shown
  <2>2. ASSUME NEW w \in Units, retained[w] < best[w]
        PROVE  \E j \in (taken' + 1)..old' : wire'[j].unit = w /\ wire'[j].val >= best[w]
    <3>1. PICK j \in (taken + 1)..old : Holds(j, w, best[w])
      BY <2>2 DEF Shown
    <3>2. j - 1 \in (taken' + 1)..old' /\ j - 1 \in 1..Len(wire') /\ (j - 1) + 1 = j
      BY <1>2, <1>4, <1>6, <3>1
    <3>3. wire'[j - 1] = wire[j]
      BY <1>5, <3>2
    <3> QED
      BY <3>1, <3>2, <3>3 DEF Holds
  <2> QED
    BY <1>1, <2>1, <2>2 DEF Shown, Holds
<1>11. wire[1].unit \in Units /\ wire[1].val <= retained[wire[1].unit]
  BY <1>2, <1>3 DEF Shown
<1> QED
  BY <1>3, <1>7, <1>8, <1>9, <1>10, <1>11

\* A new connection starts with all that is held as what is sent again.
LEMMA ConnectWire ==
    ASSUME TypeOK, WireInv, phase = "down", phase' # "down", old' = Len(wire),
           UNCHANGED <<state, newest, wire, retained, taken, best>>
    PROVE  WireInv'
<1> USE DEF WireInv
<1>1. /\ Len(wire) \in Nat /\ taken = 0 /\ taken' = 0 /\ old \in Nat /\ old <= Len(wire)
  BY WireTypes DEF Counted
<1>2. Counted'
  BY <1>1 DEF Counted
<1>3. Ordered'
  BY DEF Ordered
<1>4. Followed'
  <2>1. \A i \in (taken' + 1)..Len(wire) : ~(Len(wire) < i)
    BY <1>1
  <2>2. \A i \in (taken' + 1)..Len(wire) : i \in 1..Len(wire)
    BY <1>1
  <2> QED
    BY <2>1, <2>2 DEF Followed, Holds
<1>5. Shown'
  <2>1. \A i \in 1..taken' : FALSE
    BY <1>1
  <2>2. \A j \in (taken + 1)..old : j \in (taken' + 1)..Len(wire)
    BY <1>1
  <2> QED
    BY <2>1, <2>2 DEF Shown, Holds
<1> QED
  BY <1>2, <1>3, <1>4, <1>5

\* Without a connection nothing is taken; what is held stays.
LEMMA CutWire ==
    ASSUME TypeOK, WireInv, ~link', taken' = 0,
           UNCHANGED <<state, wire, retained, old, best>>,
           UNCHANGED newest \/ newest' = [u \in Units |-> 0]
    PROVE  WireInv'
<1> USE DEF WireInv
<1>1. Len(wire) \in Nat /\ taken \in Nat /\ old \in Nat /\ old <= Len(wire)
      /\ \A u \in Units : state[u] \in Int /\ state[u] >= 0
  <2>1. \A u \in Units : state[u] \in Int /\ state[u] >= 0
    BY BoundsAssumption DEF TypeOK
  <2> QED
    BY <2>1, WireTypes DEF Counted
<1>2. Counted'
  BY <1>1 DEF Counted
<1>3. Ordered'
  BY <1>1 DEF Ordered
<1>4. Followed'
  BY DEF Followed, Holds
<1>5. Shown'
  <2>1. \A i \in 1..taken' : FALSE
    OBVIOUS
  <2>2. \A j \in (taken + 1)..old : j \in (taken' + 1)..old
    BY <1>1
  <2> QED
    BY <2>1, <2>2 DEF Shown, Holds
<1> QED
  BY <1>2, <1>3, <1>4, <1>5

\* Another client holds nothing, and knows of the topics only what they show.
LEMMA RestartWire ==
    ASSUME TypeOK, WireInv, Restart
    PROVE  WireInv'
<1> USE DEF WireInv
<1>1. /\ phase' = "down" /\ ~link' /\ taken' = 0 /\ old' = 0 /\ wire' = <<>>
      /\ best' = retained
      /\ UNCHANGED <<state, newest, retained>>
  BY DEF Restart, Counted, pubVars
<1>2. Len(wire') = 0
  BY <1>1, EmptySeq
<1>3. \A u \in Units : /\ retained[u] \in Int /\ best[u] \in Int /\ state[u] \in Int
                       /\ retained[u] <= best[u] /\ best[u] <= state[u]
  BY WireTypes DEF Ordered, Shown
<1>4. Counted'
  BY <1>1, <1>2 DEF Counted
<1>5. \A i \in 1..Len(wire') : FALSE
  BY <1>2
<1>7. \A u \in Units : retained'[u] <= best'[u] /\ ~(retained'[u] < best'[u])
  BY <1>1, <1>3
<1>8. Ordered'
  BY <1>1, <1>3, <1>5 DEF Ordered
<1>9. Followed'
  BY <1>1, <1>5 DEF Followed
<1>10. Shown'
  <2>1. \A i \in 1..taken' : FALSE
    BY <1>1
  <2> QED
    BY <1>7, <2>1 DEF Shown
<1> QED
  BY <1>4, <1>8, <1>9, <1>10

\* A unit's new state disturbs nothing that is held or shown.
LEMMA GrowWire ==
    ASSUME TypeOK, WireInv, UNCHANGED <<phase, link, wire, retained, taken, old, best>>,
           \A u \in Units : state'[u] \in Int /\ state[u] <= state'[u] /\ newest'[u] <= state'[u]
    PROVE  WireInv'
<1> USE DEF WireInv
<1>1. /\ \A i \in 1..Len(wire) : wire[i].unit \in Units /\ wire[i].val \in Int
      /\ \A u \in Units : state[u] \in Int /\ best[u] \in Int
  BY WireTypes
<1>2. Ordered'
  <2>1. \A u \in Units : best[u] <= state'[u]
    BY <1>1 DEF Ordered
  <2>2. \A i \in 1..Len(wire) : wire[i].val <= state'[wire[i].unit]
    BY <1>1 DEF Ordered
  <2> QED
    BY <2>1, <2>2 DEF Ordered
<1> QED
  BY <1>2 DEF Counted, Followed, Shown, Holds

\* Nor does a step of the worker, a snapshot or a session that sends nothing.
LEMMA SameWire ==
    ASSUME WireInv, phase' = "down" => phase = "down",
           UNCHANGED <<state, newest, link, wire, retained, taken, old, best>>
    PROVE  WireInv'
  BY DEF WireInv, Counted, Ordered, Followed, Shown, Holds
----------------------------------------------------------------------------
(* Types                                                                   *)

LEMMA NothingType == Nothing \in Awaited
  BY BoundsAssumption DEF Nothing, Awaited, Lost

LEMMA MovingTypes ==
    ASSUME NEW a \in Awaited
    PROVE  Nearer(a) \in Awaited /\ Cut(a) \in Awaited
  BY BoundsAssumption DEF Awaited, Nearer, Cut, Lost

LEMMA SubmitTypes ==
    ASSUME TypeOK, NEW u \in Units, NEW v \in 1..MaxState, Submit(u, v)
    PROVE  /\ pending' \in Seq(Units)
           /\ value' \in [Units -> 0..MaxState]
           /\ newest' \in [Units -> 0..MaxState]
           /\ wakeup' \in BOOLEAN /\ idle' \in BOOLEAN
<1>1. pending' \in Seq(Units)
  BY Adding DEF TypeOK, Submit
<1>2. v \in 0..MaxState
  BY BoundsAssumption
<1> QED
  BY <1>1, <1>2 DEF TypeOK, Submit

\* What the head of the worker's loop does to the types, given that a queued
\* unit has a state.
LEMMA TakeTypes ==
    ASSUME TypeOK, Queued, TakeNext
    PROVE  /\ flight' \in Awaited /\ wire' \in Seq(Message) /\ Len(wire') <= MaxWire
           /\ pending' \in Seq(Units) /\ value' \in [Units -> 0..MaxState]
           /\ worker' \in {"wait", "flight"} /\ idle' \in BOOLEAN
<1>1. CASE pending # <<>>
  <2> DEFINE u == Head(pending)
  <2>1. u \in Units /\ u = pending[1] /\ Tail(pending) \in Seq(Units) /\ Len(pending) \in Nat \ {0}
    BY <1>1, Taking DEF TypeOK
  <2>2. value[u] \in 1..MaxState
    <3>1. 1 \in 1..Len(pending)
      BY <2>1
    <3>2. newest[u] > 0 /\ value[u] = newest[u]
      BY <2>1, <3>1 DEF Queued
    <3>3. newest[u] \in 0..MaxState
      BY <2>1 DEF TypeOK
    <3> QED
      BY <3>2, <3>3, BoundsAssumption
  <2>3. /\ CanSend /\ flight' = Sent(u, value[u]) /\ wire' = WireWith(u, value[u])
        /\ pending' = Tail(pending) /\ value' = [value EXCEPT ![u] = 0]
        /\ worker' = "flight" /\ idle' = idle
    BY <1>1 DEF TakeNext
  <2> HIDE DEF u
  <2>4. /\ Sent(u, value[u]) \in Awaited /\ WireWith(u, value[u]) \in Seq(Message)
        /\ Len(WireWith(u, value[u])) <= MaxWire
    BY <2>1, <2>2, <2>3, Sending
  <2> QED
    BY <2>1, <2>3, <2>4, BoundsAssumption DEF TypeOK
<1>2. CASE pending = <<>>
  BY <1>2, NothingType DEF TakeNext, TypeOK
<1> QED
  BY <1>1, <1>2

\* Every step keeps the types.
LEMMA TypeStep == TypeOK /\ Awaiting /\ WireInv /\ Queued /\ [Next]_vars => TypeOK'
<1> SUFFICES ASSUME TypeOK, Awaiting, WireInv, Queued, [Next]_vars PROVE TypeOK'
  OBVIOUS
<1>1. ASSUME Deliver PROVE TypeOK'
  <2>1. PICK u \in Units, v \in 1..MaxState :
           /\ retained' = [retained EXCEPT ![u] = v]
           /\ best' = [best EXCEPT ![u] = IF @ < v THEN v ELSE @]
    BY <1>1, DeliverWire
  <2>2. /\ retained' \in [Units -> 0..MaxState]
        /\ best' \in [Units -> 0..MaxState]
    <3>1. v \in 0..MaxState
      BY BoundsAssumption
    <3> QED
      BY <2>1, <3>1 DEF TypeOK
  <2>3. taken' \in 0..MaxWire
    <3>1. taken < Len(wire) /\ taken' = taken + 1 /\ Len(wire) \in Nat /\ taken \in Nat
      BY <1>1, WireTypes DEF Deliver
    <3> QED
      BY <3>1, BoundsAssumption DEF TypeOK
  <2> QED
    BY <1>1, <2>2, <2>3 DEF Deliver, TypeOK, pubVars, workVars, snapVars
<1>2. ASSUME Acknowledged PROVE TypeOK'
  <2>1. flight' \in Awaited /\ snap' \in Awaited
    BY <1>2, MovingTypes DEF Acknowledged, TypeOK
  <2>2. wire' \in Seq(Message) /\ Len(wire') <= MaxWire
    <3>1. wire # <<>> /\ wire' = Tail(wire) /\ wire \in Seq(Message)
      BY <1>2, AckWire DEF Acknowledged, TypeOK
    <3> QED
      BY <3>1, Taking, BoundsAssumption DEF TypeOK
  <2>3. taken' \in 0..MaxWire /\ old' \in 0..MaxWire
    BY <1>2, BoundsAssumption DEF Acknowledged, TypeOK
  <2> QED
    BY <1>2, <2>1, <2>2, <2>3 DEF Acknowledged, TypeOK, pubVars
<1>18. ASSUME LinkDies PROVE TypeOK'
  <2>1. flight' \in Awaited /\ snap' \in Awaited
    BY <1>18, MovingTypes DEF LinkDies, TypeOK
  <2>2. taken' \in 0..MaxWire
    BY <1>18, BoundsAssumption DEF LinkDies
  <2> QED
    BY <1>18, <2>1, <2>2 DEF LinkDies, TypeOK, pubVars
<1>3. ASSUME NEW u \in Units, UnitChanges(u) PROVE TypeOK'
  <2>1. state[u] + 1 \in 1..MaxState
    BY <1>3, BoundsAssumption DEF UnitChanges, TypeOK
  <2>2. state' \in [Units -> 1..MaxState]
    BY <1>3, <2>1 DEF UnitChanges, TypeOK
  <2>3. Submit(u, state[u] + 1) \/ UNCHANGED pubVars
    BY <1>3 DEF UnitChanges
  <2>4. /\ pending' \in Seq(Units)
        /\ value' \in [Units -> 0..MaxState]
        /\ newest' \in [Units -> 0..MaxState]
        /\ wakeup' \in BOOLEAN /\ idle' \in BOOLEAN
    BY <2>1, <2>3, SubmitTypes DEF TypeOK, pubVars
  <2> QED
    BY <1>3, <2>2, <2>4 DEF UnitChanges, TypeOK, brokerVars, workVars, snapVars
<1>4. ASSUME NEW u \in Units, UnitRepeats(u) PROVE TypeOK'
  <2>1. /\ pending' \in Seq(Units)
        /\ value' \in [Units -> 0..MaxState]
        /\ newest' \in [Units -> 0..MaxState]
        /\ wakeup' \in BOOLEAN /\ idle' \in BOOLEAN
    BY <1>4, SubmitTypes DEF UnitRepeats, TypeOK
  <2> QED
    BY <1>4, <2>1 DEF UnitRepeats, TypeOK, brokerVars, workVars, snapVars
<1>5. ASSUME NEW u \in Units, SnapshotPublish(u) PROVE TypeOK'
  <2>1. state[u] \in 1..MaxState
    BY DEF TypeOK
  <2>2. /\ Sent(u, state[u]) \in Awaited /\ WireWith(u, state[u]) \in Seq(Message)
        /\ Len(WireWith(u, state[u])) <= MaxWire
    BY <1>5, <2>1, Sending DEF SnapshotPublish
  <2> QED
    BY <1>5, <2>2 DEF SnapshotPublish, TypeOK, brokerVars, pubVars, workVars
<1>6. ASSUME TakeNext, wakeup' \in BOOLEAN, failing' \in BOOLEAN,
             UNCHANGED <<state, brokerVars, phase, link, newest, snapVars>>
      PROVE TypeOK'
  BY <1>6, TakeTypes DEF TypeOK, brokerVars, snapVars
<1>7. CASE WorkerWakes
  BY <1>6, <1>7 DEF WorkerWakes, TypeOK
<1>8. CASE WorkerConfirmed
  BY <1>6, <1>8 DEF WorkerConfirmed, TypeOK
<1>9. CASE WorkerResumes
  BY <1>6, <1>9 DEF WorkerResumes, TypeOK
<1>10. CASE WorkerFails
  <2>1. flight.unit \in Units /\ flight.val \in 0..MaxState
    BY <1>10, NoUnitAssumption DEF WorkerFails, Awaiting, GoodAwait, TypeOK, Awaited
  <2>2. pending' \in Seq(Units) /\ value' \in [Units -> 0..MaxState]
    <3>1. Append(pending, flight.unit) \in Seq(Units)
      BY <2>1, Adding DEF TypeOK
    <3>2. \/ pending' = pending /\ value' = value
          \/ /\ pending' = Append(pending, flight.unit)
             /\ value' = [value EXCEPT ![flight.unit] = flight.val]
      BY <1>10 DEF WorkerFails, Requeue
    <3> QED
      BY <2>1, <3>1, <3>2 DEF TypeOK
  <2> QED
    BY <1>10, <2>2, NothingType DEF WorkerFails, TypeOK, brokerVars, snapVars
<1>11. ASSUME SnapshotEnds PROVE /\ snap' \in Awaited /\ todo' \in SUBSET Units
                                 /\ snapping' \in BOOLEAN /\ snapFailed' \in BOOLEAN
                                 /\ base' \in [Units -> 0..MaxState]
  <2>1. [u \in Units |-> 0] \in [Units -> 0..MaxState]
    BY BoundsAssumption
  <2> QED
    BY <1>11, <2>1, NothingType DEF SnapshotEnds
<1>19. CASE SnapshotConfirmed \/ SnapshotFails
  <2>1. base' \in [Units -> 0..MaxState]
    <3>1. [u \in Units |-> 0] \in [Units -> 0..MaxState]
      BY BoundsAssumption
    <3> QED
      BY <1>19, <3>1 DEF SnapshotConfirmed, SnapshotFails, TypeOK
  <2> QED
    BY <1>19, <2>1, NothingType
    DEF SnapshotConfirmed, SnapshotFails, TypeOK, brokerVars, pubVars, workVars
<1>20. CASE SnapshotDone
  BY <1>11, <1>20 DEF SnapshotDone, TypeOK, Phases, brokerVars, pubVars, workVars
<1>12. CASE CommandSnapshot \/ Connect
  <2>1. BeginSnapshot /\ phase' \in Phases /\ link' \in BOOLEAN /\ snapOk' \in BOOLEAN
    BY <1>12 DEF CommandSnapshot, Connect, TypeOK, Phases
  <2>2. base' \in [Units -> 0..MaxState]
    BY <2>1, BoundsAssumption DEF BeginSnapshot, TypeOK
  <2>3. old' \in 0..MaxWire
    BY <1>12, WireTypes, BoundsAssumption DEF CommandSnapshot, Connect, TypeOK, brokerVars
  <2> QED
    BY <1>12, <2>1, <2>2, <2>3, NothingType
    DEF CommandSnapshot, Connect, BeginSnapshot, TypeOK, brokerVars, pubVars, workVars
<1>15. CASE Register
  BY <1>15 DEF Register, TypeOK, Phases, brokerVars, pubVars, snapVars
<1>16. CASE MqttLost \/ Interrupted
  <2>1. EndSession
    BY <1>16 DEF MqttLost, Interrupted
  <2> QED
    BY <1>11, <2>1 DEF EndSession, TypeOK, Phases, brokerVars, pubVars, workVars
<1>17. CASE Unregister
  BY <1>17 DEF Unregister, TypeOK, Phases, brokerVars, pubVars, workVars, snapVars
<1>13. CASE Drained \/ DrainTimesOut
  <2>1. Discard
    BY <1>13 DEF Drained, DrainTimesOut
  <2>2. [u \in Units |-> 0] \in [Units -> 0..MaxState]
    BY BoundsAssumption
  <2>3. <<>> \in Seq(Units) /\ <<>> \in Seq(Message) /\ Len(<<>>) <= MaxWire
    BY EmptySeq, BoundsAssumption
  <2>4. taken' \in 0..MaxWire
    BY <2>1, BoundsAssumption DEF Discard
  <2> QED
    BY <2>1, <2>2, <2>3, <2>4, NothingType DEF Discard, TypeOK, Phases, snapVars
<1>21. CASE Restart
  <2>1. <<>> \in Seq(Message) /\ Len(<<>>) <= MaxWire
    BY EmptySeq, BoundsAssumption
  <2>2. old' \in 0..MaxWire /\ best' \in [Units -> 0..MaxState]
    BY <1>21, BoundsAssumption DEF Restart, TypeOK
  <2> QED
    BY <1>21, <2>1, <2>2 DEF Restart, TypeOK, pubVars, workVars, snapVars
<1>14. CASE UNCHANGED vars
  BY <1>14 DEF TypeOK, vars, brokerVars, pubVars, workVars, snapVars
<1> QED
  BY <1>1, <1>2, <1>3, <1>4, <1>5, <1>7, <1>8, <1>9, <1>10, <1>11, <1>12, <1>13, <1>14,
     <1>15, <1>16, <1>17, <1>18, <1>19, <1>20, <1>21
  DEF Next

----------------------------------------------------------------------------
(* Awaited messages                                                        *)

\* Sending further messages leaves an awaited one where it is.
LEMMA GoodExtends ==
    ASSUME NEW a \in Awaited, NEW w \in Seq(Message), NEW x \in Seq(Message), NEW r,
           NEW o \in Nat,
           GoodAwait(a, w, r, o), Len(w) <= Len(x), \A i \in 1..Len(w) : x[i] = w[i]
    PROVE  GoodAwait(a, x, r, o)
<1>1. Len(w) \in Nat /\ Len(x) \in Nat /\ a.pos \in Int
  BY LenProperties, BoundsAssumption DEF Awaited, Lost
<1> QED
  BY <1>1 DEF GoodAwait

\* What is acknowledged stays on its topic while topics only move forward, and
\* they do once all that is sent again was taken.
LEMMA GoodStays ==
    ASSUME NEW a \in Awaited, NEW w, NEW r, NEW y, NEW o, GoodAwait(a, w, r, o),
           o = 0 => \A u \in Units : y[u] \in Int /\ r[u] \in Int /\ r[u] <= y[u]
    PROVE  GoodAwait(a, w, y, o)
<1>1. a.val \in Int
  BY BoundsAssumption DEF Awaited
<1> QED
  BY <1>1 DEF GoodAwait

\* The oldest message, which its topic shows, is acknowledged.
LEMMA GoodAcked ==
    ASSUME NEW a \in Awaited, NEW w \in Seq(Message), w # <<>>, NEW r, NEW o \in Nat,
           w[1].val <= r[w[1].unit], GoodAwait(a, w, r, o),
           w[1].val \in Int, r[w[1].unit] \in Int
    PROVE  GoodAwait(Nearer(a), Tail(w), r, IF o > 0 THEN o - 1 ELSE 0)
<1> DEFINE x == Tail(w)
           p == IF o > 0 THEN o - 1 ELSE 0
<1>1. /\ Len(w) \in Nat \ {0} /\ Len(x) = Len(w) - 1
      /\ \A i \in 1..Len(x) : x[i] = w[i + 1]
  BY Taking
<1>2. a.pos \in Int
  BY BoundsAssumption DEF Awaited, Lost
<1>3. CASE a = Nothing
  BY <1>3 DEF GoodAwait, Nearer, Nothing, Lost
<1>4. CASE a # Nothing
  <2>1. /\ a.unit \in Units /\ a.val > 0
        /\ a.pos > 0 => /\ o < a.pos /\ a.pos <= Len(w)
                        /\ w[a.pos] = [unit |-> a.unit, val |-> a.val]
        /\ a.pos = 0 => o = 0 /\ r[a.unit] >= a.val
    BY <1>4 DEF GoodAwait
  <2>2. /\ Nearer(a).unit = a.unit /\ Nearer(a).val = a.val
        /\ Nearer(a).pos = IF a.pos > 0 THEN a.pos - 1 ELSE a.pos
    BY DEF Nearer, Awaited
  <2>3. ASSUME Nearer(a).pos > 0
        PROVE  /\ p < Nearer(a).pos /\ Nearer(a).pos <= Len(x)
               /\ x[Nearer(a).pos] = [unit |-> a.unit, val |-> a.val]
    <3>1. /\ Nearer(a).pos = a.pos - 1 /\ a.pos - 1 \in 1..Len(x) /\ a.pos > 0
          /\ p < a.pos - 1
      BY <1>1, <1>2, <2>1, <2>2, <2>3
    <3>2. x[a.pos - 1] = w[(a.pos - 1) + 1]
      BY <1>1, <3>1
    <3>3. Nearer(a).pos <= Len(x)
      BY <1>1, <3>1
    <3> QED
      BY <1>2, <2>1, <3>1, <3>2, <3>3
  <2>4. ASSUME Nearer(a).pos = 0 PROVE p = 0 /\ r[a.unit] >= a.val
    <3>1. CASE a.pos = 0
      BY <2>1, <3>1
    <3>2. CASE a.pos = 1
      <4>1. o = 0 /\ w[1] = [unit |-> a.unit, val |-> a.val]
        BY <2>1, <3>2
      <4> QED
        BY <4>1
    <3> QED
      BY <1>2, <2>2, <2>4, <3>1, <3>2
  <2> HIDE DEF p, x
  <2> QED
    BY <2>1, <2>2, <2>3, <2>4 DEF GoodAwait, p, x
<1> QED
  BY <1>3, <1>4

\* A connection that dies ends the wait.
LEMMA GoodCut ==
    ASSUME NEW a \in Awaited, NEW w, NEW r, NEW o, GoodAwait(a, w, r, o)
    PROVE  GoodAwait(Cut(a), w, r, o)
<1>1. a.pos \in Int
  BY BoundsAssumption DEF Awaited, Lost
<1>2. CASE a = Nothing
  BY <1>2 DEF GoodAwait, Cut, Nothing, Lost
<1>3. CASE a # Nothing
  <2>1. /\ Cut(a).unit = a.unit /\ Cut(a).val = a.val
        /\ Cut(a).pos = IF a.pos > 0 THEN Lost ELSE a.pos
    BY DEF Cut, Awaited
  <2> QED
    BY <1>1, <1>3, <2>1 DEF GoodAwait, Lost
<1> QED
  BY <1>2, <1>3

\* Messages that move keep their unit and value, and nothing stays nothing.
LEMMA Moving ==
    ASSUME NEW a \in Awaited, NEW w, NEW r, NEW o, GoodAwait(a, w, r, o),
           NEW b, b = Nearer(a) \/ b = Cut(a)
    PROVE  b.unit = a.unit /\ b.val = a.val /\ (b # Nothing <=> a # Nothing)
<1>1. b.unit = a.unit /\ b.val = a.val
  BY DEF Nearer, Cut, Awaited
<1>2. a = Nothing => b = Nothing
  BY DEF Nearer, Cut, Nothing, Lost
<1>3. a # Nothing => b # Nothing
  BY <1>1, NoUnitAssumption DEF GoodAwait, Nothing
<1> QED
  BY <1>1, <1>2, <1>3

----------------------------------------------------------------------------
(* The steps that send, take or queue                                      *)

\* The head of the worker's loop: it sends the newest submission of the
\* oldest unit, which the wire carries nothing newer than.
LEMMA TakeStep ==
    ASSUME IInv, TakeNext, worker # "off", flight = Nothing \/ flight.pos = 0,
           UNCHANGED <<state, brokerVars, phase, link, newest, snap, snapping>>
    PROVE  Awaiting' /\ WireInv' /\ Queued' /\ Newest'
<1> USE DEF IInv, WireInv, brokerVars
<1>1. phase \in {"live", "ending", "closing"}
  BY DEF Awaiting
<1>2. \A w \in Units : newest[w] > 0 /\ flight.unit = w /\ w \notin Range(pending)
                          => old = 0 /\ retained[w] >= newest[w]
  BY NoUnitAssumption DEF Newest, Awaiting, GoodAwait, Nothing
<1>3. CASE pending # <<>>
  <2> DEFINE u == Head(pending)
             v == value[u]
  <2>1. /\ u \in Units /\ u = pending[1] /\ Tail(pending) \in Seq(Units)
        /\ Len(pending) \in Nat \ {0} /\ Len(Tail(pending)) = Len(pending) - 1
        /\ \A i \in 1..Len(Tail(pending)) : Tail(pending)[i] = pending[i + 1]
    BY <1>3, Taking DEF TypeOK
  <2>2. /\ CanSend /\ flight' = Sent(u, v) /\ wire' = WireWith(u, v)
        /\ pending' = Tail(pending) /\ value' = [value EXCEPT ![u] = 0]
        /\ worker' = "flight"
    BY <1>3 DEF TakeNext
  <2>3. newest[u] > 0 /\ v = newest[u] /\ v \in 1..MaxState
    <3>1. 1 \in 1..Len(pending)
      BY <2>1
    <3>2. newest[u] > 0 /\ v = newest[u]
      BY <2>1, <3>1 DEF Queued
    <3>3. newest[u] \in 0..MaxState
      BY <2>1 DEF TypeOK
    <3> QED
      BY <3>2, <3>3, BoundsAssumption
  <2> HIDE DEF u, v
  <2>4. /\ flight'.unit = u /\ flight'.val = v
        /\ flight'.pos = IF link THEN Len(wire) + 1 ELSE Lost
        /\ wire' \in Seq(Message) /\ wire \in Seq(Message)
        /\ Len(wire) \in Nat /\ Len(wire) <= Len(wire')
        /\ old \in Nat /\ old <= Len(wire)
        /\ \A i \in 1..Len(wire) : wire'[i] = wire[i]
        /\ \/ /\ Len(wire') = Len(wire) + 1
              /\ wire'[Len(wire) + 1] = [unit |-> u, val |-> v]
           \/ ~link /\ wire' = wire
    <3>1. wire \in Seq(Message) /\ Len(wire) \in Nat /\ old \in Nat /\ old <= Len(wire)
      BY WireTypes DEF Counted
    <3> QED
      BY <2>1, <2>2, <2>3, <3>1, Sending
  <2>5. Awaiting'
    <3>1. GoodAwait(flight', wire', retained', old')
      <4>1. flight'.pos > 0 => link /\ flight'.pos = Len(wire) + 1
        BY <2>4 DEF Lost
      <4>2. flight'.pos # 0
        BY <2>4 DEF Lost
      <4> QED
        BY <2>1, <2>3, <2>4, <4>1, <4>2 DEF GoodAwait
    <3>2. GoodAwait(snap', wire', retained', old')
      <4>1. snap \in Awaited /\ GoodAwait(snap, wire, retained, old)
        BY DEF Awaiting, TypeOK
      <4>2. GoodAwait(snap, wire', retained, old)
        BY <2>4, <4>1, GoodExtends
      <4> QED
        BY <4>2
    <3>3. flight' # Nothing
      BY <2>1, <2>4, NoUnitAssumption DEF Nothing
    <3> QED
      BY <1>1, <2>2, <3>1, <3>2, <3>3 DEF Awaiting
  <2>6. WireInv'
    <3>1. best[u] <= v /\ v <= state[u]
      BY <2>1, <2>3 DEF Newest, Ordered
    <3>2. \A i \in 1..Len(wire) : wire[i].unit = u => wire[i].val <= v
      BY <2>1, <2>3 DEF Newest
    <3> QED
      BY <2>1, <2>2, <2>3, <3>1, <3>2, SendWire
  <2>7. Queued' /\ u \notin Range(pending')
    <3>1. \A i \in 1..Len(pending') :
             i + 1 \in 1..Len(pending) /\ pending'[i] = pending[i + 1] /\ pending'[i] # u
      <4>1. ASSUME NEW i \in 1..Len(pending')
            PROVE  i + 1 \in 1..Len(pending) /\ pending'[i] = pending[i + 1] /\ i + 1 # 1
        BY <2>1, <2>2
      <4>2. 1 \in 1..Len(pending)
        BY <2>1
      <4> QED
        BY <2>1, <4>1, <4>2 DEF Queued
    <3>2. \A i \in 1..Len(pending') : pending'[i] \in Units
      BY <2>1, <2>2, ElementOfSeq
    <3>3. \A i, j \in 1..Len(pending') : pending'[i] = pending'[j] => i = j
      <4>1. ASSUME NEW i \in 1..Len(pending'), NEW j \in 1..Len(pending'),
                   pending'[i] = pending'[j]
            PROVE  i = j
        <5>1. i + 1 = j + 1
          BY <3>1, <4>1 DEF Queued
        <5> QED
          BY <5>1
      <4> QED
        BY <4>1
    <3>4. \A i \in 1..Len(pending') :
             newest[pending'[i]] > 0 /\ value'[pending'[i]] = newest[pending'[i]]
      <4>1. ASSUME NEW i \in 1..Len(pending')
            PROVE  newest[pending'[i]] > 0 /\ value'[pending'[i]] = newest[pending'[i]]
        <5>1. newest[pending'[i]] > 0 /\ value[pending'[i]] = newest[pending'[i]]
          BY <3>1 DEF Queued
        <5>2. value'[pending'[i]] = value[pending'[i]]
          BY <2>2, <3>1, <3>2 DEF TypeOK
        <5> QED
          BY <5>1, <5>2
      <4> QED
        BY <4>1
    <3>5. u \notin Range(pending')
      <4>1. pending' \in Seq(Units)
        BY <2>1, <2>2
      <4>2. u \in Range(pending') => \E i \in 1..Len(pending') : pending'[i] = u
        BY <4>1, Positions
      <4> QED
        BY <3>1, <4>2
    <3> QED
      BY <3>3, <3>4, <3>5 DEF Queued
  <2>8. Newest'
    <3>1. \A w \in Units : w # u /\ w \in Range(pending) => w \in Range(pending')
      <4>1. ASSUME NEW w \in Units, w # u, NEW i \in 1..Len(pending), pending[i] = w
            PROVE  \E j \in 1..Len(pending') : pending'[j] = w
        <5>1. i - 1 \in 1..Len(pending')
          BY <2>1, <2>2, <4>1
        <5>2. pending'[i - 1] = pending[(i - 1) + 1] /\ (i - 1) + 1 = i
          BY <2>1, <2>2, <5>1
        <5> QED
          BY <4>1, <5>1, <5>2
      <4> QED
        <5>1. pending \in Seq(Units) /\ pending' \in Seq(Units)
          BY <2>1, <2>2 DEF TypeOK
        <5>2. \A w \in Units :
                 /\ w \in Range(pending) => \E i \in 1..Len(pending) : pending[i] = w
                 /\ (\E j \in 1..Len(pending') : pending'[j] = w) => w \in Range(pending')
          BY <5>1, Positions
        <5> QED
          BY <4>1, <5>2
    <3>2. ASSUME NEW w \in Units, newest[w] > 0
          PROVE  /\ Registered' => newest'[w] = state'[w]
                 /\ best'[w] <= newest'[w]
                 /\ \A i \in 1..Len(wire') : wire'[i].unit = w => wire'[i].val <= newest'[w]
                 /\ \/ w \in Range(pending')
                    \/ flight'.unit = w
                    \/ old' = 0 /\ retained'[w] >= newest'[w]
      <4>1. /\ Registered => newest[w] = state[w]
            /\ best[w] <= newest[w]
            /\ \A i \in 1..Len(wire) : wire[i].unit = w => wire[i].val <= newest[w]
            /\ \/ w \in Range(pending) \/ flight.unit = w
               \/ old = 0 /\ retained[w] >= newest[w]
        BY <3>2 DEF Newest
      <4>2. \A i \in 1..Len(wire') :
               \/ i \in 1..Len(wire) /\ wire'[i] = wire[i]
               \/ wire'[i].unit = u /\ wire'[i].val = newest[u]
        BY <2>3, <2>4
      <4>3. \A i \in 1..Len(wire') : wire'[i].unit = w => wire'[i].val <= newest[w]
        <5>1. newest[w] \in Int
          BY BoundsAssumption DEF TypeOK
        <5> QED
          BY <4>1, <4>2, <5>1
      <4>4. \/ w \in Range(pending') \/ flight'.unit = w
            \/ old = 0 /\ retained[w] >= newest[w]
        BY <1>2, <2>4, <3>1, <3>2, <4>1
      <4> QED
        BY <4>1, <4>3, <4>4
    <3> QED
      BY <2>1, <2>3, <2>4, <3>2 DEF Newest
  <2> QED
    BY <2>5, <2>6, <2>7, <2>8
<1>4. CASE pending = <<>>
  <2>1. /\ pending' = <<>> /\ value' = value /\ wire' = wire
        /\ flight' = Nothing /\ worker' = "wait"
    BY <1>4 DEF TakeNext
  <2>2. Awaiting' /\ Queued'
    BY <1>1, <1>4, <2>1 DEF Awaiting, GoodAwait, Queued
  <2>5. WireInv'
    BY <2>1, SameWire
  <2>3. \A w \in Units : w \notin Range(pending)
    BY <1>4 DEF Range
  <2>4. Newest'
    BY <1>2, <1>4, <2>1, <2>3 DEF Newest
  <2> QED
    BY <2>2, <2>4, <2>5
<1> QED
  BY <1>3, <1>4

\* What holds of a queue still holds after its tail got one unit more that
\* was not in it.
LEMMA QueueOne ==
    ASSUME TypeOK, Queued, NEW u \in Units, u \notin Range(pending),
           pending' = Append(pending, u), newest' \in [Units -> 0..MaxState],
           newest'[u] > 0, value'[u] = newest'[u],
           \A w \in Units : w # u => newest'[w] = newest[w] /\ value'[w] = value[w]
    PROVE  Queued' /\ \A w \in Units : w \in Range(pending') <=> w = u \/ w \in Range(pending)
<1>1. /\ Len(pending) \in Nat /\ pending' \in Seq(Units) /\ pending \in Seq(Units)
      /\ Len(pending') = Len(pending) + 1
      /\ \A i \in 1..Len(pending) : pending'[i] = pending[i]
      /\ pending'[Len(pending) + 1] = u
  BY Adding DEF TypeOK
<1>2. \A w \in Units : /\ w \in Range(pending) <=> \E i \in 1..Len(pending) : pending[i] = w
                       /\ w \in Range(pending') <=> \E i \in 1..Len(pending') : pending'[i] = w
  <2>1. \A s \in Seq(Units) : \A w \in Units :
           w \in Range(s) <=> \E i \in 1..Len(s) : s[i] = w
    BY Positions
  <2> QED
    BY <1>1, <2>1
<1>3. \A i \in 1..Len(pending') :
         \/ i \in 1..Len(pending) /\ pending'[i] = pending[i] /\ pending[i] \in Units
            /\ pending[i] # u
         \/ i = Len(pending) + 1 /\ pending'[i] = u
  <2>1. \A i \in 1..Len(pending) : pending[i] \in Units /\ pending[i] # u
    BY <1>1, <1>2, ElementOfSeq
  <2> QED
    BY <1>1, <2>1
<1>4. \A w \in Units : w \in Range(pending') <=> w = u \/ w \in Range(pending)
  <2>1. ASSUME NEW w \in Units, w \in Range(pending') PROVE w = u \/ w \in Range(pending)
    BY <1>2, <1>3, <2>1
  <2>2. ASSUME NEW w \in Units, w = u \/ w \in Range(pending) PROVE w \in Range(pending')
    <3>1. Len(pending) + 1 \in 1..Len(pending')
      BY <1>1
    <3>2. \A i \in 1..Len(pending) : i \in 1..Len(pending')
      BY <1>1
    <3> QED
      BY <1>1, <1>2, <2>2, <3>1, <3>2
  <2> QED
    BY <2>1, <2>2
<1>5. \A i, j \in 1..Len(pending') : pending'[i] = pending'[j] => i = j
  BY <1>3 DEF Queued
<1>6. \A i \in 1..Len(pending') :
         newest'[pending'[i]] > 0 /\ value'[pending'[i]] = newest'[pending'[i]]
  BY <1>3 DEF Queued
<1> QED
  BY <1>4, <1>5, <1>6 DEF Queued

\* A callback of the registered handler queues the unit's newest state.
LEMMA SubmitStep ==
    ASSUME IInv, Registered, NEW u \in Units, NEW v \in 1..MaxState, Submit(u, v),
           state[u] <= v, state' = [state EXCEPT ![u] = v],
           UNCHANGED <<brokerVars, phase, link, wire, worker, flight, snap, snapping>>
    PROVE  Awaiting' /\ WireInv' /\ Queued' /\ Newest'
<1> USE DEF IInv, WireInv, brokerVars
<1>1. /\ newest' = [newest EXCEPT ![u] = v] /\ value' = [value EXCEPT ![u] = v]
      /\ pending' = IF u \in Range(pending) THEN pending ELSE Append(pending, u)
  BY DEF Submit
<1>2. /\ state \in [Units -> Int] /\ state' \in [Units -> Int]
      /\ newest \in [Units -> Int] /\ newest' \in [Units -> 0..MaxState]
      /\ best \in [Units -> Int] /\ v \in Int /\ v > 0
      /\ wire \in Seq(Message)
      /\ value \in [Units -> 0..MaxState]
  <2>1. v \in 0..MaxState /\ v \in Int /\ v > 0
    BY BoundsAssumption
  <2> QED
    BY <1>1, <2>1, BoundsAssumption DEF TypeOK
<1>3. \A i \in 1..Len(wire) : wire[i].unit \in Units /\ wire[i].val \in Int
  <2>1. \A i \in 1..Len(wire) : wire[i] \in Message
    BY <1>2, ElementOfSeq
  <2> QED
    BY <2>1, BoundsAssumption DEF Message
<1>4. \A w \in Units : /\ state[w] <= state'[w] /\ state'[w] \in Int /\ state[w] \in Int
                       /\ w # u => newest'[w] = newest[w] /\ value'[w] = value[w]
                                   /\ state'[w] = state[w]
  BY <1>1, <1>2
<1>5. newest'[u] = v /\ value'[u] = v /\ state'[u] = v
  BY <1>1, <1>2
<1>6. Awaiting'
  BY DEF Awaiting
<1>7. WireInv'
  <2>1. \A w \in Units : newest'[w] <= state'[w]
    BY <1>2, <1>4, <1>5 DEF Ordered
  <2> QED
    BY <1>4, <2>1, GrowWire
<1>8. Queued' /\ \A w \in Units : w \in Range(pending') <=> w = u \/ w \in Range(pending)
  <2>1. CASE u \in Range(pending)
    <3>1. pending' = pending /\ pending \in Seq(Units)
      BY <1>1, <2>1 DEF TypeOK
    <3>2. \A i \in 1..Len(pending) : pending[i] \in Units
      BY <3>1, ElementOfSeq
    <3>3. \A i \in 1..Len(pending) :
             newest'[pending[i]] > 0 /\ value'[pending[i]] = newest'[pending[i]]
      BY <1>2, <1>4, <1>5, <3>2 DEF Queued
    <3> QED
      BY <2>1, <3>1, <3>3 DEF Queued
  <2>2. CASE u \notin Range(pending)
    <3>1. pending' = Append(pending, u)
      BY <1>1, <2>2
    <3> QED
      BY <1>2, <1>4, <1>5, <2>2, <3>1, QueueOne
  <2> QED
    BY <2>1, <2>2
<1>9. Newest'
  <2>1. \A i \in 1..Len(wire) : wire[i].unit = u => wire[i].val <= v
    BY <1>2, <1>3, <1>4 DEF Ordered
  <2>2. best[u] <= v
    <3>1. best[u] <= state[u]
      BY DEF Ordered
    <3> QED
      BY <1>2, <3>1
  <2>3. ASSUME NEW w \in Units, newest'[w] > 0
        PROVE  /\ newest'[w] = state'[w]
               /\ best[w] <= newest'[w]
               /\ \A i \in 1..Len(wire) : wire[i].unit = w => wire[i].val <= newest'[w]
               /\ \/ w \in Range(pending') \/ flight.unit = w
                  \/ old = 0 /\ retained[w] >= newest'[w]
    <3>1. CASE w = u
      BY <1>5, <1>8, <2>1, <2>2, <3>1
    <3>2. CASE w # u
      BY <1>4, <1>8, <2>3, <3>2 DEF Newest
    <3> QED
      BY <3>1, <3>2
  <2>4. flight # Nothing =>
           /\ newest'[flight.unit] > 0
           /\ flight.unit \notin Range(pending') => flight.val = newest'[flight.unit]
    <3>1. flight # Nothing => flight.unit \in Units
      BY DEF Awaiting, GoodAwait
    <3> QED
      BY <1>2, <1>4, <1>5, <1>8, <3>1 DEF Newest
  <2> QED
    BY <2>3, <2>4 DEF Newest
<1> QED
  BY <1>6, <1>7, <1>8, <1>9

\* A failed publish puts its state back unless a newer one is queued.
LEMMA FailStep == IInv /\ WorkerFails => Awaiting' /\ WireInv' /\ Queued' /\ Newest'
<1> SUFFICES ASSUME IInv, WorkerFails PROVE Awaiting' /\ WireInv' /\ Queued' /\ Newest'
  OBVIOUS
<1> USE DEF IInv
<1> DEFINE u == flight.unit
<1>1. /\ u \in Units /\ newest[u] > 0 /\ newest \in [Units -> 0..MaxState]
      /\ u \notin Range(pending) => flight.val = newest[u]
      /\ phase \in {"live", "ending", "closing"}
  BY DEF WorkerFails, Awaiting, GoodAwait, Newest, TypeOK
<1>2. /\ flight' = Nothing /\ worker' = "backoff"
      /\ UNCHANGED <<state, retained, taken, old, best, phase, link, wire, newest, snap,
                     snapping>>
  BY DEF WorkerFails, brokerVars, snapVars
<1>3. Awaiting'
  BY <1>1, <1>2 DEF Awaiting, GoodAwait
<1>6. WireInv'
  BY <1>2, SameWire
<1>4. Queued' /\ \A w \in Units : w \in Range(pending') <=> w = u \/ w \in Range(pending)
  <2>1. CASE u \in Range(pending)
    BY <1>2, <2>1 DEF WorkerFails, Requeue, Queued
  <2>2. CASE u \notin Range(pending)
    <3>1. pending' = Append(pending, u) /\ value' = [value EXCEPT ![u] = flight.val]
      BY <2>2 DEF WorkerFails, Requeue
    <3>2. value'[u] = newest[u] /\ \A w \in Units : w # u => value'[w] = value[w]
      BY <1>1, <2>2, <3>1 DEF TypeOK
    <3> QED
      BY <1>1, <1>2, <2>2, <3>1, <3>2, QueueOne
  <2> QED
    BY <2>1, <2>2
<1>5. Newest'
  BY <1>1, <1>2, <1>4 DEF Newest
<1> QED
  BY <1>3, <1>4, <1>5, <1>6

\* The broker takes a message: what is acknowledged stays shown.
LEMMA DeliverStep == IInv /\ Deliver => Awaiting' /\ WireInv' /\ Queued' /\ Newest'
<1> SUFFICES ASSUME IInv, Deliver PROVE Awaiting' /\ WireInv' /\ Queued' /\ Newest'
  OBVIOUS
<1> USE DEF IInv
<1>1. /\ UNCHANGED <<state, phase, wire, old, pending, value, newest, worker, flight, snap,
                     snapping>>
  BY DEF Deliver, pubVars, workVars, snapVars
<1>2. PICK u \in Units, v \in 1..MaxState :
         /\ retained' = [retained EXCEPT ![u] = v]
         /\ best' = [best EXCEPT ![u] = IF @ < v THEN v ELSE @]
         /\ taken < old \/ best[u] <= v
         /\ \E i \in 1..Len(wire) : wire[i].unit = u /\ wire[i].val = v
  BY DeliverWire
<1>3. /\ taken \in Nat /\ v \in Int
      /\ \A w \in Units : retained[w] \in Int /\ best[w] \in Int /\ newest[w] \in Int
      /\ \A w \in Units : retained[w] <= best[w]
  BY WireTypes, BoundsAssumption DEF WireInv, Shown
<1>4. \A w \in Units :
         /\ retained'[w] = IF w = u THEN v ELSE retained[w]
         /\ best'[w] = IF w = u /\ best[w] < v THEN v ELSE best[w]
  BY <1>2 DEF TypeOK
<1>5. old = 0 => \A w \in Units : /\ retained'[w] \in Int /\ retained[w] \in Int
                                  /\ retained[w] <= retained'[w]
  BY <1>2, <1>3, <1>4
<1>6. Awaiting'
  <2>1. /\ flight \in Awaited /\ snap \in Awaited
        /\ GoodAwait(flight, wire, retained, old) /\ GoodAwait(snap, wire, retained, old)
    BY DEF TypeOK, Awaiting
  <2>2. GoodAwait(flight, wire, retained', old) /\ GoodAwait(snap, wire, retained', old)
    BY <1>5, <2>1, GoodStays
  <2> QED
    BY <1>1, <2>2 DEF Awaiting
<1>7. Queued'
  BY <1>1 DEF Queued
<1>8. Newest'
  <2>1. ASSUME NEW w \in Units, newest[w] > 0 PROVE best'[w] <= newest[w]
    <3>1. w = u => v <= newest[w]
      BY <1>2, <2>1 DEF Newest
    <3>2. best[w] <= newest[w]
      BY <2>1 DEF Newest
    <3> QED
      BY <1>3, <1>4, <3>1, <3>2
  <2>2. ASSUME NEW w \in Units, old = 0, retained[w] >= newest[w]
        PROVE  retained'[w] >= newest[w]
    BY <1>3, <1>5, <2>2
  <2> QED
    BY <1>1, <2>1, <2>2 DEF Newest
<1> QED
  BY <1>6, <1>7, <1>8, DeliverWire

\* An acknowledged message is on its topic.
LEMMA AckStep == IInv /\ Acknowledged => Awaiting' /\ WireInv' /\ Queued' /\ Newest'
<1> SUFFICES ASSUME IInv, Acknowledged PROVE Awaiting' /\ WireInv' /\ Queued' /\ Newest'
  OBVIOUS
<1> USE DEF IInv
<1>1. /\ wire' = Tail(wire) /\ old' = IF old > 0 THEN old - 1 ELSE 0
      /\ flight' = Nearer(flight) /\ snap' = Nearer(snap)
      /\ UNCHANGED <<state, phase, retained, best, pending, value, newest, worker, snapping>>
  BY DEF Acknowledged, pubVars
<1>2. /\ wire # <<>> /\ wire \in Seq(Message) /\ old \in Nat
      /\ wire[1].val <= retained[wire[1].unit]
      /\ wire[1].val \in Int /\ retained[wire[1].unit] \in Int
  <2>1. wire # <<>> /\ wire[1].unit \in Units /\ wire[1].val <= retained[wire[1].unit]
    BY AckWire
  <2>2. wire \in Seq(Message) /\ 1 \in 1..Len(wire)
    BY <2>1, Taking DEF TypeOK
  <2> QED
    BY <2>1, <2>2, WireTypes
<1>3. /\ Len(wire') = Len(wire) - 1 /\ Len(wire) \in Nat
      /\ \A i \in 1..Len(wire') : i + 1 \in 1..Len(wire) /\ wire'[i] = wire[i + 1]
  <2>1. /\ Len(wire') = Len(wire) - 1 /\ Len(wire) \in Nat
        /\ \A i \in 1..Len(wire') : wire'[i] = wire[i + 1]
    BY <1>1, <1>2, Taking
  <2> QED
    BY <2>1
<1>4. /\ flight \in Awaited /\ snap \in Awaited
      /\ GoodAwait(flight, wire, retained, old) /\ GoodAwait(snap, wire, retained, old)
  BY DEF TypeOK, Awaiting
<1>5. /\ flight'.unit = flight.unit /\ flight'.val = flight.val
      /\ flight' # Nothing <=> flight # Nothing
      /\ snap' # Nothing <=> snap # Nothing
  BY <1>1, <1>4, Moving
<1>6. Awaiting'
  <2>1. GoodAwait(flight', wire', retained', old') /\ GoodAwait(snap', wire', retained', old')
    BY <1>1, <1>2, <1>4, GoodAcked
  <2> QED
    BY <1>1, <1>5, <2>1 DEF Awaiting
<1>7. Queued'
  BY <1>1 DEF Queued
<1>8. Newest'
  <2>1. old = 0 => old' = 0
    BY <1>1
  <2>2. \A w \in Units : newest[w] > 0 =>
           \A i \in 1..Len(wire') : wire'[i].unit = w => wire'[i].val <= newest[w]
    BY <1>3 DEF Newest
  <2> QED
    BY <1>1, <1>5, <2>1, <2>2 DEF Newest
<1> QED
  BY <1>6, <1>7, <1>8, AckWire

\* A snapshot sends the newest state there is.
LEMMA PublishStep ==
    ASSUME IInv, NEW u \in Units, SnapshotPublish(u)
    PROVE  Awaiting' /\ WireInv' /\ Queued' /\ Newest'
<1> USE DEF IInv, WireInv
<1> DEFINE v == state[u]
<1>1. /\ CanSend /\ snap' = Sent(u, v) /\ wire' = WireWith(u, v)
      /\ UNCHANGED <<state, retained, taken, old, best, phase, link, pending, value, newest,
                     worker, flight, snapping>>
  BY DEF SnapshotPublish, brokerVars, pubVars, workVars
<1>2. v \in 1..MaxState /\ v > 0 /\ snapping /\ phase \in {"baseline", "live"}
  BY BoundsAssumption DEF TypeOK, SnapshotPublish, Awaiting
<1> HIDE DEF v
<1>3. /\ snap'.unit = u /\ snap'.val = v
      /\ snap'.pos = IF link THEN Len(wire) + 1 ELSE Lost
      /\ wire' \in Seq(Message) /\ wire \in Seq(Message)
      /\ Len(wire) \in Nat /\ Len(wire) <= Len(wire')
      /\ old \in Nat /\ old <= Len(wire)
      /\ \A i \in 1..Len(wire) : wire'[i] = wire[i]
      /\ \/ /\ Len(wire') = Len(wire) + 1
            /\ wire'[Len(wire) + 1] = [unit |-> u, val |-> v]
         \/ ~link /\ wire' = wire
  <2>1. wire \in Seq(Message) /\ Len(wire) \in Nat /\ old \in Nat /\ old <= Len(wire)
    BY WireTypes DEF Counted
  <2> QED
    BY <1>1, <1>2, <2>1, Sending
<1>4. Awaiting'
  <2>1. GoodAwait(snap', wire', retained', old')
    <3>1. snap'.pos > 0 => link /\ snap'.pos = Len(wire) + 1
      BY <1>3 DEF Lost
    <3>2. snap'.pos # 0
      BY <1>3 DEF Lost
    <3> QED
      BY <1>1, <1>2, <1>3, <3>1, <3>2 DEF GoodAwait
  <2>2. GoodAwait(flight', wire', retained', old')
    <3>1. flight \in Awaited /\ GoodAwait(flight, wire, retained, old)
      BY DEF Awaiting, TypeOK
    <3>2. GoodAwait(flight, wire', retained, old)
      BY <1>3, <3>1, GoodExtends
    <3> QED
      BY <1>1, <3>2
  <2> QED
    BY <1>1, <1>2, <2>1, <2>2 DEF Awaiting
<1>5. WireInv'
  <2>1. best[u] <= v /\ \A i \in 1..Len(wire) : wire[i].unit = u => wire[i].val <= v
    BY DEF Ordered, v
  <2>2. v <= state[u]
    BY <1>2 DEF v
  <2> QED
    BY <1>1, <1>2, <2>1, <2>2, SendWire
<1>6. Queued'
  BY <1>1 DEF Queued
<1>7. Newest'
  <2>1. ASSUME NEW w \in Units, newest[w] > 0
        PROVE  \A i \in 1..Len(wire') : wire'[i].unit = w => wire'[i].val <= newest[w]
    <3>1. phase = "live" /\ newest[w] = state[w] /\ newest[w] \in Int
      <4>1. phase = "live"
        BY <1>2, <2>1 DEF Awaiting
      <4>2. newest[w] = state[w]
        BY <2>1, <4>1 DEF Newest
      <4> QED
        BY <4>1, <4>2, WireTypes
    <3>2. \A i \in 1..Len(wire') : \/ i \in 1..Len(wire) /\ wire'[i] = wire[i]
                                   \/ wire'[i].unit = u /\ wire'[i].val = v
      BY <1>3
    <3> QED
      BY <2>1, <3>1, <3>2 DEF Newest, v
  <2> QED
    BY <1>1, <2>1 DEF Newest
<1> QED
  BY <1>4, <1>5, <1>6, <1>7

----------------------------------------------------------------------------
(* The inductive invariant                                                 *)

LEMMA InvInit == Init => IInv
<1> SUFFICES ASSUME Init PROVE IInv
  OBVIOUS
<1>1. 1 \in 1..MaxState /\ 0 \in 0..MaxState /\ 0 <= MaxWire /\ 0 \in 0..MaxWire
  BY BoundsAssumption
<1>2. <<>> \in Seq(Units) /\ <<>> \in Seq(Message) /\ Len(<<>>) = 0
  BY EmptySeq
<1>3. TypeOK
  BY <1>1, <1>2, NothingType DEF Init, TypeOK, Phases
<1>4. Awaiting
  BY DEF Init, Awaiting, GoodAwait
<1>5. WireInv /\ Queued /\ Newest
  BY <1>2 DEF Init, WireInv, Counted, Ordered, Followed, Shown, Queued, Newest
<1> QED
  BY <1>3, <1>4, <1>5 DEF IInv

LEMMA InvStep == IInv /\ [Next]_vars => IInv'
<1> SUFFICES ASSUME IInv, [Next]_vars PROVE IInv'
  OBVIOUS
<1>1. TypeOK'
  BY TypeStep DEF IInv
<1> SUFFICES Awaiting' /\ WireInv' /\ Queued' /\ Newest'
  BY <1>1 DEF IInv
<1>2. CASE Deliver
  BY <1>2, DeliverStep
<1>16. CASE Acknowledged
  BY <1>16, AckStep
<1>3. CASE LinkDies
  <2>1. /\ flight' = Cut(flight) /\ snap' = Cut(snap) /\ ~link' /\ taken' = 0
        /\ UNCHANGED <<state, retained, old, best, phase, wire, pending, value, newest, worker,
                       snapping>>
    BY <1>3 DEF LinkDies, pubVars
  <2>2. /\ flight \in Awaited /\ snap \in Awaited
        /\ GoodAwait(flight, wire, retained, old) /\ GoodAwait(snap, wire, retained, old)
    BY DEF IInv, TypeOK, Awaiting
  <2>3. GoodAwait(flight', wire', retained', old') /\ GoodAwait(snap', wire', retained', old')
    BY <2>1, <2>2, GoodCut
  <2>4. /\ flight'.unit = flight.unit /\ flight'.val = flight.val
        /\ flight' # Nothing <=> flight # Nothing
        /\ snap' # Nothing <=> snap # Nothing
    BY <2>1, <2>2, Moving
  <2>5. WireInv'
    BY <2>1, CutWire DEF IInv
  <2>6. Awaiting'
    BY <2>1, <2>3, <2>4 DEF IInv, Awaiting
  <2> QED
    BY <2>1, <2>4, <2>5, <2>6 DEF IInv, Queued, Newest
<1>4. ASSUME NEW u \in Units, UnitChanges(u)
      PROVE  Awaiting' /\ WireInv' /\ Queued' /\ Newest'
  <2>1. /\ state[u] \in Int /\ state[u] + 1 \in 1..MaxState /\ state[u] <= state[u] + 1
        /\ state' = [state EXCEPT ![u] = state[u] + 1]
        /\ UNCHANGED <<brokerVars, phase, link, wire, worker, flight, snap, snapping>>
    BY <1>4, BoundsAssumption DEF UnitChanges, IInv, TypeOK, workVars, snapVars
  <2>2. CASE Registered
    BY <1>4, <2>1, <2>2, SubmitStep DEF UnitChanges
  <2>3. CASE ~Registered
    <3>1. UNCHANGED <<pending, value, newest>>
      BY <1>4, <2>3 DEF UnitChanges, pubVars
    <3>2. \A w \in Units : state[w] <= state'[w] /\ state[w] \in Int /\ state'[w] \in Int
      BY <2>1, BoundsAssumption DEF IInv, TypeOK
    <3>3. \A w \in Units : newest'[w] <= state'[w]
      <4>1. \A w \in Units : newest[w] <= state[w] /\ newest[w] \in Int
        BY WireTypes DEF IInv, WireInv, Ordered
      <4> QED
        BY <3>1, <3>2, <4>1
    <3>4. WireInv'
      BY <2>1, <3>2, <3>3, GrowWire DEF IInv, brokerVars
    <3> QED
      BY <2>1, <2>3, <3>1, <3>4 DEF IInv, brokerVars, Awaiting, Queued, Newest
  <2> QED
    BY <2>2, <2>3
<1>5. ASSUME NEW u \in Units, UnitRepeats(u)
      PROVE  Awaiting' /\ WireInv' /\ Queued' /\ Newest'
  <2>1. /\ Registered /\ Submit(u, state[u]) /\ state[u] \in 1..MaxState
        /\ state[u] <= state[u] /\ state' = [state EXCEPT ![u] = state[u]]
        /\ UNCHANGED <<brokerVars, phase, link, wire, worker, flight, snap, snapping>>
    BY <1>5, BoundsAssumption DEF UnitRepeats, IInv, TypeOK, workVars, snapVars
  <2> QED
    BY <2>1, SubmitStep
<1>6. ASSUME NEW u \in Units, SnapshotPublish(u)
      PROVE  Awaiting' /\ WireInv' /\ Queued' /\ Newest'
  BY <1>6, PublishStep
<1>7. CASE WorkerWakes \/ WorkerConfirmed \/ WorkerResumes
  <2>1. /\ TakeNext /\ worker # "off" /\ (flight = Nothing \/ flight.pos = 0)
        /\ UNCHANGED <<state, brokerVars, phase, link, newest, snap, snapping>>
    BY <1>7 DEF WorkerWakes, WorkerConfirmed, WorkerResumes, IInv, Awaiting, snapVars
  <2> QED
    BY <2>1, TakeStep
<1>8. CASE WorkerFails
  BY <1>8, FailStep
<1>9. CASE SnapshotConfirmed \/ SnapshotFails
  <2>1. /\ snap' = Nothing
        /\ UNCHANGED <<state, retained, taken, old, best, phase, link, wire, pending, value,
                       newest, worker, flight, snapping>>
    BY <1>9 DEF SnapshotConfirmed, SnapshotFails, brokerVars, pubVars, workVars
  <2>2. WireInv'
    BY <2>1, SameWire DEF IInv
  <2> QED
    BY <2>1, <2>2 DEF IInv, Awaiting, GoodAwait, Queued, Newest
<1>10. CASE SnapshotDone \/ MqttLost \/ Interrupted \/ Unregister
  <2>1. /\ snap' = Nothing /\ ~snapping'
        /\ UNCHANGED <<state, retained, taken, old, best, link, wire, pending, value, newest,
                       worker, flight>>
        /\ \/ phase = "baseline" /\ phase' = "announce"
           \/ phase = "live" /\ phase' \in {"live", "ending"}
           \/ phase \in {"baseline", "announce"} /\ phase' = "closing"
           \/ phase = "ending" /\ phase' = "closing"
    <3>1. CASE SnapshotDone
      <4>1. phase \in {"baseline", "live"}
        BY <3>1 DEF SnapshotDone, IInv, Awaiting
      <4> QED
        BY <3>1, <4>1 DEF SnapshotDone, SnapshotEnds, brokerVars, pubVars, workVars
    <3>2. CASE MqttLost \/ Interrupted
      BY <3>2 DEF MqttLost, Interrupted, EndSession, SnapshotEnds, brokerVars, pubVars, workVars
    <3>3. CASE Unregister
      <4>1. ~snapping /\ snap = Nothing
        BY <3>3 DEF Unregister, IInv, Awaiting
      <4> QED
        BY <3>3, <4>1 DEF Unregister, brokerVars, pubVars, workVars, snapVars
    <3> QED
      BY <1>10, <3>1, <3>2, <3>3
  <2>2. WireInv'
    BY <2>1, SameWire DEF IInv
  <2> QED
    BY <2>1, <2>2 DEF IInv, Awaiting, GoodAwait, Queued, Newest
<1>11. CASE CommandSnapshot \/ Connect
  <2>1. /\ snap' = Nothing
        /\ \/ /\ phase' = phase /\ phase = "live"
              /\ UNCHANGED <<link, old>>
           \/ phase = "down" /\ phase' = "baseline" /\ old' = Len(wire)
        /\ snapping'
        /\ UNCHANGED <<state, retained, taken, best, wire, pending, value, newest, worker,
                       flight>>
    BY <1>11 DEF CommandSnapshot, Connect, BeginSnapshot, brokerVars, pubVars, workVars
  <2>2. WireInv'
    BY <2>1, SameWire, ConnectWire DEF IInv
  <2>3. phase = "down" => flight = Nothing /\ newest = [u \in Units |-> 0]
    BY DEF IInv, Awaiting
  <2> QED
    BY <2>1, <2>2, <2>3 DEF IInv, Awaiting, GoodAwait, Queued, Newest
<1>12. CASE Register
  <2>1. /\ phase = "announce" /\ phase' = "live" /\ worker' = "wait"
        /\ UNCHANGED <<state, retained, taken, old, best, link, wire, pending, value, newest,
                       flight, snap, snapping>>
    BY <1>12 DEF Register, brokerVars, pubVars, snapVars
  <2>2. newest = [u \in Units |-> 0] /\ pending = <<>> /\ worker = "off"
    BY <2>1 DEF IInv, Awaiting
  <2>3. WireInv'
    BY <2>1, SameWire DEF IInv
  <2> QED
    BY <2>1, <2>2, <2>3 DEF IInv, Awaiting, Queued, Newest
<1>14. CASE Drained \/ DrainTimesOut
  <2>1. /\ phase = "closing" /\ phase' = "down" /\ ~link' /\ taken' = 0 /\ pending' = <<>>
        /\ newest' = [u \in Units |-> 0] /\ worker' = "off" /\ flight' = Nothing
        /\ UNCHANGED <<state, wire, retained, old, best, snap, snapping>>
    BY <1>14 DEF Drained, DrainTimesOut, Discard, snapVars
  <2>2. Len(pending') = 0
    BY <2>1, EmptySeq
  <2>3. WireInv'
    BY <2>1, CutWire DEF IInv
  <2>4. snap' = Nothing
    BY <2>1 DEF IInv, Awaiting
  <2> QED
    BY <2>1, <2>2, <2>3, <2>4 DEF IInv, Awaiting, GoodAwait, Queued, Newest
<1>17. CASE Restart
  <2>1. /\ phase = "down"
        /\ UNCHANGED <<state, retained, phase, pending, value, newest, worker, flight, snap,
                       snapping>>
    BY <1>17 DEF Restart, pubVars, workVars, snapVars
  <2>2. WireInv'
    BY <1>17, RestartWire DEF IInv
  <2>3. flight = Nothing /\ snap = Nothing /\ newest = [u \in Units |-> 0]
    BY <2>1 DEF IInv, Awaiting
  <2> QED
    BY <2>1, <2>2, <2>3 DEF IInv, Awaiting, GoodAwait, Queued, Newest
<1>15. CASE UNCHANGED vars
  <2>1. UNCHANGED <<state, retained, taken, old, best, phase, link, wire, pending, value, newest,
                    worker, flight, snap, snapping>>
    BY <1>15 DEF vars, brokerVars, pubVars, workVars, snapVars
  <2>2. WireInv'
    BY <2>1, SameWire DEF IInv
  <2> QED
    BY <2>1, <2>2 DEF IInv, Awaiting, Queued, Newest
<1> QED
  BY <1>2, <1>3, <1>4, <1>5, <1>6, <1>7, <1>8, <1>9, <1>10, <1>11, <1>12, <1>14, <1>15,
     <1>16, <1>17
  DEF Next

\* Every behaviour keeps the inductive invariant.
THEOREM Invariant == Spec => []IInv
  BY InvInit, InvStep, PTL DEF Spec

----------------------------------------------------------------------------
(* What follows from it                                                    *)

\* Type correctness of the publisher, the snapshot and the session.
THEOREM TypeCorrect == Spec => []TypeOK
  BY Invariant, PTL DEF IInv

\* No distinct unit is dropped in a live session: the newest state submitted
\* for it is queued, in flight or on the broker.
THEOREM NothingLost == Spec => []NoUnitLost
<1>1. IInv => NoUnitLost
  <2> SUFFICES ASSUME IInv, NEW u \in Units, newest[u] > 0
               PROVE  \/ u \in Range(pending) /\ value[u] = newest[u]
                      \/ flight.unit = u /\ flight.val = newest[u]
                      \/ retained[u] >= newest[u]
    BY DEF NoUnitLost
  <2>1. CASE u \in Range(pending)
    <3>1. \E i \in 1..Len(pending) : pending[i] = u
      BY <2>1, Positions DEF IInv, TypeOK
    <3> QED
      BY <2>1, <3>1 DEF IInv, Queued
  <2>2. CASE u \notin Range(pending) /\ flight.unit = u
    BY <2>2, NoUnitAssumption DEF IInv, Newest, Nothing
  <2>3. CASE u \notin Range(pending) /\ flight.unit # u
    BY <2>3 DEF IInv, Newest
  <2> QED
    BY <2>1, <2>2, <2>3
<1> QED
  BY <1>1, Invariant, PTL

\* Only a delivery changes what the topics show, and no other step of the process
\* ends what is to be sent again.
LEMMA TopicStep ==
    ASSUME IInv, [Next]_vars, ~Deliver, ~Restart
    PROVE  UNCHANGED <<retained, best>> /\ (taken < old => taken' < old')
<1>1. /\ Len(wire) \in Nat /\ taken \in Nat /\ old \in Nat
      /\ old <= Len(wire) /\ (~link => taken = 0) /\ (phase = "down" => ~link)
  BY WireTypes DEF IInv, WireInv, Counted
<1>2. CASE Acknowledged
  BY <1>1, <1>2 DEF Acknowledged
<1>3. CASE LinkDies
  BY <1>1, <1>3 DEF LinkDies
<1>4. CASE Connect
  BY <1>1, <1>4 DEF Connect
<1>5. CASE Drained \/ DrainTimesOut
  BY <1>1, <1>5 DEF Drained, DrainTimesOut, Discard
<1>6. CASE UNCHANGED brokerVars
  BY <1>6 DEF brokerVars
<1> QED
  BY <1>2, <1>3, <1>4, <1>5, <1>6
  DEF Next, vars, UnitChanges, UnitRepeats, SnapshotPublish, WorkerWakes, WorkerConfirmed,
      WorkerFails, WorkerResumes, SnapshotConfirmed, SnapshotFails, SnapshotDone,
      CommandSnapshot, Register, MqttLost, Interrupted, Unregister, EndSession

\* A delivery of nothing sent again moves its topic forward.
LEMMA Forward ==
    ASSUME IInv, [Next]_vars, ~(taken < old), NEW u \in Units
    PROVE  retained[u] <= retained'[u]
<1>1. \A w \in Units : retained[w] \in Int /\ best[w] \in Int /\ retained[w] <= best[w]
  BY WireTypes DEF IInv, WireInv, Shown
<1>2. CASE Deliver
  <2>1. PICK w \in Units, v \in 1..MaxState :
           /\ retained' = [retained EXCEPT ![w] = v]
           /\ best[w] <= v
    BY <1>2, DeliverWire DEF IInv
  <2>2. retained'[u] = IF u = w THEN v ELSE retained[u]
    BY <2>1 DEF IInv, TypeOK
  <2> QED
    BY <1>1, <2>1, <2>2, BoundsAssumption
<1>3. CASE Restart
  BY <1>1, <1>3 DEF Restart
<1>4. CASE ~Deliver /\ ~Restart
  BY <1>1, <1>4, TopicStep
<1> QED
  BY <1>2, <1>3, <1>4

\* Only what an earlier connection left unacknowledged, sent again, ever puts
\* an older state over a newer one: no failure, late delivery, retry or
\* concurrent snapshot does.
THEOREM NewestWins == Spec => NeverOlder
<1>1. IInv /\ [Next]_vars =>
         [\A u \in Units : retained'[u] >= retained[u] \/ taken < old]_vars
  <2> SUFFICES ASSUME IInv, [Next]_vars, NEW u \in Units, ~(taken < old)
               PROVE  retained'[u] >= retained[u]
    OBVIOUS
  <2>1. retained[u] \in Int /\ retained'[u] \in Int
    <3>1. TypeOK /\ TypeOK'
      BY InvStep DEF IInv
    <3> QED
      BY <3>1, BoundsAssumption DEF TypeOK
  <2> QED
    BY <2>1, Forward
<1> QED
  BY <1>1, Invariant, PTL DEF Spec, NeverOlder

LEMMA RepairedHere == IInv => Repaired
<1> SUFFICES ASSUME IInv, taken >= old PROVE retained = best
  BY DEF Repaired
<1>1. ASSUME NEW u \in Units PROVE retained[u] = best[u]
  <2>1. taken \in Nat /\ old \in Nat /\ retained[u] \in Int /\ best[u] \in Int
    BY WireTypes DEF IInv
  <2>2. \A j \in (taken + 1)..old : FALSE
    BY <2>1
  <2> QED
    BY <2>1, <2>2 DEF IInv, WireInv, Shown
<1> QED
  BY <1>1 DEF IInv, TypeOK

LEMMA RepairedNext == IInv /\ [Next]_vars => Repaired'
<1>1. IInv' => Repaired'
  BY RepairedHere, PTL
<1> QED
  BY <1>1, InvStep

\* When the broker has taken all that was sent again, every topic shows the
\* newest state it ever showed with that client: one that went back in between is
\* repaired.
THEOREM ResendsRepair == Spec => []Repaired
  BY RepairedHere, Invariant, PTL

\* The bridge implements RetainedState: each step shows one unit a state it
\* had, numbers a new one, begins a replay, or leaves all alone; and a replay
\* ends only with every topic repaired.
THEOREM Implements == Spec => Refinement
<1>1. Init => Retained!Init
  BY DEF Init, Retained!Init
<1>2. IInv /\ [Next]_vars => [Retained!Next]_<<state, retained, best, taken < old>>
  <2> SUFFICES ASSUME IInv, [Next]_vars, <<state, retained, best, taken < old>>'
                                             # <<state, retained, best, taken < old>>
               PROVE  Retained!Next
    OBVIOUS
  <2>1. CASE Deliver
    <3>1. PICK u \in Units, v \in 1..MaxState :
             /\ v <= state[u] /\ retained' = [retained EXCEPT ![u] = v]
             /\ best' = [best EXCEPT ![u] = IF @ < v THEN v ELSE @]
             /\ taken < old \/ best[u] <= v
      BY <2>1, DeliverWire DEF IInv
    <3>2. /\ UNCHANGED <<state, old>> /\ taken' = taken + 1
          /\ taken \in Nat /\ old \in Nat /\ v \in Int
          /\ state[u] \in Int /\ retained[u] \in Int /\ best[u] \in Int /\ retained[u] <= best[u]
      BY <2>1, WireTypes, BoundsAssumption DEF Deliver, IInv, WireInv, Shown
    <3>3. taken' < old' \/ retained' = best'
      <4>1. taken' \in Int /\ old' \in Int
        BY <3>2
      <4> QED
        BY <4>1, RepairedNext DEF Repaired
    <3>4. CASE taken < old \/ v > retained[u]
      <4>1. (taken' < old') \in {taken < old, FALSE}
        <5>1. CASE taken' < old'
          <6>1. taken < old
            BY <3>2, <5>1
          <6>2. (taken' < old') = (taken < old)
            BY <5>1, <6>1
          <6> QED
            BY <6>2
        <5>2. CASE ~(taken' < old')
          <6>1. (taken' < old') = FALSE
            BY <5>2
          <6> QED
            BY <6>1
        <5> QED
          BY <5>1, <5>2
      <4>2. v \in 1..state[u]
        BY <3>1, <3>2
      <4> QED
        BY <3>1, <3>2, <3>3, <3>4, <4>1, <4>2 DEF Retained!Next, Retained!Show
    <3>5. CASE ~(taken < old) /\ v <= retained[u]
      <4>1. v = retained[u] /\ best[u] = v
        BY <3>1, <3>2, <3>5
      <4>2. UNCHANGED <<retained, best>>
        BY <3>1, <3>2, <4>1 DEF IInv, TypeOK
      <4>3. ~(taken' < old')
        BY <3>2, <3>5
      <4> QED
        BY <3>2, <3>5, <4>2, <4>3
    <3> QED
      BY <3>2, <3>4, <3>5
  <2>2. CASE ~Deliver /\ ~Restart /\ UNCHANGED state
    <3>1. UNCHANGED <<retained, best>> /\ (taken < old => taken' < old')
      BY <2>2, TopicStep
    <3> QED
      BY <2>2, <3>1 DEF Retained!Next, Retained!Replay
  <2>3. CASE ~Deliver /\ ~Restart /\ state' # state
    <3>1. PICK u \in Units : UnitChanges(u)
      BY <2>3
      DEF Next, vars, Acknowledged, LinkDies, UnitRepeats, SnapshotPublish, WorkerWakes,
          WorkerConfirmed, WorkerFails, WorkerResumes, SnapshotConfirmed, SnapshotFails,
          SnapshotDone, CommandSnapshot, Connect, Register, MqttLost, Interrupted,
          Unregister, EndSession, Drained, DrainTimesOut, Discard, Restart
    <3> QED
      BY <3>1 DEF UnitChanges, brokerVars, Retained!Next, Retained!Change
  <2>4. CASE Restart
    <3>1. taken = 0 /\ taken' = 0 /\ old' = 0 /\ best' = retained /\ UNCHANGED <<state, retained>>
      BY <2>4 DEF Restart, IInv, WireInv, Counted
    <3>2. (taken' < old') = FALSE
      BY <3>1
    <3> QED
      BY <3>1, <3>2 DEF Retained!Next, Retained!Restart
  <2> QED
    BY <2>1, <2>2, <2>3, <2>4
<1> QED
  BY <1>1, <1>2, Invariant, PTL DEF Spec, Refinement, Retained!Spec

----------------------------------------------------------------------------
(* The worker's events                                                     *)

LEMMA SettledStep == IInv /\ Settled /\ [Next]_vars => Settled'
<1> SUFFICES ASSUME IInv, Settled, [Next]_vars PROVE Settled'
  OBVIOUS
<1>1. CASE Deliver \/ Acknowledged \/ LinkDies
  <2>1. flight = Nothing => flight' = Nothing
    BY <1>1 DEF Deliver, Acknowledged, LinkDies, Nearer, Cut, Nothing, Lost, workVars
  <2> QED
    BY <1>1, <2>1 DEF Deliver, Acknowledged, LinkDies, Settled, pubVars, workVars
<1>2. ASSUME NEW u \in Units, UnitChanges(u) \/ UnitRepeats(u) PROVE Settled'
  <2>1. UNCHANGED pubVars \/ \E v \in Int : Submit(u, v)
    BY <1>2, BoundsAssumption DEF UnitChanges, UnitRepeats, IInv, TypeOK
  <2>2. CASE UNCHANGED pubVars
    BY <1>2, <2>2 DEF UnitChanges, UnitRepeats, Settled, pubVars, workVars
  <2>3. ASSUME NEW v \in Int, Submit(u, v) PROVE Settled'
    <3>1. worker = "backoff" => pending' # <<>>
      <4>1. pending \in Seq(Units) => Append(pending, u) # <<>>
        BY AppendProperties
      <4> QED
        BY <2>3, <4>1 DEF Submit, Settled, IInv, TypeOK
    <3>2. UNCHANGED workVars
      BY <1>2 DEF UnitChanges, UnitRepeats
    <3> QED
      BY <2>3, <3>1, <3>2 DEF Submit, Settled, workVars
  <2> QED
    BY <2>1, <2>2, <2>3
<1>3. ASSUME NEW u \in Units, SnapshotPublish(u) PROVE Settled'
  BY <1>3 DEF SnapshotPublish, Settled, pubVars, workVars
<1>4. CASE WorkerWakes
  BY <1>4 DEF WorkerWakes, TakeNext, Settled
<1>5. CASE WorkerConfirmed
  BY <1>5 DEF WorkerConfirmed, TakeNext, Settled, Nothing, Lost
<1>6. CASE WorkerResumes
  BY <1>6 DEF WorkerResumes, TakeNext, Settled
<1>7. CASE WorkerFails
  <2>1. flight # Nothing /\ flight.unit \in Units
    BY <1>7 DEF WorkerFails, IInv, Awaiting, GoodAwait
  <2>2. pending' # <<>>
    <3>1. Append(pending, flight.unit) # <<>>
      <4>1. pending \in Seq(Units)
        BY DEF IInv, TypeOK
      <4> QED
        BY <2>1, <4>1, AppendProperties
    <3>2. flight.unit \in Range(pending) => pending # <<>>
      BY DEF Range
    <3> QED
      BY <1>7, <3>1, <3>2 DEF WorkerFails, Requeue
  <2> QED
    BY <1>7, <2>1, <2>2 DEF WorkerFails, Settled
<1>8. CASE Register
  BY <1>8 DEF Register, Settled, IInv, Awaiting, pubVars
<1>9. CASE Drained \/ DrainTimesOut
  BY <1>9 DEF Drained, DrainTimesOut, Discard, Settled
<1>11. CASE Restart
  BY <1>11 DEF Restart, Settled, pubVars, workVars
<1>10. CASE \/ SnapshotConfirmed \/ SnapshotFails \/ SnapshotDone \/ CommandSnapshot
            \/ Connect \/ MqttLost \/ Interrupted \/ Unregister \/ UNCHANGED vars
  BY <1>10 DEF SnapshotConfirmed, SnapshotFails, SnapshotDone, CommandSnapshot, Connect,
               MqttLost, Interrupted, Unregister, EndSession, Settled, vars, pubVars, workVars
<1> QED
  BY <1>1, <1>2, <1>3, <1>4, <1>5, <1>6, <1>7, <1>8, <1>9, <1>10,
     <1>11
  DEF Next

LEMMA AlwaysSettled == Spec => []Settled
<1>1. Init => Settled
  BY DEF Init, Settled
<1> QED
  BY <1>1, SettledStep, Invariant, PTL DEF Spec

\* The event is never clear while the sleeping worker has work.
THEOREM WakesUp == Spec => []NoLostWakeup
<1>1. Settled => NoLostWakeup
  BY DEF Settled, NoLostWakeup
<1> QED
  BY <1>1, AlwaysSettled, PTL

\* aclose() returns early only from a publisher with nothing left to do.
THEOREM DrainsCompletely == Spec => []IdleMeansDrained
<1>1. IInv /\ Settled => IdleMeansDrained
  <2> SUFFICES ASSUME IInv, Settled, idle
               PROVE  /\ pending = <<>> /\ flight = Nothing /\ ~failing
                      /\ \A u \in Units : retained[u] >= newest[u]
    BY DEF IdleMeansDrained
  <2>1. pending = <<>> /\ flight = Nothing /\ ~failing
    BY DEF Settled
  <2>2. ASSUME NEW u \in Units PROVE retained[u] >= newest[u]
    <3>1. u \notin Range(pending) /\ flight.unit # u
      BY <2>1, NoUnitAssumption DEF Range, Nothing
    <3>2. newest[u] \in 0..MaxState /\ retained[u] \in 0..MaxState
      BY DEF IInv, TypeOK
    <3> QED
      BY <3>1, <3>2, BoundsAssumption DEF IInv, Newest
  <2> QED
    BY <2>1, <2>2
<1> QED
  BY <1>1, AlwaysSettled, Invariant, PTL

----------------------------------------------------------------------------
(* Snapshots                                                               *)

\* What a running snapshot has done: each unit is still to come, awaited, or
\* shows for good a state no older than the one it had when the snapshot began.
Covered ==
    snapping =>
        /\ \A u \in Units : base[u] <= state[u]
        /\ snap # Nothing => base[snap.unit] <= snap.val
        /\ ~snapFailed => \A u \in Units :
               u \in todo \/ snap.unit = u \/ (old = 0 /\ base[u] <= retained[u])

\* Units move forward, and so do topics with nothing left to be sent again.
LEMMA Growing ==
    ASSUME IInv, [Next]_vars, NEW u \in Units
    PROVE  /\ state[u] <= state'[u]
           /\ old = 0 => retained[u] <= retained'[u]
<1>1. \A w \in Units : state[w] \in Int
  BY WireTypes DEF IInv
<1>2. old = 0 => retained[u] <= retained'[u]
  <2>1. old = 0 => ~(taken < old)
    BY WireTypes DEF IInv
  <2> QED
    BY <2>1, Forward
<1>3. state[u] <= state'[u]
  <2>1. ASSUME NEW w \in Units, UnitChanges(w) PROVE state[u] <= state'[u]
    BY <1>1, <2>1 DEF UnitChanges, IInv, TypeOK
  <2>2. CASE UNCHANGED state
    BY <1>1, <2>2
  <2> QED
    BY <2>1, <2>2
    DEF Next, vars, Deliver, Acknowledged, LinkDies, UnitRepeats, SnapshotPublish, WorkerWakes,
        WorkerConfirmed, WorkerFails, WorkerResumes, SnapshotConfirmed, SnapshotFails,
        SnapshotDone, CommandSnapshot, Connect, Register, MqttLost, Interrupted,
        Unregister, EndSession, Drained, DrainTimesOut, Discard, Restart
<1> QED
  BY <1>2, <1>3

\* Only a new connection brings it about that something is to be sent again.
LEMMA NothingAgain ==
    ASSUME [Next]_vars, ~Connect, old = 0
    PROVE  old' = 0
  BY DEF Next, vars, brokerVars, Deliver, Acknowledged, LinkDies, UnitChanges, UnitRepeats,
         SnapshotPublish, WorkerWakes, WorkerConfirmed, WorkerFails, WorkerResumes,
         SnapshotConfirmed, SnapshotFails, SnapshotDone, CommandSnapshot, Register, MqttLost,
         Interrupted, Unregister, EndSession, Drained, DrainTimesOut, Discard, Restart

LEMMA CoveredStep == IInv /\ Covered /\ [Next]_vars => Covered'
<1> SUFFICES ASSUME IInv, Covered, [Next]_vars, snapping' PROVE Covered'
  BY DEF Covered
<1>1. /\ base \in [Units -> 0..MaxState]
      /\ \A w \in Units : /\ state[w] \in Int /\ retained[w] \in Int /\ base[w] \in Int
                          /\ state'[w] \in Int /\ retained'[w] \in Int
                          /\ state[w] > 0 /\ state[w] <= state'[w]
                          /\ old = 0 => retained[w] <= retained'[w]
  <2>1. TypeOK /\ TypeOK'
    BY InvStep DEF IInv
  <2>2. base \in [Units -> 0..MaxState]
    BY <2>1 DEF TypeOK
  <2>3. ASSUME NEW w \in Units
        PROVE  /\ state[w] \in 1..MaxState /\ state'[w] \in 1..MaxState
               /\ retained[w] \in 0..MaxState /\ retained'[w] \in 0..MaxState
               /\ base[w] \in 0..MaxState
    BY <2>1 DEF TypeOK
  <2>4. ASSUME NEW w \in Units
        PROVE  state[w] <= state'[w] /\ (old = 0 => retained[w] <= retained'[w])
    BY Growing
  <2> QED
    BY <2>2, <2>3, <2>4, BoundsAssumption
<1>2. snap # Nothing =>
         snap.unit \in Units /\ (snap.pos = 0 => old = 0 /\ snap.val <= retained[snap.unit])
  <2>1. snap.val \in Int
    BY BoundsAssumption DEF IInv, TypeOK, Awaited
  <2> QED
    BY <1>1, <2>1 DEF IInv, Awaiting, GoodAwait
<1>3. CASE Connect \/ CommandSnapshot
  <2>1. /\ UNCHANGED state /\ snap' = Nothing /\ todo' = Units
        /\ base' = IF snapFailed' THEN [w \in Units |-> 0] ELSE state
    BY <1>3 DEF Connect, CommandSnapshot, BeginSnapshot
  <2>2. \A w \in Units : base'[w] <= state'[w]
    BY <1>1, <2>1
  <2> QED
    BY <2>1, <2>2 DEF Covered
<1>4. ASSUME NEW w \in Units, SnapshotPublish(w) PROVE Covered'
  <2>1. /\ snapping /\ UNCHANGED <<state, retained, old, snapFailed, base>> /\ todo' = todo \ {w}
        /\ snap' = Sent(w, state[w]) /\ snap.unit = NoUnit
    BY <1>4 DEF SnapshotPublish, brokerVars, snapVars
  <2>2. snap'.unit = w /\ snap'.val = state[w]
    BY <2>1 DEF Sent
  <2> QED
    BY <2>1, <2>2, NoUnitAssumption DEF Covered
<1>5. CASE SnapshotConfirmed
  <2>1. /\ UNCHANGED <<state, retained, old, todo, snapping, snapFailed, base>>
        /\ snap.unit # NoUnit /\ snap.pos = 0 /\ snap' = Nothing
    BY <1>5 DEF SnapshotConfirmed, brokerVars
  <2>2. snap # Nothing
    BY <2>1 DEF Nothing
  <2>3. old = 0 /\ base[snap.unit] <= retained[snap.unit]
    <3>1. snap.val \in Int
      BY BoundsAssumption DEF IInv, TypeOK, Awaited
    <3> QED
      BY <1>1, <1>2, <2>1, <2>2, <3>1 DEF Covered
  <2> QED
    BY <2>1, <2>3 DEF Covered
<1>6. CASE SnapshotFails
  <2>1. /\ UNCHANGED state /\ snap' = Nothing /\ snapFailed'
        /\ base' = [w \in Units |-> 0]
    BY <1>6 DEF SnapshotFails
  <2>2. \A w \in Units : base'[w] <= state'[w]
    BY <1>1, <2>1
  <2> QED
    BY <2>1, <2>2 DEF Covered
<1>7. CASE SnapshotDone \/ MqttLost \/ Interrupted
  BY <1>7 DEF SnapshotDone, MqttLost, Interrupted, EndSession, SnapshotEnds
<1>8. CASE Deliver \/ Acknowledged \/ LinkDies
  <2>1. /\ UNCHANGED <<state, todo, snapping, snapFailed, base>>
        /\ snap' = snap \/ snap' = Nearer(snap) \/ snap' = Cut(snap)
    BY <1>8 DEF Deliver, Acknowledged, LinkDies, snapVars
  <2>2. snap = Nothing => snap' = Nothing
    BY <2>1 DEF Nearer, Cut, Nothing, Lost
  <2>3. snap'.unit = snap.unit /\ snap'.val = snap.val
    BY <2>1 DEF Nearer, Cut, IInv, TypeOK, Awaited
  <2>4. ~Connect
    BY <1>8 DEF Deliver, Acknowledged, LinkDies, Connect, IInv, WireInv, Counted, TypeOK
  <2>5. old = 0 => old' = 0
    BY <2>4, NothingAgain
  <2>6. \A w \in Units : /\ base'[w] <= state'[w]
                         /\ old = 0 /\ base[w] <= retained[w] => base'[w] <= retained'[w]
    BY <1>1, <2>1, <2>3 DEF Covered
  <2> QED
    BY <2>1, <2>2, <2>3, <2>5, <2>6 DEF Covered
<1>9. CASE ~(\/ Deliver \/ Acknowledged \/ LinkDies \/ \E u \in Units : SnapshotPublish(u)
             \/ SnapshotConfirmed \/ SnapshotFails \/ SnapshotDone \/ CommandSnapshot
             \/ Connect \/ MqttLost \/ Interrupted)
  <2>1. UNCHANGED snapVars
    BY <1>9
    DEF Next, vars, UnitChanges, UnitRepeats, WorkerWakes, WorkerConfirmed, WorkerFails,
        WorkerResumes, Register, Unregister, Drained, DrainTimesOut, Discard, Restart
  <2>2. old = 0 => old' = 0
    BY <1>9, NothingAgain
  <2>3. \A w \in Units : /\ base'[w] <= state'[w]
                         /\ old = 0 /\ base[w] <= retained[w] => base'[w] <= retained'[w]
    BY <1>1, <2>1 DEF Covered, snapVars
  <2> QED
    BY <2>1, <2>2, <2>3 DEF Covered, snapVars
<1> QED
  BY <1>3, <1>4, <1>5, <1>6, <1>7, <1>8, <1>9

\* A snapshot that is reported without a failure has put every unit's state as
\* of its beginning, or a newer one, on the broker, whatever the worker, late
\* acknowledgements and the network did meanwhile.
THEOREM SnapshotsAreComplete == Spec => OkSnapshotIsComplete
<1>1. ASSUME IInv, Covered, [Next]_vars
      PROVE  [snapping /\ ~snapping' /\ snapOk' /\ phase' \in {"announce", "live"}
                 => \A u \in Units : retained[u] >= base[u]]_vars
  <2> SUFFICES ASSUME snapping, ~snapping', snapOk', phase' \in {"announce", "live"},
                      NEW u \in Units
               PROVE  retained[u] >= base[u]
    OBVIOUS
  <2>1. SnapshotDone
    BY <1>1
    DEF Next, vars, snapVars, Deliver, Acknowledged, LinkDies, UnitChanges, UnitRepeats,
        SnapshotPublish, WorkerWakes, WorkerConfirmed, WorkerFails, WorkerResumes,
        SnapshotConfirmed, SnapshotFails, CommandSnapshot, Connect, BeginSnapshot, Register, MqttLost,
        Interrupted, Unregister, EndSession, Drained, DrainTimesOut, Discard, Restart
  <2>2. todo = {} /\ snap.unit = NoUnit /\ ~snapFailed
    BY <2>1 DEF SnapshotDone
  <2>3. base[u] <= retained[u]
    BY <1>1, <2>2, NoUnitAssumption DEF Covered
  <2> QED
    BY <1>1, <2>3, BoundsAssumption DEF IInv, TypeOK
<1>2. Init => Covered
  BY DEF Init, Covered
<1> QED
  BY <1>1, <1>2, CoveredStep, Invariant, PTL DEF Spec, OkSnapshotIsComplete
=============================================================================
