------------------------ MODULE ConsumerProbeProofs ------------------------
(***************************************************************************)
(* What the outcome of a consumer probe says, for every set of units,      *)
(* every deadline and every bound: "ok" certifies the snapshot, a          *)
(* consumer that keeps up is never blamed, and the evidence is of one      *)
(* process of the bridge.                                                  *)
(***************************************************************************)
EXTENDS ConsumerProbe, FiniteSetTheorems, WellFoundedInduction, TLAPS

----------------------------------------------------------------------------
(* The inductive invariant.  Its parts are about a probe and its evidence, *)
(* p, r, d and g, and the messages b that the consumer has yet to handle:  *)
(* those of a state, or those that a step hands to Judge.                  *)

Waiting(b) == {m[1] : m \in b}

\* What a probe is.
Typed(p, r, d, g) ==
    /\ p = NoProbe \/
       p \in [kind : Kinds, req : Requests, inst : 0..inst, left : -1..Deadline,
              by : 0..inst, units : SUBSET Units]
    /\ r \subseteq Keys /\ d \subseteq Keys
    /\ g \in [covers : SUBSET Units, got : SUBSET Units, heard : SUBSET Procs,
              trouble : BOOLEAN, lost : BOOLEAN]
    /\ p.kind # "consumer" => r = {} /\ d = {} /\ g = NoGhost

\* A receipt that is not in use is left for the next message.
Room(p, r, d, b) ==
    /\ IsFiniteSet(p.units) /\ IsFiniteSet(r) /\ IsFiniteSet(d) /\ IsFiniteSet(b)
    /\ Cardinality(r) <= MaxRaw /\ Cardinality(b) <= MaxBacklog
    /\ Cardinality((d \union Waiting(b)) \ r) <= MaxBacklog

\* A consumer probe only ever hears of the process that it was started for.
Source(p, g) ==
    p.kind = "consumer" => p.inst # 0 /\ known = p.inst /\ g.heard = {p.inst}

\* Before the deadline, a unit of the snapshot was handled, unless a message of
\* it was lost, or one as new as the snapshot's was received and not handled.
Covered(p, r, d, g, b) ==
    p.kind = "consumer" =>
      /\ p.units \subseteq g.covers
      /\ p.left >= 0 => \A u \in g.covers :
            u \in g.got \/ g.lost \/ \E k \in r \ d : k[1] = u /\ <<k, FALSE>> \notin b

\* While the consumer keeps up, what was not handled waits for it; and the
\* deadline passes with nothing waiting.
Prompt(p, r, d, g, b) ==
    p.kind = "consumer" =>
      /\ p.by # 0 => p.units # {}
      /\ p.left >= 0 /\ ~g.trouble => r \ d \subseteq Waiting(b)
      /\ p.left < 0 /\ ~g.trouble /\ p.by # 0 =>
            Cardinality(RawTopics(r)) < Cardinality(p.units)

\* A probe whose evidence decides it is not pending any more.
Undecided == pending.left >= 0 => Check(pending, raw, processed) = "none"

\* The snapshot of the pending probe is the only one that has its request.
Snapshot ==
    /\ IsFiniteSet(snap.done)
    /\ pending.kind = "consumer" /\ snap.req = pending.req => snap.done \subseteq ghost.covers

\* What the outcome of a probe says is true.
Right(e) ==
    /\ e.outcome \in Outcomes \union {"none"}
    /\ e.outcome = "ok" /\ ~e.lost => e.missing = {}
    /\ e.outcome \in {"consumer_stale", "consumer_partial"} => e.trouble
    /\ e.outcome \in {"ok", "consumer_stale", "consumer_partial"} => Cardinality(e.heard) <= 1

Sound(p, r, d, g, b) ==
    /\ Typed(p, r, d, g) /\ Room(p, r, d, b) /\ Source(p, g)
    /\ Covered(p, r, d, g, b) /\ Prompt(p, r, d, g, b)

Around ==
    /\ inst \in Procs /\ known \in 0..inst /\ commands \in Seq(Kinds \X Requests)
    /\ snap \in [req : 0..MaxReq, todo : SUBSET Units, done : SUBSET Units, failed : BOOLEAN]
    /\ ticked \in BOOLEAN /\ backlog \subseteq Keys \X BOOLEAN

IInv ==
    /\ Around /\ Sound(pending, raw, processed, ghost, backlog)
    /\ Undecided /\ Snapshot /\ Right(ended)

----------------------------------------------------------------------------
(* Sets                                                                    *)

LEMMA LeastIn ==
    ASSUME NEW S, S \subseteq Nat, S # {}
    PROVE  Min(S) \in S
<1>1. PICK x \in S : \A y \in S : <<y, x>> \notin OpToRel(<, Nat)
  BY WFMin, NatLessThanWellFounded
<1>2. ASSUME NEW y \in S PROVE x <= y
  <2>1. <<y, x>> \in Nat \X Nat
    OBVIOUS
  <2>2. ~(y < x)
    BY <1>1, <2>1 DEF OpToRel
  <2> QED BY <2>1, <2>2
<1> QED BY <1>2 DEF Min

\* Of messages there are no more than of their receipts and marks.
LEMMA WaitingSize ==
    ASSUME NEW b, IsFiniteSet(b)
    PROVE  IsFiniteSet(Waiting(b)) /\ Cardinality(Waiting(b)) <= Cardinality(b)
<1> DEFINE f == [m \in b |-> m[1]]
<1>1. f \in Surjection(b, Waiting(b))
  BY DEF Waiting, Surjection
<1> QED BY <1>1, FS_Surjection

LEMMA TopicsFinite ==
    ASSUME NEW r, IsFiniteSet(r)
    PROVE  IsFiniteSet(RawTopics(r))
<1> DEFINE f == [k \in r |-> k[1]]
<1>1. f \in Surjection(r, RawTopics(r))
  BY DEF RawTopics, Surjection
<1> QED BY <1>1, FS_Surjection

\* There is a receipt for one more message, and nothing has it.
LEMMA NewKeyIsNew ==
    ASSUME Sound(pending, raw, processed, ghost, backlog), Cardinality(raw) < MaxRaw,
           NEW u \in Units
    PROVE  /\ NewKey(u) \in Keys /\ NewKey(u)[1] = u
           /\ NewKey(u) \notin raw \union processed \union Waiting(backlog)
<1> DEFINE N == MaxRaw + MaxBacklog
           Rest == (processed \union Waiting(backlog)) \ raw
           All == raw \union processed \union Waiting(backlog)
           Mine == {j \in All : j[1] = u}
           used == {k[2] : k \in Mine}
           f == [k \in Mine |-> k[2]]
<1>1. N \in Nat /\ MaxRaw \in Nat /\ MaxBacklog \in Nat
  BY BoundAssumption
<1>2. IsFiniteSet(raw) /\ IsFiniteSet(Rest) /\ Cardinality(Rest) <= MaxBacklog
  BY WaitingSize, FS_Union, FS_Difference DEF Sound, Room
<1>3. IsFiniteSet(All) /\ Cardinality(All) < N
  <2>1. All = raw \union Rest /\ raw \intersect Rest = {}
    OBVIOUS
  <2>2. IsFiniteSet(All) /\ Cardinality(All) = Cardinality(raw) + Cardinality(Rest) - 0
    BY <1>2, <2>1, FS_Union, FS_EmptySet
  <2> QED BY <1>1, <1>2, <2>2, FS_CardinalityType
<1>4. IsFiniteSet(used) /\ Cardinality(used) < N
  <2>1. IsFiniteSet(Mine) /\ Cardinality(Mine) <= Cardinality(All)
    BY <1>3, FS_Subset
  <2>2. f \in Surjection(Mine, used)
    BY DEF Surjection
  <2>3. IsFiniteSet(used) /\ Cardinality(used) <= Cardinality(Mine)
    BY <2>1, <2>2, FS_Surjection
  <2> QED BY <1>1, <1>3, <2>1, <2>3, FS_CardinalityType
<1> DEFINE free == (1..N) \ used
<1>5. free # {} /\ free \subseteq Nat
  <2>1. Cardinality(1..N) = N
    BY <1>1, FS_Interval
  <2>2. ~(1..N \subseteq used)
    BY <1>1, <1>4, <2>1, FS_Subset, FS_CardinalityType
  <2> QED BY <1>1, <2>2
<1>6. Min(free) \in free
  BY <1>5, LeastIn
<1>7. NewKey(u) = <<u, Min(free)>>
  BY DEF NewKey, Waiting
<1>8. \A k \in Mine : k[2] # Min(free)
  BY <1>6
<1> HIDE DEF free
<1> QED BY <1>6, <1>7, <1>8 DEF Keys, free

----------------------------------------------------------------------------
(* ProbeTracker                                                            *)

\* A probe that is over leaves nothing behind.
LEMMA Cleared ==
    ASSUME NEW b, IsFiniteSet(b), Cardinality(b) <= MaxBacklog, Deadline \in Nat
    PROVE  Sound(NoProbe, {}, {}, NoGhost, b)
<1> USE DEF NoProbe, NoGhost
<1>1. Typed(NoProbe, {}, {}, NoGhost)
  BY DEF Typed
<1>2. Room(NoProbe, {}, {}, b)
  <2>1. IsFiniteSet({}) /\ Cardinality({}) = 0 /\ 0 <= MaxRaw
    BY FS_EmptySet, BoundAssumption
  <2>2. IsFiniteSet(Waiting(b)) /\ Cardinality(Waiting(b)) <= Cardinality(b)
    BY WaitingSize
  <2>3. Cardinality(Waiting(b)) <= MaxBacklog
    BY <2>2, FS_CardinalityType, BoundAssumption
  <2>4. ({} \union Waiting(b)) \ {} = Waiting(b)
    OBVIOUS
  <2> QED BY <2>1, <2>3, <2>4 DEF Room
<1>3. Source(NoProbe, NoGhost) /\ Covered(NoProbe, {}, {}, NoGhost, b)
      /\ Prompt(NoProbe, {}, {}, NoGhost, b)
  BY DEF Source, Covered, Prompt
<1> QED BY <1>1, <1>2, <1>3 DEF Sound

\* The fields of a consumer probe.
LEMMA Fields ==
    ASSUME NEW p, NEW r, NEW d, NEW g, Typed(p, r, d, g)
    PROVE  /\ p = NoProbe <=> p.kind = "none"
           /\ p.kind \in Kinds \union {"none"} /\ p.left \in Int
           /\ p.kind # "none" =>
                p \in [kind : Kinds, req : Requests, inst : 0..inst, left : -1..Deadline,
                       by : 0..inst, units : SUBSET Units]
BY DeadlineAssumption DEF Typed, NoProbe, Kinds

\* Whatever the evidence of a probe amounts to is true.
LEMMA ResultRight ==
    ASSUME NEW p, NEW r, NEW d, NEW g, NEW b, Sound(p, r, d, g, b)
    PROVE  Right(Result(Check(p, r, d), p, g))
<1>1. CASE p.kind # "consumer"
  BY <1>1 DEF Result, NoResult, Right
<1>2. CASE p.kind = "consumer"
  <2> DEFINE e == Result(Check(p, r, d), p, g)
  <2>1. /\ e.outcome = Check(p, r, d) /\ e.missing = p.units \ g.got /\ e.heard = g.heard
        /\ e.trouble = g.trouble /\ e.lost = g.lost
    BY <1>2 DEF Result
  <2> HIDE DEF e
  <2>2. p # NoProbe /\ p.left \in Int
    BY <1>2, Fields DEF Sound
  <2>3. Cardinality(e.heard) <= 1
    <3>1. e.heard = {p.inst}
      BY <1>2, <2>1 DEF Sound, Source
    <3>2. Cardinality({p.inst}) = 1
      BY FS_Singleton
    <3> QED BY <3>1, <3>2
  <2>4. ASSUME p.left < 0 PROVE Right(e)
    <3>1. Check(p, r, d) = Expired(p, r, d)
      BY <2>2, <2>4 DEF Check
    <3>2. Expired(p, r, d) \in Outcomes \ {"ok"}
      BY DEF Expired, Outcomes
    <3>3. Expired(p, r, d) \in {"consumer_stale", "consumer_partial"} =>
             p.by # 0 /\ ~(Cardinality(RawTopics(r)) < Cardinality(p.units))
      BY DEF Expired
    <3>4. Expired(p, r, d) \in {"consumer_stale", "consumer_partial"} => g.trouble
      BY <1>2, <2>4, <3>3 DEF Sound, Prompt
    <3> QED BY <2>1, <2>3, <3>1, <3>2, <3>4 DEF Right
  <2>5. ASSUME ~(p.left < 0) PROVE Right(e)
    <3>1. Check(p, r, d) \in {"ok", "none"}
      BY <2>2, <2>5 DEF Check
    <3>2. Check(p, r, d) = "ok" => r \subseteq d
      BY <2>2, <2>5 DEF Check, AllHandled
    <3>3. ASSUME r \subseteq d, ~g.lost PROVE p.units \subseteq g.got
      <4>1. p.left >= 0 /\ r \ d = {}
        BY <2>2, <2>5, <3>3
      <4>2. p.units \subseteq g.covers /\ (\A u \in g.covers : u \in g.got)
        BY <1>2, <3>3, <4>1 DEF Sound, Covered
      <4> QED BY <4>2
    <3>4. Check(p, r, d) = "ok" /\ ~e.lost => e.missing = {}
      BY <2>1, <3>2, <3>3
    <3> QED BY <2>1, <2>3, <3>1, <3>4 DEF Right, Outcomes
  <2> QED BY <2>4, <2>5 DEF e
<1> QED BY <1>1, <1>2

\* A probe that ends leaves nothing behind, whatever its outcome.
LEMMA FinishKeeps ==
    ASSUME NEW o, NEW p, NEW g, Finish(o, p, g), Right(Result(o, p, g)),
           IsFiniteSet(backlog'), Cardinality(backlog') <= MaxBacklog
    PROVE  /\ Sound(pending, raw, processed, ghost, backlog)' /\ Undecided' /\ Right(ended)'
           /\ pending' = NoProbe
<1>1. /\ pending' = NoProbe /\ raw' = {} /\ processed' = {} /\ ghost' = NoGhost
      /\ ended' = Result(o, p, g)
  BY DEF Finish
<1>2. Right(ended)'
  BY <1>1 DEF Right
<1>3. Undecided'
  BY <1>1 DEF Undecided, Check
<1>4. Sound(NoProbe, {}, {}, NoGhost, backlog')
  BY Cleared, DeadlineAssumption
<1>5. Sound(pending, raw, processed, ghost, backlog)'
  BY <1>1, <1>4, Zenon DEF Sound, Typed, Room, Source, Covered, Prompt, NoProbe
<1> QED BY <1>1, <1>2, <1>3, <1>5

LEMMA JudgeKeeps ==
    ASSUME NEW p, NEW r, NEW d, NEW g, Judge(p, r, d, g), UNCHANGED <<inst, known>>,
           Sound(p, r, d, g, backlog')
    PROVE  /\ Sound(pending, raw, processed, ghost, backlog)' /\ Undecided' /\ Right(ended)'
           /\ pending'.kind = "consumer" => pending' = p /\ ghost' = g
<1>1. IsFiniteSet(backlog') /\ Cardinality(backlog') <= MaxBacklog
  BY DEF Sound, Room
<1>2. CASE Check(p, r, d) # "none"
  <2>1. Finish(Check(p, r, d), p, g)
    BY <1>2 DEF Judge
  <2>2. Right(Result(Check(p, r, d), p, g))
    BY ResultRight
  <2> QED BY <1>1, <2>1, <2>2, FinishKeeps DEF NoProbe
<1>3. CASE Check(p, r, d) = "none"
  <2>1. pending' = p /\ raw' = r /\ processed' = d /\ ghost' = g /\ ended' = NoResult
    BY <1>3 DEF Judge
  <2>2. Sound(pending, raw, processed, ghost, backlog)'
    BY <2>1 DEF Sound, Typed, Room, Source, Covered, Prompt
  <2>3. Undecided' /\ Right(ended)'
    BY <1>3, <2>1 DEF Undecided, Right, NoResult
  <2> QED BY <2>1, <2>2, <2>3
<1> QED BY <1>2, <1>3

\* Nothing happens to the probe; what waits for the consumer may be less.
LEMMA NothingKeeps ==
    ASSUME Sound(pending, raw, processed, ghost, backlog), Undecided,
           UNCHANGED <<known, pending, raw, processed, ghost, backlog>>,
           ended' = NoResult, inst' = inst
    PROVE  Sound(pending, raw, processed, ghost, backlog)' /\ Undecided' /\ Right(ended)'
BY DEF Sound, Typed, Room, Source, Covered, Prompt, Undecided, Right, NoResult

----------------------------------------------------------------------------
(* HealthObserver: messages                                                *)

\* A unit message is evidence and waits for the consumer, or decides the probe.
LEMMA UnitKeeps ==
    ASSUME IInv, NEW u \in Units, NEW g, UnitArrives(u, g), UNCHANGED <<inst, known>>,
           \/ g = ghost
           \/ pending.kind = "consumer" /\ g = [ghost EXCEPT !.covers = @ \union {u}]
    PROVE  /\ Sound(pending, raw, processed, ghost, backlog)' /\ Undecided' /\ Right(ended)'
           /\ pending'.kind = "consumer" => pending' = pending /\ ghost' = g
           /\ backlog' \subseteq Keys \X BOOLEAN
<1> DEFINE fields == [covers : SUBSET Units, got : SUBSET Units, heard : SUBSET Procs,
                      trouble : BOOLEAN, lost : BOOLEAN]
<1>1. Sound(pending, raw, processed, ghost, backlog) /\ ghost \in fields
  BY DEF IInv, Sound, Typed
<1>2. /\ g \in fields /\ g.got = ghost.got /\ g.heard = ghost.heard
      /\ g.trouble = ghost.trouble /\ g.lost = ghost.lost
      /\ ghost.covers \subseteq g.covers /\ g.covers \subseteq ghost.covers \union {u}
      /\ pending.kind # "consumer" => g = ghost
  BY <1>1
<1> HIDE DEF fields
<1>3. pending.left \in Int
  BY <1>1, Fields DEF Sound
<1>4. CASE ~Collecting
  <2>1. Judge(pending, raw, processed, g) /\ backlog' = backlog
    BY <1>4 DEF UnitArrives
  <2>2. Sound(pending, raw, processed, g, backlog)
    <3>1. Typed(pending, raw, processed, g)
      BY <1>1, <1>2 DEF Sound, Typed, fields
    <3>2. Source(pending, g) /\ Prompt(pending, raw, processed, g, backlog)
      BY <1>1, <1>2 DEF Sound, Source, Prompt
    <3>3. Covered(pending, raw, processed, g, backlog)
      BY <1>1, <1>2, <1>3, <1>4 DEF Sound, Covered, Collecting
    <3> QED BY <1>1, <3>1, <3>2, <3>3 DEF Sound
  <2> QED BY <2>1, <2>2, JudgeKeeps DEF IInv, Around
<1>5. CASE Collecting
  <2> DEFINE k == NewKey(u)
             m == <<k, u \in g.covers>>
  <2>1. /\ Cardinality(raw) < MaxRaw /\ Cardinality(backlog) < MaxBacklog
        /\ backlog' = backlog \union {m} /\ Judge(pending, raw \union {k}, processed, g)
    BY <1>5 DEF UnitArrives
  <2>2. k \in Keys /\ k[1] = u /\ k \notin raw \union processed \union Waiting(backlog)
    BY <1>1, <2>1, NewKeyIsNew
  <2> HIDE DEF k
  <2>7. (u \in g.covers) \in BOOLEAN
    OBVIOUS
  <2>8. m[1] = k /\ m \in Keys \X BOOLEAN
    BY <2>2, <2>7
  <2>3. backlog' \subseteq Keys \X BOOLEAN
    BY <2>1, <2>8 DEF IInv, Around
  <2>4. Waiting(backlog') = Waiting(backlog) \union {k}
    BY <2>1, <2>8 DEF Waiting
  <2>5. pending.kind = "consumer" /\ pending.left >= 0
    BY <1>5 DEF Collecting
  <2>6. Sound(pending, raw \union {k}, processed, g, backlog')
    <3>1. Typed(pending, raw \union {k}, processed, g)
      BY <1>1, <1>2, <2>2, <2>5 DEF Sound, Typed, fields
    <3>2. Room(pending, raw \union {k}, processed, backlog')
      <4>1. /\ IsFiniteSet(raw) /\ IsFiniteSet(backlog)
            /\ IsFiniteSet(processed) /\ IsFiniteSet(pending.units)
            /\ Cardinality((processed \union Waiting(backlog)) \ raw) <= MaxBacklog
        BY <1>1 DEF Sound, Room
      <4>2. /\ IsFiniteSet(raw \union {k}) /\ Cardinality(raw \union {k}) <= MaxRaw
            /\ IsFiniteSet(backlog') /\ Cardinality(backlog') <= MaxBacklog
        <5>1. Cardinality(raw) \in Nat /\ Cardinality(backlog) \in Nat
          BY <4>1, FS_CardinalityType
        <5>2. /\ IsFiniteSet(raw \union {k})
              /\ Cardinality(raw \union {k}) \in {Cardinality(raw), Cardinality(raw) + 1}
          BY <4>1, FS_AddElement
        <5>3. /\ IsFiniteSet(backlog \union {m})
              /\ Cardinality(backlog \union {m}) \in {Cardinality(backlog), Cardinality(backlog) + 1}
          BY <4>1, FS_AddElement
        <5> QED BY <2>1, <5>1, <5>2, <5>3, BoundAssumption
      <4>3. (processed \union Waiting(backlog')) \ (raw \union {k})
               = (processed \union Waiting(backlog)) \ raw
        BY <2>2, <2>4
      <4> QED BY <4>1, <4>2, <4>3 DEF Room
    <3>3. Source(pending, g)
      BY <1>1, <1>2 DEF Sound, Source
    <3>4. Covered(pending, raw \union {k}, processed, g, backlog')
      <4>1. pending.units \subseteq g.covers
        BY <1>1, <1>2, <2>5 DEF Sound, Covered
      <4>2. ASSUME NEW v \in g.covers
            PROVE  \/ v \in g.got \/ g.lost
                   \/ \E j \in (raw \union {k}) \ processed :
                         j[1] = v /\ <<j, FALSE>> \notin backlog'
        <5>1. CASE v \in ghost.covers
          <6>1. \/ v \in ghost.got \/ ghost.lost
                \/ \E j \in raw \ processed : j[1] = v /\ <<j, FALSE>> \notin backlog
            BY <1>1, <2>5, <5>1 DEF Sound, Covered
          <6>2. \A j \in raw : j # k
            BY <2>2
          <6> QED BY <1>2, <2>1, <6>1, <6>2
        <5>2. CASE v = u
          <6>1. m[2] = TRUE
            BY <5>2
          <6>2. <<k, FALSE>> # m
            BY <6>1
          <6>3. <<k, FALSE>> \notin backlog
            BY <2>2 DEF Waiting
          <6> QED BY <2>1, <2>2, <5>2, <6>2, <6>3
        <5> QED BY <1>2, <4>2, <5>1, <5>2
      <4> QED BY <4>1, <4>2 DEF Covered
    <3>5. Prompt(pending, raw \union {k}, processed, g, backlog')
      BY <1>1, <1>2, <1>3, <2>4, <2>5 DEF Sound, Prompt
    <3> QED BY <3>1, <3>2, <3>3, <3>4, <3>5 DEF Sound
  <2> QED BY <2>1, <2>3, <2>6, JudgeKeeps
<1> QED BY <1>4, <1>5

\* A reply names the units of the snapshot, or ends the probe.
LEMMA ReplyKeeps ==
    ASSUME IInv, NEW m, m.kind \in Kinds, m.units \subseteq Units, IsFiniteSet(m.units),
           ReplyArrives(m), UNCHANGED <<inst, known, backlog>>,
           m.kind = "consumer" /\ pending.kind = "consumer" /\ m.req = pending.req
              => m.units \subseteq ghost.covers
    PROVE  /\ Sound(pending, raw, processed, ghost, backlog)' /\ Undecided' /\ Right(ended)'
           /\ pending'.kind = "consumer" =>
                 /\ pending.kind = "consumer" /\ pending'.req = pending.req
                 /\ ghost'.covers = ghost.covers
<1> DEFINE p == [pending EXCEPT !.by = inst, !.units = m.units]
           g == [ghost EXCEPT !.heard = @ \union {inst}]
<1>1. Sound(pending, raw, processed, ghost, backlog) /\ Undecided
  BY DEF IInv
<1>2. CASE ~Accepted(m)
  <2>1. ended' = NoResult /\ UNCHANGED <<tracker, ghost>>
    BY <1>2 DEF ReplyArrives
  <2> QED BY <1>1, <2>1, NothingKeeps DEF tracker
<1>3. CASE Accepted(m)
  <2>1. /\ pending # NoProbe /\ pending.left >= 0 /\ m.req = pending.req
        /\ known \in {0, inst} /\ m.kind = pending.kind
    BY <1>3 DEF Accepted
  <2>2. pending \in [kind : Kinds, req : Requests, inst : 0..inst, left : -1..Deadline,
                     by : 0..inst, units : SUBSET Units]
    BY <1>1, <2>1, Fields DEF Sound
  <2>3. inst \in Nat /\ inst # 0 /\ inst \in 0..inst
    BY BoundAssumption DEF IInv, Around, Procs
  <2>4. /\ p \in [kind : Kinds, req : Requests, inst : 0..inst, left : -1..Deadline,
                  by : 0..inst, units : SUBSET Units]
        /\ p.kind = pending.kind /\ p.req = pending.req /\ p.inst = pending.inst
        /\ p.left = pending.left /\ p.by = inst /\ p.units = m.units
    BY <2>2, <2>3
  <2>5. /\ g.covers = ghost.covers /\ g.got = ghost.got /\ g.heard = ghost.heard \union {inst}
        /\ g.trouble = ghost.trouble /\ g.lost = ghost.lost
        /\ g \in [covers : SUBSET Units, got : SUBSET Units, heard : SUBSET Procs,
                  trouble : BOOLEAN, lost : BOOLEAN]
    BY <1>1 DEF IInv, Around, Sound, Typed
  <2> HIDE DEF p, g
  <2>6. IsFiniteSet(backlog') /\ Cardinality(backlog') <= MaxBacklog
    BY <1>1 DEF Sound, Room
  <2>7. CASE Verdict(m) # "none"
    <3>1. Finish(Verdict(m), p, g)
      BY <1>3, <2>7 DEF ReplyArrives, p, g
    <3>2. p.kind = "consumer" => Verdict(m) \in {"bridge_busy", "bridge_failed", "no_units"}
      BY <2>4, <2>7 DEF Verdict
    <3>3. Right(Result(Verdict(m), p, g))
      BY <3>2 DEF Right, Result, NoResult, Outcomes
    <3> QED BY <2>6, <3>1, <3>3, FinishKeeps DEF NoProbe
  <2>8. CASE Verdict(m) = "none"
    <3>1. Judge(p, raw, processed, g)
      BY <1>3, <2>8 DEF ReplyArrives, p, g
    <3>2. pending.kind = "consumer" /\ m.units # {}
      BY <2>1, <2>2, <2>8 DEF Verdict, Kinds
    <3>3. pending.inst = inst /\ pending.inst # 0 /\ known = inst /\ ghost.heard = {inst}
      BY <1>1, <2>1, <3>2 DEF Sound, Source
    <3>4. Sound(p, raw, processed, g, backlog)
      <4>1. Typed(p, raw, processed, g)
        BY <1>1, <2>4, <2>5, <3>2 DEF Sound, Typed
      <4>2. Room(p, raw, processed, backlog)
        BY <1>1, <2>4 DEF Sound, Room
      <4>3. Source(p, g)
        BY <2>4, <2>5, <3>3 DEF Source
      <4>4. Covered(p, raw, processed, g, backlog)
        BY <1>1, <2>1, <2>4, <2>5, <3>2 DEF Sound, Covered
      <4>5. Prompt(p, raw, processed, g, backlog)
        BY <1>1, <2>1, <2>2, <2>4, <2>5, <3>2 DEF Sound, Prompt
      <4> QED BY <4>1, <4>2, <4>3, <4>4, <4>5 DEF Sound
    <3>5. Sound(p, raw, processed, g, backlog')
      BY <3>4
    <3> QED BY <2>4, <2>5, <3>1, <3>2, <3>5, JudgeKeeps
  <2> QED BY <2>7, <2>8
<1> QED BY <1>2, <1>3

----------------------------------------------------------------------------
(* HealthObserver: time                                                    *)

\* A new probe has a request of its own, and no evidence.
LEMMA StartKeeps ==
    ASSUME IInv, NEW k \in Kinds, StartProbe(k), UNCHANGED <<inst, snap, known>>
    PROVE  /\ Sound(pending, raw, processed, ghost, backlog)' /\ Undecided'
           /\ pending'.req # snap.req
           /\ commands' \in Seq(Kinds \X Requests) /\ backlog' \subseteq Keys \X BOOLEAN
<1> DEFINE r == Min(Unused)
<1>1. r \in Unused
  <2>1. Unused \subseteq Nat /\ Unused # {}
    BY BoundAssumption DEF StartProbe, Unused, Requests
  <2> QED BY <2>1, LeastIn
<1>2. r \in Requests /\ r # snap.req
  BY <1>1 DEF Unused
<1>3. /\ pending' = [kind |-> k, req |-> r, inst |-> known, left |-> Deadline,
                     by |-> 0, units |-> {}]
      /\ commands' \in {commands, Append(commands, <<k, r>>)}
      /\ raw' = {} /\ processed' = {} /\ (k = "consumer" => known # 0)
      /\ ghost' = IF k = "consumer" THEN [NoGhost EXCEPT !.heard = {known} \ {0}] ELSE NoGhost
      /\ backlog' = {<<b[1], FALSE>> : b \in backlog}
  BY DEF StartProbe
<1> HIDE DEF r
<1>4. Around /\ Room(pending, raw, processed, backlog)
  BY DEF IInv, Sound
<1>5. commands' \in Seq(Kinds \X Requests)
  <2>1. commands \in Seq(Kinds \X Requests) /\ <<k, r>> \in Kinds \X Requests
    BY <1>2, <1>4 DEF Around
  <2> HIDE DEF Kinds, Requests
  <2>2. Append(commands, <<k, r>>) \in Seq(Kinds \X Requests)
    BY <2>1
  <2> QED BY <1>3, <2>1, <2>2
<1>6. backlog' \subseteq Keys \X BOOLEAN
  <2>1. \A b \in backlog : b[1] \in Keys
    BY <1>4 DEF Around
  <2>2. \A b \in backlog : <<b[1], FALSE>> \in Keys \X BOOLEAN
    BY <2>1
  <2> QED BY <1>3, <2>2
<1>7. IsFiniteSet(backlog') /\ Cardinality(backlog') <= MaxBacklog
  <2> DEFINE f == [b \in backlog |-> <<b[1], FALSE>>]
  <2>1. f \in Surjection(backlog, backlog')
    BY <1>3 DEF Surjection
  <2>2. /\ IsFiniteSet(backlog) /\ IsFiniteSet(backlog')
        /\ Cardinality(backlog') <= Cardinality(backlog) /\ Cardinality(backlog) <= MaxBacklog
    BY <1>4, <2>1, FS_Surjection DEF Room
  <2> QED BY <2>2, FS_CardinalityType, BoundAssumption
<1>8. Sound(NoProbe, {}, {}, NoGhost, backlog')
  BY <1>7, Cleared, DeadlineAssumption
<1>9. inst \in Procs /\ known \in 0..inst /\ Procs \subseteq Nat
  BY <1>4, BoundAssumption DEF Around, Procs
<1>10. ghost' \in [covers : SUBSET Units, got : SUBSET Units, heard : SUBSET Procs,
                   trouble : BOOLEAN, lost : BOOLEAN]
  <2>1. {known} \ {0} \subseteq Procs
    BY <1>9, BoundAssumption DEF Procs
  <2> QED BY <1>3, <2>1 DEF NoGhost
<1>11. Typed(pending, raw, processed, ghost)'
  <2>1. 0 \in 0..inst' /\ known \in 0..inst' /\ Deadline \in -1..Deadline
    BY <1>9, DeadlineAssumption
  <2>2. pending' \in [kind : Kinds, req : Requests, inst : 0..inst', left : -1..Deadline,
                      by : 0..inst', units : SUBSET Units]
    BY <1>2, <1>3, <2>1
  <2>3. pending'.kind # "consumer" => ghost' = NoGhost
    BY <1>3
  <2> QED BY <1>3, <1>10, <2>2, <2>3 DEF Typed
<1>12. Room(pending, raw, processed, backlog)'
  BY <1>3, <1>8 DEF Sound, Room, NoProbe
<1>13. Source(pending, ghost)' /\ Covered(pending, raw, processed, ghost, backlog)'
       /\ Prompt(pending, raw, processed, ghost, backlog)'
  BY <1>3, DeadlineAssumption DEF Source, Covered, Prompt, NoGhost
<1>14. Undecided'
  BY <1>3, DeadlineAssumption DEF Undecided, Check
<1> QED BY <1>2, <1>3, <1>5, <1>6, <1>11, <1>12, <1>13, <1>14 DEF Sound

LEMMA RequestProbeKeeps ==
    ASSUME IInv, RequestProbe
    PROVE  IInv'
<1>1. StartProbe("consumer") /\ ended' = NoResult /\ UNCHANGED <<inst, snap, known, ticked>>
  BY DEF RequestProbe
<1>2. /\ Sound(pending, raw, processed, ghost, backlog)' /\ Undecided'
      /\ pending'.req # snap.req
      /\ commands' \in Seq(Kinds \X Requests) /\ backlog' \subseteq Keys \X BOOLEAN
  BY <1>1, StartKeeps DEF Kinds
<1> QED BY <1>1, <1>2 DEF IInv, Around, Snapshot, Right, NoResult

\* A tick ends a probe that is decided, and may start another.
LEMMA TickKeeps ==
    ASSUME IInv, Tick
    PROVE  IInv'
<1> DEFINE o == Check(pending, raw, processed)
<1>1. ticked' = TRUE /\ UNCHANGED <<inst, snap, known>>
  BY DEF Tick
<1>2. CASE o = "none" /\ pending # NoProbe
  <2>1. ended' = NoResult /\ UNCHANGED <<tracker, ghost, commands, backlog>>
    BY <1>2 DEF Tick, Nothing
  <2>2. Sound(pending, raw, processed, ghost, backlog)' /\ Undecided' /\ Right(ended)'
    BY <1>1, <2>1, NothingKeeps DEF IInv, tracker
  <2> QED BY <1>1, <2>1, <2>2 DEF IInv, Around, Snapshot, tracker
<1>3. CASE ~(o = "none" /\ pending # NoProbe)
  <2>1. ended' = Result(o, pending, ghost)
    BY <1>3 DEF Tick
  <2>2. Right(ended)'
    BY <2>1, ResultRight DEF IInv, Right
  <2>3. CASE \E k \in Kinds : StartProbe(k)
    <3>1. /\ Sound(pending, raw, processed, ghost, backlog)' /\ Undecided'
          /\ pending'.req # snap.req
          /\ commands' \in Seq(Kinds \X Requests) /\ backlog' \subseteq Keys \X BOOLEAN
      BY <1>1, <2>3, StartKeeps
    <3> QED BY <1>1, <2>2, <3>1 DEF IInv, Around, Snapshot
  <2>4. CASE /\ pending' = NoProbe /\ raw' = {} /\ processed' = {}
             /\ ghost' = NoGhost /\ UNCHANGED <<commands, backlog>>
    <3>1. Finish(o, pending, ghost)
      BY <2>1, <2>4 DEF Finish
    <3>2. IsFiniteSet(backlog') /\ Cardinality(backlog') <= MaxBacklog
      BY <2>4 DEF IInv, Sound, Room
    <3>3. Right(Result(o, pending, ghost))
      BY ResultRight DEF IInv
    <3>4. Sound(pending, raw, processed, ghost, backlog)' /\ Undecided'
      BY <3>1, <3>2, <3>3, FinishKeeps
    <3> QED BY <1>1, <2>2, <2>4, <3>4 DEF IInv, Around, Snapshot, NoProbe
  <2> QED BY <1>3, <2>3, <2>4 DEF Tick
<1> QED BY <1>2, <1>3

\* The deadline passes for a consumer that has handled everything, or is late.
LEMMA TimePassesKeeps ==
    ASSUME IInv, TimePasses
    PROVE  IInv'
<1>1. /\ ticked' = FALSE /\ ended' = NoResult
      /\ UNCHANGED <<inst, commands, snap, known, raw, processed, backlog>>
      /\ Note([ghost EXCEPT !.trouble = @ \/ backlog # {}])
      /\ pending' = IF pending = NoProbe THEN pending
                    ELSE [pending EXCEPT !.left = Max({-1, @ - 1})]
  BY DEF TimePasses, bridge
<1>2. Around /\ Sound(pending, raw, processed, ghost, backlog) /\ Undecided /\ Snapshot
  BY DEF IInv
<1>3. CASE pending = NoProbe
  <2>1. UNCHANGED <<pending, ghost>>
    BY <1>1, <1>3 DEF Note, NoProbe
  <2>2. Sound(pending, raw, processed, ghost, backlog)' /\ Undecided' /\ Right(ended)'
    BY <1>1, <1>2, <2>1, NothingKeeps
  <2> QED BY <1>1, <1>2, <2>1, <2>2 DEF IInv, Around, Snapshot
<1>4. CASE pending # NoProbe
  <2> DEFINE left == Max({-1, pending.left - 1})
  <2>1. pending \in [kind : Kinds, req : Requests, inst : 0..inst, left : -1..Deadline,
                     by : 0..inst, units : SUBSET Units]
    BY <1>2, <1>4, Fields DEF Sound
  <2>2. left \in -1..Deadline /\ (left < pending.left \/ (left = -1 /\ pending.left = -1))
    <3>1. pending.left \in -1..Deadline /\ Deadline \in Nat
      BY <2>1, DeadlineAssumption
    <3>2. pending.left = -1 => left = -1
      BY DEF Max
    <3>3. pending.left >= 0 => left = pending.left - 1
      BY <3>1 DEF Max
    <3> HIDE DEF left
    <3> QED BY <3>1, <3>2, <3>3
  <2>3. pending' = [pending EXCEPT !.left = left]
    BY <1>1, <1>4
  <2> HIDE DEF left
  <2>4. /\ pending'.kind = pending.kind /\ pending'.req = pending.req
        /\ pending'.inst = pending.inst /\ pending'.left = left /\ pending'.by = pending.by
        /\ pending'.units = pending.units
        /\ pending' \in [kind : Kinds, req : Requests, inst : 0..inst, left : -1..Deadline,
                         by : 0..inst, units : SUBSET Units]
    BY <2>1, <2>2, <2>3, DeadlineAssumption
  <2>5. pending.left \in Int /\ left \in Int /\ (left >= 0 => pending.left >= 0)
        /\ (pending.left < 0 => left < 0)
    BY <2>1, <2>2, DeadlineAssumption
  <2>6. /\ ghost'.covers = ghost.covers /\ ghost'.got = ghost.got /\ ghost'.heard = ghost.heard
        /\ ghost'.lost = ghost.lost
        /\ ghost' \in [covers : SUBSET Units, got : SUBSET Units, heard : SUBSET Procs,
                       trouble : BOOLEAN, lost : BOOLEAN]
        /\ pending.kind # "consumer" => ghost' = ghost
        /\ pending.kind = "consumer" /\ ~ghost'.trouble => ~ghost.trouble /\ backlog = {}
    BY <1>1, <1>2 DEF Note, Sound, Typed
  <2>7. Typed(pending, raw, processed, ghost)'
    BY <1>1, <1>2, <2>4, <2>6 DEF Sound, Typed
  <2>8. Room(pending, raw, processed, backlog)' /\ Source(pending, ghost)'
        /\ Covered(pending, raw, processed, ghost, backlog)'
    BY <1>1, <1>2, <2>4, <2>5, <2>6 DEF Sound, Room, Source, Covered
  <2>9. Prompt(pending, raw, processed, ghost, backlog)'
    <3> SUFFICES ASSUME pending.kind = "consumer"
                 PROVE  Prompt(pending, raw, processed, ghost, backlog)'
      BY <2>4 DEF Prompt
    <3>1. pending.by # 0 => pending.units # {}
      BY <1>2 DEF Sound, Prompt
    <3>2. left >= 0 /\ ~ghost'.trouble => raw \ processed \subseteq Waiting(backlog)
      BY <1>2, <2>5, <2>6 DEF Sound, Prompt
    <3>3. ASSUME left < 0, ~ghost'.trouble, pending.by # 0
          PROVE  Cardinality(RawTopics(raw)) < Cardinality(pending.units)
      <4>1. CASE pending.left < 0
        BY <1>2, <2>6, <3>3, <4>1 DEF Sound, Prompt
      <4>2. CASE pending.left >= 0
        <5>1. raw \subseteq processed
          BY <1>2, <2>6, <3>3, <4>2 DEF Sound, Prompt, Waiting
        <5>2. ~(Cardinality(RawTopics(raw)) >= Cardinality(pending.units))
          BY <1>2, <1>4, <2>5, <3>1, <3>3, <4>2, <5>1 DEF Undecided, Check,
             AllHandled
        <5>3. Cardinality(RawTopics(raw)) \in Nat /\ Cardinality(pending.units) \in Nat
          BY <1>2, TopicsFinite, FS_CardinalityType DEF Sound, Room
        <5> QED BY <5>2, <5>3
      <4> QED BY <2>5, <4>1, <4>2
    <3> QED BY <1>1, <2>4, <3>1, <3>2, <3>3 DEF Prompt
  <2>10. Undecided'
    BY <1>1, <1>2, <1>4, <2>4, <2>5 DEF Undecided, Check, NoProbe
  <2>11. Snapshot' /\ Around' /\ Right(ended)'
    BY <1>1, <1>2, <2>4, <2>6 DEF Snapshot, Around, Right, NoResult
  <2> QED BY <2>7, <2>8, <2>9, <2>10, <2>11 DEF IInv, Sound
<1> QED BY <1>3, <1>4

----------------------------------------------------------------------------
(* The bridge, and the consumer                                            *)

\* The status of another process ends a consumer probe.
LEMMA StatusKeeps ==
    ASSUME IInv, BridgeStatus
    PROVE  IInv'
<1> DEFINE g == [ghost EXCEPT !.heard = @ \union {inst}]
<1>1. /\ UNCHANGED <<inst, commands, snap, ticked, backlog>> /\ known' = inst
      /\ IF Superseded(inst) THEN Finish("superseded", pending, g)
         ELSE Note(g) /\ ended' = NoResult /\ UNCHANGED tracker
  BY DEF BridgeStatus, StatusArrives, bridge
<1>2. Around /\ Sound(pending, raw, processed, ghost, backlog) /\ Undecided /\ Snapshot
  BY DEF IInv
<1>3. Around'
  BY <1>1, <1>2, BoundAssumption DEF Around, Procs
<1>4. CASE Superseded(inst)
  <2>1. Right(Result("superseded", pending, g))
    BY DEF Right, Result, NoResult, Outcomes
  <2>2. IsFiniteSet(backlog') /\ Cardinality(backlog') <= MaxBacklog
    BY <1>1, <1>2 DEF Sound, Room
  <2>3. Sound(pending, raw, processed, ghost, backlog)' /\ Undecided' /\ Right(ended)'
        /\ pending' = NoProbe
    BY <1>1, <1>4, <2>1, <2>2, FinishKeeps
  <2> QED BY <1>1, <1>2, <1>3, <2>3 DEF IInv, Snapshot, NoProbe
<1>5. CASE ~Superseded(inst)
  <2>1. UNCHANGED <<pending, raw, processed>> /\ ended' = NoResult /\ Note(g)
    BY <1>1, <1>5 DEF tracker
  <2>2. /\ ghost'.covers = ghost.covers /\ ghost'.got = ghost.got
        /\ ghost'.trouble = ghost.trouble /\ ghost'.lost = ghost.lost
        /\ ghost' \in [covers : SUBSET Units, got : SUBSET Units, heard : SUBSET Procs,
                       trouble : BOOLEAN, lost : BOOLEAN]
        /\ pending.kind = "consumer" => ghost'.heard = ghost.heard \union {inst}
        /\ pending.kind # "consumer" => ghost' = ghost
    BY <1>2, <2>1 DEF Note, Around, Sound, Typed
  <2>3. Source(pending, ghost)'
    <3> SUFFICES ASSUME pending.kind = "consumer"
                 PROVE  Source(pending, ghost)'
      BY <2>1 DEF Source
    <3>1. pending.inst # 0 /\ ghost.heard = {pending.inst} /\ pending # NoProbe
      BY <1>2 DEF Sound, Source, NoProbe
    <3>2. pending.inst = inst
      BY <1>5, <3>1 DEF Superseded
    <3> QED BY <1>1, <2>1, <2>2, <3>1, <3>2 DEF Source
  <2>4. Typed(pending, raw, processed, ghost)' /\ Room(pending, raw, processed, backlog)'
    BY <1>1, <1>2, <2>1, <2>2 DEF Sound, Typed, Room
  <2>5. Covered(pending, raw, processed, ghost, backlog)'
        /\ Prompt(pending, raw, processed, ghost, backlog)'
    BY <1>1, <1>2, <2>1, <2>2 DEF Sound, Covered, Prompt
  <2>6. Undecided' /\ Snapshot' /\ Right(ended)'
    BY <1>1, <1>2, <2>1, <2>2 DEF Undecided, Snapshot, Right, NoResult
  <2> QED BY <1>3, <2>3, <2>4, <2>5, <2>6 DEF IInv, Sound
<1> QED BY <1>4, <1>5

LEMMA AmbientKeeps ==
    ASSUME IInv, Ambient
    PROVE  IInv'
<1>1. PICK u \in Units : UnitArrives(u, ghost)
  BY DEF Ambient
<1>2. UNCHANGED <<inst, commands, snap, known, ticked>>
  BY DEF Ambient, bridge
<1>3. /\ Sound(pending, raw, processed, ghost, backlog)' /\ Undecided' /\ Right(ended)'
      /\ pending'.kind = "consumer" => pending' = pending /\ ghost' = ghost
      /\ backlog' \subseteq Keys \X BOOLEAN
  BY <1>1, <1>2, UnitKeeps
<1> QED BY <1>2, <1>3 DEF IInv, Around, Snapshot

\* The first of the commands.
LEMMA Command ==
    ASSUME Around, commands # <<>>
    PROVE  /\ Head(commands) \in Kinds \X Requests
           /\ Tail(commands) \in Seq(Kinds \X Requests)
BY DEF Around

\* A command is answered, or ignored, without a snapshot.
LEMMA AnswerKeeps ==
    ASSUME IInv, AnswerStatus \/ RateLimited
    PROVE  IInv'
<1>1. /\ commands # <<>> /\ commands' = Tail(commands)
      /\ UNCHANGED <<inst, snap, known, ticked, backlog>>
  BY DEF AnswerStatus, RateLimited
<1>2. Around'
  BY <1>1, Command DEF IInv, Around
<1>3. CASE Nothing
  <2>1. ended' = NoResult /\ UNCHANGED <<pending, raw, processed, ghost>>
    BY <1>3 DEF Nothing, tracker
  <2>2. Sound(pending, raw, processed, ghost, backlog)' /\ Undecided' /\ Right(ended)'
    BY <1>1, <2>1, NothingKeeps DEF IInv
  <2> QED BY <1>1, <1>2, <2>1, <2>2 DEF IInv, Snapshot
<1>4. CASE ~Nothing
  <2>1. PICK k \in Kinds, res \in {"ok", "rate_limited"} :
           Sent(k, Head(commands)[2], res, {})
    BY <1>4 DEF AnswerStatus, RateLimited, Kinds
  <2> DEFINE m == [kind |-> k, req |-> Head(commands)[2], result |-> res, units |-> {}]
  <2>2. ReplyArrives(m) /\ m.kind \in Kinds /\ m.units = {}
    BY <2>1 DEF Sent
  <2> HIDE DEF m
  <2>3. /\ Sound(pending, raw, processed, ghost, backlog)' /\ Undecided' /\ Right(ended)'
        /\ pending'.kind = "consumer" =>
              /\ pending.kind = "consumer" /\ pending'.req = pending.req
              /\ ghost'.covers = ghost.covers
    <3>1. m.units \subseteq Units /\ IsFiniteSet(m.units) /\ m.units \subseteq ghost.covers
      BY <2>2, FS_EmptySet
    <3> QED BY <1>1, <2>2, <3>1, ReplyKeeps
  <2> QED BY <1>1, <1>2, <2>3 DEF IInv, Snapshot
<1> QED BY <1>3, <1>4

LEMMA SnapshotStartsKeeps ==
    ASSUME IInv, SnapshotStarts
    PROVE  IInv'
<1>1. PICK s \in SUBSET Units :
         snap' = [req |-> Head(commands)[2], todo |-> s, done |-> {}, failed |-> FALSE]
  BY DEF SnapshotStarts
<1>2. /\ commands # <<>> /\ commands' = Tail(commands) /\ ended' = NoResult
      /\ UNCHANGED <<inst, known, pending, raw, processed, ghost, ticked, backlog>>
  BY DEF SnapshotStarts, Nothing, tracker
<1>3. Around'
  <2>1. Head(commands)[2] \in Requests /\ Requests \subseteq 0..MaxReq
    BY <1>2, Command, BoundAssumption DEF IInv, Requests
  <2> QED BY <1>1, <1>2, <2>1, Command DEF IInv, Around
<1>4. Sound(pending, raw, processed, ghost, backlog)' /\ Undecided' /\ Right(ended)'
  BY <1>2, NothingKeeps DEF IInv
<1>5. Snapshot'
  BY <1>1, FS_EmptySet DEF Snapshot
<1> QED BY <1>3, <1>4, <1>5 DEF IInv

\* A unit of the snapshot is confirmed; perhaps it arrives.
LEMMA SnapshotPublishesKeeps ==
    ASSUME IInv, SnapshotPublishes
    PROVE  IInv'
<1> DEFINE own == pending.kind = "consumer" /\ snap.req = pending.req
           G(u) == IF own THEN [ghost EXCEPT !.covers = @ \union {u}] ELSE ghost
           sent(u) == snap' = [snap EXCEPT !.todo = @ \ {u}, !.done = @ \union {u}]
<1>1. PICK u \in snap.todo :
         \/ sent(u) /\ UnitArrives(u, G(u))
         \/ /\ sent(u) /\ Note([G(u) EXCEPT !.lost = TRUE])
            /\ ended' = NoResult /\ UNCHANGED <<tracker, backlog>>
         \/ /\ snap' = [snap EXCEPT !.todo = @ \ {u}, !.failed = TRUE]
            /\ Nothing /\ UNCHANGED backlog
  BY DEF SnapshotPublishes
<1>2. UNCHANGED <<inst, commands, known, ticked>>
  BY DEF SnapshotPublishes
<1>3. /\ Around /\ Sound(pending, raw, processed, ghost, backlog) /\ Undecided /\ Snapshot
      /\ snap \in [req : 0..MaxReq, todo : SUBSET Units, done : SUBSET Units, failed : BOOLEAN]
      /\ u \in Units
      /\ ghost \in [covers : SUBSET Units, got : SUBSET Units, heard : SUBSET Procs,
                    trouble : BOOLEAN, lost : BOOLEAN]
  BY DEF IInv, Around, Sound, Typed
<1>4. /\ snap' \in [req : 0..MaxReq, todo : SUBSET Units, done : SUBSET Units, failed : BOOLEAN]
      /\ snap'.req = snap.req
      /\ snap'.done = snap.done \/ (sent(u) /\ snap'.done = snap.done \union {u})
  <2>1. \/ sent(u)
        \/ snap' = [snap EXCEPT !.todo = @ \ {u}, !.failed = TRUE]
    BY <1>1
  <2>2. CASE sent(u)
    BY <1>3, <2>2
  <2>3. CASE snap' = [snap EXCEPT !.todo = @ \ {u}, !.failed = TRUE]
    BY <1>3, <2>3
  <2> QED BY <2>1, <2>2, <2>3
<1>5. IsFiniteSet(snap'.done)
  BY <1>3, <1>4, FS_AddElement DEF Snapshot
<1>6. CASE sent(u) /\ UnitArrives(u, G(u))
  <2>1. \/ G(u) = ghost
        \/ pending.kind = "consumer" /\ G(u) = [ghost EXCEPT !.covers = @ \union {u}]
    OBVIOUS
  <2>2. own => G(u).covers = ghost.covers \union {u}
    BY <1>3
  <2> HIDE DEF G
  <2>3. /\ Sound(pending, raw, processed, ghost, backlog)' /\ Undecided' /\ Right(ended)'
        /\ pending'.kind = "consumer" => pending' = pending /\ ghost' = G(u)
        /\ backlog' \subseteq Keys \X BOOLEAN
    BY <1>2, <1>3, <1>6, <2>1, UnitKeeps
  <2>4. Snapshot'
    BY <1>3, <1>4, <1>5, <2>2, <2>3 DEF Snapshot
  <2> QED BY <1>2, <1>3, <1>4, <2>3, <2>4 DEF IInv, Around
<1>7. CASE /\ sent(u) /\ Note([G(u) EXCEPT !.lost = TRUE])
           /\ ended' = NoResult /\ UNCHANGED <<tracker, backlog>>
  <2>1. UNCHANGED <<pending, raw, processed, backlog>> /\ ended' = NoResult
    BY <1>7 DEF tracker
  <2>2. /\ ghost' \in [covers : SUBSET Units, got : SUBSET Units, heard : SUBSET Procs,
                       trouble : BOOLEAN, lost : BOOLEAN]
        /\ ghost'.heard = ghost.heard /\ ghost'.trouble = ghost.trouble
        /\ ghost.covers \subseteq ghost'.covers /\ (own => u \in ghost'.covers)
        /\ pending.kind = "consumer" => ghost'.lost = TRUE
        /\ pending.kind # "consumer" => ghost' = ghost
    BY <1>3, <1>7 DEF Note
  <2> HIDE DEF G
  <2>3. Typed(pending, raw, processed, ghost)' /\ Room(pending, raw, processed, backlog)'
    BY <1>2, <1>3, <2>1, <2>2 DEF Sound, Typed, Room
  <2>4. Source(pending, ghost)' /\ Prompt(pending, raw, processed, ghost, backlog)'
    BY <1>2, <1>3, <2>1, <2>2 DEF Sound, Source, Prompt
  <2>5. Covered(pending, raw, processed, ghost, backlog)'
    BY <1>3, <2>1, <2>2 DEF Sound, Covered
  <2>6. Undecided' /\ Right(ended)'
    BY <1>3, <2>1 DEF Undecided, Right, NoResult
  <2>7. Snapshot'
    BY <1>3, <1>4, <1>5, <2>1, <2>2 DEF Snapshot
  <2> QED
    BY <1>2, <1>3, <1>4, <2>1, <2>3, <2>4, <2>5, <2>6, <2>7 DEF IInv, Around, Sound
<1>8. CASE /\ snap' = [snap EXCEPT !.todo = @ \ {u}, !.failed = TRUE]
           /\ Nothing /\ UNCHANGED backlog
  <2>1. ended' = NoResult /\ UNCHANGED <<pending, raw, processed, ghost, backlog>>
        /\ snap'.done = snap.done
    BY <1>3, <1>8 DEF Nothing, tracker
  <2>2. Sound(pending, raw, processed, ghost, backlog)' /\ Undecided' /\ Right(ended)'
    BY <1>2, <1>3, <2>1, NothingKeeps
  <2>3. Snapshot'
    BY <1>3, <1>4, <1>5, <2>1 DEF Snapshot
  <2> QED BY <1>2, <1>3, <1>4, <2>1, <2>2, <2>3 DEF IInv, Around
<1> QED BY <1>1, <1>6, <1>7, <1>8

LEMMA SnapshotAnsweredKeeps ==
    ASSUME IInv, SnapshotAnswered
    PROVE  IInv'
<1>1. /\ snap' = NoSnap /\ UNCHANGED <<inst, commands, known, ticked, backlog>>
      /\ Around /\ Sound(pending, raw, processed, ghost, backlog) /\ Undecided /\ Snapshot
  BY DEF SnapshotAnswered, IInv
<1>2. Around'
  BY <1>1, BoundAssumption DEF Around, NoSnap
<1>3. Snapshot'
  BY <1>1, FS_EmptySet DEF Snapshot, NoSnap
<1>4. Sound(pending, raw, processed, ghost, backlog)' /\ Undecided' /\ Right(ended)'
  <2>1. CASE Nothing
    BY <1>1, <2>1, NothingKeeps DEF Nothing, tracker
  <2>2. CASE ~Nothing
    <3> DEFINE m == [kind |-> "consumer", req |-> snap.req,
                     result |-> IF snap.failed THEN "failed" ELSE "ok", units |-> snap.done]
    <3>1. ReplyArrives(m)
      BY <2>2 DEF SnapshotAnswered, Sent
    <3>2. m.kind \in Kinds /\ m.units = snap.done /\ m.req = snap.req
      BY DEF Kinds
    <3> HIDE DEF m
    <3>3. /\ m.units \subseteq Units /\ IsFiniteSet(m.units)
          /\ pending.kind = "consumer" /\ m.req = pending.req => m.units \subseteq ghost.covers
      BY <1>1, <3>2 DEF Around, Snapshot
    <3> QED BY <1>1, <3>1, <3>2, <3>3, ReplyKeeps DEF IInv
  <2> QED BY <2>1, <2>2
<1> QED BY <1>2, <1>3, <1>4 DEF IInv

LEMMA BridgeLostKeeps ==
    ASSUME IInv, BridgeLost
    PROVE  IInv'
<1>1. /\ inst' \in {inst, inst + 1} \intersect Procs /\ commands' = <<>> /\ snap' = NoSnap
      /\ ended' = NoResult
      /\ UNCHANGED <<known, pending, raw, processed, ghost, ticked, backlog>>
      /\ Around /\ Sound(pending, raw, processed, ghost, backlog) /\ Undecided
  BY DEF BridgeLost, Nothing, tracker, IInv
<1>2. inst \in Nat /\ inst' \in Nat /\ inst <= inst'
  BY <1>1, BoundAssumption DEF Around, Procs
<1>3. Around'
  <2>1. <<>> \in Seq(Kinds \X Requests)
    OBVIOUS
  <2>2. known \in 0..inst'
    BY <1>1, <1>2 DEF Around
  <2>3. NoSnap \in [req : 0..MaxReq, todo : SUBSET Units, done : SUBSET Units,
                    failed : BOOLEAN]
    BY BoundAssumption DEF NoSnap
  <2> QED BY <1>1, <2>1, <2>2, <2>3 DEF Around
<1>4. Typed(pending, raw, processed, ghost)'
  <2>1. 0..inst \subseteq 0..inst'
    BY <1>2
  <2>2. pending \in [kind : Kinds, req : Requests, inst : 0..inst, left : -1..Deadline,
                     by : 0..inst, units : SUBSET Units]
        => pending \in [kind : Kinds, req : Requests, inst : 0..inst', left : -1..Deadline,
                        by : 0..inst', units : SUBSET Units]
    BY <2>1
  <2> QED BY <1>1, <2>2 DEF Sound, Typed
<1>5. Room(pending, raw, processed, backlog)' /\ Source(pending, ghost)'
      /\ Covered(pending, raw, processed, ghost, backlog)'
      /\ Prompt(pending, raw, processed, ghost, backlog)'
  BY <1>1 DEF Sound, Room, Source, Covered, Prompt
<1>6. Undecided' /\ Right(ended)' /\ Snapshot'
  BY <1>1, FS_EmptySet DEF Undecided, Right, NoResult, Snapshot, NoSnap
<1> QED BY <1>3, <1>4, <1>5, <1>6 DEF IInv, Sound

\* What the consumer handles is evidence; what it does not is its trouble.
LEMMA ConsumerKeeps ==
    ASSUME IInv, Handles \/ Ignores
    PROVE  IInv'
<1>1. /\ UNCHANGED <<inst, commands, snap, known, ticked>>
      /\ Around /\ Sound(pending, raw, processed, ghost, backlog) /\ Undecided /\ Snapshot
      /\ ghost \in [covers : SUBSET Units, got : SUBSET Units, heard : SUBSET Procs,
                    trouble : BOOLEAN, lost : BOOLEAN]
      /\ pending.left \in Int
  BY Fields DEF Handles, Ignores, bridge, IInv, Sound, Typed
<1>2. /\ IsFiniteSet(raw) /\ IsFiniteSet(processed) /\ IsFiniteSet(backlog)
      /\ IsFiniteSet(Waiting(backlog)) /\ IsFiniteSet(pending.units)
      /\ Cardinality(backlog) \in Nat /\ Cardinality(backlog) <= MaxBacklog
      /\ Cardinality(raw) <= MaxRaw
      /\ Cardinality((processed \union Waiting(backlog)) \ raw) <= MaxBacklog
  BY <1>1, WaitingSize, FS_CardinalityType DEF Sound, Room
<1>3. ASSUME NEW b \in backlog, backlog' = backlog \ {b},
             NEW d, d \in {processed, processed \union {b[1]}}
      PROVE  /\ Room(pending, raw, d, backlog') /\ backlog' \subseteq Keys \X BOOLEAN
             /\ b \in Keys \X BOOLEAN /\ b = <<b[1], b[2]>>
             /\ \A k \in Waiting(backlog) : k = b[1] \/ k \in Waiting(backlog')
  <2>1. b \in Keys \X BOOLEAN
    BY <1>1 DEF Around
  <2>2. b = <<b[1], b[2]>> /\ backlog' \subseteq Keys \X BOOLEAN
    BY <1>1, <1>3, <2>1 DEF Around
  <2>3. \A k \in Waiting(backlog) : k = b[1] \/ k \in Waiting(backlog')
    BY <1>3 DEF Waiting
  <2>4. IsFiniteSet(d)
    <3>1. IsFiniteSet(processed \union {b[1]})
      BY <1>2, FS_AddElement
    <3> QED BY <1>2, <1>3, <3>1
  <2>5. IsFiniteSet(backlog') /\ Cardinality(backlog') <= MaxBacklog
    <3>1. IsFiniteSet(backlog') /\ Cardinality(backlog') <= Cardinality(backlog)
      BY <1>2, <1>3, FS_Subset
    <3> QED BY <1>2, <3>1, FS_CardinalityType, BoundAssumption
  <2>6. Cardinality((d \union Waiting(backlog')) \ raw) <= MaxBacklog
    <3> DEFINE old == (processed \union Waiting(backlog)) \ raw
               new == (d \union Waiting(backlog')) \ raw
    <3>1. new \subseteq old
      BY <1>3 DEF Waiting
    <3>2. IsFiniteSet(old)
      BY <1>2, FS_Union, FS_Difference
    <3>3. IsFiniteSet(new) /\ Cardinality(new) <= Cardinality(old)
      BY <3>1, <3>2, FS_Subset
    <3> QED BY <1>2, <3>2, <3>3, FS_CardinalityType, BoundAssumption
  <2> QED BY <1>2, <2>1, <2>2, <2>3, <2>4, <2>5, <2>6 DEF Room
<1>4. CASE Handles
  <2> DEFINE G(b) == IF pending.kind = "consumer" /\ b[2]
                     THEN [ghost EXCEPT !.got = @ \union {b[1][1]}] ELSE ghost
             D(b) == IF Collecting THEN processed \union {b[1]} ELSE processed
  <2>1. PICK b \in backlog : backlog' = backlog \ {b} /\ Judge(pending, raw, D(b), G(b))
    BY <1>4 DEF Handles
  <2>2. /\ Room(pending, raw, D(b), backlog') /\ backlog' \subseteq Keys \X BOOLEAN
        /\ b \in Keys \X BOOLEAN /\ b = <<b[1], b[2]>>
        /\ \A k \in Waiting(backlog) : k = b[1] \/ k \in Waiting(backlog')
    BY <1>3, <2>1
  <2>3. b[1] \in Keys /\ b[1][1] \in Units /\ b[2] \in BOOLEAN
    BY <2>2 DEF Keys
  <2>4. /\ G(b) \in [covers : SUBSET Units, got : SUBSET Units, heard : SUBSET Procs,
                     trouble : BOOLEAN, lost : BOOLEAN]
        /\ G(b).covers = ghost.covers /\ G(b).heard = ghost.heard
        /\ G(b).trouble = ghost.trouble /\ G(b).lost = ghost.lost
        /\ ghost.got \subseteq G(b).got
        /\ pending.kind = "consumer" /\ b[2] => b[1][1] \in G(b).got
        /\ pending.kind # "consumer" => G(b) = ghost
    BY <1>1, <2>3
  <2>5. /\ D(b) \subseteq Keys /\ processed \subseteq D(b)
        /\ D(b) \subseteq processed \union {b[1]}
        /\ pending.kind # "consumer" => D(b) = processed
        /\ pending.kind = "consumer" /\ pending.left >= 0 => b[1] \in D(b)
    BY <1>1, <2>3 DEF Collecting, Sound, Typed
  <2> HIDE DEF G, D
  <2>6. Sound(pending, raw, D(b), G(b), backlog')
    <3>1. Typed(pending, raw, D(b), G(b))
      BY <1>1, <2>4, <2>5 DEF Sound, Typed
    <3>2. Source(pending, G(b))
      BY <1>1, <2>4 DEF Sound, Source
    <3>3. Covered(pending, raw, D(b), G(b), backlog')
      <4> SUFFICES ASSUME pending.kind = "consumer", pending.left >= 0, NEW u \in ghost.covers
                   PROVE  \/ u \in G(b).got \/ G(b).lost
                          \/ \E k \in raw \ D(b) : k[1] = u /\ <<k, FALSE>> \notin backlog'
        BY <1>1, <2>4 DEF Sound, Covered
      <4>1. \/ u \in ghost.got \/ ghost.lost
            \/ \E k \in raw \ processed : k[1] = u /\ <<k, FALSE>> \notin backlog
        BY <1>1 DEF Sound, Covered
      <4>2. ASSUME NEW k \in raw \ processed, k[1] = u, <<k, FALSE>> \notin backlog
            PROVE  \/ u \in G(b).got
                   \/ \E j \in raw \ D(b) : j[1] = u /\ <<j, FALSE>> \notin backlog'
        <5>1. CASE k = b[1]
          <6>1. b[2] # FALSE
            BY <2>2, <4>2, <5>1
          <6> QED BY <2>3, <2>4, <4>2, <5>1, <6>1
        <5>2. CASE k # b[1]
          BY <2>1, <2>5, <4>2, <5>2
        <5> QED BY <5>1, <5>2
      <4> QED BY <2>4, <4>1, <4>2
    <3>4. Prompt(pending, raw, D(b), G(b), backlog')
      BY <1>1, <2>2, <2>4, <2>5 DEF Sound, Prompt
    <3> QED BY <2>2, <3>1, <3>2, <3>3, <3>4 DEF Sound
  <2>7. /\ Sound(pending, raw, processed, ghost, backlog)' /\ Undecided' /\ Right(ended)'
        /\ pending'.kind = "consumer" => pending' = pending /\ ghost' = G(b)
    BY <1>1, <2>1, <2>6, JudgeKeeps
  <2> QED BY <1>1, <2>2, <2>4, <2>7 DEF IInv, Around, Snapshot
<1>5. CASE Ignores
  <2>1. PICK b \in backlog : backlog' = backlog \ {b}
    BY <1>5 DEF Ignores
  <2>2. /\ Room(pending, raw, processed, backlog') /\ backlog' \subseteq Keys \X BOOLEAN
    BY <1>3, <2>1
  <2>3. /\ UNCHANGED <<pending, raw, processed>> /\ ended' = NoResult
        /\ Note([ghost EXCEPT !.trouble = TRUE])
    BY <1>5 DEF Ignores, tracker
  <2>4. /\ ghost' \in [covers : SUBSET Units, got : SUBSET Units, heard : SUBSET Procs,
                       trouble : BOOLEAN, lost : BOOLEAN]
        /\ ghost'.covers = ghost.covers /\ ghost'.got = ghost.got
        /\ ghost'.heard = ghost.heard /\ ghost'.lost = ghost.lost
        /\ pending.kind = "consumer" => ghost'.trouble = TRUE
        /\ pending.kind # "consumer" => ghost' = ghost
    BY <1>1, <2>3 DEF Note
  <2>5. Typed(pending, raw, processed, ghost)' /\ Room(pending, raw, processed, backlog)'
    BY <1>1, <2>2, <2>3, <2>4 DEF Sound, Typed, Room
  <2>6. Source(pending, ghost)' /\ Covered(pending, raw, processed, ghost, backlog)'
        /\ Prompt(pending, raw, processed, ghost, backlog)'
    BY <1>1, <2>1, <2>3, <2>4 DEF Sound, Source, Covered, Prompt
  <2>7. Undecided' /\ Right(ended)' /\ Snapshot'
    BY <1>1, <2>3, <2>4 DEF Undecided, Right, NoResult, Snapshot
  <2> QED BY <1>1, <2>2, <2>5, <2>6, <2>7 DEF IInv, Around, Sound
<1> QED BY <1>4, <1>5

LEMMA InitIInv == Init => IInv
<1> SUFFICES ASSUME Init PROVE IInv
  OBVIOUS
<1>1. Around
  <2>1. <<>> \in Seq(Kinds \X Requests) /\ 0 \in 0..MaxReq
    BY BoundAssumption
  <2>2. inst \in Procs /\ known \in 0..inst
    BY BoundAssumption DEF Init, Procs
  <2>3. snap \in [req : 0..MaxReq, todo : SUBSET Units, done : SUBSET Units, failed : BOOLEAN]
    BY <2>1 DEF Init, NoSnap
  <2> QED BY <2>1, <2>2, <2>3 DEF Init, Around
<1>2. Sound(pending, raw, processed, ghost, backlog)
  BY Cleared, FS_EmptySet, BoundAssumption, DeadlineAssumption DEF Init
<1>3. Undecided /\ Snapshot /\ Right(ended)
  BY FS_EmptySet DEF Init, Undecided, Check, Snapshot, NoSnap, NoProbe, Right,
     NoResult
<1> QED BY <1>1, <1>2, <1>3 DEF IInv

LEMMA StepKeeps == IInv /\ [Next]_vars => IInv'
<1> SUFFICES ASSUME IInv, [Next]_vars PROVE IInv'
  OBVIOUS
<1>1. CASE BridgeStatus
  BY <1>1, StatusKeeps
<1>2. CASE Ambient
  BY <1>2, AmbientKeeps
<1>3. CASE AnswerStatus \/ RateLimited
  BY <1>3, AnswerKeeps
<1>4. CASE SnapshotStarts
  BY <1>4, SnapshotStartsKeeps
<1>5. CASE SnapshotPublishes
  BY <1>5, SnapshotPublishesKeeps
<1>6. CASE SnapshotAnswered
  BY <1>6, SnapshotAnsweredKeeps
<1>7. CASE BridgeLost
  BY <1>7, BridgeLostKeeps
<1>8. CASE Handles \/ Ignores
  BY <1>8, ConsumerKeeps
<1>9. CASE Tick
  BY <1>9, TickKeeps
<1>10. CASE RequestProbe
  BY <1>10, RequestProbeKeeps
<1>11. CASE TimePasses
  BY <1>11, TimePassesKeeps
<1>12. CASE UNCHANGED vars
  <2>1. UNCHANGED <<inst, commands, snap, known, pending, raw, processed, ticked, backlog,
                    ghost, ended>>
    BY <1>12 DEF vars, bridge, tracker
  <2>2. Around' /\ Snapshot' /\ Undecided' /\ Right(ended)'
    BY <2>1 DEF IInv, Around, Snapshot, Undecided, Right
  <2>3. Sound(pending, raw, processed, ghost, backlog)'
    BY <2>1 DEF IInv, Sound, Typed, Room, Source, Covered, Prompt
  <2> QED BY <2>2, <2>3 DEF IInv
<1> QED
  BY <1>1, <1>2, <1>3, <1>4, <1>5, <1>6, <1>7, <1>8, <1>9, <1>10, <1>11, <1>12 DEF
     Next

LEMMA Invariance == Spec => []IInv
BY InitIInv, StepKeeps, PTL DEF Spec

----------------------------------------------------------------------------
(* Theorems                                                                *)

\* A probe, its evidence and the messages of both sides are what the code says
\* they are; evidence is only kept for a consumer probe (_collecting).
THEOREM Typing == Spec => []TypeOK
<1>1. IInv => TypeOK
  <2> SUFFICES ASSUME IInv PROVE TypeOK
    OBVIOUS
  <2>1. Around /\ Typed(pending, raw, processed, ghost) /\ Right(ended)
    BY DEF IInv, Sound
  <2> QED BY <2>1 DEF Around, Typed, Right, TypeOK
<1> QED BY <1>1, Invariance, PTL

\* An outcome "ok" says that the consumer has handled a message, as new as the
\* snapshot's, of every unit that the bridge says it published for the request.
THEOREM OkCertifies == Spec => []CertifiesSnapshot
<1>1. IInv => CertifiesSnapshot
  BY DEF IInv, Right, CertifiesSnapshot
<1> QED BY <1>1, Invariance, PTL

\* The outcomes that start a recovery of the consumer are never about one that
\* handled every message it received before the next tick.
THEOREM NeverBlamed == Spec => []NoFalseAlarm
<1>1. IInv => NoFalseAlarm
  BY DEF IInv, Right, NoFalseAlarm
<1> QED BY <1>1, Invariance, PTL

\* During a probe with such an outcome only one process of the bridge was heard
\* of: its status is the one the probe was started for.
THEOREM SameProcess == Spec => []OneProcess
<1>1. IInv => OneProcess
  BY DEF IInv, Right, OneProcess
<1> QED BY <1>1, Invariance, PTL
=============================================================================
