----------------------- MODULE ConsumerRecoveryProofs -----------------------
(***************************************************************************)
(* Proofs about ConsumerRecovery.                                          *)
(*                                                                         *)
(* IInv holds for any settings: what is in the queue of the Store says     *)
(* what the task waits for, what the issue will be and what the file will  *)
(* hold.  BInv adds, for a wall clock that is never put forward, that a    *)
(* reload stays remembered for a window: in memory, in every save under    *)
(* way and in the file.                                                    *)
(***************************************************************************)
EXTENDS ConsumerRecovery, FiniteSetTheorems, TLAPS

----------------------------------------------------------------------------
(* The inductive invariants                                                *)

Waits == {"charging", "closing"}

\* What _async_recover waits for while a save of its own is under way.
StepOf(kind) == IF kind = "charge" THEN "charging" ELSE "closing"

Indices == 1..Len(queue)
Files   == {disk} \cup writing \cup data

\* Every copy of the budget is within it.
Small ==
    \A d \in Files :
        IsFiniteSet(d.reloads) /\ Cardinality(d.reloads) <= MaxReloads

\* The recovery has at most one save under way, and waits for it.
Lock ==
    /\ \A i \in Indices : queue[i] \in OfRecovery => task = StepOf(queue[i])
    /\ \A i, j \in Indices : queue[i] \in OfRecovery /\ queue[j] \in OfRecovery => i = j
    /\ task \in Waits => \E i \in Indices : queue[i] \in OfRecovery
    /\ entry = "removed" => task = "off"

\* Room is left for it.
Room ==
    entry # "removed" =>
        /\ (\A i \in Indices : queue[i] \notin OfRecovery) => Len(queue) <= MaxQueue
        /\ \A i \in Indices : queue[i] # "cancelled"

\* What waits to be written has somebody to write it.
Waiting ==
    /\ queue = <<>> => writing = {}
    /\ Len(queue) <= 1 => data = {}

\* What the file will hold in the end is what the manager holds now.
Latest == IF data # {} THEN data ELSE IF writing # {} THEN writing ELSE {disk}
Agrees == entry # "removed" => Latest = {[reloads |-> reloads, failed |-> failed]}

\* The first n saves of q leave an issue there is (i) or is not as b says.
Deciding(kind) == Latches(kind) \/ Relieves(kind)
WillBe(q, i, n, b) ==
    /\ (\A j \in 1..n : ~Deciding(q[j])) => i = b
    /\ \A j \in 1..n :
          Deciding(q[j]) /\ (\A k \in (j + 1)..n : ~Deciding(q[k])) => Latches(q[j]) = b

IssueFollows == entry # "removed" => WillBe(queue, issue, Len(queue), failed)

\* A reload that is about to start is unlatched, with no issue left by then,
\* and the save before it is that of its charge.
ChargeSafe ==
    task = "charging" =>
        /\ ~failed
        /\ \A i \in Indices : queue[i] = "charge" => WillBe(queue, issue, i - 1, failed)
        /\ \E r \in reloads : r.n = charges
        /\ queue[1] = "charge" =>
              \A d \in (IF writing = {} THEN {disk} ELSE writing) : d.reloads = reloads

\* The first proof of a streak is among those that count.
Streak == lastStale # Never => lastStale \in proofs

IInv ==
    /\ TypeOK /\ Small /\ Lock /\ Room /\ Waiting /\ Agrees /\ IssueFollows
    /\ ChargeSafe /\ Streak

\* A reload is remembered by S for a window.
Remembers(S) ==
    \A c \in reloaded : now - c.t < Window
        => \E r \in S : r.n = c.n /\ c.t + offset <= r.wall

Remembered ==
    entry # "removed" => Remembers(reloads) /\ \A d \in Files : Remembers(d.reloads)

\* Reloads have numbers of their own, and the one about to start has none yet.
Numbered ==
    /\ \A c \in reloaded : c.t <= now /\ c.n <= charges
    /\ \A c, d \in reloaded : c.n = d.n => c = d
    /\ task = "charging" => \A c \in reloaded : c.n < charges

Fresh ==
    task = "charging" =>
        /\ \E r \in reloads : r.n = charges /\ Wall <= r.wall
        /\ Cooldown <= Window => \A c \in reloaded : now - c.t >= Cooldown

BInv ==
    /\ Remembered /\ Numbered /\ Fresh /\ ReloadBudget
    /\ Cooldown <= Window => CooldownHolds

----------------------------------------------------------------------------
(* Sequences of saves                                                      *)

LEMMA WillBeAppend ==
    ASSUME NEW q \in Seq(Saves), NEW k \in Saves, NEW i \in BOOLEAN,
           NEW b \in BOOLEAN, WillBe(q, i, Len(q), b)
    PROVE  WillBe(Append(q, k), i, Len(q) + 1, Latches(k) \/ (b /\ ~Relieves(k)))
<1> DEFINE p == Append(q, k)
<1> DEFINE c == Latches(k) \/ (b /\ ~Relieves(k))
<1>1. /\ Len(q) \in Nat /\ p[Len(q) + 1] = k
      /\ \A j \in 1..Len(q) : p[j] = q[j]
  OBVIOUS
<1>2. ASSUME \A j \in 1..(Len(q) + 1) : ~Deciding(p[j]) PROVE i = c
  <2>1. ~Deciding(k)
    BY <1>1, <1>2
  <2>2. \A j \in 1..Len(q) : ~Deciding(q[j])
    BY <1>1, <1>2
  <2>3. i = b
    BY <2>2 DEF WillBe
  <2> QED
    BY <2>1, <2>3 DEF Deciding
<1>3. ASSUME NEW j \in 1..(Len(q) + 1), Deciding(p[j]),
             \A m \in (j + 1)..(Len(q) + 1) : ~Deciding(p[m])
      PROVE  Latches(p[j]) = c
  <2>1. CASE j = Len(q) + 1
    BY <1>1, <1>3, <2>1 DEF Deciding, Latches, Relieves
  <2>2. CASE j # Len(q) + 1
    <3>1. j \in 1..Len(q) /\ Len(q) + 1 \in (j + 1)..(Len(q) + 1)
      BY <1>1, <2>2
    <3>2. ~Deciding(k)
      BY <1>1, <1>3, <3>1
    <3>3. \A m \in (j + 1)..Len(q) : m \in (j + 1)..(Len(q) + 1) /\ m \in 1..Len(q)
      BY <1>1, <3>1
    <3>4. \A m \in (j + 1)..Len(q) : ~Deciding(q[m])
      BY <1>1, <1>3, <3>3
    <3>5. Deciding(q[j]) /\ p[j] = q[j]
      BY <1>1, <1>3, <3>1
    <3>6. Latches(q[j]) = b
      BY <3>1, <3>4, <3>5 DEF WillBe
    <3> QED
      BY <3>2, <3>5, <3>6 DEF Deciding
  <2> QED
    BY <2>1, <2>2
<1> QED
  BY <1>2, <1>3 DEF WillBe

LEMMA WillBePrefix ==
    ASSUME NEW q \in Seq(Saves), NEW k \in Saves, NEW i \in BOOLEAN, NEW b \in BOOLEAN,
           NEW n \in 0..Len(q), WillBe(q, i, n, b)
    PROVE  WillBe(Append(q, k), i, n, b)
<1>1. \A j \in 1..n : Append(q, k)[j] = q[j]
  OBVIOUS
<1>2. \A j \in 1..n : \A m \in (j + 1)..n : m \in 1..n
  OBVIOUS
<1> QED
  BY <1>1, <1>2 DEF WillBe

LEMMA WillBeTail ==
    ASSUME NEW q \in Seq(Saves), q # <<>>, NEW i \in BOOLEAN, NEW b \in BOOLEAN,
           NEW n \in 1..Len(q), WillBe(q, i, n, b)
    PROVE  WillBe(Tail(q), (i \/ Latches(Head(q))) /\ ~Relieves(Head(q)), n - 1, b)
<1> DEFINE c == (i \/ Latches(Head(q))) /\ ~Relieves(Head(q))
<1>1. /\ Len(q) \in Nat /\ Head(q) = q[1]
      /\ \A j \in 1..(n - 1) : Tail(q)[j] = q[j + 1]
  OBVIOUS
<1>2. ASSUME \A j \in 1..(n - 1) : ~Deciding(Tail(q)[j]) PROVE c = b
  <2>1. \A j \in 2..n : j - 1 \in 1..(n - 1) /\ q[j] = Tail(q)[j - 1]
    BY <1>1
  <2>2. \A j \in 2..n : ~Deciding(q[j])
    BY <1>2, <2>1
  <2>3. CASE Deciding(q[1])
    <3>1. Latches(q[1]) = b
      BY <2>2, <2>3 DEF WillBe
    <3> QED
      BY <1>1, <2>3, <3>1 DEF Deciding, Latches, Relieves
  <2>4. CASE ~Deciding(q[1])
    <3>1. \A j \in 1..n : j = 1 \/ j \in 2..n
      OBVIOUS
    <3>2. i = b
      BY <2>2, <2>4, <3>1 DEF WillBe
    <3> QED
      BY <1>1, <2>4, <3>2 DEF Deciding
  <2> QED
    BY <2>3, <2>4
<1>3. ASSUME NEW j \in 1..(n - 1), Deciding(Tail(q)[j]),
             \A m \in (j + 1)..(n - 1) : ~Deciding(Tail(q)[m])
      PROVE  Latches(Tail(q)[j]) = b
  <2>1. j + 1 \in 1..n /\ Tail(q)[j] = q[j + 1]
    BY <1>1
  <2>2. \A m \in (j + 2)..n : m - 1 \in (j + 1)..(n - 1) /\ m - 1 \in 1..(n - 1)
                              /\ q[m] = Tail(q)[m - 1]
    BY <1>1
  <2>3. \A m \in ((j + 1) + 1)..n : ~Deciding(q[m])
    BY <1>3, <2>2
  <2>4. Latches(q[j + 1]) = b
    BY <1>3, <2>1, <2>3 DEF WillBe
  <2> QED
    BY <2>1, <2>4
<1> QED
  BY <1>2, <1>3 DEF WillBe

----------------------------------------------------------------------------
(* The steps by what they do to the store                                  *)

\* Neither the manager's memory nor the store is touched.
Quiet ==
    /\ UNCHANGED <<reloads, failed, store, issue, charges, reloaded>>
    /\ entry' = "removed" <=> entry = "removed"
    /\ task' = task \/ (task \notin Waits /\ task' \notin Waits /\ entry # "removed")

\* A save of that kind is begun, of what the manager then holds.
Saving(kind) ==
    /\ kind \in Saves \ {"cancelled"}
    /\ entry # "removed" /\ entry' # "removed"
    /\ Save(kind, reloads', failed')
    /\ UNCHANGED <<now, offset, issue, reloaded>>
    /\ failed' = (Latches(kind) \/ (failed /\ ~Relieves(kind)))
    /\ IF kind \in OfRecovery
         THEN task \notin Waits /\ task' = StepOf(kind)
         ELSE task' = task /\ CanSave
    /\ kind = "latch" => task = "off"
    /\ IF kind = "charge"
         THEN /\ ~failed /\ ~BudgetUsed /\ ~Cooling
              /\ charges' = charges + 1
              /\ reloads' = Recent \cup {Charged}
         ELSE UNCHANGED <<charges, reloads>>

LEMMA RequestSteps ==
    ASSUME TypeOK, entry = "loaded", RequestRecovery, UNCHANGED <<now, offset, issue>>
    PROVE  Quiet \/ \E kind \in Saves : Saving(kind)
<1> USE DEF TypeOK, Saves, OfRecovery, Latches, Relieves, StepOf, Waits
<1>1. CASE Refuse
  BY <1>1 DEF Refuse, Quiet, store
<1>2. CASE ~inProgress /\ ~failed /\ LatchAlone
  <2>1. Saving("latch")
    BY <1>2 DEF LatchAlone, Saving, Save
  <2> QED
    BY <2>1
<1>3. CASE ~inProgress /\ ~failed /\ ~BudgetUsed /\ ~Cooling /\ Charge
  BY <1>3 DEF Charge, Saving, Save
<1> QED
  BY <1>1, <1>2, <1>3 DEF RequestRecovery

LEMMA Steps ==
    ASSUME TypeOK, Lock, [Next]_vars
    PROVE  Quiet \/ (\E kind \in Saves : Saving(kind)) \/ Written \/ Restart \/ Remove
<1> USE DEF TypeOK
<1>1. CASE Tick
  BY <1>1 DEF Tick, Quiet, history
<1>2. CASE WallClockSteps
  BY <1>2 DEF WallClockSteps, Quiet, history
<1>3. CASE ProbeOk
  <2>1. CASE failed
    <3>1. Saving("heal")
      BY <1>3, <2>1 DEF ProbeOk, Saving, Saves, OfRecovery, Latches, Relieves
    <3> QED
      BY <3>1 DEF Saves, OfRecovery
  <2>2. CASE ~failed
    BY <1>3, <2>2 DEF ProbeOk, Quiet, store
  <2> QED
    BY <2>1, <2>2
<1>4. CASE ProbeSaysNothing
  BY <1>4 DEF ProbeSaysNothing, Quiet
<1>5. CASE ProbeStale
  <2>1. CASE Confirmed
    <3>1. entry = "loaded" /\ RequestRecovery /\ UNCHANGED <<now, offset, issue>>
      BY <1>5, <2>1 DEF ProbeStale
    <3> QED
      BY <3>1, RequestSteps
  <2>2. CASE ~Confirmed
    <3>1. Refuse /\ issue' = issue
      BY <1>5, <2>2 DEF ProbeStale
    <3> QED
      BY <3>1 DEF Refuse, Quiet, store
  <2> QED
    BY <2>1, <2>2
<1>6. CASE ReloadFails
  <2>1. Saving("giveup")
    BY <1>6 DEF ReloadFails, GiveUp, Saving, Save, Saves, OfRecovery, Latches, Relieves,
                Waits, StepOf, history, Lock
  <2> QED
    BY <2>1 DEF Saves, OfRecovery
<1>7. CASE ReloadDone
  BY <1>7 DEF ReloadDone, Quiet, Waits, history, Lock
<1>8. CASE VerifyOk
  <2>1. Saving("end")
    BY <1>8 DEF VerifyOk, Saving, Saves, OfRecovery, Latches, Relieves, Waits, StepOf, history
  <2> QED
    BY <2>1 DEF Saves, OfRecovery
<1>9. CASE VerifyFails
  <2>1. CASE BudgetUsed /\ GiveUp
    <3>1. Saving("giveup")
      BY <1>9, <2>1 DEF VerifyFails, GiveUp, Saving, Save, Saves, OfRecovery, Latches,
                        Relieves, Waits, StepOf, history, Lock
    <3> QED
      BY <3>1 DEF Saves, OfRecovery
  <2>2. CASE ~(BudgetUsed /\ GiveUp)
    <3>1. Saving("end")
      BY <1>9, <2>2 DEF VerifyFails, Saving, Save, Saves, OfRecovery, Latches,
                        Relieves, Waits, StepOf, history, Lock
    <3> QED
      BY <3>1 DEF Saves, OfRecovery
  <2> QED
    BY <2>1, <2>2
<1>10. CASE SetUpAgain
  BY <1>10 DEF SetUpAgain, Quiet, history
<1>11. CASE Acknowledge
  <2>1. Saving("ack")
    BY <1>11 DEF Acknowledge, Saving, Saves, OfRecovery, Latches, Relieves, history
  <2> QED
    BY <2>1 DEF Saves, OfRecovery
<1>12. CASE UNCHANGED vars
  BY <1>12 DEF vars, Quiet, history
<1> QED
  BY <1>1, <1>2, <1>3, <1>4, <1>5, <1>6, <1>7, <1>8, <1>9, <1>10, <1>11, <1>12 DEF Next

----------------------------------------------------------------------------
(* IInv is inductive                                                       *)

\* What a save does to the queue.
LEMMA SavingQueue ==
    ASSUME TypeOK, NEW kind \in Saves, Saving(kind)
    PROVE  /\ queue' = Append(queue, kind) /\ queue' \in Seq(Saves)
           /\ Len(queue') = Len(queue) + 1 /\ Len(queue) \in Nat
           /\ \A i \in 1..Len(queue) : queue'[i] = queue[i]
           /\ queue'[Len(queue) + 1] = kind
BY DEF TypeOK, Saving, Save

\* What the end of a save does to it.
LEMMA WrittenQueue ==
    ASSUME TypeOK, Written
    PROVE  /\ queue # <<>> /\ queue' = Tail(queue) /\ queue' \in Seq(Saves)
           /\ Len(queue) \in Nat \ {0} /\ Len(queue') = Len(queue) - 1
           /\ Head(queue) = queue[1] /\ queue[1] \in Saves
           /\ \A i \in 1..Len(queue') : queue'[i] = queue[i + 1]
BY DEF TypeOK, Written

LEMMA LockStep == ASSUME TypeOK, Lock, [Next]_vars PROVE Lock'
<1> USE DEF Lock, Indices
<1>1. CASE Quiet
  BY <1>1 DEF Quiet, store, Waits, StepOf, OfRecovery
<1>2. ASSUME NEW kind \in Saves, Saving(kind) PROVE Lock'
  <2>1. /\ Len(queue') = Len(queue) + 1 /\ Len(queue) \in Nat
        /\ \A i \in 1..Len(queue) : queue'[i] = queue[i]
        /\ queue'[Len(queue) + 1] = kind
    BY <1>2, SavingQueue
  <2>2. entry' # "removed"
    BY <1>2 DEF Saving
  <2>3. CASE kind \in OfRecovery
    <3>1. task \notin Waits /\ task' = StepOf(kind)
      BY <1>2, <2>3 DEF Saving
    <3>2. \A i \in 1..Len(queue) : queue[i] \notin OfRecovery
      BY <3>1 DEF Waits, StepOf
    <3>3. \A i \in 1..Len(queue') : queue'[i] \in OfRecovery => i = Len(queue) + 1
      BY <2>1, <3>2
    <3>4. Len(queue) + 1 \in 1..Len(queue')
      BY <2>1
    <3> QED
      BY <2>1, <2>2, <2>3, <3>1, <3>3, <3>4
  <2>4. CASE kind \notin OfRecovery
    <3>1. task' = task
      BY <1>2, <2>4 DEF Saving
    <3>2. \A i \in 1..Len(queue') : queue'[i] \in OfRecovery
              => i \in 1..Len(queue) /\ queue'[i] = queue[i]
      BY <2>1, <2>4
    <3>3. \A i \in 1..Len(queue) : i \in 1..Len(queue') /\ queue'[i] = queue[i]
      BY <2>1
    <3> QED
      BY <2>2, <3>1, <3>2, <3>3
  <2> QED
    BY <2>3, <2>4
<1>3. CASE Written
  <2>1. /\ Len(queue) \in Nat \ {0} /\ Len(queue') = Len(queue) - 1
        /\ Head(queue) = queue[1] /\ queue[1] \in Saves
        /\ \A i \in 1..Len(queue') : queue'[i] = queue[i + 1]
    BY <1>3, WrittenQueue
  <2>2. \A i \in 1..Len(queue') : i + 1 \in 1..Len(queue) /\ i + 1 # 1
    BY <2>1
  <2>3. 1 \in 1..Len(queue)
    BY <2>1
  <2>4. CASE queue[1] \in OfRecovery
    <3>1. \A i \in 1..Len(queue') : queue'[i] \notin OfRecovery
      BY <2>1, <2>2, <2>3, <2>4
    <3>2. task' \notin Waits /\ entry' # "removed"
      BY <1>3, <2>1, <2>3, <2>4 DEF Written, After, Reloads, Ends, OfRecovery, Waits, StepOf, TypeOK
    <3> QED
      BY <3>1, <3>2
  <2>5. CASE queue[1] \notin OfRecovery
    <3>1. task' = task /\ entry' = entry
      BY <1>3, <2>1, <2>5 DEF Written, After, Reloads, Ends, OfRecovery
    <3>2. \A i \in 1..Len(queue') : queue'[i] \in OfRecovery => task' = StepOf(queue'[i])
      BY <2>1, <2>2, <3>1
    <3>3. \A i, j \in 1..Len(queue') :
              queue'[i] \in OfRecovery /\ queue'[j] \in OfRecovery => i = j
      BY <2>1, <2>2
    <3>4. ASSUME task' \in Waits PROVE \E i \in 1..Len(queue') : queue'[i] \in OfRecovery
      <4>1. PICK i \in 1..Len(queue) : queue[i] \in OfRecovery
        BY <3>1, <3>4
      <4>2. i # 1
        BY <2>5, <4>1
      <4>3. i - 1 \in 1..Len(queue') /\ queue'[i - 1] = queue[i]
        BY <2>1, <4>2
      <4> QED
        BY <4>1, <4>3
    <3> QED
      BY <3>1, <3>2, <3>3, <3>4
  <2> QED
    BY <2>4, <2>5
<1>4. CASE Restart
  BY <1>4 DEF Restart, Waits, StepOf, OfRecovery
<1>5. CASE Remove
  <2>1. /\ Len(queue') = Len(queue) /\ task' = "off"
        /\ \A i \in 1..Len(queue') : queue'[i] \notin OfRecovery
    BY <1>5 DEF Remove, TypeOK, OfRecovery
  <2> QED
    BY <2>1 DEF Waits
<1> QED
  BY <1>1, <1>2, <1>3, <1>4, <1>5, Steps

LEMMA RoomStep == ASSUME TypeOK, Lock, Room, [Next]_vars PROVE Room'
<1> USE DEF Room, Indices
<1>1. CASE Quiet
  BY <1>1 DEF Quiet, store
<1>2. ASSUME NEW kind \in Saves, Saving(kind) PROVE Room'
  <2>1. /\ Len(queue') = Len(queue) + 1 /\ Len(queue) \in Nat
        /\ \A i \in 1..Len(queue) : queue'[i] = queue[i]
        /\ queue'[Len(queue) + 1] = kind
    BY <1>2, SavingQueue
  <2>2. entry # "removed" /\ kind # "cancelled"
    BY <1>2 DEF Saving
  <2>3. Len(queue) + 1 \in 1..Len(queue')
    BY <2>1
  <2>4. \A i \in 1..Len(queue') : queue'[i] # "cancelled"
    BY <2>1, <2>2
  <2>5. ASSUME kind \notin OfRecovery PROVE Len(queue') <= MaxQueue
    BY <1>2, <2>1, <2>5, ClockAssumption DEF Saving, CanSave
  <2> QED
    BY <2>1, <2>3, <2>4, <2>5
<1>3. CASE Written
  <2>1. /\ Len(queue) \in Nat \ {0} /\ Len(queue') = Len(queue) - 1
        /\ Head(queue) = queue[1]
        /\ \A i \in 1..Len(queue') : queue'[i] = queue[i + 1]
    BY <1>3, WrittenQueue
  <2>2. \A i \in 1..Len(queue') : i + 1 \in 1..Len(queue)
    BY <2>1
  <2>3. 1 \in 1..Len(queue)
    BY <2>1
  <2>4. ASSUME entry' # "removed" PROVE entry # "removed"
    <3>1. entry' = entry \/ queue[1] = "charge"
      BY <1>3, <2>1 DEF Written, After, Reloads
    <3>2. queue[1] = "charge" => task = "charging"
      BY <2>3 DEF Lock, Indices, OfRecovery, StepOf
    <3> QED
      BY <2>4, <3>1, <3>2 DEF Lock
  <2>5. ASSUME entry' # "removed", \A i \in 1..Len(queue') : queue'[i] \notin OfRecovery
        PROVE  Len(queue') <= MaxQueue
    <3>1. Len(queue) <= MaxQueue + 1
      BY DEF TypeOK
    <3> QED
      BY <2>1, <3>1, ClockAssumption
  <2>6. ASSUME entry' # "removed" PROVE \A i \in 1..Len(queue') : queue'[i] # "cancelled"
    BY <2>1, <2>2, <2>4, <2>6
  <2> QED
    BY <2>5, <2>6
<1>4. CASE Restart
  BY <1>4, ClockAssumption DEF Restart
<1>5. CASE Remove
  BY <1>5 DEF Remove
<1> QED
  BY <1>1, <1>2, <1>3, <1>4, <1>5, Steps

LEMMA WaitingStep == ASSUME TypeOK, Lock, Waiting, [Next]_vars PROVE Waiting'
<1> USE DEF Waiting
<1>1. CASE Quiet
  BY <1>1 DEF Quiet, store
<1>2. ASSUME NEW kind \in Saves, Saving(kind) PROVE Waiting'
  <2>1. Len(queue') = Len(queue) + 1 /\ Len(queue) \in Nat /\ queue' \in Seq(Saves)
    BY <1>2, SavingQueue
  <2>2. queue # <<>> => Len(queue) > 0
    BY DEF TypeOK
  <2>3. queue = <<>> => Len(queue) = 0
    OBVIOUS
  <2>4. queue' # <<>>
    BY <2>1
  <2> QED
    BY <1>2, <2>1, <2>2, <2>3, <2>4 DEF Saving, Save
<1>3. CASE Written
  <2>1. Len(queue) \in Nat \ {0} /\ Len(queue') = Len(queue) - 1 /\ queue' \in Seq(Saves)
    BY <1>3, WrittenQueue
  <2>2. queue' = <<>> => Len(queue') = 0
    OBVIOUS
  <2> QED
    BY <1>3, <2>1, <2>2 DEF Written
<1>4. CASE Restart
  BY <1>4 DEF Restart
<1>5. CASE Remove
  <2>1. Len(queue') = Len(queue) /\ UNCHANGED <<writing, data>>
    BY <1>5 DEF Remove, TypeOK
  <2>2. queue' = <<>> => queue = <<>>
    BY <2>1 DEF TypeOK
  <2> QED
    BY <2>1, <2>2
<1> QED
  BY <1>1, <1>2, <1>3, <1>4, <1>5, Steps

LEMMA AgreesStep ==
    ASSUME TypeOK, Lock, Room, Waiting, Agrees, [Next]_vars PROVE Agrees'
<1> USE DEF Agrees, Latest
<1>1. CASE Quiet
  BY <1>1 DEF Quiet, store
<1>2. ASSUME NEW kind \in Saves, Saving(kind) PROVE Agrees'
  <2>1. Len(queue) = 0 \/ queue # <<>>
    BY DEF TypeOK
  <2>2. CASE queue = <<>>
    <3>1. data = {} /\ data' = {} /\ writing' = {[reloads |-> reloads', failed |-> failed']}
      BY <1>2, <2>2 DEF Saving, Save, Waiting
    <3> QED
      BY <3>1
  <2>3. CASE queue # <<>>
    <3>1. data' = {[reloads |-> reloads', failed |-> failed']}
      BY <1>2, <2>3 DEF Saving, Save
    <3> QED
      BY <3>1
  <2> QED
    BY <2>2, <2>3
<1>3. CASE Written
  <2>1. /\ Len(queue) \in Nat \ {0} /\ Head(queue) = queue[1] /\ queue # <<>>
    BY <1>3, WrittenQueue
  <2>2. 1 \in 1..Len(queue)
    BY <2>1
  <2>3. SUFFICES ASSUME entry' # "removed" PROVE Latest' = {[reloads |-> reloads', failed |-> failed']}
    OBVIOUS
  <2>4. entry # "removed"
    <3>1. entry' = entry \/ queue[1] = "charge"
      BY <1>3, <2>1 DEF Written, After, Reloads
    <3>2. queue[1] = "charge" => task = "charging"
      BY <2>2 DEF Lock, Indices, OfRecovery, StepOf
    <3> QED
      BY <2>3, <3>1, <3>2 DEF Lock
  <2>5. Head(queue) # "cancelled"
    BY <2>1, <2>2, <2>4 DEF Room, Indices
  <2>6. UNCHANGED <<reloads, failed>> /\ writing' = data /\ data' = {}
    BY <1>3 DEF Written
  <2>7. disk' \in IF writing = {} THEN {disk} ELSE writing
    BY <1>3, <2>5 DEF Written
  <2>8. CASE data # {}
    BY <2>4, <2>6, <2>8
  <2>9. CASE data = {}
    BY <2>4, <2>6, <2>7, <2>9
  <2> QED
    BY <2>8, <2>9
<1>4. CASE Restart
  <2>1. PICK d \in {disk} \cup writing : disk' = d /\ Load(d)
    BY <1>4 DEF Restart
  <2>2. d \in Stored
    BY <2>1 DEF TypeOK
  <2>3. d = [reloads |-> d.reloads, failed |-> d.failed]
    BY <2>2 DEF Stored
  <2>4. disk' = [reloads |-> reloads', failed |-> failed']
    BY <2>1, <2>3 DEF Load
  <2> QED
    BY <1>4, <2>4 DEF Restart
<1>5. CASE Remove
  BY <1>5 DEF Remove
<1> QED
  BY <1>1, <1>2, <1>3, <1>4, <1>5, Steps

LEMMA IssueStep ==
    ASSUME TypeOK, Lock, Room, IssueFollows, [Next]_vars PROVE IssueFollows'
<1> USE DEF IssueFollows
<1>1. CASE Quiet
  BY <1>1 DEF Quiet, store
<1>2. ASSUME NEW kind \in Saves, Saving(kind) PROVE IssueFollows'
  <2>1. queue' = Append(queue, kind) /\ Len(queue') = Len(queue) + 1
    BY <1>2, SavingQueue
  <2>2. issue' = issue /\ entry # "removed"
        /\ failed' = (Latches(kind) \/ (failed /\ ~Relieves(kind)))
    BY <1>2 DEF Saving
  <2>3. WillBe(queue, issue, Len(queue), failed)
    BY <2>2
  <2>4. queue \in Seq(Saves) /\ issue \in BOOLEAN /\ failed \in BOOLEAN
    BY DEF TypeOK
  <2>5. WillBe(Append(queue, kind), issue, Len(queue) + 1,
               Latches(kind) \/ (failed /\ ~Relieves(kind)))
    BY <2>3, <2>4, WillBeAppend
  <2> QED
    BY <2>1, <2>2, <2>5
<1>3. CASE Written
  <2>1. /\ Len(queue) \in Nat \ {0} /\ Head(queue) = queue[1] /\ queue # <<>>
        /\ queue' = Tail(queue) /\ Len(queue') = Len(queue) - 1
    BY <1>3, WrittenQueue
  <2>2. 1 \in 1..Len(queue) /\ Len(queue) \in 1..Len(queue)
    BY <2>1
  <2>3. SUFFICES ASSUME entry' # "removed" PROVE WillBe(queue', issue', Len(queue'), failed')
    OBVIOUS
  <2>4. entry # "removed"
    <3>1. entry' = entry \/ queue[1] = "charge"
      BY <1>3, <2>1 DEF Written, After, Reloads
    <3>2. queue[1] = "charge" => task = "charging"
      BY <2>2 DEF Lock, Indices, OfRecovery, StepOf
    <3> QED
      BY <2>3, <3>1, <3>2 DEF Lock
  <2>5. /\ failed' = failed
        /\ issue' = ((issue \/ Latches(Head(queue))) /\ ~Relieves(Head(queue)))
    BY <1>3 DEF Written, After
  <2>6. queue \in Seq(Saves) /\ issue \in BOOLEAN /\ failed \in BOOLEAN
    BY DEF TypeOK
  <2>7. WillBe(Tail(queue), (issue \/ Latches(Head(queue))) /\ ~Relieves(Head(queue)),
               Len(queue) - 1, failed)
    BY <2>1, <2>2, <2>4, <2>6, WillBeTail
  <2> QED
    BY <2>1, <2>5, <2>7
<1>4. CASE Restart
  <2>1. queue' = <<>> /\ issue' = failed'
    BY <1>4 DEF Restart, Load
  <2> QED
    BY <2>1 DEF WillBe
<1>5. CASE Remove
  BY <1>5 DEF Remove
<1> QED
  BY <1>1, <1>2, <1>3, <1>4, <1>5, Steps

\* The reloads after a charge are within the budget.
LEMMA ChargeCount ==
    ASSUME TypeOK, ~BudgetUsed
    PROVE  /\ Recent \cup {Charged} \in SUBSET Stamp
           /\ IsFiniteSet(Recent \cup {Charged})
           /\ Cardinality(Recent \cup {Charged}) <= MaxReloads
<1>1. IsFiniteSet(Recent) /\ Recent \in SUBSET Stamp
  <2>1. Recent \subseteq reloads
    BY DEF Recent
  <2> QED
    BY <2>1, FS_Subset DEF TypeOK
<1>2. Cardinality(Recent) \in Nat /\ Cardinality(Recent) < MaxReloads
  BY <1>1, FS_CardinalityType, BudgetAssumption DEF BudgetUsed
<1>3. /\ IsFiniteSet(Recent \cup {Charged})
      /\ Cardinality(Recent \cup {Charged}) <= Cardinality(Recent) + 1
  BY <1>1, <1>2, FS_AddElement
<1>4. Cardinality(Recent \cup {Charged}) \in Nat
  BY <1>3, FS_CardinalityType
<1>5. Charged \in Stamp
  BY ClockAssumption DEF Charged, Stamp, Wall, TypeOK, Times
<1> QED
  BY <1>1, <1>2, <1>3, <1>4, <1>5, BudgetAssumption

\* The part of TypeOK that concerns the manager's memory and the store.
KeptType ==
    /\ failed \in BOOLEAN /\ issue \in BOOLEAN
    /\ reloads \in SUBSET Stamp /\ IsFiniteSet(reloads)
    /\ Cardinality(reloads) <= MaxReloads
    /\ queue \in Seq(Saves) /\ Len(queue) <= MaxQueue + 1
    /\ writing \in SUBSET Stored /\ data \in SUBSET Stored
    /\ disk \in Stored
    /\ charges \in Nat
    /\ reloaded \in SUBSET [n : Nat, t : Times] /\ IsFiniteSet(reloaded)

LEMMA KeptTypeStep == ASSUME TypeOK, Small, Lock, Room, [Next]_vars PROVE KeptType'
<1> USE DEF KeptType
<1>0. KeptType
  BY DEF TypeOK
<1>1. CASE Quiet
  BY <1>0, <1>1 DEF Quiet, store
<1>2. ASSUME NEW kind \in Saves, Saving(kind) PROVE KeptType'
  <2>1. Len(queue') = Len(queue) + 1 /\ Len(queue) \in Nat /\ queue' \in Seq(Saves)
    BY <1>2, SavingQueue
  <2>2. Len(queue') <= MaxQueue + 1
    <3>1. CASE kind \in OfRecovery
      <4>1. task \notin Waits /\ entry # "removed"
        BY <1>2, <3>1 DEF Saving
      <4>2. \A i \in 1..Len(queue) : queue[i] \notin OfRecovery
        BY <4>1 DEF Lock, Indices, Waits, StepOf
      <4>3. Len(queue) <= MaxQueue
        BY <4>1, <4>2 DEF Room, Indices
      <4> QED
        BY <2>1, <4>3, ClockAssumption
    <3>2. CASE kind \notin OfRecovery
      BY <1>2, <2>1, <3>2, ClockAssumption DEF Saving, CanSave
    <3> QED
      BY <3>1, <3>2
  <2>3. reloads' \in SUBSET Stamp /\ IsFiniteSet(reloads') /\ Cardinality(reloads') <= MaxReloads
    BY <1>0, <1>2, ChargeCount DEF Saving
  <2>4. failed' \in BOOLEAN
    BY <1>2 DEF Saving
  <2>5. [reloads |-> reloads', failed |-> failed'] \in Stored
    BY <2>3, <2>4 DEF Stored
  <2>6. writing' \in SUBSET Stored /\ data' \in SUBSET Stored /\ disk' \in Stored
    BY <1>0, <1>2, <2>5 DEF Saving, Save
  <2>7. charges' \in Nat /\ UNCHANGED <<issue, reloaded>>
    BY <1>0, <1>2 DEF Saving
  <2> QED
    BY <1>0, <2>1, <2>2, <2>3, <2>4, <2>6, <2>7
<1>3. CASE Written
  <2>1. Len(queue) \in Nat \ {0} /\ Len(queue') = Len(queue) - 1 /\ queue' \in Seq(Saves)
    BY <1>3, WrittenQueue
  <2>2. Len(queue') <= MaxQueue + 1
    BY <1>0, <2>1, ClockAssumption
  <2>3. writing' \in SUBSET Stored /\ data' \in SUBSET Stored /\ disk' \in Stored
    BY <1>0, <1>3 DEF Written
  <2>4. UNCHANGED <<failed, reloads, charges>> /\ issue' \in BOOLEAN
    BY <1>3 DEF Written, After
  <2>5. IsFiniteSet(Started(Head(queue))) /\ Started(Head(queue)) \subseteq [n : Nat, t : Times]
    <3>1. CASE Reloads(Head(queue))
      <4>1. Started(Head(queue)) = {[n |-> charges, t |-> now]}
        BY <3>1 DEF Started
      <4>2. [n |-> charges, t |-> now] \in [n : Nat, t : Times]
        BY DEF TypeOK
      <4> QED
        BY <4>1, <4>2, FS_Singleton
    <3>2. CASE ~Reloads(Head(queue))
      BY <3>2, FS_EmptySet DEF Started
    <3> QED
      BY <3>1, <3>2
  <2>6. reloaded' = reloaded \cup Started(Head(queue))
    BY <1>3 DEF Written, After
  <2>7. reloaded' \in SUBSET [n : Nat, t : Times] /\ IsFiniteSet(reloaded')
    BY <1>0, <2>5, <2>6, FS_Union
  <2> QED
    BY <1>0, <2>1, <2>2, <2>3, <2>4, <2>7
<1>4. CASE Restart
  <2>1. PICK d \in {disk} \cup writing : disk' = d /\ Load(d)
    BY <1>4 DEF Restart
  <2>2. d \in Stored /\ IsFiniteSet(d.reloads) /\ Cardinality(d.reloads) <= MaxReloads
    BY <1>0, <2>1 DEF Small, Files
  <2>3. disk' \in Stored /\ reloads' \in SUBSET Stamp /\ failed' \in BOOLEAN /\ issue' \in BOOLEAN
    BY <2>1, <2>2 DEF Load, Stored
  <2>4. queue' = <<>> /\ writing' = {} /\ data' = {} /\ UNCHANGED <<charges, reloaded>>
    BY <1>4 DEF Restart
  <2>5. queue' \in Seq(Saves) /\ Len(queue') <= MaxQueue + 1
    BY <2>4, ClockAssumption
  <2> QED
    BY <1>0, <2>1, <2>2, <2>3, <2>4, <2>5 DEF Load
<1>5. CASE Remove
  <2>1. /\ UNCHANGED <<failed, reloads, writing, data, charges, reloaded>>
        /\ issue' = FALSE /\ disk' = NoFile
    BY <1>5 DEF Remove, history
  <2>2. queue' \in Seq(Saves) /\ Len(queue') = Len(queue)
    BY <1>0, <1>5 DEF Remove, Saves
  <2>3. NoFile \in Stored
    BY DEF NoFile, Stored
  <2> QED
    BY <1>0, <2>1, <2>2, <2>3
<1> QED
  BY <1>1, <1>2, <1>3, <1>4, <1>5, Steps

LEMMA SmallStep == ASSUME TypeOK, Small, Lock, Room, [Next]_vars PROVE Small'
<1> USE DEF Small, Files
<1>0. KeptType'
  BY KeptTypeStep
<1>1. CASE Quiet
  BY <1>1 DEF Quiet, store
<1>2. ASSUME NEW kind \in Saves, Saving(kind) PROVE Small'
  <2>1. \A d \in Files' : d \in Files \/ d = [reloads |-> reloads', failed |-> failed']
    BY <1>2 DEF Saving, Save
  <2> QED
    BY <1>0, <2>1 DEF KeptType
<1>3. CASE Written
  BY <1>3 DEF Written
<1>4. CASE Restart
  BY <1>4 DEF Restart
<1>5. CASE Remove
  <2>1. \A d \in Files' : d \in Files \/ d.reloads = {}
    BY <1>5 DEF Remove, NoFile
  <2>2. IsFiniteSet({}) /\ Cardinality({}) <= MaxReloads
    BY FS_EmptySet, BudgetAssumption
  <2> QED
    BY <2>1, <2>2
<1> QED
  BY <1>1, <1>2, <1>3, <1>4, <1>5, Steps

LEMMA ChargeSafeStep ==
    ASSUME TypeOK, Lock, Room, Waiting, Agrees, IssueFollows, ChargeSafe, [Next]_vars
    PROVE  ChargeSafe'
<1> USE DEF Indices
<1>0. queue \in Seq(Saves) /\ issue \in BOOLEAN /\ failed \in BOOLEAN
  BY DEF TypeOK
<1>1. CASE Quiet
  BY <1>1 DEF Quiet, store, Waits, ChargeSafe
<1>2. ASSUME NEW kind \in Saves, Saving(kind), task' = "charging"
      PROVE  /\ ~failed'
             /\ \A i \in 1..Len(queue') : queue'[i] = "charge" => WillBe(queue', issue', i - 1, failed')
             /\ \E r \in reloads' : r.n = charges'
             /\ queue'[1] = "charge" =>
                   \A d \in (IF writing' = {} THEN {disk'} ELSE writing') : d.reloads = reloads'
  <2>1. /\ queue' = Append(queue, kind)
        /\ Len(queue') = Len(queue) + 1 /\ Len(queue) \in Nat
        /\ \A i \in 1..Len(queue) : queue'[i] = queue[i]
        /\ queue'[Len(queue) + 1] = kind
    BY <1>2, SavingQueue
  <2>2. /\ issue' = issue /\ entry # "removed"
        /\ failed' = (Latches(kind) \/ (failed /\ ~Relieves(kind)))
    BY <1>2 DEF Saving
  <2>3. CASE kind = "charge"
    <3>1. ~failed /\ charges' = charges + 1 /\ reloads' = Recent \cup {Charged} /\ task \notin Waits
      BY <1>2, <2>3 DEF Saving, OfRecovery
    <3>2. \A i \in 1..Len(queue) : queue[i] \notin OfRecovery
      BY <3>1 DEF Lock, Waits, StepOf
    <3>3. \A i \in 1..Len(queue') : queue'[i] = "charge" => i = Len(queue) + 1
      BY <2>1, <3>2 DEF OfRecovery
    <3>4. WillBe(queue, issue, Len(queue), failed)
      BY <1>0, <2>2, <3>1 DEF IssueFollows
    <3>9. failed' = failed
      BY <1>0, <2>2, <2>3 DEF Latches, Relieves
    <3>10. WillBe(Append(queue, kind), issue, Len(queue), failed)
      BY <1>0, <2>1, <3>4, WillBePrefix
    <3>5. WillBe(queue', issue', Len(queue), failed')
      BY <2>1, <2>2, <3>9, <3>10
    <3>6. \A i \in 1..Len(queue') : queue'[i] = "charge" => WillBe(queue', issue', i - 1, failed')
      <4>1. (Len(queue) + 1) - 1 = Len(queue)
        BY <2>1
      <4> QED
        BY <3>3, <3>5, <4>1
    <3>7. ASSUME queue'[1] = "charge" PROVE writing' = {[reloads |-> reloads', failed |-> failed']}
      <4>1. 1 \in 1..Len(queue')
        BY <2>1
      <4>2. Len(queue) = 0
        BY <2>1, <3>3, <3>7, <4>1
      <4>3. queue = <<>>
        BY <1>0, <4>2
      <4> QED
        BY <1>2, <4>3 DEF Saving, Save
    <3>8. ~failed'
      BY <2>2, <2>3, <3>1 DEF Latches
    <3>11. \E r \in reloads' : r.n = charges'
      <4>1. Charged \in reloads'
        BY <3>1
      <4>2. Charged.n = charges'
        BY <3>1 DEF Charged
      <4> QED
        BY <4>1, <4>2
    <3>12. ASSUME queue'[1] = "charge"
           PROVE  \A d \in (IF writing' = {} THEN {disk'} ELSE writing') : d.reloads = reloads'
      <4>1. writing' = {[reloads |-> reloads', failed |-> failed']}
        BY <3>7, <3>12
      <4>2. [reloads |-> reloads', failed |-> failed'].reloads = reloads'
        OBVIOUS
      <4> QED
        BY <4>1, <4>2
    <3> QED
      BY <3>6, <3>8, <3>11, <3>12
  <2>4. CASE kind # "charge"
    <3>1. kind \notin OfRecovery /\ task = "charging"
      BY <1>2, <2>4 DEF Saving, StepOf
    <3>2. kind # "latch" /\ UNCHANGED <<reloads, charges>>
      BY <1>2, <2>4, <3>1 DEF Saving
    <3>3. ~failed /\ ~failed' /\ failed' = failed
      BY <1>0, <2>2, <3>1, <3>2 DEF ChargeSafe, Latches, OfRecovery
    <3>4. ASSUME NEW i \in 1..Len(queue'), queue'[i] = "charge"
          PROVE  WillBe(queue', issue', i - 1, failed')
      <4>1. i \in 1..Len(queue) /\ queue[i] = "charge"
        BY <2>1, <2>4, <3>4
      <4>2. WillBe(queue, issue, i - 1, failed)
        BY <3>1, <4>1 DEF ChargeSafe
      <4>3. i - 1 \in 0..Len(queue)
        BY <2>1, <4>1
      <4>4. WillBe(Append(queue, kind), issue, i - 1, failed)
        BY <1>0, <4>2, <4>3, WillBePrefix
      <4> QED
        BY <2>1, <2>2, <3>3, <4>4
    <3>5. ASSUME queue'[1] = "charge" PROVE queue[1] = "charge" /\ UNCHANGED <<writing, disk>>
      <4>1. 1 \in 1..Len(queue) /\ queue # <<>>
        BY <2>1, <2>4, <3>5
      <4> QED
        BY <1>2, <2>1, <3>5, <4>1 DEF Saving, Save
    <3> QED
      BY <3>1, <3>2, <3>3, <3>4, <3>5 DEF ChargeSafe
  <2> QED
    BY <2>3, <2>4
<1>3. ASSUME Written, task' = "charging"
      PROVE  /\ ~failed'
             /\ \A i \in 1..Len(queue') : queue'[i] = "charge" => WillBe(queue', issue', i - 1, failed')
             /\ \E r \in reloads' : r.n = charges'
             /\ \A d \in (IF writing' = {} THEN {disk'} ELSE writing') : d.reloads = reloads'
  <2>1. /\ Len(queue) \in Nat \ {0} /\ Len(queue') = Len(queue) - 1 /\ queue # <<>>
        /\ queue' = Tail(queue)
        /\ \A i \in 1..Len(queue') : queue'[i] = queue[i + 1]
    BY <1>3, WrittenQueue
  <2>2. task = "charging" /\ entry' = entry
    BY <1>3 DEF Written, After, Reloads, Ends
  <2>3. /\ UNCHANGED <<failed, reloads, charges>> /\ data' = {}
        /\ issue' = ((issue \/ Latches(Head(queue))) /\ ~Relieves(Head(queue)))
    BY <1>3 DEF Written, After
  <2>4. ASSUME NEW i \in 1..Len(queue'), queue'[i] = "charge"
        PROVE  WillBe(queue', issue', i - 1, failed')
    <3>1. i + 1 \in 1..Len(queue) /\ queue[i + 1] = "charge" /\ i \in 1..Len(queue)
      BY <2>1, <2>4
    <3>2. WillBe(queue, issue, (i + 1) - 1, failed)
      BY <2>2, <3>1 DEF ChargeSafe
    <3>4. (i + 1) - 1 = i
      OBVIOUS
    <3>3. WillBe(queue, issue, i, failed)
      BY <3>2, <3>4
    <3> QED
      BY <1>0, <2>1, <2>3, <3>1, <3>3, WillBeTail
  <2>5. entry' # "removed"
    BY <2>2 DEF Lock
  <2>6. (IF writing' = {} THEN {disk'} ELSE writing') = {[reloads |-> reloads', failed |-> failed']}
    BY <2>3, <2>5, AgreesStep DEF Agrees, Latest
  <2>7. ~failed' /\ \E r \in reloads' : r.n = charges'
    BY <2>2, <2>3 DEF ChargeSafe
  <2> QED
    BY <2>4, <2>6, <2>7
<1>4. CASE Restart
  BY <1>4 DEF Restart, ChargeSafe
<1>5. CASE Remove
  BY <1>5 DEF Remove, ChargeSafe
<1>6. CASE \E kind \in Saves : Saving(kind)
  BY <1>2, <1>6 DEF ChargeSafe
<1>7. CASE Written
  BY <1>3, <1>7 DEF ChargeSafe
<1> QED
  BY <1>1, <1>4, <1>5, <1>6, <1>7, Steps

LEMMA StreakStep == ASSUME TypeOK, Streak, [Next]_vars PROVE Streak'
<1> USE DEF Streak, Never
<1>1. CASE ProbeStale
  <2>1. /\ proofs' = {t \in proofs \cup {now} : now - t <= MaxGap}
        /\ lastStale' = Never \/ lastStale' = (IF StartsStreak THEN now ELSE lastStale)
    BY <1>1 DEF ProbeStale
  <2>2. lastStale' # Never /\ ~StartsStreak => now - lastStale <= MaxGap /\ lastStale # Never
    BY BudgetAssumption DEF StartsStreak, TypeOK, Times
  <2>3. now - now <= MaxGap
    BY BudgetAssumption DEF TypeOK, Times
  <2> QED
    BY <2>1, <2>2, <2>3
<1>2. CASE UNCHANGED <<lastStale, proofs>> \/ lastStale' = Never
  BY <1>2
<1>3. CASE Next /\ ~ProbeStale
  BY <1>3, <1>2 DEF Next, Tick, WallClockSteps, Written, ProbeOk, ProbeSaysNothing, ReloadFails,
                    ReloadDone, VerifyOk, VerifyFails, SetUpAgain, Acknowledge, Restart, Remove,
                    history
<1> QED
  BY <1>1, <1>2, <1>3 DEF vars, history

LEMMA TypeStep == ASSUME TypeOK, Small, Lock, Room, [Next]_vars PROVE TypeOK'
<1> DEFINE Rest ==
    /\ now \in Times /\ offset \in (-MaxOffset)..MaxOffset
    /\ entry \in {"loaded", "reloading", "down", "removed"}
    /\ proved \in BOOLEAN /\ lastStale \in Times \cup {Never}
    /\ inProgress \in BOOLEAN
    /\ task \in {"off", "charging", "reloading", "verifying", "closing"}
    /\ inProgress = (task # "off")
    /\ proofs \in SUBSET Times
<1>0. KeptType' /\ Rest
  BY KeptTypeStep DEF TypeOK
<1>1. ASSUME Tick PROVE Rest'
  BY <1>0, <1>1, ClockAssumption DEF Tick, Times, history
<1>2. ASSUME WallClockSteps PROVE Rest'
  BY <1>0, <1>2 DEF WallClockSteps, history
<1>3. ASSUME ProbeOk PROVE Rest'
  BY <1>0, <1>3 DEF ProbeOk
<1>4. ASSUME ProbeSaysNothing PROVE Rest'
  BY <1>0, <1>4 DEF ProbeSaysNothing
<1>5. ASSUME ProbeStale PROVE Rest'
  <2>1. proofs' \in SUBSET Times /\ lastStale' \in Times \cup {Never}
        /\ UNCHANGED <<now, offset, proved>>
    BY <1>0, <1>5 DEF ProbeStale
  <2>2. \/ UNCHANGED <<entry, inProgress, task>>
        \/ entry' = entry /\ inProgress' = TRUE /\ task' = "charging"
    BY <1>5 DEF ProbeStale, RequestRecovery, Refuse, LatchAlone, Charge
  <2> QED
    BY <1>0, <2>1, <2>2
<1>6. ASSUME ReloadFails PROVE Rest'
  BY <1>0, <1>6 DEF ReloadFails, GiveUp, history
<1>7. ASSUME ReloadDone PROVE Rest'
  BY <1>0, <1>7 DEF ReloadDone, history
<1>8. ASSUME VerifyOk PROVE Rest'
  BY <1>0, <1>8 DEF VerifyOk, history
<1>9. ASSUME VerifyFails PROVE Rest'
  BY <1>0, <1>9 DEF VerifyFails, GiveUp, history
<1>10. ASSUME SetUpAgain PROVE Rest'
  BY <1>0, <1>10 DEF SetUpAgain, history
<1>11. ASSUME Acknowledge PROVE Rest'
  BY <1>0, <1>11 DEF Acknowledge, history
<1>12. ASSUME Restart PROVE Rest'
  BY <1>0, <1>12 DEF Restart
<1>13. ASSUME Remove PROVE Rest'
  BY <1>0, <1>13 DEF Remove, history
<1>14. ASSUME Written PROVE Rest'
  <2>1. 1 \in 1..Len(queue) /\ Head(queue) = queue[1]
    BY <1>14, WrittenQueue
  <2>2. queue[1] = "charge" => task = "charging"
    BY <2>1 DEF Lock, Indices, OfRecovery, StepOf
  <2> QED
    BY <1>0, <1>14, <2>1, <2>2 DEF Written, After, Reloads, Ends
<1>15. ASSUME UNCHANGED vars PROVE Rest'
  BY <1>0, <1>15 DEF vars, history
<1>16. Rest'
  BY <1>1, <1>2, <1>3, <1>4, <1>5, <1>6, <1>7, <1>8, <1>9, <1>10, <1>11, <1>12, <1>13,
     <1>14, <1>15 DEF Next
<1> QED
  BY <1>0, <1>16 DEF KeptType, TypeOK

LEMMA InitInv == Init => IInv
<1> SUFFICES ASSUME Init PROVE IInv
  OBVIOUS
<1> USE DEF Init
<1>1. IsFiniteSet({}) /\ Cardinality({}) = 0
  BY FS_EmptySet
<1>2. TypeOK
  <2>1. queue \in Seq(Saves) /\ Len(queue) = 0
    OBVIOUS
  <2>2. disk \in Stored
    BY DEF NoFile, Stored
  <2>3. now \in Times /\ offset \in (-MaxOffset)..MaxOffset
    BY ClockAssumption DEF Times
  <2>4. Cardinality(reloads) <= MaxReloads /\ Len(queue) <= MaxQueue + 1
    BY <1>1, <2>1, BudgetAssumption, ClockAssumption
  <2>5. reloads \in SUBSET Stamp /\ reloaded \in SUBSET [n : Nat, t : Times]
    OBVIOUS
  <2> QED
    BY <1>1, <2>1, <2>2, <2>3, <2>4, <2>5 DEF TypeOK
<1>3. Small
  BY <1>1, BudgetAssumption DEF Small, Files, NoFile
<1>4. Lock /\ Room /\ Waiting /\ ChargeSafe /\ Streak
  BY ClockAssumption DEF Lock, Room, Waiting, ChargeSafe, Streak, Indices, Waits
<1>5. Agrees
  BY DEF Agrees, Latest, NoFile
<1>6. IssueFollows
  <2>1. issue = failed /\ Len(queue) = 0
    OBVIOUS
  <2> QED
    BY <2>1 DEF IssueFollows, WillBe
<1> QED
  BY <1>2, <1>3, <1>4, <1>5, <1>6 DEF IInv

LEMMA NextInv == IInv /\ [Next]_vars => IInv'
<1> SUFFICES ASSUME IInv, [Next]_vars PROVE IInv'
  OBVIOUS
<1>1. TypeOK' /\ Small' /\ Lock' /\ Room' /\ Waiting'
  BY TypeStep, SmallStep, LockStep, RoomStep, WaitingStep DEF IInv
<1>2. Agrees' /\ IssueFollows' /\ ChargeSafe' /\ Streak'
  BY AgreesStep, IssueStep, ChargeSafeStep, StreakStep DEF IInv
<1> QED
  BY <1>1, <1>2 DEF IInv

\* The inductive invariant holds throughout.
THEOREM RecoveryInvariant == Spec => []IInv
BY InitInv, NextInv, PTL DEF Spec

\* Every variable keeps its type, the budget its size, and in_progress says
\* whether there is a recovery.
THEOREM RecoveryTypes == Spec => []TypeOK
<1>1. IInv => TypeOK
  BY DEF IInv
<1> QED
  BY <1>1, RecoveryInvariant, PTL

\* Latch, repair issue and stored file agree whenever no save is under way.
THEOREM LatchIsConsistent == Spec => []Consistent
<1>1. ASSUME IInv, queue = <<>>, entry # "removed"
      PROVE  issue = failed /\ disk = [reloads |-> reloads, failed |-> failed]
  <2>1. writing = {} /\ data = {}
    BY <1>1 DEF IInv, Waiting
  <2>2. disk = [reloads |-> reloads, failed |-> failed]
    BY <1>1, <2>1 DEF IInv, Agrees, Latest
  <2>3. WillBe(queue, issue, Len(queue), failed) /\ Len(queue) = 0
    BY <1>1 DEF IInv, IssueFollows
  <2>4. issue = failed
    BY <2>3 DEF WillBe
  <2> QED
    BY <2>2, <2>4
<1>2. IInv => Consistent
  BY <1>1 DEF Consistent
<1> QED
  BY <1>2, RecoveryInvariant, PTL

\* A reload starts when its charge has been saved.
LEMMA Start ==
    ASSUME IInv, [Next]_vars, reloaded' # reloaded
    PROVE  /\ Written /\ queue[1] = "charge" /\ 1 \in Indices /\ task = "charging"
           /\ entry # "removed" /\ Head(queue) = queue[1] /\ queue # <<>>
           /\ reloaded' = reloaded \cup {[n |-> charges, t |-> now]}
<1>1. TypeOK /\ Lock
  BY DEF IInv
<1>2. Written
  BY <1>1, Steps DEF Quiet, Saving, Restart, Remove, history
<1>3. /\ Len(queue) \in Nat \ {0} /\ Head(queue) = queue[1] /\ queue # <<>>
  BY <1>1, <1>2, WrittenQueue
<1>4. queue[1] = "charge" /\ reloaded' = reloaded \cup {[n |-> charges, t |-> now]}
  BY <1>2, <1>3 DEF Written, After, Started, Reloads
<1>5. 1 \in Indices
  BY <1>3 DEF Indices
<1>6. task = "charging" /\ entry # "removed"
  BY <1>1, <1>4, <1>5 DEF Lock, OfRecovery, StepOf
<1> QED
  BY <1>2, <1>3, <1>4, <1>5, <1>6

\* No reload starts while the latch is set or its issue is there.
THEOREM LatchIsHeld == Spec => LatchHolds
<1>1. ASSUME IInv, [Next]_vars PROVE [reloaded' # reloaded => ~failed /\ ~issue]_vars
  <2>1. SUFFICES ASSUME reloaded' # reloaded PROVE ~failed /\ ~issue
    OBVIOUS
  <2>2. queue[1] = "charge" /\ 1 \in Indices /\ task = "charging"
    BY <1>1, <2>1, Start
  <2>3. ~failed /\ WillBe(queue, issue, 1 - 1, failed)
    BY <1>1, <2>2 DEF IInv, ChargeSafe
  <2>4. issue = failed
    BY <2>3 DEF WillBe
  <2> QED
    BY <2>3, <2>4
<1> QED
  BY <1>1, RecoveryInvariant, PTL DEF Spec, LatchHolds

\* The charge of a reload is in the stored file by the time it starts.
THEOREM ReloadsAreCharged == Spec => ChargedFirst
<1>1. ASSUME IInv, [Next]_vars
      PROVE  [reloaded' # reloaded
              => \A c \in reloaded' \ reloaded :
                    disk'.reloads = reloads' /\ \E r \in reloads' : r.n = c.n]_vars
  <2>1. SUFFICES ASSUME reloaded' # reloaded, NEW c \in reloaded' \ reloaded
                 PROVE  disk'.reloads = reloads' /\ \E r \in reloads' : r.n = c.n
    OBVIOUS
  <2>2. /\ Written /\ queue[1] = "charge" /\ task = "charging"
        /\ Head(queue) = queue[1]
        /\ reloaded' = reloaded \cup {[n |-> charges, t |-> now]}
    BY <1>1, <2>1, Start
  <2>3. reloads' = reloads /\ disk' \in (IF writing = {} THEN {disk} ELSE writing)
    BY <2>2 DEF Written
  <2>4. disk'.reloads = reloads /\ \E r \in reloads : r.n = charges
    BY <1>1, <2>2, <2>3 DEF IInv, ChargeSafe
  <2>5. c.n = charges
    BY <2>1, <2>2
  <2> QED
    BY <2>3, <2>4, <2>5
<1> QED
  BY <1>1, RecoveryInvariant, PTL DEF Spec, ChargedFirst

\* A recovery starts from two proofs, not too close and not too far apart.
THEOREM ReloadsAreProved == Spec => TwoProofs
<1>1. ASSUME IInv, [Next]_vars
      PROVE  [inProgress' /\ ~inProgress
              => \E t \in proofs : Confirm <= now - t /\ now - t <= MaxGap]_vars
  <2>1. SUFFICES ASSUME inProgress', ~inProgress
                 PROVE  \E t \in proofs : Confirm <= now - t /\ now - t <= MaxGap
    OBVIOUS
  <2>2. ProbeStale
    BY <1>1, <2>1 DEF Next, vars, Tick, WallClockSteps, Written, After, ProbeOk, ProbeSaysNothing,
                      ReloadFails, ReloadDone, VerifyOk, VerifyFails, SetUpAgain, Acknowledge,
                      Restart, Remove, IInv, TypeOK
  <2>3. Confirmed
    BY <2>1, <2>2 DEF ProbeStale, Refuse
  <2>4. lastStale # Never /\ lastStale \in proofs /\ lastStale \in Times
    BY <1>1, <2>3 DEF Confirmed, StartsStreak, IInv, Streak, TypeOK
  <2>5. Confirm <= now - lastStale /\ now - lastStale <= MaxGap
    BY <1>1, <2>3, <2>4, BudgetAssumption DEF Confirmed, StartsStreak, IInv, TypeOK, Times
  <2> QED
    BY <2>4, <2>5
<1> QED
  BY <1>1, RecoveryInvariant, PTL DEF Spec, TwoProofs

----------------------------------------------------------------------------
(* The budget and the cooldown under a clock that is never put forward     *)

SetBackOnly == \A s \in WallSteps : s <= 0

\* The clocks: time passes while no save is under way.
LEMMA Clocks ==
    ASSUME SetBackOnly, TypeOK, [Next]_vars
    PROVE  /\ now' \in Times /\ now \in Times /\ now' >= now
           /\ offset' \in Int /\ offset \in Int /\ offset' <= offset
           /\ queue # <<>> => now' = now
           /\ Wall' = now' + offset'
<1> USE DEF TypeOK, Times
<1>1. CASE Tick
  BY <1>1, ClockAssumption DEF Tick, Wall
<1>2. CASE WallClockSteps
  <2>1. PICK s \in WallSteps : offset' = offset + s
    BY <1>2 DEF WallClockSteps
  <2>2. s \in Int /\ s <= 0
    BY <2>1, ClockAssumption DEF SetBackOnly
  <2> QED
    BY <1>2, <2>1, <2>2, ClockAssumption DEF WallClockSteps, Wall
<1>3. UNCHANGED <<now, offset>> => /\ now' \in Times /\ now' >= now
                                   /\ offset' \in Int /\ offset' <= offset
  BY ClockAssumption
<1>4. CASE Next /\ ~Tick /\ ~WallClockSteps
  <2>1. UNCHANGED <<now, offset>>
    BY <1>4 DEF Next, Written, ProbeOk, ProbeSaysNothing, ProbeStale, ReloadFails, ReloadDone,
                VerifyOk, VerifyFails, SetUpAgain, Acknowledge, Restart, Remove
  <2> QED
    BY <1>3, <2>1, ClockAssumption DEF Wall
<1>5. CASE UNCHANGED vars
  BY <1>3, <1>5, ClockAssumption DEF vars, Wall
<1> QED
  BY <1>1, <1>2, <1>4, <1>5

\* What S remembers it remembers after a step, but for a reload just started.
LEMMA RemembersOn ==
    ASSUME SetBackOnly, TypeOK, [Next]_vars, NEW S \in SUBSET Stamp, Remembers(S)
    PROVE  \A c \in reloaded : now' - c.t < Window
               => \E r \in S : r.n = c.n /\ c.t + offset' <= r.wall
<1>1. SUFFICES ASSUME NEW c \in reloaded, now' - c.t < Window
               PROVE  \E r \in S : r.n = c.n /\ c.t + offset' <= r.wall
  OBVIOUS
<1>2. c.t \in Times
  BY <1>1 DEF TypeOK
<1>3. now - c.t < Window
  BY <1>1, <1>2, Clocks, BudgetAssumption DEF Times
<1>4. PICK r \in S : r.n = c.n /\ c.t + offset <= r.wall
  BY <1>1, <1>3 DEF Remembers
<1>5. r.wall \in Int
  BY <1>4 DEF Stamp
<1>6. c.t + offset' <= r.wall
  BY <1>2, <1>4, <1>5, Clocks DEF Times
<1> QED
  BY <1>4, <1>6

\* A charge forgets no reload of the last window.
LEMMA RemembersCharge ==
    ASSUME TypeOK, Remembers(reloads)
    PROVE  Remembers(Recent \cup {Charged})
<1>1. SUFFICES ASSUME NEW c \in reloaded, now - c.t < Window
               PROVE  \E r \in Recent : r.n = c.n /\ c.t + offset <= r.wall
  BY DEF Remembers
<1>2. PICK r \in reloads : r.n = c.n /\ c.t + offset <= r.wall
  BY <1>1 DEF Remembers
<1>3. r.wall \in Int /\ c.t \in Int /\ now \in Int /\ offset \in Int /\ Window \in Int
  BY <1>1, <1>2, ClockAssumption, BudgetAssumption DEF TypeOK, Stamp, Times
<1>4. Wall - r.wall < Window
  BY <1>1, <1>2, <1>3 DEF Wall
<1> QED
  BY <1>2, <1>4 DEF Recent

\* The budgets there are, and the one a charge would leave.
Budgets == {reloads} \cup {d.reloads : d \in Files}

LEMMA BudgetsType ==
    ASSUME TypeOK PROVE Budgets \in SUBSET (SUBSET Stamp) /\ Recent \cup {Charged} \in SUBSET Stamp
<1>1. \A d \in Files : d.reloads \in SUBSET Stamp
  BY DEF TypeOK, Files, Stored
<1>2. Charged \in Stamp
  BY ClockAssumption DEF TypeOK, Charged, Stamp, Wall, Times
<1> QED
  BY <1>1, <1>2 DEF TypeOK, Budgets, Recent

\* Where the budgets of a step come from.
LEMMA BudgetsStep ==
    ASSUME IInv, [Next]_vars, reloaded' = reloaded, entry' # "removed"
    PROVE  entry # "removed" /\ Budgets' \subseteq Budgets \cup {Recent \cup {Charged}}
<1> USE DEF Budgets, Files
<1>0. TypeOK /\ Lock
  BY DEF IInv
<1>1. CASE Quiet
  BY <1>1 DEF Quiet, store
<1>2. CASE \E kind \in Saves : Saving(kind)
  <2>1. PICK kind \in Saves : Saving(kind)
    BY <1>2
  <2>2. entry # "removed" /\ Save(kind, reloads', failed')
        /\ (reloads' = reloads \/ reloads' = Recent \cup {Charged})
    BY <2>1 DEF Saving
  <2>3. Files' \subseteq Files \cup {[reloads |-> reloads', failed |-> failed']}
    BY <2>2 DEF Save
  <2>4. \A d \in Files' : d.reloads \in Budgets \cup {Recent \cup {Charged}}
    BY <2>2, <2>3
  <2> QED
    BY <2>2, <2>4
<1>3. CASE Written
  <2>1. entry = entry' \/ task = "charging"
    <3>1. 1 \in 1..Len(queue) /\ Head(queue) = queue[1]
      BY <1>0, <1>3, WrittenQueue
    <3> QED
      BY <1>0, <1>3, <3>1 DEF Written, After, Reloads, Lock, Indices, OfRecovery, StepOf
  <2>2. entry # "removed"
    BY <1>0, <2>1 DEF Lock
  <2>3. Files' \subseteq Files /\ reloads' = reloads
    BY <1>3 DEF Written
  <2> QED
    BY <2>2, <2>3
<1>4. CASE Restart
  <2>1. PICK d \in {disk} \cup writing : disk' = d /\ reloads' = d.reloads
    BY <1>4 DEF Restart, Load
  <2> QED
    BY <1>4, <2>1 DEF Restart
<1>5. CASE Remove
  BY <1>5 DEF Remove
<1> QED
  BY <1>0, <1>1, <1>2, <1>3, <1>4, <1>5, Steps

\* Once a reload has started, every budget is the one that charges it.
LEMMA BudgetsStart ==
    ASSUME IInv, [Next]_vars, reloaded' # reloaded
    PROVE  reloads' = reloads /\ now' = now /\ offset' = offset /\ charges' = charges
           /\ task' # "charging" /\ \A S \in Budgets' : S = reloads
<1>1. /\ Written /\ queue[1] = "charge" /\ task = "charging" /\ Head(queue) = queue[1]
      /\ entry # "removed" /\ queue # <<>>
  BY Start
<1>2. /\ UNCHANGED <<reloads, failed, charges, now, offset>> /\ writing' = data /\ data' = {}
      /\ disk' \in (IF writing = {} THEN {disk} ELSE writing)
      /\ entry' = "reloading" /\ task' = "reloading"
  BY <1>1 DEF Written, After, Reloads
<1>3. disk'.reloads = reloads
  BY <1>1, <1>2 DEF IInv, ChargeSafe
<1>4. IInv'
  BY NextInv
<1>5. writing' # {} => writing' = {[reloads |-> reloads, failed |-> failed]}
  BY <1>2, <1>4 DEF IInv, Agrees, Latest
<1>6. \A d \in Files' : d.reloads = reloads
  BY <1>2, <1>3, <1>5 DEF Files
<1> QED
  BY <1>2, <1>6 DEF Budgets

LEMMA RememberedStep ==
    ASSUME SetBackOnly, IInv, Remembered, Fresh, [Next]_vars
    PROVE  Remembered'
<1>0. TypeOK
  BY DEF IInv
<1>1. SUFFICES ASSUME entry' # "removed", NEW S \in Budgets', NEW c \in reloaded',
                      now' - c.t < Window
               PROVE  \E r \in S : r.n = c.n /\ c.t + offset' <= r.wall
  BY DEF Remembered, Remembers, Budgets
<1>2. entry # "removed" => \A B \in Budgets : Remembers(B)
  BY DEF Remembered, Budgets
<1>3. CASE reloaded' = reloaded
  <2>1. entry # "removed" /\ S \in Budgets \cup {Recent \cup {Charged}}
    BY <1>1, <1>3, BudgetsStep
  <2>2. Remembers(Recent \cup {Charged})
    BY <1>0, <2>1, RemembersCharge DEF Remembered
  <2>3. S \in SUBSET Stamp /\ Remembers(S)
    BY <1>0, <1>2, <2>1, <2>2, BudgetsType
  <2> QED
    BY <1>0, <1>1, <1>3, <2>3, RemembersOn
<1>4. CASE reloaded' # reloaded
  <2>1. /\ entry # "removed" /\ task = "charging"
        /\ reloaded' = reloaded \cup {[n |-> charges, t |-> now]}
    BY <1>4, Start
  <2>2. S = reloads /\ now' = now /\ offset' = offset
    BY <1>1, <1>4, BudgetsStart
  <2>3. CASE c \in reloaded
    <3>1. reloads \in SUBSET Stamp /\ Remembers(reloads)
      BY <1>0, <2>1 DEF TypeOK, Remembered
    <3> QED
      BY <1>0, <1>1, <2>2, <2>3, <3>1, RemembersOn
  <2>4. CASE c = [n |-> charges, t |-> now]
    <3>1. \E r \in reloads : r.n = charges /\ now + offset <= r.wall
      BY <2>1 DEF Fresh, Wall
    <3> QED
      BY <2>2, <2>4, <3>1
  <2> QED
    BY <2>1, <2>3, <2>4
<1> QED
  BY <1>3, <1>4

LEMMA NumberedStep ==
    ASSUME SetBackOnly, IInv, Numbered, [Next]_vars
    PROVE  Numbered'
<1>0. TypeOK /\ Lock
  BY DEF IInv
<1>1. \A c \in reloaded : c.t \in Int /\ c.n \in Nat /\ c.t <= now /\ c.n <= charges
  BY <1>0 DEF TypeOK, Times, Numbered
<1>2. now' \in Int /\ now \in Int /\ now <= now' /\ charges \in Nat
  BY <1>0, Clocks DEF TypeOK, Times
<1>3. CASE reloaded' # reloaded
  <2>1. task = "charging" /\ reloaded' = reloaded \cup {[n |-> charges, t |-> now]}
    BY <1>3, Start
  <2>2. charges' = charges /\ now' = now /\ task' # "charging"
    BY <1>3, BudgetsStart
  <2>3. \A c \in reloaded : c.n < charges
    BY <2>1 DEF Numbered
  <2> QED
    BY <1>1, <1>2, <2>1, <2>2, <2>3 DEF Numbered
<1>4. CASE reloaded' = reloaded
  <2>1. \/ charges' = charges /\ (task' = "charging" => task = "charging")
        \/ charges' = charges + 1
    <3>1. CASE Quiet
      BY <3>1 DEF Quiet, Waits
    <3>2. CASE \E kind \in Saves : Saving(kind)
      BY <3>2 DEF Saving, StepOf
    <3>3. CASE Written
      BY <3>3 DEF Written, After
    <3> QED
      BY <1>0, <3>1, <3>2, <3>3, Steps DEF Restart, Remove, history
  <2> QED
    BY <1>1, <1>2, <1>4, <2>1 DEF Numbered
<1> QED
  BY <1>3, <1>4

\* A charge is stamped with the time of its reload, or a later one.
LEMMA FreshStep ==
    ASSUME SetBackOnly, IInv, Remembered, Numbered, Fresh, [Next]_vars
    PROVE  Fresh'
<1>0. TypeOK /\ Lock
  BY DEF IInv
<1>1. SUFFICES ASSUME task' = "charging" PROVE Fresh'
  BY DEF Fresh
<1>2. reloaded' = reloaded
  BY <1>1, BudgetsStart
<1>3. now' \in Int /\ now \in Int /\ offset \in Int /\ offset' \in Int /\ now <= now'
      /\ offset' <= offset /\ Wall' = now' + offset'
  BY <1>0, Clocks DEF Times
<1>4. CASE task = "charging"
  <2>1. \E i \in Indices : queue[i] \in OfRecovery
    BY <1>0, <1>4 DEF Lock, Waits
  <2>2. now' = now
    BY <1>0, <2>1, Clocks DEF Indices
  <2>3. reloads' = reloads /\ charges' = charges
    <3>1. CASE \E kind \in Saves : Saving(kind)
      BY <1>4, <3>1 DEF Saving, Waits, OfRecovery
    <3> QED
      BY <1>0, <1>1, <3>1, Steps DEF Quiet, Written, Restart, Remove, history
  <2>4. PICK r \in reloads : r.n = charges /\ Wall <= r.wall
    BY <1>4 DEF Fresh
  <2>5. r.wall \in Int
    BY <1>0, <2>4 DEF TypeOK, Stamp
  <2>6. Wall' <= r.wall
    BY <1>3, <2>2, <2>4, <2>5 DEF Wall
  <2> QED
    BY <1>2, <1>4, <2>2, <2>3, <2>4, <2>6 DEF Fresh
<1>5. CASE task # "charging"
  <2>1. PICK kind \in Saves : Saving(kind) /\ kind = "charge"
    BY <1>0, <1>1, <1>5, Steps DEF Quiet, Waits, Saving, StepOf, Written, After, Restart, Remove
  <2>2. /\ ~Cooling /\ reloads' = Recent \cup {Charged} /\ charges' = charges + 1
        /\ now' = now /\ offset' = offset /\ entry # "removed"
    BY <2>1 DEF Saving
  <2>3. Charged \in reloads' /\ Charged.n = charges' /\ Wall' <= Charged.wall
    BY <1>3, <2>2 DEF Charged, Wall
  <2>4. ASSUME Cooldown <= Window, NEW c \in reloaded PROVE now - c.t >= Cooldown
    <3>1. c.t \in Int /\ Cooldown \in Int /\ Window \in Int
      BY <1>0, <2>4, BudgetAssumption DEF TypeOK, Times
    <3>2. SUFFICES ASSUME now - c.t < Cooldown PROVE FALSE
      BY <1>3, <3>1
    <3>3. now - c.t < Window
      BY <1>3, <2>4, <3>1, <3>2
    <3>4. PICK r \in reloads : r.n = c.n /\ c.t + offset <= r.wall
      BY <2>2, <2>4, <3>3 DEF Remembered, Remembers
    <3>5. r.wall \in Int
      BY <1>0, <3>4 DEF TypeOK, Stamp
    <3>6. Wall - r.wall < Window /\ Wall - r.wall < Cooldown
      BY <1>3, <3>1, <3>2, <3>3, <3>4, <3>5 DEF Wall
    <3> QED
      BY <2>2, <3>4, <3>6 DEF Cooling, Recent
  <2> QED
    BY <1>2, <2>2, <2>3, <2>4 DEF Fresh
<1> QED
  BY <1>4, <1>5

\* The budget as a set: what c is counted with.
Counted(c) == {d \in reloaded : d.t <= c.t /\ c.t - d.t < Window}

\* What a set remembers is no larger than the set.
LEMMA RememberedCount ==
    ASSUME NEW C, NEW S, IsFiniteSet(S), \A c \in C : \E r \in S : r.n = c.n,
           \A c, d \in C : c.n = d.n => c = d
    PROVE  IsFiniteSet(C) /\ Cardinality(C) <= Cardinality(S)
<1> DEFINE f == [c \in C |-> CHOOSE r \in S : r.n = c.n]
<1>1. \A c \in C : f[c] \in S /\ f[c].n = c.n
  OBVIOUS
<1>2. f \in Injection(C, S)
  <2>1. f \in [C -> S]
    BY <1>1
  <2>2. \A c, d \in C : f[c] = f[d] => c = d
    BY <1>1
  <2> QED
    BY <2>1, <2>2 DEF Injection, IsInjective
<1> QED
  BY <1>2, FS_Injection

LEMMA BudgetStep ==
    ASSUME SetBackOnly, IInv, Remembered, Numbered, Fresh, ReloadBudget, [Next]_vars
    PROVE  ReloadBudget'
<1>0. TypeOK /\ reloads \in SUBSET Stamp /\ IsFiniteSet(reloads)
      /\ Cardinality(reloads) <= MaxReloads
  BY DEF IInv, TypeOK
<1>1. CASE reloaded' = reloaded
  BY <1>1 DEF ReloadBudget
<1>2. CASE reloaded' # reloaded
  <2> DEFINE new == [n |-> charges, t |-> now]
  <2>1. task = "charging" /\ entry # "removed" /\ reloaded' = reloaded \cup {new}
    BY <1>2, Start
  <2>2. Remembered' /\ Numbered'
    BY RememberedStep, NumberedStep
  <2>3. now' = now /\ reloads' = reloads /\ entry' # "removed" /\ now \in Int
    <3>1. entry' # "removed"
      BY <1>2, Start DEF Written, After, Reloads
    <3> QED
      BY <1>0, <1>2, <3>1, BudgetsStart DEF TypeOK, Times
  <2>4. \A d \in reloaded' : d.t \in Int /\ d.t <= now
    BY <1>0, <2>1, <2>3 DEF TypeOK, Times, Numbered
  <2>5. ASSUME NEW c \in reloaded', c.t = now
        PROVE  Cardinality({d \in reloaded' : d.t <= c.t /\ c.t - d.t < Window}) <= MaxReloads
    <3> DEFINE C == {d \in reloaded' : d.t <= c.t /\ c.t - d.t < Window}
    <3>1. \A d \in C : \E r \in reloads : r.n = d.n
      BY <2>2, <2>3, <2>5 DEF Remembered, Remembers
    <3>2. \A d, e \in C : d.n = e.n => d = e
      BY <2>2 DEF Numbered
    <3>3. IsFiniteSet(C) /\ Cardinality(C) <= Cardinality(reloads)
      <4> HIDE DEF C
      <4> QED
        BY <1>0, <3>1, <3>2, RememberedCount
    <3>4. Cardinality(C) \in Nat /\ Cardinality(reloads) \in Nat /\ MaxReloads \in Nat
      BY <1>0, <3>3, FS_CardinalityType, BudgetAssumption
    <3> QED
      BY <1>0, <3>3, <3>4
  <2>6. ASSUME NEW c \in reloaded', c.t # now
        PROVE  Cardinality({d \in reloaded' : d.t <= c.t /\ c.t - d.t < Window}) <= MaxReloads
    <3>1. c \in reloaded /\ c.t < now
      BY <2>1, <2>3, <2>4, <2>6
    <3>2. {d \in reloaded' : d.t <= c.t /\ c.t - d.t < Window} = Counted(c)
      BY <2>1, <2>3, <2>4, <2>6, <3>1 DEF Counted
    <3> QED
      BY <3>1, <3>2 DEF ReloadBudget, Counted
  <2> QED
    BY <2>5, <2>6 DEF ReloadBudget
<1> QED
  BY <1>1, <1>2

LEMMA CooldownStep ==
    ASSUME SetBackOnly, Cooldown <= Window, IInv, Numbered, Fresh, CooldownHolds, [Next]_vars
    PROVE  CooldownHolds'
<1>0. TypeOK
  BY DEF IInv
<1>1. CASE reloaded' = reloaded
  BY <1>1 DEF CooldownHolds
<1>2. CASE reloaded' # reloaded
  <2>1. task = "charging" /\ reloaded' = reloaded \cup {[n |-> charges, t |-> now]}
    BY <1>2, Start
  <2>2. \A c \in reloaded : c.n \in Int /\ c.n < charges /\ now - c.t >= Cooldown
    BY <1>0, <2>1 DEF TypeOK, Numbered, Fresh
  <2>3. charges \in Int
    BY <1>0 DEF TypeOK
  <2> QED
    BY <2>1, <2>2, <2>3 DEF CooldownHolds
<1> QED
  BY <1>1, <1>2

LEMMA InitBInv == Init => BInv
<1> SUFFICES ASSUME Init PROVE BInv
  OBVIOUS
<1> QED
  BY DEF Init, BInv, Remembered, Remembers, Numbered, Fresh, ReloadBudget, CooldownHolds

LEMMA NextBInv == SetBackOnly /\ IInv /\ BInv /\ [Next]_vars => BInv'
BY RememberedStep, NumberedStep, FreshStep, BudgetStep, CooldownStep DEF BInv

\* With a wall clock that is never put forward a window sees no more than
\* MaxReloads automatic reloads, whatever is restarted or acknowledged.
THEOREM ReloadBudgetHolds == ASSUME SetBackOnly PROVE Spec => []ReloadBudget
<1>1. IInv /\ BInv /\ [Next]_vars => BInv'
  BY NextBInv
<1>2. BInv => ReloadBudget
  BY DEF BInv
<1> QED
  BY <1>1, <1>2, InitBInv, RecoveryInvariant, PTL DEF Spec

\* A cooldown that is no longer than the window is kept.
THEOREM CooldownIsKept ==
    ASSUME SetBackOnly, Cooldown <= Window PROVE Spec => []CooldownHolds
<1>1. IInv /\ BInv /\ [Next]_vars => BInv'
  BY NextBInv
<1>2. BInv => CooldownHolds
  BY DEF BInv
<1> QED
  BY <1>1, <1>2, InitBInv, RecoveryInvariant, PTL DEF Spec
=============================================================================
