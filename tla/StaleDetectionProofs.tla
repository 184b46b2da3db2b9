------------------------ MODULE StaleDetectionProofs ------------------------
(***************************************************************************)
(* The schedule of the probes for every interval, deadline, grace,         *)
(* confirmation and verification that SettingsAssumption allows: neither   *)
(* kind of probe keeps the other from running, and the recovery of a stuck *)
(* consumer is requested in time.                                          *)
(***************************************************************************)
EXTENDS StaleDetection, TLAPS

----------------------------------------------------------------------------
(* The inductive invariant                                                 *)

\* How long the pending probe has been under way.
Underway == Deadline - left

\* Nothing happens to an entry that is not set up, and no probe survives a tick
\* after its deadline.
Alive ==
    /\ ~loaded => pending = "none" /\ \A k \in Kinds : due[k] = Grace
    /\ loaded /\ ticked /\ pending # "none" => left >= 0

\* The next probe of a kind is due an interval after the pending one was started.
Spaced == \A k \in Kinds : pending = k => due[k] >= Interval(k) - Underway

\* A tick that does not start a status probe that is due has started, or leaves
\* alone, a consumer probe.
Passed ==
    due["status"] <= 0 =>
      IF ticked THEN due["consumer"] > 0
                ELSE due["status"] < 0 => due["consumer"] >= 0

\* A status probe that is due waits for one consumer probe, or for a second one
\* that the verification has started, which starts no third one in time.
Late ==
    due["status"] <= 0 =>
      CASE pending = "consumer" ->
             \/ due["status"] >= -Underway
             \/ spacing = Underway /\ due["status"] >= -(Deadline + 1) - Underway
        [] pending = "none" /\ ticked ->
             \/ due["status"] >= -Deadline
             \/ spacing <= Deadline /\ due["status"] >= -(2 * Deadline + 1)
        [] pending = "none" /\ ~ticked ->
             \/ due["status"] >= -(Deadline + 1)
             \/ spacing <= Deadline + 1 /\ due["status"] >= -2 * (Deadline + 1)
        [] OTHER -> TRUE

\* A consumer probe that could start waits for a status probe that was started
\* before it was due, and is the more overdue one ever after.
Held ==
    /\ held > 0 =>
         /\ loaded /\ healthy /\ pending # "consumer" /\ due["consumer"] <= 0
         /\ due["status"] <= 0 => due["consumer"] < due["status"]
    /\ pending = "status" => held <= Underway
    /\ pending = "none" => held <= (IF ticked THEN Deadline ELSE Deadline + 1)

IInv == TypeOK /\ Alive /\ Spaced /\ Passed /\ Late /\ Held

----------------------------------------------------------------------------
(* Numbers                                                                 *)

LEMMA MaxMin ==
    ASSUME NEW a \in Int, NEW b \in Int
    PROVE  /\ Max({a, b}) = (IF a >= b THEN a ELSE b)
           /\ Min({a, b}) = (IF a <= b THEN a ELSE b)
<1>1. Max({a, b}) = (IF a >= b THEN a ELSE b)
  <2> DEFINE x == IF a >= b THEN a ELSE b
  <2>1. x \in {a, b} /\ (\A y \in {a, b} : x >= y)
    OBVIOUS
  <2>2. \A z \in {a, b} : (\A y \in {a, b} : z >= y) => z = x
    BY <2>1
  <2> HIDE DEF x
  <2>3. Max({a, b}) = x
    BY <2>1, <2>2 DEF Max
  <2> QED BY <2>3 DEF x
<1>2. Min({a, b}) = (IF a <= b THEN a ELSE b)
  <2> DEFINE x == IF a <= b THEN a ELSE b
  <2>1. x \in {a, b} /\ (\A y \in {a, b} : x <= y)
    OBVIOUS
  <2>2. \A z \in {a, b} : (\A y \in {a, b} : z <= y) => z = x
    BY <2>1
  <2> HIDE DEF x
  <2>3. Min({a, b}) = x
    BY <2>1, <2>2 DEF Min
  <2> QED BY <2>3 DEF x
<1> QED BY <1>1, <1>2

LEMMA Settings ==
    /\ StatusInterval \in Nat /\ ConsumerInterval \in Nat /\ Deadline \in Nat
    /\ Grace \in Nat /\ Confirm \in Nat /\ Spacing \in Nat
    /\ Deadline > 0 /\ Grace > 0 /\ Confirm > 0 /\ Spacing > Deadline + 1
    /\ StatusInterval > 2 * Deadline /\ ConsumerInterval > 2 * Deadline
    /\ VerifyTime \in Nat /\ MaxLate \in Nat /\ MaxLate > 2 * (Deadline + 1)
BY SettingsAssumption

Longest == Max({Grace, Confirm, StatusInterval, ConsumerInterval})

LEMMA LongestBounds ==
    /\ Longest \in Nat
    /\ Grace <= Longest /\ Confirm <= Longest
    /\ StatusInterval <= Longest /\ ConsumerInterval <= Longest
<1> DEFINE S == {Grace, Confirm, StatusInterval, ConsumerInterval}
<1>1. S \subseteq Nat
  BY Settings
<1>2. \E x \in S : \A y \in S : x >= y
  BY Settings
<1>3. Longest \in S /\ (\A y \in S : Longest >= y)
  <2> HIDE DEF S
  <2>1. Longest = Max(S)
    BY DEF Longest, S
  <2> QED BY <1>2, <2>1 DEF Max
<1> QED BY <1>1, <1>3

\* What the schedule is made of.
LEMMA Schedule ==
    ASSUME TypeOK
    PROVE  /\ due \in [Kinds -> -MaxLate..Longest]
           /\ due["status"] \in Int /\ due["consumer"] \in Int
           /\ due["status"] >= -MaxLate /\ due["consumer"] >= -MaxLate
           /\ left \in Int /\ left >= -1 /\ left <= Deadline
           /\ held \in Nat /\ spacing \in Nat /\ spacing <= Spacing
           /\ pending \in Kinds \union {"none"}
<1>1. due \in [Kinds -> -MaxLate..Longest] /\ left \in -1..Deadline /\ spacing \in 0..Spacing
      /\ pending \in Kinds \union {"none"} /\ held \in Nat
  BY DEF TypeOK, Longest
<1>2. due["status"] \in -MaxLate..Longest /\ due["consumer"] \in -MaxLate..Longest
  BY <1>1 DEF Kinds
<1> QED BY <1>1, <1>2

\* The times a probe is due are in bounds when they are set.
LEMMA Dated ==
    ASSUME TypeOK, NEW d \in [Kinds -> -MaxLate..Longest], NEW k \in Kinds,
           NEW t \in {Grace, Confirm, Interval(k)}
    PROVE  [d EXCEPT ![k] = t] \in [Kinds -> -MaxLate..Longest]
<1>1. t \in -MaxLate..Longest
  BY LongestBounds, Settings DEF Interval
<1> QED BY <1>1

----------------------------------------------------------------------------
(* Results of probes                                                       *)

\* Only a proof that does not suffice brings a probe forward, a consumer probe.
LEMMA BroughtForward ==
    ASSUME TypeOK, NEW o
    PROVE  /\ DueAfter(o) \in [Kinds -> -MaxLate..Longest]
           /\ DueAfter(o)["status"] = due["status"]
           /\ DueAfter(o)["consumer"] \in {due["consumer"], Confirm}
           /\ o # "consumer_stale" => DueAfter(o) = due
<1>1. due \in [Kinds -> -MaxLate..Longest]
  BY Schedule
<1>2. CASE Proof(o) /\ ~Confirmed(o)
  <2>1. DueAfter(o) = [due EXCEPT !["consumer"] = Confirm] /\ o = "consumer_stale"
    BY <1>2 DEF DueAfter, Proof
  <2> QED BY <1>1, <2>1, Dated DEF Kinds
<1>3. CASE ~(Proof(o) /\ ~Confirmed(o))
  BY <1>1, <1>3 DEF DueAfter
<1> QED BY <1>2, <1>3

\* What a result does to the streak and to what is known.
Noted ==
    /\ streak' \in {0, 1} /\ age' \in 0..MaxGap + 1
    /\ recovery' \in {"none", "reloading", "verifying"}
    /\ lastOk' \in BOOLEAN /\ busy' \in BOOLEAN /\ calm' \in Nat

LEMMA NoticeKeeps ==
    ASSUME TypeOK, NEW o, Notice(o)
    PROVE  Noted
<1>1. streak \in {0, 1} /\ age \in 0..MaxGap + 1 /\ calm \in Nat
      /\ recovery \in {"none", "reloading", "verifying"} /\ lastOk \in BOOLEAN /\ busy \in BOOLEAN
  BY DEF TypeOK
<1>2. streak' \in {0, 1}
  BY <1>1 DEF Notice
<1>3. age' \in 0..MaxGap + 1
  BY <1>1, Settings DEF Notice, MaxGap
<1>4. recovery' \in {"none", "reloading", "verifying"}
  BY <1>1 DEF Notice, Requests
<1>5. lastOk' \in BOOLEAN
  BY DEF Notice
<1>6. busy' \in BOOLEAN /\ calm' \in Nat
  <2> DEFINE c == Confirmed(o) \/ o \in {"ok", "other"} \/ (o = "bridge_busy" /\ busy)
  <2>1. IF c THEN calm' = 0 /\ busy' = FALSE
             ELSE calm' = calm /\ busy' = (busy \/ o = "bridge_busy")
    BY DEF Notice
  <2> HIDE DEF c
  <2>2. calm' \in Nat
    BY <1>1, <2>1
  <2>3. busy' \in BOOLEAN
    BY <2>1
  <2> QED BY <2>2, <2>3
<1> QED BY <1>2, <1>3, <1>4, <1>5, <1>6 DEF Noted

----------------------------------------------------------------------------
(* The observer                                                            *)

\* The end of a probe leaves the schedule as it is, but for the time a consumer
\* probe is brought forward to.
LEMMA ProbeEndsKeeps ==
    ASSUME IInv, ProbeEnds
    PROVE  IInv'
<1>1. PICK o \in Answer \union Expiry : Notice(o) /\ NoStart(DueAfter(o))
  BY DEF ProbeEnds
<1>2. /\ loaded /\ pending # "none"
      /\ UNCHANGED <<loaded, healthy, stuck, verify, spacing, ticked, polled>>
  BY DEF ProbeEnds, Answer, Expiry, entry
<1>3. o = "consumer_stale" => pending = "consumer"
  <2>1. pending \in {"none", "status", "consumer"}
    BY Schedule DEF IInv, Kinds
  <2> QED BY <2>1 DEF Answer, Expiry
<1>4. pending' = "none" /\ left' = 0 /\ due' = DueAfter(o) /\ held' = held
  BY <1>1 DEF NoStart
<1>5. /\ due' \in [Kinds -> -MaxLate..Longest] /\ due'["status"] = due["status"]
      /\ due'["consumer"] \in {due["consumer"], Confirm}
      /\ pending # "consumer" => due'["consumer"] = due["consumer"]
  BY <1>3, <1>4, BroughtForward DEF IInv
<1>6. TypeOK'
  <2>1. Noted
    BY <1>1, NoticeKeeps DEF IInv
  <2>2. left' \in -1..Deadline
    BY <1>4, Settings
  <2>3. {lastOk', loaded', healthy', stuck', ticked', polled', busy'} \subseteq BOOLEAN
    BY <1>2, <2>1 DEF IInv, TypeOK, Noted
  <2> QED BY <1>2, <1>4, <1>5, <2>1, <2>2, <2>3 DEF IInv, TypeOK, Noted, Longest
<1>7. Alive' /\ Spaced'
  BY <1>2, <1>4 DEF Alive, Spaced, Kinds
<1>8. /\ due["status"] \in Int /\ due["consumer"] \in Int /\ left \in Int /\ left >= -1
      /\ left <= Deadline /\ pending \in Kinds /\ spacing \in Nat /\ held \in Nat
      /\ ticked => left >= 0
      /\ pending = "status" => due["status"] > 0
      /\ pending = "consumer" => due["consumer"] > 0 /\ held = 0
  <2>1. /\ due["status"] \in Int /\ due["consumer"] \in Int /\ left \in Int /\ left >= -1
        /\ left <= Deadline /\ pending \in Kinds /\ spacing \in Nat /\ held \in Nat
    BY <1>2, Schedule DEF IInv
  <2>2. ticked => left >= 0
    BY <1>2 DEF IInv, Alive
  <2>3. pending = "status" => due["status"] > 0
    BY <2>1, Settings DEF IInv, Spaced, Underway, Interval
  <2>4. pending = "consumer" => due["consumer"] > 0 /\ held = 0
    BY <2>1, Settings DEF IInv, Spaced, Underway, Interval, Held
  <2> QED BY <2>1, <2>2, <2>3, <2>4
<1>9. Passed'
  BY <1>2, <1>5, <1>8, Settings DEF IInv, Passed
<1>10. Late'
  <2>1. CASE pending = "status"
    BY <1>5, <1>8, <2>1 DEF Late
  <2>2. CASE pending = "consumer"
    <3>1. due["status"] <= 0 =>
            \/ due["status"] >= -Underway
            \/ spacing = Underway /\ due["status"] >= -(Deadline + 1) - Underway
      BY <2>2 DEF IInv, Late
    <3> QED BY <1>2, <1>4, <1>5, <1>8, <3>1, Settings DEF Late, Underway
  <2> QED BY <1>8, <2>1, <2>2 DEF Kinds
<1>11. Held'
  <2>1. CASE pending = "status"
    <3>1. held <= Underway
      BY <2>1 DEF IInv, Held
    <3> QED BY <1>2, <1>4, <1>5, <1>8, <2>1, <3>1, Settings DEF IInv, Held, Underway
  <2>2. CASE pending = "consumer"
    BY <1>4, <1>8, <2>2, Settings DEF Held
  <2> QED BY <1>8, <2>1, <2>2 DEF Kinds
<1> QED BY <1>6, <1>7, <1>9, <1>10, <1>11 DEF IInv

\* A tick starts no probe while there is a pending one.
LEMMA IdleTickKeeps ==
    ASSUME IInv, Tick, pending # "none", left >= 0
    PROVE  IInv'
<1>1. /\ loaded /\ ~ticked /\ ticked' = TRUE
      /\ UNCHANGED <<due, pending, left, lastOk, streak, age, recovery, held, calm, busy>>
      /\ UNCHANGED <<loaded, healthy, stuck, verify, spacing, polled>>
  BY DEF Tick, observer, fault, entry
<1>2. TypeOK'
  BY <1>1 DEF IInv, TypeOK
<1>3. Alive' /\ Spaced'
  BY <1>1 DEF IInv, Alive, Spaced, Underway
<1>4. /\ due["status"] \in Int /\ due["consumer"] \in Int /\ left \in Int /\ left <= Deadline
      /\ pending \in Kinds
  BY Schedule DEF IInv
<1>5. Passed'
  <2>1. pending = "status" => due["status"] > 0
    BY <1>4, Settings DEF IInv, Spaced, Underway, Interval
  <2>2. pending = "consumer" => due["consumer"] > 0
    BY <1>4, Settings DEF IInv, Spaced, Underway, Interval
  <2> QED BY <1>1, <1>4, <2>1, <2>2 DEF Passed, Kinds
<1>6. Late' /\ Held'
  BY <1>1 DEF IInv, Late, Held, Underway
<1> QED BY <1>2, <1>3, <1>5, <1>6 DEF IInv

\* With none under way it starts the probe that is the most overdue.
LEMMA TickKeeps ==
    ASSUME IInv, Tick, ~(pending # "none" /\ left >= 0)
    PROVE  IInv'
<1>1. /\ loaded /\ ~ticked /\ ticked' = TRUE
      /\ UNCHANGED <<loaded, healthy, stuck, verify, spacing, polled>>
  BY DEF Tick, entry
<1>2. PICK o : /\ Notice(o) /\ StartDue(DueAfter(o))
               /\ o = "consumer_stale" => pending = "consumer"
  <2>1. PICK o \in IF pending = "none" THEN {"none"} ELSE Expiry :
             Notice(o) /\ StartDue(DueAfter(o))
    BY DEF Tick
  <2>2. o = "consumer_stale" => pending = "consumer"
    <3>1. pending \in {"none", "status", "consumer"}
      BY Schedule DEF IInv, Kinds
    <3> QED BY <2>1, <3>1 DEF Expiry
  <2> QED BY <2>1, <2>2
<1> DEFINE d == DueAfter(o)
<1>3. /\ d \in [Kinds -> -MaxLate..Longest] /\ d["status"] = due["status"]
      /\ d["consumer"] \in {due["consumer"], Confirm}
      /\ pending # "consumer" => d["consumer"] = due["consumer"]
  BY <1>2, BroughtForward DEF IInv
<1> HIDE DEF d
<1>4. Noted /\ StartDue(d)
  BY <1>2, NoticeKeeps DEF IInv, d
<1>5. /\ due["status"] \in Int /\ due["consumer"] \in Int /\ left \in Int /\ left >= -1
      /\ left <= Deadline /\ spacing \in Nat /\ held \in Nat
      /\ d["status"] \in Int /\ d["consumer"] \in Int
  BY <1>3, Schedule DEF IInv
<1>6. /\ pending = "status" => due["status"] > 0
      /\ pending = "consumer" => due["consumer"] > 0 /\ d["consumer"] > 0 /\ held = 0
  <2>1. pending = "status" => due["status"] > 0
    BY <1>5, Settings DEF IInv, Spaced, Underway, Interval, Kinds
  <2>2. pending = "consumer" => due["consumer"] > 0 /\ held = 0
    BY <1>5, Settings DEF IInv, Spaced, Underway, Interval, Kinds, Held
  <2> QED BY <1>3, <2>1, <2>2, Settings
\* A status probe that is overdue goes first.
<1>7. d["status"] < 0 => d["consumer"] >= 0
  BY <1>3, <1>5, Settings DEF IInv, Passed
\* And so does a consumer probe that could have started before.
<1>8. held > 0 => /\ healthy /\ pending # "consumer" /\ d["consumer"] <= 0
                  /\ d["status"] <= 0 => d["consumer"] < d["status"]
  BY <1>3 DEF IInv, Held
<1>9. \/ /\ Start("status", d) /\ d["status"] <= 0 /\ held = 0
      \/ /\ Start("consumer", d) /\ d["status"] >= 0
      \/ /\ NoStart(d) /\ d["status"] > 0 /\ held = 0
  <2>1. CASE Runnable(d) = {}
    <3>1. NoStart(d) /\ "status" \notin Runnable(d) /\ "consumer" \notin Runnable(d)
      BY <1>4, <2>1 DEF StartDue
    <3> QED BY <1>5, <1>8, <3>1 DEF Runnable, Kinds
  <2>2. CASE Runnable(d) # {} /\ MostOverdue(d) = "status"
    <3>1. Start("status", d)
      BY <1>4, <2>2 DEF StartDue
    <3>2. d["status"] <= 0
      BY <2>2 DEF MostOverdue, Runnable
    <3>3. ~(held > 0)
      <4> SUFFICES ASSUME held > 0 PROVE FALSE
        OBVIOUS
      <4>1. healthy /\ d["consumer"] <= 0 /\ d["consumer"] < d["status"]
        BY <1>8, <3>2
      <4>2. Runnable(d) = Kinds
        BY <3>2, <4>1 DEF Runnable, Kinds
      <4>3. MostOverdue(d) = "consumer"
        BY <1>5, <4>1, <4>2 DEF MostOverdue
      <4> QED BY <2>2, <4>3
    <3> QED BY <1>5, <3>1, <3>2, <3>3
  <2>3. CASE Runnable(d) # {} /\ MostOverdue(d) # "status"
    <3>1. Start("consumer", d)
      BY <1>4, <2>3 DEF StartDue, MostOverdue
    <3>2. \/ d["status"] > d["consumer"]
          \/ "status" \notin Runnable(d)
      BY <2>3 DEF MostOverdue
    <3>3. d["status"] >= 0
      BY <1>5, <1>7, <3>2 DEF Runnable, Kinds
    <3> QED BY <3>1, <3>3
  <2> QED BY <2>1, <2>2, <2>3
<1>10. TypeOK'
  <2>1. /\ due' \in [Kinds -> -MaxLate..Longest] /\ pending' \in Kinds \union {"none"}
        /\ left' \in -1..Deadline /\ held' \in Nat
    BY <1>3, <1>5, <1>9, Dated, Settings DEF IInv, Start, NoStart, Kinds
  <2>2. {lastOk', loaded', healthy', stuck', ticked', polled', busy'} \subseteq BOOLEAN
    BY <1>1, <1>4 DEF IInv, TypeOK, Noted
  <2> QED BY <1>1, <1>4, <2>1, <2>2 DEF IInv, TypeOK, Noted, Longest
<1>11. CASE Start("status", d) /\ d["status"] <= 0 /\ held = 0
  <2>1. /\ pending' = "status" /\ left' = Deadline /\ held' = 0
        /\ due'["status"] = StatusInterval
    BY <1>3, <1>11 DEF Start, Interval, Kinds
  <2> QED
    BY <1>1, <1>10, <2>1, Settings DEF IInv, Alive, Spaced, Underway, Passed, Late,
       Held, Interval, Kinds
<1>12. CASE Start("consumer", d) /\ d["status"] >= 0
  <2>1. /\ pending' = "consumer" /\ left' = Deadline /\ held' = 0
        /\ due'["status"] = d["status"] /\ due'["consumer"] = ConsumerInterval
    BY <1>3, <1>12 DEF Start, Interval, Kinds
  <2>2. Alive' /\ Spaced' /\ Passed'
    BY <1>1, <2>1, Settings DEF Alive, Spaced, Underway, Passed, Interval
  <2>3. Late' /\ Held'
    BY <1>5, <1>12, <2>1, Settings DEF Late, Held, Underway
  <2> QED BY <1>10, <2>2, <2>3 DEF IInv
<1>13. CASE NoStart(d) /\ d["status"] > 0 /\ held = 0
  <2>1. pending' = "none" /\ left' = 0 /\ held' = 0 /\ due'["status"] > 0
    BY <1>13 DEF NoStart
  <2>2. Alive' /\ Spaced'
    BY <1>1, <2>1 DEF Alive, Spaced, Kinds
  <2>3. Passed' /\ Late' /\ Held'
    BY <1>3, <1>5, <1>13, <2>1, Settings DEF Passed, Late, Held, NoStart
  <2> QED BY <1>10, <2>2, <2>3 DEF IInv
<1> QED BY <1>9, <1>11, <1>12, <1>13

----------------------------------------------------------------------------
(* The recovery                                                            *)

\* A new observer waits for the grace to pass.
LEMMA NewKeeps ==
    ASSUME TypeOK', NewObserver
    PROVE  IInv'
<1>1. /\ due' = [k \in Kinds |-> Grace] /\ pending' = "none" /\ left' = 0 /\ ticked' = TRUE
      /\ held' = 0
  BY DEF NewObserver
<1>2. due'["status"] = Grace /\ due'["consumer"] = Grace /\ \A k \in Kinds : due'[k] = Grace
  BY <1>1 DEF Kinds
<1>3. Alive' /\ Spaced'
  BY <1>1 DEF Alive, Spaced, Kinds
<1>4. Passed' /\ Late' /\ Held'
  BY <1>1, <1>2, Settings DEF Passed, Late, Held
<1> QED BY <1>3, <1>4 DEF IInv

LEMMA NewTyped ==
    ASSUME NewObserver
    PROVE  /\ due' \in [Kinds -> -MaxLate..Longest] /\ pending' = "none"
           /\ left' \in -1..Deadline /\ held' \in Nat /\ calm' \in Nat
           /\ {lastOk', healthy', stuck', ticked', busy'} \subseteq BOOLEAN
<1>1. due' \in [Kinds -> -MaxLate..Longest]
  BY Settings, LongestBounds DEF NewObserver
<1>2. {lastOk', healthy', stuck', ticked', busy'} \subseteq BOOLEAN
  BY DEF NewObserver
<1> QED BY <1>1, <1>2, Settings DEF NewObserver

LEMMA ReloadKeeps ==
    ASSUME IInv, Reload \/ SetUp
    PROVE  IInv'
<1>1. NewObserver
  BY DEF Reload, SetUp
<1>2. /\ loaded' \in BOOLEAN /\ polled' \in BOOLEAN /\ streak' \in {0, 1}
      /\ age' \in 0..MaxGap + 1 /\ recovery' \in {"none", "reloading", "verifying"}
      /\ verify' \in 0..VerifyTime /\ spacing' \in 0..Spacing
  <2>1. /\ loaded \in BOOLEAN /\ polled \in BOOLEAN /\ streak \in {0, 1}
        /\ age \in 0..MaxGap + 1 /\ recovery \in {"none", "reloading", "verifying"}
        /\ verify \in 0..VerifyTime /\ spacing \in 0..Spacing
    BY DEF IInv, TypeOK
  <2>2. CASE Reload
    <3>1. VerifyTime \in 0..VerifyTime /\ Spacing \in 0..Spacing
      BY Settings
    <3> QED BY <2>1, <2>2, <3>1 DEF Reload
  <2>3. CASE SetUp
    BY <2>1, <2>3 DEF SetUp, manager
  <2> QED BY <2>2, <2>3
<1>3. TypeOK'
  BY <1>1, <1>2, NewTyped DEF TypeOK, Longest
<1> QED BY <1>1, <1>3, NewKeeps

\* A verification starts a consumer probe when none of its own can be pending
\* or recent.
LEMMA PollKeeps ==
    ASSUME IInv, Poll
    PROVE  IInv'
<1>1. /\ polled' = TRUE
      /\ UNCHANGED <<loaded, healthy, stuck, age, verify, ticked>>
  BY DEF Poll, entry
<1>2. /\ recovery' \in {"none", "reloading", "verifying"} /\ streak' \in {0, 1}
      /\ calm' \in Nat /\ busy' \in BOOLEAN /\ lastOk' \in BOOLEAN
  <2>1. /\ recovery \in {"none", "reloading", "verifying"} /\ streak \in {0, 1}
        /\ calm \in Nat /\ busy \in BOOLEAN /\ lastOk \in BOOLEAN
    BY DEF IInv, TypeOK
  <2>2. recovery' \in {recovery, "none"} /\ streak' \in {streak, 0} /\ calm' \in {calm, 0}
    BY DEF Poll, observer, fault
  <2>3. lastOk' = lastOk
    BY DEF Poll, observer
  <2>4. busy' = busy \/ busy' = FALSE
    BY DEF Poll, fault
  <2>5. busy' \in BOOLEAN
    BY <2>1, <2>4
  <2>6. calm' \in Nat
    BY <2>1, <2>2
  <2> QED BY <2>1, <2>2, <2>3, <2>5, <2>6
<1>3. \/ UNCHANGED <<due, pending, left, spacing, held>>
      \/ /\ Start("consumer", due) /\ spacing' = 0
         /\ loaded /\ pending = "none" /\ spacing >= Spacing
  BY DEF Poll, observer
<1>4. TypeOK'
  <2>1. /\ due' \in [Kinds -> -MaxLate..Longest] /\ pending' \in Kinds \union {"none"}
        /\ left' \in -1..Deadline /\ held' \in Nat /\ spacing' \in 0..Spacing
    <3>1. CASE UNCHANGED <<due, pending, left, spacing, held>>
      BY <3>1, Schedule DEF IInv
    <3>2. CASE Start("consumer", due) /\ spacing' = 0
      BY <3>2, Schedule, Dated, Settings DEF IInv, Start, Kinds
    <3> QED BY <1>3, <3>1, <3>2
  <2>2. {lastOk', loaded', healthy', stuck', ticked', polled', busy'} \subseteq BOOLEAN
    BY <1>1, <1>2 DEF IInv, TypeOK
  <2> QED BY <1>1, <1>2, <2>1, <2>2 DEF IInv, TypeOK, Longest
<1>5. CASE UNCHANGED <<due, pending, left, spacing, held>>
  BY <1>1, <1>4, <1>5 DEF IInv, Alive, Spaced, Passed, Late, Held, Underway
<1>6. CASE /\ Start("consumer", due) /\ spacing' = 0
           /\ loaded /\ pending = "none" /\ spacing >= Spacing
  <2>1. /\ due \in [Kinds -> -MaxLate..Longest] /\ due["status"] \in Int
        /\ spacing \in Nat
    BY Schedule DEF IInv
  <2>2. /\ pending' = "consumer" /\ left' = Deadline /\ held' = 0
        /\ due'["status"] = due["status"] /\ due'["consumer"] = ConsumerInterval
    BY <1>6, <2>1 DEF Start, Interval, Kinds
  <2>3. due["status"] <= 0 => due["status"] >= -(Deadline + 1)
    BY <1>6, <2>1, Settings DEF IInv, Late
  <2>4. Alive' /\ Spaced' /\ Passed'
    BY <1>1, <1>6, <2>2, Settings DEF Alive, Spaced, Underway, Passed, Interval
  <2>5. Late' /\ Held'
    BY <1>6, <2>1, <2>2, <2>3, Settings DEF Late, Held, Underway
  <2> QED BY <1>4, <2>4, <2>5 DEF IInv
<1> QED BY <1>3, <1>5, <1>6

LEMMA AcknowledgeKeeps ==
    ASSUME IInv, Acknowledge
    PROVE  IInv'
<1>1. /\ streak' = 0 /\ calm' = 0 /\ busy' = FALSE
      /\ UNCHANGED <<due, pending, left, lastOk, loaded, healthy, stuck, age, recovery, verify>>
      /\ UNCHANGED <<spacing, ticked, polled, held>>
  BY DEF Acknowledge, observer, entry, clock
<1>2. TypeOK'
  <2>1. {lastOk', loaded', healthy', stuck', ticked', polled', busy'} \subseteq BOOLEAN
    BY <1>1 DEF IInv, TypeOK
  <2> QED BY <1>1, <2>1 DEF IInv, TypeOK
<1> QED BY <1>1, <1>2 DEF IInv, Alive, Spaced, Passed, Late, Held, Underway

----------------------------------------------------------------------------
(* The bridge, the consumer and time                                       *)

LEMMA ChangeKeeps ==
    ASSUME IInv, Change
    PROVE  IInv'
<1>1. /\ held' = 0 /\ calm' = 0 /\ busy' = FALSE
      /\ UNCHANGED <<due, pending, left, lastOk, loaded, streak, age, recovery, verify>>
      /\ UNCHANGED <<spacing, ticked, polled>>
  BY DEF Change, observer, manager
<1>2. TypeOK'
  <2>1. healthy' \in BOOLEAN /\ stuck' \in BOOLEAN
    BY DEF Change, IInv, TypeOK
  <2>2. {lastOk', loaded', healthy', stuck', ticked', polled', busy'} \subseteq BOOLEAN
    BY <1>1, <2>1 DEF IInv, TypeOK
  <2> QED BY <1>1, <2>2 DEF IInv, TypeOK
<1>3. Alive' /\ Spaced' /\ Passed' /\ Late'
  BY <1>1 DEF IInv, Alive, Spaced, Passed, Late, Underway
<1>4. Held'
  BY <1>1, Schedule, Settings DEF IInv, Held, Underway
<1> QED BY <1>2, <1>3, <1>4 DEF IInv

LEMMA TimePassesKeeps ==
    ASSUME IInv, TimePasses
    PROVE  IInv'
<1>1. /\ loaded => ticked
      /\ ticked' = FALSE /\ polled' = FALSE
      /\ due' = IF loaded THEN [k \in Kinds |-> Max({due[k] - 1, -MaxLate})] ELSE due
      /\ left' = IF pending = "none" THEN 0 ELSE Max({left - 1, -1})
      /\ age' = IF streak = 0 THEN 0 ELSE Min({age + 1, MaxGap + 1})
      /\ verify' = IF recovery = "verifying" THEN Max({verify - 1, 0}) ELSE 0
      /\ spacing' = Min({spacing + 1, Spacing})
      /\ held' = IF loaded /\ healthy /\ due["consumer"] <= 0 THEN held + 1 ELSE 0
      /\ calm' = IF loaded /\ healthy /\ stuck THEN calm + 1 ELSE 0
      /\ UNCHANGED <<pending, lastOk, loaded, healthy, stuck, streak, recovery, busy>>
  BY DEF TimePasses, entry
<1>2. /\ due \in [Kinds -> -MaxLate..Longest]
      /\ due["status"] \in Int /\ due["consumer"] \in Int
      /\ due["status"] >= -MaxLate /\ due["consumer"] >= -MaxLate
      /\ left \in Int /\ left >= -1 /\ left <= Deadline
      /\ held \in Nat /\ spacing \in Nat /\ spacing <= Spacing
      /\ pending \in Kinds \union {"none"}
  BY Schedule DEF IInv
<1>3. ASSUME loaded
      PROVE  /\ due'["status"] =
                  (IF due["status"] - 1 >= -MaxLate THEN due["status"] - 1 ELSE -MaxLate)
             /\ due'["consumer"] =
                  (IF due["consumer"] - 1 >= -MaxLate THEN due["consumer"] - 1 ELSE -MaxLate)
  <2>1. /\ due'["status"] = Max({due["status"] - 1, -MaxLate})
        /\ due'["consumer"] = Max({due["consumer"] - 1, -MaxLate})
    BY <1>1, <1>3 DEF Kinds
  <2>2. due["status"] - 1 \in Int /\ due["consumer"] - 1 \in Int /\ -MaxLate \in Int
    BY <1>2, Settings
  <2> QED BY <2>1, <2>2, MaxMin
<1>4. pending # "none" => loaded /\ ticked /\ left >= 0 /\ left' = left - 1
  <2>1. pending # "none" => loaded /\ ticked /\ left >= 0
    BY <1>1 DEF IInv, Alive
  <2>2. left - 1 \in Int /\ -1 \in Int
    BY <1>2
  <2>3. Max({left - 1, -1}) = (IF left - 1 >= -1 THEN left - 1 ELSE -1)
    BY <2>2, MaxMin
  <2> QED BY <1>1, <1>2, <2>1, <2>3
<1>5. spacing' = IF spacing + 1 <= Spacing THEN spacing + 1 ELSE Spacing
  <2>1. spacing + 1 \in Int /\ Spacing \in Int
    BY <1>2, Settings
  <2> QED BY <1>1, <2>1, MaxMin
<1>6. TypeOK'
  <2>1. due' \in [Kinds -> -MaxLate..Longest]
    <3>1. CASE loaded
      <4>1. ASSUME NEW k \in Kinds PROVE Max({due[k] - 1, -MaxLate}) \in -MaxLate..Longest
        <5>1. due[k] \in -MaxLate..Longest
          BY <1>2
        <5>2. due[k] - 1 \in Int /\ -MaxLate \in Int
          BY <5>1, Settings
        <5> QED BY <5>1, <5>2, MaxMin, Settings, LongestBounds
      <4> QED BY <1>1, <3>1, <4>1
    <3>2. CASE ~loaded
      BY <1>1, <1>2, <3>2
    <3> QED BY <3>1, <3>2
  <2>2. left' \in -1..Deadline /\ spacing' \in 0..Spacing
    BY <1>1, <1>2, <1>4, <1>5, Settings
  <2>3. age' \in 0..MaxGap + 1
    <3>1. age \in 0..MaxGap + 1 /\ MaxGap \in Nat
      BY Settings DEF IInv, TypeOK, MaxGap
    <3>2. age + 1 \in Int /\ MaxGap + 1 \in Int
      BY <3>1
    <3>3. Min({age + 1, MaxGap + 1}) = (IF age + 1 <= MaxGap + 1 THEN age + 1 ELSE MaxGap + 1)
      BY <3>2, MaxMin
    <3> QED BY <1>1, <3>1, <3>3
  <2>4. verify' \in 0..VerifyTime
    <3>1. verify \in 0..VerifyTime /\ verify - 1 \in Int
      BY DEF IInv, TypeOK
    <3>2. Max({verify - 1, 0}) = (IF verify - 1 >= 0 THEN verify - 1 ELSE 0)
      BY <3>1, MaxMin
    <3> QED BY <1>1, <3>1, <3>2, Settings
  <2>5. held' \in Nat /\ calm' \in Nat
    BY <1>1 DEF IInv, TypeOK
  <2>6. {lastOk', loaded', healthy', stuck', ticked', polled', busy'} \subseteq BOOLEAN
    BY <1>1 DEF IInv, TypeOK
  <2> QED BY <1>1, <2>1, <2>2, <2>3, <2>4, <2>5, <2>6 DEF IInv, TypeOK, Longest
<1>7. CASE ~loaded
  <2>1. pending' = "none" /\ due' = due /\ held' = 0 /\ ~loaded'
        /\ \A k \in Kinds : due[k] = Grace
    BY <1>1, <1>7 DEF IInv, Alive
  <2> QED
    BY <1>1, <1>6, <2>1, Settings DEF IInv, Alive, Spaced, Passed, Late, Held, Kinds
<1>8. CASE loaded
  \* A status probe that is due was passed over for a consumer probe.
  <2>1. ticked /\ (due["status"] <= 0 => due["consumer"] > 0)
    BY <1>1, <1>8 DEF IInv, Passed
  <2>2. /\ pending = "status" => due["status"] >= StatusInterval - (Deadline - left)
        /\ pending = "consumer" => due["consumer"] >= ConsumerInterval - (Deadline - left)
    BY DEF IInv, Spaced, Underway, Interval, Kinds
  <2>3. Alive'
    BY <1>1, <1>8 DEF Alive
  <2>4. Spaced'
    <3>1. /\ pending' = "status" => due'["status"] >= StatusInterval - (Deadline - left')
          /\ pending' = "consumer" => due'["consumer"] >= ConsumerInterval - (Deadline - left')
      BY <1>1, <1>2, <1>3, <1>4, <1>8, <2>2, Settings
    <3> QED BY <3>1 DEF Spaced, Underway, Interval, Kinds
  <2>5. Passed'
    BY <1>1, <1>2, <1>3, <1>8, <2>1, Settings DEF Passed
  <2>6. Late'
    <3> SUFFICES ASSUME due'["status"] <= 0 PROVE Late'
      BY DEF Late
    <3>1. CASE pending = "consumer"
      <4>1. /\ pending' = "consumer" /\ left' = left - 1 /\ left >= 0
            /\ due'["status"] >= due["status"] - 1
        BY <1>1, <1>2, <1>3, <1>4, <1>8, <3>1, Settings
      <4>2. CASE due["status"] <= 0
        <5>1. \/ due["status"] >= -(Deadline - left)
              \/ /\ spacing = Deadline - left
                 /\ due["status"] >= -(Deadline + 1) - (Deadline - left)
          BY <3>1, <4>2 DEF IInv, Late, Underway
        <5>2. \/ due'["status"] >= -(Deadline - left')
              \/ /\ spacing' = Deadline - left'
                 /\ due'["status"] >= -(Deadline + 1) - (Deadline - left')
          BY <1>2, <1>5, <4>1, <5>1, <1>3, <1>8, Settings
        <5> QED BY <4>1, <5>2 DEF Late, Underway
      <4>3. CASE due["status"] > 0
        <5>1. due'["status"] >= -(Deadline - left')
          BY <1>2, <1>3, <1>8, <4>1, <4>3, Settings
        <5> QED BY <4>1, <5>1 DEF Late, Underway
      <4> QED BY <1>2, <4>2, <4>3
    <3>2. CASE pending = "none"
      <4>1. pending' = "none" /\ ~ticked' /\ due'["status"] >= due["status"] - 1
        BY <1>1, <1>2, <1>3, <1>8, <3>2, Settings
      <4>2. due["status"] <= 0 =>
              \/ due["status"] >= -Deadline
              \/ spacing <= Deadline /\ due["status"] >= -(2 * Deadline + 1)
        BY <2>1, <3>2 DEF IInv, Late
      <4>3. \/ due'["status"] >= -(Deadline + 1)
            \/ spacing' <= Deadline + 1 /\ due'["status"] >= -2 * (Deadline + 1)
        BY <1>2, <1>3, <1>5, <1>8, <4>1, <4>2, Settings
      <4> QED BY <4>1, <4>3 DEF Late
    <3>3. CASE pending = "status"
      BY <1>1, <3>3 DEF Late
    <3> QED BY <1>2, <3>1, <3>2, <3>3 DEF Kinds
  <2>7. Held'
    <3>1. held' > 0 =>
            /\ loaded' /\ healthy' /\ pending' # "consumer" /\ due'["consumer"] <= 0
            /\ due'["status"] <= 0 => due'["consumer"] < due'["status"]
      <4> SUFFICES ASSUME held' > 0
                   PROVE  /\ loaded' /\ healthy' /\ pending' # "consumer"
                          /\ due'["consumer"] <= 0
                          /\ due'["status"] <= 0 => due'["consumer"] < due'["status"]
        OBVIOUS
      <4>1. healthy /\ due["consumer"] <= 0
        BY <1>1
      <4>2. pending # "consumer"
        BY <1>2, <2>2, <4>1, Settings
      <4>3. due["status"] > 0
        BY <1>2, <2>1, <4>1
      <4> QED BY <1>1, <1>2, <1>3, <1>8, <4>1, <4>2, <4>3, Settings
    <3>2. pending' = "status" => held' <= Deadline - left'
      <4>1. pending = "status" => held <= Deadline - left
        BY DEF IInv, Held, Underway
      <4> QED BY <1>1, <1>2, <1>4, <4>1, Settings
    <3>3. pending' = "none" => held' <= Deadline + 1
      <4>1. pending = "none" => held <= Deadline
        BY <2>1 DEF IInv, Held
      <4> QED BY <1>1, <1>2, <4>1, Settings
    <3> QED BY <1>1, <3>1, <3>2, <3>3 DEF Held, Underway
  <2> QED BY <1>6, <2>3, <2>4, <2>5, <2>6, <2>7 DEF IInv
<1> QED BY <1>7, <1>8

----------------------------------------------------------------------------
(* The invariant                                                           *)

LEMMA InitIInv == Init => IInv
<1> SUFFICES ASSUME Init PROVE IInv
  OBVIOUS
<1>1. /\ due = [k \in Kinds |-> Grace] /\ pending = "none" /\ left = 0 /\ held = 0
      /\ loaded = TRUE /\ ticked = FALSE
  BY DEF Init
<1>2. due["status"] = Grace /\ due["consumer"] = Grace
  BY <1>1 DEF Kinds
<1>3. TypeOK
  <2>1. due \in [Kinds -> -MaxLate..Longest]
    BY <1>1, Settings, LongestBounds
  <2>2. {lastOk, loaded, healthy, stuck, ticked, polled, busy} \subseteq BOOLEAN
    BY DEF Init
  <2>3. left \in -1..Deadline /\ age \in 0..MaxGap + 1 /\ verify \in 0..VerifyTime
        /\ spacing \in 0..Spacing
    BY Settings DEF Init, MaxGap
  <2> QED BY <2>1, <2>2, <2>3 DEF Init, TypeOK, Longest
<1>4. Alive /\ Spaced
  BY <1>1 DEF Alive, Spaced, Kinds
<1>5. Passed /\ Late /\ Held
  BY <1>1, <1>2, Settings DEF Passed, Late, Held
<1> QED BY <1>3, <1>4, <1>5 DEF IInv

LEMMA StepKeeps == IInv /\ [Next]_vars => IInv'
<1> SUFFICES ASSUME IInv, [Next]_vars PROVE IInv'
  OBVIOUS
<1>1. ASSUME Next PROVE IInv'
  BY <1>1, ProbeEndsKeeps, IdleTickKeeps, TickKeeps, ReloadKeeps, PollKeeps,
     AcknowledgeKeeps, ChangeKeeps, TimePassesKeeps DEF Next
<1>2. ASSUME UNCHANGED vars PROVE IInv'
  BY <1>2 DEF vars, observer, entry, manager, clock, fault, IInv, TypeOK, Alive,
     Spaced, Passed, Late, Held, Underway
<1> QED BY <1>1, <1>2

THEOREM Invariance == Spec => []IInv
BY InitIInv, StepKeeps, PTL DEF Spec

----------------------------------------------------------------------------
(* The theorems                                                            *)

\* Times, results and history keep within what the settings give them.
THEOREM Typing == Spec => []TypeOK
<1>1. IInv => TypeOK
  BY DEF IInv
<1> QED BY <1>1, Invariance, PTL

\* "Neither probe kind can starve the other": a consumer probe is started at
\* most a probe after it is due behind a healthy bridge, a status probe at most
\* two probes after it is due, verifications and reloads included.  It needs
\* Spacing > Deadline + 1 of SettingsAssumption, true of deadlines of up to 20 s:
\* with one of more than 30 s, which SETTING_RANGES allows, a status probe may
\* have to wait for the end of the verification.
THEOREM NoStarvation == Spec => []NeitherStarves
<1>1. ASSUME IInv PROVE NeitherStarves
  <2>1. /\ due["status"] \in Int /\ left \in Int /\ left >= -1 /\ left <= Deadline
        /\ held \in Nat /\ pending \in Kinds \union {"none"}
    BY <1>1, Schedule DEF IInv
  <2>2. due["status"] >= -2 * (Deadline + 1)
    <3>1. pending = "status" => due["status"] > 0
      BY <1>1, <2>1, Settings DEF IInv, Spaced, Underway, Interval
    <3> QED BY <1>1, <2>1, <3>1, Settings DEF IInv, Late, Underway, Kinds
  <2>3. held <= Deadline + 1
    BY <1>1, <2>1, Settings DEF IInv, Held, Underway, Kinds
  <2> QED BY <2>2, <2>3 DEF NeitherStarves
<1> QED BY <1>1, Invariance, PTL

----------------------------------------------------------------------------
(* The time a detection takes                                              *)

\* The longest time that may be left until a consumer probe is due.
FirstWait == Max({ConsumerInterval, Grace, Confirm})

\* A probe takes less than a turn, and a consumer probe waits less than one.
Turn == Deadline + 1

\* With a first proof of age a, how long others may come too early to confirm
\* it, and the confirmation after the last of them.
Doubt(a) == IF a < Confirm THEN 2 * Confirm - 1 - a + 2 * Turn ELSE 0

\* When it is confirmed, the next result being r away.
Confirmation(r, a) == IF r >= Doubt(a) THEN r ELSE Doubt(a)

\* What a busy bridge may still add, n times, to a detection, and to the age of
\* a proof that does not lapse.
Delay(n) == IF n = 0 THEN 0 ELSE ConsumerInterval + Turn + Lapse
Ageing(n) == IF n = 0 \/ Lapse > 0 THEN 0 ELSE ConsumerInterval + Turn

\* After the time c, a first proof that comes with the next result is confirmed
\* in time.
Unproved(c, r, n) == c + r + 2 * Confirm - 1 + 2 * Turn + Delay(n) <= DetectionTime

\* Or the one there is, and before it is too old.
Proved(c, r, s, a, n) ==
    /\ s = 1
    /\ a + Confirmation(r, a) + Ageing(n) <= MaxGap
    /\ c + Confirmation(r, a) + Delay(n) <= DetectionTime

OnTime(c, r, s, a, n) == Unproved(c, r, n) \/ Proved(c, r, s, a, n)

LEMMA FirstWaitBounds ==
    /\ FirstWait \in Nat
    /\ ConsumerInterval <= FirstWait /\ Grace <= FirstWait /\ Confirm <= FirstWait
<1> DEFINE S == {ConsumerInterval, Grace, Confirm}
<1>1. S \subseteq Nat
  BY Settings
<1>2. \E x \in S : \A y \in S : x >= y
  BY Settings
<1>3. FirstWait \in S /\ (\A y \in S : FirstWait >= y)
  <2> HIDE DEF S
  <2>1. FirstWait = Max(S)
    BY DEF FirstWait, S
  <2> QED BY <1>2, <2>1 DEF Max
<1> QED BY <1>1, <1>3

LEMMA Allowance ==
    /\ FirstWait \in Nat /\ Turn \in Nat /\ Confirm \in Nat /\ ConsumerInterval \in Nat
    /\ Lapse \in Nat /\ DetectionTime \in Nat /\ MaxGap \in Nat
    /\ Turn > 0 /\ Confirm > 0 /\ Confirm <= FirstWait /\ ConsumerInterval <= FirstWait
    /\ ConsumerInterval + 2 > 2 * Turn
    /\ Lapse = (IF Confirm < 2 * Turn THEN 2 * Confirm + 2 * Turn ELSE 0)
    /\ DetectionTime = FirstWait + ConsumerInterval + 2 * Confirm + 5 * Turn + Lapse
    /\ MaxGap = 3 * Confirm + Turn - 1 + ConsumerInterval
<1>1. Lapse = IF Confirm < 2 * Turn THEN 2 * Confirm + 2 * Turn ELSE 0
  BY DEF Lapse, Turn
<1>2. DetectionTime = FirstWait + ConsumerInterval + 2 * Confirm + 5 * Turn + Lapse
  BY DEF DetectionTime, FirstWait, Turn
<1>3. Turn \in Nat /\ Turn > 0 /\ ConsumerInterval + 2 > 2 * Turn
      /\ MaxGap = 3 * Confirm + Turn - 1 + ConsumerInterval
  BY Settings DEF Turn, MaxGap
<1> HIDE DEF Lapse, DetectionTime, Turn
<1>4. Lapse \in Nat
  BY <1>1, <1>3, Settings
<1> QED BY <1>1, <1>2, <1>3, <1>4, FirstWaitBounds, Settings

LEMMA Detects ==
    ASSUME NEW c \in Nat, NEW r \in Nat, NEW s, NEW a \in Nat, NEW n \in {0, 1},
           OnTime(c, r, s, a, n)
    PROVE  c <= DetectionTime
BY Allowance DEF OnTime, Unproved, Proved, Confirmation, Doubt, Delay

LEMMA Afresh ==
    ASSUME NEW r \in Nat, NEW s, NEW a, NEW n \in {0, 1}, r <= FirstWait + 2 * Turn
    PROVE  OnTime(0, r, s, a, n)
BY Allowance DEF OnTime, Unproved, Delay

LEMMA Sooner ==
    ASSUME NEW c \in Nat, NEW r \in Nat, NEW s, NEW a \in Nat, NEW n \in {0, 1},
           NEW q \in Nat, q <= r, OnTime(c, r, s, a, n)
    PROVE  OnTime(c, q, s, a, n)
BY Allowance DEF OnTime, Unproved, Proved, Confirmation, Doubt, Delay, Ageing

LEMMA Elapses ==
    ASSUME NEW c \in Nat, NEW r \in Nat, NEW s, NEW a \in Nat, NEW n \in {0, 1},
           NEW b \in Nat, s = 1 /\ a <= MaxGap => b = a + 1,
           r > 0, OnTime(c, r, s, a, n)
    PROVE  OnTime(c + 1, r - 1, s, b, n)
<1>1. CASE Unproved(c, r, n)
  BY <1>1, Allowance DEF OnTime, Unproved, Delay
<1>2. CASE Proved(c, r, s, a, n)
  <2>1. a <= MaxGap /\ b = a + 1
    BY <1>2, Allowance DEF Proved, Confirmation, Doubt, Ageing
  <2>2. Confirmation(r - 1, b) \in Nat /\ Confirmation(r - 1, b) <= Confirmation(r, a) - 1
    BY <2>1, Allowance DEF Confirmation, Doubt
  <2> QED BY <1>2, <2>1, <2>2, Allowance DEF OnTime, Proved, Delay, Ageing, Confirmation, Doubt
<1> QED BY <1>1, <1>2 DEF OnTime

\* A busy bridge, once.
LEMMA Busied ==
    ASSUME NEW c \in Nat, NEW r \in Nat, NEW s, NEW a \in Nat, NEW q \in Nat,
           q <= r + ConsumerInterval + Turn, OnTime(c, r, s, a, 1)
    PROVE  OnTime(c, q, s, a, 0)
<1>1. CASE Unproved(c, r, 1)
  BY <1>1, Allowance DEF OnTime, Unproved, Delay
<1>2. CASE Proved(c, r, s, a, 1) /\ Lapse = 0
  BY <1>2, Allowance DEF OnTime, Proved, Confirmation, Doubt, Delay, Ageing
<1>3. CASE Proved(c, r, s, a, 1) /\ Lapse > 0
  <2>1. Confirmation(r, a) \in Nat /\ r <= Confirmation(r, a)
    BY Allowance DEF Confirmation, Doubt
  <2>2. Unproved(c, q, 0)
    BY <1>3, <2>1, Allowance DEF Unproved, Proved, Delay
  <2> QED BY <2>2 DEF OnTime
<1> QED BY <1>1, <1>2, <1>3, Allowance DEF OnTime

\* A first proof.
LEMMA Begins ==
    ASSUME NEW c \in Nat, NEW r \in Nat, NEW s, NEW a \in Nat, NEW n \in {0, 1}, NEW q \in Nat,
           s # 1 \/ a > MaxGap, q <= Confirm + 2 * Turn, OnTime(c, r, s, a, n)
    PROVE  OnTime(c, q, 1, 0, n)
<1>1. Unproved(c, r, n)
  BY Allowance DEF OnTime, Proved, Confirmation, Doubt, Ageing
<1>2. Confirmation(q, 0) = 2 * Confirm - 1 + 2 * Turn
  BY Allowance DEF Confirmation, Doubt
<1>3. Proved(c, q, 1, 0, n)
  BY <1>1, <1>2, Allowance DEF Unproved, Proved, Delay, Ageing
<1> QED BY <1>3 DEF OnTime

\* One that comes too early to confirm the first one.
LEMMA Early ==
    ASSUME NEW c \in Nat, NEW r \in Nat, NEW a \in Nat, NEW n \in {0, 1}, NEW q \in Nat,
           a < Confirm, q <= Confirm + 2 * Turn, OnTime(c, r, 1, a, n)
    PROVE  OnTime(c, q, 1, a, n)
<1>1. /\ Confirmation(q, a) \in Nat
      /\ a + Confirmation(q, a) <= 2 * Confirm - 1 + 2 * Turn
      /\ Confirmation(q, a) <= Doubt(a) + a /\ Confirmation(q, a) <= 2 * Confirm - 1 + 2 * Turn
  BY Allowance DEF Confirmation, Doubt
<1>2. CASE Unproved(c, r, n)
  <2>1. Proved(c, q, 1, a, n)
    BY <1>1, <1>2, Allowance DEF Unproved, Proved, Delay, Ageing
  <2> QED BY <2>1 DEF OnTime
<1>3. CASE Proved(c, r, 1, a, n)
  <2>1. Confirmation(r, a) \in Nat /\ Confirmation(q, a) <= Confirmation(r, a)
    BY Allowance DEF Confirmation, Doubt
  <2> QED BY <1>1, <1>3, <2>1, Allowance DEF OnTime, Proved, Delay, Ageing
<1> QED BY <1>2, <1>3 DEF OnTime

----------------------------------------------------------------------------
(* The detection of a stuck consumer                                       *)

\* When the next consumer probe will have come to its result, behind a bridge
\* that stays healthy.
Ahead == IF due["consumer"] > 0 THEN due["consumer"] ELSE 0
NextResult == IF pending = "consumer" THEN left + 1 ELSE Ahead + 2 * Turn - held

BusyLeft == IF busy THEN 0 ELSE 1

Waits ==
    /\ due["consumer"] <= FirstWait
    /\ pending = "consumer" => due["consumer"] <= ConsumerInterval - Underway

Timely ==
    /\ Waits
    /\ calm > 0 => loaded /\ healthy
    /\ OnTime(calm, NextResult, streak, age, BusyLeft)

\* The numbers of a state, and that no consumer probe waits longer than a turn.
Reckoned ==
    /\ due["consumer"] \in Int /\ left \in Int /\ left >= -1 /\ left <= Deadline
    /\ held \in Nat /\ held <= Turn /\ calm \in Nat /\ age \in Nat
    /\ streak \in {0, 1} /\ BusyLeft \in {0, 1}
    /\ pending = "consumer" => due["consumer"] > 0
    /\ due["consumer"] > 0 => held = 0
    /\ NextResult \in Nat
    /\ pending # "consumer" => NextResult >= Turn
    /\ NextResult <= Ahead + 2 * Turn

LEMMA Reckoning == IInv => Reckoned
<1> SUFFICES ASSUME IInv PROVE Reckoned
  OBVIOUS
<1>1. /\ due["consumer"] \in Int /\ left \in Int /\ left >= -1 /\ left <= Deadline
      /\ held \in Nat /\ pending \in Kinds \union {"none"}
  BY Schedule DEF IInv
<1>2. calm \in Nat /\ age \in Nat /\ streak \in {0, 1} /\ BusyLeft \in {0, 1}
  BY Settings DEF IInv, TypeOK, MaxGap, BusyLeft
<1>3. held <= Turn
  BY <1>1, Settings DEF IInv, Held, Underway, Kinds, Turn
<1>4. /\ pending = "consumer" => due["consumer"] > 0
      /\ due["consumer"] > 0 => held = 0
  BY <1>1, Settings DEF IInv, Spaced, Underway, Interval, Kinds, Held
<1>5. /\ NextResult \in Nat /\ NextResult <= Ahead + 2 * Turn
      /\ pending # "consumer" => NextResult >= Turn
  BY <1>1, <1>3, Settings DEF NextResult, Ahead, Turn
<1> QED BY <1>1, <1>2, <1>3, <1>4, <1>5 DEF Reckoned

LEMMA ReckoningNext == IInv' => Reckoned'
BY Reckoning, PTL

\* Where anything else is wrong, all the time is left.
Reset == calm = 0

LEMMA Unwell == IInv /\ Waits /\ Reset => Timely
<1> SUFFICES ASSUME IInv, Waits, calm = 0 PROVE Timely
  BY DEF Reset
<1>1. /\ NextResult \in Nat /\ NextResult <= Ahead + 2 * Turn /\ BusyLeft \in {0, 1}
      /\ due["consumer"] \in Int
  BY Reckoning DEF Reckoned
<1>2. NextResult <= FirstWait + 2 * Turn
  BY <1>1, Allowance DEF Waits, Ahead
<1>3. OnTime(0, NextResult, streak, age, BusyLeft)
  BY <1>1, <1>2, Afresh
<1> QED BY <1>3 DEF Timely

LEMMA UnwellNext == IInv' /\ Waits' /\ calm' = 0 => Timely'
<1>1. IInv' /\ Waits' /\ Reset' => Timely'
  BY Unwell, PTL
<1> QED BY <1>1 DEF Reset

\* A result of a consumer probe leaves the next one in time.
LEMMA ResultOnTime ==
    ASSUME IInv, Timely, pending = "consumer", NEW o, Notice(o),
           o \in {"ok", "other", "bridge_busy", "consumer_stale"},
           NEW q \in Nat, q <= DueAfter(o)["consumer"] + 2 * Turn
    PROVE  calm' = 0 \/ (calm' = calm /\ OnTime(calm, q, streak', age', BusyLeft'))
<1>1. Reckoned /\ due["consumer"] <= ConsumerInterval - Underway
  BY Reckoning DEF Timely, Waits
<1>2. /\ calm \in Nat /\ NextResult \in Nat /\ NextResult = left + 1 /\ left \in Int
      /\ age \in Nat /\ streak \in {0, 1} /\ BusyLeft \in {0, 1} /\ due["consumer"] \in Int
      /\ OnTime(calm, NextResult, streak, age, BusyLeft) /\ busy \in BOOLEAN
  BY <1>1 DEF Reckoned, NextResult, Timely, IInv, TypeOK
<1> SUFFICES ASSUME ~Confirmed(o), o \notin {"ok", "other"}, ~(o = "bridge_busy" /\ busy),
                    calm # 0
             PROVE  calm' = calm /\ OnTime(calm, q, streak', age', BusyLeft')
  BY DEF Notice
<1>3. calm' = calm /\ busy' = (busy \/ o = "bridge_busy") /\ healthy
  BY <1>2 DEF Notice, Timely
<1>4. CASE o = "bridge_busy"
  <2>1. /\ streak' = streak /\ age' = age /\ BusyLeft = 1 /\ BusyLeft' = 0
        /\ DueAfter(o) = due
    BY <1>3, <1>4 DEF Notice, First, Confirmed, Proof, DueAfter, BusyLeft
  <2>2. q <= NextResult + ConsumerInterval + Turn
    BY <1>1, <1>2, <2>1, Allowance, Settings DEF Underway, Turn
  <2> QED BY <1>2, <1>3, <2>1, <2>2, Busied
<1>5. CASE o = "consumer_stale"
  <2>1. Proof(o) /\ BusyLeft' = BusyLeft
    BY <1>2, <1>3, <1>5 DEF Proof, BusyLeft
  <2>2. q <= Confirm + 2 * Turn
    <3>1. DueAfter(o)["consumer"] = Confirm
      BY <2>1, Schedule DEF DueAfter, IInv, Kinds
    <3> QED BY <3>1
  <2>3. CASE StartsStreak
    <3>1. streak' = 1 /\ age' = 0
      <4>1. First(o)
        BY <2>1, <2>3 DEF First
      <4> QED BY <1>3, <1>5, <4>1 DEF Notice
    <3>2. streak # 1 \/ age > MaxGap
      BY <2>3 DEF StartsStreak
    <3> QED BY <1>2, <1>3, <2>1, <2>2, <3>1, <3>2, Begins
  <2>4. CASE ~StartsStreak
    <3>1. ~First(o) /\ age < Confirm /\ streak = 1
      BY <1>2, <2>1, <2>4, Settings DEF Confirmed, First, StartsStreak
    <3>2. streak' = streak /\ age' = age
      BY <1>3, <1>5, <3>1 DEF Notice
    <3> QED BY <1>2, <1>3, <2>1, <2>2, <3>1, <3>2, Early
  <2> QED BY <2>3, <2>4
<1> QED BY <1>4, <1>5

\* No consumer probe: nothing is known that was not.
LEMMA NoResult ==
    ASSUME IInv, Notice("none")
    PROVE  /\ streak' = streak /\ age' = age /\ calm' = calm /\ busy' = busy
           /\ DueAfter("none") = due
<1>1. busy \in BOOLEAN
  BY DEF IInv, TypeOK
<1> QED BY <1>1 DEF Notice, First, Confirmed, Proof, DueAfter

\* The end of a probe, and what a tick may do after it.
LEMMA ObserverTimely ==
    ASSUME IInv, Timely, IInv', NEW o, Notice(o),
           o \in {"none", "ok", "other", "bridge_busy", "consumer_stale"},
           o # "none" <=> pending = "consumer",
           \/ NoStart(DueAfter(o))
           \/ Start("status", DueAfter(o))
           \/ Start("consumer", DueAfter(o)),
           UNCHANGED <<loaded, healthy>>
    PROVE  Timely'
<1> DEFINE d == DueAfter(o)
<1>1. /\ d \in [Kinds -> -MaxLate..Longest] /\ d["consumer"] \in Int
      /\ d["consumer"] \in {due["consumer"], Confirm}
      /\ o # "consumer_stale" => d = due
  <2>1. /\ d \in [Kinds -> -MaxLate..Longest]
        /\ d["consumer"] \in {due["consumer"], Confirm}
        /\ o # "consumer_stale" => d = due
    BY BroughtForward DEF IInv
  <2>2. due["consumer"] \in Int /\ Confirm \in Int
    BY Schedule, Settings DEF IInv
  <2> HIDE DEF d
  <2> QED BY <2>1, <2>2
<1> HIDE DEF d
<1>2. \/ pending' = "none" /\ due' = d /\ held' = held
      \/ /\ pending' = "status" /\ due'["consumer"] = d["consumer"] /\ held' = held
      \/ /\ pending' = "consumer" /\ left' = Deadline /\ due'["consumer"] = ConsumerInterval
  BY <1>1 DEF NoStart, Start, Interval, Kinds, d
<1>3. Reckoned /\ Reckoned'
  BY Reckoning, ReckoningNext
<1>4. Waits'
  BY <1>1, <1>2, Allowance, Settings DEF Timely, Waits, Underway
<1> DEFINE q == (IF d["consumer"] > 0 THEN d["consumer"] ELSE 0) + 2 * Turn - held
<1>5. q \in Nat /\ NextResult' \in Nat /\ NextResult' <= q
  <2>1. held \in Nat /\ held <= Turn /\ Turn \in Nat /\ Turn = Deadline + 1 /\ NextResult' \in Nat
    BY <1>3, Allowance DEF Reckoned, Turn
  <2>2. \/ NextResult' = q
        \/ NextResult' = Turn
    BY <1>2, <2>1, Settings DEF NextResult, Ahead
  <2> QED BY <1>1, <2>1, <2>2
<1>6. /\ loaded' = loaded /\ healthy' = healthy
      /\ calm' = calm \/ calm' = 0
  BY DEF Notice
<1>7. CASE o = "none"
  <2>1. streak' = streak /\ age' = age /\ calm' = calm /\ busy' = busy /\ d = due
    BY <1>7, NoResult DEF d
  <2>2. q = NextResult /\ BusyLeft' = BusyLeft
    BY <1>7, <2>1 DEF NextResult, Ahead, BusyLeft
  <2>3. OnTime(calm, NextResult', streak, age, BusyLeft)
    BY <1>3, <1>5, <2>2, Sooner DEF Timely, Reckoned
  <2> QED BY <1>4, <1>6, <2>1, <2>2, <2>3 DEF Timely
<1>8. CASE o # "none"
  <2>1. pending = "consumer" /\ q <= d["consumer"] + 2 * Turn
    <3>1. d["consumer"] > 0 /\ held \in Nat
      BY <1>1, <1>3, <1>8, Settings DEF Reckoned
    <3> QED BY <1>1, <1>8, <3>1, Allowance
  <2>2. NextResult' <= DueAfter(o)["consumer"] + 2 * Turn
    BY <1>1, <1>5, <2>1, Allowance DEF d
  <2>3. \/ calm' = 0
        \/ calm' = calm /\ OnTime(calm, NextResult', streak', age', BusyLeft')
    BY <1>5, <1>8, <2>1, <2>2, ResultOnTime
  <2>4. CASE calm' = 0
    BY <1>4, <2>4, UnwellNext
  <2>5. CASE calm' = calm /\ OnTime(calm, NextResult', streak', age', BusyLeft')
    BY <1>4, <1>6, <2>5 DEF Timely
  <2> QED BY <2>3, <2>4, <2>5
<1> QED BY <1>7, <1>8

LEMMA ProbeEndsTimely ==
    ASSUME IInv, Timely, IInv', ProbeEnds
    PROVE  Timely'
<1>1. PICK o \in Answer \union Expiry : Notice(o) /\ NoStart(DueAfter(o))
  BY DEF ProbeEnds
<1>2. pending \in {"none", "status", "consumer"}
  BY Schedule DEF IInv, Kinds
<1>3. /\ o \in {"none", "ok", "other", "bridge_busy", "consumer_stale"}
      /\ o # "none" <=> pending = "consumer"
  BY <1>1, <1>2 DEF Answer, Expiry
<1> QED BY <1>1, <1>3, ObserverTimely DEF ProbeEnds, entry

LEMMA TickTimely ==
    ASSUME IInv, Timely, IInv', Tick
    PROVE  Timely'
<1>1. UNCHANGED <<loaded, healthy>>
  BY DEF Tick, entry
<1>2. CASE pending # "none" /\ left >= 0
  <2>1. UNCHANGED <<due, pending, left, streak, age, held, calm, busy>>
    BY <1>2 DEF Tick, observer, fault
  <2> QED BY <1>1, <2>1 DEF Timely, Waits, NextResult, Ahead, BusyLeft, Underway
<1>3. CASE ~(pending # "none" /\ left >= 0)
  <2>1. PICK o \in IF pending = "none" THEN {"none"} ELSE Expiry :
             Notice(o) /\ StartDue(DueAfter(o))
    BY <1>3 DEF Tick
  <2>2. pending \in {"none", "status", "consumer"}
    BY Schedule DEF IInv, Kinds
  <2>3. /\ o \in {"none", "ok", "other", "bridge_busy", "consumer_stale"}
        /\ o # "none" <=> pending = "consumer"
    BY <2>1, <2>2 DEF Expiry
  <2>4. \/ NoStart(DueAfter(o))
        \/ Start("status", DueAfter(o))
        \/ Start("consumer", DueAfter(o))
    BY <2>1 DEF StartDue, MostOverdue
  <2> QED BY <1>1, <2>1, <2>3, <2>4, ObserverTimely
<1> QED BY <1>2, <1>3

\* A new observer, an acknowledgement and a change start the time over.
LEMMA ResetTimely ==
    ASSUME IInv, Timely, IInv', Reload \/ SetUp \/ Acknowledge \/ Change
    PROVE  Timely'
<1>1. CASE Reload \/ SetUp
  <2>1. NewObserver
    BY <1>1 DEF Reload, SetUp
  <2>2. calm' = 0 /\ pending' = "none" /\ due'["consumer"] = Grace
    BY <2>1 DEF NewObserver, Kinds
  <2>3. Waits'
    BY <2>2, FirstWaitBounds DEF Waits
  <2> QED BY <2>2, <2>3, UnwellNext
<1>2. CASE Acknowledge \/ Change
  <2>1. calm' = 0 /\ UNCHANGED <<due, pending, left>>
    BY <1>2 DEF Acknowledge, Change, observer
  <2>2. Waits'
    BY <2>1 DEF Timely, Waits, Underway
  <2> QED BY <2>1, <2>2, UnwellNext
<1> QED BY <1>1, <1>2

\* A verification brings the next probe forward.
LEMMA PollTimely ==
    ASSUME IInv, Timely, IInv', Poll
    PROVE  Timely'
<1>1. UNCHANGED <<loaded, healthy, age>>
  BY DEF Poll, entry
<1>2. \/ UNCHANGED <<due, pending, left, held>> /\ calm' = 0
      \/ UNCHANGED <<due, pending, left, held, streak, calm, busy>>
      \/ Start("consumer", due) /\ pending = "none" /\ UNCHANGED <<streak, calm, busy>>
  BY DEF Poll, observer, fault
<1>3. CASE UNCHANGED <<due, pending, left, held>> /\ calm' = 0
  <2>1. Waits'
    BY <1>3 DEF Timely, Waits, Underway
  <2> QED BY <1>3, <2>1, UnwellNext
<1>4. CASE UNCHANGED <<due, pending, left, held, streak, calm, busy>>
  BY <1>1, <1>4 DEF Timely, Waits, NextResult, Ahead, BusyLeft, Underway
<1>5. CASE Start("consumer", due) /\ pending = "none" /\ UNCHANGED <<streak, calm, busy>>
  <2>1. due'["consumer"] = ConsumerInterval /\ pending' = "consumer" /\ left' = Deadline
    BY <1>5, Schedule DEF Start, Interval, Kinds, IInv
  <2>2. Waits'
    BY <2>1, Allowance, Settings DEF Waits, Underway
  <2>3. NextResult' = Turn /\ BusyLeft' = BusyLeft
    BY <1>5, <2>1 DEF NextResult, Turn, BusyLeft
  <2>4. OnTime(calm, Turn, streak, age, BusyLeft)
    BY <1>5, Reckoning, Allowance, Sooner DEF Timely, Reckoned
  <2> QED BY <1>1, <1>5, <2>2, <2>3, <2>4 DEF Timely
<1> QED BY <1>2, <1>3, <1>4, <1>5

LEMMA Nearer ==
    ASSUME NEW x \in Int, NEW h \in Int, NEW y \in Int, NEW g \in Int, x - h <= y - g - 1
    PROVE  x + 2 * Turn - h <= (y + 2 * Turn - g) - 1
BY Allowance

\* The next result comes nearer.
LEMMA TimePassesTimely ==
    ASSUME IInv, Timely, IInv', TimePasses
    PROVE  Timely'
<1>1. /\ loaded => ticked
      /\ due' = IF loaded THEN [k \in Kinds |-> Max({due[k] - 1, -MaxLate})] ELSE due
      /\ left' = IF pending = "none" THEN 0 ELSE Max({left - 1, -1})
      /\ age' = IF streak = 0 THEN 0 ELSE Min({age + 1, MaxGap + 1})
      /\ held' = IF loaded /\ healthy /\ due["consumer"] <= 0 THEN held + 1 ELSE 0
      /\ calm' = IF loaded /\ healthy /\ stuck THEN calm + 1 ELSE 0
      /\ UNCHANGED <<pending, loaded, healthy, streak, busy>>
  BY DEF TimePasses, entry
<1>2. Reckoned /\ Reckoned' /\ due["consumer"] >= -MaxLate
  BY Reckoning, ReckoningNext, Schedule DEF IInv
<1>3. pending # "none" => loaded /\ left >= 0 /\ left' = left - 1
  <2>1. pending # "none" => loaded /\ left >= 0
    BY <1>1 DEF IInv, Alive
  <2>2. left \in Int /\ left - 1 \in Int /\ -1 \in Int
    BY <1>2 DEF Reckoned
  <2>3. Max({left - 1, -1}) = (IF left - 1 >= -1 THEN left - 1 ELSE -1)
    BY <2>2, MaxMin
  <2> QED BY <1>1, <2>1, <2>2, <2>3
<1>4. loaded => due'["consumer"] = (IF due["consumer"] - 1 >= -MaxLate
                                      THEN due["consumer"] - 1 ELSE -MaxLate)
  <2>1. loaded => due'["consumer"] = Max({due["consumer"] - 1, -MaxLate})
    BY <1>1 DEF Kinds
  <2>2. due["consumer"] - 1 \in Int /\ -MaxLate \in Int
    BY <1>2, Settings DEF Reckoned
  <2> QED BY <2>1, <2>2, MaxMin
<1>5. Waits'
  <2>2. due'["consumer"] <= FirstWait
    BY <1>1, <1>2, <1>4, Settings, Allowance DEF Timely, Waits, Reckoned
  <2>3. pending' = "consumer" => due'["consumer"] <= ConsumerInterval - (Deadline - left')
    BY <1>1, <1>2, <1>3, <1>4, Settings DEF Timely, Waits, Reckoned, Underway
  <2> QED BY <2>2, <2>3 DEF Waits, Underway
<1>6. CASE ~(loaded /\ healthy /\ stuck)
  BY <1>1, <1>5, <1>6, UnwellNext
<1>7. CASE loaded /\ healthy /\ stuck
  <2>1. calm' = calm + 1 /\ BusyLeft' = BusyLeft
    BY <1>1, <1>7 DEF BusyLeft
  <2>2. NextResult > 0 /\ NextResult' <= NextResult - 1
    <3>1. CASE pending = "consumer"
      BY <1>1, <1>2, <1>3, <3>1 DEF NextResult, Reckoned
    <3>2. CASE pending # "consumer"
      <4>1. NextResult > 0
        BY <1>2, <3>2, Allowance DEF Reckoned
      <4>2. NextResult' = Ahead' + 2 * Turn - held' /\ NextResult = Ahead + 2 * Turn - held
        BY <1>1, <3>2 DEF NextResult
      <4>3. Ahead' \in Int /\ Ahead \in Int /\ held' \in Int /\ held \in Int
            /\ Ahead' - held' <= Ahead - held - 1
        BY <1>1, <1>2, <1>4, <1>7, Settings DEF Reckoned, Ahead
      <4>4. Ahead' + 2 * Turn - held' <= (Ahead + 2 * Turn - held) - 1
        BY <4>3, Nearer
      <4> QED BY <4>1, <4>2, <4>4
    <3> QED BY <3>1, <3>2
  <2>3. streak = 1 /\ age <= MaxGap => age' = age + 1
    <3>1. age + 1 \in Int /\ MaxGap + 1 \in Int
      BY <1>2, Allowance DEF Reckoned
    <3>2. Min({age + 1, MaxGap + 1}) = (IF age + 1 <= MaxGap + 1 THEN age + 1 ELSE MaxGap + 1)
      BY <3>1, MaxMin
    <3> QED BY <1>1, <1>2, <3>2, Allowance DEF Reckoned
  <2>4. OnTime(calm + 1, NextResult - 1, streak, age', BusyLeft)
    BY <1>2, <2>2, <2>3, Elapses DEF Timely, Reckoned
  <2>5. OnTime(calm + 1, NextResult', streak, age', BusyLeft)
    BY <1>2, <2>2, <2>4, Sooner DEF Reckoned
  <2> QED BY <1>1, <1>5, <1>7, <2>1, <2>5 DEF Timely
<1> QED BY <1>6, <1>7

LEMMA InitTimely == Init => Timely
<1> SUFFICES ASSUME Init PROVE Timely
  OBVIOUS
<1>1. calm = 0 /\ pending = "none" /\ due["consumer"] = Grace
  BY DEF Init, Kinds
<1> QED BY <1>1, FirstWaitBounds, InitIInv, Unwell DEF Waits, Reset

LEMMA StepTimely == IInv /\ Timely /\ [Next]_vars => Timely'
<1> SUFFICES ASSUME IInv, Timely, [Next]_vars PROVE Timely'
  OBVIOUS
<1>1. IInv'
  BY StepKeeps
<1>2. ASSUME Next PROVE Timely'
  BY <1>1, <1>2, ProbeEndsTimely, TickTimely, ResetTimely, PollTimely, TimePassesTimely DEF Next
<1>3. ASSUME UNCHANGED vars PROVE Timely'
  BY <1>3 DEF vars, observer, entry, manager, clock, fault, Timely, Waits, NextResult,
     Ahead, BusyLeft, Underway
<1> QED BY <1>2, <1>3

\* Behind a healthy bridge the recovery of a stuck consumer is requested within
\* DetectionTime, for all settings that SettingsAssumption allows: no order of its
\* probes, of status probes without a reply, of a refusal by a busy bridge and of
\* the probes of a verification keeps a first proof without a second one that
\* confirms it.
THEOREM Detected == Spec => []DetectedInTime
<1>1. IInv /\ Timely => DetectedInTime
  <2> SUFFICES ASSUME IInv, Timely PROVE DetectedInTime
    OBVIOUS
  <2>1. Reckoned
    BY Reckoning
  <2>2. calm <= DetectionTime
    BY <2>1, Detects DEF Timely, Reckoned
  <2> QED BY <2>2 DEF DetectedInTime
<1>2. Spec => []Timely
  BY InitIInv, InitTimely, StepKeeps, StepTimely, PTL DEF Spec
<1> QED BY <1>1, <1>2, Invariance, PTL
=============================================================================
