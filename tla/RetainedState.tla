--------------------------- MODULE RetainedState ---------------------------
(***************************************************************************)
(* What the bridge promises about the retained unit topics: the broker     *)
(* only ever shows a state the unit really had, and goes back to an older  *)
(* one only while a client repeats what an earlier connection left         *)
(* unacknowledged; after that, each topic shows again the newest state it  *)
(* ever showed, unless the client has died in the middle of it.  A unit's  *)
(* states are numbered 1, 2, ... in the order in which the Casambi network *)
(* took them; 0 is an empty topic.                                         *)
(***************************************************************************)
EXTENDS Integers

CONSTANT Units

VARIABLES
    latest,     \* [Units -> Nat]: the newest state of each unit
    shown,      \* [Units -> Nat]: the state its retained topic shows
    best,       \* [Units -> Nat]: the newest state it showed with this client
    replay      \* the client is repeating, or will on its next connection

Init ==
    /\ latest = [u \in Units |-> 1]
    /\ shown  = [u \in Units |-> 0]
    /\ best   = [u \in Units |-> 0]
    /\ replay = FALSE

Change(u) ==
    /\ latest' = [latest EXCEPT ![u] = @ + 1]
    /\ UNCHANGED <<shown, best, replay>>

\* The topic moves forward, possibly over states nobody will ever see; in a
\* replay it may move back, but the last message of one leaves all repaired.
Show(u) ==
    /\ \E v \in 1..latest[u] :
           /\ replay \/ v > shown[u]
           /\ shown' = [shown EXCEPT ![u] = v]
           /\ best' = [best EXCEPT ![u] = IF @ < v THEN v ELSE @]
    /\ replay' \in {replay, FALSE}
    /\ replay' \/ shown' = best'
    /\ UNCHANGED latest

\* A connection is lost or made with messages still unacknowledged.
Replay ==
    /\ replay' = TRUE
    /\ UNCHANGED <<latest, shown, best>>

\* Another client takes over: it repeats nothing, and finds what is there.
Restart ==
    /\ replay' = FALSE
    /\ best' = shown
    /\ UNCHANGED <<latest, shown>>

Next == (\E u \in Units : Change(u) \/ Show(u)) \/ Replay \/ Restart

Spec == Init /\ [][Next]_<<latest, shown, best, replay>>
=============================================================================
