-------------------------- MODULE BridgeLifecycle --------------------------
(***************************************************************************)
(* One bridge process as systemd and the recovery supervisor see it: it    *)
(* starts, has a Bluetooth connection from some time on (serving), waits   *)
(* out MQTT outages (reconnecting), and ends with an exit status.  This is *)
(* what the statuses promise (docs/pi-recovery.md, "Bridge"): 76, 78 and   *)
(* 79 come before the first connection only, 75 only for a link that was   *)
(* lost or a process that has failed, 0 only on request; an MQTT outage    *)
(* never ends the process, and a lost link is never taken for one.         *)
(***************************************************************************)
EXTENDS Integers

VARIABLES life,     \* "starting", "serving", "reconnecting" or "gone"
          asked,    \* somebody has asked the process to stop
          trouble,  \* "none", "lost" (the link), "crash" (unexpected error)
          status    \* the exit status, Running until there is one

vars == <<life, asked, trouble, status>>

Running == -1
Disconnected == 75     \* EXIT_BLE_DISCONNECTED
StartupFailed == 76    \* EXIT_BLE_STARTUP_FAILED
Configuration == 78    \* EXIT_CONFIGURATION
OtherFailure == 79     \* EXIT_STARTUP_FAILED_OTHER
Terminated == 143      \* killed by SIGTERM

Init == life = "starting" /\ ~asked /\ trouble = "none" /\ status = Running

Connect ==
    /\ life = "starting" /\ trouble # "crash"
    /\ life' = "serving"
    /\ UNCHANGED <<asked, trouble, status>>

\* The MQTT session is lost, with the link as it was.
Reconnect ==
    /\ life = "serving" /\ trouble # "lost"
    /\ life' = "reconnecting"
    /\ UNCHANGED <<asked, trouble, status>>

Resume ==
    /\ life = "reconnecting"
    /\ life' = "serving"
    /\ UNCHANGED <<asked, trouble, status>>

LinkLost ==
    /\ life \in {"serving", "reconnecting"} /\ trouble = "none"
    /\ trouble' = "lost"
    /\ UNCHANGED <<life, asked, status>>

Crash ==
    /\ life # "gone"
    /\ trouble' = "crash"
    /\ UNCHANGED <<life, asked, status>>

\* A request ends the pause before a reconnection, and may bring to light an
\* error that nobody has seen yet.
Ask ==
    /\ life # "gone"
    /\ asked' = TRUE
    /\ life' = IF life = "reconnecting" THEN "serving" ELSE life
    /\ trouble' \in {trouble, "crash"}
    /\ UNCHANGED status

\* The statuses the process may end with as things stand.
Truthful ==
    (IF life = "starting" THEN {StartupFailed, Configuration, OtherFailure} ELSE {})
        \union (IF life = "serving" /\ trouble # "none" THEN {Disconnected} ELSE {})
        \union (IF trouble = "crash" THEN {1} ELSE {})
        \union (IF asked THEN {0, Terminated} ELSE {})

\* A request may be what ends the process at once.
Exit ==
    /\ life # "gone"
    /\ life' = "gone"
    /\ \/ status' \in Truthful /\ UNCHANGED asked
       \/ status' = Terminated /\ asked' = TRUE
    /\ UNCHANGED trouble

Next == Connect \/ Reconnect \/ Resume \/ LinkLost \/ Crash \/ Ask \/ Exit

Spec == Init /\ [][Next]_vars
=============================================================================
