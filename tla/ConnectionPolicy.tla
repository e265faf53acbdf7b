-------------------------- MODULE ConnectionPolicy --------------------------
(***************************************************************************)
(* What the policy state machine promises the WAN manager, without the     *)
(* modem: a connection climbs one state at a time and only by steps of the *)
(* thread; the link is raised only while registered, before the sessions   *)
(* are started; whoever leaves CONNECTED lowers the link in the same step; *)
(* and a machine that is down or deactivated has lowered it.               *)
(***************************************************************************)
VARIABLES phase,  \* the state of the machine
          link    \* the link status the WAN manager was given

TypeOK ==
    /\ phase \in {"DOWN", "DEACTIVATED", "DEREGISTERED", "REGISTERED", "CONNECTED"}
    /\ link \in {"Up", "Down"}

Init == phase = "DOWN" /\ link = "Down"

\* The modem is gone, or comes back.
Remove == phase # "DOWN" /\ phase' = "DOWN" /\ link' = "Down"
Detect == phase = "DOWN" /\ phase' = "DEACTIVATED" /\ link' = "Down"

\* The modem cannot be used: from any state in which it was open.
Deactivate ==
    /\ phase \in {"DEREGISTERED", "REGISTERED", "CONNECTED"}
    /\ phase' = "DEACTIVATED" /\ link' = "Down"

SelectSlot == phase = "DEACTIVATED" /\ phase' = "DEREGISTERED" /\ UNCHANGED link

Register == phase = "DEREGISTERED" /\ phase' = "REGISTERED" /\ UNCHANGED link

\* The registration is lost before the connection was made; the link may be
\* up already, and stays up.
Deregister == phase = "REGISTERED" /\ phase' = "DEREGISTERED" /\ UNCHANGED link

\* The WAN manager is told to expect the connection.
Announce == phase = "REGISTERED" /\ link' = "Up" /\ UNCHANGED phase

Connect == phase = "REGISTERED" /\ phase' = "CONNECTED" /\ UNCHANGED link

\* Disconnecting lowers the link first and then falls back, in the same step
\* or, when the registration was found lost, in the next.
Disconnect ==
    /\ phase = "CONNECTED" /\ link' = "Down"
    /\ phase' \in {"CONNECTED", "DEACTIVATED", "DEREGISTERED", "REGISTERED"}

Next == \/ Remove \/ Detect \/ Deactivate \/ SelectSlot \/ Register
        \/ Deregister \/ Announce \/ Connect \/ Disconnect

Spec == Init /\ [][Next]_<<phase, link>>
=============================================================================
