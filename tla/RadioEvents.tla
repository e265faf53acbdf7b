----------------------------- MODULE RadioEvents -----------------------------
(***************************************************************************)
(* Events of the radio parameters and of X_RDK_Status                      *)
(* (TR-181/middle_layer_src/cellularmgr_rbus_events.c): the subscription   *)
(* handler, which the bus calls on its own thread, and the monitor thread, *)
(* which wakes every Period seconds and publishes, at the interval in      *)
(* force or on change.  Both use gRBUSSubListSt without a lock; `pc', `got'*)
(* and `reg' cut a pass of the monitor where a subscription can get in     *)
(* between.  A pass reads the signal through a wait of the HAL that has no *)
(* limit (module Readings): calls that cross may leave the monitor in it.  *)
(*                                                                         *)
(* There is one interface (ulInterfaceNoEntries is 1).  The six parameters *)
(* have six copies of the same code, here one action on the parameter.     *)
(* A call of the handler is one step: the count, by which the monitor      *)
(* takes notice of a first subscription, is what it writes last.           *)
(***************************************************************************)
EXTENDS Integers, FiniteSets

CONSTANTS
    Period,      \* RBUS_SUBSCRIPTION_PUBLISH_POLLING_INTERVAL, 10 seconds
    Clients,     \* subscribers known to the bus
    Intervals,   \* intervals they ask for; 0 is on change
    Observed,    \* what they subscribe to: radio parameters, X_RDK_Status
    Statuses,    \* values X_RDK_Status takes
    Readings     \* readings the modem gives

\* stServingInfo: one reading of the modem gives all five.
Signals == {"RSSI", "SNR", "TRX", "RSRQ", "RSRP"}

Parameters == Signals \cup {"RadioEnv"}

\* The order in which a pass takes them.
Order == <<"RadioEnv", "RSSI", "SNR", "TRX", "RSRQ", "RSRP">>

AllStatuses == {"DOWN", "DEACTIVATED", "DEREGISTERED", "REGISTERED", "CONNECTED"}

ASSUME ConstantsAssumption ==
    /\ Period \in Nat \ {0}
    /\ IsFiniteSet(Clients)
    /\ Intervals \subseteq Nat
    /\ Observed \subseteq Parameters \cup {"X_RDK_Status"}
    /\ "DOWN" \in Statuses /\ Statuses \subseteq AllStatuses

\* No reading: 0 or RADIO_ENV_CONDITION_UNAVAILABLE.
None == "none"
Values == Readings \cup {None}

\* The interval of a client that has not subscribed, and what a client knows
\* that has not had an event.
Absent == -1
Unheard == "unheard"

VARIABLES
    flag,       \* ...SubFlag: the number of subscriptions of each parameter
    interval,   \* ...SubInterval: the interval in force, 0 for on change
    lapsed,     \* ...LapsedCounterTimer
    statusFlag, \* X_RDK_StatusSubFlag
    prev,       \* the value of each parameter published last
    prevStatus, \* enPrevRdkStatusValue
    pc,         \* where the monitor is: asleep, at a parameter, or in a wait
    at,         \* the parameter, as its place in Order
    seen,       \* X_RDK_Status as the pass read it when it began
    got,        \* what the pass has read of each parameter
    reg,        \* the counter the monitor has read and not yet written back
    sub,        \* what each client subscribed for each parameter
    told,       \* what each client was told of it last
    statusSub,  \* the clients subscribed to X_RDK_Status
    statusTold, \* what each was told of it last
    status,     \* enCurrentSMState
    reading     \* what the modem would answer for each parameter

listVars    == <<flag, interval, statusFlag>>
monitorVars == <<pc, at, seen, got, reg, prevStatus>>
clientVars  == <<sub, statusSub>>
worldVars   == <<status, reading>>
vars == <<listVars, lapsed, monitorVars, prev, clientVars, told, statusTold, worldVars>>

(* The type invariant.  The counts of subscriptions have no upper bound    *)
(* of their own.                                                           *)
TypeOK ==
    /\ flag \in [Parameters -> Nat] /\ statusFlag \in Nat
    /\ interval \in [Parameters -> Nat] /\ lapsed \in [Parameters -> Nat]
    /\ prev \in [Parameters -> Values] /\ prevStatus \in Statuses
    /\ pc \in {"sleep", "look", "read", "crossed", "weigh", "store", "judge", "status"}
    /\ at \in 1..6 /\ seen \in Statuses /\ reg \in Nat
    /\ got \in [Parameters -> Values]
    /\ sub \in [Parameters -> [Clients -> Intervals \cup {Absent}]]
    /\ told \in [Parameters -> [Clients -> Values \cup {Unheard}]]
    /\ statusSub \subseteq Clients
    /\ statusTold \in [Clients -> Statuses \cup {Unheard}]
    /\ status \in Statuses
    /\ reading \in [Parameters -> Values]

Subscribed(p) == {c \in Clients : sub[p][c] # Absent}

Init ==
    /\ flag = [p \in Parameters |-> 0] /\ statusFlag = 0
    /\ interval = [p \in Parameters |-> 0] /\ lapsed = [p \in Parameters |-> 0]
    /\ prev = [p \in Parameters |-> None] /\ prevStatus = "DOWN"
    /\ pc = "sleep" /\ at = 1 /\ seen = "DOWN" /\ reg = 0
    /\ got = [p \in Parameters |-> None]
    /\ sub = [p \in Parameters |-> [c \in Clients |-> Absent]]
    /\ told = [p \in Parameters |-> [c \in Clients |-> Unheard]]
    /\ statusSub = {} /\ statusTold = [c \in Clients |-> Unheard]
    /\ status = "DOWN" /\ reading = [p \in Parameters |-> None]

-----------------------------------------------------------------------------
(* CellularMgrDmlPublishEventHandler                                       *)

\* The interval a subscription finds: the first one finds it reset.
Found(p) == IF flag[p] = 0 THEN 0 ELSE interval[p]

\* Mutant: an equal interval starts the count anew.
Shortens_OrEqual(p, k) == k > 0 /\ (Found(p) = 0 \/ k <= Found(p))

\* An interval of k seconds replaces the one in force.
Shortens(p, k) == k > 0 /\ (Found(p) = 0 \/ k < Found(p))

Valid(k) == k % Period = 0

\* Mutant: the first interval stays in force.
IntervalAfter_KeepsFirst(p, k) ==
    IF Valid(k) /\ Found(p) = 0 THEN k ELSE Found(p)

IntervalAfter(p, k) == IF Valid(k) /\ Shortens(p, k) THEN k ELSE Found(p)

\* Mutant: only the first subscription resets the elapsed time.
ElapsedAfter_FirstOnly(p, k) == IF flag[p] = 0 THEN 0 ELSE lapsed[p]

ElapsedAfter(p, k) ==
    IF flag[p] = 0 \/ (Valid(k) /\ Shortens(p, k)) THEN 0 ELSE lapsed[p]

\* An invalid interval is refused after the first subscription's reset.
Subscribe(c, p, k) ==
    /\ sub[p][c] = Absent
    /\ interval' = [interval EXCEPT ![p] = IntervalAfter(p, k)]
    /\ lapsed' = [lapsed EXCEPT ![p] = ElapsedAfter(p, k)]
    /\ IF Valid(k)
       THEN /\ flag' = [flag EXCEPT ![p] = @ + 1]
            /\ sub' = [sub EXCEPT ![p][c] = k]
       ELSE UNCHANGED <<flag, sub>>
    /\ UNCHANGED <<told, statusFlag, monitorVars, prev, statusSub, statusTold, worldVars>>

\* The interval outlives the subscriptions, to be reset by the next first one.
Unsubscribe(c, p) ==
    /\ sub[p][c] # Absent
    /\ IF flag[p] > 0
       THEN flag' = [flag EXCEPT ![p] = @ - 1] /\ UNCHANGED <<interval, lapsed>>
       ELSE /\ interval' = [interval EXCEPT ![p] = 0]
            /\ lapsed' = [lapsed EXCEPT ![p] = 0]
            /\ UNCHANGED flag
    /\ sub' = [sub EXCEPT ![p][c] = Absent]
    /\ told' = [told EXCEPT ![p][c] = Unheard]
    /\ UNCHANGED <<statusFlag, monitorVars, prev, statusSub, statusTold, worldVars>>

SubscribeStatus(c) ==
    /\ c \notin statusSub
    /\ statusFlag' = statusFlag + 1
    /\ statusSub' = statusSub \cup {c}
    /\ UNCHANGED <<flag, interval, lapsed, monitorVars, prev, sub, told, statusTold, worldVars>>

UnsubscribeStatus(c) ==
    /\ c \in statusSub
    /\ statusFlag' = IF statusFlag > 0 THEN statusFlag - 1 ELSE statusFlag
    /\ statusSub' = statusSub \ {c}
    /\ statusTold' = [statusTold EXCEPT ![c] = Unheard]
    /\ UNCHANGED <<flag, interval, lapsed, monitorVars, prev, sub, told, worldVars>>

-----------------------------------------------------------------------------
(* CellularMgr_RBUS_Events_Monitor_Thread                                  *)

Here == Order[at]

\* CellularMgr_GetRadioEnvConditions asks the modem only then.
Registered == status \in {"REGISTERED", "CONNECTED"}

\* rbusEvent_Publish, with the old value set to the new one for next time.
Publish(p) ==
    /\ prev' = [prev EXCEPT ![p] = got[p]]
    /\ told' = [told EXCEPT ![p] = [c \in Clients |->
                  IF sub[p][c] # Absent THEN got[p] ELSE @[c]]]

\* Mutant: the last parameter is taken for one with a successor.
Advance_OffByOne ==
    \/ at = 1 /\ pc' = "status" /\ UNCHANGED at
    \/ at \in 2..6 /\ pc' = "look" /\ at' = at + 1

\* The next parameter; after the radio environment comes X_RDK_Status.
Advance ==
    \/ at = 1 /\ pc' = "status" /\ UNCHANGED at
    \/ at \in 2..5 /\ pc' = "look" /\ at' = at + 1
    \/ at = 6 /\ pc' = "sleep" /\ at' = 1

\* What the last pass has read goes with its locals.
Wake ==
    /\ pc = "sleep"
    /\ pc' = "look" /\ at' = 1 /\ seen' = status
    /\ got' = [p \in Parameters |-> None]
    /\ UNCHANGED <<listVars, lapsed, reg, prev, prevStatus, clientVars, told,
                   statusTold, worldVars>>

\* A parameter nobody subscribed is passed over; the radio environment is
\* read first, unless the status is below REGISTERED.
Look ==
    /\ pc = "look"
    /\ \/ flag[Here] = 0 /\ Advance
       \/ /\ flag[Here] > 0
          /\ pc' = IF at = 1 /\ Registered THEN "read" ELSE "weigh"
          /\ UNCHANGED at
    /\ UNCHANGED <<listVars, lapsed, seen, got, reg, prevStatus, prev, clientVars, told,
                   statusTold, worldVars>>

\* The answer of the modem ends the wait; zeros if it failed.
Read ==
    /\ pc = "read"
    /\ IF at = 1
       THEN got' = [got EXCEPT !["RadioEnv"] = reading["RadioEnv"]] /\ pc' = "weigh"
       ELSE /\ got' = [p \in Parameters |-> IF p \in Signals THEN reading[p] ELSE got[p]]
            /\ pc' = "look"
    /\ UNCHANGED <<listVars, lapsed, at, seen, reg, prevStatus, prev, clientVars, told,
                   statusTold, worldVars>>

\* Mutant: the old value follows the readings between two publications.
Weigh_FollowsReading ==
    /\ pc = "weigh"
    /\ IF interval[Here] > 0
       THEN /\ reg' = lapsed[Here] + Period /\ pc' = "store"
            /\ prev' = [prev EXCEPT ![Here] = got[Here]]
            /\ UNCHANGED <<at, told>>
       ELSE /\ IF prev[Here] # got[Here] THEN Publish(Here) ELSE UNCHANGED <<prev, told>>
            /\ Advance /\ UNCHANGED reg
    /\ UNCHANGED <<listVars, lapsed, seen, got, prevStatus, clientVars, statusTold, worldVars>>

\* Mutant: a change is not published.
Weigh_NoChange ==
    /\ pc = "weigh"
    /\ IF interval[Here] > 0
       THEN reg' = lapsed[Here] + Period /\ pc' = "store" /\ UNCHANGED at
       ELSE Advance /\ UNCHANGED reg
    /\ UNCHANGED <<listVars, lapsed, seen, got, prevStatus, prev, clientVars, told,
                   statusTold, worldVars>>

\* A parameter with an interval is counted; any other is published when it
\* differs from what was published.
Weigh ==
    /\ pc = "weigh"
    /\ \/ /\ interval[Here] > 0
          /\ reg' = lapsed[Here] + Period
          /\ pc' = "store"
          /\ UNCHANGED <<at, prev, told>>
       \/ /\ interval[Here] = 0 /\ prev[Here] # got[Here]
          /\ Publish(Here) /\ Advance
          /\ UNCHANGED reg
       \/ /\ interval[Here] = 0 /\ prev[Here] = got[Here]
          /\ Advance
          /\ UNCHANGED <<reg, prev, told>>
    /\ UNCHANGED <<listVars, lapsed, seen, got, prevStatus, clientVars, statusTold, worldVars>>

\* The counter is written back over whatever a subscription has made of it.
Store ==
    /\ pc = "store" /\ pc' = "judge"
    /\ lapsed' = [lapsed EXCEPT ![Here] = reg]
    /\ UNCHANGED <<listVars, at, seen, got, reg, prev, prevStatus, clientVars, told,
                   statusTold, worldVars>>

Due(p) == lapsed[p] >= interval[p]

Judge ==
    /\ pc = "judge"
    /\ \/ Due(Here) /\ lapsed' = [lapsed EXCEPT ![Here] = 0] /\ Publish(Here)
       \/ ~Due(Here) /\ UNCHANGED <<lapsed, prev, told>>
    /\ Advance
    /\ UNCHANGED <<listVars, seen, got, reg, prevStatus, clientVars, statusTold, worldVars>>

\* A pass goes on to read the signals if anyone subscribed to one and the modem
\* was up when the pass began.
GoesOn ==
    /\ \E p \in Signals : flag[p] > 0
    /\ seen \notin {"DOWN", "DEACTIVATED"}

PassStatus ==
    /\ pc = "status"
    /\ prevStatus' = seen
    /\ IF statusFlag > 0 /\ prevStatus # seen
       THEN statusTold' = [c \in Clients |->
                             IF c \in statusSub THEN seen ELSE statusTold[c]]
       ELSE UNCHANGED statusTold
    /\ IF GoesOn THEN pc' = "read" /\ at' = 2 ELSE pc' = "sleep" /\ at' = 1
    /\ UNCHANGED <<listVars, lapsed, seen, got, reg, prev, clientVars, told, worldVars>>

Monitor == Wake \/ Look \/ Read \/ Weigh \/ Store \/ Judge \/ PassStatus

-----------------------------------------------------------------------------
(* The rest of the program and the modem                                   *)

\* Another call for the signal takes the flag the monitor waits for, or the
\* context is wiped with the modem: the monitor goes on waiting.
ReadCrossed ==
    /\ pc = "read" /\ pc' = "crossed"
    /\ UNCHANGED <<listVars, lapsed, at, seen, got, reg, prevStatus, prev, clientVars,
                   told, statusTold, worldVars>>

\* Some later call raises the flag for the monitor too.
ReadRescued ==
    /\ pc = "crossed" /\ pc' = "read"
    /\ UNCHANGED <<listVars, lapsed, at, seen, got, reg, prevStatus, prev, clientVars,
                   told, statusTold, worldVars>>

StatusChanges ==
    /\ status' \in Statuses \ {status}
    /\ UNCHANGED <<listVars, lapsed, monitorVars, prev, clientVars, told,
                   statusTold, reading>>

\* A reading that fails leaves zeros behind.
ReadingChanges ==
    /\ \E p \in Observed \cap Parameters : \E v \in Values \ {reading[p]} :
          reading' = [reading EXCEPT ![p] = v]
    /\ UNCHANGED <<listVars, lapsed, monitorVars, prev, clientVars, told,
                   statusTold, status>>

Handler ==
    \E c \in Clients :
        \/ \E p \in Observed \cap Parameters :
              \/ \E k \in Intervals : Subscribe(c, p, k)
              \/ Unsubscribe(c, p)
        \/ /\ "X_RDK_Status" \in Observed
           /\ SubscribeStatus(c) \/ UnsubscribeStatus(c)

Others == ReadCrossed \/ ReadRescued \/ StatusChanges \/ ReadingChanges

Next == Monitor \/ Handler \/ Others

(* The monitor runs as long as the process lives, and a request that is not*)
(* crossed is answered, by libqmi's timeout if not by the modem.  A crossed*)
(* wait need never end: nothing obliges another caller to rescue it.  Nor  *)
(* need the clients, the state machine or the modem do anything.           *)
Spec == Init /\ [][Next]_vars /\ WF_vars(Monitor)

-----------------------------------------------------------------------------
(* Properties                                                              *)

(* The interval in force serves every client with an interval: it is no    *)
(* longer than the client's, whatever the others subscribe and give up in  *)
(* whatever order.                                                         *)
IntervalServesAll ==
    \A p \in Parameters, c \in Clients :
        sub[p][c] > 0 => interval[p] > 0 /\ interval[p] <= sub[p][c]

(* Outside the count of a parameter its elapsed time is below the interval *)
(* in force: no subscription, made at any point of a pass, leaves an event *)
(* overdue for a later pass.                                               *)
NothingOverdue ==
    \A p \in Parameters :
        (interval[p] > 0 /\ ~(pc \in {"store", "judge"} /\ Here = p))
            => lapsed[p] < interval[p]

(* The events a client receives form a chain: the old value of the next    *)
(* one is the value it was told last.                                      *)
EventsChain ==
    /\ \A p \in Parameters, c \in Clients :
          (sub[p][c] # Absent /\ told[p][c] # Unheard) => told[p][c] = prev[p]
    /\ \A c \in statusSub : statusTold[c] # Unheard => statusTold[c] = prevStatus

Offline == status \in {"DOWN", "DEACTIVATED"}

(* A client with an interval gets its first event, unless it leaves, the   *)
(* modem goes off, or another call crosses the monitor's wait for the      *)
(* signal: others who come and go cannot starve it.                        *)
IntervalNotStarved ==
    \A p \in Observed \cap Parameters, c \in Clients :
        (sub[p][c] > 0 /\ told[p][c] = Unheard)
            ~> (told[p][c] # Unheard \/ sub[p][c] = Absent \/ Offline \/ pc = "crossed")

(* A signal that differs from the value published last is published, with  *)
(* or without an interval, unless it returns to that value, the last client*)
(* leaves, the modem goes off, or another call crosses the monitor's wait  *)
(* for the signal, which may then never end.                               *)
ChangesArePublished ==
    \A p \in Observed \cap Signals, v \in Values :
        (Subscribed(p) # {} /\ prev[p] = v /\ reading[p] # v)
            ~> \/ prev[p] # v \/ reading[p] = v \/ Subscribed(p) = {}
               \/ Offline \/ pc = "crossed"
=============================================================================
