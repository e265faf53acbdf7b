----------------------------- MODULE CellularSM -----------------------------
(***************************************************************************)
(* The policy state machine of the cellular manager                        *)
(* (source/CellularManager/cellularmgr_sm.c), its callbacks from the HAL,  *)
(* the management writes it reacts to, and the modem behind the QMI HAL.   *)
(*                                                                         *)
(* One thread, CellularMgr_StateMachine_Thread, wakes every 500 ms and     *)
(* runs the body of the current state.  The GLib thread of the HAL calls   *)
(* back into the same control block, without any common lock, whenever the *)
(* modem answers; the TR-181 layer writes the enable flags.  A body is one *)
(* atomic action except where it blocks (sleep, bus call before a stop) or *)
(* where a check and the assignment that depends on it race with a         *)
(* callback: there `pc' names the point at which the thread waits.         *)
(***************************************************************************)
EXTENDS Naturals, FiniteSets

CONSTANTS
    ReconnectWait,  \* seconds waited before a reconnection (max_wait, 3 in the code)
    PdpTypes,       \* PDP types the modem's default profile may have
    BusFails,       \* TRUE: a message to the WAN manager may fail
    HalSilent,      \* TRUE: a HAL task may end without calling back
    Disturbances    \* what may change under the machine's feet, see below

Family == {"IPv4", "IPv6"}

AllPdpTypes == {"IPv4", "IPv6", "IPv4v6", "PPP"}

\* unplug: the modem is unplugged; modem, interface, upstream: the management
\* flags are written (raising Upstream, which starts out FALSE, needs no leave);
\* network: the registration or the roaming state changes after it was found;
\* slot: the slot chosen is lost; card: the card is found blocked; session: a
\* packet session drops or is suspended.
AllDisturbances == {"unplug", "modem", "interface", "upstream", "network",
                    "slot", "card", "session"}

ASSUME ConstantsAssumption ==
    /\ ReconnectWait \in Nat \ {0}
    /\ PdpTypes \subseteq AllPdpTypes
    /\ BusFails \in BOOLEAN
    /\ HalSilent \in BOOLEAN
    /\ Disturbances \subseteq AllDisturbances

VARIABLES
    pc,         \* where the state machine thread is
    state,      \* policy_sm_state, local to the thread
    cur,        \* enCurrentSMState, what every other thread reads
    iter,       \* seconds of the reconnection wait already slept
    maxWait,    \* seconds of the reconnection wait to sleep
    detection,  \* enDeviceDetectionStatus
    enable,     \* bRDKEnable
    open,       \* enDeviceOpenStatus
    slot,       \* enDeviceSlotSelectionStatus
    nas,        \* enDeviceNASRegisterStatus
    profile,    \* enDeviceProfileSelectionStatus
    pdp,        \* enPDPTypeForSelectedProfile
    start,      \* bIPv{4,6}NetworkStartInProgress
    waiting,    \* bIPv{4,6}WaitingForPacketStatus
    packet,     \* enNetworkIPv{4,6}PacketServiceStatus
    ifEnable,   \* Enable of the cellular interface
    upstream,   \* Upstream of the cellular interface
    wanLink,    \* LinkStatus last written to the WAN manager
    wanPhy      \* Phy.Status last written to the WAN manager

VARIABLES
    present,    \* the modem's control device file exists
    device,     \* the HAL's QmiDevice
    online,     \* the modem's operating mode is online
    cardOk,     \* what CellularMgr_GetActiveCardStatus does not object to
    uim,        \* the UIM client: none, no slot chosen, a slot chosen
    served,     \* the modem is registered with a network
    reported,   \* registration_state_previous is REGISTERED
    monitored,  \* the serving-system indication has a handler
    asked,      \* HAL tasks that have yet to call back
    session,    \* the packet session of each family
    stale       \* a start task outlived the stop of its session

threadVars == <<pc, state, cur>>
timerVars  == <<iter, maxWait>>
deviceVars == <<detection, enable, open>>
netVars    == <<profile, pdp, start, waiting, packet>>
dmlVars    == <<ifEnable, upstream>>
wanVars    == <<wanLink, wanPhy>>
modemVars  == <<present, device, online, cardOk, served>>
halVars    == <<uim, reported, monitored, asked>>
sessVars   == <<session, stale>>
vars == <<threadVars, timerVars, deviceVars, slot, nas, netVars, dmlVars,
          wanVars, modemVars, halVars, sessVars>>

States   == {"DOWN", "DEACTIVATED", "DEREGISTERED", "REGISTERED", "CONNECTED"}
Points   == {"loop", "wait", "lost", "settle", "startIPv6", "stop"}
Requests == {"open", "slot", "reg", "profile"}
Sessions == {"none", "starting", "leased", "online", "up"}

ThreadTypes ==
    /\ pc \in Points /\ state \in States /\ cur \in States
    /\ iter \in 0..ReconnectWait /\ maxWait \in {0, ReconnectWait}

StatusTypes ==
    /\ detection \in {"REMOVED", "DETECTED"}
    /\ open \in {"NOT_READY", "INPROGRESS", "READY"}
    /\ slot \in {"NOT_READY", "SELECTING", "READY"}
    /\ nas \in {"NOT_REGISTERED", "REGISTERING", "REGISTERED"}
    /\ profile \in {"NOT_READY", "CONFIGURING", "READY"}
    /\ pdp \in AllPdpTypes
    /\ wanLink \in {"Up", "Down"} /\ wanPhy \in {"Up", "Down"}
    /\ device \in {"none", "open", "gone"}
    /\ uim \in {"none", "idle", "chosen"}

FlagTypes ==
    /\ enable \in BOOLEAN /\ ifEnable \in BOOLEAN /\ upstream \in BOOLEAN
    /\ present \in BOOLEAN /\ online \in BOOLEAN /\ cardOk \in BOOLEAN
    /\ served \in BOOLEAN /\ reported \in BOOLEAN /\ monitored \in BOOLEAN

NetworkTypes ==
    /\ start \in [Family -> BOOLEAN] /\ waiting \in [Family -> BOOLEAN]
    /\ packet \in [Family -> {"DISCONNECTED", "CONNECTED"}]
    /\ session \in [Family -> Sessions] /\ stale \in [Family -> BOOLEAN]

RequestTypes == asked \subseteq Requests

(* The type invariant: every status field keeps to its enumeration and the *)
(* reconnection wait to its bound.                                         *)
TypeOK == ThreadTypes /\ StatusTypes /\ FlagTypes /\ NetworkTypes
          /\ RequestTypes

-----------------------------------------------------------------------------
(* Helpers                                                                 *)

\* The address families a PDP type asks for.  A PPP profile asks for none.
Families(type) ==
    CASE type = "IPv4"   -> {"IPv4"}
      [] type = "IPv6"   -> {"IPv6"}
      [] type = "IPv4v6" -> Family
      [] OTHER           -> {}

AllFamilies(value) == [f \in Family |-> value]

Put(fn, f, value) == [fn EXCEPT ![f] = value]

\* A required family is down: CONNECTED is left.
SessionLost == \E f \in Families(pdp) : packet[f] = "DISCONNECTED"

\* Every required family is up: CONNECTED may be entered.
SessionReady ==
    /\ Families(pdp) # {}
    /\ \A f \in Families(pdp) : packet[f] = "CONNECTED"

StartPending == \E f \in Family : start[f] \/ waiting[f]

\* A write to the WAN manager's table; when the bus fails the old value stays.
UpdateLinkStatus(value) ==
    \/ wanLink' = value
    \/ BusFails /\ wanLink' = wanLink

UpdatePhyStatus(value) ==
    \/ wanPhy' = value
    \/ BusFails /\ wanPhy' = wanPhy

\* qmi_device_is_open: an unplugged device counts as open until the HAL has
\* handled its removal signal; what is then asked of it can only fail.
DeviceOpen == device # "none"

Disturbed(what) == what \in Disturbances

-----------------------------------------------------------------------------
(* CellularMgr_ControllerInit and the TransitionDown with which the thread *)
(* begins.  When that first bus write may fail, the WAN manager may still  *)
(* hold what an earlier run of the process left in its table.              *)
Init ==
    /\ pc = "loop" /\ state = "DOWN" /\ cur = "DOWN"
    /\ iter = 0 /\ maxWait = 0
    /\ detection = "REMOVED" /\ open = "NOT_READY"
    /\ enable = FALSE
    /\ slot = "NOT_READY" /\ nas = "NOT_REGISTERED"
    /\ profile = "NOT_READY" /\ pdp = "IPv4"
    /\ start = AllFamilies(FALSE) /\ waiting = AllFamilies(FALSE)
    /\ packet = AllFamilies("DISCONNECTED")
    /\ ifEnable = TRUE /\ upstream = FALSE
    /\ wanLink \in (IF BusFails THEN {"Up", "Down"} ELSE {"Down"})
    /\ wanPhy = wanLink
    /\ present \in (IF Disturbed("unplug") THEN BOOLEAN ELSE {TRUE})
    /\ device = "none" /\ cardOk = TRUE
    /\ online \in (IF Disturbed("modem") THEN BOOLEAN ELSE {TRUE})
    /\ uim = "none" /\ served = FALSE /\ reported = FALSE
    /\ monitored = FALSE /\ asked = {}
    /\ session = AllFamilies("none") /\ stale = AllFamilies(FALSE)

-----------------------------------------------------------------------------
(* Transitions.  Each says what becomes of every field the body of a state *)
(* may touch, except `detection', which the body itself decides.           *)

TransitionDown ==
    /\ state' = "DOWN" /\ cur' = "DOWN"
    /\ slot' = "NOT_READY"
    /\ packet' = AllFamilies("DISCONNECTED")
    /\ UpdatePhyStatus("Down") /\ UpdateLinkStatus("Down")
    /\ UNCHANGED <<pc, timerVars, enable, open, nas, profile, pdp, start,
                   waiting, dmlVars, modemVars, halVars, sessVars>>

\* cellular_hal_open_device: without a device file the answer, offline and
\* not ready, comes before the call returns.
RequestOpen ==
    IF present
    THEN /\ open' = "INPROGRESS" /\ asked' = asked \cup {"open"}
         /\ UNCHANGED enable
    ELSE /\ open' = "NOT_READY" /\ enable' = FALSE
         /\ UNCHANGED asked

\* Mutant: the physical status alone is lowered.
TransitionDeactivated_KeepsLink ==
    /\ state' = "DEACTIVATED"
    /\ UpdatePhyStatus("Down") /\ UNCHANGED wanLink
    /\ RequestOpen
    /\ UNCHANGED <<pc, cur, timerVars, slot, nas, netVars, dmlVars, modemVars,
                   uim, reported, monitored, sessVars>>

\* The state of the thread changes, enCurrentSMState does not.
TransitionDeactivated ==
    /\ state' = "DEACTIVATED"
    /\ UpdatePhyStatus("Down") /\ UpdateLinkStatus("Down")
    /\ RequestOpen
    /\ UNCHANGED <<pc, cur, timerVars, slot, nas, netVars, dmlVars, modemVars,
                   uim, reported, monitored, sessVars>>

\* cellular_hal_select_device_slot, called with the slot set to SELECTING:
\* a closed device or a slot chosen earlier answers before the call returns.
RequestSlot ==
    \/ ~DeviceOpen /\ slot' = "NOT_READY" /\ UNCHANGED asked
    \/ DeviceOpen /\ uim = "none" /\ slot' = "SELECTING"
         /\ asked' = asked \cup {"slot"}
    \/ DeviceOpen /\ uim = "idle" /\ slot' = "SELECTING" /\ UNCHANGED asked
    \/ DeviceOpen /\ uim = "chosen" /\ slot' = "READY" /\ UNCHANGED asked

\* A failure to write the physical status returns before anything is set, so
\* the tick then changes nothing; here the write has succeeded.
TransitionDeregistered ==
    /\ wanPhy' = "Up"
    /\ nas' = "NOT_REGISTERED"
    /\ RequestSlot
    /\ UNCHANGED <<pc, timerVars, detection, enable, open, netVars, dmlVars,
                   wanLink, modemVars, uim, reported, monitored, sessVars>>

\* cellular_hal_monitor_device_registration: nothing ever answers when the
\* device is not open, or was opened without its NAS client.
RequestRegistration ==
    \/ /\ DeviceOpen
       /\ asked' = asked \cup {"reg"} /\ monitored' = TRUE
       /\ UNCHANGED <<uim, reported>>
    \/ (~DeviceOpen \/ HalSilent) /\ UNCHANGED halVars

TransitionRegistering ==
    /\ nas' = "REGISTERING"
    /\ RequestRegistration
    /\ UNCHANGED <<threadVars, timerVars, deviceVars, slot, netVars, dmlVars,
                   wanVars, modemVars, sessVars>>

\* cellular_hal_profile_create: a closed device answers at once, not ready
\* and with PDP type 0, which is IPv4.
RequestProfile ==
    IF DeviceOpen
    THEN /\ profile' = "CONFIGURING" /\ asked' = asked \cup {"profile"}
         /\ UNCHANGED pdp
    ELSE /\ profile' = "NOT_READY" /\ pdp' = "IPv4"
         /\ UNCHANGED asked

TransitionRegistered ==
    /\ start' = AllFamilies(FALSE) /\ waiting' = AllFamilies(FALSE)
    /\ packet' = AllFamilies("DISCONNECTED")
    /\ RequestProfile
    /\ UNCHANGED <<threadVars, timerVars, deviceVars, slot, nas, dmlVars,
                   wanVars, modemVars, uim, reported, monitored, sessVars>>

\* TransitionRegisteredStartNetwork up to its sleep(3), in which the WAN
\* manager settles.
TransitionRegisteredStartNetwork ==
    /\ iter' = 0 /\ maxWait' = 0
    /\ UpdateLinkStatus("Up")
    /\ pc' = "settle"
    /\ UNCHANGED <<state, cur, deviceVars, slot, nas, netVars, dmlVars,
                   wanPhy, modemVars, halVars, sessVars>>

TransitionConnected ==
    /\ maxWait' = ReconnectWait
    /\ UNCHANGED iter

\* Mutant: enCurrentSMState is forgotten.
RegistrationLost_KeepsCurrent ==
    nas' = "REGISTERING" /\ state' = "DEREGISTERED" /\ UNCHANGED cur

\* The registration is gone: look for it again from DEREGISTERED.
RegistrationLost ==
    /\ nas' = "REGISTERING"
    /\ state' = "DEREGISTERED" /\ cur' = "DEREGISTERED"

-----------------------------------------------------------------------------
(* The bodies of the states                                                *)

InState(s) == pc = "loop" /\ state = s

StateDown ==
    /\ InState("DOWN")
    /\ \/ /\ ~present
          /\ detection' = "REMOVED"
          /\ UNCHANGED <<threadVars, timerVars, enable, open, slot, nas,
                         netVars, dmlVars, wanVars, modemVars, halVars, sessVars>>
       \/ /\ present
          /\ detection' = "DETECTED"
          /\ TransitionDeactivated

Removed == detection = "REMOVED"

Unusable == ~enable \/ open = "NOT_READY"

StateDeactivated ==
    /\ InState("DEACTIVATED")
    /\ \/ Removed /\ TransitionDown /\ UNCHANGED detection
       \/ /\ ~Removed
          /\ enable /\ open = "READY" /\ slot = "NOT_READY"
          /\ TransitionDeregistered
          /\ IF slot' = "SELECTING"
             THEN state' = "DEREGISTERED" /\ cur' = "DEREGISTERED"
             ELSE UNCHANGED <<state, cur>>
       \/ /\ ~Removed /\ slot = "SELECTING"
          /\ state' = "DEREGISTERED" /\ cur' = "DEREGISTERED"
          /\ UNCHANGED <<pc, timerVars, deviceVars, slot, nas, netVars, dmlVars,
                         wanVars, modemVars, halVars, sessVars>>

\* What StateDeregistered waits for before it looks at the registration.
DeregisteredWaits ==
    slot = "SELECTING" \/ nas = "REGISTERING" \/ ~ifEnable \/ ~cardOk

\* Mutant: the removal is looked at only after the waits.
StateDeregistered_WaitsFirst ==
    /\ InState("DEREGISTERED") /\ ~DeregisteredWaits
    /\ \/ Removed /\ TransitionDown /\ UNCHANGED detection
       \/ ~Removed /\ Unusable /\ TransitionDeactivated /\ UNCHANGED detection
       \/ /\ ~Removed /\ ~Unusable
          /\ slot = "READY" /\ nas = "NOT_REGISTERED"
          /\ TransitionRegistering
       \/ /\ ~Removed /\ ~Unusable /\ nas = "REGISTERED"
          /\ state' = "REGISTERED" /\ cur' = "REGISTERED"
          /\ UNCHANGED <<pc, timerVars, deviceVars, slot, nas, netVars, dmlVars,
                         wanVars, modemVars, halVars, sessVars>>

StateDeregistered ==
    /\ InState("DEREGISTERED")
    /\ \/ Removed /\ TransitionDown /\ UNCHANGED detection
       \/ ~Removed /\ Unusable /\ TransitionDeactivated /\ UNCHANGED detection
       \/ /\ ~Removed /\ ~Unusable /\ ~DeregisteredWaits
          /\ slot = "READY" /\ nas = "NOT_REGISTERED"
          /\ TransitionRegistering
       \/ /\ ~Removed /\ ~Unusable /\ ~DeregisteredWaits
          /\ nas = "REGISTERED"
          /\ state' = "REGISTERED" /\ cur' = "REGISTERED"
          /\ UNCHANGED <<pc, timerVars, deviceVars, slot, nas, netVars, dmlVars,
                         wanVars, modemVars, halVars, sessVars>>

\* The SIM or the interface is no longer usable for a registration.
NotSubscribed == slot = "NOT_READY" \/ ~cardOk \/ ~ifEnable

\* Every test of StateRegistered above the profile has passed.
StillRegistered ==
    /\ InState("REGISTERED")
    /\ ~Removed /\ ~Unusable /\ ~NotSubscribed /\ nas = "REGISTERED"

ReadyToStart ==
    /\ profile = "READY" /\ ~StartPending /\ upstream
    /\ packet = AllFamilies("DISCONNECTED")

RegisteredLeaves ==
    /\ InState("REGISTERED")
    /\ \/ Removed /\ TransitionDown /\ UNCHANGED detection
       \/ ~Removed /\ Unusable /\ TransitionDeactivated /\ UNCHANGED detection
       \/ /\ ~Removed /\ ~Unusable /\ NotSubscribed
          /\ nas' = "NOT_REGISTERED"
          /\ state' = "DEREGISTERED" /\ cur' = "DEREGISTERED"
          /\ UNCHANGED <<pc, timerVars, deviceVars, slot, netVars, dmlVars,
                         wanVars, modemVars, halVars, sessVars>>
       \/ /\ ~Removed /\ ~Unusable /\ ~NotSubscribed /\ nas # "REGISTERED"
          /\ pc' = "lost"
          /\ UNCHANGED <<state, cur, timerVars, deviceVars, slot, nas, netVars,
                         dmlVars, wanVars, modemVars, halVars, sessVars>>

RegisteredCreatesProfile ==
    StillRegistered /\ profile = "NOT_READY" /\ TransitionRegistered

\* The reconnection wait: `while (iter < max_wait)' around sleep(1).
RegisteredStarts ==
    /\ StillRegistered /\ ReadyToStart
    /\ \/ iter >= maxWait /\ TransitionRegisteredStartNetwork
       \/ /\ iter < maxWait
          /\ pc' = "wait"
          /\ UNCHANGED <<state, cur, timerVars, deviceVars, slot, nas, netVars,
                         dmlVars, wanVars, modemVars, halVars, sessVars>>

RegisteredConnects ==
    /\ StillRegistered /\ profile = "READY" /\ ~StartPending /\ SessionReady
    /\ state' = "CONNECTED" /\ cur' = "CONNECTED"
    /\ TransitionConnected
    /\ UNCHANGED <<pc, deviceVars, slot, nas, netVars, dmlVars, wanVars,
                   modemVars, halVars, sessVars>>

\* Mutant: a second too many is counted.
WaitSecond_OffByOne ==
    /\ pc = "wait" /\ nas = "REGISTERED"
    /\ \/ /\ iter < maxWait + 1
          /\ iter' = iter + 1
          /\ UNCHANGED <<threadVars, maxWait, deviceVars, slot, nas, netVars,
                         dmlVars, wanVars, modemVars, halVars, sessVars>>
       \/ iter > maxWait /\ TransitionRegisteredStartNetwork

\* One second of the reconnection wait is over.
WaitSecond ==
    /\ pc = "wait"
    /\ \/ /\ nas # "REGISTERED"
          /\ pc' = "lost" /\ iter' = iter + 1
          /\ UNCHANGED <<state, cur, maxWait, deviceVars, slot, nas, netVars,
                         dmlVars, wanVars, modemVars, halVars, sessVars>>
       \/ /\ nas = "REGISTERED" /\ iter + 1 < maxWait
          /\ iter' = iter + 1
          /\ UNCHANGED <<threadVars, maxWait, deviceVars, slot, nas, netVars,
                         dmlVars, wanVars, modemVars, halVars, sessVars>>
       \/ /\ nas = "REGISTERED" /\ iter + 1 >= maxWait
          /\ TransitionRegisteredStartNetwork

\* Mutant: iter is not reset.
RegistrationLostStep_KeepsCount ==
    /\ pc = "lost"
    /\ RegistrationLost
    /\ pc' = "loop"
    /\ UNCHANGED <<timerVars, deviceVars, slot, netVars, dmlVars, wanVars,
                   modemVars, halVars, sessVars>>

\* The assignment that follows a failed check of the registration.  A
\* callback may have set REGISTERED in between: it is overwritten.
RegistrationLostStep ==
    /\ pc = "lost"
    /\ RegistrationLost
    /\ pc' = "loop" /\ iter' = 0
    /\ UNCHANGED <<maxWait, deviceVars, slot, netVars, dmlVars, wanVars,
                   modemVars, halVars, sessVars>>

\* cellular_hal_start_network: with a closed device the answer carries no
\* family, the callbacks ignore it, and both flags stay set.  A task that is
\* still starting the family keeps running beside the new one.
StartFamily(f) ==
    IF f \in Families(pdp)
    THEN /\ start' = Put(start, f, TRUE) /\ waiting' = Put(waiting, f, TRUE)
         /\ packet' = Put(packet, f, "DISCONNECTED")
         /\ IF DeviceOpen
            THEN /\ session' = Put(session, f, "starting")
                 /\ stale' = Put(stale, f, stale[f] \/ session[f] \in {"starting", "online"})
            ELSE UNCHANGED sessVars
    ELSE UNCHANGED <<start, waiting, packet, sessVars>>

StartNetworks ==
    /\ \/ pc = "settle" /\ pc' = "startIPv6" /\ StartFamily("IPv4")
       \/ pc = "startIPv6" /\ pc' = "loop" /\ StartFamily("IPv6")
    /\ UNCHANGED <<state, cur, timerVars, deviceVars, slot, nas, profile, pdp,
                   dmlVars, wanVars, modemVars, halVars>>

\* Mutant: the enable flag is not looked at.
MustStop_IgnoresEnable ==
    slot = "NOT_READY" \/ ~ifEnable \/ ~upstream \/ SessionLost

\* Mutant: the sessions are not looked at.
MustStop_IgnoresSession ==
    ~enable \/ slot = "NOT_READY" \/ ~ifEnable \/ ~upstream

MustStop ==
    \/ ~enable \/ slot = "NOT_READY" \/ ~ifEnable \/ ~upstream
    \/ SessionLost

\* Before it asks the HAL to stop the sessions the thread talks to the WAN
\* manager: callbacks may still arrive after the fields have been reset.
StateConnected ==
    /\ InState("CONNECTED")
    /\ \/ Removed /\ TransitionDown /\ UNCHANGED detection
       \/ /\ ~Removed /\ open = "NOT_READY"
          /\ TransitionDeactivated /\ UNCHANGED detection
       \/ /\ ~Removed /\ open # "NOT_READY" /\ MustStop
          /\ pc' = "stop"
          /\ start' = AllFamilies(FALSE) /\ waiting' = AllFamilies(FALSE)
          /\ packet' = AllFamilies("DISCONNECTED")
          /\ UNCHANGED <<state, cur, timerVars, deviceVars, slot, nas, profile,
                         pdp, dmlVars, wanVars, modemVars, halVars, sessVars>>

\* cellular_hal_stop_network for each family of the profile.  The HAL does
\* not call back; a start task that has yet to report its lease runs on.
StopSessions ==
    IF DeviceOpen
    THEN /\ session' = [f \in Family |->
                          IF f \in Families(pdp) THEN "none" ELSE session[f]]
         /\ stale' = [f \in Family |-> stale[f] \/
                        (f \in Families(pdp) /\ session[f] \in {"starting", "online"})]
    ELSE UNCHANGED sessVars

\* Where TransitionConnectedStopNetwork goes once the sessions are stopped.
AfterStop ==
    \/ /\ ~enable
       /\ pc' = "loop" /\ state' = "DEACTIVATED" /\ cur' = "DEACTIVATED"
       /\ UNCHANGED nas
    \/ /\ enable /\ ~ifEnable
       /\ pc' = "loop" /\ state' = "DEREGISTERED" /\ cur' = "DEREGISTERED"
       /\ nas' = "NOT_REGISTERED"
    \/ /\ enable /\ ifEnable /\ nas # "REGISTERED"
       /\ pc' = "lost"
       /\ UNCHANGED <<state, cur, nas>>
    \/ /\ enable /\ ifEnable /\ nas = "REGISTERED"
       /\ pc' = "loop" /\ state' = "REGISTERED" /\ cur' = "REGISTERED"
       /\ UNCHANGED nas

\* Mutant: the link is lowered only on the path that stays registered.
TransitionConnectedStopNetwork_LinkLast ==
    /\ pc = "stop"
    /\ StopSessions
    /\ AfterStop
    /\ IF state' = "REGISTERED" THEN UpdateLinkStatus("Down") ELSE UNCHANGED wanLink
    /\ UNCHANGED <<timerVars, deviceVars, slot, netVars, dmlVars, wanPhy,
                   modemVars, halVars>>

TransitionConnectedStopNetwork ==
    /\ pc = "stop"
    /\ UpdateLinkStatus("Down")
    /\ StopSessions
    /\ AfterStop
    /\ UNCHANGED <<timerVars, deviceVars, slot, netVars, dmlVars, wanPhy,
                   modemVars, halVars>>

(* One step of CellularMgr_StateMachine_Thread.                            *)
SMStep ==
    \/ StateDown
    \/ StateDeactivated
    \/ StateDeregistered
    \/ RegisteredLeaves
    \/ RegisteredCreatesProfile
    \/ RegisteredStarts
    \/ RegisteredConnects
    \/ WaitSecond
    \/ RegistrationLostStep
    \/ StartNetworks
    \/ StateConnected
    \/ TransitionConnectedStopNetwork

-----------------------------------------------------------------------------
(* Callbacks of the HAL, on its GLib thread                                *)

Answered(request) == request \in asked /\ asked' = asked \ {request}

\* CellularMgrDeviceOpenStatusCBForSM
DeviceOpenStatusCB(status, modeOnline) ==
    /\ open' = status /\ enable' = modeOnline
    /\ UNCHANGED <<threadVars, timerVars, detection, slot, nas, netVars, dmlVars,
                   wanVars, present, online, cardOk, served, uim, reported,
                   monitored, sessVars>>

\* The open task reports a device that it opened, or found open, even if it
\* has gone since, and with any mode: the context starts with online, a query
\* that fails means offline, and a DMS client refused ends the task before it.
\* A device that cannot be created or opened is reported online too.
OpenAnswer ==
    /\ Answered("open")
    /\ \/ /\ \/ device = "none" /\ present /\ device' = "open"
             \/ device # "none" /\ UNCHANGED device
             \/ device = "none" /\ Disturbed("unplug") /\ UNCHANGED device
          /\ \E mode \in BOOLEAN : DeviceOpenStatusCB("READY", mode)
       \/ /\ device = "none" /\ UNCHANGED device
          /\ DeviceOpenStatusCB("NOT_READY", TRUE)

\* CellularMgrDeviceSlotStatusCBForSM
SlotStatusCB(status) ==
    /\ slot' = status
    /\ UNCHANGED <<threadVars, timerVars, deviceVars, nas, netVars, dmlVars,
                   wanVars, modemVars, reported, monitored, sessVars>>

\* The UIM client is allocated and a slot with a card is chosen; or there is
\* none, and nothing is called back until an indication; or no client.
SlotAnswer ==
    /\ Answered("slot")
    /\ \/ device = "open" /\ uim' = "chosen" /\ SlotStatusCB("READY")
       \/ device = "open" /\ uim' = "idle" /\ SlotStatusCB(slot)
       \/ UNCHANGED uim /\ SlotStatusCB("NOT_READY")

SlotIndication ==
    /\ device = "open" /\ UNCHANGED asked
    /\ \/ uim = "idle" /\ uim' = "chosen" /\ SlotStatusCB("READY")
       \/ /\ Disturbed("slot")
          /\ uim = "chosen" /\ uim' = "idle" /\ SlotStatusCB("NOT_READY")

\* CellularMgrDeviceRegistrationStatusCBForSM
NasAfter(status) ==
    IF nas = "REGISTERED" /\ status = "NOT_REGISTERED"
    THEN "REGISTERING" ELSE status

NasStatus(registered) ==
    IF registered THEN "REGISTERED" ELSE "NOT_REGISTERED"

RegistrationStatusCB(status) ==
    /\ nas' = NasAfter(status)
    /\ UNCHANGED <<threadVars, timerVars, deviceVars, slot, netVars, dmlVars,
                   wanVars, present, device, online, cardOk, uim, monitored,
                   sessVars>>

\* The serving system has been read; or it was read three times without a
\* registration, and an indication is to follow; or it could not be read.
RegistrationAnswer ==
    /\ Answered("reg") /\ UNCHANGED served
    /\ \/ served /\ reported' = TRUE /\ RegistrationStatusCB("REGISTERED")
       \/ ~served /\ UNCHANGED reported /\ RegistrationStatusCB("REGISTERING")
       \/ UNCHANGED reported /\ RegistrationStatusCB("NOT_REGISTERED")

\* The registration or the roaming state of the modem changes.  The HAL
\* compares with what it reported last and is silent when they agree.
ServingSystemIndication ==
    /\ device = "open" /\ UNCHANGED asked
    /\ served' \in BOOLEAN
    /\ served => Disturbed("network")
    /\ \/ monitored /\ reported' = served' /\ RegistrationStatusCB(NasStatus(served'))
       \/ /\ ~monitored \/ served' = reported
          /\ UNCHANGED <<threadVars, timerVars, deviceVars, slot, nas, netVars,
                         dmlVars, wanVars, present, device, online, cardOk,
                         uim, reported, monitored, sessVars>>

\* CellularMgrProfileStatusCBForSM, called when the profile has been created;
\* a task that fails ends without a callback.
ProfileAnswer ==
    /\ Answered("profile")
    /\ \/ /\ device = "open"
          /\ profile' = "READY" /\ pdp' \in PdpTypes
       \/ /\ HalSilent \/ device # "open"
          /\ UNCHANGED <<profile, pdp>>
    /\ UNCHANGED <<threadVars, timerVars, deviceVars, slot, nas, start, waiting,
                   packet, dmlVars, wanVars, modemVars, uim, reported,
                   monitored, sessVars>>

\* Mutant: the wait for the packet status is not given up.
IPReadyCB_KeepsWaiting(f, ready) ==
    /\ start' = Put(start, f, FALSE)
    /\ packet' = IF ready THEN packet ELSE Put(packet, f, "DISCONNECTED")
    /\ UNCHANGED waiting

\* CellularMgrIPReadyCBForSM
IPReadyCB(f, ready) ==
    /\ start' = Put(start, f, FALSE)
    /\ IF ready
       THEN UNCHANGED <<waiting, packet>>
       ELSE /\ waiting' = Put(waiting, f, FALSE)
            /\ packet' = Put(packet, f, "DISCONNECTED")

\* CellularMgrPacketServiceStatusCBForSM
PacketStatusCB(f, status) ==
    /\ packet' = Put(packet, f, status)
    /\ start' = Put(start, f, FALSE)
    /\ waiting' = Put(waiting, f, FALSE)

SessionEventFrame ==
    UNCHANGED <<threadVars, timerVars, deviceVars, slot, nas, profile, pdp,
                dmlVars, wanVars, modemVars, halVars>>

\* The start task of family f has its lease, has failed with a callback, or
\* has ended without one.
StartAnswer(f) ==
    /\ UNCHANGED stale
    /\ \/ /\ session[f] \in {"starting", "online"} /\ device = "open"
          /\ session' = Put(session, f, IF session[f] = "online" THEN "up" ELSE "leased")
          /\ IPReadyCB(f, TRUE)
       \/ /\ session[f] = "starting"
          /\ session' = Put(session, f, "none")
          /\ IPReadyCB(f, FALSE)
       \/ /\ session[f] = "starting" /\ HalSilent
          /\ \E s \in {"none", "leased"} : session' = Put(session, f, s)
          /\ UNCHANGED <<start, waiting, packet>>
    /\ SessionEventFrame

\* A start task whose session was stopped or replaced answers at last.
StaleStartAnswer(f) ==
    /\ stale[f] /\ stale' = Put(stale, f, FALSE)
    /\ \/ device = "open" /\ IPReadyCB(f, TRUE)
       \/ IPReadyCB(f, FALSE)
       \/ HalSilent /\ UNCHANGED <<start, waiting, packet>>
    /\ UNCHANGED session
    /\ SessionEventFrame

PacketConnected(f) ==
    /\ session[f] # "none" /\ device = "open"
    /\ session' = Put(session, f, IF session[f] \in {"starting", "online"} THEN "online" ELSE "up")
    /\ PacketStatusCB(f, "CONNECTED")
    /\ UNCHANGED stale
    /\ SessionEventFrame

\* Every status but CONNECTED is reported as DISCONNECTED: the session has
\* ended, or is only being authenticated or suspended.
PacketDisconnected(f) ==
    /\ Disturbed("session")
    /\ session[f] # "none" /\ device = "open"
    /\ \/ UNCHANGED <<session, stale>>
       \/ /\ session' = Put(session, f, "none")
          /\ stale' = Put(stale, f, stale[f] \/ session[f] \in {"starting", "online"})
    /\ PacketStatusCB(f, "DISCONNECTED")
    /\ SessionEventFrame

\* cellular_hal_qmi_device_removed_cb: every client and session is released,
\* then CellularMgrDeviceRemovedStatusCBForSM is told.
DeviceRemovedCB ==
    /\ device = "gone" /\ device' = "none"
    /\ detection' = "REMOVED"
    /\ uim' = "none" /\ monitored' = FALSE
    /\ session' = AllFamilies("none")
    /\ stale' = [f \in Family |-> stale[f] \/ session[f] \in {"starting", "online"}]
    /\ UNCHANGED <<threadVars, timerVars, enable, open, slot, nas, netVars,
                   dmlVars, wanVars, present, online, cardOk, served, reported,
                   asked>>

-----------------------------------------------------------------------------
(* Management writes and the modem                                         *)

\* CellularMgr_SetModemEnable: the flag is set whether or not the modem can be
\* told.  To come online it is reset, and is gone until it is back.
SetModemEnable(value) ==
    /\ Disturbed("modem")
    /\ enable' = value
    /\ \/ UNCHANGED modemVars
       \/ /\ ~value /\ device = "open"
          /\ online' = FALSE
          /\ UNCHANGED <<present, device, cardOk, served>>
       \/ /\ value /\ device = "open"
          /\ online' = TRUE
          /\ present' = FALSE /\ served' = FALSE /\ device' = "gone"
          /\ UNCHANGED cardOk
    /\ UNCHANGED <<threadVars, timerVars, detection, open, slot, nas, netVars,
                   dmlVars, wanVars, halVars, sessVars>>

\* The WAN manager raises Upstream when it wants a connection.
SetInterface(en, up) ==
    /\ en # ifEnable => Disturbed("interface")
    /\ (upstream /\ ~up) => Disturbed("upstream")
    /\ ifEnable' = en /\ upstream' = up
    /\ UNCHANGED <<threadVars, timerVars, deviceVars, slot, nas, netVars,
                   wanVars, modemVars, halVars, sessVars>>

\* The modem is unplugged; the signal of its QmiDevice is still to come.
Unplug ==
    /\ Disturbed("unplug") /\ present
    /\ present' = FALSE /\ served' = FALSE
    /\ device' = IF device = "open" THEN "gone" ELSE device
    /\ UNCHANGED <<threadVars, timerVars, deviceVars, slot, nas, netVars, dmlVars,
                   wanVars, online, cardOk, halVars, sessVars>>

Plug ==
    /\ ~present
    /\ present' = TRUE
    /\ UNCHANGED <<threadVars, timerVars, deviceVars, slot, nas, netVars, dmlVars,
                   wanVars, device, online, cardOk, served, halVars, sessVars>>

CardChange ==
    /\ Disturbed("card")
    /\ cardOk' = ~cardOk
    /\ UNCHANGED <<threadVars, timerVars, deviceVars, slot, nas, netVars, dmlVars,
                   wanVars, present, device, online, served, halVars, sessVars>>

HalStep ==
    \/ OpenAnswer \/ SlotAnswer \/ SlotIndication
    \/ RegistrationAnswer \/ ServingSystemIndication \/ ProfileAnswer
    \/ \E f \in Family : \/ StartAnswer(f) \/ StaleStartAnswer(f)
                         \/ PacketConnected(f) \/ PacketDisconnected(f)
    \/ DeviceRemovedCB

EnvStep ==
    \/ \E value \in BOOLEAN : SetModemEnable(value)
    \/ \E value \in BOOLEAN : SetInterface(value, upstream) \/ SetInterface(ifEnable, value)
    \/ Unplug \/ Plug \/ CardChange

Next == SMStep \/ HalStep \/ EnvStep

(* The thread runs its loop for as long as the process lives; so does the  *)
(* GLib loop that delivers a removal.  Nothing is assumed of the modem.    *)
Spec ==
    /\ Init /\ [][Next]_vars
    /\ WF_vars(SMStep) /\ WF_vars(DeviceRemovedCB)

-----------------------------------------------------------------------------
(* Properties                                                              *)

(* While the machine is down or deactivated the WAN manager has the link   *)
(* down: every path that leaves a started network behind (removal, disable *)
(* in any state, stop) passes a lowering of the link first.                *)
NoWanWhileOffline == state \in {"DOWN", "DEACTIVATED"} => wanLink = "Down"

(* enCurrentSMState, which the other threads read, is the state the thread *)
(* is in, except that TransitionDeactivated leaves the old one behind.     *)
CurrentStateTracks == state # "DEACTIVATED" => cur = state

(* The reconnection wait: it is armed while connected, counts only inside  *)
(* the wait, never beyond its bound, and is over when a start is underway, *)
(* so that no start inherits a count from an earlier connection.           *)
ReconnectWaitDiscipline ==
    /\ iter <= maxWait
    /\ iter > 0 => pc \in {"wait", "lost"}
    /\ state = "CONNECTED" => maxWait = ReconnectWait /\ iter = 0
    /\ pc \in {"settle", "startIPv6"} => maxWait = 0

(* A HAL that always calls back owes an answer for every flag that makes   *)
(* StateRegistered wait, unless the modem has gone: the machine never      *)
(* waits for a start that was stopped, replaced or already answered.       *)
StartIsOwed ==
    \A f \in Family :
        /\ start[f] => session[f] = "starting"
        /\ waiting[f] => session[f] \in {"starting", "leased"}

(* The machine implements the promise made to the WAN manager.             *)
Policy == INSTANCE ConnectionPolicy WITH phase <- state, link <- wanLink
PolicyImplemented == Policy!Spec

(* A removal the HAL has reported is acted on, wherever the thread is: in  *)
(* its sleeps, between the two starts, or in a stop.                       *)
RemovalReachesDown == detection = "REMOVED" ~> state = "DOWN"

(* A disabled modem does not keep its WAN link, in whatever state and with *)
(* whatever answers outstanding the disabling found the machine.           *)
DisableLowersLink == ~enable ~> (enable \/ wanLink = "Down")

(* A session lost while connected is not hidden from the WAN manager: the  *)
(* link goes down, unless the session has come back by itself.             *)
LossLowersLink ==
    (state = "CONNECTED" /\ SessionLost) ~> (wanLink = "Down" \/ ~SessionLost)
=============================================================================
