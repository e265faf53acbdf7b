----------------------------- MODULE QmiNetwork -----------------------------
(***************************************************************************)
(* The start and stop tasks of the QMI HAL                                 *)
(* (CellularManager/cellular_hal_qmi_apis.c): the WDS client of each       *)
(* address family, the chain of libqmi requests a task makes on it, the    *)
(* packet handle and the signal handler that belong to it, and the part of *)
(* the policy state machine that asks for the tasks and hears their        *)
(* callbacks (cellularmgr_sm.c).                                           *)
(*                                                                         *)
(* A client is a number; 0 is NULL, or an identifier that names nothing.   *)
(* A number comes back into use when nothing refers to it any more.  Every *)
(* call and every completion is one step: the state machine's thread       *)
(* issues the first request of a task, the GLib thread runs the rest.      *)
(* The event report, whose handler does nothing, is left out.              *)
(***************************************************************************)
EXTENDS Naturals, Sequences, FiniteSets

CONSTANTS
    Family,      \* the families of the profile, out of IPv4 and IPv6
    MaxClients,  \* bound: clients and handlers that exist at once
    MaxTasks,    \* bound: start tasks outstanding at once
    MaxOverlaps  \* bound: tasks begun while another of their family is out

Both == {"IPv4", "IPv6"}

ASSUME ConstantsAssumption ==
    /\ Family \subseteq Both /\ Family # {}
    /\ MaxClients \in Nat \ {0} /\ MaxTasks \in Nat \ {0}
    /\ MaxOverlaps \in Nat

VARIABLES
    client,   \* client_ipv4, client_ipv6
    events,   \* packet_service_status_ipv{4,6}_id, as the client it hangs on
    handle,   \* packet_data_handle_ipv{4,6}, as the client it was given for
    stopping, \* bIsStopNetworkIPv{4,6}InProgress
    rat,      \* currentRAT is not empty
    starts,   \* start tasks, each with the request it waits for
    stops,    \* stop tasks waiting for the modem
    device,   \* the QmiDevice
    alive,    \* clients allocated and not released
    handlers, \* clients whose packet-service-status signal is connected
    live,     \* clients whose packet session is up in the modem
    phase,    \* the policy state machine: DOWN, REGISTERED, CONNECTED
    calls,    \* HAL calls it has yet to make in the current transition
    start,    \* bIPv{4,6}NetworkStartInProgress
    waiting,  \* bIPv{4,6}WaitingForPacketStatus
    packet,   \* enNetworkIPv{4,6}PacketServiceStatus
    overlaps  \* history: tasks begun while another of their family was out

halVars   == <<client, events, handle, stopping, rat>>
taskVars  == <<starts, stops>>
modemVars == <<device, alive, handlers, live>>
flagVars  == <<start, waiting, packet>>
smVars    == <<phase, calls, flagVars, overlaps>>
vars == <<halVars, taskVars, modemVars, smVars>>

Clients == 1..MaxClients
Steps == {"alloc", "closed", "family", "events", "network", "lease", "rat"}
StartTasks == [id : 1..MaxTasks, fam : Both, step : Steps, on : 0..MaxClients]
StopTasks == [fam : Both, on : 0..MaxClients, names : 0..MaxClients]

(* The type invariant. *)
TypeOK ==
    /\ client \in [Both -> 0..MaxClients] /\ events \in [Both -> 0..MaxClients]
    /\ handle \in [Both -> 0..MaxClients] /\ stopping \in [Both -> BOOLEAN]
    /\ rat \in BOOLEAN
    /\ starts \subseteq StartTasks /\ stops \subseteq StopTasks
    /\ device \in {"open", "gone", "none"}
    /\ alive \subseteq Clients /\ handlers \subseteq Clients /\ live \subseteq Clients
    /\ phase \in {"DOWN", "REGISTERED", "CONNECTED"}
    /\ calls \in Seq({"start", "stop"} \X Both)
    /\ start \in [Both -> BOOLEAN] /\ waiting \in [Both -> BOOLEAN]
    /\ packet \in [Both -> {"DISCONNECTED", "CONNECTED"}]

-----------------------------------------------------------------------------
(* Helpers *)

For(value) == [f \in Both |-> value]

\* The order in which the state machine takes the families.
InOrder(op) ==
    IF Family = Both THEN <<<<op, "IPv4">>, <<op, "IPv6">>>>
    ELSE <<<<op, CHOOSE f \in Family : TRUE>>>>

InUse ==
    alive \cup handlers \cup live
      \cup {client[f] : f \in Both} \cup {events[f] : f \in Both}
      \cup {handle[f] : f \in Both}
      \cup {t.on : t \in starts} \cup {t.on : t \in stops} \cup {t.names : t \in stops}

Free == Clients \ InUse

\* What libqmi can send a request on, and the modem an indication to.
Usable(c) == c \in alive /\ device = "open"

PutFlag(fn, f, v) == [fn EXCEPT ![f] = v]

-----------------------------------------------------------------------------
(* Callbacks into the state machine *)

\* CellularMgrIPReadyCBForSM
IPReadyCB(f, ready) ==
    /\ start' = PutFlag(start, f, FALSE)
    /\ waiting' = IF ready THEN waiting ELSE PutFlag(waiting, f, FALSE)
    /\ packet' = IF ready THEN packet ELSE PutFlag(packet, f, "DISCONNECTED")
    /\ UNCHANGED <<phase, calls, overlaps>>

\* The indication carries no family: a client that is not the IPv4 one is
\* taken for the IPv6 one.
FamilyOf(c) == IF c = client["IPv4"] THEN "IPv4" ELSE "IPv6"

\* CellularMgrPacketServiceStatusCBForSM
PacketServiceStatusCB(f, status) ==
    /\ packet' = PutFlag(packet, f, status)
    /\ start' = PutFlag(start, f, FALSE)
    /\ waiting' = PutFlag(waiting, f, FALSE)
    /\ UNCHANGED <<phase, calls, overlaps>>

-----------------------------------------------------------------------------
(* Start tasks *)

NewTask(f, step, c) ==
    \E i \in 1..MaxTasks :
        /\ \A j \in 1..i : (j = i) <=> (\A t \in starts : t.id # j)
        /\ starts' = starts \cup {[id |-> i, fam |-> f, step |-> step, on |-> c]}

\* Mutant: a client that is there is not used again.
NeedsClient_Always(f) == TRUE

\* The guard of the allocation looks at the IPv4 client for both families.
NeedsClient(f) == client["IPv4"] = 0

\* cellular_hal_qmi_start_network.  With a closed device the callbacks get no
\* family and ignore the answer.
StartNetwork(f) ==
    /\ IF device = "none" THEN UNCHANGED starts
       ELSE IF NeedsClient(f) THEN NewTask(f, "alloc", 0)
       ELSE NewTask(f, "family", client[f])
    /\ UNCHANGED <<halVars, stops, modemVars>>

EndTask(t) == starts' = starts \ {t}

\* The next request of the task, on whatever client its family has by now.
NextStep(t, step) ==
    starts' = (starts \ {t})
        \cup {[t EXCEPT !.step = step, !.on = client'[t.fam]]}

\* cellular_hal_qmi_client_wds_start_network
ClientAllocated(t) ==
    /\ t.step = "alloc"
    /\ \/ /\ device = "open"
          /\ \E c \in Free :
                /\ \A d \in Free : c <= d
                /\ client' = PutFlag(client, t.fam, c)
                /\ alive' = alive \cup {c}
          /\ NextStep(t, "family")
       \/ EndTask(t) /\ UNCHANGED <<client, alive>>
    /\ UNCHANGED <<events, handle, stopping, rat, stops, device, handlers, live, smVars>>

\* The device the client was asked of has been closed.
AllocationAborted(t) ==
    /\ t.step = "closed" /\ EndTask(t)
    /\ UNCHANGED <<halVars, stops, modemVars, smVars>>

\* cellular_hal_qmi_set_ip_family
FamilySet(t) ==
    /\ t.step = "family"
    /\ \/ Usable(t.on) /\ UNCHANGED client /\ NextStep(t, "events")
       \/ EndTask(t) /\ UNCHANGED client
    /\ UNCHANGED <<events, handle, stopping, rat, stops, modemVars, smVars>>

\* cellular_hal_qmi_connect_enable_indications, whatever the request came to.
EventsRegistered(t) ==
    /\ t.step = "events"
    /\ events' = PutFlag(events, t.fam, t.on)
    /\ handlers' = handlers \cup ({t.on} \cap alive)
    /\ UNCHANGED client /\ NextStep(t, "network")
    /\ UNCHANGED <<handle, stopping, rat, stops, device, alive, live, smVars>>

\* cellular_hal_qmi_start_network_cb
NetworkStarted(t) ==
    /\ t.step = "network" /\ UNCHANGED client
    /\ \/ /\ Usable(t.on) /\ t.on \in live
          /\ handle' = PutFlag(handle, t.fam, t.on)
          /\ NextStep(t, "lease") /\ UNCHANGED smVars
       \/ /\ handle' = PutFlag(handle, t.fam, 0)
          /\ EndTask(t) /\ IPReadyCB(t.fam, FALSE)
    /\ UNCHANGED <<events, stopping, rat, stops, modemVars>>

\* cellular_hal_qmi_get_current_settings_cb
LeaseRead(t) ==
    /\ t.step = "lease" /\ UNCHANGED client
    /\ \/ Usable(t.on) /\ NextStep(t, "rat") /\ IPReadyCB(t.fam, TRUE)
       \/ EndTask(t) /\ UNCHANGED smVars
    /\ UNCHANGED <<events, handle, stopping, rat, stops, modemVars>>

\* cellular_hal_qmi_get_data_bearer_technology_cb
BearerRead(t) ==
    /\ t.step = "rat" /\ EndTask(t)
    /\ \/ Usable(t.on) /\ rat' = TRUE
       \/ UNCHANGED rat
    /\ UNCHANGED <<client, events, handle, stopping, stops, modemVars, smVars>>

StartAnswer ==
    \E t \in starts :
        \/ ClientAllocated(t) \/ AllocationAborted(t) \/ FamilySet(t) \/ EventsRegistered(t)
        \/ NetworkStarted(t) \/ LeaseRead(t) \/ BearerRead(t)

-----------------------------------------------------------------------------
(* Stop tasks *)

\* An IPv4 stop with nothing of its own to undo undoes what IPv6 has.
Undone(f, ids) == IF f = "IPv4" /\ ids["IPv4"] # 0 THEN "IPv4" ELSE "IPv6"

\* Mutant: the radio technology is not forgotten.
ReleaseClient_RatLeft(f) ==
    /\ client' = PutFlag(client, f, 0)
    /\ alive' = alive \ {client[f]}
    /\ UNCHANGED rat

\* The client of the family is released, and with it its session.
ReleaseClient(f) ==
    /\ client' = PutFlag(client, f, 0)
    /\ alive' = alive \ {client[f]}
    /\ rat' = (rat /\ \E g \in Both : client'[g] # 0)

\* Mutant: the flag is left set when there is no session to stop.
StopSteps_FlagLeft(f) ==
    LET e == Undone(f, events)
        h == Undone(f, handle)
    IN  /\ events' = PutFlag(events, e, 0)
        /\ \/ /\ handle[h] # 0
              /\ stops' = stops \cup
                    {[fam |-> f, on |-> client[h], names |-> handle[h]]}
              /\ stopping' = PutFlag(stopping, f, TRUE)
              /\ handlers' = handlers \ ({events[e]} \cap {client[e]})
              /\ UNCHANGED <<client, rat, alive, live>>
           \/ /\ handle[h] = 0
              /\ ReleaseClient(f)
              /\ handlers' = handlers \ (({events[e]} \cap {client[e]}) \cup {client[f]})
              /\ live' = live \ {client[f]}
              /\ stopping' = PutFlag(stopping, f, TRUE)
              /\ UNCHANGED stops
        /\ UNCHANGED <<handle, starts, device>>

\* cellular_hal_qmi_stop_network_connection_step up to its request, or to its
\* end when there is no packet handle to send one for.
StopSteps(f) ==
    LET e == Undone(f, events)
        h == Undone(f, handle)
    IN  /\ events' = PutFlag(events, e, 0)
        /\ \/ /\ handle[h] # 0
              /\ stops' = stops \cup
                    {[fam |-> f, on |-> client[h], names |-> handle[h]]}
              /\ stopping' = PutFlag(stopping, f, TRUE)
              /\ handlers' = handlers \ ({events[e]} \cap {client[e]})
              /\ UNCHANGED <<client, rat, alive, live>>
           \/ /\ handle[h] = 0
              /\ ReleaseClient(f)
              /\ handlers' = handlers \ (({events[e]} \cap {client[e]}) \cup {client[f]})
              /\ live' = live \ {client[f]}
              /\ UNCHANGED <<stops, stopping>>
        /\ UNCHANGED <<handle, starts, device>>

\* cellular_hal_qmi_stop_network
StopNetwork(f) ==
    \/ (device = "none" \/ stopping[f]) /\ UNCHANGED <<halVars, taskVars, modemVars>>
    \/ device # "none" /\ ~stopping[f] /\ StopSteps(f)

\* Mutant: the packet handle is left as it was.
StopAnswer_HandleLeft(s) ==
    /\ s \in stops /\ stops' = stops \ {s}
    /\ stopping' = PutFlag(stopping, s.fam, FALSE)
    /\ ReleaseClient(s.fam)
    /\ handlers' = handlers \ {client[s.fam]}
    /\ \/ Usable(s.on) /\ s.on = s.names /\ live' = live \ {s.on, client[s.fam]}
       \/ live' = live \ {client[s.fam]}
    /\ UNCHANGED <<handle, events, starts, device, smVars>>

\* cellular_hal_qmi_stop_network_cb and the end of the task: the modem has
\* stopped the session, or has not; the client is released in either case.
StopAnswer(s) ==
    /\ s \in stops /\ stops' = stops \ {s}
    /\ handle' = PutFlag(handle, s.fam, 0)
    /\ stopping' = PutFlag(stopping, s.fam, FALSE)
    /\ ReleaseClient(s.fam)
    /\ handlers' = handlers \ {client[s.fam]}
    /\ \/ Usable(s.on) /\ s.on = s.names /\ live' = live \ {s.on, client[s.fam]}
       \/ live' = live \ {client[s.fam]}
    /\ UNCHANGED <<events, starts, device, smVars>>

-----------------------------------------------------------------------------
(* The modem *)

\* The session of a task that waits for it is up, and is announced.
SessionUp(c) ==
    /\ Usable(c) /\ c \notin live
    /\ \E t \in starts : t.step = "network" /\ t.on = c
    /\ live' = live \cup {c}
    /\ IF c \in handlers THEN PacketServiceStatusCB(FamilyOf(c), "CONNECTED")
       ELSE UNCHANGED smVars
    /\ UNCHANGED <<halVars, taskVars, device, alive, handlers>>

\* It has ended, or is only being authenticated or suspended.
SessionDown(c) ==
    /\ Usable(c) /\ c \in live
    /\ live' \in {live, live \ {c}}
    /\ IF c \in handlers THEN PacketServiceStatusCB(FamilyOf(c), "DISCONNECTED")
       ELSE UNCHANGED smVars
    /\ UNCHANGED <<halVars, taskVars, device, alive, handlers>>

Unplug ==
    /\ device = "open" /\ device' = "gone" /\ live' = {}
    /\ UNCHANGED <<halVars, taskVars, alive, handlers, smVars>>

\* cellular_hal_qmi_device_removed_cb: both families are stopped, which waits
\* for nothing, the device is closed and the context set up anew.  Tasks
\* outstanding stay so.
DeviceRemoved ==
    /\ device = "gone" /\ device' = "none"
    /\ stops' = stops \cup
         {[fam |-> f, on |-> client[Undone(f, handle)], names |-> handle[Undone(f, handle)]] :
            f \in {g \in Both : ~stopping[g] /\ handle[Undone(g, handle)] # 0}}
    /\ client' = For(0) /\ events' = For(0) /\ handle' = For(0)
    /\ stopping' = For(FALSE) /\ rat' = FALSE
    /\ starts' = {[t EXCEPT !.step = IF @ = "alloc" THEN "closed" ELSE @] : t \in starts}
    /\ alive' = {} /\ handlers' = {}
    /\ UNCHANGED <<live, smVars>>

DeviceOpened ==
    /\ device = "none" /\ phase = "DOWN" /\ device' = "open"
    /\ UNCHANGED <<halVars, taskVars, alive, handlers, live, smVars>>

-----------------------------------------------------------------------------
(* The state machine *)

Idle == calls = <<>>

\* TransitionDown
GoesDown ==
    /\ Idle /\ device = "none" /\ phase # "DOWN" /\ phase' = "DOWN"
    /\ packet' = For("DISCONNECTED")
    /\ UNCHANGED <<halVars, taskVars, modemVars, calls, start, waiting, overlaps>>

\* REGISTERED again; the flags are reset when a profile is to be created.
Registers ==
    /\ phase = "DOWN" /\ device = "open" /\ phase' = "REGISTERED"
    /\ \/ UNCHANGED <<start, waiting, packet>>
       \/ start' = For(FALSE) /\ waiting' = For(FALSE) /\ packet' = For("DISCONNECTED")
    /\ UNCHANGED <<halVars, taskVars, modemVars, calls, overlaps>>

\* TransitionRegisteredStartNetwork
StartsNetworks ==
    /\ Idle /\ phase = "REGISTERED"
    /\ \A f \in Both : ~start[f] /\ ~waiting[f] /\ packet[f] = "DISCONNECTED"
    /\ calls' = InOrder("start")
    /\ UNCHANGED <<halVars, taskVars, modemVars, phase, flagVars, overlaps>>

MakesCall ==
    /\ calls # <<>> /\ calls' = Tail(calls) /\ UNCHANGED phase
    /\ LET f == Head(calls)[2]
       IN /\ LET busy == \E t \in starts \cup stops : t.fam = f
             IN /\ busy => overlaps < MaxOverlaps
                /\ overlaps' = IF busy THEN overlaps + 1 ELSE overlaps
          /\ \/ /\ Head(calls)[1] = "start"
                /\ start' = PutFlag(start, f, TRUE)
                /\ waiting' = PutFlag(waiting, f, TRUE)
                /\ packet' = PutFlag(packet, f, "DISCONNECTED")
                /\ StartNetwork(f)
             \/ /\ Head(calls)[1] = "stop"
                /\ StopNetwork(f)
                /\ UNCHANGED flagVars

\* StateRegistered finds every family connected.
Connects ==
    /\ Idle /\ phase = "REGISTERED"
    /\ \A f \in Both : ~start[f] /\ ~waiting[f]
    /\ \A f \in Family : packet[f] = "CONNECTED"
    /\ phase' = "CONNECTED"
    /\ UNCHANGED <<halVars, taskVars, modemVars, calls, flagVars, overlaps>>

\* StateConnected, for a lost session or another reason to stop.
Leaves ==
    /\ Idle /\ phase = "CONNECTED" /\ phase' = "REGISTERED"
    /\ start' = For(FALSE) /\ waiting' = For(FALSE) /\ packet' = For("DISCONNECTED")
    /\ calls' = InOrder("stop")
    /\ UNCHANGED <<halVars, taskVars, modemVars, overlaps>>

Init ==
    /\ client = For(0) /\ events = For(0) /\ handle = For(0)
    /\ stopping = For(FALSE) /\ rat = FALSE
    /\ starts = {} /\ stops = {}
    /\ device = "open" /\ alive = {} /\ handlers = {} /\ live = {}
    /\ phase = "REGISTERED" /\ calls = <<>>
    /\ start = For(FALSE) /\ waiting = For(FALSE) /\ packet = For("DISCONNECTED")
    /\ overlaps = 0

StateMachine ==
    GoesDown \/ Registers \/ StartsNetworks \/ MakesCall \/ Connects \/ Leaves

Modem ==
    \/ \E c \in Clients : SessionUp(c) \/ SessionDown(c)
    \/ Unplug \/ DeviceOpened

Next == StartAnswer \/ (\E s \in stops : StopAnswer(s)) \/ DeviceRemoved
        \/ StateMachine \/ Modem

Spec == Init /\ [][Next]_vars

-----------------------------------------------------------------------------
(* Properties *)

(***************************************************************************)
(* bIsStopNetworkIPv{4,6}InProgress makes cellular_hal_qmi_stop_network    *)
(* ignore every further stop of the family, so it must never be left set   *)
(* by a task that is gone, through removals and overlapping tasks too.     *)
(***************************************************************************)
StopFlagOwned ==
    \A f \in Both : stopping[f] => \E s \in stops : s.fam = f

(***************************************************************************)
(* As long as no task was begun while another of its family was out, what  *)
(* the modem holds is what the context names: no client was allocated over *)
(* another, no session outlived its client, no handler hangs on a client   *)
(* that was given up.  For profiles with IPv4: one with IPv6 alone is      *)
(* given a client by every start, over any it still has (6449-6452).       *)
(***************************************************************************)
NothingLeaked ==
    overlaps = 0 => alive \cup handlers \cup live \subseteq {client[f] : f \in Both}

(***************************************************************************)
(* Under the same condition a packet handle is that of the family's own    *)
(* client, and every stop request goes to the client its handle was given  *)
(* for: a stop never addresses another session.                            *)
(***************************************************************************)
HandleOfClient ==
    overlaps = 0 =>
        /\ \A f \in Both : handle[f] # 0 => handle[f] = client[f]
        /\ \A s \in stops : s.on = s.names

(***************************************************************************)
(* Under the same condition currentRAT, which the data model shows, is     *)
(* empty when neither family has a client.                                 *)
(***************************************************************************)
RatMeansClient ==
    overlaps = 0 /\ rat => \E f \in Both : client[f] # 0
=============================================================================
