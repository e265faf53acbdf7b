------------------------------- MODULE BringUp -------------------------------
(***************************************************************************)
(* A modem is brought up: the policy state machine from DOWN to REGISTERED *)
(* (cellularmgr_sm.c) with the device, slot and registration tasks of the  *)
(* QMI HAL (DeviceOpening, SlotSelection, Registration), the removal of    *)
(* the device, and the modem.  One step is a tick of the state machine's   *)
(* thread, a callback in the GLib thread, or something that happens to the *)
(* modem.  REGISTERED stands for CONNECTED too; the profile, the sessions, *)
(* the interface's Enable and the card status are CellularSM's.            *)
(***************************************************************************)
EXTENDS DeviceOpening, SlotSelection, Registration

VARIABLES
    state,   \* the state the thread is in
    unplugs, \* bound: times the modem was unplugged
    events   \* bound: other changes of the modem or by a user

smVars == <<state, detected, open, slot, nas, enableVars>>
vars == <<smVars, deviceVars, loopVars, openVars, slotVars, regVars,
          cards, missed, network, events, unplugs>>

TypeOK ==
    /\ state \in {"DOWN", "DEACTIVATED", "DEREGISTERED", "REGISTERED"}
    /\ detected \in BOOLEAN /\ enable \in BOOLEAN
    /\ open \in {"NOT_READY", "INPROGRESS", "READY"}
    /\ slot \in {"NOT_READY", "SELECTING", "READY"}
    /\ nas \in {"NOT_REGISTERED", "REGISTERING", "REGISTERED"}
    /\ present \in BOOLEAN /\ online \in BOOLEAN /\ asleep \in BOOLEAN
    /\ device \in {"none", "created", "open", "gone", "closing"}
    /\ valid \in [Services -> BOOLEAN] /\ alive \in [Services -> Nat]
    /\ inbox \in Seq(SlotMessages \cup NetworkMessages)
    /\ opens \subseteq OpenTasks /\ overlaps \in 0..MaxOverlaps
    /\ cards \subseteq Slots /\ selected \in {0} \cup Slots
    /\ slotHandler \in BOOLEAN /\ missed \in BOOLEAN
    /\ uimTasks \subseteq {"alloc", "aborted", "status", "events"}
    /\ network \in Networks /\ ControlTypeOK
    /\ previous \in [reg : {"none", "searching", "registered"}, roam : BOOLEAN]
    /\ serving \in BOOLEAN /\ reads \in Nat /\ failing \in Nat /\ retry \in 0..3
    /\ unplugs \in 0..MaxUnplugs /\ events \in 0..MaxEvents

Init ==
    /\ state = "DOWN" /\ detected = FALSE /\ enable = FALSE
    /\ open = "NOT_READY" /\ slot = "NOT_READY" /\ nas = "NOT_REGISTERED"
    /\ present = TRUE /\ online = TRUE /\ device = "none" /\ asleep = FALSE /\ inbox = <<>>
    /\ valid = [s \in Services |-> FALSE] /\ alive = [s \in Services |-> 0]
    /\ opens = {} /\ overlaps = 0
    /\ cards \in SUBSET Slots /\ selected = 0 /\ slotHandler = FALSE /\ uimTasks = {} /\ missed = FALSE
    /\ network \in Networks
    /\ previous = [reg |-> "none", roam |-> FALSE]
    /\ serving = FALSE /\ reads = 0 /\ failing = 0 /\ retry = 0
    /\ events = 0 /\ unplugs = 0 /\ ControlInit

-----------------------------------------------------------------------------
(* The state machine *)

halVars == <<deviceVars, loopVars, openVars, slotVars, regVars>>
restVars == <<cards, missed, network, events, unplugs>>

\* TransitionDown
TransitionDown ==
    /\ state' = "DOWN" /\ slot' = "NOT_READY"
    /\ UNCHANGED <<detected, open, enableVars, nas, halVars>>

\* TransitionDeactivated
TransitionDeactivated ==
    /\ state' = "DEACTIVATED" /\ OpenDevice
    /\ UNCHANGED <<slot, nas, deviceVars, loopVars, slotVars, regVars>>

\* StateDown
StateDown ==
    /\ state = "DOWN" /\ detected' = present
    /\ \/ present /\ TransitionDeactivated
       \/ ~present /\ UNCHANGED <<state, open, enableVars, slot, nas, halVars>>

\* Mutant: TransitionDeregistered leaves the registration as it was.
StateDeactivated_NasKept ==
    /\ state = "DEACTIVATED" /\ UNCHANGED detected
    /\ \/ ~detected /\ TransitionDown
       \/ /\ detected /\ enable /\ open = "READY" /\ slot = "NOT_READY"
          /\ SelectDeviceSlot /\ UNCHANGED nas
          /\ state' = IF slot' = "SELECTING" THEN "DEREGISTERED" ELSE state
          /\ UNCHANGED <<open, enableVars, deviceVars, loopVars, openVars, regVars>>
       \/ /\ detected /\ slot = "SELECTING" /\ state' = "DEREGISTERED"
          /\ UNCHANGED <<open, enableVars, slot, nas, halVars>>

\* StateDeactivated, TransitionDeregistered
StateDeactivated ==
    /\ state = "DEACTIVATED" /\ UNCHANGED detected
    /\ \/ ~detected /\ TransitionDown
       \/ /\ detected /\ enable /\ open = "READY" /\ slot = "NOT_READY"
          /\ SelectDeviceSlot /\ nas' = "NOT_REGISTERED"
          /\ state' = IF slot' = "SELECTING" THEN "DEREGISTERED" ELSE state
          /\ UNCHANGED <<open, enableVars, deviceVars, loopVars, openVars, regVars>>
       \/ /\ detected /\ slot = "SELECTING" /\ state' = "DEREGISTERED"
          /\ UNCHANGED <<open, enableVars, slot, nas, halVars>>

Unusable == ~enable \/ open = "NOT_READY"

\* StateDeregistered, TransitionRegistering
StateDeregistered ==
    /\ state = "DEREGISTERED" /\ UNCHANGED detected
    /\ \/ ~detected /\ TransitionDown
       \/ detected /\ Unusable /\ TransitionDeactivated
       \/ /\ detected /\ ~Unusable /\ slot = "READY" /\ nas = "NOT_REGISTERED"
          /\ MonitorRegistration
          /\ UNCHANGED <<state, open, enableVars, slot, deviceVars, loopVars, openVars, slotVars>>
       \/ /\ detected /\ ~Unusable /\ slot # "SELECTING" /\ nas = "REGISTERED"
          /\ state' = "REGISTERED"
          /\ UNCHANGED <<open, enableVars, slot, nas, halVars>>

\* StateRegistered, and StateConnected through it
StateRegistered ==
    /\ state = "REGISTERED" /\ UNCHANGED detected
    /\ \/ ~detected /\ TransitionDown
       \/ detected /\ Unusable /\ TransitionDeactivated
       \/ /\ detected /\ ~Unusable /\ slot = "NOT_READY"
          /\ nas' = "NOT_REGISTERED" /\ state' = "DEREGISTERED"
          /\ UNCHANGED <<open, enableVars, slot, halVars>>
       \/ /\ detected /\ ~Unusable /\ slot # "NOT_READY" /\ nas # "REGISTERED"
          /\ nas' = "REGISTERING" /\ state' = "DEREGISTERED"
          /\ UNCHANGED <<open, enableVars, slot, halVars>>

Tick ==
    /\ StateDown \/ StateDeactivated \/ StateDeregistered \/ StateRegistered
    /\ UNCHANGED restVars

-----------------------------------------------------------------------------
(* The removal of the device *)

Unread == Cardinality({i \in 1..Len(inbox) : inbox[i].kind = "read"})

\* What was asked of the device or of a client will be answered with an error.
AbortRequests ==
    /\ opens' = {[t EXCEPT !.on = FALSE] : t \in opens}
    /\ uimTasks' = IF uimTasks \cap {"alloc", "aborted"} = {} THEN {} ELSE {"aborted"}

\* cellular_hal_qmi_device_removed_cb up to its sleep(5): the clients are
\* released, and what waits to be handled on them is dropped.
ReleaseClients ==
    /\ device = "gone" /\ LoopRuns /\ device' = "closing"
    /\ valid' = [s \in Services |-> FALSE] /\ alive' = [s \in Services |-> 0]
    /\ slotHandler' = FALSE /\ serving' = FALSE
    /\ inbox' = <<>> /\ reads' = 0 /\ failing' = failing + reads + Unread
    /\ AbortRequests
    /\ UNCHANGED <<smVars, present, online, asleep, overlaps, selected, previous, retry, restVars>>

\* Mutant: the removal is not announced.
DeviceClosed_Unannounced ==
    /\ device = "closing" /\ device' = "none"
    /\ valid' = [s \in Services |-> FALSE] /\ selected' = 0 /\ missed' = FALSE
    /\ AbortRequests
    /\ UNCHANGED <<smVars, present, alive, online, loopVars, overlaps, slotHandler,
                   regVars, cards, network, events, unplugs>>

\* The rest of it: the device is closed, the context set up anew
\* (cellular_hal_qmi_reinitialize_context) and the state machine told, by
\* CellularMgrDeviceRemovedStatusCBForSM.
DeviceClosed ==
    /\ device = "closing" /\ device' = "none"
    /\ valid' = [s \in Services |-> FALSE] /\ selected' = 0
    /\ detected' = FALSE /\ missed' = FALSE /\ AbortRequests
    /\ UNCHANGED <<state, open, enableVars, slot, nas, present, alive, online, loopVars,
                   overlaps, slotHandler, regVars, cards, network, events, unplugs>>

-----------------------------------------------------------------------------
(* The modem and the user *)

Happens == events < MaxEvents /\ events' = events + 1

Unplug ==
    /\ unplugs < MaxUnplugs /\ unplugs' = unplugs + 1
    /\ present /\ present' = FALSE
    /\ device' = IF device = "open" THEN "gone" ELSE device
    /\ network' = [reg |-> "none", roam |-> FALSE]
    /\ UNCHANGED <<smVars, valid, alive, online, loopVars, openVars, slotVars, regVars,
                   cards, missed, events>>

Plug ==
    /\ ~present /\ present' = TRUE
    /\ UNCHANGED <<smVars, device, valid, alive, online, loopVars, openVars, slotVars,
                   regVars, restVars>>

\* A card is inserted, removed or no longer answers.
CardChanges(s) ==
    /\ Happens /\ cards' = IF s \in cards THEN cards \ {s} ELSE cards \cup {s}
    /\ IF slotHandler /\ device = "open"
       THEN Arrives([kind |-> "slots", cards |-> cards']) /\ UNCHANGED missed
       ELSE UNCHANGED inbox /\ missed' = (missed \/ (valid["UIM"] /\ "status" \notin uimTasks))
    /\ UNCHANGED <<smVars, deviceVars, asleep, openVars, slotVars, regVars, network, unplugs>>

\* The registration of a present modem changes, or its roaming.
NetworkChanges(n) ==
    /\ Happens /\ present /\ n # network /\ network' = n
    /\ IF serving /\ device = "open"
       THEN Arrives([kind |-> "serving", reg |-> n.reg, roam |-> n.roam])
       ELSE UNCHANGED inbox
    /\ UNCHANGED <<smVars, deviceVars, asleep, openVars, slotVars, regVars, cards, missed, unplugs>>

\* A user or the web configuration switches the modem on or off.
SetsEnable(w) ==
    /\ \/ \E v \in BOOLEAN : Happens /\ Checks(w, v)
       \/ (Flags(w) \/ Finishes(w)) /\ UNCHANGED events
    /\ UNCHANGED <<state, detected, open, slot, nas, present, device, valid, alive, loopVars,
                   openVars, slotVars, regVars, cards, missed, network, unplugs>>

Environment ==
    \/ Unplug \/ Plug
    \/ \E s \in Slots : CardChanges(s)
    \/ \E n \in Networks : NetworkChanges(n)
    \/ \E w \in Writers : SetsEnable(w)

OpenWorks == OpenAnswer /\ UNCHANGED <<state, slot, nas, slotVars, regVars, restVars>>
SlotWorks == SlotStep /\ UNCHANGED <<state, controlVars, openVars, regVars, network, events, unplugs>>
RegistrationWorks ==
    RegistrationStep /\ UNCHANGED <<state, controlVars, openVars, slotVars, cards, missed, events, unplugs>>

Next ==
    \/ Tick \/ OpenWorks \/ SlotWorks \/ RegistrationWorks
    \/ ReleaseClients \/ DeviceClosed \/ Environment

Spec == Init /\ [][Next]_vars

\* The thread ticks, the GLib loop runs, and libqmi answers every request, at
\* the latest by its timeout; nothing is owed by the modem or the users.
Fairness ==
    /\ WF_vars(Tick)
    /\ WF_vars(OpenWorks \/ SlotWorks \/ RegistrationWorks)
    /\ WF_vars(ReleaseClients \/ DeviceClosed)

FairSpec == Spec /\ Fairness

-----------------------------------------------------------------------------
(* Properties *)

Waiting(kinds) == \E i \in 1..Len(inbox) : inbox[i].kind \in kinds

(***************************************************************************)
(* A client of a service is allocated once for a device: a second one      *)
(* would be leaked, with its indications still delivered.  The flags       *)
(* prevent it as long as no open task begins while another is outstanding. *)
(***************************************************************************)
OneClient ==
    overlaps = 0 => \A s \in Services : alive[s] <= 1 /\ (alive[s] = 1 => valid[s])

(***************************************************************************)
(* The state machine holds a slot for ready only while the HAL has one     *)
(* selected, or the removal that took it has been announced.               *)
(***************************************************************************)
ReadySlotSelected == slot = "READY" => selected # 0 \/ ~detected

(***************************************************************************)
(* The selected slot holds a card, once all messages are handled, unless   *)
(* the slots changed between the status read and the connection of the     *)
(* handler.                                                                *)
(***************************************************************************)
SelectedHoldsCard ==
    ~missed /\ device = "open" /\ selected # 0 /\ ~Waiting({"slots"}) => selected \in cards

(***************************************************************************)
(* What the state machine takes for a registration is one that the HAL     *)
(* remembers, so that its loss will be seen as a change and reported.      *)
(***************************************************************************)
RegistrationRemembered == nas = "REGISTERED" => previous.reg = "registered"

(***************************************************************************)
(* Until a first removal, once all messages are handled, a registration    *)
(* the state machine believes in is one the modem has.                     *)
(***************************************************************************)
RegistrationCurrent ==
    nas = "REGISTERED" /\ unplugs = 0 /\ device = "open" /\ ~Waiting({"read", "serving"})
    => Shown(network.reg) = "registered"

(***************************************************************************)
(* In REGISTERED there is a device whose serving system is being watched,  *)
(* or its removal is under way.                                            *)
(***************************************************************************)
RegisteredIsWatched ==
    state = "REGISTERED" /\ detected => serving \/ device = "closing"

(***************************************************************************)
(* X_RDK_Enable shows what the state machine acts on, unless the modem     *)
(* could not be asked, two writers crossed, or an open task reported the   *)
(* mode in the middle of a write; and the next report makes that good.     *)
(***************************************************************************)
EnableAgrees == ~HalfWritten /\ ~apart => managed = enable

(***************************************************************************)
(* While the state machine waits for a device to open, a task is out that  *)
(* owes it the answer: those that end without one, on a device that has    *)
(* been closed, are never the last.                                        *)
(***************************************************************************)
OpenIsOwed == detected /\ open = "INPROGRESS" => opens # {}

(***************************************************************************)
(* An open request is answered, through removals and sleeps of the GLib    *)
(* thread: the state machine has nothing else to leave DEACTIVATED by.     *)
(***************************************************************************)
OpenAnswered ==
    state = "DEACTIVATED" /\ open = "INPROGRESS" ~> open # "INPROGRESS" \/ state = "DOWN"

(***************************************************************************)
(* The loss of an open device reaches the state machine.                   *)
(***************************************************************************)
RemovalNoticed == device = "gone" ~> state = "DOWN"
=============================================================================
