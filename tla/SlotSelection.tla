---------------------------- MODULE SlotSelection ----------------------------
(***************************************************************************)
(* cellular_hal_qmi_select_device_slot and what follows it: the UIM client *)
(* is allocated, the slot status read, and a handler for the slot-status   *)
(* indication connected.  An answer or an indication is a message that     *)
(* carries the slots as the modem saw them when it was sent.               *)
(***************************************************************************)
EXTENDS ModemDevice

VARIABLES
    cards,       \* slots that are active, hold a card and show its ICCID
    selected,    \* selected_slot_number; 0 is CELLULAR_SLOT_ID_UNKNOWN
    slotHandler, \* slot_status_indication_id is connected
    uimTasks,    \* requests outstanding: alloc, status, events; aborted, for
                 \* an allocation on a device that has been closed
    missed       \* history: the slots changed with the status read and no
                 \* handler connected

slotVars == <<selected, slotHandler, uimTasks>>

SlotMessages == [kind : {"slots"}, cards : SUBSET Slots]

\* CellularMgrDeviceSlotStatusCBForSM
SlotStatusCB(status) == slot' = status

\* The first usable slot becomes the selected one.
Chooses(usable) == \E i \in usable : selected' = i /\ \A j \in usable : i <= j

\* Mutant: a slot that is lost is dropped without a report.
SelectSlotAndNotify_Silent(usable) ==
    \/ selected = 0 /\ Chooses(usable) /\ SlotStatusCB("READY")
    \/ selected = 0 /\ usable = {} /\ UNCHANGED <<selected, slot>>
    \/ selected # 0 /\ selected \notin usable /\ selected' = 0 /\ UNCHANGED slot
    \/ selected \in usable /\ UNCHANGED <<selected, slot>>

\* Mutant: a slot chosen earlier is never given up.
SelectSlotAndNotify_Keeps(usable) ==
    \/ selected = 0 /\ Chooses(usable) /\ SlotStatusCB("READY")
    \/ selected = 0 /\ usable = {} /\ UNCHANGED <<selected, slot>>
    \/ selected # 0 /\ UNCHANGED <<selected, slot>>

\* cellular_hal_qmi_select_slot_and_notify: the first usable slot is chosen
\* when none was; a slot chosen earlier is only ever given up.
SelectSlotAndNotify(usable) ==
    \/ selected = 0 /\ Chooses(usable) /\ SlotStatusCB("READY")
    \/ selected = 0 /\ usable = {} /\ UNCHANGED <<selected, slot>>
    \/ selected # 0 /\ selected \notin usable /\ selected' = 0 /\ SlotStatusCB("NOT_READY")
    \/ selected \in usable /\ UNCHANGED <<selected, slot>>

\* cellular_hal_qmi_select_device_slot, for TransitionDeregistered, which has
\* set the slot to SELECTING.  A client without a slot asks for nothing.
SelectDeviceSlot ==
    \/ ~IsOpen /\ slot' = "NOT_READY" /\ UNCHANGED slotVars
    \/ /\ IsOpen /\ ~valid["UIM"] /\ slot' = "SELECTING"
       /\ uimTasks' = uimTasks \cup {"alloc"} /\ UNCHANGED <<selected, slotHandler>>
    \/ IsOpen /\ valid["UIM"] /\ selected = 0 /\ slot' = "SELECTING" /\ UNCHANGED slotVars
    \/ IsOpen /\ valid["UIM"] /\ selected # 0 /\ slot' = "READY" /\ UNCHANGED slotVars

\* cellular_hal_qmi_client_uim
UimAllocated ==
    /\ LoopRuns
    /\ \/ /\ "alloc" \in uimTasks /\ Allocated("UIM") /\ UNCHANGED slot
          /\ uimTasks' = (uimTasks \ {"alloc"}) \cup {"status", "events"}
       \/ \E t \in uimTasks \cap {"alloc", "aborted"} :
            /\ SlotStatusCB("NOT_READY") /\ UNCHANGED <<valid, alive>>
            /\ uimTasks' = uimTasks \ {t}
    /\ UNCHANGED <<selected, slotHandler, present, device, online, loopVars>>

\* The modem answers the status request, or the request fails, silently.
SlotStatusAnswered ==
    /\ "status" \in uimTasks
    /\ \/ device = "open" /\ Arrives([kind |-> "slots", cards |-> cards])
       \/ UNCHANGED inbox
    /\ uimTasks' = uimTasks \ {"status"}
    /\ UNCHANGED <<selected, slotHandler, deviceVars, asleep, slot>>

\* cellular_hal_qmi_register_physical_slot_status_events; it fails silently.
SlotEventsRegistered ==
    /\ LoopRuns /\ "events" \in uimTasks
    /\ \/ device = "open" /\ slotHandler' = TRUE
       \/ UNCHANGED slotHandler
    /\ uimTasks' = uimTasks \ {"events"}
    /\ UNCHANGED <<selected, deviceVars, loopVars, slot>>

\* cellular_hal_qmi_get_slot_status, cellular_hal_qmi_slot_status_CB
SlotMessage ==
    /\ LoopRuns /\ inbox # <<>> /\ Head(inbox).kind = "slots"
    /\ inbox' = Tail(inbox)
    /\ SelectSlotAndNotify(Head(inbox).cards)
    /\ UNCHANGED <<slotHandler, uimTasks, deviceVars, asleep>>

SlotStep ==
    /\ UimAllocated \/ SlotStatusAnswered \/ SlotEventsRegistered \/ SlotMessage
    /\ UNCHANGED <<cards, missed, detected, open, enable, nas>>
=============================================================================
