----------------------------- MODULE ModemDevice -----------------------------
(***************************************************************************)
(* What the tasks of the QMI HAL share while a modem is brought up         *)
(* (CellularManager/cellular_hal_qmi_apis.c): the QmiDevice, the client of *)
(* each service, the GLib thread and the messages waiting for it, and the  *)
(* fields of the policy state machine that the callbacks write             *)
(* (cellularmgr_sm.c).                                                     *)
(***************************************************************************)
EXTENDS Naturals, Sequences, FiniteSets

CONSTANTS
    NumSlots,    \* physical SIM slots of the modem
    MaxTasks,    \* bound: tasks of one kind outstanding at once
    MaxOverlaps, \* bound: open tasks begun while another is outstanding
    MaxInbox,    \* bound: messages waiting for the GLib thread
    MaxUnplugs,  \* bound: times the modem is unplugged
    MaxEvents    \* bound: other changes of the modem or by a user

ASSUME ConstantsAssumption ==
    /\ NumSlots \in Nat \ {0} /\ MaxTasks \in Nat \ {0}
    /\ MaxInbox \in Nat \ {0}
    /\ MaxOverlaps \in Nat /\ MaxUnplugs \in Nat /\ MaxEvents \in Nat

VARIABLES
    present,  \* the modem's control device file exists
    device,   \* the QmiDevice: none, created, open, gone (unplugged), closing
    valid,    \* bIsValidDMSClient and its like, by service
    alive,    \* clients of each service allocated on the present device
    inbox,    \* answers and indications the GLib thread has yet to handle
    asleep,   \* the GLib thread sleeps inside a callback
    online    \* the modem's operating mode is online

VARIABLES
    detected, \* enDeviceDetectionStatus is DEVICE_DETECTED
    open,     \* enDeviceOpenStatus
    enable,   \* bRDKEnable
    slot,     \* enDeviceSlotSelectionStatus
    nas       \* enDeviceNASRegisterStatus

deviceVars == <<present, device, valid, alive, online>>
loopVars   == <<inbox, asleep>>

Services == {"DMS", "WDS", "NAS", "UIM"}
Slots == 1..NumSlots

\* cellular_hal_qmi_IsModemControlInterfaceOpened: a device that was unplugged
\* counts as open until its removal has been handled.
IsOpen == device \in {"open", "gone", "closing"}

\* The GLib thread can take up the next callback: it is neither in the sleep
\* of a registration task nor in that of cellular_hal_qmi_device_removed_cb.
LoopRuns == ~asleep /\ device # "closing"

\* A client is allocated: its flag is set, whatever client was there before.
Allocated(s) ==
    /\ device = "open"
    /\ valid' = [valid EXCEPT ![s] = TRUE]
    /\ alive' = [alive EXCEPT ![s] = @ + 1]

\* A message reaches the process, behind those that came before.
Arrives(m) == Len(inbox) < MaxInbox /\ inbox' = Append(inbox, m)

MinOf(a, b) == IF a <= b THEN a ELSE b
=============================================================================
