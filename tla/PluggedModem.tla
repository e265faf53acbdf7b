---------------------------- MODULE PluggedModem ----------------------------
(***************************************************************************)
(* Modems that are plugged in one after the other, as the readers of the   *)
(* QMI HAL see them (cellular_hal_qmi_apis.c): opened, and removed by a    *)
(* handler that releases the clients, sleeps, and wipes the HAL's memory.  *)
(* Requests a removed modem never answered fail after that.                *)
(***************************************************************************)
EXTENDS Naturals, FiniteSets

CONSTANT MaxPlugs \* bound: modems plugged in, one after the other

ASSUME PlugsAssumption == MaxPlugs \in Nat \ {0}

VARIABLES
    modem, \* the modem plugged in last, by number; 0 before the first
    device \* qmiDevice: "closed", "open", or its removal is "removing" it

Modems == 1..MaxPlugs

ModemTypeOK == modem \in {0} \cup Modems /\ device \in {"closed", "open", "removing"}

ModemInit == modem = 0 /\ device = "closed"

\* Until the memory is wiped a device object is still there.
IsOpen == device # "closed"

\* IsDeviceRemovedSignalReceived
removed == device = "removing"

\* cellular_hal_qmi_device_open_step reaches its end.
PluggedIn ==
    /\ device = "closed" /\ modem < MaxPlugs
    /\ device' = "open" /\ modem' = modem + 1

\* cellular_hal_qmi_device_removed_cb, up to its sleep, and after it.
Unplugged == device = "open" /\ device' = "removing" /\ UNCHANGED modem
Removed == removed /\ device' = "closed" /\ UNCHANGED modem
=============================================================================
