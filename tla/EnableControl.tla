---------------------------- MODULE EnableControl ----------------------------
(***************************************************************************)
(* Device.Cellular.X_RDK_Enable: the data model's value, and the flag the  *)
(* policy state machine acts on.  The data model (over CCSP or RBUS) and   *)
(* the web configuration write it, each in a thread of its own and in      *)
(* three parts: the test that the value is new, the flag, and the request  *)
(* to the modem with the data model's value behind it.  The open task      *)
(* writes both from the mode it has read.                                  *)
(***************************************************************************)
EXTENDS ModemDevice

CONSTANT Writers \* threads that write X_RDK_Enable

VARIABLES
    managed, \* X_RDK_Enable
    write,   \* what each writer is about to do, and its value
    apart    \* history: something came between the two since an open task last
             \* set them

controlVars == <<managed, write, apart>>
enableVars  == <<enable, controlVars>>

Writes == [step : {"none", "checked", "flagged"}, value : BOOLEAN]

ControlTypeOK == managed \in BOOLEAN /\ write \in [Writers -> Writes] /\ apart \in BOOLEAN

NoWrite == [step |-> "none", value |-> FALSE]

ControlInit == managed = FALSE /\ write = [w \in Writers |-> NoWrite] /\ apart = FALSE

\* Some writer has set the flag, and not yet asked the modem.
HalfWritten == \E w \in Writers : write[w].step = "flagged"

\* Mutant: the data model's value is left as it was.
ModeReported_FlagOnly(mode) ==
    enable' = mode /\ apart' = HalfWritten /\ UNCHANGED <<managed, write>>

\* CellularMgrDeviceOpenStatusCBForSM, the mode
ModeReported(mode) ==
    enable' = mode /\ managed' = mode /\ apart' = HalfWritten /\ UNCHANGED write

\* Cellular_SetParamBoolValue, Cellular_SetParamBoolValue_rbus, set_cell_conf:
\* the value the data model has is ignored.
Checks(w, v) ==
    /\ write[w].step = "none" /\ v # managed
    /\ write' = [write EXCEPT ![w] = [step |-> "checked", value |-> v]]
    /\ UNCHANGED <<enable, managed, apart, online>>

\* CellularMgr_SetModemEnable, the flag
Flags(w) ==
    /\ write[w].step = "checked" /\ enable' = write[w].value
    /\ write' = [write EXCEPT ![w].step = "flagged"]
    /\ apart' = (apart \/ HalfWritten)
    /\ UNCHANGED <<managed, online>>

\* cellular_hal_qmi_set_modem_operating_configuration takes the request when
\* there is a device and a DMS client.
ModemAsked == IsOpen /\ valid["DMS"]

\* The answer of the modem is waited for by nobody.  It comes online by a
\* reset: it is unplugged then, and plugged in again.
ModemSet(v) == online' \in IF device = "open" THEN {online, v} ELSE {online}

\* The writer keeps the value when the modem could be asked.
Finishes(w) ==
    /\ write[w].step = "flagged" /\ UNCHANGED enable
    /\ write' = [write EXCEPT ![w] = NoWrite]
    /\ \/ ModemAsked /\ ModemSet(write[w].value) /\ managed' = write[w].value /\ UNCHANGED apart
       \/ ~ModemAsked /\ apart' = TRUE /\ UNCHANGED <<managed, online>>
=============================================================================
