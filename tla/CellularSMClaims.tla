-------------------------- MODULE CellularSMClaims --------------------------
(***************************************************************************)
(* What a comment of the QMI HAL promises the policy state machine, stated *)
(* as a property of CellularSM, which TLC refutes.                         *)
(***************************************************************************)
EXTENDS CellularSM

(* cellular_hal_qmi_apis.c:3322: "This is to avoid retry in QMI layer.     *)
(* Indication comes instead of retry op".  An indication that repeats what *)
(* was reported before the modem was unplugged is not passed on.           *)
IndicationComesInstead ==
    [][(/\ monitored /\ nas = "REGISTERING" /\ "reg" \notin asked
        /\ device = "open" /\ ~served /\ served')
         => nas' = "REGISTERED"]_vars
=============================================================================
