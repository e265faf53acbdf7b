---------------------------- MODULE Registration ----------------------------
(***************************************************************************)
(* cellular_hal_qmi_monitor_device_registration: a task reads the serving  *)
(* system, three times at most with five seconds of sleep in the GLib      *)
(* thread between the readings, and a handler reports every later change.  *)
(* A message carries the registration as it was when the modem sent it:    *)
(* none, searching, camped (registered to LTE, packet service not attached)*)
(* or attached.                                                            *)
(***************************************************************************)
EXTENDS ModemDevice

CONSTANT Registrations  \* the registration states the modem goes through

RegistrationStates == {"none", "searching", "camped", "attached"}

ASSUME RegistrationsAssumption ==
    Registrations \subseteq RegistrationStates /\ "none" \in Registrations

VARIABLES
    network,  \* [reg, roam] of the modem
    previous, \* registration_state_previous, roaming_state_previous
    serving,  \* serving_system_id is connected
    reads,    \* requests for the serving system outstanding
    failing,  \* such requests on a client that has been released
    retry     \* retry_get_serving_system, which stops mattering at 3

regVars == <<previous, serving, reads, failing, retry>>

Networks == [reg : Registrations, roam : BOOLEAN]
NetworkMessages == [kind : {"read", "serving"}, reg : Registrations, roam : BOOLEAN]

\* The registration state a message shows, without the attachment.
Shown(reg) == IF reg \in {"camped", "attached"} THEN "registered" ELSE reg

\* CellularMgrDeviceRegistrationStatusCBForSM
RegistrationStatusCB(status) ==
    nas' = IF nas = "REGISTERED" /\ status = "NOT_REGISTERED" THEN "REGISTERING" ELSE status

\* cellular_hal_qmi_monitor_device_registration, for TransitionRegistering,
\* which has set the registration to REGISTERING.  Without a NAS client it
\* returns an error that nobody looks at, and nothing answers.
MonitorRegistration ==
    /\ nas' = "REGISTERING" /\ UNCHANGED <<previous, failing, retry>>
    /\ \/ /\ IsOpen /\ valid["NAS"] /\ reads < MaxTasks
          /\ serving' = TRUE /\ reads' = reads + 1
       \/ ~(IsOpen /\ valid["NAS"]) /\ UNCHANGED <<serving, reads, failing>>

\* The modem answers a request, or the request fails.
ReadAnswered ==
    /\ \/ /\ reads > 0 /\ reads' = reads - 1 /\ device = "open"
          /\ Arrives([kind |-> "read", reg |-> network.reg, roam |-> network.roam])
          /\ UNCHANGED <<failing, nas>>
       \/ /\ LoopRuns /\ RegistrationStatusCB("NOT_REGISTERED") /\ UNCHANGED inbox
          /\ \/ reads > 0 /\ reads' = reads - 1 /\ UNCHANGED failing
             \/ failing > 0 /\ failing' = failing - 1 /\ UNCHANGED reads
    /\ UNCHANGED <<previous, serving, retry, asleep>>

\* Mutant: what was read is reported and not remembered.
ReadHandled_Forgets(m) ==
    LET tried == MinOf(retry + 1, 3)
    IN  \/ /\ m.reg = "attached" /\ RegistrationStatusCB("REGISTERED")
           /\ previous' = [previous EXCEPT !.roam = m.roam]
           /\ retry' = tried /\ UNCHANGED asleep
        \/ /\ m.reg # "attached" /\ tried = 3 /\ RegistrationStatusCB("REGISTERING")
           /\ previous' = [previous EXCEPT !.roam = m.roam]
           /\ retry' = 0 /\ UNCHANGED asleep
        \/ /\ m.reg # "attached" /\ tried < 3 /\ asleep' = TRUE
           /\ previous' = [previous EXCEPT !.roam = m.roam]
           /\ retry' = tried /\ UNCHANGED nas

\* cellular_hal_qmi_monitor_get_serving_system, with an answer
ReadHandled(m) ==
    LET tried == MinOf(retry + 1, 3)
    IN  \/ /\ m.reg = "attached" /\ RegistrationStatusCB("REGISTERED")
           /\ previous' = [reg |-> "registered", roam |-> m.roam]
           /\ retry' = tried /\ UNCHANGED asleep
        \/ /\ m.reg # "attached" /\ tried = 3 /\ RegistrationStatusCB("REGISTERING")
           /\ previous' = [previous EXCEPT !.roam = m.roam]
           /\ retry' = 0 /\ UNCHANGED asleep
        \/ /\ m.reg # "attached" /\ tried < 3 /\ asleep' = TRUE
           /\ previous' = [previous EXCEPT !.roam = m.roam]
           /\ retry' = tried /\ UNCHANGED nas

\* Mutant: only the roaming is looked at.
IndicationHandled_RoamingOnly(m) ==
    /\ previous' = [previous EXCEPT !.roam = m.roam]
    /\ IF previous' # previous
       THEN RegistrationStatusCB(IF previous'.reg = "registered" THEN "REGISTERED" ELSE "NOT_REGISTERED")
       ELSE UNCHANGED nas
    /\ UNCHANGED <<retry, asleep>>

\* cellular_hal_qmi_serving_system_indication_cb: a change of the registration
\* or of the roaming is reported, the latter with the registration last seen.
IndicationHandled(m) ==
    /\ previous' = [reg |-> Shown(m.reg), roam |-> m.roam]
    /\ IF previous' # previous
       THEN RegistrationStatusCB(IF previous'.reg = "registered" THEN "REGISTERED" ELSE "NOT_REGISTERED")
       ELSE UNCHANGED nas
    /\ UNCHANGED <<retry, asleep>>

RegistrationMessage ==
    /\ LoopRuns /\ inbox # <<>> /\ inbox' = Tail(inbox)
    /\ LET m == Head(inbox)
       IN  \/ m.kind = "read" /\ ReadHandled(m)
           \/ m.kind = "serving" /\ IndicationHandled(m)
    /\ UNCHANGED <<serving, reads, failing>>

\* The sleep of a task is over, and it asks again.
RetryRead ==
    /\ asleep /\ asleep' = FALSE
    /\ serving' = TRUE /\ reads' = reads + 1
    /\ UNCHANGED <<previous, failing, retry, inbox, nas>>

RegistrationStep ==
    /\ ReadAnswered \/ RegistrationMessage \/ RetryRead
    /\ UNCHANGED <<network, deviceVars, detected, open, enable, slot>>
=============================================================================
