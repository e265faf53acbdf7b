---------------------------- MODULE DeviceOpening ----------------------------
(***************************************************************************)
(* The task behind cellular_hal_qmi_open_device: it creates and opens the  *)
(* QmiDevice, allocates the DMS, WDS and NAS clients that are missing,     *)
(* reads the identity and the operating mode of the modem in between, and  *)
(* reports the outcome to CellularMgrDeviceOpenStatusCBForSM.  A task is   *)
(* known by the request it waits for; several may be outstanding.          *)
(***************************************************************************)
EXTENDS EnableControl

VARIABLES
    opens,    \* open tasks
    overlaps  \* history: tasks begun while another was outstanding

openVars == <<opens, overlaps>>

OpenSteps == {"new", "opening", "DMS", "revision", "version", "ids", "mode", "WDS", "NAS"}

\* `on': the request was made on a client or device that is still there.
OpenTasks == [id : 1..MaxTasks, step : OpenSteps, ready : BOOLEAN, online : BOOLEAN, on : BOOLEAN]

\* CellularMgrDeviceOpenStatusCBForSM
OpenStatusCB(status, mode) == open' = status /\ ModeReported(mode)

\* MODEM_OPEN_STATE_NOTIFY and MODEM_OPEN_STATE_END of task t, now u.  The mode
\* of a task that never read one is 0, QMI_DMS_OPERATING_MODE_ONLINE.
Notify(t, u) ==
    /\ opens' = opens \ {t}
    /\ OpenStatusCB(IF u.ready THEN "READY" ELSE "NOT_READY", u.online)

Waits(t, u, step) ==
    /\ opens' = (opens \ {t}) \cup
         {[u EXCEPT !.step = step,
                    !.on = IF step \in {"opening", "DMS", "WDS", "NAS"} THEN TRUE ELSE valid'["DMS"]]}
    /\ UNCHANGED <<open, enableVars>>

\* libqmi ignores an allocation on a NULL device: the task waits for ever.
Dropped(t) == opens' = opens \ {t} /\ UNCHANGED <<open, enableVars>>

Asks(t, u, s) == IF device = "none" THEN Dropped(t) ELSE Waits(t, u, s)

\* The steps of cellular_hal_qmi_device_open_step that fall through when the
\* client of their service is there.
FromNas(t, u) == IF valid'["NAS"] THEN Notify(t, u) ELSE Asks(t, u, "NAS")
FromWds(t, u) == IF valid'["WDS"] THEN FromNas(t, u) ELSE Asks(t, u, "WDS")
FromDms(t, u) == IF valid'["DMS"] THEN Waits(t, u, "revision") ELSE Asks(t, u, "DMS")

\* The first request of a task: a device that is open is not opened again.
FirstStep == IF ~IsOpen THEN "new" ELSE IF valid["DMS"] THEN "revision" ELSE "DMS"

\* cellular_hal_qmi_open_device, for TransitionDeactivated.  Without a device
\* file the answer comes before the call returns.
OpenDevice ==
    \/ ~present /\ OpenStatusCB("NOT_READY", FALSE) /\ UNCHANGED openVars
    \/ /\ present
       /\ \E i \in 1..MaxTasks :
            /\ \A j \in 1..i : (j = i) <=> (\A t \in opens : t.id # j)
            /\ opens' = opens \cup
                 {[id |-> i, ready |-> IsOpen, online |-> TRUE, on |-> TRUE,
                   step |-> FirstStep]}
       /\ open' = "INPROGRESS" /\ UNCHANGED enableVars
       /\ opens # {} => overlaps < MaxOverlaps
       /\ overlaps' = IF opens # {} THEN overlaps + 1 ELSE overlaps

\* Mutant: a device that could not be created leaves the task unanswered.
DeviceNew_Silent(t) ==
    /\ t.step = "new"
    /\ UNCHANGED <<valid, alive>>
    /\ \/ present /\ device' = "created" /\ Waits(t, t, "opening")
       \/ UNCHANGED device /\ Dropped(t)

\* cellular_hal_qmi_device_new
DeviceNew(t) ==
    /\ t.step = "new"
    /\ UNCHANGED <<valid, alive>>
    /\ \/ present /\ device' = "created" /\ Waits(t, t, "opening")
       \/ UNCHANGED device /\ Notify(t, [t EXCEPT !.ready = FALSE])

\* cellular_hal_qmi_device_open
DeviceOpened(t) ==
    /\ t.step = "opening" /\ UNCHANGED <<valid, alive>>
    /\ \/ /\ t.on /\ present /\ device = "created" /\ device' = "open"
          /\ FromDms(t, [t EXCEPT !.ready = TRUE])
       \/ UNCHANGED device /\ Notify(t, [t EXCEPT !.ready = FALSE])

\* cellular_hal_qmi_client_device_open_dms.  A client that is refused ends the
\* task, which still reports the device ready.
DmsAllocated(t) ==
    /\ t.step = "DMS" /\ UNCHANGED device
    /\ \/ t.on /\ Allocated("DMS") /\ Waits(t, t, "revision")
       \/ UNCHANGED <<valid, alive>> /\ Notify(t, t)

\* cellular_hal_qmi_get_revision, whatever the answer was
RevisionRead(t) ==
    t.step = "revision" /\ UNCHANGED <<device, valid, alive>> /\ Waits(t, t, "version")

\* cellular_hal_qmi_get_software_version
VersionRead(t) ==
    t.step = "version" /\ UNCHANGED <<device, valid, alive>> /\ Waits(t, t, "ids")

\* cellular_hal_qmi_get_modem_identification
IdsRead(t) ==
    t.step = "ids" /\ UNCHANGED <<device, valid, alive>> /\ Waits(t, t, "mode")

\* cellular_hal_qmi_get_operating_mode_configuration_cb: a mode that cannot be
\* read is taken for offline.
ModeRead(t) ==
    /\ t.step = "mode" /\ UNCHANGED <<device, valid, alive>>
    /\ \E m \in {online /\ device = "open" /\ t.on, FALSE} : FromWds(t, [t EXCEPT !.online = m])

\* Mutant: the flag of the WDS client is not set.
WdsAllocated_FlagLeft(t) ==
    /\ t.step = "WDS" /\ UNCHANGED device
    /\ \/ /\ t.on /\ device = "open" /\ UNCHANGED valid
          /\ alive' = [alive EXCEPT !["WDS"] = @ + 1]
          /\ FromNas(t, t)
       \/ UNCHANGED <<valid, alive>> /\ Notify(t, t)

\* cellular_hal_qmi_client_device_open_wds
WdsAllocated(t) ==
    /\ t.step = "WDS" /\ UNCHANGED device
    /\ \/ t.on /\ Allocated("WDS") /\ FromNas(t, t)
       \/ UNCHANGED <<valid, alive>> /\ Notify(t, t)

\* cellular_hal_qmi_client_device_open_nas
NasAllocated(t) ==
    /\ t.step = "NAS" /\ UNCHANGED device
    /\ \/ t.on /\ Allocated("NAS") /\ Notify(t, t)
       \/ UNCHANGED <<valid, alive>> /\ Notify(t, t)

\* An answer to a task, in the GLib thread.
OpenAnswer ==
    /\ LoopRuns /\ UNCHANGED <<present, online, inbox, asleep, detected, overlaps>>
    /\ \E t \in opens :
         \/ DeviceNew(t) \/ DeviceOpened(t) \/ DmsAllocated(t) \/ RevisionRead(t)
         \/ VersionRead(t) \/ IdsRead(t) \/ ModeRead(t) \/ WdsAllocated(t) \/ NasAllocated(t)
=============================================================================
