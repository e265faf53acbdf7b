---------------------------- MODULE NetworkScan ----------------------------
(***************************************************************************)
(* The thread of the QMI HAL that scans for networks every two minutes     *)
(* (cellular_hal_qmi_apis.c): begun when a modem is opened, told to stop   *)
(* through two flags and a condition variable when the modem is set        *)
(* offline or removed.  The memory a removed modem leaves is wiped before  *)
(* the next can open; requests it never answered fail after that.          *)
(***************************************************************************)
EXTENDS PluggedModem

CONSTANTS
    MaxThreads, \* bound: scan threads at once
    MaxOffs     \* bound: times the modem is set offline

ASSUME ScanAssumption == MaxThreads \in Nat \ {0} /\ MaxOffs \in Nat

VARIABLES
    registered, \* enNASRegistrationStatus is REGISTERED
    running,    \* bIsNetworkScanTaskStillRunning
    stop,       \* bIsNeed2StopNetworkInfoCollection
    threads,    \* where each scan thread is
    scans,      \* scans asked for and not answered
    networks    \* the modem whose networks are in astNetworkInfo; 0: none

VARIABLES
    offs,       \* bound: times the modem was set offline
    offline,    \* history: the modem was set offline since it was opened
    missed      \* history: a stop was signalled to a thread not yet waiting

flagVars == <<running, stop>>
historyVars == <<offs, offline, missed>>
vars == <<modem, device, registered, flagVars, threads, scans, networks, historyVars>>

Threads == 1..MaxThreads

\* none; created but not running yet; about to test the loop's condition;
\* about to wait; waiting; awake.
Stages == {"none", "created", "checks", "enters", "waits", "awake"}

\* A scan is its modem and its thread, or 0 when the thread has ended.
Scans == [modem : Modems, thread : {0} \cup Threads]

TypeOK ==
    /\ ModemTypeOK /\ registered \in BOOLEAN /\ running \in BOOLEAN /\ stop \in BOOLEAN
    /\ threads \in [Threads -> Stages] /\ scans \subseteq Scans
    /\ networks \in {0} \cup Modems
    /\ offs \in 0..MaxOffs /\ offline \in BOOLEAN /\ missed \in BOOLEAN

Init ==
    /\ ModemInit /\ registered = FALSE /\ running = FALSE /\ stop = FALSE
    /\ threads = [t \in Threads |-> "none"] /\ scans = {} /\ networks = 0
    /\ offs = 0 /\ offline = FALSE /\ missed = FALSE

-----------------------------------------------------------------------------
(* cellular_hal_qmi_network_scan_start_thread *)

Moves(t, stage) == threads' = [threads EXCEPT ![t] = stage]

Starts(t) ==
    /\ threads[t] = "created" /\ Moves(t, "checks")
    /\ running' = TRUE /\ stop' = FALSE
    /\ UNCHANGED <<scans, networks>>

\* The thread ends; whoever answers its scan finds the context freed.  Nobody
\* takes down the flag that says it runs.
Exits(t) ==
    /\ Moves(t, "none")
    /\ scans' = {IF s.thread = t THEN [s EXCEPT !.thread = 0] ELSE s : s \in scans}

\* The condition of the while.
Checks(t) ==
    /\ threads[t] = "checks"
    /\ \/ ~removed /\ ~stop /\ Moves(t, "enters") /\ UNCHANGED scans
       \/ (removed \/ stop) /\ Exits(t)
    /\ UNCHANGED <<flagVars, networks>>

\* pthread_cond_timedwait, until two minutes are over.
Waits(t) ==
    /\ \/ threads[t] = "enters" /\ Moves(t, "waits")
       \/ threads[t] = "waits" /\ Moves(t, "awake")
    /\ UNCHANGED <<flagVars, scans, networks>>

\* After the wait.  A scan takes a minute at most, so the last one is over.
Wakes(t) ==
    /\ threads[t] = "awake"
    /\ \/ (removed \/ stop) /\ Exits(t)
       \/ /\ ~removed /\ ~stop /\ Moves(t, "checks")
          /\ scans' = IF registered THEN scans \cup {[modem |-> modem, thread |-> t]} ELSE scans
    /\ UNCHANGED <<flagVars, networks>>

ScanThread(t) ==
    /\ Starts(t) \/ Checks(t) \/ Waits(t) \/ Wakes(t)
    /\ UNCHANGED <<modem, device, registered, historyVars>>

\* cellular_hal_qmi_network_scan_ready.  A scan whose thread has ended writes
\* through freed memory: it may or may not reach the table.
ScanReady(s) ==
    /\ scans' = scans \ {s}
    /\ \/ device = "open" /\ s.modem = modem /\ networks' = modem
       \/ UNCHANGED networks
    /\ UNCHANGED <<flagVars, threads>>

-----------------------------------------------------------------------------
(* Who begins and who ends it *)

\* cellular_hal_qmi_network_scan_data_collection_task
ScanTask ==
    \/ running /\ UNCHANGED threads
    \/ ~running /\ \E t \in Threads : threads[t] = "none" /\ Moves(t, "created")

\* The stop flag goes up and the condition is signalled: one thread that waits
\* is woken; one that has tested the flag and does not wait yet misses it.
SignalsStop ==
    /\ stop' = TRUE /\ networks' = 0
    /\ \/ \E t \in Threads : threads[t] = "waits" /\ Moves(t, "awake")
       \/ (\A t \in Threads : threads[t] # "waits") /\ UNCHANGED threads
    /\ missed' = (missed \/ \E t \in Threads : threads[t] = "enters")

\* Mutant: the thread is told, but not woken.
Stops_Unsignalled ==
    \/ running /\ stop' = TRUE /\ networks' = 0 /\ UNCHANGED <<threads, missed>>
    \/ ~running /\ UNCHANGED <<stop, threads, networks, missed>>

Stops ==
    \/ running /\ SignalsStop
    \/ ~running /\ UNCHANGED <<stop, threads, networks, missed>>

\* cellular_hal_qmi_set_modem_operating_configuration with OFFLINE, asked for
\* by a user or after a preference was set.  It marks the scan as ended itself.
\* The modem's answer is not looked at.
Offline ==
    /\ device = "open" /\ offs < MaxOffs /\ offs' = offs + 1 /\ offline' = TRUE
    /\ Stops /\ running' = FALSE
    /\ UNCHANGED <<modem, device, registered, scans>>

\* The last step of cellular_hal_qmi_device_open_step, for the next modem.
Opens ==
    /\ PluggedIn /\ ScanTask /\ offline' = FALSE
    /\ UNCHANGED <<registered, flagVars, scans, networks, offs, missed>>

\* cellular_hal_qmi_device_removed_cb, up to its sleep.
Unplugs ==
    /\ Unplugged /\ Stops
    /\ UNCHANGED <<registered, running, scans, offs, offline>>

\* It sleeps for five seconds or more: a thread that can run has run.
Settled == \A t \in Threads : threads[t] \in {"none", "waits"}

\* Mutant: the flag that says the scan runs is not among what is wiped.
Reinitialize_RunningKept ==
    registered' = FALSE /\ stop' = FALSE /\ networks' = 0 /\ UNCHANGED running

\* Mutant: the networks are not among what is wiped.
Reinitialize_NetworksKept ==
    registered' = FALSE /\ running' = FALSE /\ stop' = FALSE /\ UNCHANGED networks

\* cellular_hal_qmi_reinitialize_context
Reinitialize == registered' = FALSE /\ running' = FALSE /\ stop' = FALSE /\ networks' = 0

\* cellular_hal_qmi_device_removed_cb, after its sleep.
Removes ==
    /\ Settled /\ Removed /\ Reinitialize
    /\ UNCHANGED <<threads, scans, historyVars>>

\* The modem is registered with a network, or no longer.
Registers ==
    /\ device = "open" /\ registered' = ~registered
    /\ UNCHANGED <<modem, device, flagVars, threads, scans, networks, historyVars>>

\* The GLib thread is inside its handler while a modem is removed.
Answers ==
    /\ ~removed /\ \E s \in scans : ScanReady(s)
    /\ UNCHANGED <<modem, device, registered, historyVars>>

Next == \/ \E t \in Threads : ScanThread(t)
        \/ Offline \/ Opens \/ Unplugs \/ Removes \/ Registers \/ Answers

Spec == Init /\ [][Next]_vars

-----------------------------------------------------------------------------
(* Properties *)

Alive == {t \in Threads : threads[t] # "none"}

\* At most one thread scans, however often modems come and go and are set
\* offline ("already running so ignore another instance"); only a thread that
\* missed its stop may stay beside the next.
OneScanThread == Cardinality(Alive) > 1 => missed

\* An open modem that was not set offline has a thread that scans, and nobody
\* has told that thread to stop.
ScannedWhileOpen ==
    device = "open" /\ ~offline => Alive # {} /\ (stop => \E t \in Alive : threads[t] = "created")

\* The networks handed out were found by the modem that is there: those of the
\* modem before are gone before the next opens, and no late answer, not even
\* one that finds its thread ended, brings them back.
NetworksOfThisModem == networks \in {0, modem} /\ (device = "closed" => networks = 0)
=============================================================================
