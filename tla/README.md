# RdkCellularManager: a verification project

RdkCellularManager drives a cellular modem (through libqmi-glib), decides when
a WAN link over it may be used, and publishes what it knows as the TR-181
object `Device.Cellular.`. This directory holds TLA+ models of it, the TLC runs
that check them on small instances, and proofs for every value of the constants.

Paths below are relative to `source/CellularManager/`, or to
`source/TR-181/middle_layer_src/` for files of the data model.

## 1. Inventory

| Component | State it keeps | Operations | Talks to |
|---|---|---|---|
| **Policy state machine** `cellularmgr_sm.c` | `CellularPolicySmStateMachineCtrl_t`: device, slot, registration, profile, start/waiting flags, packet status per family, `enCurrentSMState`; file statics `iter`, `max_wait` | one body per state (DOWN, DEACTIVATED, DEREGISTERED, REGISTERED, CONNECTED) every 500 ms; nine transitions; seven callbacks | HAL (calls), GLib thread (callbacks), data model (flags), WAN manager (bus) |
| **WAN manager interface** `cellularmgr_cellular_apis.c:475-569`, `cellularmgr_bus_utils.c` | none (a row of the WAN manager's table) | `CellularMgrUpdatePhyStatus`, `CellularMgrUpdateLinkStatus`, interface-index lookup, IP lease message | WAN manager over RBUS/CCSP |
| **QMI HAL: device, slot, registration, profile, network** `cellular_hal_qmi_apis.c` | `ContextInfo` (QmiDevice, clients for DMS/NAS/WDS/UIM, slot table, profile ids, packet handles), static `registration_state_previous`, retry counters | asynchronous tasks, each a chain of libqmi requests ("steps") driven by completion callbacks, plus indications | libqmi (GLib main loop thread), state machine callbacks |
| **QMI HAL: scan, PLMN, signal, statistics, identification** | caches of results, `bIsNetworkScanTaskStillRunning` | synchronous-looking getters that run a task and poll for its end; a scan thread | libqmi |
| **HAL dispatch** `cellular_hal.c` | none | forwards to QMI; `cellular_hal_IsModemDevicePresent` stats the control device file | QMI HAL |
| **RBUS events** `cellularmgr_rbus_events.c` | `gRBUSSubListSt`: subscriber count, interval and elapsed time per parameter | the subscription handler; a monitor thread that polls every 10 s; four publish-on-change functions | data model, state machine |
| **TR-181 data model** `cellularmgr_cellular_dml.c`, `cellularmgr_rbus_dml.c` | `CELLULAR_DML_INFO`: `X_RDK_Enable`, interface rows (`Enable`, `Upstream`, `Status`, `Phy`, `LinkAvailable`), access points, caches with time stamps | getters and setters per parameter, once for CCSP and once for RBUS | middle-layer APIs, events |
| **Middle-layer APIs** `cellularmgr_cellular_apis.c` | PSM records of the access points, `X_RDK_Enable`/`bRDKEnable` | `DmlCellularInitialize`, `CellularMgr_SetModemEnable`, access-point add/get/set, radio environment, factory reset thread | HAL, PSM, state machine |
| **Web configuration** `cellularmgr_cellular_webconfig_api.c`, `_helpers.c`, `_param.c` | version of the last blob | decode and apply a blob | middle-layer APIs |
| **RBUS registration, process start-up, bus, utilities** | component handles | glue and I/O | all |

Threads: the state machine thread; the GLib main-loop thread (all HAL
callbacks); the RBUS and CCSP dispatch threads (data-model writes); the RBUS
event monitor; the network scan thread; the factory-reset thread. The state
machine's control block has a mutex that only four of the callbacks and two
getters take; the thread itself takes it in none of its state bodies. The
models treat control block, subscription list and interface record as shared
memory with no lock at all.

What makes the system hard:

* answers come late, never, or for a request that has been given up;
* the modem can leave at any moment, and the manager itself sends it away: it
  brings it online by a reset;
* checks are separated from the acts that depend on them by sleeps of up to six
  seconds and by bus calls;
* file statics outlive the modem, the slot or the connection they describe;
* management writes go to several copies of the same flag.

What has to hold, component by component: the WAN link is down whenever the
machine is down or deactivated, and a removal, a disabling and a lost session
reach the WAN manager (state machine); every flag the machine waits on is
answered for (state machine with HAL); a start or stop concerns the session it
was asked for (HAL network tasks); a slot, once lost, is reported, and a valid
one is used (HAL slot selection); a registration is reported once per change and
never suppressed (HAL registration); every subscriber gets the events it
subscribed to, at its interval or on change (RBUS events); the enable flag, its
management copy and the modem's mode agree after a complete write (data model).
`PROJECT.json` lists the places where each can go wrong under `hazards`.

## 2. Plan

The most important behaviour, the connection seen by the WAN manager, came
first; each further family opens one box the core leaves closed.

| Modules | Part of the system | State |
|---|---|---|
| `CellularSM`, `ConnectionPolicy`, `CellularSMClaims`, `CellularSM_proofs` | state machine, callbacks, modem; what it promises the WAN manager | done |
| `RadioEvents`, `RadioEvents_proofs` | subscriptions with intervals, monitor thread | done |
| `QmiNetwork`, `QmiNetwork_proofs` | start and stop of both families, request by request | done |
| `ModemDevice`, `EnableControl`, `DeviceOpening`, `SlotSelection`, `Registration`, composed in `BringUp`; `BringUp_proofs` | opening, slot and registration tasks with the state machine that asks, the removal and the writers of the enable flag | done |
| `ProfileTasks`, with `AccessPoints` above it, each with proofs | profile operations and the table the data model edits | done |
| `PluggedModem`, with `NetworkScan` and `Readings` above it, each with proofs | the scan thread; the getters and their shared memory | done |

`BringUp` and `QmiNetwork` each carry the part of the state machine that asks
for their tasks, since the states in which a task can be asked for decide what
can overlap; `CellularSM` has every task as one request with every outcome.

What is left, in the order of its worth: the interface events; attach and
detach, SIM power and UICC slots; factory reset. A refinement between
`QmiNetwork` or `BringUp` and `CellularSM` would need the two to agree on the
grain of a transition (one step there, a call at a time here).

Every safety property of the passing runs is a theorem (section 5, with the
hypotheses of the few that need one: IPv4 in the profile, a bus that delivers,
a HAL that calls back). Liveness is left to TLC.

## 3. Modules

### `CellularSM`

One action per state body, transition and callback; each reads top to bottom
like the function `PROJECT.json` maps it to.

* `state` is the thread's local `policy_sm_state`; `cur` is
  `enCurrentSMState`, what `CellularMgrSMGetCurrentState` returns.
* `detection`, `enable`, `open`, `slot`, `nas`, `profile`, `pdp`, `start`,
  `waiting`, `packet` are the fields of the control block, with the names of
  the enumerators shortened (`DEVICE_SLOT_STATUS_SELECTING` is `"SELECTING"`).
  `start` and `waiting` are functions of the family where the code has two
  Booleans each.
* `pc` cuts a body where other threads really get in: `wait` (the
  reconnection wait of one-second sleeps), `settle` and `startIPv6` (before the
  start of each family, after `sleep(3)`), `lost` (between the test of the
  registration and the assignment that follows it), `stop` (between the reset of
  the fields of a connection and the call that stops it).
* `wanLink`, `wanPhy` are what the WAN manager was last told.
* The modem and the HAL are an environment described by what the HAL's code
  can do: `device` is the QmiDevice (`gone`: unplugged, but its removal signal
  has not been handled), `asked` the tasks that have yet to answer, `session`
  the packet session of a family, `stale` a start task that outlived the stop
  of its session, `reported` the static `registration_state_previous`.
  Each answer has every outcome its step chain can end with. `OpenAnswer` knows
  neither the DMS client nor when its task began: it allows any mode with READY,
  and READY for a device that has gone, in more states than the code does
  (`DeviceOpening` has the steps).

`Disturbances` names what the environment may do (unplug, disable, lose the
network and so on), so that a run says which causes it studies; `BusFails` and
`HalSilent` switch two failures whose absence some properties need.

Not in it: getters, sysevents, logging, DNS and address data, the network
scan, and the publication of the interface status.

### `ConnectionPolicy`

What the machine promises the WAN manager, without a modem: it climbs one state
at a time, raises the link only while registered and never by connecting,
lowers it in the step that leaves CONNECTED or reaches DOWN or DEACTIVATED.
`CellularSM` implements it with `phase <- state, link <- wanLink`.

### `CellularSMClaims`

One sentence of a comment of the HAL, stated as a property of `CellularSM` and
refuted.

### `CellularSM_proofs`

The theorems of section 5.

### `RadioEvents`

The subscription list of `cellularmgr_rbus_events.c` and its two users.

* `flag`, `interval`, `lapsed` are the counter, interval and elapsed time the
  list keeps for each of the six radio parameters; `statusFlag` is the counter
  of `X_RDK_Status`. The six branches of the handler and the six blocks of the
  monitor are one text up to the names of the fields; here the parameter is an
  argument. The other four counters of the list, those of the interface events,
  are left out.
* `prev` and `prevStatus` are the monitor's locals, the values published last.
* `sub`, `told`, `statusSub`, `statusTold` are the clients' side: what each
  asked for and what it was told. The code keeps no such list (the bus does);
  the properties relate the two.
* A pass of the monitor takes the parameters in `Order`, with `X_RDK_Status`
  after the first. `pc` cuts it before each parameter (`look`), between the
  read of the elapsed time and its write (`store`, the sum in `reg`), and
  before the comparison with the interval (`judge`), so that a subscription
  lands anywhere in it. The machine state is read once, when the pass begins
  (`seen`).
* What the pass compares and publishes is what it has read (`got`): the radio
  environment after its counter was tested, the five signals together after
  `X_RDK_Status`. A read waits (`read`) for a flag of the HAL that every other
  caller takes down as well, and without a limit (`Readings` has the protocol).
  `ReadCrossed` is such a call coming in between; the wait is then `crossed` and
  ends only if a later call happens to raise the flag (`ReadRescued`).

### `QmiNetwork`

A client is a number, and so are the packet handle and the signal handler that
hang on it. A start task is a record that waits at one of its requests
(`"alloc"` to `"rat"`, the cases of the start step); a stop task waits for the
modem. The state machine's thread makes the first request of a task and then
goes on, so its transition is a queue of `calls`. Each answer succeeds, fails,
or finds that the device has gone. `overlaps` counts the tasks begun while
another of their family was out: the HAL keeps one set of fields per family,
and three of the four properties are about tasks that do not overlap.

A start for either family asks for a client when `client_ipv4` is missing, not
when its own is (`cellular_hal_qmi_apis.c:6449-6452`), and `NeedsClient` says
so. With IPv4 in the profile the IPv4 start comes first, and the test decides
for both. With IPv6 alone it always holds: a start that gets its client but not
its network leaves the client in the context, and the next start allocates
another over it. `NothingLeaked` and `HandleOfClient` are false there, in ten
steps, and are proved for profiles with IPv4.

### `ModemDevice`, `EnableControl`, `DeviceOpening`, `SlotSelection`, `Registration`, `BringUp`

* `ModemDevice` is what the tasks share. `device` goes `none`, `created`,
  `open`, `gone` (unplugged, its signal still to come), `closing` (the removal
  handler has released the clients and sleeps); `valid` are the
  `bIsValid...Client` flags and `alive` the clients really allocated, so a leak
  is a difference of the two. `inbox` holds what the GLib thread has yet to
  handle, `asleep` says that it sleeps inside a callback.
* `EnableControl`: `managed` is `X_RDK_Enable`, `enable` the flag of the state
  machine. A writer (the data model through CCSP or RBUS, the web configuration)
  tests the first, sets the second, asks the modem and keeps the value if the
  modem could be asked: three steps. An open task that reports sets both.
* `DeviceOpening`: an open task is the request it waits for; several may be
  out, since a machine that was disabled and enabled opens the device again.
* `SlotSelection`: client, status read, indication handler. The slots a
  message carries are those of the moment it was sent.
* `Registration`: the handler connected, then the serving system read up to three
  times with five seconds of sleep in the GLib thread. `previous` is
  `registration_state_previous` with `roaming_state_previous`, which a removal
  does not reset.
* `BringUp` adds the state machine from DOWN to REGISTERED, the removal
  (`ReleaseClients`, `DeviceClosed`) and the modem.

### `ProfileTasks`, `AccessPoints`

`ProfileTasks` walks a profile operation through the cases of
`cellular_hal_qmi_profile_operation_step`; a step ends at the next request.
All operations share `list`, `count`, `collected` and the default read last
(`cached`, `cachedId`). `AccessPoints` has the table of
`Device.Cellular.AccessPoint`: synchronised with a list reading when it is empty
(CCSP) or old, edited, and written back row by row with the operation that fits
the row; the state machine creates its own profile at each registration.
`edited` and `whole` say which states the properties speak of. `ReadyIsOwn`
allows two tasks that overlap and no more: with three, a reading that began
before a creation and one that began after it write their entries into the one
list, of which the entry for the machine's own number may then be another
profile's, and a creation that finds it there reports READY without having
stored anything.

### `PluggedModem`, `NetworkScan`, `Readings`

`PluggedModem` numbers the modems that are plugged in one after the other, so
that what was read from one can be told from what was read from the next.
`NetworkScan` is the scan thread with its two flags and its condition variable;
a signal reaches only a thread that waits, and `missed` remembers one that got
none. `Readings` has the six kinds of readings with their memory, their flags
and their times to live; a caller looks again every second, ten times at most,
for the signal without limit. The history in a call (`since`, `failed`,
`shared`, `unplugged`) says what crossed it. The two lists of technologies are
strings that a callback wipes and then appends to name by name, while a caller
goes by their first byte: `writing` is the answer whose list is being written,
in three steps (`Wipes`, `WritesFirst`, `Written`) between which callers look.
`AloneIsFresh` excepts the list a caller finds half-written; without that
exception TLC refutes it in six states.

### `..._proofs`

The theorems of section 5.

## 4. Runs

| Run | What it shows | Instance |
|---|---|---|
| `SMRemoval` | `NoWanWhileOffline`, `PolicyImplemented` (refinement), `RemovalReachesDown`, `DisableLowersLink`, `LossLowersLink` under unplugging, disabling, session loss and a silent HAL | IPv4; 293,280 states |
| `SMFailures` | `TypeOK`, `CurrentStateTracks`, `ReconnectWaitDiscipline`, `StartIsOwed` with both families, late start tasks, a failing bus, slot, card, network, interface and upstream changes | IPv4v6 and PPP; 449,968 states |
| `ClaimIndication` | a registration indication is suppressed by what was reported before an unplug | violation |
| `EventsIntervals` | `TypeOK`, `IntervalServesAll`, `NothingOverdue`, `IntervalNotStarved`, `ChangesArePublished` | RSSI, two clients, on change or every 10, 20, 30 s, 15 refused; 137,816 states |
| `EventsChanges` | `EventsChain` | radio environment and status, two clients, on change or every 20 s; 1,026,756 states |
| `QmiNetwork` | `StopFlagOwned`, `NothingLeaked`, `HandleOfClient`, `RatMeansClient`: no stop is refused for ever, no client, session or handler is lost, a stop goes to its own session | both families, three clients; 2,396,444 states |
| `BringUp` | `OneClient`, `ReadySlotSelected`, `SelectedHoldsCard`, `RegistrationRemembered`, `RegistrationCurrent`, `RegisteredIsWatched`, `EnableAgrees`, `OpenIsOwed`: what the machine believes of device, slot and registration is so, its enable flag is the one shown, and a device it waits for is being opened | one slot, two open tasks, one writer, one unplugging, one other change, all registrations; 3,801,827 states |
| `BringUpAnswers` | `OpenAnswered`, `RemovalNoticed`: the machine is not left waiting | one slot, one task, one writer, one unplugging, one other change; 193,265 states |
| `Profiles` | `OneOfAKind`, `RowsWhole`, `DefaultFollowed`, `ReadyIsOwn` | room for two profiles, three tasks, one overlap, one failure, both buses; 1,503,060 states |
| `ClaimProfileOnce` | the modem comes to hold a profile twice, though the creation checks for it | violation |
| `NetworkScan` | `OneScanThread`, `ScannedWhileOpen`, `NetworksOfThisModem` | three modems, three threads, two switches to offline; 1,320,001 states |
| `Readings` | `OfThisModem`, `AloneIsFresh`, `SignalIsOwed`, `CallsReturn` | data model and monitor, two modems, three calls; 490,140 states |

**Bounds.** In `CellularSM`, `ReconnectWait = 2` stands for the 3 seconds of the code: two is the
least value with a first, a middle and a last second, and the proofs cover every
value. One modem, one slot and one interface are what the program supports.
Each task is outstanding at most once (`asked` is a set): a second request of
the same kind while one is outstanding is answered by one completion in the
model; the state machine, which asks only in the states that precede an answer,
cannot tell. A family has one session and at most one stale start task: a third
simultaneous task would set the same flags in the same way. Nothing else
in it counts.

In `RadioEvents` the period is the code's 10 seconds. Three intervals are the
fewest in which a count can stand between two of them, and two clients the
fewest of which one leaves and one stays; a third would be one more of the
same, and the proofs cover any number. The elapsed time needs no bound: it is
reset at the interval. Parameters share nothing but the order of a pass, so
the interval run looks at one of them; the chain is checked for the two that
are treated differently (the radio environment, which depends on the state,
and the state itself).

In `QmiNetwork` three clients are one more than the two families have, so that
one can be lost while both are in use; two start tasks are one of each family,
or two of the same with one overlap. In `BringUp` two tasks with one overlap
let an open task find the flags another has not set yet; two messages are the
least in which the order of an answer and an indication shows; one unplugging
and one other change bring a second modem after the first and a change in any
window of its bring-up. `BringUpAnswers` gives up overlaps, as liveness
costs more. One slot leaves the choice between several open, and one
writer the crossing of two: with two of each and no overlaps `BringUp.cfg`
passes as well (849,440 states), and the proofs of `ReadySlotSelected` and
`EnableAgrees` cover any number. `Profiles` has room for two profiles (the
default and another), three tasks (a synchronisation, an edit and the machine's
creation); `ClaimProfileOnce` needs a third profile. In `NetworkScan` the
thread of a first modem can miss its stop, outlive the second modem and meet
the third; in `Readings` a call of each caller and one more are enough for a
late answer of the first modem to meet a call on the second.

**Fairness.** `WF(SMStep)`: the thread's loop sleeps 500 ms and runs again, and
every blocking call in it is bounded. `WF(DeviceRemovedCB)`: the GLib loop runs
as long as the process, and the signal of a vanished device is queued in it.
Nothing is assumed of the modem: no answer, indication or registration need
ever come. The liveness properties therefore speak only of what the machine
does with what it was told, and they are checked with a HAL that may stay
silent.

`WF(Monitor)` in `RadioEvents`: the monitor sleeps ten seconds and runs a pass
whose only waits are those for the signal. A request that nobody crosses is
answered, by libqmi's timeout if not by the modem, so an uncrossed wait ends. A
crossed one need not: no step of the monitor is enabled in it and `ReadRescued`
has no fairness, so the monitor may stay there for ever, and both liveness
properties except it. Clients, state machine and modem owe nothing; a client may
subscribe and leave for ever, which is what `IntervalNotStarved` is about.

`FairSpec` of `BringUp`: the thread ticks (`Tick`); the GLib loop handles some
answer as long as there is one, since libqmi answers every request, at the
latest by its own timeout with an error (`OpenWorks`, `SlotWorks` and
`RegistrationWorks` under one fairness, which is less than the code gives); the
removal handler runs and its sleep ends (`ReleaseClients`, `DeviceClosed`). Modem, cards,
network and users owe nothing. `FairSpec` of `Readings`: a caller's sleep of one
second ends and its limit of ten is reached, requests are answered or fail, the
removal handler returns. The wait for the signal has no limit in the code, and
`CallsReturn` excepts it when another's call or a removal crossed it.
`QmiNetwork`, `AccessPoints` and `NetworkScan` state safety only.

**Deadlock** is checked in the runs of `CellularSM` and `RadioEvents`, whose
thread always has a step. The other runs say `CHECK_DEADLOCK FALSE`: their bounds
on tasks, modems and events are counts that run out, after which the system
rests.

## 5. Proofs

`CellularSM_proofs` proves, for every `ReconnectWait`, every set of PDP types
and every set of disturbances:

| Theorem | Statement | Hypothesis |
|---|---|---|
| `TypeCorrect` | `Spec => []TypeOK` | none |
| `CurrentStateCorrect` | `Spec => []CurrentStateTracks` | none |
| `ReconnectWaitCorrect` | `Spec => []ReconnectWaitDiscipline` | none |
| `NoWanWhileOfflineCorrect` | `Spec => []NoWanWhileOffline` | the bus delivers |
| `PolicyCorrect` | `Spec => PolicyImplemented` | the bus delivers |
| `StartIsOwedCorrect` | `Spec => []StartIsOwed` | the HAL calls back, the modem is neither unplugged nor reset |

The only assumption on the constants is `ConstantsAssumption` (they have the
types their names say), evaluated by TLC in every run.

`RadioEvents_proofs` proves, for every period, finite set of clients and set of
intervals: `TypeCorrect`, `IntervalServesAllCorrect`, `NothingOverdueCorrect`
and `EventsChainCorrect`, each `Spec => []` of the property its name begins
with, with no hypothesis but `ConstantsAssumption`.

The other modules, each for every value of its constants (the bounds on tasks,
clients, modems and messages among them) and with no hypothesis but the
assumptions that give the constants their types:

| Module | Theorems (`Spec => []` of what their name begins with) |
|---|---|
| `QmiNetwork_proofs` | `TypeCorrect`, `StopFlagOwnedCorrect`, `RatMeansClientCorrect`; with IPv4 in the profile `NothingLeakedCorrect`, `HandleOfClientCorrect` |
| `BringUp_proofs` | `TypeCorrect`, `RegistrationRememberedCorrect`, `OneClientCorrect`, `ReadySlotSelectedCorrect`, `EnableAgreesCorrect`, `RegisteredIsWatchedCorrect`, `RegistrationCurrentCorrect`, `SelectedHoldsCardCorrect`, `OpenIsOwedCorrect` |
| `AccessPoints_proofs` | `TypeCorrect`, `DefaultFollowedCorrect`, `RowsWholeCorrect`, `ReadyIsOwnCorrect`, `OneOfAKindCorrect` |
| `NetworkScan_proofs` | `TypeCorrect`, `NetworksOfThisModemCorrect`, `ScannedWhileOpenCorrect`, `OneScanThreadCorrect` |
| `Readings_proofs` | `TypeCorrect`, `OfThisModemCorrect`, `AloneIsFreshCorrect` (an action property), `SignalIsOwedCorrect` |

`ProfileTasks_proofs` proves `AscendingListing`: for every set of profiles the
list the HAL reads entry by entry exists, has each profile once and is in the
order of their numbers. That is an induction over a set, which the provers
cannot do with a rule; it is done by the least counterexample, which
`WellFoundedInduction` gives without one. The module also says what the chain of
cases a task goes through comes to, one lemma for each kind of answer, so that
the invariants of `AccessPoints` are proved from effects and not from cases.

*Inductive invariants.* `Inv == TypeOK /\ ThreadInv` ties `pc` to `state` (each
point lies in one state) and the wait counters to both; without it a second of
the wait could be counted in CONNECTED. `LinkInv` adds to `NoWanWhileOffline`
that the link is also down at the point `lost` when it was reached from
CONNECTED: from there the machine goes to DEREGISTERED, and a refinement step
must show that CONNECTED was left with the link lowered. `OwedInv` adds to
`StartIsOwed` that the device stays open once it is needed; a flag set on a
closed device is owed by nobody, which is why the hypothesis is needed. Each is preserved by one lemma per action.
The invariant of `RadioEvents` adds `FlagCounts` to the three properties: the
counter of a parameter is the number of its clients. Without it a first
subscription, which resets the interval to 0, could be made while a client
with an interval is present; the step needs that a set of cardinality 0 is
empty, and that adding or removing a client moves the cardinality by one.

For the modules of the HAL:

* `OneClient`: `Single` adds that at most one open task is out and that one
  waiting for a client was begun when there was none: the flag is tested when
  the request is made and set when it is answered, and only the absence of
  another task closes that gap.
* `ReadySlotSelected`: `SlotInv` adds that a machine told of the removal has no
  status on its way (`Quiet`), and that DOWN has no slot; without them a status
  handled late would make a slot ready that nobody has selected.
* `RegisteredIsWatched`: `WatchInv` adds that messages about the registration, and
  a task that waits to read it again, mean that the handler is connected; and
  that the machine holds a registration of a device nobody watches only in
  DEACTIVATED without a slot to select, from where the way up resets it.
* `RegistrationCurrent`: `LossTold` looks at the registration as it is seen in
  turn (by the statics, by each message still waiting, at the modem) and says
  that where it is seen to go, an indication is the first to say so: what a task
  reads is never the only news of a loss, since the handler is connected before
  the read. The state of the statics before the first message closes the argument.
* `SelectedHoldsCard`: `LastTold` says that the last message about the slots shows
  them as they are, outside the window between the status read and the handler;
  `CardsInv` adds which requests of the slot task can be out for which state of
  its client and handler.
* `OpenIsOwed`, the safety half of `OpenAnswered`: `OwedInv` adds that as long as
  the device is not open, a task is at the step that opens it. The tasks that end
  without an answer find the device closed under them, further on; the removal
  that closed it has ended the wait (`detected`), and a new wait has a new task.
* `EnableAgrees`: `EnableInv` adds that, unless something came in between, one
  writer at most has set the flag, and to the value it will keep.
* `RatMeansClient`: `TaskInv` adds, for any profile, that a start that allocates
  is the only one of its family and that one whose client is still allocated
  works on the client its family has.
* `NothingLeaked`, `HandleOfClient`: `ClientInv` adds where IPv6 may have a client
  and IPv4 none: IPv6 is about to be stopped, or IPv4 has been asked for and has
  not answered, which keeps the machine from starting IPv6 again. The test of
  `client_ipv4` for both families is harmless for that reason alone.
* `EventsChain`: `ChainInv` adds that a client that is not subscribed has been told
  nothing, and that the counter of `X_RDK_Status` is the number of its clients:
  the value is remembered only when there is one to tell.
* `DefaultFollowed`: `Follows` adds that a task waiting for the settings of the
  default has already read its number.
* `RowsWhole`: `WholeRead` says that the task the table waits for is the only one
  that reads, and that the entries before the one it asks for have come.
* `ReadyIsOwn`: `OwnPair`, for up to two tasks: each of them reads into the list
  what the modem held when it began, and if both may still write there, they
  read the same. `OwnAlone` carries it to the moment a second task begins.
* `OneOfAKind`: `KindHal` and `KindTask` say that the list, once read and until the
  first change, is what the modem holds, so that a creation that finds no match
  in it adds none.
* `ScannedWhileOpen`: `CleanWhenClosed` says what a removal leaves to the next
  modem: both flags down and no thread about to raise one. `OneScanThread` adds
  `Alone`, which says where the only thread can be for each value of the flags.
* `AloneIsFresh`: `OneWriting` says that one list at most is being written and that
  a modem is there meanwhile; `Fresh` says, kind by kind, what must have been read when the
  flag of the kind is up and when the second request of a reading is out.
* `SignalIsOwed`, the safety half of `CallsReturn`: `SignalInv` adds that two calls
  for the signal at once are both marked as shared, and that a call that meets a
  removal is marked as unplugged. So an unmarked call is the only one that can
  take the flag down, and does so only when it sends a request of its own.

*Only model-checked:* the liveness properties `RemovalReachesDown`,
`DisableLowersLink`, `LossLowersLink`, `IntervalNotStarved`,
`ChangesArePublished`, `OpenAnswered`, `RemovalNoticed` and `CallsReturn` (the
prover handles neither fairness nor ENABLED), and the two refutations.

## 6. Findings

Met while modelling; `PROJECT.json` quotes the lines.

1. `ClaimIndication`: `registration_state_previous` is never reset, so the first
   indication of a modem that replaces another is suppressed when it says the
   same.
2. `ClaimProfileOnce`: a creation is compared with the list read last, which may
   be older than the profiles it should find.

Seen, and written into the models as the code has them, without a run of their
own: a slot that is READY when the machine is deactivated keeps it in
DEACTIVATED, and one still SELECTING makes a disabled machine bounce; a packet
status handled between the reset of a connection and its stop connects the
machine again with the link down; a start asked of a closed device is answered in
a form the callbacks ignore; open tasks that overlap leak a client; a profile with IPv6 alone is given a
client over one it still has; readings of two profile tasks mix in the one list
when a creation comes between them; a card that
changes between the status read and the connection of the handler goes unseen; a write of the enable flag that is refused, or crossed by an open
answer or another writer, leaves `X_RDK_Enable` and the flag apart; a
thread that misses its stop scans beside the next; a call for the signal that
another's crosses may wait for ever, the monitor's own among them, after which
no radio event is published; a list of technologies can be handed out while only
its beginning is written; an open task that fails before it has read the modem's
mode reports it online, which enables a disabled machine; the least interval of a parameter stays when
its subscriber leaves. Where a property excepts one of these, its comment says so.

## 7. Not modelled

`components` in `PROJECT.json` gives the reason for each part.

* HAL dispatch, RBUS registration, tables, process start-up, message bus and
  utilities: glue and I/O without a protocol of their own.
* Web configuration: the decoding of a blob is parsing, and the transaction
  belongs to the web-config library; what a blob changes, the enable flag, is
  in `EnableControl`.
* Factory reset (a command and a reboot), the evaluation of the radio signal, the
  getters that only copy or convert, logging and sysevents.
* In the HAL: the current-RAT getter, attach and detach, SIM power, UICC slots;
  of the operating-mode requests only the effect.
