--------------------------- MODULE BringUp_proofs ---------------------------
(***************************************************************************)
(* Theorems about BringUp, for any number of slots, tasks, messages and    *)
(* events.  Eight invariants are proved one after the other:               *)
(*   - RegistrationRemembered is inductive with the shape of `previous';   *)
(*   - OneClient needs that the one open task waits for a client only      *)
(*     while there is none;                                                *)
(*   - ReadySlotSelected needs that after a removal nothing of the slots   *)
(*     is under way until the device is detected again;                    *)
(*   - EnableAgrees needs that, unless something came between the two, one *)
(*     writer at most has set the flag, to the value it is about to keep;  *)
(*   - RegisteredIsWatched needs that whatever may make the state machine  *)
(*     believe in a registration comes while the serving system is watched,*)
(*     and that a belief older than a removal is dropped on the way up;    *)
(*   - RegistrationCurrent needs that a loss of the registration is seen   *)
(*     in an indication before it is seen in anything else (LossTold);     *)
(*   - SelectedHoldsCard needs that the last message about the slots shows *)
(*     them as they are (LastTold); both need that no task creates another *)
(*     device when one is open (OpeningInv);                               *)
(*   - OpenIsOwed needs that on a device not open some task is at the step *)
(*     that opens it, which never ends without a report (OwedInv).         *)
(* TypeCorrect, at the end, takes the types of clients, messages, cards    *)
(* and writers from these.                                                 *)
(***************************************************************************)
EXTENDS BringUp, FiniteSetTheorems, TLAPS

-----------------------------------------------------------------------------
(* The registration that is remembered                                     *)

RegInv == {"reg", "roam"} \subseteq DOMAIN previous /\ RegistrationRemembered

LEMMA RegInit == Init => RegInv
  BY DEF Init, RegInv, RegistrationRemembered

LEMMA RegMessage ==
    ASSUME RegInv, NEW m, ReadHandled(m) \/ IndicationHandled(m) PROVE RegInv'
  <1>1. CASE ReadHandled(m)
    BY <1>1 DEF ReadHandled, RegistrationStatusCB, RegInv, RegistrationRemembered
  <1>2. CASE IndicationHandled(m)
    <2>1. CASE previous' = previous
      BY <1>2, <2>1 DEF IndicationHandled, RegInv, RegistrationRemembered
    <2>2. CASE previous' # previous
      BY <1>2, <2>2 DEF IndicationHandled, RegistrationStatusCB, RegInv, RegistrationRemembered
    <2> QED
      BY <2>1, <2>2
  <1> QED
    BY <1>1, <1>2

LEMMA RegNext == ASSUME RegInv, [Next]_vars PROVE RegInv'
  <1>1. CASE UNCHANGED previous /\ (nas' # "REGISTERED" \/ UNCHANGED nas)
    BY <1>1 DEF RegInv, RegistrationRemembered
  <1>2. CASE Tick
    BY <1>1, <1>2
       DEF Tick, StateDown, StateDeactivated, StateDeregistered, StateRegistered, TransitionDown,
           TransitionDeactivated, MonitorRegistration, halVars, regVars
  <1>3. CASE OpenWorks \/ SlotWorks
    BY <1>1, <1>3 DEF OpenWorks, OpenAnswer, SlotWorks, SlotStep, regVars
  <1>4. CASE RegistrationWorks
    <2>1. CASE ReadAnswered \/ RetryRead
      BY <1>1, <2>1 DEF ReadAnswered, RetryRead, RegistrationStatusCB
    <2>2. CASE RegistrationMessage
      BY <2>2, RegMessage DEF RegistrationMessage
    <2> QED
      BY <1>4, <2>1, <2>2 DEF RegistrationWorks, RegistrationStep
  <1>5. CASE ReleaseClients \/ DeviceClosed
    BY <1>1, <1>5 DEF ReleaseClients, DeviceClosed, smVars, regVars
  <1>6. CASE Environment
    BY <1>1, <1>6
       DEF Environment, Unplug, Plug, CardChanges, NetworkChanges, SetsEnable, smVars, regVars
  <1>7. CASE UNCHANGED vars
    BY <1>1, <1>7 DEF vars, smVars, regVars
  <1> QED
    BY <1>2, <1>3, <1>4, <1>5, <1>6, <1>7 DEF Next

(* What the state machine takes for a registration is one that the HAL     *)
(* remembers, so that its loss is reported.                                *)
THEOREM RegistrationRememberedCorrect == Spec => []RegistrationRemembered
  BY RegInit, RegNext, PTL DEF Spec, RegInv

-----------------------------------------------------------------------------
(* One client of each service                                              *)

\* The services an open task asks a client of.
Asked == {"DMS", "WDS", "NAS"}

\* The clients of a device when no open task began beside another.
Single ==
    /\ \A t, u \in opens : t = u
    /\ \A s \in Services : alive[s] <= 1 /\ (alive[s] = 1 => valid[s])
    /\ \A t \in opens : t.step \in Asked => alive[t.step] = 0
    /\ "alloc" \in uimTasks => alive["UIM"] = 0
    /\ device = "closing" => \A s \in Services : alive[s] = 0

ClientType ==
    /\ alive \in [Services -> Nat] /\ valid \in [Services -> BOOLEAN] /\ overlaps \in Nat
    /\ \A t \in opens : {"step", "on", "ready", "online"} \subseteq DOMAIN t

ClientInv == ClientType /\ (overlaps = 0 => Single)

LEMMA ClientInit == Init => ClientInv
  BY DEF Init, ClientInv, ClientType, Single, Services

\* Open task t has become q, which waits for a client only when there is none.
Becomes(t, q) ==
    /\ opens' = (opens \ {t}) \cup {q}
    /\ {"step", "on", "ready", "online"} \subseteq DOMAIN q
    /\ q.step \in Asked => ~valid'[q.step]

Continues(t) == opens' = opens \ {t} \/ \E q : Becomes(t, q)

LEMMA WaitsContinues ==
    ASSUME NEW t, NEW u, {"step", "on", "ready", "online"} \subseteq DOMAIN u,
           NEW step, Waits(t, u, step), step \in Asked => ~valid'[step]
    PROVE  Continues(t)
  <1> DEFINE q == [u EXCEPT !.step = step,
                            !.on = IF step \in {"opening", "DMS", "WDS", "NAS"} THEN TRUE
                                   ELSE valid'["DMS"]]
  <1>1. opens' = (opens \ {t}) \cup {q}
    BY DEF Waits
  <1>2. {"step", "on", "ready", "online"} \subseteq DOMAIN q /\ q.step = step
    OBVIOUS
  <1> QED
    BY <1>1, <1>2 DEF Continues, Becomes

LEMMA StepsContinue ==
    ASSUME NEW t, NEW u, {"step", "on", "ready", "online"} \subseteq DOMAIN u,
           Notify(t, u) \/ FromNas(t, u) \/ FromWds(t, u) \/ FromDms(t, u)
    PROVE  Continues(t)
  <1>1. CASE Notify(t, u) \/ Dropped(t)
    BY <1>1 DEF Notify, Dropped, Continues
  <1>2. "revision" \notin Asked
    BY DEF Asked
  <1>3. CASE FromNas(t, u)
    BY <1>1, <1>3, WaitsContinues DEF FromNas, Asks
  <1>4. CASE FromWds(t, u)
    BY <1>1, <1>3, <1>4, WaitsContinues DEF FromWds, Asks
  <1>5. CASE FromDms(t, u)
    BY <1>1, <1>2, <1>5, WaitsContinues DEF FromDms, Asks
  <1> QED
    BY <1>1, <1>3, <1>4, <1>5

LEMMA AllocatedTypes ==
    ASSUME ClientType, NEW c \in Services, Allocated(c)
    PROVE  /\ alive' \in [Services -> Nat] /\ valid' \in [Services -> BOOLEAN]
           /\ alive'[c] = alive[c] + 1 /\ valid'[c]
           /\ \A s \in Services \ {c} : alive'[s] = alive[s] /\ valid'[s] = valid[s]
  <1>1. alive[c] \in Nat /\ alive[c] + 1 \in Nat
    BY DEF ClientType
  <1> QED
    BY <1>1 DEF ClientType, Allocated

LEMMA ClientTaskRest ==
    ASSUME ClientInv, NEW t \in opens, UNCHANGED <<overlaps, uimTasks>>,
           device' = "closing" => device = "closing",
           \/ UNCHANGED <<valid, alive>>
           \/ t.step \in Services \ {"UIM"} /\ Allocated(t.step),
           ClientType',
           \/ opens' = opens \ {t}
           \/ \E q : opens' = (opens \ {t}) \cup {q} /\ (q.step \in Asked => ~valid'[q.step])
    PROVE  ClientInv'
  <1> SUFFICES ASSUME overlaps = 0 PROVE Single'
    BY DEF ClientInv
  <1>1. ClientType /\ Single /\ opens = {t}
    BY DEF ClientInv, Single
  <1>2. ASSUME NEW s \in Services
        PROVE  /\ alive'[s] \in Nat /\ alive'[s] <= 1 /\ (alive'[s] = 1 => valid'[s])
               /\ s # t.step => alive'[s] = alive[s]
    <2>1. CASE UNCHANGED <<valid, alive>>
      BY <1>1, <2>1 DEF Single, ClientType
    <2>2. CASE t.step \in Services \ {"UIM"} /\ Allocated(t.step)
      <3>1. alive[t.step] = 0
        BY <1>1, <2>2 DEF Single, Asked, Services
      <3>2. CASE s = t.step
        BY <1>1, <2>2, <3>1, <3>2, AllocatedTypes
      <3>3. CASE s # t.step
        BY <1>1, <2>2, <3>3, AllocatedTypes DEF Single, ClientType
      <3> QED
        BY <3>2, <3>3
    <2> QED
      BY <2>1, <2>2
  <1>3. \A s \in Asked : ~valid'[s] => alive'[s] = 0
    <2>1. Asked \subseteq Services
      BY DEF Asked, Services
    <2> QED
      BY <1>2, <2>1
  <1>4. /\ \A q, u \in opens' : q = u
        /\ \A q \in opens' : q.step \in Asked => alive'[q.step] = 0
    <2>1. CASE opens' = opens \ {t}
      BY <1>1, <2>1
    <2>2. CASE opens' # opens \ {t}
      <3>1. PICK q : opens' = (opens \ {t}) \cup {q} /\ (q.step \in Asked => ~valid'[q.step])
        BY <2>2
      <3>2. opens' = {q}
        BY <1>1, <3>1
      <3> QED
        BY <1>3, <3>1, <3>2
    <2> QED
      BY <2>1, <2>2
  <1>5. alive'["UIM"] = alive["UIM"]
    <2>1. "UIM" \in Services
      BY DEF Services
    <2>2. CASE UNCHANGED <<valid, alive>>
      BY <2>2
    <2>3. CASE t.step \in Services \ {"UIM"} /\ Allocated(t.step)
      BY <1>2, <2>1, <2>3
    <2> QED
      BY <2>2, <2>3
  <1>6. device' = "closing" => \A s \in Services : alive'[s] = 0
    BY <1>1 DEF Single, Allocated
  <1>7. \A s \in Services : alive'[s] <= 1 /\ (alive'[s] = 1 => valid'[s])
    BY <1>2
  <1>8. "alloc" \in uimTasks' => alive'["UIM"] = 0
    BY <1>1, <1>5 DEF Single
  <1> QED
    BY <1>4, <1>6, <1>7, <1>8 DEF Single

\* A step of an open task that allocates nothing, or the client it waited for.
LEMMA ClientTask ==
    ASSUME ClientInv, NEW t \in opens, Continues(t), UNCHANGED <<overlaps, uimTasks>>,
           device' = "closing" => device = "closing",
           \/ UNCHANGED <<valid, alive>>
           \/ t.step \in Asked /\ Allocated(t.step)
    PROVE  ClientInv'
  <1>1. ClientType /\ (t.step \in Asked => t.step \in Services \ {"UIM"})
    BY DEF ClientInv, Asked, Services
  <1>2. alive' \in [Services -> Nat] /\ valid' \in [Services -> BOOLEAN]
    <2>1. CASE UNCHANGED <<valid, alive>>
      BY <1>1, <2>1 DEF ClientType
    <2>2. CASE t.step \in Asked /\ Allocated(t.step)
      BY <1>1, <2>2, AllocatedTypes
    <2> QED
      BY <2>1, <2>2
  <1>3. CASE opens' = opens \ {t}
    BY <1>1, <1>2, <1>3, ClientTaskRest DEF ClientType
  <1>4. CASE opens' # opens \ {t}
    <2>1. PICK q : Becomes(t, q)
      BY <1>4 DEF Continues
    <2> QED
      BY <1>1, <1>2, <2>1, ClientTaskRest DEF ClientType, Becomes
  <1> QED
    BY <1>3, <1>4

LEMMA ClientOpenAnswer ==
    ASSUME ClientInv, OpenAnswer, UNCHANGED uimTasks PROVE ClientInv'
  <1>1. PICK t \in opens :
          \/ DeviceNew(t) \/ DeviceOpened(t) \/ DmsAllocated(t) \/ RevisionRead(t)
          \/ VersionRead(t) \/ IdsRead(t) \/ ModeRead(t) \/ WdsAllocated(t) \/ NasAllocated(t)
    BY DEF OpenAnswer
  <1>2. {"step", "on", "ready", "online"} \subseteq DOMAIN t
    BY DEF ClientInv, ClientType
  <1>3. /\ \A b : {"step", "on", "ready", "online"} \subseteq DOMAIN [t EXCEPT !.ready = b]
        /\ \A b : {"step", "on", "ready", "online"} \subseteq DOMAIN [t EXCEPT !.online = b]
    BY <1>2
  <1>4. Asked \cap {"opening", "revision", "version", "ids", "mode"} = {}
    BY DEF Asked
  <1>5. UNCHANGED overlaps
    BY DEF OpenAnswer
  <1>6. CASE DeviceNew(t)
    <2>1. Continues(t)
      BY <1>2, <1>3, <1>4, <1>6, WaitsContinues, StepsContinue DEF DeviceNew
    <2> QED
      BY <1>5, <1>6, <2>1, ClientTask DEF DeviceNew
  <1>7. CASE DeviceOpened(t)
    <2>1. Continues(t)
      BY <1>3, <1>7, StepsContinue DEF DeviceOpened
    <2> QED
      BY <1>5, <1>7, <2>1, ClientTask DEF DeviceOpened
  <1>8. CASE DmsAllocated(t)
    <2>1. Continues(t)
      BY <1>2, <1>4, <1>8, WaitsContinues, StepsContinue DEF DmsAllocated
    <2> QED
      BY <1>5, <1>8, <2>1, ClientTask DEF DmsAllocated, Asked
  <1>9. CASE RevisionRead(t) \/ VersionRead(t) \/ IdsRead(t)
    <2>1. Continues(t)
      BY <1>2, <1>4, <1>9, WaitsContinues DEF RevisionRead, VersionRead, IdsRead
    <2> QED
      BY <1>5, <1>9, <2>1, ClientTask DEF RevisionRead, VersionRead, IdsRead
  <1>10. CASE ModeRead(t)
    <2>1. Continues(t)
      BY <1>3, <1>10, StepsContinue DEF ModeRead
    <2> QED
      BY <1>5, <1>10, <2>1, ClientTask DEF ModeRead
  <1>11. CASE WdsAllocated(t)
    <2>1. Continues(t)
      BY <1>2, <1>11, StepsContinue DEF WdsAllocated
    <2> QED
      BY <1>5, <1>11, <2>1, ClientTask DEF WdsAllocated, Asked
  <1>12. CASE NasAllocated(t)
    <2>1. Continues(t)
      BY <1>2, <1>12, StepsContinue DEF NasAllocated
    <2> QED
      BY <1>5, <1>12, <2>1, ClientTask DEF NasAllocated, Asked
  <1> QED
    BY <1>1, <1>6, <1>7, <1>8, <1>9, <1>10, <1>11, <1>12

\* An open task that is begun.
LEMMA ClientOpen ==
    ASSUME ClientInv, OpenDevice, UNCHANGED <<device, valid, alive, uimTasks>> PROVE ClientInv'
  <1>1. CASE UNCHANGED openVars
    BY <1>1 DEF openVars, ClientInv, ClientType, Single
  <1>2. CASE ~UNCHANGED openVars
    <2>1. PICK r : /\ opens' = opens \cup {r} /\ r.step = FirstStep
                   /\ {"step", "on", "ready", "online"} \subseteq DOMAIN r
      <3>1. PICK i \in 1..MaxTasks :
               opens' = opens \cup {[id |-> i, ready |-> IsOpen, online |-> TRUE, on |-> TRUE,
                                    step |-> FirstStep]}
        BY <1>2 DEF OpenDevice
      <3> DEFINE r == [id |-> i, ready |-> IsOpen, online |-> TRUE, on |-> TRUE, step |-> FirstStep]
      <3>2. {"step", "on", "ready", "online"} \subseteq DOMAIN r /\ r.step = FirstStep
        OBVIOUS
      <3> HIDE DEF r
      <3> QED
        BY <3>1, <3>2 DEF r
    <2>2. overlaps' = IF opens # {} THEN overlaps + 1 ELSE overlaps
      BY <1>2 DEF OpenDevice
    <2>3. ClientType'
      BY <2>1, <2>2 DEF ClientInv, ClientType
    <2> SUFFICES ASSUME overlaps' = 0 PROVE Single'
      BY <2>3 DEF ClientInv
    <2>4. overlaps = 0 /\ opens = {} /\ Single
      BY <2>2 DEF ClientInv, ClientType
    <2>5. FirstStep \in Asked => alive[FirstStep] = 0
      BY <2>4 DEF FirstStep, Asked, Services, Single, ClientInv, ClientType
    <2>6. /\ \A t, u \in opens' : t = u
          /\ \A t \in opens' : t.step \in Asked => alive'[t.step] = 0
      BY <2>1, <2>4, <2>5
    <2> QED
      BY <2>4, <2>6 DEF Single
  <1> QED
    BY <1>1, <1>2

\* A request for the slot's client is made when there is none.
LEMMA ClientSelect ==
    ASSUME ClientInv, SelectDeviceSlot, UNCHANGED <<device, valid, alive, openVars>> PROVE ClientInv'
  <1>1. "alloc" \in uimTasks' => "alloc" \in uimTasks \/ ~valid["UIM"]
    BY DEF SelectDeviceSlot, slotVars
  <1> QED
    BY <1>1 DEF openVars, ClientInv, ClientType, Single, Services

LEMMA ClientTick == ASSUME ClientInv, Tick PROVE ClientInv'
  <1>1. CASE UNCHANGED <<device, valid, alive, openVars, uimTasks>>
    BY <1>1 DEF openVars, ClientInv, ClientType, Single
  <1>2. CASE TransitionDown
    BY <1>1, <1>2 DEF TransitionDown, halVars, deviceVars, slotVars
  <1>3. CASE TransitionDeactivated
    BY <1>3, ClientOpen DEF TransitionDeactivated, deviceVars, slotVars
  <1>4. CASE StateDown
    BY <1>1, <1>3, <1>4 DEF StateDown, halVars, deviceVars, slotVars
  <1>5. CASE StateDeactivated
    BY <1>1, <1>2, <1>5, ClientSelect DEF StateDeactivated, halVars, deviceVars, slotVars
  <1>6. CASE StateDeregistered
    BY <1>1, <1>2, <1>3, <1>6 DEF StateDeregistered, halVars, deviceVars, slotVars
  <1>7. CASE StateRegistered
    BY <1>1, <1>2, <1>3, <1>7 DEF StateRegistered, halVars, deviceVars, slotVars
  <1> QED
    BY <1>4, <1>5, <1>6, <1>7 DEF Tick

LEMMA ClientSlot == ASSUME ClientInv, SlotWorks PROVE ClientInv'
  <1> USE DEF ClientInv, ClientType, Single, openVars, deviceVars
  <1>1. UNCHANGED <<openVars, device>>
    BY DEF SlotWorks, SlotStep, UimAllocated, SlotStatusAnswered, SlotEventsRegistered, SlotMessage
  <1>2. CASE UNCHANGED <<valid, alive>> /\ ("alloc" \in uimTasks' => "alloc" \in uimTasks)
    BY <1>1, <1>2
  <1>3. CASE "alloc" \in uimTasks /\ Allocated("UIM") /\ "alloc" \notin uimTasks'
    <2>1. "UIM" \in Services
      BY DEF Services
    <2>2. /\ alive' \in [Services -> Nat] /\ valid' \in [Services -> BOOLEAN]
          /\ alive'["UIM"] = alive["UIM"] + 1 /\ valid'["UIM"]
          /\ \A s \in Services \ {"UIM"} : alive'[s] = alive[s] /\ valid'[s] = valid[s]
      BY <1>3, <2>1, AllocatedTypes
    <2>3. \A s \in Asked : s \in Services /\ s # "UIM"
      BY DEF Asked, Services
    <2>4. device # "closing"
      BY <1>3 DEF Allocated
    <2> QED
      BY <1>1, <1>3, <2>1, <2>2, <2>3, <2>4
  <1> QED
    BY <1>2, <1>3
       DEF SlotWorks, SlotStep, UimAllocated, SlotStatusAnswered, SlotEventsRegistered, SlotMessage

\* The requests a removal aborts; the clients are gone, or are left alone.
LEMMA ClientAborted ==
    ASSUME ClientInv, AbortRequests, UNCHANGED overlaps,
           alive' \in [Services -> Nat] /\ valid' \in [Services -> BOOLEAN],
           overlaps = 0 => \A s \in Services : alive'[s] = 0
    PROVE  ClientInv'
  <1>1. ASSUME NEW t \in opens
        PROVE  /\ {"step", "on", "ready", "online"} \subseteq DOMAIN [t EXCEPT !.on = FALSE]
               /\ [t EXCEPT !.on = FALSE].step = t.step
    BY DEF ClientInv, ClientType
  <1>2. ClientType'
    BY <1>1 DEF AbortRequests, ClientInv, ClientType
  <1> SUFFICES ASSUME overlaps = 0 PROVE Single'
    BY <1>2 DEF ClientInv
  <1>3. ASSUME NEW x \in opens', NEW y \in opens' PROVE x = y
    <2>1. PICK t \in opens : x = [t EXCEPT !.on = FALSE]
      BY DEF AbortRequests
    <2>2. PICK u \in opens : y = [u EXCEPT !.on = FALSE]
      BY DEF AbortRequests
    <2>3. t = u
      BY DEF ClientInv, Single
    <2> QED
      BY <2>1, <2>2, <2>3
  <1>4. \A s \in Asked \cup {"UIM"} : alive'[s] = 0
    BY DEF Asked, Services
  <1> QED
    BY <1>3, <1>4 DEF Single

LEMMA ClientNext == ASSUME ClientInv, [Next]_vars PROVE ClientInv'
  <1>1. CASE UNCHANGED <<valid, alive, openVars, uimTasks>> /\ (device' = device \/ device' = "gone")
    BY <1>1 DEF openVars, ClientInv, ClientType, Single
  <1>2. CASE OpenWorks
    BY <1>2, ClientOpenAnswer DEF OpenWorks, slotVars
  <1>3. CASE RegistrationWorks
    BY <1>1, <1>3 DEF RegistrationWorks, RegistrationStep, deviceVars, slotVars
  <1>4. CASE ReleaseClients
    <2>1. /\ alive' = [s \in Services |-> 0] /\ valid' = [s \in Services |-> FALSE]
          /\ UNCHANGED overlaps /\ AbortRequests
      BY <1>4 DEF ReleaseClients
    <2> QED
      BY <2>1, ClientAborted
  <1>5. CASE DeviceClosed
    <2>1. /\ UNCHANGED <<alive, overlaps>> /\ valid' = [s \in Services |-> FALSE]
          /\ device = "closing" /\ AbortRequests
      BY <1>5 DEF DeviceClosed
    <2>2. overlaps = 0 => \A s \in Services : alive'[s] = 0
      BY <2>1 DEF ClientInv, Single
    <2> QED
      BY <2>1, <2>2, ClientAborted DEF ClientInv, ClientType
  <1>6. CASE Environment
    BY <1>1, <1>6
       DEF Environment, Unplug, Plug, CardChanges, NetworkChanges, SetsEnable, deviceVars, slotVars
  <1>7. CASE UNCHANGED vars
    BY <1>1, <1>7 DEF vars, deviceVars, slotVars
  <1> QED
    BY <1>2, <1>3, <1>4, <1>5, <1>6, <1>7, ClientTick, ClientSlot DEF Next

(* No client is allocated beside another of its service, as long as no     *)
(* open task begins while another is outstanding.                          *)
THEOREM OneClientCorrect == Spec => []OneClient
  <1>1. ClientInv => OneClient
    BY DEF ClientInv, Single, OneClient
  <1> QED
    BY <1>1, ClientInit, ClientNext, PTL DEF Spec

-----------------------------------------------------------------------------
(* The slot that is ready                                                  *)

\* Nothing of the slots will reach the state machine any more.
Quiet ==
    /\ ~slotHandler /\ uimTasks \cap {"status", "events"} = {}
    /\ \A i \in 1..Len(inbox) : inbox[i].kind # "slots"

SlotInv ==
    /\ inbox \in Seq(SlotMessages \cup NetworkMessages)
    /\ cards \subseteq Slots /\ network \in Networks
    /\ ReadySlotSelected
    /\ state = "DOWN" => ~detected /\ slot # "READY"
    /\ ~detected => Quiet /\ "alloc" \notin uimTasks
    /\ device = "closing" => Quiet

LEMMA SlotInit == Init => SlotInv
  BY RegistrationsAssumption
     DEF Init, SlotInv, Networks, ReadySlotSelected, Quiet, RegistrationsAssumption

\* Messages that are no slot status leave the inbox as quiet as it was.
LEMMA Arriving ==
    ASSUME inbox \in Seq(SlotMessages \cup NetworkMessages),
           NEW m \in SlotMessages \cup NetworkMessages, Arrives(m)
    PROVE  /\ inbox' \in Seq(SlotMessages \cup NetworkMessages)
           /\ m \in NetworkMessages /\ (\A i \in 1..Len(inbox) : inbox[i].kind # "slots")
              => \A i \in 1..Len(inbox') : inbox'[i].kind # "slots"
  <1>1. m \in NetworkMessages => m.kind # "slots"
    BY DEF NetworkMessages
  <1> QED
    BY <1>1 DEF Arrives

LEMMA Leaving ==
    ASSUME inbox \in Seq(SlotMessages \cup NetworkMessages), inbox # <<>>, inbox' = Tail(inbox)
    PROVE  /\ Head(inbox) \in SlotMessages \cup NetworkMessages
           /\ inbox' \in Seq(SlotMessages \cup NetworkMessages)
           /\ (\A i \in 1..Len(inbox) : inbox[i].kind # "slots")
              => /\ Head(inbox).kind # "slots"
                 /\ \A i \in 1..Len(inbox') : inbox'[i].kind # "slots"
  OBVIOUS

\* Steps that leave the slots and the messages alone.
LEMMA SlotKept ==
    ASSUME SlotInv, UNCHANGED <<inbox, cards, network, selected, slotHandler>>,
           uimTasks' \subseteq uimTasks,
           slot' = slot \/ slot' # "READY",
           detected' = detected \/ (detected' = TRUE /\ slot # "READY" /\ state' # "DOWN"),
           state' = "DOWN" => ~detected' /\ slot' # "READY",
           device' = "closing" => device = "closing"
    PROVE  SlotInv'
  BY DEF SlotInv, ReadySlotSelected, Quiet

LEMMA SlotTick == ASSUME SlotInv, Tick PROVE SlotInv'
  <1> USE DEF halVars, deviceVars, loopVars, slotVars, restVars
  <1>1. UNCHANGED <<device, inbox, cards, network, selected, slotHandler>>
    BY DEF Tick, StateDown, StateDeactivated, StateDeregistered, StateRegistered, TransitionDown,
           TransitionDeactivated, MonitorRegistration, SelectDeviceSlot
  <1>2. CASE StateDown
    <2>1. state = "DOWN" /\ slot # "READY" /\ UNCHANGED <<slot, uimTasks>>
      BY <1>2 DEF StateDown, TransitionDeactivated, SlotInv
    <2>2. /\ state' = "DOWN" => ~detected'
          /\ detected' => state' # "DOWN"
      BY <1>2 DEF StateDown, TransitionDeactivated
    <2> QED
      BY <1>1, <2>1, <2>2 DEF SlotInv, ReadySlotSelected, Quiet
  <1>3. CASE /\ UNCHANGED <<detected, uimTasks>> /\ (slot' = slot \/ slot' # "READY")
             /\ state' = "DOWN" => ~detected' /\ slot' # "READY"
    BY <1>1, <1>3, SlotKept
  <1>4. CASE StateDeactivated
    <2>1. CASE /\ detected /\ SelectDeviceSlot /\ UNCHANGED detected /\ state = "DEACTIVATED"
               /\ state' \in {"DEACTIVATED", "DEREGISTERED"}
      <3>1. slot' = "READY" => selected' # 0
        BY <2>1 DEF SelectDeviceSlot
      <3>2. Quiet => Quiet'
        BY <1>1, <2>1 DEF Quiet, SelectDeviceSlot
      <3> QED
        BY <1>1, <2>1, <3>1, <3>2 DEF SlotInv, ReadySlotSelected
    <2> QED
      BY <1>3, <1>4, <2>1 DEF StateDeactivated, TransitionDown
  <1>5. CASE StateDeregistered \/ StateRegistered
    BY <1>3, <1>5
       DEF StateDeregistered, StateRegistered, TransitionDown, TransitionDeactivated
  <1> QED
    BY <1>2, <1>4, <1>5 DEF Tick

LEMMA SlotTask == ASSUME SlotInv, SlotWorks PROVE SlotInv'
  <1> USE DEF deviceVars, loopVars
  <1>1. UNCHANGED <<state, detected, device, cards, network>>
    BY DEF SlotWorks, SlotStep, UimAllocated, SlotStatusAnswered, SlotEventsRegistered, SlotMessage
  <1>2. CASE UimAllocated
    <2>1. CASE "alloc" \in uimTasks /\ Allocated("UIM") /\ UNCHANGED slot
      BY <1>1, <1>2, <2>1 DEF UimAllocated, Allocated, SlotInv, ReadySlotSelected, Quiet
    <2>2. CASE slot' = "NOT_READY" /\ uimTasks' \subseteq uimTasks
      BY <1>1, <1>2, <2>2 DEF UimAllocated, SlotInv, ReadySlotSelected, Quiet
    <2> QED
      BY <1>2, <2>1, <2>2 DEF UimAllocated, SlotStatusCB
  <1>3. CASE SlotStatusAnswered
    <2>1. ~Quiet /\ detected
      BY <1>3 DEF SlotStatusAnswered, Quiet, SlotInv
    <2>2. [kind |-> "slots", cards |-> cards] \in SlotMessages \cup NetworkMessages
      BY DEF SlotMessages, SlotInv
    <2>3. inbox' \in Seq(SlotMessages \cup NetworkMessages)
      BY <1>3, <2>2, Arriving DEF SlotStatusAnswered, SlotInv
    <2> QED
      BY <1>1, <1>3, <2>1, <2>3 DEF SlotStatusAnswered, SlotInv, ReadySlotSelected
  <1>4. CASE SlotEventsRegistered
    BY <1>1, <1>4 DEF SlotEventsRegistered, LoopRuns, SlotInv, ReadySlotSelected, Quiet
  <1>5. CASE SlotMessage
    <2>1. /\ inbox # <<>> /\ inbox' = Tail(inbox) /\ Head(inbox).kind = "slots"
          /\ SelectSlotAndNotify(Head(inbox).cards) /\ device # "closing"
      BY <1>5 DEF SlotMessage, LoopRuns
    <2>2. /\ Head(inbox) \in SlotMessages /\ ~Quiet
          /\ inbox' \in Seq(SlotMessages \cup NetworkMessages)
      BY <2>1, Leaving DEF SlotInv, NetworkMessages, Quiet
    <2>3. detected /\ state # "DOWN"
      BY <2>2 DEF SlotInv
    <2>4. \A i \in Head(inbox).cards : i # 0
      BY <2>2 DEF SlotMessages, Slots
    <2>5. slot' = "READY" => selected' # 0 \/ ~detected
      BY <2>1, <2>4 DEF SelectSlotAndNotify, Chooses, SlotStatusCB, SlotInv, ReadySlotSelected
    <2> QED
      BY <1>1, <1>5, <2>1, <2>2, <2>3, <2>5 DEF SlotInv, ReadySlotSelected
  <1> QED
    BY <1>2, <1>3, <1>4, <1>5 DEF SlotWorks, SlotStep

LEMMA SlotRegistration == ASSUME SlotInv, RegistrationWorks PROVE SlotInv'
  <1>1. UNCHANGED <<device, state, detected, slot, cards, network, selected, slotHandler, uimTasks>>
    BY DEF RegistrationWorks, RegistrationStep, deviceVars, slotVars
  <1>2. CASE UNCHANGED inbox
    BY <1>1, <1>2, SlotKept DEF SlotInv
  <1>3. CASE /\ inbox' \in Seq(SlotMessages \cup NetworkMessages)
             /\ (\A i \in 1..Len(inbox) : inbox[i].kind # "slots")
                => \A i \in 1..Len(inbox') : inbox'[i].kind # "slots"
    BY <1>1, <1>3 DEF SlotInv, ReadySlotSelected, Quiet
  <1>4. CASE ReadAnswered
    <2>1. [kind |-> "read", reg |-> network.reg, roam |-> network.roam] \in NetworkMessages
      BY DEF SlotInv, Networks, NetworkMessages
    <2> QED
      BY <1>2, <1>3, <1>4, <2>1, Arriving DEF ReadAnswered, SlotInv
  <1>5. CASE RegistrationMessage
    BY <1>3, <1>5, Leaving DEF RegistrationMessage, SlotInv
  <1>6. CASE RetryRead
    BY <1>2, <1>6 DEF RetryRead
  <1> QED
    BY <1>4, <1>5, <1>6 DEF RegistrationWorks, RegistrationStep

\* After the clients are released, nothing is left but what was aborted.
LEMMA SlotRemoval == ASSUME SlotInv, ReleaseClients \/ DeviceClosed PROVE SlotInv'
  <1>1. uimTasks' \subseteq {"aborted"}
    BY DEF ReleaseClients, DeviceClosed, AbortRequests
  <1>2. CASE ReleaseClients
    <2>1. Quiet'
      BY <1>1, <1>2 DEF ReleaseClients, Quiet
    <2> QED
      BY <1>1, <1>2, <2>1 DEF ReleaseClients, smVars, restVars, SlotInv, ReadySlotSelected
  <1>3. CASE DeviceClosed
    <2>1. Quiet'
      BY <1>1, <1>3 DEF DeviceClosed, SlotInv, Quiet, loopVars
    <2> QED
      BY <1>1, <1>3, <2>1 DEF DeviceClosed, SlotInv, ReadySlotSelected, loopVars
  <1> QED
    BY <1>2, <1>3

LEMMA SlotEnvironment == ASSUME SlotInv, Environment PROVE SlotInv'
  <1> USE DEF smVars, loopVars, slotVars, restVars, deviceVars
  <1>1. /\ UNCHANGED <<state, detected, slot, selected, slotHandler, uimTasks>>
        /\ device' = "closing" => device = "closing"
    BY DEF Environment, Unplug, Plug, CardChanges, NetworkChanges, SetsEnable
  <1>2. CASE Unplug \/ Plug \/ \E w \in Writers : SetsEnable(w)
    <2>1. UNCHANGED <<inbox, cards>> /\ network' \in {network, [reg |-> "none", roam |-> FALSE]}
      BY <1>2 DEF Unplug, Plug, SetsEnable
    <2>2. network' \in Networks
      <3>1. [reg |-> "none", roam |-> FALSE] \in Networks
        BY RegistrationsAssumption DEF Networks, RegistrationsAssumption
      <3>2. network \in Networks
        BY DEF SlotInv
      <3> QED
        BY <2>1, <3>1, <3>2
    <2> QED
      BY <1>1, <2>1, <2>2 DEF SlotInv, ReadySlotSelected, Quiet
  <1>3. ASSUME NEW s \in Slots, CardChanges(s) PROVE SlotInv'
    <2>1. cards' \subseteq Slots /\ UNCHANGED network
      BY <1>3 DEF CardChanges, SlotInv
    <2>2. CASE slotHandler
      <3>1. ~Quiet
        BY <2>2 DEF Quiet
      <3>2. [kind |-> "slots", cards |-> cards'] \in SlotMessages \cup NetworkMessages
        BY <2>1 DEF SlotMessages
      <3>3. inbox' \in Seq(SlotMessages \cup NetworkMessages)
        BY <1>3, <3>2, Arriving DEF CardChanges, SlotInv
      <3> QED
        BY <1>1, <2>1, <3>1, <3>3 DEF SlotInv, ReadySlotSelected
    <2>3. CASE ~slotHandler
      <3>1. UNCHANGED inbox
        BY <1>3, <2>3 DEF CardChanges
      <3> QED
        BY <1>1, <2>1, <3>1 DEF SlotInv, ReadySlotSelected, Quiet
    <2> QED
      BY <2>2, <2>3
  <1>4. ASSUME NEW n \in Networks, NetworkChanges(n) PROVE SlotInv'
    <2>1. network' \in Networks /\ UNCHANGED cards
      BY <1>4 DEF NetworkChanges
    <2>2. [kind |-> "serving", reg |-> n.reg, roam |-> n.roam] \in NetworkMessages
      BY DEF Networks, NetworkMessages
    <2>3. /\ inbox' \in Seq(SlotMessages \cup NetworkMessages)
          /\ (\A i \in 1..Len(inbox) : inbox[i].kind # "slots")
             => \A i \in 1..Len(inbox') : inbox'[i].kind # "slots"
      BY <1>4, <2>2, Arriving DEF NetworkChanges, SlotInv
    <2> QED
      BY <1>1, <2>1, <2>3 DEF SlotInv, ReadySlotSelected, Quiet
  <1> QED
    BY <1>2, <1>3, <1>4 DEF Environment

LEMMA SlotNext == ASSUME SlotInv, [Next]_vars PROVE SlotInv'
  <1>1. CASE OpenWorks
    <2>1. /\ UNCHANGED <<state, detected, slot, inbox, cards, network, selected, slotHandler, uimTasks>>
          /\ device' = "closing" => device = "closing"
      BY <1>1 DEF OpenWorks, OpenAnswer, slotVars, restVars, DeviceNew, DeviceOpened, DmsAllocated,
                 RevisionRead, VersionRead, IdsRead, ModeRead, WdsAllocated, NasAllocated
    <2> QED
      BY <2>1, SlotKept DEF SlotInv
  <1>2. CASE UNCHANGED vars
    BY <1>2, SlotKept DEF vars, smVars, deviceVars, loopVars, slotVars, SlotInv
  <1> QED
    BY <1>1, <1>2, SlotTick, SlotTask, SlotRegistration, SlotRemoval, SlotEnvironment DEF Next

(* A slot is held for ready only while the HAL has one selected, or the    *)
(* removal that took it has been announced.                                *)
THEOREM ReadySlotSelectedCorrect == Spec => []ReadySlotSelected
  BY SlotInit, SlotNext, PTL DEF Spec, SlotInv

-----------------------------------------------------------------------------
(* The two values of the enable flag                                       *)

Flagged == {w \in Writers : write[w].step = "flagged"}

EnableInv ==
    /\ write \in [Writers -> Writes]
    /\ ~apart =>
         /\ \A w, u \in Flagged : w = u
         /\ \A w \in Flagged : write[w].value = enable
         /\ EnableAgrees

LEMMA EnableInit == Init => EnableInv
  <1> SUFFICES ASSUME Init PROVE EnableInv
    OBVIOUS
  <1>1. managed = enable
    BY DEF Init, ControlInit
  <1>2. write \in [Writers -> Writes] /\ Flagged = {}
    BY DEF Init, ControlInit, NoWrite, Writes, Flagged
  <1> QED
    BY <1>1, <1>2 DEF EnableInv, EnableAgrees

\* An open task that goes on, or reports the mode.
LEMMA EnableOpen ==
    ASSUME OpenAnswer PROVE UNCHANGED enableVars \/ \E m : ModeReported(m)
  <1>1. PICK t \in opens :
          \/ DeviceNew(t) \/ DeviceOpened(t) \/ DmsAllocated(t) \/ RevisionRead(t)
          \/ VersionRead(t) \/ IdsRead(t) \/ ModeRead(t) \/ WdsAllocated(t) \/ NasAllocated(t)
    BY DEF OpenAnswer
  <1>2. \A u, step : Waits(t, u, step) => UNCHANGED enableVars
    BY DEF Waits
  <1>3. \A u : Notify(t, u) => \E m : ModeReported(m)
    BY DEF Notify, OpenStatusCB
  <1>4. \A u, q : Asks(t, u, q) => UNCHANGED enableVars
    BY <1>2 DEF Asks, Dropped
  <1>5. \A u : FromNas(t, u) => UNCHANGED enableVars \/ \E m : ModeReported(m)
    BY <1>3, <1>4 DEF FromNas
  <1>6. \A u : FromWds(t, u) => UNCHANGED enableVars \/ \E m : ModeReported(m)
    BY <1>4, <1>5 DEF FromWds
  <1>7. \A u : FromDms(t, u) => UNCHANGED enableVars \/ \E m : ModeReported(m)
    BY <1>2, <1>4 DEF FromDms
  <1>8. CASE DeviceNew(t) \/ DeviceOpened(t) \/ DmsAllocated(t)
    BY <1>2, <1>3, <1>7, <1>8 DEF DeviceNew, DeviceOpened, DmsAllocated
  <1>9. CASE RevisionRead(t) \/ VersionRead(t) \/ IdsRead(t)
    BY <1>2, <1>9 DEF RevisionRead, VersionRead, IdsRead
  <1>10. CASE ModeRead(t) \/ WdsAllocated(t) \/ NasAllocated(t)
    BY <1>3, <1>5, <1>6, <1>10 DEF ModeRead, WdsAllocated, NasAllocated
  <1> QED
    BY <1>1, <1>8, <1>9, <1>10

\* A step of a writer.
LEMMA EnableWrites ==
    ASSUME EnableInv, NEW w \in Writers, SetsEnable(w) PROVE EnableInv'
  <1> USE DEF EnableInv, EnableAgrees, Flagged, HalfWritten
  <1>1. ASSUME NEW v \in BOOLEAN, Checks(w, v) PROVE EnableInv'
    <2>1. write' \in [Writers -> Writes]
      BY <1>1 DEF Checks, Writes
    <2>2. Flagged' = Flagged /\ \A u \in Flagged : write'[u] = write[u]
      BY <1>1 DEF Checks, Writes
    <2> QED
      BY <1>1, <2>1, <2>2 DEF Checks
  <1>2. CASE Flags(w)
    <2>1. /\ write' \in [Writers -> Writes]
          /\ write'[w].step = "flagged" /\ write'[w].value = write[w].value
          /\ \A u \in Writers \ {w} : write'[u] = write[u]
      BY <1>2 DEF Flags, Writes
    <2>2. Flagged' = Flagged \cup {w}
      BY <2>1
    <2> QED
      BY <1>2, <2>1, <2>2 DEF Flags
  <1>3. CASE Finishes(w)
    <2>1. /\ write' \in [Writers -> Writes]
          /\ write'[w].step = "none" /\ \A u \in Writers \ {w} : write'[u] = write[u]
      BY <1>3 DEF Finishes, Writes, NoWrite
    <2>2. Flagged' = Flagged \ {w} /\ w \in Flagged
      BY <1>3, <2>1 DEF Finishes
    <2> QED
      BY <1>3, <2>1, <2>2 DEF Finishes
  <1> QED
    BY <1>1, <1>2, <1>3 DEF SetsEnable

LEMMA EnableNext == ASSUME EnableInv, [Next]_vars PROVE EnableInv'
  <1>1. CASE UNCHANGED enableVars
    BY <1>1 DEF enableVars, controlVars, EnableInv, EnableAgrees, Flagged, HalfWritten
  <1>2. ASSUME NEW m, ModeReported(m) PROVE EnableInv'
    BY <1>2 DEF ModeReported, EnableInv, EnableAgrees, Flagged, HalfWritten
  <1>3. CASE Tick
    <2>1. OpenDevice => UNCHANGED enableVars \/ \E m : ModeReported(m)
      BY DEF OpenDevice, OpenStatusCB
    <2> QED
      BY <1>1, <1>2, <1>3, <2>1
         DEF Tick, StateDown, StateDeactivated, StateDeregistered, StateRegistered,
             TransitionDown, TransitionDeactivated
  <1>4. CASE OpenWorks
    BY <1>1, <1>2, <1>4, EnableOpen DEF OpenWorks
  <1>5. CASE SlotWorks \/ RegistrationWorks
    BY <1>1, <1>5 DEF SlotWorks, SlotStep, RegistrationWorks, RegistrationStep, enableVars
  <1>6. CASE ReleaseClients \/ DeviceClosed
    BY <1>1, <1>6 DEF ReleaseClients, DeviceClosed, smVars
  <1>7. CASE Environment
    BY <1>1, <1>7, EnableWrites DEF Environment, Unplug, Plug, CardChanges, NetworkChanges, smVars
  <1>8. CASE UNCHANGED vars
    BY <1>1, <1>8 DEF vars, smVars
  <1> QED
    BY <1>3, <1>4, <1>5, <1>6, <1>7, <1>8 DEF Next

(* For any number of writers, X_RDK_Enable shows what the state machine    *)
(* acts on, unless a refusal, another writer or an open task came between. *)
THEOREM EnableAgreesCorrect == Spec => []EnableAgrees
  <1>1. EnableInv => EnableAgrees
    BY DEF EnableInv, EnableAgrees
  <1> QED
    BY <1>1, EnableInit, EnableNext, PTL DEF Spec

-----------------------------------------------------------------------------
(* The watch on the serving system                                         *)

Messages == SlotMessages \cup NetworkMessages

\* The places of the messages about the registration.
News == {i \in 1..Len(inbox) : inbox[i].kind # "slots"}

WatchInv ==
    /\ News # {} \/ reads > 0 \/ asleep => serving
    /\ detected /\ nas = "REGISTERED" =>
         \/ serving \/ device = "closing"
         \/ state = "DEACTIVATED" /\ slot # "SELECTING"
    /\ state = "DOWN" => slot # "SELECTING"
    /\ RegisteredIsWatched

LEMMA WatchInit == Init => WatchInv
  BY DEF Init, WatchInv, News, RegisteredIsWatched

LEMMA NewsArrive ==
    ASSUME inbox \in Seq(Messages), NEW m \in Messages, Arrives(m), News' # {}
    PROVE  News # {} \/ m.kind # "slots"
  <1>1. PICK i \in 1..Len(inbox') : inbox'[i].kind # "slots"
    BY DEF News
  <1>2. CASE i = Len(inbox) + 1
    BY <1>1, <1>2 DEF Arrives
  <1>3. CASE i # Len(inbox) + 1
    <2>1. i \in 1..Len(inbox) /\ inbox'[i] = inbox[i]
      BY <1>3 DEF Arrives
    <2> QED
      BY <1>1, <2>1 DEF News
  <1> QED
    BY <1>2, <1>3

LEMMA NewsLeave ==
    ASSUME inbox \in Seq(Messages), inbox # <<>>, inbox' = Tail(inbox)
    PROVE  News' # {} \/ Head(inbox).kind # "slots" => News # {}
  <1>1. CASE Head(inbox).kind # "slots"
    <2>1. 1 \in 1..Len(inbox) /\ inbox[1] = Head(inbox)
      OBVIOUS
    <2> QED
      BY <1>1, <2>1 DEF News
  <1>2. CASE News' # {}
    <2>1. PICK i \in 1..Len(inbox') : inbox'[i].kind # "slots"
      BY <1>2 DEF News
    <2>2. i + 1 \in 1..Len(inbox) /\ inbox[i + 1] = inbox'[i]
      OBVIOUS
    <2> QED
      BY <2>1, <2>2 DEF News
  <1> QED
    BY <1>1, <1>2

\* Steps that leave the registration alone.
LEMMA WatchKept ==
    ASSUME WatchInv, UNCHANGED <<state, detected, nas, serving, reads, asleep>>,
           News' # {} => News # {}, slot' = slot \/ slot' # "SELECTING",
           device = "closing" => device' = "closing"
    PROVE  WatchInv'
  BY DEF WatchInv, RegisteredIsWatched

LEMMA WatchTick == ASSUME WatchInv, Tick PROVE WatchInv'
  <1> USE DEF halVars, deviceVars, loopVars, regVars, restVars
  <1>1. UNCHANGED <<device, inbox, asleep>> /\ News' = News
    BY DEF News, Tick, StateDown, StateDeactivated, StateDeregistered, StateRegistered, TransitionDown,
           TransitionDeactivated, MonitorRegistration, SelectDeviceSlot
  <1> USE DEF WatchInv, RegisteredIsWatched
  <1>2. CASE StateDown
    BY <1>1, <1>2 DEF StateDown, TransitionDeactivated
  <1>3. CASE StateDeactivated
    BY <1>1, <1>3 DEF StateDeactivated, TransitionDown, SelectDeviceSlot
  <1>4. CASE StateDeregistered
    <2>1. CASE detected /\ MonitorRegistration /\ UNCHANGED <<state, slot, detected>> /\ state = "DEREGISTERED"
      BY <1>1, <2>1 DEF MonitorRegistration
    <2> QED
      BY <1>1, <1>4, <2>1 DEF StateDeregistered, TransitionDown, TransitionDeactivated
  <1>5. CASE StateRegistered
    BY <1>1, <1>5 DEF StateRegistered, TransitionDown, TransitionDeactivated
  <1> QED
    BY <1>2, <1>3, <1>4, <1>5 DEF Tick

LEMMA WatchTask ==
    ASSUME WatchInv, inbox \in Seq(Messages), cards \subseteq Slots, network \in Networks,
           OpenWorks \/ SlotWorks \/ RegistrationWorks
    PROVE  WatchInv'
  <1> USE DEF deviceVars, loopVars, slotVars, regVars, restVars
  <1>1. CASE OpenWorks
    <2>1. UNCHANGED <<state, detected, nas, slot, serving, reads, asleep, inbox>> /\ device # "closing"
      BY <1>1 DEF OpenWorks, OpenAnswer, LoopRuns
    <2> QED
      BY <2>1, WatchKept DEF News
  <1>2. CASE SlotWorks
    <2>1. UNCHANGED <<state, detected, nas, serving, reads, asleep, device>>
      BY <1>2 DEF SlotWorks, SlotStep, UimAllocated, SlotStatusAnswered, SlotEventsRegistered, SlotMessage
    <2>2. slot' = slot \/ slot' # "SELECTING"
      BY <1>2 DEF SlotWorks, SlotStep, UimAllocated, SlotStatusAnswered, SlotEventsRegistered, SlotMessage,
                 SelectSlotAndNotify, SlotStatusCB
    <2>3. News' # {} => News # {}
      <3>1. [kind |-> "slots", cards |-> cards] \in Messages
        BY DEF SlotMessages, Messages
      <3>2. CASE SlotStatusAnswered
        BY <3>1, <3>2, NewsArrive DEF SlotStatusAnswered, News
      <3>3. CASE SlotMessage
        BY <3>3, NewsLeave DEF SlotMessage
      <3> QED
        BY <1>2, <3>2, <3>3 DEF SlotWorks, SlotStep, UimAllocated, SlotEventsRegistered, News
    <2> QED
      BY <2>1, <2>2, <2>3, WatchKept
  <1>3. CASE RegistrationWorks
    <2>1. UNCHANGED <<state, detected, slot, device>>
      BY <1>3 DEF RegistrationWorks, RegistrationStep
    <2>2. CASE ReadAnswered
      <3>1. /\ UNCHANGED <<serving, asleep>> /\ (nas' # "REGISTERED" \/ UNCHANGED nas)
            /\ reads' > 0 => reads > 0
        BY <2>2 DEF ReadAnswered, RegistrationStatusCB
      <3>2. News' # {} => News # {} \/ reads > 0
        <4>1. [kind |-> "read", reg |-> network.reg, roam |-> network.roam] \in Messages
          BY DEF Networks, NetworkMessages, Messages
        <4> QED
          BY <2>2, <4>1, NewsArrive DEF ReadAnswered, News
      <3> QED
        BY <2>1, <3>1, <3>2 DEF WatchInv, RegisteredIsWatched
    <2>3. CASE RegistrationMessage
      <3>1. serving /\ UNCHANGED <<serving, reads>>
        BY <2>3, NewsLeave DEF RegistrationMessage, WatchInv
      <3> QED
        BY <2>1, <3>1 DEF WatchInv, RegisteredIsWatched
    <2>4. CASE RetryRead
      BY <2>1, <2>4 DEF RetryRead, WatchInv, RegisteredIsWatched
    <2> QED
      BY <1>3, <2>2, <2>3, <2>4 DEF RegistrationWorks, RegistrationStep
  <1> QED
    BY <1>1, <1>2, <1>3

\* While the clients are released, and until the removal is announced, the
\* device is closing.
LEMMA WatchRemoval == ASSUME WatchInv, ReleaseClients \/ DeviceClosed PROVE WatchInv'
  <1>1. CASE ReleaseClients
    <2>1. News' = {}
      BY <1>1 DEF ReleaseClients, News
    <2>2. ~asleep' /\ reads' = 0 /\ device' = "closing" /\ UNCHANGED <<state, slot>>
      BY <1>1 DEF ReleaseClients, LoopRuns, smVars
    <2> QED
      BY <2>1, <2>2 DEF WatchInv, RegisteredIsWatched
  <1>2. CASE DeviceClosed
    <2>1. UNCHANGED <<state, slot, serving, reads, asleep>> /\ News' = News /\ ~detected'
      BY <1>2 DEF DeviceClosed, loopVars, regVars, News
    <2> QED
      BY <2>1 DEF WatchInv, RegisteredIsWatched
  <1> QED
    BY <1>1, <1>2

LEMMA WatchEnvironment ==
    ASSUME WatchInv, inbox \in Seq(Messages), cards \subseteq Slots, Environment PROVE WatchInv'
  <1> USE DEF smVars, loopVars, deviceVars, regVars
  <1>1. /\ UNCHANGED <<state, detected, nas, slot, serving, reads, asleep>>
        /\ device = "closing" => device' = "closing"
    BY DEF Environment, Unplug, Plug, CardChanges, NetworkChanges, SetsEnable
  <1>2. CASE UNCHANGED inbox
    BY <1>1, <1>2, WatchKept DEF News
  <1>3. ASSUME NEW s \in Slots, CardChanges(s) PROVE News' # {} => News # {}
    <2>1. [kind |-> "slots", cards |-> cards'] \in Messages
      BY <1>3 DEF CardChanges, SlotMessages, Messages
    <2> QED
      BY <1>3, <2>1, NewsArrive DEF CardChanges, News
  <1>4. ASSUME NEW n \in Networks, NetworkChanges(n) PROVE WatchInv'
    BY <1>1, <1>2, <1>4 DEF NetworkChanges, WatchInv, RegisteredIsWatched
  <1> QED
    BY <1>1, <1>2, <1>3, <1>4, WatchKept DEF Environment, Unplug, Plug, SetsEnable

LEMMA WatchNext == ASSUME SlotInv, WatchInv, [Next]_vars PROVE WatchInv'
  <1>1. inbox \in Seq(Messages) /\ cards \subseteq Slots /\ network \in Networks
    BY DEF SlotInv, Messages
  <1>2. CASE UNCHANGED vars
    BY <1>2, WatchKept DEF vars, smVars, deviceVars, loopVars, regVars, News
  <1> QED
    BY <1>1, <1>2, WatchTick, WatchTask, WatchRemoval, WatchEnvironment DEF Next

(* In REGISTERED there is a device whose serving system is being watched,  *)
(* or its removal is under way.                                            *)
THEOREM RegisteredIsWatchedCorrect == Spec => []RegisteredIsWatched
  BY WatchInit, WatchNext, SlotInit, SlotNext, PTL DEF Spec, WatchInv

-----------------------------------------------------------------------------
(* The registration that is believed in                                    *)

\* The registration as it is seen in turn: as remembered, in each message
\* about it, and at the modem.
Sights == {0, Len(inbox) + 1} \cup News

Sight(i) ==
    IF i = 0 THEN previous.reg
    ELSE IF i = Len(inbox) + 1 THEN Shown(network.reg) ELSE Shown(inbox[i].reg)

Follows(i, j) == i \in Sights /\ j \in Sights /\ i < j /\ \A k \in Sights : k <= i \/ j <= k

\* A loss of the registration is seen in an indication before anything else.
LossTold ==
    \A i, j \in Sights :
      Follows(i, j) /\ (j \in News => inbox[j].kind = "read") /\ Sight(i) = "registered"
      => Sight(j) = "registered"

NetInv ==
    /\ unplugs \in Nat
    /\ unplugs = 0 =>
         /\ device \in {"none", "created", "open"}
         /\ News # {} \/ reads > 0 \/ asleep \/ previous.reg = "registered" => serving
         /\ serving => device = "open"
         /\ LossTold

LEMMA NetInit == Init => NetInv
  <1> SUFFICES ASSUME Init PROVE NetInv
    OBVIOUS
  <1>1. News = {} /\ unplugs = 0 /\ reads = 0 /\ ~asleep /\ ~serving /\ device = "none"
    BY DEF Init, News
  <1>2. previous.reg = "none"
    BY DEF Init
  <1>3. LossTold
    <2>1. \A i, j \in Sights : Follows(i, j) => Sight(i) # "registered"
      BY <1>1, <1>2 DEF Sights, Follows, Sight, Init
    <2> QED
      BY <2>1 DEF LossTold
  <1> QED
    BY <1>1, <1>2, <1>3 DEF NetInv

\* A message about the registration arrives, and shows it as it is now.
LEMMA NewsTold ==
    ASSUME LossTold, inbox \in Seq(Messages), NEW m \in NetworkMessages, Arrives(m),
           UNCHANGED previous, m.reg = network'.reg, m.kind = "read" => UNCHANGED network
    PROVE  LossTold'
  <1> PICK L \in Nat : L = Len(inbox)
    BY DEF Messages
  <1>1. L = Len(inbox) /\ inbox' = Append(inbox, m) /\ Len(inbox') = L + 1 /\ inbox'[L + 1] = m
    BY DEF Arrives, Messages
  <1>2. \A i \in 1..L : inbox'[i] = inbox[i]
    BY <1>1
  <1>3. m.kind # "slots"
    BY DEF NetworkMessages
  <1>4. News' = News \cup {L + 1} /\ News \subseteq 1..L
    BY <1>1, <1>2, <1>3 DEF News
  <1>5. Sights' = Sights \cup {L + 2} /\ L + 1 \in Sights /\ \A i \in Sights : i \in 0..(L + 1)
    BY <1>1, <1>4 DEF Sights
  <1>6. \A i \in Sights : i # L + 1 => Sight(i)' = Sight(i)
    BY <1>1, <1>2, <1>4, <1>5 DEF Sight, Sights
  <1>7. Sight(L + 1)' = Shown(m.reg) /\ Sight(L + 2)' = Shown(m.reg) /\ Sight(L + 1) = Shown(network.reg)
    BY <1>1 DEF Sight
  <1>8. SUFFICES ASSUME NEW i \in Sights', NEW j \in Sights', Follows(i, j)',
                        j \in News' => inbox'[j].kind = "read", Sight(i)' = "registered"
                 PROVE  Sight(j)' = "registered"
    BY DEF LossTold
  <1>9. i < j /\ (\A k \in Sights' : k <= i \/ j <= k) /\ i \in 0..(L + 2) /\ j \in 0..(L + 2)
    BY <1>1, <1>5, <1>8 DEF Follows
  <1>10. CASE j = L + 2
    <2>1. i = L + 1
      BY <1>1, <1>5, <1>9, <1>10
    <2> QED
      BY <1>7, <1>8, <1>10, <2>1
  <1>11. CASE j # L + 2
    <2>1. i \in Sights /\ j \in Sights /\ i # L + 1 /\ Follows(i, j)
      BY <1>1, <1>5, <1>9, <1>11 DEF Follows
    <2>2. Sight(i) = "registered"
      BY <1>6, <1>8, <2>1
    <2>3. CASE j = L + 1
      <3>1. m.kind = "read" /\ j \notin News
        BY <1>1, <1>4, <1>8, <2>3
      <3> QED
        BY <1>7, <2>1, <2>2, <2>3, <3>1 DEF LossTold
    <2>4. CASE j # L + 1
      <3>1. j \in News => inbox[j].kind = "read"
        BY <1>2, <1>4, <1>8
      <3> QED
        BY <1>6, <2>1, <2>2, <2>4, <3>1 DEF LossTold
    <2> QED
      BY <2>3, <2>4
  <1> QED
    BY <1>10, <1>11

\* A slot status arrives.
LEMMA SlotsTold ==
    ASSUME LossTold, inbox \in Seq(Messages), NEW m \in SlotMessages, Arrives(m),
           UNCHANGED <<previous, network>>
    PROVE  LossTold'
  <1> PICK L \in Nat : L = Len(inbox)
    BY DEF Messages
  <1>1. L = Len(inbox) /\ inbox' = Append(inbox, m) /\ Len(inbox') = L + 1 /\ inbox'[L + 1] = m
    BY DEF Arrives, Messages
  <1>2. \A i \in 1..L : inbox'[i] = inbox[i]
    BY <1>1
  <1>3. News' = News /\ News \subseteq 1..L
    BY <1>1, <1>2 DEF News, SlotMessages
  <1>4. Sights' = (Sights \ {L + 1}) \cup {L + 2} /\ L + 1 \in Sights /\ \A i \in Sights : i \in 0..(L + 1)
    BY <1>1, <1>3 DEF Sights
  <1>5. \A i \in Sights : i # L + 1 => Sight(i)' = Sight(i)
    BY <1>1, <1>2, <1>3, <1>4 DEF Sight, Sights
  <1>6. Sight(L + 2)' = Sight(L + 1)
    BY <1>1 DEF Sight
  <1>7. SUFFICES ASSUME NEW i \in Sights', NEW j \in Sights', Follows(i, j)',
                        j \in News' => inbox'[j].kind = "read", Sight(i)' = "registered"
                 PROVE  Sight(j)' = "registered"
    BY DEF LossTold
  <1>8. i < j /\ (\A k \in Sights' : k <= i \/ j <= k) /\ i \in 0..(L + 2) /\ j \in 0..(L + 2)
    BY <1>1, <1>4, <1>7 DEF Follows
  <1>9. i \in Sights /\ i # L + 1 /\ Sight(i) = "registered"
    BY <1>1, <1>4, <1>5, <1>7, <1>8
  <1>10. CASE j = L + 2
    <2>1. Follows(i, L + 1) /\ L + 1 \notin News
      BY <1>1, <1>3, <1>4, <1>8, <1>9, <1>10 DEF Follows
    <2> QED
      BY <1>4, <1>6, <1>9, <1>10, <2>1 DEF LossTold
  <1>11. CASE j # L + 2
    <2>1. j \in Sights /\ j # L + 1 /\ Follows(i, j)
      BY <1>1, <1>4, <1>8, <1>9, <1>11 DEF Follows
    <2>2. j \in News => inbox[j].kind = "read"
      BY <1>2, <1>3, <1>7
    <2> QED
      BY <1>5, <1>9, <2>1, <2>2 DEF LossTold
  <1> QED
    BY <1>10, <1>11

\* The first message is handled: what is remembered is not a registration
\* the message had lost.
LEMMA HandledTold ==
    ASSUME LossTold, inbox \in Seq(Messages), inbox # <<>>, inbox' = Tail(inbox), UNCHANGED network,
           previous'.reg = "registered" =>
             IF Head(inbox).kind = "slots" THEN previous.reg = "registered"
             ELSE Shown(Head(inbox).reg) = "registered"
    PROVE  LossTold'
  <1> PICK L \in Nat \ {0} : L = Len(inbox)
    BY DEF Messages
  <1> DEFINE f(i) == IF i > 0 \/ inbox[1].kind # "slots" THEN i + 1 ELSE 0
  <1>1. L = Len(inbox) /\ Len(inbox') = L - 1 /\ Head(inbox) = inbox[1]
    OBVIOUS
  <1>2. \A i \in 1..(L - 1) : inbox'[i] = inbox[i + 1]
    BY <1>1
  <1>3. News \subseteq 1..L /\ News' \subseteq 1..(L - 1)
    BY <1>1 DEF News
  <1>4. \A i \in 1..(L - 1) : i \in News' <=> i + 1 \in News
    BY <1>1, <1>2 DEF News
  <1>5. 1 \in News <=> inbox[1].kind # "slots"
    BY <1>1 DEF News
  <1>6. ASSUME NEW i \in Sights' PROVE i \in 0..L /\ f(i) \in Sights
    <2>1. i = 0 \/ i = L \/ (i \in 1..(L - 1) /\ i \in News')
      BY <1>1, <1>3, <1>6 DEF Sights
    <2> QED
      BY <1>1, <1>4, <1>5, <2>1 DEF Sights
  <1>7. \A k \in Sights : k \in 0..(L + 1) /\ (k = 0 \/ (k = 1 /\ f(0) = 1) \/ (k > 1 /\ k - 1 \in Sights'))
    BY <1>1, <1>3, <1>4, <1>5 DEF Sights
  <1>8. ASSUME NEW i \in Sights', Sight(i)' = "registered" PROVE Sight(f(i)) = "registered"
    BY <1>1, <1>2, <1>6, <1>8 DEF Sight
  <1>9. ASSUME NEW i \in Sights', i > 0 PROVE Sight(i)' = Sight(f(i))
    BY <1>1, <1>2, <1>6, <1>9 DEF Sight
  <1>10. SUFFICES ASSUME NEW i \in Sights', NEW j \in Sights', Follows(i, j)',
                         j \in News' => inbox'[j].kind = "read", Sight(i)' = "registered"
                  PROVE  Sight(j)' = "registered"
    BY DEF LossTold
  <1>11. /\ i < j /\ i \in 0..L /\ j \in 0..L /\ 0 \in Sights'
         /\ \A k \in Sights' : k <= i \/ j <= k
    BY <1>6, <1>10 DEF Follows, Sights
  <1>12. f(i) < f(j) /\ f(j) = j + 1
    BY <1>11
  <1>13. ASSUME NEW k \in Sights PROVE k <= f(i) \/ f(j) <= k
    <2>1. CASE k > 1 /\ k - 1 \in Sights'
      BY <1>7, <1>11, <1>12, <2>1
    <2>2. CASE k = 0 \/ (k = 1 /\ f(0) = 1)
      BY <1>1, <1>11, <1>12, <2>2
    <2> QED
      BY <1>7, <2>1, <2>2
  <1>14. Follows(f(i), f(j))
    BY <1>6, <1>12, <1>13 DEF Follows
  <1>15. f(j) \in News => inbox[f(j)].kind = "read"
    BY <1>1, <1>2, <1>3, <1>4, <1>10, <1>11, <1>12
  <1>16. Sight(f(i)) = "registered"
    BY <1>8, <1>10
  <1>17. Sight(f(j)) = "registered"
    BY <1>6, <1>14, <1>15, <1>16 DEF LossTold
  <1> QED
    BY <1>9, <1>11, <1>17

-----------------------------------------------------------------------------
(* The opening of the device                                               *)

\* The open tasks that have yet to open the device.
Opening == {t \in opens : t.step \in {"new", "opening"}}

OpeningInv ==
    /\ \A t, u \in Opening : t = u
    /\ Opening # {} => detected /\ ~IsOpen
    /\ detected /\ ~IsOpen => state = "DEACTIVATED"
    /\ (detected /\ ~IsOpen) \/ state = "DOWN" => slot # "SELECTING"
    /\ state = "DOWN" => ~detected

\* Open task t goes on past the opening of the device, or is over.
GoesOn(t) ==
    \/ opens' = opens \ {t}
    \/ \E q : opens' = (opens \ {t}) \cup {q} /\ q.step \notin {"new", "opening"}

LEMMA WaitsGoesOn ==
    ASSUME NEW t, NEW u, {"step", "on"} \subseteq DOMAIN u, NEW step, Waits(t, u, step)
    PROVE  \E q : opens' = (opens \ {t}) \cup {q} /\ q.step = step
  <1> DEFINE q == [u EXCEPT !.step = step,
                            !.on = IF step \in {"opening", "DMS", "WDS", "NAS"} THEN TRUE
                                   ELSE valid'["DMS"]]
  <1>1. opens' = (opens \ {t}) \cup {q}
    BY DEF Waits
  <1>2. q.step = step
    OBVIOUS
  <1> QED
    BY <1>1, <1>2

LEMMA StepsGoOn ==
    ASSUME NEW t, NEW u, {"step", "on"} \subseteq DOMAIN u,
           Notify(t, u) \/ FromNas(t, u) \/ FromWds(t, u) \/ FromDms(t, u)
    PROVE  GoesOn(t)
  <1>1. ASSUME NEW s, s \notin {"new", "opening"}, Waits(t, u, s) \/ Asks(t, u, s) PROVE GoesOn(t)
    BY <1>1, WaitsGoesOn DEF Asks, Dropped, GoesOn
  <1>2. CASE Notify(t, u)
    BY <1>2 DEF Notify, GoesOn
  <1>3. CASE FromNas(t, u)
    BY <1>1, <1>2, <1>3 DEF FromNas
  <1>4. CASE FromWds(t, u)
    BY <1>1, <1>3, <1>4 DEF FromWds
  <1>5. CASE FromDms(t, u)
    BY <1>1, <1>5 DEF FromDms
  <1> QED
    BY <1>2, <1>3, <1>4, <1>5

\* What an answer does to its task and to the device.
OpenEffect(t) ==
    \/ /\ t.step = "new" /\ device' = "created"
       /\ \E q : opens' = (opens \ {t}) \cup {q}
    \/ /\ GoesOn(t)
       /\ device' = device \/ (t.step = "opening" /\ device = "created" /\ device' = "open")

LEMMA OpenEffectOf ==
    ASSUME ClientType, NEW t \in opens,
           \/ DeviceNew(t) \/ DeviceOpened(t) \/ DmsAllocated(t) \/ RevisionRead(t)
           \/ VersionRead(t) \/ IdsRead(t) \/ ModeRead(t) \/ WdsAllocated(t) \/ NasAllocated(t)
    PROVE  OpenEffect(t)
  <1>1. {"step", "on", "ready", "online"} \subseteq DOMAIN t
    BY DEF ClientType
  <1>2. /\ \A b : {"step", "on"} \subseteq DOMAIN [t EXCEPT !.ready = b]
        /\ \A b : {"step", "on"} \subseteq DOMAIN [t EXCEPT !.online = b]
    BY <1>1
  <1>3. ASSUME NEW s, s \notin {"new", "opening"}, Waits(t, t, s) PROVE GoesOn(t)
    BY <1>1, <1>3, WaitsGoesOn DEF GoesOn
  <1>4. CASE DeviceNew(t)
    <2>1. CASE device' = "created" /\ Waits(t, t, "opening")
      <3>1. PICK q : opens' = (opens \ {t}) \cup {q}
        BY <1>1, <2>1, WaitsGoesOn
      <3> QED
        BY <1>4, <2>1, <3>1 DEF DeviceNew, OpenEffect
    <2>2. CASE UNCHANGED device /\ Notify(t, [t EXCEPT !.ready = FALSE])
      BY <1>2, <2>2, StepsGoOn DEF OpenEffect
    <2> QED
      BY <1>4, <2>1, <2>2 DEF DeviceNew
  <1>5. CASE DeviceOpened(t)
    <2>1. GoesOn(t)
      BY <1>2, <1>5, StepsGoOn DEF DeviceOpened
    <2> QED
      BY <1>5, <2>1 DEF DeviceOpened, OpenEffect
  <1>6. CASE DmsAllocated(t) \/ RevisionRead(t) \/ VersionRead(t) \/ IdsRead(t)
    <2>1. GoesOn(t)
      BY <1>1, <1>3, <1>6, StepsGoOn DEF DmsAllocated, RevisionRead, VersionRead, IdsRead
    <2> QED
      BY <1>6, <2>1 DEF DmsAllocated, RevisionRead, VersionRead, IdsRead, OpenEffect
  <1>7. CASE ModeRead(t)
    BY <1>2, <1>7, StepsGoOn DEF ModeRead, OpenEffect
  <1>8. CASE WdsAllocated(t) \/ NasAllocated(t)
    BY <1>1, <1>8, StepsGoOn DEF WdsAllocated, NasAllocated, OpenEffect
  <1> QED
    BY <1>4, <1>5, <1>6, <1>7, <1>8

LEMMA OpenEffects ==
    ASSUME ClientType, OpenAnswer PROVE \E t \in opens : OpenEffect(t)
  BY OpenEffectOf DEF OpenAnswer

LEMMA OpeningInit == Init => OpeningInv
  BY DEF Init, OpeningInv, Opening

\* Steps that leave the open tasks and the device alone.
LEMMA OpeningKept ==
    ASSUME OpeningInv, UNCHANGED <<state, detected, opens>>, IsOpen' = IsOpen,
           slot' = slot \/ slot' # "SELECTING"
    PROVE  OpeningInv'
  BY DEF OpeningInv, Opening

\* The task that is begun opens the device when it is not open.
LEMMA OpeningBegun ==
    ASSUME OpenDevice
    PROVE  \/ UNCHANGED opens
           \/ \E r : opens' = opens \cup {r} /\ (IsOpen => r.step \notin {"new", "opening"})
  <1>1. ASSUME NEW i, opens' = opens \cup {[id |-> i, ready |-> IsOpen, online |-> TRUE,
                                           on |-> TRUE, step |-> FirstStep]}
        PROVE  \E r : opens' = opens \cup {r} /\ (IsOpen => r.step \notin {"new", "opening"})
    <2> DEFINE r == [id |-> i, ready |-> IsOpen, online |-> TRUE, on |-> TRUE, step |-> FirstStep]
    <2>1. IsOpen => r.step \notin {"new", "opening"}
      BY DEF FirstStep
    <2> HIDE DEF r
    <2> QED
      BY <1>1, <2>1 DEF r
  <1> QED
    BY <1>1 DEF OpenDevice, openVars

LEMMA OpeningTick == ASSUME OpeningInv, Tick PROVE OpeningInv'
  <1> USE DEF halVars, deviceVars, loopVars, restVars, OpeningInv
  <1>1. UNCHANGED device /\ IsOpen' = IsOpen
    BY DEF IsOpen, Tick, StateDown, StateDeactivated, StateDeregistered, StateRegistered, TransitionDown,
           TransitionDeactivated
  <1>2. CASE StateDown
    <2>1. CASE UNCHANGED <<state, slot, opens>> /\ ~detected' /\ state = "DOWN"
      BY <1>1, <2>1 DEF Opening
    <2>2. CASE detected' /\ UNCHANGED slot /\ state = "DOWN" /\ state' = "DEACTIVATED" /\ OpenDevice
      <3>1. Opening = {} /\ slot # "SELECTING"
        BY <2>2
      <3>2. (\A t, u \in Opening' : t = u) /\ (Opening' # {} => ~IsOpen)
        BY <2>2, <3>1, OpeningBegun DEF Opening
      <3> QED
        BY <1>1, <2>2, <3>1, <3>2
    <2> QED
      BY <1>2, <2>1, <2>2 DEF StateDown, TransitionDeactivated, openVars
  <1>3. CASE StateDeactivated
    <2>1. UNCHANGED <<detected, opens>> /\ Opening' = Opening
      BY <1>3 DEF StateDeactivated, TransitionDown, openVars, Opening
    <2> QED
      BY <1>1, <1>3, <2>1 DEF StateDeactivated, TransitionDown, SelectDeviceSlot
  <1>4. CASE StateDeregistered \/ StateRegistered
    <2>1. detected => IsOpen
      BY <1>4 DEF StateDeregistered, StateRegistered
    <2>2. CASE detected /\ TransitionDeactivated /\ UNCHANGED detected
      <3>1. Opening' = {}
        BY <2>1, <2>2, OpeningBegun DEF TransitionDeactivated, Opening
      <3> QED
        BY <1>1, <2>1, <2>2, <3>1 DEF TransitionDeactivated
    <2>3. CASE UNCHANGED opens
      <3>1. Opening' = Opening
        BY <2>3 DEF Opening
      <3> QED
        BY <1>1, <1>4, <2>1, <2>3, <3>1
           DEF StateDeregistered, StateRegistered, TransitionDown, TransitionDeactivated
    <2> QED
      BY <1>4, <2>2, <2>3 DEF StateDeregistered, StateRegistered, TransitionDown, openVars
  <1> QED
    BY <1>2, <1>3, <1>4 DEF Tick

\* A removal leaves the open tasks where they are.
LEMMA OpeningAborted == ASSUME ClientType, AbortRequests, Opening = {} PROVE Opening' = {}
  <1>1. ASSUME NEW t \in opens PROVE [t EXCEPT !.on = FALSE].step = t.step
    BY DEF ClientType
  <1> QED
    BY <1>1 DEF AbortRequests, Opening

LEMMA OpeningNext == ASSUME OpeningInv, ClientType, [Next]_vars PROVE OpeningInv'
  <1> USE DEF smVars, deviceVars, loopVars, openVars
  <1>1. CASE OpenWorks
    <2>1. PICK t \in opens : OpenEffect(t)
      BY <1>1, OpenEffects DEF OpenWorks
    <2>2. UNCHANGED <<state, detected, slot>>
      BY <1>1 DEF OpenWorks, OpenAnswer, restVars
    <2>3. CASE t.step \in {"new", "opening"}
      <3>1. Opening = {t} /\ detected /\ ~IsOpen
        BY <2>3 DEF OpeningInv, Opening
      <3>2. CASE device' = "created" /\ \E q : opens' = (opens \ {t}) \cup {q}
        BY <2>2, <3>1, <3>2 DEF OpeningInv, Opening, IsOpen
      <3>3. CASE GoesOn(t)
        <4>1. Opening' = {}
          BY <3>1, <3>3 DEF Opening, GoesOn
        <4>2. IsOpen' \/ UNCHANGED device \/ device' = "created"
          BY <2>1 DEF OpenEffect, IsOpen
        <4> QED
          BY <2>2, <3>1, <4>1, <4>2 DEF OpeningInv, IsOpen
      <3> QED
        BY <2>1, <3>2, <3>3 DEF OpenEffect
    <2>4. CASE t.step \notin {"new", "opening"}
      <3>1. GoesOn(t) /\ UNCHANGED device
        BY <2>1, <2>4 DEF OpenEffect
      <3>2. Opening' = Opening
        BY <2>4, <3>1 DEF Opening, GoesOn
      <3> QED
        BY <2>2, <3>1, <3>2 DEF OpeningInv, IsOpen
    <2> QED
      BY <2>3, <2>4
  <1>2. CASE SlotWorks
    <2>1. UNCHANGED <<state, detected, device, opens>>
      BY <1>2 DEF SlotWorks, SlotStep, UimAllocated, SlotStatusAnswered, SlotEventsRegistered, SlotMessage
    <2>2. slot' = slot \/ slot' # "SELECTING"
      BY <1>2 DEF SlotWorks, SlotStep, UimAllocated, SlotStatusAnswered, SlotEventsRegistered, SlotMessage,
                 SelectSlotAndNotify, SlotStatusCB
    <2> QED
      BY <2>1, <2>2, OpeningKept DEF IsOpen
  <1>3. CASE RegistrationWorks
    BY <1>3, OpeningKept DEF RegistrationWorks, RegistrationStep, IsOpen
  <1>4. CASE ReleaseClients
    <2>1. UNCHANGED <<state, detected, slot>> /\ IsOpen /\ IsOpen' /\ AbortRequests
      BY <1>4 DEF ReleaseClients, IsOpen
    <2> QED
      BY <2>1, OpeningAborted DEF OpeningInv
  <1>5. CASE DeviceClosed
    <2>1. UNCHANGED <<state, slot>> /\ IsOpen /\ ~detected' /\ AbortRequests
      BY <1>5 DEF DeviceClosed, IsOpen
    <2> QED
      BY <2>1, OpeningAborted DEF OpeningInv
  <1>6. CASE Environment
    <2>1. /\ UNCHANGED <<state, detected, slot, opens>>
          /\ UNCHANGED device \/ (device = "open" /\ device' = "gone")
      BY <1>6 DEF Environment, Unplug, Plug, CardChanges, NetworkChanges, SetsEnable, restVars
    <2>2. IsOpen' = IsOpen
      BY <2>1 DEF IsOpen
    <2> QED
      BY <2>1, <2>2, OpeningKept
  <1>7. CASE UNCHANGED vars
    BY <1>7, OpeningKept DEF vars, IsOpen
  <1> QED
    BY <1>1, <1>2, <1>3, <1>4, <1>5, <1>6, <1>7, OpeningTick DEF Next

-----------------------------------------------------------------------------
(* The registration that is believed in, step by step                      *)

\* Steps that leave the messages and what is seen of the registration alone.
LEMMA NetKept ==
    ASSUME NetInv, UNCHANGED <<inbox, previous, network, unplugs>>,
           unplugs = 0 =>
             /\ device' = device \/ (device # "open" /\ device' \in {"created", "open"})
             /\ reads' > 0 \/ asleep' => reads > 0 \/ asleep \/ serving'
             /\ serving' = serving \/ (serving' = TRUE /\ (serving \/ device = "open"))
    PROVE  NetInv'
  <1>1. News' = News /\ Sights' = Sights
    BY DEF News, Sights
  <1>2. LossTold' = LossTold
    BY <1>1 DEF LossTold, Follows, Sight
  <1> QED
    BY <1>1, <1>2 DEF NetInv

LEMMA NetTick == ASSUME NetInv, Tick PROVE NetInv'
  <1> USE DEF halVars, deviceVars, loopVars, restVars, regVars
  <1>1. UNCHANGED <<inbox, previous, network, unplugs, device, asleep>>
    BY DEF Tick, StateDown, StateDeactivated, StateDeregistered, StateRegistered, TransitionDown,
           TransitionDeactivated, MonitorRegistration
  <1>2. \/ UNCHANGED <<reads, serving>>
        \/ IsOpen /\ serving' = TRUE
    BY DEF Tick, StateDown, StateDeactivated, StateDeregistered, StateRegistered, TransitionDown,
           TransitionDeactivated, MonitorRegistration
  <1>3. unplugs = 0 /\ IsOpen => device = "open"
    BY DEF NetInv, IsOpen
  <1> QED
    BY <1>1, <1>2, <1>3, NetKept

LEMMA NetTask ==
    ASSUME NetInv, OpeningInv, ClientType, inbox \in Seq(Messages), cards \subseteq Slots,
           OpenWorks \/ SlotWorks
    PROVE  NetInv'
  <1> USE DEF deviceVars, loopVars, restVars, regVars
  <1>1. UNCHANGED <<previous, network, unplugs, asleep, reads, serving>>
    BY DEF OpenWorks, OpenAnswer, SlotWorks, SlotStep, UimAllocated, SlotStatusAnswered,
           SlotEventsRegistered, SlotMessage
  <1>2. CASE OpenWorks
    <2>1. PICK t \in opens : OpenEffect(t)
      BY <1>2, OpenEffects DEF OpenWorks
    <2>2. device' = device \/ (device # "open" /\ device' \in {"created", "open"})
      BY <2>1 DEF OpenEffect, OpeningInv, Opening, IsOpen
    <2>3. UNCHANGED inbox
      BY <1>2 DEF OpenWorks, OpenAnswer
    <2> QED
      BY <1>1, <2>2, <2>3, NetKept
  <1>3. CASE SlotWorks
    <2>1. UNCHANGED device
      BY <1>3 DEF SlotWorks, SlotStep, UimAllocated, SlotStatusAnswered, SlotEventsRegistered, SlotMessage
    <2>2. CASE UNCHANGED inbox
      BY <1>1, <2>1, <2>2, NetKept
    <2>3. CASE SlotStatusAnswered /\ ~UNCHANGED inbox
      <3>1. /\ [kind |-> "slots", cards |-> cards] \in SlotMessages
            /\ [kind |-> "slots", cards |-> cards] \in Messages
        BY DEF SlotMessages, Messages
      <3>2. Arrives([kind |-> "slots", cards |-> cards])
        BY <2>3 DEF SlotStatusAnswered
      <3>3. News' # {} => News # {}
        BY <3>1, <3>2, NewsArrive
      <3>4. LossTold => LossTold'
        BY <1>1, <3>1, <3>2, SlotsTold
      <3> QED
        BY <1>1, <2>1, <3>3, <3>4 DEF NetInv
    <2>4. CASE SlotMessage
      <3>1. inbox # <<>> /\ inbox' = Tail(inbox) /\ Head(inbox).kind = "slots"
        BY <2>4 DEF SlotMessage
      <3>2. News' # {} => News # {}
        BY <3>1, NewsLeave
      <3>3. LossTold => LossTold'
        BY <1>1, <3>1, HandledTold
      <3> QED
        BY <1>1, <2>1, <3>2, <3>3 DEF NetInv
    <2> QED
      BY <1>3, <2>2, <2>3, <2>4 DEF SlotWorks, SlotStep, UimAllocated, SlotEventsRegistered
  <1> QED
    BY <1>2, <1>3

LEMMA NetRegistration ==
    ASSUME NetInv, RegInv, inbox \in Seq(Messages), network \in Networks, RegistrationWorks
    PROVE  NetInv'
  <1>1. UNCHANGED <<device, network, unplugs>>
    BY DEF RegistrationWorks, RegistrationStep, deviceVars
  <1>2. CASE ReadAnswered
    <2>1. UNCHANGED <<previous, serving, asleep>> /\ (reads' > 0 => reads > 0)
      BY <1>2 DEF ReadAnswered
    <2>2. CASE UNCHANGED inbox
      BY <1>1, <2>1, <2>2, NetKept
    <2>3. CASE ~UNCHANGED inbox
      <3> DEFINE m == [kind |-> "read", reg |-> network.reg, roam |-> network.roam]
      <3>1. m \in NetworkMessages /\ m \in Messages /\ m.reg = network'.reg
        BY <1>1 DEF Networks, NetworkMessages, Messages
      <3>2. Arrives(m) /\ reads > 0
        BY <1>2, <2>3 DEF ReadAnswered
      <3> HIDE DEF m
      <3>3. LossTold => LossTold'
        BY <1>1, <2>1, <3>1, <3>2, NewsTold
      <3> QED
        BY <1>1, <2>1, <3>2, <3>3 DEF NetInv
    <2> QED
      BY <2>2, <2>3
  <1>3. CASE RegistrationMessage
    <2> DEFINE m == Head(inbox)
    <2>1. /\ inbox # <<>> /\ inbox' = Tail(inbox) /\ UNCHANGED <<serving, reads>>
          /\ m.kind # "slots"
          /\ (m.kind = "read" /\ ReadHandled(m)) \/ (m.kind = "serving" /\ IndicationHandled(m))
      BY <1>3 DEF RegistrationMessage
    <2>2. News # {} /\ 1 \in News /\ m = inbox[1]
      BY <2>1 DEF News
    <2>3. {"reg", "roam"} \subseteq DOMAIN previous
      BY DEF RegInv
    <2>4. \/ previous'.reg = Shown(m.reg)
          \/ m.kind = "read" /\ previous'.reg = previous.reg
      <3>1. CASE m.kind = "read" /\ ReadHandled(m)
        BY <2>3, <3>1 DEF ReadHandled, Shown
      <3>2. CASE m.kind = "serving" /\ IndicationHandled(m)
        BY <3>2 DEF IndicationHandled
      <3> QED
        BY <2>1, <3>1, <3>2
    <2>5. LossTold /\ m.kind = "read" /\ previous.reg = "registered" => Shown(m.reg) = "registered"
      <3>1. 0 \in Sights /\ 1 \in Sights /\ \A k \in Sights : k <= 0 \/ 1 <= k
        BY <2>2 DEF Sights, News, Messages
      <3>2. Sight(0) = previous.reg /\ Sight(1) = Shown(m.reg)
        BY <2>1, <2>2 DEF Sight, Messages
      <3>3. Follows(0, 1)
        BY <3>1 DEF Follows
      <3> QED
        BY <2>2, <3>1, <3>2, <3>3 DEF LossTold
    <2>6. LossTold => LossTold'
      BY <1>1, <2>1, <2>4, <2>5, HandledTold
    <2> QED
      BY <1>1, <2>1, <2>2, <2>6 DEF NetInv
  <1>4. CASE RetryRead
    <2>1. unplugs = 0 => serving
      BY <1>4 DEF RetryRead, NetInv
    <2> QED
      BY <1>1, <1>4, <2>1, NetKept DEF RetryRead
  <1> QED
    BY <1>2, <1>3, <1>4 DEF RegistrationWorks, RegistrationStep

LEMMA NetEnvironment ==
    ASSUME NetInv, inbox \in Seq(Messages), cards \subseteq Slots, Environment PROVE NetInv'
  <1> USE DEF deviceVars, loopVars, restVars, regVars
  <1>1. CASE Unplug
    BY <1>1 DEF Unplug, NetInv
  <1>2. CASE Plug \/ \E w \in Writers : SetsEnable(w)
    <2>1. UNCHANGED <<inbox, previous, network, unplugs, device, reads, asleep, serving>>
      BY <1>2 DEF Plug, SetsEnable
    <2> QED
      BY <2>1, NetKept
  <1>3. ASSUME NEW s \in Slots, CardChanges(s) PROVE NetInv'
    <2>1. UNCHANGED <<previous, network, unplugs, device, asleep, reads, serving>>
      BY <1>3 DEF CardChanges
    <2>2. CASE UNCHANGED inbox
      BY <2>1, <2>2, NetKept
    <2>3. CASE ~UNCHANGED inbox
      <3>1. /\ [kind |-> "slots", cards |-> cards'] \in SlotMessages
            /\ [kind |-> "slots", cards |-> cards'] \in Messages
        BY <1>3 DEF CardChanges, SlotMessages, Messages
      <3>2. Arrives([kind |-> "slots", cards |-> cards'])
        BY <1>3, <2>3 DEF CardChanges
      <3>3. News' # {} => News # {}
        BY <3>1, <3>2, NewsArrive
      <3>4. LossTold => LossTold'
        BY <2>1, <3>1, <3>2, SlotsTold
      <3> QED
        BY <2>1, <3>3, <3>4 DEF NetInv
    <2> QED
      BY <2>2, <2>3
  <1>4. ASSUME NEW n \in Networks, NetworkChanges(n) PROVE NetInv'
    <2>1. UNCHANGED <<previous, unplugs, device, asleep, reads, serving>> /\ network' = n
      BY <1>4 DEF NetworkChanges
    <2>2. CASE serving /\ device = "open"
      <3> DEFINE m == [kind |-> "serving", reg |-> n.reg, roam |-> n.roam]
      <3>1. m \in NetworkMessages /\ m.reg = network'.reg /\ m.kind # "read"
        BY <2>1 DEF Networks, NetworkMessages
      <3>2. Arrives(m)
        BY <1>4, <2>2 DEF NetworkChanges
      <3> HIDE DEF m
      <3>3. LossTold => LossTold'
        BY <2>1, <3>1, <3>2, NewsTold
      <3> QED
        BY <2>1, <2>2, <3>3 DEF NetInv
    <2>3. CASE ~(serving /\ device = "open")
      <3>1. UNCHANGED inbox
        BY <1>4, <2>3 DEF NetworkChanges
      <3>2. unplugs = 0 => News' = {} /\ previous'.reg # "registered"
        BY <2>1, <2>3, <3>1 DEF NetInv, News
      <3>3. unplugs = 0 => LossTold'
        <4>1. ASSUME NEW i \in Sights', NEW j \in Sights', News' = {}, Follows(i, j)'
              PROVE  Sight(i)' = previous'.reg
          BY <4>1 DEF Sights, Follows, Sight
        <4> QED
          BY <3>2, <4>1 DEF LossTold
      <3> QED
        BY <2>1, <3>1, <3>2, <3>3 DEF NetInv, News
    <2> QED
      BY <2>2, <2>3
  <1> QED
    BY <1>1, <1>2, <1>3, <1>4 DEF Environment

LEMMA NetNext ==
    ASSUME SlotInv, RegInv, ClientInv, OpeningInv, NetInv, [Next]_vars PROVE NetInv'
  <1>1. inbox \in Seq(Messages) /\ cards \subseteq Slots /\ network \in Networks /\ ClientType
    BY DEF SlotInv, Messages, ClientInv
  <1>2. CASE ReleaseClients \/ DeviceClosed
    BY <1>2 DEF ReleaseClients, DeviceClosed, restVars, NetInv
  <1>3. CASE UNCHANGED vars
    BY <1>3, NetKept DEF vars, deviceVars, loopVars, regVars
  <1> QED
    BY <1>1, <1>2, <1>3, NetTick, NetTask, NetRegistration, NetEnvironment DEF Next

(* Until a first removal, once all messages are handled, a registration    *)
(* the state machine believes in is one the modem has.                     *)
THEOREM RegistrationCurrentCorrect == Spec => []RegistrationCurrent
  <1>1. ASSUME SlotInv, RegInv, NetInv PROVE RegistrationCurrent
    <2> SUFFICES ASSUME nas = "REGISTERED", unplugs = 0, ~Waiting({"read", "serving"})
                 PROVE  Shown(network.reg) = "registered"
      BY DEF RegistrationCurrent
    <2>1. inbox \in Seq(Messages)
      BY <1>1 DEF SlotInv, Messages
    <2>2. News = {}
      BY <2>1 DEF News, Waiting, Messages, SlotMessages, NetworkMessages
    <2>3. 0 \in Sights /\ Len(inbox) + 1 \in Sights /\ Follows(0, Len(inbox) + 1)
      BY <2>1, <2>2 DEF Sights, Follows
    <2>4. Sight(0) = "registered" /\ Sight(Len(inbox) + 1) = Shown(network.reg)
      BY <1>1, <2>1 DEF Sight, RegInv, RegistrationRemembered
    <2> QED
      BY <1>1, <2>2, <2>3, <2>4 DEF NetInv, LossTold
  <1>2. Init => SlotInv /\ RegInv /\ ClientInv /\ OpeningInv /\ NetInv
    BY SlotInit, RegInit, ClientInit, OpeningInit, NetInit
  <1>3. SlotInv /\ RegInv /\ ClientInv /\ OpeningInv /\ NetInv /\ [Next]_vars
        => (SlotInv /\ RegInv /\ ClientInv /\ OpeningInv /\ NetInv)'
    BY SlotNext, RegNext, ClientNext, OpeningNext, NetNext DEF ClientInv
  <1> QED
    BY <1>1, <1>2, <1>3, PTL DEF Spec

-----------------------------------------------------------------------------
(* The card of the selected slot                                           *)

\* The places of the messages about the slots.
Told == {i \in 1..Len(inbox) : inbox[i].kind = "slots"}

\* The last message about the slots shows them as they are.
LastTold == \A i \in Told : (\A j \in Told : j <= i) => inbox[i].cards = cards

CardsInv ==
    /\ "alloc" \in uimTasks => ~valid["UIM"]
    /\ valid["UIM"] => device \in {"open", "gone"}
    /\ ~valid["UIM"] =>
         /\ ~slotHandler /\ uimTasks \cap {"status", "events"} = {} /\ Told = {}
         /\ selected = 0 \/ device = "closing"
    /\ device = "open" /\ "status" \in uimTasks /\ ~slotHandler => selected = 0 /\ Told = {}
    /\ device = "open" /\ ~missed => LastTold /\ (Told = {} => selected = 0 \/ selected \in cards)

LEMMA CardsInit == Init => CardsInv
  <1> SUFFICES ASSUME Init PROVE CardsInv
    OBVIOUS
  <1>1. Told = {} /\ ~valid["UIM"]
    BY DEF Init, Told, Services
  <1> QED
    BY <1>1 DEF Init, CardsInv, LastTold

LEMMA ToldNews ==
    ASSUME inbox \in Seq(Messages), NEW m \in NetworkMessages, Arrives(m)
    PROVE  Told' = Told /\ \A i \in Told : inbox'[i] = inbox[i]
  <1> PICK L \in Nat : L = Len(inbox)
    OBVIOUS
  <1>1. L = Len(inbox) /\ Len(inbox') = L + 1 /\ inbox'[L + 1] = m
    BY DEF Arrives, Messages
  <1>2. \A i \in 1..L : inbox'[i] = inbox[i]
    BY DEF Arrives, Messages
  <1>3. m.kind # "slots"
    BY DEF NetworkMessages
  <1> QED
    BY <1>1, <1>2, <1>3 DEF Told

LEMMA ToldSlots ==
    ASSUME inbox \in Seq(Messages), NEW m \in SlotMessages, Arrives(m), m.cards = cards'
    PROVE  Told' # {} /\ LastTold'
  <1> PICK L \in Nat : L = Len(inbox)
    OBVIOUS
  <1>1. L = Len(inbox) /\ Len(inbox') = L + 1 /\ inbox'[L + 1] = m
    BY DEF Arrives, Messages
  <1>2. m.kind = "slots"
    BY DEF SlotMessages
  <1>3. L + 1 \in Told' /\ \A i \in Told' : i \in 1..(L + 1)
    BY <1>1, <1>2 DEF Told
  <1> QED
    BY <1>1, <1>3 DEF LastTold

LEMMA ToldLeave ==
    ASSUME inbox \in Seq(Messages), inbox # <<>>, inbox' = Tail(inbox), UNCHANGED cards
    PROVE  /\ Told = {} => Told' = {}
           /\ LastTold => LastTold'
           /\ Head(inbox).kind # "slots" /\ Told' = {} => Told = {}
           /\ LastTold /\ Head(inbox).kind = "slots" /\ Told' = {} => Head(inbox).cards = cards
  <1> PICK L \in Nat \ {0} : L = Len(inbox)
    BY DEF Messages
  <1>1. L = Len(inbox) /\ Len(inbox') = L - 1 /\ Head(inbox) = inbox[1]
    OBVIOUS
  <1>2. \A i \in 1..(L - 1) : inbox'[i] = inbox[i + 1]
    BY <1>1
  <1>3. Told \subseteq 1..L /\ Told' \subseteq 1..(L - 1)
    BY <1>1 DEF Told
  <1>4. \A i \in 1..(L - 1) : i \in Told' <=> i + 1 \in Told
    BY <1>1, <1>2 DEF Told
  <1>5. 1 \in Told <=> Head(inbox).kind = "slots"
    BY <1>1 DEF Told
  <1>6. \A k \in Told : k = 1 \/ k - 1 \in Told'
    BY <1>3, <1>4
  <1>7. ASSUME LastTold, NEW i \in Told', \A j \in Told' : j <= i PROVE inbox'[i].cards = cards
    <2>1. i + 1 \in Told /\ \A k \in Told : k <= i + 1
      BY <1>3, <1>4, <1>6, <1>7
    <2> QED
      BY <1>2, <1>3, <1>7, <2>1 DEF LastTold
  <1>8. Told' = {} /\ 1 \in Told => \A k \in Told : k <= 1
    BY <1>6
  <1> QED
    BY <1>1, <1>3, <1>4, <1>5, <1>6, <1>7, <1>8 DEF LastTold

LEMMA CardsKept ==
    ASSUME CardsInv, UNCHANGED <<inbox, cards, selected, slotHandler, uimTasks, missed>>,
           valid'["UIM"] = valid["UIM"], device' = device \/ (device = "open" /\ device' = "gone")
    PROVE  CardsInv'
  <1>1. Told' = Told /\ LastTold' = LastTold
    BY DEF Told, LastTold
  <1> QED
    BY <1>1 DEF CardsInv

\* The step of an open task allocates one of its clients, or none.
LEMMA OpenAllocates ==
    ASSUME OpenAnswer PROVE UNCHANGED valid \/ \E s \in Asked : Allocated(s)
  BY DEF OpenAnswer, DeviceNew, DeviceOpened, DmsAllocated, RevisionRead, VersionRead, IdsRead,
         ModeRead, WdsAllocated, NasAllocated, Asked

LEMMA CardsOpen == ASSUME CardsInv, OpeningInv, ClientType, OpenWorks PROVE CardsInv'
  <1>1. UNCHANGED <<inbox, cards, selected, slotHandler, uimTasks, missed>> /\ device # "closing"
    BY DEF OpenWorks, OpenAnswer, LoopRuns, slotVars, restVars
  <1>2. valid'["UIM"] = valid["UIM"]
    <2>1. \A s \in Asked : s \in Services /\ s # "UIM" /\ "UIM" \in Services
      BY DEF Asked, Services
    <2> QED
      BY <2>1, OpenAllocates, AllocatedTypes DEF OpenWorks
  <1>3. PICK t \in opens : OpenEffect(t)
    BY OpenEffects DEF OpenWorks
  <1>4. CASE UNCHANGED device
    BY <1>1, <1>2, <1>4, CardsKept
  <1>5. CASE ~UNCHANGED device
    <2>1. device \notin {"open", "gone"} /\ device' \in {"created", "open"}
      BY <1>3, <1>5 DEF OpenEffect, OpeningInv, Opening, IsOpen
    <2>2. Told' = Told /\ Told = {} /\ ~valid["UIM"] /\ selected = 0
      BY <1>1, <2>1 DEF CardsInv, Told
    <2> QED
      BY <1>1, <1>2, <2>1, <2>2 DEF CardsInv, LastTold
  <1> QED
    BY <1>4, <1>5

LEMMA CardsTick == ASSUME CardsInv, Tick PROVE CardsInv'
  <1> USE DEF halVars, deviceVars, loopVars, slotVars, restVars
  <1>1. UNCHANGED <<inbox, cards, selected, slotHandler, missed, device, valid>>
    BY DEF Tick, StateDown, StateDeactivated, StateDeregistered, StateRegistered, TransitionDown,
           TransitionDeactivated, SelectDeviceSlot
  <1>2. UNCHANGED uimTasks \/ (~valid["UIM"] /\ uimTasks' = uimTasks \cup {"alloc"})
    BY DEF Tick, StateDown, StateDeactivated, StateDeregistered, StateRegistered, TransitionDown,
           TransitionDeactivated, SelectDeviceSlot
  <1>3. CASE UNCHANGED uimTasks
    BY <1>1, <1>3, CardsKept
  <1>4. CASE ~valid["UIM"] /\ uimTasks' = uimTasks \cup {"alloc"}
    <2>1. Told' = Told /\ LastTold' = LastTold
      BY <1>1 DEF Told, LastTold
    <2> QED
      BY <1>1, <1>4, <2>1 DEF CardsInv
  <1> QED
    BY <1>2, <1>3, <1>4

LEMMA CardsSlot ==
    ASSUME CardsInv, ClientType, inbox \in Seq(Messages), cards \subseteq Slots, SlotWorks
    PROVE  CardsInv'
  <1> USE DEF deviceVars, loopVars
  <1>1. UNCHANGED <<cards, missed>>
    BY DEF SlotWorks, SlotStep
  <1>2. CASE UimAllocated
    <2>1. UNCHANGED <<inbox, selected, slotHandler, device>> /\ Told' = Told /\ LastTold' = LastTold
      BY <1>1, <1>2 DEF UimAllocated, Told, LastTold
    <2>2. CASE /\ "alloc" \in uimTasks /\ Allocated("UIM")
               /\ uimTasks' = (uimTasks \ {"alloc"}) \cup {"status", "events"}
      <3>1. valid'["UIM"] /\ device = "open"
        BY <2>2, AllocatedTypes DEF Allocated, Services
      <3> QED
        BY <1>1, <2>1, <2>2, <3>1 DEF CardsInv
    <2>3. CASE UNCHANGED valid /\ \E t \in {"alloc", "aborted"} : uimTasks' = uimTasks \ {t}
      BY <1>1, <2>1, <2>3 DEF CardsInv
    <2> QED
      BY <1>2, <2>2, <2>3 DEF UimAllocated
  <1>3. CASE SlotStatusAnswered
    <2>1. UNCHANGED <<selected, slotHandler, device, valid>> /\ uimTasks' = uimTasks \ {"status"}
      BY <1>3 DEF SlotStatusAnswered
    <2>2. valid["UIM"]
      BY <1>3 DEF SlotStatusAnswered, CardsInv
    <2>3. CASE UNCHANGED inbox
      <3>1. Told' = Told /\ LastTold' = LastTold
        BY <1>1, <2>3 DEF Told, LastTold
      <3> QED
        BY <1>1, <2>1, <2>2, <3>1 DEF CardsInv
    <2>4. CASE Arrives([kind |-> "slots", cards |-> cards])
      <3>1. [kind |-> "slots", cards |-> cards] \in SlotMessages
        BY DEF SlotMessages
      <3>2. Told' # {} /\ LastTold'
        BY <1>1, <2>4, <3>1, ToldSlots
      <3> QED
        BY <1>1, <2>1, <2>2, <3>2 DEF CardsInv
    <2> QED
      BY <1>3, <2>3, <2>4 DEF SlotStatusAnswered
  <1>4. CASE SlotEventsRegistered
    <2>1. /\ UNCHANGED <<inbox, selected, device, valid>> /\ uimTasks' = uimTasks \ {"events"}
          /\ slotHandler' \in {slotHandler, TRUE} /\ Told' = Told /\ LastTold' = LastTold
      BY <1>1, <1>4 DEF SlotEventsRegistered, Told, LastTold
    <2>2. valid["UIM"]
      BY <1>4 DEF SlotEventsRegistered, CardsInv
    <2> QED
      BY <1>1, <2>1, <2>2 DEF CardsInv
  <1>5. CASE SlotMessage
    <2>1. /\ UNCHANGED <<slotHandler, uimTasks, device, valid>>
          /\ inbox # <<>> /\ inbox' = Tail(inbox) /\ Head(inbox).kind = "slots"
      BY <1>5 DEF SlotMessage
    <2>2. Told # {}
      <3>1. 1 \in 1..Len(inbox) /\ inbox[1] = Head(inbox)
        BY <2>1 DEF Messages
      <3> QED
        BY <2>1, <3>1 DEF Told
    <2>3. selected' = 0 \/ selected' \in Head(inbox).cards
      BY <1>5 DEF SlotMessage, SelectSlotAndNotify, Chooses
    <2>4. LastTold => LastTold' /\ (Told' = {} => Head(inbox).cards = cards)
      BY <1>1, <2>1, ToldLeave
    <2> QED
      BY <1>1, <2>1, <2>2, <2>3, <2>4 DEF CardsInv
  <1> QED
    BY <1>2, <1>3, <1>4, <1>5 DEF SlotWorks, SlotStep

LEMMA CardsRegistration ==
    ASSUME CardsInv, inbox \in Seq(Messages), network \in Networks, RegistrationWorks
    PROVE  CardsInv'
  <1>1. UNCHANGED <<device, valid, cards, missed, selected, slotHandler, uimTasks>>
    BY DEF RegistrationWorks, RegistrationStep, deviceVars, slotVars
  <1>2. CASE UNCHANGED inbox
    BY <1>1, <1>2, CardsKept
  <1>3. CASE (Told = {} <=> Told' = {}) /\ (LastTold => LastTold')
    BY <1>1, <1>3 DEF CardsInv
  <1>4. ASSUME Arrives([kind |-> "read", reg |-> network.reg, roam |-> network.roam])
        PROVE  CardsInv'
    <2>1. [kind |-> "read", reg |-> network.reg, roam |-> network.roam] \in NetworkMessages
      BY DEF Networks, NetworkMessages
    <2>2. Told' = Told /\ \A i \in Told : inbox'[i] = inbox[i]
      BY <1>4, <2>1, ToldNews
    <2> QED
      BY <1>1, <1>3, <2>2 DEF LastTold
  <1>5. CASE RegistrationMessage
    <2>1. inbox # <<>> /\ inbox' = Tail(inbox) /\ Head(inbox).kind # "slots"
      BY <1>5 DEF RegistrationMessage
    <2> QED
      BY <1>1, <1>3, <2>1, ToldLeave
  <1> QED
    BY <1>2, <1>4, <1>5 DEF RegistrationWorks, RegistrationStep, ReadAnswered, RetryRead

LEMMA CardsRemoval == ASSUME CardsInv, ReleaseClients \/ DeviceClosed PROVE CardsInv'
  <1>1. ~valid'["UIM"]
    BY DEF ReleaseClients, DeviceClosed, Services
  <1>2. uimTasks' \subseteq {"aborted"}
    BY DEF ReleaseClients, DeviceClosed, AbortRequests
  <1>3. CASE ReleaseClients
    <2>1. Told' = {} /\ ~slotHandler' /\ device' = "closing"
      BY <1>3 DEF ReleaseClients, Told
    <2> QED
      BY <1>1, <1>2, <2>1 DEF CardsInv
  <1>4. CASE DeviceClosed
    <2>1. ~valid["UIM"] /\ device' = "none" /\ selected' = 0 /\ UNCHANGED <<slotHandler, inbox>>
      BY <1>4 DEF DeviceClosed, CardsInv, loopVars
    <2>2. Told' = {} /\ ~slotHandler'
      BY <2>1 DEF CardsInv, Told
    <2> QED
      BY <1>1, <1>2, <2>1, <2>2 DEF CardsInv
  <1> QED
    BY <1>3, <1>4

LEMMA CardsEnvironment ==
    ASSUME CardsInv, inbox \in Seq(Messages), cards \subseteq Slots, Environment PROVE CardsInv'
  <1> USE DEF smVars, deviceVars, loopVars, slotVars, restVars
  <1>1. CASE Unplug \/ Plug \/ \E w \in Writers : SetsEnable(w)
    <2>1. /\ UNCHANGED <<inbox, cards, selected, slotHandler, uimTasks, missed, valid>>
          /\ device' = device \/ (device = "open" /\ device' = "gone")
      BY <1>1 DEF Unplug, Plug, SetsEnable
    <2> QED
      BY <2>1, CardsKept
  <1>2. ASSUME NEW s \in Slots, CardChanges(s) PROVE CardsInv'
    <2>1. UNCHANGED <<selected, slotHandler, uimTasks, device, valid>>
      BY <1>2 DEF CardChanges
    <2>2. CASE slotHandler /\ device = "open"
      <3>1. [kind |-> "slots", cards |-> cards'] \in SlotMessages
        BY <1>2 DEF CardChanges, SlotMessages
      <3>2. Told' # {} /\ LastTold'
        BY <1>2, <2>2, <3>1, ToldSlots DEF CardChanges
      <3> QED
        BY <2>1, <2>2, <3>2 DEF CardsInv
    <2>3. CASE ~(slotHandler /\ device = "open")
      <3>1. /\ Told' = Told /\ missed' = (missed \/ (valid["UIM"] /\ "status" \notin uimTasks))
        BY <1>2, <2>3 DEF CardChanges, Told
      <3>2. device = "open" /\ ~missed' => selected = 0 /\ Told = {}
        BY <2>3, <3>1 DEF CardsInv
      <3>3. Told' = {} => LastTold'
        BY DEF LastTold
      <3> QED
        BY <2>1, <3>1, <3>2, <3>3 DEF CardsInv
    <2> QED
      BY <2>2, <2>3
  <1>3. ASSUME NEW n \in Networks, NetworkChanges(n) PROVE CardsInv'
    <2>1. UNCHANGED <<cards, missed, selected, slotHandler, uimTasks, device, valid>>
      BY <1>3 DEF NetworkChanges
    <2>2. CASE UNCHANGED inbox
      BY <2>1, <2>2, CardsKept
    <2>3. CASE Arrives([kind |-> "serving", reg |-> n.reg, roam |-> n.roam])
      <3>1. [kind |-> "serving", reg |-> n.reg, roam |-> n.roam] \in NetworkMessages
        BY DEF Networks, NetworkMessages
      <3>2. Told' = Told /\ \A i \in Told : inbox'[i] = inbox[i]
        BY <2>3, <3>1, ToldNews
      <3>3. LastTold => LastTold'
        BY <2>1, <3>2 DEF LastTold
      <3> QED
        BY <2>1, <3>2, <3>3 DEF CardsInv
    <2> QED
      BY <1>3, <2>2, <2>3 DEF NetworkChanges
  <1> QED
    BY <1>1, <1>2, <1>3 DEF Environment

LEMMA CardsNext ==
    ASSUME SlotInv, ClientInv, OpeningInv, CardsInv, [Next]_vars PROVE CardsInv'
  <1>1. inbox \in Seq(Messages) /\ cards \subseteq Slots /\ network \in Networks /\ ClientType
    BY DEF SlotInv, Messages, ClientInv
  <1>2. CASE UNCHANGED vars
    BY <1>2, CardsKept DEF vars, smVars, deviceVars, loopVars, slotVars
  <1> QED
    BY <1>1, <1>2, CardsTick, CardsOpen, CardsSlot, CardsRegistration, CardsRemoval,
       CardsEnvironment DEF Next

(* The selected slot holds a card, once all messages are handled, unless   *)
(* the slots changed between the status read and the connection of the     *)
(* handler.                                                                *)
THEOREM SelectedHoldsCardCorrect == Spec => []SelectedHoldsCard
  <1>1. CardsInv => SelectedHoldsCard
    <2>1. ~Waiting({"slots"}) => Told = {}
      BY DEF Waiting, Told
    <2> QED
      BY <2>1 DEF CardsInv, SelectedHoldsCard
  <1>2. Init => SlotInv /\ ClientInv /\ OpeningInv /\ CardsInv
    BY SlotInit, ClientInit, OpeningInit, CardsInit
  <1>3. SlotInv /\ ClientInv /\ OpeningInv /\ CardsInv /\ [Next]_vars
        => (SlotInv /\ ClientInv /\ OpeningInv /\ CardsInv)'
    BY SlotNext, ClientNext, OpeningNext, CardsNext DEF ClientInv
  <1> QED
    BY <1>1, <1>2, <1>3, PTL DEF Spec

-----------------------------------------------------------------------------
(* The answer of the open task                                             *)

\* On a device that is not open, a task that opens it owes the answer.
OwedInv ==
    /\ OpenIsOwed
    /\ detected /\ open = "INPROGRESS" /\ ~IsOpen => Opening # {}

\* Open task t reports, goes on, or ends without a report on a closed device.
OwedEffect(t) ==
    \/ open' # "INPROGRESS"
    \/ /\ UNCHANGED open
       /\ \E q : /\ opens' = (opens \ {t}) \cup {q}
                 /\ t.step \in {"new", "opening"} => q.step = "opening" \/ device' = "open"
    \/ /\ UNCHANGED <<open, device>> /\ device = "none"
       /\ opens' = opens \ {t} /\ t.step \notin {"new", "opening"}

LEMMA OwedWaits ==
    ASSUME NEW t, NEW u, {"step", "on"} \subseteq DOMAIN u, NEW step, Waits(t, u, step),
           t.step \in {"new", "opening"} => step = "opening" \/ device' = "open"
    PROVE  OwedEffect(t)
  <1>1. PICK q : opens' = (opens \ {t}) \cup {q} /\ q.step = step
    BY WaitsGoesOn
  <1>2. UNCHANGED open
    BY DEF Waits
  <1> QED
    BY <1>1, <1>2 DEF OwedEffect

LEMMA OwedSteps ==
    ASSUME NEW t, NEW u, {"step", "on"} \subseteq DOMAIN u,
           \/ UNCHANGED device /\ t.step \notin {"new", "opening"}
           \/ device # "none" /\ device' = "open",
           Notify(t, u) \/ FromNas(t, u) \/ FromWds(t, u) \/ FromDms(t, u)
    PROVE  OwedEffect(t)
  <1>1. ASSUME NEW s, Waits(t, u, s) \/ Asks(t, u, s) PROVE OwedEffect(t)
    <2>1. CASE Waits(t, u, s)
      BY <2>1, OwedWaits
    <2>2. CASE Dropped(t) /\ device = "none"
      BY <2>2 DEF Dropped, OwedEffect
    <2> QED
      BY <1>1, <2>1, <2>2 DEF Asks
  <1>2. CASE Notify(t, u)
    BY <1>2 DEF Notify, OpenStatusCB, OwedEffect
  <1>3. CASE FromNas(t, u)
    BY <1>1, <1>2, <1>3 DEF FromNas
  <1>4. CASE FromWds(t, u)
    BY <1>1, <1>3, <1>4 DEF FromWds
  <1>5. CASE FromDms(t, u)
    BY <1>1, <1>5 DEF FromDms
  <1> QED
    BY <1>2, <1>3, <1>4, <1>5

LEMMA OwedNotify == ASSUME NEW t, NEW u, Notify(t, u) PROVE OwedEffect(t)
  BY DEF Notify, OpenStatusCB, OwedEffect

LEMMA OwedAnswer ==
    ASSUME ClientType, NEW t \in opens,
           \/ DeviceNew(t) \/ DeviceOpened(t) \/ DmsAllocated(t) \/ RevisionRead(t)
           \/ VersionRead(t) \/ IdsRead(t) \/ ModeRead(t) \/ WdsAllocated(t) \/ NasAllocated(t)
    PROVE  OwedEffect(t)
  <1>1. {"step", "on", "ready", "online"} \subseteq DOMAIN t
    BY DEF ClientType
  <1>2. /\ \A b : {"step", "on"} \subseteq DOMAIN [t EXCEPT !.ready = b]
        /\ \A b : {"step", "on"} \subseteq DOMAIN [t EXCEPT !.online = b]
    BY <1>1
  <1>3. CASE DeviceNew(t)
    BY <1>1, <1>3, OwedWaits, OwedNotify DEF DeviceNew
  <1>4. CASE DeviceOpened(t)
    BY <1>2, <1>4, OwedSteps, OwedNotify DEF DeviceOpened
  <1>5. CASE DmsAllocated(t) \/ RevisionRead(t) \/ VersionRead(t) \/ IdsRead(t)
    <2>1. t.step \notin {"new", "opening"}
      BY <1>5 DEF DmsAllocated, RevisionRead, VersionRead, IdsRead
    <2> QED
      BY <1>1, <1>5, <2>1, OwedWaits, OwedNotify DEF DmsAllocated, RevisionRead, VersionRead, IdsRead
  <1>6. CASE ModeRead(t)
    BY <1>2, <1>6, OwedSteps DEF ModeRead
  <1>7. CASE WdsAllocated(t) \/ NasAllocated(t)
    BY <1>1, <1>7, OwedSteps DEF WdsAllocated, NasAllocated
  <1> QED
    BY <1>3, <1>4, <1>5, <1>6, <1>7

LEMMA OwedInit == Init => OwedInv
  BY DEF Init, OwedInv, OpenIsOwed

\* Steps that leave the open tasks, the device and what is waited for alone.
LEMMA OwedKept ==
    ASSUME OwedInv, UNCHANGED <<detected, open, opens>>, IsOpen' = IsOpen
    PROVE  OwedInv'
  BY DEF OwedInv, OpenIsOwed, Opening

\* What is begun owes an answer, and opens the device when it is not open.
LEMMA OwedBegun == ASSUME OpenDevice, UNCHANGED device PROVE OwedInv'
  <1>1. CASE ~present
    BY <1>1 DEF OpenDevice, OpenStatusCB, OwedInv, OpenIsOwed
  <1>2. ASSUME NEW i, opens' = opens \cup {[id |-> i, ready |-> IsOpen, online |-> TRUE,
                                           on |-> TRUE, step |-> FirstStep]}
        PROVE  OwedInv'
    <2> DEFINE r == [id |-> i, ready |-> IsOpen, online |-> TRUE, on |-> TRUE, step |-> FirstStep]
    <2>1. ~IsOpen => r.step = "new"
      BY DEF FirstStep
    <2> HIDE DEF r
    <2>2. opens' = opens \cup {r}
      BY <1>2 DEF r
    <2>3. IsOpen' = IsOpen
      BY DEF IsOpen
    <2> QED
      BY <2>1, <2>2, <2>3 DEF OwedInv, OpenIsOwed, Opening
  <1> QED
    BY <1>1, <1>2 DEF OpenDevice

LEMMA OwedTick == ASSUME OwedInv, Tick PROVE OwedInv'
  <1> USE DEF halVars, deviceVars, openVars
  <1>1. UNCHANGED device /\ IsOpen' = IsOpen
    BY DEF IsOpen, Tick, StateDown, StateDeactivated, StateDeregistered, StateRegistered, TransitionDown,
           TransitionDeactivated
  <1>2. \/ OpenDevice \/ UNCHANGED <<detected, open, opens>>
        \/ ~detected'
    BY DEF Tick, StateDown, StateDeactivated, StateDeregistered, StateRegistered, TransitionDown,
           TransitionDeactivated
  <1> QED
    BY <1>1, <1>2, OwedBegun, OwedKept DEF OwedInv, OpenIsOwed

LEMMA OwedNext == ASSUME OwedInv, OpeningInv, ClientType, [Next]_vars PROVE OwedInv'
  <1> USE DEF smVars, deviceVars, openVars
  <1>1. CASE OpenWorks
    <2>1. UNCHANGED detected
      BY <1>1 DEF OpenWorks, OpenAnswer
    <2>2. PICK t \in opens : OpenEffect(t) /\ OwedEffect(t)
      <3>1. PICK t \in opens :
              \/ DeviceNew(t) \/ DeviceOpened(t) \/ DmsAllocated(t) \/ RevisionRead(t)
              \/ VersionRead(t) \/ IdsRead(t) \/ ModeRead(t) \/ WdsAllocated(t) \/ NasAllocated(t)
        BY <1>1 DEF OpenWorks, OpenAnswer
      <3> QED
        BY <3>1, OwedAnswer, OpenEffectOf
    <2>3. Opening # {} => ~IsOpen
      BY DEF OpeningInv
    <2>4. ~IsOpen' => ~IsOpen
      BY <2>2, <2>3 DEF OpenEffect, IsOpen, Opening
    <2>5. CASE open' # "INPROGRESS"
      BY <2>5 DEF OwedInv, OpenIsOwed
    <2>6. CASE /\ UNCHANGED open
               /\ \E q : /\ opens' = (opens \ {t}) \cup {q}
                         /\ t.step \in {"new", "opening"} => q.step = "opening" \/ device' = "open"
      <3>1. PICK q : /\ opens' = (opens \ {t}) \cup {q}
                     /\ t.step \in {"new", "opening"} => q.step = "opening" \/ device' = "open"
        BY <2>6
      <3>2. opens' # {}
        BY <3>1
      <3>3. Opening # {} /\ ~IsOpen' => Opening' # {}
        <4>1. \A r \in Opening \ {t} : r \in Opening'
          BY <3>1 DEF Opening
        <4>2. t \in Opening /\ ~IsOpen' => q \in Opening'
          BY <3>1 DEF Opening, IsOpen
        <4> QED
          BY <4>1, <4>2
      <3> QED
        BY <2>1, <2>4, <2>6, <3>2, <3>3 DEF OwedInv, OpenIsOwed
    <2>7. CASE /\ UNCHANGED <<open, device>> /\ device = "none"
               /\ opens' = opens \ {t} /\ t.step \notin {"new", "opening"}
      BY <2>1, <2>7 DEF OwedInv, OpenIsOwed, Opening, IsOpen
    <2> QED
      BY <2>2, <2>5, <2>6, <2>7 DEF OwedEffect
  <1>2. CASE SlotWorks
    BY <1>2, OwedKept DEF SlotWorks, SlotStep, UimAllocated, SlotStatusAnswered, SlotEventsRegistered,
                          SlotMessage, IsOpen
  <1>3. CASE RegistrationWorks
    BY <1>3, OwedKept DEF RegistrationWorks, RegistrationStep, IsOpen
  <1>4. CASE ReleaseClients
    <2>1. UNCHANGED <<detected, open>> /\ IsOpen /\ IsOpen' /\ AbortRequests
      BY <1>4 DEF ReleaseClients, IsOpen
    <2>2. opens # {} => opens' # {}
      BY <2>1 DEF AbortRequests
    <2> QED
      BY <2>1, <2>2 DEF OwedInv, OpenIsOwed
  <1>5. CASE DeviceClosed
    BY <1>5 DEF DeviceClosed, OwedInv, OpenIsOwed
  <1>6. CASE Environment
    <2>1. /\ UNCHANGED <<detected, open, opens>>
          /\ UNCHANGED device \/ (device = "open" /\ device' = "gone")
      BY <1>6 DEF Environment, Unplug, Plug, CardChanges, NetworkChanges, SetsEnable, restVars
    <2>2. IsOpen' = IsOpen
      BY <2>1 DEF IsOpen
    <2> QED
      BY <2>1, <2>2, OwedKept
  <1>7. CASE UNCHANGED vars
    BY <1>7, OwedKept DEF vars, IsOpen
  <1> QED
    BY <1>1, <1>2, <1>3, <1>4, <1>5, <1>6, <1>7, OwedTick DEF Next

(* While the state machine waits for a device to open, a task is out that  *)
(* will tell: it never waits in DEACTIVATED for an answer nobody owes.     *)
THEOREM OpenIsOwedCorrect == Spec => []OpenIsOwed
  <1>1. Init => OwedInv /\ OpeningInv /\ ClientInv
    BY OwedInit, OpeningInit, ClientInit
  <1>2. OwedInv /\ OpeningInv /\ ClientInv /\ [Next]_vars => (OwedInv /\ OpeningInv /\ ClientInv)'
    BY OwedNext, OpeningNext, ClientNext DEF ClientInv
  <1>3. OwedInv => OpenIsOwed
    BY DEF OwedInv
  <1> QED
    BY <1>1, <1>2, <1>3, PTL DEF Spec

-----------------------------------------------------------------------------
(* Types.  Those of clients, messages, cards and writers come with the     *)
(* invariants above; the others part by part.                              *)

ControlType ==
    /\ state \in {"DOWN", "DEACTIVATED", "DEREGISTERED", "REGISTERED"}
    /\ detected \in BOOLEAN /\ enable \in BOOLEAN /\ managed \in BOOLEAN /\ apart \in BOOLEAN
    /\ open \in {"NOT_READY", "INPROGRESS", "READY"}
    /\ slot \in {"NOT_READY", "SELECTING", "READY"}
    /\ nas \in {"NOT_REGISTERED", "REGISTERING", "REGISTERED"}

DeviceType ==
    /\ present \in BOOLEAN /\ online \in BOOLEAN /\ asleep \in BOOLEAN
    /\ device \in {"none", "created", "open", "gone", "closing"}
    /\ overlaps \in 0..MaxOverlaps
    /\ unplugs \in 0..MaxUnplugs /\ events \in 0..MaxEvents

SlotType ==
    /\ selected \in {0} \cup Slots /\ slotHandler \in BOOLEAN /\ missed \in BOOLEAN
    /\ uimTasks \subseteq {"alloc", "aborted", "status", "events"}

ReadType ==
    /\ previous \in [reg : {"none", "searching", "registered"}, roam : BOOLEAN]
    /\ serving \in BOOLEAN /\ reads \in Nat /\ failing \in Nat /\ retry \in 0..3

TaskType == opens \subseteq OpenTasks

Typed == ControlType /\ DeviceType /\ SlotType /\ ReadType /\ TaskType

LEMMA TypedInit == Init => Typed
  <1> SUFFICES ASSUME Init PROVE Typed
    OBVIOUS
  <1>1. ControlType
    BY DEF Init, ControlType, ControlInit
  <1>2. 0 \in 0..MaxOverlaps /\ 0 \in 0..MaxUnplugs /\ 0 \in 0..MaxEvents
    BY ConstantsAssumption DEF ConstantsAssumption
  <1>3. DeviceType
    BY <1>2 DEF Init, DeviceType
  <1>4. SlotType /\ TaskType
    BY DEF Init, SlotType, TaskType
  <1>5. ReadType
    <2>1. [reg |-> "none", roam |-> FALSE] \in [reg : {"none", "searching", "registered"}, roam : BOOLEAN]
      OBVIOUS
    <2>2. 0 \in Nat /\ 0 \in 0..3
      OBVIOUS
    <2> QED
      BY <2>1, <2>2 DEF Init, ReadType
  <1> QED
    BY <1>1, <1>3, <1>4, <1>5 DEF Typed

LEMMA TypedOpenDevice ==
    ASSUME ControlType, DeviceType, TaskType, ClientType, OpenDevice
    PROVE  /\ open' \in {"NOT_READY", "INPROGRESS", "READY"}
           /\ enable' \in BOOLEAN /\ managed' \in BOOLEAN /\ apart' \in BOOLEAN
           /\ overlaps' \in 0..MaxOverlaps /\ TaskType'
  <1>1. CASE ~present /\ OpenStatusCB("NOT_READY", FALSE) /\ UNCHANGED openVars
    BY <1>1 DEF OpenStatusCB, ModeReported, openVars, ControlType, DeviceType, TaskType, HalfWritten
  <1>2. CASE present
    <2>1. open' = "INPROGRESS" /\ UNCHANGED <<enable, managed, apart>>
      BY <1>2 DEF OpenDevice, enableVars, controlVars
    <2>2. overlaps' \in 0..MaxOverlaps
      BY <1>2, ConstantsAssumption DEF OpenDevice, DeviceType, ConstantsAssumption
    <2>3. FirstStep \in OpenSteps /\ IsOpen \in BOOLEAN
      BY DEF FirstStep, OpenSteps, IsOpen
    <2>4. PICK i \in 1..MaxTasks :
            opens' = opens \cup {[id |-> i, ready |-> IsOpen, online |-> TRUE, on |-> TRUE,
                                  step |-> FirstStep]}
      BY <1>2 DEF OpenDevice
    <2>5. [id |-> i, ready |-> IsOpen, online |-> TRUE, on |-> TRUE, step |-> FirstStep] \in OpenTasks
      BY <2>3 DEF OpenTasks
    <2>6. TaskType'
      BY <2>4, <2>5 DEF TaskType
    <2> QED
      BY <2>1, <2>2, <2>6 DEF ControlType
  <1> QED
    BY <1>1, <1>2 DEF OpenDevice

LEMMA TypedTick == ASSUME Typed, ClientType, Tick PROVE Typed'
  <1> USE DEF halVars, deviceVars, loopVars, openVars, slotVars, regVars, restVars, enableVars,
              controlVars
  <1>1. UNCHANGED <<present, device, online, asleep, unplugs, events, selected, slotHandler, missed>>
    BY DEF Tick, StateDown, StateDeactivated, StateDeregistered, StateRegistered, TransitionDown,
           TransitionDeactivated, SelectDeviceSlot
  <1>2. \/ OpenDevice
        \/ UNCHANGED <<open, enable, managed, apart, opens, overlaps>>
    BY DEF Tick, StateDown, StateDeactivated, StateDeregistered, StateRegistered, TransitionDown,
           TransitionDeactivated
  <1>3. uimTasks' \subseteq uimTasks \cup {"alloc"} /\ slot' \in {"NOT_READY", "SELECTING", "READY"}
    BY DEF Tick, StateDown, StateDeactivated, StateDeregistered, StateRegistered, TransitionDown,
           TransitionDeactivated, SelectDeviceSlot, Typed, ControlType
  <1>4. /\ state' \in {"DOWN", "DEACTIVATED", "DEREGISTERED", "REGISTERED"}
        /\ nas' \in {"NOT_REGISTERED", "REGISTERING", "REGISTERED"}
    BY DEF Tick, StateDown, StateDeactivated, StateDeregistered, StateRegistered, TransitionDown,
           TransitionDeactivated, MonitorRegistration, Typed, ControlType
  <1>5. detected' \in {detected, present}
    BY DEF Tick, StateDown, StateDeactivated, StateDeregistered, StateRegistered
  <1>6. MonitorRegistration \/ UNCHANGED regVars
    BY DEF Tick, StateDown, StateDeactivated, StateDeregistered, StateRegistered, TransitionDown,
           TransitionDeactivated
  <1>7. ReadType'
    <2>1. CASE UNCHANGED regVars
      BY <2>1 DEF Typed, ReadType
    <2>2. CASE MonitorRegistration
      <3>1. UNCHANGED <<previous, failing, retry>> /\ serving' \in {serving, TRUE}
        BY <2>2 DEF MonitorRegistration
      <3>2. reads' = reads \/ reads' = reads + 1
        BY <2>2 DEF MonitorRegistration
      <3>3. reads' \in Nat
        BY <3>2 DEF Typed, ReadType
      <3> QED
        BY <3>1, <3>3 DEF Typed, ReadType
    <2> QED
      BY <1>6, <2>1, <2>2
  <1>8. SlotType'
    BY <1>1, <1>3 DEF Typed, SlotType
  <1>9. /\ open' \in {"NOT_READY", "INPROGRESS", "READY"}
        /\ enable' \in BOOLEAN /\ managed' \in BOOLEAN /\ apart' \in BOOLEAN
        /\ overlaps' \in 0..MaxOverlaps /\ TaskType'
    BY <1>2, TypedOpenDevice DEF Typed, ControlType, DeviceType, TaskType
  <1>10. ControlType'
    BY <1>3, <1>4, <1>5, <1>9 DEF Typed, ControlType, DeviceType
  <1>11. DeviceType'
    BY <1>1, <1>9 DEF Typed, DeviceType
  <1> QED
    BY <1>7, <1>8, <1>9, <1>10, <1>11 DEF Typed

\* An open task writes nothing but a task, a status and a mode.
TypedEffect ==
    /\ opens' \subseteq OpenTasks /\ open' \in {"NOT_READY", "INPROGRESS", "READY"}
    /\ enable' \in BOOLEAN /\ managed' \in BOOLEAN /\ apart' \in BOOLEAN

LEMMA TypedReports ==
    ASSUME ControlType, TaskType, NEW t, NEW u \in OpenTasks, Notify(t, u) \/ Dropped(t)
    PROVE  TypedEffect
  <1>1. u.online \in BOOLEAN
    BY DEF OpenTasks
  <1> QED
    BY <1>1 DEF Notify, Dropped, OpenStatusCB, ModeReported, HalfWritten, TypedEffect, ControlType,
                TaskType, enableVars, controlVars

LEMMA TypedWaits ==
    ASSUME ControlType, TaskType, valid' \in [Services -> BOOLEAN], NEW t, NEW u \in OpenTasks,
           NEW step \in OpenSteps, Waits(t, u, step)
    PROVE  TypedEffect
  <1>1. valid'["DMS"] \in BOOLEAN
    BY DEF Services
  <1>2. \A b \in BOOLEAN : [u EXCEPT !.step = step, !.on = b] \in OpenTasks
    BY DEF OpenTasks
  <1>3. opens' \subseteq OpenTasks
    BY <1>1, <1>2 DEF Waits, TaskType
  <1> QED
    BY <1>3 DEF Waits, TypedEffect, ControlType, enableVars, controlVars

LEMMA TypedSteps ==
    ASSUME ControlType, TaskType, valid' \in [Services -> BOOLEAN], NEW t, NEW u \in OpenTasks,
           FromNas(t, u) \/ FromWds(t, u) \/ FromDms(t, u)
    PROVE  TypedEffect
  <1>1. {"NAS", "WDS", "DMS", "revision"} \subseteq OpenSteps
    BY DEF OpenSteps
  <1>2. ASSUME NEW s \in OpenSteps, Asks(t, u, s) PROVE TypedEffect
    BY <1>2, TypedWaits, TypedReports DEF Asks
  <1>3. CASE FromNas(t, u)
    BY <1>1, <1>2, <1>3, TypedReports DEF FromNas
  <1>4. CASE FromWds(t, u)
    BY <1>1, <1>2, <1>3, <1>4 DEF FromWds
  <1>5. CASE FromDms(t, u)
    BY <1>1, <1>2, <1>5, TypedWaits DEF FromDms
  <1> QED
    BY <1>3, <1>4, <1>5

LEMMA TypedAnswer ==
    ASSUME ControlType, TaskType, valid' \in [Services -> BOOLEAN], online \in BOOLEAN, NEW t \in opens,
           \/ DeviceNew(t) \/ DeviceOpened(t) \/ DmsAllocated(t) \/ RevisionRead(t)
           \/ VersionRead(t) \/ IdsRead(t) \/ ModeRead(t) \/ WdsAllocated(t) \/ NasAllocated(t)
    PROVE  TypedEffect /\ device' \in {device, "created", "open"}
  <1>1. t \in OpenTasks
    BY DEF TaskType
  <1>2. /\ \A b \in BOOLEAN : [t EXCEPT !.ready = b] \in OpenTasks
        /\ \A b \in BOOLEAN : [t EXCEPT !.online = b] \in OpenTasks
    BY <1>1 DEF OpenTasks
  <1>3. {"opening", "revision", "version", "ids", "mode"} \subseteq OpenSteps
    BY DEF OpenSteps
  <1>4. CASE DeviceNew(t)
    BY <1>1, <1>2, <1>3, <1>4, TypedWaits, TypedReports DEF DeviceNew
  <1>5. CASE DeviceOpened(t)
    BY <1>2, <1>5, TypedSteps, TypedReports DEF DeviceOpened
  <1>6. CASE DmsAllocated(t)
    BY <1>1, <1>3, <1>6, TypedWaits, TypedReports DEF DmsAllocated
  <1>7. CASE RevisionRead(t) \/ VersionRead(t) \/ IdsRead(t)
    BY <1>1, <1>3, <1>7, TypedWaits DEF RevisionRead, VersionRead, IdsRead
  <1>8. CASE ModeRead(t)
    <2>1. PICK m \in {online /\ device = "open" /\ t.on, FALSE} : FromWds(t, [t EXCEPT !.online = m])
      BY <1>8 DEF ModeRead
    <2>2. m \in BOOLEAN
      BY <2>1
    <2> QED
      BY <1>2, <1>8, <2>1, <2>2, TypedSteps DEF ModeRead
  <1>9. CASE WdsAllocated(t) \/ NasAllocated(t)
    BY <1>1, <1>9, TypedSteps, TypedReports DEF WdsAllocated, NasAllocated
  <1> QED
    BY <1>4, <1>5, <1>6, <1>7, <1>8, <1>9

LEMMA TypedOpen == ASSUME Typed, ClientType', OpenWorks PROVE Typed'
  <1>1. UNCHANGED <<state, slot, nas, slotVars, regVars, restVars, present, online, asleep,
                    detected, overlaps>>
    BY DEF OpenWorks, OpenAnswer
  <1>2. PICK t \in opens :
          \/ DeviceNew(t) \/ DeviceOpened(t) \/ DmsAllocated(t) \/ RevisionRead(t)
          \/ VersionRead(t) \/ IdsRead(t) \/ ModeRead(t) \/ WdsAllocated(t) \/ NasAllocated(t)
    BY DEF OpenWorks, OpenAnswer
  <1>3. TypedEffect /\ device' \in {device, "created", "open"}
    BY <1>2, TypedAnswer DEF Typed, ClientType, DeviceType
  <1>4. ControlType' /\ TaskType'
    BY <1>1, <1>3 DEF Typed, ControlType, TaskType, TypedEffect
  <1>5. DeviceType' /\ SlotType' /\ ReadType'
    BY <1>1, <1>3 DEF Typed, DeviceType, SlotType, ReadType, slotVars, regVars, restVars
  <1> QED
    BY <1>4, <1>5 DEF Typed

LEMMA TypedSlot == ASSUME Typed, SlotInv, SlotWorks PROVE Typed'
  <1> USE DEF deviceVars, loopVars, slotVars
  <1>1. UNCHANGED <<state, enable, managed, apart, opens, overlaps, regVars, unplugs, events, missed,
                    detected, open, nas, present, online, device, asleep>>
    BY DEF SlotWorks, SlotStep, UimAllocated, SlotStatusAnswered, SlotEventsRegistered, SlotMessage,
           openVars, controlVars, Allocated
  <1>2. uimTasks' \subseteq uimTasks \cup {"status", "events"} /\ slotHandler' \in {slotHandler, TRUE}
    BY DEF SlotWorks, SlotStep, UimAllocated, SlotStatusAnswered, SlotEventsRegistered, SlotMessage
  <1>3. slot' \in {slot, "READY", "NOT_READY"} /\ selected' \in {0} \cup Slots
    <2>1. CASE SlotMessage
      <3>1. Head(inbox).cards \subseteq Slots
        BY <2>1 DEF SlotInv, SlotMessage, SlotMessages, NetworkMessages
      <3>2. SelectSlotAndNotify(Head(inbox).cards)
        BY <2>1 DEF SlotMessage
      <3> QED
        BY <3>1, <3>2 DEF SelectSlotAndNotify, Chooses, SlotStatusCB, Typed, SlotType
    <2>2. CASE UimAllocated \/ SlotStatusAnswered \/ SlotEventsRegistered
      BY <2>2 DEF UimAllocated, SlotStatusAnswered, SlotEventsRegistered, SlotStatusCB, Typed, SlotType
    <2> QED
      BY <2>1, <2>2 DEF SlotWorks, SlotStep
  <1>4. ControlType'
    BY <1>1, <1>3 DEF Typed, ControlType
  <1>5. DeviceType' /\ TaskType'
    BY <1>1 DEF Typed, DeviceType, TaskType
  <1>6. SlotType' /\ ReadType'
    BY <1>1, <1>2, <1>3 DEF Typed, SlotType, ReadType, regVars
  <1> QED
    BY <1>4, <1>5, <1>6 DEF Typed

LEMMA TypedRegistration == ASSUME Typed, SlotInv, RegistrationWorks PROVE Typed'
  <1>1. UNCHANGED <<state, enable, managed, apart, opens, overlaps, slotVars, unplugs, events, missed,
                    detected, open, slot, present, online, device>>
    BY DEF RegistrationWorks, RegistrationStep, openVars, controlVars, deviceVars
  <1>2. ASSUME NEW m \in NetworkMessages, ReadHandled(m) \/ IndicationHandled(m)
        PROVE  /\ nas' \in {nas, "NOT_REGISTERED", "REGISTERING", "REGISTERED"}
               /\ previous' \in [reg : {"none", "searching", "registered"}, roam : BOOLEAN]
               /\ retry' \in 0..3 /\ asleep' \in BOOLEAN
    <2>1. m.reg \in RegistrationStates /\ m.roam \in BOOLEAN
      BY RegistrationsAssumption DEF NetworkMessages, RegistrationsAssumption
    <2>2. CASE ReadHandled(m)
      <3>1. previous' \in {[reg |-> "registered", roam |-> m.roam], [previous EXCEPT !.roam = m.roam]}
        BY <2>2 DEF ReadHandled
      <3>2. previous' \in [reg : {"none", "searching", "registered"}, roam : BOOLEAN]
        BY <2>1, <3>1 DEF Typed, ReadType
      <3>3. MinOf(retry + 1, 3) \in 0..3
        BY DEF MinOf, Typed, ReadType
      <3>4. asleep' \in {asleep, TRUE} /\ retry' \in {MinOf(retry + 1, 3), 0}
        BY <2>2 DEF ReadHandled
      <3>5. retry' \in 0..3
        BY <3>3, <3>4
      <3> QED
        BY <2>2, <3>2, <3>4, <3>5 DEF ReadHandled, RegistrationStatusCB, Typed, DeviceType
    <2>3. CASE IndicationHandled(m)
      <3>1. Shown(m.reg) \in {"none", "searching", "registered"}
        BY <2>1 DEF Shown, RegistrationStates
      <3>2. previous' = [reg |-> Shown(m.reg), roam |-> m.roam]
        BY <2>3 DEF IndicationHandled
      <3> QED
        BY <2>1, <2>3, <3>1, <3>2 DEF IndicationHandled, RegistrationStatusCB, Typed, ReadType, DeviceType
    <2> QED
      BY <1>2, <2>2, <2>3
  <1>3. /\ nas' \in {nas, "NOT_REGISTERED", "REGISTERING", "REGISTERED"}
        /\ ReadType' /\ asleep' \in BOOLEAN
    <2>1. CASE ReadAnswered \/ RetryRead
      <3>1. UNCHANGED <<previous, retry>> /\ serving' \in {serving, TRUE} /\ asleep' \in {asleep, FALSE}
        BY <2>1 DEF ReadAnswered, RetryRead
      <3>2. nas' \in {nas, "NOT_REGISTERED", "REGISTERING", "REGISTERED"}
        BY <2>1 DEF ReadAnswered, RetryRead, RegistrationStatusCB
      <3>3. reads' \in Nat
        BY <2>1 DEF ReadAnswered, RetryRead, Typed, ReadType
      <3>4. failing' \in Nat
        BY <2>1 DEF ReadAnswered, RetryRead, Typed, ReadType
      <3> QED
        BY <3>1, <3>2, <3>3, <3>4 DEF Typed, ReadType, DeviceType
    <2>2. CASE RegistrationMessage
      <3>1. Head(inbox) \in NetworkMessages /\ (ReadHandled(Head(inbox)) \/ IndicationHandled(Head(inbox)))
        BY <2>2 DEF RegistrationMessage, SlotInv, SlotMessages
      <3>2. UNCHANGED <<serving, reads, failing>>
        BY <2>2 DEF RegistrationMessage
      <3> QED
        BY <1>2, <3>1, <3>2 DEF Typed, ReadType
    <2> QED
      BY <2>1, <2>2 DEF RegistrationWorks, RegistrationStep
  <1>4. ControlType' /\ SlotType'
    BY <1>1, <1>3 DEF Typed, ControlType, SlotType, slotVars
  <1>5. DeviceType' /\ TaskType'
    BY <1>1, <1>3 DEF Typed, DeviceType, TaskType
  <1> QED
    BY <1>3, <1>4, <1>5 DEF Typed

LEMMA TypedAborted ==
    ASSUME Typed, AbortRequests
    PROVE  TaskType' /\ uimTasks' \subseteq {"alloc", "aborted", "status", "events"}
  <1>1. \A t \in OpenTasks : [t EXCEPT !.on = FALSE] \in OpenTasks
    BY DEF OpenTasks
  <1> QED
    BY <1>1 DEF AbortRequests, Typed, TaskType

LEMMA TypedRemoval == ASSUME Typed, SlotInv, ReleaseClients \/ DeviceClosed PROVE Typed'
  <1>1. TaskType' /\ uimTasks' \subseteq {"alloc", "aborted", "status", "events"}
    BY TypedAborted DEF ReleaseClients, DeviceClosed
  <1>2. Unread \in Nat
    <2>1. Len(inbox) \in Nat
      BY DEF SlotInv
    <2>2. IsFiniteSet(1..Len(inbox))
      BY <2>1, FS_Interval
    <2>3. {i \in 1..Len(inbox) : inbox[i].kind = "read"} \subseteq 1..Len(inbox)
      OBVIOUS
    <2> QED
      BY <2>2, <2>3, FS_Subset, FS_CardinalityType DEF Unread
  <1>3. CASE ReleaseClients
    <2>1. ControlType' /\ DeviceType'
      BY <1>3 DEF ReleaseClients, smVars, enableVars, controlVars, restVars, Typed, ControlType, DeviceType
    <2>2. SlotType' /\ ReadType'
      <3>1. failing' \in Nat
        BY <1>2, <1>3 DEF ReleaseClients, Typed, ReadType
      <3> QED
        BY <1>1, <1>3, <3>1 DEF ReleaseClients, restVars, Typed, SlotType, ReadType
    <2> QED
      BY <1>1, <2>1, <2>2 DEF Typed
  <1>4. CASE DeviceClosed
    <2>1. ControlType'
      BY <1>4 DEF DeviceClosed, enableVars, controlVars, Typed, ControlType
    <2>2. DeviceType'
      BY <1>4 DEF DeviceClosed, loopVars, Typed, DeviceType
    <2>3. SlotType' /\ ReadType'
      BY <1>1, <1>4 DEF DeviceClosed, regVars, Typed, SlotType, ReadType
    <2> QED
      BY <1>1, <2>1, <2>2, <2>3 DEF Typed
  <1> QED
    BY <1>3, <1>4

LEMMA TypedEnvironment == ASSUME Typed, ClientType, EnableInv, Environment PROVE Typed'
  <1> USE DEF deviceVars, loopVars, openVars, slotVars, regVars, restVars, smVars, enableVars,
              controlVars
  <1>1. UNCHANGED <<state, detected, open, slot, nas, opens, overlaps, selected, slotHandler,
                    uimTasks, previous, serving, reads, failing, retry, asleep>>
    BY DEF Environment, Unplug, Plug, CardChanges, NetworkChanges, SetsEnable
  <1>2. /\ present' \in BOOLEAN /\ device' \in {device, "gone"}
        /\ UNCHANGED unplugs \/ (unplugs < MaxUnplugs /\ unplugs' = unplugs + 1)
    BY DEF Environment, Unplug, Plug, CardChanges, NetworkChanges, SetsEnable, Typed, DeviceType
  <1>3. UNCHANGED events \/ (events < MaxEvents /\ events' = events + 1)
    BY DEF Environment, Unplug, Plug, CardChanges, NetworkChanges, SetsEnable, Happens
  <1>4. unplugs' \in 0..MaxUnplugs /\ events' \in 0..MaxEvents
    BY <1>2, <1>3, ConstantsAssumption DEF Typed, DeviceType, ConstantsAssumption
  <1>5. missed' \in BOOLEAN
    <2>1. valid["UIM"] \in BOOLEAN
      BY DEF ClientType, Services
    <2> QED
      BY <2>1 DEF Environment, Unplug, Plug, CardChanges, NetworkChanges, SetsEnable, Typed, SlotType
  <1>6. enable' \in BOOLEAN /\ managed' \in BOOLEAN /\ apart' \in BOOLEAN /\ online' \in BOOLEAN
    <2>1. CASE UNCHANGED <<enable, managed, apart, online>>
      BY <2>1 DEF Typed, ControlType, DeviceType
    <2>2. ASSUME NEW w \in Writers, Flags(w) \/ Finishes(w)
          PROVE  enable' \in BOOLEAN /\ managed' \in BOOLEAN /\ apart' \in BOOLEAN /\ online' \in BOOLEAN
      <3>1. write[w].value \in BOOLEAN
        BY DEF EnableInv, Writes
      <3>2. HalfWritten \in BOOLEAN
        BY DEF HalfWritten
      <3>3. CASE Flags(w)
        BY <3>1, <3>2, <3>3 DEF Flags, Typed, ControlType, DeviceType
      <3>4. CASE Finishes(w)
        BY <3>1, <3>4 DEF Finishes, ModemSet, Typed, ControlType, DeviceType
      <3> QED
        BY <2>2, <3>3, <3>4
    <2>3. \/ UNCHANGED <<enable, managed, apart, online>>
          \/ \E w \in Writers : Flags(w) \/ Finishes(w)
      BY DEF Environment, Unplug, Plug, CardChanges, NetworkChanges, SetsEnable, Checks
    <2> QED
      BY <2>1, <2>2, <2>3
  <1>7. ControlType' /\ TaskType'
    BY <1>1, <1>6 DEF Typed, ControlType, TaskType
  <1>8. DeviceType'
    BY <1>1, <1>2, <1>6, <1>4 DEF Typed, DeviceType
  <1>9. SlotType' /\ ReadType'
    BY <1>1, <1>5 DEF Typed, SlotType, ReadType
  <1> QED
    BY <1>7, <1>8, <1>9 DEF Typed

LEMMA TypedNext ==
    ASSUME Typed, SlotInv, EnableInv, ClientType, ClientType', [Next]_vars PROVE Typed'
  <1>1. CASE UNCHANGED vars
    BY <1>1 DEF vars, smVars, deviceVars, loopVars, openVars, slotVars, regVars, enableVars,
                controlVars, Typed, ControlType, DeviceType, SlotType, ReadType, TaskType
  <1> QED
    BY <1>1, TypedTick, TypedOpen, TypedSlot, TypedRegistration, TypedRemoval, TypedEnvironment
       DEF Next

(* Every variable keeps to its type: tasks, clients, messages, cards,      *)
(* registrations and the fields of the state machine.                      *)
THEOREM TypeCorrect == Spec => []TypeOK
  <1>1. ASSUME Typed, SlotInv, EnableInv, ClientInv PROVE TypeOK
    BY <1>1 DEF Typed, ControlType, DeviceType, SlotType, ReadType, TaskType, SlotInv, EnableInv,
                ClientInv, ClientType, TypeOK, ControlTypeOK
  <1>2. Init => Typed /\ SlotInv /\ EnableInv /\ ClientInv
    BY TypedInit, SlotInit, EnableInit, ClientInit
  <1>3. Typed /\ SlotInv /\ EnableInv /\ ClientInv /\ [Next]_vars
        => (Typed /\ SlotInv /\ EnableInv /\ ClientInv)'
    BY TypedNext, SlotNext, EnableNext, ClientNext DEF ClientInv
  <1> QED
    BY <1>1, <1>2, <1>3, PTL DEF Spec
=============================================================================
