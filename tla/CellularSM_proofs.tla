------------------------- MODULE CellularSM_proofs -------------------------
(***************************************************************************)
(* What holds of CellularSM for every value of its constants: for every    *)
(* set of PDP types, every length of the reconnection wait and every       *)
(* combination of disturbances.  The invariant is proved action by action, *)
(* then carried over to the behaviours of Spec.                            *)
(***************************************************************************)
EXTENDS CellularSM, TLAPS

(* The point at which the thread waits tells the state it is in.           *)
PointsInState ==
    /\ pc \in {"wait", "settle", "startIPv6"} => state = "REGISTERED"
    /\ pc = "stop" => state = "CONNECTED"
    /\ pc = "lost" => state \in {"REGISTERED", "CONNECTED"}

(* Inside the reconnection wait the bound has not been reached.            *)
WaitBelowBound == pc = "wait" => iter < maxWait

(* What is said of the thread alone; only the thread can disturb it.       *)
ThreadInv ==
    /\ ThreadTypes /\ PointsInState /\ WaitBelowBound
    /\ CurrentStateTracks /\ ReconnectWaitDiscipline

Inv == TypeOK /\ ThreadInv

-----------------------------------------------------------------------------
(* Every step keeps Inv                                                    *)

LEMMA InitInv == Init => Inv
  <1> SUFFICES ASSUME Init PROVE Inv
    OBVIOUS
  <1> USE ConstantsAssumption
  <1>1. ThreadTypes /\ StatusTypes
    BY DEF Init, ThreadTypes, StatusTypes, Points, States, AllPdpTypes
  <1>2. FlagTypes
    BY DEF Init, FlagTypes
  <1>3. NetworkTypes
    BY DEF Init, NetworkTypes, AllFamilies, Sessions
  <1>4. RequestTypes
    BY DEF Init, RequestTypes
  <1>5. PointsInState /\ WaitBelowBound /\ CurrentStateTracks
        /\ ReconnectWaitDiscipline
    BY DEF Init, PointsInState, WaitBelowBound, CurrentStateTracks,
           ReconnectWaitDiscipline
  <1> QED BY <1>1, <1>2, <1>3, <1>4, <1>5 DEF Inv, ThreadInv, TypeOK

LEMMA ThreadFrame == ASSUME ThreadInv, UNCHANGED <<threadVars, timerVars>>
                     PROVE  ThreadInv'
  BY DEF ThreadInv, ThreadTypes, PointsInState, WaitBelowBound,
         CurrentStateTracks, ReconnectWaitDiscipline, threadVars, timerVars

LEMMA DownInv == ASSUME Inv, StateDown PROVE Inv'
  <1> USE ConstantsAssumption DEF Inv, StateDown, InState,
          TransitionDeactivated, RequestOpen, UpdatePhyStatus,
          UpdateLinkStatus, threadVars, timerVars, deviceVars, netVars,
          dmlVars, wanVars, modemVars, halVars, sessVars
  <1>1. ThreadInv'
    <2>1. ThreadTypes'
      BY DEF ThreadInv, ThreadTypes, WaitBelowBound, Points, States
    <2>2. (PointsInState /\ WaitBelowBound /\ CurrentStateTracks
          /\ ReconnectWaitDiscipline)'
      BY DEF ThreadInv, ThreadTypes, PointsInState, WaitBelowBound,
             CurrentStateTracks, ReconnectWaitDiscipline
    <2> QED BY <2>1, <2>2 DEF ThreadInv
  <1>2. StatusTypes'
    BY DEF TypeOK, StatusTypes, AllPdpTypes
  <1>3. FlagTypes'
    <2>1. enable' \in BOOLEAN
      BY DEF TypeOK, FlagTypes
    <2>2. /\ ifEnable' = ifEnable /\ upstream' = upstream /\ present' = present
          /\ online' = online /\ cardOk' = cardOk /\ served' = served
          /\ reported' = reported /\ monitored' = monitored
      OBVIOUS
    <2> QED BY <2>1, <2>2 DEF TypeOK, FlagTypes
  <1>4. NetworkTypes'
    BY DEF TypeOK, NetworkTypes, Sessions
  <1>5. RequestTypes'
    BY DEF TypeOK, RequestTypes, Requests
  <1> QED BY <1>1, <1>2, <1>3, <1>4, <1>5 DEF TypeOK, ThreadInv

LEMMA DeactivatedInv == ASSUME Inv, StateDeactivated PROVE Inv'
  <1> USE ConstantsAssumption DEF Inv, StateDeactivated, InState,
          TransitionDown, TransitionDeregistered, RequestSlot,
          UpdatePhyStatus, UpdateLinkStatus, AllFamilies, threadVars,
          timerVars, deviceVars, netVars, dmlVars, wanVars, modemVars,
          halVars, sessVars
  <1>1. ThreadInv'
    <2>1. ThreadTypes'
      BY DEF ThreadInv, ThreadTypes, WaitBelowBound, Points, States
    <2>2. (PointsInState /\ WaitBelowBound /\ CurrentStateTracks
          /\ ReconnectWaitDiscipline)'
      BY DEF ThreadInv, ThreadTypes, PointsInState, WaitBelowBound,
             CurrentStateTracks, ReconnectWaitDiscipline
    <2> QED BY <2>1, <2>2 DEF ThreadInv
  <1>2. StatusTypes'
    BY DEF TypeOK, StatusTypes, AllPdpTypes
  <1>3. FlagTypes'
    BY DEF TypeOK, FlagTypes
  <1>4. NetworkTypes'
    BY DEF TypeOK, NetworkTypes, Sessions
  <1>5. RequestTypes'
    BY DEF TypeOK, RequestTypes, Requests
  <1> QED BY <1>1, <1>2, <1>3, <1>4, <1>5 DEF TypeOK, ThreadInv

LEMMA DeregisteredInv == ASSUME Inv, StateDeregistered PROVE Inv'
  <1> USE ConstantsAssumption DEF Inv, StateDeregistered, InState,
          TransitionDown, TransitionDeactivated, RequestOpen,
          TransitionRegistering, RequestRegistration, UpdatePhyStatus,
          UpdateLinkStatus, AllFamilies, threadVars, timerVars, deviceVars,
          netVars, dmlVars, wanVars, modemVars, halVars, sessVars
  <1>1. ThreadInv'
    <2>1. ThreadTypes'
      BY DEF ThreadInv, ThreadTypes, WaitBelowBound, Points, States
    <2>2. (PointsInState /\ WaitBelowBound /\ CurrentStateTracks
          /\ ReconnectWaitDiscipline)'
      BY DEF ThreadInv, ThreadTypes, PointsInState, WaitBelowBound,
             CurrentStateTracks, ReconnectWaitDiscipline
    <2> QED BY <2>1, <2>2 DEF ThreadInv
  <1>2. StatusTypes'
    BY DEF TypeOK, StatusTypes, AllPdpTypes
  <1>3. FlagTypes'
    <2>1. enable' \in BOOLEAN
      BY DEF TypeOK, FlagTypes
    <2>2. monitored' \in BOOLEAN
      BY DEF TypeOK, FlagTypes
    <2>3. /\ ifEnable' = ifEnable /\ upstream' = upstream /\ present' = present
          /\ online' = online /\ cardOk' = cardOk /\ served' = served
          /\ reported' = reported
      OBVIOUS
    <2> QED BY <2>1, <2>2, <2>3 DEF TypeOK, FlagTypes
  <1>4. NetworkTypes'
    BY DEF TypeOK, NetworkTypes, Sessions
  <1>5. RequestTypes'
    BY DEF TypeOK, RequestTypes, Requests
  <1> QED BY <1>1, <1>2, <1>3, <1>4, <1>5 DEF TypeOK, ThreadInv

LEMMA RegisteredLeavesInv == ASSUME Inv, RegisteredLeaves PROVE Inv'
  <1> USE ConstantsAssumption DEF Inv, RegisteredLeaves, InState,
          TransitionDown, TransitionDeactivated, RequestOpen, UpdatePhyStatus,
          UpdateLinkStatus, AllFamilies, threadVars, timerVars, deviceVars,
          netVars, dmlVars, wanVars, modemVars, halVars, sessVars
  <1>1. ThreadInv'
    <2>1. ThreadTypes'
      BY DEF ThreadInv, ThreadTypes, WaitBelowBound, Points, States
    <2>2. (PointsInState /\ WaitBelowBound /\ CurrentStateTracks
          /\ ReconnectWaitDiscipline)'
      BY DEF ThreadInv, ThreadTypes, PointsInState, WaitBelowBound,
             CurrentStateTracks, ReconnectWaitDiscipline
    <2> QED BY <2>1, <2>2 DEF ThreadInv
  <1>2. StatusTypes'
    BY DEF TypeOK, StatusTypes, AllPdpTypes
  <1>3. FlagTypes'
    <2>1. enable' \in BOOLEAN
      BY DEF TypeOK, FlagTypes
    <2>2. /\ ifEnable' = ifEnable /\ upstream' = upstream /\ present' = present
          /\ online' = online /\ cardOk' = cardOk /\ served' = served
          /\ reported' = reported /\ monitored' = monitored
      OBVIOUS
    <2> QED BY <2>1, <2>2 DEF TypeOK, FlagTypes
  <1>4. NetworkTypes'
    BY DEF TypeOK, NetworkTypes, Sessions
  <1>5. RequestTypes'
    BY DEF TypeOK, RequestTypes, Requests
  <1> QED BY <1>1, <1>2, <1>3, <1>4, <1>5 DEF TypeOK, ThreadInv

LEMMA CreatesProfileInv == ASSUME Inv, RegisteredCreatesProfile PROVE Inv'
  <1> USE ConstantsAssumption DEF Inv, RegisteredCreatesProfile,
          StillRegistered, InState, TransitionRegistered, RequestProfile,
          AllFamilies, threadVars, timerVars, deviceVars, netVars, dmlVars,
          wanVars, modemVars, halVars, sessVars
  <1>1. ThreadInv'
    <2>1. ThreadTypes'
      BY DEF ThreadInv, ThreadTypes, WaitBelowBound, Points, States
    <2>2. (PointsInState /\ WaitBelowBound /\ CurrentStateTracks
          /\ ReconnectWaitDiscipline)'
      BY DEF ThreadInv, ThreadTypes, PointsInState, WaitBelowBound,
             CurrentStateTracks, ReconnectWaitDiscipline
    <2> QED BY <2>1, <2>2 DEF ThreadInv
  <1>2. StatusTypes'
    BY DEF TypeOK, StatusTypes, AllPdpTypes
  <1>3. FlagTypes'
    BY DEF TypeOK, FlagTypes
  <1>4. NetworkTypes'
    BY DEF TypeOK, NetworkTypes, Sessions
  <1>5. RequestTypes'
    BY DEF TypeOK, RequestTypes, Requests
  <1> QED BY <1>1, <1>2, <1>3, <1>4, <1>5 DEF TypeOK, ThreadInv

LEMMA StartsInv == ASSUME Inv, RegisteredStarts PROVE Inv'
  <1> USE ConstantsAssumption DEF Inv, RegisteredStarts, StillRegistered,
          InState, TransitionRegisteredStartNetwork, UpdateLinkStatus,
          threadVars, timerVars, deviceVars, netVars, dmlVars, wanVars,
          modemVars, halVars, sessVars
  <1>1. ThreadInv'
    <2>1. ThreadTypes'
      BY DEF ThreadInv, ThreadTypes, WaitBelowBound, Points, States
    <2>2. (PointsInState /\ WaitBelowBound /\ CurrentStateTracks
          /\ ReconnectWaitDiscipline)'
      BY DEF ThreadInv, ThreadTypes, PointsInState, WaitBelowBound,
             CurrentStateTracks, ReconnectWaitDiscipline
    <2> QED BY <2>1, <2>2 DEF ThreadInv
  <1>2. StatusTypes'
    BY DEF TypeOK, StatusTypes, AllPdpTypes
  <1>3. FlagTypes'
    BY DEF TypeOK, FlagTypes
  <1>4. NetworkTypes'
    BY DEF TypeOK, NetworkTypes, Sessions
  <1>5. RequestTypes'
    BY DEF TypeOK, RequestTypes, Requests
  <1> QED BY <1>1, <1>2, <1>3, <1>4, <1>5 DEF TypeOK, ThreadInv

LEMMA ConnectsInv == ASSUME Inv, RegisteredConnects PROVE Inv'
  <1> USE ConstantsAssumption DEF Inv, RegisteredConnects, StillRegistered,
          InState, TransitionConnected, threadVars, timerVars, deviceVars,
          netVars, dmlVars, wanVars, modemVars, halVars, sessVars
  <1>1. ThreadInv'
    <2>1. ThreadTypes'
      BY DEF ThreadInv, ThreadTypes, WaitBelowBound, Points, States
    <2>2. (PointsInState /\ WaitBelowBound /\ CurrentStateTracks
          /\ ReconnectWaitDiscipline)'
      BY DEF ThreadInv, ThreadTypes, PointsInState, WaitBelowBound,
             CurrentStateTracks, ReconnectWaitDiscipline
    <2> QED BY <2>1, <2>2 DEF ThreadInv
  <1>2. StatusTypes'
    BY DEF TypeOK, StatusTypes, AllPdpTypes
  <1>3. FlagTypes'
    BY DEF TypeOK, FlagTypes
  <1>4. NetworkTypes'
    BY DEF TypeOK, NetworkTypes, Sessions
  <1>5. RequestTypes'
    BY DEF TypeOK, RequestTypes, Requests
  <1> QED BY <1>1, <1>2, <1>3, <1>4, <1>5 DEF TypeOK, ThreadInv

LEMMA WaitInv == ASSUME Inv, WaitSecond PROVE Inv'
  <1> USE ConstantsAssumption DEF Inv, WaitSecond,
          TransitionRegisteredStartNetwork, UpdateLinkStatus, threadVars,
          timerVars, deviceVars, netVars, dmlVars, wanVars, modemVars,
          halVars, sessVars
  <1>1. ThreadInv'
    <2>1. ThreadTypes'
      BY DEF ThreadInv, ThreadTypes, WaitBelowBound, Points, States
    <2>2. (PointsInState /\ WaitBelowBound /\ CurrentStateTracks
          /\ ReconnectWaitDiscipline)'
      BY DEF ThreadInv, ThreadTypes, PointsInState, WaitBelowBound,
             CurrentStateTracks, ReconnectWaitDiscipline
    <2> QED BY <2>1, <2>2 DEF ThreadInv
  <1>2. StatusTypes'
    BY DEF TypeOK, StatusTypes, AllPdpTypes
  <1>3. FlagTypes'
    BY DEF TypeOK, FlagTypes
  <1>4. NetworkTypes'
    BY DEF TypeOK, NetworkTypes, Sessions
  <1>5. RequestTypes'
    BY DEF TypeOK, RequestTypes, Requests
  <1> QED BY <1>1, <1>2, <1>3, <1>4, <1>5 DEF TypeOK, ThreadInv

LEMMA LostInv == ASSUME Inv, RegistrationLostStep PROVE Inv'
  <1> USE ConstantsAssumption DEF Inv, RegistrationLostStep, RegistrationLost,
          threadVars, timerVars, deviceVars, netVars, dmlVars, wanVars,
          modemVars, halVars, sessVars
  <1>1. ThreadInv'
    <2>1. ThreadTypes'
      BY DEF ThreadInv, ThreadTypes, WaitBelowBound, Points, States
    <2>2. (PointsInState /\ WaitBelowBound /\ CurrentStateTracks
          /\ ReconnectWaitDiscipline)'
      BY DEF ThreadInv, ThreadTypes, PointsInState, WaitBelowBound,
             CurrentStateTracks, ReconnectWaitDiscipline
    <2> QED BY <2>1, <2>2 DEF ThreadInv
  <1>2. StatusTypes'
    BY DEF TypeOK, StatusTypes, AllPdpTypes
  <1>3. FlagTypes'
    BY DEF TypeOK, FlagTypes
  <1>4. NetworkTypes'
    BY DEF TypeOK, NetworkTypes, Sessions
  <1>5. RequestTypes'
    BY DEF TypeOK, RequestTypes, Requests
  <1> QED BY <1>1, <1>2, <1>3, <1>4, <1>5 DEF TypeOK, ThreadInv

LEMMA StartNetworksInv == ASSUME Inv, StartNetworks PROVE Inv'
  <1> USE ConstantsAssumption DEF Inv, StartNetworks, StartFamily, Put,
          threadVars, timerVars, deviceVars, netVars, dmlVars, wanVars,
          modemVars, halVars, sessVars
  <1>1. ThreadInv'
    <2>1. ThreadTypes'
      BY DEF ThreadInv, ThreadTypes, WaitBelowBound, Points, States
    <2>2. (PointsInState /\ WaitBelowBound /\ CurrentStateTracks
          /\ ReconnectWaitDiscipline)'
      BY DEF ThreadInv, ThreadTypes, PointsInState, WaitBelowBound,
             CurrentStateTracks, ReconnectWaitDiscipline
    <2> QED BY <2>1, <2>2 DEF ThreadInv
  <1>2. StatusTypes'
    BY DEF TypeOK, StatusTypes, AllPdpTypes
  <1>3. FlagTypes'
    BY DEF TypeOK, FlagTypes
  <1>4. NetworkTypes'
    BY DEF TypeOK, NetworkTypes, Sessions
  <1>5. RequestTypes'
    BY DEF TypeOK, RequestTypes, Requests
  <1> QED BY <1>1, <1>2, <1>3, <1>4, <1>5 DEF TypeOK, ThreadInv

LEMMA ConnectedInv == ASSUME Inv, StateConnected PROVE Inv'
  <1> USE ConstantsAssumption DEF Inv, StateConnected, InState,
          TransitionDown, TransitionDeactivated, RequestOpen, UpdatePhyStatus,
          UpdateLinkStatus, AllFamilies, threadVars, timerVars, deviceVars,
          netVars, dmlVars, wanVars, modemVars, halVars, sessVars
  <1>1. ThreadInv'
    <2>1. ThreadTypes'
      BY DEF ThreadInv, ThreadTypes, WaitBelowBound, Points, States
    <2>2. (PointsInState /\ WaitBelowBound /\ CurrentStateTracks
          /\ ReconnectWaitDiscipline)'
      BY DEF ThreadInv, ThreadTypes, PointsInState, WaitBelowBound,
             CurrentStateTracks, ReconnectWaitDiscipline
    <2> QED BY <2>1, <2>2 DEF ThreadInv
  <1>2. StatusTypes'
    BY DEF TypeOK, StatusTypes, AllPdpTypes
  <1>3. FlagTypes'
    <2>1. enable' \in BOOLEAN
      BY DEF TypeOK, FlagTypes
    <2>2. /\ ifEnable' = ifEnable /\ upstream' = upstream /\ present' = present
          /\ online' = online /\ cardOk' = cardOk /\ served' = served
          /\ reported' = reported /\ monitored' = monitored
      OBVIOUS
    <2> QED BY <2>1, <2>2 DEF TypeOK, FlagTypes
  <1>4. NetworkTypes'
    BY DEF TypeOK, NetworkTypes, Sessions
  <1>5. RequestTypes'
    BY DEF TypeOK, RequestTypes, Requests
  <1> QED BY <1>1, <1>2, <1>3, <1>4, <1>5 DEF TypeOK, ThreadInv

LEMMA StopInv == ASSUME Inv, TransitionConnectedStopNetwork PROVE Inv'
  <1> USE ConstantsAssumption DEF Inv, TransitionConnectedStopNetwork,
          StopSessions, AfterStop, UpdateLinkStatus, threadVars, timerVars,
          deviceVars, netVars, dmlVars, wanVars, modemVars, halVars, sessVars
  <1>1. ThreadInv'
    <2>1. ThreadTypes'
      BY DEF ThreadInv, ThreadTypes, WaitBelowBound, Points, States
    <2>2. (PointsInState /\ WaitBelowBound /\ CurrentStateTracks
          /\ ReconnectWaitDiscipline)'
      BY DEF ThreadInv, ThreadTypes, PointsInState, WaitBelowBound,
             CurrentStateTracks, ReconnectWaitDiscipline
    <2> QED BY <2>1, <2>2 DEF ThreadInv
  <1>2. StatusTypes'
    BY DEF TypeOK, StatusTypes, AllPdpTypes
  <1>3. FlagTypes'
    BY DEF TypeOK, FlagTypes
  <1>4. NetworkTypes'
    BY DEF TypeOK, NetworkTypes, Sessions
  <1>5. RequestTypes'
    BY DEF TypeOK, RequestTypes, Requests
  <1> QED BY <1>1, <1>2, <1>3, <1>4, <1>5 DEF TypeOK, ThreadInv

LEMMA OpenAnswerInv == ASSUME Inv, OpenAnswer PROVE Inv'
  <1> USE ConstantsAssumption DEF Inv, OpenAnswer, Answered,
          DeviceOpenStatusCB, threadVars, timerVars, deviceVars, netVars,
          dmlVars, wanVars, modemVars, halVars, sessVars
  <1>1. ThreadInv'
    BY ThreadFrame
  <1>2. StatusTypes'
    <2>1. open' \in {"NOT_READY", "READY"} /\ device' \in {device, "open"}
      OBVIOUS
    <2> QED BY <2>1 DEF TypeOK, StatusTypes
  <1>3. FlagTypes'
    BY DEF TypeOK, FlagTypes
  <1>4. NetworkTypes'
    BY DEF TypeOK, NetworkTypes, Sessions
  <1>5. RequestTypes'
    BY DEF TypeOK, RequestTypes, Requests
  <1> QED BY <1>1, <1>2, <1>3, <1>4, <1>5 DEF TypeOK, ThreadInv

LEMMA SlotAnswerInv == ASSUME Inv, SlotAnswer PROVE Inv'
  <1> USE ConstantsAssumption DEF Inv, SlotAnswer, Answered, SlotStatusCB,
          threadVars, timerVars, deviceVars, netVars, dmlVars, wanVars,
          modemVars, halVars, sessVars
  <1>1. ThreadInv'
    BY ThreadFrame
  <1>2. StatusTypes'
    BY DEF TypeOK, StatusTypes, AllPdpTypes
  <1>3. FlagTypes'
    BY DEF TypeOK, FlagTypes
  <1>4. NetworkTypes'
    BY DEF TypeOK, NetworkTypes, Sessions
  <1>5. RequestTypes'
    BY DEF TypeOK, RequestTypes, Requests
  <1> QED BY <1>1, <1>2, <1>3, <1>4, <1>5 DEF TypeOK, ThreadInv

LEMMA SlotIndicationInv == ASSUME Inv, SlotIndication PROVE Inv'
  <1> USE ConstantsAssumption DEF Inv, SlotIndication, SlotStatusCB,
          threadVars, timerVars, deviceVars, netVars, dmlVars, wanVars,
          modemVars, halVars, sessVars
  <1>1. ThreadInv'
    BY ThreadFrame
  <1>2. StatusTypes'
    BY DEF TypeOK, StatusTypes, AllPdpTypes
  <1>3. FlagTypes'
    BY DEF TypeOK, FlagTypes
  <1>4. NetworkTypes'
    BY DEF TypeOK, NetworkTypes, Sessions
  <1>5. RequestTypes'
    BY DEF TypeOK, RequestTypes, Requests
  <1> QED BY <1>1, <1>2, <1>3, <1>4, <1>5 DEF TypeOK, ThreadInv

LEMMA RegistrationAnswerInv == ASSUME Inv, RegistrationAnswer PROVE Inv'
  <1> USE ConstantsAssumption DEF Inv, RegistrationAnswer, Answered,
          RegistrationStatusCB, NasAfter, threadVars, timerVars, deviceVars,
          netVars, dmlVars, wanVars, modemVars, halVars, sessVars
  <1>1. ThreadInv'
    BY ThreadFrame
  <1>2. StatusTypes'
    BY DEF TypeOK, StatusTypes, AllPdpTypes
  <1>3. FlagTypes'
    BY DEF TypeOK, FlagTypes
  <1>4. NetworkTypes'
    BY DEF TypeOK, NetworkTypes, Sessions
  <1>5. RequestTypes'
    BY DEF TypeOK, RequestTypes, Requests
  <1> QED BY <1>1, <1>2, <1>3, <1>4, <1>5 DEF TypeOK, ThreadInv

LEMMA ServingSystemInv == ASSUME Inv, ServingSystemIndication PROVE Inv'
  <1> USE ConstantsAssumption DEF Inv, ServingSystemIndication,
          RegistrationStatusCB, NasAfter, NasStatus, threadVars, timerVars,
          deviceVars, netVars, dmlVars, wanVars, modemVars, halVars, sessVars
  <1>1. ThreadInv'
    BY ThreadFrame
  <1>2. StatusTypes'
    BY DEF TypeOK, StatusTypes, AllPdpTypes
  <1>3. FlagTypes'
    BY DEF TypeOK, FlagTypes
  <1>4. NetworkTypes'
    BY DEF TypeOK, NetworkTypes, Sessions
  <1>5. RequestTypes'
    BY DEF TypeOK, RequestTypes, Requests
  <1> QED BY <1>1, <1>2, <1>3, <1>4, <1>5 DEF TypeOK, ThreadInv

LEMMA ProfileAnswerInv == ASSUME Inv, ProfileAnswer PROVE Inv'
  <1> USE ConstantsAssumption DEF Inv, ProfileAnswer, Answered, threadVars,
          timerVars, deviceVars, netVars, dmlVars, wanVars, modemVars,
          halVars, sessVars
  <1>1. ThreadInv'
    BY ThreadFrame
  <1>2. StatusTypes'
    <2>1. pdp' \in AllPdpTypes
      BY DEF TypeOK, StatusTypes
    <2> QED BY <2>1 DEF TypeOK, StatusTypes
  <1>3. FlagTypes'
    BY DEF TypeOK, FlagTypes
  <1>4. NetworkTypes'
    BY DEF TypeOK, NetworkTypes, Sessions
  <1>5. RequestTypes'
    BY DEF TypeOK, RequestTypes, Requests
  <1> QED BY <1>1, <1>2, <1>3, <1>4, <1>5 DEF TypeOK, ThreadInv

LEMMA StartAnswerInv == ASSUME Inv, NEW f \in Family, StartAnswer(f) PROVE Inv'
  <1> USE ConstantsAssumption DEF Inv, StartAnswer, IPReadyCB,
          SessionEventFrame, Put, threadVars, timerVars, deviceVars, netVars,
          dmlVars, wanVars, modemVars, halVars, sessVars
  <1>1. ThreadInv'
    BY ThreadFrame
  <1>2. StatusTypes'
    BY DEF TypeOK, StatusTypes, AllPdpTypes
  <1>3. FlagTypes'
    BY DEF TypeOK, FlagTypes
  <1>4. NetworkTypes'
    BY DEF TypeOK, NetworkTypes, Sessions
  <1>5. RequestTypes'
    BY DEF TypeOK, RequestTypes, Requests
  <1> QED BY <1>1, <1>2, <1>3, <1>4, <1>5 DEF TypeOK, ThreadInv

LEMMA StaleStartAnswerInv == ASSUME Inv, NEW f \in Family, StaleStartAnswer(f) PROVE Inv'
  <1> USE ConstantsAssumption DEF Inv, StaleStartAnswer, IPReadyCB,
          SessionEventFrame, Put, threadVars, timerVars, deviceVars, netVars,
          dmlVars, wanVars, modemVars, halVars, sessVars
  <1>1. ThreadInv'
    BY ThreadFrame
  <1>2. StatusTypes'
    BY DEF TypeOK, StatusTypes, AllPdpTypes
  <1>3. FlagTypes'
    BY DEF TypeOK, FlagTypes
  <1>4. NetworkTypes'
    BY DEF TypeOK, NetworkTypes, Sessions
  <1>5. RequestTypes'
    BY DEF TypeOK, RequestTypes, Requests
  <1> QED BY <1>1, <1>2, <1>3, <1>4, <1>5 DEF TypeOK, ThreadInv

LEMMA PacketConnectedInv == ASSUME Inv, NEW f \in Family, PacketConnected(f) PROVE Inv'
  <1> USE ConstantsAssumption DEF Inv, PacketConnected, PacketStatusCB,
          SessionEventFrame, Put, threadVars, timerVars, deviceVars, netVars,
          dmlVars, wanVars, modemVars, halVars, sessVars
  <1>1. ThreadInv'
    BY ThreadFrame
  <1>2. StatusTypes'
    BY DEF TypeOK, StatusTypes, AllPdpTypes
  <1>3. FlagTypes'
    BY DEF TypeOK, FlagTypes
  <1>4. NetworkTypes'
    BY DEF TypeOK, NetworkTypes, Sessions
  <1>5. RequestTypes'
    BY DEF TypeOK, RequestTypes, Requests
  <1> QED BY <1>1, <1>2, <1>3, <1>4, <1>5 DEF TypeOK, ThreadInv

LEMMA PacketDisconnectedInv == ASSUME Inv, NEW f \in Family, PacketDisconnected(f) PROVE Inv'
  <1> USE ConstantsAssumption DEF Inv, PacketDisconnected, PacketStatusCB,
          SessionEventFrame, Put, threadVars, timerVars, deviceVars, netVars,
          dmlVars, wanVars, modemVars, halVars, sessVars
  <1>1. ThreadInv'
    BY ThreadFrame
  <1>2. StatusTypes'
    BY DEF TypeOK, StatusTypes, AllPdpTypes
  <1>3. FlagTypes'
    BY DEF TypeOK, FlagTypes
  <1>4. NetworkTypes'
    BY DEF TypeOK, NetworkTypes, Sessions
  <1>5. RequestTypes'
    BY DEF TypeOK, RequestTypes, Requests
  <1> QED BY <1>1, <1>2, <1>3, <1>4, <1>5 DEF TypeOK, ThreadInv

LEMMA DeviceRemovedInv == ASSUME Inv, DeviceRemovedCB PROVE Inv'
  <1> USE ConstantsAssumption DEF Inv, DeviceRemovedCB, AllFamilies,
          threadVars, timerVars, deviceVars, netVars, dmlVars, wanVars,
          modemVars, halVars, sessVars
  <1>1. ThreadInv'
    BY ThreadFrame
  <1>2. StatusTypes'
    BY DEF TypeOK, StatusTypes, AllPdpTypes
  <1>3. FlagTypes'
    BY DEF TypeOK, FlagTypes
  <1>4. NetworkTypes'
    BY DEF TypeOK, NetworkTypes, Sessions
  <1>5. RequestTypes'
    BY DEF TypeOK, RequestTypes, Requests
  <1> QED BY <1>1, <1>2, <1>3, <1>4, <1>5 DEF TypeOK, ThreadInv

LEMMA SetModemEnableInv == ASSUME Inv, NEW value \in BOOLEAN, SetModemEnable(value) PROVE Inv'
  <1> USE ConstantsAssumption DEF Inv, SetModemEnable, threadVars, timerVars,
          deviceVars, netVars, dmlVars, wanVars, modemVars, halVars, sessVars
  <1>1. ThreadInv'
    BY ThreadFrame
  <1>2. StatusTypes'
    BY DEF TypeOK, StatusTypes, AllPdpTypes
  <1>3. FlagTypes'
    BY DEF TypeOK, FlagTypes
  <1>4. NetworkTypes'
    BY DEF TypeOK, NetworkTypes, Sessions
  <1>5. RequestTypes'
    BY DEF TypeOK, RequestTypes, Requests
  <1> QED BY <1>1, <1>2, <1>3, <1>4, <1>5 DEF TypeOK, ThreadInv

LEMMA SetInterfaceInv == ASSUME Inv, NEW en \in BOOLEAN, NEW up \in BOOLEAN, SetInterface(en, up) PROVE Inv'
  <1> USE ConstantsAssumption DEF Inv, SetInterface, threadVars, timerVars,
          deviceVars, netVars, dmlVars, wanVars, modemVars, halVars, sessVars
  <1>1. ThreadInv'
    BY ThreadFrame
  <1>2. StatusTypes'
    BY DEF TypeOK, StatusTypes, AllPdpTypes
  <1>3. FlagTypes'
    BY DEF TypeOK, FlagTypes
  <1>4. NetworkTypes'
    BY DEF TypeOK, NetworkTypes, Sessions
  <1>5. RequestTypes'
    BY DEF TypeOK, RequestTypes, Requests
  <1> QED BY <1>1, <1>2, <1>3, <1>4, <1>5 DEF TypeOK, ThreadInv

LEMMA PlugInv == ASSUME Inv, Unplug \/ Plug \/ CardChange PROVE Inv'
  <1> USE ConstantsAssumption DEF Inv, Unplug, Plug, CardChange, threadVars,
          timerVars, deviceVars, netVars, dmlVars, wanVars, modemVars,
          halVars, sessVars
  <1>1. ThreadInv'
    BY ThreadFrame
  <1>2. StatusTypes'
    BY DEF TypeOK, StatusTypes, AllPdpTypes
  <1>3. FlagTypes'
    BY DEF TypeOK, FlagTypes
  <1>4. NetworkTypes'
    BY DEF TypeOK, NetworkTypes, Sessions
  <1>5. RequestTypes'
    BY DEF TypeOK, RequestTypes, Requests
  <1> QED BY <1>1, <1>2, <1>3, <1>4, <1>5 DEF TypeOK, ThreadInv

LEMMA StepInv == Inv /\ [Next]_vars => Inv'
  <1> SUFFICES ASSUME Inv, [Next]_vars PROVE Inv'
    OBVIOUS
  <1>1. CASE SMStep
    BY <1>1, DownInv, DeactivatedInv, DeregisteredInv, RegisteredLeavesInv,
       CreatesProfileInv, StartsInv, ConnectsInv, WaitInv, LostInv,
       StartNetworksInv, ConnectedInv, StopInv
    DEF SMStep
  <1>2. CASE HalStep
    <2>1. ASSUME NEW f \in Family,
                 \/ StartAnswer(f) \/ StaleStartAnswer(f)
                 \/ PacketConnected(f) \/ PacketDisconnected(f)
          PROVE  Inv'
      BY <2>1, StartAnswerInv, StaleStartAnswerInv, PacketConnectedInv,
         PacketDisconnectedInv
    <2> QED
      BY <1>2, <2>1, OpenAnswerInv, SlotAnswerInv, SlotIndicationInv,
         RegistrationAnswerInv, ServingSystemInv, ProfileAnswerInv,
         DeviceRemovedInv
      DEF HalStep
  <1>3. CASE EnvStep
    <2>1. ASSUME NEW value \in BOOLEAN, SetModemEnable(value) PROVE Inv'
      BY <2>1, SetModemEnableInv
    <2>2. ASSUME NEW value \in BOOLEAN,
                 SetInterface(value, upstream) \/ SetInterface(ifEnable, value)
          PROVE  Inv'
      BY <2>2, SetInterfaceInv DEF Inv, TypeOK, FlagTypes
    <2> QED
      BY <1>3, <2>1, <2>2, PlugInv DEF EnvStep
  <1>4. CASE UNCHANGED vars
    <2> USE <1>4 DEF vars, threadVars, timerVars, deviceVars, netVars, dmlVars,
          wanVars, modemVars, halVars, sessVars
    <2>1. ThreadInv'
      BY ThreadFrame DEF Inv
    <2>2. StatusTypes' /\ RequestTypes'
      BY DEF Inv, TypeOK, StatusTypes, RequestTypes
    <2>3. FlagTypes' /\ NetworkTypes'
      BY DEF Inv, TypeOK, FlagTypes, NetworkTypes
    <2> QED BY <2>1, <2>2, <2>3 DEF Inv, TypeOK, ThreadInv
  <1> QED BY <1>1, <1>2, <1>3, <1>4 DEF Next

(* Inv holds in every reachable state.                                     *)
THEOREM Invariance == Spec => []Inv
  <1> QED BY InitInv, StepInv, PTL DEF Spec

(* Every status field keeps to its enumeration and the reconnection wait   *)
(* to its bound, whatever the modem answers and in whatever order.         *)
THEOREM TypeCorrect == Spec => []TypeOK
  <1>1. Inv => TypeOK
    BY DEF Inv
  <1> QED BY <1>1, Invariance, PTL

(* Whoever reads enCurrentSMState sees the state of the thread, or, while  *)
(* the machine is deactivated, an older one.                               *)
THEOREM CurrentStateCorrect == Spec => []CurrentStateTracks
  <1>1. Inv => CurrentStateTracks
    BY DEF Inv, ThreadInv
  <1> QED BY <1>1, Invariance, PTL

(* No start of the network inherits a count from an earlier connection,    *)
(* and no wait is longer than ReconnectWait, for every ReconnectWait.      *)
THEOREM ReconnectWaitCorrect == Spec => []ReconnectWaitDiscipline
  <1>1. Inv => ReconnectWaitDiscipline
    BY DEF Inv, ThreadInv
  <1> QED BY <1>1, Invariance, PTL

-----------------------------------------------------------------------------
(* The link of the WAN manager                                             *)

(* What TransitionConnectedStopNetwork leaves behind when it finds the     *)
(* registration lost: still CONNECTED, with the link already down.         *)
LinkDownWhenLost == (pc = "lost" /\ state = "CONNECTED") => wanLink = "Down"

LinkInv == NoWanWhileOffline /\ LinkDownWhenLost

(* The HAL and the management layer move neither the thread nor the link.  *)
LEMMA OnlyTheThread ==
  HalStep \/ EnvStep => UNCHANGED <<pc, state, wanLink>>
  <1> USE DEF threadVars, timerVars, deviceVars, netVars, dmlVars, wanVars,
          modemVars, halVars, sessVars
  <1>1. ASSUME NEW f \in Family,
               \/ StartAnswer(f) \/ StaleStartAnswer(f)
               \/ PacketConnected(f) \/ PacketDisconnected(f)
        PROVE  UNCHANGED <<pc, state, wanLink>>
    BY <1>1 DEF StartAnswer, StaleStartAnswer, PacketConnected,
                PacketDisconnected, SessionEventFrame
  <1>2. OpenAnswer => UNCHANGED <<pc, state, wanLink>>
    BY DEF OpenAnswer, DeviceOpenStatusCB
  <1>3. SlotAnswer \/ SlotIndication => UNCHANGED <<pc, state, wanLink>>
    BY DEF SlotAnswer, SlotIndication, SlotStatusCB
  <1>4. RegistrationAnswer \/ ServingSystemIndication
          => UNCHANGED <<pc, state, wanLink>>
    BY DEF RegistrationAnswer, ServingSystemIndication, RegistrationStatusCB
  <1>5. ProfileAnswer \/ DeviceRemovedCB => UNCHANGED <<pc, state, wanLink>>
    BY DEF ProfileAnswer, DeviceRemovedCB
  <1>6. EnvStep => UNCHANGED <<pc, state, wanLink>>
    BY DEF EnvStep, SetModemEnable, SetInterface, Unplug, Plug, CardChange
  <1> QED BY <1>1, <1>2, <1>3, <1>4, <1>5, <1>6 DEF HalStep

(* A bus that does not fail: the link is what was last written.            *)
LEMMA LinkStep ==
  ASSUME ~BusFails, Inv, LinkInv, [Next]_vars PROVE LinkInv'
  <1> USE DEF LinkInv, NoWanWhileOffline, LinkDownWhenLost, InState,
          UpdateLinkStatus, TransitionDown, TransitionDeactivated,
          threadVars, wanVars
  <1>1. CASE StateDown \/ StateDeactivated
    BY <1>1 DEF StateDown, StateDeactivated, TransitionDeregistered
  <1>2. CASE StateDeregistered
    BY <1>2 DEF StateDeregistered, TransitionRegistering
  <1>3. CASE RegisteredLeaves \/ RegisteredCreatesProfile
    BY <1>3 DEF RegisteredLeaves, RegisteredCreatesProfile, StillRegistered,
                TransitionRegistered
  <1>4. CASE RegisteredStarts \/ RegisteredConnects
    BY <1>4 DEF RegisteredStarts, RegisteredConnects, StillRegistered,
                TransitionRegisteredStartNetwork
  <1>5. CASE WaitSecond \/ StartNetworks
    BY <1>5 DEF WaitSecond, StartNetworks, TransitionRegisteredStartNetwork,
                Inv, ThreadInv, PointsInState
  <1>6. CASE RegistrationLostStep
    BY <1>6 DEF RegistrationLostStep, RegistrationLost
  <1>7. CASE StateConnected
    BY <1>7 DEF StateConnected
  <1>8. CASE TransitionConnectedStopNetwork
    BY <1>8 DEF TransitionConnectedStopNetwork, AfterStop
  <1>9. CASE HalStep \/ EnvStep
    BY <1>9, OnlyTheThread
  <1>10. CASE UNCHANGED vars
    BY <1>10 DEF vars
  <1> QED
    BY <1>1, <1>2, <1>3, <1>4, <1>5, <1>6, <1>7, <1>8, <1>9, <1>10
    DEF Next, SMStep

LEMMA LinkInvariance == ~BusFails => (Spec => [](Inv /\ LinkInv))
  <1> SUFFICES ASSUME ~BusFails PROVE Spec => [](Inv /\ LinkInv)
    OBVIOUS
  <1>1. Init => LinkInv
    BY DEF Init, LinkInv, NoWanWhileOffline, LinkDownWhenLost
  <1>2. (Inv /\ LinkInv) /\ [Next]_vars => (Inv /\ LinkInv)'
    BY StepInv, LinkStep
  <1> QED BY <1>1, <1>2, InitInv, PTL DEF Spec

(* The WAN manager never keeps the link of a machine that is down or       *)
(* deactivated, unless the bus fails to carry the message.                 *)
THEOREM NoWanWhileOfflineCorrect == ~BusFails => (Spec => []NoWanWhileOffline)
  <1> SUFFICES ASSUME ~BusFails PROVE Spec => []NoWanWhileOffline
    OBVIOUS
  <1>1. Inv /\ LinkInv => NoWanWhileOffline
    BY DEF LinkInv
  <1> QED BY <1>1, LinkInvariance, PTL

(* Every step of the machine is a step of the policy or changes neither    *)
(* the state nor the link.                                                 *)
LEMMA PolicyStep ==
  ASSUME ~BusFails, Inv, LinkInv, [Next]_vars
  PROVE  [Policy!Next]_<<state, wanLink>>
  <1> USE DEF InState, UpdateLinkStatus, TransitionDown,
          TransitionDeactivated, threadVars, wanVars
  <1>1. CASE StateDown
    BY <1>1 DEF StateDown, Policy!Next, Policy!Detect
  <1>2. CASE StateDeactivated
    BY <1>2 DEF StateDeactivated, TransitionDeregistered, Policy!Next,
                Policy!Remove, Policy!SelectSlot
  <1>3. CASE StateDeregistered
    BY <1>3 DEF StateDeregistered, TransitionRegistering, Policy!Next,
                Policy!Remove, Policy!Deactivate, Policy!Register
  <1>4. CASE RegisteredLeaves \/ RegisteredCreatesProfile
    BY <1>4 DEF RegisteredLeaves, RegisteredCreatesProfile, StillRegistered,
                TransitionRegistered, Policy!Next, Policy!Remove,
                Policy!Deactivate, Policy!Deregister
  <1>5. CASE RegisteredStarts \/ RegisteredConnects
    BY <1>5 DEF RegisteredStarts, RegisteredConnects, StillRegistered,
                TransitionRegisteredStartNetwork, Policy!Next,
                Policy!Announce, Policy!Connect
  <1>6. CASE WaitSecond \/ StartNetworks
    BY <1>6 DEF WaitSecond, StartNetworks, TransitionRegisteredStartNetwork,
                Inv, ThreadInv, PointsInState, Policy!Next, Policy!Announce
  <1>7. CASE RegistrationLostStep
    BY <1>7 DEF RegistrationLostStep, RegistrationLost, Inv, ThreadInv,
                PointsInState, LinkInv, LinkDownWhenLost, Policy!Next,
                Policy!Deregister, Policy!Disconnect
  <1>8. CASE StateConnected
    BY <1>8 DEF StateConnected, Policy!Next, Policy!Remove, Policy!Deactivate
  <1>9. CASE TransitionConnectedStopNetwork
    BY <1>9 DEF TransitionConnectedStopNetwork, AfterStop, Inv, ThreadInv,
                PointsInState, Policy!Next, Policy!Disconnect
  <1>10. CASE HalStep \/ EnvStep
    BY <1>10, OnlyTheThread
  <1>11. CASE UNCHANGED vars
    BY <1>11 DEF vars
  <1> QED
    BY <1>1, <1>2, <1>3, <1>4, <1>5, <1>6, <1>7, <1>8, <1>9, <1>10, <1>11
    DEF Next, SMStep

(* The machine implements the connection policy.                           *)
THEOREM PolicyCorrect == ~BusFails => (Spec => PolicyImplemented)
  <1> SUFFICES ASSUME ~BusFails PROVE Spec => PolicyImplemented
    OBVIOUS
  <1>1. Init => Policy!Init
    BY DEF Init, Policy!Init
  <1>2. (Inv /\ LinkInv) /\ [Next]_vars => [Policy!Next]_<<state, wanLink>>
    BY PolicyStep
  <1> QED
    BY <1>1, <1>2, LinkInvariance, PTL DEF Spec, PolicyImplemented, Policy!Spec

-----------------------------------------------------------------------------
(* The answers that are owed                                               *)

(* Unless it is unplugged or reset the device is open from DEREGISTERED    *)
(* on, and the flags of a connection are down before it is stopped.        *)
DeviceHeldOpen ==
    /\ device # "gone"
    /\ (\/ open = "READY" \/ slot = "SELECTING"
        \/ state \in {"DEREGISTERED", "REGISTERED", "CONNECTED"})
         => device = "open"
    /\ pc = "stop" =>
         \A f \in Family : start[f] = FALSE /\ waiting[f] = FALSE

OwedInv == DeviceHeldOpen /\ StartIsOwed

LEMMA OwedStep ==
  ASSUME ~HalSilent, ~Disturbed("unplug"), ~Disturbed("modem"), Inv, OwedInv, [Next]_vars
  PROVE  OwedInv'
  <1> USE DEF OwedInv, DeviceHeldOpen, Inv, TypeOK, NetworkTypes, StatusTypes,
          InState, TransitionDown, TransitionDeactivated, RequestOpen,
          AllFamilies, DeviceOpen, StartIsOwed,
          threadVars, timerVars, deviceVars, netVars, dmlVars, wanVars,
          modemVars, halVars, sessVars
  <1>1. CASE StateDown
    BY <1>1 DEF StateDown
  <1>2. CASE StateDeactivated
    BY <1>2 DEF StateDeactivated, TransitionDeregistered, RequestSlot
  <1>3. CASE StateDeregistered
    BY <1>3 DEF StateDeregistered, TransitionRegistering, RequestRegistration
  <1>4. CASE RegisteredLeaves
    BY <1>4 DEF RegisteredLeaves
  <1>5. CASE RegisteredCreatesProfile
    BY <1>5 DEF RegisteredCreatesProfile, StillRegistered,
                TransitionRegistered, RequestProfile
  <1>6. CASE RegisteredStarts \/ RegisteredConnects
    BY <1>6 DEF RegisteredStarts, RegisteredConnects, StillRegistered,
                TransitionRegisteredStartNetwork
  <1>7. CASE WaitSecond
    BY <1>7 DEF WaitSecond, TransitionRegisteredStartNetwork
  <1>8. CASE RegistrationLostStep
    BY <1>8 DEF RegistrationLostStep, RegistrationLost, ThreadInv, PointsInState
  <1>9. CASE StartNetworks
    BY <1>9 DEF StartNetworks, StartFamily, Put, ThreadInv, PointsInState
  <1>10. CASE StateConnected
    BY <1>10 DEF StateConnected
  <1>11. CASE TransitionConnectedStopNetwork
    BY <1>11 DEF TransitionConnectedStopNetwork, StopSessions, AfterStop,
                 ThreadInv, PointsInState
  <1>12. CASE OpenAnswer
    BY <1>12 DEF OpenAnswer, Answered, DeviceOpenStatusCB
  <1>13. CASE SlotAnswer \/ SlotIndication
    BY <1>13 DEF SlotAnswer, SlotIndication, Answered, SlotStatusCB
  <1>14. CASE RegistrationAnswer \/ ServingSystemIndication
    BY <1>14 DEF RegistrationAnswer, ServingSystemIndication, Answered,
                 RegistrationStatusCB
  <1>15. CASE ProfileAnswer \/ DeviceRemovedCB
    BY <1>15 DEF ProfileAnswer, DeviceRemovedCB, Answered
  <1>16. ASSUME NEW f \in Family, StartAnswer(f) \/ StaleStartAnswer(f)
         PROVE  OwedInv'
    BY <1>16 DEF StartAnswer, StaleStartAnswer, IPReadyCB, Put,
                 SessionEventFrame, Sessions
  <1>17. ASSUME NEW f \in Family, PacketConnected(f) \/ PacketDisconnected(f)
         PROVE  OwedInv'
    BY <1>17 DEF PacketConnected, PacketDisconnected, PacketStatusCB, Put,
                 SessionEventFrame, Sessions
  <1>18. CASE EnvStep
    BY <1>18 DEF EnvStep, SetModemEnable, SetInterface, Unplug, Plug, CardChange
  <1>19. CASE UNCHANGED vars
    BY <1>19 DEF vars
  <1> QED
    BY <1>1, <1>2, <1>3, <1>4, <1>5, <1>6, <1>7, <1>8, <1>9, <1>10, <1>11,
       <1>12, <1>13, <1>14, <1>15, <1>16, <1>17, <1>18, <1>19
    DEF Next, SMStep, HalStep

(* With a HAL that always calls back and a modem that stays, the machine   *)
(* never waits for a start that was stopped, replaced or answered already: *)
(* each flag that holds it in REGISTERED belongs to a running session.     *)
THEOREM StartIsOwedCorrect ==
  ~HalSilent /\ ~Disturbed("unplug") /\ ~Disturbed("modem")
    => (Spec => []StartIsOwed)
  <1> SUFFICES ASSUME ~HalSilent, ~Disturbed("unplug"), ~Disturbed("modem")
               PROVE  Spec => []StartIsOwed
    OBVIOUS
  <1>1. Init => OwedInv
    BY DEF Init, OwedInv, DeviceHeldOpen, StartIsOwed, AllFamilies
  <1>2. (Inv /\ OwedInv) /\ [Next]_vars => (Inv /\ OwedInv)'
    BY StepInv, OwedStep
  <1>3. Inv /\ OwedInv => StartIsOwed
    BY DEF OwedInv
  <1> QED BY <1>1, <1>2, <1>3, InitInv, PTL DEF Spec
=============================================================================
