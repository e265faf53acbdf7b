------------------------- MODULE QmiNetwork_proofs -------------------------
(***************************************************************************)
(* Theorems about QmiNetwork, for any number of clients, tasks and         *)
(* overlapping tasks.  The flag that makes every further stop be ignored   *)
(* is inductive with its type: the one step that raises it begins a stop   *)
(* task, and the steps that end one lower it.  The other invariants hold   *)
(* while no tasks of a family overlap and rest on two inductive ones:      *)
(* TaskInv, for every profile, and ClientInv, for one with IPv4.           *)
(***************************************************************************)
EXTENDS QmiNetwork, TLAPS

FlagInv == stopping \in [Both -> BOOLEAN] /\ StopFlagOwned

LEMMA FlagInit == Init => FlagInv
  BY DEF Init, For, FlagInv, StopFlagOwned

\* A stop that is begun.
LEMMA FlagStop == ASSUME FlagInv, NEW f, StopNetwork(f) PROVE FlagInv'
  <1>1. CASE UNCHANGED <<halVars, taskVars, modemVars>>
    BY <1>1 DEF FlagInv, StopFlagOwned, halVars, taskVars
  <1>2. CASE StopSteps(f)
    <2>1. CASE UNCHANGED <<stops, stopping>>
      BY <2>1 DEF FlagInv, StopFlagOwned
    <2> DEFINE h == Undone(f, handle)
               s == [fam |-> f, on |-> client[h], names |-> handle[h]]
    <2>2. CASE stops' = stops \cup {s} /\ stopping' = PutFlag(stopping, f, TRUE)
      <3>1. \A g \in Both : stopping'[g] => stopping[g] \/ g = f
        BY <2>2 DEF FlagInv, PutFlag
      <3>2. stopping' \in [Both -> BOOLEAN]
        BY <2>2 DEF FlagInv, PutFlag
      <3>3. s.fam = f
        OBVIOUS
      <3> HIDE DEF s
      <3>4. ASSUME NEW g \in Both, stopping'[g] PROVE \E q \in stops' : q.fam = g
        <4>1. CASE g = f
          BY <2>2, <3>3, <4>1
        <4>2. CASE stopping[g]
          BY <2>2, <4>2 DEF FlagInv, StopFlagOwned
        <4> QED
          BY <3>1, <3>4, <4>1, <4>2
      <3> QED
        BY <3>2, <3>4 DEF FlagInv, StopFlagOwned
    <2> HIDE DEF s
    <2> QED
      BY <1>2, <2>1, <2>2 DEF StopSteps, s
  <1> QED
    BY <1>1, <1>2 DEF StopNetwork

\* A stop that is over.
LEMMA FlagAnswer == ASSUME FlagInv, NEW s \in stops, StopAnswer(s) PROVE FlagInv'
  <1>1. stopping' \in [Both -> BOOLEAN]
    BY DEF StopAnswer, FlagInv, PutFlag
  <1>2. \A g \in Both : stopping'[g] => stopping[g] /\ g # s.fam
    BY DEF StopAnswer, FlagInv, PutFlag
  <1> QED
    BY <1>1, <1>2 DEF StopAnswer, FlagInv, StopFlagOwned

LEMMA FlagNext == ASSUME FlagInv, [Next]_vars PROVE FlagInv'
  <1>1. CASE UNCHANGED <<stops, stopping>>
    BY <1>1 DEF FlagInv, StopFlagOwned
  <1>2. CASE StartAnswer
    BY <1>1, <1>2
       DEF StartAnswer, ClientAllocated, AllocationAborted, FamilySet, EventsRegistered,
           NetworkStarted, LeaseRead, BearerRead, halVars
  <1>3. CASE DeviceRemoved
    BY <1>3 DEF DeviceRemoved, FlagInv, StopFlagOwned, For
  <1>4. CASE StateMachine
    <2>1. CASE GoesDown \/ Registers \/ StartsNetworks \/ Connects \/ Leaves
      BY <1>1, <2>1
         DEF GoesDown, Registers, StartsNetworks, Connects, Leaves, halVars, taskVars
    <2>2. CASE MakesCall
      BY <1>1, <2>2, FlagStop DEF MakesCall, StartNetwork, halVars
    <2> QED
      BY <1>4, <2>1, <2>2 DEF StateMachine
  <1>5. CASE Modem
    BY <1>1, <1>5 DEF Modem, SessionUp, SessionDown, Unplug, DeviceOpened, halVars, taskVars
  <1>6. CASE UNCHANGED vars
    BY <1>1, <1>6 DEF vars, halVars, taskVars
  <1> QED
    BY <1>2, <1>3, <1>4, <1>5, <1>6, FlagAnswer DEF Next

(* A stop is ignored only while another of its family is under way.        *)
THEOREM StopFlagOwnedCorrect == Spec => []StopFlagOwned
  BY FlagInit, FlagNext, PTL DEF Spec, FlagInv

-----------------------------------------------------------------------------
(* The calls the state machine has yet to make.                            *)

BothCalls(op) == <<<<op, "IPv4">>, <<op, "IPv6">>>>
OneCall(op, f) == <<<<op, f>>>>
Ops == {"start", "stop"}

CallLists ==
    {<<>>} \cup {BothCalls(op) : op \in Ops} \cup {OneCall(op, f) : op \in Ops, f \in Both}

StopDue == calls \in {BothCalls("stop"), OneCall("stop", "IPv6")}

LEMMA InOrderCalls ==
  ASSUME NEW op
  PROVE  \/ Family = Both /\ InOrder(op) = BothCalls(op)
         \/ \E f \in Both : Family = {f} /\ InOrder(op) = OneCall(op, f)
  <1>1. CASE Family = Both
    BY <1>1 DEF InOrder, BothCalls
  <1>2. CASE Family # Both
    <2>1. PICK f \in Both : Family = {f}
      BY <1>2, ConstantsAssumption DEF Both
    <2>2. (CHOOSE g \in Family : TRUE) = f
      BY <2>1
    <2> QED
      BY <1>2, <2>1, <2>2 DEF InOrder, OneCall
  <1> QED
    BY <1>1, <1>2

LEMMA BothCallsParts ==
  ASSUME NEW op
  PROVE  /\ Head(BothCalls(op)) = <<op, "IPv4">> /\ BothCalls(op) # <<>>
         /\ Tail(BothCalls(op)) = OneCall(op, "IPv6")
  BY DEF BothCalls, OneCall

LEMMA OneCallParts ==
  ASSUME NEW op, NEW f
  PROVE  /\ Head(OneCall(op, f)) = <<op, f>> /\ OneCall(op, f) # <<>>
         /\ Tail(OneCall(op, f)) = <<>>
  BY DEF OneCall

\* The lists tell their operation, their family and each other apart.
LEMMA ListsDiffer ==
  ASSUME NEW op, NEW q, NEW f, NEW g
  PROVE  /\ BothCalls(op) # OneCall(q, f)
         /\ BothCalls(op) = BothCalls(q) => op = q
         /\ OneCall(op, f) = OneCall(q, g) => op = q /\ f = g
  BY DEF BothCalls, OneCall

\* The call that is made, and what is left to make.
LEMMA CallMade ==
  ASSUME calls \in CallLists, calls # <<>>
  PROVE  \E op \in Ops, f \in Both :
            /\ Head(calls)[1] = op /\ Head(calls)[2] = f
            /\ \/ calls = BothCalls(op) /\ f = "IPv4" /\ Tail(calls) = OneCall(op, "IPv6")
               \/ calls = OneCall(op, f) /\ Tail(calls) = <<>>
  <1>1. ASSUME NEW op \in Ops, calls = BothCalls(op)
        PROVE  /\ Head(calls)[1] = op /\ Head(calls)[2] = "IPv4"
               /\ Tail(calls) = OneCall(op, "IPv6")
    BY <1>1, BothCallsParts
  <1>2. ASSUME NEW op \in Ops, NEW f \in Both, calls = OneCall(op, f)
        PROVE  Head(calls)[1] = op /\ Head(calls)[2] = f /\ Tail(calls) = <<>>
    BY <1>2, OneCallParts
  <1> QED
    BY <1>1, <1>2 DEF CallLists, Both

LEMMA CallListsTyped == CallLists \subseteq Seq(Ops \X Both)
  <1>1. <<>> \in Seq(Ops \X Both)
    OBVIOUS
  <1>2. ASSUME NEW op \in Ops PROVE BothCalls(op) \in Seq(Ops \X Both)
    <2>1. <<op, "IPv4">> \in Ops \X Both /\ <<op, "IPv6">> \in Ops \X Both
      BY DEF Both
    <2> QED
      BY <2>1 DEF BothCalls
  <1>3. ASSUME NEW op \in Ops, NEW f \in Both PROVE OneCall(op, f) \in Seq(Ops \X Both)
    <2>1. <<op, f>> \in Ops \X Both
      OBVIOUS
    <2> QED
      BY <2>1 DEF OneCall
  <1>4. ASSUME NEW c \in CallLists PROVE c \in Seq(Ops \X Both)
    <2>1. \/ c = <<>>
          \/ \E op \in Ops : c = BothCalls(op) \/ \E f \in Both : c = OneCall(op, f)
      BY <1>4 DEF CallLists
    <2> QED
      BY <1>1, <1>2, <1>3, <2>1
  <1> QED
    BY <1>4

-----------------------------------------------------------------------------
(* What the steps of a task do, without their requests.                    *)

TypeInv == TypeOK /\ overlaps \in Nat /\ calls \in CallLists

\* The next request of a task, typed.
GoesOn(t, n) ==
    /\ n \in StartTasks /\ n.fam = t.fam /\ n.on = client'[t.fam]
    /\ n.step \notin {"alloc", "closed"}
    /\ n.step # "family" =>
          \/ t.step = "family" /\ t.on \in alive
          \/ t.step \notin {"alloc", "closed", "family"}
    /\ starts' = (starts \ {t}) \cup {n}

NoClient(t) == UNCHANGED <<client, alive>>

NewClient(t, c) ==
    /\ t.step = "alloc" /\ device = "open"
    /\ c \in Free
    /\ client' = [client EXCEPT ![t.fam] = c]
    /\ alive' = alive \cup {c}
    /\ UNCHANGED <<handlers, handle, rat, smVars>>

\* What the answer to a request of start task t may change.
AnswerOf(t) ==
    /\ starts' = starts \ {t} \/ \E n \in StartTasks : GoesOn(t, n)
    /\ NoClient(t) \/ \E c \in Clients : NewClient(t, c)
    /\ events' \in [Both -> 0..MaxClients]
    /\ \/ UNCHANGED handle
       \/ handle' = [handle EXCEPT ![t.fam] = 0]
       \/ t.on \in alive /\ handle' = [handle EXCEPT ![t.fam] = t.on]
    /\ handlers' \subseteq handlers \cup ({t.on} \cap alive)
    /\ rat' \in BOOLEAN /\ (rat' => rat \/ t.on \in alive)
    /\ UNCHANGED <<stopping, stops, device, live, phase, calls, overlaps>>
    /\ \/ UNCHANGED flagVars
       \/ /\ t.step \in {"network", "lease"}
          /\ start' = [start EXCEPT ![t.fam] = FALSE]
          /\ waiting' \in [Both -> BOOLEAN]
          /\ packet' \in [Both -> {"DISCONNECTED", "CONNECTED"}]

LEMMA TaskFields ==
  ASSUME TypeOK, NEW t \in starts
  PROVE  t \in StartTasks /\ t.fam \in Both /\ t.step \in Steps /\ t.on \in 0..MaxClients
  BY DEF TypeOK, StartTasks

LEMMA StopFields ==
  ASSUME TypeOK, NEW s \in stops
  PROVE  s \in StopTasks /\ s.fam \in Both /\ s.on \in 0..MaxClients /\ s.names \in 0..MaxClients
  BY DEF TypeOK, StopTasks

\* A client is there, or the task has ended, when a request is answered.
LEMMA MovesOn ==
  ASSUME TypeOK, NEW t \in starts, NEW step \in Steps, NextStep(t, step),
         client' \in [Both -> 0..MaxClients],
         step \notin {"alloc", "closed"},
         step # "family" =>
           \/ t.step = "family" /\ t.on \in alive
           \/ t.step \notin {"alloc", "closed", "family"}
  PROVE  \E n \in StartTasks : GoesOn(t, n)
  <1>1. PICK c \in 0..MaxClients : c = client'[t.fam]
    BY TaskFields
  <1> DEFINE n == [t EXCEPT !.step = step, !.on = c]
  <1>2. n \in StartTasks /\ n.fam = t.fam /\ n.step = step /\ n.on = client'[t.fam]
    BY <1>1 DEF TypeOK, StartTasks
  <1>3. starts' = (starts \ {t}) \cup {n}
    BY <1>1 DEF NextStep
  <1> HIDE DEF n
  <1>4. GoesOn(t, n)
    BY <1>2, <1>3 DEF GoesOn
  <1> QED
    BY <1>2, <1>4

LEMMA AllocatedEffect ==
  ASSUME TypeOK, NEW t \in starts, ClientAllocated(t) PROVE AnswerOf(t)
  <1>1. /\ UNCHANGED <<events, handle, stopping, rat, stops, device, handlers, live, smVars>>
        /\ t.step = "alloc"
    BY DEF ClientAllocated
  <1>2. CASE EndTask(t) /\ UNCHANGED <<client, alive>>
    BY <1>1, <1>2 DEF EndTask, AnswerOf, NoClient, smVars, flagVars, TypeOK
  <1>3. CASE /\ device = "open" /\ NextStep(t, "family")
             /\ \E c \in Free : client' = PutFlag(client, t.fam, c) /\ alive' = alive \cup {c}
    <2>1. PICK c \in Free : client' = PutFlag(client, t.fam, c) /\ alive' = alive \cup {c}
      BY <1>3
    <2>2. c \in Clients /\ c \in 0..MaxClients
      BY ConstantsAssumption DEF Free, Clients
    <2>3. client' \in [Both -> 0..MaxClients]
      BY <2>1, <2>2 DEF PutFlag, TypeOK
    <2>4. \E n \in StartTasks : GoesOn(t, n)
      BY <1>1, <1>3, <2>3, MovesOn DEF Steps
    <2>5. NewClient(t, c)
      BY <1>1, <1>3, <2>1 DEF NewClient, PutFlag
    <2> QED
      BY <1>1, <2>2, <2>4, <2>5 DEF AnswerOf, smVars, flagVars, TypeOK
  <1> QED
    BY <1>2, <1>3 DEF ClientAllocated

LEMMA FamilyEffect ==
  ASSUME TypeOK, NEW t \in starts, FamilySet(t) PROVE AnswerOf(t)
  <1>1. /\ UNCHANGED <<client, events, handle, stopping, rat, stops, modemVars, smVars>>
        /\ t.step = "family"
    BY DEF FamilySet
  <1>2. CASE EndTask(t)
    BY <1>1, <1>2 DEF EndTask, AnswerOf, NoClient, smVars, flagVars, modemVars, TypeOK
  <1>3. CASE Usable(t.on) /\ NextStep(t, "events")
    <2>1. client' \in [Both -> 0..MaxClients]
      BY <1>1 DEF TypeOK
    <2>2. \E n \in StartTasks : GoesOn(t, n)
      BY <1>1, <1>3, <2>1, MovesOn DEF Steps, Usable
    <2> QED
      BY <1>1, <2>2 DEF AnswerOf, NoClient, smVars, flagVars, modemVars, TypeOK
  <1> QED
    BY <1>2, <1>3 DEF FamilySet

LEMMA EventsEffect ==
  ASSUME TypeOK, NEW t \in starts, EventsRegistered(t) PROVE AnswerOf(t)
  <1>1. /\ UNCHANGED <<client, handle, stopping, rat, stops, device, alive, live, smVars>>
        /\ t.step = "events" /\ handlers' = handlers \cup ({t.on} \cap alive)
        /\ events' = PutFlag(events, t.fam, t.on)
    BY DEF EventsRegistered
  <1>2. events' \in [Both -> 0..MaxClients]
    BY <1>1, TaskFields DEF PutFlag, TypeOK
  <1>3. client' \in [Both -> 0..MaxClients] /\ NextStep(t, "network")
    BY <1>1 DEF TypeOK, EventsRegistered
  <1>4. \E n \in StartTasks : GoesOn(t, n)
    BY <1>1, <1>3, MovesOn DEF Steps
  <1> QED
    BY <1>1, <1>2, <1>4 DEF AnswerOf, NoClient, smVars, flagVars, TypeOK

LEMMA NetworkEffect ==
  ASSUME TypeOK, NEW t \in starts, NetworkStarted(t) PROVE AnswerOf(t)
  <1>1. /\ UNCHANGED <<client, events, stopping, rat, stops, modemVars>> /\ t.step = "network"
    BY DEF NetworkStarted
  <1>2. CASE /\ Usable(t.on) /\ handle' = PutFlag(handle, t.fam, t.on)
             /\ NextStep(t, "lease") /\ UNCHANGED smVars
    <2>1. client' \in [Both -> 0..MaxClients]
      BY <1>1 DEF TypeOK
    <2>2. \E n \in StartTasks : GoesOn(t, n)
      BY <1>1, <1>2, <2>1, MovesOn DEF Steps
    <2> QED
      BY <1>1, <1>2, <2>2
         DEF AnswerOf, NoClient, smVars, flagVars, modemVars, TypeOK, PutFlag, Usable
  <1>3. CASE handle' = PutFlag(handle, t.fam, 0) /\ EndTask(t) /\ IPReadyCB(t.fam, FALSE)
    <2>1. /\ waiting' \in [Both -> BOOLEAN] /\ start' = [start EXCEPT ![t.fam] = FALSE]
          /\ packet' \in [Both -> {"DISCONNECTED", "CONNECTED"}]
          /\ UNCHANGED <<phase, calls, overlaps>>
      BY <1>3 DEF IPReadyCB, TypeOK, PutFlag
    <2> QED
      BY <1>1, <1>3, <2>1 DEF AnswerOf, NoClient, EndTask, modemVars, TypeOK, PutFlag
  <1> QED
    BY <1>2, <1>3 DEF NetworkStarted

LEMMA LeaseEffect ==
  ASSUME TypeOK, NEW t \in starts, LeaseRead(t) PROVE AnswerOf(t)
  <1>1. /\ UNCHANGED <<client, events, handle, stopping, rat, stops, modemVars>>
        /\ t.step = "lease"
    BY DEF LeaseRead
  <1>2. CASE NextStep(t, "rat") /\ IPReadyCB(t.fam, TRUE)
    <2>1. client' \in [Both -> 0..MaxClients]
      BY <1>1 DEF TypeOK
    <2>2. \E n \in StartTasks : GoesOn(t, n)
      BY <1>1, <1>2, <2>1, MovesOn DEF Steps
    <2>3. /\ start' = [start EXCEPT ![t.fam] = FALSE]
          /\ waiting' = waiting /\ packet' = packet
          /\ UNCHANGED <<phase, calls, overlaps>>
      BY <1>2 DEF IPReadyCB, PutFlag
    <2> QED
      BY <1>1, <2>2, <2>3 DEF AnswerOf, NoClient, modemVars, TypeOK
  <1>3. CASE EndTask(t) /\ UNCHANGED smVars
    BY <1>1, <1>3 DEF EndTask, AnswerOf, NoClient, smVars, flagVars, modemVars, TypeOK
  <1> QED
    BY <1>2, <1>3 DEF LeaseRead

LEMMA BearerEffect ==
  ASSUME TypeOK, NEW t \in starts, BearerRead(t) PROVE AnswerOf(t)
  <1>1. /\ UNCHANGED <<client, events, handle, stopping, stops, modemVars, smVars>>
        /\ starts' = starts \ {t}
    BY DEF BearerRead, EndTask
  <1>2. rat' \in BOOLEAN /\ (rat' => rat \/ t.on \in alive)
    <2>1. rat \in BOOLEAN
      BY DEF TypeOK
    <2>2. CASE Usable(t.on) /\ rat' = TRUE
      BY <2>2 DEF Usable
    <2>3. CASE UNCHANGED rat
      BY <2>1, <2>3
    <2> QED
      BY <2>2, <2>3, Zenon DEF BearerRead
  <1> QED
    BY <1>1, <1>2 DEF AnswerOf, NoClient, smVars, flagVars, modemVars, TypeOK

LEMMA AbortedEffect ==
  ASSUME TypeOK, NEW t \in starts, AllocationAborted(t) PROVE AnswerOf(t)
  BY DEF AllocationAborted, EndTask, AnswerOf, NoClient, halVars, smVars, flagVars,
         modemVars, TypeOK

LEMMA AnswerEffect ==
  ASSUME TypeOK, StartAnswer PROVE \E t \in starts : AnswerOf(t)
  BY AllocatedEffect, AbortedEffect, FamilyEffect, EventsEffect, NetworkEffect, LeaseEffect,
     BearerEffect DEF StartAnswer

-----------------------------------------------------------------------------
(* What the other steps do.                                                *)

\* The client of a family is released.
Released(f) ==
    /\ client' = [client EXCEPT ![f] = 0]
    /\ alive' = alive \ {client[f]}
    /\ handlers' \subseteq handlers \ {client[f]}
    /\ live' \subseteq live \ {client[f]}
    /\ rat' \in BOOLEAN
    /\ rat' => rat /\ \E g \in Both : client'[g] # 0

\* A stop begins with a request for a session, or is over at once.
StopOf(f) ==
    /\ events' \in [Both -> 0..MaxClients] /\ stopping' \in [Both -> BOOLEAN]
    /\ UNCHANGED <<handle, starts, device>>
    /\ \/ /\ \E s \in StopTasks, h \in Both :
                /\ s.fam = f /\ s.on = client[h] /\ s.names = handle[h] /\ handle[h] # 0
                /\ stops' = stops \cup {s}
          /\ handlers' \subseteq handlers
          /\ UNCHANGED <<client, alive, live, rat>>
       \/ handle[f] = 0 /\ Released(f) /\ UNCHANGED stops

StopOver(s) ==
    /\ s \in stops /\ stops' = stops \ {s}
    /\ Released(s.fam)
    /\ handle' = [handle EXCEPT ![s.fam] = 0]
    /\ stopping' \in [Both -> BOOLEAN]
    /\ UNCHANGED <<events, starts, device, smVars>>

\* A start begins with the allocation of a client or with the one there is.
StartOf(f) ==
    \/ UNCHANGED starts
    \/ /\ device # "none"
       /\ \E n \in StartTasks :
             /\ n.fam = f /\ starts' = starts \cup {n}
             /\ \/ n.step = "alloc" /\ n.on = 0 /\ client["IPv4"] = 0
                \/ n.step = "family" /\ n.on = client[f]

LEMMA ReleasedEffect ==
  ASSUME TypeOK, NEW f \in Both, ReleaseClient(f),
         handlers' \subseteq handlers \ {client[f]}, live' \subseteq live \ {client[f]}
  PROVE  Released(f)
  <1>1. rat' \in BOOLEAN
    BY Zenon DEF ReleaseClient
  <1>2. rat' => rat /\ \E g \in Both : client'[g] # 0
    BY Zenon DEF ReleaseClient
  <1>3. client' = [client EXCEPT ![f] = 0] /\ alive' = alive \ {client[f]}
    BY DEF ReleaseClient, PutFlag
  <1> QED
    BY <1>1, <1>2, <1>3 DEF Released

LEMMA StopEffect ==
  ASSUME TypeOK, NEW f \in Both, StopSteps(f) PROVE StopOf(f)
  <1> DEFINE e == Undone(f, events)
             h == Undone(f, handle)
             s == [fam |-> f, on |-> client[h], names |-> handle[h]]
  <1>1. e \in Both /\ h \in Both
    BY DEF Undone, Both
  <1>2. handle[h] = 0 => handle[f] = 0
    BY DEF Undone, Both
  <1>3. UNCHANGED <<handle, starts, device>> /\ events' = PutFlag(events, e, 0)
    BY DEF StopSteps
  <1>4. events' \in [Both -> 0..MaxClients]
    BY <1>1, <1>3, ConstantsAssumption DEF TypeOK, PutFlag
  <1>5. s \in StopTasks
    BY <1>1 DEF TypeOK, StopTasks
  <1>6. s.fam = f /\ s.on = client[h] /\ s.names = handle[h]
    OBVIOUS
  <1>7. CASE /\ handle[h] # 0 /\ stops' = stops \cup {s}
             /\ stopping' = PutFlag(stopping, f, TRUE)
             /\ handlers' = handlers \ ({events[e]} \cap {client[e]})
             /\ UNCHANGED <<client, rat, alive, live>>
    <2>1. stopping' \in [Both -> BOOLEAN]
      BY <1>7 DEF TypeOK, PutFlag
    <2>2. handlers' \subseteq handlers
      BY <1>7
    <2>3. UNCHANGED <<client, alive, live, rat>>
      BY <1>7
    <2> HIDE DEF s, h, e
    <2> QED
      BY <1>1, <1>3, <1>4, <1>5, <1>6, <1>7, <2>1, <2>2, <2>3 DEF StopOf
  <1>8. CASE /\ handle[h] = 0 /\ ReleaseClient(f)
             /\ handlers' = handlers \ (({events[e]} \cap {client[e]}) \cup {client[f]})
             /\ live' = live \ {client[f]} /\ UNCHANGED <<stops, stopping>>
    <2>1. handlers' \subseteq handlers \ {client[f]} /\ live' \subseteq live \ {client[f]}
      BY <1>8
    <2>2. Released(f)
      BY <1>8, <2>1, ReleasedEffect
    <2>3. stopping' \in [Both -> BOOLEAN]
      BY <1>8 DEF TypeOK
    <2> HIDE DEF s, h, e
    <2> QED
      BY <1>2, <1>3, <1>4, <1>8, <2>2, <2>3 DEF StopOf
  <1> QED
    BY <1>7, <1>8, Zenon DEF StopSteps

LEMMA StopAnswerEffect ==
  ASSUME TypeOK, NEW s \in stops, StopAnswer(s) PROVE StopOver(s)
  <1>1. s.fam \in Both
    BY StopFields
  <1>2. handlers' \subseteq handlers \ {client[s.fam]}
    BY DEF StopAnswer
  <1>3. live' \subseteq live \ {client[s.fam]}
    BY DEF StopAnswer
  <1>4. ReleaseClient(s.fam)
    BY DEF StopAnswer
  <1>5. Released(s.fam)
    BY <1>1, <1>2, <1>3, <1>4, ReleasedEffect
  <1>6. /\ stops' = stops \ {s} /\ UNCHANGED <<events, starts, device, smVars>>
        /\ handle' = [handle EXCEPT ![s.fam] = 0]
        /\ stopping' = [stopping EXCEPT ![s.fam] = FALSE]
    BY DEF StopAnswer, PutFlag
  <1>7. stopping' \in [Both -> BOOLEAN]
    BY <1>6 DEF TypeOK
  <1> QED
    BY <1>5, <1>6, <1>7 DEF StopOver

LEMMA NewTaskEffect ==
  ASSUME NEW f \in Both, NEW step \in Steps, NEW c \in 0..MaxClients, NewTask(f, step, c)
  PROVE  \E n \in StartTasks :
            n.fam = f /\ n.step = step /\ n.on = c /\ starts' = starts \cup {n}
  <1>1. PICK i \in 1..MaxTasks :
          starts' = starts \cup {[id |-> i, fam |-> f, step |-> step, on |-> c]}
    BY DEF NewTask
  <1> DEFINE n == [id |-> i, fam |-> f, step |-> step, on |-> c]
  <1>2. n \in StartTasks /\ n.fam = f /\ n.step = step /\ n.on = c
    BY DEF StartTasks
  <1> HIDE DEF n
  <1> QED
    BY <1>1, <1>2 DEF n

LEMMA StartEffect ==
  ASSUME TypeOK, NEW f \in Both, StartNetwork(f)
  PROVE  StartOf(f) /\ UNCHANGED <<halVars, stops, modemVars>>
  <1>1. client[f] \in 0..MaxClients /\ 0 \in 0..MaxClients
    BY ConstantsAssumption DEF TypeOK
  <1>2. "alloc" \in Steps /\ "family" \in Steps
    BY DEF Steps
  <1>3. CASE device = "none" /\ UNCHANGED starts
    BY <1>3 DEF StartOf, StartNetwork
  <1>4. CASE device # "none" /\ NeedsClient(f) /\ NewTask(f, "alloc", 0)
    <2>1. PICK n \in StartTasks :
            n.fam = f /\ n.step = "alloc" /\ n.on = 0 /\ starts' = starts \cup {n}
      BY <1>1, <1>2, <1>4, NewTaskEffect
    <2> QED
      BY <1>4, <2>1 DEF StartOf, StartNetwork, NeedsClient
  <1>5. CASE device # "none" /\ NewTask(f, "family", client[f])
    <2>1. PICK n \in StartTasks :
            n.fam = f /\ n.step = "family" /\ n.on = client[f] /\ starts' = starts \cup {n}
      BY <1>1, <1>2, <1>5, NewTaskEffect
    <2> QED
      BY <1>5, <2>1 DEF StartOf, StartNetwork
  <1> QED
    BY <1>3, <1>4, <1>5 DEF StartNetwork

\* A removal ends no task; what it stops, it stops on the client's own handle.
LEMMA RemovedStarts ==
  ASSUME TypeOK, DeviceRemoved, NEW u \in starts'
  PROVE  /\ u \in StartTasks /\ u.step # "alloc"
         /\ \E t \in starts : u.fam = t.fam /\ u.on = t.on
  <1>1. PICK t \in starts : u = [t EXCEPT !.step = IF @ = "alloc" THEN "closed" ELSE @]
    BY Zenon DEF DeviceRemoved
  <1>2. PICK v \in Steps : v # "alloc" /\ v = IF t.step = "alloc" THEN "closed" ELSE t.step
    BY TaskFields DEF Steps
  <1>3. u = [t EXCEPT !.step = v]
    BY <1>1, <1>2, Zenon
  <1>4. t \in StartTasks
    BY TaskFields
  <1>5. u \in StartTasks /\ u.step = v /\ u.fam = t.fam /\ u.on = t.on
    BY <1>3, <1>4 DEF StartTasks
  <1> QED
    BY <1>2, <1>5

LEMMA RemovedStops ==
  ASSUME TypeOK, DeviceRemoved, NEW s \in stops', s \notin stops
  PROVE  /\ s \in StopTasks
         /\ \E h \in Both : s.on = client[h] /\ s.names = handle[h] /\ handle[h] # 0
  <1>1. PICK f \in {g \in Both : ~stopping[g] /\ handle[Undone(g, handle)] # 0} :
          s = [fam |-> f, on |-> client[Undone(f, handle)], names |-> handle[Undone(f, handle)]]
    BY Zenon DEF DeviceRemoved
  <1>2. PICK h \in Both : h = Undone(f, handle)
    BY DEF Undone, Both
  <1>3. s = [fam |-> f, on |-> client[h], names |-> handle[h]] /\ handle[h] # 0
    BY <1>1, <1>2
  <1>4. s \in StopTasks
    BY <1>1, <1>3 DEF StopTasks, TypeOK
  <1> QED
    BY <1>3, <1>4

LEMMA RemovedRest ==
  ASSUME DeviceRemoved
  PROVE  /\ device = "gone" /\ device' = "none" /\ alive' = {} /\ handlers' = {}
         /\ client' = For(0) /\ events' = For(0) /\ handle' = For(0)
         /\ stopping' = For(FALSE) /\ rat' = FALSE
         /\ UNCHANGED <<live, smVars>>
  BY Zenon DEF DeviceRemoved

-----------------------------------------------------------------------------
(* Type correctness.                                                       *)

LEMMA TypeInit == Init => TypeInv
  <1> SUFFICES ASSUME Init PROVE TypeInv
    OBVIOUS
  <1>1. /\ For(0) \in [Both -> 0..MaxClients] /\ For(FALSE) \in [Both -> BOOLEAN]
        /\ For("DISCONNECTED") \in [Both -> {"DISCONNECTED", "CONNECTED"}]
    BY ConstantsAssumption DEF For
  <1>2. <<>> \in Seq({"start", "stop"} \X Both) /\ <<>> \in CallLists
    BY DEF CallLists
  <1> QED
    BY <1>1, <1>2 DEF Init, TypeInv, TypeOK

LEMMA TypeAnswer ==
  ASSUME TypeInv, NEW t \in starts, AnswerOf(t) PROVE TypeInv'
  <1> USE DEF TypeInv
  <1>1. t.fam \in Both /\ t.on \in 0..MaxClients
    BY TaskFields
  <1>2. starts' \subseteq StartTasks
    BY DEF AnswerOf, GoesOn, TypeOK
  <1>3. client' \in [Both -> 0..MaxClients] /\ alive' \subseteq Clients
    <2>1. CASE NoClient(t)
      BY <2>1 DEF NoClient, TypeOK
    <2>2. ASSUME NEW c \in Clients, NewClient(t, c)
          PROVE client' \in [Both -> 0..MaxClients] /\ alive' \subseteq Clients
      BY <1>1, <2>2, ConstantsAssumption DEF NewClient, TypeOK, Clients
    <2> QED
      BY <2>1, <2>2 DEF AnswerOf
  <1>4. handle' \in [Both -> 0..MaxClients]
    <2>1. 0 \in 0..MaxClients /\ handle \in [Both -> 0..MaxClients]
      BY ConstantsAssumption DEF TypeOK
    <2>2. \/ UNCHANGED handle
          \/ \E c \in {0, t.on} : handle' = [handle EXCEPT ![t.fam] = c]
      BY DEF AnswerOf
    <2> QED
      BY <1>1, <2>1, <2>2
  <1>5. handlers' \subseteq Clients
    BY DEF AnswerOf, TypeOK
  <1>6. /\ start' \in [Both -> BOOLEAN] /\ waiting' \in [Both -> BOOLEAN]
        /\ packet' \in [Both -> {"DISCONNECTED", "CONNECTED"}]
    BY <1>1 DEF AnswerOf, TypeOK, flagVars
  <1>7. /\ events' \in [Both -> 0..MaxClients] /\ rat' \in BOOLEAN
        /\ UNCHANGED <<stopping, stops, device, live, phase, calls, overlaps>>
    BY DEF AnswerOf
  <1> QED
    BY <1>2, <1>3, <1>4, <1>5, <1>6, <1>7 DEF TypeOK

LEMMA TypeReleased ==
  ASSUME TypeOK, NEW f \in Both, Released(f)
  PROVE  /\ client' \in [Both -> 0..MaxClients] /\ alive' \subseteq Clients
         /\ handlers' \subseteq Clients /\ live' \subseteq Clients /\ rat' \in BOOLEAN
  BY ConstantsAssumption DEF Released, TypeOK

LEMMA TypeStopAnswer ==
  ASSUME TypeInv, NEW s, StopOver(s) PROVE TypeInv'
  <1> USE DEF TypeInv
  <1>1. s.fam \in Both
    BY StopFields DEF StopOver
  <1>2. /\ client' \in [Both -> 0..MaxClients] /\ alive' \subseteq Clients
        /\ handlers' \subseteq Clients /\ live' \subseteq Clients /\ rat' \in BOOLEAN
    BY <1>1, TypeReleased DEF StopOver
  <1>3. handle' \in [Both -> 0..MaxClients] /\ stops' \subseteq StopTasks
    BY <1>1, ConstantsAssumption DEF StopOver, TypeOK
  <1>4. stopping' \in [Both -> BOOLEAN] /\ UNCHANGED <<events, starts, device, smVars>>
    BY DEF StopOver
  <1> QED
    BY <1>2, <1>3, <1>4 DEF TypeOK, smVars, flagVars

LEMMA TypeRemoved ==
  ASSUME TypeInv, DeviceRemoved PROVE TypeInv'
  <1> USE DEF TypeInv
  <1>1. starts' \subseteq StartTasks
    BY RemovedStarts
  <1>2. stops' \subseteq StopTasks
    BY RemovedStops DEF TypeOK
  <1>3. For(0) \in [Both -> 0..MaxClients] /\ For(FALSE) \in [Both -> BOOLEAN]
    BY ConstantsAssumption DEF For
  <1> QED
    BY <1>1, <1>2, <1>3, RemovedRest DEF TypeOK, smVars, flagVars

LEMMA TypeStart ==
  ASSUME TypeOK, NEW f \in Both, StartNetwork(f)
  PROVE  starts' \subseteq StartTasks /\ UNCHANGED <<halVars, stops, modemVars>>
  <1>1. StartOf(f) /\ UNCHANGED <<halVars, stops, modemVars>>
    BY StartEffect
  <1>2. CASE UNCHANGED starts
    BY <1>1, <1>2 DEF TypeOK
  <1>3. CASE \E n \in StartTasks : starts' = starts \cup {n}
    BY <1>1, <1>3 DEF TypeOK
  <1> QED
    BY <1>1, <1>2, <1>3 DEF StartOf

LEMMA TypeStop ==
  ASSUME TypeOK, NEW f \in Both, StopNetwork(f)
  PROVE  /\ client' \in [Both -> 0..MaxClients] /\ events' \in [Both -> 0..MaxClients]
         /\ handle' \in [Both -> 0..MaxClients] /\ stopping' \in [Both -> BOOLEAN]
         /\ rat' \in BOOLEAN /\ stops' \subseteq StopTasks /\ alive' \subseteq Clients
         /\ handlers' \subseteq Clients /\ live' \subseteq Clients
         /\ UNCHANGED <<starts, device>>
  <1>1. CASE UNCHANGED <<halVars, taskVars, modemVars>>
    BY <1>1 DEF halVars, taskVars, modemVars, TypeOK
  <1>2. CASE StopOf(f)
    <2>1. /\ events' \in [Both -> 0..MaxClients] /\ stopping' \in [Both -> BOOLEAN]
          /\ UNCHANGED <<handle, starts, device>> /\ handle' \in [Both -> 0..MaxClients]
      BY <1>2 DEF StopOf, TypeOK
    <2>2. CASE /\ \E s \in StopTasks : stops' = stops \cup {s}
               /\ handlers' \subseteq handlers /\ UNCHANGED <<client, alive, live, rat>>
      BY <2>1, <2>2 DEF TypeOK
    <2>3. CASE Released(f) /\ UNCHANGED stops
      BY <2>1, <2>3, TypeReleased DEF TypeOK
    <2> QED
      BY <1>2, <2>2, <2>3 DEF StopOf
  <1> QED
    BY <1>1, <1>2, StopEffect DEF StopNetwork

\* A call changes the tasks of its own family, and counts as an overlap when
\* there are any.
LEMMA MadeCall ==
  ASSUME TypeInv, MakesCall
  PROVE  \E op \in Ops, f \in Both :
            /\ \/ /\ calls = BothCalls(op) /\ f = "IPv4" /\ calls' = OneCall(op, "IPv6")
               \/ calls = OneCall(op, f) /\ calls' = <<>>
            /\ UNCHANGED phase
            /\ \/ overlaps' = overlaps + 1
               \/ UNCHANGED overlaps /\ \A t \in starts \cup stops : t.fam # f
            /\ \/ /\ op = "start" /\ StartNetwork(f)
                  /\ start' = [start EXCEPT ![f] = TRUE]
                  /\ waiting' = [waiting EXCEPT ![f] = TRUE]
                  /\ packet' = [packet EXCEPT ![f] = "DISCONNECTED"]
               \/ op = "stop" /\ StopNetwork(f) /\ UNCHANGED flagVars
  <1>1. calls \in CallLists /\ calls # <<>> /\ calls' = Tail(calls)
    BY DEF TypeInv, MakesCall
  <1>2. PICK op \in Ops, f \in Both :
            /\ Head(calls)[1] = op /\ Head(calls)[2] = f
            /\ \/ calls = BothCalls(op) /\ f = "IPv4" /\ Tail(calls) = OneCall(op, "IPv6")
               \/ calls = OneCall(op, f) /\ Tail(calls) = <<>>
    BY <1>1, CallMade
  <1>3. \/ overlaps' = overlaps + 1
        \/ UNCHANGED overlaps /\ \A t \in starts \cup stops : t.fam # f
    BY <1>2, Zenon DEF MakesCall
  <1>4. \/ /\ op = "start" /\ StartNetwork(f)
           /\ start' = [start EXCEPT ![f] = TRUE]
           /\ waiting' = [waiting EXCEPT ![f] = TRUE]
           /\ packet' = [packet EXCEPT ![f] = "DISCONNECTED"]
        \/ op = "stop" /\ StopNetwork(f) /\ UNCHANGED flagVars
    BY <1>2, Zenon DEF MakesCall, PutFlag
  <1>5. UNCHANGED phase
    BY DEF MakesCall
  <1> QED
    BY <1>1, <1>2, <1>3, <1>4, <1>5

LEMMA CallListsClosed ==
  ASSUME NEW op \in Ops, NEW f \in Both
  PROVE  OneCall(op, f) \in CallLists /\ BothCalls(op) \in CallLists /\ <<>> \in CallLists
  BY DEF CallLists

LEMMA InOrderListed ==
  ASSUME NEW op \in Ops PROVE InOrder(op) \in CallLists
  BY InOrderCalls, CallListsClosed DEF Both

LEMMA CallsTyped ==
  ASSUME calls' \in CallLists PROVE calls' \in Seq({"start", "stop"} \X Both)
  BY CallListsTyped DEF Ops

LEMMA TypeCall ==
  ASSUME TypeInv, MakesCall PROVE TypeInv'
  <1> USE DEF TypeInv
  <1>1. PICK op \in Ops, f \in Both :
            /\ \/ /\ calls = BothCalls(op) /\ f = "IPv4" /\ calls' = OneCall(op, "IPv6")
               \/ calls = OneCall(op, f) /\ calls' = <<>>
            /\ UNCHANGED phase
            /\ \/ overlaps' = overlaps + 1
               \/ UNCHANGED overlaps /\ \A t \in starts \cup stops : t.fam # f
            /\ \/ /\ op = "start" /\ StartNetwork(f)
                  /\ start' = [start EXCEPT ![f] = TRUE]
                  /\ waiting' = [waiting EXCEPT ![f] = TRUE]
                  /\ packet' = [packet EXCEPT ![f] = "DISCONNECTED"]
               \/ op = "stop" /\ StopNetwork(f) /\ UNCHANGED flagVars
    BY MadeCall
  <1>2. calls' \in CallLists /\ overlaps' \in Nat /\ UNCHANGED phase
    <2>1. "IPv6" \in Both
      BY DEF Both
    <2> QED
      BY <1>1, <2>1, CallListsClosed
  <1>3. calls' \in Seq({"start", "stop"} \X Both)
    BY <1>2, CallsTyped
  <1>4. CASE /\ StartNetwork(f)
             /\ start' = [start EXCEPT ![f] = TRUE]
             /\ waiting' = [waiting EXCEPT ![f] = TRUE]
             /\ packet' = [packet EXCEPT ![f] = "DISCONNECTED"]
    <2>1. /\ start' \in [Both -> BOOLEAN] /\ waiting' \in [Both -> BOOLEAN]
          /\ packet' \in [Both -> {"DISCONNECTED", "CONNECTED"}]
      BY <1>4 DEF TypeOK
    <2>2. starts' \subseteq StartTasks /\ UNCHANGED <<halVars, stops, modemVars>>
      BY <1>4, TypeStart
    <2> QED
      BY <1>2, <1>3, <2>1, <2>2 DEF TypeOK, halVars, modemVars
  <1>5. CASE StopNetwork(f) /\ UNCHANGED flagVars
    <2>1. /\ client' \in [Both -> 0..MaxClients] /\ events' \in [Both -> 0..MaxClients]
          /\ handle' \in [Both -> 0..MaxClients] /\ stopping' \in [Both -> BOOLEAN]
          /\ rat' \in BOOLEAN /\ stops' \subseteq StopTasks /\ alive' \subseteq Clients
          /\ handlers' \subseteq Clients /\ live' \subseteq Clients
          /\ UNCHANGED <<starts, device>>
      BY <1>5, TypeStop
    <2> QED
      BY <1>2, <1>3, <1>5, <2>1 DEF TypeOK, flagVars
  <1> QED
    BY <1>1, <1>4, <1>5

LEMMA TypeMachine ==
  ASSUME TypeInv, GoesDown \/ Registers \/ StartsNetworks \/ Connects \/ Leaves
  PROVE  TypeInv'
  <1> USE DEF TypeInv
  <1>1. For(FALSE) \in [Both -> BOOLEAN] /\ For("DISCONNECTED") \in [Both -> {"DISCONNECTED", "CONNECTED"}]
    BY DEF For
  <1>2. UNCHANGED <<halVars, taskVars, modemVars>> /\ UNCHANGED overlaps
    BY DEF GoesDown, Registers, StartsNetworks, Connects, Leaves
  <1>3. phase' \in {"DOWN", "REGISTERED", "CONNECTED"}
    BY DEF GoesDown, Registers, StartsNetworks, Connects, Leaves, TypeOK
  <1>4. calls' \in CallLists
    BY InOrderListed DEF GoesDown, Registers, StartsNetworks, Connects, Leaves, Ops
  <1>5. calls' \in Seq({"start", "stop"} \X Both)
    BY <1>4, CallsTyped
  <1>6. /\ start' \in [Both -> BOOLEAN] /\ waiting' \in [Both -> BOOLEAN]
        /\ packet' \in [Both -> {"DISCONNECTED", "CONNECTED"}]
    BY <1>1 DEF GoesDown, Registers, StartsNetworks, Connects, Leaves, TypeOK, flagVars
  <1> QED
    BY <1>2, <1>3, <1>4, <1>5, <1>6 DEF TypeOK, halVars, taskVars, modemVars

LEMMA TypeModem ==
  ASSUME TypeInv, Modem PROVE TypeInv'
  <1> USE DEF TypeInv
  <1>1. ASSUME NEW c \in Clients, NEW v \in {"DISCONNECTED", "CONNECTED"},
               PacketServiceStatusCB(FamilyOf(c), v) \/ UNCHANGED smVars
        PROVE  /\ start' \in [Both -> BOOLEAN] /\ waiting' \in [Both -> BOOLEAN]
               /\ packet' \in [Both -> {"DISCONNECTED", "CONNECTED"}]
               /\ UNCHANGED <<phase, calls, overlaps>>
    <2>1. FamilyOf(c) \in Both
      BY DEF FamilyOf, Both
    <2> QED
      BY <1>1, <2>1 DEF PacketServiceStatusCB, PutFlag, TypeOK, smVars, flagVars
  <1>2. ASSUME NEW c \in Clients, SessionUp(c) PROVE TypeInv'
    <2>1. PacketServiceStatusCB(FamilyOf(c), "CONNECTED") \/ UNCHANGED smVars
      BY <1>2 DEF SessionUp
    <2>2. UNCHANGED <<halVars, taskVars, device, alive, handlers>> /\ live' \subseteq Clients
      BY <1>2 DEF SessionUp, TypeOK
    <2> QED
      BY <1>1, <2>1, <2>2 DEF TypeOK, halVars, taskVars
  <1>3. ASSUME NEW c \in Clients, SessionDown(c) PROVE TypeInv'
    <2>1. PacketServiceStatusCB(FamilyOf(c), "DISCONNECTED") \/ UNCHANGED smVars
      BY <1>3 DEF SessionDown
    <2>2. UNCHANGED <<halVars, taskVars, device, alive, handlers>> /\ live' \subseteq Clients
      BY <1>3 DEF SessionDown, TypeOK
    <2> QED
      BY <1>1, <2>1, <2>2 DEF TypeOK, halVars, taskVars
  <1>4. CASE Unplug \/ DeviceOpened
    BY <1>4 DEF Unplug, DeviceOpened, TypeOK, halVars, taskVars, smVars, flagVars
  <1> QED
    BY <1>2, <1>3, <1>4 DEF Modem

LEMMA TypeNext == TypeInv /\ [Next]_vars => TypeInv'
  <1> SUFFICES ASSUME TypeInv, [Next]_vars PROVE TypeInv'
    OBVIOUS
  <1>1. CASE StartAnswer
    BY <1>1, AnswerEffect, TypeAnswer DEF TypeInv
  <1>2. ASSUME NEW s \in stops, StopAnswer(s) PROVE TypeInv'
    BY <1>2, StopAnswerEffect, TypeStopAnswer DEF TypeInv
  <1>3. CASE UNCHANGED vars
    BY <1>3 DEF TypeInv, TypeOK, vars, halVars, taskVars, modemVars, smVars, flagVars
  <1> QED
    BY <1>1, <1>2, <1>3, TypeRemoved, TypeCall, TypeMachine, TypeModem DEF Next, StateMachine

(* Every field, task, flag and set of clients keeps to its type, and the   *)
(* calls the state machine has to make are a suffix of one of its two      *)
(* transitions.                                                            *)
THEOREM TypeCorrect == Spec => []TypeInv
  BY TypeInit, TypeNext, PTL DEF Spec

-----------------------------------------------------------------------------
(* As long as no tasks of a family overlap, a task that allocates a client *)
(* is the only start task of its family, and a task whose client is alive  *)
(* works on the client its family has now.                                 *)

AllocAlone ==
    \A t \in starts : t.step = "alloc" => \A u \in starts : u.fam = t.fam => u = t

OnOwnClient == \A t \in starts : t.on \in alive => t.on = client[t.fam]

RatOfClient == rat => \E f \in Both : client[f] # 0

TaskInv == AllocAlone /\ OnOwnClient /\ RatOfClient

LEMMA TaskAnswer ==
  ASSUME TypeInv, TaskInv, NEW t \in starts, AnswerOf(t) PROVE TaskInv'
  <1>1. t.fam \in Both /\ t.on \in 0..MaxClients
    BY TaskFields DEF TypeInv
  <1>2. \A u \in starts' : (u \in starts /\ u # t) \/ GoesOn(t, u)
    BY DEF AnswerOf, GoesOn
  <1>3. AllocAlone'
    <2> SUFFICES ASSUME NEW w \in starts', w.step = "alloc", NEW u \in starts', u.fam = w.fam
                 PROVE  u = w
      BY DEF AllocAlone
    <2>1. w \in starts /\ w # t
      BY <1>2 DEF GoesOn
    <2>2. u.fam # t.fam
      BY <2>1 DEF TaskInv, AllocAlone
    <2> QED
      BY <1>2, <2>1, <2>2 DEF TaskInv, AllocAlone, GoesOn
  <1>4. OnOwnClient'
    <2> SUFFICES ASSUME NEW u \in starts', u.on \in alive' PROVE u.on = client'[u.fam]
      BY DEF OnOwnClient
    <2>1. CASE GoesOn(t, u)
      BY <2>1 DEF GoesOn
    <2>2. CASE u \in starts /\ u # t /\ NoClient(t)
      BY <2>2 DEF NoClient, TaskInv, OnOwnClient
    <2>3. ASSUME NEW c \in Clients, NewClient(t, c), u \in starts, u # t
          PROVE  u.on = client'[u.fam]
      <3>1. u.on # c
        BY <2>3 DEF NewClient, Free, InUse
      <3>2. u.on = client[u.fam]
        BY <2>3, <3>1 DEF NewClient, TaskInv, OnOwnClient
      <3>3. u.fam # t.fam
        BY <2>3 DEF NewClient, TaskInv, AllocAlone
      <3>4. u.fam \in Both
        BY <2>3, TaskFields DEF TypeInv
      <3> QED
        BY <1>1, <2>3, <3>2, <3>3, <3>4 DEF NewClient, TypeInv, TypeOK
    <2> QED
      BY <1>2, <2>1, <2>2, <2>3 DEF AnswerOf
  <1>5. RatOfClient'
    <2> SUFFICES ASSUME rat' PROVE \E f \in Both : client'[f] # 0
      BY DEF RatOfClient
    <2>1. PICK g \in Both : client[g] # 0
      <3>1. CASE rat
        BY <3>1 DEF TaskInv, RatOfClient
      <3>2. CASE t.on \in alive
        BY <1>1, <3>2 DEF TaskInv, OnOwnClient, TypeInv, TypeOK, Clients
      <3> QED
        BY <3>1, <3>2 DEF AnswerOf
    <2>2. CASE NoClient(t)
      BY <2>1, <2>2 DEF NoClient
    <2>3. ASSUME NEW c \in Clients, NewClient(t, c) PROVE client'[t.fam] # 0
      BY <1>1, <2>3 DEF NewClient, TypeInv, TypeOK, Clients
    <2> QED
      BY <1>1, <2>2, <2>3 DEF AnswerOf
  <1> QED
    BY <1>3, <1>4, <1>5 DEF TaskInv

LEMMA TaskReleased ==
  ASSUME TypeInv, TaskInv, NEW f \in Both, Released(f), UNCHANGED starts PROVE TaskInv'
  <1>1. AllocAlone'
    BY DEF TaskInv, AllocAlone
  <1>2. OnOwnClient'
    <2> SUFFICES ASSUME NEW u \in starts, u.on \in alive' PROVE u.on = client'[u.fam]
      BY DEF OnOwnClient
    <2>1. u.on \in alive /\ u.on # client[f]
      BY DEF Released
    <2>2. u.on = client[u.fam]
      BY <2>1 DEF TaskInv, OnOwnClient
    <2>3. u.fam # f /\ u.fam \in Both
      BY <2>1, <2>2, TaskFields DEF TypeInv
    <2> QED
      BY <2>2, <2>3 DEF Released, TypeInv, TypeOK
  <1>3. RatOfClient'
    BY DEF Released, RatOfClient
  <1> QED
    BY <1>1, <1>2, <1>3 DEF TaskInv

LEMMA TaskRemoved ==
  ASSUME TypeInv, TaskInv, DeviceRemoved PROVE TaskInv'
  BY RemovedStarts, RemovedRest DEF TypeInv, TaskInv, AllocAlone, OnOwnClient, RatOfClient

LEMMA TaskStart ==
  ASSUME TypeInv, TaskInv, NEW f \in Both, StartOf(f), UNCHANGED <<halVars, modemVars>>,
         \A t \in starts : t.fam # f
  PROVE  TaskInv'
  <1>1. UNCHANGED <<client, alive, rat>>
    BY DEF halVars, modemVars
  <1>2. CASE UNCHANGED starts
    BY <1>1, <1>2 DEF TaskInv, AllocAlone, OnOwnClient, RatOfClient
  <1>3. ASSUME NEW n, n.fam = f, starts' = starts \cup {n}, n.on \in {0, client[f]}
        PROVE  TaskInv'
    <2>1. 0 \notin alive
      BY DEF TypeInv, TypeOK, Clients
    <2> QED
      BY <1>1, <1>3, <2>1 DEF TaskInv, AllocAlone, OnOwnClient, RatOfClient
  <1> QED
    BY <1>2, <1>3 DEF StartOf

LEMMA TaskStop ==
  ASSUME TypeInv, TaskInv, NEW f \in Both, StopNetwork(f) PROVE TaskInv'
  <1>1. CASE UNCHANGED <<halVars, taskVars, modemVars>>
    BY <1>1 DEF halVars, taskVars, modemVars, TaskInv, AllocAlone, OnOwnClient, RatOfClient
  <1>2. CASE StopSteps(f)
    <2>1. StopOf(f)
      BY <1>2, StopEffect DEF TypeInv
    <2>2. CASE UNCHANGED <<client, alive, starts, rat>>
      BY <2>2 DEF TaskInv, AllocAlone, OnOwnClient, RatOfClient
    <2>3. CASE Released(f) /\ UNCHANGED starts
      BY <2>3, TaskReleased
    <2> QED
      BY <2>1, <2>2, <2>3 DEF StopOf
  <1> QED
    BY <1>1, <1>2 DEF StopNetwork

LEMMA TaskCall ==
  ASSUME TypeInv, TaskInv, MakesCall, overlaps = 0, overlaps' = 0 PROVE TaskInv'
  <1>1. PICK f \in Both :
            /\ \A t \in starts \cup stops : t.fam # f
            /\ StartNetwork(f) \/ StopNetwork(f)
    BY MadeCall
  <1>2. CASE StartNetwork(f)
    BY <1>1, <1>2, StartEffect, TaskStart DEF TypeInv
  <1> QED
    BY <1>1, <1>2, TaskStop

\* The tasks, the clients and the radio technology are as they were.
LEMMA TaskKept ==
  ASSUME TaskInv, UNCHANGED <<starts, client, alive, rat>> PROVE TaskInv'
  BY DEF TaskInv, AllocAlone, OnOwnClient, RatOfClient

\* Everything but a call leaves the overlaps alone.
LEMMA OverlapsKept ==
  ASSUME TypeInv, [Next]_vars, overlaps' = 0 PROVE overlaps = 0
  <1>1. CASE StartAnswer
    BY <1>1, AnswerEffect DEF TypeInv, AnswerOf
  <1>2. CASE MakesCall
    BY <1>2, MadeCall DEF TypeInv
  <1>3. CASE GoesDown \/ Registers \/ StartsNetworks \/ Connects \/ Leaves
    BY <1>3 DEF GoesDown, Registers, StartsNetworks, Connects, Leaves
  <1>4. CASE Modem
    BY <1>4 DEF Modem, SessionUp, SessionDown, Unplug, DeviceOpened, PacketServiceStatusCB,
                smVars
  <1>5. CASE DeviceRemoved
    BY <1>5, RemovedRest DEF smVars
  <1>6. ASSUME NEW s \in stops, StopAnswer(s) PROVE overlaps = 0
    BY <1>6 DEF StopAnswer, smVars
  <1>7. CASE UNCHANGED vars
    BY <1>7 DEF vars, smVars
  <1> QED
    BY <1>1, <1>2, <1>3, <1>4, <1>5, <1>6, <1>7 DEF Next, StateMachine

TasksApart == overlaps = 0 => TaskInv

LEMMA TaskNext == TypeInv /\ TasksApart /\ [Next]_vars => TasksApart'
  <1> SUFFICES ASSUME TypeInv, TaskInv, [Next]_vars, overlaps = 0, overlaps' = 0
               PROVE  TaskInv'
    BY OverlapsKept DEF TasksApart
  <1>1. CASE StartAnswer
    BY <1>1, AnswerEffect, TaskAnswer DEF TypeInv
  <1>2. ASSUME NEW s \in stops, StopAnswer(s) PROVE TaskInv'
    BY <1>2, StopAnswerEffect, StopFields, TaskReleased DEF StopOver, TypeInv
  <1>3. CASE DeviceRemoved
    BY <1>3, TaskRemoved
  <1>4. CASE MakesCall
    BY <1>4, TaskCall
  <1>5. CASE GoesDown \/ Registers \/ StartsNetworks \/ Connects \/ Leaves
    BY <1>5, TaskKept
       DEF GoesDown, Registers, StartsNetworks, Connects, Leaves, halVars, taskVars, modemVars
  <1>6. CASE Modem
    BY <1>6, TaskKept
       DEF Modem, SessionUp, SessionDown, Unplug, DeviceOpened, halVars, taskVars
  <1>7. CASE UNCHANGED vars
    BY <1>7, TaskKept DEF vars, halVars, taskVars, modemVars
  <1> QED
    BY <1>1, <1>2, <1>3, <1>4, <1>5, <1>6, <1>7 DEF Next, StateMachine

LEMMA TaskInit == Init => TasksApart
  BY DEF Init, TasksApart, TaskInv, AllocAlone, OnOwnClient, RatOfClient

LEMMA TasksApartCorrect == Spec => []TasksApart
  BY TypeCorrect, TaskInit, TaskNext, PTL DEF Spec

(* currentRAT is empty when no family has a client, for every profile.     *)
THEOREM RatMeansClientCorrect == Spec => []RatMeansClient
  <1>1. TasksApart => RatMeansClient
    BY DEF TasksApart, TaskInv, RatOfClient, RatMeansClient
  <1> QED
    BY <1>1, TasksApartCorrect, PTL

-----------------------------------------------------------------------------
(* For a profile with IPv4 no client is allocated over another.  The guard *)
(* of the allocation looks at the IPv4 client for both families, so that   *)
(* an IPv6 start must never find IPv6 with a client and IPv4 without.      *)
(* Where they stand so, IPv6 is about to be stopped, or IPv4 has been      *)
(* asked for and never answers, which keeps the machine from starting.     *)

Stopped(f) == \E s \in stops : s.fam = f

\* No start task of f has got as far as to be answered with a callback.
Early(f) == \A t \in starts : t.fam = f => t.step \in {"alloc", "closed", "family"}

\* The transitions make their calls in REGISTERED, for the families there are.
CallsOfFamilies ==
    /\ calls # <<>> => phase = "REGISTERED"
    /\ \A op \in Ops : calls = OneCall(op, "IPv4") => Family = {"IPv4"}
    /\ \A op \in Ops : calls \in {BothCalls(op), OneCall(op, "IPv6")} => Family = Both

InFamily ==
    /\ \A t \in starts : t.fam \in Family
    /\ \A f \in Both : client[f] # 0 => f \in Family

AllocFresh ==
    \A t \in starts : t.step = "alloc" =>
        /\ client[t.fam] = 0 /\ device # "none"
        /\ t.fam = "IPv6" => start["IPv6"] /\ Idle /\ phase = "REGISTERED"

\* The start of IPv6 is due or about to allocate.
IPv6Starts ==
    \/ calls = OneCall("start", "IPv6") /\ device # "none"
    \/ \E t \in starts : t.step = "alloc" /\ t.fam = "IPv6"

\* By then the start of IPv4 was asked for.
IPv4First ==
    IPv6Starts =>
        /\ ~Stopped("IPv4")
        /\ client["IPv4"] = 0 => start["IPv4"] /\ Early("IPv4")

IPv6Alone ==
    client["IPv4"] = 0 /\ client["IPv6"] # 0 =>
        \/ StopDue \/ Stopped("IPv6")
        \/ start["IPv4"] /\ Early("IPv4") /\ Idle /\ phase = "REGISTERED"

StopsBoth == Stopped("IPv4") /\ client["IPv6"] # 0 => StopDue \/ Stopped("IPv6")

Closed ==
    /\ device = "none" => \A f \in Both : client[f] = 0
    /\ device # "open" => live = {}

Held == alive \cup handlers \cup live \subseteq {client[f] : f \in Both}

Handles ==
    /\ \A f \in Both : handle[f] # 0 => handle[f] = client[f]
    /\ \A s \in stops : s.on = s.names

ClientInv ==
    /\ CallsOfFamilies /\ InFamily /\ AllocFresh /\ IPv4First /\ IPv6Alone /\ StopsBoth
    /\ Closed /\ Held /\ Handles
ClientsApart == overlaps = 0 => ClientInv

LEMMA ClientAnswer ==
  ASSUME TypeInv, TaskInv, ClientInv, NEW t \in starts, AnswerOf(t) PROVE ClientInv'
  <1> USE DEF ClientInv
  <1>1. t.fam \in Both /\ t.on \in 0..MaxClients /\ "IPv4" \in Both /\ "IPv6" \in Both
    BY TaskFields DEF TypeInv, Both
  <1>2. \A u \in starts' : (u \in starts /\ u # t) \/ GoesOn(t, u)
    BY DEF AnswerOf, GoesOn
  <1>3. \A u \in starts' : u.step = "alloc" => u \in starts /\ u # t /\ u.fam # t.fam
    BY <1>2 DEF GoesOn, TaskInv, AllocAlone
  <1>4. UNCHANGED <<stops, device, live, phase, calls>>
    BY DEF AnswerOf
  <1>5. UNCHANGED <<Idle, StopDue, Stopped("IPv4"), Stopped("IPv6")>>
    BY <1>4 DEF Idle, StopDue, Stopped
  <1>6. \/ UNCHANGED <<client, alive>>
        \/ \E c \in Clients : NewClient(t, c) /\ client[t.fam] = 0
    BY DEF AnswerOf, NoClient, NewClient, AllocFresh
  <1>7. \A f \in Both : client[f] # 0 => client'[f] = client[f]
    BY <1>1, <1>6 DEF NewClient, TypeInv, TypeOK
  <1>8. t.on \in alive => t.on = client[t.fam] /\ t.on # 0
    BY <1>1 DEF TaskInv, OnOwnClient, TypeInv, TypeOK, Clients
  <1>9. client["IPv4"] = 0 /\ Early("IPv4") => Early("IPv4")'
    <2> SUFFICES ASSUME client["IPv4"] = 0, Early("IPv4"), NEW u \in starts', u.fam = "IPv4"
                 PROVE  u.step \in {"alloc", "closed", "family"}
      BY DEF Early
    <2>1. CASE u \in starts
      BY <2>1 DEF Early
    <2>2. CASE GoesOn(t, u)
      BY <1>8, <2>2 DEF GoesOn, Early
    <2> QED
      BY <1>2, <2>1, <2>2
  <1>10. Early("IPv4") => start'["IPv4"] = start["IPv4"]
    BY <1>1 DEF AnswerOf, Early, flagVars, TypeInv, TypeOK
  <1>11. CallsOfFamilies' /\ Closed'
    BY <1>1, <1>4, <1>6 DEF CallsOfFamilies, Closed, NewClient
  <1>12. InFamily'
    <2>1. \A u \in starts' : u.fam \in Family
      BY <1>2 DEF InFamily, GoesOn
    <2>2. \A f \in Both : client'[f] # 0 => f \in Family
      BY <1>1, <1>6 DEF InFamily, NewClient, TypeInv, TypeOK
    <2> QED
      BY <2>1, <2>2 DEF InFamily
  <1>13. AllocFresh'
    <2> SUFFICES ASSUME NEW w \in starts', w.step = "alloc"
                 PROVE  /\ client'[w.fam] = 0 /\ device' # "none"
                        /\ w.fam = "IPv6" => start'["IPv6"] /\ Idle' /\ phase' = "REGISTERED"
      BY DEF AllocFresh
    <2>1. w \in starts /\ w # t /\ w.fam # t.fam /\ w.fam \in Both
      BY <1>3, TaskFields DEF TypeInv
    <2>2. /\ client[w.fam] = 0 /\ device # "none"
          /\ w.fam = "IPv6" => start["IPv6"] /\ Idle /\ phase = "REGISTERED"
      BY <2>1 DEF AllocFresh
    <2>3. client'[w.fam] = 0
      BY <1>1, <1>6, <2>1, <2>2 DEF NewClient, TypeInv, TypeOK
    <2>4. start'[w.fam] = start[w.fam]
      BY <1>1, <2>1 DEF AnswerOf, flagVars, TypeInv, TypeOK
    <2> QED
      BY <1>4, <1>5, <2>2, <2>3, <2>4
  <1>14. IPv6Starts' => IPv6Starts
    BY <1>3, <1>4 DEF IPv6Starts
  <1>15. IPv4First'
    BY <1>1, <1>5, <1>7, <1>9, <1>10, <1>14 DEF IPv4First
  <1>16. IPv6Alone' /\ StopsBoth'
    <2>1. CASE client'["IPv6"] # 0 => client["IPv6"] # 0
      <3>1. IPv6Alone'
        BY <1>1, <1>4, <1>5, <1>7, <1>9, <1>10, <2>1 DEF IPv6Alone
      <3>2. StopsBoth'
        BY <1>5, <2>1 DEF StopsBoth
      <3> QED
        BY <3>1, <3>2
    <2>2. CASE client["IPv6"] = 0 /\ client'["IPv6"] # 0
      <3>1. t.step = "alloc" /\ t.fam = "IPv6" /\ UNCHANGED smVars
        BY <1>1, <1>6, <2>2 DEF NewClient, TypeInv, TypeOK
      <3>2. Idle /\ phase = "REGISTERED" /\ IPv6Starts
        BY <3>1 DEF AllocFresh, IPv6Starts
      <3>3. ~Stopped("IPv4") /\ (client["IPv4"] = 0 => start["IPv4"] /\ Early("IPv4"))
        BY <3>2 DEF IPv4First
      <3> QED
        BY <1>1, <1>4, <1>5, <1>7, <1>9, <1>10, <3>2, <3>3 DEF IPv6Alone, StopsBoth
    <2> QED
      BY <2>1, <2>2
  <1>17. Held'
    <2> SUFFICES ASSUME NEW x \in alive' \cup handlers' \cup live'
                 PROVE  \E f \in Both : x = client'[f]
      BY DEF Held
    <2>1. CASE x \in alive \cup handlers \cup live
      <3>1. x # 0
        BY <2>1 DEF TypeInv, TypeOK, Clients
      <3>2. PICK f \in Both : x = client[f]
        BY <2>1 DEF Held
      <3> QED
        BY <1>7, <3>1, <3>2
    <2>2. CASE \E c \in Clients : NewClient(t, c) /\ x = c
      BY <1>1, <2>2 DEF NewClient, TypeInv, TypeOK
    <2> QED
      BY <1>4, <1>6, <2>1, <2>2 DEF AnswerOf, NewClient
  <1>18. Handles'
    <2>1. ASSUME NEW f \in Both, handle'[f] # 0 PROVE handle'[f] = client'[f]
      <3>1. handle'[f] = handle[f] \/ (f = t.fam /\ t.on \in alive /\ handle'[f] = t.on)
        BY <1>1, <2>1 DEF AnswerOf, TypeInv, TypeOK
      <3>2. CASE handle'[f] = handle[f]
        BY <1>7, <2>1, <3>2 DEF Handles
      <3>3. CASE f = t.fam /\ t.on \in alive /\ handle'[f] = t.on
        BY <1>7, <1>8, <2>1, <3>3
      <3> QED
        BY <3>1, <3>2, <3>3
    <2> QED
      BY <1>4, <2>1 DEF Handles
  <1> QED
    BY <1>11, <1>12, <1>13, <1>15, <1>16, <1>17, <1>18

LEMMA HeldReleased ==
  ASSUME Held, NEW f \in Both, Released(f), TypeInv PROVE Held'
  <1> SUFFICES ASSUME NEW x \in alive' \cup handlers' \cup live'
               PROVE  \E g \in Both : x = client'[g]
    BY DEF Held
  <1>1. x \in alive \cup handlers \cup live /\ x # client[f]
    BY DEF Released
  <1>2. PICK g \in Both : x = client[g]
    BY <1>1 DEF Held
  <1> QED
    BY <1>1, <1>2 DEF Released, TypeInv, TypeOK

\* A release takes clients away and nothing else.
LEMMA ReleasedClients ==
  ASSUME TypeInv, NEW f \in Both, Released(f)
  PROVE  /\ client'[f] = 0
         /\ \A g \in Both : client'[g] = 0 \/ client'[g] = client[g]
         /\ \A g \in Both : g # f => client'[g] = client[g]
  BY DEF Released, TypeInv, TypeOK

LEMMA ClientStopAnswer ==
  ASSUME TypeInv, ClientInv, NEW s \in stops, StopOver(s) PROVE ClientInv'
  <1> USE DEF ClientInv
  <1>1. s.fam \in Both /\ "IPv4" \in Both /\ "IPv6" \in Both
    BY StopFields DEF TypeInv, Both
  <1>2. /\ stops' = stops \ {s} /\ Released(s.fam)
        /\ handle' = [handle EXCEPT ![s.fam] = 0]
        /\ UNCHANGED <<starts, device, phase, calls, start>>
    BY DEF StopOver, smVars, flagVars
  <1>3. /\ client'[s.fam] = 0
        /\ \A g \in Both : client'[g] = 0 \/ client'[g] = client[g]
        /\ \A g \in Both : g # s.fam => client'[g] = client[g]
    BY <1>1, <1>2, ReleasedClients
  <1>4. UNCHANGED <<Idle, StopDue, IPv6Starts, Early("IPv4")>>
    BY <1>2 DEF Idle, StopDue, IPv6Starts, Early
  <1>5. /\ Stopped("IPv4")' => Stopped("IPv4")
        /\ Stopped("IPv6") /\ s.fam # "IPv6" => Stopped("IPv6")'
        /\ Stopped(s.fam)
    BY <1>2 DEF Stopped
  <1>6. CallsOfFamilies' /\ InFamily'
    BY <1>2, <1>3 DEF CallsOfFamilies, InFamily
  <1>7. AllocFresh'
    BY <1>1, <1>2, <1>3, <1>4, TaskFields DEF AllocFresh, TypeInv
  <1>8. IPv4First'
    BY <1>1, <1>2, <1>3, <1>4, <1>5 DEF IPv4First
  <1>9. IPv6Alone'
    BY <1>1, <1>2, <1>3, <1>4, <1>5 DEF IPv6Alone, StopsBoth, Both
  <1>10. StopsBoth'
    BY <1>1, <1>3, <1>4, <1>5 DEF StopsBoth, Both
  <1>11. Closed'
    BY <1>2, <1>3 DEF Closed, Released
  <1>12. Held'
    BY <1>1, <1>2, HeldReleased
  <1>13. Handles'
    BY <1>1, <1>2, <1>3 DEF Handles, TypeInv, TypeOK
  <1> QED
    BY <1>6, <1>7, <1>8, <1>9, <1>10, <1>11, <1>12, <1>13

LEMMA ClientRemoved ==
  ASSUME TypeInv, ClientInv, DeviceRemoved PROVE ClientInv'
  <1> USE DEF ClientInv
  <1>1. /\ device = "gone" /\ device' = "none" /\ alive' = {} /\ handlers' = {}
        /\ UNCHANGED <<live, phase, calls, start>>
        /\ \A f \in Both : client'[f] = 0 /\ handle'[f] = 0
    BY RemovedRest DEF smVars, flagVars, For
  <1>2. \A u \in starts' : u.step # "alloc" /\ u.fam \in Family
    BY RemovedStarts DEF InFamily, TypeInv
  <1>3. \A s \in stops' : s.on = s.names
    BY RemovedStops DEF Handles, TypeInv
  <1>4. CallsOfFamilies' /\ InFamily'
    BY <1>1, <1>2 DEF CallsOfFamilies, InFamily
  <1>5. AllocFresh' /\ IPv4First'
    BY <1>1, <1>2 DEF AllocFresh, IPv4First, IPv6Starts
  <1>6. IPv6Alone' /\ StopsBoth'
    BY <1>1 DEF IPv6Alone, StopsBoth, Both
  <1>7. Closed' /\ Held'
    BY <1>1 DEF Closed, Held
  <1>8. Handles'
    BY <1>1, <1>3 DEF Handles
  <1> QED
    BY <1>4, <1>5, <1>6, <1>7, <1>8

\* A start is asked for: no task of the family is out.
LEMMA ClientStart ==
  ASSUME TypeInv, ClientInv, "IPv4" \in Family, NEW f \in Both, StartNetwork(f),
         \/ calls = BothCalls("start") /\ f = "IPv4" /\ calls' = OneCall("start", "IPv6")
         \/ calls = OneCall("start", f) /\ calls' = <<>>,
         start' = [start EXCEPT ![f] = TRUE], UNCHANGED phase,
         \A t \in starts \cup stops : t.fam # f
  PROVE  ClientInv'
  <1> USE DEF ClientInv
  <1>1. StartOf(f) /\ UNCHANGED <<client, handle, stops, device, alive, handlers, live>>
    BY StartEffect DEF TypeInv, halVars, modemVars
  <1>2. "IPv4" \in Both /\ "IPv6" \in Both /\ "start" \in Ops
    BY DEF Both, Ops
  <1>3. phase = "REGISTERED" /\ ~StopDue /\ f \in Family
    <2>1. calls # <<>>
      BY BothCallsParts, OneCallParts
    <2>2. ~StopDue
      BY ListsDiffer DEF StopDue
    <2>3. f \in Family
      BY <1>2 DEF CallsOfFamilies, Both
    <2> QED
      BY <2>1, <2>2, <2>3 DEF CallsOfFamilies
  <1>4. CallsOfFamilies'
    <2>1. calls' = OneCall("start", "IPv6") => Family = Both
      BY <1>2, OneCallParts DEF CallsOfFamilies
    <2>2. \A op \in Ops : calls' # BothCalls(op)
      BY BothCallsParts, ListsDiffer
    <2>3. \A op \in Ops, g \in Both : calls' = OneCall(op, g) => op = "start" /\ g = "IPv6"
      BY OneCallParts, ListsDiffer
    <2> QED
      BY <1>2, <1>3, <2>1, <2>2, <2>3 DEF CallsOfFamilies
  <1>5. \A u \in starts' : \/ u \in starts /\ u.fam # f
                           \/ /\ u.fam = f /\ u.step \in {"alloc", "family"}
                              /\ device # "none"
                              /\ u.step = "alloc" => client["IPv4"] = 0
    BY <1>1 DEF StartOf
  <1>6. InFamily'
    BY <1>1, <1>3, <1>5 DEF InFamily
  <1>7. start'["IPv4"] = (start["IPv4"] \/ f = "IPv4") /\ start'["IPv6"] = (start["IPv6"] \/ f = "IPv6")
    BY <1>2 DEF TypeInv, TypeOK, Both
  <1>8. f = "IPv6" => calls = OneCall("start", "IPv6") /\ calls' = <<>>
    OBVIOUS
  <1>9. f = "IPv6" /\ client["IPv4"] = 0 => client["IPv6"] = 0
    <2> SUFFICES ASSUME f = "IPv6", client["IPv4"] = 0, client["IPv6"] # 0 PROVE FALSE
      OBVIOUS
    <2>1. ~Stopped("IPv6")
      BY DEF Stopped
    <2>2. ~Idle
      BY <1>8, OneCallParts DEF Idle
    <2> QED
      BY <1>3, <2>1, <2>2 DEF IPv6Alone
  <1>10. AllocFresh'
    <2> SUFFICES ASSUME NEW w \in starts', w.step = "alloc"
                 PROVE  /\ client[w.fam] = 0 /\ device # "none"
                        /\ w.fam = "IPv6" => start'["IPv6"] /\ Idle' /\ phase' = "REGISTERED"
      BY <1>1 DEF AllocFresh
    <2>1. CASE w \in starts /\ w.fam # f
      <3>1. w.fam = "IPv6" => FALSE
        <4>1. ~Idle
          BY BothCallsParts, OneCallParts DEF Idle
        <4> QED
          BY <2>1, <4>1 DEF AllocFresh
      <3> QED
        BY <2>1, <3>1 DEF AllocFresh
    <2>2. CASE w.fam = f /\ device # "none" /\ client["IPv4"] = 0
      BY <1>3, <1>7, <1>8, <1>9, <2>2 DEF Both, Idle
    <2> QED
      BY <1>5, <2>1, <2>2
  <1>11. f = "IPv6" => (IPv6Starts' => IPv6Starts) /\ (Early("IPv4") => Early("IPv4")')
    BY <1>1, <1>5, <1>8, OneCallParts DEF IPv6Starts, Early
  <1>12. f = "IPv4" => Early("IPv4")' /\ ~Stopped("IPv4")
    BY <1>5 DEF Early, Stopped
  <1>13. UNCHANGED <<Stopped("IPv4"), Stopped("IPv6")>>
    BY <1>1 DEF Stopped
  <1>14. IPv4First'
    BY <1>1, <1>7, <1>11, <1>12, <1>13 DEF IPv4First, Both
  <1>15. ~Idle
    BY BothCallsParts, OneCallParts DEF Idle
  <1>16. IPv6Alone'
    BY <1>1, <1>3, <1>13, <1>15 DEF IPv6Alone
  <1>17. StopsBoth'
    BY <1>1, <1>3, <1>13 DEF StopsBoth
  <1>18. Closed' /\ Held' /\ Handles'
    BY <1>1 DEF Closed, Held, Handles
  <1> QED
    BY <1>4, <1>6, <1>10, <1>14, <1>16, <1>17, <1>18

\* A stop is asked for: no task of the family is out, and the stop of IPv6
\* follows that of IPv4.
LEMMA ClientStop ==
  ASSUME TypeInv, FlagInv, ClientInv, "IPv4" \in Family, NEW f \in Both, StopNetwork(f),
         \/ calls = BothCalls("stop") /\ f = "IPv4" /\ calls' = OneCall("stop", "IPv6")
         \/ calls = OneCall("stop", f) /\ calls' = <<>>,
         UNCHANGED <<flagVars, phase>>,
         \A t \in starts \cup stops : t.fam # f
  PROVE  ClientInv'
  <1> USE DEF ClientInv
  <1>1. "IPv4" \in Both /\ "IPv6" \in Both /\ "stop" \in Ops
    BY DEF Both, Ops
  <1>2. UNCHANGED <<start, phase>> /\ calls # <<>> /\ phase = "REGISTERED"
    BY BothCallsParts, OneCallParts DEF flagVars, CallsOfFamilies
  <1>3. UNCHANGED <<starts, device>>
    BY TypeStop DEF TypeInv
  <1>4. CallsOfFamilies'
    <2>1. calls' = OneCall("stop", "IPv6") => Family = Both
      BY <1>1, OneCallParts DEF CallsOfFamilies
    <2>2. \A op \in Ops : calls' # BothCalls(op)
      BY BothCallsParts, ListsDiffer
    <2>3. \A op \in Ops, g \in Both : calls' = OneCall(op, g) => op = "stop" /\ g = "IPv6"
      BY OneCallParts, ListsDiffer
    <2> QED
      BY <1>1, <1>2, <2>1, <2>2, <2>3 DEF CallsOfFamilies
  <1>5. /\ \A g \in Both : client'[g] = 0 \/ client'[g] = client[g]
        /\ \A g \in Both : g # f => client'[g] = client[g]
        /\ Stopped("IPv4")' => Stopped("IPv4") \/ f = "IPv4"
        /\ Held' /\ Handles' /\ live' \subseteq live
        /\ f = "IPv6" => Stopped("IPv6")' \/ client'["IPv6"] = 0
        /\ stops \subseteq stops'
    <2>1. CASE UNCHANGED <<halVars, taskVars, modemVars>> /\ (device = "none" \/ stopping[f])
      <3>1. UNCHANGED <<client, alive, handlers, live, handle, stops>>
        BY <2>1 DEF halVars, taskVars, modemVars
      <3>2. ~stopping[f]
        BY DEF FlagInv, StopFlagOwned
      <3> QED
        BY <1>1, <2>1, <3>1, <3>2 DEF Stopped, Held, Handles, Closed
    <2>2. CASE StopOf(f)
      <3>1. CASE /\ \E s \in StopTasks, h \in Both :
                       /\ s.fam = f /\ s.on = client[h] /\ s.names = handle[h] /\ handle[h] # 0
                       /\ stops' = stops \cup {s}
                 /\ handlers' \subseteq handlers /\ UNCHANGED <<client, alive, live, handle>>
        <4>1. PICK s \in StopTasks, h \in Both :
                       /\ s.fam = f /\ s.on = client[h] /\ s.names = handle[h] /\ handle[h] # 0
                       /\ stops' = stops \cup {s}
          BY <3>1
        <4>2. Handles'
          BY <3>1, <4>1 DEF Handles
        <4>3. Held'
          BY <3>1 DEF Held
        <4> QED
          BY <3>1, <4>1, <4>2, <4>3 DEF Stopped
      <3>2. CASE handle[f] = 0 /\ Released(f) /\ UNCHANGED <<stops, handle>>
        <4>1. /\ client'[f] = 0
              /\ \A g \in Both : client'[g] = 0 \/ client'[g] = client[g]
              /\ \A g \in Both : g # f => client'[g] = client[g]
          BY <3>2, ReleasedClients
        <4>2. Held'
          BY <3>2, HeldReleased
        <4>3. Handles'
          BY <3>2, <4>1 DEF Handles
        <4>4. live' \subseteq live
          BY <3>2 DEF Released
        <4> QED
          BY <3>2, <4>1, <4>2, <4>3, <4>4 DEF Stopped
      <3> QED
        BY <2>2, <3>1, <3>2 DEF StopOf
    <2> QED
      BY <2>1, <2>2, StopEffect DEF StopNetwork, TypeInv
  <1>6. InFamily'
    BY <1>3, <1>5 DEF InFamily
  <1>7. ~Idle /\ calls # OneCall("start", "IPv6") /\ calls' # OneCall("start", "IPv6")
    BY <1>2, OneCallParts, ListsDiffer DEF Idle
  <1>8. \A t \in starts : t.step = "alloc" => t.fam # "IPv6"
    BY <1>7 DEF AllocFresh
  <1>9. AllocFresh'
    BY <1>3, <1>5, <1>8, TaskFields DEF AllocFresh, TypeInv
  <1>10. IPv4First'
    BY <1>3, <1>7, <1>8 DEF IPv4First, IPv6Starts
  <1>11. Stopped("IPv6") => Stopped("IPv6")'
    BY <1>5 DEF Stopped
  <1>12. CASE f = "IPv6"
    <2>1. client'["IPv6"] # 0 => Stopped("IPv6")'
      BY <1>5, <1>12
    <2> QED
      BY <1>3, <1>4, <1>5, <1>6, <1>9, <1>10, <2>1 DEF IPv6Alone, StopsBoth, Closed
  <1>13. CASE f = "IPv4"
    <2>1. client'["IPv6"] # 0 => StopDue'
      <3>1. client'["IPv6"] # 0 => "IPv6" \in Family
        BY <1>1, <1>6 DEF InFamily
      <3>2. calls = OneCall("stop", "IPv4") => Family = {"IPv4"}
        BY <1>1 DEF CallsOfFamilies
      <3> QED
        BY <1>13, <3>1, <3>2 DEF StopDue
    <2> QED
      BY <1>3, <1>4, <1>5, <1>6, <1>9, <1>10, <2>1 DEF IPv6Alone, StopsBoth, Closed
  <1> QED
    BY <1>12, <1>13 DEF Both

LEMMA ClientCall ==
  ASSUME TypeInv, FlagInv, ClientInv, "IPv4" \in Family, MakesCall, overlaps = 0, overlaps' = 0
  PROVE  ClientInv'
  <1>1. PICK op \in Ops, f \in Both :
            /\ \/ /\ calls = BothCalls(op) /\ f = "IPv4" /\ calls' = OneCall(op, "IPv6")
               \/ calls = OneCall(op, f) /\ calls' = <<>>
            /\ UNCHANGED phase
            /\ \/ overlaps' = overlaps + 1
               \/ UNCHANGED overlaps /\ \A t \in starts \cup stops : t.fam # f
            /\ \/ /\ op = "start" /\ StartNetwork(f)
                  /\ start' = [start EXCEPT ![f] = TRUE]
                  /\ waiting' = [waiting EXCEPT ![f] = TRUE]
                  /\ packet' = [packet EXCEPT ![f] = "DISCONNECTED"]
               \/ op = "stop" /\ StopNetwork(f) /\ UNCHANGED flagVars
    BY MadeCall
  <1>2. \A t \in starts \cup stops : t.fam # f
    BY <1>1
  <1>3. CASE op = "start"
    BY <1>1, <1>2, <1>3, ClientStart
  <1>4. CASE op = "stop"
    BY <1>1, <1>2, <1>4, ClientStop
  <1> QED
    BY <1>1, <1>3, <1>4

LEMMA ClientMachine ==
  ASSUME TypeInv, ClientInv, "IPv4" \in Family,
         GoesDown \/ Registers \/ StartsNetworks \/ Connects \/ Leaves
  PROVE  ClientInv'
  <1> USE DEF ClientInv
  <1>1. UNCHANGED <<client, handle, starts, stops, device, alive, handlers, live>>
    BY DEF GoesDown, Registers, StartsNetworks, Connects, Leaves, halVars, taskVars, modemVars
  <1>2. InFamily' /\ Closed' /\ Held' /\ Handles'
    BY <1>1 DEF InFamily, Closed, Held, Handles
  <1>3. /\ UNCHANGED <<Stopped("IPv4"), Stopped("IPv6"), Early("IPv4")>>
        /\ "IPv4" \in Both /\ "IPv6" \in Both
    BY <1>1 DEF Stopped, Early, Both
  <1>4. ASSUME NEW op \in Ops, calls' = InOrder(op), phase' = "REGISTERED"
        PROVE  /\ CallsOfFamilies' /\ calls' # OneCall("start", "IPv6")
               /\ op = "stop" /\ Family = Both => StopDue'
    <2>1. CASE Family = Both
      <3>1. calls' = BothCalls(op)
        BY <1>4, <2>1, InOrderCalls DEF Both
      <3>2. \A q, g : calls' # OneCall(q, g)
        BY <3>1, ListsDiffer
      <3> QED
        BY <1>4, <2>1, <3>1, <3>2 DEF CallsOfFamilies, StopDue
    <2>2. CASE Family = {"IPv4"}
      <3>1. calls' = OneCall(op, "IPv4")
        BY <1>4, <2>2, InOrderCalls DEF Both
      <3>2. \A q \in Ops : calls' # BothCalls(q) /\ calls' # OneCall(q, "IPv6")
        BY <3>1, ListsDiffer
      <3>3. calls' # OneCall("start", "IPv6")
        BY <3>2 DEF Ops
      <3> QED
        BY <1>4, <2>2, <3>1, <3>2, <3>3 DEF CallsOfFamilies, Both
    <2> QED
      BY <2>1, <2>2, ConstantsAssumption DEF Both
  <1>5. CASE GoesDown
    <2>1. /\ Idle /\ device = "none" /\ phase' = "DOWN" /\ UNCHANGED <<calls, start>>
          /\ \A f \in Both : client[f] = 0
      BY <1>5 DEF GoesDown, Closed
    <2>2. CallsOfFamilies' /\ calls' = <<>>
      BY <2>1, BothCallsParts, OneCallParts DEF CallsOfFamilies, Idle
    <2>3. \A t \in starts : t.step # "alloc"
      BY <2>1 DEF AllocFresh
    <2>4. AllocFresh' /\ IPv4First'
      BY <1>1, <2>2, <2>3, OneCallParts DEF AllocFresh, IPv4First, IPv6Starts
    <2>5. IPv6Alone' /\ StopsBoth'
      BY <1>1, <1>3, <2>1 DEF IPv6Alone, StopsBoth
    <2> QED
      BY <1>2, <2>2, <2>4, <2>5
  <1>6. CASE Registers
    <2>1. /\ phase = "DOWN" /\ phase' = "REGISTERED" /\ UNCHANGED calls /\ calls = <<>>
          /\ UNCHANGED StopDue
      BY <1>6 DEF Registers, CallsOfFamilies, StopDue
    <2>2. \A t \in starts : t.step = "alloc" => t.fam # "IPv6"
      BY <2>1 DEF AllocFresh
    <2>3. CallsOfFamilies'
      BY <2>1 DEF CallsOfFamilies
    <2>4. AllocFresh' /\ IPv4First'
      BY <1>1, <2>1, <2>2, OneCallParts DEF AllocFresh, IPv4First, IPv6Starts
    <2>5. IPv6Alone' /\ StopsBoth'
      BY <1>1, <1>3, <2>1 DEF IPv6Alone, StopsBoth
    <2> QED
      BY <1>2, <2>3, <2>4, <2>5
  <1>7. CASE StartsNetworks
    <2>1. /\ Idle /\ phase = "REGISTERED" /\ UNCHANGED <<phase, start>>
          /\ ~start["IPv4"] /\ ~start["IPv6"] /\ calls' = InOrder("start")
      BY <1>3, <1>7 DEF StartsNetworks, flagVars
    <2>2. CallsOfFamilies' /\ calls' # OneCall("start", "IPv6")
      BY <1>4, <2>1 DEF Ops
    <2>3. \A t \in starts : t.step = "alloc" => t.fam # "IPv6"
      BY <2>1 DEF AllocFresh
    <2>4. AllocFresh' /\ IPv4First'
      BY <1>1, <2>1, <2>2, <2>3 DEF AllocFresh, IPv4First, IPv6Starts
    <2>5. ~StopDue
      BY <2>1, BothCallsParts, OneCallParts DEF StopDue, Idle
    <2>6. IPv6Alone' /\ StopsBoth'
      BY <1>1, <1>3, <2>1, <2>5 DEF IPv6Alone, StopsBoth
    <2> QED
      BY <1>2, <2>2, <2>4, <2>6
  <1>8. CASE Connects
    <2>1. /\ Idle /\ phase = "REGISTERED" /\ UNCHANGED <<calls, start>>
          /\ ~start["IPv4"] /\ ~start["IPv6"] /\ UNCHANGED StopDue
      BY <1>3, <1>8 DEF Connects, flagVars, StopDue
    <2>2. CallsOfFamilies' /\ calls = <<>>
      BY <2>1 DEF CallsOfFamilies, Idle
    <2>3. \A t \in starts : t.step = "alloc" => t.fam # "IPv6"
      BY <2>1 DEF AllocFresh
    <2>4. AllocFresh' /\ IPv4First'
      BY <1>1, <2>1, <2>2, <2>3, OneCallParts DEF AllocFresh, IPv4First, IPv6Starts
    <2>5. IPv6Alone' /\ StopsBoth'
      BY <1>1, <1>3, <2>1 DEF IPv6Alone, StopsBoth
    <2> QED
      BY <1>2, <2>2, <2>4, <2>5
  <1>9. CASE Leaves
    <2>1. phase = "CONNECTED" /\ phase' = "REGISTERED" /\ calls' = InOrder("stop")
      BY <1>9 DEF Leaves
    <2>2. /\ CallsOfFamilies' /\ calls' # OneCall("start", "IPv6")
          /\ Family = Both => StopDue'
      BY <1>4, <2>1 DEF Ops
    <2>3. \A t \in starts : t.step = "alloc" => t.fam # "IPv6"
      BY <2>1 DEF AllocFresh
    <2>4. AllocFresh' /\ IPv4First'
      BY <1>1, <2>1, <2>2, <2>3 DEF AllocFresh, IPv4First, IPv6Starts
    <2>5. client["IPv6"] # 0 => Family = Both
      BY <1>3, ConstantsAssumption DEF InFamily, Both
    <2>6. IPv6Alone' /\ StopsBoth'
      BY <1>1, <2>2, <2>5 DEF IPv6Alone, StopsBoth
    <2> QED
      BY <1>2, <2>2, <2>4, <2>6
  <1> QED
    BY <1>5, <1>6, <1>7, <1>8, <1>9

\* A packet status of the modem: it never clears the flag of a family that has
\* no client.
LEMMA ClientModem ==
  ASSUME TypeInv, ClientInv, Modem PROVE ClientInv'
  <1> USE DEF ClientInv
  <1>1. /\ UNCHANGED <<client, handle, starts, stops, alive, handlers, phase, calls>>
        /\ live' \subseteq live \cup alive
    BY DEF Modem, SessionUp, SessionDown, Unplug, DeviceOpened, Usable,
           halVars, taskVars, smVars, PacketServiceStatusCB
  <1>2. "IPv4" \in Both /\ "IPv6" \in Both
    BY DEF Both
  <1>3. InFamily' /\ CallsOfFamilies' /\ Handles'
    BY <1>1 DEF InFamily, CallsOfFamilies, Handles
  <1>4. Held'
    BY <1>1 DEF Held
  <1>5. UNCHANGED <<Stopped("IPv4"), Stopped("IPv6"), Early("IPv4"), StopDue, Idle>>
    BY <1>1 DEF Stopped, Early, StopDue, Idle
  <1>6. StopsBoth'
    BY <1>1, <1>5 DEF StopsBoth
  <1>7. \A f \in Both : client[f] = 0 => start'[f] = start[f]
    <2>1. ASSUME NEW c \in Clients, c \in handlers, NEW v,
                 PacketServiceStatusCB(FamilyOf(c), v), NEW f \in Both, client[f] = 0
          PROVE  start'[f] = start[f]
      <3>1. c # 0
        BY DEF Clients
      <3>2. FamilyOf(c) # f
        <4>1. PICK g \in Both : c = client[g]
          BY <2>1 DEF Held
        <4> QED
          BY <2>1, <3>1, <4>1 DEF FamilyOf, Both
      <3> QED
        BY <2>1, <3>2 DEF PacketServiceStatusCB, PutFlag, FamilyOf, Both, TypeInv, TypeOK
    <2>2. CASE UNCHANGED smVars
      BY <2>2 DEF smVars, flagVars
    <2> QED
      BY <2>1, <2>2 DEF Modem, SessionUp, SessionDown, Unplug, DeviceOpened
  <1>8. IPv6Alone'
    BY <1>1, <1>2, <1>5, <1>7 DEF IPv6Alone
  <1>9. CASE UNCHANGED device /\ (device # "open" => UNCHANGED live)
    <2>1. Closed'
      BY <1>1, <1>9 DEF Closed
    <2>2. AllocFresh'
      BY <1>1, <1>2, <1>5, <1>7, <1>9 DEF AllocFresh
    <2>3. IPv4First'
      BY <1>1, <1>2, <1>5, <1>7, <1>9 DEF IPv4First, IPv6Starts
    <2> QED
      BY <1>3, <1>4, <1>6, <1>8, <2>1, <2>2, <2>3
  <1>10. CASE Unplug
    <2>1. device = "open" /\ device' = "gone" /\ live' = {} /\ UNCHANGED start
      BY <1>10 DEF Unplug, smVars, flagVars
    <2>2. Closed' /\ AllocFresh' /\ IPv4First'
      BY <1>1, <1>5, <2>1 DEF Closed, AllocFresh, IPv4First, IPv6Starts
    <2> QED
      BY <1>3, <1>4, <1>6, <1>8, <2>2
  <1>11. CASE DeviceOpened
    <2>1. device = "none" /\ phase = "DOWN" /\ device' = "open" /\ UNCHANGED <<start, live>>
      BY <1>11 DEF DeviceOpened, smVars, flagVars
    <2>2. \A t \in starts : t.step # "alloc"
      BY <2>1 DEF AllocFresh
    <2>3. calls' # OneCall("start", "IPv6")
      BY <1>1, <2>1, OneCallParts DEF CallsOfFamilies
    <2>4. Closed' /\ AllocFresh' /\ IPv4First'
      BY <1>1, <2>1, <2>2, <2>3 DEF Closed, AllocFresh, IPv4First, IPv6Starts
    <2> QED
      BY <1>3, <1>4, <1>6, <1>8, <2>4
  <1> QED
    BY <1>9, <1>10, <1>11 DEF Modem, SessionUp, SessionDown, Usable

LEMMA ClientNext ==
  ASSUME "IPv4" \in Family
  PROVE  TypeInv /\ FlagInv /\ TasksApart /\ ClientsApart /\ [Next]_vars => ClientsApart'
  <1> SUFFICES ASSUME TypeInv, FlagInv, TaskInv, ClientInv, [Next]_vars,
                      overlaps = 0, overlaps' = 0
               PROVE  ClientInv'
    BY OverlapsKept DEF TasksApart, ClientsApart
  <1>1. CASE StartAnswer
    BY <1>1, AnswerEffect, ClientAnswer DEF TypeInv
  <1>2. ASSUME NEW s \in stops, StopAnswer(s) PROVE ClientInv'
    BY <1>2, StopAnswerEffect, ClientStopAnswer DEF TypeInv
  <1>3. CASE DeviceRemoved
    BY <1>3, ClientRemoved
  <1>4. CASE MakesCall
    BY <1>4, ClientCall
  <1>5. CASE GoesDown \/ Registers \/ StartsNetworks \/ Connects \/ Leaves
    BY <1>5, ClientMachine
  <1>6. CASE Modem
    BY <1>6, ClientModem
  <1>7. CASE UNCHANGED vars
    <2>1. /\ UNCHANGED <<client, handle, starts, stops, device, alive, handlers, live>>
          /\ UNCHANGED <<phase, calls, start>>
      BY <1>7 DEF vars, halVars, taskVars, modemVars, smVars, flagVars
    <2> QED
      BY <2>1 DEF ClientInv, CallsOfFamilies, InFamily, AllocFresh, IPv4First, IPv6Starts,
                  IPv6Alone, StopsBoth, Closed, Held, Handles, StopDue, Stopped, Early, Idle
  <1> QED
    BY <1>1, <1>2, <1>3, <1>4, <1>5, <1>6, <1>7 DEF Next, StateMachine

LEMMA ClientInit == Init => ClientsApart
  <1> SUFFICES ASSUME Init PROVE ClientInv
    BY DEF ClientsApart
  <1>1. /\ \A f \in Both : client[f] = 0 /\ handle[f] = 0
        /\ starts = {} /\ stops = {} /\ calls = <<>> /\ phase = "REGISTERED"
        /\ device = "open" /\ alive = {} /\ handlers = {} /\ live = {}
    BY DEF Init, For
  <1>2. CallsOfFamilies /\ ~IPv6Starts
    BY <1>1, BothCallsParts, OneCallParts DEF CallsOfFamilies, IPv6Starts
  <1> QED
    BY <1>1, <1>2
       DEF ClientInv, InFamily, AllocFresh, IPv4First, IPv6Alone, StopsBoth, Stopped, Closed,
           Held, Handles, Both

LEMMA ClientsApartCorrect ==
  ASSUME "IPv4" \in Family PROVE Spec => []ClientsApart
  <1>1. TypeInv /\ FlagInv /\ TasksApart /\ ClientsApart /\ [Next]_vars => ClientsApart'
    BY ClientNext
  <1>2. Spec => []FlagInv
    BY FlagInit, FlagNext, PTL DEF Spec
  <1> QED
    BY <1>1, <1>2, TypeCorrect, TasksApartCorrect, ClientInit, PTL DEF Spec

(* With IPv4 among the families of the profile, what the modem holds is    *)
(* what the context names, for any number of clients and tasks.            *)
THEOREM NothingLeakedCorrect ==
  ASSUME "IPv4" \in Family PROVE Spec => []NothingLeaked
  <1>1. ClientsApart => NothingLeaked
    BY DEF ClientsApart, ClientInv, Held, NothingLeaked
  <1> QED
    BY <1>1, ClientsApartCorrect, PTL

(* With IPv4 among the families, a handle is that of the family's own      *)
(* client and no stop request names the session of another.                *)
THEOREM HandleOfClientCorrect ==
  ASSUME "IPv4" \in Family PROVE Spec => []HandleOfClient
  <1>1. ClientsApart => HandleOfClient
    BY DEF ClientsApart, ClientInv, Handles, HandleOfClient
  <1> QED
    BY <1>1, ClientsApartCorrect, PTL
=============================================================================
