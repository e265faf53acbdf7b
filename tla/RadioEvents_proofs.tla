-------------------------- MODULE RadioEvents_proofs --------------------------
(***************************************************************************)
(* Theorems about RadioEvents, for any number of clients and any intervals.*)
(* The interval in force can only be trusted while somebody is subscribed, *)
(* because the next first subscription resets it: the inductive invariant  *)
(* therefore says that ...SubFlag counts the subscriptions, so that it is  *)
(* zero only when no client is left to serve.  That nothing is overdue is  *)
(* inductive as it stands.  That the events form a chain needs in addition *)
(* that X_RDK_StatusSubFlag counts the subscriptions, and that nobody has  *)
(* been told anything before subscribing.                                  *)
(***************************************************************************)
EXTENDS RadioEvents, FiniteSetTheorems, TLAPS

FlagCounts == \A p \in Parameters : flag[p] = Cardinality(Subscribed(p))

Inv == TypeOK /\ FlagCounts /\ IntervalServesAll /\ NothingOverdue

\* One subscription more, one subscription less.
LEMMA OneMore ==
    ASSUME Inv, NEW p \in Parameters, NEW c \in Clients, NEW k \in Intervals,
           sub[p][c] = Absent, sub' = [sub EXCEPT ![p][c] = k]
    PROVE  /\ Cardinality(Subscribed(p)') = Cardinality(Subscribed(p)) + 1
           /\ \A q \in Parameters \ {p} : Subscribed(q)' = Subscribed(q)
  <1> USE ConstantsAssumption DEF Inv, TypeOK
  <1>1. k # Absent
    BY DEF Absent
  <1>2. Subscribed(p)' = Subscribed(p) \cup {c}
    BY <1>1 DEF Subscribed
  <1>3. IsFiniteSet(Subscribed(p))
    BY FS_Subset DEF Subscribed
  <1>4. c \notin Subscribed(p)
    BY DEF Subscribed
  <1>5. Cardinality(Subscribed(p) \cup {c}) = Cardinality(Subscribed(p)) + 1
    BY <1>3, <1>4, FS_AddElement
  <1>6. \A q \in Parameters \ {p} : Subscribed(q)' = Subscribed(q)
    BY DEF Subscribed
  <1> QED
    BY <1>2, <1>5, <1>6

LEMMA OneLess ==
    ASSUME Inv, NEW p \in Parameters, NEW c \in Clients,
           sub[p][c] # Absent, sub' = [sub EXCEPT ![p][c] = Absent]
    PROVE  /\ Cardinality(Subscribed(p)) \in Nat \ {0}
           /\ Cardinality(Subscribed(p)') = Cardinality(Subscribed(p)) - 1
           /\ \A q \in Parameters \ {p} : Subscribed(q)' = Subscribed(q)
  <1> USE ConstantsAssumption DEF Inv, TypeOK
  <1>1. Subscribed(p)' = Subscribed(p) \ {c}
    BY DEF Subscribed
  <1>2. IsFiniteSet(Subscribed(p))
    BY FS_Subset DEF Subscribed
  <1>3. c \in Subscribed(p)
    BY DEF Subscribed
  <1>4. Cardinality(Subscribed(p) \ {c}) = Cardinality(Subscribed(p)) - 1
    BY <1>2, <1>3, FS_RemoveElement
  <1>5. Cardinality(Subscribed(p)) \in Nat /\ Cardinality(Subscribed(p)) # 0
    BY <1>2, <1>3, FS_CardinalityType, FS_EmptySet
  <1>6. \A q \in Parameters \ {p} : Subscribed(q)' = Subscribed(q)
    BY DEF Subscribed
  <1> QED
    BY <1>1, <1>4, <1>5, <1>6

LEMMA InitInv == Init => Inv
  <1> SUFFICES ASSUME Init PROVE Inv
    OBVIOUS
  <1> USE ConstantsAssumption DEF Init
  <1>1. TypeOK
    BY DEF TypeOK, Values, Parameters, Signals
  <1>2. FlagCounts
    <2>1. \A p \in Parameters : Subscribed(p) = {}
      BY DEF Subscribed
    <2> QED
      BY <2>1, FS_EmptySet DEF FlagCounts
  <1>3. IntervalServesAll
    BY DEF IntervalServesAll, Absent
  <1>4. NothingOverdue
    BY DEF NothingOverdue
  <1> QED
    BY <1>1, <1>2, <1>3, <1>4 DEF Inv

LEMMA HereIsParameter == ASSUME TypeOK PROVE Here \in Parameters
  BY DEF TypeOK, Here, Order, Parameters, Signals

\* Who is subscribed does not change.
LEMMA SameClients ==
    ASSUME Inv, UNCHANGED <<flag, interval, sub>>
    PROVE  FlagCounts' /\ IntervalServesAll'
  BY DEF Inv, FlagCounts, IntervalServesAll, Subscribed

LEMMA PublishType ==
    ASSUME TypeOK, NEW p \in Parameters, Publish(p)
    PROVE  /\ prev' \in [Parameters -> Values]
           /\ told' \in [Parameters -> [Clients -> Values \cup {Unheard}]]
  <1>1. got[p] \in Values
    BY DEF TypeOK
  <1> QED
    BY <1>1 DEF TypeOK, Publish

LEMMA AdvanceType ==
    ASSUME TypeOK, Advance
    PROVE  /\ pc' \in {"sleep", "look", "status"}
           /\ at' \in 1..6
  BY DEF TypeOK, Advance

\* A client with a subscription has an interval, or subscribed on change.
LEMMA SubscribedInterval ==
    ASSUME TypeOK, NEW p \in Parameters, NEW c \in Subscribed(p)
    PROVE  c \in Clients /\ sub[p][c] \in Nat
  <1>1. c \in Clients /\ sub[p][c] # Absent
    BY DEF Subscribed
  <1>2. sub[p] \in [Clients -> Intervals \cup {Absent}]
    BY DEF TypeOK
  <1>3. sub[p][c] \in Intervals
    BY <1>1, <1>2
  <1> QED
    BY <1>1, <1>3, ConstantsAssumption

LEMMA SubscribeInv ==
    ASSUME Inv, NEW c \in Clients, NEW p \in Parameters, NEW k \in Intervals,
           Subscribe(c, p, k)
    PROVE  Inv'
  <1> USE ConstantsAssumption DEF Inv, Subscribe, IntervalAfter, ElapsedAfter, Found
  <1>1. k \in Nat /\ Found(p) \in Nat
    BY DEF TypeOK
  <1>2. TypeOK'
    <2>1. interval' \in [Parameters -> Nat] /\ lapsed' \in [Parameters -> Nat]
      BY <1>1 DEF TypeOK
    <2>2. /\ flag' \in [Parameters -> Nat]
          /\ sub' \in [Parameters -> [Clients -> Intervals \cup {Absent}]]
      <3>1. CASE Valid(k)
        <4>1. sub[p] \in [Clients -> Intervals \cup {Absent}]
          BY DEF TypeOK
        <4>2. [sub[p] EXCEPT ![c] = k] \in [Clients -> Intervals \cup {Absent}]
          BY <4>1
        <4>3. sub' = [sub EXCEPT ![p] = [sub[p] EXCEPT ![c] = k]]
          BY <3>1
        <4>4. flag' = [flag EXCEPT ![p] = flag[p] + 1]
          BY <3>1
        <4>5. flag \in [Parameters -> Nat] /\ flag[p] + 1 \in Nat
          BY DEF TypeOK
        <4>6. flag' \in [Parameters -> Nat]
          BY <4>4, <4>5
        <4> QED
          BY <4>1, <4>2, <4>3, <4>6 DEF TypeOK
      <3>2. CASE ~Valid(k)
        BY <3>2 DEF TypeOK
      <3> QED
        BY <3>1, <3>2
    <2> QED
      BY <2>1, <2>2 DEF TypeOK, worldVars, monitorVars
  <1>3. FlagCounts'
    <2>1. CASE Valid(k)
      <3>1. sub' = [sub EXCEPT ![p][c] = k] /\ flag' = [flag EXCEPT ![p] = @ + 1]
        BY <2>1
      <3>2. /\ Cardinality(Subscribed(p)') = Cardinality(Subscribed(p)) + 1
            /\ \A q \in Parameters \ {p} : Subscribed(q)' = Subscribed(q)
        BY <3>1, OneMore
      <3> QED
        BY <3>1, <3>2 DEF FlagCounts, TypeOK
    <2>2. CASE ~Valid(k)
      BY <2>2 DEF FlagCounts, Subscribed
    <2> QED
      BY <2>1, <2>2
  <1>4. IntervalServesAll'
    <2> SUFFICES ASSUME NEW q \in Parameters, NEW d \in Clients, sub'[q][d] > 0
                 PROVE  interval'[q] > 0 /\ interval'[q] <= sub'[q][d]
      BY DEF IntervalServesAll
    <2>1. CASE q # p
      BY <2>1 DEF IntervalServesAll, TypeOK
    <2>2. CASE q = p /\ d = c /\ Valid(k)
      BY <2>2, <1>1 DEF TypeOK, Shortens
    <2>3. CASE q = p /\ ~(d = c /\ Valid(k))
      <3>1. sub'[p][d] = sub[p][d]
        BY <2>3 DEF TypeOK
      <3>2. d \in Subscribed(p)
        BY <3>1, <2>3 DEF Subscribed, Absent
      <3>3. flag[p] # 0
        <4>1. IsFiniteSet(Subscribed(p))
          BY FS_Subset DEF Subscribed
        <4> QED
          BY <3>2, <4>1, FS_EmptySet DEF FlagCounts
      <3>4. interval[p] > 0 /\ interval[p] <= sub[p][d]
        BY <3>1, <2>3 DEF IntervalServesAll
      <3> QED
        <4>1. sub[p][d] \in Nat
          BY <3>2, SubscribedInterval
        <4>2. interval'[p] = IF Valid(k) /\ Shortens(p, k) THEN k ELSE interval[p]
          BY <3>3 DEF TypeOK
        <4> QED
          BY <4>1, <4>2, <3>1, <3>3, <3>4, <2>3, <1>1 DEF TypeOK, Shortens
    <2> QED
      BY <2>1, <2>2, <2>3
  <1>5. NothingOverdue'
    BY <1>1 DEF NothingOverdue, TypeOK, Shortens, Here, monitorVars
  <1> QED
    BY <1>2, <1>3, <1>4, <1>5

LEMMA UnsubscribeInv ==
    ASSUME Inv, NEW c \in Clients, NEW p \in Parameters, Unsubscribe(c, p)
    PROVE  Inv'
  <1> USE ConstantsAssumption DEF Inv, Unsubscribe
  <1>1. /\ Cardinality(Subscribed(p)) \in Nat \ {0}
        /\ Cardinality(Subscribed(p)') = Cardinality(Subscribed(p)) - 1
        /\ \A q \in Parameters \ {p} : Subscribed(q)' = Subscribed(q)
    BY OneLess
  <1>2. /\ flag[p] > 0 /\ flag' = [flag EXCEPT ![p] = @ - 1]
        /\ UNCHANGED <<interval, lapsed>>
    BY <1>1 DEF FlagCounts
  <1>3. TypeOK'
    BY <1>2 DEF TypeOK, worldVars, monitorVars
  <1>4. FlagCounts'
    BY <1>1, <1>2 DEF FlagCounts, TypeOK
  <1>5. IntervalServesAll'
    BY <1>2 DEF IntervalServesAll, TypeOK, Absent
  <1>6. NothingOverdue'
    BY <1>2 DEF NothingOverdue, Here, monitorVars
  <1> QED
    BY <1>3, <1>4, <1>5, <1>6

LEMMA WakeInv == ASSUME Inv, Wake PROVE Inv'
  <1> USE DEF Inv, Wake, listVars, clientVars, worldVars
  <1>1. TypeOK'
    <2>1. got' \in [Parameters -> Values]
      BY DEF Values
    <2> QED
      BY <2>1 DEF TypeOK
  <1>2. FlagCounts' /\ IntervalServesAll'
    BY SameClients
  <1>3. NothingOverdue'
    BY DEF NothingOverdue
  <1> QED
    BY <1>1, <1>2, <1>3

LEMMA LookInv == ASSUME Inv, Look PROVE Inv'
  <1> USE DEF Inv, Look, listVars, clientVars, worldVars
  <1>1. TypeOK'
    BY AdvanceType DEF TypeOK
  <1>2. FlagCounts' /\ IntervalServesAll'
    BY SameClients
  <1>3. NothingOverdue'
    BY DEF NothingOverdue
  <1> QED
    BY <1>1, <1>2, <1>3

LEMMA ReadInv == ASSUME Inv, Read PROVE Inv'
  <1> USE DEF Inv, Read, listVars, clientVars, worldVars
  <1>1. TypeOK'
    <2>1. reading \in [Parameters -> Values] /\ got \in [Parameters -> Values]
      BY DEF TypeOK
    <2>2. got' \in [Parameters -> Values]
      BY <2>1 DEF Parameters
    <2> QED
      BY <2>2 DEF TypeOK
  <1>2. FlagCounts' /\ IntervalServesAll'
    BY SameClients
  <1>3. NothingOverdue'
    BY DEF NothingOverdue
  <1> QED
    BY <1>1, <1>2, <1>3

LEMMA WeighInv == ASSUME Inv, Weigh PROVE Inv'
  <1> USE ConstantsAssumption DEF Inv, listVars, clientVars, worldVars
  <1>1. Here \in Parameters
    BY HereIsParameter
  <1>2. TypeOK'
    <2>1. CASE interval[Here] > 0
      <3>1. /\ reg' = lapsed[Here] + Period /\ pc' = "store"
            /\ UNCHANGED <<at, prev, told>>
        BY <2>1 DEF Weigh
      <3>2. reg' \in Nat
        BY <3>1, <1>1 DEF TypeOK
      <3> QED
        BY <3>1, <3>2 DEF TypeOK, Weigh
    <2>2. CASE ~(interval[Here] > 0)
      <3>1. Advance /\ UNCHANGED reg /\ (Publish(Here) \/ UNCHANGED <<prev, told>>)
        BY <2>2 DEF Weigh
      <3>2. /\ prev' \in [Parameters -> Values]
            /\ told' \in [Parameters -> [Clients -> Values \cup {Unheard}]]
        BY <3>1, <1>1, PublishType DEF TypeOK
      <3> QED
        BY <3>1, <3>2, AdvanceType DEF TypeOK, Weigh
    <2> QED
      BY <2>1, <2>2
  <1>3. FlagCounts' /\ IntervalServesAll'
    BY SameClients DEF Weigh
  <1>4. NothingOverdue'
    BY DEF NothingOverdue, Weigh
  <1> QED
    BY <1>2, <1>3, <1>4

LEMMA StoreInv == ASSUME Inv, Store PROVE Inv'
  <1> USE DEF Inv, Store, listVars, clientVars, worldVars
  <1>1. TypeOK'
    BY HereIsParameter DEF TypeOK
  <1>2. FlagCounts' /\ IntervalServesAll'
    BY SameClients
  <1>3. NothingOverdue'
    BY HereIsParameter DEF NothingOverdue, TypeOK, Here
  <1> QED
    BY <1>1, <1>2, <1>3

LEMMA JudgeInv == ASSUME Inv, Judge PROVE Inv'
  <1> USE DEF Inv, Judge, listVars, clientVars, worldVars
  <1>1. Here \in Parameters
    BY HereIsParameter
  <1>2. TypeOK'
    <2>1. /\ prev' \in [Parameters -> Values]
          /\ told' \in [Parameters -> [Clients -> Values \cup {Unheard}]]
      BY <1>1, PublishType DEF TypeOK
    <2>2. pc' \in {"sleep", "look", "status"} /\ at' \in 1..6
      BY AdvanceType
    <2>3. lapsed' \in [Parameters -> Nat]
      <3>1. lapsed \in [Parameters -> Nat]
        BY DEF TypeOK
      <3>2. lapsed' = [lapsed EXCEPT ![Here] = 0] \/ lapsed' = lapsed
        OBVIOUS
      <3> QED
        BY <3>1, <3>2
    <2> QED
      BY <2>1, <2>2, <2>3 DEF TypeOK
  <1>3. FlagCounts' /\ IntervalServesAll'
    BY SameClients
  <1>4. NothingOverdue'
    BY <1>1, AdvanceType DEF NothingOverdue, TypeOK, Due
  <1> QED
    BY <1>2, <1>3, <1>4

LEMMA PassStatusInv == ASSUME Inv, PassStatus PROVE Inv'
  <1> USE DEF Inv, PassStatus, listVars, clientVars, worldVars
  <1>1. TypeOK'
    BY DEF TypeOK
  <1>2. FlagCounts' /\ IntervalServesAll'
    BY SameClients
  <1>3. NothingOverdue'
    BY DEF NothingOverdue
  <1> QED
    BY <1>1, <1>2, <1>3

\* Steps that touch neither the radio subscriptions nor the monitor.
LEMMA ElsewhereInv ==
    ASSUME Inv,
           \/ \E c \in Clients : SubscribeStatus(c) \/ UnsubscribeStatus(c)
           \/ Others
    PROVE  Inv'
  <1> USE DEF Inv, SubscribeStatus, UnsubscribeStatus, Others, StatusChanges, ReadingChanges,
          ReadCrossed, ReadRescued, listVars, monitorVars, clientVars, worldVars
  <1>1. TypeOK'
    <2>1. CASE \E c \in Clients : SubscribeStatus(c) \/ UnsubscribeStatus(c)
      <3>1. /\ statusFlag' \in Nat /\ statusSub' \subseteq Clients
            /\ statusTold' \in [Clients -> Statuses \cup {Unheard}]
        BY <2>1 DEF TypeOK
      <3> QED
        BY <2>1, <3>1 DEF TypeOK
    <2>2. CASE StatusChanges
      BY <2>2 DEF TypeOK
    <2>3. CASE ReadingChanges
      BY <2>3 DEF TypeOK
    <2>4. CASE ReadCrossed \/ ReadRescued
      BY <2>4 DEF TypeOK
    <2> QED
      BY <2>1, <2>2, <2>3, <2>4
  <1>2. FlagCounts' /\ IntervalServesAll'
    BY SameClients
  <1>3. NothingOverdue'
    BY DEF NothingOverdue, Here
  <1> QED
    BY <1>1, <1>2, <1>3

LEMMA NextInv == ASSUME Inv, [Next]_vars PROVE Inv'
  <1>1. CASE Monitor
    BY <1>1, WakeInv, LookInv, ReadInv, WeighInv, StoreInv, JudgeInv, PassStatusInv DEF Monitor
  <1>2. CASE Handler
    BY <1>2, SubscribeInv, UnsubscribeInv, ElsewhereInv DEF Handler
  <1>3. CASE Others
    BY <1>3, ElsewhereInv
  <1>4. CASE UNCHANGED vars
    BY <1>4 DEF vars, listVars, monitorVars, clientVars, worldVars, Inv, TypeOK,
           FlagCounts, IntervalServesAll, NothingOverdue, Subscribed, Here
  <1> QED
    BY <1>1, <1>2, <1>3, <1>4 DEF Next

LEMMA Invariance == Spec => []Inv
  BY InitInv, NextInv, PTL DEF Spec

(* Every field keeps to its type.                                          *)
THEOREM TypeCorrect == Spec => []TypeOK
  BY Invariance, PTL DEF Inv

(* The interval in force is no longer than any client's, in whatever order *)
(* clients subscribe and leave.                                            *)
THEOREM IntervalServesAllCorrect == Spec => []IntervalServesAll
  BY Invariance, PTL DEF Inv

(* No subscription, at whatever point of a pass, leaves an event overdue.  *)
THEOREM NothingOverdueCorrect == Spec => []NothingOverdue
  BY Invariance, PTL DEF Inv

-----------------------------------------------------------------------------
(* The chain of events                                                     *)

\* Who is not subscribed has been told nothing, and X_RDK_StatusSubFlag
\* counts the subscriptions: the value is remembered only when all are told.
ChainInv ==
    /\ EventsChain
    /\ \A p \in Parameters, c \in Clients : sub[p][c] = Absent => told[p][c] = Unheard
    /\ \A c \in Clients \ statusSub : statusTold[c] = Unheard
    /\ statusFlag = Cardinality(statusSub)

LEMMA ChainInit == Init => ChainInv
  <1> SUFFICES ASSUME Init PROVE ChainInv
    OBVIOUS
  <1>1. statusFlag = Cardinality(statusSub)
    BY FS_EmptySet DEF Init
  <1> QED
    BY <1>1 DEF Init, ChainInv, EventsChain

\* Steps that leave the radio parameters' clients as they are.
LEMMA ChainRadioKept ==
    ASSUME ChainInv, UNCHANGED <<sub, told, prev>>
    PROVE  /\ \A p \in Parameters, c \in Clients :
                (sub'[p][c] # Absent /\ told'[p][c] # Unheard) => told'[p][c] = prev'[p]
           /\ \A p \in Parameters, c \in Clients : sub'[p][c] = Absent => told'[p][c] = Unheard
  BY DEF ChainInv, EventsChain

\* Steps that leave the clients of X_RDK_Status as they are.
LEMMA ChainStatusKept ==
    ASSUME ChainInv, UNCHANGED <<statusFlag, statusSub, statusTold, prevStatus>>
    PROVE  /\ \A c \in statusSub' : statusTold'[c] # Unheard => statusTold'[c] = prevStatus'
           /\ \A c \in Clients \ statusSub' : statusTold'[c] = Unheard
           /\ statusFlag' = Cardinality(statusSub')
  BY DEF ChainInv, EventsChain

LEMMA ChainPublish ==
    ASSUME TypeOK, ChainInv, NEW p \in Parameters, Publish(p),
           UNCHANGED <<sub, statusFlag, statusSub, statusTold, prevStatus>>
    PROVE  ChainInv'
  <1> USE DEF TypeOK
  <1>1. \A q \in Parameters \ {p} : prev'[q] = prev[q] /\ told'[q] = told[q]
    BY DEF Publish
  <1>2. prev'[p] = got[p]
    BY DEF Publish
  <1>3. \A c \in Clients : told'[p][c] = IF sub[p][c] # Absent THEN got[p] ELSE told[p][c]
    BY DEF Publish
  <1>4. ASSUME NEW q \in Parameters, NEW c \in Clients
        PROVE  /\ (sub'[q][c] # Absent /\ told'[q][c] # Unheard) => told'[q][c] = prev'[q]
               /\ sub'[q][c] = Absent => told'[q][c] = Unheard
    <2>1. CASE q = p
      BY <1>2, <1>3, <2>1 DEF ChainInv
    <2>2. CASE q # p
      BY <1>1, <2>2 DEF ChainInv, EventsChain
    <2> QED
      BY <2>1, <2>2
  <1> QED
    BY <1>4, ChainStatusKept DEF ChainInv, EventsChain

LEMMA ChainHandler ==
    ASSUME Inv, ChainInv, Handler PROVE ChainInv'
  <1> USE DEF Inv, TypeOK, monitorVars
  <1>1. ASSUME NEW c \in Clients, NEW p \in Parameters, NEW k \in Intervals, Subscribe(c, p, k)
        PROVE  ChainInv'
    <2>1. UNCHANGED <<told, prev, statusFlag, statusSub, statusTold, prevStatus>>
      BY <1>1 DEF Subscribe
    <2>2. told[p][c] = Unheard
      BY <1>1 DEF Subscribe, ChainInv
    <2>3. \A q \in Parameters, d \in Clients : (q # p \/ d # c) => sub'[q][d] = sub[q][d]
      BY <1>1 DEF Subscribe
    <2>4. ASSUME NEW q \in Parameters, NEW d \in Clients
          PROVE  /\ (sub'[q][d] # Absent /\ told'[q][d] # Unheard) => told'[q][d] = prev'[q]
                 /\ sub'[q][d] = Absent => told'[q][d] = Unheard
      BY <2>1, <2>2, <2>3 DEF ChainInv, EventsChain
    <2> QED
      BY <2>1, <2>4, ChainStatusKept DEF ChainInv, EventsChain
  <1>2. ASSUME NEW c \in Clients, NEW p \in Parameters, Unsubscribe(c, p) PROVE ChainInv'
    <2>1. UNCHANGED <<prev, statusFlag, statusSub, statusTold, prevStatus>>
      BY <1>2 DEF Unsubscribe
    <2>2. told'[p][c] = Unheard
      BY <1>2 DEF Unsubscribe
    <2>3. \A q \in Parameters, d \in Clients :
            (q # p \/ d # c) => sub'[q][d] = sub[q][d] /\ told'[q][d] = told[q][d]
      BY <1>2 DEF Unsubscribe
    <2>4. ASSUME NEW q \in Parameters, NEW d \in Clients
          PROVE  /\ (sub'[q][d] # Absent /\ told'[q][d] # Unheard) => told'[q][d] = prev'[q]
                 /\ sub'[q][d] = Absent => told'[q][d] = Unheard
      BY <2>1, <2>2, <2>3 DEF ChainInv, EventsChain
    <2> QED
      BY <2>1, <2>4, ChainStatusKept DEF ChainInv, EventsChain
  <1>3. IsFiniteSet(statusSub)
    BY ConstantsAssumption, FS_Subset
  <1>4. ASSUME NEW c \in Clients, SubscribeStatus(c) PROVE ChainInv'
    <2>1. UNCHANGED <<sub, told, prev, statusTold, prevStatus>> /\ statusSub' = statusSub \cup {c}
      BY <1>4 DEF SubscribeStatus
    <2>2. statusFlag' = Cardinality(statusSub')
      BY <1>3, <1>4, <2>1, FS_AddElement DEF SubscribeStatus, ChainInv
    <2>3. statusTold[c] = Unheard
      BY <1>4 DEF SubscribeStatus, ChainInv
    <2> QED
      BY <2>1, <2>2, <2>3, ChainRadioKept DEF ChainInv, EventsChain
  <1>5. ASSUME NEW c \in Clients, UnsubscribeStatus(c) PROVE ChainInv'
    <2>1. /\ UNCHANGED <<sub, told, prev, prevStatus>> /\ statusSub' = statusSub \ {c}
          /\ c \in statusSub /\ statusTold' = [statusTold EXCEPT ![c] = Unheard]
      BY <1>5 DEF UnsubscribeStatus
    <2>2. /\ Cardinality(statusSub) \in Nat \ {0}
          /\ Cardinality(statusSub \ {c}) = Cardinality(statusSub) - 1
      BY <1>3, <2>1, FS_RemoveElement, FS_CardinalityType, FS_EmptySet
    <2>3. statusFlag' = Cardinality(statusSub')
      BY <1>5, <2>1, <2>2 DEF UnsubscribeStatus, ChainInv
    <2> QED
      BY <2>1, <2>3, ChainRadioKept DEF ChainInv, EventsChain
  <1> QED
    BY <1>1, <1>2, <1>4, <1>5 DEF Handler

LEMMA ChainMonitor == ASSUME Inv, ChainInv, Monitor PROVE ChainInv'
  <1> USE DEF listVars, clientVars, worldVars
  <1>1. TypeOK /\ Here \in Parameters
    BY HereIsParameter DEF Inv
  <1>2. CASE UNCHANGED <<sub, told, prev, statusFlag, statusSub, statusTold, prevStatus>>
    BY <1>2, ChainRadioKept, ChainStatusKept DEF ChainInv, EventsChain
  <1>3. CASE Wake \/ Look \/ Read \/ Store
    BY <1>2, <1>3 DEF Wake, Look, Read, Store
  <1>4. CASE Weigh \/ Judge
    <2>1. /\ UNCHANGED <<sub, statusFlag, statusSub, statusTold, prevStatus>>
          /\ UNCHANGED <<prev, told>> \/ Publish(Here)
      BY <1>4 DEF Weigh, Judge
    <2> QED
      BY <1>1, <1>2, <2>1, ChainPublish
  <1>5. CASE PassStatus
    <2>1. /\ UNCHANGED <<sub, told, prev, statusFlag, statusSub>> /\ prevStatus' = seen
      BY <1>5 DEF PassStatus
    <2>2. CASE statusFlag > 0 /\ prevStatus # seen
      <3>1. statusTold' = [c \in Clients |-> IF c \in statusSub THEN seen ELSE statusTold[c]]
        BY <1>5, <2>2 DEF PassStatus
      <3> QED
        BY <1>1, <2>1, <3>1, ChainRadioKept DEF ChainInv, EventsChain, TypeOK
    <2>3. CASE ~(statusFlag > 0 /\ prevStatus # seen)
      <3>1. UNCHANGED statusTold
        BY <1>5, <2>3 DEF PassStatus
      <3>2. statusFlag = 0 => statusSub = {}
        <4>1. IsFiniteSet(statusSub)
          BY <1>1, ConstantsAssumption, FS_Subset DEF TypeOK
        <4> QED
          BY <4>1, FS_EmptySet DEF ChainInv
      <3>3. statusFlag = 0 \/ prevStatus = seen
        BY <1>1, <2>3 DEF TypeOK
      <3> QED
        BY <2>1, <3>1, <3>2, <3>3, ChainRadioKept DEF ChainInv, EventsChain
    <2> QED
      BY <2>2, <2>3
  <1> QED
    BY <1>3, <1>4, <1>5 DEF Monitor

LEMMA ChainNext == ASSUME Inv, ChainInv, [Next]_vars PROVE ChainInv'
  <1>1. CASE Others \/ UNCHANGED vars
    <2>1. UNCHANGED <<sub, told, prev, statusFlag, statusSub, statusTold, prevStatus>>
      BY <1>1 DEF Others, StatusChanges, ReadingChanges, ReadCrossed, ReadRescued, vars,
             listVars, monitorVars, clientVars
    <2> QED
      BY <2>1, ChainRadioKept, ChainStatusKept DEF ChainInv, EventsChain
  <1> QED
    BY <1>1, ChainHandler, ChainMonitor DEF Next

(* The old value of an event is the value the client was told last, for    *)
(* every parameter and for X_RDK_Status.                                   *)
THEOREM EventsChainCorrect == Spec => []EventsChain
  BY InitInv, NextInv, ChainInit, ChainNext, PTL DEF Spec, ChainInv
=============================================================================
