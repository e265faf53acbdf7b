------------------------ MODULE AccessPoints_proofs ------------------------
(***************************************************************************)
(* Theorems about AccessPoints, for any number of profiles, any contents   *)
(* and any bounds on failures, overlapping tasks and changes: its types    *)
(* hold (TypeInv), what the HAL remembers of the default profile is the    *)
(* modem's (FollowInv), the rows of the table are whole (WholeInv), the    *)
(* state machine is told that its profile is ready when the modem holds    *)
(* it (OwnInv), and no profile is made twice (KindInv).  Each invariant is *)
(* inductive, the last three given the types, and says what the steps of   *)
(* one task rely on in every other: whose number a waiting task has,       *)
(* which reading the entries of the one shared list belong to, and who     *)
(* may still change the modem.                                             *)
(***************************************************************************)
EXTENDS AccessPoints, ProfileTasks_proofs, TLAPS

(* The default profile the HAL remembers                                   *)

\* A task whose request and operation can be told.
Shaped(u) == {"step", "op"} \subseteq DOMAIN u /\ u.op \in Operations
Reads(u) == u.step \in {"list", "entry"} => u.op # "modify"

Follows ==
    /\ \A t, u \in tasks : t = u
    /\ cached => cachedId = modemDefault
    /\ \A t \in tasks : t.step = "settings" => cachedId = modemDefault

FollowInv ==
    /\ overlaps \in Nat /\ \A t \in tasks : Shaped(t) /\ Reads(t)
    /\ overlaps = 0 => Follows

LEMMA FollowInit == Init => FollowInv
  BY DEF Init, ProfileInit, FollowInv, Follows

-----------------------------------------------------------------------------
(* Where a task goes on                                                    *)

\* Task t becomes q, which does not wait for the settings of the default.
Turns(t, q) ==
    tasks' = (tasks \ {t}) \cup {q} /\ Shaped(q) /\ Reads(q) /\ q.step # "settings"

GoesOn(t) == tasks' = tasks \ {t} \/ \E q : Turns(t, q)

LEMMA WaitsGoesOn ==
    ASSUME NEW t, NEW u, Shaped(u), NEW step, Waits(t, u, step), step # "settings",
           step \in {"list", "entry"} => u.op # "modify"
    PROVE  GoesOn(t)
  <1> DEFINE q == [u EXCEPT !.step = step]
  <1>1. tasks' = (tasks \ {t}) \cup {q}
    BY DEF Waits
  <1>2. Shaped(q) /\ q.step = step /\ q.op = u.op
    BY DEF Shaped
  <1> HIDE DEF q
  <1> QED
    BY <1>1, <1>2 DEF GoesOn, Turns, Reads

LEMMA RequestGoesOn ==
    ASSUME NEW t, NEW u, Shaped(u), Notifies(t, u) \/ FromDefault(t, u) \/ FromRequest(t, u)
    PROVE  GoesOn(t)
  <1>1. CASE Notifies(t, u)
    BY <1>1 DEF Notifies, GoesOn
  <1>2. CASE FromDefault(t, u)
    BY <1>1, <1>2, WaitsGoesOn DEF FromDefault
  <1>3. CASE FromRequest(t, u)
    <2>1. u.op # "settings" /\ (u.op \in {"list", "entry"} => u.op # "modify")
      BY DEF Shaped, Operations
    <2> QED
      BY <1>2, <1>3, <2>1, WaitsGoesOn DEF FromRequest
  <1> QED
    BY <1>1, <1>2, <1>3

LEMMA VerifyGoesOn ==
    ASSUME NEW t, NEW u, Shaped(u), NEW l, NEW n, FromVerify(t, u, l, n)
    PROVE  GoesOn(t)
  <1>1. /\ Shaped([u EXCEPT !.present = FALSE])
        /\ \A e : Shaped([u EXCEPT !.present = TRUE, !.in = e])
    BY DEF Shaped
  <1> QED
    BY <1>1, RequestGoesOn DEF FromVerify

LEMMA ListGoesOn ==
    ASSUME NEW t, NEW u, Shaped(u), NEW c, FromList(t, u, c) \/ FromSettings(t, u, c) \/ FromClient(t, u, c)
    PROVE  GoesOn(t)
  <1>1. CASE FromList(t, u, c)
    BY <1>1, WaitsGoesOn, VerifyGoesOn DEF FromList
  <1>2. CASE FromSettings(t, u, c)
    BY <1>1, <1>2, WaitsGoesOn DEF FromSettings, Asks
  <1>3. CASE FromClient(t, u, c)
    BY <1>2, <1>3, WaitsGoesOn DEF FromClient, Asks
  <1> QED
    BY <1>1, <1>2, <1>3

LEMMA AfterListGoesOn ==
    ASSUME NEW t, Shaped(t), t.op # "modify", NEW l, AfterList(t, l)
    PROVE  GoesOn(t)
  <1>1. t.op \in {"list", "delete", "create"}
    BY DEF Shaped, Operations
  <1>2. CASE t.op = "list"
    BY <1>2 DEF AfterList, Ends, GoesOn
  <1>3. CASE t.op = "delete"
    BY <1>3, RequestGoesOn DEF AfterList
  <1>4. CASE t.op = "create"
    BY <1>4, VerifyGoesOn DEF AfterList
  <1> QED
    BY <1>1, <1>2, <1>3, <1>4

-----------------------------------------------------------------------------
(* The steps                                                               *)

\* A task goes on, and what is remembered stays right, or counts no more.
LEMMA FollowKept ==
    ASSUME FollowInv, NEW t \in tasks, GoesOn(t), UNCHANGED overlaps,
           overlaps = 0 => (cached' => cachedId' = modemDefault')
    PROVE  FollowInv'
  <1>1. CASE tasks' = tasks \ {t}
    BY <1>1 DEF FollowInv, Follows
  <1>2. ASSUME NEW q, Turns(t, q) PROVE FollowInv'
    <2>1. \A u \in tasks' : Shaped(u) /\ Reads(u)
      BY <1>2 DEF FollowInv, Turns
    <2>2. overlaps = 0 => tasks' = {q}
      BY <1>2 DEF FollowInv, Follows, Turns
    <2> QED
      BY <1>2, <2>1, <2>2 DEF FollowInv, Follows, Turns
  <1> QED
    BY <1>1, <1>2 DEF GoesOn

LEMMA FollowFails == ASSUME FollowInv, NEW t \in tasks, Failure(t), UNCHANGED overlaps PROVE FollowInv'
  <1>1. Shaped(t) /\ Reads(t) /\ UNCHANGED modemDefault
    BY DEF FollowInv, Failure, modemVars
  <1>2. UNCHANGED <<cached, cachedId>> \/ ~cached'
    BY DEF Failure, Fails, cacheVars
  <1>3. GoesOn(t)
    <2>1. CASE ListLost(t)
      BY <1>1, <2>1, AfterListGoesOn DEF ListLost, Reads
    <2>2. CASE tasks' = tasks \ {t}
      BY <2>2 DEF GoesOn
    <2> QED
      BY <2>1, <2>2 DEF Failure, Fails, Ends
  <1> QED
    BY <1>1, <1>2, <1>3, FollowKept DEF FollowInv, Follows

LEMMA FollowTask == ASSUME FollowInv, TaskStep PROVE FollowInv'
  <1>1. PICK t \in tasks :
           \/ ClientAllocated(t) \/ DefaultNumberRead(t) \/ DefaultSettingsRead(t)
           \/ Deleted(t) \/ ListRead(t) \/ EntryRead(t) \/ Created(t) \/ Modified(t)
           \/ DefaultSet(t) \/ Failure(t)
    BY DEF TaskStep
  <1>2. Shaped(t) /\ Reads(t) /\ UNCHANGED overlaps
    BY DEF TaskStep, FollowInv
  <1>3. CASE GoesOn(t) /\ UNCHANGED <<cached, cachedId, modemDefault>>
    BY <1>2, <1>3, FollowKept DEF FollowInv, Follows
  <1>4. CASE ClientAllocated(t)
    BY <1>2, <1>3, <1>4, ListGoesOn DEF ClientAllocated, modemVars, cacheVars
  <1>5. CASE DefaultNumberRead(t)
    <2> DEFINE q == [t EXCEPT !.step = "settings"]
    <2>1. tasks' = (tasks \ {t}) \cup {q} /\ cachedId' = modemDefault' /\ ~cached'
      BY <1>5 DEF DefaultNumberRead, Waits, modemVars
    <2>2. Shaped(q) /\ Reads(q)
      BY <1>2 DEF Shaped, Reads
    <2>3. overlaps = 0 => tasks' = {q}
      BY <2>1 DEF FollowInv, Follows
    <2> HIDE DEF q
    <2> QED
      BY <1>2, <2>1, <2>2, <2>3 DEF FollowInv, Follows
  <1>6. CASE DefaultSettingsRead(t)
    <2>1. GoesOn(t) /\ UNCHANGED <<cachedId, modemDefault>>
      BY <1>2, <1>6, ListGoesOn DEF DefaultSettingsRead, modemVars
    <2>2. overlaps = 0 => cachedId = modemDefault
      BY <1>6 DEF DefaultSettingsRead, FollowInv, Follows
    <2> QED
      BY <1>2, <2>1, <2>2, FollowKept
  <1>7. CASE Deleted(t)
    BY <1>2, <1>3, <1>7, ListGoesOn DEF Deleted, cacheVars
  <1>8. CASE ListRead(t)
    <2>1. PICK n : Waits(t, [t EXCEPT !.ids = n, !.pos = 1], "entry")
      BY <1>8 DEF ListRead
    <2>2. /\ Shaped([t EXCEPT !.ids = n, !.pos = 1])
          /\ [t EXCEPT !.ids = n, !.pos = 1].op = t.op /\ t.op # "modify"
      BY <1>2, <1>8 DEF Shaped, Reads, ListRead
    <2>3. GoesOn(t)
      BY <2>1, <2>2, WaitsGoesOn
    <2> QED
      BY <1>3, <1>8, <2>3 DEF ListRead, modemVars, cacheVars
  <1>9. CASE EntryRead(t)
    <2>1. /\ Shaped([t EXCEPT !.pos = @ + 1]) /\ t.op # "modify"
          /\ [t EXCEPT !.pos = @ + 1].op = t.op
      BY <1>2, <1>9 DEF Shaped, Reads, EntryRead
    <2>2. GoesOn(t)
      BY <1>2, <1>9, <2>1, WaitsGoesOn, AfterListGoesOn DEF EntryRead
    <2> QED
      BY <1>3, <1>9, <2>2 DEF EntryRead, modemVars, cacheVars
  <1>10. CASE Created(t)
    <2>1. PICK i : FromDefault(t, [t EXCEPT !.in.id = i])
      BY <1>10 DEF Created
    <2>2. Shaped([t EXCEPT !.in.id = i])
      BY <1>2 DEF Shaped
    <2> QED
      BY <1>3, <1>10, <2>1, <2>2, RequestGoesOn DEF Created, cacheVars
  <1>11. CASE Modified(t)
    BY <1>2, <1>3, <1>11, RequestGoesOn DEF Modified, cacheVars
  <1>12. CASE DefaultSet(t)
    <2>1. GoesOn(t) /\ cachedId' = modemDefault'
      BY <1>2, <1>12, RequestGoesOn DEF DefaultSet
    <2> QED
      BY <1>2, <2>1, FollowKept
  <1>13. CASE Failure(t)
    BY <1>2, <1>13, FollowFails
  <1> QED
    BY <1>1, <1>4, <1>5, <1>6, <1>7, <1>8, <1>9, <1>10, <1>11, <1>12, <1>13

LEMMA FollowOperation ==
    ASSUME FollowInv, NEW op \in Operations, NEW input, NEW told, Operation(op, input, told)
    PROVE  FollowInv'
  <1> DEFINE t == NewTask(op, input, told)
  <1>1. Shaped(t)
    BY DEF NewTask, Shaped
  <1>2. GoesOn(t)
    BY <1>1, ListGoesOn DEF Operation
  <1>3. /\ UNCHANGED <<cached, cachedId, modemDefault>>
        /\ overlaps' = IF tasks = {} THEN overlaps ELSE overlaps + 1
    BY DEF Operation, modemVars, cacheVars
  <1>4. overlaps' \in Nat /\ (overlaps' = 0 => overlaps = 0 /\ tasks = {} /\ Follows)
    BY <1>3 DEF FollowInv
  <1>5. CASE tasks' = tasks \ {t}
    BY <1>3, <1>4, <1>5 DEF FollowInv, Follows
  <1>6. ASSUME NEW q, Turns(t, q) PROVE FollowInv'
    <2>1. \A u \in tasks' : Shaped(u) /\ Reads(u)
      BY <1>6 DEF FollowInv, Turns
    <2>2. overlaps' = 0 => tasks' = {q}
      BY <1>4, <1>6 DEF Turns
    <2> QED
      BY <1>3, <1>4, <1>6, <2>1, <2>2 DEF FollowInv, Follows, Turns
  <1> QED
    BY <1>2, <1>5, <1>6 DEF GoesOn

LEMMA FollowNext == ASSUME FollowInv, [Next]_vars PROVE FollowInv'
  <1>1. CASE UNCHANGED <<overlaps, tasks, cached, cachedId, modemDefault>>
    BY <1>1 DEF FollowInv, Follows
  <1>2. CASE Registers
    BY <1>2, FollowOperation DEF Registers, Operations
  <1>3. CASE Synchronize \/ AddEntry_rbus \/ \E i \in DOMAIN rows : DeleteEntry(i)
    BY <1>3, FollowOperation DEF Synchronize, AddEntry_rbus, DeleteEntry, Operations
  <1>4. CASE Synchronized \/ ListTimesOut \/ Expires \/ AddEntry
    BY <1>1, <1>4
       DEF Synchronized, ListTimesOut, Expires, AddEntry, halVars, modemVars, cacheVars, boundVars
  <1>5. ASSUME NEW i \in DOMAIN rows, NEW k \in Keys, NEW d \in BOOLEAN, SetRow(i, k, d)
        PROVE  FollowInv'
    <2>1. \/ UNCHANGED <<halVars, boundVars>>
          \/ \E row : Operation(IF row.new THEN "create" ELSE "modify", ProfileOf(row), FALSE)
      BY <1>5 DEF SetRow
    <2> QED
      BY <1>1, <2>1, FollowOperation DEF halVars, modemVars, cacheVars, boundVars, Operations
  <1>6. CASE TaskWorks
    BY <1>6, FollowTask DEF TaskWorks
  <1>7. CASE UNCHANGED vars
    BY <1>1, <1>7 DEF vars, halVars, modemVars, cacheVars, boundVars
  <1> QED
    BY <1>2, <1>3, <1>4, <1>5, <1>6, <1>7 DEF Next, Table

(* What the HAL remembers for the default profile is the modem's, as long  *)
(* as tasks do not overlap.                                                *)
THEOREM DefaultFollowedCorrect == Spec => []DefaultFollowed
  <1>1. FollowInv => DefaultFollowed
    BY DEF FollowInv, Follows, DefaultFollowed
  <1> QED
    BY <1>1, FollowInit, FollowNext, PTL DEF Spec

-----------------------------------------------------------------------------
(* Types                                                                   *)

Stages == {"NOT_READY", "CONFIGURING", "READY"}

TypeInv ==
    /\ TypeOK /\ \A t \in tasks : Fits(t)
    /\ begun \in Nat /\ overlaps \in Nat /\ failures \in Nat /\ changes \in Nat

\* What the steps of tasks have to keep.
HalTyped ==
    /\ stored \in [Ids -> Keys \cup {Free}] /\ modemDefault \in Ids
    /\ wds \in BOOLEAN /\ cached \in BOOLEAN /\ cachedId \in {0} \cup Ids
    /\ listed \in BOOLEAN /\ list \in Seq(Profiles) /\ count \in 0..Len(list)
    /\ collected \in BOOLEAN /\ tasks \subseteq Tasks /\ (\A t \in tasks : Fits(t))
    /\ profile \in Stages
    /\ begun \in Nat /\ overlaps \in Nat /\ failures \in Nat /\ changes \in Nat

TableTyped ==
    /\ bus \in Buses /\ rows \in Seq(Rows)
    /\ fresh \in BOOLEAN /\ waiting \in BOOLEAN /\ edited \in BOOLEAN /\ whole \in BOOLEAN

LEMMA TypeParts == TypeInv <=> HalTyped /\ TableTyped
  BY DEF TypeInv, TypeOK, HalTyped, TableTyped, Stages

LEMMA TypeInit == Init => TypeInv
  <1> SUFFICES ASSUME Init PROVE TypeInv
    OBVIOUS
  <1>1. <<>> \in Seq(Profiles) /\ <<>> \in Seq(Rows) /\ Len(<<>>) = 0
    OBVIOUS
  <1>2. HalTyped
    <2>1. /\ stored \in [Ids -> Keys \cup {Free}] /\ modemDefault \in Ids /\ tasks = {}
          /\ wds \in BOOLEAN /\ cached = FALSE /\ cachedId = 0 /\ collected = FALSE
          /\ listed = FALSE /\ list = <<>> /\ count = 0 /\ profile = "NOT_READY"
          /\ begun = 0 /\ overlaps = 0 /\ failures = 0 /\ changes = 0
      BY DEF Init, ProfileInit, Held
    <2>2. list \in Seq(Profiles) /\ count \in 0..Len(list)
      BY <1>1, <2>1
    <2>3. tasks \subseteq Tasks /\ \A t \in tasks : Fits(t)
      BY <2>1
    <2>4. profile \in Stages /\ wds \in BOOLEAN /\ cached \in BOOLEAN /\ cachedId \in {0} \cup Ids
      BY <2>1 DEF Stages
    <2> QED
      BY <2>1, <2>2, <2>3, <2>4 DEF HalTyped
  <1>3. TableTyped
    BY <1>1 DEF Init, TableTyped
  <1> QED
    BY <1>2, <1>3, TypeParts

\* The parts of the type that a task changes as it goes on.
TasksTyped == tasks \subseteq Tasks /\ (\A t \in tasks : Fits(t)) /\ profile \in Stages

LEMMA TurnedTyped ==
    ASSUME TasksTyped, NEW t, NEW w \in Tasks, Fits(w), tasks' = (tasks \ {t}) \cup {w},
           NEW b, profile' = IF b THEN "CONFIGURING" ELSE profile
    PROVE  TasksTyped'
  BY DEF TasksTyped, Stages

LEMMA EndedTyped ==
    ASSUME TasksTyped, NEW t, tasks' = tasks \ {t}, profile' \in Stages
    PROVE  TasksTyped'
  BY DEF TasksTyped

LEMMA SettledTyped ==
    ASSUME TasksTyped, NEW t \in Tasks, Fits(t), t.op \in {"create", "modify"}, NEW l, NEW n,
           Settled(t, t, l, n)
    PROVE  TasksTyped' /\ list' \in Seq(Profiles) /\ Len(list') = Len(l)
  <1>1. list' \in Seq(Profiles) /\ Len(list') = Len(l)
    BY DEF Settled, Marked
  <1>2. CASE tasks' = tasks \ {t} /\ profile' = IF t.told THEN "READY" ELSE profile
    BY <1>1, <1>2, EndedTyped DEF TasksTyped, Stages
  <1>3. ASSUME NEW w \in Tasks, tasks' = (tasks \ {t}) \cup {w},
               profile' = IF t.told /\ t \notin tasks THEN "CONFIGURING" ELSE profile,
               w.op = t.op, w.told = t.told, w.in.key = t.in.key, w.step \in {t.op, "default"}
        PROVE  TasksTyped'
    <2>1. Fits(w)
      BY <1>3 DEF Fits
    <2> QED
      BY <1>3, <2>1, TurnedTyped
  <1> QED
    BY <1>1, <1>2, <1>3 DEF Settled

LEMMA BegunTyped ==
    ASSUME HalTyped, NEW t \in Tasks, Fits(t), NEW c \in BOOLEAN, Begun(t, t, c)
    PROVE  TasksTyped' /\ list' \in Seq(Profiles) /\ Len(list') = Len(list) /\ collected' \in BOOLEAN
  <1>1. TasksTyped
    BY DEF HalTyped, TasksTyped
  <1>2. CASE t.op \in {"create", "modify"} /\ collected' = c /\ Settled(t, t, list, count)
    BY <1>1, <1>2, SettledTyped
  <1>3. ASSUME NEW w, NEW step, Turned(t, t, step, w), UNCHANGED list, collected' \in BOOLEAN,
               \/ step \in {"client", "number"}
               \/ step = "delete" /\ t.op = "delete"
               \/ step = "list" /\ t.op # "modify"
        PROVE  TasksTyped' /\ list' \in Seq(Profiles) /\ Len(list') = Len(list) /\ collected' \in BOOLEAN
    <2>1. w \in Tasks /\ Fits(w)
      BY <1>3 DEF Turned, Fits
    <2> QED
      BY <1>1, <1>3, <2>1, TurnedTyped DEF Turned, HalTyped
  <1>4. ASSUME NEW w, NEW step, Turned(t, t, step, w), UNCHANGED list,
               \/ step \in {"client", "number"} /\ collected' = c
               \/ step = "delete" /\ t.op = "delete" /\ collected' = c
               \/ step = "list" /\ t.op # "modify" /\ collected' = FALSE
        PROVE  TasksTyped' /\ list' \in Seq(Profiles) /\ Len(list') = Len(list) /\ collected' \in BOOLEAN
    <2>1. collected' \in BOOLEAN
      BY <1>4
    <2> QED
      BY <1>3, <1>4, <2>1
  <1>5. CASE \E w, step :
               /\ Turned(t, t, step, w) /\ UNCHANGED list
               /\ \/ step \in {"client", "number"} /\ collected' = c
                  \/ step = "delete" /\ t.op = "delete" /\ collected' = c
                  \/ step = "list" /\ t.op # "modify" /\ collected' = FALSE
    BY <1>4, <1>5
  <1> QED
    BY <1>2, <1>5 DEF Begun

\* A step of a task keeps the types if the parts it changes are typed.
LEMMA StepTyped ==
    ASSUME HalTyped, UNCHANGED <<begun, overlaps>>, failures' \in Nat, changes' \in Nat,
           TasksTyped', list' \in Seq(Profiles), count' \in 0..Len(list'),
           listed' \in BOOLEAN, collected' \in BOOLEAN,
           stored' \in [Ids -> Keys \cup {Free}], modemDefault' \in Ids,
           wds' \in BOOLEAN, cached' \in BOOLEAN, cachedId' \in {0} \cup Ids
    PROVE  HalTyped'
  BY DEF HalTyped, TasksTyped

LEMMA AnswerTyped ==
    ASSUME HalTyped, NEW t \in tasks, UNCHANGED <<begun, overlaps, failures>>,
           ClientAllocated(t) \/ DefaultNumberRead(t) \/ DefaultSettingsRead(t) \/ Deleted(t)
    PROVE  HalTyped'
  <1>1. t \in Tasks /\ Fits(t) /\ TasksTyped /\ list \in Seq(Profiles) /\ count \in 0..Len(list)
    BY DEF HalTyped, TasksTyped
  <1>2. ASSUME Begun(t, t, collected), changes' \in Nat,
               stored' \in [Ids -> Keys \cup {Free}], modemDefault' \in Ids,
               wds' \in BOOLEAN, cached' \in BOOLEAN, cachedId' \in {0} \cup Ids
        PROVE  HalTyped'
    <2>1. /\ TasksTyped' /\ list' \in Seq(Profiles) /\ Len(list') = Len(list)
          /\ collected' \in BOOLEAN
      BY <1>1, <1>2, BegunTyped DEF HalTyped
    <2>2. listed' = listed /\ count' = count
      BY <1>2 DEF Begun
    <2>3. failures' \in Nat /\ listed' \in BOOLEAN
      BY <2>2 DEF HalTyped
    <2> QED
      BY <1>1, <1>2, <2>1, <2>2, <2>3, StepTyped
  <1>3. CASE ClientAllocated(t)
    BY <1>1, <1>2, <1>3, SettingsBegins DEF ClientAllocated, modemVars, cacheVars, HalTyped
  <1>4. CASE DefaultNumberRead(t)
    <2>1. PICK w : Turned(t, t, "settings", w)
      BY <1>1, <1>4, WaitsTurns DEF DefaultNumberRead, Requests
    <2>2. w \in Tasks /\ Fits(w)
      BY <1>1, <2>1 DEF Turned, Fits
    <2>3. TasksTyped'
      BY <1>1, <2>1, <2>2, TurnedTyped DEF Turned
    <2> QED
      BY <1>4, <2>3, StepTyped DEF DefaultNumberRead, modemVars, listVars, HalTyped
  <1>5. CASE DefaultSettingsRead(t)
    BY <1>1, <1>2, <1>5, ListBegins DEF DefaultSettingsRead, modemVars, HalTyped
  <1>6. CASE Deleted(t)
    <2>1. stored' \in [Ids -> Keys \cup {Free}] /\ changes' \in Nat
      <3>1. stored' = [stored EXCEPT ![t.in.id] = Free] /\ changes' = changes + 1
        BY <1>6 DEF Deleted
      <3>2. stored \in [Ids -> Keys \cup {Free}] /\ changes \in Nat
        BY DEF HalTyped
      <3>3. stored' \in [Ids -> Keys \cup {Free}]
        BY <3>1, <3>2
      <3> QED
        BY <3>1, <3>2, <3>3
    <2> QED
      BY <1>1, <1>2, <1>6, <2>1, ListBegins DEF Deleted, cacheVars, HalTyped
  <1> QED
    BY <1>3, <1>4, <1>5, <1>6

LEMMA AfterListTyped ==
    ASSUME TasksTyped, NEW t \in Tasks, Fits(t), t.op # "modify",
           NEW l \in Seq(Profiles), count' \in 0..Len(l), AfterList(t, l)
    PROVE  TasksTyped' /\ list' \in Seq(Profiles) /\ Len(list') = Len(l)
  <1>1. CASE t.op # "create" /\ list' = l /\ tasks' = tasks \ {t} /\ UNCHANGED profile
    BY <1>1, EndedTyped DEF TasksTyped
  <1>2. CASE t.op = "create" /\ Settled(t, t, l, count')
    BY <1>2, SettledTyped
  <1> QED
    BY <1>1, <1>2, AfterListSettles

LEMMA ReadingTyped ==
    ASSUME HalTyped, NEW t \in tasks, UNCHANGED <<begun, overlaps, failures>>,
           ListRead(t) \/ EntryRead(t)
    PROVE  HalTyped'
  <1>1. t \in Tasks /\ Fits(t) /\ TasksTyped /\ list \in Seq(Profiles) /\ count \in 0..Len(list)
    BY DEF HalTyped, TasksTyped
  <1>2. CASE ListRead(t)
    <2>1. PICK w :
             /\ tasks' = (tasks \ {t}) \cup {w}
             /\ profile' = IF t.told /\ t \notin tasks THEN "CONFIGURING" ELSE profile
             /\ w \in Tasks /\ w.step = "entry" /\ w.op = t.op /\ w.told = t.told /\ w.in = t.in
             /\ Len(w.ids) \in Nat \ {0}
             /\ listed' /\ count' = Len(w.ids) /\ list' \in Seq(Profiles) /\ Len(list') = Len(w.ids)
      BY <1>1, <1>2, ListReadEffect
    <2>2. Fits(w)
      BY <1>1, <1>2, <2>1 DEF Fits, ListRead
    <2>3. TasksTyped'
      BY <1>1, <2>1, <2>2, TurnedTyped
    <2> QED
      BY <1>2, <2>1, <2>3, StepTyped DEF ListRead, modemVars, cacheVars, HalTyped
  <1>3. CASE EntryRead(t)
    <2>1. stored \in [Ids -> Keys \cup {Free}]
      BY DEF HalTyped
    <2>2. PICK l : EntryPut(t, l) /\ (EntryEnds(t, l) \/ EntryGoesOn(t, l))
      BY <1>1, <1>3, <2>1, EntryReadEffect
    <2>3. UNCHANGED <<stored, modemDefault, wds, cached, cachedId, listed, count, changes>>
      BY <1>3 DEF EntryRead, modemVars, cacheVars
    <2>4. TasksTyped' /\ list' \in Seq(Profiles) /\ Len(list') = Len(list) /\ collected' \in BOOLEAN
      <3>1. l \in Seq(Profiles) /\ Len(l) = Len(list) /\ t.op # "modify"
        BY <1>1, <1>3, <2>2 DEF EntryPut, EntryRead, Fits
      <3>2. CASE EntryEnds(t, l)
        <4>1. count' \in 0..Len(l)
          BY <1>1, <2>3, <3>1
        <4> QED
          BY <1>1, <3>1, <3>2, <4>1, AfterListTyped DEF EntryEnds
      <3>3. CASE EntryGoesOn(t, l)
        <4>1. PICK w :
                 /\ tasks' = (tasks \ {t}) \cup {w}
                 /\ profile' = IF t.told /\ t \notin tasks THEN "CONFIGURING" ELSE profile
                 /\ w \in Tasks /\ w.step = "entry" /\ w.op = t.op /\ w.told = t.told /\ w.in = t.in
                 /\ UNCHANGED collected
                 /\ list' \in Seq(Profiles) /\ Len(list') = Len(list)
          BY <3>3 DEF EntryGoesOn
        <4>2. Fits(w)
          BY <1>1, <1>3, <4>1 DEF Fits, EntryRead
        <4> QED
          BY <1>1, <4>1, <4>2, TurnedTyped DEF HalTyped
      <3> QED
        BY <2>2, <3>2, <3>3
    <2> QED
      BY <1>1, <2>3, <2>4, StepTyped DEF HalTyped
  <1> QED
    BY <1>2, <1>3

LEMMA StoresTyped ==
    ASSUME HalTyped, NEW t \in tasks, t.op \in {"create", "modify"}, NEW i, Stores(t, i)
    PROVE  TasksTyped' /\ stored' \in [Ids -> Keys \cup {Free}] /\ changes' \in Nat
  <1>1. t \in Tasks /\ Fits(t) /\ TasksTyped
    BY DEF HalTyped, TasksTyped
  <1>2. stored' \in [Ids -> Keys \cup {Free}] /\ changes' \in Nat
    BY <1>1 DEF Stores, HalTyped, Fits
  <1>3. CASE tasks' = tasks \ {t} /\ profile' = IF t.told THEN "READY" ELSE profile
    BY <1>1, <1>2, <1>3, EndedTyped DEF TasksTyped, Stages
  <1>4. ASSUME NEW w, tasks' = (tasks \ {t}) \cup {w},
               profile' = IF t.told /\ t \notin tasks THEN "CONFIGURING" ELSE profile,
               w \in Tasks, w.step = "default", w.op = t.op, w.told = t.told, w.in.key = t.in.key
        PROVE  TasksTyped'
    <2>1. Fits(w)
      BY <1>1, <1>4 DEF Fits
    <2> QED
      BY <1>1, <1>4, <2>1, TurnedTyped
  <1> QED
    BY <1>2, <1>3, <1>4 DEF Stores

LEMMA StoringTyped ==
    ASSUME HalTyped, NEW t \in tasks, UNCHANGED <<begun, overlaps, failures>>,
           Created(t) \/ Modified(t) \/ DefaultSet(t)
    PROVE  HalTyped'
  <1>1. t \in Tasks /\ Fits(t) /\ TasksTyped
    BY DEF HalTyped, TasksTyped
  <1>2. ASSUME NEW i, t.op \in {"create", "modify"}, Stores(t, i) PROVE HalTyped'
    BY <1>2, StoresTyped, StepTyped DEF Stores, HalTyped
  <1>3. CASE Created(t)
    <2>1. t.op = "create"
      BY <1>1, <1>3 DEF Created, Fits
    <2>2. PICK i : Stores(t, i)
      BY <1>1, <1>3, <2>1, CreatedEffect
    <2> QED
      BY <1>2, <2>1, <2>2
  <1>4. CASE Modified(t)
    <2>1. t.op = "modify"
      BY <1>1, <1>4 DEF Modified, Fits
    <2>2. Stores(t, t.in.id)
      BY <1>1, <1>4, <2>1, ModifiedEffect
    <2> QED
      BY <1>2, <2>1, <2>2
  <1>5. CASE DefaultSet(t)
    <2>1. t.op \in {"create", "modify"} /\ t.in.id \in Ids
      BY <1>1, <1>5 DEF DefaultSet, Fits, Held
    <2>2. tasks' = tasks \ {t} /\ profile' = IF t.told THEN "READY" ELSE profile
      BY <1>5, <2>1 DEF DefaultSet, Notifies, ProfileStatusCB
    <2>3. TasksTyped'
      BY <1>1, <2>2, EndedTyped DEF TasksTyped, Stages
    <2> QED
      BY <1>5, <2>1, <2>3, StepTyped DEF DefaultSet, listVars, HalTyped
  <1> QED
    BY <1>3, <1>4, <1>5

LEMMA FailureTyped ==
    ASSUME HalTyped, NEW t \in tasks, UNCHANGED <<begun, overlaps>>, Failure(t)
    PROVE  HalTyped'
  <1>1. t \in Tasks /\ Fits(t) /\ TasksTyped /\ list \in Seq(Profiles) /\ count \in 0..Len(list)
    BY DEF HalTyped, TasksTyped
  <1>2. failures' \in Nat /\ UNCHANGED <<stored, modemDefault, wds, changes>>
    BY DEF Failure, HalTyped, modemVars
  <1>3. CASE Lost(t)
    <2>1. TasksTyped' /\ list' \in Seq(Profiles)
      <3>1. CASE t.op # "create" /\ list' = list /\ tasks' = tasks \ {t} /\ UNCHANGED profile
        BY <1>1, <3>1, EndedTyped DEF TasksTyped
      <3>2. CASE t.op = "create" /\ Settled(t, t, list, 0)
        BY <1>1, <3>2, SettledTyped
      <3> QED
        BY <1>3, <3>1, <3>2 DEF Lost
    <2>2. count' \in 0..Len(list')
      BY <1>3, <2>1 DEF Lost
    <2> QED
      BY <1>2, <1>3, <2>1, <2>2, StepTyped DEF Lost, HalTyped
  <1>4. CASE /\ tasks' = tasks \ {t} /\ UNCHANGED <<listed, list, count, collected>>
             /\ profile' = profile \/ profile' = "NOT_READY"
             /\ \/ t.step = "number" /\ cached' = FALSE /\ cachedId' = 0
                \/ UNCHANGED <<cached, cachedId>>
    <2>1. TasksTyped'
      BY <1>1, <1>4, EndedTyped DEF TasksTyped, Stages
    <2> QED
      BY <1>1, <1>2, <1>4, <2>1, StepTyped DEF HalTyped
  <1> QED
    BY <1>1, <1>3, <1>4, FailureEffect

LEMMA TaskStepTyped == ASSUME HalTyped, TaskStep PROVE HalTyped'
  BY AnswerTyped, ReadingTyped, StoringTyped, FailureTyped DEF TaskStep

\* A task is begun.
LEMMA OperationTyped ==
    ASSUME HalTyped, NEW op \in Operations, NEW input \in Profiles, NEW told \in BOOLEAN,
           told => op = "create", op \in {"create", "modify"} => input.key \in Keys,
           Operation(op, input, told)
    PROVE  HalTyped'
  <1>2. PICK t : Begins(op, input, told, t)
    BY OperationBegins DEF HalTyped
  <1>3. t \in Tasks /\ Fits(t)
    BY <1>2 DEF Begins, Fits
  <1>4. PICK c \in BOOLEAN : Begun(t, t, c)
    BY <1>2 DEF Begins, HalTyped
  <1>5. list \in Seq(Profiles) /\ count \in 0..Len(list)
    BY DEF HalTyped
  <1>6. /\ TasksTyped' /\ list' \in Seq(Profiles) /\ Len(list') = Len(list)
        /\ collected' \in BOOLEAN
    BY <1>3, <1>4, <1>5, BegunTyped
  <1>7. /\ begun' = begun + 1 /\ overlaps' = IF tasks = {} THEN overlaps ELSE overlaps + 1
        /\ UNCHANGED <<stored, modemDefault, wds, cached, cachedId, failures, changes>>
        /\ UNCHANGED <<listed, count>>
    BY <1>4 DEF Operation, Begun, modemVars, cacheVars
  <1>8. begun' \in Nat /\ overlaps' \in Nat /\ count' \in 0..Len(list')
    BY <1>5, <1>6, <1>7 DEF HalTyped
  <1> QED
    BY <1>6, <1>7, <1>8 DEF HalTyped, TasksTyped

LEMMA TypePartsNext == ASSUME HalTyped', TableTyped' PROVE TypeInv'
  BY DEF TypeInv, TypeOK, HalTyped, TableTyped, Stages

LEMMA HalUnchangedTyped == ASSUME HalTyped, UNCHANGED <<halVars, boundVars>> PROVE HalTyped'
  BY DEF HalTyped, halVars, boundVars, modemVars, cacheVars, listVars

LEMMA RowTyped ==
    ASSUME NEW row \in Rows
    PROVE  ProfileOf(row) \in Profiles /\ ProfileOf(row).key = row.key
  BY DEF Rows, Profiles, ProfileOf

LEMMA SetRowTyped ==
    ASSUME TypeInv, NEW i \in DOMAIN rows, NEW k \in Keys, NEW d \in BOOLEAN, SetRow(i, k, d)
    PROVE  TypeInv'
  <1>1. HalTyped /\ TableTyped
    BY TypeParts
  <1>2. PICK row : row = [rows[i] EXCEPT !.key = k, !.dflt = d]
    OBVIOUS
  <1>3. i \in 1..Len(rows) /\ rows[i] \in Rows
    BY <1>1 DEF TableTyped
  <1>4. row \in Rows /\ row.key = k /\ [row EXCEPT !.new = FALSE] \in Rows
    BY <1>2, <1>3 DEF Rows
  <1>5. \/ rows' = [rows EXCEPT ![i] = row] /\ UNCHANGED <<halVars, boundVars, edited>>
        \/ /\ rows' = [rows EXCEPT ![i] = [row EXCEPT !.new = FALSE]] /\ edited' = TRUE
           /\ Operation(IF row.new THEN "create" ELSE "modify", ProfileOf(row), FALSE)
    BY <1>2 DEF SetRow
  <1>6. rows' \in Seq(Rows) /\ edited' \in BOOLEAN
    <2>1. PICK r \in Rows : rows' = [rows EXCEPT ![i] = r]
      BY <1>4, <1>5
    <2>2. rows \in Seq(Rows) /\ edited \in BOOLEAN
      BY <1>1 DEF TableTyped
    <2> QED
      <3>1. rows' \in Seq(Rows)
        BY <1>3, <2>1, <2>2
      <3> QED
        BY <1>5, <2>2, <3>1
  <1>7. fresh' = FALSE /\ UNCHANGED <<bus, waiting, whole>>
    BY DEF SetRow
  <1>8. TableTyped'
    BY <1>1, <1>6, <1>7 DEF TableTyped
  <1>9. HalTyped'
    <2>1. ASSUME NEW op \in {"create", "modify"}, Operation(op, ProfileOf(row), FALSE)
          PROVE  HalTyped'
      BY <1>1, <1>4, <2>1, RowTyped, OperationTyped DEF Operations
    <2> QED
      BY <1>1, <1>5, <2>1, HalUnchangedTyped
  <1> QED
    BY <1>8, <1>9, TypePartsNext

LEMMA TypeNext == ASSUME TypeInv, [Next]_vars PROVE TypeInv'
  <1>1. HalTyped /\ TableTyped
    BY TypeParts
  <1>2. ASSUME HalTyped', TableTyped' PROVE TypeInv'
    BY <1>2, TypePartsNext
  <1>3. CASE Registers
    <2>1. [id |-> 0, key |-> OwnKey, dflt |-> TRUE] \in Profiles
      BY AccessPointsAssumption DEF Profiles
    <2>2. HalTyped'
      <3>1. [id |-> 0, key |-> OwnKey, dflt |-> TRUE].key \in Keys
        BY AccessPointsAssumption
      <3> QED
        BY <1>1, <1>3, <2>1, <3>1, OperationTyped DEF Registers, Operations
    <2>3. TableTyped'
      BY <1>1, <1>3 DEF Registers, TableTyped
    <2> QED
      BY <1>2, <2>2, <2>3
  <1>4. CASE Synchronize
    <2>1. [id |-> 0, key |-> Unread, dflt |-> FALSE] \in Profiles
      BY DEF Profiles
    <2>2. HalTyped'
      BY <1>1, <1>4, <2>1, OperationTyped DEF Synchronize, Operations
    <2>3. TableTyped'
      BY <1>1, <1>4 DEF Synchronize, TableTyped
    <2> QED
      BY <1>2, <2>2, <2>3
  <1>5. CASE Synchronized
    <2>1. \A i \in 1..count : list[i] \in Profiles /\ RowOf(list[i]) \in Rows
      <3>1. \A e \in Profiles : RowOf(e) \in Rows
        BY DEF RowOf, Profiles, Rows
      <3>2. \A i \in 1..count : list[i] \in Profiles
        BY <1>1 DEF HalTyped
      <3> QED
        BY <3>1, <3>2
    <2>2. rows' \in Seq(Rows)
      <3>1. rows' = [i \in 1..count |-> RowOf(list[i])] /\ count \in Nat
        BY <1>1, <1>5 DEF Synchronized, HalTyped
      <3> QED
        BY <2>1, <3>1
    <2>3. list' \in Seq(Profiles) /\ count' \in 0..Len(list') /\ listed' \in BOOLEAN
      BY <1>1, <1>5 DEF Synchronized, HalTyped
    <2>4. HalTyped'
      BY <1>1, <1>5, <2>3 DEF Synchronized, HalTyped, modemVars, cacheVars, boundVars
    <2>5. TableTyped'
      BY <1>1, <1>5, <2>2 DEF Synchronized, TableTyped
    <2> QED
      BY <1>2, <2>4, <2>5
  <1>6. CASE ListTimesOut
    <2>1. rows' \in Seq(Rows) /\ waiting' = FALSE /\ UNCHANGED <<bus, fresh, edited, whole>>
      BY <1>6 DEF ListTimesOut
    <2>2. TableTyped'
      BY <1>1, <2>1 DEF TableTyped
    <2> QED
      BY <1>1, <1>2, <1>6, <2>2, HalUnchangedTyped DEF ListTimesOut
  <1>7. CASE Expires
    BY <1>1, <1>2, <1>7, HalUnchangedTyped DEF Expires, TableTyped
  <1>8. CASE AddEntry
    <2>1. [id |-> 0, key |-> Unread, dflt |-> FALSE, new |-> TRUE] \in Rows
      BY DEF Rows
    <2>2. TableTyped'
      BY <1>1, <1>8, <2>1 DEF AddEntry, TableTyped
    <2> QED
      BY <1>1, <1>2, <1>8, <2>2, HalUnchangedTyped DEF AddEntry
  <1>9. CASE AddEntry_rbus
    <2>1. PICK k, row :
             /\ k \in Keys
             /\ row = [id |-> 0, key |-> k, dflt |-> FALSE, new |-> FALSE]
             /\ rows' = Append(rows, row) /\ Operation("create", ProfileOf(row), FALSE)
      BY <1>9 DEF AddEntry_rbus
    <2>2. row \in Rows /\ row.key = k
      BY <2>1 DEF Rows
    <2>3. HalTyped'
      BY <1>1, <2>1, <2>2, RowTyped, OperationTyped DEF Operations
    <2>4. TableTyped'
      <3>1. fresh' = FALSE /\ edited' = TRUE /\ UNCHANGED <<bus, waiting, whole>>
        BY <1>9 DEF AddEntry_rbus
      <3>2. rows' \in Seq(Rows)
        <4>1. rows \in Seq(Rows)
          BY <1>1 DEF TableTyped
        <4> QED
          BY <2>1, <2>2, <4>1
      <3> QED
        BY <1>1, <3>1, <3>2 DEF TableTyped
    <2> QED
      BY <1>2, <2>3, <2>4
  <1>10. ASSUME NEW i \in DOMAIN rows, DeleteEntry(i) PROVE TypeInv'
    <2>1. rows[i] \in Rows
      BY <1>1, <1>10 DEF TableTyped
    <2>2. HalTyped'
      BY <1>1, <1>10, <2>1, RowTyped, OperationTyped DEF DeleteEntry, Operations
    <2>3. TableTyped'
      BY <1>1, <1>10 DEF DeleteEntry, TableTyped
    <2> QED
      BY <1>2, <2>2, <2>3
  <1>11. CASE TaskWorks
    BY <1>1, <1>2, <1>11, TaskStepTyped DEF TaskWorks, tableVars, TableTyped
  <1>12. CASE UNCHANGED vars
    BY <1>1, <1>2, <1>12, HalUnchangedTyped DEF vars, tableVars, TableTyped
  <1> QED
    BY <1>3, <1>4, <1>5, <1>6, <1>7, <1>8, <1>9, <1>10, <1>11, <1>12, SetRowTyped DEF Next, Table

(* Every reachable state has the types: the list is as long as its count   *)
(* says, tasks make only the requests of their operations, and nothing but *)
(* the contents of a profile ever reaches the modem.                       *)
THEOREM TypeCorrect == Spec => []TypeOK
  <1>1. TypeInv => TypeOK
    BY DEF TypeInv
  <1> QED
    BY <1>1, TypeInit, TypeNext, PTL DEF Spec

-----------------------------------------------------------------------------
(* Rows read while no other task runs                                      *)

\* While a table waits for a list that no other task disturbs, the entries
\* before the one asked for are there, and the flag says that all are.
WholeRead ==
    /\ \A t, u \in tasks : t = u
    /\ \A t \in tasks : t.op = "list" /\ collected = FALSE
    /\ collected => \A i \in 1..count : list[i].key # Unread
    /\ \A t \in tasks : t.step = "entry" =>
         /\ Len(list) = Len(t.ids) /\ count = Len(t.ids) /\ t.pos \in 1..Len(t.ids)
         /\ \A i \in 1..t.pos - 1 : list[i].key # Unread

WholeInv == (whole /\ waiting => WholeRead) /\ RowsWhole

LEMMA WholeInit == Init => WholeInv
  BY DEF Init, WholeInv, RowsWhole

LEMMA WholeBegins ==
    ASSUME NEW t, tasks = {} \/ tasks = {t}, t.op = "list", Begun(t, t, FALSE)
    PROVE  WholeRead'
  <1>1. PICK w, step :
           Turned(t, t, step, w) /\ step \in {"client", "number", "list"} /\ collected' = FALSE
    BY DEF Begun
  <1>2. tasks' = {w} /\ w.op = "list" /\ w.step # "entry"
    BY <1>1 DEF Turned
  <1> QED
    BY <1>1, <1>2 DEF WholeRead

LEMMA WholeReads ==
    ASSUME TypeInv, NEW t \in tasks, WholeRead, ListRead(t) \/ EntryRead(t)
    PROVE  WholeRead'
  <1>1. t \in Tasks /\ t.op = "list" /\ collected = FALSE /\ tasks = {t}
    BY DEF TypeInv, TypeOK, WholeRead
  <1>2. CASE ListRead(t)
    <2>1. PICK w :
             /\ tasks' = (tasks \ {t}) \cup {w}
             /\ w.step = "entry" /\ w.op = t.op /\ w.pos = 1 /\ Len(w.ids) \in Nat \ {0}
             /\ count' = Len(w.ids) /\ Len(list') = Len(w.ids)
      BY <1>1, <1>2, ListReadEffect
    <2>2. tasks' = {w} /\ collected' = FALSE /\ w.pos \in 1..Len(w.ids) /\ 1..w.pos - 1 = {}
      BY <1>1, <1>2, <2>1 DEF ListRead
    <2> QED
      BY <1>1, <2>1, <2>2 DEF WholeRead
  <1>3. CASE EntryRead(t)
    <2>1. stored \in [Ids -> Keys \cup {Free}] /\ list \in Seq(Profiles)
      BY DEF TypeInv, TypeOK
    <2>2. stored[t.ids[t.pos]] \in Keys
      BY <1>1, <1>3, <2>1, EntryReadEffect
    <2>3. PICK l : EntryPut(t, l) /\ (EntryEnds(t, l) \/ EntryGoesOn(t, l))
      BY <1>1, <1>3, <2>1, EntryReadEffect
    <2>4. /\ Len(list) = Len(t.ids) /\ count = Len(t.ids) /\ t.pos \in 1..Len(t.ids)
          /\ \A i \in 1..t.pos - 1 : list[i].key # Unread
      BY <1>3 DEF EntryRead, WholeRead
    <2>5. \A i \in 1..t.pos : l[i].key # Unread
      BY <2>2, <2>3, <2>4, ConstantsAssumption DEF EntryPut
    <2>6. count' = count
      BY <1>3 DEF EntryRead
    <2>7. CASE EntryEnds(t, l)
      <3>1. list' = l /\ tasks' = {}
        BY <1>1, <2>7 DEF EntryEnds, AfterList, Ends
      <3>2. count' = t.pos
        BY <2>4, <2>6, <2>7 DEF EntryEnds
      <3> QED
        BY <2>5, <3>1, <3>2 DEF WholeRead
    <2>8. CASE EntryGoesOn(t, l)
      <3>1. PICK w :
               /\ tasks' = (tasks \ {t}) \cup {w} /\ w.step = "entry" /\ w.op = t.op
               /\ w.ids = t.ids /\ w.pos = t.pos + 1 /\ w.pos \in 1..Len(w.ids)
               /\ UNCHANGED collected /\ Len(list') = Len(list)
               /\ \A i \in 1..Len(list) : list'[i].key = l[i].key
        BY <2>8 DEF EntryGoesOn
      <3>2. tasks' = {w}
        BY <1>1, <3>1
      <3>3. \A i \in 1..w.pos - 1 : list'[i].key # Unread
        <4>1. \A i \in 1..w.pos - 1 : i \in 1..t.pos /\ i \in 1..Len(list)
          BY <2>4, <3>1
        <4> QED
          BY <2>5, <3>1, <4>1
      <3> QED
        BY <1>1, <2>4, <2>6, <3>1, <3>2, <3>3 DEF WholeRead
    <2> QED
      BY <2>3, <2>7, <2>8
  <1> QED
    BY <1>2, <1>3

LEMMA WholeTask == ASSUME TypeInv, WholeRead, TaskStep PROVE WholeRead'
  <1>1. PICK t \in tasks :
           \/ ClientAllocated(t) \/ DefaultNumberRead(t) \/ DefaultSettingsRead(t)
           \/ Deleted(t) \/ ListRead(t) \/ EntryRead(t) \/ Created(t) \/ Modified(t)
           \/ DefaultSet(t) \/ Failure(t)
    BY DEF TaskStep
  <1>2. /\ t \in Tasks /\ Fits(t) /\ t.op = "list" /\ collected = FALSE /\ tasks = {t}
        /\ list \in Seq(Profiles) /\ count \in 0..Len(list)
    BY DEF TypeInv, TypeOK, WholeRead
  <1>3. CASE ClientAllocated(t)
    BY <1>2, <1>3, SettingsBegins, WholeBegins DEF ClientAllocated
  <1>4. CASE DefaultNumberRead(t)
    <2>1. PICK w : Turned(t, t, "settings", w)
      BY <1>2, <1>4, WaitsTurns DEF DefaultNumberRead, Requests
    <2>2. tasks' = {w} /\ w.op = "list" /\ w.step # "entry" /\ collected' = FALSE
      BY <1>2, <1>4, <2>1 DEF Turned, DefaultNumberRead, listVars
    <2> QED
      BY <2>2 DEF WholeRead
  <1>5. CASE DefaultSettingsRead(t)
    BY <1>2, <1>5, ListBegins, WholeBegins DEF DefaultSettingsRead
  <1>6. CASE Failure(t)
    <2>1. CASE Lost(t)
      BY <1>2, <2>1 DEF Lost, WholeRead
    <2>2. CASE tasks' = tasks \ {t} /\ UNCHANGED collected
      BY <1>2, <2>2 DEF WholeRead
    <2> QED
      BY <1>2, <1>6, <2>1, <2>2, FailureEffect
  <1>7. ~(Deleted(t) \/ Created(t) \/ Modified(t) \/ DefaultSet(t))
    BY <1>2 DEF Deleted, Created, Modified, DefaultSet, Fits
  <1> QED
    BY <1>1, <1>3, <1>4, <1>5, <1>6, <1>7, WholeReads

LEMMA WholeSynchronize == ASSUME TypeInv, Synchronize PROVE WholeInv'
  <1>1. waiting' /\ whole' = (tasks = {})
    BY DEF Synchronize
  <1>2. ASSUME tasks = {} PROVE WholeRead'
    <2>1. PICK input : input = [id |-> 0, key |-> Unread, dflt |-> FALSE]
      OBVIOUS
    <2>2. input \in Profiles
      BY <2>1 DEF Profiles
    <2>3. PICK t : Begins("list", input, FALSE, t)
      BY <2>1, <2>2, OperationBegins DEF Synchronize, TypeInv, TypeOK, Operations
    <2>4. t.op = "list" /\ Begun(t, t, FALSE)
      BY <2>3 DEF Begins
    <2> QED
      BY <1>2, <2>4, WholeBegins
  <1> QED
    BY <1>1, <1>2 DEF WholeInv, RowsWhole

LEMMA WholeRows ==
    ASSUME WholeInv, ~waiting, UNCHANGED <<waiting, whole>>,
           RowsWhole => \A i \in DOMAIN rows' : ~rows'[i].new =>
                           rows'[i].key # Unread \/ (i \in DOMAIN rows /\ rows'[i] = rows[i])
    PROVE  WholeInv'
  BY DEF WholeInv, RowsWhole

LEMMA WholeNext == ASSUME TypeInv, WholeInv, [Next]_vars PROVE WholeInv'
  <1>1. CASE Registers
    <2>1. whole' = (whole /\ ~waiting) /\ UNCHANGED <<rows, waiting>>
      BY <1>1 DEF Registers
    <2> QED
      BY <2>1 DEF WholeInv, RowsWhole
  <1>2. CASE Synchronized
    <2>1. /\ waiting /\ collected /\ waiting' = FALSE /\ whole' = whole
          /\ rows' = [i \in 1..count |-> RowOf(list[i])]
      BY <1>2 DEF Synchronized
    <2>2. whole => \A i \in 1..count : list[i].key # Unread
      BY <2>1 DEF WholeInv, WholeRead
    <2>3. \A i \in 1..count : RowOf(list[i]).key = list[i].key
      BY DEF RowOf
    <2>4. whole => \A i \in 1..count : rows'[i].key # Unread
      BY <2>1, <2>2, <2>3
    <2>5. DOMAIN rows' = 1..count
      BY <2>1
    <2> QED
      BY <2>1, <2>4, <2>5 DEF WholeInv, RowsWhole
  <1>3. CASE ListTimesOut
    <2>1. waiting' = FALSE /\ rows' = <<>>
      BY <1>3 DEF ListTimesOut
    <2>2. DOMAIN rows' = {}
      BY <2>1
    <2> QED
      BY <2>1, <2>2 DEF WholeInv, RowsWhole
  <1>4. CASE UNCHANGED <<rows, waiting, whole>> /\ ~waiting
    BY <1>4 DEF WholeInv, RowsWhole
  <1>5. CASE Expires \/ \E i \in DOMAIN rows : DeleteEntry(i)
    BY <1>4, <1>5 DEF Expires, DeleteEntry
  <1>6. ASSUME NEW row, ~waiting, UNCHANGED <<waiting, whole>>, rows' = Append(rows, row),
               row.new \/ row.key # Unread
        PROVE  WholeInv'
    <2>1. rows \in Seq(Rows) /\ Len(rows) \in Nat
      BY DEF TypeInv, TypeOK
    <2>2. /\ DOMAIN rows' = 1..Len(rows) + 1 /\ rows'[Len(rows) + 1] = row
          /\ \A i \in 1..Len(rows) : rows'[i] = rows[i] /\ i \in DOMAIN rows
      BY <1>6, <2>1
    <2>3. \A i \in DOMAIN rows' : ~rows'[i].new =>
             rows'[i].key # Unread \/ (i \in DOMAIN rows /\ rows'[i] = rows[i])
      BY <1>6, <2>1, <2>2
    <2> QED
      BY <1>6, <2>3, WholeRows
  <1>7. CASE AddEntry
    BY <1>6, <1>7 DEF AddEntry
  <1>8. CASE AddEntry_rbus
    <2>1. PICK k, row :
             /\ k \in Keys /\ row = [id |-> 0, key |-> k, dflt |-> FALSE, new |-> FALSE]
             /\ rows' = Append(rows, row)
      BY <1>8 DEF AddEntry_rbus
    <2>2. row.key # Unread
      BY <2>1, ConstantsAssumption
    <2> QED
      BY <1>6, <1>8, <2>1, <2>2 DEF AddEntry_rbus
  <1>9. ASSUME NEW i \in DOMAIN rows, NEW k \in Keys, NEW d \in BOOLEAN, SetRow(i, k, d)
        PROVE  WholeInv'
    <2>1. PICK row : row = [rows[i] EXCEPT !.key = k, !.dflt = d]
      OBVIOUS
    <2>2. rows \in Seq(Rows) /\ i \in 1..Len(rows) /\ rows[i] \in Rows
      BY DEF TypeInv, TypeOK
    <2>3. row.key = k /\ [row EXCEPT !.new = FALSE].key = k /\ k # Unread
      BY <2>1, <2>2, ConstantsAssumption DEF Rows
    <2>4. PICK r : rows' = [rows EXCEPT ![i] = r] /\ r.key # Unread
      BY <1>9, <2>1, <2>3 DEF SetRow
    <2>5. \A j \in DOMAIN rows' : rows'[j].key # Unread \/ (j \in DOMAIN rows /\ rows'[j] = rows[j])
      BY <2>2, <2>4
    <2>6. ~waiting /\ UNCHANGED <<waiting, whole>>
      BY <1>9 DEF SetRow
    <2> QED
      BY <2>5, <2>6, WholeRows
  <1>10. CASE TaskWorks
    <2>1. UNCHANGED <<rows, waiting, whole>>
      BY <1>10 DEF TaskWorks, tableVars
    <2>2. whole /\ waiting => WholeRead'
      BY <1>10, WholeTask DEF TaskWorks, WholeInv
    <2> QED
      BY <2>1, <2>2 DEF WholeInv, RowsWhole
  <1>11. CASE UNCHANGED vars
    BY <1>11 DEF vars, halVars, listVars, tableVars, WholeInv, WholeRead, RowsWhole
  <1> QED
    BY <1>1, <1>2, <1>3, <1>5, <1>7, <1>8, <1>9, <1>10, <1>11, WholeSynchronize DEF Next, Table

(* A table that was read while no other task ran holds complete profiles.  *)
THEOREM RowsWholeCorrect == Spec => []RowsWhole
  <1>1. TypeInv /\ WholeInv => RowsWhole
    BY DEF WholeInv
  <1>2. Init => TypeInv /\ WholeInv
    BY TypeInit, WholeInit
  <1>3. TypeInv /\ WholeInv /\ [Next]_vars => (TypeInv /\ WholeInv)'
    BY TypeNext, WholeNext
  <1> QED
    BY <1>1, <1>2, <1>3, PTL DEF Spec

-----------------------------------------------------------------------------
(* The state machine's own profile                                         *)

Early == {"client", "number", "settings", "list", "entry"}

\* A task of the state machine or the table; one about to set the default
\* has a profile with the state machine's contents, or none.
OwnTask(t) ==
    /\ t.op \in {"create", "list"}
    /\ t.op = "create" => t.in.key = OwnKey /\ t.in.dflt
    /\ t.step = "default" /\ t.in.id # 0 => stored[t.in.id] = OwnKey

\* The entries of list l are those of the reading that task t has under way.
ReadsInto(t, l) ==
    t.step = "entry" =>
        /\ t.pos \in 1..Len(t.ids)
        /\ \A i \in 1..Len(l) :
             /\ i \in 1..Len(t.ids) /\ l[i].id \in {0, t.ids[i]}
             /\ l[i].key # Unread => stored[t.ids[i]] = l[i].key

\* The entries of list l that are whole are profiles of the modem.
TrueEntries(l) ==
    \A i \in 1..Len(l) : l[i].id # 0 /\ l[i].key # Unread => stored[l[i].id] = l[i].key

\* A task that reads beside one that has not done so yet reads what it will.
SameReading ==
    \A t, u \in tasks : t # u /\ u.step = "entry" /\ t.step \in Early => u.ids = Ascending(Held)

OwnReady == profile = "READY" => stored[modemDefault] = OwnKey

OwnPair ==
    /\ \A t, u, v \in tasks : t = u \/ u = v \/ t = v
    /\ \A t \in tasks : OwnTask(t) /\ ReadsInto(t, list)
    /\ SameReading /\ TrueEntries(list) /\ OwnReady

OwnAlone == \A t, u \in tasks : t = u /\ (t.step = "entry" => t.ids = Ascending(Held))

OwnInv == ~edited => (overlaps <= 1 => OwnPair) /\ (overlaps = 0 => OwnAlone)

LEMMA OwnInit == Init => OwnInv
  <1> SUFFICES ASSUME Init PROVE OwnInv
    OBVIOUS
  <1>1. tasks = {} /\ list = <<>> /\ profile = "NOT_READY"
    BY DEF Init, ProfileInit
  <1>2. Len(list) = 0
    BY <1>1
  <1> QED
    BY <1>1, <1>2 DEF OwnInv, OwnPair, OwnAlone, SameReading, TrueEntries, OwnReady

-----------------------------------------------------------------------------
\* Lists that differ by default marks are as true, and as much of a reading.
LEMMA MarkedOwn ==
    ASSUME NEW l, NEW m, Marked(l, m)
    PROVE  /\ TrueEntries(l) => TrueEntries(m)
           /\ \A t : ReadsInto(t, l) => ReadsInto(t, m)
  BY DEF Marked, TrueEntries, ReadsInto

\* What a creation by the state machine comes to when it has looked through
\* list l.
LEMMA OwnSettled ==
    ASSUME NEW t \in Tasks, Fits(t), OwnTask(t), t.op = "create", NEW l, NEW n, n <= Len(l), n \in Nat, Len(l) \in Nat,
           TrueEntries(l), Settled(t, t, l, n)
    PROVE  /\ Marked(l, list')
           /\ profile' \in {profile, "CONFIGURING"} /\ (t \in tasks => profile' = profile)
           /\ \E w \in Tasks : /\ tasks' = (tasks \ {t}) \cup {w} /\ OwnTask(w)
                               /\ w.step \in {"create", "default"}
  <1>1. OwnKey # Unread
    BY ConstantsAssumption, AccessPointsAssumption
  <1>2. t.in.key = OwnKey /\ t.in.dflt
    BY DEF OwnTask
  <1>3. PICK w \in Tasks :
            /\ tasks' = (tasks \ {t}) \cup {w}
            /\ profile' = IF t.told /\ t \notin tasks THEN "CONFIGURING" ELSE profile
            /\ w.op = t.op /\ w.in.key = t.in.key /\ (t.in.dflt => w.in.dflt)
            /\ \/ w.step = t.op
               \/ /\ w.step = "default"
                  /\ \E i \in 1..n : l[i].id = w.in.id /\ l[i].key = t.in.key
    BY <1>2 DEF Settled
  <1>4. w.step = "default" /\ w.in.id # 0 => stored[w.in.id] = OwnKey
    BY <1>1, <1>2, <1>3 DEF TrueEntries
  <1>5. OwnTask(w) /\ w.step \in {"create", "default"}
    BY <1>2, <1>3, <1>4 DEF OwnTask
  <1> QED
    BY <1>3, <1>5 DEF Settled

LEMMA OwnBegun ==
    ASSUME NEW t \in Tasks, Fits(t), OwnTask(t), NEW c, list \in Seq(Profiles), count \in 0..Len(list),
           TrueEntries(list), Begun(t, t, c)
    PROVE  /\ Marked(list, list')
           /\ profile' \in {profile, "CONFIGURING"} /\ (t \in tasks => profile' = profile)
           /\ \E w \in Tasks : tasks' = (tasks \ {t}) \cup {w} /\ OwnTask(w) /\ w.step # "entry"
  <1>1. CASE t.op = "create" /\ Settled(t, t, list, count)
    BY <1>1, OwnSettled
  <1>2. ASSUME NEW w, NEW step, Turned(t, t, step, w), UNCHANGED list,
               step \in {"client", "number", "delete", "list"}
        PROVE  /\ Marked(list, list')
               /\ profile' \in {profile, "CONFIGURING"} /\ (t \in tasks => profile' = profile)
               /\ \E v \in Tasks : tasks' = (tasks \ {t}) \cup {v} /\ OwnTask(v) /\ v.step # "entry"
    <2>1. OwnTask(w) /\ w \in Tasks /\ w.step # "entry" /\ tasks' = (tasks \ {t}) \cup {w}
      BY <1>2 DEF Turned, OwnTask
    <2>2. Marked(list, list')
      BY <1>2 DEF Marked
    <2> QED
      BY <1>2, <2>1, <2>2 DEF Turned
  <1>3. CASE \E w, step : /\ Turned(t, t, step, w) /\ UNCHANGED list
                          /\ step \in {"client", "number", "delete", "list"}
    BY <1>2, <1>3
  <1>4. t.op # "modify"
    BY DEF OwnTask
  <1> QED
    BY <1>1, <1>3, <1>4 DEF Begun

\* Task t is replaced by w, or has ended.
Replaces(t, w) == tasks' = (tasks \ {t}) \cup {w}

LEMMA PairKept ==
    ASSUME \A u, v, x \in tasks : u = v \/ v = x \/ u = x, NEW t \in tasks,
           tasks' = tasks \ {t} \/ \E w : Replaces(t, w)
    PROVE  \A u, v, x \in tasks' : u = v \/ v = x \/ u = x
  BY DEF Replaces

\* A task goes on that does not read, over a list that is still true.
LEMMA OwnMoves ==
    ASSUME OwnInv, ~edited, overlaps <= 1, NEW t \in tasks,
           UNCHANGED <<stored, modemDefault, overlaps>>, profile' = "READY" => profile = "READY",
           TrueEntries(list'), \A u \in tasks \ {t} : ReadsInto(u, list'),
           \/ tasks' = tasks \ {t}
           \/ \E w : /\ Replaces(t, w) /\ OwnTask(w) /\ w.step # "entry"
                     /\ w.step \in Early => t.step \in Early
    PROVE  OwnInv'
  <1>1. OwnPair
    BY DEF OwnInv
  <1>2. Held' = Held
    BY DEF Held
  <1>3. TrueEntries(list)' /\ OwnReady'
    BY <1>1 DEF OwnPair, OwnReady, TrueEntries
  <1>4. \A u \in tasks \ {t} : OwnTask(u)' /\ ReadsInto(u, list)'
    BY <1>1 DEF OwnPair, OwnTask, ReadsInto
  <1>5. \A u, v, x \in tasks' : u = v \/ v = x \/ u = x
    BY <1>1, PairKept DEF OwnPair
  <1>6. CASE tasks' = tasks \ {t}
    <2>1. OwnPair'
      BY <1>1, <1>2, <1>3, <1>4, <1>5, <1>6 DEF OwnPair, SameReading
    <2>2. OwnAlone => OwnAlone'
      BY <1>2, <1>6 DEF OwnAlone
    <2> QED
      BY <2>1, <2>2 DEF OwnInv
  <1>7. ASSUME NEW w, Replaces(t, w), OwnTask(w), w.step # "entry",
               w.step \in Early => t.step \in Early
        PROVE  OwnInv'
    <2>1. OwnTask(w)' /\ ReadsInto(w, list)'
      BY <1>7 DEF OwnTask, ReadsInto
    <2>2. SameReading'
      BY <1>1, <1>2, <1>7 DEF OwnPair, SameReading, Replaces
    <2>3. OwnPair'
      BY <1>3, <1>4, <1>5, <1>7, <2>1, <2>2 DEF OwnPair, Replaces
    <2>4. OwnAlone => OwnAlone'
      BY <1>7 DEF OwnAlone, Replaces
    <2> QED
      BY <2>3, <2>4 DEF OwnInv
  <1> QED
    BY <1>6, <1>7

\* A reading goes on, into a list that is true for all.
LEMMA OwnReads ==
    ASSUME OwnInv, ~edited, overlaps <= 1, NEW t \in tasks, t.step \in {"list", "entry"},
           UNCHANGED <<stored, modemDefault, overlaps, profile>>,
           NEW w, Replaces(t, w), w.step = "entry", OwnTask(w), ReadsInto(w, list'),
           t.step = "entry" => w.ids = t.ids,
           t.step = "list" => w.ids = Ascending(Held),
           TrueEntries(list'), \A u \in tasks \ {t} : ReadsInto(u, list')
    PROVE  OwnInv'
  <1>1. OwnPair /\ t.step \in Early
    BY DEF OwnInv, Early
  <1>2. Held' = Held
    BY DEF Held
  <1>3. TrueEntries(list)' /\ OwnReady'
    BY <1>1 DEF OwnPair, OwnReady, TrueEntries
  <1>4. \A u \in tasks \ {t} : OwnTask(u)' /\ ReadsInto(u, list)'
    BY <1>1 DEF OwnPair, OwnTask, ReadsInto
  <1>5. OwnTask(w)' /\ ReadsInto(w, list)'
    BY DEF OwnTask, ReadsInto
  <1>6. \A u, v, x \in tasks' : u = v \/ v = x \/ u = x
    BY <1>1, PairKept DEF OwnPair
  <1>7. Ascending(Held)' = Ascending(Held)
    BY <1>2 DEF Ascending
  <1>8. SameReading'
    <2>1. ASSUME NEW u \in tasks \ {t}, u.step = "entry" PROVE u.ids = Ascending(Held)
      BY <1>1, <2>1 DEF OwnPair, SameReading
    <2>2. ASSUME NEW u \in tasks \ {t}, u.step \in Early PROVE w.ids = Ascending(Held)
      BY <1>1, <2>2 DEF OwnPair, SameReading
    <2>3. ASSUME NEW u \in tasks', NEW v \in tasks', u # v, v.step = "entry", u.step \in Early
          PROVE  v.ids = Ascending(Held)
      BY <2>1, <2>2, <2>3 DEF Replaces
    <2> QED
      BY <1>7, <2>3 DEF SameReading
  <1>9. OwnPair'
    BY <1>3, <1>4, <1>5, <1>6, <1>8 DEF OwnPair, Replaces
  <1>10. OwnAlone => OwnAlone'
    BY <1>7 DEF OwnAlone, Replaces
  <1> QED
    BY <1>9, <1>10 DEF OwnInv

\* The contents of a profile come for the entry that asked for them.
LEMMA OwnPut ==
    ASSUME OwnPair, NEW t \in tasks, t.step = "entry", NEW l, EntryPut(t, l)
    PROVE  TrueEntries(l) /\ \A u \in tasks : ReadsInto(u, l)
  <1>1. ASSUME NEW u \in tasks, u.step = "entry" PROVE u.ids = t.ids
    BY <1>1 DEF OwnPair, SameReading, Early
  <1>2. ASSUME NEW u \in tasks PROVE ReadsInto(u, l)
    <2>1. SUFFICES ASSUME u.step = "entry" PROVE ReadsInto(u, l)
      BY DEF ReadsInto
    <2>2. u.ids = t.ids
      BY <1>1, <2>1
    <2>3. /\ u.pos \in 1..Len(u.ids)
          /\ \A i \in 1..Len(list) :
               /\ i \in 1..Len(u.ids) /\ list[i].id \in {0, u.ids[i]}
               /\ list[i].key # Unread => stored[u.ids[i]] = list[i].key
      BY <2>1 DEF OwnPair, ReadsInto
    <2>4. /\ Len(l) = Len(list)
          /\ \A i \in 1..Len(list) :
               l[i].id = list[i].id /\ l[i].key = IF i = t.pos THEN stored[u.ids[i]] ELSE list[i].key
      BY <2>2 DEF EntryPut
    <2> QED
      BY <2>3, <2>4 DEF ReadsInto
  <1>3. ReadsInto(t, l)
    BY <1>2
  <1>4. TrueEntries(l)
    BY <1>3 DEF ReadsInto, TrueEntries
  <1> QED
    BY <1>2, <1>4

LEMMA OwnListRead ==
    ASSUME TypeInv, OwnInv, ~edited, overlaps <= 1, NEW t \in tasks, ListRead(t), UNCHANGED overlaps
    PROVE  OwnInv'
  <1>1. t \in Tasks /\ t.step = "list" /\ OwnPair
    BY DEF TypeInv, TypeOK, ListRead, OwnInv
  <1>2. PICK w :
           /\ tasks' = (tasks \ {t}) \cup {w}
           /\ profile' = IF t.told /\ t \notin tasks THEN "CONFIGURING" ELSE profile
           /\ w \in Tasks /\ w.step = "entry" /\ w.op = t.op /\ w.told = t.told /\ w.in = t.in
           /\ w.ids = Ascending(Held) /\ w.pos = 1 /\ Len(w.ids) \in Nat \ {0}
           /\ Len(list') = Len(w.ids)
           /\ \A i \in 1..Len(list') :
                list'[i].key = Unread /\ list'[i].id = IF i = 1 THEN w.ids[1] ELSE 0
    BY <1>1, ListReadEffect
  <1>3. UNCHANGED <<stored, modemDefault>>
    BY DEF ListRead, modemVars
  <1>4. OwnTask(w)
    BY <1>1, <1>2 DEF OwnPair, OwnTask
  <1>5. TrueEntries(list')
    BY <1>2 DEF TrueEntries
  <1>6. ReadsInto(w, list')
    BY <1>2 DEF ReadsInto
  <1>7. ASSUME NEW u \in tasks \ {t} PROVE ReadsInto(u, list')
    <2>1. u.step = "entry" => u.ids = w.ids /\ u.pos \in 1..Len(u.ids)
      BY <1>1, <1>2, <1>7 DEF OwnPair, SameReading, ReadsInto, Early
    <2> QED
      BY <1>2, <2>1 DEF ReadsInto
  <1> QED
    BY <1>1, <1>2, <1>3, <1>4, <1>5, <1>6, <1>7, OwnReads DEF Replaces

LEMMA OwnEntryRead ==
    ASSUME TypeInv, OwnInv, ~edited, overlaps <= 1, NEW t \in tasks, EntryRead(t), UNCHANGED overlaps
    PROVE  OwnInv'
  <1>1. /\ t \in Tasks /\ Fits(t) /\ t.step = "entry" /\ OwnPair /\ OwnTask(t)
        /\ list \in Seq(Profiles) /\ stored \in [Ids -> Keys \cup {Free}] /\ count \in 0..Len(list)
    BY DEF TypeInv, TypeOK, EntryRead, OwnInv, OwnPair
  <1>2. UNCHANGED <<stored, modemDefault, count>>
    BY DEF EntryRead, modemVars
  <1>3. PICK l : EntryPut(t, l) /\ (EntryEnds(t, l) \/ EntryGoesOn(t, l))
    BY <1>1, EntryReadEffect
  <1>4. TrueEntries(l) /\ \A u \in tasks : ReadsInto(u, l)
    BY <1>1, <1>3, OwnPut
  <1>5. l \in Seq(Profiles) /\ Len(l) = Len(list) /\ Len(l) \in Nat
    BY <1>1, <1>3 DEF EntryPut
  <1>6. CASE EntryEnds(t, l)
    <2>1. count' \in 0..Len(l) /\ AfterList(t, l) /\ t.op # "modify"
      BY <1>1, <1>2, <1>5, <1>6 DEF EntryEnds, OwnTask
    <2>2. CASE list' = l /\ tasks' = tasks \ {t} /\ UNCHANGED profile
      BY <1>2, <1>4, <2>2, OwnMoves
    <2>3. CASE t.op = "create" /\ Settled(t, t, l, count')
      <3>1. count' \in Nat /\ count' <= Len(l)
        BY <1>5, <2>1
      <3>2. /\ Marked(l, list') /\ profile' = profile
            /\ \E w \in Tasks : /\ tasks' = (tasks \ {t}) \cup {w} /\ OwnTask(w)
                                /\ w.step \in {"create", "default"}
        BY <1>1, <1>4, <1>5, <2>3, <3>1, OwnSettled
      <3>3. TrueEntries(list') /\ \A u \in tasks : ReadsInto(u, list')
        BY <1>4, <3>2, MarkedOwn
      <3>4. PICK w : Replaces(t, w) /\ OwnTask(w) /\ w.step # "entry" /\ w.step \notin Early
        BY <3>2 DEF Replaces, Early
      <3> QED
        BY <1>2, <3>2, <3>3, <3>4, OwnMoves
    <2> QED
      BY <1>1, <1>5, <2>1, <2>2, <2>3, AfterListSettles
  <1>7. CASE EntryGoesOn(t, l)
    <2>1. PICK w :
             /\ tasks' = (tasks \ {t}) \cup {w}
             /\ profile' = IF t.told /\ t \notin tasks THEN "CONFIGURING" ELSE profile
             /\ w \in Tasks /\ w.step = "entry" /\ w.op = t.op /\ w.in = t.in
             /\ w.ids = t.ids /\ w.pos = t.pos + 1 /\ w.pos \in 1..Len(w.ids)
             /\ Len(list') = Len(list)
             /\ \A i \in 1..Len(list) :
                  /\ list'[i].key = l[i].key
                  /\ list'[i].id = IF i = w.pos THEN w.ids[i] ELSE list[i].id
      BY <1>7 DEF EntryGoesOn
    <2>2. OwnTask(w) /\ Replaces(t, w)
      BY <1>1, <2>1 DEF OwnTask, Replaces
    <2>3. ASSUME NEW u \in tasks \cup {w} PROVE ReadsInto(u, list')
      <3>1. SUFFICES ASSUME u.step = "entry" PROVE ReadsInto(u, list')
        BY DEF ReadsInto
      <3>2. u.ids = t.ids /\ u.pos \in 1..Len(u.ids)
        BY <1>1, <2>1, <2>3, <3>1 DEF OwnPair, SameReading, ReadsInto, Early
      <3>3. \A i \in 1..Len(list) :
               /\ i \in 1..Len(t.ids) /\ list[i].id \in {0, t.ids[i]}
               /\ l[i].key # Unread => stored[t.ids[i]] = l[i].key
        BY <1>1, <1>3, <1>4, <1>5 DEF ReadsInto, EntryPut
      <3> QED
        BY <2>1, <3>2, <3>3 DEF ReadsInto
    <2>4. TrueEntries(list')
      <3>1. ReadsInto(w, list')
        BY <2>3
      <3> QED
        BY <2>1, <3>1 DEF ReadsInto, TrueEntries
    <2> QED
      BY <1>1, <1>2, <2>1, <2>2, <2>3, <2>4, OwnReads
  <1> QED
    BY <1>3, <1>6, <1>7

\* The state machine's profile is put where there is none.
LEMMA OwnCreated ==
    ASSUME TypeInv, OwnInv, ~edited, overlaps <= 1, NEW t \in tasks, Created(t), UNCHANGED overlaps
    PROVE  OwnInv'
  <1>1. /\ t \in Tasks /\ Fits(t) /\ t.op = "create" /\ OwnPair
        /\ t.in.key = OwnKey /\ t.in.dflt
        /\ stored \in [Ids -> Keys \cup {Free}] /\ list \in Seq(Profiles) /\ modemDefault \in Ids
    BY DEF TypeInv, TypeOK, Created, OwnInv, OwnPair, OwnTask, Fits
  <1>2. PICK i \in Ids : i \notin Held /\ Stores(t, i)
    BY <1>1, CreatedEffect
  <1>3. /\ stored' = [stored EXCEPT ![i] = OwnKey] /\ stored[i] = Free
        /\ UNCHANGED <<modemDefault, list>>
    BY <1>1, <1>2 DEF Stores, Held
  <1>4. \A j \in Ids : stored[j] \in Keys => stored'[j] = stored[j]
    BY <1>1, <1>3, ConstantsAssumption
  <1>5. PICK w \in Tasks : /\ Replaces(t, w) /\ UNCHANGED profile
                           /\ w.step = "default" /\ w.op = t.op
                           /\ w.in.id = i /\ w.in.key = t.in.key /\ w.in.dflt
    BY <1>1, <1>2 DEF Stores, Replaces
  <1>6. stored'[i] = OwnKey /\ OwnKey \in Keys
    BY <1>1, <1>3, AccessPointsAssumption
  <1>7. OwnReady'
    BY <1>1, <1>3, <1>4, <1>5, <1>6 DEF OwnPair, OwnReady
  <1>8. \A j \in 1..Len(list) : list[j] \in Profiles
    BY <1>1
  <1>9. TrueEntries(list)'
    BY <1>1, <1>3, <1>4, <1>8 DEF OwnPair, TrueEntries, Profiles
  <1>10. \A u \in tasks : u \in Tasks
    BY DEF TypeInv, TypeOK
  <1>11. \A u \in tasks : ReadsInto(u, list)'
    <2>1. ASSUME NEW u \in tasks, u.step = "entry", NEW j \in 1..Len(list), list[j].key # Unread
          PROVE  stored'[u.ids[j]] = list[j].key
      <3>1. j \in 1..Len(u.ids) /\ stored[u.ids[j]] = list[j].key
        BY <1>1, <2>1 DEF OwnPair, ReadsInto
      <3>2. u.ids[j] \in Ids /\ list[j].key \in Keys
        BY <1>8, <1>10, <2>1, <3>1 DEF Tasks, Profiles
      <3> QED
        BY <1>4, <3>1, <3>2
    <2> QED
      BY <1>1, <1>3, <2>1 DEF OwnPair, ReadsInto
  <1>12. \A u \in tasks : OwnTask(u)'
    <2>1. ASSUME NEW u \in tasks, u.step = "default", u.in.id # 0 PROVE stored'[u.in.id] = OwnKey
      <3>1. u.in.id \in Ids /\ stored[u.in.id] = OwnKey
        BY <1>1, <1>10, <2>1 DEF OwnPair, OwnTask, Tasks, Profiles
      <3> QED
        BY <1>4, <1>6, <3>1
    <2> QED
      BY <1>1, <2>1 DEF OwnPair, OwnTask
  <1>13. OwnTask(w)' /\ ReadsInto(w, list)'
    BY <1>1, <1>5, <1>6 DEF OwnTask, ReadsInto
  <1>14. \A u, v, x \in tasks' : u = v \/ v = x \/ u = x
    BY <1>1, <1>5, PairKept DEF OwnPair
  <1>15. SameReading'
    <2>1. ASSUME NEW u \in tasks', NEW v \in tasks', u # v, v.step = "entry", u.step \in Early
          PROVE  FALSE
      <3>1. u # w /\ v # w /\ w # t /\ u \in tasks \ {t} /\ v \in tasks \ {t}
        BY <1>5, <2>1 DEF Replaces, Early, Created
      <3> QED
        BY <1>1, <2>1, <3>1 DEF OwnPair
    <2> QED
      BY <2>1 DEF SameReading
  <1>16. OwnPair'
    BY <1>5, <1>7, <1>9, <1>11, <1>12, <1>13, <1>14, <1>15 DEF OwnPair, Replaces
  <1>17. OwnAlone => OwnAlone'
    BY <1>5 DEF OwnAlone, Replaces
  <1> QED
    BY <1>16, <1>17 DEF OwnInv

LEMMA OwnDefaultSet ==
    ASSUME TypeInv, OwnInv, ~edited, overlaps <= 1, NEW t \in tasks, DefaultSet(t), UNCHANGED overlaps
    PROVE  OwnInv'
  <1>1. OwnPair /\ t.in.id \in Ids /\ t.in.id # 0 /\ t.step = "default"
    BY IdsNumbers DEF OwnInv, DefaultSet, Held
  <1>2. stored[t.in.id] = OwnKey
    BY <1>1 DEF OwnPair, OwnTask
  <1>3. /\ modemDefault' = t.in.id /\ tasks' = tasks \ {t}
        /\ UNCHANGED <<stored, list>>
    BY DEF DefaultSet, Notifies, listVars
  <1>4. Held' = Held
    BY <1>3 DEF Held
  <1>5. OwnPair'
    BY <1>1, <1>2, <1>3, <1>4
       DEF OwnPair, OwnTask, ReadsInto, SameReading, TrueEntries, OwnReady
  <1>6. OwnAlone => OwnAlone'
    BY <1>3, <1>4 DEF OwnAlone
  <1> QED
    BY <1>5, <1>6 DEF OwnInv

LEMMA OwnFailure ==
    ASSUME TypeInv, OwnInv, ~edited, overlaps <= 1, NEW t \in tasks, Failure(t), UNCHANGED overlaps
    PROVE  OwnInv'
  <1>1. /\ t \in Tasks /\ Fits(t) /\ OwnPair /\ OwnTask(t) /\ list \in Seq(Profiles) /\ Len(list) \in Nat
        /\ TrueEntries(list) /\ \A u \in tasks : ReadsInto(u, list)
    BY DEF TypeInv, TypeOK, OwnInv, OwnPair
  <1>2. UNCHANGED <<stored, modemDefault>>
    BY <1>1, FailureEffect
  <1>3. CASE tasks' = tasks \ {t} /\ UNCHANGED list /\ (profile' = profile \/ profile' = "NOT_READY")
    BY <1>1, <1>2, <1>3, OwnMoves
  <1>4. CASE t.op = "create" /\ Settled(t, t, list, 0)
    <2>1. /\ Marked(list, list') /\ profile' = profile
          /\ \E w \in Tasks : /\ tasks' = (tasks \ {t}) \cup {w} /\ OwnTask(w)
                              /\ w.step \in {"create", "default"}
      BY <1>1, <1>4, OwnSettled
    <2>2. TrueEntries(list') /\ \A u \in tasks : ReadsInto(u, list')
      BY <1>1, <2>1, MarkedOwn
    <2>3. PICK w : Replaces(t, w) /\ OwnTask(w) /\ w.step # "entry" /\ w.step \notin Early
      BY <2>1 DEF Replaces, Early
    <2> QED
      BY <1>2, <2>1, <2>2, <2>3, OwnMoves
  <1> QED
    BY <1>1, <1>3, <1>4, FailureEffect DEF Lost

LEMMA OwnTaskStep == ASSUME TypeInv, OwnInv, ~edited, overlaps <= 1, TaskStep PROVE OwnInv'
  <1>1. PICK t \in tasks :
           \/ ClientAllocated(t) \/ DefaultNumberRead(t) \/ DefaultSettingsRead(t)
           \/ Deleted(t) \/ ListRead(t) \/ EntryRead(t) \/ Created(t) \/ Modified(t)
           \/ DefaultSet(t) \/ Failure(t)
    BY DEF TaskStep
  <1>2. /\ t \in Tasks /\ Fits(t) /\ OwnPair /\ OwnTask(t)
        /\ list \in Seq(Profiles) /\ count \in 0..Len(list)
        /\ TrueEntries(list) /\ \A u \in tasks : ReadsInto(u, list)
    BY DEF TypeInv, TypeOK, OwnInv, OwnPair
  <1>3. UNCHANGED overlaps
    BY DEF TaskStep
  <1>4. ASSUME Begun(t, t, collected), UNCHANGED <<stored, modemDefault>>, t.step \in Early
        PROVE  OwnInv'
    <2>1. /\ Marked(list, list') /\ profile' = profile
          /\ \E w \in Tasks : tasks' = (tasks \ {t}) \cup {w} /\ OwnTask(w) /\ w.step # "entry"
      BY <1>2, <1>4, OwnBegun
    <2>2. TrueEntries(list') /\ \A u \in tasks : ReadsInto(u, list')
      BY <1>2, <2>1, MarkedOwn
    <2>3. PICK w : Replaces(t, w) /\ OwnTask(w) /\ w.step # "entry"
      BY <2>1 DEF Replaces
    <2> QED
      BY <1>3, <1>4, <2>1, <2>2, <2>3, OwnMoves
  <1>5. CASE ClientAllocated(t)
    BY <1>2, <1>4, <1>5, SettingsBegins DEF ClientAllocated, modemVars, Early
  <1>6. CASE DefaultNumberRead(t)
    <2>1. PICK w : Turned(t, t, "settings", w)
      BY <1>2, <1>6, WaitsTurns DEF DefaultNumberRead, Requests
    <2>2. Replaces(t, w) /\ OwnTask(w) /\ w.step # "entry" /\ UNCHANGED profile
      BY <1>2, <2>1 DEF Turned, OwnTask, Replaces
    <2>3. UNCHANGED <<stored, modemDefault, list>> /\ t.step \in Early
      BY <1>6 DEF DefaultNumberRead, modemVars, listVars, Early
    <2> QED
      BY <1>2, <1>3, <2>2, <2>3, OwnMoves
  <1>7. CASE DefaultSettingsRead(t)
    BY <1>2, <1>4, <1>7, ListBegins DEF DefaultSettingsRead, modemVars, Early
  <1>8. ~(Deleted(t) \/ Modified(t))
    BY <1>2 DEF Deleted, Modified, Fits, OwnTask
  <1> QED
    BY <1>1, <1>3, <1>5, <1>6, <1>7, <1>8, OwnListRead, OwnEntryRead, OwnCreated, OwnDefaultSet, OwnFailure

LEMMA OwnOperation ==
    ASSUME TypeInv, OwnInv, ~edited, overlaps' <= 1, NEW op \in Operations, NEW input \in Profiles,
           NEW told \in BOOLEAN, Operation(op, input, told), told => op = "create",
           \/ op = "list"
           \/ op = "create" /\ input.key = OwnKey /\ input.dflt
    PROVE  OwnInv'
  <1>1. /\ overlaps \in Nat /\ overlaps' = IF tasks = {} THEN overlaps ELSE overlaps + 1
        /\ UNCHANGED <<stored, modemDefault>>
        /\ list \in Seq(Profiles) /\ count \in 0..Len(list) /\ collected \in BOOLEAN /\ begun \in Nat
    BY DEF Operation, TypeInv, TypeOK, modemVars
  <1>2. overlaps <= 1 /\ OwnPair /\ (overlaps' = 0 => tasks = {})
    BY <1>1 DEF OwnInv
  <1>3. PICK t : Begins(op, input, told, t)
    BY <1>1, OperationBegins
  <1>4. t \in Tasks /\ Fits(t) /\ OwnTask(t)
    BY <1>3, AccessPointsAssumption DEF Begins, Fits, OwnTask
  <1>5. PICK c : Begun(t, t, c)
    BY <1>3 DEF Begins
  <1>6. TrueEntries(list) /\ \A u \in tasks : ReadsInto(u, list)
    BY <1>2 DEF OwnPair
  <1>7. /\ Marked(list, list') /\ profile' \in {profile, "CONFIGURING"}
        /\ \E w \in Tasks : tasks' = (tasks \ {t}) \cup {w} /\ OwnTask(w) /\ w.step # "entry"
    BY <1>1, <1>4, <1>5, <1>6, OwnBegun
  <1>8. TrueEntries(list') /\ \A u \in tasks : ReadsInto(u, list')
    BY <1>6, <1>7, MarkedOwn
  <1>9. PICK w : Replaces(t, w) /\ OwnTask(w) /\ w.step # "entry"
    BY <1>7 DEF Replaces
  <1>10. Held' = Held /\ Ascending(Held)' = Ascending(Held)
    BY <1>1 DEF Held, Ascending
  <1>11. tasks # {} => OwnAlone
    BY <1>1 DEF OwnInv
  <1>12. TrueEntries(list)' /\ OwnReady'
    BY <1>1, <1>2, <1>7, <1>8 DEF OwnPair, OwnReady, TrueEntries
  <1>13. \A u \in tasks' : OwnTask(u)' /\ ReadsInto(u, list)'
    BY <1>1, <1>2, <1>8, <1>9 DEF OwnPair, OwnTask, ReadsInto, Replaces
  <1>14. \A u, v, x \in tasks' : u = v \/ v = x \/ u = x
    BY <1>9, <1>11 DEF OwnAlone, Replaces
  <1>15. SameReading'
    <2>1. ASSUME NEW v \in tasks', v.step = "entry" PROVE v.ids = Ascending(Held)
      BY <1>9, <1>11, <2>1 DEF OwnAlone, Replaces
    <2> QED
      BY <1>10, <2>1 DEF SameReading
  <1>16. OwnPair'
    BY <1>12, <1>13, <1>14, <1>15 DEF OwnPair
  <1>17. overlaps' = 0 => OwnAlone'
    BY <1>2, <1>9 DEF OwnAlone, Replaces
  <1> QED
    BY <1>16, <1>17 DEF OwnInv

LEMMA OwnNext == ASSUME TypeInv, TypeInv', OwnInv, [Next]_vars PROVE OwnInv'
  <1>1. CASE edited' \/ ~(overlaps' <= 1)
    BY <1>1 DEF OwnInv, TypeInv
  <1> SUFFICES ASSUME ~edited', overlaps' <= 1 PROVE OwnInv'
    BY <1>1
  <1>2. ASSUME UNCHANGED <<stored, modemDefault, tasks, profile, overlaps>>, ~edited,
               list' = list \/ Len(list') = 0
        PROVE  OwnInv'
    <2>1. Held' = Held /\ Ascending(Held)' = Ascending(Held)
      BY <1>2 DEF Held, Ascending
    <2>2. TrueEntries(list) => TrueEntries(list)'
      BY <1>2 DEF TrueEntries
    <2>3. \A t \in tasks : OwnTask(t) /\ ReadsInto(t, list) => OwnTask(t)' /\ ReadsInto(t, list)'
      BY <1>2 DEF OwnTask, ReadsInto
    <2>4. OwnPair => OwnPair'
      BY <1>2, <2>1, <2>2, <2>3 DEF OwnPair, SameReading, OwnReady
    <2>5. OwnAlone => OwnAlone'
      BY <1>2, <2>1 DEF OwnAlone
    <2> QED
      BY <1>2, <2>4, <2>5 DEF OwnInv
  <1>3. ASSUME UNCHANGED <<halVars, boundVars>>, ~edited PROVE OwnInv'
    BY <1>2, <1>3 DEF halVars, boundVars, modemVars, listVars
  <1>4. CASE Registers
    <2>1. PICK input : input = [id |-> 0, key |-> OwnKey, dflt |-> TRUE]
      OBVIOUS
    <2>2. input \in Profiles /\ input.key = OwnKey /\ input.dflt
      BY <2>1, AccessPointsAssumption DEF Profiles
    <2>3. Operation("create", input, TRUE) /\ ~edited
      BY <1>4, <2>1 DEF Registers
    <2> QED
      BY <2>2, <2>3, OwnOperation DEF Operations
  <1>5. CASE Synchronize
    <2>1. PICK input : input = [id |-> 0, key |-> Unread, dflt |-> FALSE]
      OBVIOUS
    <2>2. input \in Profiles
      BY <2>1 DEF Profiles
    <2>3. Operation("list", input, FALSE) /\ ~edited
      BY <1>5, <2>1 DEF Synchronize
    <2> QED
      BY <2>2, <2>3, OwnOperation DEF Operations
  <1>6. CASE Synchronized
    <2>1. /\ UNCHANGED <<stored, modemDefault, tasks, profile, overlaps, edited>>
          /\ list' = list \/ list' = <<>>
      BY <1>6 DEF Synchronized, modemVars, boundVars
    <2>2. list' = <<>> => Len(list') = 0
      OBVIOUS
    <2> QED
      BY <1>2, <2>1, <2>2
  <1>7. CASE ListTimesOut \/ Expires \/ AddEntry
    BY <1>3, <1>7 DEF ListTimesOut, Expires, AddEntry
  <1>8. CASE AddEntry_rbus \/ \E i \in DOMAIN rows : DeleteEntry(i)
    BY <1>8 DEF AddEntry_rbus, DeleteEntry
  <1>9. ASSUME NEW i \in DOMAIN rows, NEW k \in Keys, NEW d \in BOOLEAN, SetRow(i, k, d)
        PROVE  OwnInv'
    <2>1. (UNCHANGED <<halVars, boundVars>> /\ edited' = edited) \/ edited' = TRUE
      BY <1>9 DEF SetRow
    <2> QED
      BY <1>3, <2>1
  <1>10. CASE TaskWorks
    <2>1. ~edited /\ overlaps <= 1 /\ TaskStep
      BY <1>10 DEF TaskWorks, TaskStep, tableVars
    <2> QED
      BY <2>1, OwnTaskStep
  <1>11. CASE UNCHANGED vars
    BY <1>3, <1>11 DEF vars, tableVars
  <1> QED
    BY <1>4, <1>5, <1>6, <1>7, <1>8, <1>9, <1>10, <1>11 DEF Next, Table

(* When the state machine is told that its profile is ready, the modem     *)
(* holds it and uses it by default, as long as users leave the profiles    *)
(* alone and no more than two tasks overlap.                               *)
THEOREM ReadyIsOwnCorrect == Spec => []ReadyIsOwn
  <1>1. TypeInv /\ OwnInv => ReadyIsOwn
    BY DEF OwnInv, OwnPair, OwnReady, ReadyIsOwn
  <1>2. Init => TypeInv /\ OwnInv
    BY TypeInit, OwnInit
  <1>3. TypeInv /\ OwnInv /\ [Next]_vars => (TypeInv /\ OwnInv)'
    <2>1. SUFFICES ASSUME TypeInv, OwnInv, [Next]_vars PROVE TypeInv' /\ OwnInv'
      OBVIOUS
    <2>2. TypeInv'
      BY <2>1, TypeNext
    <2> QED
      BY <2>1, <2>2, OwnNext
  <1> QED
    BY <1>1, <1>2, <1>3, PTL DEF Spec

-----------------------------------------------------------------------------
(* No profile twice                                                        *)

\* The n profiles of list l are all the modem has.
Complete(l, n) == \A h \in Held : \E i \in 1..n : l[i].id = h /\ l[i].key = stored[h]

\* A task reads the modem's profiles one by one, or has seen that the change
\* it asks for leaves no profile twice.
KindTask(t) ==
    /\ t.step = "entry" =>
         /\ t.ids = Ascending(Held) /\ Len(list) = Len(t.ids) /\ count = Len(t.ids)
         /\ t.pos \in 1..Len(t.ids) /\ list[t.pos].id = t.ids[t.pos]
         /\ \A i \in 1..t.pos - 1 : list[i].id = t.ids[i] /\ list[i].key = stored[t.ids[i]]
    /\ t.step = "create" => \A h \in Held : stored[h] # t.in.key
    /\ t.step = "modify" => \A h \in Held : stored[h] = t.in.key => h = t.in.id
    /\ t.step \in {"entry", "create", "default"} \/ t.op = "modify" => listed

\* The list is the modem's once it is read, and is there to be read.
KindHal ==
    /\ \A t, u \in tasks : t = u
    /\ Held # {} /\ modemDefault \in Held /\ (listed <=> count > 0)
    /\ listed => Complete(list, count) \/ \E t \in tasks : t.step = "entry"
    /\ \A t \in tasks : KindTask(t)

\* Rows the modem has a profile for come from a list, or from a creation that
\* is about to read one.
KindRows ==
    (\E i \in DOMAIN rows : ~rows[i].new) => listed \/ \E t \in tasks : t.op = "create"

KindInv ==
    overlaps = 0 /\ failures = 0 =>
        (changes <= 1 => Distinct) /\ (changes = 0 => KindHal /\ KindRows)

LEMMA KindInit == Init => KindInv
  <1> SUFFICES ASSUME Init PROVE KindInv
    OBVIOUS
  <1>1. tasks = {} /\ listed = FALSE /\ count = 0 /\ rows = <<>> /\ modemDefault \in Held
    BY DEF Init, ProfileInit
  <1>2. Distinct
    BY DEF Init, ProfileInit, Distinct, Held
  <1> QED
    BY <1>1, <1>2 DEF KindInv, KindHal, KindRows

-----------------------------------------------------------------------------
\* A task has looked through the whole list.
LEMMA KindSettles ==
    ASSUME NEW t \in Tasks, tasks = {} \/ tasks = {t}, t.op \in {"create", "modify"},
           NEW l, NEW n \in Nat, n <= Len(l), Len(l) \in Nat, Complete(l, n), Settled(t, t, l, n),
           UNCHANGED <<stored, modemDefault>>, Held # {}, modemDefault \in Held,
           listed', count' = n, n > 0
    PROVE  KindHal'
  <1>1. Held' = Held
    BY DEF Held
  <1>2. Complete(list, count)'
    BY <1>1 DEF Settled, Marked, Complete
  <1>3. CASE tasks' = tasks \ {t}
    BY <1>1, <1>2, <1>3 DEF KindHal
  <1>4. ASSUME NEW w, tasks' = (tasks \ {t}) \cup {w}, w.op = t.op,
               \/ w.step = t.op /\ w.in = t.in /\ Matches(t, l, n) = {}
               \/ w.step = "default"
        PROVE  KindHal'
    <2>1. tasks' = {w} /\ w.step \in {"create", "modify", "default"} /\ (w.step # "default" => w.step = t.op)
      BY <1>4
    <2>2. ASSUME w.step # "default", NEW h \in Held, stored[h] = w.in.key
          PROVE  w.step = "modify" /\ h = w.in.id
      <3>1. PICK i \in 1..n : l[i].id = h /\ l[i].key = t.in.key
        BY <1>4, <2>2 DEF Complete
      <3>2. i \notin Matches(t, l, n) /\ w.in = t.in /\ w.step = t.op
        BY <1>4, <2>2
      <3> QED
        BY <2>1, <2>2, <3>1, <3>2 DEF Matches
    <2>3. KindTask(w)'
      BY <1>1, <2>1, <2>2 DEF KindTask
    <2> QED
      BY <1>1, <1>2, <2>1, <2>3 DEF KindHal
  <1> QED
    BY <1>3, <1>4 DEF Settled

LEMMA KindBegins ==
    ASSUME NEW t \in Tasks, tasks = {} \/ tasks = {t}, t.step # "entry", NEW c, Begun(t, t, c),
           list \in Seq(Profiles), count \in 0..Len(list), listed \in BOOLEAN, t.op = "modify" => listed,
           UNCHANGED <<stored, modemDefault>>, KindHal
    PROVE  KindHal' /\ listed' = listed /\ (t.op = "create" => listed \/ \E w \in tasks' : w.op = "create")
  <1>1. listed' = listed /\ count' = count /\ Held' = Held
    BY DEF Begun, Held
  <1>2. listed => Complete(list, count)
    BY DEF KindHal
  <1>3. CASE t.op \in {"create", "modify"} /\ listed /\ Settled(t, t, list, count)
    <2>1. count \in Nat /\ count > 0 /\ count <= Len(list) /\ Len(list) \in Nat
      BY <1>3 DEF KindHal
    <2>2. KindHal'
      BY <1>1, <1>2, <1>3, <2>1, KindSettles DEF KindHal
    <2> QED
      BY <1>1, <1>3, <2>2
  <1>4. ASSUME NEW w, NEW step, Turned(t, t, step, w), UNCHANGED list,
               step \in {"client", "number", "delete", "list"}
        PROVE  KindHal' /\ (t.op = "create" => \E v \in tasks' : v.op = "create")
    <2>1. tasks' = {w} /\ w.op = t.op /\ w.step = step
      BY <1>4 DEF Turned
    <2>2. KindTask(w)'
      BY <1>1, <1>4, <2>1 DEF KindTask
    <2>3. Complete(list, count) => Complete(list, count)'
      BY <1>1, <1>4 DEF Complete
    <2> QED
      BY <1>1, <1>2, <2>1, <2>2, <2>3 DEF KindHal
  <1>5. CASE \E w, step : /\ Turned(t, t, step, w) /\ UNCHANGED list
                          /\ step \in {"client", "number", "delete", "list"}
    BY <1>1, <1>4, <1>5
  <1> QED
    BY <1>3, <1>5, <1>1 DEF Begun

\* What holds in every state where a task may work.
LEMMA KindState ==
    ASSUME TypeInv, KindHal, NEW t \in tasks
    PROVE  /\ t \in Tasks /\ Fits(t) /\ tasks = {t} /\ KindTask(t)
           /\ list \in Seq(Profiles) /\ count \in 0..Len(list) /\ listed \in BOOLEAN /\ collected \in BOOLEAN
           /\ stored \in [Ids -> Keys \cup {Free}] /\ Len(list) \in Nat
  BY DEF TypeInv, TypeOK, KindHal

LEMMA KindListRead ==
    ASSUME TypeInv, KindHal, NEW t \in tasks, ListRead(t)
    PROVE  KindHal' /\ listed'
  <1>1. t \in Tasks /\ tasks = {t}
    BY KindState
  <1>2. PICK w :
           /\ tasks' = (tasks \ {t}) \cup {w} /\ w.step = "entry"
           /\ w.ids = Ascending(Held) /\ w.pos = 1 /\ Len(w.ids) \in Nat \ {0}
           /\ listed' /\ count' = Len(w.ids) /\ Len(list') = Len(w.ids)
           /\ \A i \in 1..Len(list') : list'[i].id = IF i = 1 THEN w.ids[1] ELSE 0
    BY <1>1, ListReadEffect
  <1>3. UNCHANGED <<stored, modemDefault>> /\ Held' = Held /\ Ascending(Held)' = Ascending(Held)
    BY DEF ListRead, modemVars, Held, Ascending
  <1>4. tasks' = {w} /\ 1..w.pos - 1 = {} /\ w.pos \in 1..Len(w.ids) /\ list'[1].id = w.ids[1]
    BY <1>1, <1>2
  <1>5. KindTask(w)'
    BY <1>2, <1>3, <1>4 DEF KindTask
  <1> QED
    BY <1>2, <1>3, <1>4, <1>5 DEF KindHal

LEMMA KindEntryRead ==
    ASSUME TypeInv, KindHal, NEW t \in tasks, EntryRead(t)
    PROVE  KindHal' /\ listed'
  <1>1. /\ t \in Tasks /\ Fits(t) /\ tasks = {t} /\ list \in Seq(Profiles) /\ count \in 0..Len(list)
        /\ stored \in [Ids -> Keys \cup {Free}] /\ Len(list) \in Nat /\ t.step = "entry"
    BY KindState DEF EntryRead
  <1>2. /\ t.ids = Ascending(Held) /\ Len(list) = Len(t.ids) /\ count = Len(t.ids)
        /\ t.pos \in 1..Len(t.ids) /\ list[t.pos].id = t.ids[t.pos] /\ listed
        /\ \A i \in 1..t.pos - 1 : list[i].id = t.ids[i] /\ list[i].key = stored[t.ids[i]]
    BY <1>1, KindState DEF KindTask
  <1>3. UNCHANGED <<stored, modemDefault, listed, count>> /\ Held' = Held /\ Ascending(Held)' = Ascending(Held)
    BY DEF EntryRead, modemVars, Held, Ascending
  <1>4. PICK l : EntryPut(t, l) /\ (EntryEnds(t, l) \/ EntryGoesOn(t, l))
    BY <1>1, EntryReadEffect
  <1>5. /\ l \in Seq(Profiles) /\ Len(l) = Len(list)
        /\ \A i \in 1..t.pos : l[i].id = t.ids[i] /\ l[i].key = stored[t.ids[i]]
    BY <1>1, <1>2, <1>4 DEF EntryPut
  <1>6. CASE EntryEnds(t, l)
    <2>1. t.pos = Len(t.ids) /\ count' = Len(t.ids) /\ AfterList(t, l) /\ t.op # "modify"
      BY <1>1, <1>2, <1>3, <1>6 DEF EntryEnds, Fits
    <2>2. Held \in SUBSET Ids
      BY DEF Held
    <2>3. Complete(l, count)
      BY <1>2, <1>5, <2>1, <2>2, AscendingListing DEF Complete
    <2>4. count > 0 /\ count \in Nat /\ Held # {} /\ modemDefault \in Held
      BY <1>1, <1>2 DEF KindHal
    <2>5. CASE list' = l /\ tasks' = tasks \ {t}
      <3>1. Complete(list, count)'
        BY <1>3, <2>3, <2>5 DEF Complete
      <3>2. tasks' = {}
        BY <1>1, <2>5
      <3> QED
        BY <1>2, <1>3, <2>4, <3>1, <3>2 DEF KindHal
    <2>6. CASE t.op = "create" /\ Settled(t, t, l, count')
      <3>1. Settled(t, t, l, count) /\ count <= Len(l) /\ Len(l) \in Nat
        BY <1>1, <1>3, <1>5, <2>6
      <3>2. KindHal'
        BY <1>1, <1>2, <1>3, <2>3, <2>4, <2>6, <3>1, KindSettles
      <3> QED
        BY <1>2, <1>3, <3>2
    <2>7. count' \in 0..Len(l)
      BY <1>1, <1>3, <1>5
    <2> QED
      BY <1>1, <1>5, <2>1, <2>5, <2>6, <2>7, AfterListSettles
  <1>7. CASE EntryGoesOn(t, l)
    <2>1. PICK w :
             /\ tasks' = (tasks \ {t}) \cup {w} /\ w.step = "entry"
             /\ w.ids = t.ids /\ w.pos = t.pos + 1 /\ w.pos \in 1..Len(w.ids)
             /\ Len(list') = Len(list)
             /\ \A i \in 1..Len(list) :
                  /\ list'[i].key = l[i].key
                  /\ list'[i].id = IF i = w.pos THEN w.ids[i] ELSE list[i].id
      BY <1>7 DEF EntryGoesOn
    <2>2. tasks' = {w} /\ w.pos \in 1..Len(list) /\ list'[w.pos].id = w.ids[w.pos]
      BY <1>1, <1>2, <2>1
    <2>3. ASSUME NEW i \in 1..w.pos - 1
          PROVE  list'[i].id = w.ids[i] /\ list'[i].key = stored[w.ids[i]]
      <3>1. i \in 1..t.pos /\ i \in 1..Len(list) /\ i # w.pos
        BY <1>2, <2>1
      <3>2. list[i].id = t.ids[i]
        BY <1>2, <3>1
      <3> QED
        BY <1>5, <2>1, <3>1, <3>2
    <2>4. KindTask(w)'
      BY <1>2, <1>3, <2>1, <2>2, <2>3 DEF KindTask
    <2> QED
      BY <1>2, <1>3, <2>1, <2>2, <2>4 DEF KindHal
  <1> QED
    BY <1>4, <1>6, <1>7

\* The change asked for leaves no profile twice.
LEMMA KindChanges ==
    ASSUME TypeInv, KindHal, Distinct, NEW t \in tasks, Deleted(t) \/ Created(t) \/ Modified(t)
    PROVE  Distinct' /\ changes' = changes + 1
  <1>1. t \in Tasks /\ Fits(t) /\ KindTask(t) /\ stored \in [Ids -> Keys \cup {Free}]
    BY KindState
  <1>2. CASE Deleted(t)
    <2>1. stored' = [stored EXCEPT ![t.in.id] = Free] /\ changes' = changes + 1
      BY <1>2 DEF Deleted
    <2> QED
      BY <1>1, <2>1 DEF Distinct, Held
  <1>3. CASE Created(t)
    <2>1. t.op = "create" /\ \A h \in Held : stored[h] # t.in.key
      BY <1>1, <1>3 DEF Created, Fits, KindTask
    <2>2. PICK i \in Ids : Stores(t, i)
      BY <1>1, <1>3, <2>1, CreatedEffect
    <2>3. stored' = [stored EXCEPT ![i] = t.in.key] /\ changes' = changes + 1
      BY <2>2 DEF Stores
    <2> QED
      BY <1>1, <2>1, <2>3 DEF Distinct, Held
  <1>4. CASE Modified(t)
    <2>1. t.in.id \in Held /\ \A h \in Held : stored[h] = t.in.key => h = t.in.id
      BY <1>1, <1>4 DEF Modified, KindTask
    <2>2. stored' = [stored EXCEPT ![t.in.id] = t.in.key] /\ changes' = changes + 1
      BY <1>4 DEF Modified
    <2> QED
      BY <1>1, <2>1, <2>2 DEF Distinct, Held
  <1> QED
    BY <1>2, <1>3, <1>4

LEMMA KindDefaultSet ==
    ASSUME TypeInv, KindHal, NEW t \in tasks, DefaultSet(t)
    PROVE  KindHal' /\ listed'
  <1>1. tasks = {t} /\ KindTask(t) /\ t.step = "default" /\ t.in.id \in Held
    BY KindState DEF DefaultSet
  <1>2. /\ listed /\ tasks' = {} /\ modemDefault' = t.in.id /\ Held' = Held
        /\ UNCHANGED <<stored, listed, list, count>>
    BY <1>1 DEF DefaultSet, Notifies, listVars, Held, KindTask
  <1>3. Complete(list, count) => Complete(list, count)'
    BY <1>2 DEF Complete
  <1>4. Complete(list, count)
    BY <1>1, <1>2 DEF KindHal
  <1> QED
    BY <1>1, <1>2, <1>3, <1>4 DEF KindHal

\* What the modem cannot do does not take a list away.
LEMMA KindFailure ==
    ASSUME TypeInv, KindHal, NEW t \in tasks, Failure(t), Impossible(t)
    PROVE  KindHal' /\ listed' = listed /\ (t.op = "create" => listed)
  <1>1. /\ t \in Tasks /\ Fits(t) /\ tasks = {t} /\ KindTask(t) /\ list \in Seq(Profiles)
        /\ Held # {} /\ modemDefault \in Held
    BY KindState DEF KindHal
  <1>2. t.step \notin {"list", "entry", "settings", "client", "number"}
    <2>1. ASSUME t.step = "entry" PROVE t.ids[t.pos] \in Held
      <3>1. t.ids = Ascending(Held) /\ t.pos \in 1..Len(t.ids) /\ Held \in SUBSET Ids
        BY <1>1, <2>1 DEF KindTask, Held
      <3>2. /\ Ascending(Held) \in [1..Cardinality(Held) -> Held]
            /\ Len(Ascending(Held)) = Cardinality(Held)
        BY <3>1, AscendingListing
      <3> QED
        BY <3>1, <3>2
    <2> QED
      BY <1>1, <2>1 DEF Impossible
  <1>3. ~Lost(t)
    BY <1>2 DEF Lost
  <1>4. tasks' = {} /\ UNCHANGED <<stored, modemDefault, listed, list, count>> /\ Held' = Held
    BY <1>1, <1>3, FailureEffect DEF Held
  <1>5. Complete(list, count) => Complete(list, count)'
    BY <1>4 DEF Complete
  <1>6. listed => Complete(list, count)
    BY <1>1, <1>2 DEF KindHal
  <1>7. t.op = "create" => listed
    <2>1. t.op = "create" => t.step \in {"create", "default"}
      BY <1>1, <1>2 DEF Fits, Tasks, Requests
    <2> QED
      BY <1>1, <2>1 DEF KindTask
  <1>8. KindHal'
    BY <1>1, <1>4, <1>5, <1>6 DEF KindHal
  <1> QED
    BY <1>4, <1>7, <1>8

LEMMA KindTaskStep ==
    ASSUME TypeInv, KindInv, TaskStep, UNCHANGED rows
    PROVE  KindInv'
  <1>1. PICK t \in tasks :
           \/ /\ UNCHANGED failures
              /\ \/ ClientAllocated(t) \/ DefaultNumberRead(t) \/ DefaultSettingsRead(t)
                 \/ Deleted(t) \/ ListRead(t) \/ EntryRead(t) \/ Created(t) \/ Modified(t)
                 \/ DefaultSet(t)
           \/ Failure(t)
    BY DEF TaskStep
  <1>2. UNCHANGED overlaps /\ failures \in Nat /\ changes \in Nat
    BY DEF TaskStep, TypeInv
  <1> SUFFICES ASSUME overlaps' = 0, failures' = 0
               PROVE  (changes' <= 1 => Distinct') /\ (changes' = 0 => KindHal' /\ KindRows')
    BY DEF KindInv
  <1>3. failures = 0 /\ (Failure(t) => Impossible(t))
    BY <1>1, <1>2 DEF Failure
  <1>4. (changes <= 1 => Distinct) /\ (changes = 0 => KindHal /\ KindRows)
    BY <1>2, <1>3 DEF KindInv
  <1>5. CASE Deleted(t) \/ Created(t) \/ Modified(t)
    <2>1. changes' = changes + 1
      BY <1>5 DEF Deleted, Created, Modified
    <2>2. changes' <= 1 => changes = 0
      BY <1>2, <2>1
    <2> QED
      BY <1>2, <1>4, <1>5, <2>1, <2>2, KindChanges
  <1>6. ASSUME UNCHANGED <<stored, changes>>,
               KindHal => KindHal' /\ (listed => listed')
                          /\ (t.op = "create" => listed' \/ \E w \in tasks' : w.op = "create")
        PROVE  (changes' <= 1 => Distinct') /\ (changes' = 0 => KindHal' /\ KindRows')
    <2>1. Distinct => Distinct'
      BY <1>6 DEF Distinct, Held
    <2>2. KindHal /\ KindRows => KindRows'
      BY <1>6 DEF KindHal, KindRows
    <2> QED
      BY <1>4, <1>6, <2>1, <2>2
  <1>7. ASSUME KindHal, UNCHANGED <<stored, modemDefault>>, Begun(t, t, collected), t.step # "entry"
        PROVE  KindHal' /\ (listed => listed')
               /\ (t.op = "create" => listed' \/ \E w \in tasks' : w.op = "create")
    <2>1. /\ t \in Tasks /\ tasks = {t} /\ list \in Seq(Profiles) /\ count \in 0..Len(list) /\ listed \in BOOLEAN
          /\ (t.op = "modify" => listed)
      BY <1>7, KindState DEF KindTask
    <2> QED
      BY <1>7, <2>1, KindBegins
  <1>8. t \in Tasks /\ list \in Seq(Profiles) /\ count \in 0..Len(list)
    BY DEF TypeInv, TypeOK
  <1>9. CASE ClientAllocated(t)
    BY <1>6, <1>7, <1>8, <1>9, SettingsBegins DEF ClientAllocated, modemVars
  <1>10. CASE DefaultSettingsRead(t)
    BY <1>6, <1>7, <1>8, <1>10, ListBegins DEF DefaultSettingsRead, modemVars
  <1>11. CASE DefaultNumberRead(t)
    <2>1. PICK w : Turned(t, t, "settings", w)
      BY <1>8, <1>11, WaitsTurns DEF DefaultNumberRead, Requests
    <2>2. /\ UNCHANGED <<stored, modemDefault, listed, list, count, changes>> /\ t.step = "number"
          /\ Held' = Held
      BY <1>11 DEF DefaultNumberRead, modemVars, listVars, Held
    <2>3. ASSUME KindHal
          PROVE  KindHal' /\ (listed => listed')
                 /\ (t.op = "create" => listed' \/ \E w2 \in tasks' : w2.op = "create")
      <3>1. tasks' = {w} /\ tasks = {t} /\ w.step = "settings" /\ w.op = t.op /\ KindTask(t)
        BY <2>1, <2>3, KindState DEF Turned
      <3>2. KindTask(w)'
        BY <2>2, <3>1 DEF KindTask
      <3>3. Complete(list, count) => Complete(list, count)'
        BY <2>2 DEF Complete
      <3>4. KindHal'
        BY <2>2, <2>3, <3>1, <3>2, <3>3 DEF KindHal
      <3> QED
        BY <2>2, <3>1, <3>4
    <2> QED
      BY <1>6, <2>2, <2>3
  <1>12. CASE ListRead(t)
    BY <1>6, <1>12, KindListRead DEF ListRead, modemVars
  <1>13. CASE EntryRead(t)
    BY <1>6, <1>13, KindEntryRead DEF EntryRead, modemVars
  <1>14. CASE DefaultSet(t)
    BY <1>6, <1>14, KindDefaultSet DEF DefaultSet
  <1>15. CASE Failure(t)
    BY <1>3, <1>6, <1>15, KindFailure DEF Failure, modemVars
  <1> QED
    BY <1>1, <1>5, <1>9, <1>10, <1>11, <1>12, <1>13, <1>14, <1>15

\* A task is begun, on a row that is new or has a profile.
LEMMA KindOperation ==
    ASSUME TypeInv, KindInv, NEW op \in Operations, NEW input \in Profiles, NEW told \in BOOLEAN,
           Operation(op, input, told),
           op = "modify" => \E i \in DOMAIN rows : ~rows[i].new,
           \/ op = "create"
           \/ (\E i \in DOMAIN rows' : ~rows'[i].new) => \E i \in DOMAIN rows : ~rows[i].new
    PROVE  KindInv'
  <1> SUFFICES ASSUME overlaps' = 0, failures' = 0
               PROVE  (changes' <= 1 => Distinct') /\ (changes' = 0 => KindHal' /\ KindRows')
    BY DEF KindInv
  <1>1. /\ overlaps \in Nat /\ overlaps' = IF tasks = {} THEN overlaps ELSE overlaps + 1
        /\ UNCHANGED <<stored, modemDefault, failures, changes>>
        /\ list \in Seq(Profiles) /\ count \in 0..Len(list) /\ collected \in BOOLEAN /\ begun \in Nat
        /\ listed \in BOOLEAN
    BY DEF Operation, TypeInv, TypeOK, modemVars
  <1>2. tasks = {} /\ overlaps = 0 /\ failures = 0
    BY <1>1
  <1>3. (changes <= 1 => Distinct) /\ (changes = 0 => KindHal /\ KindRows)
    BY <1>2 DEF KindInv
  <1>4. Distinct => Distinct'
    BY <1>1 DEF Distinct, Held
  <1>5. PICK t : Begins(op, input, told, t)
    BY <1>1, OperationBegins
  <1>6. PICK c : Begun(t, t, c)
    BY <1>5 DEF Begins
  <1>7. t \in Tasks /\ t.op = op /\ t.step # "entry"
    BY <1>5 DEF Begins
  <1>8. KindRows => ((\E i \in DOMAIN rows : ~rows[i].new) => listed)
    BY <1>2 DEF KindRows
  <1>9. ASSUME KindHal, KindRows PROVE KindHal' /\ KindRows'
    <2>1. /\ KindHal' /\ listed' = listed
          /\ (t.op = "create" => listed \/ \E w \in tasks' : w.op = "create")
      BY <1>1, <1>2, <1>6, <1>7, <1>8, <1>9, KindBegins
    <2> QED
      BY <1>7, <1>8, <1>9, <2>1 DEF KindRows
  <1> QED
    BY <1>1, <1>3, <1>4, <1>9

\* The table changes and the modem does not.
LEMMA KindTable ==
    ASSUME KindInv, UNCHANGED <<stored, modemDefault, listed, count, tasks, overlaps, failures, changes>>,
           count > 0 => UNCHANGED list, KindHal /\ KindRows => KindRows'
    PROVE  KindInv'
  <1>1. Held' = Held /\ Ascending(Held)' = Ascending(Held)
    BY DEF Held, Ascending
  <1>2. Distinct => Distinct'
    BY <1>1 DEF Distinct
  <1>3. ASSUME KindHal PROVE KindHal'
    <2>1. CASE listed
      <3>1. list' = list
        BY <1>3, <2>1 DEF KindHal
      <3>2. Complete(list, count) => Complete(list, count)'
        BY <1>1, <3>1 DEF Complete
      <3>3. \A t \in tasks : KindTask(t) => KindTask(t)'
        BY <1>1, <3>1 DEF KindTask
      <3> QED
        BY <1>1, <1>3, <3>2, <3>3 DEF KindHal
    <2>2. CASE ~listed
      <3>1. \A t \in tasks : KindTask(t) => KindTask(t)'
        BY <1>1, <2>2 DEF KindTask
      <3> QED
        BY <1>1, <1>3, <2>2, <3>1 DEF KindHal
    <2> QED
      BY <2>1, <2>2
  <1> QED
    BY <1>2, <1>3 DEF KindInv

LEMMA KindSetRow ==
    ASSUME TypeInv, KindInv, NEW i \in DOMAIN rows, NEW k \in Keys, NEW d \in BOOLEAN, SetRow(i, k, d)
    PROVE  KindInv'
  <1>1. PICK row : row = [rows[i] EXCEPT !.key = k, !.dflt = d]
    OBVIOUS
  <1>2. rows \in Seq(Rows) /\ i \in 1..Len(rows) /\ rows[i] \in Rows
    BY DEF TypeInv, TypeOK
  <1>3. row \in Rows /\ row.new = rows[i].new
    BY <1>1, <1>2 DEF Rows
  <1>4. CASE rows' = [rows EXCEPT ![i] = row] /\ UNCHANGED <<halVars, boundVars, edited>>
    <2>1. KindRows => KindRows'
      BY <1>2, <1>3, <1>4 DEF KindRows, halVars, listVars
    <2> QED
      BY <1>4, <2>1, KindTable DEF halVars, boundVars, modemVars, listVars
  <1>5. CASE /\ rows' = [rows EXCEPT ![i] = [row EXCEPT !.new = FALSE]]
             /\ Operation(IF row.new THEN "create" ELSE "modify", ProfileOf(row), FALSE)
    <2>1. ProfileOf(row) \in Profiles
      BY <1>3, RowTyped
    <2>2. CASE row.new
      <3>1. Operation("create", ProfileOf(row), FALSE)
        BY <1>5, <2>2
      <3> QED
        BY <2>1, <3>1, KindOperation DEF Operations
    <2>3. CASE ~row.new
      <3>1. Operation("modify", ProfileOf(row), FALSE) /\ ~rows[i].new
        BY <1>3, <1>5, <2>3
      <3> QED
        BY <2>1, <3>1, KindOperation DEF Operations
    <2> QED
      BY <2>2, <2>3
  <1> QED
    BY <1>1, <1>4, <1>5 DEF SetRow

LEMMA KindNext == ASSUME TypeInv, KindInv, [Next]_vars PROVE KindInv'
  <1>1. CASE Registers
    <2>1. PICK input : input = [id |-> 0, key |-> OwnKey, dflt |-> TRUE]
      OBVIOUS
    <2>2. input \in Profiles /\ Operation("create", input, TRUE)
      BY <1>1, <2>1, AccessPointsAssumption DEF Profiles, Registers
    <2> QED
      BY <2>2, KindOperation DEF Operations
  <1>2. CASE Synchronize
    <2>1. PICK input : input = [id |-> 0, key |-> Unread, dflt |-> FALSE]
      OBVIOUS
    <2>2. input \in Profiles /\ Operation("list", input, FALSE) /\ rows' = rows
      BY <1>2, <2>1 DEF Profiles, Synchronize
    <2> QED
      BY <2>2, KindOperation DEF Operations
  <1>3. CASE Synchronized
    <2>1. /\ rows' = [i \in 1..count |-> RowOf(list[i])] /\ listed' = (listed /\ count > 0)
          /\ list' = IF count > 0 THEN list ELSE <<>>
          /\ UNCHANGED <<stored, modemDefault, count, tasks, overlaps, failures, changes>>
      BY <1>3 DEF Synchronized, modemVars, boundVars
    <2>2. DOMAIN rows' = 1..count /\ count \in Nat /\ listed \in BOOLEAN
      BY <2>1 DEF TypeInv, TypeOK
    <2>3. CASE KindHal
      <3>1. listed' = listed /\ ((\E i \in DOMAIN rows' : TRUE) => listed)
        BY <2>1, <2>2, <2>3 DEF KindHal
      <3>2. KindRows'
        BY <3>1 DEF KindRows
      <3> QED
        BY <2>1, <3>1, <3>2, KindTable
    <2>4. CASE ~KindHal
      <3>1. Distinct => Distinct'
        BY <2>1 DEF Distinct, Held
      <3> QED
        BY <2>1, <2>4, <3>1 DEF KindInv
    <2> QED
      BY <2>3, <2>4
  <1>4. ASSUME UNCHANGED <<halVars, boundVars>>, KindRows => KindRows' PROVE KindInv'
    BY <1>4, KindTable DEF halVars, boundVars, modemVars, listVars
  <1>5. CASE ListTimesOut
    <2>1. DOMAIN rows' = {}
      BY <1>5 DEF ListTimesOut
    <2>2. KindRows'
      BY <2>1 DEF KindRows
    <2> QED
      BY <1>4, <1>5, <2>2 DEF ListTimesOut
  <1>6. CASE UNCHANGED <<halVars, boundVars, rows>>
    BY <1>4, <1>6 DEF KindRows, halVars, listVars
  <1>7. CASE Expires
    BY <1>6, <1>7 DEF Expires
  <1>8. CASE AddEntry
    <2>1. PICK row : rows' = Append(rows, row) /\ row.new
      BY <1>8 DEF AddEntry
    <2>2. rows \in Seq(Rows) /\ Len(rows) \in Nat
      BY DEF TypeInv, TypeOK
    <2>3. /\ DOMAIN rows' = 1..Len(rows) + 1 /\ rows'[Len(rows) + 1] = row
          /\ \A i \in 1..Len(rows) : rows'[i] = rows[i] /\ i \in DOMAIN rows
      BY <2>1, <2>2
    <2>4. \A i \in DOMAIN rows' : ~rows'[i].new => i \in DOMAIN rows /\ ~rows[i].new
      BY <2>1, <2>2, <2>3
    <2>5. UNCHANGED <<listed, tasks>>
      BY <1>8 DEF AddEntry, halVars, listVars
    <2> QED
      BY <1>4, <1>8, <2>4, <2>5 DEF AddEntry, KindRows
  <1>9. CASE AddEntry_rbus
    <2>1. PICK k, row :
             /\ k \in Keys
             /\ row = [id |-> 0, key |-> k, dflt |-> FALSE, new |-> FALSE]
             /\ Operation("create", ProfileOf(row), FALSE)
      BY <1>9 DEF AddEntry_rbus
    <2>2. ProfileOf(row) \in Profiles
      BY <2>1 DEF ProfileOf, Profiles
    <2> QED
      BY <2>1, <2>2, KindOperation DEF Operations
  <1>10. ASSUME NEW i \in DOMAIN rows, DeleteEntry(i) PROVE KindInv'
    <2>1. rows[i] \in Rows
      BY <1>10 DEF TypeInv, TypeOK
    <2>2. ProfileOf(rows[i]) \in Profiles /\ Operation("delete", ProfileOf(rows[i]), FALSE) /\ rows' = rows
      BY <1>10, <2>1, RowTyped DEF DeleteEntry
    <2> QED
      BY <2>2, KindOperation DEF Operations
  <1>11. CASE TaskWorks
    BY <1>11, KindTaskStep DEF TaskWorks, tableVars
  <1>12. CASE UNCHANGED vars
    BY <1>6, <1>12 DEF vars, tableVars
  <1> QED
    BY <1>1, <1>2, <1>3, <1>5, <1>7, <1>8, <1>9, <1>10, <1>11, <1>12, KindSetRow DEF Next, Table

(* A single creation or modification, whose reading of the list does not   *)
(* fail, leaves no two profiles with the same contents in the modem.       *)
THEOREM OneOfAKindCorrect == Spec => []OneOfAKind
  <1>1. TypeInv /\ KindInv => OneOfAKind
    BY DEF KindInv, OneOfAKind
  <1>2. Init => TypeInv /\ KindInv
    BY TypeInit, KindInit
  <1>3. TypeInv /\ KindInv /\ [Next]_vars => (TypeInv /\ KindInv)'
    BY TypeNext, KindNext
  <1> QED
    BY <1>1, <1>2, <1>3, PTL DEF Spec
=============================================================================
