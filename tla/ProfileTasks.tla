---------------------------- MODULE ProfileTasks ----------------------------
(***************************************************************************)
(* The profile operations of the QMI HAL (cellular_hal_qmi_apis.c): tasks  *)
(* that create, delete, modify or list the data profiles of an open modem. *)
(* Each walks through the cases of cellular_hal_qmi_profile_operation_step *)
(* and stops at a request; all share one cached list, one cached default   *)
(* and one flag that says a list has been read.  The modem answers the     *)
(* requests in the order their answers are handled, so both are one step.  *)
(***************************************************************************)
EXTENDS Naturals, Sequences, FiniteSets

CONSTANTS
    Keys,        \* contents of a profile: APN, user, password, PDP type ...
    MaxProfiles, \* profiles the modem has room for
    MaxTasks,    \* bound: tasks begun
    MaxOverlaps, \* bound: tasks begun while another is outstanding
    MaxFailures  \* bound: requests that fail although the modem could serve them

Ids == 1..MaxProfiles
Free == "free"      \* the modem has no such profile
Unread == "unread"  \* memory of a list entry whose settings have not come

ASSUME ConstantsAssumption ==
    /\ Keys # {} /\ Free \notin Keys /\ Unread \notin Keys
    /\ MaxProfiles \in Nat \ {0}
    /\ MaxTasks \in Nat /\ MaxOverlaps \in Nat /\ MaxFailures \in Nat

VARIABLES
    stored,       \* the modem's profiles
    modemDefault, \* the default profile in the modem
    wds,          \* bIsValidwdsClient
    cached,       \* bIsDefaultProfileFromModemCached
    cachedId,     \* stDefaultProfileFromModem.ProfileID
    listed,       \* pstProfileList is not NULL
    list,         \* pstProfileList
    count,        \* ui8ProfileCount
    collected,    \* bIsProfileListCollectionDone
    tasks,        \* tasks outstanding
    profile       \* enDeviceProfileSelectionStatus of the state machine

VARIABLES
    begun,    \* bound: tasks begun
    overlaps, \* history: tasks begun while another was outstanding
    failures, \* history: requests that failed
    changes   \* history: requests that changed the modem's profiles

modemVars == <<stored, modemDefault>>
listVars  == <<listed, list, count, collected>>
cacheVars == <<cached, cachedId>>
halVars   == <<modemVars, wds, cacheVars, listVars, tasks, profile>>

Operations == {"create", "delete", "modify", "list"}
Requests == {"client", "number", "settings", "delete", "list", "entry", "create", "modify", "default"}
Profiles == [id : {0} \cup Ids, key : Keys \cup {Unread}, dflt : BOOLEAN]

\* ContextProfileOperation.  `told': the task has the state machine's callback;
\* `ids', `pos': the reading of a list it has under way (ContextProfileList).
Tasks == [nr : 1..MaxTasks, op : Operations, step : Requests, in : Profiles,
          present : BOOLEAN, told : BOOLEAN, ids : Seq(Ids), pos : Nat]

Held == {i \in Ids : stored[i] # Free}

-----------------------------------------------------------------------------
(* cellular_hal_qmi_profile_operation_step.  Each operator is the switch    *)
(* from one of its cases on; u is what task t has become.                   *)

\* A request is made, and the task waits for its answer.  The state machine
\* has marked its profile before it begins a task (TransitionRegistered).
Waits(t, u, step) ==
    /\ tasks' = (tasks \ {t}) \cup {[u EXCEPT !.step = step]}
    /\ profile' = IF u.told /\ t \notin tasks THEN "CONFIGURING" ELSE profile

\* The END cases: nothing is called back.
Ends(t) == tasks' = tasks \ {t} /\ UNCHANGED profile

\* CellularMgrProfileStatusCBForSM
ProfileStatusCB(u, status) == profile' = IF u.told THEN status ELSE profile

\* The NOTIFY cases.
Notifies(t, u) ==
    /\ tasks' = tasks \ {t}
    /\ ProfileStatusCB(u, IF u.op = "delete" THEN "DELETED" ELSE "READY")

\* The SET_DEFAULT_PROFILE cases.
FromDefault(t, u) ==
    IF u.in.dflt /\ u.op \in {"create", "modify"} /\ (u.op = "modify" => ~u.present)
    THEN Waits(t, u, "default")
    ELSE Notifies(t, u)

\* The CREATE and MODIFY cases: what is there already is not asked for.
FromRequest(t, u) ==
    IF u.present THEN FromDefault(t, u) ELSE Waits(t, u, u.op)

\* Mutant: the profile that is there already is not looked for.
Matches_Never(u, l, n) == {}

\* The entries of a list with the contents of the input.
Matches(u, l, n) ==
    {i \in 1..n : /\ l[i].key = u.in.key
                  /\ u.op = "modify" => l[i].id # u.in.id}

\* The VERIFY_PROFILE_PRESENT cases, with list l of n profiles in hand: the
\* first match takes the place of the input.
FromVerify(t, u, l, n) ==
    LET found == IF listed' THEN Matches(u, l, n) ELSE {}
        first == CHOOSE i \in found : \A j \in found : i <= j
        entry == [l[first] EXCEPT !.dflt = @ \/ u.in.dflt]
    IN  \/ found = {} /\ list' = l /\ FromRequest(t, [u EXCEPT !.present = FALSE])
        \/ /\ found # {} /\ list' = [l EXCEPT ![first] = entry]
           /\ FromRequest(t, [u EXCEPT !.present = TRUE, !.in = entry])

\* What follows when a list has been read, or could not be: count' and
\* collected' are set, l is what pstProfileList holds.
AfterList(t, l) ==
    CASE t.op = "list"   -> list' = l /\ Ends(t)
      [] t.op = "delete" -> list' = l /\ Notifies(t, t)
      [] t.op = "create" -> FromVerify(t, t, l, count')

\* The list cases.  A list that is asked for takes down the flag of all.
FromList(t, u, c) ==
    \/ /\ u.op \in {"list", "delete"} \/ (u.op = "create" /\ ~listed)
       /\ Waits(t, u, "list") /\ collected' = FALSE
       /\ UNCHANGED <<listed, list, count>>
    \/ /\ u.op = "modify" \/ (u.op = "create" /\ listed)
       /\ collected' = c /\ UNCHANGED <<listed, count>>
       /\ FromVerify(t, u, list, count)

\* A request that does not touch the list, whose flag is set to c.
Asks(t, u, step, c) ==
    Waits(t, u, step) /\ collected' = c /\ UNCHANGED <<listed, list, count>>

\* READ_DEFAULT_SETTINGS and DELETE
FromSettings(t, u, c) ==
    CASE u.op \in {"create", "list"} /\ ~cached' -> Asks(t, u, "number", c)
      [] u.op = "delete" -> Asks(t, u, "delete", c)
      [] OTHER -> FromList(t, u, c)

\* ALLOCATE_WDS_CLIENT
FromClient(t, u, c) == IF wds' THEN FromSettings(t, u, c) ELSE Asks(t, u, "client", c)

-----------------------------------------------------------------------------
(* The answers *)

\* cellular_hal_qmi_client_wds
ClientAllocated(t) ==
    /\ t.step = "client" /\ wds' = TRUE
    /\ UNCHANGED <<modemVars, cacheVars, changes>>
    /\ FromSettings(t, t, collected)

\* cellular_hal_qmi_client_wds_default_profile_num
DefaultNumberRead(t) ==
    /\ t.step = "number" /\ cached' = FALSE /\ cachedId' = modemDefault
    /\ UNCHANGED <<modemVars, wds, listVars, changes>>
    /\ Waits(t, t, "settings")

\* cellular_hal_qmi_client_wds_get_profile_settings
DefaultSettingsRead(t) ==
    /\ t.step = "settings" /\ modemDefault \in Held /\ cached' = TRUE
    /\ UNCHANGED <<modemVars, wds, cachedId, changes>>
    /\ FromList(t, t, collected)

\* cellular_hal_qmi_wds_delete_profile
Deleted(t) ==
    /\ t.step = "delete" /\ t.in.id \in Held
    /\ stored' = [stored EXCEPT ![t.in.id] = Free] /\ changes' = changes + 1
    /\ UNCHANGED <<modemDefault, wds, cacheVars>>
    /\ FromList(t, t, collected)

\* The identifier and the default mark of an entry are set when its settings
\* are asked for (cellular_hal_qmi_get_next_profile_settings).
Named(l, pos, id) ==
    IF pos \in 1..Len(l) THEN [l EXCEPT ![pos].id = id, ![pos].dflt = (id = cachedId)] ELSE l

Blank == [id |-> 0, key |-> Unread, dflt |-> FALSE]
Ascending(S) ==
    CHOOSE s \in [1..Cardinality(S) -> S] : \A i, j \in DOMAIN s : i < j => s[i] < s[j]

\* Mutant: the flag is set when the list has come, not when it has been read.
ListRead_Early(t) ==
    /\ t.step = "list"
    /\ LET ids == Ascending(Held)
           l == Named([i \in DOMAIN ids |-> Blank], 1, ids[1])
       IN  /\ Held # {} /\ listed' = TRUE /\ count' = Len(ids) /\ list' = l
           /\ Waits(t, [t EXCEPT !.ids = ids, !.pos = 1], "entry")
           /\ collected' = TRUE
    /\ UNCHANGED <<modemVars, wds, cacheVars, changes>>

\* cellular_hal_qmi_get_profile_list_cb: the list is allocated anew for all.
ListRead(t) ==
    /\ t.step = "list"
    /\ LET ids == Ascending(Held)
           l == Named([i \in DOMAIN ids |-> Blank], 1, ids[1])
       IN  /\ Held # {} /\ listed' = TRUE /\ count' = Len(ids) /\ list' = l
           /\ Waits(t, [t EXCEPT !.ids = ids, !.pos = 1], "entry")
           /\ UNCHANGED collected
    /\ UNCHANGED <<modemVars, wds, cacheVars, changes>>

\* A list that failed or is empty, or an entry that failed: no profile counts
\* any more, and the memory of the list stays.
ListLost(t) ==
    /\ t.step \in {"list", "entry"}
    /\ count' = 0 /\ collected' = TRUE /\ UNCHANGED listed
    /\ AfterList(t, list)

\* cellular_hal_qmi_get_profile_settings, cellular_hal_qmi_get_next_profile_settings
EntryRead(t) ==
    /\ t.step = "entry" /\ t.ids[t.pos] \in Held
    /\ UNCHANGED <<modemVars, wds, cacheVars, listed, count, changes>>
    /\ LET l == IF t.pos \in 1..Len(list)
                THEN [list EXCEPT ![t.pos].key = stored[t.ids[t.pos]]] ELSE list
       IN  IF t.pos < Len(t.ids)
           THEN /\ list' = Named(l, t.pos + 1, t.ids[t.pos + 1])
                /\ UNCHANGED collected /\ Waits(t, [t EXCEPT !.pos = @ + 1], "entry")
           ELSE collected' = TRUE /\ AfterList(t, l)

\* cellular_hal_qmi_wds_create_profile
Created(t) ==
    /\ t.step = "create" /\ Held # Ids
    /\ LET i == CHOOSE i \in Ids \ Held : \A j \in Ids \ Held : i <= j
       IN  /\ stored' = [stored EXCEPT ![i] = t.in.key]
           /\ FromDefault(t, [t EXCEPT !.in.id = i])
    /\ changes' = changes + 1
    /\ UNCHANGED <<modemDefault, wds, cacheVars, listVars>>

\* cellular_hal_qmi_modify_profile
Modified(t) ==
    /\ t.step = "modify" /\ t.in.id \in Held
    /\ stored' = [stored EXCEPT ![t.in.id] = t.in.key] /\ changes' = changes + 1
    /\ UNCHANGED <<modemDefault, wds, cacheVars, listVars>>
    /\ FromDefault(t, t)

\* Mutant: the HAL keeps the default it had read.
DefaultSet_NotCopied(t) ==
    /\ t.step = "default" /\ t.in.id \in Held
    /\ modemDefault' = t.in.id /\ UNCHANGED cachedId
    /\ UNCHANGED <<stored, wds, cached, listVars, changes>>
    /\ Notifies(t, t)

\* cellular_hal_qmi_client_wds_set_default_profile_number
DefaultSet(t) ==
    /\ t.step = "default" /\ t.in.id \in Held
    /\ modemDefault' = t.in.id /\ cachedId' = t.in.id
    /\ UNCHANGED <<stored, wds, cached, listVars, changes>>
    /\ Notifies(t, t)

\* What the modem cannot do.
Impossible(t) ==
    \/ t.step = "list" /\ Held = {}
    \/ t.step = "entry" /\ t.ids[t.pos] \notin Held
    \/ t.step = "create" /\ Held = Ids
    \/ t.step \in {"delete", "modify", "default"} /\ t.in.id \notin Held
    \/ t.step = "settings" /\ modemDefault \notin Held

\* Mutant: a default that could not be set is passed over.
Fails_GoesOn(t) ==
    \/ /\ t.step \in {"client", "settings", "delete", "modify"}
       /\ UNCHANGED <<cacheVars, listVars>> /\ Ends(t)
    \/ t.step = "default" /\ UNCHANGED <<cacheVars, listVars>> /\ Notifies(t, t)
    \/ /\ t.step = "number" /\ cached' = FALSE /\ cachedId' = 0
       /\ UNCHANGED listVars /\ Ends(t)
    \/ ListLost(t) /\ UNCHANGED cacheVars
    \/ /\ t.step = "create" /\ UNCHANGED <<cacheVars, listVars>>
       /\ tasks' = tasks \ {t} /\ ProfileStatusCB(t, "NOT_READY")

\* The failures of each step.  Only a failed creation is called back.
Fails(t) ==
    \/ /\ t.step \in {"client", "settings", "delete", "modify", "default"}
       /\ UNCHANGED <<cacheVars, listVars>> /\ Ends(t)
    \/ /\ t.step = "number" /\ cached' = FALSE /\ cachedId' = 0
       /\ UNCHANGED listVars /\ Ends(t)
    \/ ListLost(t) /\ UNCHANGED cacheVars
    \/ /\ t.step = "create" /\ UNCHANGED <<cacheVars, listVars>>
       /\ tasks' = tasks \ {t} /\ ProfileStatusCB(t, "NOT_READY")

\* A failure the modem is not the cause of counts against the bound.
Failure(t) ==
    /\ failures' = IF Impossible(t) THEN failures ELSE failures + 1
    /\ Impossible(t) \/ failures < MaxFailures
    /\ UNCHANGED <<modemVars, wds, changes>> /\ Fails(t)

\* A step of a task, in the GLib thread.
TaskStep ==
    /\ UNCHANGED <<begun, overlaps>>
    /\ \E t \in tasks :
         \/ /\ UNCHANGED failures
            /\ \/ ClientAllocated(t) \/ DefaultNumberRead(t) \/ DefaultSettingsRead(t)
               \/ Deleted(t) \/ ListRead(t) \/ EntryRead(t) \/ Created(t) \/ Modified(t)
               \/ DefaultSet(t)
         \/ Failure(t)

-----------------------------------------------------------------------------
(* cellular_hal_qmi_profile_operation, on an open device: the first steps   *)
(* are made in the thread of the caller.                                    *)

NewTask(op, input, told) ==
    [nr |-> begun + 1, op |-> op, step |-> "client", in |-> input, present |-> FALSE,
     told |-> told, ids |-> <<>>, pos |-> 0]

Operation(op, input, told) ==
    /\ begun < MaxTasks /\ begun' = begun + 1
    /\ tasks # {} => overlaps < MaxOverlaps
    /\ overlaps' = IF tasks = {} THEN overlaps ELSE overlaps + 1
    /\ UNCHANGED <<modemVars, wds, cacheVars, failures, changes>>
    /\ LET t == NewTask(op, input, told)
       IN  FromClient(t, t, collected /\ op # "list")

ProfileInit ==
    /\ stored \in [Ids -> Keys \cup {Free}]
    /\ \A i, j \in Ids : stored[i] = stored[j] /\ stored[i] # Free => i = j
    /\ Held # {} /\ modemDefault \in Held
    /\ wds \in BOOLEAN /\ cached = FALSE /\ cachedId = 0
    /\ listed = FALSE /\ list = <<>> /\ count = 0 /\ collected = FALSE
    /\ tasks = {} /\ profile = "NOT_READY"
    /\ begun = 0 /\ overlaps = 0 /\ failures = 0 /\ changes = 0
=============================================================================
