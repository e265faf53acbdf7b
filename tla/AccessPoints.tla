---------------------------- MODULE AccessPoints ----------------------------
(***************************************************************************)
(* Device.Cellular.AccessPoint over the profile operations of the HAL: a   *)
(* table of rows that is read from the modem when it is first used or 120  *)
(* seconds old, edited by users through CCSP or RBUS, and written back one *)
(* row at a time.  The policy state machine creates its own profile at     *)
(* every registration.                                                     *)
(***************************************************************************)
EXTENDS ProfileTasks

CONSTANTS
    OwnKey, \* the profile of the state machine
    Buses   \* the builds looked at: CCSP, RBUS

ASSUME AccessPointsAssumption ==
    OwnKey \in Keys /\ Buses \subseteq {"CCSP", "RBUS"} /\ Buses # {}

VARIABLES
    bus,      \* the build
    rows,     \* pstAPInfo
    fresh,    \* the table is younger than CELLULAR_ACCESSPOINT_LIST_REFRESH_THRESHOLD
    waiting,  \* a synchronisation waits for bIsProfileListCollectionDone
    edited,   \* history: the user has written or deleted a row
    whole     \* history: no other task was outstanding during the last reading

tableVars == <<bus, rows, fresh, waiting, edited, whole>>
boundVars == <<begun, overlaps, failures, changes>>
vars == <<halVars, boundVars, tableVars>>

Rows == [id : {0} \cup Ids, key : Keys \cup {Unread}, dflt : BOOLEAN, new : BOOLEAN]

TypeOK ==
    /\ stored \in [Ids -> Keys \cup {Free}] /\ modemDefault \in Ids
    /\ wds \in BOOLEAN /\ cached \in BOOLEAN /\ cachedId \in {0} \cup Ids
    /\ listed \in BOOLEAN /\ list \in Seq(Profiles) /\ count \in 0..Len(list)
    /\ collected \in BOOLEAN /\ tasks \subseteq Tasks
    /\ profile \in {"NOT_READY", "CONFIGURING", "READY"}
    /\ bus \in Buses /\ rows \in Seq(Rows)
    /\ fresh \in BOOLEAN /\ waiting \in BOOLEAN /\ edited \in BOOLEAN /\ whole \in BOOLEAN

Init ==
    /\ ProfileInit
    /\ bus \in Buses /\ rows = <<>> /\ fresh = FALSE /\ waiting = FALSE
    /\ edited = FALSE /\ whole = TRUE

-----------------------------------------------------------------------------
(* The state machine *)

\* TransitionRegistered: the profile is marked and a task begun.
Registers ==
    /\ Operation("create", [id |-> 0, key |-> OwnKey, dflt |-> TRUE], TRUE)
    /\ whole' = (whole /\ ~waiting)
    /\ UNCHANGED <<bus, rows, fresh, waiting, edited>>

-----------------------------------------------------------------------------
(* The table *)

\* Cellular_AccessPoint_IsUpdated: an empty table is read anew by CCSP.
IsUpdated == ~fresh \/ (bus = "CCSP" /\ rows = <<>>)

\* Cellular_AccessPoint_Synchronize and CellularMgr_AccessPointGetProfileList,
\* up to the wait for the list.
Synchronize ==
    /\ ~waiting /\ IsUpdated
    /\ waiting' = TRUE /\ fresh' = TRUE /\ whole' = (tasks = {})
    /\ Operation("list", [id |-> 0, key |-> Unread, dflt |-> FALSE], FALSE)
    /\ UNCHANGED <<bus, rows, edited>>

RowOf(entry) == [id |-> entry.id, key |-> entry.key, dflt |-> entry.dflt, new |-> FALSE]

\* The wait is over: what the list holds becomes the table, whoever read it.
Synchronized ==
    /\ waiting /\ collected /\ waiting' = FALSE /\ collected' = FALSE
    /\ rows' = [i \in 1..count |-> RowOf(list[i])]
    /\ listed' = (listed /\ count > 0)
    /\ list' = IF count > 0 THEN list ELSE <<>>
    /\ UNCHANGED <<modemVars, wds, cacheVars, count, tasks, profile, boundVars,
                   bus, fresh, edited, whole>>

\* CELLULAR_QMI_PROFILELIST_VIA_DML_MAX_WAITIME
ListTimesOut ==
    /\ waiting /\ ~collected /\ waiting' = FALSE /\ rows' = <<>>
    /\ UNCHANGED <<halVars, boundVars, bus, fresh, edited, whole>>

\* The table grows old.
Expires ==
    /\ ~waiting /\ fresh /\ fresh' = FALSE
    /\ UNCHANGED <<halVars, boundVars, bus, rows, waiting, edited, whole>>

\* CellularMgr_AccessPointCreateProfile, ...ModifyProfile and ...DeleteProfile
ProfileOf(row) == [id |-> row.id, key |-> row.key, dflt |-> row.dflt]

\* Cellular_AccessPoint_AddEntry: the profile is created when it is committed.
AddEntry ==
    /\ bus = "CCSP" /\ ~waiting /\ Len(rows) < MaxProfiles
    /\ rows' = Append(rows, [id |-> 0, key |-> Unread, dflt |-> FALSE, new |-> TRUE])
    /\ fresh' = TRUE
    /\ UNCHANGED <<halVars, boundVars, bus, waiting, edited, whole>>

\* Cellular_AccessPoint_Add: the profile is created at once, with an APN of
\* its own.
AddEntry_rbus ==
    /\ bus = "RBUS" /\ ~waiting /\ Len(rows) < MaxProfiles
    /\ \E k \in {k \in Keys : \A i \in DOMAIN rows : rows[i].key # k} :
         LET row == [id |-> 0, key |-> k, dflt |-> FALSE, new |-> FALSE]
         IN  rows' = Append(rows, row) /\ Operation("create", ProfileOf(row), FALSE)
    /\ fresh' = FALSE /\ edited' = TRUE /\ UNCHANGED <<bus, waiting, whole>>

\* Cellular_AccessPoint_DeleteEntry: the default profile is refused.
DeleteEntry(i) ==
    /\ ~waiting /\ ~rows[i].dflt
    /\ Operation("delete", ProfileOf(rows[i]), FALSE)
    /\ fresh' = FALSE /\ edited' = TRUE /\ UNCHANGED <<bus, rows, waiting, whole>>

\* Cellular_AccessPoint_Validate: a new row is compared with the old ones, an
\* old one with those of another index.  RBUS accepts every row.
Validate(i, row) ==
    bus = "CCSP" =>
        ~\E j \in DOMAIN rows \ {i} :
            /\ rows[j].key = row.key
            /\ IF row.new THEN ~rows[j].new ELSE rows[j].id # row.id

\* A user sets parameters of a row, which is then validated and committed
\* (Cellular_AccessPoint_Commit).
SetRow(i, k, d) ==
    LET row == [rows[i] EXCEPT !.key = k, !.dflt = d]
    IN  /\ ~waiting /\ ~IsUpdated /\ fresh' = FALSE
        /\ \/ /\ ~Validate(i, row)
              /\ rows' = [rows EXCEPT ![i] = row]
              /\ UNCHANGED <<halVars, boundVars, edited>>
           \/ /\ Validate(i, row)
              /\ rows' = [rows EXCEPT ![i] = [row EXCEPT !.new = FALSE]]
              /\ Operation(IF row.new THEN "create" ELSE "modify", ProfileOf(row), FALSE)
              /\ edited' = TRUE
        /\ UNCHANGED <<bus, waiting, whole>>

Table ==
    \/ Synchronize \/ Synchronized \/ ListTimesOut \/ Expires \/ AddEntry \/ AddEntry_rbus
    \/ \E i \in DOMAIN rows : DeleteEntry(i) \/ \E k \in Keys, d \in BOOLEAN : SetRow(i, k, d)

TaskWorks == TaskStep /\ UNCHANGED tableVars

Next == Registers \/ Table \/ TaskWorks

Spec == Init /\ [][Next]_vars

-----------------------------------------------------------------------------
(* Properties *)

Distinct == \A i, j \in Held : stored[i] = stored[j] => i = j

(***************************************************************************)
(* A single creation or modification, whose reading of the list does not   *)
(* fail, leaves no two profiles with the same contents in the modem.       *)
(***************************************************************************)
OneOfAKind == changes <= 1 /\ failures = 0 /\ overlaps = 0 => Distinct

(***************************************************************************)
(* A table that was read while no other task ran holds complete profiles:  *)
(* the wait for the list does not end before the last entry has come.      *)
(***************************************************************************)
RowsWhole ==
    whole /\ ~waiting => \A i \in DOMAIN rows : ~rows[i].new => rows[i].key # Unread

(***************************************************************************)
(* What the HAL remembers for the modem's default profile, and marks in    *)
(* every list, is the profile the modem uses, as long as tasks do not      *)
(* overlap.                                                                *)
(***************************************************************************)
DefaultFollowed == overlaps = 0 /\ cached => cachedId = modemDefault

(***************************************************************************)
(* When the state machine is told that its profile is ready, the modem     *)
(* holds that profile and uses it by default, unless a user has edited     *)
(* profiles or more than one task has begun beside others: readings of two *)
(* tasks with a creation between them mix the entries of the one list.     *)
(***************************************************************************)
ReadyIsOwn ==
    overlaps <= 1 /\ profile = "READY" /\ ~edited => stored[modemDefault] = OwnKey

(***************************************************************************)
(* The comments of the creation: it is to "Verify whether proposing        *)
(* profile is already existing or not", and "If it is new one then needs   *)
(* to create".  So the modem never holds a profile twice.                  *)
(***************************************************************************)
ProfileOnce == Distinct
=============================================================================
