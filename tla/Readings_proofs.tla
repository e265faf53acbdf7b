-------------------------- MODULE Readings_proofs --------------------------
(***************************************************************************)
(* Theorems about Readings, for any number of modems, callers and calls.   *)
(* That a reading is of the modem that is there is inductive as it stands. *)
(* That an undisturbed call hands out what was read for it rests on what   *)
(* is under way: the second request of a signal or of statistics is only   *)
(* there when the first was answered since the call began, one list of     *)
(* technologies is written at a time, and no preference is being set while *)
(* the preferred technology is waited for.                                 *)
(* That the wait for the signal is owed its end rests on what the calls    *)
(* know of one another: those for the signal that cross are all marked,    *)
(* and a removal marks every call it meets (SignalInv).                    *)
(***************************************************************************)
EXTENDS Readings, TLAPS

\* A device that is not closed is a modem's.
SomeModem == device # "closed" => modem \in Modems

\* One list is written at a time, and technologies that were told by a modem
\* are written while it is there.
OneWriting ==
    /\ \A q, r \in writing : q = r
    /\ \A r \in writing : r.part \in Technologies => device = "open"

Inv == TypeOK /\ SomeModem /\ OfThisModem /\ OneWriting

LEMMA InitInv == Init => Inv
  <1> SUFFICES ASSUME Init PROVE Inv
    OBVIOUS
  <1> USE DEF Init, ModemInit
  <1>1. 0 \in Values /\ made \in 0..MaxCalls
    BY PlugsAssumption, ReadingsAssumption
       DEF PlugsAssumption, ReadingsAssumption, Values, Unheeded
  <1>2. calls \in [Callers -> Calls]
    BY DEF Idle, Calls, Kinds
  <1>3. TypeOK
    BY <1>1, <1>2 DEF TypeOK, ModemTypeOK
  <1> QED
    BY <1>3 DEF Inv, SomeModem, OfThisModem, OneWriting

LEMMA PartsKnown ==
    /\ Parts = {"info", "tx", "plmn", "packets", "rates", "id", "supported", "preferred"}
    /\ \A k \in Kinds : First(k) \in PartsOf(k) /\ PartsOf(k) \subseteq Parts
  BY DEF Parts, PartsOf, Kinds, First

-----------------------------------------------------------------------------
(* Types, and readings of the modem that is there *)

LEMMA SendsType ==
    ASSUME Inv, NEW p \in Parts \cup {"prefer"}, NEW c \in Callers \cup {"over"}, Sends(p, c)
    PROVE  requests' \subseteq Requests
  BY DEF Inv, TypeOK, SomeModem, Sends, Request, Requests

LEMMA BeginsType ==
    ASSUME TypeOK, NEW c \in Callers, NEW k \in Kinds, NEW then \in {"return", "prefer"},
           Begins(c, k, then)
    PROVE  calls' \in [Callers -> Calls]
  <1>1. Idle \in Calls
    BY DEF Idle, Calls
  <1>2. ASSUME NEW b \in BOOLEAN, NEW d \in Callers
        PROVE  /\ [Idle EXCEPT !.kind = k, !.then = then, !.shared = b] \in Calls
               /\ [calls[d] EXCEPT !.shared = @ \/ d \in Of(k)] \in Calls
    <2>1. calls[d] \in Calls
      BY DEF TypeOK
    <2> QED
      BY <1>1, <2>1 DEF Calls
  <1>3. InTheWay(k) \in BOOLEAN
    BY DEF InTheWay
  <1> QED
    BY <1>2, <1>3 DEF Begins

LEMMA AsksType ==
    ASSUME Inv, NEW c \in Callers, NEW k \in Kinds, NEW then \in {"return", "prefer"},
           Asks(c, k, then)
    PROVE  /\ requests' \subseteq Requests /\ calls' \in [Callers -> Calls]
           /\ done' \in [Flagged -> BOOLEAN]
  <1>1. First(k) \in Parts
    BY PartsKnown
  <1>2. requests' \subseteq Requests
    BY <1>1, SendsType DEF Asks
  <1>3. calls' \in [Callers -> Calls]
    BY BeginsType DEF Asks, Inv
  <1>4. done' \in [Flagged -> BOOLEAN]
    BY DEF Asks, Inv, TypeOK
  <1> QED
    BY <1>2, <1>3, <1>4

LEMMA PrefersType ==
    ASSUME Inv, NEW c \in Callers, Prefers(c)
    PROVE  requests' \subseteq Requests /\ calls' \in [Callers -> Calls]
  <1>1. requests' \subseteq Requests
    BY SendsType DEF Prefers
  <1>2. Idle \in Calls
    BY DEF Idle, Calls
  <1>3. ASSUME NEW d \in Callers
        PROVE  [calls[d] EXCEPT !.shared = @ \/ d \in Of("preferred")] \in Calls
    <2>1. calls[d] \in Calls
      BY DEF Inv, TypeOK
    <2> QED
      BY <2>1 DEF Calls
  <1> QED
    BY <1>1, <1>2, <1>3 DEF Prefers

LEMMA ReturnsType ==
    ASSUME Inv, NEW c \in Callers, Returns(c)
    PROVE  requests' \subseteq Requests /\ calls' \in [Callers -> Calls]
  <1>1. CASE calls[c].then = "prefer"
    BY <1>1, PrefersType DEF Returns
  <1>2. CASE calls[c].then # "prefer"
    <2>1. Idle \in Calls
      BY DEF Idle, Calls
    <2>2. \A r \in Requests : [r EXCEPT !.caller = "over"] \in Requests
      BY DEF Requests
    <2> QED
      BY <1>2, <2>1, <2>2 DEF Returns, Inv, TypeOK
  <1> QED
    BY <1>1, <1>2

LEMMA CallerInv == ASSUME Inv, NEW c \in Callers, Caller(c) PROVE Inv'
  <1>1. UNCHANGED <<modem, device, memory, writing>>
    BY DEF Caller, Call, Looks, TimesOut
  <1>2. SomeModem' /\ OfThisModem' /\ OneWriting'
    BY <1>1 DEF Inv, SomeModem, OfThisModem, OneWriting
  <1>3. CASE Call(c)
    <2>1. made' \in 0..MaxCalls /\ UNCHANGED kept
      BY <1>3, ReadingsAssumption DEF Call, Inv, TypeOK, ReadingsAssumption
    <2>2. /\ requests' \subseteq Requests /\ calls' \in [Callers -> Calls]
          /\ done' \in [Flagged -> BOOLEAN]
      <3>1. CASE \E k \in Kinds : Asks(c, k, "return")
        BY <3>1, AsksType
      <3>2. CASE Asks(c, "supported", "prefer")
        BY <3>2, AsksType DEF Kinds
      <3>3. CASE Prefers(c) /\ UNCHANGED done
        BY <3>3, PrefersType DEF Inv, TypeOK
      <3> QED
        BY <1>3, <3>1, <3>2, <3>3 DEF Call, SetPreferred
    <2> QED
      BY <1>1, <1>2, <2>1, <2>2 DEF Inv, TypeOK, ModemTypeOK
  <1>4. CASE Looks(c)
    <2>1. done' \in [Flagged -> BOOLEAN] /\ kept' \subseteq {"plmn", "stats"}
      BY <1>4 DEF Looks, Inv, TypeOK, Flagged
    <2> QED
      BY <1>1, <1>2, <1>4, <2>1, ReturnsType DEF Looks, Inv, TypeOK, ModemTypeOK
  <1>5. CASE TimesOut(c)
    BY <1>1, <1>2, <1>5, ReturnsType DEF TimesOut, Inv, TypeOK, ModemTypeOK
  <1> QED
    BY <1>3, <1>4, <1>5 DEF Caller

LEMMA HearsType ==
    ASSUME TypeOK, NEW k \in Kinds, NEW read \in SUBSET Parts, NEW failed \in BOOLEAN, NEW marked,
           Hears(k, read, failed, marked)
    PROVE  calls' \in [Callers -> Calls]
  <1>1. ASSUME NEW c \in Callers
        PROVE  [calls[c] EXCEPT !.since = @ \cup read, !.failed = @ \/ failed,
                                !.answered = @ \/ c \in marked] \in Calls
    <2>1. calls[c] \in Calls
      BY DEF TypeOK
    <2> QED
      BY <2>1 DEF Calls
  <1> QED
    BY <1>1 DEF Hears, TypeOK

LEMMA AnswerInv ==
    ASSUME Inv, NEW r \in requests, Answer(r), UNCHANGED <<modem, device, made>>
    PROVE  Inv'
  <1> USE DEF Inv
  <1>1. PICK read \in {FALSE, Succeeds(r)} :
            /\ SignalCB(r, read) \/ PlmnCB(r, read) \/ StatsCB(r, read) \/ IdCB(r, read)
            /\ IF read THEN Stores(r.part) ELSE Forgets(r.part)
    BY DEF Answer
  <1>10. UNCHANGED writing /\ OneWriting'
    BY DEF Answer, OneWriting
  <1>2. r \in Requests /\ read \in BOOLEAN /\ (read => Succeeds(r))
    BY DEF TypeOK, Succeeds
  <1>3. r.part \in Parts
    BY <1>1, PartsKnown DEF SignalCB, PlmnCB, StatsCB, IdCB, PartsOf
  <1>4. memory' \in [Parts -> Values] /\ OfThisModem'
    <2>1. CASE read
      <3>1. modem \in Modems /\ device = "open" /\ modem \in Values /\ 0 \in Values
        BY <1>2, <2>1, PlugsAssumption
           DEF Succeeds, SomeModem, Requests, Modems, Values, Unheeded, PlugsAssumption
      <3>2. Stores(r.part)
        BY <1>1, <2>1
      <3>3. /\ memory' \in [Parts -> Values]
            /\ \A p \in Parts : memory'[p] \in {0, modem, memory[p]}
        BY <1>3, <3>1, <3>2 DEF Stores, TypeOK
      <3> QED
        BY <3>1, <3>3 DEF OfThisModem
    <2>2. CASE ~read
      <3>1. 0 \in Values
        BY PlugsAssumption DEF Values, Unheeded, PlugsAssumption
      <3>2. Forgets(r.part)
        BY <1>1, <2>2
      <3>3. /\ memory' \in [Parts -> Values]
            /\ \A p \in Parts : memory'[p] \in {0, memory[p]}
        <4>1. CASE memory' = memory
          BY <4>1 DEF TypeOK
        <4>2. CASE memory' = [memory EXCEPT !["id"] = 0]
          BY <3>1, <4>2 DEF TypeOK
        <4> QED
          BY <3>2, <4>1, <4>2 DEF Forgets
      <3> QED
        BY <3>3 DEF OfThisModem
    <2> QED
      BY <1>2, <2>1, <2>2
  <1>5. CASE SignalCB(r, read)
    <2>1. calls' \in [Callers -> Calls]
      BY <1>2, <1>3, <1>5, HearsType DEF SignalCB, Kinds
    <2>2. requests' \subseteq Requests
      <3>1. requests \subseteq Requests
        BY DEF TypeOK
      <3>2. [r EXCEPT !.part = "tx"] \in Requests
        BY <1>2, PartsKnown DEF Requests
      <3> QED
        BY <1>5, <3>1, <3>2 DEF SignalCB
    <2>3. done' \in [Flagged -> BOOLEAN]
      BY <1>2, <1>5 DEF SignalCB, TypeOK
    <2> QED
      BY <1>4, <1>10, <1>5, <2>1, <2>2, <2>3 DEF SignalCB, TypeOK, ModemTypeOK, SomeModem
  <1>6. CASE PlmnCB(r, read)
    <2>1. calls' \in [Callers -> Calls]
      BY <1>2, <1>6, PartsKnown, HearsType DEF PlmnCB, Kinds
    <2> QED
      BY <1>4, <1>10, <1>6, <2>1 DEF PlmnCB, TypeOK, ModemTypeOK, SomeModem
  <1>7. CASE StatsCB(r, read)
    <2>1. calls' \in [Callers -> Calls]
      BY <1>2, <1>3, <1>7, HearsType DEF StatsCB, Kinds
    <2>2. requests' \subseteq Requests /\ done' \in [Flagged -> BOOLEAN]
      BY <1>2, <1>7, PartsKnown DEF StatsCB, TypeOK, Requests, SomeModem
    <2> QED
      BY <1>4, <1>10, <1>7, <2>1, <2>2 DEF StatsCB, TypeOK, ModemTypeOK, SomeModem
  <1>8. CASE IdCB(r, read)
    <2>1. calls' \in [Callers -> Calls]
      BY <1>2, <1>8, PartsKnown, HearsType DEF IdCB, Kinds
    <2> QED
      BY <1>4, <1>10, <1>8, <2>1 DEF IdCB, TypeOK, ModemTypeOK, SomeModem
  <1> QED
    BY <1>1, <1>5, <1>6, <1>7, <1>8

LEMMA WipesInv ==
    ASSUME Inv, NEW r \in requests, Wipes(r), r.part \in Technologies \cup {"prefer"},
           r.part \in Technologies => device = "open", UNCHANGED <<modem, device, made>>
    PROVE  Inv'
  <1> USE DEF Inv, Wipes
  <1>1. 0 \in Values
    BY PlugsAssumption DEF Values, Unheeded, PlugsAssumption
  <1>2. memory \in [Parts -> Values] /\ memory' \in [Parts -> Values]
    BY <1>1 DEF TypeOK
  <1>3. \A p \in Parts : memory'[p] \in {0, memory[p]}
    BY <1>2
  <1>4. TypeOK'
    BY <1>2 DEF TypeOK, ModemTypeOK
  <1>5. SomeModem' /\ OfThisModem' /\ OneWriting'
    BY <1>3 DEF SomeModem, OfThisModem, OneWriting
  <1> QED
    BY <1>4, <1>5

LEMMA RadioCBInv ==
    ASSUME Inv, NEW r \in requests, RadioCB(r), UNCHANGED <<modem, device, made>>
    PROVE  Inv'
  <1>1. CASE Succeeds(r) /\ Wipes(r)
    BY <1>1, WipesInv DEF RadioCB, Succeeds
  <1>2. CASE Hears(r.part, {}, TRUE, {}) /\ requests' = requests \ {r}
             /\ UNCHANGED <<memory, done, kept, writing>>
    <2>1. r.part \in Kinds
      BY DEF RadioCB, Technologies, Kinds
    <2>2. calls' \in [Callers -> Calls]
      BY <1>2, <2>1, HearsType DEF Inv
    <2> QED
      BY <1>2, <2>2 DEF Inv, TypeOK, ModemTypeOK, SomeModem, OfThisModem, OneWriting
  <1> QED
    BY <1>1, <1>2 DEF RadioCB

LEMMA WritesFirstInv ==
    ASSUME Inv, NEW r \in writing, WritesFirst(r), UNCHANGED <<modem, device, made>>
    PROVE  Inv'
  <1> USE DEF Inv
  <1>1. CASE r.part \in Technologies
    <2>1. device = "open" /\ modem \in Modems /\ r.part \in Parts
      BY <1>1, PartsKnown DEF OneWriting, SomeModem, Technologies
    <2>2. modem \in Values
      BY <2>1, PlugsAssumption DEF Values, Unheeded, Modems, PlugsAssumption
    <2>3. memory' = [memory EXCEPT ![r.part] = modem]
      BY <1>1 DEF WritesFirst, Technologies
    <2>4. TypeOK'
      BY <2>2, <2>3 DEF WritesFirst, TypeOK, ModemTypeOK
    <2> QED
      BY <2>1, <2>3, <2>4 DEF WritesFirst, SomeModem, OfThisModem, OneWriting, TypeOK
  <1>2. CASE r.part = "prefer"
    <2>1. PICK value \in {Unheeded} \cup (IF Succeeds(r) THEN {modem} ELSE {}) :
              memory' = [memory EXCEPT !["preferred"] = value]
      BY <1>2 DEF WritesFirst, Technologies
    <2>2. value = Unheeded \/ (value = modem /\ device = "open" /\ modem \in Modems)
      BY DEF Succeeds, SomeModem
    <2>3. value \in Values
      BY <2>2, PlugsAssumption DEF Values, Unheeded, Modems, PlugsAssumption
    <2>4. TypeOK'
      BY <2>1, <2>3, PartsKnown DEF WritesFirst, TypeOK, ModemTypeOK
    <2> QED
      BY <2>1, <2>2, <2>4, PartsKnown
         DEF WritesFirst, SomeModem, OfThisModem, OneWriting, TypeOK
  <1> QED
    BY <1>1, <1>2 DEF WritesFirst

LEMMA WrittenInv ==
    ASSUME Inv, NEW r \in writing, Written(r), UNCHANGED <<modem, device, made>>
    PROVE  Inv'
  <1>1. calls' \in [Callers -> Calls]
    <2>1. CASE r.part \in Technologies
      <3>1. r.part \in Kinds /\ {r.part} \in SUBSET Parts
        BY <2>1, PartsKnown DEF Technologies, Kinds
      <3> QED
        BY <2>1, <3>1, HearsType DEF Written, Inv
    <2>2. CASE r.part \notin Technologies
      BY <2>2 DEF Written, Inv, TypeOK
    <2> QED
      BY <2>1, <2>2
  <1> QED
    BY <1>1 DEF Inv, Written, TypeOK, ModemTypeOK, SomeModem, OfThisModem, OneWriting

LEMMA ModemInv ==
    ASSUME Inv, Opens \/ Unplugs \/ Removes \/ Expires \/ UNCHANGED vars
    PROVE  Inv'
  <1> USE DEF Inv
  <1>0. OneWriting'
    BY DEF Opens, PluggedIn, Unplugs, Removes, Removed, removed, Expires, vars, OneWriting
  <1>1. CASE Opens
    <2>1. modem' \in Modems
      BY <1>1, PlugsAssumption DEF Opens, PluggedIn, TypeOK, ModemTypeOK, Modems, PlugsAssumption
    <2>2. TypeOK' /\ SomeModem'
      BY <1>1, <2>1 DEF Opens, PluggedIn, TypeOK, ModemTypeOK, SomeModem
    <2>3. OfThisModem'
      <3>1. \A p \in Parts : memory[p] = 0 \/ (p = "preferred" /\ memory[p] = Unheeded)
        BY <1>1, PlugsAssumption
           DEF Opens, PluggedIn, OfThisModem, TypeOK, ModemTypeOK, Unheeded, Modems, PlugsAssumption
      <3> QED
        BY <1>1, <3>1 DEF Opens, PluggedIn, OfThisModem
    <2> QED
      BY <2>2, <2>3, <1>0
  <1>2. CASE Unplugs
    <2>1. calls' \in [Callers -> Calls]
      <3>1. Idle \in Calls
        BY DEF Idle, Calls
      <3>2. \A c \in Callers : [calls[c] EXCEPT !.unplugged = TRUE] \in Calls
        BY DEF TypeOK, Calls
      <3> QED
        BY <1>2, <3>1, <3>2 DEF Unplugs
    <2> QED
      BY <1>2, <1>0, <2>1 DEF Unplugs, Unplugged, TypeOK, ModemTypeOK, SomeModem, OfThisModem
  <1>3. CASE Removes
    <2>1. 0 \in Values
      BY PlugsAssumption DEF Values, Unheeded, PlugsAssumption
    <2> QED
      BY <1>3, <1>0, <2>1
         DEF Removes, Removed, Reinitialize, TypeOK, ModemTypeOK, SomeModem, OfThisModem
  <1>4. CASE Expires \/ UNCHANGED vars
    BY <1>4, <1>0 DEF Expires, vars, TypeOK, ModemTypeOK, SomeModem, OfThisModem
  <1> QED
    BY <1>1, <1>2, <1>3, <1>4

LEMMA NextInv == ASSUME Inv, [Next]_vars PROVE Inv'
  <1>1. CASE Answers
    <2>1. UNCHANGED <<modem, device, made>>
      BY <1>1 DEF Answers
    <2>2. ASSUME NEW r \in requests, PreferenceSet(r) PROVE Inv'
      BY <2>1, <2>2, WipesInv DEF PreferenceSet, Technologies
    <2> QED
      BY <1>1, <2>1, <2>2, AnswerInv, RadioCBInv, WritesFirstInv, WrittenInv DEF Answers
  <1> QED
    BY <1>1, CallerInv, ModemInv DEF Next

LEMMA Invariance == Spec => []Inv
  BY InitInv, NextInv, PTL DEF Spec

(* Every variable keeps to its type.                                       *)
THEOREM TypeCorrect == Spec => []TypeOK
  BY Invariance, PTL DEF Inv

(* What is handed out is of the modem that is there.                       *)
THEOREM OfThisModemCorrect == Spec => []OfThisModem
  BY Invariance, PTL DEF Inv

-----------------------------------------------------------------------------
(* An undisturbed call                                                     *)

\* Nobody was in its way, and nothing failed for it.
Undisturbed(c) == ~calls[c].shared /\ ~calls[c].failed /\ ~calls[c].unplugged

\* What a call of each kind may find was read since it began.  The second
\* request of two is only under way when the first was answered for the call.
Fresh(c) ==
    /\ c \in Of("signal") =>
         /\ done["signal"] => {"info", "tx"} \subseteq calls[c].since
         /\ \A r \in requests : r.part = "tx" => "info" \in calls[c].since
    /\ c \in Of("stats") =>
         /\ done["stats"] => {"packets", "rates"} \subseteq calls[c].since
         /\ \A r \in requests : r.part = "rates" => "packets" \in calls[c].since
    /\ c \in Of("plmn") => (done["plmn"] => "plmn" \in calls[c].since)
    /\ c \in Of("id") => (calls[c].answered => "id" \in calls[c].since)
    /\ c \in Of("supported") =>
         (memory["supported"] # 0 => "supported" \in calls[c].since \/ HalfWritten("supported"))
    /\ c \in Of("preferred") =>
         /\ memory["preferred"] # 0 => "preferred" \in calls[c].since \/ HalfWritten("preferred")
         /\ \A r \in requests \cup writing : r.part # "prefer"

FreshInv == \A c \in Callers : Undisturbed(c) => Fresh(c)

LEMMA FreshStart == Init => FreshInv
  BY DEF Init, FreshInv, Fresh, Of, Idle

\* A call that does not begin, end or learn anything stays fresh when no part
\* is filled, no flag raised and no second request made.
LEMMA FreshKept ==
    ASSUME FreshInv, NEW c \in Callers, Undisturbed(c)',
           \/ calls'[c] = Idle
           \/ calls'[c] = calls[c],
           \A f \in Flagged : done'[f] => done[f], UNCHANGED writing,
           \A p \in {"supported", "preferred"} : memory'[p] # 0 => memory[p] # 0,
           \A r \in requests' : r.part \in {"tx", "rates", "prefer"}
                                => \E q \in requests : q.part = r.part
    PROVE  Fresh(c)'
  <1>1. CASE calls'[c] = Idle
    BY <1>1 DEF Fresh, Of, Idle
  <1>2. CASE calls'[c] = calls[c]
    <2>1. Undisturbed(c) /\ Fresh(c)
      BY <1>2 DEF Undisturbed, FreshInv
    <2>2. \A k \in Kinds : (c \in Of(k))' <=> c \in Of(k)
      BY <1>2 DEF Of
    <2> QED
      BY <1>2, <2>1, <2>2 DEF Fresh, Flagged, Kinds, HalfWritten
  <1> QED
    BY <1>1, <1>2

\* A call that still has nobody in its way was not marked.
LEMMA Unmarked ==
    ASSUME Inv, NEW c \in Callers, NEW b \in BOOLEAN,
           calls'[c] = [calls[c] EXCEPT !.shared = @ \/ b], Undisturbed(c)'
    PROVE  ~b /\ calls'[c] = calls[c]
  <1>1. calls[c] \in Calls
    BY DEF Inv, TypeOK
  <1>2. calls'[c].shared = (calls[c].shared \/ b)
    BY <1>1 DEF Calls
  <1>3. ~b /\ calls[c].shared = FALSE
    BY <1>1, <1>2 DEF Undisturbed, Calls
  <1>4. calls'[c] = [calls[c] EXCEPT !.shared = FALSE]
    BY <1>3
  <1> QED
    BY <1>1, <1>3, <1>4 DEF Calls

\* Whoever asks, an undisturbed call of another is of another kind.
LEMMA AsksFresh ==
    ASSUME Inv, FreshInv, NEW e \in Callers, NEW k \in Kinds, NEW then \in {"return", "prefer"},
           Asks(e, k, then), UNCHANGED <<memory, writing>>
    PROVE  FreshInv'
  <1> SUFFICES ASSUME NEW c \in Callers, Undisturbed(c)' PROVE Fresh(c)'
    BY DEF FreshInv
  <1>1. \A r \in requests' : r \in requests \/ r.part = First(k)
    BY DEF Asks, Sends, Request
  <1>2. First(k) \notin {"tx", "rates", "prefer"}
    BY DEF First, Kinds
  <1>3. \A f \in Flagged : done'[f] = (f # k /\ done[f])
    BY DEF Asks
  <1>4. Begins(e, k, then)
    BY DEF Asks
  <1>6. CASE c # e
    <2>1. calls'[c] = [calls[c] EXCEPT !.shared = @ \/ c \in Of(k)]
      BY <1>4, <1>6 DEF Begins
    <2>2. calls'[c] = calls[c]
      BY <2>1, Unmarked
    <2> QED
      BY <1>1, <1>2, <1>3, <2>2, FreshKept
  <1>7. CASE c = e
    <2>1. calls'[c] = [Idle EXCEPT !.kind = k, !.then = then, !.shared = InTheWay(k)]
      BY <1>4, <1>7 DEF Begins
    <2>2. /\ calls'[c].kind = k /\ calls'[c].answered = FALSE
          /\ calls'[c].shared = InTheWay(k)
      BY <2>1 DEF Idle
    <2>3. ~InTheWay(k)
      BY <2>2 DEF Undisturbed
    <2>4. \A l \in Kinds : (c \in Of(l))' => l = k
      BY <2>2 DEF Of
    <2>5. /\ k \in {"supported", "preferred"} => memory'[k] = 0
          /\ k \in Flagged => ~done'[k]
      BY <1>3 DEF Asks, Held, Technologies
    <2>6. /\ k = "signal" => \A r \in requests' : r.part # "tx"
          /\ k = "stats" => \A r \in requests' : r.part # "rates"
          /\ k = "preferred" => \A r \in requests' \cup writing' : r.part # "prefer"
      <3>1. \A r \in requests \cup writing : r.part \notin PartsOf(k) /\ ~(r.part = "prefer" /\ k = "preferred")
        BY <2>3 DEF InTheWay
      <3> QED
        BY <1>1, <1>2, <3>1 DEF PartsOf
    <2>7. k \in {"signal", "stats", "plmn", "id", "supported", "preferred"}
      BY DEF Kinds
    <2>8. CASE k = "signal"
      BY <2>4, <2>5, <2>6, <2>8 DEF Fresh, Kinds, Flagged
    <2>9. CASE k = "stats"
      BY <2>4, <2>5, <2>6, <2>9 DEF Fresh, Kinds, Flagged
    <2>10. CASE k \in {"plmn", "id", "supported"}
      BY <2>2, <2>4, <2>5, <2>10 DEF Fresh, Kinds, Flagged
    <2>11. CASE k = "preferred"
      BY <2>4, <2>5, <2>6, <2>11 DEF Fresh, Kinds
    <2> QED
      BY <2>7, <2>8, <2>9, <2>10, <2>11
  <1> QED
    BY <1>6, <1>7

LEMMA PrefersFresh ==
    ASSUME Inv, FreshInv, NEW e \in Callers, Prefers(e), UNCHANGED <<memory, writing>>,
           \A f \in Flagged : done'[f] => done[f]
    PROVE  FreshInv'
  <1> SUFFICES ASSUME NEW c \in Callers, Undisturbed(c)' PROVE Fresh(c)'
    BY DEF FreshInv
  <1>1. CASE c = e
    <2>1. calls'[c] = Idle
      BY <1>1 DEF Prefers
    <2> QED
      BY <2>1 DEF Fresh, Of, Idle
  <1>2. CASE c # e
    <2>2. calls'[c] = [calls[c] EXCEPT !.shared = @ \/ c \in Of("preferred")]
      BY <1>2 DEF Prefers
    <2>3. calls'[c] = calls[c] /\ c \notin Of("preferred")
      BY <2>2, Unmarked
    <2>4. Undisturbed(c) /\ Fresh(c)
      BY <2>3 DEF Undisturbed, FreshInv
    <2>5. \A k \in Kinds : (c \in Of(k))' <=> c \in Of(k)
      BY <2>3 DEF Of
    <2>6. \A r \in requests' : r \in requests \/ r.part = "prefer"
      BY DEF Prefers, Sends, Request
    <2> QED
      BY <2>3, <2>4, <2>5, <2>6 DEF Fresh, Flagged, Kinds, HalfWritten
  <1> QED
    BY <1>1, <1>2

LEMMA ReturnsFresh ==
    ASSUME Inv, FreshInv, NEW e \in Callers, Returns(e), UNCHANGED <<memory, writing>>,
           \A f \in Flagged : done'[f] => done[f]
    PROVE  FreshInv'
  <1>1. CASE calls[e].then = "prefer"
    BY <1>1, PrefersFresh DEF Returns
  <1>2. CASE calls[e].then # "prefer"
    <2> SUFFICES ASSUME NEW c \in Callers, Undisturbed(c)' PROVE Fresh(c)'
      BY DEF FreshInv
    <2>1. calls'[c] = Idle \/ calls'[c] = calls[c]
      BY <1>2 DEF Returns, Inv, TypeOK
    <2>2. \A r \in requests' : \E q \in requests : q.part = r.part
      BY <1>2 DEF Returns, Inv, TypeOK, Requests
    <2> QED
      BY <2>1, <2>2, FreshKept
  <1> QED
    BY <1>1, <1>2

LEMMA CallerFresh == ASSUME Inv, FreshInv, NEW e \in Callers, Caller(e) PROVE FreshInv'
  <1>1. UNCHANGED <<memory, writing>>
    BY DEF Caller, Call, Looks, TimesOut
  <1>2. CASE Call(e)
    BY <1>1, <1>2, AsksFresh, PrefersFresh DEF Call, SetPreferred, Kinds
  <1>3. CASE Looks(e)
    <2>1. \A f \in Flagged : done'[f] => done[f]
      BY <1>3 DEF Looks, Inv, TypeOK, Flagged
    <2> QED
      BY <1>1, <1>3, <2>1, ReturnsFresh DEF Looks
  <1>4. CASE TimesOut(e)
    BY <1>1, <1>4, ReturnsFresh DEF TimesOut
  <1> QED
    BY <1>2, <1>3, <1>4 DEF Caller

\* A call of another kind than the answer's hears nothing.
LEMMA Unheard ==
    ASSUME Inv, NEW c \in Callers, NEW k \in Kinds, NEW read, NEW failed, NEW marked,
           Hears(k, read, failed, marked), c \notin Of(k)
    PROVE  calls'[c] = calls[c]
  BY DEF Hears

\* A call of the answer's kind knows what was read, unless the request failed.
LEMMA Heard ==
    ASSUME Inv, NEW c \in Callers, NEW k \in Kinds, NEW read \in SUBSET Parts,
           NEW failed \in BOOLEAN, NEW marked,
           Hears(k, read, failed, marked), c \in Of(k), Undisturbed(c)'
    PROVE  /\ Undisturbed(c) /\ ~failed
           /\ calls'[c].kind = k
           /\ calls'[c].since = calls[c].since \cup read
           /\ calls'[c].answered => calls[c].answered \/ c \in marked
  <1>1. calls[c] \in Calls
    BY DEF Inv, TypeOK
  <1>2. calls'[c] = [calls[c] EXCEPT !.since = @ \cup read, !.failed = @ \/ failed,
                                    !.answered = @ \/ c \in marked]
    BY DEF Hears
  <1>3. /\ calls'[c].kind = calls[c].kind
        /\ calls'[c].since = calls[c].since \cup read
        /\ calls'[c].failed = (calls[c].failed \/ failed)
        /\ calls'[c].shared = calls[c].shared
        /\ calls'[c].unplugged = calls[c].unplugged
        /\ calls'[c].answered = (calls[c].answered \/ c \in marked)
    BY <1>1, <1>2 DEF Calls
  <1>4. calls[c].kind = k
    BY DEF Of
  <1> QED
    BY <1>3, <1>4 DEF Undisturbed

LEMMA AnswerFresh ==
    ASSUME Inv, FreshInv, NEW r \in requests, Answer(r)
    PROVE  FreshInv'
  <1> SUFFICES ASSUME NEW c \in Callers, Undisturbed(c)' PROVE Fresh(c)'
    BY DEF FreshInv
  <1>1. PICK read \in {FALSE, Succeeds(r)} :
            /\ SignalCB(r, read) \/ PlmnCB(r, read) \/ StatsCB(r, read) \/ IdCB(r, read)
            /\ IF read THEN Stores(r.part) ELSE Forgets(r.part)
            /\ UNCHANGED writing
    BY DEF Answer
  <1>2. /\ read \in BOOLEAN /\ r.part \in Parts
        /\ (IF read THEN {r.part} ELSE {}) \in SUBSET Parts
        /\ done \in [Flagged -> BOOLEAN] /\ memory \in [Parts -> Values]
    BY <1>1, PartsKnown
       DEF Inv, TypeOK, Succeeds, SignalCB, PlmnCB, StatsCB, IdCB, PartsOf
  <1>3. \A p \in {"supported", "preferred"} :
           memory'[p] # 0 => memory[p] # 0
    <2>1. CASE read
      <3>1. \A p \in Parts : memory'[p] = memory[p] \/ p \in {r.part, "tx"}
        BY <1>1, <1>2, <2>1 DEF Stores
      <3>2. r.part \notin {"supported", "preferred"}
        BY <1>1 DEF SignalCB, PlmnCB, StatsCB, IdCB, PartsOf
      <3> QED
        BY <3>1, <3>2, PartsKnown
    <2>2. CASE ~read
      <3>1. memory' = memory \/ memory' = [memory EXCEPT !["id"] = 0]
        BY <1>1, <2>2 DEF Forgets
      <3> QED
        BY <1>2, <3>1, PartsKnown
    <2> QED
      BY <1>2, <2>1, <2>2
  <1>4. CASE SignalCB(r, read)
    <2>1. r.part \in {"info", "tx"} /\ "signal" \in Kinds
      BY <1>4 DEF SignalCB, PartsOf, Kinds
    <2>2. \A q \in requests' : q \in requests \/ (q.part = "tx" /\ r.part = "info" /\ read)
      BY <1>4 DEF SignalCB, Inv, TypeOK, Requests
    <2>3. \A f \in Flagged : done'[f] => done[f] \/ (f = "signal" /\ (r.part = "tx" \/ ~read))
      BY <1>2, <1>4 DEF SignalCB, Flagged
    <2>4. CASE c \in Of("signal")
      <3>1. /\ Undisturbed(c) /\ read /\ calls'[c].kind = "signal"
            /\ calls'[c].since = calls[c].since \cup {r.part}
        BY <1>2, <1>4, <2>1, <2>4, Heard DEF SignalCB
      <3>2. Fresh(c)
        BY <3>1 DEF FreshInv
      <3> QED
        BY <2>1, <2>2, <2>3, <2>4, <3>1, <3>2 DEF Fresh, Of, Flagged
    <2>5. CASE c \notin Of("signal")
      <3>1. calls'[c] = calls[c]
        BY <1>4, <2>1, <2>5, Unheard DEF SignalCB
      <3>2. Undisturbed(c) /\ Fresh(c)
        BY <3>1 DEF Undisturbed, FreshInv
      <3>3. \A l \in Kinds : (c \in Of(l))' <=> c \in Of(l)
        BY <3>1 DEF Of
      <3> QED
        BY <1>1, <1>3, <2>1, <2>2, <2>3, <2>5, <3>1, <3>2, <3>3 DEF Fresh, Kinds, Flagged, HalfWritten
    <2> QED
      BY <2>4, <2>5
  <1>5. CASE StatsCB(r, read)
    <2>1. r.part \in {"packets", "rates"} /\ "stats" \in Kinds
      BY <1>5 DEF StatsCB, PartsOf, Kinds
    <2>2. \A q \in requests' : q \in requests \/ (q.part = "rates" /\ r.part = "packets")
      BY <1>5 DEF StatsCB, Inv, TypeOK, Requests
    <2>3. \A f \in Flagged : done'[f] => done[f] \/ (f = "stats" /\ r.part = "rates")
      BY <1>2, <1>5 DEF StatsCB, Flagged
    <2>4. CASE c \in Of("stats")
      <3>1. /\ Undisturbed(c) /\ read /\ calls'[c].kind = "stats"
            /\ calls'[c].since = calls[c].since \cup {r.part}
        BY <1>2, <1>5, <2>1, <2>4, Heard DEF StatsCB
      <3>2. Fresh(c)
        BY <3>1 DEF FreshInv
      <3> QED
        BY <2>1, <2>2, <2>3, <2>4, <3>1, <3>2 DEF Fresh, Of, Flagged
    <2>5. CASE c \notin Of("stats")
      <3>1. calls'[c] = calls[c]
        BY <1>5, <2>1, <2>5, Unheard DEF StatsCB
      <3>2. Undisturbed(c) /\ Fresh(c)
        BY <3>1 DEF Undisturbed, FreshInv
      <3>3. \A l \in Kinds : (c \in Of(l))' <=> c \in Of(l)
        BY <3>1 DEF Of
      <3> QED
        BY <1>1, <1>3, <2>1, <2>2, <2>3, <2>5, <3>1, <3>2, <3>3 DEF Fresh, Kinds, Flagged, HalfWritten
    <2> QED
      BY <2>4, <2>5
  <1>6. CASE PlmnCB(r, read) \/ IdCB(r, read)
    <2>1. \A q \in requests' : q \in requests
      BY <1>6 DEF PlmnCB, IdCB
    <2>2. \A f \in Flagged : done'[f] => done[f] \/ (f = "plmn" /\ r.part = "plmn")
      BY <1>2, <1>6 DEF PlmnCB, IdCB, Flagged
    <2>3. r.part \in {"plmn", "id"} /\ r.part \in Kinds
      BY <1>6 DEF PlmnCB, IdCB, Kinds
    <2>4. PICK marked :
             /\ Hears(r.part, IF read THEN {r.part} ELSE {}, ~read, marked)
             /\ r.part # "id" => marked = {}
      BY <1>6 DEF PlmnCB, IdCB
    <2>5. CASE c \in Of(r.part)
      <3>1. /\ Undisturbed(c) /\ read /\ calls'[c].kind = r.part
            /\ calls'[c].since = calls[c].since \cup {r.part}
        BY <1>2, <2>3, <2>4, <2>5, Heard
      <3>2. Fresh(c)
        BY <3>1 DEF FreshInv
      <3> QED
        BY <2>1, <2>2, <2>3, <2>5, <3>1, <3>2 DEF Fresh, Of, Flagged
    <2>6. CASE c \notin Of(r.part)
      <3>1. calls'[c] = calls[c]
        BY <2>3, <2>4, <2>6, Unheard
      <3>2. Undisturbed(c) /\ Fresh(c)
        BY <3>1 DEF Undisturbed, FreshInv
      <3>3. \A l \in Kinds : (c \in Of(l))' <=> c \in Of(l)
        BY <3>1 DEF Of
      <3> QED
        BY <1>1, <1>3, <2>1, <2>2, <2>6, <3>1, <3>2, <3>3 DEF Fresh, Kinds, Flagged, HalfWritten
    <2> QED
      BY <2>5, <2>6
  <1> QED
    BY <1>1, <1>4, <1>5, <1>6

\* What is wiped is not seen, and while a preference is being set nobody waits
\* undisturbed for the preferred technology.
LEMMA WipesFresh ==
    ASSUME Inv, FreshInv, writing = {}, NEW r \in requests, Wipes(r),
           r.part \in Technologies \cup {"prefer"}
    PROVE  FreshInv'
  <1> SUFFICES ASSUME NEW c \in Callers, Undisturbed(c)' PROVE Fresh(c)'
    BY DEF FreshInv
  <1>1. UNCHANGED <<done, calls>> /\ requests' \subseteq requests /\ writing' = {r}
    BY DEF Wipes
  <1>2. /\ \A p \in {"supported", "preferred"} : memory'[p] # 0 => memory[p] # 0
        /\ r.part = "prefer" => memory'["preferred"] = 0
    BY PartsKnown DEF Wipes, Inv, TypeOK
  <1>3. Undisturbed(c) /\ Fresh(c)
    BY <1>1 DEF Undisturbed, FreshInv
  <1>4. \A k \in Kinds : (c \in Of(k))' <=> c \in Of(k)
    BY <1>1 DEF Of
  <1>5. ~HalfWritten("supported") /\ ~HalfWritten("preferred")
    BY DEF HalfWritten
  <1>6. c \in Of("preferred") => \A q \in requests' \cup writing' : q.part # "prefer"
    BY <1>1, <1>3 DEF Fresh
  <1> QED
    BY <1>1, <1>2, <1>3, <1>4, <1>5, <1>6 DEF Fresh, Kinds, Flagged

LEMMA RadioCBFresh ==
    ASSUME Inv, FreshInv, writing = {}, NEW r \in requests, RadioCB(r)
    PROVE  FreshInv'
  <1>1. CASE Wipes(r)
    BY <1>1, WipesFresh DEF RadioCB
  <1>2. CASE /\ requests' = requests \ {r} /\ Hears(r.part, {}, TRUE, {})
             /\ UNCHANGED <<memory, done, kept, writing>>
    <2> SUFFICES ASSUME NEW c \in Callers, Undisturbed(c)' PROVE Fresh(c)'
      BY DEF FreshInv
    <2>1. r.part \in Kinds
      BY DEF RadioCB, Technologies, Kinds
    <2>2. c \notin Of(r.part)
      BY <1>2, <2>1, Heard
    <2>3. calls'[c] = calls[c]
      BY <1>2, <2>1, <2>2, Unheard
    <2> QED
      BY <1>2, <2>3, FreshKept
  <1> QED
    BY <1>1, <1>2 DEF RadioCB

LEMMA WritesFirstFresh ==
    ASSUME Inv, FreshInv, NEW r \in writing, WritesFirst(r)
    PROVE  FreshInv'
  <1> SUFFICES ASSUME NEW c \in Callers, Undisturbed(c)' PROVE Fresh(c)'
    BY DEF FreshInv
  <1>1. UNCHANGED <<done, calls, requests, writing>>
    BY DEF WritesFirst
  <1>2. Undisturbed(c) /\ Fresh(c)
    BY <1>1 DEF Undisturbed, FreshInv
  <1>3. \A k \in Kinds : (c \in Of(k))' <=> c \in Of(k)
    BY <1>1 DEF Of
  <1>4. \A k \in Technologies : HalfWritten(k)' <=> HalfWritten(k)
    BY <1>1 DEF HalfWritten
  <1>5. CASE r.part \in Technologies
    <2>1. memory' = [memory EXCEPT ![r.part] = modem]
      BY <1>5 DEF WritesFirst, Technologies
    <2>2. \A p \in {"supported", "preferred"} : memory'[p] # 0 => memory[p] # 0 \/ HalfWritten(p)
      BY <2>1, PartsKnown DEF Inv, TypeOK, HalfWritten
    <2> QED
      BY <1>1, <1>2, <1>3, <1>4, <2>2 DEF Fresh, Kinds, Flagged, Technologies
  <1>6. CASE r.part = "prefer"
    <2>1. c \notin Of("preferred")
      BY <1>2, <1>6 DEF Fresh
    <2>2. memory'["supported"] = memory["supported"]
      BY <1>6, PartsKnown DEF WritesFirst, Technologies, Inv, TypeOK
    <2> QED
      BY <1>1, <1>2, <1>3, <1>4, <2>1, <2>2 DEF Fresh, Kinds, Flagged, Technologies
  <1> QED
    BY <1>5, <1>6 DEF WritesFirst

LEMMA WrittenFresh ==
    ASSUME Inv, FreshInv, NEW r \in writing, Written(r)
    PROVE  FreshInv'
  <1> SUFFICES ASSUME NEW c \in Callers, Undisturbed(c)' PROVE Fresh(c)'
    BY DEF FreshInv
  <1>1. UNCHANGED <<done, memory, requests>> /\ writing' = {}
    BY DEF Written
  <1>2. \A k \in Technologies : HalfWritten(k) => k = r.part
    BY DEF HalfWritten, Inv, OneWriting
  <1>3. CASE r.part \in Technologies /\ c \in Of(r.part)
    <2>1. r.part \in Kinds /\ {r.part} \in SUBSET Parts
      BY <1>3, PartsKnown DEF Technologies, Kinds
    <2>2. /\ Undisturbed(c) /\ calls'[c].kind = r.part
          /\ calls'[c].since = calls[c].since \cup {r.part}
      BY <1>3, <2>1, Heard DEF Written
    <2>3. Fresh(c)
      BY <2>2 DEF FreshInv
    <2> QED
      BY <1>1, <1>3, <2>2, <2>3 DEF Fresh, Of, Technologies
  <1>4. CASE ~(r.part \in Technologies /\ c \in Of(r.part))
    <2>1. calls'[c] = calls[c]
      <3>1. CASE r.part \in Technologies
        <4>1. r.part \in Kinds
          BY <3>1 DEF Technologies, Kinds
        <4> QED
          BY <1>4, <3>1, <4>1, Unheard DEF Written
      <3>2. CASE r.part \notin Technologies
        BY <3>2 DEF Written
      <3> QED
        BY <3>1, <3>2
    <2>2. Undisturbed(c) /\ Fresh(c)
      BY <2>1 DEF Undisturbed, FreshInv
    <2>3. \A k \in Kinds : (c \in Of(k))' <=> c \in Of(k)
      BY <2>1 DEF Of
    <2>4. \A k \in Technologies : c \in Of(k) => ~HalfWritten(k)
      BY <1>2, <1>4
    <2> QED
      BY <1>1, <2>1, <2>2, <2>3, <2>4 DEF Fresh, Kinds, Flagged, Technologies
  <1> QED
    BY <1>3, <1>4

LEMMA ModemFresh ==
    ASSUME Inv, FreshInv, Opens \/ Unplugs \/ Removes \/ Expires \/ UNCHANGED vars
    PROVE  FreshInv'
  <1> SUFFICES ASSUME NEW c \in Callers, Undisturbed(c)' PROVE Fresh(c)'
    BY DEF FreshInv
  <1>1. /\ \A f \in Flagged : done'[f] => done[f]
        /\ \A p \in {"supported", "preferred"} : memory'[p] # 0 => memory[p] # 0
        /\ UNCHANGED <<requests, writing>>
    BY PartsKnown DEF Opens, Unplugs, Removes, Expires, vars, Reinitialize
  <1>2. calls'[c] = Idle \/ calls'[c] = calls[c]
    <2>1. CASE Unplugs
      <3>1. calls[c] \in Calls
        BY DEF Inv, TypeOK
      <3>2. calls'[c] = Idle \/ calls'[c] = [calls[c] EXCEPT !.unplugged = TRUE]
        BY <2>1 DEF Unplugs
      <3> QED
        BY <3>1, <3>2 DEF Undisturbed, Calls
    <2> QED
      BY <2>1 DEF Opens, Removes, Expires, vars
  <1> QED
    BY <1>1, <1>2, FreshKept

LEMMA NextFresh == ASSUME Inv, FreshInv, [Next]_vars PROVE FreshInv'
  <1>1. CASE Answers
    <2>1. CASE writing = {} /\ \E r \in requests : Answer(r) \/ RadioCB(r) \/ PreferenceSet(r)
      BY <2>1, AnswerFresh, RadioCBFresh, WipesFresh DEF PreferenceSet
    <2>2. CASE \E r \in writing : WritesFirst(r) \/ Written(r)
      BY <2>2, WritesFirstFresh, WrittenFresh
    <2> QED
      BY <1>1, <2>1, <2>2 DEF Answers
  <1> QED
    BY <1>1, CallerFresh, ModemFresh DEF Next

\* What an undisturbed caller sees is complete, but for a list being written.
LEMMA SeenIsFresh ==
    ASSUME Inv, FreshInv, NEW c \in Callers, Looks(c), Undisturbed(c)
    PROVE  \/ PartsOf(calls[c].kind) \subseteq calls[c].since
           \/ calls[c].kind \in Technologies /\ HalfWritten(calls[c].kind)
  <1>1. calls[c].kind \in Kinds /\ Seen(c)
    BY DEF Looks, Waiting, Inv, TypeOK, Calls
  <1>2. Fresh(c)
    BY DEF FreshInv
  <1> QED
    BY <1>1, <1>2 DEF Fresh, Of, Seen, PartsOf, Kinds, Flagged, Technologies

(* A call that nobody was in the way of hands out what was read for it, all*)
(* of it unless it is a list of technologies that is still being written.  *)
THEOREM AloneIsFreshCorrect == Spec => AloneIsFresh
  <1>1. Inv /\ FreshInv /\ [Next]_vars =>
           [\A c \in Callers :
               Looks(c) /\ ~calls[c].shared /\ ~calls[c].failed /\ ~calls[c].unplugged
               => \/ PartsOf(calls[c].kind) \subseteq calls[c].since
                  \/ calls[c].kind \in Technologies /\ HalfWritten(calls[c].kind)]_vars
    BY SeenIsFresh DEF Undisturbed
  <1> QED
    BY <1>1, Invariance, FreshStart, InitInv, NextFresh, NextInv, PTL DEF Spec, AloneIsFresh

-----------------------------------------------------------------------------
(* The wait without a limit                                                *)

SignalParts == PartsOf("signal")

\* Calls for the signal that cross know of one another, and a removal is known
\* to every call it meets.
SignalInv ==
    /\ \A c, d \in Of("signal") : c = d \/ calls[c].shared
    /\ device # "open" => \A c \in Of("signal") : calls[c].unplugged
    /\ SignalIsOwed

LEMMA SignalStart == Init => SignalInv
  BY DEF Init, SignalInv, SignalIsOwed, Of, Idle

\* Steps that begin no call for the signal, forget no crossing, and take no
\* request for it away without raising the flag.
LEMMA SignalKept ==
    ASSUME SignalInv, device' = device \/ device' = "open",
           \A c \in Callers :
             calls'[c].kind = "signal" =>
               /\ calls[c].kind = "signal"
               /\ calls[c].shared => calls'[c].shared
               /\ calls[c].unplugged => calls'[c].unplugged,
           done["signal"] => done'["signal"],
           \A r \in requests : r.part \in SignalParts =>
             done'["signal"] \/ \E q \in requests' : q.part \in SignalParts
    PROVE  SignalInv'
  <1>1. \A c \in Of("signal")' :
          /\ c \in Of("signal")
          /\ calls[c].shared => calls'[c].shared
          /\ calls[c].unplugged => calls'[c].unplugged
    BY DEF Of
  <1>2. SignalIsOwed'
    BY <1>1 DEF SignalInv, SignalIsOwed, SignalParts
  <1> QED
    BY <1>1, <1>2 DEF SignalInv

\* A mark is added to a call.
LEMMA Marks ==
    ASSUME Inv, NEW c \in Callers, NEW b \in BOOLEAN,
           calls'[c] = [calls[c] EXCEPT !.shared = @ \/ b]
    PROVE  /\ calls'[c].kind = calls[c].kind /\ calls'[c].unplugged = calls[c].unplugged
           /\ calls'[c].shared = (calls[c].shared \/ b)
  BY DEF Inv, TypeOK, Calls

LEMMA SignalAsked ==
    ASSUME Inv, SignalInv, NEW e \in Callers, ~Waiting(e), device = "open", UNCHANGED device,
           NEW then \in {"return", "prefer"}, Asks(e, "signal", then)
    PROVE  SignalInv'
  <1>1. /\ calls'[e].kind = "signal" /\ calls'[e].unplugged = FALSE
        /\ calls'[e].shared = InTheWay("signal")
    BY DEF Asks, Begins, Idle, Inv, TypeOK
  <1>2. ASSUME NEW c \in Of("signal")', c # e
        PROVE  c \in Of("signal") /\ calls'[c].shared
    <2>1. c \in Callers /\ calls'[c] = [calls[c] EXCEPT !.shared = @ \/ c \in Of("signal")]
      BY <1>2 DEF Asks, Begins, Of
    <2>2. /\ calls'[c].kind = calls[c].kind
          /\ calls'[c].shared = (calls[c].shared \/ c \in Of("signal"))
      BY <2>1, Marks
    <2>3. calls'[c].kind = "signal"
      BY <1>2 DEF Of
    <2> QED
      BY <2>1, <2>2, <2>3 DEF Of
  <1>3. \A c, d \in Of("signal")' : c = d \/ calls'[c].shared
    BY <1>1, <1>2 DEF InTheWay
  <1>4. Request("info", e) \in requests' /\ Request("info", e).part \in PartsOf("signal")
    BY DEF Asks, Sends, First, Request, PartsOf
  <1>5. \E r \in requests' : r.part \in PartsOf("signal")
    BY <1>4
  <1> QED
    BY <1>3, <1>5 DEF SignalInv, SignalIsOwed

LEMMA SignalPrefers ==
    ASSUME Inv, SignalInv, NEW e \in Callers, Prefers(e), UNCHANGED device,
           done["signal"] => done'["signal"]
    PROVE  SignalInv'
  <1>1. requests \subseteq requests'
    BY DEF Prefers, Sends
  <1>2. ASSUME NEW c \in Callers, calls'[c].kind = "signal"
        PROVE  /\ calls[c].kind = "signal"
               /\ calls[c].shared => calls'[c].shared
               /\ calls[c].unplugged => calls'[c].unplugged
    <2>1. CASE c = e
      BY <1>2, <2>1 DEF Prefers, Idle
    <2>2. CASE c # e
      <3>1. calls'[c] = [calls[c] EXCEPT !.shared = @ \/ c \in Of("preferred")]
        BY <2>2 DEF Prefers
      <3> QED
        BY <1>2, <3>1, Marks
    <2> QED
      BY <2>1, <2>2
  <1> QED
    BY <1>1, <1>2, SignalKept

LEMMA SignalAsks ==
    ASSUME Inv, SignalInv, NEW e \in Callers, ~Waiting(e), IsOpen, UNCHANGED device,
           NEW k \in Kinds, NEW then \in {"return", "prefer"}, Asks(e, k, then)
    PROVE  SignalInv'
  <1>1. CASE k = "signal"
    <2>1. device = "open"
      BY <1>1 DEF Asks, LooksAtClient, removed, IsOpen, Inv, TypeOK, ModemTypeOK
    <2> QED
      BY <1>1, <2>1, SignalAsked
  <1>2. CASE k # "signal"
    <2>1. requests \subseteq requests' /\ done'["signal"] = done["signal"]
      BY <1>2 DEF Asks, Sends, Flagged, Inv, TypeOK
    <2>2. ASSUME NEW c \in Callers, calls'[c].kind = "signal"
          PROVE  /\ calls[c].kind = "signal"
                 /\ calls[c].shared => calls'[c].shared
                 /\ calls[c].unplugged => calls'[c].unplugged
      <3>1. CASE c = e
        BY <1>2, <2>2, <3>1 DEF Asks, Begins, Idle
      <3>2. CASE c # e
        <4>1. calls'[c] = [calls[c] EXCEPT !.shared = @ \/ c \in Of(k)]
          BY <3>2 DEF Asks, Begins
        <4> QED
          BY <2>2, <4>1, Marks
      <3> QED
        BY <3>1, <3>2
    <2> QED
      BY <2>1, <2>2, SignalKept
  <1> QED
    BY <1>1, <1>2

\* What a call that is over leaves to the others.
LEMMA ReturnsLeaves ==
    ASSUME Inv, NEW e \in Callers, Returns(e)
    PROVE  /\ \A c \in Callers : calls'[c].kind = "signal" =>
                 /\ c # e /\ calls[c].kind = "signal"
                 /\ calls[c].shared => calls'[c].shared
                 /\ calls[c].unplugged => calls'[c].unplugged
           /\ \A r \in requests : \E q \in requests' : q.part = r.part
  <1>1. CASE calls[e].then = "prefer"
    <2>1. Prefers(e)
      BY <1>1 DEF Returns
    <2>2. requests \subseteq requests'
      BY <2>1 DEF Prefers, Sends
    <2>3. ASSUME NEW c \in Callers, calls'[c].kind = "signal"
          PROVE  /\ c # e /\ calls[c].kind = "signal"
                 /\ calls[c].shared => calls'[c].shared
                 /\ calls[c].unplugged => calls'[c].unplugged
      <3>1. c # e
        BY <2>1, <2>3 DEF Prefers, Idle
      <3>2. calls'[c] = [calls[c] EXCEPT !.shared = @ \/ c \in Of("preferred")]
        BY <2>1, <3>1 DEF Prefers
      <3> QED
        BY <2>3, <3>1, <3>2, Marks
    <2> QED
      BY <2>2, <2>3
  <1>2. CASE calls[e].then # "prefer"
    <2>1. /\ calls' = [calls EXCEPT ![e] = Idle]
          /\ requests' = {IF r.caller = e THEN [r EXCEPT !.caller = "over"] ELSE r : r \in requests}
      BY <1>2 DEF Returns
    <2>2. \A r \in requests : [r EXCEPT !.caller = "over"].part = r.part
      BY DEF Inv, TypeOK, Requests
    <2>3. \A r \in requests : \E q \in requests' : q.part = r.part
      BY <2>1, <2>2
    <2> QED
      BY <2>1, <2>3 DEF Idle, Inv, TypeOK
  <1> QED
    BY <1>1, <1>2

LEMMA SignalCaller == ASSUME Inv, SignalInv, NEW e \in Callers, Caller(e) PROVE SignalInv'
  <1>1. UNCHANGED device
    BY DEF Caller
  <1>2. CASE Call(e)
    <2>1. ~Waiting(e) /\ IsOpen /\ "supported" \in Kinds
      BY <1>2 DEF Call, Kinds
    <2> QED
      BY <1>1, <1>2, <2>1, SignalAsks, SignalPrefers DEF Call, SetPreferred
  <1>3. CASE Looks(e)
    <2>1. Returns(e)
      BY <1>3 DEF Looks
    <2>2. CASE e \notin Of("signal")
      <3>1. UNCHANGED done
        BY <1>3, <2>2 DEF Looks
      <3> QED
        BY <1>1, <2>1, <3>1, ReturnsLeaves, SignalKept
    <2>3. CASE e \in Of("signal")
      <3>1. \A c \in Of("signal")' :
              /\ c # e /\ c \in Of("signal")
              /\ calls[c].shared => calls'[c].shared
              /\ calls[c].unplugged => calls'[c].unplugged
        BY <2>1, ReturnsLeaves DEF Of
      <3>2. \A c \in Of("signal")' : calls'[c].shared
        BY <2>3, <3>1 DEF SignalInv
      <3> QED
        BY <1>1, <3>1, <3>2 DEF SignalInv, SignalIsOwed
    <2> QED
      BY <2>2, <2>3
  <1>4. CASE TimesOut(e)
    <2>1. Returns(e) /\ UNCHANGED done
      BY <1>4 DEF TimesOut
    <2> QED
      BY <1>1, <2>1, ReturnsLeaves, SignalKept
  <1> QED
    BY <1>2, <1>3, <1>4 DEF Caller

LEMMA SignalHears ==
    ASSUME Inv, NEW k, NEW read \in SUBSET Parts, NEW failed \in BOOLEAN, NEW marked,
           Hears(k, read, failed, marked), NEW c \in Callers
    PROVE  /\ calls'[c].kind = calls[c].kind /\ calls'[c].shared = calls[c].shared
           /\ calls'[c].unplugged = calls[c].unplugged
  <1>1. calls[c] \in Calls
    BY DEF Inv, TypeOK
  <1>2. calls'[c] = calls[c] \/
        calls'[c] = [calls[c] EXCEPT !.since = @ \cup read, !.failed = @ \/ failed,
                                     !.answered = @ \/ c \in marked]
    BY DEF Hears
  <1> QED
    BY <1>1, <1>2 DEF Calls

LEMMA SignalAnswer ==
    ASSUME Inv, SignalInv, NEW r \in requests, Answer(r), UNCHANGED device PROVE SignalInv'
  <1>1. PICK read \in {FALSE, Succeeds(r)} :
          SignalCB(r, read) \/ PlmnCB(r, read) \/ StatsCB(r, read) \/ IdCB(r, read)
    BY DEF Answer
  <1>2. /\ read \in BOOLEAN /\ (~read) \in BOOLEAN
        /\ (IF read THEN {r.part} ELSE {}) \in SUBSET Parts
        /\ done \in [Flagged -> BOOLEAN] /\ r \in Requests
    <2>1. r.part \in Parts
      BY <1>1, PartsKnown DEF SignalCB, PlmnCB, StatsCB, IdCB, PartsOf
    <2>2. read \in BOOLEAN
      BY DEF Succeeds
    <2> QED
      BY <2>1, <2>2 DEF Inv, TypeOK
  <1>3. \E k, marked : Hears(k, IF read THEN {r.part} ELSE {}, ~read, marked)
    BY <1>1 DEF SignalCB, PlmnCB, StatsCB, IdCB
  <1>4. \A c \in Callers :
          /\ calls'[c].kind = calls[c].kind /\ calls'[c].shared = calls[c].shared
          /\ calls'[c].unplugged = calls[c].unplugged
    BY <1>2, <1>3, SignalHears
  <1>5. /\ done["signal"] => done'["signal"]
        /\ \A q \in requests : q = r \/ q \in requests'
    BY <1>1, <1>2 DEF SignalCB, PlmnCB, StatsCB, IdCB, Flagged
  <1>6. r.part \in SignalParts => done'["signal"] \/ \E q \in requests' : q.part \in SignalParts
    <2>1. CASE SignalCB(r, read)
      <3>1. CASE r.part = "info" /\ read
        <4>1. [r EXCEPT !.part = "tx"] \in requests' /\ [r EXCEPT !.part = "tx"].part = "tx"
          BY <1>2, <2>1, <3>1 DEF SignalCB, Requests
        <4>2. "tx" \in SignalParts
          BY DEF SignalParts, PartsOf
        <4> QED
          BY <4>1, <4>2
      <3>2. CASE ~(r.part = "info" /\ read)
        BY <1>2, <2>1, <3>2 DEF SignalCB, Flagged, PartsOf
      <3> QED
        BY <3>1, <3>2
    <2>2. CASE ~SignalCB(r, read)
      BY <1>1, <2>2 DEF PlmnCB, StatsCB, IdCB, SignalParts, PartsOf
    <2> QED
      BY <2>1, <2>2
  <1> QED
    BY <1>4, <1>5, <1>6, SignalKept

\* The answers about technologies are none of the signal's.
LEMMA SignalRadio ==
    ASSUME Inv, SignalInv, UNCHANGED <<device, done>>,
           \/ \E r \in requests : RadioCB(r) \/ PreferenceSet(r)
           \/ \E r \in writing : WritesFirst(r) \/ Written(r)
    PROVE  SignalInv'
  <1>1. \/ UNCHANGED calls
        \/ \E k, marked : \E read \in SUBSET Parts, failed \in BOOLEAN :
              Hears(k, read, failed, marked)
    <2>1. CASE \E r \in requests : RadioCB(r) \/ PreferenceSet(r)
      <3>1. {} \in SUBSET Parts /\ TRUE \in BOOLEAN
        OBVIOUS
      <3>2. ASSUME NEW r \in requests, RadioCB(r)
            PROVE  UNCHANGED calls \/ Hears(r.part, {}, TRUE, {})
        BY <3>2 DEF RadioCB, Wipes
      <3>3. ASSUME NEW r \in requests, PreferenceSet(r) PROVE UNCHANGED calls
        BY <3>3 DEF PreferenceSet, Wipes
      <3> QED
        BY <2>1, <3>1, <3>2, <3>3
    <2>2. CASE \E r \in writing : WritesFirst(r) \/ Written(r)
      <3>1. \A k \in Technologies : {k} \in SUBSET Parts /\ FALSE \in BOOLEAN
        BY PartsKnown DEF Technologies
      <3>2. ASSUME NEW r \in writing, WritesFirst(r) PROVE UNCHANGED calls
        BY <3>2 DEF WritesFirst
      <3>3. ASSUME NEW r \in writing, Written(r)
            PROVE  \/ UNCHANGED calls
                   \/ r.part \in Technologies /\ Hears(r.part, {r.part}, FALSE, {})
        BY <3>3 DEF Written
      <3> QED
        BY <2>2, <3>1, <3>2, <3>3
    <2> QED
      BY <2>1, <2>2
  <1>2. \A c \in Callers :
          /\ calls'[c].kind = calls[c].kind /\ calls'[c].shared = calls[c].shared
          /\ calls'[c].unplugged = calls[c].unplugged
    BY <1>1, SignalHears
  <1>3. \A q \in requests : q.part \in SignalParts => q \in requests'
    BY DEF RadioCB, PreferenceSet, Wipes, WritesFirst, Written, Technologies, SignalParts, PartsOf
  <1> QED
    BY <1>2, <1>3, SignalKept

LEMMA SignalNext == ASSUME Inv, SignalInv, [Next]_vars PROVE SignalInv'
  <1>1. CASE Answers
    <2>1. UNCHANGED device
      BY <1>1 DEF Answers
    <2>2. CASE \E r \in requests : Answer(r)
      BY <2>1, <2>2, SignalAnswer
    <2>3. CASE ~\E r \in requests : Answer(r)
      <3>1. \/ \E r \in requests : RadioCB(r) \/ PreferenceSet(r)
            \/ \E r \in writing : WritesFirst(r) \/ Written(r)
        BY <1>1, <2>3 DEF Answers
      <3>2. UNCHANGED done
        BY <3>1 DEF RadioCB, PreferenceSet, Wipes, WritesFirst, Written
      <3> QED
        BY <2>1, <3>1, <3>2, SignalRadio
    <2> QED
      BY <2>2, <2>3
  <1>2. CASE Opens \/ Expires \/ UNCHANGED vars
    BY <1>2, SignalKept DEF Opens, PluggedIn, Expires, vars
  <1>3. CASE Unplugs
    <2>1. \A c \in Callers :
             /\ calls[c] \in Calls
             /\ calls'[c] = IF Waiting(c) THEN [calls[c] EXCEPT !.unplugged = TRUE] ELSE Idle
      BY <1>3 DEF Unplugs, Inv, TypeOK
    <2>2. \A c \in Callers : calls'[c].kind = "signal" =>
             calls[c].kind = "signal" /\ calls'[c].unplugged /\ calls'[c].shared = calls[c].shared
      <3> SUFFICES ASSUME NEW c \in Callers, calls'[c].kind = "signal"
                   PROVE  calls[c].kind = "signal" /\ calls'[c].unplugged
                          /\ calls'[c].shared = calls[c].shared
        OBVIOUS
      <3>1. calls'[c] = [calls[c] EXCEPT !.unplugged = TRUE]
        BY <2>1 DEF Idle
      <3> QED
        BY <2>1, <3>1 DEF Calls
    <2>3. \A c \in Of("signal")' :
             c \in Of("signal") /\ calls'[c].unplugged /\ calls'[c].shared = calls[c].shared
      BY <2>2 DEF Of
    <2> QED
      BY <2>3 DEF SignalInv, SignalIsOwed
  <1>4. CASE Removes
    <2>1. device # "open" /\ UNCHANGED <<requests, calls>>
      BY <1>4 DEF Removes, Removed, removed
    <2>2. Of("signal")' = Of("signal")
      BY <2>1 DEF Of
    <2> QED
      BY <2>1, <2>2 DEF SignalInv, SignalIsOwed
  <1> QED
    BY <1>1, <1>2, <1>3, <1>4, SignalCaller DEF Next

(* A wait for the signal that nothing crossed is owed its answer: the flag *)
(* is up, or a request is out that raises it whatever comes of it.         *)
THEOREM SignalIsOwedCorrect == Spec => []SignalIsOwed
  <1>1. SignalInv => SignalIsOwed
    BY DEF SignalInv
  <1> QED
    BY <1>1, Invariance, SignalStart, InitInv, SignalNext, NextInv, PTL DEF Spec
=============================================================================
