------------------------------ MODULE Readings ------------------------------
(***************************************************************************)
(* What the QMI HAL reads from the modem for the data model and the radio  *)
(* events (cellular_hal_qmi_apis.c): signal, current network, statistics,  *)
(* identities, supported and preferred technologies.  A caller asks, then  *)
(* looks once a second for the answer, which a callback of the GLib thread *)
(* leaves in the memory all share.  A reading is told apart by its modem.  *)
(* A list of technologies is wiped and then written piece by piece where   *)
(* the callers look: its first byte is all they have to tell it is there.  *)
(***************************************************************************)
EXTENDS PluggedModem

CONSTANTS
    Callers,  \* threads that ask: the data model's, the monitor of the events
    Monitor,  \* the one that reads nothing but the signal
    MaxCalls  \* bound: calls made

ASSUME ReadingsAssumption == Monitor \in Callers /\ MaxCalls \in Nat

VARIABLES
    memory,   \* the modem each part of a reading is of; 0: wiped
    done,     \* bIsSignalInfoCollectionDone and its like, by kind
    kept,     \* kinds collected less than their time to live ago
    requests, \* requests not answered
    writing,  \* the request whose technologies the GLib thread is writing, if any
    calls,    \* what each caller is doing
    made      \* bound: calls made

vars == <<modem, device, memory, done, kept, requests, writing, calls, made>>

\* "id" stands for IMEI, software version, ICCID and MSISDN.
Kinds == {"signal", "plmn", "stats", "id", "supported", "preferred"}
Flagged == {"signal", "plmn", "stats"}
Technologies == {"supported", "preferred"}
PartsOf(k) == CASE k = "signal" -> {"info", "tx"}
                [] k = "stats"  -> {"packets", "rates"}
                [] OTHER        -> {k}
Parts == UNION {PartsOf(k) : k \in Kinds}

\* What a refused preference leaves in the memory: a value of no modem.
Unheeded == MaxPlugs + 1
Values == 0..Unheeded

\* A request is its part, its modem and its caller, or "over".
Requests == [part : Parts \cup {"prefer"}, modem : Modems, caller : Callers \cup {"over"}]

\* `then': what follows the answer; `answered': IsQueryDone of an identity's
\* own context.  History of the call: the parts read since it began, whether a
\* request of its kind failed, another call's was in its way, or the modem was
\* removed.
Calls == [kind : Kinds \cup {"none"}, then : {"return", "prefer"}, answered : BOOLEAN,
          since : SUBSET Parts, failed : BOOLEAN, shared : BOOLEAN, unplugged : BOOLEAN]

Idle == [kind |-> "none", then |-> "return", answered |-> FALSE,
         since |-> {}, failed |-> FALSE, shared |-> FALSE, unplugged |-> FALSE]

TypeOK ==
    /\ ModemTypeOK /\ memory \in [Parts -> Values] /\ done \in [Flagged -> BOOLEAN]
    /\ kept \subseteq {"plmn", "stats"} /\ requests \subseteq Requests
    /\ writing \subseteq Requests
    /\ calls \in [Callers -> Calls] /\ made \in 0..MaxCalls

Init ==
    /\ ModemInit /\ memory = [p \in Parts |-> 0] /\ done = [k \in Flagged |-> FALSE] /\ kept = {}
    /\ requests = {} /\ writing = {} /\ calls = [c \in Callers |-> Idle] /\ made = 0

Waiting(c) == calls[c].kind # "none"
Of(k) == {c \in Callers : calls[c].kind = k}

-----------------------------------------------------------------------------
(* A caller asks *)

Request(p, c) == [part |-> p, modem |-> modem, caller |-> c]

\* A client that was released with the device takes no request.
Sends(p, c) == requests' = IF device = "open" THEN requests \cup {Request(p, c)} ELSE requests

\* Calls and requests of one kind are in the way of one another, and so is a
\* preference being set.
InTheWay(k) ==
    \/ Of(k) # {}
    \/ \E r \in requests \cup writing : r.part \in PartsOf(k) \/ (r.part = "prefer" /\ k = "preferred")

\* Caller c waits for kind k.
Begins(c, k, then) ==
    calls' = [d \in Callers |->
        IF d = c THEN [Idle EXCEPT !.kind = k, !.then = then, !.shared = InTheWay(k)]
        ELSE [calls[d] EXCEPT !.shared = @ \/ d \in Of(k)]]

First(k) == CASE k = "signal" -> "info" [] k = "stats" -> "packets" [] OTHER -> k

\* Some look at their client before they ask; the others ask nobody when it
\* was released, and wait.
LooksAtClient == {"signal", "plmn", "preferred"}

\* What is held already is handed out without asking: what is within its time
\* to live, and identities and technologies once they are known.
Held(k) == \/ k \in kept
           \/ k \in Technologies \cup {"id"} /\ memory[k] # 0

\* Mutant: the flag of the last collection is left up.
Asks_FlagKept(c, k, then) ==
    /\ k \in LooksAtClient => ~removed
    /\ ~Held(k) /\ UNCHANGED done
    /\ Sends(First(k), c) /\ Begins(c, k, then)

\* cellular_hal_qmi_get_network_signal_information and the getters like it,
\* up to their loops.
Asks(c, k, then) ==
    /\ k \in LooksAtClient => ~removed
    /\ ~Held(k) /\ done' = [f \in Flagged |-> f # k /\ done[f]]
    /\ Sends(First(k), c) /\ Begins(c, k, then)

\* cellular_hal_qmi_set_preferred_radio_technology, once the supported
\* technologies have been asked for; it does not wait for the answer.
Prefers(c) ==
    /\ calls' = [d \in Callers |-> IF d = c THEN Idle
                                    ELSE [calls[d] EXCEPT !.shared = @ \/ d \in Of("preferred")]]
    /\ Sends("prefer", "over")

SetPreferred(c) ==
    /\ ~removed
    /\ \/ ~Held("supported") /\ Asks(c, "supported", "prefer")
       \/ Held("supported") /\ Prefers(c) /\ UNCHANGED done

\* A caller begins a call that asks the modem; one that finds what it wants
\* held changes nothing.
Call(c) ==
    /\ IsOpen /\ ~Waiting(c) /\ made < MaxCalls /\ made' = made + 1
    /\ \/ \E k \in Kinds : (c = Monitor => k = "signal") /\ Asks(c, k, "return")
       \/ c # Monitor /\ SetPreferred(c)
    /\ UNCHANGED <<memory, kept, writing>>

-----------------------------------------------------------------------------
(* A caller looks, once a second *)

Seen(c) == LET k == calls[c].kind IN
    CASE k \in Flagged -> done[k]
      [] k = "id"      -> calls[c].answered
      [] OTHER         -> memory[k] # 0

\* The call is over, and with it the context of an identity.
Returns(c) ==
    IF calls[c].then = "prefer" THEN Prefers(c)
    ELSE /\ calls' = [calls EXCEPT ![c] = Idle]
         /\ requests' = {IF r.caller = c THEN [r EXCEPT !.caller = "over"] ELSE r : r \in requests}

Looks(c) ==
    /\ Waiting(c) /\ Seen(c) /\ Returns(c)
    /\ done' = IF c \in Of("signal") THEN [done EXCEPT !["signal"] = FALSE] ELSE done
    /\ kept' = IF c \in Of("stats") THEN kept \cup {"stats"} ELSE kept
    /\ UNCHANGED <<memory, writing, made>>

\* Ten seconds are over; for the signal there is no limit.
TimesOut(c) ==
    /\ Waiting(c) /\ ~Seen(c) /\ c \notin Of("signal") /\ Returns(c)
    /\ UNCHANGED <<memory, done, kept, writing, made>>

-----------------------------------------------------------------------------
(* The GLib thread handles an answer.  u is what is left of the requests.    *)

\* A part was read, or the request failed: the calls that wait hear of it.
\* Identities: the context of the request, or the memory it was, is marked.
Hears(k, read, failed, marked) ==
    calls' = [c \in Callers |->
        IF c \in Of(k)
        THEN [calls[c] EXCEPT !.since = @ \cup read, !.failed = @ \/ failed,
                              !.answered = @ \/ c \in marked]
        ELSE calls[c]]

\* The answers store what was read; a signal forgets the power read before it.
Stores(p) == memory' = IF p = "info" THEN [memory EXCEPT !["info"] = modem, !["tx"] = 0]
                       ELSE [memory EXCEPT ![p] = modem]

\* A failure leaves the memory as it is, but for ICCID and MSISDN.
Forgets(p) == memory' \in {memory} \cup (IF p = "id" THEN {[memory EXCEPT !["id"] = 0]} ELSE {})

Succeeds(r) == device = "open" /\ r.modem = modem

\* Mutant: a reading that fails does not raise the flag.
SignalCB_FailureSilent(r, read) ==
    /\ r.part \in PartsOf("signal")
    /\ requests' = (requests \ {r}) \cup
           (IF r.part = "info" /\ read THEN {[r EXCEPT !.part = "tx"]} ELSE {})
    /\ done' = [done EXCEPT !["signal"] = @ \/ r.part = "tx"]
    /\ UNCHANGED kept /\ Hears("signal", IF read THEN {r.part} ELSE {}, ~read, {})

\* cellular_hal_qmi_get_network_signal_information_cb,
\* cellular_hal_qmi_get_transmit_receive_info
SignalCB(r, read) ==
    /\ r.part \in PartsOf("signal")
    /\ requests' = (requests \ {r}) \cup
           (IF r.part = "info" /\ read THEN {[r EXCEPT !.part = "tx"]} ELSE {})
    /\ done' = [done EXCEPT !["signal"] = @ \/ r.part = "tx" \/ ~read]
    /\ UNCHANGED kept /\ Hears("signal", IF read THEN {r.part} ELSE {}, ~read, {})

\* cellular_hal_qmi_get_current_plmn_network_info_ready: the time of the
\* collection is noted whatever came of it.
PlmnCB(r, read) ==
    /\ r.part = "plmn" /\ requests' = requests \ {r}
    /\ done' = [done EXCEPT !["plmn"] = TRUE] /\ kept' = kept \cup {"plmn"}
    /\ Hears("plmn", IF read THEN {"plmn"} ELSE {}, ~read, {})

\* cellular_hal_qmi_get_packet_statistics_cb, ..._get_channel_rates: each is
\* followed by what comes next, whatever came of it.
StatsCB(r, read) ==
    /\ r.part \in PartsOf("stats")
    /\ requests' = (requests \ {r}) \cup
           (IF r.part = "packets" /\ device = "open"
            THEN {[r EXCEPT !.part = "rates", !.modem = modem]} ELSE {})
    /\ done' = [done EXCEPT !["stats"] = @ \/ r.part = "rates"]
    /\ UNCHANGED kept /\ Hears("stats", IF read THEN {r.part} ELSE {}, ~read, {})

\* cellular_hal_qmi_get_modem_identification, ..._get_ccid, ..._get_get_msisdn.
\* The context of a call that is over is freed; the memory may be another's.
IdCB(r, read) ==
    /\ r.part = "id" /\ requests' = requests \ {r} /\ UNCHANGED <<done, kept>>
    /\ \E marked \in {{r.caller}} \cup (IF r.caller = "over" THEN {{}, Of("id")} ELSE {}) :
          Hears("id", IF read THEN {"id"} ELSE {}, ~read, marked)

Answer(r) ==
    \E read \in {FALSE, Succeeds(r)} :
        /\ SignalCB(r, read) \/ PlmnCB(r, read) \/ StatsCB(r, read) \/ IdCB(r, read)
        /\ IF read THEN Stores(r.part) ELSE Forgets(r.part)
        /\ UNCHANGED writing

\* The list an answer is for is wiped, to be written next.
Wipes(r) ==
    /\ requests' = requests \ {r} /\ writing' = {r}
    /\ memory' = [memory EXCEPT ![IF r.part = "prefer" THEN "preferred" ELSE r.part] = 0]
    /\ UNCHANGED <<done, kept, calls>>

\* cellular_hal_qmi_get_capabilities_cb, ..._get_technology_preference_cb: a
\* failure is not told to anyone.
RadioCB(r) ==
    /\ r.part \in Technologies
    /\ \/ Succeeds(r) /\ Wipes(r)
       \/ /\ requests' = requests \ {r} /\ Hears(r.part, {}, TRUE, {})
          /\ UNCHANGED <<memory, done, kept, writing>>

\* set_current_capabilities_set_technology_preference_cb, once it knows whether
\* the modem took the preference.  (One that did is first set offline and reset.)
PreferenceSet(r) == r.part = "prefer" /\ Wipes(r)

\* The first piece of the list.  What was asked for is noted as the preference
\* whether the modem took it or not.
WritesFirst(r) ==
    /\ \/ r.part \in Technologies /\ memory[r.part] = 0
          /\ memory' = [memory EXCEPT ![r.part] = modem]
       \/ r.part = "prefer" /\ memory["preferred"] = 0
          /\ \E value \in {Unheeded} \cup (IF Succeeds(r) THEN {modem} ELSE {}) :
                memory' = [memory EXCEPT !["preferred"] = value]
    /\ UNCHANGED <<done, kept, requests, writing, calls>>

\* The list is whole; one that names nothing the HAL knows has stayed empty.
Written(r) ==
    /\ writing' = {}
    /\ IF r.part \in Technologies THEN Hears(r.part, {r.part}, FALSE, {}) ELSE UNCHANGED calls
    /\ UNCHANGED <<memory, done, kept, requests>>

-----------------------------------------------------------------------------
(* The whole *)

Caller(c) == (Call(c) \/ Looks(c) \/ TimesOut(c)) /\ UNCHANGED <<modem, device>>

\* The GLib thread does one thing at a time: it also opens and removes modems.
Answers ==
    /\ ~removed
    /\ \/ writing = {} /\ \E r \in requests : Answer(r) \/ RadioCB(r) \/ PreferenceSet(r)
       \/ \E r \in writing : WritesFirst(r) \/ Written(r)
    /\ UNCHANGED <<modem, device, made>>

Opens ==
    /\ writing = {} /\ PluggedIn
    /\ UNCHANGED <<memory, done, kept, requests, writing, calls, made>>

Unplugs ==
    /\ writing = {} /\ Unplugged
    /\ calls' = [c \in Callers |-> IF Waiting(c) THEN [calls[c] EXCEPT !.unplugged = TRUE] ELSE Idle]
    /\ UNCHANGED <<memory, done, kept, requests, writing, made>>

\* Mutant: the memory of the removed modem is kept.
Reinitialize_MemoryKept == done' = [k \in Flagged |-> FALSE] /\ kept' = {} /\ UNCHANGED memory

\* cellular_hal_qmi_reinitialize_context
Reinitialize ==
    /\ memory' = [p \in Parts |-> 0] /\ done' = [k \in Flagged |-> FALSE] /\ kept' = {}

Removes == Removed /\ Reinitialize /\ UNCHANGED <<requests, writing, calls, made>>

\* A time to live is over.
Expires ==
    /\ \E k \in kept : kept' = kept \ {k}
    /\ UNCHANGED <<modem, device, memory, done, requests, writing, calls, made>>

Next == (\E c \in Callers : Caller(c)) \/ Answers \/ Opens \/ Unplugs \/ Removes \/ Expires

Spec == Init /\ [][Next]_vars

\* Callers look again after a second and give up after ten; libqmi answers or
\* fails each request within its own limit; the removal handler returns.
Fairness ==
    /\ \A c \in Callers : WF_vars((Looks(c) \/ TimesOut(c)) /\ UNCHANGED <<modem, device>>)
    /\ WF_vars(Answers) /\ WF_vars(Removes)

FairSpec == Spec /\ Fairness

-----------------------------------------------------------------------------
(* Properties *)

\* What is handed out is of the modem that is there, never of one that is gone:
\* nothing survives the wiping, and no answer that comes late brings it back.
\* The preferred technology alone may be one that was refused.
OfThisModem ==
    /\ \A p \in Parts : memory[p] \in {0, modem} \/ (p = "preferred" /\ memory[p] = Unheeded)
    /\ device = "closed" => \A p \in Parts : memory[p] \in {0, Unheeded}

\* The list kind k stands for is being written.
HalfWritten(k) == \E r \in writing : r.part = k

\* A call that nobody was in the way of and that nothing failed for hands out
\* what the modem has told since it began, and all of it: never the signal of
\* one reading with the power of another, nor what an earlier call collected.
\* The technologies alone may be handed out in part: the caller goes by the
\* first byte of a list that is still being written, though for this call.
AloneIsFresh ==
    [][\A c \in Callers :
          Looks(c) /\ ~calls[c].shared /\ ~calls[c].failed /\ ~calls[c].unplugged
          => \/ PartsOf(calls[c].kind) \subseteq calls[c].since
             \/ calls[c].kind \in Technologies /\ HalfWritten(calls[c].kind)]_vars

\* The wait for the signal has no limit: as long as neither another's call nor
\* a removal crossed it, the flag it looks for is up, or a request is out whose
\* answer or failure will raise it.
SignalIsOwed ==
    \A c \in Of("signal") :
        ~calls[c].shared /\ ~calls[c].unplugged
        => done["signal"] \/ \E r \in requests : r.part \in PartsOf("signal")

\* Every call returns, whatever fails: the waits with a limit always, the one
\* for the signal when neither another's call nor a removal crossed it.
CallsReturn ==
    \A c \in Callers :
        Waiting(c) ~> (~Waiting(c) \/ (c \in Of("signal") /\ (calls[c].shared \/ calls[c].unplugged)))
=============================================================================
