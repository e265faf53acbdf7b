------------------------ MODULE NetworkScan_proofs ------------------------
(***************************************************************************)
(* Theorems about NetworkScan, for any number of modems, threads and       *)
(* switches to offline.  That an open modem is scanned rests on what a     *)
(* removal leaves behind: both flags down and no thread about to raise one *)
(* of them.  That one thread scans rests on what every stop leaves behind  *)
(* when nobody missed it: no thread that waits.                            *)
(***************************************************************************)
EXTENDS NetworkScan, FiniteSetTheorems, TLAPS

\* What a removal leaves to the next modem.
CleanWhenClosed ==
    device = "closed" => ~running /\ ~stop /\ \A t \in Threads : threads[t] # "created"

\* Before the first modem.
NothingYet == modem = 0 => device = "closed" /\ \A t \in Threads : threads[t] = "none"

Inv == TypeOK /\ NothingYet /\ NetworksOfThisModem /\ CleanWhenClosed /\ ScannedWhileOpen

\* What a stop leaves behind: nobody is about to wait, or waits.
NobodyWaits == \A t \in Threads : threads[t] \notin {"enters", "waits"}

Alone ==
    /\ \A t \in Threads, u \in Threads : threads[t] # "none" /\ threads[u] # "none" => t = u
    /\ device = "closed" => \A t \in Threads : threads[t] = "none"
    /\ device = "removing" => NobodyWaits
    /\ device = "open" /\ stop => NobodyWaits
    /\ device = "open" /\ ~stop /\ ~running =>
           \A t \in Threads : threads[t] \in {"none", "created"}

OnlyThread == ~missed => Alone

-----------------------------------------------------------------------------
(* The next modem finds nothing of the last, and is scanned *)

LEMMA InitInv == Init => Inv
  <1> SUFFICES ASSUME Init PROVE Inv
    OBVIOUS
  <1> USE DEF Init, ModemInit
  <1>1. TypeOK
    <2>1. offs \in 0..MaxOffs
      BY ScanAssumption DEF ScanAssumption
    <2>2. threads \in [Threads -> Stages]
      BY DEF Stages
    <2> QED
      BY <2>1, <2>2 DEF TypeOK, ModemTypeOK
  <1>2. NothingYet /\ NetworksOfThisModem /\ CleanWhenClosed /\ ScannedWhileOpen
    BY DEF NothingYet, NetworksOfThisModem, CleanWhenClosed, ScannedWhileOpen
  <1> QED
    BY <1>1, <1>2 DEF Inv

LEMMA ScanThreadInv ==
    ASSUME Inv, NEW t \in Threads, ScanThread(t)
    PROVE  Inv'
  <1> USE DEF Inv, ScanThread, historyVars, flagVars
  <1>1. TypeOK'
    <2>1. threads' \in [Threads -> Stages]
      BY DEF TypeOK, Starts, Checks, Waits, Wakes, Exits, Moves, Stages
    <2>2. scans' \subseteq Scans
      <3>1. CASE Exits(t)
        BY <3>1 DEF TypeOK, Exits, Scans
      <3>2. CASE Wakes(t) /\ ~Exits(t)
        BY <3>2 DEF TypeOK, Wakes, Scans, ModemTypeOK, NothingYet
      <3> QED
        BY <3>1, <3>2 DEF TypeOK, Starts, Checks, Waits, Wakes
    <2> QED
      BY <2>1, <2>2 DEF TypeOK, ModemTypeOK, Starts, Checks, Waits, Wakes
  <1>2. NothingYet' /\ NetworksOfThisModem' /\ CleanWhenClosed'
    BY DEF NothingYet, NetworksOfThisModem, CleanWhenClosed, TypeOK, Starts, Checks, Waits, Wakes, Exits, Moves
  <1>3. ScannedWhileOpen'
    BY DEF ScannedWhileOpen, Alive, TypeOK, Stages, Starts, Checks, Waits, Wakes, Exits, Moves,
           removed
  <1> QED
    BY <1>1, <1>2, <1>3

LEMMA AnswersInv == ASSUME Inv, Answers PROVE Inv'
  <1> USE DEF Inv, Answers, historyVars, flagVars
  <1>1. PICK s \in scans : ScanReady(s)
    OBVIOUS
  <1>2. TypeOK' /\ NothingYet' /\ NetworksOfThisModem'
    BY <1>1 DEF TypeOK, ModemTypeOK, ScanReady, NothingYet, NetworksOfThisModem
  <1>3. CleanWhenClosed' /\ ScannedWhileOpen'
    BY <1>1 DEF ScanReady, CleanWhenClosed, ScannedWhileOpen, Alive
  <1> QED
    BY <1>2, <1>3

\* The stop that a switch to offline and a removal share.
LEMMA StopsType ==
    ASSUME Inv, Stops
    PROVE  /\ stop' \in BOOLEAN /\ missed' \in BOOLEAN
           /\ threads' \in [Threads -> Stages]
           /\ networks' = 0 \/ networks' = networks
           /\ \A t \in Threads : threads'[t] # threads[t] => threads[t] = "waits" /\ threads'[t] = "awake"
  <1> USE DEF Inv, TypeOK, Moves, Stages
  <1>1. CASE SignalsStop
    BY <1>1 DEF SignalsStop
  <1>2. CASE UNCHANGED <<stop, threads, networks, missed>>
    BY <1>2
  <1> QED
    BY <1>1, <1>2 DEF Stops

LEMMA OfflineInv == ASSUME Inv, Offline PROVE Inv'
  <1> USE StopsType DEF Inv, Offline
  <1>1. offs' \in 0..MaxOffs
    BY ScanAssumption DEF TypeOK, ScanAssumption
  <1>2. TypeOK'
    BY <1>1 DEF TypeOK, ModemTypeOK
  <1>3. NothingYet' /\ NetworksOfThisModem' /\ CleanWhenClosed' /\ ScannedWhileOpen'
    BY DEF NothingYet, NetworksOfThisModem, CleanWhenClosed, ScannedWhileOpen
  <1> QED
    BY <1>2, <1>3

LEMMA UnplugsInv == ASSUME Inv, Unplugs PROVE Inv'
  <1> USE StopsType DEF Inv, Unplugs, Unplugged
  <1>1. TypeOK'
    BY DEF TypeOK, ModemTypeOK
  <1>2. NothingYet' /\ NetworksOfThisModem' /\ CleanWhenClosed' /\ ScannedWhileOpen'
    BY DEF NothingYet, NetworksOfThisModem, CleanWhenClosed, ScannedWhileOpen
  <1> QED
    BY <1>1, <1>2

LEMMA RemovesInv == ASSUME Inv, Removes PROVE Inv'
  <1> USE DEF Inv, Removes, Removed, removed, Reinitialize, historyVars
  <1>1. TypeOK'
    BY DEF TypeOK, ModemTypeOK
  <1>2. NothingYet' /\ NetworksOfThisModem' /\ CleanWhenClosed' /\ ScannedWhileOpen'
    BY DEF NothingYet, NetworksOfThisModem, CleanWhenClosed, ScannedWhileOpen, Settled
  <1> QED
    BY <1>1, <1>2

LEMMA OpensInv == ASSUME Inv, Opens PROVE Inv'
  <1> USE DEF Inv, Opens, PluggedIn, flagVars
  <1>1. modem' \in Modems /\ modem' # 0
    BY PlugsAssumption DEF TypeOK, ModemTypeOK, Modems, PlugsAssumption
  <1>2. PICK t \in Threads : threads[t] = "none" /\ Moves(t, "created")
    BY DEF ScanTask, CleanWhenClosed
  <1>3. threads' \in [Threads -> Stages] /\ threads'[t] = "created"
    BY <1>2 DEF TypeOK, Moves, Stages
  <1>4. TypeOK'
    BY <1>1, <1>3 DEF TypeOK, ModemTypeOK
  <1>5. NothingYet' /\ NetworksOfThisModem' /\ CleanWhenClosed'
    BY <1>1 DEF NothingYet, NetworksOfThisModem, CleanWhenClosed
  <1>6. ScannedWhileOpen'
    BY <1>3 DEF ScannedWhileOpen, Alive
  <1> QED
    BY <1>4, <1>5, <1>6

LEMMA NextInv == ASSUME Inv, [Next]_vars PROVE Inv'
  <1>1. CASE Registers
    BY <1>1 DEF Registers, historyVars, flagVars, Inv, TypeOK, ModemTypeOK, NothingYet,
           NetworksOfThisModem, CleanWhenClosed, ScannedWhileOpen, Alive
  <1>2. CASE UNCHANGED vars
    BY <1>2 DEF vars, historyVars, flagVars, Inv, TypeOK, ModemTypeOK, NothingYet,
           NetworksOfThisModem, CleanWhenClosed, ScannedWhileOpen, Alive
  <1> QED
    BY <1>1, <1>2, ScanThreadInv, AnswersInv, OfflineInv, UnplugsInv, RemovesInv, OpensInv
       DEF Next

-----------------------------------------------------------------------------
(* One thread scans *)

LEMMA ScanThreadAlone ==
    ASSUME TypeOK, Alone, NEW t \in Threads, ScanThread(t)
    PROVE  Alone'
  <1> USE DEF TypeOK, ModemTypeOK, Stages, ScanThread, Starts, Checks, Waits, Wakes, Exits, Moves,
          flagVars, removed
  <1>1. \A u \in Threads \ {t} : threads'[u] = threads[u] /\ threads[u] = "none"
    BY DEF Alone
  <1>2. device # "closed"
    BY DEF Alone
  <1>3. device = "removing" => NobodyWaits'
    BY <1>1 DEF Alone, NobodyWaits
  <1>4. device = "open" /\ stop' => NobodyWaits'
    BY <1>1 DEF Alone, NobodyWaits
  <1>5. device = "open" /\ ~stop' /\ ~running' => threads'[t] \in {"none", "created"}
    BY DEF Alone
  <1> QED
    BY <1>1, <1>2, <1>3, <1>4, <1>5 DEF Alone

LEMMA StopsAlone ==
    ASSUME TypeOK, Alone, device = "open", Stops, ~missed'
    PROVE  /\ ~missed
           /\ running => stop' /\ NobodyWaits'
           /\ ~running => NobodyWaits /\ UNCHANGED <<stop, threads>>
           /\ \A t \in Threads : threads'[t] # "none" => threads[t] # "none"
  <1>1. CASE running
    <2>1. SignalsStop
      BY <1>1 DEF Stops
    <2>2. ~missed /\ \A t \in Threads : threads[t] # "enters"
      BY <2>1 DEF SignalsStop, TypeOK
    <2>3. NobodyWaits' /\ \A t \in Threads : threads'[t] # "none" => threads[t] # "none"
      BY <2>1, <2>2 DEF SignalsStop, Moves, NobodyWaits, Alone, TypeOK
    <2> QED
      BY <1>1, <2>1, <2>2, <2>3 DEF SignalsStop
  <1>2. CASE ~running
    <2>1. NobodyWaits
      BY <1>2 DEF Alone, NobodyWaits, TypeOK
    <2> QED
      BY <1>2, <2>1 DEF Stops
  <1> QED
    BY <1>1, <1>2

LEMMA NextOnly == ASSUME Inv, OnlyThread, [Next]_vars PROVE OnlyThread'
  <1> SUFFICES ASSUME ~missed' PROVE Alone'
    BY DEF OnlyThread
  <1>t. TypeOK /\ CleanWhenClosed
    BY DEF Inv
  <1>1. CASE \E t \in Threads : ScanThread(t)
    BY <1>t, <1>1, ScanThreadAlone DEF OnlyThread, ScanThread, historyVars
  <1>2. CASE Offline
    <2>1. Alone
      BY <1>t, <1>2 DEF OnlyThread, Offline, Stops, SignalsStop, TypeOK
    <2> QED
      BY <1>t, <1>2, <2>1, StopsAlone DEF Offline, Alone, NobodyWaits
  <1>3. CASE Unplugs
    <2>1. Alone
      BY <1>t, <1>3 DEF OnlyThread, Unplugs, Stops, SignalsStop, TypeOK
    <2> QED
      BY <1>t, <1>3, <2>1, StopsAlone DEF Unplugs, Unplugged, Alone, NobodyWaits
  <1>4. CASE Removes
    BY <1>4 DEF Removes, Removed, removed, Settled, Reinitialize, OnlyThread, Alone, NobodyWaits,
           historyVars
  <1>5. CASE Opens
    <2>1. Alone /\ \A t \in Threads : threads[t] = "none"
      BY <1>5 DEF OnlyThread, Opens, PluggedIn, Alone
    <2>2. PICK t \in Threads : Moves(t, "created")
      BY <1>t, <1>5 DEF Opens, PluggedIn, ScanTask, CleanWhenClosed
    <2>3. \A u \in Threads : threads'[u] = IF u = t THEN "created" ELSE "none"
      BY <1>t, <2>1, <2>2 DEF Moves, TypeOK
    <2> QED
      BY <1>t, <1>5, <2>3 DEF Opens, PluggedIn, flagVars, CleanWhenClosed, Alone, NobodyWaits
  <1>6. CASE Registers \/ Answers \/ UNCHANGED vars
    BY <1>6 DEF Registers, Answers, ScanReady, vars, flagVars, historyVars, OnlyThread, Alone,
           NobodyWaits
  <1> QED
    BY <1>1, <1>2, <1>3, <1>4, <1>5, <1>6 DEF Next

LEMMA OnlyCounts == ASSUME OnlyThread PROVE OneScanThread
  <1> SUFFICES ASSUME ~missed PROVE ~(Cardinality(Alive) > 1)
    BY DEF OneScanThread
  <1>1. CASE Alive = {}
    BY <1>1, FS_EmptySet
  <1>2. CASE Alive # {}
    <2>1. PICK t \in Threads : Alive = {t}
      BY <1>2 DEF Alive, OnlyThread, Alone
    <2> QED
      BY <2>1, FS_Singleton
  <1> QED
    BY <1>1, <1>2

LEMMA Invariance == Spec => [](Inv /\ OnlyThread)
  <1>1. Init => OnlyThread
    BY DEF Init, ModemInit, OnlyThread, Alone
  <1> QED
    BY <1>1, InitInv, NextInv, NextOnly, PTL DEF Spec

(* Every variable keeps to its type.                                       *)
THEOREM TypeCorrect == Spec => []TypeOK
  BY Invariance, PTL DEF Inv

(* The networks handed out are those of the modem that is there.           *)
THEOREM NetworksOfThisModemCorrect == Spec => []NetworksOfThisModem
  BY Invariance, PTL DEF Inv

(* An open modem that was not set offline is scanned.                      *)
THEOREM ScannedWhileOpenCorrect == Spec => []ScannedWhileOpen
  BY Invariance, PTL DEF Inv

(* Two threads scan only after one of them missed the signal to stop.      *)
THEOREM OneScanThreadCorrect == Spec => []OneScanThread
  BY Invariance, OnlyCounts, PTL
=============================================================================
