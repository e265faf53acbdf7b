------------------------ MODULE ProfileTasks_proofs ------------------------
(***************************************************************************)
(* Lemmas about ProfileTasks, for the proofs about the modules that use    *)
(* it: the listing of the modem's profiles that the model chooses exists,  *)
(* is in order and leaves no profile out, and what the chain of cases a    *)
(* task goes through comes to, whichever of them it stops at.              *)
(***************************************************************************)
EXTENDS ProfileTasks, FiniteSetTheorems, WellFoundedInduction, TLAPS

-----------------------------------------------------------------------------
(* Numbers                                                                 *)

\* Sets of numbers have least elements; for want of an induction rule the
\* provers can use, this stands in for induction.
LEMMA Least ==
    ASSUME NEW T, T \subseteq Nat, T # {}
    PROVE  \E n \in T : \A m \in T : n <= m
  <1>1. PICK n \in T : \A m \in T : <<m, n>> \notin OpToRel(<, Nat)
    BY NatLessThanWellFounded, WFMin, Zenon
  <1>2. \A m \in T : (m < n) => <<m, n>> \in OpToRel(<, Nat)
    BY SMT DEF OpToRel
  <1>3. \A m \in T : ~(m < n)
    BY <1>1, <1>2, Zenon
  <1> QED
    BY <1>3

LEMMA IdsNumbers == Ids \subseteq Nat \ {0}
  BY ConstantsAssumption DEF Ids

LEMMA Greatest ==
    ASSUME NEW T \in SUBSET Ids, T # {}
    PROVE  \E n \in T : \A m \in T : m <= n
  <1> DEFINE D == {MaxProfiles - n : n \in T}
  <1>1. MaxProfiles \in Nat /\ D \subseteq Nat /\ D # {}
    BY ConstantsAssumption DEF Ids
  <1>2. PICK d \in D : \A e \in D : d <= e
    BY <1>1, Least
  <1>3. PICK n \in T : d = MaxProfiles - n
    BY <1>2
  <1>4. ASSUME NEW m \in T PROVE m <= n
    <2>1. d <= MaxProfiles - m
      BY <1>2
    <2> QED
      BY <1>1, <1>3, <2>1 DEF Ids
  <1> QED
    BY <1>4

\* The choice of a first element.
LEMMA FirstExists ==
    ASSUME NEW T, T \subseteq Nat, T # {}
    PROVE  LET first == CHOOSE i \in T : \A j \in T : i <= j
           IN  first \in T /\ \A j \in T : first <= j
  BY Least

-----------------------------------------------------------------------------
(* Listings                                                                *)

IsListing(s, S) ==
    /\ s \in [1..Cardinality(S) -> S]
    /\ \A i, j \in DOMAIN s : i < j => s[i] < s[j]

LEMMA IdsFinite ==
    ASSUME NEW S \in SUBSET Ids
    PROVE  IsFiniteSet(S) /\ Cardinality(S) \in Nat
  <1>1. Ids = 1..MaxProfiles /\ MaxProfiles \in Int /\ 1 \in Int
    BY ConstantsAssumption DEF Ids
  <1>2. IsFiniteSet(Ids)
    BY <1>1, FS_Interval
  <1> QED
    BY <1>2, FS_Subset, FS_CardinalityType

\* A listing of all but the greatest is extended with the greatest.
LEMMA ListingExtends ==
    ASSUME NEW S \in SUBSET Ids, NEW m \in S, \A x \in S : x <= m,
           NEW s, IsListing(s, S \ {m})
    PROVE  \E r : IsListing(r, S)
  <1> DEFINE n == Cardinality(S)
  <1>1. n \in Nat /\ n # 0 /\ Cardinality(S \ {m}) = n - 1
    BY IdsFinite, FS_RemoveElement, FS_EmptySet
  <1> DEFINE r == [i \in 1..n |-> IF i = n THEN m ELSE s[i]]
  <1>2. s \in [1..(n - 1) -> S \ {m}] /\ \A i, j \in 1..(n - 1) : i < j => s[i] < s[j]
    BY <1>1 DEF IsListing
  <1> HIDE DEF n
  <1>3. \A i \in 1..n : r[i] \in S
    BY <1>1, <1>2
  <1>4. ASSUME NEW i \in 1..n, NEW j \in 1..n, i < j PROVE r[i] < r[j]
    <2>1. i \in 1..(n - 1) /\ r[i] = s[i] /\ s[i] \in S /\ s[i] # m /\ s[i] <= m
      BY <1>1, <1>2, <1>4
    <2>2. CASE j = n
      <3>1. s[i] \in Nat /\ m \in Nat /\ r[j] = m
        BY <2>1, <2>2, IdsNumbers
      <3> QED
        BY <2>1, <3>1
    <2>3. CASE j # n
      BY <1>1, <1>2, <1>4, <2>1, <2>3
    <2> QED
      BY <2>2, <2>3
  <1>5. r \in [1..n -> S] /\ DOMAIN r = 1..n
    BY <1>3
  <1> HIDE DEF r
  <1> QED
    BY <1>4, <1>5 DEF IsListing, n

LEMMA ListingExists == ASSUME NEW S \in SUBSET Ids PROVE \E s : IsListing(s, S)
  <1> DEFINE Without == {n \in Nat : \E R \in SUBSET Ids : Cardinality(R) = n /\ ~\E s : IsListing(s, R)}
  <1>1. SUFFICES Without = {}
    BY IdsFinite
  <1>2. SUFFICES ASSUME Without # {} PROVE FALSE
    OBVIOUS
  <1>3. PICK n \in Without : \A m \in Without : n <= m
    BY <1>2, Least
  <1>4. PICK R \in SUBSET Ids : Cardinality(R) = n /\ ~\E s : IsListing(s, R)
    BY <1>3
  <1>5. CASE R = {}
    <2>1. <<>> \in [1..0 -> R] /\ DOMAIN <<>> = {} /\ Cardinality(R) = 0
      BY <1>5, FS_EmptySet
    <2> QED
      BY <1>4, <2>1 DEF IsListing
  <1>6. CASE R # {}
    <2>1. PICK m \in R : \A x \in R : x <= m
      BY <1>6, Greatest
    <2>2. R \ {m} \in SUBSET Ids /\ Cardinality(R \ {m}) = n - 1 /\ n - 1 \in Nat
      <3>1. IsFiniteSet(R) /\ n \in Nat /\ n # 0
        BY <1>4, <1>6, IdsFinite, FS_EmptySet
      <3> QED
        BY <1>4, <2>1, <3>1, FS_RemoveElement
    <2>3. n - 1 \notin Without
      BY <1>3, <2>2
    <2>4. \E s : IsListing(s, R \ {m})
      BY <2>2, <2>3
    <2> QED
      BY <1>4, <2>1, <2>4, ListingExtends
  <1> QED
    BY <1>5, <1>6

(* The list of profiles a modem reports, which the handlers read entry by  *)
(* entry: it has every profile, once, in the order of the numbers.         *)
THEOREM AscendingListing ==
    ASSUME NEW S \in SUBSET Ids
    PROVE  LET s == Ascending(S)
           IN  /\ s \in [1..Cardinality(S) -> S] /\ s \in Seq(Ids)
               /\ Len(s) = Cardinality(S) /\ Len(s) \in Nat
               /\ \A x \in S : \E i \in 1..Len(s) : s[i] = x
               /\ \A i, j \in 1..Len(s) : i < j => s[i] < s[j]
               /\ S # {} => Len(s) > 0
  <1> DEFINE s == Ascending(S)
             n == Cardinality(S)
  <1>1. IsFiniteSet(S) /\ n \in Nat /\ (n = 0 <=> S = {})
    BY IdsFinite, FS_EmptySet
  <1>2. IsListing(s, S)
    <2>1. PICK r : IsListing(r, S)
      BY ListingExists
    <2> QED
      BY <2>1, Zenon DEF Ascending, IsListing
  <1> HIDE DEF s
  <1>3. s \in [1..n -> S] /\ \A i, j \in 1..n : i < j => s[i] < s[j]
    BY <1>2 DEF IsListing
  <1> HIDE DEF n
  <1>4. s \in Injection(1..n, S)
    <2>1. ASSUME NEW i \in 1..n, NEW j \in 1..n, s[i] = s[j] PROVE i = j
      <3>1. s[i] \in Nat /\ ~(i < j) /\ ~(j < i)
        <4>1. s[i] \in S /\ s[i] \in Nat
          BY <1>3, IdsNumbers
        <4> QED
          BY <1>3, <2>1, <4>1
      <3> QED
        BY <1>1, <3>1
    <2> QED
      BY <1>3, <2>1 DEF Injection, IsInjective
  <1>5. Cardinality(1..n) = n
    BY <1>1, FS_Interval
  <1>6. s \in Surjection(1..n, S)
    BY <1>1, <1>4, <1>5, FS_Injection DEF n
  <1>7. s \in Seq(Ids) /\ Len(s) = n
    BY <1>1, <1>3
  <1> QED
    BY <1>1, <1>3, <1>6, <1>7 DEF Surjection, s, n

-----------------------------------------------------------------------------
(* What the chain of cases comes to                                        *)

\* Task t becomes w, which is u at another step.
Turned(t, u, step, w) ==
    /\ tasks' = (tasks \ {t}) \cup {w}
    /\ profile' = IF u.told /\ t \notin tasks THEN "CONFIGURING" ELSE profile
    /\ w \in Tasks /\ w.step = step /\ w.op = u.op /\ w.told = u.told /\ w.in = u.in
    /\ w.ids = u.ids /\ w.pos = u.pos

\* Lists l and m are equal but for the default marks.
Marked(l, m) ==
    /\ m \in Seq(Profiles) /\ Len(m) = Len(l)
    /\ \A i \in 1..Len(l) : m[i].id = l[i].id /\ m[i].key = l[i].key

\* A creation or modification u has looked through the n profiles of l.
Settled(t, u, l, n) ==
    /\ Marked(l, list')
    /\ \/ /\ tasks' = tasks \ {t} /\ ~(u.op = "create" /\ u.in.dflt)
          /\ profile' = IF u.told THEN "READY" ELSE profile
       \/ \E w :
            /\ tasks' = (tasks \ {t}) \cup {w}
            /\ profile' = IF u.told /\ t \notin tasks THEN "CONFIGURING" ELSE profile
            /\ w \in Tasks /\ w.op = u.op /\ w.told = u.told
            /\ w.in.key = u.in.key /\ (u.in.dflt => w.in.dflt)
            /\ \/ w.step = u.op /\ w.in = u.in /\ (listed' => Matches(u, l, n) = {})
               \/ /\ w.step = "default"
                  /\ \E i \in 1..n : l[i].id = w.in.id /\ l[i].key = u.in.key

LEMMA WaitsTurns ==
    ASSUME NEW t, NEW u \in Tasks, NEW step \in Requests, Waits(t, u, step)
    PROVE  \E w : Turned(t, u, step, w)
  <1> DEFINE w == [u EXCEPT !.step = step]
  <1>1. /\ w \in Tasks /\ w.step = step /\ w.op = u.op /\ w.told = u.told /\ w.in = u.in
        /\ w.ids = u.ids /\ w.pos = u.pos
    BY DEF Tasks
  <1>2. /\ tasks' = (tasks \ {t}) \cup {w}
        /\ profile' = IF u.told /\ t \notin tasks THEN "CONFIGURING" ELSE profile
    BY DEF Waits
  <1> HIDE DEF w
  <1> QED
    BY <1>1, <1>2 DEF Turned

LEMMA RequestCases ==
    ASSUME NEW t, NEW u \in Tasks, u.op \in {"create", "modify"}, FromRequest(t, u)
    PROVE  \/ ~u.present /\ Waits(t, u, u.op)
           \/ u.present /\ Waits(t, u, "default")
           \/ u.present /\ Notifies(t, u) /\ ~(u.op = "create" /\ u.in.dflt)
  BY DEF FromRequest, FromDefault

LEMMA VerifySettles ==
    ASSUME NEW t, NEW u \in Tasks, u.op \in {"create", "modify"},
           NEW l \in Seq(Profiles), NEW n \in 0..Len(l), FromVerify(t, u, l, n)
    PROVE  Settled(t, u, l, n)
  <1>1. CASE (listed' => Matches(u, l, n) = {}) /\ list' = l
             /\ FromRequest(t, [u EXCEPT !.present = FALSE])
    <2>1. PICK v : v = [u EXCEPT !.present = FALSE]
      OBVIOUS
    <2>2. v \in Tasks /\ v.op = u.op /\ v.told = u.told /\ v.in = u.in /\ ~v.present
      BY <2>1 DEF Tasks
    <2>3. Waits(t, v, v.op) /\ v.op \in Requests
      BY <1>1, <2>1, <2>2, RequestCases DEF Requests
    <2>4. PICK w : Turned(t, v, v.op, w)
      BY <2>2, <2>3, WaitsTurns
    <2>5. Marked(l, list')
      BY <1>1 DEF Marked
    <2> QED
      BY <1>1, <2>2, <2>4, <2>5 DEF Settled, Turned
  <1>2. ASSUME NEW f \in Matches(u, l, n), NEW e, e = [l[f] EXCEPT !.dflt = @ \/ u.in.dflt],
               list' = [l EXCEPT ![f] = e],
               FromRequest(t, [u EXCEPT !.present = TRUE, !.in = e])
        PROVE  Settled(t, u, l, n)
    <2>1. f \in 1..n /\ f \in 1..Len(l) /\ l[f] \in Profiles /\ l[f].key = u.in.key
      BY DEF Matches
    <2>2. e \in Profiles /\ e.id = l[f].id /\ e.key = u.in.key /\ (u.in.dflt => e.dflt)
      BY <1>2, <2>1 DEF Profiles
    <2>3. Marked(l, list')
      BY <1>2, <2>1, <2>2 DEF Marked
    <2>4. PICK v : v = [u EXCEPT !.present = TRUE, !.in = e]
      OBVIOUS
    <2>5. v \in Tasks /\ v.op = u.op /\ v.told = u.told /\ v.in = e /\ v.present
      BY <2>2, <2>4 DEF Tasks
    <2>6. CASE Waits(t, v, "default")
      <3>1. PICK w : Turned(t, v, "default", w)
        BY <2>5, <2>6, WaitsTurns DEF Requests
      <3> QED
        BY <2>1, <2>2, <2>3, <2>5, <3>1 DEF Settled, Turned
    <2>7. CASE Notifies(t, v) /\ ~(v.op = "create" /\ v.in.dflt)
      BY <2>2, <2>3, <2>5, <2>7 DEF Settled, Notifies, ProfileStatusCB
    <2> QED
      BY <1>2, <2>4, <2>5, <2>6, <2>7, RequestCases
  <1>3. Matches(u, l, n) \subseteq Nat
    BY DEF Matches
  <1>4. CASE listed' /\ Matches(u, l, n) # {}
    BY <1>2, <1>3, <1>4, FirstExists DEF FromVerify
  <1>5. CASE ~(listed' /\ Matches(u, l, n) # {})
    BY <1>1, <1>5 DEF FromVerify
  <1> QED
    BY <1>4, <1>5

\* The requests an operation makes.
Fits(t) ==
    /\ t.step \in {"list", "entry"} => t.op # "modify"
    /\ t.step = "create" => t.op = "create"
    /\ t.step = "modify" => t.op = "modify"
    /\ t.step = "delete" => t.op = "delete"
    /\ t.step = "default" => t.op \in {"create", "modify"}
    /\ t.told => t.op = "create"
    /\ t.op \in {"create", "modify"} => t.in.key \in Keys

LEMMA AfterListSettles ==
    ASSUME NEW t \in Tasks, Fits(t), t.op # "modify", NEW l \in Seq(Profiles),
           count' \in 0..Len(l), AfterList(t, l)
    PROVE  \/ t.op # "create" /\ list' = l /\ tasks' = tasks \ {t} /\ UNCHANGED profile
           \/ t.op = "create" /\ Settled(t, t, l, count')
  <1>1. t.op \in {"list", "delete", "create"}
    BY DEF Tasks, Operations
  <1>2. CASE t.op = "create"
    BY <1>2, VerifySettles DEF AfterList
  <1>3. CASE t.op # "create"
    BY <1>1, <1>3 DEF AfterList, Ends, Notifies, ProfileStatusCB, Fits
  <1> QED
    BY <1>2, <1>3

\* Task t, which is u, goes on from its start, with the flag set to c.
Begun(t, u, c) ==
    /\ UNCHANGED <<listed, count>>
    /\ \/ /\ u.op \in {"create", "modify"} /\ (u.op = "create" => listed)
          /\ collected' = c /\ Settled(t, u, list, count)
       \/ \E w, step :
            /\ Turned(t, u, step, w) /\ UNCHANGED list
            /\ \/ step \in {"client", "number"} /\ collected' = c
               \/ step = "delete" /\ u.op = "delete" /\ collected' = c
               \/ /\ step = "list" /\ u.op # "modify" /\ (u.op = "create" => ~listed)
                  /\ collected' = FALSE

LEMMA AsksBegins ==
    ASSUME NEW t, NEW u \in Tasks, NEW c, NEW step \in Requests, Asks(t, u, step, c),
           \/ step \in {"client", "number"}
           \/ step = "delete" /\ u.op = "delete"
    PROVE  Begun(t, u, c)
  <1>1. PICK w : Turned(t, u, step, w)
    BY WaitsTurns DEF Asks
  <1> QED
    BY <1>1 DEF Begun, Asks

LEMMA ListBegins ==
    ASSUME NEW t, NEW u \in Tasks, NEW c, list \in Seq(Profiles), count \in 0..Len(list),
           FromList(t, u, c)
    PROVE  Begun(t, u, c)
  <1>1. CASE /\ u.op \in {"list", "delete"} \/ (u.op = "create" /\ ~listed)
             /\ Waits(t, u, "list") /\ collected' = FALSE
             /\ UNCHANGED <<listed, list, count>>
    <2>1. PICK w : Turned(t, u, "list", w)
      BY <1>1, WaitsTurns DEF Requests
    <2> QED
      BY <1>1, <2>1 DEF Begun
  <1>2. CASE /\ u.op = "modify" \/ (u.op = "create" /\ listed)
             /\ collected' = c /\ UNCHANGED <<listed, count>>
             /\ FromVerify(t, u, list, count)
    BY <1>2, VerifySettles DEF Begun
  <1> QED
    BY <1>1, <1>2 DEF FromList

LEMMA SettingsBegins ==
    ASSUME NEW t, NEW u \in Tasks, NEW c, list \in Seq(Profiles), count \in 0..Len(list),
           FromSettings(t, u, c)
    PROVE  Begun(t, u, c)
  <1>1. CASE Asks(t, u, "number", c)
    BY <1>1, AsksBegins DEF Requests
  <1>2. CASE u.op = "delete" /\ Asks(t, u, "delete", c)
    BY <1>2, AsksBegins DEF Requests
  <1>3. CASE FromList(t, u, c)
    BY <1>3, ListBegins
  <1> QED
    BY <1>1, <1>2, <1>3 DEF FromSettings

LEMMA ClientBegins ==
    ASSUME NEW t, NEW u \in Tasks, NEW c, list \in Seq(Profiles), count \in 0..Len(list),
           FromClient(t, u, c)
    PROVE  Begun(t, u, c)
  <1>1. CASE Asks(t, u, "client", c)
    BY <1>1, AsksBegins DEF Requests
  <1>2. CASE FromSettings(t, u, c)
    BY <1>2, SettingsBegins
  <1> QED
    BY <1>1, <1>2 DEF FromClient

-----------------------------------------------------------------------------
(* What the answers come to                                                *)

\* List m is l with the identifier of one entry set, but for default marks.
NamedTo(l, m, pos, id) ==
    /\ m \in Seq(Profiles) /\ Len(m) = Len(l)
    /\ \A i \in 1..Len(l) : m[i].key = l[i].key /\ m[i].id = IF i = pos THEN id ELSE l[i].id

LEMMA NamedList ==
    ASSUME NEW l \in Seq(Profiles), NEW pos \in Nat, NEW id \in Ids
    PROVE  NamedTo(l, Named(l, pos, id), pos, id)
  <1>1. CASE pos \notin 1..Len(l)
    BY <1>1 DEF Named, NamedTo
  <1>2. CASE pos \in 1..Len(l)
    <2> DEFINE e == [l[pos] EXCEPT !.id = id, !.dflt = (id = cachedId)]
    <2>1. l[pos] \in Profiles
      BY <1>2
    <2>2. e \in Profiles /\ e.id = id /\ e.key = l[pos].key
      BY <2>1 DEF Profiles
    <2>3. Named(l, pos, id) = [l EXCEPT ![pos] = e]
      BY <1>2 DEF Named
    <2>4. PICK m : m = [l EXCEPT ![pos] = e]
      OBVIOUS
    <2> HIDE DEF e
    <2>5. NamedTo(l, m, pos, id)
      BY <1>2, <2>2, <2>4 DEF NamedTo
    <2> QED
      BY <2>3, <2>4, <2>5
  <1> QED
    BY <1>1, <1>2

LEMMA ListReadEffect ==
    ASSUME NEW t \in Tasks, ListRead(t)
    PROVE  \E w :
             /\ tasks' = (tasks \ {t}) \cup {w}
             /\ profile' = IF t.told /\ t \notin tasks THEN "CONFIGURING" ELSE profile
             /\ w \in Tasks /\ w.step = "entry" /\ w.op = t.op /\ w.told = t.told /\ w.in = t.in
             /\ w.ids = Ascending(Held) /\ w.pos = 1 /\ Len(w.ids) \in Nat \ {0}
             /\ listed' /\ count' = Len(w.ids) /\ list' \in Seq(Profiles) /\ Len(list') = Len(w.ids)
             /\ \A i \in 1..Len(list') :
                  list'[i].key = Unread /\ list'[i].id = IF i = 1 THEN w.ids[1] ELSE 0
  <1>1. PICK ids : ids = Ascending(Held)
    OBVIOUS
  <1>2. Held \in SUBSET Ids
    BY DEF Held
  <1>3. Held # {}
    BY DEF ListRead
  <1>4. ids \in Seq(Ids) /\ Len(ids) \in Nat \ {0} /\ ids[1] \in Ids
    BY <1>1, <1>2, <1>3, AscendingListing
  <1>0. PICK b : b = [i \in DOMAIN ids |-> Blank]
    OBVIOUS
  <1>5. b \in Seq(Profiles) /\ Len(b) = Len(ids) /\ \A i \in 1..Len(ids) : b[i] = Blank
    <2>1. Blank \in Profiles
      BY DEF Blank, Profiles
    <2>2. b = [i \in 1..Len(ids) |-> Blank]
      BY <1>0, <1>4
    <2> QED
      BY <1>4, <2>1, <2>2
  <1>6. Blank.key = Unread /\ Blank.id = 0
    BY DEF Blank
  <1>7. /\ list' = Named(b, 1, ids[1]) /\ listed' /\ count' = Len(ids)
        /\ Waits(t, [t EXCEPT !.ids = ids, !.pos = 1], "entry")
    BY <1>0, <1>1 DEF ListRead
  <1>8. /\ list' \in Seq(Profiles) /\ Len(list') = Len(ids)
        /\ \A i \in 1..Len(list') :
             list'[i].key = Unread /\ list'[i].id = IF i = 1 THEN ids[1] ELSE 0
    <2>1. PICK m : m = Named(b, 1, ids[1])
      OBVIOUS
    <2>2. NamedTo(b, m, 1, ids[1])
      BY <1>4, <1>5, <2>1, NamedList
    <2>3. list' = m
      BY <1>7, <2>1
    <2> QED
      BY <1>4, <1>5, <1>6, <2>2, <2>3 DEF NamedTo
  <1>9. PICK u : u = [t EXCEPT !.ids = ids, !.pos = 1]
    OBVIOUS
  <1>10. /\ u \in Tasks /\ u.op = t.op /\ u.told = t.told /\ u.in = t.in
         /\ u.ids = ids /\ u.pos = 1
    BY <1>4, <1>9 DEF Tasks
  <1>11. PICK w : Turned(t, u, "entry", w)
    BY <1>7, <1>9, <1>10, WaitsTurns DEF Requests
  <1> QED
    BY <1>1, <1>4, <1>7, <1>8, <1>10, <1>11 DEF Turned

\* The answer has put the contents of a profile into the entry waited for.
EntryPut(t, l) ==
    /\ l \in Seq(Profiles) /\ Len(l) = Len(list)
    /\ \A i \in 1..Len(list) :
         l[i].id = list[i].id /\ l[i].key = IF i = t.pos THEN stored[t.ids[i]] ELSE list[i].key

EntryEnds(t, l) == t.pos >= Len(t.ids) /\ collected' = TRUE /\ AfterList(t, l)

EntryGoesOn(t, l) ==
    \E w :
      /\ tasks' = (tasks \ {t}) \cup {w}
      /\ profile' = IF t.told /\ t \notin tasks THEN "CONFIGURING" ELSE profile
      /\ w \in Tasks /\ w.step = "entry" /\ w.op = t.op /\ w.told = t.told /\ w.in = t.in
      /\ w.ids = t.ids /\ w.pos = t.pos + 1 /\ w.pos \in 1..Len(w.ids)
      /\ UNCHANGED collected
      /\ list' \in Seq(Profiles) /\ Len(list') = Len(list)
      /\ \A i \in 1..Len(list) :
           /\ list'[i].key = l[i].key
           /\ list'[i].id = IF i = w.pos THEN w.ids[i] ELSE list[i].id

LEMMA EntryReadEffect ==
    ASSUME NEW t \in Tasks, EntryRead(t), list \in Seq(Profiles),
           stored \in [Ids -> Keys \cup {Free}]
    PROVE  /\ stored[t.ids[t.pos]] \in Keys /\ t.ids[t.pos] \in Ids
           /\ \E l : EntryPut(t, l) /\ (EntryEnds(t, l) \/ EntryGoesOn(t, l))
  <1>1. t.ids[t.pos] \in Held /\ t.ids[t.pos] \in Ids /\ stored[t.ids[t.pos]] \in Keys
    BY DEF EntryRead, Held
  <1>2. t.ids \in Seq(Ids) /\ t.pos \in Nat /\ Len(t.ids) \in Nat
    BY DEF Tasks
  <1>0. PICK l : l = IF t.pos \in 1..Len(list)
                     THEN [list EXCEPT ![t.pos].key = stored[t.ids[t.pos]]] ELSE list
    OBVIOUS
  <1>3. EntryPut(t, l)
    <2>1. CASE t.pos \notin 1..Len(list)
      BY <1>0, <2>1 DEF EntryPut
    <2>2. CASE t.pos \in 1..Len(list)
      <3> DEFINE e == [list[t.pos] EXCEPT !.key = stored[t.ids[t.pos]]]
      <3>1. list[t.pos] \in Profiles
        BY <2>2
      <3>2. e \in Profiles /\ e.id = list[t.pos].id /\ e.key = stored[t.ids[t.pos]]
        BY <1>1, <3>1 DEF Profiles
      <3>3. l = [list EXCEPT ![t.pos] = e]
        BY <1>0, <2>2
      <3> HIDE DEF e
      <3> QED
        BY <2>2, <3>2, <3>3 DEF EntryPut
    <2> QED
      BY <2>1, <2>2
  <1>4. IF t.pos < Len(t.ids)
        THEN /\ list' = Named(l, t.pos + 1, t.ids[t.pos + 1])
             /\ UNCHANGED collected /\ Waits(t, [t EXCEPT !.pos = @ + 1], "entry")
        ELSE collected' = TRUE /\ AfterList(t, l)
    BY <1>0 DEF EntryRead
  <1>5. CASE ~(t.pos < Len(t.ids))
    <2>1. t.pos >= Len(t.ids)
      BY <1>2, <1>5
    <2>2. EntryEnds(t, l)
      BY <1>4, <1>5, <2>1 DEF EntryEnds
    <2> QED
      BY <1>1, <1>3, <2>2
  <1>6. CASE t.pos < Len(t.ids)
    <2>1. t.pos + 1 \in 1..Len(t.ids) /\ t.ids[t.pos + 1] \in Ids
      BY <1>2, <1>6
    <2>2. PICK u : u = [t EXCEPT !.pos = @ + 1]
      OBVIOUS
    <2>3. /\ u \in Tasks /\ u.op = t.op /\ u.told = t.told /\ u.in = t.in
          /\ u.ids = t.ids /\ u.pos = t.pos + 1
      BY <1>2, <2>2 DEF Tasks
    <2>4. PICK w : Turned(t, u, "entry", w)
      BY <1>4, <1>6, <2>2, <2>3, WaitsTurns DEF Requests
    <2>5. /\ list' \in Seq(Profiles) /\ Len(list') = Len(list)
          /\ \A i \in 1..Len(list) :
               list'[i].key = l[i].key
               /\ list'[i].id = IF i = t.pos + 1 THEN t.ids[t.pos + 1] ELSE l[i].id
      <3>1. PICK m : m = Named(l, t.pos + 1, t.ids[t.pos + 1])
        OBVIOUS
      <3>2. l \in Seq(Profiles) /\ Len(l) = Len(list) /\ t.pos + 1 \in Nat
        BY <1>2, <1>3 DEF EntryPut
      <3>3. NamedTo(l, m, t.pos + 1, t.ids[t.pos + 1])
        BY <2>1, <3>1, <3>2, NamedList
      <3>4. list' = m
        BY <1>4, <1>6, <3>1
      <3> QED
        BY <3>2, <3>3, <3>4 DEF NamedTo
    <2>6. /\ w \in Tasks /\ w.step = "entry" /\ w.op = t.op /\ w.told = t.told /\ w.in = t.in
          /\ w.ids = t.ids /\ w.pos = t.pos + 1 /\ w.pos \in 1..Len(w.ids)
          /\ tasks' = (tasks \ {t}) \cup {w}
          /\ profile' = IF t.told /\ t \notin tasks THEN "CONFIGURING" ELSE profile
      BY <2>1, <2>3, <2>4 DEF Turned
    <2>7. \A i \in 1..Len(list) :
             /\ list'[i].key = l[i].key
             /\ list'[i].id = IF i = w.pos THEN w.ids[i] ELSE list[i].id
      BY <1>3, <2>5, <2>6 DEF EntryPut
    <2>8. EntryGoesOn(t, l)
      BY <1>4, <1>6, <2>5, <2>6, <2>7 DEF EntryGoesOn
    <2> QED
      BY <1>1, <1>3, <2>8
  <1> QED
    BY <1>5, <1>6

LEMMA DefaultEffect ==
    ASSUME NEW t, NEW u \in Tasks, u.op \in {"create", "modify"}, FromDefault(t, u)
    PROVE  \/ /\ tasks' = tasks \ {t} /\ ~(u.op = "create" /\ u.in.dflt)
              /\ profile' = IF u.told THEN "READY" ELSE profile
           \/ \E w : Turned(t, u, "default", w)
  <1>1. CASE Waits(t, u, "default")
    BY <1>1, WaitsTurns DEF Requests
  <1>2. CASE Notifies(t, u) /\ ~(u.op = "create" /\ u.in.dflt)
    BY <1>2 DEF Notifies, ProfileStatusCB
  <1> QED
    BY <1>1, <1>2 DEF FromDefault

\* The modem has put the contents of task t into profile i, and what follows.
Stores(t, i) ==
    /\ i \in Ids /\ stored' = [stored EXCEPT ![i] = t.in.key] /\ changes' = changes + 1
    /\ UNCHANGED <<modemDefault, wds, cached, cachedId, listed, list, count, collected>>
    /\ \/ /\ tasks' = tasks \ {t} /\ ~(t.op = "create" /\ t.in.dflt)
          /\ profile' = IF t.told THEN "READY" ELSE profile
       \/ \E w :
            /\ tasks' = (tasks \ {t}) \cup {w}
            /\ profile' = IF t.told /\ t \notin tasks THEN "CONFIGURING" ELSE profile
            /\ w \in Tasks /\ w.step = "default" /\ w.op = t.op /\ w.told = t.told
            /\ w.in.id = i /\ w.in.key = t.in.key /\ w.in.dflt = t.in.dflt

LEMMA CreatedEffect ==
    ASSUME NEW t \in Tasks, t.op = "create", Created(t)
    PROVE  \E i \in Ids : i \notin Held /\ Stores(t, i)
  <1>1. Ids \ Held # {} /\ Ids \ Held \subseteq Nat
    BY IdsNumbers DEF Created, Held
  <1>2. PICK i : i = CHOOSE k \in Ids \ Held : \A j \in Ids \ Held : k <= j
    OBVIOUS
  <1>3. i \in Ids \ Held
    BY <1>1, <1>2, FirstExists
  <1>4. PICK u : u = [t EXCEPT !.in.id = i]
    OBVIOUS
  <1>5. /\ stored' = [stored EXCEPT ![i] = t.in.key] /\ changes' = changes + 1
        /\ UNCHANGED <<modemDefault, wds, cached, cachedId, listed, list, count, collected>>
        /\ FromDefault(t, u)
    BY <1>2, <1>4 DEF Created, cacheVars, listVars
  <1>6. /\ u \in Tasks /\ u.op = t.op /\ u.told = t.told
        /\ u.in.id = i /\ u.in.key = t.in.key /\ u.in.dflt = t.in.dflt
    <2>1. t.in \in Profiles
      BY DEF Tasks
    <2>2. PICK e : e = [t.in EXCEPT !.id = i]
      OBVIOUS
    <2>3. e \in Profiles /\ e.id = i /\ e.key = t.in.key /\ e.dflt = t.in.dflt
      BY <1>3, <2>1, <2>2 DEF Profiles
    <2>4. u = [t EXCEPT !.in = e]
      BY <1>4, <2>2 DEF Tasks
    <2> QED
      BY <2>3, <2>4 DEF Tasks
  <1>7. CASE \E w : Turned(t, u, "default", w)
    BY <1>3, <1>5, <1>6, <1>7 DEF Stores, Turned
  <1>8. CASE /\ tasks' = tasks \ {t} /\ ~(u.op = "create" /\ u.in.dflt)
             /\ profile' = IF u.told THEN "READY" ELSE profile
    BY <1>3, <1>5, <1>6, <1>8 DEF Stores
  <1> QED
    BY <1>5, <1>6, <1>7, <1>8, DefaultEffect

LEMMA ModifiedEffect ==
    ASSUME NEW t \in Tasks, t.op = "modify", Modified(t)
    PROVE  t.in.id \in Held /\ Stores(t, t.in.id)
  <1>1. /\ t.in.id \in Held /\ t.in.id \in Ids /\ FromDefault(t, t)
        /\ stored' = [stored EXCEPT ![t.in.id] = t.in.key] /\ changes' = changes + 1
        /\ UNCHANGED <<modemDefault, wds, cached, cachedId, listed, list, count, collected>>
    BY DEF Modified, cacheVars, listVars, Held
  <1> QED
    BY <1>1, DefaultEffect DEF Stores, Turned

\* A list is lost.
Lost(t) ==
    /\ t.step \in {"list", "entry"} /\ count' = 0 /\ collected' = TRUE
    /\ UNCHANGED <<listed, cached, cachedId>>
    /\ \/ t.op # "create" /\ list' = list /\ tasks' = tasks \ {t} /\ UNCHANGED profile
       \/ t.op = "create" /\ Settled(t, t, list, 0)

LEMMA FailureEffect ==
    ASSUME NEW t \in Tasks, Fits(t), Failure(t), list \in Seq(Profiles)
    PROVE  /\ UNCHANGED <<stored, modemDefault, wds, changes>>
           /\ \/ Lost(t)
              \/ /\ tasks' = tasks \ {t} /\ UNCHANGED <<listed, list, count, collected>>
                 /\ profile' = profile \/ profile' = "NOT_READY"
                 /\ \/ t.step = "number" /\ cached' = FALSE /\ cachedId' = 0
                    \/ UNCHANGED <<cached, cachedId>>
  <1>1. UNCHANGED <<stored, modemDefault, wds, changes>>
    BY DEF Failure, modemVars
  <1>2. CASE ListLost(t) /\ UNCHANGED cacheVars
    <2>1. /\ t.step \in {"list", "entry"} /\ count' = 0 /\ collected' = TRUE
          /\ UNCHANGED <<listed, cached, cachedId>> /\ AfterList(t, list)
      BY <1>2 DEF ListLost, cacheVars
    <2>2. t.op # "modify" /\ count' \in 0..Len(list)
      BY <2>1 DEF Fits
    <2>3. Lost(t)
      BY <2>1, <2>2, AfterListSettles DEF Lost
    <2> QED
      BY <1>1, <2>3
  <1>3. CASE Fails(t) /\ ~(ListLost(t) /\ UNCHANGED cacheVars)
    BY <1>1, <1>3 DEF Fails, Ends, ProfileStatusCB, listVars, cacheVars
  <1> QED
    BY <1>2, <1>3 DEF Failure

-----------------------------------------------------------------------------
(* The start of a task                                                     *)

\* Task t is begun by an operation.
Begins(op, input, told, t) ==
    /\ t \in Tasks /\ t.step = "client" /\ t.op = op /\ t.in = input /\ t.told = told
    /\ op = "list" => Begun(t, t, FALSE)
    /\ op # "list" => Begun(t, t, collected)

LEMMA OperationBegins ==
    ASSUME NEW op \in Operations, NEW input \in Profiles, NEW told \in BOOLEAN,
           begun \in Nat, list \in Seq(Profiles), count \in 0..Len(list), collected \in BOOLEAN,
           Operation(op, input, told)
    PROVE  \E t : Begins(op, input, told, t)
  <1>1. PICK c : c = (collected /\ op # "list")
    OBVIOUS
  <1>2. PICK t : t = NewTask(op, input, told)
    OBVIOUS
  <1>3. t \in Tasks /\ t.step = "client" /\ t.op = op /\ t.in = input /\ t.told = told
    <2>1. begun + 1 \in 1..MaxTasks
      BY ConstantsAssumption DEF Operation
    <2>2. <<>> \in Seq(Ids) /\ 0 \in Nat /\ "client" \in Requests /\ FALSE \in BOOLEAN
      BY DEF Requests
    <2> QED
      BY <1>2, <2>1, <2>2 DEF NewTask, Tasks
  <1>4. FromClient(t, t, c)
    BY <1>1, <1>2 DEF Operation
  <1>5. Begun(t, t, c)
    BY <1>3, <1>4, ClientBegins
  <1>6. c \in BOOLEAN /\ (op = "list" => c = FALSE) /\ (op # "list" => c = collected)
    BY <1>1
  <1> QED
    BY <1>3, <1>5, <1>6 DEF Begins
=============================================================================
