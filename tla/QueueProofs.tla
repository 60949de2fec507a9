---------------------------- MODULE QueueProofs -----------------------------
(***************************************************************************)
(* The queue serves the right page in the right order, for every table,    *)
(* policy and set of queries.  A page goes through three hands - the       *)
(* selection in the database's order, the filters, the sort - and each is  *)
(* shown to lose no case and to list none twice; the sort is the one that  *)
(* takes work, since it is defined by what it leaves and not by how.       *)
(***************************************************************************)
EXTENDS Queue, RecursionProofs, FiniteSetTheorems

(* A list names each case once, and exactly the cases of a set. *)
Lists(s, S) == /\ s \in Seq(Cases)
               /\ \A i, j \in 1..Len(s) : i # j => s[i] # s[j]
               /\ \A c \in Cases : c \in S <=> \E i \in 1..Len(s) : s[i] = c

(* place rearranges the list s into t, each place sorting before the next. *)
Arranges(place, s, t, basis, order) ==
    /\ place \in [1..Len(s) -> 1..Len(s)]
    /\ \A i, j \in 1..Len(s) :
          i < j => Before(s, basis, order, place[i], place[j])
    /\ t = [k \in 1..Len(s) |-> s[place[k]]]

-----------------------------------------------------------------------------
(* As many different elements as a finite set has are all of them. *)
LEMMA InjectiveIsOnto ==
  ASSUME NEW T, IsFiniteSet(T), NEW f \in [1..Cardinality(T) -> T],
         \A i, j \in 1..Cardinality(T) : i # j => f[i] # f[j]
  PROVE  \A t \in T : \E k \in 1..Cardinality(T) : f[k] = t
<1> DEFINE n == Cardinality(T)
<1>1. n \in Nat
  BY FS_CardinalityType
<1>2. IsFiniteSet(1..n) /\ Cardinality(1..n) = n
  BY <1>1, FS_Interval
<1>3. f \in Injection(1..n, T)
  BY DEF Injection, IsInjective
<1>4. f \in Surjection(1..n, T)
  BY <1>2, <1>3, FS_Injection
<1> QED
  BY <1>4 DEF Surjection

(* The database returns each selected row once, whatever the order. *)
LEMMA SelectionListsItsSet ==
  ASSUME NEW S \in SUBSET Cases, NEW r \in SetToSeqs(S)
  PROVE  Lists(r, S)
<1>1. IsFiniteSet(S)
  BY QueueAssumption, FS_Subset
<1>2. Cardinality(S) \in Nat
  BY <1>1, FS_CardinalityType
<1>3. /\ r \in [1..Cardinality(S) -> S]
      /\ \A i, j \in 1..Cardinality(S) : i # j => r[i] # r[j]
  BY DEF SetToSeqs
<1>4. \A c \in S : \E i \in 1..Cardinality(S) : r[i] = c
  BY <1>1, <1>3, InjectiveIsOnto
<1>5. r \in Seq(Cases) /\ Len(r) = Cardinality(S)
  BY <1>2, <1>3
<1> QED
  BY <1>3, <1>4, <1>5 DEF Lists

(* The filters keep a list a list. *)
LEMMA FilteringKeepsLists ==
  ASSUME NEW s, NEW S, NEW F, Lists(s, S)
  PROVE  Lists(Kept(s, F), S \cap F)
<1> DEFINE q == Kept(s, F)
<1>1. s \in Seq(Cases)
  BY DEF Lists
<1>2. q \in Seq(Cases \cap F)
  BY <1>1, KeptIsTyped
<1>3. PICK place : KeepsAt(place, q, Len(s), s, F)
  BY <1>1, KeptPositions
<1> HIDE DEF q
<1>4. Len(q) \in Nat /\ q \in Seq(Cases)
  BY <1>2
<1>5. ASSUME NEW i \in 1..Len(q), NEW j \in 1..Len(q), i # j
      PROVE  q[i] # q[j]
  <2>1. place[i] \in 1..Len(s) /\ place[j] \in 1..Len(s) /\ place[i] # place[j]
    BY <1>3, <1>4, <1>5 DEF KeepsAt
  <2> QED
    BY <1>3, <2>1 DEF KeepsAt, Lists
<1>6. ASSUME NEW c \in Cases
      PROVE  c \in S \cap F <=> \E i \in 1..Len(q) : q[i] = c
  <2>1. ASSUME c \in S \cap F PROVE \E i \in 1..Len(q) : q[i] = c
    <3>1. PICK m \in 1..Len(s) : s[m] = c
      BY <2>1 DEF Lists
    <3>2. PICK i \in 1..Len(q) : place[i] = m
      BY <1>3, <2>1, <3>1 DEF KeepsAt
    <3> QED
      BY <1>3, <3>1, <3>2 DEF KeepsAt
  <2>2. ASSUME NEW i \in 1..Len(q), q[i] = c PROVE c \in S \cap F
    BY <1>3, <2>2 DEF KeepsAt, Lists
  <2> QED
    BY <2>1, <2>2
<1> QED
  BY <1>4, <1>5, <1>6 DEF Lists, q

-----------------------------------------------------------------------------
(* Severities are numbers. *)
LEMMA SeverityIsTyped == \A c \in Cases : Severity(c) \in 0..2
BY DEF Severity

(* No place sorts before itself. *)
LEMMA NothingPrecedesItself ==
  ASSUME NEW s \in Seq(Cases), NEW basis, NEW order, NEW i \in 1..Len(s)
  PROVE  ~Before(s, basis, order, i, i)
<1>1. s[i] \in Cases
  OBVIOUS
<1>2. CreatedAt[s[i]] \in Nat /\ Severity(s[i]) \in 0..2
  BY <1>1, QueueAssumption, SeverityIsTyped
<1> QED
  BY <1>2 DEF Before, Precedes, Less

(* What the sort leaves is an arrangement of its list. *)
LEMMA SortingArranges ==
  ASSUME NEW s \in Seq(Cases), NEW basis, NEW order, NEW t \in SortedBy(s, basis, order)
  PROVE  \E place : Arranges(place, s, t, basis, order)
<1>1. DOMAIN s = 1..Len(s)
  OBVIOUS
<1>2. PICK place \in [DOMAIN s -> DOMAIN s] :
         /\ \A i, j \in DOMAIN s :
               i < j => Before(s, basis, order, place[i], place[j])
         /\ t = [k \in DOMAIN s |-> s[place[k]]]
  BY DEF SortedBy
<1>3. Arranges(place, s, t, basis, order)
  BY <1>1, <1>2 DEF Arranges
<1> QED
  BY <1>3

(* An arrangement uses every place of the list, and once. *)
LEMMA ArrangingPermutes ==
  ASSUME NEW s \in Seq(Cases), NEW t, NEW basis, NEW order, NEW place,
         Arranges(place, s, t, basis, order)
  PROVE  /\ \A i, j \in 1..Len(s) : i # j => place[i] # place[j]
         /\ \A m \in 1..Len(s) : \E k \in 1..Len(s) : place[k] = m
<1> DEFINE T == 1..Len(s)
<1>1. Len(s) \in Nat
  OBVIOUS
<1>2. place \in [T -> T]
  BY DEF Arranges
<1>3. ASSUME NEW i \in T, NEW j \in T, i < j PROVE place[i] # place[j]
  <2>1. Before(s, basis, order, place[i], place[j])
    BY <1>3 DEF Arranges
  <2>2. place[i] \in 1..Len(s)
    BY <1>2
  <2>3. ~Before(s, basis, order, place[i], place[i])
    BY <2>2, NothingPrecedesItself
  <2> QED
    BY <2>1, <2>3
<1>4. \A i, j \in T : i # j => place[i] # place[j]
  <2> SUFFICES ASSUME NEW i \in T, NEW j \in T, i # j PROVE place[i] # place[j]
    OBVIOUS
  <2>1. i < j \/ j < i
    BY <1>1
  <2> QED
    BY <1>3, <2>1
<1>5. IsFiniteSet(T) /\ Cardinality(T) = Len(s)
  BY <1>1, FS_Interval
<1>6. \A m \in T : \E k \in 1..Cardinality(T) : place[k] = m
  <2> HIDE DEF T
  <2>1. place \in [1..Cardinality(T) -> T]
    BY <1>2, <1>5 DEF T
  <2>2. \A i, j \in 1..Cardinality(T) : i # j => place[i] # place[j]
    BY <1>4, <1>5 DEF T
  <2> QED
    BY <1>5, <2>1, <2>2, InjectiveIsOnto
<1> QED
  BY <1>4, <1>5, <1>6

(* Sorting a list loses no case and doubles none. *)
LEMMA SortingKeepsLists ==
  ASSUME NEW s, NEW S, Lists(s, S), NEW t, NEW basis, NEW order, NEW place,
         Arranges(place, s, t, basis, order)
  PROVE  Lists(t, S)
<1>1. s \in Seq(Cases) /\ Len(s) \in Nat
  BY DEF Lists
<1>2. /\ \A i, j \in 1..Len(s) : i # j => place[i] # place[j]
      /\ \A m \in 1..Len(s) : \E k \in 1..Len(s) : place[k] = m
  BY <1>1, ArrangingPermutes
<1>3. /\ place \in [1..Len(s) -> 1..Len(s)]
      /\ t = [k \in 1..Len(s) |-> s[place[k]]]
  BY DEF Arranges
<1>4. t \in Seq(Cases) /\ Len(t) = Len(s)
  BY <1>1, <1>3
<1>5. \A k \in 1..Len(s) : t[k] = s[place[k]]
  BY <1>3
<1>6. ASSUME NEW i \in 1..Len(t), NEW j \in 1..Len(t), i # j
      PROVE  t[i] # t[j]
  <2>1. place[i] \in 1..Len(s) /\ place[j] \in 1..Len(s) /\ place[i] # place[j]
    BY <1>2, <1>3, <1>4, <1>6
  <2>2. s[place[i]] # s[place[j]]
    BY <2>1 DEF Lists
  <2> QED
    BY <1>4, <1>5, <2>2
<1>7. \A c \in Cases : c \in S <=> \E i \in 1..Len(t) : t[i] = c
  <2> SUFFICES ASSUME NEW c \in Cases
               PROVE  (\E m \in 1..Len(s) : s[m] = c) <=> \E i \in 1..Len(t) : t[i] = c
    BY DEF Lists
  <2>1. ASSUME NEW m \in 1..Len(s), s[m] = c PROVE \E i \in 1..Len(t) : t[i] = c
    BY <1>2, <1>4, <1>5, <2>1
  <2>2. ASSUME NEW i \in 1..Len(t), t[i] = c PROVE \E m \in 1..Len(s) : s[m] = c
    BY <1>3, <1>4, <1>5, <2>2
  <2> QED
    BY <2>1, <2>2
<1> QED
  BY <1>4, <1>6, <1>7 DEF Lists

-----------------------------------------------------------------------------
(* What is known of the process and of the request it serves. *)
Serving ==
    /\ policy \in Policies
    /\ step \in {"starting", "failed", "idle", "asked", "selected", "answered"}
    /\ status \in [Cases -> Statuses]
    /\ history \in [Cases -> SUBSET Statuses]
    /\ step \in {"asked", "selected", "answered"} => query \in Queries
    /\ step \notin {"starting", "failed"}
          => policy.default_sort \in policy.allowed_sorts

(* Until the rows are selected the history of a case ends in its status.   *)
Watched == step = "asked" => \A c \in Cases : status[c] \in history[c]

(* The selected rows: every case that was open all the time, and only      *)
(* cases that were open at some time.                                      *)
Selected ==
    step = "selected" =>
        \E S \in SUBSET Cases :
            /\ Lists(rows, S)
            /\ \A c \in S : history[c] \cap OpenStatuses # {}
            /\ \A c \in Cases : history[c] \subseteq OpenStatuses => c \in S

QInv == /\ Serving
        /\ Watched
        /\ Selected
        /\ PageIsTheOpenCases
        /\ PageIsInItsOrder

(* A filter passes the cases it was set to ask for. *)
LEMMA PassingIsWhatWasAsked ==
  ASSUME query \in Queries, NEW c \in Cases
  PROVE  Passes(query, c) <=> Asked(c)
<1>1. Amount[c] \in Nat /\ query.min_amount \in Int \cup {NoFilter}
  BY QueueAssumption
<1> QED
  BY <1>1 DEF Passes, Asked

(* The basis of a page is one the policy allows. *)
LEMMA BasisIsAllowed ==
  ASSUME policy.default_sort \in policy.allowed_sorts
  PROVE  SortBy(query) \in policy.allowed_sorts
BY DEF SortBy

(* A page from the top: c may stand above d. *)
MayStandAbove(basis, c, d) ==
    /\ basis = "case_age" => CreatedAt[c] >= CreatedAt[d]
    /\ basis # "case_age" => \/ Severity(c) > Severity(d)
                             \/ /\ Severity(c) = Severity(d)
                                /\ CreatedAt[c] >= CreatedAt[d]

(* Two places that sort one before the other, in the terms of the page.    *)
LEMMA BeforeIsTheOrder ==
  ASSUME NEW s \in Seq(Cases), NEW basis, NEW order,
         NEW i \in 1..Len(s), NEW j \in 1..Len(s), Before(s, basis, order, i, j)
  PROVE  IF order = "desc" THEN MayStandAbove(basis, s[i], s[j])
                           ELSE MayStandAbove(basis, s[j], s[i])
<1>1. s[i] \in Cases /\ s[j] \in Cases
  OBVIOUS
<1>2. /\ CreatedAt[s[i]] \in Nat /\ CreatedAt[s[j]] \in Nat
      /\ Severity(s[i]) \in 0..2 /\ Severity(s[j]) \in 0..2
  BY <1>1, QueueAssumption, SeverityIsTyped
<1>3. IF order = "desc" THEN Less(basis, s[j], s[i]) \/ ~Less(basis, s[i], s[j])
                        ELSE Less(basis, s[i], s[j]) \/ ~Less(basis, s[j], s[i])
  BY DEF Before, Precedes
<1> QED
  BY <1>2, <1>3 DEF Less, MayStandAbove

-----------------------------------------------------------------------------
LEMMA QueueStart == Init => QInv
BY DEF Init, QInv, Serving, Watched, Selected, PageIsTheOpenCases,
       PageIsInItsOrder, Answered

LEMMA StartKeeps ==
  ASSUME QInv, Start PROVE QInv'
BY DEF QInv, Start, Serving, Watched, Selected, PageIsTheOpenCases,
       PageIsInItsOrder, Answered

(* A request starts a history for every case. *)
LEMMA ReceiveKeeps ==
  ASSUME QInv, NEW q \in Queries, Receive(q) PROVE QInv'
<1> USE DEF QInv, Receive
<1>1. Serving'
  BY DEF Serving
<1>2. Watched'
  BY DEF Watched
<1>3. Selected' /\ PageIsTheOpenCases' /\ PageIsInItsOrder'
  BY DEF Selected, PageIsTheOpenCases, PageIsInItsOrder, Answered
<1> QED
  BY <1>1, <1>2, <1>3

(* A case that is open now was open at some time, and one that was open    *)
(* all the time is open now.                                               *)
LEMMA SelectKeeps ==
  ASSUME QInv, Select PROVE QInv'
<1>0. PICK S \in SUBSET Cases : S = {c \in Cases : status[c] \in OpenStatuses}
  OBVIOUS
<1>1. /\ step = "asked" /\ step' = "selected" /\ rows' \in SetToSeqs(S)
      /\ UNCHANGED <<policy, status, query, page, history>>
  BY <1>0 DEF Select
<1>2. Serving'
  BY <1>1 DEF QInv, Serving
<1>3. Lists(rows', S)
  BY <1>1, SelectionListsItsSet
<1>4. \A c \in S : history'[c] \cap OpenStatuses # {}
  BY <1>0, <1>1 DEF QInv, Watched
<1>5. \A c \in Cases : history'[c] \subseteq OpenStatuses => c \in S
  BY <1>0, <1>1 DEF QInv, Watched
<1>6. Lists(rows, S)'
  BY <1>3 DEF Lists
<1>7. Selected'
  BY <1>4, <1>5, <1>6 DEF Selected
<1>8. Watched' /\ PageIsTheOpenCases' /\ PageIsInItsOrder'
  BY <1>1 DEF Watched, PageIsTheOpenCases, PageIsInItsOrder, Answered
<1> QED
  BY <1>2, <1>7, <1>8 DEF QInv

(* A decision adds to a history; the rows are a snapshot. *)
LEMMA DecideKeeps ==
  ASSUME QInv, NEW c \in Cases, NEW action \in DispositionActions,
         Decide(c, action)
  PROVE  QInv'
<1>1. /\ step \in {"asked", "selected"}
      /\ status' = [status EXCEPT ![c] = Routing(action)]
      /\ history' = [history EXCEPT ![c] = @ \cup {Routing(action)}]
      /\ UNCHANGED <<policy, step, query, rows, page>>
  BY DEF Decide
<1>2. Routing(action) \in Statuses
  BY DEF Routing, Statuses, OpenStatuses, DispositionActions
<1>3. Serving'
  BY <1>1, <1>2 DEF QInv, Serving
<1>4. /\ \A e \in Cases : history[e] \subseteq history'[e]
      /\ history \in [Cases -> SUBSET Statuses]
      /\ status \in [Cases -> Statuses]
  BY <1>1, <1>2 DEF QInv, Serving
<1>5. Watched'
  BY <1>1, <1>2, <1>4 DEF QInv, Watched
<1>6. Selected'
  <2> SUFFICES ASSUME step = "selected" PROVE Selected'
    BY <1>1 DEF Selected
  <2>1. PICK S \in SUBSET Cases :
           /\ Lists(rows, S)
           /\ \A e \in S : history[e] \cap OpenStatuses # {}
           /\ \A e \in Cases : history[e] \subseteq OpenStatuses => e \in S
    BY DEF QInv, Selected
  <2>2. Lists(rows, S)'
    BY <1>1, <2>1 DEF Lists
  <2>3. /\ \A e \in S : history'[e] \cap OpenStatuses # {}
        /\ \A e \in Cases : history'[e] \subseteq OpenStatuses => e \in S
    BY <1>4, <2>1
  <2> QED
    BY <2>2, <2>3 DEF Selected
<1>7. PageIsTheOpenCases' /\ PageIsInItsOrder'
  BY <1>1 DEF PageIsTheOpenCases, PageIsInItsOrder, Answered
<1> QED
  BY <1>3, <1>5, <1>6, <1>7 DEF QInv

(* A page is made of the selected rows: filtered and sorted, none lost.    *)
LEMMA RespondKeeps ==
  ASSUME QInv, Respond PROVE QInv'
<1> DEFINE basis == SortBy(query)
           F == {c \in Cases : Passes(query, c)}
           kept == Kept(rows, F)
<1>1. /\ step = "selected" /\ step' = "answered" /\ rows' = <<>>
      /\ UNCHANGED <<policy, status, query, history>>
  BY DEF Respond
<1>2. PICK items \in SortedBy(kept, basis, policy.order) :
         page' = [ordering_basis |-> basis, order |-> policy.order, items |-> items]
  BY DEF Respond
<1>3. /\ page'.ordering_basis = basis /\ page'.order = policy.order
      /\ page'.items = items
  BY <1>2
<1>4. PICK S \in SUBSET Cases :
         /\ Lists(rows, S)
         /\ \A c \in S : history[c] \cap OpenStatuses # {}
         /\ \A c \in Cases : history[c] \subseteq OpenStatuses => c \in S
  BY <1>1 DEF QInv, Selected
<1>5. Lists(kept, S \cap F)
  <2> HIDE DEF F
  <2> QED
    BY <1>4, FilteringKeepsLists
<1>6. kept \in Seq(Cases)
  BY <1>5 DEF Lists
<1>7. PICK place : Arranges(place, kept, items, basis, policy.order)
  <2> HIDE DEF kept, basis
  <2> QED
    BY <1>2, <1>6, SortingArranges
<1>8. Lists(items, S \cap F)
  <2> HIDE DEF kept, basis, F
  <2> QED
    BY <1>5, <1>7, SortingKeepsLists
<1>9. DOMAIN items = 1..Len(items) /\ Len(items) \in Nat
  BY <1>8 DEF Lists
<1>10. query \in Queries
  BY <1>1 DEF QInv, Serving
<1>11. Serving' /\ Watched' /\ Selected'
  BY <1>1 DEF QInv, Serving, Watched, Selected
<1>12. PageIsTheOpenCases'
  <2> SUFFICES ASSUME NEW c \in Cases
               PROVE  LET places == {i \in DOMAIN items : items[i] = c}
                      IN  /\ history[c] \subseteq OpenStatuses /\ Asked(c)
                                => Cardinality(places) = 1
                          /\ places # {} => /\ history[c] \cap OpenStatuses # {}
                                            /\ Asked(c)
    BY <1>1, <1>3 DEF PageIsTheOpenCases, Asked
  <2> DEFINE places == {i \in DOMAIN items : items[i] = c}
  <2>1. Asked(c) <=> c \in F
    BY <1>10, PassingIsWhatWasAsked
  <2> HIDE DEF F, basis, kept
  <2>2. places # {} <=> c \in S \cap F
    BY <1>8, <1>9 DEF Lists
  <2>3. ASSUME NEW i \in places PROVE places = {i}
    BY <1>8, <1>9 DEF Lists
  <2>4. places # {} => Cardinality(places) = 1
    BY <2>3, FS_Singleton
  <2> QED
    BY <1>4, <2>1, <2>2, <2>4
<1>13. PageIsInItsOrder'
  <2>1. basis \in policy.allowed_sorts
    BY <1>1, BasisIsAllowed DEF QInv, Serving
  <2> HIDE DEF F, basis, kept
  <2>2. ASSUME NEW i \in DOMAIN items, NEW j \in DOMAIN items, i < j
        PROVE  IF policy.order = "desc"
               THEN MayStandAbove(basis, items[i], items[j])
               ELSE MayStandAbove(basis, items[j], items[i])
    <3>1. i \in 1..Len(kept) /\ j \in 1..Len(kept)
      BY <1>7, <2>2 DEF Arranges
    <3>2. /\ place[i] \in 1..Len(kept) /\ place[j] \in 1..Len(kept)
          /\ items[i] = kept[place[i]] /\ items[j] = kept[place[j]]
          /\ Before(kept, basis, policy.order, place[i], place[j])
      BY <1>7, <2>2, <3>1 DEF Arranges
    <3> QED
      BY <1>6, <3>2, BeforeIsTheOrder
  <2> QED
    BY <1>1, <1>3, <2>1, <2>2 DEF PageIsInItsOrder, MayStandAbove, Severity
<1> QED
  BY <1>11, <1>12, <1>13 DEF QInv

(* Every step of the queue keeps the invariant. *)
THEOREM QueueInvariance == Spec => []QInv
<1>1. QInv /\ [Next]_vars => QInv'
  <2> SUFFICES ASSUME QInv, [Next]_vars PROVE QInv'
    OBVIOUS
  <2>1. CASE Start
    BY <2>1, StartKeeps
  <2>2. ASSUME NEW q \in Queries, Receive(q) PROVE QInv'
    BY <2>2, ReceiveKeeps
  <2>3. CASE Select
    BY <2>3, SelectKeeps
  <2>4. CASE Respond
    BY <2>4, RespondKeeps
  <2>5. ASSUME NEW c \in Cases, NEW action \in DispositionActions, Decide(c, action)
        PROVE  QInv'
    BY <2>5, DecideKeeps
  <2>6. CASE UNCHANGED vars
    <3> USE <2>6 DEF vars, QInv
    <3>1. Serving' /\ Watched'
      BY DEF Serving, Watched
    <3>2. Selected'
      BY DEF Selected, Lists
    <3>3. PageIsTheOpenCases' /\ PageIsInItsOrder'
      BY DEF PageIsTheOpenCases, PageIsInItsOrder, Answered, Asked
    <3> QED
      BY <3>1, <3>2, <3>3
  <2> QED
    BY <2>1, <2>2, <2>3, <2>4, <2>5, <2>6 DEF Next
<1> QED
  BY <1>1, QueueStart, PTL DEF Spec

(* A page is exactly the open cases that were asked for, each of them once, *)
(* whatever is decided between the selection and the response.             *)
THEOREM PagesAreComplete == Spec => []PageIsTheOpenCases
BY QueueInvariance, PTL DEF QInv

(* A page is in the order it says, by a basis the policy allows; one that  *)
(* the service does not know is by risk.                                   *)
THEOREM PagesAreOrdered == Spec => []PageIsInItsOrder
BY QueueInvariance, PTL DEF QInv
=============================================================================
