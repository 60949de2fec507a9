---------------------------- MODULE FeatureProofs ----------------------------
(***************************************************************************)
(* The point-in-time features are exact for every frame and every lookback: *)
(* the transaction count of the window, and the counterparty features; and, *)
(* in a second layer, the sums of the window and of the account's baseline. *)
(***************************************************************************)
EXTENDS FeatureBuilder, RecursionProofs, FiniteSetTheorems

(* Accounts are contiguous and, within an account, rows are in time order. *)
Sorted ==
    at # "unsorted" =>
        \A j, k \in DOMAIN frame : j < k =>
            \/ frame[j].account < frame[k].account
            \/ /\ frame[j].account = frame[k].account
               /\ frame[j].event_ts <= frame[k].event_ts

(* Where the pass is: between rows the current account is that of the row  *)
(* just done; within a row, of the row itself.  The account's rows so far  *)
(* are those from acct_start on.                                           *)
Position ==
    /\ at = "unsorted" => i = 1 /\ out = <<>>
    /\ at # "evict" /\ i = 1 => prev_acct = None
    /\ at = "enter" /\ i > 1 => prev_acct = frame[i - 1].account /\ acct_start < i
    /\ at = "evict" => i <= Len(frame) /\ prev_acct = frame[i].account
    /\ prev_acct # None =>
         \A j \in 1..(i - 1) : frame[j].account = prev_acct <=> acct_start <= j

(* The window holds the rows from lo on, up to the row before the current  *)
(* one; the account's rows left of lo have expired for good.               *)
WindowIsContiguous ==
    LET last == IF at = "evict" THEN i ELSE i - 1
    IN  prev_acct # None =>
          /\ acct_start <= lo /\ lo <= last
          /\ window_count = last - lo
          /\ \A j \in acct_start..(lo - 1) :
                frame[j].event_ts < frame[last].event_ts - Window

SeenSoFar == prev_acct # None => seen_cps = Partners(acct_start..(i - 1))

FInv == /\ TypeOK
        /\ Sorted
        /\ Position
        /\ WindowIsContiguous
        /\ SeenSoFar
        /\ CountIsExact
        /\ CounterpartiesAreExact

-----------------------------------------------------------------------------
(* The values in the rows of a typed frame. *)
LEMMA RowsAreTyped ==
    ASSUME TypeOK
    PROVE  \A j \in 1..Len(frame) : /\ frame[j].account \in Nat
                                   /\ frame[j].event_ts \in Nat
                                   /\ frame[j].amount \in Nat
                                   /\ frame[j].counterparty \in Nat
<1>1. \A j \in 1..Len(frame) : frame[j] \in Txn
  BY DEF TypeOK
<1> QED
  BY <1>1 DEF Txn

(* The set of partners of finitely many rows is finite. *)
LEMMA PartnersAreFinite ==
    ASSUME NEW a \in Int, NEW b \in Int
    PROVE  IsFiniteSet(Partners(a..b)) /\ Cardinality(Partners(a..b)) \in Nat
<1> DEFINE partner == [j \in a..b |-> frame[j].counterparty]
<1>1. IsFiniteSet(a..b)
  BY FS_Interval
<1>2. partner \in Surjection(a..b, Partners(a..b))
  BY DEF Partners, Surjection
<1>3. IsFiniteSet(Partners(a..b))
  BY <1>1, <1>2, FS_Surjection
<1> QED
  BY <1>3, FS_CardinalityType

(* The invariant holds before the sort.                                    *)
LEMMA Start == Init => FInv
BY FeatureAssumption
   DEF Init, FInv, TypeOK, Sorted, Position, WindowIsContiguous, SeenSoFar,
       CountIsExact, CounterpartiesAreExact, Rows

(* Sorting leaves a sorted frame of as many rows. *)
LEMMA SortKeeps ==
    ASSUME FInv, Sort PROVE FInv'
<1>1. PICK place \in [DOMAIN frame -> DOMAIN frame] :
          /\ \A j, k \in DOMAIN frame : j < k => Before(place[j], place[k])
          /\ frame' = [k \in DOMAIN frame |-> frame[place[k]]]
  BY DEF Sort
<1>2. at = "unsorted" /\ at' = "enter" /\ i = 1 /\ out = <<>> /\ prev_acct = None
      /\ UNCHANGED <<i, account, window, out>>
  BY DEF Sort, FInv, Position
<1>3. frame' \in Seq(Txn) /\ Len(frame') = Len(frame) /\ DOMAIN frame' = DOMAIN frame
  BY <1>1 DEF FInv, TypeOK
<1>4. Sorted'
  <2>1. \A j, k \in DOMAIN frame :
          Before(j, k) => \/ frame[j].account < frame[k].account
                          \/ /\ frame[j].account = frame[k].account
                             /\ frame[j].event_ts <= frame[k].event_ts
    <3>1. \A j \in DOMAIN frame : frame[j].event_ts \in Nat
      BY RowsAreTyped DEF FInv, TypeOK
    <3> QED
      BY <3>1 DEF Before
  <2>2. \A j \in DOMAIN frame : place[j] \in DOMAIN frame /\ frame'[j] = frame[place[j]]
    BY <1>1
  <2> QED
    BY <1>1, <1>3, <2>1, <2>2 DEF Sorted
<1>5. TypeOK'
  BY <1>2, <1>3 DEF FInv, TypeOK, account, window
<1>6. Position' /\ WindowIsContiguous' /\ SeenSoFar'
  BY <1>2 DEF Position, WindowIsContiguous, SeenSoFar, account, window
<1>7. CountIsExact' /\ CounterpartiesAreExact'
  BY <1>2 DEF CountIsExact, CounterpartiesAreExact, Rows
<1> QED
  BY <1>4, <1>5, <1>6, <1>7 DEF FInv

(* What was written stays exact while the frame and the output stay. *)
LEMMA WrittenStays ==
    ASSUME FInv, at # "unsorted", at' # "unsorted", UNCHANGED <<frame, out>>
    PROVE  Sorted' /\ CountIsExact' /\ CounterpartiesAreExact'
BY DEF FInv, Sorted, CountIsExact, CounterpartiesAreExact, Rows, Earlier,
       Recent, Partners

(* The reset at an account boundary makes window and past empty.           *)
LEMMA EnterAccountKeeps ==
    ASSUME FInv, EnterAccount PROVE FInv'
<1> USE DEF FInv, EnterAccount, Reset
<1>0. \A j \in 1..Len(frame) : frame[j].account \in Nat
  BY RowsAreTyped
<1>1. Sorted' /\ CountIsExact' /\ CounterpartiesAreExact'
  BY WrittenStays
<1>2. TypeOK'
  BY <1>0 DEF TypeOK, account
<1>3. \A j \in 1..(i - 1) : frame[j].account # frame[i].account
  <2>1. CASE i = 1
    BY <2>1
  <2>2. CASE i > 1
    <3>1. prev_acct = frame[i - 1].account /\ frame[i - 1].account # frame[i].account
      BY <2>2 DEF Position, TypeOK
    <3>2. frame[i - 1].account < frame[i].account
      BY <2>2, <3>1 DEF Sorted, TypeOK
    <3>3. \A j \in 1..(i - 1) : frame[j].account <= frame[i - 1].account
      BY <1>0, <2>2 DEF Sorted, TypeOK
    <3> QED
      BY <1>0, <2>2, <3>2, <3>3 DEF TypeOK
  <2> QED
    BY <2>1, <2>2 DEF TypeOK
<1>4. Position'
  BY <1>3 DEF Position, TypeOK
<1>5. WindowIsContiguous' /\ SeenSoFar'
  BY DEF WindowIsContiguous, SeenSoFar, Partners, TypeOK
<1> QED
  BY <1>1, <1>2, <1>4, <1>5

(* The preceding row enters the window from the right.                     *)
LEMMA EnterRowKeeps ==
    ASSUME FInv, EnterRow PROVE FInv'
<1> USE DEF FInv, EnterRow
<1>1. Sorted' /\ CountIsExact' /\ CounterpartiesAreExact'
  BY WrittenStays
<1>2. prev_acct # None /\ i > 1 /\ frame[i].account = frame[i - 1].account
  BY FeatureAssumption, RowsAreTyped DEF Position, TypeOK
<1>3. TypeOK'
  BY <1>2, RowsAreTyped DEF TypeOK, account
<1>4. Position' /\ SeenSoFar'
  BY <1>2 DEF Position, SeenSoFar, Partners, TypeOK, account
<1>5. frame[i - 1].event_ts <= frame[i].event_ts
  BY <1>2 DEF Sorted, TypeOK
<1>6. \A j \in 1..Len(frame) : frame[j].event_ts \in Nat
  BY RowsAreTyped
<1>7. /\ acct_start <= lo /\ lo <= i - 1 /\ window_count = i - 1 - lo
      /\ \A j \in acct_start..(lo - 1) :
            frame[j].event_ts < frame[i - 1].event_ts - Window
  BY <1>2 DEF WindowIsContiguous
<1>8. \A j \in acct_start..(lo - 1) : frame[j].event_ts < frame[i].event_ts - Window
  <2> SUFFICES ASSUME NEW j \in acct_start..(lo - 1)
               PROVE  frame[j].event_ts < frame[i].event_ts - Window
    OBVIOUS
  <2>1. j \in 1..Len(frame) /\ i - 1 \in 1..Len(frame) /\ i \in 1..Len(frame)
    BY <1>2, <1>7 DEF TypeOK
  <2>2. frame[j].event_ts < frame[i - 1].event_ts - Window
    BY <1>7
  <2> QED
    BY <1>5, <1>6, <2>1, <2>2, FeatureAssumption
<1>9. WindowIsContiguous'
  BY <1>7, <1>8 DEF WindowIsContiguous, TypeOK, account
<1> QED
  BY <1>1, <1>3, <1>4, <1>9

(* An evicted row is too old for this row, and for all later ones.         *)
LEMMA EvictKeeps ==
    ASSUME FInv, Evict PROVE FInv'
<1> USE DEF FInv, Evict
<1>1. Sorted' /\ CountIsExact' /\ CounterpartiesAreExact'
  BY WrittenStays
<1>2. /\ prev_acct # None /\ lo < i
      /\ frame[lo].event_ts < frame[i].event_ts - Window
  BY FeatureAssumption, RowsAreTyped DEF Position, TypeOK, Expired
<1>3. /\ acct_start <= lo /\ window_count = i - lo
      /\ \A j \in acct_start..(lo - 1) :
            frame[j].event_ts < frame[i].event_ts - Window
  BY <1>2 DEF WindowIsContiguous
<1>4. TypeOK'
  BY <1>2, <1>3, RowsAreTyped DEF TypeOK, account
<1>5. Position' /\ SeenSoFar'
  BY DEF Position, SeenSoFar, Partners, account
<1>6. WindowIsContiguous'
  BY <1>2, <1>3 DEF WindowIsContiguous, TypeOK, account
<1> QED
  BY <1>1, <1>4, <1>5, <1>6

(* When nothing more expires the window is the account's recent past. *)
LEMMA TheWindowIsThePast ==
    ASSUME FInv, at = "evict", ~Expired
    PROVE  /\ Earlier(i) = acct_start..(i - 1)
           /\ Recent(i) = lo..(i - 1)
           /\ Cardinality(Recent(i)) = window_count
           /\ seen_cps = Partners(Earlier(i))
<1> USE DEF FInv
<1>1. prev_acct = frame[i].account /\ prev_acct # None /\ i \in 1..Len(frame)
  BY FeatureAssumption, RowsAreTyped DEF Position, TypeOK
<1>2. /\ acct_start \in Nat \ {0} /\ lo \in Nat \ {0} /\ i \in Nat \ {0}
      /\ acct_start <= lo /\ lo <= i /\ window_count = i - lo
      /\ \A j \in acct_start..(lo - 1) :
            frame[j].event_ts < frame[i].event_ts - Window
  BY <1>1 DEF WindowIsContiguous, TypeOK
<1>3. Earlier(i) = acct_start..(i - 1)
  BY <1>1, <1>2 DEF Earlier, Position
<1>4. \A j \in 1..Len(frame) : frame[j].event_ts \in Nat
  BY RowsAreTyped
<1>5. \A j \in lo..(i - 1) : frame[j].event_ts >= frame[i].event_ts - Window
  <2> SUFFICES ASSUME NEW j \in lo..(i - 1)
               PROVE  frame[j].event_ts >= frame[i].event_ts - Window
    OBVIOUS
  <2>1. lo < i /\ frame[lo].event_ts >= frame[i].event_ts - Window
    BY <1>1, <1>2, <1>4, FeatureAssumption DEF Expired, TypeOK
  <2>2. j = lo \/ frame[lo].event_ts <= frame[j].event_ts
    <3>1. frame[lo].account = frame[i].account /\ frame[j].account = frame[i].account
      BY <1>1, <1>2, <2>1 DEF Position
    <3>2. frame[i].account \in Nat
      BY <1>1, RowsAreTyped
    <3> QED
      BY <1>1, <1>2, <3>1, <3>2 DEF Sorted, TypeOK
  <2>3. /\ frame[i].event_ts \in Nat /\ frame[lo].event_ts \in Nat
        /\ frame[j].event_ts \in Nat /\ Window \in Nat
    BY <1>1, <1>2, <1>4, <2>1, FeatureAssumption
  <2> HIDE DEF FInv
  <2> QED
    BY <2>1, <2>2, <2>3
<1>6. Recent(i) = lo..(i - 1)
  <2>1. \A j \in acct_start..(lo - 1) :
          ~(frame[j].event_ts >= frame[i].event_ts - Window)
    BY <1>1, <1>2, <1>4, FeatureAssumption DEF TypeOK
  <2> QED
    BY <1>2, <1>3, <1>5, <2>1 DEF Recent
<1>7. Cardinality(Recent(i)) = window_count
  <2>1. Cardinality(lo..(i - 1)) = IF lo > i - 1 THEN 0 ELSE (i - 1) - lo + 1
    BY <1>2, FS_Interval
  <2> QED
    BY <1>2, <1>6, <2>1
<1>8. seen_cps = Partners(Earlier(i))
  BY <1>1, <1>3 DEF SeenSoFar
<1> QED
  BY <1>3, <1>6, <1>7, <1>8

(* With nothing left to evict, the window is exactly the recent rows.      *)
LEMMA EmitKeeps ==
    ASSUME FInv, Emit PROVE FInv'
<1> USE DEF FInv
<1>1. /\ at = "evict" /\ ~Expired /\ at' = "enter" /\ i' = i + 1
      /\ seen_cps' = seen_cps \cup {frame[i].counterparty}
      /\ UNCHANGED <<frame, acct_start, prev_acct, window>>
  BY DEF Emit
<1>2. /\ i \in 1..Len(frame) /\ prev_acct = frame[i].account /\ prev_acct # None
  BY <1>1, FeatureAssumption, RowsAreTyped DEF Position, TypeOK
<1>3. /\ Earlier(i) = acct_start..(i - 1)
      /\ Cardinality(Recent(i)) = window_count
      /\ seen_cps = Partners(Earlier(i))
  BY <1>1, TheWindowIsThePast
<1>4. Cardinality(seen_cps) \in Nat
  BY <1>2, <1>3, PartnersAreFinite DEF TypeOK
<1> DEFINE features ==
      [txn_count_24h |-> window_count,
       amount_sum_24h |-> window_sum,
       is_new_counterparty |-> frame[i].counterparty \notin seen_cps,
       distinct_counterparties_seen |-> Cardinality(seen_cps),
       prior_mean |-> IF i > acct_start /\ prior_sum > 0
                      THEN <<prior_sum, i - acct_start>> ELSE None,
       prior_max |-> IF i > acct_start /\ prior_max > 0 THEN prior_max ELSE None,
       hours_since_last |-> IF i > acct_start
                            THEN frame[i].event_ts - frame[i - 1].event_ts
                            ELSE None]
<1>5. out' = Append(out, features)
  BY DEF Emit
<1>6. i > acct_start =>
        /\ i - acct_start \in Nat
        /\ frame[i].event_ts - frame[i - 1].event_ts \in Nat
  <2> SUFFICES ASSUME i > acct_start
               PROVE  /\ i - acct_start \in Nat
                      /\ frame[i].event_ts - frame[i - 1].event_ts \in Nat
    OBVIOUS
  <2>1. i - 1 \in 1..(i - 1) /\ acct_start <= i - 1 /\ i - 1 \in 1..Len(frame)
    BY <1>2 DEF TypeOK
  <2>2. frame[i - 1].account = frame[i].account
    BY <1>2, <2>1 DEF Position
  <2>3. frame[i - 1].event_ts <= frame[i].event_ts
    BY <1>1, <1>2, <2>1, <2>2, RowsAreTyped DEF Sorted, TypeOK
  <2> QED
    BY <1>2, <2>1, <2>3, RowsAreTyped DEF TypeOK
<1>7. features \in FeatureRow
  BY <1>4, <1>6 DEF TypeOK, FeatureRow
<1>8. /\ out' \in Seq(FeatureRow) /\ Len(out') = i
      /\ out'[i] = features
      /\ \A k \in 1..(i - 1) : out'[k] = out[k]
      /\ DOMAIN out = 1..(i - 1) /\ DOMAIN out' = 1..i
  <2> HIDE DEF features
  <2> QED
    BY <1>2, <1>5, <1>7 DEF TypeOK
<1>9. prior_sum' \in Nat /\ prior_max' \in Nat /\ seen_cps' \subseteq Nat
  <2>1. frame[i].amount \in Nat /\ frame[i].counterparty \in Nat
    BY <1>2, RowsAreTyped
  <2>2. /\ prior_sum' = prior_sum + frame[i].amount
        /\ prior_max' = IF frame[i].amount > prior_max THEN frame[i].amount
                                                       ELSE prior_max
    BY DEF Emit
  <2>3. prior_sum \in Nat /\ prior_max \in Nat /\ seen_cps \subseteq Nat
    BY DEF TypeOK
  <2> HIDE DEF FInv
  <2>4. prior_max' \in Nat
    BY <2>1, <2>2, <2>3
  <2>5. prior_sum' \in Nat
    BY <2>1, <2>2, <2>3
  <2>6. seen_cps' \subseteq Nat
    BY <1>1, <2>1, <2>3
  <2> QED
    BY <2>4, <2>5, <2>6
<1>10. TypeOK'
  BY <1>1, <1>2, <1>8, <1>9 DEF TypeOK, window
<1>11. Sorted'
  BY <1>1 DEF Sorted
<1>12. Position'
  BY <1>1, <1>2 DEF Position, TypeOK
<1>13. WindowIsContiguous'
  BY <1>1, <1>2 DEF WindowIsContiguous, window, TypeOK
<1>14. SeenSoFar'
  <2>1. acct_start..((i + 1) - 1) = (acct_start..(i - 1)) \cup {i}
    BY DEF TypeOK
  <2> QED
    BY <1>1, <1>2, <1>3, <2>1 DEF SeenSoFar, Partners
<1>15. \A k : /\ Earlier(k)' = Earlier(k) /\ Recent(k)' = Recent(k)
              /\ Partners(Earlier(k))' = Partners(Earlier(k))
  BY <1>1 DEF Earlier, Recent, Partners
<1>16. Rows = 1..(i - 1) /\ Rows' = 1..i
  BY <1>1, <1>8 DEF Rows
<1>17. CountIsExact'
  <2> SUFFICES ASSUME NEW k \in 1..i
               PROVE  out'[k].txn_count_24h = Cardinality(Recent(k))
    BY <1>15, <1>16 DEF CountIsExact
  <2>1. CASE k = i
    BY <1>3, <1>8, <2>1
  <2>2. CASE k \in 1..(i - 1)
    BY <1>8, <1>16, <2>2 DEF CountIsExact
  <2> QED
    BY <1>2, <2>1, <2>2
<1>18. CounterpartiesAreExact'
  <2> SUFFICES ASSUME NEW k \in 1..i
               PROVE  /\ out'[k].is_new_counterparty <=>
                            frame[k].counterparty \notin Partners(Earlier(k))
                      /\ out'[k].distinct_counterparties_seen
                            = Cardinality(Partners(Earlier(k)))
    BY <1>1, <1>15, <1>16 DEF CounterpartiesAreExact
  <2>1. CASE k = i
    <3>1. /\ features.is_new_counterparty = (frame[i].counterparty \notin seen_cps)
          /\ features.distinct_counterparties_seen = Cardinality(seen_cps)
      OBVIOUS
    <3> HIDE DEF features
    <3> QED
      BY <1>3, <1>8, <2>1, <3>1
  <2>2. CASE k \in 1..(i - 1)
    BY <1>8, <1>16, <2>2 DEF CounterpartiesAreExact
  <2> QED
    BY <1>2, <2>1, <2>2
<1> QED
  BY <1>10, <1>11, <1>12, <1>13, <1>14, <1>17, <1>18

(* Every step of the pass keeps the invariant. *)
THEOREM PassInvariance == Spec => []FInv
<1>1. FInv /\ [Next]_vars => FInv'
  <2> SUFFICES ASSUME FInv, [Next]_vars PROVE FInv'
    OBVIOUS
  <2>1. CASE Sort
    BY <2>1, SortKeeps
  <2>2. CASE EnterAccount
    BY <2>2, EnterAccountKeeps
  <2>3. CASE EnterRow
    BY <2>3, EnterRowKeeps
  <2>4. CASE Evict
    BY <2>4, EvictKeeps
  <2>5. CASE Emit
    BY <2>5, EmitKeeps
  <2>6. CASE UNCHANGED vars
    <3> USE <2>6 DEF vars, account, window, FInv
    <3>1. TypeOK' /\ Position' /\ WindowIsContiguous'
      BY DEF TypeOK, Position, WindowIsContiguous
    <3>2. SeenSoFar' /\ Sorted'
      BY DEF SeenSoFar, Sorted, Partners
    <3>3. CountIsExact' /\ CounterpartiesAreExact'
      <4>1. /\ Rows' = Rows
            /\ \A k : /\ Recent(k)' = Recent(k)
                     /\ Partners(Earlier(k))' = Partners(Earlier(k))
        BY DEF Rows, Earlier, Recent, Partners
      <4> QED
        BY <4>1 DEF CountIsExact, CounterpartiesAreExact
    <3> QED
      BY <3>1, <3>2, <3>3
  <2> QED
    BY <2>1, <2>2, <2>3, <2>4, <2>5, <2>6 DEF Next
<1> QED
  BY <1>1, Start, PTL DEF Spec

(* The types, among them that no gap between transactions is negative. *)
THEOREM FeatureTyping == Spec => []TypeOK
BY PassInvariance, PTL DEF FInv

(* The count of the sliding window is exact. *)
THEOREM CountsAreExact == Spec => []CountIsExact
BY PassInvariance, PTL DEF FInv

(* The counterparty features are exact. *)
THEOREM CounterpartiesAreRight == Spec => []CounterpartiesAreExact
BY PassInvariance, PTL DEF FInv

-----------------------------------------------------------------------------
(* The sum of rows is defined row by row, and is a number at each of them. *)
LEMMA TotalUpToDefined ==
    ASSUME NEW df \in Seq(Txn), NEW S
    PROVE  /\ \A k \in 0..Len(df) : TotalUpTo(df, S)[k] \in Nat
           /\ TotalUpTo(df, S)[0] = 0
           /\ \A k \in 1..Len(df) :
                TotalUpTo(df, S)[k] = TotalUpTo(df, S)[k - 1]
                                      + (IF k \in S THEN df[k].amount ELSE 0)
<1> DEFINE adds(k) == IF k \in S THEN df[k].amount ELSE 0
           N == Len(df)
           step == [k \in 1..N |-> [q \in Nat |-> q + adds(k)]]
           Value(f, k) == IF k = 0 THEN 0 ELSE f[k - 1] + adds(k)
<1>1. N \in Nat
  OBVIOUS
<1>2. \A k \in 1..N : adds(k) \in Nat
  <2>1. \A k \in 1..N : df[k] \in Txn
    OBVIOUS
  <2> QED
    BY <2>1 DEF Txn
<1> HIDE DEF adds, N
<1>3. step \in [1..N -> [Nat -> Nat]]
  BY <1>2
<1>4. PICK f : Recurs(f, Nat, N, 0, step)
  <2> HIDE DEF step
  <2> QED
    BY <1>1, <1>3, RecursiveFunctionExists
<1>5. f \in [0..N -> Nat] /\ f[0] = 0
  BY <1>4 DEF Recurs
<1>6. \A k \in 1..N : f[k] = f[k - 1] + adds(k)
  <2> SUFFICES ASSUME NEW k \in 1..N PROVE f[k] = f[k - 1] + adds(k)
    OBVIOUS
  <2>1. f[k - 1] \in Nat
    BY <1>1, <1>5
  <2>2. f[k] = step[k][f[k - 1]]
    BY <1>4 DEF Recurs
  <2> QED
    BY <2>1, <2>2
<1>7. f = [k \in 0..N |-> Value(f, k)]
  <2>1. ASSUME NEW k \in 0..N PROVE f[k] = Value(f, k)
    BY <1>1, <1>5, <1>6
  <2> HIDE DEF Value
  <2> QED
    BY <1>5, <2>1
<1> DEFINE t == TotalUpTo(df, S)
<1>8. t = [k \in 0..N |-> Value(t, k)]
  BY <1>7 DEF TotalUpTo, adds, N
<1> HIDE DEF t
<1>9. t[0] = 0 /\ \A k \in 1..N : t[k] = t[k - 1] + adds(k)
  <2>1. \A k \in 0..N : t[k] = Value(t, k)
    <3> HIDE DEF Value
    <3> QED
      BY <1>8
  <2> QED
    BY <1>1, <2>1
<1> DEFINE T == {k \in 0..N : t[k] \in Nat}
<1>10. 0 \in T
  BY <1>1, <1>9
<1>11. ASSUME NEW k \in 1..N, k - 1 \in T PROVE k \in T
  BY <1>1, <1>2, <1>9, <1>11
<1>12. \A k \in 0..N : k \in T
  <2> HIDE DEF T
  <2> QED
    BY <1>1, <1>10, <1>11, UpwardClosed
<1> QED
  BY <1>9, <1>12 DEF t, adds, N

(* No rows sum up to nothing. *)
LEMMA TotalOfNone ==
    ASSUME TypeOK PROVE Total({}) = 0
<1> DEFINE N == Len(frame)
           t == TotalUpTo(frame, {})
           T == {k \in 0..N : t[k] = 0}
<1>1. frame \in Seq(Txn) /\ N \in Nat
  BY DEF TypeOK
<1>2. t[0] = 0 /\ \A k \in 1..N : t[k] = t[k - 1] + 0
  BY <1>1, TotalUpToDefined
<1> HIDE DEF t, N
<1>3. 0 \in T
  BY <1>1, <1>2
<1>4. ASSUME NEW k \in 1..N, k - 1 \in T PROVE k \in T
  BY <1>1, <1>2, <1>4
<1> HIDE DEF T
<1>5. \A k \in 0..N : k \in T
  BY <1>1, <1>3, <1>4, UpwardClosed
<1> QED
  BY <1>1, <1>5 DEF Total, T, t, N

(* One more row adds its amount. *)
LEMMA TotalOfOneMore ==
    ASSUME TypeOK, NEW S, NEW j \in 1..Len(frame), j \notin S
    PROVE  /\ Total(S) \in Nat
           /\ Total(S \cup {j}) = Total(S) + frame[j].amount
<1> DEFINE N == Len(frame)
           R == S \cup {j}
           s == TotalUpTo(frame, S)
           r == TotalUpTo(frame, R)
           a == frame[j].amount
           adds(k) == IF k \in S THEN frame[k].amount ELSE 0
           T == {k \in 0..N : r[k] = s[k] + (IF j <= k THEN a ELSE 0)}
<1>1. frame \in Seq(Txn) /\ N \in Nat /\ j \in 1..N
  BY DEF TypeOK
<1>2. a \in Nat /\ \A k \in 1..N : adds(k) \in Nat
  BY RowsAreTyped
<1>3. /\ \A k \in 0..N : s[k] \in Nat
      /\ s[0] = 0 /\ \A k \in 1..N : s[k] = s[k - 1] + adds(k)
  BY <1>1, TotalUpToDefined
<1>4. /\ r[0] = 0
      /\ \A k \in 1..N : r[k] = r[k - 1] + (IF k \in R THEN frame[k].amount ELSE 0)
  <2> HIDE DEF R
  <2> QED
    BY <1>1, TotalUpToDefined
<1>5. \A k \in 1..N : (IF k \in R THEN frame[k].amount ELSE 0)
                        = adds(k) + (IF k = j THEN a ELSE 0)
  BY <1>2
<1> HIDE DEF s, r, a, adds, R, N
<1>6. 0 \in T
  BY <1>1, <1>3, <1>4
<1>7. ASSUME NEW k \in 1..N, k - 1 \in T PROVE k \in T
  <2>1. k \in 0..N /\ k - 1 \in 0..N
    BY <1>1
  <2>2. r[k - 1] = s[k - 1] + (IF j <= k - 1 THEN a ELSE 0)
    BY <1>7
  <2>3. r[k] = r[k - 1] + (adds(k) + (IF k = j THEN a ELSE 0))
    BY <1>4, <1>5
  <2>4. s[k] = s[k - 1] + adds(k)
    BY <1>3
  <2>5. s[k - 1] \in Nat /\ adds(k) \in Nat
    BY <1>2, <1>3, <2>1
  <2>6. r[k] = s[k] + (IF j <= k THEN a ELSE 0)
    BY <1>1, <1>2, <2>2, <2>3, <2>4, <2>5
  <2> QED
    BY <2>1, <2>6
<1> HIDE DEF T
<1>8. \A k \in 0..N : k \in T
  BY <1>1, <1>6, <1>7, UpwardClosed
<1>9. r[N] = s[N] + a /\ s[N] \in Nat
  <2>1. N \in T /\ N \in 0..N /\ j <= N
    BY <1>1, <1>8
  <2> QED
    BY <1>3, <2>1 DEF T
<1> QED
  BY <1>9 DEF Total, s, r, a, R, N

-----------------------------------------------------------------------------
(* The running sums are those of the window and of the account's rows so   *)
(* far, and the running maximum is one of their amounts, or zero.          *)
RunningAmounts ==
    LET last == IF at = "evict" THEN i ELSE i - 1
        past == acct_start..(i - 1)
    IN  prev_acct # None =>
          /\ window_sum = Total(lo..(last - 1))
          /\ prior_sum = Total(past)
          /\ \A j \in past : frame[j].amount <= prior_max
          /\ prior_max > 0 => \E j \in past : frame[j].amount = prior_max

SInv == RunningAmounts /\ SumIsExact /\ BaselineIsExact

LEMMA SumsStart == Init => SInv
BY DEF Init, SInv, RunningAmounts, SumIsExact, BaselineIsExact, Rows

LEMMA SortKeepsSums ==
    ASSUME FInv, SInv, Sort PROVE SInv'
<1>1. at' = "enter" /\ prev_acct' = None /\ out' = <<>>
  BY DEF Sort, FInv, Position, account
<1> QED
  BY <1>1 DEF SInv, RunningAmounts, SumIsExact, BaselineIsExact, Rows

(* The amounts of what was written stay exact. *)
LEMMA WrittenAmountsStay ==
    ASSUME SInv, at # "unsorted", at' # "unsorted", UNCHANGED <<frame, out>>
    PROVE  SumIsExact' /\ BaselineIsExact'
<1>1. \A S : Total(S)' = Total(S)
  BY DEF Total
<1>2. /\ Rows' = Rows
      /\ \A k : /\ Earlier(k)' = Earlier(k) /\ Recent(k)' = Recent(k)
               /\ Amounts(Earlier(k))' = Amounts(Earlier(k))
  BY DEF Rows, Earlier, Recent, Amounts
<1> QED
  BY <1>1, <1>2 DEF SInv, SumIsExact, BaselineIsExact

LEMMA EnterAccountKeepsSums ==
    ASSUME FInv, SInv, EnterAccount PROVE SInv'
<1>1. SumIsExact' /\ BaselineIsExact'
  BY WrittenAmountsStay DEF EnterAccount
<1>2. /\ at' = "evict" /\ i' = i /\ frame' = frame /\ acct_start' = i /\ lo' = i
      /\ window_sum' = 0 /\ prior_sum' = 0 /\ prior_max' = 0
  BY DEF EnterAccount, Reset
<1>3. i..(i - 1) = {}
  BY DEF FInv, TypeOK
<1>4. Total({}) = 0 /\ \A S : Total(S)' = Total(S)
  BY <1>2, TotalOfNone DEF FInv, Total
<1>5. RunningAmounts'
  <2>1. /\ Total(lo..(i - 1))' = 0 /\ Total(acct_start..(i - 1))' = 0
        /\ (acct_start..(i - 1))' = {}
    BY <1>2, <1>3, <1>4
  <2> QED
    BY <1>2, <2>1 DEF RunningAmounts
<1> QED
  BY <1>1, <1>5 DEF SInv

LEMMA EnterRowKeepsSums ==
    ASSUME FInv, SInv, EnterRow PROVE SInv'
<1>1. SumIsExact' /\ BaselineIsExact'
  BY WrittenAmountsStay DEF EnterRow
<1>2. /\ at = "enter" /\ at' = "evict" /\ frame[i].account = prev_acct
      /\ i <= Len(frame) /\ window_sum' = window_sum + frame[i - 1].amount
      /\ UNCHANGED <<frame, i, lo, account>>
  BY DEF EnterRow
<1>3. TypeOK /\ prev_acct # None /\ i > 1
  BY <1>2, FeatureAssumption, RowsAreTyped DEF FInv, Position, TypeOK
<1>4. lo \in 1..(i - 1) /\ i \in Nat
  BY <1>2, <1>3 DEF FInv, WindowIsContiguous, TypeOK
<1>5. window_sum' = Total(lo..(i - 1))
  <2>1. lo..(i - 1) = (lo..(i - 2)) \cup {i - 1}
    BY <1>4
  <2>2. i - 1 \in 1..Len(frame) /\ i - 1 \notin lo..(i - 2)
    BY <1>2, <1>3, <1>4 DEF TypeOK
  <2>3. window_sum = Total(lo..(i - 2))
    <3>1. (i - 1) - 1 = i - 2
      BY <1>4
    <3> QED
      BY <1>2, <1>3, <3>1 DEF SInv, RunningAmounts
  <2> QED
    BY <1>2, <1>3, <2>1, <2>2, <2>3, TotalOfOneMore
<1>6. \A S : Total(S)' = Total(S)
  BY <1>2 DEF Total
<1>7. RunningAmounts'
  BY <1>2, <1>3, <1>5, <1>6 DEF SInv, RunningAmounts, account
<1> QED
  BY <1>1, <1>7 DEF SInv

LEMMA EvictKeepsSums ==
    ASSUME FInv, SInv, Evict PROVE SInv'
<1>1. SumIsExact' /\ BaselineIsExact'
  BY WrittenAmountsStay DEF Evict
<1>2. /\ at = "evict" /\ at' = "evict" /\ lo < i /\ lo' = lo + 1
      /\ window_sum' = window_sum - frame[lo].amount
      /\ UNCHANGED <<frame, i, account>>
  BY DEF Evict, Expired
<1>3. TypeOK /\ i \in 1..Len(frame) /\ lo \in 1..(i - 1) /\ prev_acct # None
  BY <1>2, FeatureAssumption, RowsAreTyped DEF FInv, Position, TypeOK
<1>4. window_sum' = Total((lo + 1)..(i - 1))
  <2>1. lo..(i - 1) = ((lo + 1)..(i - 1)) \cup {lo}
    BY <1>3
  <2>2. lo \in 1..Len(frame) /\ lo \notin (lo + 1)..(i - 1)
    BY <1>3
  <2>3. window_sum = Total(lo..(i - 1))
    BY <1>2, <1>3 DEF SInv, RunningAmounts
  <2>4. /\ Total((lo + 1)..(i - 1)) \in Nat
        /\ Total(lo..(i - 1)) = Total((lo + 1)..(i - 1)) + frame[lo].amount
    BY <1>3, <2>1, <2>2, TotalOfOneMore
  <2>5. frame[lo].amount \in Nat
    BY <1>3, <2>2, RowsAreTyped
  <2> QED
    BY <1>2, <2>3, <2>4, <2>5
<1>5. \A S : Total(S)' = Total(S)
  BY <1>2 DEF Total
<1>6. RunningAmounts'
  BY <1>2, <1>3, <1>4, <1>5 DEF SInv, RunningAmounts, account
<1> QED
  BY <1>1, <1>6 DEF SInv

(* The row just written compares with its window and with its past only.   *)
LEMMA EmitKeepsSums ==
    ASSUME FInv, SInv, Emit PROVE SInv'
<1>1. /\ at = "evict" /\ ~Expired /\ at' = "enter" /\ i' = i + 1
      /\ prior_sum' = prior_sum + frame[i].amount
      /\ prior_max' = IF frame[i].amount > prior_max THEN frame[i].amount
                                                     ELSE prior_max
      /\ UNCHANGED <<frame, acct_start, prev_acct, window>>
  BY DEF Emit
<1>2. /\ i \in 1..Len(frame) /\ prev_acct # None /\ TypeOK
      /\ acct_start \in 1..i /\ prior_sum \in Nat /\ prior_max \in Nat
  BY <1>1, FeatureAssumption, RowsAreTyped DEF FInv, Position, TypeOK
<1> DEFINE past == acct_start..(i - 1)
           txn == frame[i]
           hasPrior == i > acct_start
           new == out'[i]
<1>3. Earlier(i) = past /\ Recent(i) = lo..(i - 1)
  BY <1>1, TheWindowIsThePast
<1>4. /\ window_sum = Total(Recent(i)) /\ prior_sum = Total(past)
      /\ \A j \in past : frame[j].amount <= prior_max
      /\ prior_max > 0 => \E j \in past : frame[j].amount = prior_max
  BY <1>1, <1>2, <1>3 DEF SInv, RunningAmounts
<1>5. \A j \in 1..Len(frame) : frame[j].amount \in Nat
  BY <1>2, RowsAreTyped
<1>6. /\ \A k \in 1..(i - 1) : out'[k] = out[k]
      /\ Rows = 1..(i - 1) /\ Rows' = 1..i
      /\ new.amount_sum_24h = window_sum
      /\ new.prior_mean = IF hasPrior /\ prior_sum > 0
                          THEN <<prior_sum, i - acct_start>> ELSE None
      /\ new.prior_max = IF hasPrior /\ prior_max > 0 THEN prior_max ELSE None
      /\ new.hours_since_last = IF hasPrior
                                THEN txn.event_ts - frame[i - 1].event_ts
                                ELSE None
  <2> DEFINE features ==
        [txn_count_24h |-> window_count,
         amount_sum_24h |-> window_sum,
         is_new_counterparty |-> txn.counterparty \notin seen_cps,
         distinct_counterparties_seen |-> Cardinality(seen_cps),
         prior_mean |-> IF hasPrior /\ prior_sum > 0
                        THEN <<prior_sum, i - acct_start>> ELSE None,
         prior_max |-> IF hasPrior /\ prior_max > 0 THEN prior_max ELSE None,
         hours_since_last |-> IF hasPrior
                              THEN txn.event_ts - frame[i - 1].event_ts
                              ELSE None]
  <2>1. out' = Append(out, features)
    BY DEF Emit
  <2>2. out \in Seq(FeatureRow) /\ Len(out) = i - 1
    BY <1>2 DEF TypeOK
  <2>3. /\ features.amount_sum_24h = window_sum
        /\ features.prior_mean = IF hasPrior /\ prior_sum > 0
                                 THEN <<prior_sum, i - acct_start>> ELSE None
        /\ features.prior_max = IF hasPrior /\ prior_max > 0 THEN prior_max ELSE None
        /\ features.hours_since_last = IF hasPrior
                                       THEN txn.event_ts - frame[i - 1].event_ts
                                       ELSE None
    OBVIOUS
  <2> HIDE DEF features, hasPrior, txn
  <2>4. /\ out'[i] = features /\ DOMAIN out' = 1..i /\ DOMAIN out = 1..(i - 1)
        /\ \A k \in 1..(i - 1) : out'[k] = out[k]
    BY <1>2, <2>1, <2>2
  <2> QED
    BY <1>1, <2>3, <2>4 DEF Rows
<1> HIDE DEF new
<1>7. \A S : Total(S)' = Total(S)
  BY <1>1 DEF Total
<1>8. \A k : /\ Earlier(k)' = Earlier(k) /\ Recent(k)' = Recent(k)
             /\ Amounts(Earlier(k))' = Amounts(Earlier(k))
  BY <1>1 DEF Earlier, Recent, Amounts
<1>9. SumIsExact'
  <2> SUFFICES ASSUME NEW k \in 1..i
               PROVE  out'[k].amount_sum_24h = Total(Recent(k))
    BY <1>6, <1>7, <1>8 DEF SumIsExact
  <2>1. CASE k = i
    BY <1>4, <1>6, <2>1 DEF new
  <2>2. CASE k \in 1..(i - 1)
    BY <1>6, <2>2 DEF SInv, SumIsExact
  <2> QED
    BY <1>2, <2>1, <2>2
<1>10. past = {} <=> ~hasPrior
  BY <1>2
<1>11. Cardinality(past) = i - acct_start
  <2>1. Cardinality(past) = IF acct_start > i - 1 THEN 0 ELSE (i - 1) - acct_start + 1
    BY <1>2, FS_Interval
  <2> QED
    BY <1>2, <2>1
<1>12. new.prior_mean = IF Total(past) > 0 THEN <<Total(past), Cardinality(past)>>
                                           ELSE None
  <2>1. CASE hasPrior
    BY <1>4, <1>6, <1>11, <2>1
  <2>2. CASE ~hasPrior
    <3>1. Total(past) = 0
      BY <1>2, <1>10, <2>2, TotalOfNone
    <3> QED
      BY <1>6, <2>2, <3>1
  <2> QED
    BY <2>1, <2>2
<1>13. new.prior_max = IF \E a \in Amounts(past) : a > 0 THEN Max(Amounts(past))
                                                         ELSE None
  <2> DEFINE amounts == Amounts(past)
  <2>1. \A a \in amounts : a \in Nat /\ a <= prior_max
    BY <1>2, <1>4, <1>5 DEF Amounts
  <2>2. prior_max > 0 => prior_max \in amounts /\ past # {}
    BY <1>4 DEF Amounts
  <2> HIDE DEF amounts
  <2>3. (\E a \in amounts : a > 0) <=> prior_max > 0
    BY <1>2, <2>1, <2>2
  <2>4. prior_max > 0 => Max(amounts) = prior_max
    <3> SUFFICES ASSUME prior_max > 0 PROVE Max(amounts) = prior_max
      OBVIOUS
    <3>1. Max(amounts) \in amounts /\ \A b \in amounts : Max(amounts) >= b
      BY <2>1, <2>2 DEF Max
    <3> QED
      BY <1>2, <2>1, <2>2, <3>1
  <2> QED
    BY <1>6, <1>10, <2>2, <2>3, <2>4 DEF amounts
<1>14. new.hours_since_last = IF past = {} THEN None
                              ELSE frame[i].event_ts - frame[i - 1].event_ts
  BY <1>6, <1>10
<1>15. BaselineIsExact'
  <2> SUFFICES ASSUME NEW k \in 1..i
               PROVE  /\ out'[k].prior_mean =
                           IF Total(Earlier(k)) > 0
                           THEN <<Total(Earlier(k)), Cardinality(Earlier(k))>>
                           ELSE None
                      /\ out'[k].prior_max =
                           IF \E a \in Amounts(Earlier(k)) : a > 0
                           THEN Max(Amounts(Earlier(k))) ELSE None
                      /\ out'[k].hours_since_last =
                           IF Earlier(k) = {} THEN None
                           ELSE frame[k].event_ts - frame[k - 1].event_ts
    BY <1>1, <1>6, <1>7, <1>8 DEF BaselineIsExact
  <2>1. CASE k = i
    BY <1>3, <1>12, <1>13, <1>14, <2>1 DEF new
  <2>2. CASE k \in 1..(i - 1)
    BY <1>6, <2>2 DEF SInv, BaselineIsExact
  <2> QED
    BY <1>2, <2>1, <2>2
<1>16. RunningAmounts'
  <2>1. acct_start..((i + 1) - 1) = past \cup {i} /\ i \notin past
    BY <1>2
  <2>2. Total(past \cup {i}) = Total(past) + frame[i].amount
    BY <1>2, <2>1, TotalOfOneMore
  <2>3. window_sum' = Total(lo'..(((i + 1) - 1) - 1))
    <3>1. ((i + 1) - 1) - 1 = i - 1
      BY <1>2
    <3> QED
      BY <1>1, <1>3, <1>4, <3>1 DEF window
  <2>4. prior_sum' = Total(past \cup {i})
    BY <1>1, <1>4, <2>2
  <2>5. /\ \A j \in past \cup {i} : frame[j].amount <= prior_max'
        /\ prior_max' > 0 => \E j \in past \cup {i} : frame[j].amount = prior_max'
    <3>1. /\ frame[i].amount \in Nat
          /\ \A j \in past : frame[j].amount \in Nat
      BY <1>2, <1>5
    <3> HIDE DEF past, txn
    <3>2. CASE frame[i].amount > prior_max
      BY <1>1, <1>2, <1>4, <3>1, <3>2
    <3>3. CASE ~(frame[i].amount > prior_max)
      BY <1>1, <1>2, <1>4, <3>1, <3>3
    <3> QED
      BY <3>2, <3>3
  <2> HIDE DEF past
  <2> QED
    BY <1>1, <1>7, <2>1, <2>3, <2>4, <2>5 DEF RunningAmounts
<1> QED
  BY <1>9, <1>15, <1>16 DEF SInv

(* Every step of the pass keeps the sums. *)
THEOREM SumInvariance == Spec => []SInv
<1>1. FInv /\ SInv /\ [Next]_vars => SInv'
  <2> SUFFICES ASSUME FInv, SInv, [Next]_vars PROVE SInv'
    OBVIOUS
  <2>1. CASE Sort
    BY <2>1, SortKeepsSums
  <2>2. CASE EnterAccount
    BY <2>2, EnterAccountKeepsSums
  <2>3. CASE EnterRow
    BY <2>3, EnterRowKeepsSums
  <2>4. CASE Evict
    BY <2>4, EvictKeepsSums
  <2>5. CASE Emit
    BY <2>5, EmitKeepsSums
  <2>6. CASE UNCHANGED vars
    <3>1. \A S : Total(S)' = Total(S)
      BY <2>6 DEF vars, Total
    <3>2. /\ Rows' = Rows
          /\ \A k : /\ Earlier(k)' = Earlier(k) /\ Recent(k)' = Recent(k)
                   /\ Amounts(Earlier(k))' = Amounts(Earlier(k))
      BY <2>6 DEF vars, Rows, Earlier, Recent, Amounts
    <3>3. RunningAmounts'
      BY <2>6, <3>1 DEF vars, account, window, SInv, RunningAmounts
    <3>4. SumIsExact' /\ BaselineIsExact'
      BY <2>6, <3>1, <3>2 DEF vars, SInv, SumIsExact, BaselineIsExact
    <3> QED
      BY <3>3, <3>4 DEF SInv
  <2> QED
    BY <2>1, <2>2, <2>3, <2>4, <2>5, <2>6 DEF Next
<1> QED
  BY <1>1, SumsStart, PassInvariance, PTL DEF Spec

(* Every amount a row is compared with is exact: the sum of its window,    *)
(* and the mean and the maximum of the account's past, which never divide  *)
(* by zero and take in no other row.                                       *)
THEOREM AmountsAreRight == Spec => []AmountsAreExact
BY SumInvariance, PTL DEF SInv, AmountsAreExact
=============================================================================
