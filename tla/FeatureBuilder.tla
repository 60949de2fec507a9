--------------------------- MODULE FeatureBuilder ---------------------------
(***************************************************************************)
(* build_features: one linear pass over the frame sorted by account and    *)
(* time, which keeps a sliding window, an account baseline and the set of  *)
(* counterparties seen, and resets them at every account boundary.         *)
(*                                                                         *)
(* Times are hours and amounts whole units (the code's float sums are      *)
(* taken to be exact); rows are numbered from 1.  A ratio to the baseline  *)
(* is represented by the baseline it divides by.                           *)
(***************************************************************************)
EXTENDS Integers, Sequences, FiniteSets, FiniteSetsExt

CONSTANTS Inputs,  \* frames handed to build_features
          Window,  \* the lookback, in hours (the code's 24)
          None     \* NaN, and no previous account

Txn == [account : Nat, event_ts : Nat, amount : Nat, counterparty : Nat]

ASSUME FeatureAssumption == /\ \A df \in Inputs : df \in Seq(Txn)
                            /\ Window \in Nat
                            /\ None \notin Nat

FeatureRow == [txn_count_24h : Nat, amount_sum_24h : Int,
               is_new_counterparty : BOOLEAN,
               distinct_counterparties_seen : Nat,
               prior_mean : (Nat \X Nat) \cup {None},
               prior_max : Nat \cup {None},
               hours_since_last : Nat \cup {None}]

VARIABLES frame,         \* the rows
          at,            \* the point the pass is at
          i,             \* the current row
          lo,            \* left boundary of the window
          acct_start,    \* first row of the current account
          window_count, window_sum,
          prior_sum, prior_max,
          seen_cps,
          prev_acct,
          out            \* the feature columns, row by row

account == <<acct_start, prior_sum, prior_max, seen_cps, prev_acct>>
window == <<lo, window_count, window_sum>>
vars == <<frame, at, i, account, window, out>>

Init == /\ frame \in Inputs
        /\ at = "unsorted"
        /\ i = 1
        /\ lo = 1 /\ acct_start = 1
        /\ window_count = 0 /\ window_sum = 0
        /\ prior_sum = 0 /\ prior_max = 0
        /\ seen_cps = {}
        /\ prev_acct = None
        /\ out = <<>>

(* Row j sorts before row k: by account, then time, ties in input order. *)
Before(j, k) ==
    \/ frame[j].account < frame[k].account
    \/ /\ frame[j].account = frame[k].account
       /\ \/ frame[j].event_ts < frame[k].event_ts
          \/ frame[j].event_ts = frame[k].event_ts /\ j < k

(* The stable sort: the arrangement in which each row sorts before the next ones. *)
Sort ==
    /\ at = "unsorted"
    /\ \E place \in [DOMAIN frame -> DOMAIN frame] :
          /\ \A j, k \in DOMAIN frame : j < k => Before(place[j], place[k])
          /\ frame' = [k \in DOMAIN frame |-> frame[place[k]]]
    /\ at' = "enter"
    /\ UNCHANGED <<i, account, window, out>>

(* Mutants of the reset at an account boundary: it forgets the baseline or *)
(* the counterparties.                                                     *)
ResetKeepsBaseline == /\ acct_start' = i /\ lo' = i /\ window_count' = 0
                      /\ window_sum' = 0 /\ seen_cps' = {}
                      /\ UNCHANGED <<prior_sum, prior_max>>

ResetKeepsPartners == /\ acct_start' = i /\ lo' = i /\ window_count' = 0
                      /\ window_sum' = 0 /\ prior_sum' = 0 /\ prior_max' = 0
                      /\ UNCHANGED seen_cps

(* Everything the traversal keeps per account starts afresh. *)
Reset == /\ acct_start' = i
         /\ lo' = i
         /\ window_count' = 0 /\ window_sum' = 0
         /\ prior_sum' = 0 /\ prior_max' = 0
         /\ seen_cps' = {}

(* The first row of an account. *)
EnterAccount ==
    /\ at = "enter" /\ i <= Len(frame)
    /\ frame[i].account # prev_acct
    /\ prev_acct' = frame[i].account
    /\ Reset
    /\ at' = "evict"
    /\ UNCHANGED <<frame, i, out>>

(* A later row of the account adds the preceding row to the window. *)
EnterRow ==
    /\ at = "enter" /\ i <= Len(frame)
    /\ frame[i].account = prev_acct
    /\ window_count' = window_count + 1
    /\ window_sum' = window_sum + frame[i - 1].amount
    /\ at' = "evict"
    /\ UNCHANGED <<frame, i, lo, account, out>>

(* Mutant: a row at the edge of the lookback is evicted too. *)
ExpiredAtEdge == lo < i /\ frame[lo].event_ts <= frame[i].event_ts - Window

(* The leftmost row of the window has fallen out of the lookback. *)
Expired == lo < i /\ frame[lo].event_ts < frame[i].event_ts - Window

Evict ==
    /\ at = "evict"
    /\ Expired
    /\ window_count' = window_count - 1
    /\ window_sum' = window_sum - frame[lo].amount
    /\ lo' = lo + 1
    /\ UNCHANGED <<frame, at, i, account, out>>

(* The window is right: write the row's features, then add the row to the  *)
(* baseline and to the counterparties seen.                                *)
Emit ==
    LET txn == frame[i]
        hasPrior == i > acct_start
    IN  /\ at = "evict"
        /\ ~Expired
        /\ out' = Append(out,
             [txn_count_24h |-> window_count,
              amount_sum_24h |-> window_sum,
              is_new_counterparty |-> txn.counterparty \notin seen_cps,
              distinct_counterparties_seen |-> Cardinality(seen_cps),
              prior_mean |-> IF hasPrior /\ prior_sum > 0
                             THEN <<prior_sum, i - acct_start>> ELSE None,
              prior_max |-> IF hasPrior /\ prior_max > 0
                            THEN prior_max ELSE None,
              hours_since_last |-> IF hasPrior
                                   THEN txn.event_ts - frame[i - 1].event_ts
                                   ELSE None])
        /\ prior_sum' = prior_sum + txn.amount
        /\ prior_max' = IF txn.amount > prior_max THEN txn.amount ELSE prior_max
        /\ seen_cps' = seen_cps \cup {txn.counterparty}
        /\ i' = i + 1
        /\ at' = "enter"
        /\ UNCHANGED <<frame, acct_start, prev_acct, window>>

Next == Sort \/ EnterAccount \/ EnterRow \/ Evict \/ Emit

Spec == Init /\ [][Next]_vars
-----------------------------------------------------------------------------
Rows == IF at = "unsorted" THEN {} ELSE DOMAIN out

(* The account's earlier rows, and those of them within the lookback. *)
Earlier(k) == {j \in 1..(k - 1) : frame[j].account = frame[k].account}
Recent(k) == {j \in Earlier(k) : frame[j].event_ts >= frame[k].event_ts - Window}

Partners(S) == {frame[j].counterparty : j \in S}
Amounts(S) == {frame[j].amount : j \in S}

(* The sum of the amounts of a set of a frame's rows, row by row. *)
TotalUpTo(df, S) ==
    LET total[k \in 0..Len(df)] ==
          IF k = 0 THEN 0
          ELSE total[k - 1] + (IF k \in S THEN df[k].amount ELSE 0)
    IN  total

Total(S) == TotalUpTo(frame, S)[Len(frame)]

(* The type invariant. *)
TypeOK ==
    /\ frame \in Seq(Txn)
    /\ at \in {"unsorted", "enter", "evict"}
    /\ i \in 1..(Len(frame) + 1)
    /\ lo \in 1..i /\ acct_start \in 1..i
    /\ window_count \in Nat /\ window_sum \in Int
    /\ prior_sum \in Nat /\ prior_max \in Nat
    /\ seen_cps \subseteq Nat
    /\ prev_acct \in Nat \cup {None}
    /\ out \in Seq(FeatureRow) /\ Len(out) = i - 1

(* The window count is the number of the account's earlier rows in the     *)
(* lookback, whatever was evicted and whichever account came before.       *)
CountIsExact == \A k \in Rows : out[k].txn_count_24h = Cardinality(Recent(k))

(* The running sum, with its additions and subtractions, is the sum of the *)
(* amounts of exactly those rows.                                          *)
SumIsExact == \A k \in Rows : out[k].amount_sum_24h = Total(Recent(k))

(* A counterparty is new exactly if no earlier row of the account names    *)
(* it, and the distinct count is of the earlier rows only.                 *)
CounterpartiesAreExact ==
    \A k \in Rows :
        /\ out[k].is_new_counterparty <=>
             frame[k].counterparty \notin Partners(Earlier(k))
        /\ out[k].distinct_counterparties_seen = Cardinality(Partners(Earlier(k)))

(* The baseline divides by the account's whole past and never by zero: no  *)
(* row of another account, not the row itself, nothing evicted.            *)
BaselineIsExact ==
    \A k \in Rows :
        LET past == Earlier(k)
        IN  /\ out[k].prior_mean = IF Total(past) > 0
                                   THEN <<Total(past), Cardinality(past)>>
                                   ELSE None
            /\ out[k].prior_max =
                 IF \E a \in Amounts(past) : a > 0 THEN Max(Amounts(past)) ELSE None
            /\ out[k].hours_since_last =
                 IF past = {} THEN None
                 ELSE frame[k].event_ts - frame[k - 1].event_ts

(* Every amount a row is compared with is exact: what the account moved    *)
(* lately, and what it usually moves (features.py:199-237).                *)
AmountsAreExact == SumIsExact /\ BaselineIsExact

(* Features use only data strictly before the transaction: of the          *)
(* account's rows, only those with an earlier event_ts.                    *)
StrictlyBefore ==
    \A k \in Rows :
        out[k].txn_count_24h =
            Cardinality({j \in Recent(k) :
                           frame[j].event_ts < frame[k].event_ts})
=============================================================================
