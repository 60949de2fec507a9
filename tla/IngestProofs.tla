---------------------------- MODULE IngestProofs ----------------------------
(***************************************************************************)
(* Theorems of Ingest, for any exports, names and merchants, and any       *)
(* number of stores' sources and of failed runs.                           *)
(***************************************************************************)
EXTENDS Ingest, RecursionProofs, SequenceTheorems

IsRecord(s) ==
    \E a, c, t : s = [accounts |-> a, counterparties |-> c, transactions |-> t]
AreRecords == IsRecord(session) /\ IsRecord(db)

(* The rows of the run: read from an export, merchants without a balance.  *)
RowsAreNormalised ==
    \A i \in DOMAIN df : df[i].counterparty \in Merchants => df[i].balance = Null

(* Between the two flushes the run's parties are already in the tables.    *)
PartiesFirst ==
    pc = "parties" => \A i \in DOMAIN df :
        /\ df[i].account \in DOMAIN session.accounts
        /\ df[i].counterparty \in DOMAIN session.counterparties

MerchantsFlagged(s) ==
    \A c \in DOMAIN s.counterparties : c \in Merchants => s.counterparties[c]

NoSignal(s) ==
    \A t \in DOMAIN s.transactions :
        s.transactions[t].counterparty \in Merchants => s.transactions[t].balance = Null

IInv == /\ sources \in SourcesOf
        /\ AreRecords
        /\ RowsAreNormalised
        /\ PartiesFirst
        /\ \A s \in {session, db} : /\ ReferencesHold(s)
                                    /\ MerchantsFlagged(s)
                                    /\ NoSignal(s)

-----------------------------------------------------------------------------
(* An upsert holds the keys of both, a kept row under a key that was there *)
(* and a new one under any other.                                          *)
LEMMA UpsertedRows ==
  ASSUME NEW table, NEW new
  PROVE  /\ DOMAIN Upserted(table, new) = DOMAIN table \cup DOMAIN new
         /\ \A k \in DOMAIN table : Upserted(table, new)[k] = table[k]
         /\ \A k \in DOMAIN new : k \notin DOMAIN table
                => Upserted(table, new)[k] = new[k]
BY DEF Upserted

(* A normalised row has its row's parties; a merchant's has no balance.    *)
LEMMA NormalisedRow ==
  ASSUME NEW row \in Row
  PROVE  /\ Normalised(row).account = row.account
         /\ Normalised(row).counterparty = row.counterparty
         /\ row.counterparty \in Merchants => Normalised(row).balance = Null
BY DEF Normalised, Row

(* The invariant holds of an empty store.                                  *)
LEMMA InitInvariant == Init => IInv
<1> SUFFICES ASSUME Init PROVE IInv
  OBVIOUS
<1>1. AreRecords
  BY DEF Init, Empty, AreRecords, IsRecord
<1>2. DOMAIN <<>> = {}
  OBVIOUS
<1>3. \A s \in {session, db} : s.transactions = <<>> /\ s.counterparties = <<>>
  BY DEF Init, Empty
<1>4. \A s \in {session, db} : ReferencesHold(s) /\ MerchantsFlagged(s) /\ NoSignal(s)
  BY <1>2, <1>3 DEF ReferencesHold, MerchantsFlagged, NoSignal
<1> QED
  BY <1>1, <1>2, <1>4 DEF Init, IInv, RowsAreNormalised, PartiesFirst

(* Loading a file normalises its rows and starts from the committed store. *)
LEMMA LoadStep ==
  ASSUME IInv, NEW e \in sources, NEW n \in 1..Len(e), Load(SubSeq(e, 1, n))
  PROVE  IInv'
<1> DEFINE f == SubSeq(e, 1, n)
<1>1. f \in Seq(Row)
  BY IngestAssumption DEF IInv
<1>2. /\ DOMAIN df' = DOMAIN f
      /\ \A i \in DOMAIN f : df'[i] = Normalised(f[i]) /\ f[i] \in Row
  BY <1>1 DEF Load
<1>3. RowsAreNormalised'
  BY <1>2, NormalisedRow DEF RowsAreNormalised
<1>4. session' = db /\ db' = db /\ pc' = "loaded" /\ sources' = sources
  BY DEF Load
<1>5. AreRecords'
  BY <1>4 DEF IInv, AreRecords
<1> QED
  BY <1>3, <1>4, <1>5 DEF IInv, PartiesFirst, ReferencesHold, MerchantsFlagged,
                          NoSignal

(* The first flush adds the parties of every row of the run.               *)
LEMMA WritePartiesStep ==
  ASSUME IInv, WriteParties
  PROVE  IInv'
<1> DEFINE A == [a \in {df[i].account : i \in DOMAIN df} |->
                    [first_seen_step |-> FirstStep(a), is_merchant |-> a \in Merchants]]
           C == [c \in {df[i].counterparty : i \in DOMAIN df} |-> c \in Merchants]
<1>1. PICK a, c, t : session = [accounts |-> a, counterparties |-> c,
                                transactions |-> t]
  BY DEF IInv, AreRecords, IsRecord
<1>2. session' = [accounts |-> Upserted(a, A), counterparties |-> Upserted(c, C),
                  transactions |-> t]
  BY <1>1 DEF WriteParties
<1>3. /\ DOMAIN Upserted(a, A) = DOMAIN a \cup DOMAIN A
      /\ DOMAIN Upserted(c, C) = DOMAIN c \cup DOMAIN C
  BY UpsertedRows
<1>4. ReferencesHold(session)'
  BY <1>1, <1>2, <1>3 DEF IInv, ReferencesHold
<1>5. MerchantsFlagged(session)'
  <2> SUFFICES ASSUME NEW k \in DOMAIN c \cup DOMAIN C, k \in Merchants
               PROVE  Upserted(c, C)[k]
    BY <1>2, <1>3 DEF MerchantsFlagged
  <2>1. CASE k \in DOMAIN c
    <3>1. Upserted(c, C)[k] = c[k]
      BY <2>1 DEF Upserted
    <3> QED
      BY <1>1, <2>1, <3>1 DEF IInv, MerchantsFlagged
  <2>2. CASE k \notin DOMAIN c
    <3>1. k \in DOMAIN C /\ C[k] = (k \in Merchants)
      BY <2>2
    <3>2. Upserted(c, C)[k] = C[k]
      BY <2>2 DEF Upserted
    <3> QED
      BY <3>1, <3>2
  <2> QED
    BY <2>1, <2>2
<1>6. NoSignal(session)'
  BY <1>1, <1>2 DEF IInv, NoSignal
<1>7. PartiesFirst' /\ RowsAreNormalised'
  <2>1. \A i \in DOMAIN df : df[i].account \in DOMAIN A
                              /\ df[i].counterparty \in DOMAIN C
    OBVIOUS
  <2>2. df' = df
    BY DEF WriteParties
  <2> HIDE DEF A, C
  <2>3. PartiesFirst'
    BY <1>2, <1>3, <2>1, <2>2 DEF PartiesFirst
  <2> QED
    BY <2>2, <2>3 DEF IInv, RowsAreNormalised
<1>8. AreRecords'
  <2>1. IsRecord(session)'
    BY <1>2 DEF IsRecord
  <2> QED
    BY <2>1 DEF IInv, WriteParties, AreRecords, IsRecord
<1> QED
  BY <1>4, <1>5, <1>6, <1>7, <1>8
     DEF IInv, WriteParties, ReferencesHold, MerchantsFlagged, NoSignal

(* The second flush adds rows whose parties the first one added.           *)
LEMMA WriteTransactionsStep ==
  ASSUME IInv, WriteTransactions
  PROVE  IInv'
<1>1. PICK a, c, t : session = [accounts |-> a, counterparties |-> c,
                                transactions |-> t]
  BY DEF IInv, AreRecords, IsRecord
<1>2. session' = [accounts |-> a, counterparties |-> c,
                  transactions |-> Upserted(t, df)]
  BY <1>1 DEF WriteTransactions
<1>3. \A k \in DOMAIN Upserted(t, df) :
          \/ k \in DOMAIN t /\ Upserted(t, df)[k] = t[k]
          \/ k \in DOMAIN df /\ Upserted(t, df)[k] = df[k]
  BY DEF Upserted
<1>4. \A i \in DOMAIN df : df[i].account \in DOMAIN a /\ df[i].counterparty \in DOMAIN c
  BY <1>1 DEF IInv, PartiesFirst, WriteTransactions
<1>5. ReferencesHold(session)'
  BY <1>1, <1>2, <1>3, <1>4 DEF IInv, ReferencesHold
<1>6. NoSignal(session)'
  BY <1>1, <1>2, <1>3 DEF IInv, RowsAreNormalised, NoSignal
<1>7. MerchantsFlagged(session)'
  BY <1>1, <1>2 DEF IInv, MerchantsFlagged
<1>8. AreRecords'
  <2>1. IsRecord(session)'
    BY <1>2 DEF IsRecord
  <2> QED
    BY <2>1 DEF IInv, WriteTransactions, AreRecords, IsRecord
<1> QED
  BY <1>5, <1>6, <1>7, <1>8
     DEF IInv, WriteTransactions, PartiesFirst, RowsAreNormalised, ReferencesHold,
         MerchantsFlagged, NoSignal

(* A commit, a rollback and a refusal leave the rows of the run alone and  *)
(* make one copy of the tables the other.                                  *)
LEMMA EndStep ==
  ASSUME IInv, \/ Commit \/ Rollback \/ Refuse \/ UNCHANGED vars
  PROVE  IInv'
<1>1. /\ sources' = sources /\ df' = df
      /\ session' \in {session, db} /\ db' \in {session, db}
      /\ pc' = "parties" => pc = "parties" /\ session' = session
  BY DEF Commit, Rollback, Refuse, vars
<1>2. PartiesFirst' /\ RowsAreNormalised' /\ AreRecords'
  BY <1>1 DEF IInv, PartiesFirst, RowsAreNormalised, AreRecords
<1>3. \A s \in {session', db'} : ReferencesHold(s) /\ MerchantsFlagged(s) /\ NoSignal(s)
  BY <1>1 DEF IInv
<1> QED
  BY <1>1, <1>2, <1>3 DEF IInv, ReferencesHold, MerchantsFlagged, NoSignal

(* The invariant holds in every reachable state.                           *)
THEOREM Invariance == Spec => []IInv
<1>1. IInv /\ [Next]_vars => IInv'
  BY LoadStep, WritePartiesStep, WriteTransactionsStep, EndStep DEF Next
<1> QED
  BY <1>1, InitInvariant, PTL DEF Spec

-----------------------------------------------------------------------------
(* No flush, commit or failed run leaves a transaction without its         *)
(* account and its counterparty (ingest_to_db).                            *)
THEOREM ForeignKeys == Spec => []ForeignKeysHold
<1>1. IInv => ForeignKeysHold
  BY DEF IInv, ForeignKeysHold
<1> QED
  BY <1>1, Invariance, PTL

(* A merchant's destination balance never reaches the store, and its row   *)
(* says what it is (load_paysim_csv, ingest_to_db).                        *)
THEOREM MerchantsSilent == Spec => []MerchantsCarryNoSignal
<1>1. IInv => MerchantsCarryNoSignal
  BY DEF IInv, MerchantsCarryNoSignal, ReferencesHold, NoSignal, MerchantsFlagged
<1> QED
  BY <1>1, Invariance, PTL

-----------------------------------------------------------------------------
(* The rows of a file of n rows of an export, as they are stored.          *)
Prefix(e, n) == [i \in 1..n |-> Normalised(e[i])]

(* A store fed from e holds a file of it, the longest that was committed.  *)
Grown(e) ==
    /\ files \in Seq(Committed)
    /\ \E m \in 0..Len(e) :
          /\ db.transactions = Prefix(e, m)
          /\ IF files = <<>> THEN m = 0 ELSE Prefix(e, m) \in Committed
          /\ \A f \in Committed : \E k \in 1..m : f = Prefix(e, k)
    /\ pc \in {"loaded", "parties", "written"} => \E n \in 1..Len(e) : df = Prefix(e, n)
    /\ pc \in {"loaded", "parties"} => session.transactions = db.transactions
    /\ pc = "written" => session.transactions = Upserted(db.transactions, df)

(* An export is a sequence of rows.                                        *)
LEMMA ExportsAreRows ==
  ASSUME IInv, NEW e \in Exports, sources = {e}
  PROVE  e \in Seq(Row) /\ Len(e) \in Nat /\ DOMAIN e = 1..Len(e)
BY IngestAssumption

(* Of two files of an export the longer wins, whichever is stored.         *)
LEMMA PrefixUpserted ==
  ASSUME NEW e, NEW m \in Nat, NEW n \in Nat
  PROVE  Upserted(Prefix(e, m), Prefix(e, n)) = Prefix(e, IF m < n THEN n ELSE m)
<1>1. (1..m) \cup (1..n) = 1..(IF m < n THEN n ELSE m)
  OBVIOUS
<1> QED
  BY <1>1 DEF Upserted, Prefix

(* A file of k rows has k rows.                                            *)
LEMMA PrefixLength ==
  ASSUME NEW e, NEW k \in Nat
  PROVE  Len(Prefix(e, k)) = k
<1>1. Prefix(e, k) \in [1..k -> {Normalised(e[i]) : i \in 1..k}]
  BY DEF Prefix
<1>2. Prefix(e, k) \in Seq({Normalised(e[i]) : i \in 1..k})
  BY <1>1, SeqDef
<1>3. DOMAIN Prefix(e, k) = 1..k
  BY <1>1
<1> QED
  BY <1>2, <1>3, LenProperties

(* An empty store holds the file of no rows.                               *)
LEMMA GrownInit ==
  ASSUME Init, NEW e \in Exports, sources = {e}
  PROVE  Grown(e)
<1>1. Len(e) \in Nat
  BY InitInvariant, ExportsAreRows
<1>2. Prefix(e, 0) = <<>>
  BY DEF Prefix
<1>3. db.transactions = Prefix(e, 0) /\ files = <<>> /\ pc = "idle"
  BY <1>2 DEF Init, Empty
<1>4. Committed = {} /\ files \in Seq(Committed)
  BY <1>3 DEF Committed
<1> QED
  BY <1>1, <1>3, <1>4 DEF Grown

(* A commit adds its file to the committed ones, if it is a new one.       *)
LEMMA CommitAdds ==
  ASSUME Commit, files \in Seq(Committed)
  PROVE  /\ Committed' = Committed \cup {df}
         /\ files' # <<>> /\ files' \in Seq(Committed')
<1>1. Len(files) \in Nat /\ DOMAIN files = 1..Len(files)
  OBVIOUS
<1>2. CASE df \in Committed
  <2>1. files' = files
    BY <1>2 DEF Commit
  <2>2. Committed' = Committed /\ files # <<>>
    BY <1>1, <1>2, <2>1 DEF Committed
  <2> QED
    BY <1>2, <2>1, <2>2
<1>3. CASE df \notin Committed
  <2>1. /\ files' = Append(files, df) /\ DOMAIN files' = 1..(Len(files) + 1)
        /\ \A k \in 1..Len(files) : files'[k] = files[k]
        /\ files'[Len(files) + 1] = df
        /\ files' # <<>> /\ files' \in Seq(Committed \cup {df})
    BY <1>1, <1>3 DEF Commit
  <2>2. Committed' = Committed \cup {df}
    BY <1>1, <2>1 DEF Committed
  <2> QED
    BY <2>1, <2>2
<1> QED
  BY <1>2, <1>3

(* A commit leaves the longer of the file it adds and the one there was.   *)
LEMMA GrownStep ==
  ASSUME IInv, NEW e \in Exports, sources = {e}, Grown(e), [Next]_vars
  PROVE  Grown(e)'
<1>1. e \in Seq(Row) /\ Len(e) \in Nat /\ DOMAIN e = 1..Len(e)
  BY ExportsAreRows
<1>2. ASSUME NEW n \in 1..Len(e), Load(SubSeq(e, 1, n)) PROVE Grown(e)'
  <2>1. DOMAIN SubSeq(e, 1, n) = 1..n /\ \A i \in 1..n : SubSeq(e, 1, n)[i] = e[i]
    BY <1>1
  <2>2. df' = Prefix(e, n)
    BY <1>2, <2>1 DEF Load, Prefix
  <2>3. pc' = "loaded" /\ session' = db /\ db' = db /\ files' = files
    BY <1>2 DEF Load
  <2>4. Committed' = Committed
    BY <2>3 DEF Committed
  <2> QED
    BY <2>2, <2>3, <2>4 DEF Grown
<1>3. CASE WriteParties
  <2>1. PICK a, c, t : session = [accounts |-> a, counterparties |-> c,
                                  transactions |-> t]
    BY DEF IInv, AreRecords, IsRecord
  <2>2. /\ session'.transactions = session.transactions
        /\ pc = "loaded" /\ pc' = "parties"
        /\ df' = df /\ db' = db /\ files' = files
    BY <1>3, <2>1 DEF WriteParties
  <2>3. Committed' = Committed
    BY <2>2 DEF Committed
  <2> QED
    BY <2>2, <2>3 DEF Grown
<1>4. CASE WriteTransactions
  <2>1. PICK a, c, t : session = [accounts |-> a, counterparties |-> c,
                                  transactions |-> t]
    BY DEF IInv, AreRecords, IsRecord
  <2>2. /\ session'.transactions = Upserted(session.transactions, df)
        /\ pc = "parties" /\ pc' = "written"
        /\ df' = df /\ db' = db /\ files' = files
    BY <1>4, <2>1 DEF WriteTransactions
  <2>3. Committed' = Committed
    BY <2>2 DEF Committed
  <2> QED
    BY <2>2, <2>3 DEF Grown
<1>5. CASE Commit
  <2>1. /\ pc = "written" /\ pc' = "idle" /\ db' = session
        /\ Committed' = Committed \cup {df}
        /\ files' # <<>> /\ files' \in Seq(Committed')
    BY <1>5, CommitAdds DEF Commit, Grown
  <2>2. PICK m \in 0..Len(e) :
          /\ db.transactions = Prefix(e, m)
          /\ IF files = <<>> THEN m = 0 ELSE Prefix(e, m) \in Committed
          /\ \A f \in Committed : \E k \in 1..m : f = Prefix(e, k)
    BY DEF Grown
  <2>3. PICK n \in 1..Len(e) : df = Prefix(e, n)
    BY <2>1 DEF Grown
  <2> DEFINE b == IF m < n THEN n ELSE m
  <2>4. db'.transactions = Prefix(e, b)
    BY <1>1, <2>1, <2>2, <2>3, PrefixUpserted DEF Grown
  <2>5. b \in 0..Len(e) /\ n \in 1..b /\ m \in 0..b
    BY <1>1
  <2>6. Prefix(e, b) \in Committed'
    <3>1. CASE files = <<>>
      BY <2>1, <2>2, <2>3, <3>1
    <3>2. CASE files # <<>>
      BY <2>1, <2>2, <2>3, <3>2
    <3> QED
      BY <3>1, <3>2
  <2>7. \A f \in Committed' : \E k \in 1..b : f = Prefix(e, k)
    BY <2>1, <2>2, <2>3, <2>5
  <2> HIDE DEF b
  <2> QED
    BY <2>1, <2>4, <2>5, <2>6, <2>7 DEF Grown
<1>6. CASE Rollback \/ Refuse \/ UNCHANGED vars
  <2>1. Committed' = Committed
    BY <1>6 DEF Rollback, Refuse, vars, Committed
  <2> QED
    BY <1>6, <2>1 DEF Rollback, Refuse, vars, Grown
<1> QED
  BY <1>2, <1>3, <1>4, <1>5, <1>6 DEF Next

(* Fed from one growing export, in any order and through any failures, the *)
(* store holds the rows of the longest file committed.                     *)
LEMMA GrownIsLongest ==
  ASSUME IInv, NEW e \in Exports, sources = {e}, Grown(e)
  PROVE  db.transactions = IF files = <<>> THEN <<>> ELSE Longest
<1>1. Len(e) \in Nat
  BY ExportsAreRows
<1>2. PICK m \in 0..Len(e) :
        /\ db.transactions = Prefix(e, m)
        /\ IF files = <<>> THEN m = 0 ELSE Prefix(e, m) \in Committed
        /\ \A f \in Committed : \E k \in 1..m : f = Prefix(e, k)
  BY DEF Grown
<1>3. CASE files = <<>>
  BY <1>2, <1>3 DEF Prefix
<1>4. CASE files # <<>>
  <2>1. \A f \in Committed : \E k \in 1..m : f = Prefix(e, k) /\ Len(f) = k
    BY <1>1, <1>2, PrefixLength
  <2>2. Prefix(e, m) \in Committed /\ Len(Prefix(e, m)) = m /\ m \in Nat
    BY <1>1, <1>2, <1>4, PrefixLength
  <2>3. \A g \in Committed : Len(g) <= Len(Prefix(e, m))
    BY <2>1, <2>2
  <2>4. \A f \in Committed : (\A g \in Committed : Len(g) <= Len(f)) => f = Prefix(e, m)
    BY <2>1, <2>2
  <2>5. Longest = Prefix(e, m)
    BY <2>2, <2>3, <2>4 DEF Longest
  <2> QED
    BY <1>2, <1>4, <2>5
<1> QED
  BY <1>3, <1>4

(* Fed from any exports: the store holds, row by row, what the first file  *)
(* that reached the row brought, and the run's transaction holds that or   *)
(* what it adds to it.                                                     *)
Reached == UNION {DOMAIN f : f \in Committed}

BroughtFirst(table, fs) ==
    \A k \in DOMAIN fs : \A t \in DOMAIN fs[k] :
        (\A j \in 1..(k - 1) : t \notin DOMAIN fs[j]) => table[t] = fs[k][t]

Merged ==
    /\ files \in Seq(Committed)
    /\ DOMAIN db.transactions = Reached
    /\ BroughtFirst(db.transactions, files)
    /\ pc \in {"loaded", "parties"} => session.transactions = db.transactions
    /\ pc = "written" => session.transactions = Upserted(db.transactions, df)

LEMMA MergedInit == Init => Merged
<1> SUFFICES ASSUME Init PROVE Merged
  OBVIOUS
<1>1. files = <<>> /\ db.transactions = <<>> /\ pc = "idle"
  BY DEF Init, Empty
<1>2. Committed = {} /\ files \in Seq(Committed)
  BY <1>1 DEF Committed
<1>3. Reached = {} /\ DOMAIN db.transactions = {}
  BY <1>1, <1>2 DEF Reached
<1> QED
  BY <1>1, <1>2, <1>3 DEF Merged, BroughtFirst

(* A file that was committed before adds nothing; a new one adds the rows  *)
(* past those that are there.                                              *)
LEMMA MergedCommit ==
  ASSUME Merged, Commit
  PROVE  Merged'
<1> DEFINE old == db.transactions
           new == Upserted(old, df)
           n == Len(files)
<1>1. /\ pc' = "idle" /\ db'.transactions = new
      /\ files' = IF df \in Committed THEN files ELSE Append(files, df)
  BY DEF Merged, Commit
<1>2. /\ DOMAIN new = DOMAIN old \cup DOMAIN df
      /\ \A t \in DOMAIN old : new[t] = old[t]
      /\ \A t \in DOMAIN df : t \notin DOMAIN old => new[t] = df[t]
  BY UpsertedRows
<1>3. /\ files \in Seq(Committed) /\ n \in Nat /\ DOMAIN files = 1..n
      /\ DOMAIN old = Reached
  BY DEF Merged
<1>4. \A k \in 1..n : DOMAIN files[k] \subseteq DOMAIN old
  BY <1>3 DEF Reached, Committed
<1>5. Committed' = Committed \cup {df} /\ files' \in Seq(Committed')
  BY CommitAdds, <1>3
<1>6. Reached' = Reached \cup DOMAIN df
  BY <1>5 DEF Reached
<1> HIDE DEF old, new, n
<1>7. ASSUME NEW k \in 1..n, NEW t \in DOMAIN files[k],
             \A j \in 1..(k - 1) : t \notin DOMAIN files[j]
      PROVE  new[t] = files[k][t]
  <2>1. t \in DOMAIN old
    BY <1>4, <1>7
  <2>2. old[t] = files[k][t]
    BY <1>3, <1>7 DEF Merged, BroughtFirst, old
  <2> QED
    BY <1>2, <2>1, <2>2
<1>8. BroughtFirst(new, files')
  <2>1. CASE df \in Committed
    BY <1>1, <1>3, <1>7, <2>1 DEF BroughtFirst
  <2>2. CASE df \notin Committed
    <3>1. /\ DOMAIN files' = 1..(n + 1) /\ files'[n + 1] = df
          /\ \A k \in 1..n : files'[k] = files[k]
      BY <1>1, <1>3, <2>2 DEF n
    <3>2. ASSUME NEW t \in DOMAIN df, \A j \in 1..n : t \notin DOMAIN files[j]
          PROVE  new[t] = df[t]
      BY <1>2, <1>3, <3>2 DEF Reached, Committed
    <3>3. ASSUME NEW k \in 1..(n + 1), NEW t \in DOMAIN files'[k],
                 \A j \in 1..(k - 1) : t \notin DOMAIN files'[j]
          PROVE  new[t] = files'[k][t]
      <4>1. CASE k = n + 1
        BY <1>3, <3>1, <3>2, <3>3, <4>1
      <4>2. CASE k \in 1..n
        BY <1>3, <1>7, <3>1, <3>3, <4>2
      <4> QED
        BY <1>3, <4>1, <4>2
    <3> QED
      BY <1>1, <3>1, <3>3 DEF BroughtFirst
  <2> QED
    BY <2>1, <2>2
<1> QED
  BY <1>1, <1>2, <1>3, <1>5, <1>6, <1>8 DEF Merged

LEMMA MergedStep ==
  ASSUME IInv, Merged, [Next]_vars
  PROVE  Merged'
<1>1. PICK a, c, t : session = [accounts |-> a, counterparties |-> c,
                                transactions |-> t]
  BY DEF IInv, AreRecords, IsRecord
<1>2. files' = files => Committed' = Committed /\ Reached' = Reached
  BY DEF Committed, Reached
<1>3. ASSUME NEW e, NEW n, Load(SubSeq(e, 1, n)) PROVE Merged'
  BY <1>2, <1>3 DEF Load, Merged, BroughtFirst
<1>4. CASE WriteParties
  <2>1. /\ session'.transactions = session.transactions
        /\ pc = "loaded" /\ pc' = "parties" /\ db' = db /\ files' = files
    BY <1>1, <1>4 DEF WriteParties
  <2> QED
    BY <1>2, <2>1 DEF Merged, BroughtFirst
<1>5. CASE WriteTransactions
  <2>1. /\ session'.transactions = Upserted(session.transactions, df)
        /\ pc = "parties" /\ pc' = "written"
        /\ df' = df /\ db' = db /\ files' = files
    BY <1>1, <1>5 DEF WriteTransactions
  <2> QED
    BY <1>2, <2>1 DEF Merged, BroughtFirst
<1>6. CASE Commit
  BY <1>6, MergedCommit
<1>7. CASE Rollback \/ Refuse \/ UNCHANGED vars
  BY <1>2, <1>7 DEF Rollback, Refuse, vars, Merged, BroughtFirst
<1> QED
  BY <1>3, <1>4, <1>5, <1>6, <1>7 DEF Next

(* Whatever exports a store is fed from, in any order and through any      *)
(* failures, the first file committed that reaches a row brings it; of one *)
(* growing export, the store holds the longest file (ingest_to_db).        *)
THEOREM StoresGrow == Spec => []FirstFileWins
<1> DEFINE Inv == Merged /\ \A e \in Exports : sources = {e} => Grown(e)
<1>1. Init => Inv
  BY GrownInit, MergedInit
<1>2. IInv /\ Inv /\ [Next]_vars => Inv'
  <2> SUFFICES ASSUME IInv, Inv, [Next]_vars, NEW e \in Exports, sources' = {e}
               PROVE  Grown(e)'
    BY MergedStep
  <2>1. sources = {e}
    BY DEF Next, Load, WriteParties, WriteTransactions, Commit, Rollback, Refuse, vars
  <2> QED
    BY <2>1, GrownStep
<1>3. IInv /\ Inv => FirstFileWins
  BY GrownIsLongest DEF FirstFileWins, Merged, Reached, BroughtFirst
<1> QED
  BY <1>1, <1>2, <1>3, Invariance, PTL DEF Spec

-----------------------------------------------------------------------------
(* The accounts of a table were first seen in one of the rows named, which *)
(* no row of the account in the whole export precedes.                     *)
SeenFirst(table, e, rows) ==
    \A a \in DOMAIN table : \E i \in rows :
        /\ i \in 1..Len(e) /\ e[i].account = a
        /\ table[a].first_seen_step = e[i].step
        /\ \A j \in 1..Len(e) : e[j].account = a => e[i].step <= e[j].step

AccountsSeen(e) ==
    /\ SeenFirst(db.accounts, e, DOMAIN db.transactions)
    /\ pc = "loaded" => session.accounts = db.accounts
    /\ pc \in {"parties", "written"} =>
         SeenFirst(session.accounts, e, DOMAIN db.transactions \cup DOMAIN df)

(* In an export in the order of its steps, the smallest step at which a    *)
(* file has an account is the account's smallest in the whole export.      *)
LEMMA FirstStepIsFirst ==
  ASSUME NEW e \in Seq(Row), InStepOrder(e), NEW n \in 1..Len(e), df = Prefix(e, n),
         NEW k \in 1..n
  PROVE  \E i \in 1..n :
           /\ e[i].account = e[k].account /\ FirstStep(e[k].account) = e[i].step
           /\ \A j \in 1..Len(e) : e[j].account = e[k].account => e[i].step <= e[j].step
<1> DEFINE a == e[k].account
           T == {e[i].step : i \in {j \in 1..n : e[j].account = a}}
<1>1. /\ Len(e) \in Nat /\ DOMAIN e = 1..Len(e) /\ n \in Nat
      /\ \A i \in 1..Len(e) : e[i] \in Row /\ e[i].step \in Nat
  <2>1. /\ Len(e) \in Nat /\ DOMAIN e = 1..Len(e) /\ n \in Nat
        /\ \A i \in 1..Len(e) : e[i] \in Row
    OBVIOUS
  <2>2. \A r \in Row : r.step \in Nat
    BY DEF Row
  <2> QED
    BY <2>1, <2>2
<1>2. DOMAIN df = 1..n /\ \A i \in 1..n : /\ df[i].account = e[i].account
                                         /\ df[i].step = e[i].step
  <2>1. \A i \in 1..n : df[i] = Normalised(e[i]) /\ e[i] \in Row
    BY <1>1 DEF Prefix
  <2>2. \A r \in Row : Normalised(r).account = r.account /\ Normalised(r).step = r.step
    BY DEF Normalised, Row
  <2> QED
    BY <2>1, <2>2 DEF Prefix
<1>3. PICK x \in T : \A y \in T : x <= y
  <2>1. T \subseteq Nat /\ T # {}
    BY <1>1
  <2> HIDE DEF T
  <2> QED
    BY <2>1, SmallestExists
<1> DEFINE First(i) == /\ df[i].account = a
                       /\ \A j \in DOMAIN df : df[j].account = a
                            => df[i].step <= df[j].step
           c == CHOOSE i \in DOMAIN df : First(i)
<1>4. \E i \in DOMAIN df : First(i)
  <2>1. PICK i \in 1..n : e[i].account = a /\ x = e[i].step
    BY <1>3
  <2>2. \A j \in 1..n : e[j].account = a => e[i].step <= e[j].step
    BY <1>3, <2>1
  <2>3. First(i)
    BY <1>2, <2>1, <2>2
  <2> HIDE DEF First
  <2> QED
    BY <1>2, <2>3
<1>5. c \in DOMAIN df /\ First(c)
  BY <1>4
<1>6. FirstStep(a) = df[c].step
  BY DEF FirstStep
<1> HIDE DEF c
<1>7. c \in 1..n /\ e[c].account = a /\ FirstStep(a) = e[c].step
  BY <1>2, <1>5, <1>6
<1>8. ASSUME NEW j \in 1..Len(e), e[j].account = a PROVE e[c].step <= e[j].step
  <2>1. CASE j \in 1..n
    BY <1>2, <1>5, <1>7, <1>8, <2>1
  <2>2. CASE j \notin 1..n
    BY <1>1, <1>7, <1>8, <2>2 DEF InStepOrder
  <2> QED
    BY <2>1, <2>2
<1> QED
  BY <1>7, <1>8

(* Only the first flush adds accounts, those of the rows of its run.       *)
LEMMA AccountsSeenStep ==
  ASSUME IInv, NEW e \in Exports, sources = {e}, InStepOrder(e), Grown(e),
         AccountsSeen(e), [Next]_vars
  PROVE  AccountsSeen(e)'
<1>1. e \in Seq(Row) /\ Len(e) \in Nat /\ DOMAIN e = 1..Len(e)
  BY ExportsAreRows
<1>2. ASSUME NEW n \in 1..Len(e), Load(SubSeq(e, 1, n)) PROVE AccountsSeen(e)'
  BY <1>2 DEF Load, AccountsSeen, SeenFirst
<1>3. CASE WriteParties
  <2> DEFINE A == [a \in {df[i].account : i \in DOMAIN df} |->
                      [first_seen_step |-> FirstStep(a), is_merchant |-> a \in Merchants]]
  <2>1. PICK a, c, t : session = [accounts |-> a, counterparties |-> c,
                                  transactions |-> t]
    BY DEF IInv, AreRecords, IsRecord
  <2>2. /\ session'.accounts = Upserted(session.accounts, A)
        /\ session.accounts = db.accounts
        /\ pc = "loaded" /\ pc' = "parties" /\ df' = df /\ db' = db
    BY <1>3, <2>1 DEF WriteParties, AccountsSeen
  <2>3. PICK n \in 1..Len(e) : df = Prefix(e, n)
    BY <2>2 DEF Grown
  <2>4. DOMAIN df = 1..n /\ 1..n \subseteq 1..Len(e)
    BY <1>1, <2>3 DEF Prefix
  <2>5. ASSUME NEW b \in DOMAIN Upserted(db.accounts, A)
        PROVE  \E i \in DOMAIN db.transactions \cup DOMAIN df :
                 /\ i \in 1..Len(e) /\ e[i].account = b
                 /\ Upserted(db.accounts, A)[b].first_seen_step = e[i].step
                 /\ \A j \in 1..Len(e) : e[j].account = b => e[i].step <= e[j].step
    <3>1. CASE b \in DOMAIN db.accounts
      <4> HIDE DEF A
      <4>1. Upserted(db.accounts, A)[b] = db.accounts[b]
        BY <3>1 DEF Upserted
      <4> QED
        BY <3>1, <4>1 DEF AccountsSeen, SeenFirst
    <3>2. CASE b \notin DOMAIN db.accounts
      <4>1. b \in DOMAIN A /\ Upserted(db.accounts, A)[b] = A[b]
        <5> HIDE DEF A
        <5>1. b \in DOMAIN db.accounts \cup DOMAIN A
          BY <2>5 DEF Upserted
        <5> QED
          BY <3>2, <5>1 DEF Upserted
      <4>2. PICK k \in 1..n : b = df[k].account
        BY <2>4, <4>1
      <4>3. b = e[k].account
        <5>1. e[k] \in Row /\ df[k] = Normalised(e[k])
          BY <1>1, <2>3, <2>4 DEF Prefix
        <5> QED
          BY <4>2, <5>1, NormalisedRow
      <4>4. A[b].first_seen_step = FirstStep(b)
        BY <4>1
      <4>5. PICK i \in 1..n :
              /\ e[i].account = b /\ FirstStep(b) = e[i].step
              /\ \A j \in 1..Len(e) : e[j].account = b => e[i].step <= e[j].step
        BY <1>1, <2>3, <4>3, FirstStepIsFirst
      <4> HIDE DEF A
      <4> QED
        BY <2>4, <4>1, <4>4, <4>5
    <3> QED
      BY <3>1, <3>2
  <2> HIDE DEF A
  <2>6. SeenFirst(session'.accounts, e, DOMAIN db.transactions \cup DOMAIN df)
    BY <2>2, <2>5 DEF SeenFirst
  <2> QED
    BY <2>2, <2>6 DEF AccountsSeen, SeenFirst
<1>4. CASE WriteTransactions
  <2>1. PICK a, c, t : session = [accounts |-> a, counterparties |-> c,
                                  transactions |-> t]
    BY DEF IInv, AreRecords, IsRecord
  <2>2. /\ session'.accounts = session.accounts
        /\ pc = "parties" /\ pc' = "written" /\ df' = df /\ db' = db
    BY <1>4, <2>1 DEF WriteTransactions
  <2> QED
    BY <2>2 DEF AccountsSeen, SeenFirst
<1>5. CASE Commit
  <2>1. /\ pc = "written" /\ pc' = "idle" /\ db' = session
        /\ session.transactions = Upserted(db.transactions, df)
    BY <1>5 DEF Commit, Grown
  <2>2. DOMAIN session.transactions = DOMAIN db.transactions \cup DOMAIN df
    BY <2>1, UpsertedRows
  <2> QED
    BY <2>1, <2>2 DEF AccountsSeen, SeenFirst
<1>6. CASE Rollback \/ Refuse \/ UNCHANGED vars
  BY <1>6 DEF Rollback, Refuse, vars, AccountsSeen, SeenFirst
<1> QED
  BY <1>2, <1>3, <1>4, <1>5, <1>6 DEF Next

(* Fed from one export in the order of its steps, an account's first step  *)
(* is that of its first stored transaction (ingest_to_db).                 *)
THEOREM AccountsAreFirstSeen == Spec => []FirstSeenIsFirst
<1> DEFINE Inv == \A e \in Exports : sources = {e} /\ InStepOrder(e)
                    => Grown(e) /\ AccountsSeen(e)
<1>1. Init => Inv
  <2> SUFFICES ASSUME Init, NEW e \in Exports, sources = {e} PROVE AccountsSeen(e)
    BY GrownInit
  <2>1. DOMAIN db.accounts = {} /\ pc = "idle"
    BY DEF Init, Empty
  <2> QED
    BY <2>1 DEF AccountsSeen, SeenFirst
<1>2. IInv /\ Inv /\ [Next]_vars => Inv'
  <2> SUFFICES ASSUME IInv, Inv, [Next]_vars, NEW e \in Exports, sources' = {e},
                      InStepOrder(e)
               PROVE  Grown(e)' /\ AccountsSeen(e)'
    BY DEF InStepOrder
  <2>1. sources = {e}
    BY DEF Next, Load, WriteParties, WriteTransactions, Commit, Rollback, Refuse, vars
  <2> QED
    BY <2>1, GrownStep, AccountsSeenStep
<1>3. IInv /\ Inv => FirstSeenIsFirst
  <2> SUFFICES ASSUME IInv, NEW e \in Exports, sources = {e}, Grown(e), AccountsSeen(e),
                      NEW a \in DOMAIN db.accounts
               PROVE  LET rows == {t \in DOMAIN db.transactions :
                                     db.transactions[t].account = a}
                          seen == db.accounts[a].first_seen_step
                      IN  /\ \E t \in rows : db.transactions[t].step = seen
                          /\ \A t \in rows : seen <= db.transactions[t].step
    BY DEF FirstSeenIsFirst
  <2>1. e \in Seq(Row) /\ Len(e) \in Nat /\ DOMAIN e = 1..Len(e)
    BY ExportsAreRows
  <2>2. PICK m \in 0..Len(e) : db.transactions = Prefix(e, m)
    BY DEF Grown
  <2>3. /\ DOMAIN db.transactions = 1..m /\ 1..m \subseteq 1..Len(e)
        /\ \A t \in 1..m : /\ db.transactions[t].account = e[t].account
                           /\ db.transactions[t].step = e[t].step
    <3>1. \A r \in Row : Normalised(r).account = r.account /\ Normalised(r).step = r.step
      BY DEF Normalised, Row
    <3>2. DOMAIN Prefix(e, m) = 1..m /\ 1..m \subseteq 1..Len(e)
      BY <2>1 DEF Prefix
    <3>3. \A t \in 1..m : Prefix(e, m)[t] = Normalised(e[t]) /\ e[t] \in Row
      BY <2>1, <3>2 DEF Prefix
    <3> QED
      BY <2>2, <3>1, <3>2, <3>3
  <2>4. PICK i \in 1..m :
          /\ e[i].account = a /\ db.accounts[a].first_seen_step = e[i].step
          /\ \A j \in 1..Len(e) : e[j].account = a => e[i].step <= e[j].step
    BY <2>3 DEF AccountsSeen, SeenFirst
  <2> QED
    BY <2>3, <2>4
<1> QED
  BY <1>1, <1>2, <1>3, Invariance, PTL DEF Spec
=============================================================================
