---------------------------- MODULE OpeningProofs ----------------------------
(***************************************************************************)
(* What comes into the store, and the schema it comes into, for every      *)
(* batch, transaction, score and threshold and every number of starts and  *)
(* crashes: the demo set is committed as a whole or not at all, each case  *)
(* it stores is explained by grounded sentences that cite their rules and  *)
(* tell what was excluded, its indicators lead back to rules that fired;   *)
(* and the schema is, whenever committed, the one its revision says.       *)
(***************************************************************************)
EXTENDS CaseView, Deployment, RecursionProofs, SequenceTheorems

(* The cases the script can flush. *)
NewCases == {NewCase(Batch[k], prior, prior, score, Hits(fired)) :
               k \in DOMAIN Batch, prior \in Priors, score \in Scores,
               fired \in SUBSET Rules}

(* The rows of the open transaction are cases of a prefix of the batch,    *)
(* and there are none unless the script is running.                        *)
PendingIsPrefix ==
    /\ pending \in Seq(NewCases)
    /\ Len(pending) <= Len(Batch)
    /\ \A k \in 1..Len(pending) : pending[k].txn_id = Batch[k].txn_id
    /\ phase # "seeding" => pending = <<>>

(* What is committed is one case for each transaction, or nothing, and     *)
(* nothing while the script is opening cases.                              *)
CommittedIsWhole ==
    /\ \A c \in cases : {"txn_id", "status"} \subseteq DOMAIN c
    /\ cases # {} => \A id \in TxnIds : CasesOf(id) # {}
    /\ \A c \in cases : c.txn_id \in TxnIds
    /\ \A c, d \in cases : c.txn_id = d.txn_id => c = d
    /\ phase = "seeding" => cases = {}
    /\ phase = "serving" => cases # {}

OInv == /\ phase \in {"down", "seeding", "serving"}
        /\ PendingIsPrefix
        /\ CommittedIsWhole

(* A new case is of its transaction. *)
LEMMA NewCaseFields ==
    ASSUME NEW txn, NEW count, NEW prior, NEW score, NEW hits
    PROVE  /\ NewCase(txn, count, prior, score, hits).txn_id = txn.txn_id
           /\ {"txn_id", "status"}
                \subseteq DOMAIN NewCase(txn, count, prior, score, hits)
BY DEF NewCase

(* The batch is a non-empty list of known transactions. *)
LEMMA BatchFacts == /\ Len(Batch) \in Nat \ {0}
                    /\ DOMAIN Batch = 1..Len(Batch)
                    /\ Batch[1].txn_id \in TxnIds
                    /\ \A k \in 1..Len(Batch) : Batch[k].txn_id \in TxnIds
<1>1. Batch \in Seq(Txns) /\ Batch # <<>>
  BY OpeningAssumption
<1>2. Len(Batch) \in Nat /\ DOMAIN Batch = 1..Len(Batch) /\ Len(Batch) # 0
  BY <1>1
<1>3. \A k \in DOMAIN Batch : Batch[k].txn_id \in TxnIds
  BY DEF TxnIds
<1> QED
  BY <1>2, <1>3

(* The first transaction has a case exactly if something is committed. *)
LEMMA GuardIsExact == ASSUME OInv PROVE AlreadySeeded <=> cases # {}
BY BatchFacts DEF OInv, CommittedIsWhole, AlreadySeeded, CasesOf

(* The commit puts one case for each transaction into an empty table. *)
LEMMA CommitWhole ==
    ASSUME OInv, CommitBatch
    PROVE  CommittedIsWhole'
<1>1. /\ cases = {} /\ pending \in Seq(NewCases) /\ Len(pending) = Len(Batch)
      /\ \A k \in 1..Len(Batch) : pending[k].txn_id = Batch[k].txn_id
      /\ DOMAIN pending = 1..Len(Batch)
      /\ phase' = "serving"
  BY BatchFacts DEF OInv, PendingIsPrefix, CommittedIsWhole, CommitBatch
<1>2. cases' = {pending[k] : k \in 1..Len(Batch)}
  BY <1>1 DEF CommitBatch
<1>3. \A k \in 1..Len(Batch) : pending[k] \in NewCases
  BY <1>1, BatchFacts
<1>4. \A c \in NewCases : {"txn_id", "status"} \subseteq DOMAIN c
  BY NewCaseFields DEF NewCases
<1>5. \A c, d \in cases' : c.txn_id = d.txn_id => c = d
  <2> SUFFICES ASSUME NEW j \in 1..Len(Batch), NEW k \in 1..Len(Batch),
                      pending[j].txn_id = pending[k].txn_id
               PROVE  pending[j] = pending[k]
    BY <1>2
  <2>1. Batch[j].txn_id = Batch[k].txn_id
    BY <1>1
  <2>2. j = k
    BY <2>1, BatchFacts, OpeningAssumption
  <2> QED
    BY <2>2
<1>6. \A id \in TxnIds : \E c \in cases' : c.txn_id = id
  <2> SUFFICES ASSUME NEW k \in 1..Len(Batch)
               PROVE  \E c \in cases' : c.txn_id = Batch[k].txn_id
    BY BatchFacts DEF TxnIds
  <2> QED
    BY <1>1, <1>2
<1>7. \A c \in cases' : c.txn_id \in TxnIds
  BY <1>1, <1>2, BatchFacts
<1>8. cases' # {}
  BY <1>6, BatchFacts
<1> QED
  BY <1>1, <1>2, <1>3, <1>4, <1>5, <1>6, <1>7, <1>8 DEF CommittedIsWhole, CasesOf

(* A disposition changes the status of one case, and nothing else of it. *)
LEMMA DisposeWhole ==
    ASSUME OInv, NEW c \in cases, NEW status, Dispose(c, status)
    PROVE  CommittedIsWhole'
<1> DEFINE d == [c EXCEPT !.status = status]
<1>1. /\ cases' = (cases \ {c}) \cup {d}
      /\ phase = "serving" /\ phase' = phase
  BY DEF Dispose
<1>2. {"txn_id", "status"} \subseteq DOMAIN c
  BY DEF OInv, CommittedIsWhole
<1>3. DOMAIN d = DOMAIN c /\ d.txn_id = c.txn_id
  BY <1>2
<1> HIDE DEF d
<1>4. \A e \in cases' : {"txn_id", "status"} \subseteq DOMAIN e
  BY <1>1, <1>2, <1>3 DEF OInv, CommittedIsWhole
<1>5. \A e \in cases' : e.txn_id \in TxnIds
  BY <1>1, <1>3 DEF OInv, CommittedIsWhole
<1>6. \A e, f \in cases' : e.txn_id = f.txn_id => e = f
  BY <1>1, <1>3 DEF OInv, CommittedIsWhole
<1>7. \A id \in TxnIds : \E e \in cases' : e.txn_id = id
  <2> SUFFICES ASSUME NEW id \in TxnIds
               PROVE  \E e \in cases' : e.txn_id = id
    OBVIOUS
  <2>1. PICK e \in cases : e.txn_id = id
    BY DEF OInv, CommittedIsWhole, CasesOf
  <2>2. CASE e = c
    BY <1>1, <1>3, <2>1, <2>2
  <2>3. CASE e # c
    BY <1>1, <2>1, <2>3
  <2> QED
    BY <2>2, <2>3
<1> QED
  BY <1>1, <1>4, <1>5, <1>6, <1>7 DEF CommittedIsWhole, CasesOf

(* Every step keeps the invariant. *)
LEMMA OpeningStep == OInv /\ [Next]_vars => OInv'
<1> SUFFICES ASSUME OInv, [Next]_vars PROVE OInv'
  OBVIOUS
<1>1. CASE Launch
  <2>1. AlreadySeeded <=> cases # {}
    BY GuardIsExact
  <2> QED
    BY <1>1, <2>1 DEF Launch, OInv, PendingIsPrefix, CommittedIsWhole, CasesOf
<1>2. ASSUME NEW prior \in Priors, NEW score \in Scores,
             NEW fired \in SUBSET Rules,
             OpenCase(prior, prior, score, Hits(fired))
      PROVE  OInv'
  <2> DEFINE n == Len(pending)
             new == NewCase(Batch[n + 1], prior, prior, score, Hits(fired))
  <2>1. /\ pending \in Seq(NewCases) /\ n \in Nat /\ n < Len(Batch)
        /\ pending' = Append(pending, new)
        /\ UNCHANGED <<phase, cases>> /\ phase = "seeding"
    BY <1>2 DEF OInv, PendingIsPrefix, OpenCase
  <2>2. n + 1 \in DOMAIN Batch
    BY <2>1, BatchFacts
  <2>3. new \in NewCases
    BY <2>2 DEF NewCases
  <2>4. new.txn_id = Batch[n + 1].txn_id
    BY NewCaseFields
  <2> HIDE DEF new
  <2>5. /\ pending' \in Seq(NewCases) /\ Len(pending') = n + 1
        /\ \A k \in 1..n : pending'[k] = pending[k]
        /\ pending'[n + 1] = new
    BY <2>1, <2>3
  <2>6. PendingIsPrefix'
    BY <2>1, <2>4, <2>5, BatchFacts DEF OInv, PendingIsPrefix
  <2> QED
    BY <2>1, <2>6 DEF OInv, CommittedIsWhole, CasesOf
<1>3. CASE CommitBatch
  <2>1. PendingIsPrefix'
    BY <1>3, BatchFacts DEF CommitBatch, PendingIsPrefix
  <2> QED
    BY <1>3, <2>1, CommitWhole DEF CommitBatch, OInv
<1>4. CASE Stop
  BY <1>4, BatchFacts DEF Stop, OInv, PendingIsPrefix, CommittedIsWhole, CasesOf
<1>5. ASSUME NEW c \in cases, NEW status, Dispose(c, status)
      PROVE  OInv'
  <2>1. PendingIsPrefix'
    BY <1>5 DEF Dispose, OInv, PendingIsPrefix
  <2> QED
    BY <1>5, <2>1, DisposeWhole DEF Dispose, OInv
<1>6. CASE UNCHANGED vars
  BY <1>6 DEF vars, OInv, PendingIsPrefix, CommittedIsWhole, CasesOf
<1> QED
  BY <1>1, <1>2, <1>3, <1>4, <1>5, <1>6 DEF Next

(* The tables and the open transaction are always as OInv says. *)
THEOREM OpeningInvariance == Spec => []OInv
<1>1. Init => OInv
  BY BatchFacts DEF Init, OInv, PendingIsPrefix, CommittedIsWhole
<1> QED
  BY <1>1, OpeningStep, PTL DEF Spec

(* However often the container is killed and restarted, the demo set is    *)
(* committed as a whole or not at all, one case for each transaction.      *)
THEOREM DemoSetIsAtomic == Spec => []AllOrNothing
<1>1. OInv => AllOrNothing
  BY DEF OInv, CommittedIsWhole, AllOrNothing, CasesOf
<1> QED
  BY <1>1, OpeningInvariance, PTL

(* The guard on the first transaction protects the whole batch from the    *)
(* unique constraint.                                                      *)
THEOREM GuardProtectsTheBatch == Spec => []SeedsOnlyOnce
<1>1. OInv => SeedsOnlyOnce
  BY DEF OInv, CommittedIsWhole, SeedsOnlyOnce, CasesOf
<1> QED
  BY <1>1, OpeningInvariance, PTL

-----------------------------------------------------------------------------
(* Where the elements of a package stand: the facts and the features, one  *)
(* element for each hit, and the five that every package ends with.        *)
PackageOf(p, txn, prior, score, hits) ==
    LET h == Len(hits)
    IN  /\ Len(p) = h + 7 /\ DOMAIN p = 1..(h + 7)
        /\ p[1] = TransactionFacts(txn)
        /\ p[2] = Element("interpretable_features", "transaction", {}, {}, TRUE, 2)
        /\ \A k \in 1..h : p[k + 2] = RuleElement(hits[k])
        /\ p[h + 3] = AccountHistory(prior, prior)
        /\ p[h + 4] = Element("counterparty", "counterparty", {},
                         {Token("counterparty_id", txn.counterparty_id)}, TRUE, 4)
        /\ p[h + 5] = Element("direction_balances", "transaction", {}, {}, TRUE, 5)
        /\ p[h + 6] = ScoreSignal(score)
        /\ p[h + 7] = Element("disclosure:synthetic_data", "disclosure", {}, {},
                              FALSE, 7)

(* Two elements, a list and five more, one after the other. *)
Parts(p, a, b, r, v, w, x, y, z) ==
    LET h == Len(r)
    IN  /\ Len(p) = h + 7 /\ DOMAIN p = 1..(h + 7)
        /\ p[1] = a /\ p[2] = b
        /\ \A k \in 1..h : p[k + 2] = r[k]
        /\ p[h + 3] = v /\ p[h + 4] = w /\ p[h + 5] = x
        /\ p[h + 6] = y /\ p[h + 7] = z

LEMMA Concatenation ==
    ASSUME NEW X, NEW r \in Seq(X), NEW a \in X, NEW b \in X,
           NEW v \in X, NEW w \in X, NEW x \in X, NEW y \in X, NEW z \in X
    PROVE  /\ <<a, b>> \o r \o <<v, w, x, y, z>> \in Seq(X)
           /\ Parts(<<a, b>> \o r \o <<v, w, x, y, z>>, a, b, r, v, w, x, y, z)
<1> DEFINE h == Len(r)
           q == <<a, b>> \o r
           t == <<v, w, x, y, z>>
           p == q \o t
<1>1. h \in Nat
  OBVIOUS
<1>2. /\ q \in Seq(X) /\ Len(q) = h + 2 /\ q[1] = a /\ q[2] = b
      /\ \A k \in 1..h : q[k + 2] = r[k]
  OBVIOUS
<1>3. /\ t \in Seq(X) /\ Len(t) = 5
      /\ t[1] = v /\ t[2] = w /\ t[3] = x /\ t[4] = y /\ t[5] = z
  OBVIOUS
<1> HIDE DEF q, t, h
<1>4. /\ p \in Seq(X) /\ Len(p) = h + 7
      /\ \A k \in 1..(h + 2) : p[k] = q[k]
      /\ \A k \in 1..5 : p[k + (h + 2)] = t[k]
  <2>1. /\ p \in Seq(X) /\ Len(p) = Len(q) + Len(t)
        /\ \A k \in 1..(Len(q) + Len(t)) :
              p[k] = IF k <= Len(q) THEN q[k] ELSE t[k - Len(q)]
    BY <1>2, <1>3, ConcatProperties
  <2> HIDE DEF p
  <2>2. \A k \in 1..(h + 7) : p[k] = IF k <= h + 2 THEN q[k] ELSE t[k - (h + 2)]
    BY <1>1, <1>2, <1>3, <2>1
  <2>3. ASSUME NEW k \in 1..5 PROVE p[k + (h + 2)] = t[k]
    <3>1. /\ k + (h + 2) \in 1..(h + 7) /\ ~(k + (h + 2) <= h + 2)
          /\ (k + (h + 2)) - (h + 2) = k
      BY <1>1
    <3> QED
      BY <2>2, <3>1
  <2> QED
    BY <1>1, <1>2, <1>3, <2>1, <2>2, <2>3
<1>5. /\ p[1] = a /\ p[2] = b /\ \A k \in 1..h : p[k + 2] = r[k]
  <2>1. 1 \in 1..(h + 2) /\ 2 \in 1..(h + 2) /\ \A k \in 1..h : k + 2 \in 1..(h + 2)
    BY <1>1
  <2> QED
    BY <1>2, <1>4, <2>1
<1>6. p[h + 3] = v /\ p[h + 4] = w /\ p[h + 5] = x /\ p[h + 6] = y /\ p[h + 7] = z
  <2>1. /\ 1 + (h + 2) = h + 3 /\ 2 + (h + 2) = h + 4 /\ 3 + (h + 2) = h + 5
        /\ 4 + (h + 2) = h + 6 /\ 5 + (h + 2) = h + 7
    BY <1>1
  <2> HIDE DEF p
  <2>2. p[1 + (h + 2)] = v /\ p[2 + (h + 2)] = w /\ p[3 + (h + 2)] = x
    BY <1>3, <1>4
  <2>3. p[4 + (h + 2)] = y /\ p[5 + (h + 2)] = z
    BY <1>3, <1>4
  <2> QED
    BY <2>1, <2>2, <2>3
<1>7. DOMAIN p = 1..(h + 7)
  BY <1>1, <1>4
<1> HIDE DEF p
<1>8. p \in Seq(X) /\ Parts(p, a, b, r, v, w, x, y, z)
  BY <1>4, <1>5, <1>6, <1>7 DEF h, Parts
<1> QED
  BY <1>8 DEF p, q, t

(* The assembler makes such a package. *)
LEMMA AssemblyMakesThePackage ==
    ASSUME NEW txn, NEW prior, NEW score, NEW hits \in Seq(Rules)
    PROVE  /\ \E X : AssembleEvidence(txn, prior, prior, score, hits) \in Seq(X)
           /\ PackageOf(AssembleEvidence(txn, prior, prior, score, hits),
                        txn, prior, score, hits)
<1> DEFINE a == TransactionFacts(txn)
           b == Element("interpretable_features", "transaction", {}, {}, TRUE, 2)
           v == AccountHistory(prior, prior)
           w == Element("counterparty", "counterparty", {},
                        {Token("counterparty_id", txn.counterparty_id)}, TRUE, 4)
           x == Element("direction_balances", "transaction", {}, {}, TRUE, 5)
           y == ScoreSignal(score)
           z == Element("disclosure:synthetic_data", "disclosure", {}, {}, FALSE, 7)
           X == {RuleElement(rule) : rule \in Rules} \cup {a, b, v, w, x, y, z}
           r == [k \in DOMAIN hits |-> RuleElement(hits[k])]
           p == <<a, b>> \o r \o <<v, w, x, y, z>>
<1>1. AssembleEvidence(txn, prior, prior, score, hits) = p
  BY DEF AssembleEvidence
<1>2. Len(hits) \in Nat /\ DOMAIN hits = 1..Len(hits)
      /\ \A k \in 1..Len(hits) : hits[k] \in Rules
  OBVIOUS
<1> HIDE DEF a, b, v, w, x, y, z
<1>3. r \in Seq(X) /\ Len(r) = Len(hits)
      /\ \A k \in 1..Len(hits) : r[k] = RuleElement(hits[k])
  BY <1>2
<1>4. /\ a \in X /\ b \in X /\ v \in X /\ w \in X /\ x \in X /\ y \in X /\ z \in X
  OBVIOUS
<1> HIDE DEF r, X
<1>5. p \in Seq(X) /\ Parts(p, a, b, r, v, w, x, y, z)
  BY <1>3, <1>4, Concatenation
<1> HIDE DEF p
<1>6. PackageOf(p, txn, prior, score, hits)
  BY <1>2, <1>3, <1>5 DEF Parts, PackageOf, a, b, v, w, x, y, z
<1> QED
  BY <1>1, <1>5, <1>6

(* The elements that every package has one of. *)
FixedIds == {"txn_facts", "interpretable_features", "account_baseline",
             "counterparty", "direction_balances", "score_signal",
             "disclosure:synthetic_data"}

(* A rule's element id names that rule and no other element. *)
LEMMA RuleElementIds ==
    /\ \A rule \in Rules : RuleElementId[rule] \notin FixedIds
    /\ \A q, r \in Rules : RuleElementId[q] = RuleElementId[r] => q = r
BY DEF Rules, RuleElementId, FixedIds

(* What the elements whose payload depends on the case are made of. *)
LEMMA RuleElementFields ==
    ASSUME NEW rule
    PROVE  /\ RuleElement(rule).element_id = RuleElementId[rule]
           /\ RuleElement(rule).source = "rule"
           /\ RuleElement(rule).groundable = TRUE
           /\ RuleElement(rule).strings
                = {Token("rule_id", rule), Token("summary", rule)}
           /\ rule = "velocity" => Token("window_hours", Count(24))
                                     \in RuleElement(rule).numbers
<1> DEFINE numbers == IF rule = "velocity" THEN {Token("window_hours", Count(24))}
                                           ELSE {}
           strings == {Token("rule_id", rule), Token("summary", rule)}
           id == RuleElementId[rule]
<1>1. RuleElement(rule) = Element(id, "rule", numbers, strings, TRUE, 2)
  BY DEF RuleElement
<1>2. rule = "velocity" => Token("window_hours", Count(24)) \in numbers
  OBVIOUS
<1> HIDE DEF numbers, strings, id
<1>3. /\ RuleElement(rule).element_id = id /\ RuleElement(rule).source = "rule"
      /\ RuleElement(rule).groundable = TRUE
      /\ RuleElement(rule).numbers = numbers /\ RuleElement(rule).strings = strings
  BY <1>1 DEF Element
<1> QED
  BY <1>2, <1>3 DEF strings, id

LEMMA AccountHistoryFields ==
    ASSUME NEW prior \in Nat
    PROVE  LET e == AccountHistory(prior, prior)
           IN  /\ e.element_id = "account_baseline"
               /\ e.source = "account_history"
               /\ e.groundable = TRUE
               /\ prior = 0 => Token("reason", "no baseline") \in e.strings
               /\ prior # 0 => e.strings = {}
               /\ Token("prior_transaction_count", Count(prior)) \in e.numbers
               /\ \A t \in e.numbers :
                    \/ t = Token("prior_transaction_count", Count(prior))
                    \/ t = Token("txn_count_24h", Count(prior))
<1> DEFINE e == AccountHistory(prior, prior)
           numbers == {Token("prior_transaction_count", Count(prior))}
                        \cup (IF prior = 0 THEN {}
                              ELSE {Token("txn_count_24h", Count(prior))})
           strings == IF prior = 0 THEN {Token("reason", "no baseline")} ELSE {}
<1>1. e = Element("account_baseline", "account_history", numbers, strings, TRUE, 3)
  BY DEF AccountHistory
<1>2. /\ prior = 0 => Token("reason", "no baseline") \in strings
      /\ prior # 0 => strings = {}
      /\ Token("prior_transaction_count", Count(prior)) \in numbers
      /\ \A t \in numbers : \/ t = Token("prior_transaction_count", Count(prior))
                            \/ t = Token("txn_count_24h", Count(prior))
  OBVIOUS
<1> HIDE DEF numbers, strings, e
<1>3. /\ e.element_id = "account_baseline" /\ e.source = "account_history"
      /\ e.groundable = TRUE /\ e.numbers = numbers /\ e.strings = strings
  BY <1>1 DEF Element
<1> QED
  BY <1>2, <1>3 DEF e

(* The ids and the sources of a package's elements, place by place. *)
LaidOut(p, hits) ==
    LET h == Len(hits)
    IN  /\ h \in Nat /\ DOMAIN p = 1..(h + 7)
        /\ \A m \in 1..(h + 7) : m \in {1, 2, h + 3, h + 4, h + 5, h + 6, h + 7}
                                 \/ m - 2 \in 1..h
        /\ p[1].element_id = "txn_facts"
        /\ p[2].element_id = "interpretable_features"
        /\ p[h + 3].element_id = "account_baseline"
        /\ p[h + 4].element_id = "counterparty"
        /\ p[h + 5].element_id = "direction_balances"
        /\ p[h + 6].element_id = "score_signal"
        /\ p[h + 7].element_id = "disclosure:synthetic_data"
        /\ \A k \in 1..h : /\ hits[k] \in Rules
                           /\ p[k + 2].element_id = RuleElementId[hits[k]]
        /\ \A m \in 1..(h + 7) : p[m].source = "rule" <=> m - 2 \in 1..h
        /\ \A m \in 1..(h + 7) : p[m].groundable <=> m # h + 7

LEMMA ElementsOfAPackage ==
    ASSUME NEW hits \in Seq(Rules), NEW p, NEW txn, NEW prior \in Nat, NEW score,
           PackageOf(p, txn, prior, score, hits)
    PROVE  LaidOut(p, hits)
<1> DEFINE h == Len(hits)
<1>1. h \in Nat /\ \A k \in 1..h : hits[k] \in Rules
  OBVIOUS
<1>2. /\ DOMAIN p = 1..(h + 7)
      /\ p[1] = TransactionFacts(txn)
      /\ p[2] = Element("interpretable_features", "transaction", {}, {}, TRUE, 2)
      /\ \A k \in 1..h : p[k + 2] = RuleElement(hits[k])
      /\ p[h + 3] = AccountHistory(prior, prior)
      /\ p[h + 4] = Element("counterparty", "counterparty", {},
                         {Token("counterparty_id", txn.counterparty_id)}, TRUE, 4)
      /\ p[h + 5] = Element("direction_balances", "transaction", {}, {}, TRUE, 5)
      /\ p[h + 6] = ScoreSignal(score)
      /\ p[h + 7] = Element("disclosure:synthetic_data", "disclosure", {}, {},
                            FALSE, 7)
  BY DEF PackageOf
<1> HIDE DEF h
<1>3. \A m \in 1..(h + 7) : m \in {1, 2, h + 3, h + 4, h + 5, h + 6, h + 7}
                            \/ m - 2 \in 1..h
  BY <1>1
<1>4. /\ p[1].element_id = "txn_facts" /\ p[1].source = "transaction"
      /\ p[1].groundable = TRUE
  BY <1>2 DEF TransactionFacts, Element
<1>5. /\ p[2].element_id = "interpretable_features" /\ p[2].source = "transaction"
      /\ p[2].groundable = TRUE
  BY <1>2 DEF Element
<1>6. /\ p[h + 3].element_id = "account_baseline"
      /\ p[h + 3].source = "account_history" /\ p[h + 3].groundable = TRUE
  BY <1>2, AccountHistoryFields
<1>7. /\ p[h + 4].element_id = "counterparty" /\ p[h + 4].source = "counterparty"
      /\ p[h + 4].groundable = TRUE
  BY <1>2 DEF Element
<1>8. /\ p[h + 5].element_id = "direction_balances"
      /\ p[h + 5].source = "transaction" /\ p[h + 5].groundable = TRUE
  BY <1>2 DEF Element
<1>9. /\ p[h + 6].element_id = "score_signal" /\ p[h + 6].source = "score_signal"
      /\ p[h + 6].groundable = TRUE
  BY <1>2 DEF ScoreSignal, Element
<1>10. /\ p[h + 7].element_id = "disclosure:synthetic_data"
       /\ p[h + 7].source = "disclosure" /\ p[h + 7].groundable = FALSE
  BY <1>2 DEF Element
<1>11. \A k \in 1..h : /\ p[k + 2].element_id = RuleElementId[hits[k]]
                       /\ p[k + 2].source = "rule" /\ p[k + 2].groundable = TRUE
  BY <1>2, RuleElementFields
<1>12. ASSUME NEW m \in 1..(h + 7)
       PROVE  /\ p[m].source = "rule" <=> m - 2 \in 1..h
              /\ p[m].groundable <=> m # h + 7
  <2>1. CASE m - 2 \in 1..h
    <3>1. (m - 2) + 2 = m /\ m # h + 7
      BY <1>1, <2>1
    <3> QED
      BY <1>11, <2>1, <3>1
  <2>2. CASE m \in {1, 2, h + 3, h + 4, h + 5, h + 6}
    <3>1. ~(m - 2 \in 1..h) /\ m # h + 7
      BY <1>1, <2>2
    <3> QED
      BY <1>4, <1>5, <1>6, <1>7, <1>8, <1>9, <2>2, <3>1
  <2>3. CASE m = h + 7
    BY <1>1, <1>10, <2>3
  <2> QED
    BY <1>3, <2>1, <2>2, <2>3
<1> QED
  BY <1>1, <1>2, <1>3, <1>4, <1>5, <1>6, <1>7, <1>8, <1>9, <1>10, <1>11, <1>12 DEF h, LaidOut

(* Of the elements that every package has one of, there is only one. *)
LEMMA FixedElementsAreUnique ==
    ASSUME NEW hits \in Seq(Rules), NEW p, NEW txn, NEW prior \in Nat, NEW score,
           PackageOf(p, txn, prior, score, hits),
           NEW m \in DOMAIN p, p[m].element_id \in FixedIds
    PROVE  /\ \A n \in DOMAIN p : p[n].element_id = p[m].element_id => n = m
           /\ ById(p, p[m].element_id) = p[m]
<1> DEFINE h == Len(hits)
<1>1. /\ h \in Nat /\ DOMAIN p = 1..(h + 7)
      /\ \A n \in 1..(h + 7) : n \in {1, 2, h + 3, h + 4, h + 5, h + 6, h + 7}
                               \/ n - 2 \in 1..h
      /\ p[1].element_id = "txn_facts"
      /\ p[2].element_id = "interpretable_features"
      /\ p[h + 3].element_id = "account_baseline"
      /\ p[h + 4].element_id = "counterparty"
      /\ p[h + 5].element_id = "direction_balances"
      /\ p[h + 6].element_id = "score_signal"
      /\ p[h + 7].element_id = "disclosure:synthetic_data"
      /\ \A k \in 1..h : /\ hits[k] \in Rules
                         /\ p[k + 2].element_id = RuleElementId[hits[k]]
  BY ElementsOfAPackage DEF LaidOut
<1> HIDE DEF h
<1>2. ASSUME NEW n \in 1..(h + 7), n - 2 \in 1..h
      PROVE  p[n].element_id \notin FixedIds
  <2>1. (n - 2) + 2 = n
    OBVIOUS
  <2> QED
    BY <1>1, <1>2, <2>1, RuleElementIds
<1>3. ASSUME NEW n \in DOMAIN p, p[n].element_id = p[m].element_id
      PROVE  n = m
  <2>1. /\ n \in {1, 2, h + 3, h + 4, h + 5, h + 6, h + 7}
        /\ m \in {1, 2, h + 3, h + 4, h + 5, h + 6, h + 7}
    BY <1>1, <1>2, <1>3
  <2> QED
    BY <1>1, <1>3, <2>1
<1>4. ById(p, p[m].element_id) = p[m]
  <2>1. /\ p[m] \in Elements(p)
        /\ \A e \in Elements(p) : e.element_id = p[m].element_id => e = p[m]
    BY <1>3 DEF Elements
  <2> QED
    BY <2>1 DEF ById
<1> QED
  BY <1>3, <1>4

(* The three elements the sentences look up by their id. *)
LEMMA LookedUpElements ==
    ASSUME NEW hits \in Seq(Rules), NEW p, NEW txn, NEW prior \in Nat, NEW score,
           PackageOf(p, txn, prior, score, hits)
    PROVE  /\ ById(p, "txn_facts") = TransactionFacts(txn)
           /\ ById(p, "account_baseline") = AccountHistory(prior, prior)
           /\ ById(p, "score_signal") = ScoreSignal(score)
<1> DEFINE h == Len(hits)
<1>1. /\ h \in Nat /\ DOMAIN p = 1..(h + 7)
      /\ p[1].element_id = "txn_facts"
      /\ p[h + 3].element_id = "account_baseline"
      /\ p[h + 6].element_id = "score_signal"
  BY ElementsOfAPackage DEF LaidOut
<1>2. /\ p[1] = TransactionFacts(txn) /\ p[h + 3] = AccountHistory(prior, prior)
      /\ p[h + 6] = ScoreSignal(score)
  BY DEF PackageOf
<1> HIDE DEF h
<1>3. 1 \in DOMAIN p /\ h + 3 \in DOMAIN p /\ h + 6 \in DOMAIN p
  BY <1>1
<1>4. ById(p, p[1].element_id) = p[1]
  BY <1>1, <1>3, FixedElementsAreUnique DEF FixedIds
<1>5. ById(p, p[h + 3].element_id) = p[h + 3]
  BY <1>1, <1>3, FixedElementsAreUnique DEF FixedIds
<1>6. ById(p, p[h + 6].element_id) = p[h + 6]
  BY <1>1, <1>3, FixedElementsAreUnique DEF FixedIds
<1> QED
  BY <1>1, <1>2, <1>4, <1>5, <1>6

-----------------------------------------------------------------------------
(* What is frozen in the row of a case: what was made of its transaction,  *)
(* the length of its account's history, the score and the rules that fired.*)
MadeFrom(c, txn, prior, score, hits) ==
    /\ txn \in {Batch[k] : k \in DOMAIN Batch}
    /\ prior \in Nat
    /\ score \in Scores
    /\ hits \in Seq(Rules)
    /\ c.rule_hits = hits
    /\ c.score = IF score.available THEN score.probability ELSE None
    /\ c.evidence = AssembleEvidence(txn, prior, prior, score, hits)
    /\ c.recommendation.rule_ids = {hits[k] : k \in DOMAIN hits}
    /\ c.recommendation.band = "none" <=> ~Trusted(score)
    /\ c.explanation = Explain(c.evidence, c.recommendation)

Opened(c) == \E txn, prior, score, hits : MadeFrom(c, txn, prior, score, hits)

(* The sentence on a rule that fired. *)
RuleSentence(rule) ==
    Sentence({}, {t \in RuleElement(rule).strings : t.field = "summary"},
             {RuleElementId[rule]})

(* A case has a score exactly if its status can be trusted. *)
LEMMA ScoreFacts ==
    ASSUME NEW c, NEW score \in Scores,
           c.score = IF score.available THEN score.probability ELSE None
    PROVE  /\ score.available \in BOOLEAN
           /\ c.score # None <=> Trusted(score)
           /\ Trusted(score) => score.available /\ c.score = score.probability
           /\ score.available /\ ~Trusted(score) => score.probability = None
BY OpeningAssumption DEF Trusted

(* The package of an opened case. *)
LEMMA PackageOfACase ==
    ASSUME NEW c, NEW txn, NEW prior, NEW score, NEW hits,
           MadeFrom(c, txn, prior, score, hits)
    PROVE  /\ \E X : c.evidence \in Seq(X)
           /\ PackageOf(c.evidence, txn, prior, score, hits)
BY AssemblyMakesThePackage DEF MadeFrom

(* The rule elements of a package are those of the hits, in their order. *)
LEMMA RulesOfAPackage ==
    ASSUME NEW X, NEW p \in Seq(X), NEW txn, NEW prior \in Nat, NEW score,
           NEW hits \in Seq(Rules), PackageOf(p, txn, prior, score, hits)
    PROVE  Kept(p, {e \in Elements(p) : e.source = "rule"})
             = [k \in 1..Len(hits) |-> RuleElement(hits[k])]
<1> DEFINE h == Len(hits)
           S == {e \in Elements(p) : e.source = "rule"}
           a == 2
           b == h + 2
<1>1. /\ h \in Nat /\ DOMAIN p = 1..(h + 7)
      /\ \A m \in 1..(h + 7) : p[m].source = "rule" <=> m - 2 \in 1..h
  BY ElementsOfAPackage DEF LaidOut
<1>2. Len(p) = h + 7 /\ \A k \in 1..h : p[k + 2] = RuleElement(hits[k])
  BY DEF PackageOf
<1> HIDE DEF h
<1>3. \A n \in 1..Len(p) : p[n] \in S <=> a < n /\ n <= b
  <2> SUFFICES ASSUME NEW n \in 1..Len(p) PROVE p[n] \in S <=> a < n /\ n <= b
    OBVIOUS
  <2>1. p[n] \in S <=> n - 2 \in 1..h
    BY <1>1, <1>2 DEF Elements
  <2> QED
    BY <1>1, <1>2, <2>1
<1>4. p \in Seq(X) /\ a \in Nat /\ b \in Nat /\ a <= b /\ b <= Len(p)
  BY <1>1, <1>2
<1> HIDE DEF S, a, b
<1>5. Kept(p, S) = Stretch(p, a, b - a)
  BY <1>3, <1>4, KeptStretch
<1>6. b - a = h /\ \A k \in 1..h : p[a + k] = RuleElement(hits[k])
  <2>1. \A k \in 1..h : a + k = k + 2
    BY <1>1 DEF a
  <2>2. b - a = h
    BY <1>1 DEF a, b
  <2> QED
    BY <1>2, <2>1, <2>2
<1> QED
  BY <1>5, <1>6 DEF Stretch, S, h

(* The sentences on why a case was flagged. *)
LEMMA WhySentences ==
    ASSUME NEW X, NEW p \in Seq(X), NEW txn, NEW prior \in Nat, NEW score,
           NEW hits \in Seq(Rules), PackageOf(p, txn, prior, score, hits)
    PROVE  /\ WhyFlagged(p) \in Seq(Sentences(WhyFlagged(p)))
           /\ \A s \in Sentences(WhyFlagged(p)) :
                \/ hits = <<>> /\ s = Sentence({}, {}, {"interpretable_features"})
                \/ \E k \in 1..Len(hits) : s = RuleSentence(hits[k])
<1> DEFINE h == Len(hits)
           rules == Kept(p, {e \in Elements(p) : e.source = "rule"})
           none == Sentence({}, {}, {"interpretable_features"})
           why == IF rules = <<>> THEN <<none>>
                  ELSE [k \in DOMAIN rules |->
                          Sentence({}, {t \in rules[k].strings : t.field = "summary"},
                                   {rules[k].element_id})]
<1>1. WhyFlagged(p) = why
  BY DEF WhyFlagged
<1>2. rules = [k \in 1..h |-> RuleElement(hits[k])]
  BY RulesOfAPackage
<1>3. h \in Nat
  OBVIOUS
<1> HIDE DEF rules
<1>4. CASE h = 0
  <2>1. hits = <<>> /\ rules = <<>>
    BY <1>2, <1>4
  <2>2. why = <<none>>
    BY <2>1
  <2> HIDE DEF none, why
  <2>3. Sentences(why) = {none} /\ why \in Seq({none})
    BY <2>2 DEF Sentences
  <2> QED
    BY <1>1, <2>1, <2>3 DEF none
<1>5. CASE h # 0
  <2>1. DOMAIN rules = 1..h /\ \A k \in 1..h : rules[k] = RuleElement(hits[k])
    BY <1>2
  <2>2. 1 \in DOMAIN rules
    BY <1>3, <1>5, <2>1
  <2>3. rules # <<>>
    BY <2>2
  <2>4. \A k \in 1..h : rules[k].element_id = RuleElementId[hits[k]]
    BY <2>1, RuleElementFields
  <2>5. why = [k \in 1..h |-> RuleSentence(hits[k])]
    BY <2>1, <2>3, <2>4 DEF RuleSentence
  <2> HIDE DEF why, h
  <2>6. /\ why \in Seq(Sentences(why))
        /\ \A s \in Sentences(why) : \E k \in 1..h : s = RuleSentence(hits[k])
    BY <1>3, <2>5 DEF Sentences
  <2> QED
    BY <1>1, <2>6 DEF h
<1> QED
  BY <1>4, <1>5

(* The six ways in which a sentence of an explanation comes about. *)
IsSentenceOf(s, c, hits) ==
    \/ s = WhatHappened(c.evidence)
    \/ hits = <<>> /\ s = Sentence({}, {}, {"interpretable_features"})
    \/ \E k \in 1..Len(hits) : s = RuleSentence(hits[k])
    \/ s = Baseline(c.evidence)
    \/ s = ScoreSentence(c.evidence)
    \/ s = Advice(c.recommendation)

LEMMA SentencesOfACase ==
    ASSUME NEW c, NEW txn, NEW prior, NEW score, NEW hits,
           MadeFrom(c, txn, prior, score, hits), NEW s \in Sentences(c.explanation)
    PROVE  IsSentenceOf(s, c, hits)
<1> DEFINE p == c.evidence
           why == WhyFlagged(p)
           first == WhatHappened(p)
           x == Baseline(p)
           y == ScoreSentence(p)
           z == Advice(c.recommendation)
           Y == Sentences(why) \cup {first, x, y, z}
<1>1. /\ c.explanation = <<first>> \o why \o <<x, y, z>>
      /\ hits \in Seq(Rules) /\ prior \in Nat
  BY DEF MadeFrom, Explain
<1>2. PICK X : p \in Seq(X)
  BY PackageOfACase
<1>3. PackageOf(p, txn, prior, score, hits)
  BY PackageOfACase
<1> HIDE DEF p
<1>4. /\ why \in Seq(Sentences(why))
      /\ \A t \in Sentences(why) :
           \/ hits = <<>> /\ t = Sentence({}, {}, {"interpretable_features"})
           \/ \E k \in 1..Len(hits) : t = RuleSentence(hits[k])
  BY <1>1, <1>2, <1>3, WhySentences
<1> HIDE DEF why, first, x, y, z
<1>5. why \in Seq(Y) /\ <<first>> \in Seq(Y) /\ <<x, y, z>> \in Seq(Y)
  BY <1>4
<1> HIDE DEF Y
<1>6. <<first>> \o why \o <<x, y, z>> \in Seq(Y)
  BY <1>5, ConcatProperties
<1>7. s \in Y
  BY <1>1, <1>6 DEF Sentences
<1> QED
  BY <1>4, <1>7 DEF IsSentenceOf, Y, p, first, x, y, z

-----------------------------------------------------------------------------
(* The elements of a case that its sentences rest on may all be cited.     *)
LEMMA CitableElements ==
    ASSUME NEW c, NEW txn, NEW prior, NEW score, NEW hits,
           MadeFrom(c, txn, prior, score, hits)
    PROVE  LET ids == {e.element_id : e \in Groundable(c.evidence)}
           IN  /\ {"txn_facts", "interpretable_features", "account_baseline",
                   "score_signal"} \subseteq ids
               /\ \A k \in 1..Len(hits) : RuleElementId[hits[k]] \in ids
               /\ TransactionFacts(txn) \in Groundable(c.evidence)
               /\ AccountHistory(prior, prior) \in Groundable(c.evidence)
               /\ ScoreSignal(score) \in Groundable(c.evidence)
               /\ \A k \in 1..Len(hits) :
                     RuleElement(hits[k]) \in Groundable(c.evidence)
<1> DEFINE p == c.evidence
           h == Len(hits)
<1>1. PackageOf(p, txn, prior, score, hits) /\ hits \in Seq(Rules) /\ prior \in Nat
  <2>1. PackageOf(c.evidence, txn, prior, score, hits)
    BY PackageOfACase
  <2>2. hits \in Seq(Rules) /\ prior \in Nat
    BY DEF MadeFrom
  <2> QED
    BY <2>1, <2>2
<1> HIDE DEF p
<1>2. /\ h \in Nat /\ DOMAIN p = 1..(h + 7)
      /\ p[1].element_id = "txn_facts"
      /\ p[2].element_id = "interpretable_features"
      /\ p[h + 3].element_id = "account_baseline"
      /\ p[h + 6].element_id = "score_signal"
      /\ \A k \in 1..h : p[k + 2].element_id = RuleElementId[hits[k]]
      /\ \A m \in 1..(h + 7) : p[m].groundable <=> m # h + 7
  <2>1. LaidOut(p, hits)
    BY <1>1, ElementsOfAPackage
  <2> QED
    BY <2>1 DEF LaidOut
<1>3. /\ p[1] = TransactionFacts(txn)
      /\ p[h + 3] = AccountHistory(prior, prior)
      /\ p[h + 6] = ScoreSignal(score)
      /\ \A k \in 1..h : p[k + 2] = RuleElement(hits[k])
  BY <1>1 DEF PackageOf
<1> HIDE DEF h
<1>4. \A m \in 1..(h + 6) : p[m] \in Groundable(p)
  BY <1>2 DEF Groundable, Elements
<1>5. /\ p[1] \in Groundable(p) /\ p[2] \in Groundable(p)
      /\ p[h + 3] \in Groundable(p) /\ p[h + 6] \in Groundable(p)
      /\ \A k \in 1..h : p[k + 2] \in Groundable(p)
  BY <1>2, <1>4
<1> QED
  BY <1>2, <1>3, <1>5 DEF p, h

LEMMA SentenceFields ==
    ASSUME NEW numbers, NEW strings, NEW cites
    PROVE  /\ Sentence(numbers, strings, cites).numbers = numbers
           /\ Sentence(numbers, strings, cites).strings = strings
           /\ Sentence(numbers, strings, cites).cites = cites
BY DEF Sentence

LEMMA TokenFields ==
    ASSUME NEW field, NEW value
    PROVE  /\ Token(field, value).field = field
           /\ Token(field, value).value = value
BY DEF Token

(* What the sentences of a case look up. *)
LEMMA LookedUpInACase ==
    ASSUME NEW c, NEW txn, NEW prior, NEW score, NEW hits,
           MadeFrom(c, txn, prior, score, hits)
    PROVE  /\ ById(c.evidence, "txn_facts") = TransactionFacts(txn)
           /\ ById(c.evidence, "account_baseline") = AccountHistory(prior, prior)
           /\ ById(c.evidence, "score_signal") = ScoreSignal(score)
           /\ prior \in Nat /\ score \in Scores /\ hits \in Seq(Rules)
<1>1. PackageOf(c.evidence, txn, prior, score, hits)
  BY PackageOfACase
<1>2. prior \in Nat /\ score \in Scores /\ hits \in Seq(Rules)
  BY DEF MadeFrom
<1> QED
  BY <1>1, <1>2, LookedUpElements

(* What the five kinds of sentences of a case tell and cite. *)
LEMMA WhatHappenedTells ==
    ASSUME NEW c, NEW txn, NEW prior, NEW score, NEW hits,
           MadeFrom(c, txn, prior, score, hits)
    PROVE  LET s == WhatHappened(c.evidence)
           IN  /\ s.numbers = {Token("amount", txn.amount)}
               /\ s.strings \subseteq TransactionFacts(txn).strings
               /\ s.cites = {"txn_facts"}
               /\ Token("amount", txn.amount) \in TransactionFacts(txn).numbers
<1> DEFINE facts == TransactionFacts(txn)
           strings == {Token(f, txn[f]) : f \in NamedFields \cup {"txn_id"}}
<1>1. ById(c.evidence, "txn_facts") = facts /\ Shown(txn.amount, 2) = txn.amount
  <2>1. PICK k \in DOMAIN Batch : txn = Batch[k]
    BY DEF MadeFrom
  <2> QED
    BY <2>1, LookedUpInACase, OpeningAssumption
<1>2. facts = Element("txn_facts", "transaction", {Token("amount", txn.amount)},
                      strings, TRUE, 1)
  BY DEF TransactionFacts
<1> HIDE DEF strings
<1>3. facts.numbers = {Token("amount", txn.amount)}
  BY <1>2 DEF Element
<1> HIDE DEF facts
<1>4. {Token("amount", Shown(t.value, 2)) : t \in facts.numbers}
        = {Token("amount", txn.amount)}
  <2>1. {Token("amount", Shown(t.value, 2)) : t \in facts.numbers}
          = {Token("amount", Shown(Token("amount", txn.amount).value, 2))}
    BY <1>3
  <2> QED
    BY <1>1, <2>1, TokenFields
<1>5. WhatHappened(c.evidence)
        = Sentence({Token("amount", Shown(t.value, 2)) : t \in facts.numbers},
                   {t \in facts.strings : t.field \in NamedFields}, {"txn_facts"})
  BY <1>1 DEF WhatHappened
<1> QED
  BY <1>3, <1>4, <1>5, SentenceFields DEF facts

LEMMA BaselineTells ==
    ASSUME NEW c, NEW txn, NEW prior, NEW score, NEW hits,
           MadeFrom(c, txn, prior, score, hits)
    PROVE  LET s == Baseline(c.evidence)
           IN  /\ prior = 0 => s.numbers = {}
               /\ \A t \in s.numbers :
                     \/ t \in AccountHistory(prior, prior).numbers
                     \/ t = Token("window", Count(24))
               /\ \A t \in s.numbers :
                     t.field \in {"prior_transaction_count", "txn_count_24h", "window"}
               /\ s.strings = {}
               /\ s.cites = {"account_baseline"}
<1> DEFINE history == AccountHistory(prior, prior)
           window == Token("window", Count(24))
           numbers == IF \E t \in history.strings : t.field = "reason" THEN {}
                      ELSE history.numbers \cup {window}
<1>1. ById(c.evidence, "account_baseline") = history /\ prior \in Nat
  BY LookedUpInACase
<1>2. Baseline(c.evidence) = Sentence(numbers, {}, {"account_baseline"})
  BY <1>1 DEF Baseline
<1>3. /\ prior = 0 => Token("reason", "no baseline") \in history.strings
      /\ \A t \in history.numbers :
           \/ t = Token("prior_transaction_count", Count(prior))
           \/ t = Token("txn_count_24h", Count(prior))
  BY <1>1, AccountHistoryFields
<1>4. prior = 0 => numbers = {}
  <2>1. Token("reason", "no baseline").field = "reason"
    BY TokenFields
  <2> HIDE DEF history, window
  <2> QED
    BY <1>3, <2>1
<1>5. \A t \in numbers :
         t.field \in {"prior_transaction_count", "txn_count_24h", "window"}
  <2> SUFFICES ASSUME NEW t \in numbers
               PROVE  t.field \in {"prior_transaction_count", "txn_count_24h", "window"}
    OBVIOUS
  <2>1. \/ t = Token("prior_transaction_count", Count(prior))
        \/ t = Token("txn_count_24h", Count(prior))
        \/ t = window
    <3> HIDE DEF history, window
    <3> QED
      BY <1>3
  <2> QED
    BY <2>1, TokenFields
<1>6. \A t \in numbers : t \in history.numbers \/ t = window
  OBVIOUS
<1> HIDE DEF numbers
<1> QED
  BY <1>2, <1>4, <1>5, <1>6, SentenceFields

LEMMA ScoreSentenceTells ==
    ASSUME NEW c, NEW txn, NEW prior, NEW score, NEW hits,
           MadeFrom(c, txn, prior, score, hits)
    PROVE  LET s == ScoreSentence(c.evidence)
               p == score.probability
           IN  /\ s.numbers = IF ~score.available THEN {}
                              ELSE IF Trusted(score)
                              THEN {Token("probability", Shown(p, 4))}
                              ELSE {Token("probability", 0)}
               /\ Token("status", "excluded") \in ScoreSignal(score).strings
                     <=> ~score.available
               /\ Trusted(score) =>
                     Token("probability", p) \in ScoreSignal(score).numbers
               /\ s.strings = {}
               /\ s.cites = {"score_signal"}
<1> DEFINE signal == ScoreSignal(score)
           p == score.probability
           numbers == IF score.available /\ p # None THEN {Token("probability", p)}
                                                     ELSE {}
           status == IF score.available THEN "available" ELSE "excluded"
           told == IF Token("status", "excluded") \in signal.strings THEN {}
                   ELSE Shows(signal)
<1>1. ById(c.evidence, "score_signal") = signal /\ score \in Scores
  BY LookedUpInACase
<1>2. signal = Element("score_signal", "score_signal", numbers,
                       {Token("status", status)}, TRUE, 6)
  BY DEF ScoreSignal
<1>3. /\ score.available \in BOOLEAN
      /\ Trusted(score) <=> score.available /\ p # None
  BY <1>1, OpeningAssumption DEF Trusted
<1>4. /\ score.available => status = "available"
      /\ ~score.available => status = "excluded"
      /\ numbers = IF Trusted(score) THEN {Token("probability", p)} ELSE {}
  BY <1>3
<1> HIDE DEF numbers, status
<1>5. signal.numbers = numbers /\ signal.strings = {Token("status", status)}
  BY <1>2 DEF Element
<1>6. ScoreSentence(c.evidence) = Sentence(told, {}, {"score_signal"})
  BY <1>1 DEF ScoreSentence
<1> HIDE DEF signal
<1>7. Token("status", "excluded") \in signal.strings <=> ~score.available
  <2>1. Token("status", "available").value = "available"
        /\ Token("status", "excluded").value = "excluded"
    BY TokenFields
  <2> QED
    BY <1>4, <1>5, <2>1
<1>8. ASSUME Trusted(score) PROVE told = {Token("probability", Shown(p, 4))}
  <2>1. Token("status", "excluded") \notin signal.strings
    BY <1>3, <1>7, <1>8
  <2>2. {Token("probability", Shown(t.value, 4)) : t \in signal.numbers}
          = {Token("probability", Shown(p, 4))}
    <3>1. {Token("probability", Shown(t.value, 4)) : t \in signal.numbers}
            = {Token("probability", Shown(Token("probability", p).value, 4))}
      BY <1>4, <1>5, <1>8
    <3> QED
      BY <3>1, TokenFields
  <2>3. Shows(signal) = {Token("probability", Shown(p, 4))}
    BY <2>2 DEF Shows
  <2> QED
    BY <2>1, <2>3
<1>9. ~score.available => told = {}
  BY <1>7
<1>10. ASSUME score.available, ~Trusted(score)
       PROVE  told = {Token("probability", 0)}
  <2>1. {Token("probability", Shown(t.value, 4)) : t \in signal.numbers} = {}
    BY <1>4, <1>5, <1>10
  <2> QED
    BY <1>7, <1>10, <2>1 DEF Shows
<1> HIDE DEF told
<1>11. /\ ScoreSentence(c.evidence).numbers = told
      /\ ScoreSentence(c.evidence).strings = {}
      /\ ScoreSentence(c.evidence).cites = {"score_signal"}
  BY <1>6, SentenceFields
<1>12. Trusted(score) => Token("probability", p) \in signal.numbers
  BY <1>4, <1>5
<1>13. told = IF ~score.available THEN {}
              ELSE IF Trusted(score) THEN {Token("probability", Shown(p, 4))}
              ELSE {Token("probability", 0)}
  BY <1>8, <1>9, <1>10
<1> QED
  BY <1>7, <1>11, <1>12, <1>13 DEF signal

-----------------------------------------------------------------------------
(* The sentences of a case cite elements of its package that may be cited. *)
LEMMA CasesAreCited ==
    ASSUME NEW c, Opened(c), NEW s \in Sentences(c.explanation)
    PROVE  /\ s.cites # {}
           /\ s.cites \subseteq {e.element_id : e \in Groundable(c.evidence)}
<1>1. PICK txn, prior, score, hits : MadeFrom(c, txn, prior, score, hits)
  BY DEF Opened
<1> DEFINE ids == {e.element_id : e \in Groundable(c.evidence)}
<1>2. /\ {"txn_facts", "interpretable_features", "account_baseline",
          "score_signal"} \subseteq ids
      /\ \A k \in 1..Len(hits) : RuleElementId[hits[k]] \in ids
  BY <1>1, CitableElements
<1> HIDE DEF ids
<1>3. IsSentenceOf(s, c, hits)
  BY <1>1, SentencesOfACase
<1>4. CASE s = WhatHappened(c.evidence)
  <2>1. s.cites = {"txn_facts"}
    BY <1>1, <1>4, WhatHappenedTells
  <2> QED
    BY <1>2, <2>1 DEF ids
<1>5. CASE s = Sentence({}, {}, {"interpretable_features"})
  <2>1. s.cites = {"interpretable_features"}
    BY <1>5, SentenceFields
  <2> QED
    BY <1>2, <2>1 DEF ids
<1>6. CASE \E k \in 1..Len(hits) : s = RuleSentence(hits[k])
  <2>1. PICK k \in 1..Len(hits) : s = RuleSentence(hits[k])
    BY <1>6
  <2>2. s.cites = {RuleElementId[hits[k]]}
    BY <2>1, SentenceFields DEF RuleSentence
  <2> QED
    BY <1>2, <2>2 DEF ids
<1>7. CASE s = Baseline(c.evidence)
  <2>1. s.cites = {"account_baseline"}
    BY <1>1, <1>7, BaselineTells
  <2> QED
    BY <1>2, <2>1 DEF ids
<1>8. CASE s = ScoreSentence(c.evidence)
  <2>1. s.cites = {"score_signal"}
    BY <1>1, <1>8, ScoreSentenceTells
  <2> QED
    BY <1>2, <2>1 DEF ids
<1>9. CASE s = Advice(c.recommendation)
  <2> DEFINE rule_ids == c.recommendation.rule_ids
  <2>1. s.cites = IF rule_ids = {} THEN {"score_signal"}
                  ELSE {RuleElementId[rule] : rule \in rule_ids}
    BY <1>9, SentenceFields DEF Advice
  <2>2. rule_ids = {hits[k] : k \in 1..Len(hits)}
    BY <1>1 DEF MadeFrom
  <2> HIDE DEF rule_ids
  <2>3. \A rule \in rule_ids : RuleElementId[rule] \in ids
    BY <1>2, <2>2
  <2>4. s.cites # {} /\ s.cites \subseteq ids
    BY <1>2, <2>1, <2>3
  <2> QED
    BY <2>4 DEF ids
<1> QED
  BY <1>3, <1>4, <1>5, <1>6, <1>7, <1>8, <1>9 DEF IsSentenceOf

(* Only the sentence on the score tells a probability.                     *)
LEMMA OnlyAScoreIsTold ==
    ASSUME NEW c, NEW txn, NEW prior, NEW score, NEW hits,
           MadeFrom(c, txn, prior, score, hits),
           NEW s \in Sentences(c.explanation),
           NEW t \in s.numbers, t.field = "probability"
    PROVE  s = ScoreSentence(c.evidence)
<1>1. MadeFrom(c, txn, prior, score, hits)
  OBVIOUS
<1>2. IsSentenceOf(s, c, hits)
  BY <1>1, SentencesOfACase
<1>3. CASE s = WhatHappened(c.evidence)
  <2>1. s.numbers = {Token("amount", txn.amount)}
    BY <1>1, <1>3, WhatHappenedTells
  <2>2. t.field = "amount"
    BY <2>1, TokenFields
  <2> QED
    BY <2>2
<1>4. CASE \/ s = Sentence({}, {}, {"interpretable_features"})
           \/ \E k \in 1..Len(hits) : s = RuleSentence(hits[k])
           \/ s = Advice(c.recommendation)
  <2>1. CASE s = Sentence({}, {}, {"interpretable_features"})
    BY <2>1, SentenceFields
  <2>2. CASE \E k \in 1..Len(hits) : s = RuleSentence(hits[k])
    BY <2>2, SentenceFields DEF RuleSentence
  <2>3. CASE s = Advice(c.recommendation)
    BY <2>3, SentenceFields DEF Advice
  <2> QED
    BY <1>4, <2>1, <2>2, <2>3
<1>5. CASE s = Baseline(c.evidence)
  <2>1. t.field \in {"prior_transaction_count", "txn_count_24h", "window"}
    BY <1>1, <1>5, BaselineTells
  <2> QED
    BY <2>1
<1> QED
  BY <1>2, <1>3, <1>4, <1>5 DEF IsSentenceOf

(* And it is a sentence of every explanation.                              *)
LEMMA TheScoreIsTold ==
    ASSUME NEW c, NEW txn, NEW prior, NEW score, NEW hits,
           MadeFrom(c, txn, prior, score, hits)
    PROVE  ScoreSentence(c.evidence) \in Sentences(c.explanation)
<1> DEFINE p == c.evidence
           why == WhyFlagged(p)
           first == WhatHappened(p)
           x == Baseline(p)
           y == ScoreSentence(p)
           z == Advice(c.recommendation)
           Y == Sentences(why) \cup {first, x, y, z}
           t == <<first>> \o why
           last == <<x, y, z>>
           text == t \o last
<1>1. /\ c.explanation = text /\ hits \in Seq(Rules) /\ prior \in Nat
  BY DEF MadeFrom, Explain
<1>2. PICK X : p \in Seq(X)
  BY PackageOfACase
<1>3. PackageOf(p, txn, prior, score, hits)
  BY PackageOfACase
<1> HIDE DEF p
<1>4. why \in Seq(Sentences(why))
  BY <1>1, <1>2, <1>3, WhySentences
<1> HIDE DEF why, first, x, y, z
<1>5. why \in Seq(Y) /\ <<first>> \in Seq(Y)
  BY <1>4
<1>6. last \in Seq(Y) /\ Len(last) = 3 /\ last[2] = y
  OBVIOUS
<1> HIDE DEF Y, last
<1>7. t \in Seq(Y)
  BY <1>5, ConcatProperties
<1> HIDE DEF t
<1>8. /\ text \in Seq(Y) /\ Len(text) = Len(t) + 3 /\ Len(t) \in Nat
      /\ text[Len(t) + 2] = y
  <2>1. /\ t \o last \in Seq(Y) /\ Len(t \o last) = Len(t) + Len(last)
        /\ \A k \in 1..(Len(t) + Len(last)) :
              (t \o last)[k] = IF k <= Len(t) THEN t[k] ELSE last[k - Len(t)]
    BY <1>6, <1>7, ConcatProperties
  <2>2. Len(t) \in Nat
    BY <1>7
  <2>3. (t \o last)[Len(t) + 2] = last[2]
    BY <1>6, <2>1, <2>2
  <2> QED
    BY <1>6, <2>1, <2>2, <2>3
<1> HIDE DEF text
<1>9. Len(t) + 2 \in DOMAIN text
  BY <1>7, <1>8
<1> QED
  BY <1>1, <1>8, <1>9 DEF Sentences, y, p

(* What is told of a case: by the page, that it is excluded if it has no   *)
(* score; by its explanation, what its evidence makes of the status.       *)
LEMMA ToldOfACase ==
    ASSUME NEW c, Opened(c)
    PROVE  /\ DecisionBasisNote(c) = "excluded" <=> c.score = None
           /\ SaysExcluded(c) => c.score = None
           /\ ProbabilitiesTold(c) = IF SaysExcluded(c) THEN {}
                                     ELSE IF c.score = None THEN {0}
                                     ELSE {Shown(c.score, 4)}
<1>1. PICK txn, prior, score, hits : MadeFrom(c, txn, prior, score, hits)
  BY DEF Opened
<1> DEFINE s == ScoreSentence(c.evidence)
           p == score.probability
           told == {x \in UNION {r.numbers : r \in Sentences(c.explanation)} :
                      x.field = "probability"}
<1>2. /\ score \in Scores
      /\ c.score = IF score.available THEN score.probability ELSE None
      /\ c.recommendation.band = "none" <=> ~Trusted(score)
  BY <1>1 DEF MadeFrom
<1>3. /\ c.score # None <=> Trusted(score)
      /\ Trusted(score) => score.available /\ c.score = p
  BY <1>2, ScoreFacts
<1>4. /\ s.numbers = IF ~score.available THEN {}
                     ELSE IF Trusted(score)
                     THEN {Token("probability", Shown(p, 4))}
                     ELSE {Token("probability", 0)}
      /\ Token("status", "excluded") \in ScoreSignal(score).strings
            <=> ~score.available
  BY <1>1, ScoreSentenceTells
<1>5. SaysExcluded(c) <=> ~score.available
  BY <1>1, <1>4, LookedUpInACase DEF SaysExcluded
<1>6. s \in Sentences(c.explanation)
  BY <1>1, TheScoreIsTold
<1>7. \A r \in Sentences(c.explanation) : \A x \in r.numbers :
          x.field = "probability" => r = s
  BY <1>1, OnlyAScoreIsTold
<1>8. \A v : /\ Token("probability", v).field = "probability"
             /\ Token("probability", v).value = v
  BY TokenFields
<1> HIDE DEF s, p
<1>9. told = s.numbers
  BY <1>4, <1>6, <1>7, <1>8
<1>10. ProbabilitiesTold(c) = {x.value : x \in s.numbers}
  BY <1>9 DEF ProbabilitiesTold
<1>11. {x.value : x \in s.numbers} = IF ~score.available THEN {}
                                     ELSE IF Trusted(score) THEN {Shown(p, 4)}
                                     ELSE {0}
  BY <1>4, <1>8
<1> QED
  BY <1>2, <1>3, <1>5, <1>10, <1>11 DEF DecisionBasisNote

-----------------------------------------------------------------------------
(* Only no transactions count as none. *)
LEMMA CountFacts == Count(0) = 0 /\ \A n \in Nat : Count(n) = 0 => n = 0
BY SMT DEF Count, One

(* The package says by its history whether the account is a new one.       *)
LEMMA HistoryTellsNewAccounts ==
    ASSUME NEW c, NEW txn, NEW prior, NEW score, NEW hits,
           MadeFrom(c, txn, prior, score, hits)
    PROVE  Token("prior_transaction_count", 0)
             \in ById(c.evidence, "account_baseline").numbers <=> prior = 0
<1> DEFINE history == AccountHistory(prior, prior)
<1>1. ById(c.evidence, "account_baseline") = history /\ prior \in Nat
  BY LookedUpInACase
<1>2. /\ Token("prior_transaction_count", Count(prior)) \in history.numbers
      /\ \A t \in history.numbers :
           \/ t = Token("prior_transaction_count", Count(prior))
           \/ t = Token("txn_count_24h", Count(prior))
  BY <1>1, AccountHistoryFields
<1> HIDE DEF history
<1>3. ASSUME prior = 0
      PROVE  Token("prior_transaction_count", 0) \in history.numbers
  BY <1>2, <1>3, CountFacts
<1>4. ASSUME Token("prior_transaction_count", 0) \in history.numbers
      PROVE  prior = 0
  <2>1. \/ Token("prior_transaction_count", 0)
             = Token("prior_transaction_count", Count(prior))
        \/ Token("prior_transaction_count", 0) = Token("txn_count_24h", Count(prior))
    BY <1>2, <1>4
  <2>2. Token("prior_transaction_count", 0) # Token("txn_count_24h", Count(prior))
    <3>1. /\ Token("prior_transaction_count", 0).field = "prior_transaction_count"
          /\ Token("txn_count_24h", Count(prior)).field = "txn_count_24h"
      BY TokenFields
    <3> QED
      BY <3>1
  <2>3. 0 = Count(prior)
    <3>1. /\ Token("prior_transaction_count", 0).value = 0
          /\ Token("prior_transaction_count", Count(prior)).value = Count(prior)
      BY TokenFields
    <3> QED
      BY <2>1, <2>2, <3>1
  <2> QED
    BY <1>1, <2>3, CountFacts
<1> QED
  BY <1>1, <1>3, <1>4

(* A number or a string is grounded by the element that holds its token.   *)
LEMMA GroundedByAnElement ==
    ASSUME NEW p, NEW e \in Groundable(p)
    PROVE  /\ \A t \in e.numbers :
                 t.value \in Values(UNION {f.numbers : f \in Groundable(p)})
           /\ \A t \in e.strings :
                 t.value \in Values(UNION {f.strings : f \in Groundable(p)})
BY DEF Values

(* A case whose text is true to the gate's limits passes the gate.         *)
LEMMA CasesAreGrounded ==
    ASSUME NEW c, Opened(c),
           \/ Token("prior_transaction_count", 0)
                 \in ById(c.evidence, "account_baseline").numbers
           \/ \E k \in DOMAIN c.rule_hits : c.rule_hits[k] = "velocity",
           IF c.score = None THEN SaysExcluded(c)
                             ELSE Shown(c.score, 4) = c.score
    PROVE  Verified(c.explanation, c.evidence, c.recommendation)
<1>1. PICK txn, prior, score, hits : MadeFrom(c, txn, prior, score, hits)
  BY DEF Opened
<1> DEFINE p == c.evidence
           rec == c.recommendation
           numbers == Values(UNION {e.numbers : e \in Groundable(p)})
           strings == Values(UNION {e.strings : e \in Groundable(p)})
           known == strings \cup {rec.action, rec.confidence, rec.band}
                            \cup rec.rule_ids
<1>2. /\ score \in Scores /\ prior \in Nat /\ hits \in Seq(Rules)
      /\ c.score = IF score.available THEN score.probability ELSE None
      /\ c.rule_hits = hits
  BY <1>1 DEF MadeFrom
<1>3. prior = 0 \/ \E k \in 1..Len(hits) : hits[k] = "velocity"
  BY <1>1, <1>2, HistoryTellsNewAccounts
<1>4. /\ TransactionFacts(txn) \in Groundable(p)
      /\ AccountHistory(prior, prior) \in Groundable(p)
      /\ ScoreSignal(score) \in Groundable(p)
      /\ \A k \in 1..Len(hits) : RuleElement(hits[k]) \in Groundable(p)
  BY <1>1, CitableElements
<1>5. ASSUME NEW s \in Sentences(c.explanation)
      PROVE  Values(s.numbers) \subseteq numbers /\ Values(s.strings) \subseteq known
  <2> SUFFICES /\ \A t \in s.numbers : t.value \in numbers
               /\ \A t \in s.strings : t.value \in known
    BY DEF Values
  <2>1. IsSentenceOf(s, c, hits)
    BY <1>1, <1>5, SentencesOfACase
  <2>2. CASE s = WhatHappened(c.evidence)
    <3>1. /\ s.numbers = {Token("amount", txn.amount)}
          /\ s.strings \subseteq TransactionFacts(txn).strings
          /\ Token("amount", txn.amount) \in TransactionFacts(txn).numbers
      BY <1>1, <2>2, WhatHappenedTells
    <3>2. /\ \A t \in TransactionFacts(txn).numbers : t.value \in numbers
          /\ \A t \in TransactionFacts(txn).strings : t.value \in strings
      BY <1>4, GroundedByAnElement
    <3> HIDE DEF numbers, strings
    <3> QED
      BY <3>1, <3>2
  <2>3. CASE s = Sentence({}, {}, {"interpretable_features"})
    <3>1. s.numbers = {} /\ s.strings = {}
      BY <2>3, SentenceFields
    <3> QED
      BY <3>1
  <2>4. CASE \E k \in 1..Len(hits) : s = RuleSentence(hits[k])
    <3>1. PICK k \in 1..Len(hits) : s = RuleSentence(hits[k])
      BY <2>4
    <3>2. s.numbers = {} /\ s.strings \subseteq RuleElement(hits[k]).strings
      BY <3>1, SentenceFields DEF RuleSentence
    <3>3. \A t \in RuleElement(hits[k]).strings : t.value \in strings
      BY <1>4, GroundedByAnElement
    <3> HIDE DEF strings
    <3> QED
      BY <3>2, <3>3
  <2>5. CASE s = Baseline(c.evidence)
    <3>1. /\ prior = 0 => s.numbers = {}
          /\ \A t \in s.numbers : \/ t \in AccountHistory(prior, prior).numbers
                                  \/ t = Token("window", Count(24))
          /\ s.strings = {}
      BY <1>1, <2>5, BaselineTells
    <3>2. \A t \in AccountHistory(prior, prior).numbers : t.value \in numbers
      BY <1>4, GroundedByAnElement
    <3>3. ASSUME NEW k \in 1..Len(hits), hits[k] = "velocity"
          PROVE  Token("window", Count(24)).value \in numbers
      <4>1. Token("window_hours", Count(24)) \in RuleElement(hits[k]).numbers
        BY <3>3, RuleElementFields
      <4>2. Token("window_hours", Count(24)).value \in numbers
        BY <1>4, <4>1, GroundedByAnElement
      <4>3. Token("window", Count(24)).value = Token("window_hours", Count(24)).value
        BY TokenFields
      <4> QED
        BY <4>2, <4>3
    <3> HIDE DEF numbers
    <3> QED
      BY <1>3, <3>1, <3>2, <3>3
  <2>6. CASE s = ScoreSentence(c.evidence)
    <3>1. /\ s.numbers = IF ~score.available THEN {}
                         ELSE IF Trusted(score)
                         THEN {Token("probability", Shown(score.probability, 4))}
                         ELSE {Token("probability", 0)}
          /\ Token("status", "excluded") \in ScoreSignal(score).strings
                <=> ~score.available
          /\ Trusted(score) => Token("probability", score.probability)
                                 \in ScoreSignal(score).numbers
          /\ s.strings = {}
      BY <1>1, <2>6, ScoreSentenceTells
    <3>2. SaysExcluded(c) <=> ~score.available
      BY <1>1, <3>1, LookedUpInACase DEF SaysExcluded
    <3>3. \A t \in ScoreSignal(score).numbers : t.value \in numbers
      BY <1>4, GroundedByAnElement
    <3>4. /\ Trusted(score) => Shown(score.probability, 4) = score.probability
          /\ Trusted(score) \/ ~score.available
      BY <1>2, <3>2, ScoreFacts
    <3>5. \A t \in s.numbers : t.value \in numbers
      <4>1. CASE ~score.available
        BY <3>1, <4>1
      <4>2. CASE Trusted(score)
        <5>1. s.numbers \subseteq {Token("probability", score.probability)}
          BY <3>1, <3>4, <4>2
        <5> HIDE DEF numbers
        <5> QED
          BY <3>1, <3>3, <4>2, <5>1
      <4> QED
        BY <3>4, <4>1, <4>2
    <3> HIDE DEF numbers
    <3> QED
      BY <3>1, <3>5
  <2>7. CASE s = Advice(c.recommendation)
    <3>1. /\ s.numbers = {}
          /\ s.strings = {Token("action", rec.action),
                          Token("confidence", rec.confidence)}
      BY <2>7, SentenceFields DEF Advice
    <3>2. /\ Token("action", rec.action).value = rec.action
          /\ Token("confidence", rec.confidence).value = rec.confidence
      BY TokenFields
    <3> HIDE DEF strings
    <3> QED
      BY <3>1, <3>2
  <2> QED
    BY <2>1, <2>2, <2>3, <2>4, <2>5, <2>6, <2>7 DEF IsSentenceOf
<1> QED
  BY <1>5 DEF Verified

-----------------------------------------------------------------------------
(* The drill-down finds an element with the id it is asked for, if there   *)
(* is one.                                                                 *)
LEMMA DrillDownFinds ==
    ASSUME NEW c, NEW X, c.evidence \in Seq(X), NEW n \in DOMAIN c.evidence
    PROVE  LET id == c.evidence[n].element_id
           IN  \E m \in DOMAIN c.evidence :
                  /\ c.evidence[m].element_id = id
                  /\ DrillDown(c, id) = c.evidence[m]
<1> DEFINE p == c.evidence
           id == p[n].element_id
           found == {k \in DOMAIN p : p[k].element_id = id}
           m == CHOOSE k \in found : \A j \in found : k <= j
<1>1. found \subseteq Nat /\ found # {}
  BY DOMAIN p = 1..Len(p)
<1>2. DrillDown(c, id) = p[m]
  BY <1>1 DEF DrillDown
<1> HIDE DEF found
<1>3. \E k \in found : \A j \in found : k <= j
  BY <1>1, SmallestExists
<1>4. m \in found
  BY <1>3
<1> HIDE DEF m
<1>5. m \in DOMAIN p /\ p[m].element_id = id
  BY <1>4 DEF found
<1> QED
  BY <1>2, <1>5

(* The indicators of a package: the rules and, of an account without a     *)
(* history, the missing history, which follows them.                       *)
LEMMA IndicatorsOfAPackage ==
    ASSUME NEW hits \in Seq(Rules), NEW p, NEW txn, NEW prior \in Nat, NEW score,
           PackageOf(p, txn, prior, score, hits)
    PROVE  LET h == Len(hits)
               last == IF prior = 0 THEN h + 3 ELSE h + 2
           IN  \A m \in DOMAIN p : IsIndicator(p[m]) <=> 2 < m /\ m <= last
<1> DEFINE h == Len(hits)
           history == AccountHistory(prior, prior)
           last == IF prior = 0 THEN h + 3 ELSE h + 2
<1>1. /\ h \in Nat /\ DOMAIN p = 1..(h + 7)
      /\ \A m \in 1..(h + 7) : p[m].source = "rule" <=> m - 2 \in 1..h
      /\ p[h + 3].element_id = "account_baseline"
  BY ElementsOfAPackage DEF LaidOut
<1>2. p[h + 3] = history
  BY DEF PackageOf
<1> HIDE DEF h
<1>3. Has(history, "reason") <=> prior = 0
  <2>1. /\ prior = 0 => Token("reason", "no baseline") \in history.strings
        /\ prior # 0 => history.strings = {}
    BY AccountHistoryFields
  <2> HIDE DEF history
  <2> QED
    BY <2>1, TokenFields DEF Has
<1>4. h + 3 \in DOMAIN p /\ p[h + 3].element_id \in FixedIds
  BY <1>1 DEF FixedIds
<1>5. ASSUME NEW m \in DOMAIN p, p[m].element_id = "account_baseline"
      PROVE  m = h + 3
  BY <1>1, <1>4, <1>5, FixedElementsAreUnique
<1> HIDE DEF history
<1>6. ASSUME NEW m \in DOMAIN p
      PROVE  IsIndicator(p[m]) <=> m - 2 \in 1..h \/ (m = h + 3 /\ prior = 0)
  BY <1>1, <1>2, <1>3, <1>5 DEF IsIndicator
<1>7. ASSUME NEW m \in DOMAIN p
      PROVE  2 < m /\ m <= last <=> m - 2 \in 1..h \/ (m = h + 3 /\ prior = 0)
  BY <1>1
<1> QED
  BY <1>6, <1>7 DEF h

(* The ids on the page: the rules' in the order of the hits, and then the  *)
(* account's.                                                              *)
Indicated(ids, hits, prior) ==
    /\ Len(ids) = Len(hits) + (IF prior = 0 THEN 1 ELSE 0)
    /\ \A k \in 1..Len(hits) : ids[k] = RuleElementId[hits[k]]
    /\ prior = 0 => ids[Len(hits) + 1] = "account_baseline"

LEMMA IndicatorsOfACase ==
    ASSUME NEW c, NEW txn, NEW prior, NEW score, NEW hits,
           MadeFrom(c, txn, prior, score, hits)
    PROVE  Indicated(RiskIndicators(c), hits, prior)
<1> DEFINE p == c.evidence
           h == Len(hits)
           S == {e \in Elements(p) : IsIndicator(e)}
           a == 2
           b == IF prior = 0 THEN h + 3 ELSE h + 2
           shown == Kept(p, S)
<1>1. PICK X : p \in Seq(X)
  BY PackageOfACase
<1>2. PackageOf(p, txn, prior, score, hits)
  BY PackageOfACase
<1>3. hits \in Seq(Rules) /\ prior \in Nat
  BY DEF MadeFrom
<1> HIDE DEF p
<1>4. /\ h \in Nat /\ DOMAIN p = 1..(h + 7) /\ Len(p) = h + 7
      /\ p[h + 3].element_id = "account_baseline"
      /\ \A k \in 1..h : p[k + 2].element_id = RuleElementId[hits[k]]
  <2>1. LaidOut(p, hits)
    BY <1>2, <1>3, ElementsOfAPackage
  <2>2. Len(p) = h + 7
    BY <1>2 DEF PackageOf
  <2> QED
    BY <2>1, <2>2 DEF LaidOut
<1>5. \A m \in DOMAIN p : IsIndicator(p[m]) <=> 2 < m /\ m <= b
  BY <1>2, <1>3, IndicatorsOfAPackage
<1>6. RiskIndicators(c) = [k \in DOMAIN shown |-> shown[k].element_id]
  BY DEF RiskIndicators, p
<1> HIDE DEF h
<1>7. \A n \in 1..Len(p) : p[n] \in S <=> a < n /\ n <= b
  BY <1>4, <1>5 DEF Elements
<1>8. /\ a \in Nat /\ b \in Nat /\ a <= b /\ b <= Len(p)
      /\ b - a = h + (IF prior = 0 THEN 1 ELSE 0) /\ b - a \in Nat
      /\ \A k \in 1..h : a + k = k + 2 /\ k \in 1..(b - a)
      /\ prior = 0 => a + (h + 1) = h + 3 /\ h + 1 \in 1..(b - a)
  BY <1>3, <1>4
<1> HIDE DEF S, a, b
<1>9. Kept(p, S) = Stretch(p, a, b - a)
  BY <1>1, <1>7, <1>8, KeptStretch
<1>10. shown = [k \in 1..(b - a) |-> p[a + k]]
  BY <1>9 DEF Stretch
<1> HIDE DEF shown
<1>11. RiskIndicators(c) = [k \in 1..(b - a) |-> p[a + k].element_id]
  BY <1>6, <1>10
<1>12. /\ Len(RiskIndicators(c)) = b - a
       /\ \A k \in 1..(b - a) : RiskIndicators(c)[k] = p[a + k].element_id
  BY <1>8, <1>11
<1> QED
  BY <1>4, <1>8, <1>12 DEF Indicated, h

(* Each of them drills down to its own raw signal. *)
LEMMA CasesDrillDown ==
    ASSUME NEW c, Opened(c)
    PROVE  LET ids == RiskIndicators(c)
               new == Token("prior_transaction_count", 0)
                          \in ById(c.evidence, "account_baseline").numbers
           IN  /\ Len(ids) = Len(c.rule_hits) + (IF new THEN 1 ELSE 0)
               /\ \A k \in DOMAIN c.rule_hits :
                    Token("rule_id", c.rule_hits[k]) \in DrillDown(c, ids[k]).strings
               /\ new => DrillDown(c, ids[Len(ids)]).source = "account_history"
<1>1. PICK txn, prior, score, hits : MadeFrom(c, txn, prior, score, hits)
  BY DEF Opened
<1> DEFINE p == c.evidence
           h == Len(hits)
           ids == RiskIndicators(c)
           new == Token("prior_transaction_count", 0)
                      \in ById(c.evidence, "account_baseline").numbers
<1>2. /\ hits \in Seq(Rules) /\ prior \in Nat /\ c.rule_hits = hits
  BY <1>1 DEF MadeFrom
<1>3. new <=> prior = 0
  BY <1>1, HistoryTellsNewAccounts
<1>4. /\ Len(ids) = h + (IF prior = 0 THEN 1 ELSE 0)
      /\ \A k \in 1..h : ids[k] = RuleElementId[hits[k]]
      /\ prior = 0 => ids[h + 1] = "account_baseline"
  BY <1>1, IndicatorsOfACase DEF Indicated
<1>5. PICK X : p \in Seq(X)
  BY <1>1, PackageOfACase
<1>6. PackageOf(p, txn, prior, score, hits)
  BY <1>1, PackageOfACase
<1>7. \A n \in DOMAIN p : \E m \in DOMAIN p :
         p[m].element_id = p[n].element_id /\ DrillDown(c, p[n].element_id) = p[m]
  BY <1>5, DrillDownFinds
<1> HIDE DEF p, ids, new
<1>8. /\ h \in Nat /\ DOMAIN p = 1..(h + 7)
      /\ \A m \in 1..(h + 7) : m \in {1, 2, h + 3, h + 4, h + 5, h + 6, h + 7}
                               \/ m - 2 \in 1..h
      /\ p[1].element_id \in FixedIds /\ p[2].element_id \in FixedIds
      /\ p[h + 3].element_id = "account_baseline"
      /\ p[h + 3].element_id \in FixedIds /\ p[h + 4].element_id \in FixedIds
      /\ p[h + 5].element_id \in FixedIds /\ p[h + 6].element_id \in FixedIds
      /\ p[h + 7].element_id \in FixedIds
      /\ \A k \in 1..h : /\ hits[k] \in Rules
                         /\ p[k + 2].element_id = RuleElementId[hits[k]]
  <2>1. LaidOut(p, hits)
    BY <1>2, <1>6, ElementsOfAPackage
  <2> QED
    BY <2>1 DEF LaidOut, FixedIds
<1>9. /\ p[h + 3] = AccountHistory(prior, prior)
      /\ \A k \in 1..h : p[k + 2] = RuleElement(hits[k])
  BY <1>6 DEF PackageOf
<1> HIDE DEF h
<1>10. ASSUME NEW k \in 1..h
       PROVE  Token("rule_id", hits[k]) \in DrillDown(c, ids[k]).strings
  <2>1. k + 2 \in DOMAIN p /\ p[k + 2].element_id = ids[k]
    BY <1>4, <1>8
  <2>2. PICK m \in DOMAIN p : /\ p[m].element_id = ids[k]
                              /\ DrillDown(c, ids[k]) = p[m]
    BY <1>7, <2>1
  <2>3. ids[k] = RuleElementId[hits[k]] /\ hits[k] \in Rules /\ ids[k] \notin FixedIds
    BY <1>4, <1>8, RuleElementIds
  <2>4. m - 2 \in 1..h
    BY <1>8, <2>2, <2>3
  <2>5. PICK j \in 1..h : j = m - 2
    BY <2>4
  <2>6. m = j + 2
    BY <1>8, <2>5
  <2>7. RuleElementId[hits[j]] = RuleElementId[hits[k]] /\ hits[j] \in Rules
    BY <1>8, <2>2, <2>3, <2>6
  <2>8. hits[j] = hits[k]
    BY <2>3, <2>7, RuleElementIds
  <2>9. DrillDown(c, ids[k]) = RuleElement(hits[k])
    BY <1>9, <2>2, <2>6, <2>8
  <2>10. RuleElement(hits[k]).strings = {Token("rule_id", hits[k]), Token("summary", hits[k])}
    BY RuleElementFields
  <2> QED
    BY <2>9, <2>10
<1>11. ASSUME prior = 0
       PROVE  DrillDown(c, ids[Len(ids)]).source = "account_history"
  <2>1. ids[Len(ids)] = p[h + 3].element_id /\ h + 3 \in DOMAIN p
    BY <1>4, <1>8, <1>11
  <2>2. PICK m \in DOMAIN p : /\ p[m].element_id = p[h + 3].element_id
                              /\ DrillDown(c, p[h + 3].element_id) = p[m]
    BY <1>7, <2>1
  <2>3. m = h + 3
    BY <1>2, <1>6, <1>8, <2>1, <2>2, FixedElementsAreUnique
  <2> QED
    BY <1>2, <1>9, <2>1, <2>2, <2>3, AccountHistoryFields
<1>12. DOMAIN c.rule_hits = 1..h /\ Len(c.rule_hits) = h
  BY <1>2 DEF h
<1>13. /\ Len(ids) = Len(c.rule_hits) + (IF new THEN 1 ELSE 0)
       /\ \A k \in DOMAIN c.rule_hits :
            Token("rule_id", c.rule_hits[k]) \in DrillDown(c, ids[k]).strings
       /\ new => DrillDown(c, ids[Len(ids)]).source = "account_history"
  BY <1>2, <1>3, <1>4, <1>10, <1>11, <1>12
<1> QED
  BY <1>13 DEF ids, new, p

-----------------------------------------------------------------------------
(* The columns of a row that the explanation and the page are made of.     *)
Frozen == {"txn_id", "status", "score", "recommendation", "evidence",
           "explanation", "rule_hits"}

(* A row of a case that was opened, whatever its status is by now.         *)
IsCase(c) == Frozen \subseteq DOMAIN c /\ Opened(c)

(* Every stored case is one, in the tables and in the open transaction.    *)
CInv == /\ OInv
        /\ \A c \in Stored : IsCase(c)

(* A band is given to exactly the scores that can be trusted. *)
LEMMA BandOfAScore ==
    ASSUME NEW score, NEW fired
    PROVE  Recommend(score, fired, Policy).band = "none" <=> ~Trusted(score)
<1>1. CASE Trusted(score)
  <2> DEFINE band == ScoreBand(score.probability, Policy.bands)
  <2>1. Recommend(score, fired, Policy).band = band
    BY <1>1 DEF Recommend, RecommendScored
  <2>2. band \in {"low", "borderline", "high"}
    BY DEF ScoreBand
  <2> QED
    BY <1>1, <2>1, <2>2
<1>2. CASE ~Trusted(score)
  BY <1>2 DEF Recommend, RecommendUnscored
<1> QED
  BY <1>1, <1>2

(* What the script flushes is the row of a case. *)
LEMMA NewCasesAreCases == \A c \in NewCases : IsCase(c)
<1> SUFFICES ASSUME NEW k \in DOMAIN Batch, NEW prior \in Priors,
                    NEW score \in Scores, NEW fired \in SUBSET Rules
             PROVE  IsCase(NewCase(Batch[k], prior, prior, score, Hits(fired)))
  BY DEF NewCases
<1> DEFINE txn == Batch[k]
           hits == Hits(fired)
           rules == {hits[i] : i \in DOMAIN hits}
           p == AssembleEvidence(txn, prior, prior, score, hits)
           made == Recommend(score, rules, Policy)
           rec == [action |-> made.action, confidence |-> made.confidence,
                   band |-> made.band, uncertain |-> made.uncertain,
                   rule_ids |-> rules]
           shown == IF score.available THEN score.probability ELSE None
           text == Explain(p, rec)
           c == NewCase(txn, prior, prior, score, hits)
<1>1. hits \in Seq(Rules)
  <2>1. Enabled \in Seq(Rules)
    BY OpeningAssumption
  <2>2. Kept(Enabled, fired) \in Seq(Rules \cap fired)
    BY <2>1, KeptIsTyped
  <2> QED
    BY <2>2 DEF Hits
<1>2. made.band = "none" <=> ~Trusted(score)
  BY BandOfAScore
<1>3. c = [txn_id |-> txn.txn_id, score |-> shown, recommendation |-> rec,
           evidence |-> p, explanation |-> text, rule_hits |-> hits,
           status |-> "queued"]
  BY DEF NewCase
<1>4. prior \in Nat /\ txn \in {Batch[i] : i \in DOMAIN Batch}
  BY OpeningAssumption
<1> HIDE DEF c, hits, text, p, made, txn
<1>5. rec.rule_ids = rules /\ rec.band = made.band
  OBVIOUS
<1> HIDE DEF rec, shown, rules
<1>6. /\ c.rule_hits = hits /\ c.score = shown /\ c.evidence = p
      /\ c.recommendation = rec /\ c.explanation = text
      /\ DOMAIN c = Frozen
  BY <1>3 DEF Frozen
<1>7. MadeFrom(c, txn, prior, score, hits)
  BY <1>1, <1>2, <1>4, <1>5, <1>6 DEF MadeFrom, p, text, shown, rules
<1>8. IsCase(c)
  BY <1>6, <1>7 DEF IsCase, Opened
<1> QED
  BY <1>8 DEF c, txn, hits

(* A disposition leaves all the rest of the row as it was. *)
LEMMA DisposedCasesAreCases ==
    ASSUME NEW c, IsCase(c), NEW status
    PROVE  IsCase([c EXCEPT !.status = status])
<1> DEFINE d == [c EXCEPT !.status = status]
<1>1. /\ Frozen \subseteq DOMAIN d
      /\ d.score = c.score /\ d.recommendation = c.recommendation
      /\ d.evidence = c.evidence /\ d.explanation = c.explanation
      /\ d.rule_hits = c.rule_hits
  BY DEF IsCase, Frozen
<1> HIDE DEF d
<1>2. PICK txn, prior, score, hits : MadeFrom(c, txn, prior, score, hits)
  BY DEF IsCase, Opened
<1>3. MadeFrom(d, txn, prior, score, hits)
  BY <1>1, <1>2 DEF MadeFrom
<1>4. IsCase(d)
  BY <1>1, <1>3 DEF IsCase, Opened
<1> QED
  BY <1>4 DEF d

(* Every step keeps the stored rows the rows of cases. *)
LEMMA CasesStep == CInv /\ [Next]_vars => CInv'
<1> SUFFICES ASSUME CInv, [Next]_vars PROVE CInv'
  OBVIOUS
<1>1. OInv /\ OInv'
  BY OpeningStep DEF CInv
<1>2. (pending \in Seq(NewCases)) /\ (pending \in Seq(NewCases))'
  BY <1>1 DEF OInv, PendingIsPrefix
<1>3. NewCases' = NewCases
  BY DEF NewCases
<1>4. \A k \in DOMAIN pending' : pending'[k] \in NewCases
  BY <1>2, <1>3
<1>5. \A k \in DOMAIN pending : pending[k] \in NewCases
  BY <1>2
<1>6. \A c \in cases : IsCase(c)
  BY DEF CInv, Stored
<1>7. \A c \in cases' : IsCase(c)
  <2>1. CASE CommitBatch
    BY <1>5, <1>6, <2>1, NewCasesAreCases DEF CommitBatch
  <2>2. ASSUME NEW c \in cases, NEW status, Dispose(c, status)
        PROVE  \A e \in cases' : IsCase(e)
    <3> DEFINE d == [c EXCEPT !.status = status]
    <3>1. IsCase(d)
      BY <1>6, DisposedCasesAreCases
    <3>2. cases' = (cases \ {c}) \cup {d}
      BY <2>2 DEF Dispose
    <3> HIDE DEF d
    <3> QED
      BY <1>6, <3>1, <3>2
  <2>3. CASE UNCHANGED cases
    BY <1>6, <2>3
  <2> QED
    BY <2>1, <2>2, <2>3 DEF Next, Launch, OpenCase, Stop, vars
<1>8. \A c \in Stored' : IsCase(c)
  BY <1>4, <1>7, NewCasesAreCases DEF Stored
<1>9. \A c : IsCase(c)' <=> IsCase(c)
  BY DEF IsCase, Opened, MadeFrom
<1> QED
  BY <1>1, <1>8, <1>9 DEF CInv

(* What is stored are always the rows of cases. *)
THEOREM StoredInvariance == Spec => []CInv
<1>1. Init => CInv
  <2>1. Init => OInv
    BY BatchFacts DEF Init, OInv, PendingIsPrefix, CommittedIsWhole
  <2> QED
    BY <2>1 DEF Init, CInv, Stored
<1> QED
  BY <1>1, CasesStep, PTL DEF Spec

(* Every sentence of a stored explanation cites elements of the case's own *)
(* package, and only such as may be cited.                                 *)
THEOREM SentencesAreCited == Spec => []EverySentenceIsCited
<1>1. CInv => EverySentenceIsCited
  BY CasesAreCited DEF CInv, IsCase, EverySentenceIsCited
<1> QED
  BY <1>1, StoredInvariance, PTL

(* Wherever a case without a score is shown, its exclusion is told, and no *)
(* probability; a score is told as the case's own, to four decimals.  Only *)
(* of a status that contradicts itself does the text tell a zero.          *)
THEOREM ExclusionsAreTold == Spec => []ExclusionIsTold
<1>1. CInv => ExclusionIsTold
  BY ToldOfACase DEF CInv, IsCase, ExclusionIsTold
<1> QED
  BY <1>1, StoredInvariance, PTL

(* Within the stated limits the templated text passes the grounding gate.  *)
THEOREM TemplatesAreGrounded == Spec => []GroundedWithinTheseLimits
<1>1. CInv => GroundedWithinTheseLimits
  BY CasesAreGrounded DEF CInv, IsCase, GroundedWithinTheseLimits
<1> QED
  BY <1>1, StoredInvariance, PTL

(* The page's indicators are what the engine found, in its order, and each *)
(* leads back to its own raw signal.                                       *)
THEOREM IndicatorsLeadBack == Spec => []IndicatorsDrillDown
<1>1. CInv => IndicatorsDrillDown
  BY CasesDrillDown DEF CInv, IsCase, IndicatorsDrillDown
<1> QED
  BY <1>1, StoredInvariance, PTL

-----------------------------------------------------------------------------
(* The schema of the store.  The revisions are two lists of statements, up *)
(* and down; a migration runs a stretch of one of them, and at each place  *)
(* of it the schema is known.                                              *)
UpOrder == <<"accounts", "counterparties", "model_versions", "transactions",
             "cases", "audit_log", "dispositions", "rule_hits">>
DownOrder == <<"rule_hits", "dispositions", "audit_log", "cases",
               "transactions", "model_versions", "counterparties", "accounts">>

Ups == Upgrade0001 \o Upgrade0002
Downs == Downgrade0002 \o Downgrade0001

Schemas == [tables : SUBSET Tables, trigger : BOOLEAN, score_nullable : BOOLEAN,
            revision : {"none", "0001", "0002"}, unscored : BOOLEAN]

(* The schema after the first j statements up. *)
IsUp(d, j) ==
    /\ d \in Schemas
    /\ d.tables = {UpOrder[k] : k \in {i \in 1..8 : i <= j}}
    /\ d.trigger <=> j >= 9
    /\ d.score_nullable <=> j >= 11
    /\ d.revision = IF j < 10 THEN "none" ELSE IF j < 12 THEN "0001" ELSE "0002"
    /\ d.unscored => j = 12

(* The schema after the first j statements down. *)
IsDown(d, j) ==
    /\ d \in Schemas
    /\ d.tables = {DownOrder[k] : k \in {i \in 1..8 : i > j - 3}}
    /\ d.trigger <=> j < 3
    /\ d.score_nullable <=> j = 0
    /\ d.revision = IF j < 2 THEN "0002" ELSE IF j < 12 THEN "0001" ELSE "none"
    /\ d.unscored => j = 0

(* The schema of a revision. *)
AtRevision(d) == IsUp(d, 0) \/ IsUp(d, 10) \/ IsUp(d, 12)

Upgrading ==
    /\ command = "start"
    /\ \E j \in 0..12 : todo = SubSeq(Ups, j + 1, 12) /\ IsUp(work, j)

Downgrading ==
    /\ command \in {"downgrade one", "downgrade base"}
    /\ \E e \in {2, 12} : \E j \in 0..e :
          /\ todo = SubSeq(Downs, j + 1, e)
          /\ IsDown(work, j)
          /\ work.unscored => db.unscored

(* The store create_all made of one that was never migrated, and a         *)
(* migration of it: the upgrades stop at their first statement, and there  *)
(* is nothing to downgrade.                                                *)
WasMade(d) == d \in Schemas /\ Unstamped(d)

Astray == /\ WasMade(work)
          /\ \/ command = "start" /\ todo = Ups
             \/ command \in {"downgrade one", "downgrade base"} /\ todo = <<>>

(* What a command can be refused for, in terms of places of the lists.     *)
Refused ==
    \/ db.unscored /\ command \in {"downgrade one", "downgrade base"}
    \/ IsUp(db, 10) /\ command = "seed"
    \/ WasMade(db) /\ command = "start"

(* What is committed is the schema of a revision, or what create_all made; *)
(* what a start seeds and serves is at the head, and a migration is at     *)
(* some place of its list, or has nowhere to go.                           *)
WholeInv ==
    /\ AtRevision(db) \/ WasMade(db)
    /\ pc \in {"idle", "failed", "migrating", "seeding", "created"}
    /\ pc \in {"seeding", "created"} /\ command = "start" => IsUp(db, 12)
    /\ pc \in {"seeding", "created"} => command \in {"start", "seed"}
    /\ pc = "created" => ~IsUp(db, 0)
    /\ api /\ command = "start" => pc = "idle" /\ IsUp(db, 12)
    /\ pc = "migrating" => \/ AtRevision(db) /\ (Upgrading \/ Downgrading)
                           \/ WasMade(db) /\ Astray
    /\ pc = "failed" => Refused

(* The statements of the two lists. *)
MakeTable(t) == Stmt("create table", t)
DropTable(t) == Stmt("drop table", t)
MakeTrigger == Stmt("create trigger", "audit_log")
DropTrigger == Stmt("drop trigger", "audit_log")
LetNull == Stmt("nullable", TRUE)
ForbidNull == Stmt("nullable", FALSE)
StampNone == Stmt("stamp", "none")
Stamp1 == Stmt("stamp", "0001")
Stamp2 == Stmt("stamp", "0002")

Statements == {MakeTable(t) : t \in Tables} \cup {DropTable(t) : t \in Tables}
                \cup {MakeTrigger, DropTrigger, LetNull, ForbidNull,
                      StampNone, Stamp1, Stamp2}

LEMMA TablesAre ==
    Tables = {"accounts", "counterparties", "model_versions", "transactions",
              "cases", "audit_log", "dispositions", "rule_hits"}
BY DEF Tables, References

(* A place of the orders in which the tables come and go. *)
LEMMA Orders ==
    /\ UpOrder \in Seq(Tables) /\ Len(UpOrder) = 8 /\ DOMAIN UpOrder = 1..8
    /\ \A j \in 1..8 : UpOrder[j] \in Tables
    /\ DownOrder \in Seq(Tables) /\ Len(DownOrder) = 8 /\ DOMAIN DownOrder = 1..8
    /\ \A j \in 1..8 : DownOrder[j] \in Tables
<1>1. UpOrder \in Seq(Tables) /\ Len(UpOrder) = 8
  BY TablesAre DEF UpOrder
<1>2. DownOrder \in Seq(Tables) /\ Len(DownOrder) = 8
  BY TablesAre DEF DownOrder
<1>3. ASSUME NEW X, NEW s \in Seq(X), Len(s) = 8
      PROVE  DOMAIN s = 1..8 /\ \A j \in 1..8 : s[j] \in X
  <2>1. DOMAIN s = 1..Len(s) /\ \A j \in 1..Len(s) : s[j] \in X
    OBVIOUS
  <2> QED
    BY <1>3, <2>1
<1> QED
  BY <1>1, <1>2, <1>3

(* r is two lists, one after the other. *)
IsJoined(r, s, t, m, n, X) ==
    /\ r \in Seq(X) /\ Len(r) = m + n
    /\ \A i \in 1..m : r[i] = s[i]
    /\ \A i \in 1..n : r[m + i] = t[i]
    /\ SubSeq(r, 1, m + n) = r
    /\ SubSeq(r, 1, m) = s
    /\ SubSeq(r, m + 1, m + n) = t

LEMMA Joined ==
    ASSUME NEW X, NEW s \in Seq(X), NEW t \in Seq(X), Len(s) # 0, Len(t) # 0
    PROVE  IsJoined(s \o t, s, t, Len(s), Len(t), X)
<1> DEFINE r == s \o t
           m == Len(s)
           n == Len(t)
<1>0. m \in Nat \ {0} /\ n \in Nat \ {0}
  OBVIOUS
<1>1. /\ r \in Seq(X) /\ Len(r) = m + n
      /\ \A i \in 1..(m + n) : r[i] = IF i <= m THEN s[i] ELSE t[i - m]
  BY ConcatProperties
<1>2. ASSUME NEW i \in 1..n PROVE r[m + i] = t[i]
  <2>1. m + i \in 1..(m + n) /\ ~(m + i <= m) /\ (m + i) - m = i
    OBVIOUS
  <2> QED
    BY <1>1, <2>1
<1>3. SubSeq(r, 1, m + n) = r
  BY <1>1, SubSeqFull
<1>4. SubSeq(r, 1, m) = s
  <2>1. 1 \in 1..Len(s) /\ m \in 1..Len(s)
    OBVIOUS
  <2>2. SubSeq(s \o t, 1, m) = SubSeq(s, 1, m)
    BY <2>1, SubSeqOfConcat1
  <2>3. SubSeq(s, 1, m) = s
    BY SubSeqFull
  <2> QED
    BY <2>2, <2>3
<1>5. SubSeq(r, m + 1, m + n) = t
  <2>1. /\ m + 1 \in Len(s) + 1 .. Len(s) + Len(t)
        /\ m + n \in Len(s) + 1 .. Len(s) + Len(t)
    OBVIOUS
  <2>2. SubSeq(s \o t, m + 1, m + n) = SubSeq(t, (m + 1) - Len(s), (m + n) - Len(s))
    BY <2>1, SubSeqOfConcat2
  <2>3. (m + 1) - Len(s) = 1 /\ (m + n) - Len(s) = Len(t)
    OBVIOUS
  <2>4. SubSeq(t, 1, Len(t)) = t
    BY SubSeqFull
  <2> QED
    BY <2>2, <2>3, <2>4
<1> QED
  BY <1>1, <1>2, <1>3, <1>4, <1>5 DEF IsJoined

(* The upgrades, statement by statement. *)
UpsAre ==
    /\ Ups \in Seq(Statements) /\ Len(Ups) = 12
    /\ \A j \in 1..8 : Ups[j] = MakeTable(UpOrder[j])
    /\ Ups[9] = MakeTrigger
    /\ Ups[10] = Stamp1
    /\ Ups[11] = LetNull
    /\ Ups[12] = Stamp2
    /\ SubSeq(Ups, 1, 12) = Ups
    /\ SubSeq(Ups, 11, 12) = Upgrade0002

LEMMA TheUpgrades == UpsAre
<1> DEFINE s == Create(UpOrder)
           t == <<MakeTrigger, Stamp1>>
           u == <<LetNull, Stamp2>>
<1>1. /\ s \in Seq(Statements) /\ Len(s) = 8
      /\ \A j \in 1..8 : s[j] = MakeTable(UpOrder[j])
  <2>1. s = [j \in 1..8 |-> MakeTable(UpOrder[j])]
    BY Orders DEF Create, MakeTable
  <2>2. \A j \in 1..8 : MakeTable(UpOrder[j]) \in Statements
    BY Orders DEF Statements
  <2> HIDE DEF s
  <2> QED
    BY <2>1, <2>2
<1>2. /\ MakeTrigger \in Statements
      /\ Stamp1 \in Statements /\ Stamp2 \in Statements
      /\ LetNull \in Statements
  BY DEF Statements
<1>3. t \in Seq(Statements) /\ Len(t) = 2 /\ u \in Seq(Statements) /\ Len(u) = 2
  BY <1>2
<1>4. t[1] = MakeTrigger /\ t[2] = Stamp1
      /\ u[1] = LetNull /\ u[2] = Stamp2
  OBVIOUS
<1>5. Upgrade0001 = s \o t /\ Upgrade0002 = u
  <2>1. Upgrade0001 = s \o t
    BY Zenon DEF Upgrade0001, UpOrder, MakeTrigger, Stamp1
  <2>2. Upgrade0002 = u
    BY Zenon DEF Upgrade0002, LetNull, Stamp2
  <2> QED
    BY <2>1, <2>2
<1> HIDE DEF s, t, u
<1> DEFINE v == s \o t
<1>6. v = s \o t
  OBVIOUS
<1> HIDE DEF v
<1>7. IsJoined(v, s, t, 8, 2, Statements)
  <2>1. IsJoined(s \o t, s, t, Len(s), Len(t), Statements)
    <3>1. /\ s \in Seq(Statements) /\ t \in Seq(Statements)
          /\ Len(s) # 0 /\ Len(t) # 0
      BY <1>1, <1>3
    <3> QED
      BY <3>1, Joined
  <2> QED
    BY <1>1, <1>3, <1>6, <2>1
<1>8. Ups = v \o u
  BY <1>5, <1>6 DEF Ups
<1>9. IsJoined(Ups, v, u, 10, 2, Statements)
  <2>1. v \in Seq(Statements) /\ Len(v) = 10
    BY <1>7 DEF IsJoined
  <2>2. IsJoined(v \o u, v, u, Len(v), Len(u), Statements)
    <3>1. /\ v \in Seq(Statements) /\ u \in Seq(Statements)
          /\ Len(v) # 0 /\ Len(u) # 0
      BY <1>3, <2>1
    <3> QED
      BY <3>1, Joined
  <2> QED
    BY <1>3, <1>8, <2>1, <2>2
<1>10. \A j \in 1..8 : Ups[j] = s[j]
  BY <1>7, <1>9 DEF IsJoined
<1>11. Ups[9] = t[1] /\ Ups[10] = t[2] /\ Ups[11] = u[1] /\ Ups[12] = u[2]
  <2>1. v[8 + 1] = t[1] /\ v[8 + 2] = t[2]
    BY <1>7 DEF IsJoined
  <2>2. Ups[10 + 1] = u[1] /\ Ups[10 + 2] = u[2]
    BY <1>9 DEF IsJoined
  <2> QED
    BY <1>9, <2>1, <2>2 DEF IsJoined
<1> QED
  BY <1>1, <1>4, <1>5, <1>9, <1>10, <1>11 DEF UpsAre, IsJoined

(* The downgrades, statement by statement. *)
DownsAre ==
    /\ Downs \in Seq(Statements) /\ Len(Downs) = 12
    /\ Downs[1] = ForbidNull
    /\ Downs[2] = Stamp1
    /\ Downs[3] = DropTrigger
    /\ \A j \in 4..11 : Downs[j] = DropTable(DownOrder[j - 3])
    /\ Downs[12] = StampNone
    /\ SubSeq(Downs, 1, 12) = Downs
    /\ SubSeq(Downs, 3, 12) = Downgrade0001
    /\ SubSeq(Downs, 1, 2) = Downgrade0002

LEMMA TheDowngrades == DownsAre
<1> DEFINE u == <<ForbidNull, Stamp1>>
           t == <<DropTrigger>>
           s == Drop(DownOrder)
           z == <<StampNone>>
<1>1. /\ s \in Seq(Statements) /\ Len(s) = 8
      /\ \A j \in 1..8 : s[j] = DropTable(DownOrder[j])
  <2>1. s = [j \in 1..8 |-> DropTable(DownOrder[j])]
    BY Orders DEF Drop, DropTable
  <2>2. \A j \in 1..8 : DropTable(DownOrder[j]) \in Statements
    BY Orders DEF Statements
  <2> HIDE DEF s
  <2> QED
    BY <2>1, <2>2
<1>2. /\ DropTrigger \in Statements
      /\ Stamp1 \in Statements /\ StampNone \in Statements
      /\ ForbidNull \in Statements
  BY DEF Statements
<1>3. /\ t \in Seq(Statements) /\ Len(t) = 1
      /\ u \in Seq(Statements) /\ Len(u) = 2
      /\ z \in Seq(Statements) /\ Len(z) = 1
  <2>1. t \in Seq(Statements) /\ Len(t) = 1
    BY <1>2
  <2>2. u \in Seq(Statements) /\ Len(u) = 2
    BY <1>2
  <2>3. z \in Seq(Statements) /\ Len(z) = 1
    BY <1>2
  <2> QED
    BY <2>1, <2>2, <2>3
<1>4. t[1] = DropTrigger /\ z[1] = StampNone
      /\ u[1] = ForbidNull /\ u[2] = Stamp1
  OBVIOUS
<1>5. Downgrade0001 = (t \o s) \o z /\ Downgrade0002 = u
  <2>1. Downgrade0001 = (t \o s) \o z
    BY Zenon DEF Downgrade0001, DownOrder, DropTrigger, StampNone
  <2>2. Downgrade0002 = u
    BY Zenon DEF Downgrade0002, ForbidNull, Stamp1
  <2> QED
    BY <2>1, <2>2
<1> HIDE DEF s, t, u, z
<1> DEFINE v == t \o s
           w == v \o z
<1>6. v = t \o s /\ w = v \o z
  OBVIOUS
<1> HIDE DEF v, w
<1>7. IsJoined(v, t, s, 1, 8, Statements)
  <2>1. IsJoined(t \o s, t, s, Len(t), Len(s), Statements)
    <3>1. /\ t \in Seq(Statements) /\ s \in Seq(Statements)
          /\ Len(t) # 0 /\ Len(s) # 0
      BY <1>1, <1>3
    <3> QED
      BY <3>1, Joined
  <2> QED
    BY <1>1, <1>3, <1>6, <2>1
<1>8. IsJoined(w, v, z, 9, 1, Statements)
  <2>1. v \in Seq(Statements) /\ Len(v) = 9
    BY <1>7 DEF IsJoined
  <2>2. IsJoined(v \o z, v, z, Len(v), Len(z), Statements)
    <3>1. /\ v \in Seq(Statements) /\ z \in Seq(Statements)
          /\ Len(v) # 0 /\ Len(z) # 0
      BY <1>3, <2>1
    <3> QED
      BY <3>1, Joined
  <2> QED
    BY <1>3, <1>6, <2>1, <2>2
<1>9. Downs = u \o w /\ Downgrade0001 = w
  BY <1>5, <1>6 DEF Downs
<1>10. IsJoined(Downs, u, w, 2, 10, Statements)
  <2>1. w \in Seq(Statements) /\ Len(w) = 10
    BY <1>8 DEF IsJoined
  <2>2. IsJoined(u \o w, u, w, Len(u), Len(w), Statements)
    <3>1. /\ u \in Seq(Statements) /\ w \in Seq(Statements)
          /\ Len(u) # 0 /\ Len(w) # 0
      BY <1>3, <2>1
    <3> QED
      BY <3>1, Joined
  <2> QED
    BY <1>3, <1>9, <2>1, <2>2
<1>11. Downs[1] = u[1] /\ Downs[2] = u[2] /\ Downs[3] = t[1] /\ Downs[12] = z[1]
  <2>1. v[1] = t[1]
    BY <1>7 DEF IsJoined
  <2>2. w[1] = v[1] /\ w[9 + 1] = z[1]
    BY <1>8 DEF IsJoined
  <2>3. Downs[2 + 1] = w[1] /\ Downs[2 + 10] = w[10]
    BY <1>10 DEF IsJoined
  <2> QED
    BY <1>10, <2>1, <2>2, <2>3 DEF IsJoined
<1>12. ASSUME NEW j \in 4..11 PROVE Downs[j] = DropTable(DownOrder[j - 3])
  <2>1. 1 + (j - 3) = j - 2 /\ 2 + (j - 2) = j
    OBVIOUS
  <2>2. j - 3 \in 1..8 /\ j - 2 \in 1..9 /\ j - 2 \in 1..10
    OBVIOUS
  <2>3. v[1 + (j - 3)] = s[j - 3] /\ s[j - 3] = DropTable(DownOrder[j - 3])
    BY <1>1, <1>7, <2>2 DEF IsJoined
  <2>4. w[j - 2] = v[j - 2]
    BY <1>8, <2>2 DEF IsJoined
  <2>5. Downs[2 + (j - 2)] = w[j - 2]
    BY <1>10, <2>2 DEF IsJoined
  <2> QED
    BY <2>1, <2>3, <2>4, <2>5
<1>13. /\ Downs \in Seq(Statements) /\ Len(Downs) = 12
       /\ SubSeq(Downs, 1, 12) = Downs
       /\ SubSeq(Downs, 1, 2) = u
       /\ SubSeq(Downs, 3, 12) = w
  BY <1>10 DEF IsJoined
<1> QED
  BY <1>4, <1>5, <1>9, <1>11, <1>12, <1>13 DEF DownsAre

(* What a stretch of a list begins and goes on with. *)
LEMMA Stretches ==
    ASSUME NEW X, NEW s \in Seq(X), NEW e \in 1..Len(s), NEW j \in 0..e
    PROVE  /\ SubSeq(s, j + 1, e) = <<>> <=> j = e
           /\ j # e => /\ Head(SubSeq(s, j + 1, e)) = s[j + 1]
                       /\ Tail(SubSeq(s, j + 1, e)) = SubSeq(s, (j + 1) + 1, e)
<1>1. CASE j = e
  <2>1. SubSeq(s, j + 1, e) = <<>>
    BY <1>1, SubSeqEmpty
  <2> QED
    BY <1>1, <2>1
<1>2. CASE j # e
  <2>1. /\ Head(SubSeq(s, j + 1, e)) = s[j + 1]
        /\ Tail(SubSeq(s, j + 1, e)) = SubSeq(s, (j + 1) + 1, e)
    <3>1. j + 1 \in 1..Len(s) /\ e \in (j + 1)..Len(s)
      BY <1>2
    <3> QED
      BY <3>1, HeadTailOfSubSeq
  <2>2. SubSeq(s, j + 1, e) # <<>>
    <3>1. \A i \in (j + 1)..e : s[i] \in X
      OBVIOUS
    <3>2. Len(SubSeq(s, j + 1, e)) = IF j + 1 <= e THEN e - (j + 1) + 1 ELSE 0
      BY <3>1, SubSeqProperties
    <3>3. Len(SubSeq(s, j + 1, e)) # 0
      BY <1>2, <3>2
    <3> QED
      BY <3>3
  <2> QED
    BY <1>2, <2>1, <2>2
<1> QED
  BY <1>1, <1>2

(* A schema, field by field. *)
IsSchema(e, ts, trigger, nullable, revision, unscored) ==
    /\ e \in Schemas
    /\ e.tables = ts
    /\ e.trigger = trigger
    /\ e.score_nullable = nullable
    /\ e.revision = revision
    /\ e.unscored = unscored

(* What PostgreSQL makes of each statement, and when it refuses it. *)
LEMMA RunMakeTable ==
    ASSUME NEW t \in Tables, NEW d \in Schemas
    PROVE  /\ Applies(MakeTable(t), d)
                <=> t \notin d.tables /\ References[t] \subseteq d.tables
           /\ IsSchema(Executed(MakeTable(t), d), d.tables \cup {t}, d.trigger,
                       d.score_nullable, d.revision, d.unscored)
<1>1. /\ Applies(MakeTable(t), d)
            <=> t \notin d.tables /\ References[t] \subseteq d.tables
      /\ Executed(MakeTable(t), d) = [d EXCEPT !.tables = @ \cup {t}]
  BY Zenon DEF Applies, Executed, MakeTable, Stmt
<1>2. IsSchema([d EXCEPT !.tables = @ \cup {t}], d.tables \cup {t}, d.trigger,
               d.score_nullable, d.revision, d.unscored)
  <2>1. d.tables \cup {t} \in SUBSET Tables
    BY DEF Schemas
  <2> QED
    BY <2>1 DEF IsSchema, Schemas
<1> QED
  BY Zenon, <1>1, <1>2

LEMMA RunDropTable ==
    ASSUME NEW t \in Tables, NEW d \in Schemas
    PROVE  /\ Applies(DropTable(t), d)
                <=> t \in d.tables /\ \A u \in d.tables : t \notin References[u]
           /\ t = "cases" =>
                IsSchema(Executed(DropTable(t), d), d.tables \ {t}, d.trigger,
                         FALSE, d.revision, FALSE)
           /\ t # "cases" =>
                IsSchema(Executed(DropTable(t), d), d.tables \ {t}, d.trigger,
                         d.score_nullable, d.revision, d.unscored)
<1>1. /\ Applies(DropTable(t), d)
            <=> t \in d.tables /\ \A u \in d.tables : t \notin References[u]
      /\ t = "cases" =>
            Executed(DropTable(t), d)
              = [d EXCEPT !.tables = @ \ {t}, !.score_nullable = FALSE,
                          !.unscored = FALSE]
      /\ t # "cases" => Executed(DropTable(t), d) = [d EXCEPT !.tables = @ \ {t}]
  BY Zenon DEF Applies, Executed, DropTable, Stmt
<1>2. /\ IsSchema([d EXCEPT !.tables = @ \ {t}, !.score_nullable = FALSE,
                            !.unscored = FALSE],
                  d.tables \ {t}, d.trigger, FALSE, d.revision, FALSE)
      /\ IsSchema([d EXCEPT !.tables = @ \ {t}], d.tables \ {t}, d.trigger,
                  d.score_nullable, d.revision, d.unscored)
  <2>1. d.tables \ {t} \in SUBSET Tables
    BY DEF Schemas
  <2> QED
    BY <2>1 DEF IsSchema, Schemas
<1> QED
  BY Zenon, <1>1, <1>2

LEMMA RunTrigger ==
    ASSUME NEW d \in Schemas
    PROVE  /\ Applies(MakeTrigger, d) <=> "audit_log" \in d.tables /\ ~d.trigger
           /\ IsSchema(Executed(MakeTrigger, d), d.tables, TRUE,
                       d.score_nullable, d.revision, d.unscored)
           /\ Applies(DropTrigger, d) <=> "audit_log" \in d.tables
           /\ IsSchema(Executed(DropTrigger, d), d.tables, FALSE,
                       d.score_nullable, d.revision, d.unscored)
<1>1. /\ Applies(MakeTrigger, d) <=> "audit_log" \in d.tables /\ ~d.trigger
      /\ Executed(MakeTrigger, d) = [d EXCEPT !.trigger = TRUE]
      /\ Applies(DropTrigger, d) <=> "audit_log" \in d.tables
      /\ Executed(DropTrigger, d) = [d EXCEPT !.trigger = FALSE]
  BY Zenon DEF Applies, Executed, MakeTrigger, DropTrigger, Stmt
<1>2. \A b \in BOOLEAN :
         IsSchema([d EXCEPT !.trigger = b], d.tables, b, d.score_nullable,
                  d.revision, d.unscored)
  BY DEF IsSchema, Schemas
<1>3. TRUE \in BOOLEAN /\ FALSE \in BOOLEAN
  OBVIOUS
<1> QED
  BY Zenon, <1>1, <1>2, <1>3

LEMMA RunNullable ==
    ASSUME NEW d \in Schemas
    PROVE  /\ Applies(LetNull, d) <=> "cases" \in d.tables
           /\ IsSchema(Executed(LetNull, d), d.tables, d.trigger, TRUE,
                       d.revision, d.unscored)
           /\ Applies(ForbidNull, d) <=> "cases" \in d.tables /\ ~d.unscored
           /\ IsSchema(Executed(ForbidNull, d), d.tables, d.trigger, FALSE,
                       d.revision, d.unscored)
<1>1. /\ Applies(LetNull, d) <=> "cases" \in d.tables
      /\ Executed(LetNull, d) = [d EXCEPT !.score_nullable = TRUE]
      /\ Applies(ForbidNull, d) <=> "cases" \in d.tables /\ ~d.unscored
      /\ Executed(ForbidNull, d) = [d EXCEPT !.score_nullable = FALSE]
  BY Zenon DEF Applies, Executed, LetNull, ForbidNull, Stmt
<1>2. \A b \in BOOLEAN :
         IsSchema([d EXCEPT !.score_nullable = b], d.tables, d.trigger, b,
                  d.revision, d.unscored)
  BY DEF IsSchema, Schemas
<1>3. TRUE \in BOOLEAN /\ FALSE \in BOOLEAN
  OBVIOUS
<1> QED
  BY Zenon, <1>1, <1>2, <1>3

LEMMA RunStamp ==
    ASSUME NEW d \in Schemas
    PROVE  /\ Applies(StampNone, d) /\ Applies(Stamp1, d) /\ Applies(Stamp2, d)
           /\ IsSchema(Executed(StampNone, d), d.tables, d.trigger,
                       d.score_nullable, "none", d.unscored)
           /\ IsSchema(Executed(Stamp1, d), d.tables, d.trigger,
                       d.score_nullable, "0001", d.unscored)
           /\ IsSchema(Executed(Stamp2, d), d.tables, d.trigger,
                       d.score_nullable, "0002", d.unscored)
<1>1. /\ Applies(StampNone, d) /\ Applies(Stamp1, d) /\ Applies(Stamp2, d)
      /\ Executed(StampNone, d) = [d EXCEPT !.revision = "none"]
      /\ Executed(Stamp1, d) = [d EXCEPT !.revision = "0001"]
      /\ Executed(Stamp2, d) = [d EXCEPT !.revision = "0002"]
  BY Zenon DEF Applies, Executed, StampNone, Stamp1, Stamp2, Stmt
<1>2. \A r \in {"none", "0001", "0002"} :
         IsSchema([d EXCEPT !.revision = r], d.tables, d.trigger,
                  d.score_nullable, r, d.unscored)
  BY DEF IsSchema, Schemas
<1>3. {"none", "0001", "0002"} = {"none"} \cup {"0001"} \cup {"0002"}
  OBVIOUS
<1> QED
  BY Zenon, <1>1, <1>2, <1>3

(* The orders bring no table twice, none before one it references, and     *)
(* remove none before one that references it.                              *)
LEMMA OrdersFit ==
    /\ \A j, k \in 1..8 : UpOrder[j] = UpOrder[k] => j = k
    /\ \A j \in 1..8 : \A t \in References[UpOrder[j]] :
          \E k \in 1..8 : k < j /\ t = UpOrder[k]
    /\ \A j, k \in 1..8 : DownOrder[j] = DownOrder[k] => j = k
    /\ \A j, k \in 1..8 : DownOrder[j] \in References[DownOrder[k]] => k < j
    /\ {UpOrder[k] : k \in 1..8} = Tables
    /\ {DownOrder[k] : k \in 1..8} = Tables
<1> DEFINE a == UpOrder
           b == DownOrder
<1>1. /\ a[1] = "accounts" /\ a[2] = "counterparties" /\ a[3] = "model_versions"
      /\ a[4] = "transactions" /\ a[5] = "cases" /\ a[6] = "audit_log"
      /\ a[7] = "dispositions" /\ a[8] = "rule_hits"
  BY DEF UpOrder
<1>2. /\ b[1] = "rule_hits" /\ b[2] = "dispositions" /\ b[3] = "audit_log"
      /\ b[4] = "cases" /\ b[5] = "transactions" /\ b[6] = "model_versions"
      /\ b[7] = "counterparties" /\ b[8] = "accounts"
  BY DEF DownOrder
<1>3. /\ References["accounts"] = {} /\ References["counterparties"] = {}
      /\ References["model_versions"] = {}
      /\ References["transactions"] = {"accounts", "counterparties"}
      /\ References["cases"] = {"model_versions", "transactions"}
      /\ References["audit_log"] = {"cases"}
      /\ References["dispositions"] = {"cases"}
      /\ References["rule_hits"] = {"cases"}
  BY DEF References
<1> HIDE DEF a, b
<1>4. \A j \in 1..8 : j = 1 \/ j = 2 \/ j = 3 \/ j = 4 \/ j = 5 \/ j = 6 \/ j = 7 \/ j = 8
  OBVIOUS
<1>5. \A j, k \in 1..8 : a[j] = a[k] => j = k
  BY <1>1
<1>6. ASSUME NEW j \in 1..8, NEW t \in References[a[j]]
      PROVE  \E k \in 1..8 : k < j /\ t = a[k]
  <2>1. CASE j \in {1, 2, 3}
    BY <1>1, <1>3, <1>6, <2>1
  <2>2. CASE j = 4
    BY <1>1, <1>3, <1>6, <2>2
  <2>3. CASE j = 5
    BY <1>1, <1>3, <1>6, <2>3
  <2>4. CASE j \in {6, 7, 8}
    BY <1>1, <1>3, <1>6, <2>4
  <2> QED
    BY <1>4, <2>1, <2>2, <2>3, <2>4
<1>7. \A j, k \in 1..8 : b[j] = b[k] => j = k
  BY <1>2
<1>8. ASSUME NEW j \in 1..8, NEW k \in 1..8, b[j] \in References[b[k]]
      PROVE  k < j
  <2>1. CASE k \in {6, 7, 8}
    BY <1>2, <1>3, <1>8, <2>1
  <2>2. CASE k = 5
    BY <1>2, <1>3, <1>4, <1>8, <2>2
  <2>3. CASE k = 4
    BY <1>2, <1>3, <1>4, <1>8, <2>3
  <2>4. CASE k \in {1, 2, 3}
    BY <1>2, <1>3, <1>4, <1>8, <2>4
  <2> QED
    BY <1>4, <2>1, <2>2, <2>3, <2>4
<1>9. {a[k] : k \in 1..8} = Tables
  <2>1. \A t \in Tables : \E k \in 1..8 : t = a[k]
    BY <1>1, TablesAre
  <2>2. \A k \in 1..8 : a[k] \in Tables
    BY Orders DEF a
  <2> QED
    BY <2>1, <2>2
<1>10. {b[k] : k \in 1..8} = Tables
  <2>1. \A t \in Tables : \E k \in 1..8 : t = b[k]
    BY <1>2, TablesAre
  <2>2. \A k \in 1..8 : b[k] \in Tables
    BY Orders DEF b
  <2> QED
    BY <2>1, <2>2
<1> QED
  BY <1>5, <1>6, <1>7, <1>8, <1>9, <1>10 DEF a, b

(* Every statement up applies where it stands, and leads one place on.     *)
LEMMA UpStep ==
    ASSUME NEW j \in 0..11, NEW d, IsUp(d, j)
    PROVE  Applies(Ups[j + 1], d) /\ IsUp(Executed(Ups[j + 1], d), j + 1)
<1> DEFINE s == Ups[j + 1]
           e == Executed(s, d)
<1>1. /\ d \in Schemas
      /\ d.tables = {UpOrder[k] : k \in {i \in 1..8 : i <= j}}
      /\ d.trigger <=> j >= 9
      /\ d.score_nullable <=> j >= 11
      /\ d.revision = IF j < 10 THEN "none" ELSE IF j < 12 THEN "0001" ELSE "0002"
      /\ ~d.unscored
  BY DEF IsUp
<1>2. CASE j \in 0..7
  <2> DEFINE t == UpOrder[j + 1]
             ts == d.tables \cup {t}
  <2>1. s = MakeTable(t) /\ t \in Tables
    BY <1>2, TheUpgrades, Orders DEF UpsAre
  <2>2. t \notin d.tables /\ References[t] \subseteq d.tables
    <3>1. j + 1 \in 1..8
      BY <1>2
    <3>2. \A k \in 1..8 : UpOrder[k] = t => k = j + 1
      BY <3>1, OrdersFit
    <3>3. \A u \in References[t] : \E k \in 1..8 : k < j + 1 /\ u = UpOrder[k]
      BY <3>1, OrdersFit
    <3> HIDE DEF t
    <3> QED
      BY <1>1, <1>2, <3>2, <3>3
  <2>3. ts = {UpOrder[k] : k \in {i \in 1..8 : i <= j + 1}}
    <3>1. {i \in 1..8 : i <= j + 1} = {i \in 1..8 : i <= j} \cup {j + 1}
      BY <1>2
    <3> QED
      BY <1>1, <3>1
  <2> HIDE DEF t, s
  <2>4. Applies(s, d) /\ IsSchema(e, ts, d.trigger, d.score_nullable, d.revision, d.unscored)
    BY <1>1, <2>1, <2>2, RunMakeTable, Zenon
  <2> HIDE DEF ts, e
  <2>5. IsUp(e, j + 1)
    BY <1>1, <1>2, <2>3, <2>4 DEF IsUp, IsSchema
  <2> QED
    BY <2>4, <2>5, Zenon DEF s, e
<1>3. ASSUME j \in 8..11
      PROVE  /\ d.tables = Tables
             /\ Tables = {UpOrder[k] : k \in {i \in 1..8 : i <= j + 1}}
             /\ "audit_log" \in d.tables /\ "cases" \in d.tables
  <2>1. {i \in 1..8 : i <= j} = 1..8 /\ {i \in 1..8 : i <= j + 1} = 1..8
    BY <1>3
  <2> QED
    BY <1>1, <2>1, OrdersFit, TablesAre
<1>4. CASE j = 8
  <2>1. s = MakeTrigger
    BY <1>4, TheUpgrades DEF UpsAre
  <2>2. j \in 8..11 /\ ~d.trigger
    BY <1>1, <1>4
  <2> HIDE DEF s
  <2>3. Applies(s, d) /\ IsSchema(e, d.tables, TRUE, d.score_nullable, d.revision, d.unscored)
    BY <1>1, <1>3, <1>4, <2>1, <2>2, RunTrigger, Zenon
  <2> HIDE DEF e
  <2>4. IsUp(e, j + 1)
    BY <1>1, <1>3, <1>4, <2>2, <2>3 DEF IsUp, IsSchema
  <2> QED
    BY <2>3, <2>4, Zenon DEF s, e
<1>5. CASE j = 9
  <2>1. s = Stamp1
    BY <1>5, TheUpgrades DEF UpsAre
  <2>2. j \in 8..11
    BY <1>5
  <2> HIDE DEF s
  <2>3. Applies(s, d) /\ IsSchema(e, d.tables, d.trigger, d.score_nullable, "0001", d.unscored)
    BY <1>1, <1>3, <1>5, <2>1, <2>2, RunStamp, Zenon
  <2> HIDE DEF e
  <2>4. IsUp(e, j + 1)
    BY <1>1, <1>3, <1>5, <2>2, <2>3 DEF IsUp, IsSchema
  <2> QED
    BY <2>3, <2>4, Zenon DEF s, e
<1>6. CASE j = 10
  <2>1. s = LetNull
    BY <1>6, TheUpgrades DEF UpsAre
  <2>2. j \in 8..11
    BY <1>6
  <2> HIDE DEF s
  <2>3. Applies(s, d) /\ IsSchema(e, d.tables, d.trigger, TRUE, d.revision, d.unscored)
    BY <1>1, <1>3, <1>6, <2>1, <2>2, RunNullable, Zenon
  <2> HIDE DEF e
  <2>4. IsUp(e, j + 1)
    BY <1>1, <1>3, <1>6, <2>2, <2>3 DEF IsUp, IsSchema
  <2> QED
    BY <2>3, <2>4, Zenon DEF s, e
<1>7. CASE j = 11
  <2>1. s = Stamp2
    BY <1>7, TheUpgrades DEF UpsAre
  <2>2. j \in 8..11
    BY <1>7
  <2> HIDE DEF s
  <2>3. Applies(s, d) /\ IsSchema(e, d.tables, d.trigger, d.score_nullable, "0002", d.unscored)
    BY <1>1, <1>3, <1>7, <2>1, <2>2, RunStamp, Zenon
  <2> HIDE DEF e
  <2>4. IsUp(e, j + 1)
    BY <1>1, <1>3, <1>7, <2>2, <2>3 DEF IsUp, IsSchema
  <2> QED
    BY <2>3, <2>4, Zenon DEF s, e
<1> QED
  BY <1>2, <1>4, <1>5, <1>6, <1>7

(* Every statement down applies where it stands, but for the one that      *)
(* makes the score of unscored cases mandatory, and leads one place on.    *)
LEMMA DownStep ==
    ASSUME NEW j \in 0..11, NEW d, IsDown(d, j)
    PROVE  /\ Applies(Downs[j + 1], d) <=> ~d.unscored
           /\ Applies(Downs[j + 1], d) => IsDown(Executed(Downs[j + 1], d), j + 1)
<1> DEFINE s == Downs[j + 1]
           e == Executed(s, d)
<1>1. /\ d \in Schemas
      /\ d.tables = {DownOrder[k] : k \in {i \in 1..8 : i > j - 3}}
      /\ d.trigger <=> j < 3
      /\ d.score_nullable <=> j = 0
      /\ d.revision = IF j < 2 THEN "0002" ELSE IF j < 12 THEN "0001" ELSE "none"
      /\ d.unscored => j = 0
  BY DEF IsDown
<1>2. ASSUME j \in 0..2
      PROVE  /\ d.tables = Tables
             /\ Tables = {DownOrder[k] : k \in {i \in 1..8 : i > (j + 1) - 3}}
             /\ "audit_log" \in d.tables /\ "cases" \in d.tables
  <2>1. {i \in 1..8 : i > j - 3} = 1..8 /\ {i \in 1..8 : i > (j + 1) - 3} = 1..8
    BY <1>2
  <2> QED
    BY <1>1, <2>1, OrdersFit, TablesAre
<1>3. CASE j = 0
  <2>1. s = ForbidNull
    BY <1>3, TheDowngrades DEF DownsAre
  <2>2. j \in 0..2
    BY <1>3
  <2> HIDE DEF s
  <2>3. /\ Applies(s, d) <=> ~d.unscored
        /\ IsSchema(e, d.tables, d.trigger, FALSE, d.revision, d.unscored)
    BY <1>1, <1>2, <2>1, <2>2, RunNullable, Zenon
  <2> HIDE DEF e
  <2>4. ~d.unscored => IsDown(e, j + 1)
    BY <1>1, <1>2, <1>3, <2>2, <2>3 DEF IsDown, IsSchema
  <2> QED
    BY <2>3, <2>4, Zenon DEF s, e
<1>4. CASE j = 1
  <2>1. s = Stamp1
    BY <1>4, TheDowngrades DEF DownsAre
  <2>2. j \in 0..2 /\ ~d.unscored
    BY <1>1, <1>4
  <2> HIDE DEF s
  <2>3. Applies(s, d) /\ IsSchema(e, d.tables, d.trigger, d.score_nullable, "0001", d.unscored)
    BY <1>1, <2>1, RunStamp, Zenon
  <2> HIDE DEF e
  <2>4. IsDown(e, j + 1)
    BY <1>1, <1>2, <1>4, <2>2, <2>3 DEF IsDown, IsSchema
  <2> QED
    BY <2>2, <2>3, <2>4, Zenon DEF s, e
<1>5. CASE j = 2
  <2>1. s = DropTrigger
    BY <1>5, TheDowngrades DEF DownsAre
  <2>2. j \in 0..2 /\ ~d.unscored
    BY <1>1, <1>5
  <2> HIDE DEF s
  <2>3. Applies(s, d) /\ IsSchema(e, d.tables, FALSE, d.score_nullable, d.revision, d.unscored)
    BY <1>1, <1>2, <2>1, <2>2, RunTrigger, Zenon
  <2> HIDE DEF e
  <2>4. IsDown(e, j + 1)
    BY <1>1, <1>2, <1>5, <2>2, <2>3 DEF IsDown, IsSchema
  <2> QED
    BY <2>2, <2>3, <2>4, Zenon DEF s, e
<1>6. CASE j \in 3..10
  <2> DEFINE t == DownOrder[j - 2]
             ts == d.tables \ {t}
  <2>1. j - 2 \in 1..8 /\ j + 1 \in 4..11 /\ (j + 1) - 3 = j - 2
    BY <1>6
  <2>2. s = DropTable(t) /\ t \in Tables
    <3>1. Downs[j + 1] = DropTable(DownOrder[(j + 1) - 3])
      BY <2>1, TheDowngrades DEF DownsAre
    <3> QED
      BY <2>1, <3>1, Orders
  <2>3. \A k \in 1..8 : DownOrder[k] = t => k = j - 2
    BY <2>1, OrdersFit
  <2>4. t \in d.tables /\ \A u \in d.tables : t \notin References[u]
    <3>1. \A k \in 1..8 : t \in References[DownOrder[k]] => k < j - 2
      BY <2>1, OrdersFit
    <3>2. j - 2 \in {i \in 1..8 : i > j - 3}
      BY <2>1
    <3>3. t \in d.tables
      BY <1>1, <3>2
    <3> HIDE DEF t
    <3>4. \A u \in d.tables : t \notin References[u]
      BY <1>1, <1>6, <3>1
    <3> QED
      BY <3>3, <3>4
  <2>5. ts = {DownOrder[k] : k \in {i \in 1..8 : i > (j + 1) - 3}}
    <3>1. {i \in 1..8 : i > (j + 1) - 3} = {i \in 1..8 : i > j - 3} \ {j - 2}
      BY <1>6
    <3>2. t = DownOrder[j - 2]
      OBVIOUS
    <3> HIDE DEF t
    <3> QED
      BY <1>1, <2>3, <3>1, <3>2
  <2>6. ~d.unscored /\ d.score_nullable = FALSE
    BY <1>1, <1>6 DEF Schemas
  <2> HIDE DEF t, s
  <2>7. Applies(s, d) /\ IsSchema(e, ts, d.trigger, FALSE, d.revision, FALSE)
    <3>1. d.unscored = FALSE
      BY <1>1, <2>6 DEF Schemas
    <3>2. CASE t = "cases"
      BY <1>1, <2>2, <2>4, <3>2, RunDropTable, Zenon
    <3>3. CASE t # "cases"
      <4>1. IsSchema(e, ts, d.trigger, d.score_nullable, d.revision, d.unscored)
        BY <1>1, <2>2, <3>3, RunDropTable, Zenon
      <4>2. Applies(s, d)
        BY <1>1, <2>2, <2>4, RunDropTable, Zenon
      <4> QED
        BY <2>6, <3>1, <4>1, <4>2, Zenon
    <3> QED
      BY <3>2, <3>3
  <2> HIDE DEF ts, e
  <2>8. IsDown(e, j + 1)
    BY <1>1, <1>6, <2>5, <2>7 DEF IsDown, IsSchema
  <2> QED
    BY <2>6, <2>7, <2>8, Zenon DEF s, e
<1>7. CASE j = 11
  <2>1. s = StampNone
    BY <1>7, TheDowngrades DEF DownsAre
  <2>2. ~d.unscored
    BY <1>1, <1>7
  <2>3. {i \in 1..8 : i > j - 3} = {} /\ {i \in 1..8 : i > (j + 1) - 3} = {}
    BY <1>7
  <2> HIDE DEF s
  <2>4. Applies(s, d) /\ IsSchema(e, d.tables, d.trigger, d.score_nullable, "none", d.unscored)
    BY <1>1, <2>1, RunStamp, Zenon
  <2> HIDE DEF e
  <2>5. IsDown(e, j + 1)
    BY <1>1, <1>7, <2>2, <2>3, <2>4 DEF IsDown, IsSchema
  <2> QED
    BY <2>2, <2>4, <2>5, Zenon DEF s, e
<1>8. j = 0 \/ j = 1 \/ j = 2 \/ j \in 3..10 \/ j = 11
  OBVIOUS
<1> QED
  BY <1>3, <1>4, <1>5, <1>6, <1>7, <1>8

(* Where the two lists meet: a revision is a place of both. *)
LEMMA Meetings ==
    ASSUME NEW d
    PROVE  /\ IsUp(d, 0) <=> IsDown(d, 12)
           /\ IsUp(d, 10) <=> IsDown(d, 2)
           /\ IsUp(d, 12) <=> IsDown(d, 0)
<1>1. /\ {i \in 1..8 : i <= 0} = {} /\ {i \in 1..8 : i > 12 - 3} = {}
      /\ {i \in 1..8 : i <= 10} = 1..8 /\ {i \in 1..8 : i > 2 - 3} = 1..8
      /\ {i \in 1..8 : i <= 12} = 1..8 /\ {i \in 1..8 : i > 0 - 3} = 1..8
  OBVIOUS
<1>2. IsUp(d, 0) <=> IsDown(d, 12)
  BY <1>1 DEF IsUp, IsDown
<1>3. IsUp(d, 10) <=> IsDown(d, 2)
  <2> DEFINE u == {UpOrder[k] : k \in {i \in 1..8 : i <= 10}}
             v == {DownOrder[k] : k \in {i \in 1..8 : i > 2 - 3}}
  <2>1. u = Tables /\ v = Tables
    BY <1>1, OrdersFit
  <2>2. IsUp(d, 10) => IsDown(d, 2)
    <3>1. IsUp(d, 10) => d \in Schemas /\ d.tables = u /\ d.trigger
                           /\ ~d.score_nullable /\ d.revision = "0001"
                           /\ ~d.unscored
      BY DEF IsUp
    <3>2. d \in Schemas /\ d.tables = v /\ d.trigger /\ ~d.score_nullable
            /\ d.revision = "0001" /\ ~d.unscored => IsDown(d, 2)
      BY DEF IsDown
    <3> QED
      BY <2>1, <3>1, <3>2, Zenon
  <2>3. IsDown(d, 2) => IsUp(d, 10)
    <3>1. IsDown(d, 2) => d \in Schemas /\ d.tables = v /\ d.trigger
                            /\ ~d.score_nullable /\ d.revision = "0001"
                            /\ ~d.unscored
      BY DEF IsDown
    <3>2. d \in Schemas /\ d.tables = u /\ d.trigger /\ ~d.score_nullable
            /\ d.revision = "0001" /\ ~d.unscored => IsUp(d, 10)
      BY DEF IsUp
    <3> QED
      BY <2>1, <3>1, <3>2, Zenon
  <2> QED
    BY <2>2, <2>3
<1>4. IsUp(d, 12) <=> IsDown(d, 0)
  BY <1>1, OrdersFit DEF IsUp, IsDown
<1> QED
  BY <1>2, <1>3, <1>4

(* The stretches a migration runs. *)
LEMMA UpStretch ==
    ASSUME NEW j \in 0..12
    PROVE  /\ SubSeq(Ups, j + 1, 12) = <<>> <=> j = 12
           /\ j # 12 => /\ Head(SubSeq(Ups, j + 1, 12)) = Ups[j + 1]
                        /\ Tail(SubSeq(Ups, j + 1, 12)) = SubSeq(Ups, (j + 1) + 1, 12)
<1> DEFINE e == 12
<1>1. Ups \in Seq(Statements) /\ e \in 1..Len(Ups) /\ j \in 0..e
  BY TheUpgrades DEF UpsAre
<1> HIDE DEF e
<1>2. /\ SubSeq(Ups, j + 1, e) = <<>> <=> j = e
      /\ j # e => /\ Head(SubSeq(Ups, j + 1, e)) = Ups[j + 1]
                  /\ Tail(SubSeq(Ups, j + 1, e)) = SubSeq(Ups, (j + 1) + 1, e)
  BY <1>1, Stretches, Zenon
<1> QED
  BY <1>2, Zenon DEF e

LEMMA DownStretch ==
    ASSUME NEW e \in {2, 12}, NEW j \in 0..e
    PROVE  /\ SubSeq(Downs, j + 1, e) = <<>> <=> j = e
           /\ j # e => /\ Head(SubSeq(Downs, j + 1, e)) = Downs[j + 1]
                       /\ Tail(SubSeq(Downs, j + 1, e)) = SubSeq(Downs, (j + 1) + 1, e)
<1>1. Downs \in Seq(Statements) /\ e \in 1..Len(Downs)
  BY TheDowngrades DEF DownsAre
<1> QED
  BY <1>1, Stretches, Zenon

(* What each revision's script starts from and leads through. *)
LEMMA Scripts ==
    ASSUME NEW d, AtRevision(d)
    PROVE  /\ \E j \in 0..12 :
                ToHead(d.revision) = SubSeq(Ups, j + 1, 12) /\ IsUp(d, j)
           /\ \E e \in {2, 12} : \E j \in 0..e :
                ToBase(d.revision) = SubSeq(Downs, j + 1, e) /\ IsDown(d, j)
           /\ \E e \in {2, 12} : \E j \in 0..e :
                OneDown(d.revision) = SubSeq(Downs, j + 1, e) /\ IsDown(d, j)
<1>1. /\ Ups \in Seq(Statements) /\ Len(Ups) = 12
      /\ SubSeq(Ups, 0 + 1, 12) = Ups
      /\ SubSeq(Ups, 10 + 1, 12) = Upgrade0002
      /\ SubSeq(Ups, 12 + 1, 12) = <<>>
  <2>1. 0 + 1 = 1 /\ 10 + 1 = 11 /\ 12 \in 1..12 /\ 12 \in 0..12
    OBVIOUS
  <2>3. SubSeq(Ups, 12 + 1, 12) = <<>>
    BY <2>1, UpStretch, Zenon
  <2> QED
    BY <2>1, <2>3, TheUpgrades DEF UpsAre
<1>2. /\ Downs \in Seq(Statements) /\ Len(Downs) = 12
      /\ SubSeq(Downs, 0 + 1, 12) = Downs
      /\ SubSeq(Downs, 2 + 1, 12) = Downgrade0001
      /\ SubSeq(Downs, 0 + 1, 2) = Downgrade0002
      /\ SubSeq(Downs, 12 + 1, 12) = <<>>
  <2>1. 0 + 1 = 1 /\ 2 + 1 = 3 /\ 12 \in 1..12 /\ 12 \in 0..12
    OBVIOUS
  <2>2. 12 \in {2, 12}
    OBVIOUS
  <2>3. SubSeq(Downs, 12 + 1, 12) = <<>>
    BY <2>1, <2>2, DownStretch, Zenon
  <2> QED
    BY <2>1, <2>3, TheDowngrades DEF DownsAre
<1>3. 0 \in 0..12 /\ 10 \in 0..12 /\ 12 \in 0..12 /\ 2 \in 0..12 /\ 0 \in 0..2
  OBVIOUS
<1>4. CASE IsUp(d, 0)
  <2>1. d.revision = "none"
    BY <1>4 DEF IsUp
  <2>2. ToHead(d.revision) = Ups /\ ToBase(d.revision) = <<>> /\ OneDown(d.revision) = <<>>
    BY <2>1, Zenon DEF ToHead, ToBase, OneDown, Ups
  <2>3. IsDown(d, 12)
    BY <1>4, Meetings
  <2> QED
    BY <1>1, <1>2, <1>3, <1>4, <2>2, <2>3, Zenon
<1>5. CASE IsUp(d, 10)
  <2>1. d.revision = "0001"
    BY <1>5 DEF IsUp
  <2>2. ToHead(d.revision) = Upgrade0002 /\ ToBase(d.revision) = Downgrade0001
        /\ OneDown(d.revision) = Downgrade0001
    BY <2>1, Zenon DEF ToHead, ToBase, OneDown
  <2>3. IsDown(d, 2)
    BY <1>5, Meetings
  <2> QED
    BY <1>1, <1>2, <1>3, <1>5, <2>2, <2>3, Zenon
<1>6. CASE IsUp(d, 12)
  <2>1. d.revision = "0002"
    BY <1>6 DEF IsUp
  <2>2. ToHead(d.revision) = <<>> /\ ToBase(d.revision) = Downs
        /\ OneDown(d.revision) = Downgrade0002
    BY <2>1, Zenon DEF ToHead, ToBase, OneDown, Downs
  <2>3. IsDown(d, 0)
    BY <1>6, Meetings
  <2> QED
    BY <1>1, <1>2, <1>3, <1>6, <2>2, <2>3, Zenon
<1> QED
  BY <1>4, <1>5, <1>6 DEF AtRevision

LEMMA DeploymentStarts == DInit => WholeInv
<1> SUFFICES ASSUME DInit PROVE WholeInv
  OBVIOUS
<1>1. Blank \in Schemas /\ Blank.tables = {} /\ Blank.trigger = FALSE
      /\ Blank.score_nullable = FALSE /\ Blank.revision = "none"
      /\ Blank.unscored = FALSE
  BY DEF Blank, Schemas
<1>2. {i \in 1..8 : i <= 0} = {}
  OBVIOUS
<1>3. IsUp(Blank, 0)
  BY <1>1, <1>2 DEF IsUp
<1> QED
  BY <1>3 DEF DInit, WholeInv, AtRevision

(* A statement moves the migration one place on, or is refused.            *)
LEMMA ExecuteMoves ==
    ASSUME Upgrading \/ Downgrading, Execute
    PROVE  /\ UNCHANGED <<db, command>>
           /\ \/ pc' = "migrating" /\ (Upgrading \/ Downgrading)'
              \/ /\ pc' = "failed" /\ db.unscored
                 /\ command \in {"downgrade one", "downgrade base"}
<1>1. /\ pc = "migrating" /\ todo # <<>> /\ db' = db
      /\ command' = command
  BY Zenon DEF Execute
<1>2. Applies(Head(todo), work) =>
        pc' = "migrating" /\ work' = Executed(Head(todo), work) /\ todo' = Tail(todo)
  BY <1>1, Zenon DEF Execute
<1>3. ~Applies(Head(todo), work) => pc' = "failed"
  BY Zenon DEF Execute
<1>4. CASE Upgrading
  <2>1. command = "start"
    BY <1>4 DEF Upgrading
  <2>2. PICK j \in 0..12 : todo = SubSeq(Ups, j + 1, 12) /\ IsUp(work, j)
    BY <1>4, Zenon DEF Upgrading
  <2>4. j # 12 /\ Head(todo) = Ups[j + 1]
        /\ Tail(todo) = SubSeq(Ups, (j + 1) + 1, 12)
    BY <1>1, <2>2, UpStretch, Zenon
  <2>5. j \in 0..11 /\ j + 1 \in 0..12
    BY <2>4
  <2>6. Applies(Head(todo), work) /\ IsUp(Executed(Head(todo), work), j + 1)
    BY <2>2, <2>4, <2>5, UpStep, Zenon
  <2>7. todo' = SubSeq(Ups, (j + 1) + 1, 12) /\ IsUp(work', j + 1)
    BY <1>2, <2>4, <2>6, Zenon
  <2>8. Upgrading'
    <3> DEFINE k == j + 1
    <3>1. k \in 0..12 /\ todo' = SubSeq(Ups, k + 1, 12) /\ IsUp(work', k)
      BY <2>5, <2>7
    <3> HIDE DEF k
    <3> QED
      BY <1>1, <2>1, <3>1, Zenon DEF Upgrading
  <2> QED
    BY <1>1, <1>2, <2>6, <2>8, Zenon
<1>5. CASE Downgrading
  <2>1. command \in {"downgrade one", "downgrade base"}
    BY <1>5 DEF Downgrading
  <2>2. PICK e \in {2, 12} : \E j \in 0..e :
           /\ todo = SubSeq(Downs, j + 1, e)
           /\ IsDown(work, j)
           /\ work.unscored => db.unscored
    BY <1>5, Zenon DEF Downgrading
  <2>3. PICK j \in 0..e : /\ todo = SubSeq(Downs, j + 1, e)
                          /\ IsDown(work, j)
                          /\ work.unscored => db.unscored
    BY <2>2
  <2>5. j # e /\ Head(todo) = Downs[j + 1]
        /\ Tail(todo) = SubSeq(Downs, (j + 1) + 1, e)
    BY <1>1, <2>3, DownStretch, Zenon
  <2>6. j \in 0..11 /\ j + 1 \in 0..e
    BY <2>5
  <2>7. /\ Applies(Head(todo), work) <=> ~work.unscored
        /\ Applies(Head(todo), work) => IsDown(Executed(Head(todo), work), j + 1)
    BY <2>3, <2>5, <2>6, DownStep, Zenon
  <2>8. CASE ~work.unscored
    <3>1. /\ todo' = SubSeq(Downs, (j + 1) + 1, e) /\ IsDown(work', j + 1)
          /\ pc' = "migrating"
      BY <1>2, <2>5, <2>7, <2>8, Zenon
    <3> DEFINE k == j + 1
    <3>2. k \in 0..e /\ todo' = SubSeq(Downs, k + 1, e) /\ IsDown(work', k)
      BY <2>6, <3>1
    <3>3. work'.unscored => FALSE
      BY <3>1 DEF IsDown
    <3> HIDE DEF k
    <3>4. Downgrading'
      BY <1>1, <2>1, <3>2, <3>3, Zenon DEF Downgrading
    <3> QED
      BY <1>1, <3>1, <3>4, Zenon
  <2>9. CASE work.unscored
    <3>1. pc' = "failed" /\ db.unscored
      BY <1>3, <2>3, <2>7, <2>9, Zenon
    <3> QED
      BY <1>1, <2>1, <3>1, Zenon
  <2> QED
    BY <2>8, <2>9
<1> QED
  BY <1>4, <1>5

(* A migration that is through is at a revision. *)
LEMMA CommitLands ==
    ASSUME Upgrading \/ Downgrading, CommitMigration
    PROVE  \/ pc' = "seeding" /\ IsUp(db', 12)
           \/ pc' = "idle" /\ AtRevision(db')
<1>1. /\ pc = "migrating" /\ todo = <<>> /\ db' = work
      /\ command' = command /\ todo' = todo
  BY Zenon DEF CommitMigration
<1>2. pc' = IF command = "start" THEN "seeding" ELSE "idle"
  BY Zenon DEF CommitMigration
<1>3. CASE Upgrading
  <2>1. command = "start"
    BY <1>3 DEF Upgrading
  <2>2. PICK j \in 0..12 : todo = SubSeq(Ups, j + 1, 12) /\ IsUp(work, j)
    BY <1>3, Zenon DEF Upgrading
  <2>4. j = 12
    BY <1>1, <2>2, UpStretch, Zenon
  <2>5. IsUp(db', 12) /\ pc' = "seeding"
    BY <1>1, <1>2, <2>1, <2>2, <2>4, Zenon
  <2> QED
    BY <2>5, Zenon
<1>4. CASE Downgrading
  <2>1. pc' = "idle"
    BY <1>2, <1>4 DEF Downgrading
  <2>2. PICK e \in {2, 12} : \E j \in 0..e :
           todo = SubSeq(Downs, j + 1, e) /\ IsDown(work, j)
    BY <1>4, Zenon DEF Downgrading
  <2>3. PICK j \in 0..e : todo = SubSeq(Downs, j + 1, e) /\ IsDown(work, j)
    BY <2>2
  <2>5. j = e
    BY <1>1, <2>3, DownStretch, Zenon
  <2>6. IsDown(work, 2) \/ IsDown(work, 12)
    BY <2>3, <2>5
  <2>7. AtRevision(db')
    BY <1>1, <2>6, Meetings, Zenon DEF AtRevision
  <2> QED
    BY <2>1, <2>7, Zenon
<1> QED
  BY <1>3, <1>4

(* At the head create_all finds every table there. *)
LEMMA CreateAllAtHead ==
    ASSUME IsUp(db, 12), CreateAll
    PROVE  db' = db
<1>1. IsUp(db, 12)
  OBVIOUS
<1>2. db' = [db EXCEPT !.tables = Tables,
                       !.score_nullable = @ \/ "cases" \notin db.tables]
  BY Zenon DEF CreateAll
<1>3. db \in Schemas /\ db.tables = Tables /\ db.score_nullable = TRUE
  <2>1. {i \in 1..8 : i <= 12} = 1..8
    OBVIOUS
  <2> QED
    BY <1>1, <2>1, OrdersFit DEF IsUp, Schemas
<1>4. (db.score_nullable \/ "cases" \notin db.tables) = TRUE
  BY <1>3
<1>5. db' = [db EXCEPT !.tables = Tables, !.score_nullable = TRUE]
  BY <1>2, <1>4, Zenon
<1> QED
  BY <1>3, <1>5 DEF Schemas

(* There, too, the demo cases may go without a score. *)
LEMMA SeedAtHead ==
    ASSUME IsUp(db, 12), Seed
    PROVE  IsUp(db', 12) /\ pc' = "idle"
<1>1. IsUp(db, 12)
  OBVIOUS
<1>2. db \in Schemas /\ db.score_nullable
  BY <1>1 DEF IsUp
<1>3. /\ db' = [db EXCEPT !.unscored = TRUE]
      /\ pc' = "idle"
  BY <1>2 DEF Seed
<1>4. IsUp(db', 12)
  <2> DEFINE e == [db EXCEPT !.unscored = TRUE]
  <2>1. IsSchema(e, db.tables, db.trigger, db.score_nullable, db.revision, TRUE)
    BY <1>2 DEF IsSchema, Schemas
  <2> HIDE DEF e
  <2>2. IsUp(e, 12)
    BY <1>1, <2>1 DEF IsUp, IsSchema
  <2> QED
    BY <1>3, <2>2 DEF e
<1> QED
  BY <1>3, <1>4

-----------------------------------------------------------------------------
(* A migration begins at a place of its list. *)
LEMMA StartUpBegins ==
    ASSUME AtRevision(db), StartUp
    PROVE  pc' = "migrating" /\ db' = db /\ Upgrading'
<1>1. /\ pc' = "migrating" /\ command' = "start" /\ db' = db /\ work' = db
      /\ todo' = ToHead(db.revision)
  BY Zenon DEF StartUp, Begin
<1>2. PICK j \in 0..12 : ToHead(db.revision) = SubSeq(Ups, j + 1, 12) /\ IsUp(db, j)
  BY Scripts
<1>3. Upgrading'
  BY <1>1, <1>2, Zenon DEF Upgrading
<1> QED
  BY <1>1, <1>3, Zenon

LEMMA DowngradeBegins ==
    ASSUME AtRevision(db),
           \/ Begin("downgrade base", ToBase(db.revision))
           \/ Begin("downgrade one", OneDown(db.revision))
    PROVE  pc' = "migrating" /\ db' = db /\ Downgrading'
<1>1. CASE Begin("downgrade base", ToBase(db.revision))
  <2>1. /\ pc' = "migrating" /\ command' = "downgrade base" /\ db' = db
        /\ work' = db /\ todo' = ToBase(db.revision)
    BY <1>1, Zenon DEF Begin
  <2>2. PICK e \in {2, 12} : \E j \in 0..e :
           ToBase(db.revision) = SubSeq(Downs, j + 1, e) /\ IsDown(db, j)
    BY Scripts
  <2>3. Downgrading'
    BY <2>1, <2>2, Zenon DEF Downgrading
  <2> QED
    BY <2>1, <2>3, Zenon
<1>2. CASE Begin("downgrade one", OneDown(db.revision))
  <2>1. /\ pc' = "migrating" /\ command' = "downgrade one" /\ db' = db
        /\ work' = db /\ todo' = OneDown(db.revision)
    BY <1>2, Zenon DEF Begin
  <2>2. PICK e \in {2, 12} : \E j \in 0..e :
           OneDown(db.revision) = SubSeq(Downs, j + 1, e) /\ IsDown(db, j)
    BY Scripts
  <2>3. Downgrading'
    BY <2>1, <2>2, Zenon DEF Downgrading
  <2> QED
    BY <2>1, <2>3, Zenon
<1> QED
  BY <1>1, <1>2

(* A store create_all made is not migrated any more. *)
LEMMA AstrayBegins ==
    ASSUME WasMade(db),
           \/ StartUp
           \/ Begin("downgrade base", ToBase(db.revision))
           \/ Begin("downgrade one", OneDown(db.revision))
    PROVE  pc' = "migrating" /\ db' = db /\ Astray'
<1>1. db.revision = "none"
  BY DEF WasMade, Unstamped
<1>2. /\ ToHead(db.revision) = Ups /\ ToBase(db.revision) = <<>>
      /\ OneDown(db.revision) = <<>>
  BY <1>1, Zenon DEF ToHead, ToBase, OneDown, Ups
<1>3. /\ pc' = "migrating" /\ db' = db /\ work' = db
      /\ \/ command' = "start" /\ todo' = Ups
         \/ command' \in {"downgrade one", "downgrade base"} /\ todo' = <<>>
  <2>1. CASE StartUp
    BY <1>2, <2>1, Zenon DEF StartUp, Begin
  <2>2. CASE Begin("downgrade base", ToBase(db.revision))
    BY <1>2, <2>2, Zenon DEF Begin
  <2>3. CASE Begin("downgrade one", OneDown(db.revision))
    BY <1>2, <2>3, Zenon DEF Begin
  <2> QED
    BY <2>1, <2>2, <2>3
<1> QED
  BY <1>3, Zenon DEF Astray

(* The first statement finds its table there. *)
LEMMA AstrayIsRefused ==
    ASSUME Astray, Execute
    PROVE  pc' = "failed" /\ UNCHANGED <<db, command>> /\ command = "start"
<1>1. todo # <<>> /\ todo = Ups /\ WasMade(work)
  BY Zenon DEF Astray, Execute
<1>2. Head(todo) = MakeTable(UpOrder[1]) /\ UpOrder[1] \in Tables
  BY <1>1, TheUpgrades, Orders DEF UpsAre
<1>3. work \in Schemas /\ UpOrder[1] \in work.tables
  BY <1>1, <1>2 DEF WasMade, Unstamped
<1>4. ~Applies(Head(todo), work)
  BY <1>2, <1>3, RunMakeTable, Zenon
<1>5. command = "start"
  BY <1>1, Zenon DEF Astray
<1> QED
  BY <1>4, <1>5, Zenon DEF Execute

(* create_all completes what is there, and the demo cases go where a score *)
(* may be missing.                                                         *)
LEMMA CreateAllIsWhole ==
    ASSUME AtRevision(db) \/ WasMade(db), CreateAll
    PROVE  AtRevision(db') \/ WasMade(db')
<1> DEFINE b == db.score_nullable \/ "cases" \notin db.tables
           e == [db EXCEPT !.tables = Tables, !.score_nullable = b]
<1>1. db' = e
  BY Zenon DEF CreateAll
<1>2. /\ {i \in 1..8 : i <= 0} = {}
      /\ {i \in 1..8 : i <= 10} = 1..8
      /\ {i \in 1..8 : i <= 12} = 1..8
  OBVIOUS
<1>3. "cases" \in Tables
  BY TablesAre
<1>4. db \in Schemas /\ b \in BOOLEAN
  BY DEF AtRevision, IsUp, WasMade, Unstamped
<1>5. IsSchema(e, Tables, db.trigger, b, db.revision, db.unscored)
  <2> HIDE DEF b
  <2> QED
    BY <1>4 DEF IsSchema, Schemas
<1> HIDE DEF e
<1>6. CASE IsUp(db, 0)
  <2>1. db.tables = {} /\ ~db.trigger /\ db.revision = "none"
    BY <1>2, <1>6 DEF IsUp
  <2>2. b
    BY <2>1
  <2> HIDE DEF b
  <2>3. WasMade(e)
    BY <1>5, <2>1, <2>2 DEF IsSchema, WasMade, Unstamped
  <2> QED
    BY <1>1, <2>3
<1>7. CASE IsUp(db, 10)
  <2>1. db.tables = Tables /\ ~db.score_nullable
    BY <1>2, <1>7, OrdersFit DEF IsUp
  <2>2. ~b
    BY <1>3, <2>1
  <2> HIDE DEF b
  <2>3. IsUp(e, 10)
    BY <1>5, <1>7, <2>1, <2>2 DEF IsSchema, IsUp
  <2> QED
    BY <1>1, <2>3 DEF AtRevision
<1>8. CASE IsUp(db, 12)
  <2>1. db.tables = Tables /\ db.score_nullable
    BY <1>2, <1>8, OrdersFit DEF IsUp
  <2>2. b
    BY <2>1
  <2> HIDE DEF b
  <2>3. IsUp(e, 12)
    BY <1>5, <1>8, <2>1, <2>2 DEF IsSchema, IsUp
  <2> QED
    BY <1>1, <2>3 DEF AtRevision
<1>9. CASE WasMade(db)
  <2>1. b
    BY <1>9 DEF WasMade, Unstamped
  <2> HIDE DEF b
  <2>2. WasMade(e)
    BY <1>5, <1>9, <2>1 DEF IsSchema, WasMade, Unstamped
  <2> QED
    BY <1>1, <2>2
<1> QED
  BY <1>6, <1>7, <1>8, <1>9 DEF AtRevision

LEMMA SeedIsWhole ==
    ASSUME AtRevision(db) \/ WasMade(db), Seed
    PROVE  AtRevision(db') \/ WasMade(db')
<1>1. db \in Schemas
  BY DEF AtRevision, IsUp, WasMade, Unstamped
<1>2. CASE ~(db.unscored \/ db.score_nullable)
  <2>1. db' = db
    BY <1>2, Zenon DEF Seed
  <2> QED
    BY <2>1, Zenon
<1>3. CASE db.unscored \/ db.score_nullable
  <2> DEFINE e == [db EXCEPT !.unscored = TRUE]
  <2>1. db' = e
    BY <1>3, Zenon DEF Seed
  <2>2. IsSchema(e, db.tables, db.trigger, db.score_nullable, db.revision, TRUE)
    BY <1>1 DEF IsSchema, Schemas
  <2> HIDE DEF e
  <2>3. IsUp(db, 12) \/ WasMade(db)
    BY <1>3 DEF AtRevision, IsUp
  <2>4. IsUp(db, 12) => IsUp(e, 12)
    BY <2>2 DEF IsUp, IsSchema
  <2>5. WasMade(db) => WasMade(e)
    BY <2>2 DEF WasMade, IsSchema, Unstamped
  <2> QED
    BY <2>1, <2>3, <2>4, <2>5, Zenon DEF AtRevision
<1> QED
  BY <1>2, <1>3

(* A seeding that is refused finds the score mandatory: it is at 0001.     *)
LEMMA SeedRefused ==
    ASSUME AtRevision(db) \/ WasMade(db), ~IsUp(db, 0), Seed, pc' = "failed"
    PROVE  db' = db /\ IsUp(db, 10)
<1>1. ~db.score_nullable /\ db' = db
  BY DEF Seed
<1> QED
  BY <1>1 DEF AtRevision, WasMade, Unstamped, IsUp

LEMMA CreateAllMakesTables ==
    ASSUME AtRevision(db) \/ WasMade(db), CreateAll
    PROVE  ~IsUp(db', 0)
<1>1. db'.tables = Tables
  <2>1. db \in Schemas
    BY DEF AtRevision, IsUp, WasMade
  <2> DEFINE b == db.score_nullable \/ "cases" \notin db.tables
  <2>2. db' = [db EXCEPT !.tables = Tables, !.score_nullable = b]
    BY Zenon DEF CreateAll
  <2> HIDE DEF b
  <2> QED
    BY <2>1, <2>2 DEF Schemas
<1>2. {i \in 1..8 : i <= 0} = {} /\ "cases" \in Tables
  BY TablesAre
<1> QED
  BY <1>1, <1>2 DEF IsUp

LEMMA WholeSteps ==
    ASSUME WholeInv, [DNext]_dvars
    PROVE  WholeInv'
<1>0. AtRevision(db) \/ WasMade(db)
  BY DEF WholeInv
<1>1. CASE UNCHANGED dvars
  BY <1>1, Zenon DEF dvars, WholeInv, Refused, AtRevision, WasMade, Unstamped,
                     Upgrading, Downgrading, Astray
<1>2. ASSUME \/ StartUp
             \/ Begin("downgrade base", ToBase(db.revision))
             \/ Begin("downgrade one", OneDown(db.revision))
      PROVE  WholeInv'
  <2>0. ~(api' /\ command' = "start")
    BY <1>2, Zenon DEF StartUp, Begin
  <2>1. CASE AtRevision(db)
    <3>1. /\ pc' = "migrating" /\ db' = db
          /\ (Upgrading \/ Downgrading)'
      BY <1>2, <2>1, StartUpBegins, DowngradeBegins, Zenon
    <3> QED
      BY <2>0, <2>1, <3>1, Zenon DEF WholeInv
  <2>2. CASE WasMade(db)
    <3>1. pc' = "migrating" /\ db' = db /\ Astray'
      BY <1>2, <2>2, AstrayBegins, Zenon
    <3> QED
      BY <2>0, <2>2, <3>1, Zenon DEF WholeInv
  <2> QED
    BY <1>0, <2>1, <2>2
<1>3. ASSUME Begin("seed", <<>>) PROVE WholeInv'
  <2>1. pc' = "seeding" /\ db' = db /\ command' = "seed"
    BY <1>3, Zenon DEF Begin
  <2> QED
    BY <1>0, <2>1, Zenon DEF WholeInv
<1>4. CASE Execute
  <2>1. /\ pc = "migrating" /\ api' = api /\ command' = command
        /\ ~(api /\ command = "start")
    BY <1>4, Zenon DEF Execute, WholeInv
  <2>2. CASE AtRevision(db) /\ (Upgrading \/ Downgrading)
    BY <1>4, <2>1, <2>2, ExecuteMoves, Zenon DEF WholeInv, Refused
  <2>3. CASE WasMade(db) /\ Astray
    BY <1>4, <2>1, <2>3, AstrayIsRefused, Zenon DEF WholeInv, Refused
  <2> QED
    BY <2>1, <2>2, <2>3, Zenon DEF WholeInv
<1>5. CASE CommitMigration
  <2>1. /\ pc = "migrating" /\ db' = work /\ todo = <<>>
        /\ pc' = IF command = "start" THEN "seeding" ELSE "idle"
        /\ api' = api /\ command' = command /\ ~(api /\ command = "start")
    BY <1>5, Zenon DEF CommitMigration, WholeInv
  <2>2. CASE AtRevision(db) /\ (Upgrading \/ Downgrading)
    BY <1>5, <2>1, <2>2, CommitLands, Zenon DEF WholeInv, AtRevision
  <2>3. CASE WasMade(db) /\ Astray
    <3>1. Ups # <<>>
      <4>1. Len(Ups) = 12 /\ Len(<<>>) = 0
        BY TheUpgrades DEF UpsAre
      <4> QED
        BY <4>1
    <3>2. command # "start" /\ WasMade(work)
      BY <2>1, <2>3, <3>1 DEF Astray
    <3> QED
      BY <2>1, <3>2, Zenon DEF WholeInv
  <2> QED
    BY <2>1, <2>2, <2>3, Zenon DEF WholeInv
<1>6. CASE CreateAll
  <2>1. /\ pc = "seeding" /\ pc' = "created" /\ command' = command
        /\ api' = api /\ ~(api /\ command = "start")
        /\ command \in {"start", "seed"}
    BY <1>6, Zenon DEF CreateAll, WholeInv
  <2>2. AtRevision(db') \/ WasMade(db')
    BY <1>0, <1>6, CreateAllIsWhole
  <2>3. command = "start" => IsUp(db', 12)
    BY <1>6, <2>1, CreateAllAtHead, Zenon DEF WholeInv
  <2>4. ~IsUp(db', 0)
    BY <1>0, <1>6, CreateAllMakesTables
  <2> QED
    BY <2>1, <2>2, <2>3, <2>4, Zenon DEF WholeInv
<1>7. CASE Seed
  <2>1. /\ pc = "created" /\ command' = command /\ pc' \in {"failed", "idle"}
        /\ command \in {"start", "seed"} /\ ~IsUp(db, 0)
    BY <1>7, Zenon DEF Seed, WholeInv
  <2>2. AtRevision(db') \/ WasMade(db')
    BY <1>0, <1>7, SeedIsWhole
  <2>3. command = "start" => IsUp(db', 12) /\ pc' = "idle"
    BY <1>7, <2>1, SeedAtHead, Zenon DEF WholeInv
  <2>4. pc' = "failed" => Refused'
    <3>1. pc' = "failed" => IsUp(db', 10)
      BY <1>0, <1>7, <2>1, SeedRefused, Zenon
    <3>2. pc' = "failed" => command' = "seed"
      BY <2>1, <2>3, Zenon
    <3> QED
      BY <3>1, <3>2, Zenon DEF Refused
  <2> QED
    BY <2>1, <2>2, <2>3, <2>4, Zenon DEF WholeInv
<1>8. CASE Crash
  <2>1. /\ db' = db /\ pc' = "idle" /\ api' = api /\ command' = command
        /\ pc # "idle"
    BY <1>8, Zenon DEF Crash
  <2>2. ~(api /\ command = "start")
    BY <2>1, Zenon DEF WholeInv
  <2> QED
    BY <1>0, <2>1, <2>2, Zenon DEF WholeInv
<1>9. CASE ApiDies
  <2>1. /\ db' = db /\ work' = work /\ todo' = todo /\ pc' = pc /\ command' = command
        /\ ~api'
    BY <1>9, Zenon DEF ApiDies
  <2> QED
    BY <2>1, Zenon DEF WholeInv, Refused, AtRevision, WasMade, Unstamped, Upgrading,
                       Downgrading, Astray
<1> QED
  BY <1>1, <1>2, <1>3, <1>4, <1>5, <1>6, <1>7, <1>8, <1>9, Zenon DEF DNext, Operate

(* The schema's invariant, of any commands in any order.                   *)
THEOREM SchemaInvariance == DSpec => []WholeInv
<1>1. DInit => WholeInv
  BY DeploymentStarts
<1>2. WholeInv /\ [DNext]_dvars => WholeInv'
  BY WholeSteps
<1> QED
  BY <1>1, <1>2, PTL DEF DSpec

(* The schema of each revision, in full. *)
LEMMA RevisionsAre ==
    /\ IsUp(db, 0) => AsStamped(db) /\ db.revision = "none"
    /\ IsUp(db, 10) => AsStamped(db) /\ db.revision = "0001"
    /\ IsUp(db, 12) => AsStamped(db) /\ db.revision = "0002"
<1>1. /\ {i \in 1..8 : i <= 0} = {}
      /\ {i \in 1..8 : i <= 10} = 1..8
      /\ {i \in 1..8 : i <= 12} = 1..8
  OBVIOUS
<1>2. db \in Schemas => db.trigger \in BOOLEAN /\ db.score_nullable \in BOOLEAN
  BY DEF Schemas
<1>3. IsUp(db, 0) => /\ db \in Schemas /\ db.tables = {} /\ ~db.trigger
                     /\ ~db.score_nullable /\ db.revision = "none"
  BY <1>1 DEF IsUp
<1>4. IsUp(db, 10) => /\ db \in Schemas /\ db.tables = Tables /\ db.trigger
                      /\ ~db.score_nullable /\ db.revision = "0001"
  BY <1>1, OrdersFit DEF IsUp
<1>5. IsUp(db, 12) => /\ db \in Schemas /\ db.tables = Tables /\ db.trigger
                      /\ db.score_nullable /\ db.revision = "0002"
  BY <1>1, OrdersFit DEF IsUp
<1> QED
  BY <1>2, <1>3, <1>4, <1>5 DEF AsStamped

(* Whatever operators run, in whatever order, and wherever it is cut short *)
(* or refused, no table is left half way through a migration, and a start  *)
(* serves from the head revision only (migrations, docker-compose.yml).    *)
THEOREM RevisionsAreWhole == DSpec => []AtItsRevision
<1>1. WholeInv => AtItsRevision
  <2> SUFFICES ASSUME WholeInv PROVE AtItsRevision
    OBVIOUS
  <2>1. AtRevision(db) \/ WasMade(db)
    BY DEF WholeInv
  <2>2. api /\ command = "start" => IsUp(db, 12)
    BY Zenon DEF WholeInv
  <2> QED
    BY <2>1, <2>2, RevisionsAre, Zenon DEF AtItsRevision, AtRevision, WasMade
<1> QED
  BY <1>1, SchemaInvariance, PTL

(* No migration, seeding or start is refused for another cause than a score*)
(* that is missing or mandatory, or the tables of create_all.              *)
THEOREM RefusalsAreExplained == DSpec => []RefusalsHaveACause
<1>1. WholeInv => RefusalsHaveACause
  BY RevisionsAre, Zenon DEF WholeInv, Refused, RefusalsHaveACause, WasMade
<1> QED
  BY <1>1, SchemaInvariance, PTL
=============================================================================
