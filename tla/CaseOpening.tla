---------------------------- MODULE CaseOpening ----------------------------
(***************************************************************************)
(* Cases are opened by the seeding script, which the API's container runs  *)
(* on every start before it serves: one database transaction opens a case  *)
(* for each transaction of the batch, unless the first one has a case      *)
(* already.  Starts may be cut short and repeated; between them analysts   *)
(* move cases on.  The script itself passes no history and the excluded    *)
(* score; Priors and Scores let the operation it calls be used with all    *)
(* that its parameters stand for: a ScoreStatus is not validated, and may  *)
(* claim a score without its probability or the reverse.                   *)
(***************************************************************************)
EXTENDS Evidence

CONSTANTS Batch,      \* the transactions, in order
          Priors,     \* prior_transaction_count passed with one
          Scores,     \* score statuses passed with one
          Enabled,    \* enabled rules, in order
          Policy,     \* score bands and escalating rules
          MaxStarts   \* bound on starts of the container

Txns == [txn_id : STRING, amount : Nat, type : STRING, account_id : STRING,
         counterparty_id : STRING, event_ts : STRING]

TxnIds == {Batch[k].txn_id : k \in DOMAIN Batch}

ASSUME OpeningAssumption ==
    /\ Batch \in Seq(Txns) /\ Batch # <<>>
    /\ \A k \in DOMAIN Batch : Shown(Batch[k].amount, 2) = Batch[k].amount   \* whole cents
    /\ \A j, k \in DOMAIN Batch : Batch[j].txn_id = Batch[k].txn_id => j = k
    /\ Priors \subseteq Nat
    /\ \A s \in Scores : /\ s.available \in BOOLEAN
                         /\ s.probability = None \/ s.probability \in 0..One
    /\ Enabled \in Seq(Rules)
    /\ None \notin Actions \cup Nat

VARIABLES phase,     \* down, seeding or serving
          cases,     \* committed rows of cases, with their rule_hits
          pending,   \* rows flushed in the script's open transaction
          starts

vars == <<phase, cases, pending, starts>>

Init == phase = "down" /\ cases = {} /\ pending = <<>> /\ starts = 0

CasesOf(txn_id) == {c \in cases : c.txn_id = txn_id}

(* Mutant: the guard looks for a case in the queue. *)
SeededAndQueued == \E c \in CasesOf(Batch[1].txn_id) : c.status = "queued"

(* The idempotency guard: the first transaction has a case. *)
AlreadySeeded == CasesOf(Batch[1].txn_id) # {}

Launch ==
    /\ phase = "down"
    /\ starts < MaxStarts
    /\ starts' = starts + 1
    /\ phase' = IF AlreadySeeded THEN "serving" ELSE "seeding"
    /\ UNCHANGED <<cases, pending>>

(* assemble_and_persist_case: rules, evidence, recommendation, explanation *)
(* and the queued row.  Which rules fire is not decided here.              *)
NewCase(txn, count, prior, score, hits) ==
    LET fired == {hits[k] : k \in DOMAIN hits}
        package == AssembleEvidence(txn, count, prior, score, hits)
        rec == Recommend(score, fired, Policy)
        recommendation == [action |-> rec.action, confidence |-> rec.confidence,
                           band |-> rec.band, uncertain |-> rec.uncertain,
                           rule_ids |-> fired]
    IN  [txn_id |-> txn.txn_id,
         score |-> IF score.available THEN score.probability ELSE None,
         recommendation |-> recommendation,
         evidence |-> package,
         explanation |-> Explain(package, recommendation),
         rule_hits |-> hits,
         status |-> "queued"]

(* The next row's case is flushed.  cases.txn_id is unique: SeedsOnlyOnce  *)
(* says the flush never meets a committed case, so its failure has no      *)
(* action here.                                                            *)
OpenCase(count, prior, score, hits) ==
    LET txn == Batch[Len(pending) + 1]
    IN  /\ phase = "seeding"
        /\ Len(pending) < Len(Batch)
        /\ pending' = Append(pending, NewCase(txn, count, prior, score, hits))
        /\ UNCHANGED <<phase, cases, starts>>

(* Mutant: each case is committed as it is opened. *)
CommitEach ==
    /\ phase = "seeding"
    /\ pending # <<>>
    /\ \A k \in DOMAIN pending : pending[k] \notin cases
    /\ cases' = cases \cup {pending[k] : k \in DOMAIN pending}
    /\ phase' = IF Len(pending) = Len(Batch) THEN "serving" ELSE phase
    /\ pending' = IF Len(pending) = Len(Batch) THEN <<>> ELSE pending
    /\ UNCHANGED starts

CommitBatch ==
    /\ phase = "seeding"
    /\ Len(pending) = Len(Batch)
    /\ cases' = cases \cup {pending[k] : k \in DOMAIN pending}
    /\ pending' = <<>>
    /\ phase' = "serving"
    /\ UNCHANGED starts

(* The container stops; an open transaction is rolled back. *)
Stop ==
    /\ phase \in {"seeding", "serving"}
    /\ phase' = "down"
    /\ pending' = <<>>
    /\ UNCHANGED <<cases, starts>>

(* A disposition while the API serves (DispositionService has the detail). *)
Dispose(c, status) ==
    /\ phase = "serving"
    /\ c.status \in {"queued", "pending"}
    /\ cases' = (cases \ {c}) \cup {[c EXCEPT !.status = status]}
    /\ UNCHANGED <<phase, pending, starts>>

Hits(fired) == Kept(Enabled, fired)

Next == \/ Launch
        \/ \E prior \in Priors, score \in Scores, fired \in SUBSET Rules :
              OpenCase(prior, prior, score, Hits(fired))
        \/ CommitBatch
        \/ Stop
        \/ \E c \in cases, status \in {"pending", "cleared", "escalated"} :
              Dispose(c, status)

Spec == Init /\ [][Next]_vars

-----------------------------------------------------------------------------
(* The cases the database holds, and those the open transaction adds. *)
Stored == cases \cup {pending[k] : k \in DOMAIN pending}

(* Whenever the container is killed and restarted, and whatever analysts   *)
(* did in between, the demo set is there as a whole or not at all, each    *)
(* transaction with one case; the API never serves without it.             *)
AllOrNothing ==
    /\ {c.txn_id : c \in cases} \in {{}, TxnIds}
    /\ \A c, d \in cases : c.txn_id = d.txn_id => c = d
    /\ phase = "serving" => cases # {}

(* "A re-run must not crash on the unique cases.txn_id constraint"         *)
(* (seed_cases.py:109-111): while the script opens cases, no transaction   *)
(* of its batch has a committed one, although its guard asks for the first *)
(* transaction only.                                                       *)
SeedsOnlyOnce == phase = "seeding" => \A id \in TxnIds : CasesOf(id) = {}

(* Every sentence of a stored explanation cites an element of the case's   *)
(* own package, one that may be cited: the advice and the rule sentences   *)
(* name rules by ids that pass through the recommendation's basis          *)
(* (templated.py:50-57, 99-111).                                           *)
EverySentenceIsCited ==
    \A c \in Stored : \A s \in Sentences(c.explanation) :
        /\ s.cites # {}
        /\ s.cites \subseteq {e.element_id : e \in Groundable(c.evidence)}

(* The case's evidence says that the scorer is excluded (a case may have   *)
(* no score without saying so).                                            *)
SaysExcluded(c) ==
    Token("status", "excluded") \in ById(c.evidence, "score_signal").strings

(* Where the templated text does pass the gate: the account has no         *)
(* baseline or the velocity rule put its window in evidence, and the score *)
(* has at most four decimals or is excluded.  The cases the script opens   *)
(* (no history, excluded score) are all of this kind.                      *)
GroundedWithinTheseLimits ==
    \A c \in Stored :
        /\ \/ Token("prior_transaction_count", 0)
                 \in ById(c.evidence, "account_baseline").numbers
           \/ \E k \in DOMAIN c.rule_hits : c.rule_hits[k] = "velocity"
        /\ IF c.score = None THEN SaysExcluded(c)
                             ELSE Shown(c.score, 4) = c.score
        => Verified(c.explanation, c.evidence, c.recommendation)
=============================================================================
