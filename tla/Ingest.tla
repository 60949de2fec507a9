------------------------------- MODULE Ingest -------------------------------
(***************************************************************************)
(* Ingestion of PaySim exports into the canonical store: load_paysim_csv   *)
(* normalises a file, ingest_to_db writes accounts and counterparties,     *)
(* flushes, then writes the transactions the store does not hold yet.      *)
(* The session and its transaction belong to the caller, which commits, or *)
(* rolls back when anything fails.                                         *)
(*                                                                         *)
(* A file is the rows an export has written so far, so the files of one    *)
(* export extend each other.  Files of different exports have nothing to do*)
(* with each other but their rows' ids, which are positions.               *)
(***************************************************************************)
EXTENDS Integers, SequencesExt

CONSTANTS Names,       \* names of origins and destinations
          Merchants,   \* those that start with "M"
          Exports,     \* the exports files may come from, sequences of rows
          SourcesOf,   \* the sets of exports a store may be fed from
          Null         \* an absent balance

(* A row of a file; of its numbers, the step and whether a destination     *)
(* balance is given.                                                       *)
Row == [step: Nat, account: Names, counterparty: Names, balance: {"given", Null}]

ASSUME IngestAssumption ==
    /\ Merchants \subseteq Names
    /\ Exports \subseteq Seq(Row)
    /\ SourcesOf \subseteq SUBSET Exports

VARIABLES
    sources,  \* the exports this store is fed from
    pc,       \* how far the run is
    df,       \* the normalised rows, by txn_id
    session,  \* the tables as the run's transaction sees them
    db,       \* the tables, committed
    added,    \* the count ingest_to_db returned
    files     \* the files committed so far, in the order of their first commits

vars == <<sources, pc, df, session, db, added, files>>

Empty == [accounts |-> <<>>, counterparties |-> <<>>, transactions |-> <<>>]

Init == /\ sources \in SourcesOf
        /\ pc = "idle"
        /\ df = <<>>
        /\ session = Empty
        /\ db = Empty
        /\ added = 0
        /\ files = <<>>

-----------------------------------------------------------------------------
(* Merchant destinations carry no balance signal. *)
Normalised(row) == IF row.counterparty \in Merchants
                   THEN [row EXCEPT !.balance = Null] ELSE row

(* A file that lacks a column is refused before anything is read of it. *)
Refuse == /\ pc = "idle"
          /\ pc' = "refused"
          /\ UNCHANGED <<sources, df, session, db, added, files>>

(* A row's txn_id is its position in its file. *)
Load(f) == /\ pc \in {"idle", "refused"}
           /\ pc' = "loaded"
           /\ df' = [i \in DOMAIN f |-> Normalised(f[i])]
           /\ session' = db
           /\ UNCHANGED <<sources, db, added, files>>

(* Mutant: the last row of an account is kept as its first. *)
LastStep(a) ==
    df[CHOOSE i \in DOMAIN df : /\ df[i].account = a
                                /\ \A j \in DOMAIN df : df[j].account = a => j <= i].step

(* The smallest step at which the file has the account as origin. *)
FirstStep(a) ==
    df[CHOOSE i \in DOMAIN df :
          /\ df[i].account = a
          /\ \A j \in DOMAIN df : df[j].account = a => df[i].step <= df[j].step].step

(* Rows are added under keys the table does not have; the others are kept. *)
Upserted(table, new) ==
    [k \in DOMAIN table \cup DOMAIN new |->
        IF k \in DOMAIN table THEN table[k] ELSE new[k]]

(* Mutant: the counterparties are left to a later flush. *)
WritePartiesOfOrigins ==
    /\ pc = "loaded"
    /\ session' = [session EXCEPT
         !.accounts = Upserted(@, [a \in {df[i].account : i \in DOMAIN df} |->
                                       [first_seen_step |-> FirstStep(a),
                                        is_merchant |-> a \in Merchants]])]
    /\ pc' = "parties"
    /\ UNCHANGED <<sources, df, db, added, files>>

WriteParties ==
    /\ pc = "loaded"
    /\ session' = [session EXCEPT
         !.accounts = Upserted(@, [a \in {df[i].account : i \in DOMAIN df} |->
                                       [first_seen_step |-> FirstStep(a),
                                        is_merchant |-> a \in Merchants]]),
         !.counterparties = Upserted(@, [c \in {df[i].counterparty : i \in DOMAIN df}
                                           |-> c \in Merchants])]
    /\ pc' = "parties"
    /\ UNCHANGED <<sources, df, db, added, files>>

WriteTransactions ==
    /\ pc = "parties"
    /\ session' = [session EXCEPT !.transactions = Upserted(@, df)]
    /\ added' = Cardinality(DOMAIN df \ DOMAIN session.transactions)
    /\ pc' = "written"
    /\ UNCHANGED <<sources, df, db, files>>

Committed == {files[k] : k \in DOMAIN files}

(* The caller's commit. *)
Commit == /\ pc = "written"
          /\ db' = session
          /\ files' = IF df \in Committed THEN files ELSE Append(files, df)
          /\ pc' = "idle"
          /\ UNCHANGED <<sources, df, session, added>>

(* Mutant: what was flushed before the failure stays. *)
KeepFlushed == /\ pc \in {"loaded", "parties", "written"}
               /\ db' = session
               /\ pc' = "idle"
               /\ UNCHANGED <<sources, df, session, added, files>>

(* The run fails or its process dies. *)
Rollback == /\ pc \in {"loaded", "parties", "written"}
            /\ session' = db
            /\ pc' = "idle"
            /\ UNCHANGED <<sources, df, db, added, files>>

Next == \/ Refuse
        \/ \E e \in sources : \E n \in 1..Len(e) : Load(SubSeq(e, 1, n))
        \/ WriteParties \/ WriteTransactions
        \/ Commit \/ Rollback

Spec == Init /\ [][Next]_vars

-----------------------------------------------------------------------------
(* Both parties of every transaction of s are rows of s. *)
ReferencesHold(s) ==
    \A t \in DOMAIN s.transactions :
        /\ s.transactions[t].account \in DOMAIN s.accounts
        /\ s.transactions[t].counterparty \in DOMAIN s.counterparties

(* "Every Transaction row has a valid account_id and counterparty_id": no  *)
(* flush of a run, and no run cut short, leaves a transaction without its  *)
(* parties.                                                                *)
ForeignKeysHold == ReferencesHold(session) /\ ReferencesHold(db)

Longest == CHOOSE f \in Committed : \A g \in Committed : Len(g) <= Len(f)

(* Fed in any order, again and again, with runs that fail in between, the  *)
(* store holds under each position the row of the file that was committed  *)
(* first among those that reach it: nothing twice, nothing of a failed run,*)
(* and of another export's file, committed with success, only the rows past*)
(* the end of all before it (the ids of load_paysim_csv are positions).    *)
(* Fed from one growing export, that is the longest file, missing nothing. *)
FirstFileWins ==
    /\ DOMAIN db.transactions = UNION {DOMAIN f : f \in Committed}
    /\ \A k \in DOMAIN files : \A t \in DOMAIN files[k] :
         (\A j \in 1..(k - 1) : t \notin DOMAIN files[j])
             => db.transactions[t] = files[k][t]
    /\ (\E e \in Exports : sources = {e}) =>
         db.transactions = IF files = <<>> THEN <<>> ELSE Longest

InStepOrder(e) == \A i, j \in DOMAIN e : i <= j => e[i].step <= e[j].step

(* Fed from one export written in the order of its steps, an account's     *)
(* first_seen_step is the first step of its stored transactions, whichever *)
(* file brought the account in.                                            *)
FirstSeenIsFirst ==
    (\E e \in Exports : sources = {e} /\ InStepOrder(e)) =>
        \A a \in DOMAIN db.accounts :
            LET rows == {t \in DOMAIN db.transactions :
                            db.transactions[t].account = a}
                seen == db.accounts[a].first_seen_step
            IN  /\ \E t \in rows : db.transactions[t].step = seen
                /\ \A t \in rows : seen <= db.transactions[t].step

(* A merchant's transactions carry no destination balance into the store,  *)
(* and the counterparty's row says it is one.                              *)
MerchantsCarryNoSignal ==
    \A t \in DOMAIN db.transactions :
        LET c == db.transactions[t].counterparty
        IN  c \in Merchants => /\ db.transactions[t].balance = Null
                               /\ db.counterparties[c]
=============================================================================
