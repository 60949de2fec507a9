------------------------- MODULE DispositionService -------------------------
(***************************************************************************)
(* POST /api/cases/{id}/disposition from the request's arrival to the end  *)
(* of its database transaction.  Endpoints are synchronous, so each        *)
(* request runs on a thread of its own with a session of its own, and the  *)
(* database (PostgreSQL, read committed) is the only thing they share.     *)
(*                                                                         *)
(* A request reads the case, composes its rows, flushes them (a changed    *)
(* status is an UPDATE that locks the case's row) and answers.  The        *)
(* dependency that owns the session commits when it is torn down, and      *)
(* FastAPI tears a yield dependency down after the response has been sent. *)
(***************************************************************************)
EXTENDS CaseRules, Naturals

CONSTANTS Requests,      \* POSTs, one identity each; also their rows' ids
          Bodies,        \* the inputs clients send
          Builds,        \* deployed versions of the explanation templates
          ClientWaits,   \* what a client awaits before a next POST on a case
          MaxRestarts,   \* bound on restarts of the API process
          NoCase,        \* a case_id the table does not hold
          NoRequest,     \* no lock holder
          NoBody, NoRow  \* nothing received, nothing composed

Body == [case: Cases \cup {NoCase}, action: DispositionActions \cup {"other"},
         reason: BOOLEAN, rationale: BOOLEAN]

Errors == {"SCHEMA_ERROR", "RATIONALE_FLOOR_REQUIRED", "NOT_FOUND",
           "CASE_ALREADY_DISPOSITIONED", "RATIONALE_REQUIRED_FOR_ACTION",
           "INTERNAL_ERROR"}

ASSUME ServiceAssumption ==
    /\ Bodies \subseteq Body
    /\ ClientWaits \in {"nothing", "answer", "end"}
    /\ MaxRestarts \in Nat
    /\ NoCase \notin Cases
    /\ NoRequest \notin Requests
    /\ NoBody \notin Body

VARIABLES
    status,        \* cases.status, committed
    dispositions,  \* rows of dispositions, committed
    audit_log,     \* rows of audit_log, committed
    row_lock,      \* for each case, the transaction holding its row
    pc,            \* how far each request is
    body,          \* its parsed body
    loaded,        \* the status its session read
    row,           \* the audit row it composed (the disposition row is part)
    reply,         \* what its client has been sent
    clock,         \* the wall clock, advanced by every stamp
    build,         \* the templates the running process carries
    restarts

vars == <<status, dispositions, audit_log, row_lock, pc, body, loaded, row,
          reply, clock, build, restarts>>
tables == <<status, dispositions, audit_log>>

Working  == {"received", "loaded", "composed", "flushed", "answered"}
Finished == {"refused", "committed", "rolled_back", "lost"}

(* A row of audit_log: the decision, the status it routed the case to, the *)
(* explanation frozen into its payload, and created_at.                    *)
AuditRow == [decision: Decision(Requests), status: Statuses,
             explanation: Builds, created_at: Nat]

Init ==
    /\ status = [c \in Cases |-> "queued"]
    /\ dispositions = {}
    /\ audit_log = {}
    /\ row_lock = [c \in Cases |-> NoRequest]
    /\ pc = [r \in Requests |-> "unsent"]
    /\ body = [r \in Requests |-> NoBody]
    /\ loaded = [r \in Requests |-> "queued"]
    /\ row = [r \in Requests |-> NoRow]
    /\ reply = [r \in Requests |-> "none"]
    /\ clock = 0
    /\ build \in Builds
    /\ restarts = 0

-----------------------------------------------------------------------------
(* A client posts.  ClientWaits is the discipline the clients of one case   *)
(* keep together: none, one POST at a time until it is answered, or one at  *)
(* a time until the server is done with it.                                 *)
MayPost(c) ==
    LET earlier == {q \in Requests : pc[q] # "unsent" /\ body[q].case = c}
    IN  CASE ClientWaits = "nothing" -> TRUE
          [] ClientWaits = "answer"  -> \A q \in earlier :
                                          reply[q] # "none" \/ pc[q] \in Finished
          [] ClientWaits = "end"     -> \A q \in earlier : pc[q] \in Finished

Post(r, b) ==
    /\ pc[r] = "unsent"
    /\ MayPost(b.case)
    /\ pc' = [pc EXCEPT ![r] = "received"]
    /\ body' = [body EXCEPT ![r] = b]
    /\ UNCHANGED <<tables, row_lock, loaded, row, reply, clock, build, restarts>>

(* Mutant: the status of the case is not checked. *)
RefusalWithoutConflict(b) ==
    IF b.action \notin DispositionActions THEN "SCHEMA_ERROR"
    ELSE IF ~b.reason THEN "RATIONALE_FLOOR_REQUIRED"
    ELSE IF b.case \notin Cases THEN "NOT_FOUND"
    ELSE IF NeedsRationale(b.case, b.action) /\ ~b.rationale
         THEN "RATIONALE_REQUIRED_FOR_ACTION"
    ELSE "none"

(* Mutant: the rationale depth is not checked. *)
RefusalWithoutDepth(b) ==
    IF b.action \notin DispositionActions THEN "SCHEMA_ERROR"
    ELSE IF ~b.reason THEN "RATIONALE_FLOOR_REQUIRED"
    ELSE IF b.case \notin Cases THEN "NOT_FOUND"
    ELSE IF status[b.case] \notin OpenStatuses THEN "CASE_ALREADY_DISPOSITIONED"
    ELSE "none"

(* The early returns of record_disposition, in their order; "none" if the  *)
(* request passes them all.                                                 *)
Refusal(b) ==
    IF b.action \notin DispositionActions THEN "SCHEMA_ERROR"
    ELSE IF ~b.reason THEN "RATIONALE_FLOOR_REQUIRED"
    ELSE IF b.case \notin Cases THEN "NOT_FOUND"
    ELSE IF status[b.case] \notin OpenStatuses THEN "CASE_ALREADY_DISPOSITIONED"
    ELSE IF NeedsRationale(b.case, b.action) /\ ~b.rationale
         THEN "RATIONALE_REQUIRED_FOR_ACTION"
    ELSE "none"

(* The session reads the case and every check passes. *)
Load(r) ==
    /\ pc[r] = "received"
    /\ Refusal(body[r]) = "none"
    /\ loaded' = [loaded EXCEPT ![r] = status[body[r].case]]
    /\ pc' = [pc EXCEPT ![r] = "loaded"]
    /\ UNCHANGED <<tables, row_lock, body, row, reply, clock, build, restarts>>

(* A check raises: the session rolls back, then the error is sent. *)
Refuse(r) ==
    /\ pc[r] = "received"
    /\ Refusal(body[r]) # "none"
    /\ reply' = [reply EXCEPT ![r] = Refusal(body[r])]
    /\ pc' = [pc EXCEPT ![r] = "refused"]
    /\ UNCHANGED <<tables, row_lock, body, loaded, row, clock, build, restarts>>

(* Mutant: rows are stamped with the day only. *)
ComposeByDay(r) ==
    LET b == body[r]
        d == [id |-> r, case |-> b.case, action |-> b.action,
              reason |-> b.reason, rationale |-> b.rationale,
              deviated |-> b.action # Recommended[b.case]]
    IN  /\ pc[r] = "loaded"
        /\ row' = [row EXCEPT ![r] =
                     [decision |-> d, status |-> Routing(b.action),
                      explanation |-> build, created_at |-> clock]]
        /\ pc' = [pc EXCEPT ![r] = "composed"]
        /\ UNCHANGED <<tables, row_lock, body, loaded, reply, clock, build,
                       restarts>>

(* Mutant: the explanation of the build that opened the case is frozen. *)
ComposeStored(r) ==
    LET b == body[r]
        d == [id |-> r, case |-> b.case, action |-> b.action,
              reason |-> b.reason, rationale |-> b.rationale,
              deviated |-> b.action # Recommended[b.case]]
    IN  /\ pc[r] = "loaded"
        /\ row' = [row EXCEPT ![r] =
                     [decision |-> d, status |-> Routing(b.action),
                      explanation |-> CHOOSE first \in Builds : TRUE,
                      created_at |-> clock]]
        /\ clock' = clock + 1
        /\ pc' = [pc EXCEPT ![r] = "composed"]
        /\ UNCHANGED <<tables, row_lock, body, loaded, reply, build, restarts>>

(* get_case_view re-derives the explanation with the running templates;    *)
(* the rows are built and the audit row stamped.                           *)
Compose(r) ==
    LET b == body[r]
        d == [id |-> r, case |-> b.case, action |-> b.action,
              reason |-> b.reason, rationale |-> b.rationale,
              deviated |-> b.action # Recommended[b.case]]
    IN  /\ pc[r] = "loaded"
        /\ row' = [row EXCEPT ![r] =
                     [decision |-> d, status |-> Routing(b.action),
                      explanation |-> build, created_at |-> clock]]
        /\ clock' = clock + 1
        /\ pc' = [pc EXCEPT ![r] = "composed"]
        /\ UNCHANGED <<tables, row_lock, body, loaded, reply, build, restarts>>

(* The session emits UPDATE cases only for a status that differs from the  *)
(* one it loaded: a hold of a pending case writes no case row.             *)
WritesCase(r) == Routing(body[r].action) # loaded[r]

(* Mutant: the UPDATE of the case is committed on its own, at once. *)
FlushAutocommitted(r) ==
    /\ pc[r] = "composed"
    /\ row_lock[body[r].case] = NoRequest
    /\ status' = [status EXCEPT ![body[r].case] = Routing(body[r].action)]
    /\ pc' = [pc EXCEPT ![r] = "flushed"]
    /\ UNCHANGED <<dispositions, audit_log, row_lock, body, loaded, row, reply,
                   clock, build, restarts>>

(* AuditWriter.append flushes the session: the UPDATE waits for the row's  *)
(* lock, the INSERTs (other rows, a compatible key lock) do not.           *)
Flush(r) ==
    LET c == body[r].case
    IN  /\ pc[r] = "composed"
        /\ \/ /\ WritesCase(r)
              /\ row_lock[c] = NoRequest
              /\ row_lock' = [row_lock EXCEPT ![c] = r]
           \/ ~WritesCase(r) /\ UNCHANGED row_lock
        /\ pc' = [pc EXCEPT ![r] = "flushed"]
        /\ UNCHANGED <<tables, body, loaded, row, reply, clock, build, restarts>>

Answer(r) ==
    /\ pc[r] = "flushed"
    /\ reply' = [reply EXCEPT ![r] = "OK"]
    /\ pc' = [pc EXCEPT ![r] = "answered"]
    /\ UNCHANGED <<tables, row_lock, body, loaded, row, clock, build, restarts>>

(* Mutant: the lock outlives its transaction. *)
StillLocked(rs) == [c \in Cases |-> IF row_lock[c] \in rs THEN row_lock[c]
                                                          ELSE NoRequest]

Unlocked(rs) == [c \in Cases |-> IF row_lock[c] \in rs THEN NoRequest
                                                       ELSE row_lock[c]]

(* get_session commits: the three writes become visible together. *)
Commit(r) ==
    LET d == row[r].decision
    IN  /\ pc[r] = "answered"
        /\ dispositions' = dispositions \cup {d}
        /\ audit_log' = audit_log \cup {row[r]}
        /\ status' = IF WritesCase(r)
                     THEN [status EXCEPT ![d.case] = row[r].status]
                     ELSE status
        /\ row_lock' = Unlocked({r})
        /\ pc' = [pc EXCEPT ![r] = "committed"]
        /\ UNCHANGED <<body, loaded, row, reply, clock, build, restarts>>

(* Mutant: the disposition and its audit row are committed separately, and *)
(* only the first commit succeeds.                                         *)
CommitsHalf(r) ==
    /\ pc[r] = "answered"
    /\ dispositions' = dispositions \cup {row[r].decision}
    /\ row_lock' = Unlocked({r})
    /\ pc' = [pc EXCEPT ![r] = "rolled_back"]
    /\ UNCHANGED <<status, audit_log, body, loaded, row, reply, clock, build,
                   restarts>>

(* The commit raises; the response is gone, nobody is told. *)
CommitFails(r) ==
    /\ pc[r] = "answered"
    /\ row_lock' = Unlocked({r})
    /\ pc' = [pc EXCEPT ![r] = "rolled_back"]
    /\ UNCHANGED <<tables, body, loaded, row, reply, clock, build, restarts>>

(* Mutant: the session is not rolled back, its teardown commits. *)
ErrorCommits(r) ==
    /\ pc[r] = "composed"
    /\ reply' = [reply EXCEPT ![r] = "INTERNAL_ERROR"]
    /\ pc' = [pc EXCEPT ![r] = "answered"]
    /\ UNCHANGED <<tables, row_lock, body, loaded, row, clock, build, restarts>>

(* A statement fails before the answer: get_session rolls back and         *)
(* re-raises, and the client gets a 500.                                   *)
ServerError(r) ==
    /\ pc[r] \in {"received", "loaded", "composed"}
    /\ reply' = [reply EXCEPT ![r] = "INTERNAL_ERROR"]
    /\ pc' = [pc EXCEPT ![r] = "rolled_back"]
    /\ UNCHANGED <<tables, row_lock, body, loaded, row, clock, build, restarts>>

(* The API process dies, or is redeployed with other templates: its        *)
(* transactions are rolled back by the database.                           *)
Restart(b) ==
    /\ restarts < MaxRestarts
    /\ restarts' = restarts + 1
    /\ build' = b
    /\ pc' = [r \in Requests |-> IF pc[r] \in Working THEN "lost" ELSE pc[r]]
    /\ row_lock' = Unlocked(Requests)
    /\ UNCHANGED <<tables, body, loaded, row, reply, clock>>

-----------------------------------------------------------------------------
Proceed(r) == Load(r) \/ Refuse(r) \/ Compose(r) \/ Flush(r) \/ Answer(r)
                      \/ Commit(r)

Fault(r) == CommitFails(r) \/ ServerError(r)

Next == \/ \E r \in Requests : \/ \E b \in Bodies : Post(r, b)
                               \/ Proceed(r)
                               \/ Fault(r)
        \/ \E b \in Builds : Restart(b)

(* A thread of the pool that can take its next step eventually does; no    *)
(* client need ever post and no fault need ever happen.                    *)
Spec == Init /\ [][Next]_vars /\ \A r \in Requests : WF_vars(Proceed(r))

-----------------------------------------------------------------------------
Rows(c) == {a \in audit_log : a.decision.case = c}

(* reconstruct_decision: the row of the case with the greatest created_at. *)
Reconstructed(c) ==
    CHOOSE a \in Rows(c) : \A e \in Rows(c) : e.created_at <= a.created_at

(* The type invariant. *)
TypeOK ==
    /\ status \in [Cases -> Statuses]
    /\ dispositions \subseteq Decision(Requests)
    /\ audit_log \subseteq AuditRow
    /\ row_lock \in [Cases -> Requests \cup {NoRequest}]
    /\ pc \in [Requests -> {"unsent"} \cup Working \cup Finished]
    /\ body \in [Requests -> Body \cup {NoBody}]
    /\ loaded \in [Requests -> OpenStatuses]
    /\ row \in [Requests -> AuditRow \cup {NoRow}]
    /\ reply \in [Requests -> {"none", "OK"} \cup Errors]
    /\ clock \in Nat
    /\ build \in Builds
    /\ restarts \in Nat

(* Whatever overlaps, fails or restarts, the two tables agree: a decision  *)
(* is in dispositions exactly when audit_log holds its record, and holds   *)
(* it once (the audit row is flushed and committed with the disposition).  *)
EveryDecisionIsAudited ==
    /\ dispositions = {a.decision : a \in audit_log}
    /\ \A a, e \in audit_log : a.decision.id = e.decision.id => a = e

(* Even when decisions overwrite each other, a case's status is one that   *)
(* the audit log accounts for: some recorded decision routed the case      *)
(* there, and a case still queued has no recorded decision.                *)
StatusHasProvenance ==
    \A c \in Cases : IF status[c] = "queued"
                     THEN Rows(c) = {}
                     ELSE \E a \in Rows(c) : a.status = status[c]

(* A client that was sent an error can rely on it: nothing of its request  *)
(* is in the tables, now or later.                                         *)
ErrorMeansNothingRecorded ==
    \A r \in Requests : reply[r] \in Errors =>
        \A d \in dispositions : d.id # r

(* A 409 is never a false alarm, even if an overlapping hold reopens the   *)
(* case: a decision that closed the case is in the log.                    *)
ConflictMeansClosed ==
    \A r \in Requests : reply[r] = "CASE_ALREADY_DISPOSITIONED" =>
        \E a \in Rows(body[r].case) : a.status \notin OpenStatuses

(* No request hangs: no lost lock, no deadlock on the case's row, whatever *)
(* restarts and failures happen to the other requests.                     *)
EveryRequestFinishes ==
    \A r \in Requests : pc[r] = "received" ~> pc[r] \in Finished

(* The 409 contract: a decision is recorded on a case only while the case  *)
(* is queued or pending.                                                   *)
DecidedOnlyWhileOpen ==
    [][\A d \in dispositions' \ dispositions : status[d.case] \in OpenStatuses]_vars

(* The response is "the recorded disposition": once a request that was     *)
(* answered 200 has ended, its decision is in the tables.                  *)
AnsweredIsRecorded ==
    \A r \in Requests : reply[r] = "OK" /\ pc[r] \in Finished =>
        \E d \in dispositions : d.id = r

(* The decision the log reconstructs for a case is the one that put the    *)
(* case where it is.                                                       *)
ReconstructionExplainsStatus ==
    \A c \in Cases : Rows(c) # {} => Reconstructed(c).status = status[c]

(* Each decision on c read the status that the one stamped before it left. *)
InTurn(c) ==
    \A a \in Rows(c) :
        LET earlier == {e \in Rows(c) : e.created_at < a.created_at}
            last    == {e \in earlier : \A x \in earlier : x.created_at <= e.created_at}
        IN  loaded[a.decision.id] \in IF earlier = {} THEN {"queued"}
                                      ELSE {e.status : e \in last}

(* However requests overlap, fail and commit out of the order of their     *)
(* stamps, reconstruct_decision misleads only about a case on which some   *)
(* decision was made on a stale read.                                      *)
OnlyStaleReadsMislead ==
    \A c \in Cases : Rows(c) # {} /\ InTurn(c) =>
        Reconstructed(c).status = status[c]

(* The ledger these requests implement when they do not overlap. *)
Ledger == INSTANCE CaseLedger WITH
              Ids <- Requests, NoId <- NoRequest, recorded <- dispositions,
              latest <- [c \in Cases |-> IF Rows(c) = {} THEN NoRequest
                                         ELSE Reconstructed(c).decision.id]

ImplementsLedger == Ledger!Spec

-----------------------------------------------------------------------------
(* The inductive invariant behind the safety properties: what a request at *)
(* each point of the handler carries, what of it is in the tables, and how *)
(* what it read of the case still relates to the case.                     *)
Accepted == {"loaded", "composed", "flushed", "answered", "committed"}
Composed == {"composed", "flushed", "answered", "committed"}

RequestsCarryValidBodies ==
    /\ \A r \in Requests : pc[r] = "received" => body[r] \in Body
    /\ \A r \in Requests : pc[r] \in Accepted =>
         /\ body[r] \in Body
         /\ body[r].case \in Cases
         /\ body[r].action \in DispositionActions

RowsMatchBodies ==
    \A r \in Requests : pc[r] \in Composed =>
        /\ row[r] \in AuditRow
        /\ row[r].decision.id = r
        /\ row[r].decision.case = body[r].case
        /\ row[r].status = Routing(body[r].action)

TablesHoldTheCommitted ==
    LET committed == {r \in Requests : pc[r] = "committed"}
    IN  /\ audit_log = {row[r] : r \in committed}
        /\ dispositions = {row[r].decision : r \in committed}

(* A case read as pending has left the queue for good. *)
PendingWasDecided ==
    \A r \in Requests : pc[r] \in Accepted \ {"committed"} /\ loaded[r] = "pending"
        => status[body[r].case] # "queued"

ErrorsAreFinal ==
    \A r \in Requests : reply[r] \in Errors => pc[r] \in {"refused", "rolled_back"}

IInv == /\ TypeOK
        /\ RequestsCarryValidBodies
        /\ RowsMatchBodies
        /\ TablesHoldTheCommitted
        /\ PendingWasDecided
        /\ ErrorsAreFinal
        /\ StatusHasProvenance
        /\ ConflictMeansClosed

=============================================================================
