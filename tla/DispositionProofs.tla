------------------------- MODULE DispositionProofs --------------------------
(***************************************************************************)
(* Theorems of DispositionService, of the ledger it implements and of the  *)
(* Workspace in front of it, for any analysts, cases, requests, inputs,    *)
(* builds and governance, and any number of restarts.                      *)
(*                                                                         *)
(* 1. The service, under every client discipline.                          *)
(* 2. The refinement: when the requests on a case never overlap (each      *)
(*    client waits until the server has ended the previous one), the       *)
(*    service implements CaseLedger.                                       *)
(* 3. The workspace.  Its theorems rest on the invariant of the service,   *)
(*    which every step of the workspace keeps since it is a step of the    *)
(*    service or none.                                                     *)
(***************************************************************************)
EXTENDS Workspace, RecursionProofs, TLAPS

(* An action routes a case to a status, never back to the queue. *)
LEMMA RoutingLeavesQueue ==
  \A a \in DispositionActions : Routing(a) \in Statuses /\ Routing(a) # "queued"
BY DEF DispositionActions, Routing, Statuses, OpenStatuses

(* A request that passed every check of record_disposition. *)
LEMMA AcceptedBody ==
  ASSUME NEW b \in Body, Refusal(b) = "none"
  PROVE  /\ b.action \in DispositionActions
         /\ b.case \in Cases
         /\ status[b.case] \in OpenStatuses
BY DEF Refusal

(* A refusal is one of the error codes.                                    *)
LEMMA RefusalCodes ==
  ASSUME NEW b \in Body
  PROVE  Refusal(b) \in {"none"} \cup Errors
BY DEF Refusal, Errors

(* Only a case that is not open is refused with a 409. *)
LEMMA ConflictRefusal ==
  ASSUME NEW b \in Body, Refusal(b) = "CASE_ALREADY_DISPOSITIONED"
  PROVE  b.case \in Cases /\ status[b.case] \notin OpenStatuses
BY DEF Refusal

(* Releasing locks keeps the type of the lock table.                       *)
LEMMA UnlockedType ==
  ASSUME TypeOK, NEW rs
  PROVE  Unlocked(rs) \in [Cases -> Requests \cup {NoRequest}]
BY DEF TypeOK, Unlocked

-----------------------------------------------------------------------------
(* The invariant holds before any request.                                 *)
LEMMA InitInvariant == Init => IInv
<1> SUFFICES ASSUME Init PROVE IInv
  OBVIOUS
<1>1. TypeOK
  BY ServiceAssumption DEF Init, TypeOK, Statuses, OpenStatuses
<1>2. RequestsCarryValidBodies /\ RowsMatchBodies /\ PendingWasDecided
  BY DEF Init, RequestsCarryValidBodies, RowsMatchBodies, PendingWasDecided,
         Accepted, Composed
<1>3. TablesHoldTheCommitted
  BY DEF Init, TablesHoldTheCommitted
<1>4. StatusHasProvenance
  BY DEF Init, StatusHasProvenance, Rows
<1>5. ErrorsAreFinal /\ ConflictMeansClosed
  BY DEF Init, ErrorsAreFinal, ConflictMeansClosed, Errors
<1> QED
  BY <1>1, <1>2, <1>3, <1>4, <1>5 DEF IInv

(* The steps that write no table keep what the tables hold of them. *)
LEMMA TablesUnchanged ==
  ASSUME IInv, UNCHANGED tables,
         \A r \in Requests : pc'[r] = "committed" <=> pc[r] = "committed",
         \A r \in Requests : pc[r] = "committed" => row'[r] = row[r]
  PROVE  TablesHoldTheCommitted' /\ StatusHasProvenance'
<1>1. TablesHoldTheCommitted'
  BY DEF IInv, TablesHoldTheCommitted, tables
<1>2. StatusHasProvenance'
  BY DEF IInv, StatusHasProvenance, Rows, tables
<1> QED
  BY <1>1, <1>2

(* An arriving request carries a body and nothing else.                    *)
LEMMA PostStep ==
  ASSUME IInv, NEW r \in Requests, NEW b \in Bodies, Post(r, b)
  PROVE  IInv'
<1>1. b \in Body
  BY ServiceAssumption
<1>2. TypeOK'
  BY <1>1 DEF IInv, TypeOK, Post, tables, Working
<1>3. RequestsCarryValidBodies' /\ RowsMatchBodies' /\ PendingWasDecided'
  BY <1>1 DEF IInv, TypeOK, Post, tables, RequestsCarryValidBodies,
              RowsMatchBodies, PendingWasDecided, Accepted, Composed
<1>4. TablesHoldTheCommitted' /\ StatusHasProvenance'
  BY TablesUnchanged DEF IInv, TypeOK, Post
<1>5. ErrorsAreFinal'
  BY DEF IInv, TypeOK, Post, ErrorsAreFinal
<1>6. ConflictMeansClosed'
  BY <1>5 DEF IInv, TypeOK, Post, ConflictMeansClosed, Rows, tables,
         ErrorsAreFinal, Errors
<1> QED
  BY <1>2, <1>3, <1>4, <1>5, <1>6 DEF IInv

(* A request that passes the checks has read an open status.               *)
LEMMA LoadStep ==
  ASSUME IInv, NEW r \in Requests, Load(r)
  PROVE  IInv'
<1>1. body[r] \in Body
  BY DEF IInv, RequestsCarryValidBodies, Load
<1>2. /\ body[r].action \in DispositionActions
      /\ body[r].case \in Cases
      /\ status[body[r].case] \in OpenStatuses
  BY <1>1, AcceptedBody DEF Load
<1>3. TypeOK'
  BY <1>2 DEF IInv, TypeOK, Load, tables, Working
<1>4. RequestsCarryValidBodies'
  BY <1>1, <1>2 DEF IInv, TypeOK, Load, RequestsCarryValidBodies, Accepted
<1>5. RowsMatchBodies'
  BY DEF IInv, TypeOK, Load, RowsMatchBodies, Composed
<1>6. PendingWasDecided'
  BY <1>2 DEF IInv, TypeOK, Load, tables, PendingWasDecided, Accepted
<1>7. TablesHoldTheCommitted' /\ StatusHasProvenance'
  BY TablesUnchanged DEF IInv, TypeOK, Load
<1>8. ErrorsAreFinal' /\ ConflictMeansClosed'
  BY DEF IInv, TypeOK, Load, ErrorsAreFinal, ConflictMeansClosed, Rows, tables
<1> QED
  BY <1>3, <1>4, <1>5, <1>6, <1>7, <1>8 DEF IInv

(* A refused request is over, and its 409 is backed by a decision.         *)
LEMMA RefuseStep ==
  ASSUME IInv, NEW r \in Requests, Refuse(r)
  PROVE  IInv'
<1>1. body[r] \in Body
  BY DEF IInv, RequestsCarryValidBodies, Refuse
<1>2. Refusal(body[r]) \in Errors
  BY <1>1, RefusalCodes DEF Refuse
<1>3. TypeOK'
  BY <1>2 DEF IInv, TypeOK, Refuse, tables, Finished
<1>4. RequestsCarryValidBodies' /\ RowsMatchBodies' /\ PendingWasDecided'
  BY DEF IInv, TypeOK, Refuse, tables, RequestsCarryValidBodies,
         RowsMatchBodies, PendingWasDecided, Accepted, Composed
<1>5. TablesHoldTheCommitted' /\ StatusHasProvenance'
  BY TablesUnchanged DEF IInv, TypeOK, Refuse
<1>6. ErrorsAreFinal'
  BY DEF IInv, TypeOK, Refuse, ErrorsAreFinal
<1>7. ConflictMeansClosed'
  <2> SUFFICES ASSUME NEW q \in Requests,
                      reply'[q] = "CASE_ALREADY_DISPOSITIONED"
               PROVE  \E a \in Rows(body[q].case) : a.status \notin OpenStatuses
    BY DEF ConflictMeansClosed, Rows, Refuse, tables
  <2>1. CASE q = r
    <3>1. Refusal(body[r]) = "CASE_ALREADY_DISPOSITIONED"
      BY <2>1 DEF Refuse, IInv, TypeOK
    <3>2. body[r].case \in Cases /\ status[body[r].case] \notin OpenStatuses
      BY <1>1, <3>1, ConflictRefusal
    <3> QED
      BY <2>1, <3>2 DEF IInv, StatusHasProvenance, OpenStatuses
  <2>2. CASE q # r
    BY <2>2 DEF IInv, TypeOK, ConflictMeansClosed, Refuse
  <2> QED
    BY <2>1, <2>2
<1> QED
  BY <1>3, <1>4, <1>5, <1>6, <1>7 DEF IInv

(* A composed row is the request's own.                                    *)
LEMMA ComposeStep ==
  ASSUME IInv, NEW r \in Requests, Compose(r)
  PROVE  IInv'
<1>1. /\ body[r] \in Body
      /\ body[r].case \in Cases
      /\ body[r].action \in DispositionActions
  BY DEF IInv, RequestsCarryValidBodies, Compose, Accepted
<1>2. /\ row'[r] \in AuditRow
      /\ row'[r].decision.id = r
      /\ row'[r].decision.case = body[r].case
      /\ row'[r].status = Routing(body[r].action)
  BY <1>1, RoutingLeavesQueue
     DEF IInv, TypeOK, Compose, AuditRow, Decision, Body
<1>3. \A q \in Requests : q # r => row'[q] = row[q] /\ pc'[q] = pc[q]
  BY DEF IInv, TypeOK, Compose
<1>4. row' \in [Requests -> AuditRow \cup {NoRow}]
  BY <1>2 DEF IInv, TypeOK, Compose
<1>5. TypeOK'
  BY <1>4 DEF IInv, TypeOK, Compose, tables, Working
<1>6. RequestsCarryValidBodies' /\ PendingWasDecided'
  BY DEF IInv, TypeOK, Compose, tables, RequestsCarryValidBodies,
         PendingWasDecided, Accepted
<1>7. RowsMatchBodies'
  BY <1>2, <1>3 DEF IInv, RowsMatchBodies, Compose
<1>8. TablesHoldTheCommitted' /\ StatusHasProvenance'
  BY <1>3, TablesUnchanged DEF IInv, TypeOK, Compose
<1>9. ErrorsAreFinal' /\ ConflictMeansClosed'
  BY DEF IInv, TypeOK, Compose, ErrorsAreFinal, ConflictMeansClosed, Rows, tables
<1> QED
  BY <1>5, <1>6, <1>7, <1>8, <1>9 DEF IInv

(* A flush takes the lock and touches no table.                            *)
LEMMA FlushStep ==
  ASSUME IInv, NEW r \in Requests, Flush(r)
  PROVE  IInv'
<1>1. body[r].case \in Cases
  BY DEF IInv, RequestsCarryValidBodies, Flush, Accepted
<1>2. TypeOK'
  BY <1>1 DEF IInv, TypeOK, Flush, tables, Working
<1>3. RequestsCarryValidBodies' /\ RowsMatchBodies' /\ PendingWasDecided'
  BY DEF IInv, TypeOK, Flush, tables, RequestsCarryValidBodies,
         RowsMatchBodies, PendingWasDecided, Accepted, Composed
<1>4. TablesHoldTheCommitted' /\ StatusHasProvenance'
  BY TablesUnchanged DEF IInv, TypeOK, Flush
<1>5. ErrorsAreFinal' /\ ConflictMeansClosed'
  BY DEF IInv, TypeOK, Flush, ErrorsAreFinal, ConflictMeansClosed, Rows, tables
<1> QED
  BY <1>2, <1>3, <1>4, <1>5 DEF IInv

(* An answer touches no table.                                             *)
LEMMA AnswerStep ==
  ASSUME IInv, NEW r \in Requests, Answer(r)
  PROVE  IInv'
<1>1. TypeOK'
  BY DEF IInv, TypeOK, Answer, tables, Working
<1>2. RequestsCarryValidBodies' /\ RowsMatchBodies' /\ PendingWasDecided'
  BY DEF IInv, TypeOK, Answer, tables, RequestsCarryValidBodies,
         RowsMatchBodies, PendingWasDecided, Accepted, Composed
<1>3. TablesHoldTheCommitted' /\ StatusHasProvenance'
  BY TablesUnchanged DEF IInv, TypeOK, Answer
<1>4. ErrorsAreFinal' /\ ConflictMeansClosed'
  BY DEF IInv, TypeOK, Answer, ErrorsAreFinal, ConflictMeansClosed, Rows,
         tables, Errors
<1> QED
  BY <1>1, <1>2, <1>3, <1>4 DEF IInv

(* The one step that writes the tables.  If it writes the case, the row it *)
(* adds is the status's provenance; if not, its session read a pending     *)
(* case, so the status already has one.                                    *)
LEMMA CommitStep ==
  ASSUME IInv, NEW r \in Requests, Commit(r)
  PROVE  IInv'
<1> DEFINE c == body[r].case
<1>1. /\ c \in Cases
      /\ body[r].action \in DispositionActions
      /\ row[r] \in AuditRow
      /\ row[r].decision.id = r
      /\ row[r].decision.case = c
      /\ row[r].status = Routing(body[r].action)
  BY DEF IInv, RequestsCarryValidBodies, RowsMatchBodies, Commit, Accepted,
         Composed
<1>2. row[r].status \in Statuses /\ row[r].status # "queued"
  BY <1>1, RoutingLeavesQueue
<1>3. row[r].decision \in Decision(Requests)
  BY <1>1 DEF AuditRow
<1>4. /\ audit_log' = audit_log \cup {row[r]}
      /\ dispositions' = dispositions \cup {row[r].decision}
      /\ row' = row /\ body' = body /\ loaded' = loaded /\ reply' = reply
      /\ pc' = [pc EXCEPT ![r] = "committed"]
      /\ pc[r] = "answered"
  BY DEF Commit
<1>5. \A k \in Cases : status'[k] = IF WritesCase(r) /\ k = c
                                    THEN row[r].status ELSE status[k]
  BY <1>1 DEF Commit, IInv, TypeOK
<1>6. \A k \in Cases : status[k] # "queued" => status'[k] # "queued"
  BY <1>2, <1>5
<1>7. TypeOK'
  <2>1. status' \in [Cases -> Statuses]
    BY <1>1, <1>2 DEF Commit, IInv, TypeOK
  <2>2. row_lock' \in [Cases -> Requests \cup {NoRequest}]
    BY UnlockedType DEF Commit, IInv
  <2> QED
    BY <1>1, <1>3, <2>1, <2>2 DEF Commit, IInv, TypeOK, Finished
<1>8. RequestsCarryValidBodies' /\ RowsMatchBodies'
  BY <1>4 DEF IInv, TypeOK, RequestsCarryValidBodies, RowsMatchBodies,
              Accepted, Composed
<1>9. PendingWasDecided'
  BY <1>4, <1>6 DEF IInv, TypeOK, PendingWasDecided, RequestsCarryValidBodies,
                    Accepted
<1>10. TablesHoldTheCommitted'
  <2>1. {q \in Requests : pc'[q] = "committed"}
          = {q \in Requests : pc[q] = "committed"} \cup {r}
    BY <1>4 DEF IInv, TypeOK
  <2> QED
    BY <1>4, <2>1 DEF IInv, TablesHoldTheCommitted
<1>11. StatusHasProvenance'
  <2> SUFFICES ASSUME NEW k \in Cases
               PROVE  IF status'[k] = "queued"
                      THEN Rows(k)' = {}
                      ELSE \E a \in Rows(k)' : a.status = status'[k]
    BY DEF StatusHasProvenance
  <2>1. Rows(k)' = Rows(k) \cup (IF k = c THEN {row[r]} ELSE {})
    BY <1>1, <1>4 DEF Rows
  <2>2. IF status[k] = "queued"
        THEN Rows(k) = {}
        ELSE \E a \in Rows(k) : a.status = status[k]
    BY DEF IInv, StatusHasProvenance
  <2>3. CASE k # c
    BY <1>5, <2>1, <2>2, <2>3
  <2>4. CASE k = c /\ WritesCase(r)
    BY <1>2, <1>5, <2>1, <2>4
  <2>5. CASE k = c /\ ~WritesCase(r)
    <3>1. loaded[r] = "pending"
      BY <1>1, <1>2, <2>5, RoutingLeavesQueue
         DEF WritesCase, IInv, TypeOK, OpenStatuses
    <3>2. status[k] # "queued"
      BY <2>5, <3>1, <1>4 DEF IInv, PendingWasDecided, Accepted
    <3> QED
      BY <1>5, <2>1, <2>2, <2>5, <3>2
  <2> QED
    BY <2>3, <2>4, <2>5
<1>12. ErrorsAreFinal'
  BY <1>4 DEF IInv, TypeOK, ErrorsAreFinal
<1>13. ConflictMeansClosed'
  BY <1>4 DEF IInv, ConflictMeansClosed, Rows
<1> QED
  BY <1>7, <1>8, <1>9, <1>10, <1>11, <1>12, <1>13 DEF IInv

(* A failure ends a request and touches no table.                          *)
LEMMA FaultStep ==
  ASSUME IInv, NEW r \in Requests, Fault(r)
  PROVE  IInv'
<1>1. /\ UNCHANGED tables
      /\ body' = body /\ loaded' = loaded /\ row' = row
      /\ pc[r] \notin Finished
      /\ pc' = [pc EXCEPT ![r] = "rolled_back"]
      /\ \/ reply' = reply
         \/ reply' = [reply EXCEPT ![r] = "INTERNAL_ERROR"]
  BY DEF Fault, CommitFails, ServerError, Finished
<1>2. TypeOK'
  BY UnlockedType
     DEF IInv, TypeOK, Fault, CommitFails, ServerError, tables, Finished, Errors
<1>3. RequestsCarryValidBodies' /\ RowsMatchBodies' /\ PendingWasDecided'
  BY <1>1 DEF IInv, TypeOK, tables, RequestsCarryValidBodies, RowsMatchBodies,
              PendingWasDecided, Accepted, Composed
<1>4. TablesHoldTheCommitted' /\ StatusHasProvenance'
  BY <1>1, TablesUnchanged DEF IInv, TypeOK, Finished
<1>5. ErrorsAreFinal' /\ ConflictMeansClosed'
  BY <1>1 DEF IInv, TypeOK, ErrorsAreFinal, ConflictMeansClosed, Rows, tables
<1> QED
  BY <1>2, <1>3, <1>4, <1>5 DEF IInv

(* A restart loses the unfinished requests and touches no table.           *)
LEMMA RestartStep ==
  ASSUME IInv, NEW b \in Builds, Restart(b)
  PROVE  IInv'
<1>1. /\ UNCHANGED tables
      /\ body' = body /\ loaded' = loaded /\ row' = row /\ reply' = reply
      /\ \A r \in Requests : pc'[r] = IF pc[r] \in Working THEN "lost" ELSE pc[r]
  BY DEF Restart
<1>2. TypeOK'
  BY UnlockedType
     DEF IInv, TypeOK, Restart, tables, Finished
<1>3. RequestsCarryValidBodies' /\ RowsMatchBodies' /\ PendingWasDecided'
  BY <1>1 DEF IInv, TypeOK, tables, RequestsCarryValidBodies, RowsMatchBodies,
              PendingWasDecided, Accepted, Composed, Working
<1>4. TablesHoldTheCommitted' /\ StatusHasProvenance'
  BY <1>1, TablesUnchanged DEF Working
<1>5. ErrorsAreFinal' /\ ConflictMeansClosed'
  BY <1>1 DEF IInv, ErrorsAreFinal, ConflictMeansClosed, Rows, tables, Working
<1> QED
  BY <1>2, <1>3, <1>4, <1>5 DEF IInv

(* Every step keeps the invariant.                                         *)
LEMMA NextInvariant == IInv /\ [Next]_vars => IInv'
<1> SUFFICES ASSUME IInv, [Next]_vars PROVE IInv'
  OBVIOUS
<1>1. ASSUME NEW r \in Requests, Proceed(r) PROVE IInv'
  BY <1>1, LoadStep, RefuseStep, ComposeStep, FlushStep, AnswerStep, CommitStep
     DEF Proceed
<1>2. ASSUME UNCHANGED vars PROVE IInv'
  BY <1>2 DEF IInv, vars, tables, TypeOK, RequestsCarryValidBodies,
              RowsMatchBodies, TablesHoldTheCommitted, PendingWasDecided,
              ErrorsAreFinal, StatusHasProvenance, ConflictMeansClosed, Rows
<1> QED
  BY <1>1, <1>2, PostStep, FaultStep, RestartStep DEF Next

(* The strengthened invariant holds in every reachable state. *)
THEOREM Invariance == Spec => []IInv
BY InitInvariant, NextInvariant, PTL DEF Spec

-----------------------------------------------------------------------------
(* Every value of the state is of its declared type, at any scale. *)
THEOREM Typing == Spec => []TypeOK
BY Invariance, PTL DEF IInv

(* A case's status is always accounted for by the audit log. *)
THEOREM Provenance == Spec => []StatusHasProvenance
BY Invariance, PTL DEF IInv

(* A 409 always has a closing decision behind it. *)
THEOREM ConflictsAreReal == Spec => []ConflictMeansClosed
BY Invariance, PTL DEF IInv

(* Both tables are the rows of the committed requests. *)
LEMMA CommittedIsAudited == IInv => EveryDecisionIsAudited
<1> SUFFICES ASSUME IInv PROVE EveryDecisionIsAudited
  OBVIOUS
<1> DEFINE committed == {r \in Requests : pc[r] = "committed"}
<1>1. audit_log = {row[r] : r \in committed}
  BY DEF IInv, TablesHoldTheCommitted
<1>2. dispositions = {row[r].decision : r \in committed}
  BY DEF IInv, TablesHoldTheCommitted
<1>3. \A r \in committed : row[r].decision.id = r
  BY DEF IInv, RowsMatchBodies, Composed
<1>4. dispositions = {a.decision : a \in audit_log}
  BY <1>1, <1>2
<1> QED
  BY <1>1, <1>3, <1>4 DEF EveryDecisionIsAudited

(* An error ends its request before the request is committed. *)
LEMMA ErrorsAreNotCommitted == IInv => ErrorMeansNothingRecorded
BY DEF IInv, ErrorMeansNothingRecorded, ErrorsAreFinal, TablesHoldTheCommitted,
       RowsMatchBodies, Composed

(* The two tables hold the same decisions, each once. *)
THEOREM DecisionsAreAudited == Spec => []EveryDecisionIsAudited
BY CommittedIsAudited, Invariance, PTL

(* A request answered with an error has left nothing behind. *)
THEOREM ErrorsLeaveNothing == Spec => []ErrorMeansNothingRecorded
BY ErrorsAreNotCommitted, Invariance, PTL

-----------------------------------------------------------------------------
(* How far stamps that disagree with the order of commits can mislead.     *)

(* The recorded holds that took c off the queue. *)
FirstHolds(c) == {a \in Rows(c) : /\ a.status = "pending"
                                  /\ loaded[a.decision.id] = "queued"}

(* A case is read, or left, as pending only after such a hold, and is      *)
(* pending again after a decision closed it only by a second one.          *)
PendingOnlyByHolds ==
    /\ \A c \in Cases : status[c] = "pending" => FirstHolds(c) # {}
    /\ \A r \in Requests : pc[r] \in Accepted /\ loaded[r] = "pending"
         => FirstHolds(body[r].case) # {}
    /\ \A c \in Cases :
         (/\ status[c] = "pending"
          /\ \E n \in Rows(c) : /\ loaded[n.decision.id] = "pending"
                                /\ n.status # "pending")
         => \E v, w \in FirstHolds(c) : v # w

(* No two rows carry the same stamp. *)
StampsDiffer ==
    /\ \A r \in Requests : pc[r] \in Composed => row[r].created_at < clock
    /\ \A r, q \in Requests :
         /\ pc[r] \in Composed /\ pc[q] \in Composed
         /\ row[r].created_at = row[q].created_at
         => r = q

HInv == IInv /\ PendingOnlyByHolds /\ StampsDiffer

(* A stamp is the clock's, which it advances.                              *)
LEMMA StampStep ==
  ASSUME IInv, StampsDiffer, [Next]_vars
  PROVE  StampsDiffer'
<1>1. \A r \in Requests : pc[r] \in Composed => row[r].created_at \in Nat
  BY DEF IInv, RowsMatchBodies, AuditRow
<1>2. clock \in Nat
  BY DEF IInv, TypeOK
<1>3. CASE \E r \in Requests : Compose(r)
  <2>1. PICK r \in Requests : Compose(r)
    BY <1>3
  <2>2. /\ \A q \in Requests : q # r => pc'[q] = pc[q] /\ row'[q] = row[q]
        /\ row'[r].created_at = clock
        /\ clock' = clock + 1
    BY <2>1 DEF Compose, IInv, TypeOK
  <2> QED
    BY <1>1, <1>2, <2>2 DEF StampsDiffer
<1>4. CASE ~\E r \in Requests : Compose(r)
  <2> DEFINE Unstamping ==
               /\ row' = row /\ clock' = clock
               /\ \A q \in Requests : pc'[q] \in Composed => pc[q] \in Composed
  <2>1. Unstamping
    <3>1. ASSUME NEW r \in Requests, \E b \in Bodies : Post(r, b)
          PROVE  Unstamping
      BY <3>1 DEF Post, IInv, TypeOK, Composed
    <3>2. ASSUME NEW r \in Requests, Proceed(r)
          PROVE  Unstamping
      BY <1>4, <3>2 DEF Proceed, Load, Refuse, Flush, Answer, Commit, IInv,
                        TypeOK, Composed
    <3>3. ASSUME NEW r \in Requests, Fault(r)
          PROVE  Unstamping
      BY <3>3 DEF Fault, CommitFails, ServerError, IInv, TypeOK, Composed
    <3>4. ASSUME NEW b \in Builds, Restart(b)
          PROVE  Unstamping
      BY <3>4 DEF Restart, IInv, TypeOK, Composed
    <3> QED
      BY <3>1, <3>2, <3>3, <3>4 DEF Next, vars
  <2> QED
    BY <2>1 DEF StampsDiffer
<1> QED
  BY <1>3, <1>4

(* Without a commit the recorded holds stay the same; a request that reads *)
(* a pending case finds the hold that made it so.                          *)
LEMMA HoldsStep ==
  ASSUME IInv, PendingOnlyByHolds, UNCHANGED tables,
         \A q \in Requests : pc[q] = "committed" => loaded'[q] = loaded[q],
         \A q \in Requests : pc'[q] \in Accepted /\ loaded'[q] = "pending" =>
           \/ /\ pc[q] \in Accepted /\ loaded[q] = "pending"
              /\ body'[q] = body[q]
           \/ body'[q].case \in Cases /\ status[body'[q].case] = "pending"
  PROVE  PendingOnlyByHolds'
<1>1. \A a \in audit_log : loaded'[a.decision.id] = loaded[a.decision.id]
  BY DEF IInv, TablesHoldTheCommitted, RowsMatchBodies, Composed
<1>2. /\ audit_log' = audit_log /\ status' = status
      /\ \A c : Rows(c)' = Rows(c) /\ Rows(c) \subseteq audit_log
  BY DEF tables, Rows
<1>3. \A c : FirstHolds(c)' = FirstHolds(c)
  BY <1>1, <1>2 DEF FirstHolds
<1>4. \A c \in Cases : status'[c] = "pending" => FirstHolds(c)' # {}
  BY <1>2, <1>3 DEF PendingOnlyByHolds
<1>5. \A r \in Requests : pc'[r] \in Accepted /\ loaded'[r] = "pending"
        => FirstHolds(body[r].case)' # {}
  <2> SUFFICES ASSUME NEW r \in Requests,
                      pc'[r] \in Accepted, loaded'[r] = "pending"
               PROVE  FirstHolds(body'[r].case) # {}
    BY <1>3
  <2> QED
    BY DEF PendingOnlyByHolds
<1>6. ASSUME NEW c \in Cases, status'[c] = "pending",
             NEW n \in Rows(c)', loaded'[n.decision.id] = "pending",
             n.status # "pending"
      PROVE  \E v, w \in FirstHolds(c)' : v # w
  <2>1. n \in Rows(c) /\ loaded[n.decision.id] = "pending" /\ status[c] = "pending"
    BY <1>1, <1>2, <1>6
  <2>2. \E v, w \in FirstHolds(c) : v # w
    BY <1>6, <2>1 DEF PendingOnlyByHolds
  <2> QED
    BY <1>3, <2>2
<1> QED
  BY <1>4, <1>5, <1>6 DEF PendingOnlyByHolds

(* A commit makes a case pending only by a hold of a queued case; if some  *)
(* decision found the case pending before, there was a first hold already. *)
LEMMA CommitHolds ==
  ASSUME IInv, PendingOnlyByHolds, NEW r \in Requests, Commit(r)
  PROVE  PendingOnlyByHolds'
<1> DEFINE c == body[r].case
<1>1. /\ c \in Cases
      /\ body[r].action \in DispositionActions
      /\ row[r].decision.id = r
      /\ row[r].decision.case = c
      /\ row[r].status = Routing(body[r].action)
      /\ row[r].status # "queued"
      /\ loaded[r] \in {"queued", "pending"}
  BY RoutingLeavesQueue
     DEF IInv, TypeOK, OpenStatuses, RequestsCarryValidBodies, RowsMatchBodies,
         Commit, Accepted, Composed
<1>2. /\ audit_log' = audit_log \cup {row[r]}
      /\ row' = row /\ body' = body /\ loaded' = loaded
      /\ pc[r] = "answered"
      /\ \A q \in Requests : pc'[q] \in Accepted => pc[q] \in Accepted
  BY DEF Commit, IInv, TypeOK, Accepted
<1>3. \A k \in Cases : status'[k] = IF WritesCase(r) /\ k = c
                                    THEN row[r].status ELSE status[k]
  BY <1>1 DEF Commit, IInv, TypeOK
<1>4. row[r] \notin audit_log
  <2> SUFFICES ASSUME NEW q \in Requests, pc[q] = "committed", row[r] = row[q]
               PROVE  FALSE
    BY DEF IInv, TablesHoldTheCommitted
  <2>1. row[q].decision.id = q
    BY DEF IInv, RowsMatchBodies, Composed
  <2> QED
    BY <1>1, <1>2, <2>1
<1>5. \A k : /\ Rows(k)' = Rows(k) \cup {a \in {row[r]} : a.decision.case = k}
             /\ Rows(k) \subseteq audit_log
             /\ FirstHolds(k) \subseteq Rows(k)
             /\ FirstHolds(k) \subseteq FirstHolds(k)'
  BY <1>2 DEF Rows, FirstHolds
<1>6. WritesCase(r) /\ row[r].status = "pending" =>
        \A k : k = c => row[r] \in FirstHolds(k)'
  BY <1>1, <1>2, <1>5 DEF WritesCase, FirstHolds
<1>7. ~WritesCase(r) => row[r].status = "pending"
  BY <1>1 DEF WritesCase
<1>8. \A k \in Cases : status'[k] = "pending" => FirstHolds(k)' # {}
  BY <1>3, <1>5, <1>6 DEF PendingOnlyByHolds
<1>9. \A q \in Requests : pc'[q] \in Accepted /\ loaded'[q] = "pending"
        => FirstHolds(body[q].case)' # {}
  <2> SUFFICES ASSUME NEW q \in Requests,
                      pc'[q] \in Accepted, loaded'[q] = "pending"
               PROVE  FirstHolds(body[q].case)' # {}
    BY <1>2
  <2>1. FirstHolds(body[q].case) # {}
    BY <1>2 DEF PendingOnlyByHolds
  <2> QED
    BY <1>2, <1>5, <2>1
<1>10. ASSUME NEW k \in Cases, status'[k] = "pending",
              NEW n \in Rows(k)', loaded'[n.decision.id] = "pending",
              n.status # "pending"
       PROVE  \E v, w \in FirstHolds(k)' : v # w
  <2>1. CASE WritesCase(r) /\ k = c
    <3>1. row[r] \in FirstHolds(k)'
      BY <1>3, <1>6, <1>10, <2>1
    <3>2. n \in Rows(k)
      BY <1>3, <1>5, <1>10, <2>1
    <3>3. PICK q \in Requests : pc[q] = "committed" /\ n = row[q]
      BY <1>5, <3>2 DEF IInv, TablesHoldTheCommitted
    <3>4. n.decision.id = q /\ body[q].case = k
      BY <3>2, <3>3 DEF IInv, RowsMatchBodies, Composed, Rows
    <3>5. FirstHolds(k) # {}
      BY <1>2, <1>10, <3>3, <3>4 DEF PendingOnlyByHolds, Accepted
    <3>6. PICK w \in FirstHolds(k) : TRUE
      BY <3>5
    <3>7. w \in FirstHolds(k)' /\ w # row[r]
      BY <1>4, <1>5, <3>6
    <3> QED
      BY <3>1, <3>7
  <2>2. CASE ~(WritesCase(r) /\ k = c)
    <3>1. n \in Rows(k) /\ status[k] = "pending"
      BY <1>1, <1>3, <1>5, <1>7, <1>10, <2>2
    <3>2. \E v, w \in FirstHolds(k) : v # w
      BY <1>2, <1>10, <3>1 DEF PendingOnlyByHolds
    <3> QED
      BY <1>5, <3>2
  <2> QED
    BY <2>1, <2>2
<1> QED
  BY <1>8, <1>9, <1>10 DEF PendingOnlyByHolds

(* Every step keeps all three.                                            *)
LEMMA NextHolds == HInv /\ [Next]_vars => HInv'
<1> SUFFICES ASSUME HInv, [Next]_vars PROVE HInv'
  OBVIOUS
<1>0. IInv /\ PendingOnlyByHolds /\ StampsDiffer
  BY DEF HInv
<1>1. ASSUME NEW r \in Requests, NEW b \in Bodies, Post(r, b)
      PROVE  PendingOnlyByHolds'
  BY <1>0, <1>1, HoldsStep DEF Post, IInv, TypeOK, Accepted
<1>2. ASSUME NEW r \in Requests, Load(r)
      PROVE  PendingOnlyByHolds'
  <2>1. body[r].case \in Cases
    BY <1>0, <1>2, AcceptedBody DEF Load, IInv, RequestsCarryValidBodies
  <2> QED
    BY <1>0, <1>2, <2>1, HoldsStep DEF Load, IInv, TypeOK, Accepted
<1>3. ASSUME NEW r \in Requests, Refuse(r) \/ Compose(r) \/ Flush(r) \/ Answer(r)
      PROVE  PendingOnlyByHolds'
  <2>1. UNCHANGED tables /\ loaded' = loaded /\ body' = body
    BY <1>3 DEF Refuse, Compose, Flush, Answer
  <2>2. \A q \in Requests : pc'[q] \in Accepted => pc[q] \in Accepted
    BY <1>0, <1>3 DEF Refuse, Compose, Flush, Answer, IInv, TypeOK, Accepted
  <2> QED
    BY <1>0, <2>1, <2>2, HoldsStep
<1>4. ASSUME NEW r \in Requests, Fault(r)
      PROVE  PendingOnlyByHolds'
  BY <1>0, <1>4, HoldsStep
     DEF Fault, CommitFails, ServerError, IInv, TypeOK, Accepted
<1>5. ASSUME NEW b \in Builds, Restart(b)
      PROVE  PendingOnlyByHolds'
  BY <1>0, <1>5, HoldsStep DEF Restart, Accepted
<1>6. ASSUME UNCHANGED vars
      PROVE  PendingOnlyByHolds'
  BY <1>0, <1>6, HoldsStep DEF vars, tables
<1>7. PendingOnlyByHolds'
  BY <1>0, <1>1, <1>2, <1>3, <1>4, <1>5, <1>6, CommitHolds DEF Next, Proceed
<1> QED
  BY <1>0, <1>7, NextInvariant, StampStep DEF HInv

(* Before any request nothing is pending and nothing stamped.             *)
LEMMA InitHolds == Init => HInv
BY InitInvariant
   DEF Init, HInv, PendingOnlyByHolds, StampsDiffer, Accepted, Composed, Rows

(* Of things a function numbers, one has the smallest number. *)
LEMMA LeastMapped ==
  ASSUME NEW R, NEW f \in [R -> Nat], R # {}
  PROVE  \E x \in R : \A y \in R : f[x] <= f[y]
<1> DEFINE T == {f[y] : y \in R}
<1>1. T \subseteq Nat /\ T # {}
  OBVIOUS
<1>2. PICK n \in T : \A m \in T : n <= m
  <2> HIDE DEF T
  <2> QED
    BY <1>1, SmallestExists
<1> QED
  BY <1>2

(* The rows of a case are told apart by their stamps, all in the past.     *)
LEMMA RowsByStamp ==
  ASSUME HInv, NEW c \in Cases
  PROVE  /\ \A a \in Rows(c) : /\ a.created_at \in Nat
                               /\ a.created_at < clock
                               /\ a.status # "queued"
                               /\ loaded[a.decision.id] \in OpenStatuses
         /\ \A a, e \in Rows(c) : a.created_at = e.created_at => a = e
<1>1. \A a \in Rows(c) : \E r \in Requests :
         a = row[r] /\ pc[r] = "committed"
  BY DEF HInv, IInv, TablesHoldTheCommitted, Rows
<1>2. ASSUME NEW r \in Requests, pc[r] = "committed"
      PROVE  /\ row[r].created_at \in Nat
             /\ row[r].created_at < clock
             /\ row[r].status # "queued"
             /\ row[r].decision.id = r
             /\ loaded[r] \in OpenStatuses
  BY <1>2, RoutingLeavesQueue
     DEF HInv, IInv, TypeOK, StampsDiffer, RowsMatchBodies,
         RequestsCarryValidBodies, AuditRow, Accepted, Composed
<1>3. ASSUME NEW r \in Requests, NEW q \in Requests,
             pc[r] = "committed", pc[q] = "committed",
             row[r].created_at = row[q].created_at
      PROVE  r = q
  BY <1>3 DEF HInv, StampsDiffer, Composed
<1>4. \A a \in Rows(c) : /\ a.created_at \in Nat
                         /\ a.created_at < clock
                         /\ a.status # "queued"
                         /\ loaded[a.decision.id] \in OpenStatuses
  BY <1>1, <1>2
<1>5. \A a, e \in Rows(c) : a.created_at = e.created_at => a = e
  BY <1>1, <1>3
<1> QED
  BY <1>4, <1>5

(* If one row has the greatest stamp, it is the one a reader by stamp finds. *)
LEMMA NewestIsChosen ==
  ASSUME NEW R, NEW m \in R, \A e \in R : e.created_at \in Nat,
         \A e \in R : e = m \/ e.created_at < m.created_at
  PROVE  m = CHOOSE a \in R : \A e \in R : e.created_at <= a.created_at
<1> DEFINE P(a) == a \in R /\ \A e \in R : e.created_at <= a.created_at
           ch == CHOOSE a \in R : \A e \in R : e.created_at <= a.created_at
<1>1. P(m)
  OBVIOUS
<1>2. P(ch)
  BY <1>1
<1>3. ch = m \/ ch.created_at < m.created_at
  BY <1>2
<1>4. m.created_at <= ch.created_at
  BY <1>2
<1> QED
  BY <1>2, <1>3, <1>4

(* Where decisions were made in turn, all but the first found the case     *)
(* pending, and all but the last left it so.                               *)
LEMMA TurnsArePending ==
  ASSUME HInv, NEW c \in Cases, InTurn(c), NEW a \in Rows(c), NEW e \in Rows(c),
         e.created_at < a.created_at
  PROVE  loaded[a.decision.id] = "pending" /\ e.status = "pending"
<1> DEFINE Earlier(b) == {x \in Rows(c) : x.created_at < b.created_at}
           Last(b) == {x \in Earlier(b) :
                         \A y \in Earlier(b) : y.created_at <= x.created_at}
           f == [x \in Rows(c) |-> x.created_at]
           Later == {x \in Rows(c) : e.created_at < x.created_at}
<1>1. ASSUME NEW b \in Later
      PROVE  \E x \in Last(b) : x.status = loaded[b.decision.id]
  <2>1. loaded[b.decision.id] \in IF Earlier(b) = {} THEN {"queued"}
                                  ELSE {x.status : x \in Last(b)}
    BY DEF InTurn
  <2>2. e \in Earlier(b)
    OBVIOUS
  <2> QED
    BY <2>1, <2>2
<1>2. \A b \in Later : loaded[b.decision.id] = "pending"
  BY <1>1, RowsByStamp DEF OpenStatuses
<1>3. PICK b \in Later : \A y \in Later : b.created_at <= y.created_at
  <2> DEFINE g == [x \in Later |-> x.created_at]
  <2>1. g \in [Later -> Nat]
    BY RowsByStamp
  <2>2. Later # {}
    OBVIOUS
  <2>3. \E x \in Later : \A y \in Later : g[x] <= g[y]
    <3> HIDE DEF g, Later
    <3> QED
      BY <2>1, <2>2, LeastMapped
  <2> QED
    BY <2>3
<1>4. Last(b) \subseteq {e}
  BY <1>3, RowsByStamp
<1> QED
  BY <1>1, <1>2, <1>3, <1>4

(* So one that closed the case, if it came last, is the one in force: had  *)
(* a hold been committed after it, two holds would have found the case     *)
(* queued, out of turn.                                                    *)
LEMMA InTurnIsInForce ==
  ASSUME HInv, NEW c \in Cases, Rows(c) # {}, InTurn(c)
  PROVE  Reconstructed(c).status = status[c]
<1> DEFINE g == [x \in Rows(c) |-> clock - x.created_at]
<1>1. PICK m \in Rows(c) : \A e \in Rows(c) : e = m \/ e.created_at < m.created_at
  <2>1. clock \in Nat
    BY DEF HInv, IInv, TypeOK
  <2>2. g \in [Rows(c) -> Nat]
    BY <2>1, RowsByStamp
  <2>3. \E m \in Rows(c) : \A e \in Rows(c) : g[m] <= g[e]
    <3> HIDE DEF g
    <3> QED
      BY <2>2, LeastMapped
  <2>4. PICK m \in Rows(c) : \A e \in Rows(c) : e.created_at <= m.created_at
    BY <2>1, <2>3, RowsByStamp
  <2> QED
    BY <2>4, RowsByStamp
<1>2. Reconstructed(c) = m
  BY <1>1, RowsByStamp, NewestIsChosen DEF Reconstructed
<1>3. PICK a \in Rows(c) : a.status = status[c]
  BY DEF HInv, IInv, StatusHasProvenance
<1>4. CASE a # m
  <2>1. a.created_at < m.created_at
    BY <1>1, <1>4
  <2>2. loaded[m.decision.id] = "pending" /\ status[c] = "pending"
    BY <1>3, <2>1, TurnsArePending
  <2>3. \A v, w \in FirstHolds(c) : v = w
    <3> SUFFICES ASSUME NEW v \in FirstHolds(c), NEW w \in FirstHolds(c)
                 PROVE  v = w
      OBVIOUS
    <3>1. /\ v \in Rows(c) /\ loaded[v.decision.id] # "pending"
          /\ w \in Rows(c) /\ loaded[w.decision.id] # "pending"
      BY DEF FirstHolds
    <3>2. ~(v.created_at < w.created_at) /\ ~(w.created_at < v.created_at)
      BY <3>1, TurnsArePending
    <3> QED
      BY <3>1, <3>2, RowsByStamp
  <2>4. m.status = "pending"
    BY <2>2, <2>3 DEF HInv, PendingOnlyByHolds
  <2> QED
    BY <1>2, <2>2, <2>4
<1> QED
  BY <1>2, <1>3, <1>4

(* Reconstruction misleads only about cases on which a decision was made   *)
(* on a stale read, in whatever order requests are stamped, committed, cut *)
(* short or lost (record_disposition, reconstruct_decision).               *)
THEOREM MisleadingIsStale == Spec => []OnlyStaleReadsMislead
<1>1. HInv => OnlyStaleReadsMislead
  BY InTurnIsInForce DEF OnlyStaleReadsMislead
<1> QED
  BY <1>1, InitHolds, NextHolds, PTL DEF Spec

-----------------------------------------------------------------------------
(* 2. The refinement. *)

InHand == {"loaded", "composed", "flushed", "answered"}

(* At most one request of a case is at work. *)
OneAtATime ==
    \A r, q \in Requests : /\ pc[r] \in Working /\ pc[q] \in Working
                           /\ body[r].case = body[q].case
                           => r = q

(* So what a request read of its case is still so. *)
LoadedIsCurrent ==
    \A r \in Requests : pc[r] \in InHand => loaded[r] = status[body[r].case]

(* The checks a request passed, and the decision its row carries. *)
GovernanceHolds ==
    /\ \A r \in Requests : pc[r] \in Accepted =>
         /\ body[r].reason
         /\ NeedsRationale(body[r].case, body[r].action) => body[r].rationale
    /\ \A r \in Requests : pc[r] \in Composed =>
         row[r].decision = [id |-> r, case |-> body[r].case,
                            action |-> body[r].action, reason |-> body[r].reason,
                            rationale |-> body[r].rationale,
                            deviated |-> body[r].action # Recommended[body[r].case]]

(* Stamps follow the order of commits on a case. *)
StampsInOrder ==
    /\ \A a \in audit_log : a.created_at < clock
    /\ \A r \in Requests : pc[r] \in InHand \ {"loaded"} =>
         /\ row[r].created_at < clock
         /\ \A a \in Rows(body[r].case) : a.created_at < row[r].created_at

(* m is the one row of c with the greatest stamp. *)
Newest(c, m) == /\ m \in Rows(c)
                /\ \A e \in Rows(c) : e = m \/ e.created_at < m.created_at

NewestExplainsStatus ==
    \A c \in Cases : Rows(c) # {} =>
        \E m \in Rows(c) : Newest(c, m) /\ m.status = status[c]

SerialInv == /\ IInv
             /\ OneAtATime
             /\ LoadedIsCurrent
             /\ GovernanceHolds
             /\ StampsInOrder
             /\ NewestExplainsStatus

-----------------------------------------------------------------------------
(* The newest row of a case, if there is one, is the one reconstructed.    *)
LEMMA ReconstructedIsNewest ==
  ASSUME SerialInv, NEW c \in Cases, NEW m, Newest(c, m)
  PROVE  Reconstructed(c) = m
<1>1. \A e \in Rows(c) : e.created_at \in Nat
  BY DEF SerialInv, IInv, TypeOK, AuditRow, Rows
<1> QED
  BY <1>1, NewestIsChosen DEF Newest, Reconstructed

(* Before any request, nothing is loaded and no row is stamped.            *)
LEMMA InitSerial == Init => SerialInv
BY InitInvariant
   DEF Init, SerialInv, OneAtATime, LoadedIsCurrent, GovernanceHolds,
       StampsInOrder, NewestExplainsStatus, Rows, Working, InHand, Accepted,
       Composed

(* A step that leaves the tables alone leaves the newest rows alone. *)
LEMMA NewestUnchanged ==
  ASSUME NewestExplainsStatus, UNCHANGED tables
  PROVE  NewestExplainsStatus'
BY DEF NewestExplainsStatus, Newest, Rows, tables

(* A client that waits for the end posts only on a case nobody works on.   *)
LEMMA PostSerial ==
  ASSUME ClientWaits = "end", SerialInv, IInv',
         NEW r \in Requests, NEW b \in Bodies, Post(r, b)
  PROVE  SerialInv'
<1>1. /\ pc' = [pc EXCEPT ![r] = "received"]
      /\ body' = [body EXCEPT ![r] = b]
      /\ UNCHANGED <<tables, loaded, row, clock>>
      /\ pc[r] = "unsent"
  BY DEF Post
<1>2. \A q \in Requests : pc[q] \in Working /\ body[q].case = b.case => FALSE
  BY DEF Post, MayPost, Working, Finished
<1>3. OneAtATime'
  BY <1>1, <1>2 DEF SerialInv, IInv, TypeOK, OneAtATime
<1>4. LoadedIsCurrent' /\ GovernanceHolds' /\ StampsInOrder'
  BY <1>1 DEF SerialInv, IInv, TypeOK, LoadedIsCurrent, GovernanceHolds,
              StampsInOrder, Rows, tables, InHand, Accepted, Composed
<1> QED
  BY <1>1, <1>3, <1>4, NewestUnchanged DEF SerialInv

(* The steps of the handler before its commit keep the discipline.         *)
LEMMA ProceedSerial ==
  ASSUME SerialInv, IInv', NEW r \in Requests,
         Load(r) \/ Refuse(r) \/ Compose(r) \/ Flush(r) \/ Answer(r)
  PROVE  SerialInv'
<1>1. /\ UNCHANGED <<tables, body>>
      /\ pc[r] \in Working
      /\ \A q \in Requests : q # r => pc'[q] = pc[q] /\ loaded'[q] = loaded[q]
                                                     /\ row'[q] = row[q]
  BY DEF SerialInv, IInv, TypeOK, Load, Refuse, Compose, Flush, Answer, Working
<1>2. OneAtATime'
  BY <1>1 DEF SerialInv, OneAtATime, Working
<1>3. LoadedIsCurrent'
  BY <1>1 DEF SerialInv, IInv, TypeOK, LoadedIsCurrent, InHand, tables,
              Load, Refuse, Compose, Flush, Answer
<1>4. GovernanceHolds'
  <2>1. CASE Load(r)
    <3>1. body[r] \in Body /\ Refusal(body[r]) = "none"
      BY <2>1 DEF Load, SerialInv, IInv, RequestsCarryValidBodies
    <3>2. /\ body[r].reason
          /\ NeedsRationale(body[r].case, body[r].action) => body[r].rationale
      BY <3>1 DEF Refusal
    <3> QED
      BY <2>1, <3>2 DEF Load, SerialInv, IInv, TypeOK, GovernanceHolds,
                        Accepted, Composed
  <2>2. CASE Compose(r)
    BY <2>2 DEF Compose, SerialInv, IInv, TypeOK, GovernanceHolds,
                Accepted, Composed
  <2>3. CASE Refuse(r) \/ Flush(r) \/ Answer(r)
    BY <2>3 DEF Refuse, Flush, Answer, SerialInv, IInv, TypeOK,
                GovernanceHolds, Accepted, Composed
  <2> QED
    BY <2>1, <2>2, <2>3
<1>5. StampsInOrder'
  <2>1. CASE Compose(r)
    <3>1. row'[r].created_at = clock /\ clock' = clock + 1 /\ clock \in Nat
      BY <2>1 DEF Compose, SerialInv, IInv, TypeOK
    <3>2. \A a \in audit_log : a.created_at \in Nat /\ a.created_at < clock
      BY DEF SerialInv, IInv, TypeOK, AuditRow, StampsInOrder
    <3>3. \A q \in Requests : pc[q] \in InHand \ {"loaded"} =>
             row[q].created_at \in Nat
      BY DEF SerialInv, IInv, RowsMatchBodies, AuditRow, InHand, Composed
    <3>4. \A q \in Requests : q # r /\ pc'[q] \in InHand \ {"loaded"} =>
             /\ row'[q].created_at < clock'
             /\ \A a \in Rows(body[q].case) : a.created_at < row'[q].created_at
      BY <1>1, <3>1, <3>3 DEF SerialInv, StampsInOrder
    <3>5. /\ row'[r].created_at < clock'
          /\ \A a \in Rows(body[r].case) : a.created_at < row'[r].created_at
      BY <3>1, <3>2 DEF Rows
    <3>6. \A a \in audit_log : a.created_at < clock'
      BY <3>1, <3>2
    <3> QED
      BY <1>1, <3>4, <3>5, <3>6 DEF StampsInOrder, Rows, tables
  <2>2. CASE Load(r) \/ Refuse(r) \/ Flush(r) \/ Answer(r)
    BY <2>2 DEF Load, Refuse, Flush, Answer, SerialInv, IInv, TypeOK,
                StampsInOrder, Rows, tables, InHand
  <2> QED
    BY <2>1, <2>2
<1> QED
  BY <1>1, <1>2, <1>3, <1>4, <1>5, NewestUnchanged DEF SerialInv

(* The row a commit adds becomes the newest of its case. *)
LEMMA CommitNewest ==
  ASSUME SerialInv, NEW r \in Requests, Commit(r),
         NEW c, c = body[r].case, NEW m, m = row[r]
  PROVE  /\ Newest(c, m)'
         /\ status' = [status EXCEPT ![c] = m.status]
<1>1. /\ c \in Cases
      /\ m.decision.case = c
      /\ m.status = Routing(body[r].action)
      /\ pc[r] = "answered"
      /\ audit_log' = audit_log \cup {m}
  BY DEF SerialInv, IInv, RequestsCarryValidBodies, RowsMatchBodies, Commit,
         Accepted, Composed
<1>2. Rows(c)' = Rows(c) \cup {m}
  BY <1>1 DEF Rows
<1>3. \A a \in Rows(c) : a.created_at < m.created_at
  BY <1>1 DEF SerialInv, StampsInOrder, InHand
<1>4. Newest(c, m)'
  BY <1>1, <1>2, <1>3 DEF Newest
<1>5. CASE WritesCase(r)
  BY <1>1, <1>4, <1>5 DEF Commit
<1>6. CASE ~WritesCase(r)
  <2>1. m.status = status[c]
    BY <1>1, <1>6 DEF WritesCase, SerialInv, LoadedIsCurrent, InHand
  <2> QED
    BY <1>1, <1>4, <1>6, <2>1 DEF Commit, SerialInv, IInv, TypeOK
<1> QED
  BY <1>5, <1>6

(* The commit makes its row the newest one and the status its own.         *)
LEMMA CommitSerial ==
  ASSUME SerialInv, IInv', NEW r \in Requests, Commit(r)
  PROVE  SerialInv'
<1> PICK c : c = body[r].case
  OBVIOUS
<1> PICK m : m = row[r]
  OBVIOUS
<1>1. /\ c \in Cases
      /\ m.decision.case = c
      /\ pc[r] = "answered"
      /\ pc' = [pc EXCEPT ![r] = "committed"]
      /\ audit_log' = audit_log \cup {m}
      /\ UNCHANGED <<body, loaded, row, clock>>
  BY DEF SerialInv, IInv, RequestsCarryValidBodies, RowsMatchBodies, Commit,
         Accepted, Composed
<1>2. \A q \in Requests : q # r /\ pc[q] \in Working => body[q].case # c
  BY <1>1 DEF SerialInv, OneAtATime, Working
<1>3. \A k \in Cases : k # c => status'[k] = status[k] /\ Rows(k)' = Rows(k)
  BY <1>1, CommitNewest DEF Rows, SerialInv, IInv, TypeOK
<1>4. OneAtATime'
  BY <1>1 DEF SerialInv, IInv, TypeOK, OneAtATime, Working
<1>5. \A q \in Requests : pc'[q] \in InHand =>
         q # r /\ pc[q] \in InHand /\ body[q].case # c /\ body[q].case \in Cases
  BY <1>1, <1>2 DEF InHand, Working, SerialInv, IInv, TypeOK,
                    RequestsCarryValidBodies, Accepted
<1>6. LoadedIsCurrent'
  BY <1>1, <1>3, <1>5 DEF SerialInv, LoadedIsCurrent
<1>7. GovernanceHolds'
  BY <1>1 DEF SerialInv, IInv, TypeOK, GovernanceHolds, Accepted, Composed
<1>8. StampsInOrder'
  <2>1. \A a \in audit_log' : a.created_at < clock'
    BY <1>1 DEF SerialInv, StampsInOrder, InHand
  <2>2. ASSUME NEW q \in Requests, pc'[q] \in InHand \ {"loaded"}
        PROVE  /\ row'[q].created_at < clock'
               /\ \A a \in Rows(body[q].case)' : a.created_at < row'[q].created_at
    <3>1. q # r /\ pc[q] \in InHand \ {"loaded"} /\ body[q].case # c
                /\ body[q].case \in Cases
      BY <1>1, <1>5, <2>2 DEF SerialInv, IInv, TypeOK
    <3>2. Rows(body[q].case)' = Rows(body[q].case)
      BY <1>1, <1>3, <3>1
    <3> QED
      BY <1>1, <3>1, <3>2 DEF SerialInv, StampsInOrder
  <2> QED
    BY <1>1, <2>1, <2>2 DEF StampsInOrder, Rows
<1>9. NewestExplainsStatus'
  <2> SUFFICES ASSUME NEW k \in Cases, Rows(k)' # {}
               PROVE  \E n \in Rows(k)' : Newest(k, n)' /\ n.status = status'[k]
    BY DEF NewestExplainsStatus, Newest, Rows
  <2>1. CASE k = c
    <3>1. Newest(c, m)' /\ status'[c] = m.status
      BY <1>1, CommitNewest DEF SerialInv, IInv, TypeOK
    <3> QED
      BY <2>1, <3>1 DEF Newest
  <2>2. CASE k # c
    <3>1. Rows(k)' = Rows(k) /\ status'[k] = status[k]
      BY <1>3, <2>2
    <3>2. PICK n \in Rows(k) : Newest(k, n) /\ n.status = status[k]
      BY <3>1 DEF SerialInv, NewestExplainsStatus
    <3>3. Newest(k, n)'
      BY <3>1, <3>2 DEF Newest
    <3> QED
      BY <3>1, <3>2, <3>3
  <2> QED
    BY <2>1, <2>2
<1> QED
  BY <1>4, <1>6, <1>7, <1>8, <1>9 DEF SerialInv

(* A failed request leaves the case as it found it.                        *)
LEMMA FaultSerial ==
  ASSUME SerialInv, IInv',
         \/ \E r \in Requests : Fault(r)
         \/ \E b \in Builds : Restart(b)
  PROVE  SerialInv'
<1>1. /\ UNCHANGED <<tables, body, loaded, row, clock>>
      /\ \A q \in Requests : \/ pc'[q] = pc[q]
                             \/ pc'[q] \in {"rolled_back", "lost"}
  BY DEF Fault, CommitFails, ServerError, Restart, SerialInv, IInv, TypeOK
<1>2. OneAtATime' /\ LoadedIsCurrent' /\ GovernanceHolds' /\ StampsInOrder'
  BY <1>1 DEF SerialInv, OneAtATime, LoadedIsCurrent, GovernanceHolds,
              StampsInOrder, Rows, tables, Working, InHand, Accepted, Composed
<1> QED
  BY <1>1, <1>2, NewestUnchanged DEF SerialInv

(* Every step keeps the serial invariant.                                  *)
LEMMA NextSerial == ClientWaits = "end" /\ SerialInv /\ [Next]_vars => SerialInv'
<1> SUFFICES ASSUME ClientWaits = "end", SerialInv, [Next]_vars PROVE SerialInv'
  OBVIOUS
<1>1. IInv'
  BY NextInvariant DEF SerialInv
<1>2. CASE Next
  BY <1>1, <1>2, PostSerial, ProceedSerial, CommitSerial, FaultSerial
     DEF Next, Proceed
<1>3. CASE UNCHANGED vars
  BY <1>1, <1>3 DEF vars, SerialInv, OneAtATime, LoadedIsCurrent, GovernanceHolds,
       StampsInOrder, NewestExplainsStatus, Newest, Rows, Accepted, Composed,
       NeedsRationale
<1> QED
  BY <1>2, <1>3

(* If clients wait for the end, one request at a time works on a case.     *)
THEOREM SerialInvariance == ClientWaits = "end" => (Spec => []SerialInv)
<1> SUFFICES ASSUME ClientWaits = "end" PROVE Spec => []SerialInv
  OBVIOUS
<1>1. SerialInv /\ [Next]_vars => SerialInv'
  BY NextSerial
<1> QED
  BY <1>1, InitSerial, PTL DEF Spec

-----------------------------------------------------------------------------
(* Without overlap, the decision the log reconstructs explains the status. *)
THEOREM ReconstructionIsCurrent ==
  ClientWaits = "end" => (Spec => []ReconstructionExplainsStatus)
<1>1. SerialInv => ReconstructionExplainsStatus
  BY ReconstructedIsNewest
     DEF ReconstructionExplainsStatus, SerialInv, NewestExplainsStatus
<1> QED
  BY <1>1, SerialInvariance, PTL

(* Without overlap, the 409 contract holds: no decision on a closed case. *)
THEOREM ContractHolds == ClientWaits = "end" => (Spec => DecidedOnlyWhileOpen)
<1> SUFFICES ASSUME ClientWaits = "end" PROVE Spec => DecidedOnlyWhileOpen
  OBVIOUS
<1>1. ASSUME SerialInv, Next
      PROVE  \A d \in dispositions' \ dispositions : status[d.case] \in OpenStatuses
  <2>1. ASSUME NEW r \in Requests, Commit(r)
        PROVE  \A d \in dispositions' \ dispositions :
                  status[d.case] \in OpenStatuses
    BY <1>1, <2>1 DEF Commit, SerialInv, IInv, TypeOK, RequestsCarryValidBodies,
       RowsMatchBodies, LoadedIsCurrent, InHand, Accepted, Composed
  <2>2. CASE UNCHANGED dispositions
    BY <2>2
  <2> QED
    BY <1>1, <2>1, <2>2 DEF Next, Proceed, Fault, Post, Load, Refuse, Compose,
       Flush, Answer, CommitFails, ServerError, Restart, tables
<1>2. SerialInv /\ [Next]_vars =>
        [\A d \in dispositions' \ dispositions :
            status[d.case] \in OpenStatuses]_vars
  BY <1>1
<1> QED
  BY <1>2, SerialInvariance, PTL DEF Spec, DecidedOnlyWhileOpen

LatestOf(c) == IF Rows(c) = {} THEN NoRequest ELSE Reconstructed(c).decision.id

(* A commit is the ledger's Record of the decision in the request's row. *)
LEMMA CommitRecords ==
  ASSUME SerialInv, SerialInv', NEW r \in Requests, Commit(r)
  PROVE  Ledger!Record(row[r].decision) /\ row[r].decision \in Decision(Requests)
<1> PICK c : c = body[r].case
  OBVIOUS
<1> PICK m : m = row[r]
  OBVIOUS
<1> PICK d : d = row[r].decision
  OBVIOUS
<1>1. /\ c \in Cases
      /\ body[r].action \in DispositionActions
      /\ row[r] \in AuditRow
      /\ row[r].status = Routing(body[r].action)
      /\ row[r].decision.case = c
      /\ d = [id |-> r, case |-> c, action |-> body[r].action,
              reason |-> body[r].reason, rationale |-> body[r].rationale,
              deviated |-> body[r].action # Recommended[c]]
      /\ body[r].reason
      /\ NeedsRationale(c, body[r].action) => body[r].rationale
      /\ pc[r] = "answered"
  BY DEF SerialInv, IInv, RequestsCarryValidBodies, RowsMatchBodies,
         GovernanceHolds, Commit, Accepted, Composed
<1>0. /\ m.decision = d
      /\ d.id = r /\ d.case = c /\ d.action = body[r].action
      /\ d.reason = body[r].reason /\ d.rationale = body[r].rationale
      /\ d.deviated = (d.action # Recommended[c])
  BY <1>1
<1>2. d.id \notin {e.id : e \in dispositions}
  BY <1>1 DEF SerialInv, IInv, TablesHoldTheCommitted, RowsMatchBodies, Composed
<1>3. status[c] \in OpenStatuses
  BY <1>1 DEF SerialInv, IInv, TypeOK, LoadedIsCurrent, InHand
<1>4. status' = [status EXCEPT ![c] = Routing(d.action)]
  BY <1>1, CommitNewest
<1>5. dispositions' = dispositions \cup {d}
  BY DEF Commit
<1>6. [k \in Cases |-> LatestOf(k)]'
        = [[k \in Cases |-> LatestOf(k)] EXCEPT ![c] = d.id]
  <2>1. LatestOf(c)' = r
    <3>1. Newest(c, m)'
      BY CommitNewest
    <3>2. Reconstructed(c)' = m
      <4>1. \A e \in Rows(c)' : e.created_at \in Nat
        BY DEF SerialInv, IInv, TypeOK, AuditRow, Rows
      <4>2. /\ m \in Rows(c)'
            /\ \A e \in Rows(c)' : e = m \/ e.created_at < m.created_at
        BY <3>1 DEF Newest
      <4>3. m = CHOOSE a \in Rows(c)' :
                  \A e \in Rows(c)' : e.created_at <= a.created_at
        BY <4>1, <4>2, NewestIsChosen
      <4> QED
        BY <4>3 DEF Reconstructed
    <3>3. Rows(c)' # {}
      BY <3>1 DEF Newest
    <3> QED
      BY <1>0, <3>2, <3>3 DEF LatestOf
  <2>2. \A k \in Cases : k # c => LatestOf(k)' = LatestOf(k)
    <3> SUFFICES ASSUME NEW k \in Cases, k # c PROVE LatestOf(k)' = LatestOf(k)
      OBVIOUS
    <3>1. Rows(k)' = Rows(k)
      BY <1>1 DEF Rows, Commit
    <3> QED
      BY <3>1 DEF LatestOf, Reconstructed
  <2>3. LatestOf(c)' = d.id
    BY <1>0, <2>1
  <2> QED
    BY <1>1, <2>2, <2>3
<1>7. d \in Decision(Requests)
  BY <1>1 DEF AuditRow
<1>8. d.reason /\ (NeedsRationale(d.case, d.action) => d.rationale)
  BY <1>0, <1>1
<1>9. Ledger!Record(d)
  BY <1>0, <1>2, <1>3, <1>4, <1>5, <1>6, <1>8
     DEF Ledger!Record, LatestOf, OpenStatuses, NeedsRationale, Routing,
         Ledger!OpenStatuses, Ledger!NeedsRationale, Ledger!Routing
<1> QED
  BY <1>7, <1>9

(* A step that leaves the tables alone is a stutter of the ledger.         *)
LEMMA TablesKeepLedger == UNCHANGED tables => UNCHANGED Ledger!vars
BY DEF tables, Ledger!vars, Rows, Reconstructed

(* An empty service is an empty ledger. *)
LEMMA StartsAsLedger == Init => Ledger!Init
BY DEF Init, Ledger!Init, Rows

(* Every step of the service is one of the ledger's, or a stutter of it.   *)
LEMMA StepsAsLedger ==
  SerialInv /\ SerialInv' /\ [Next]_vars => [Ledger!Next]_(Ledger!vars)
<1> SUFFICES ASSUME SerialInv, SerialInv', [Next]_vars
             PROVE  Ledger!Next \/ UNCHANGED Ledger!vars
  OBVIOUS
<1>1. ASSUME NEW r \in Requests, Commit(r) PROVE Ledger!Next
  BY <1>1, CommitRecords DEF Ledger!Next, Ledger!Decision, Decision,
       Ledger!DispositionActions, DispositionActions
<1>2. ASSUME UNCHANGED tables PROVE UNCHANGED Ledger!vars
  BY <1>2, TablesKeepLedger
<1> QED
  BY <1>1, <1>2 DEF Next, Proceed, Fault, Post, Load, Refuse, Compose, Flush,
                    Answer, CommitFails, ServerError, Restart, vars, tables

(* The service implements the abstract ledger. *)
THEOREM Refinement == ClientWaits = "end" => (Spec => ImplementsLedger)
BY StartsAsLedger, StepsAsLedger, SerialInvariance, PTL
   DEF Spec, ImplementsLedger, Ledger!Spec

-----------------------------------------------------------------------------
(* 3. The workspace. *)

Conflict == "CASE_ALREADY_DISPOSITIONED"

(* v is an explanation the running build shows, or an earlier process did. *)
ReadEarlier(v) == /\ v \in View
                  /\ v.restarts <= restarts
                  /\ v.restarts = restarts => v.explanation = build

Closing(rows) == \E e \in rows : e.status \notin OpenStatuses

(* What each screen shows and what its script is at.                       *)
ScreenOK(a) ==
    /\ script[a] # "idle" => page[a] # NoCase
    /\ view[a] # NoView => ReadEarlier(view[a])
    /\ script[a] = "clicked" => /\ form[a].body \in Bodies
                                /\ form[a].body.case = page[a]
                                /\ ReadEarlier(form[a].seen)
    /\ script[a] = "posting" => /\ pc[sent[a]] # "unsent"
                                /\ sent[a] \in Requests
                                /\ body[sent[a]].case = page[a]
    /\ script[a] \in {"clicked", "posting"} => told[a] = "nothing"
    /\ script[a] = "reading" /\ told[a] = Conflict => Closing(Rows(page[a]))
    /\ script[a] # "idle" => trail[a] = {}

ScreensOK == \A a \in Analysts : ScreenOK(a)

(* What each request was decided on and what was composed of it.           *)
BasesOK == \A r \in Requests :
    /\ pc[r] = "unsent" => row[r] = NoRow /\ reply[r] = "none" /\ ~basis[r].settled
    /\ pc[r] # "unsent" => ReadEarlier(basis[r].seen)

(* A request on a settled case was too late, and the case stays settled.   *)
LateOK == \A r \in Requests : basis[r].settled =>
    /\ body[r].case \in Cases
    /\ Settled(body[r].case)
    /\ pc[r] \in {"received", "refused", "rolled_back", "lost"}
    /\ reply[r] # "OK"

WInv == /\ IInv
        /\ ScreensTyped
        /\ ScreensOK
        /\ BasesOK
        /\ FrozenIsSeenWithinARun
        /\ LateOK
        /\ ConflictIsExplained

-----------------------------------------------------------------------------
(* The invariant holds before any click.                                   *)
LEMMA WInitInvariant == WInit => WInv
<1> SUFFICES ASSUME WInit PROVE WInv
  OBVIOUS
<1>1. IInv
  BY InitInvariant DEF WInit
<1>2. ScreensTyped
  BY DEF WInit, Init, ScreensTyped, NoForm
<1>3. ScreensOK /\ ConflictIsExplained
  BY DEF WInit, ScreensOK, ScreenOK, ConflictIsExplained
<1>4. BasesOK /\ FrozenIsSeenWithinARun /\ LateOK
  BY DEF WInit, Init, BasesOK, FrozenIsSeenWithinARun, LateOK
<1> QED
  BY <1>1, <1>2, <1>3, <1>4 DEF WInv

(* A step of the server on the requests that were sent.                    *)
Server == \/ \E r \in Requests : Proceed(r) \/ Fault(r)
          \/ \E b \in Builds : Restart(b)

(* The server takes back no row and forgets no body, and a build changes   *)
(* with a restart only.                                                    *)
LEMMA ServerKeeps ==
  ASSUME IInv, Server
  PROVE  /\ body' = body
         /\ audit_log \subseteq audit_log'
         /\ restarts' \in Nat /\ restarts <= restarts'
         /\ restarts' = restarts => build' = build
         /\ \A q \in Requests : pc'[q] = "unsent" <=> pc[q] = "unsent"
         /\ \A q \in Requests : pc[q] = "unsent" => row'[q] = row[q] /\ reply'[q] = reply[q]
<1>1. CASE \E b \in Builds : Restart(b)
  BY <1>1 DEF Restart, tables, IInv, TypeOK, Working
<1>2. ASSUME NEW r \in Requests, Fault(r)
      PROVE  /\ body' = body /\ audit_log' = audit_log /\ restarts' = restarts
             /\ build' = build /\ row' = row
             /\ pc[r] # "unsent" /\ pc' = [pc EXCEPT ![r] = "rolled_back"]
             /\ reply' \in {reply, [reply EXCEPT ![r] = "INTERNAL_ERROR"]}
  BY <1>2 DEF Fault, CommitFails, ServerError, tables
<1>3. ASSUME NEW r \in Requests, Proceed(r)
      PROVE  /\ body' = body /\ audit_log \subseteq audit_log' /\ restarts' = restarts
             /\ build' = build /\ pc[r] # "unsent"
             /\ \E p \in Accepted \cup {"refused"} : pc' = [pc EXCEPT ![r] = p]
             /\ \A q \in Requests : q # r => row'[q] = row[q] /\ reply'[q] = reply[q]
  BY <1>3 DEF Proceed, Load, Refuse, Compose, Flush, Answer, Commit, tables,
              Accepted, IInv, TypeOK
<1>4. ASSUME NEW r \in Requests, Fault(r) \/ Proceed(r)
      PROVE  \A q \in Requests : pc'[q] = "unsent" <=> pc[q] = "unsent"
  BY <1>2, <1>3, <1>4 DEF IInv, TypeOK, Accepted
<1> QED
  BY <1>1, <1>2, <1>3, <1>4 DEF Server, IInv, TypeOK

(* An explanation read earlier stays so. *)
LEMMA EarlierKept ==
  ASSUME restarts \in Nat, restarts' \in Nat, restarts <= restarts',
         restarts' = restarts => build' = build
  PROVE  \A v : ReadEarlier(v) => ReadEarlier(v)'
BY DEF ReadEarlier, View

(* A settled case stays settled: no request finds it open again.           *)
LEMMA SettledKept ==
  ASSUME IInv, Server, NEW c \in Cases, Settled(c)
  PROVE  Settled(c)'
<1> DEFINE Under == {"loaded", "composed", "flushed", "answered"}
<1>1. /\ status[c] \notin OpenStatuses
      /\ \A r \in Requests : body[r] # NoBody /\ body[r].case = c => pc[r] \notin Under
  BY DEF Settled
<1>2. CASE \E b \in Builds : Restart(b)
  BY <1>1, <1>2 DEF Settled, Restart, tables
<1>3. ASSUME NEW r \in Requests, Fault(r)
      PROVE  Settled(c)'
  BY <1>1, <1>3 DEF Settled, Fault, CommitFails, ServerError, tables, IInv, TypeOK
<1>4. ASSUME NEW r \in Requests, Proceed(r)
      PROVE  Settled(c)'
  <2>1. CASE Load(r)
    <3>1. body[r] \in Body /\ status[body[r].case] \in OpenStatuses
      BY <2>1, AcceptedBody DEF Load, IInv, RequestsCarryValidBodies
    <3>2. body[r].case # c
      BY <1>1, <3>1
    <3> QED
      BY <1>1, <2>1, <3>2 DEF Load, Settled, tables, IInv, TypeOK
  <2>2. CASE Refuse(r)
    BY <1>1, <2>2 DEF Refuse, Settled, tables, IInv, TypeOK
  <2>3. CASE Compose(r) \/ Flush(r) \/ Answer(r)
    <3>1. /\ pc[r] \in Under /\ body' = body /\ status' = status
          /\ \A q \in Requests : q # r => pc'[q] = pc[q]
      BY <2>3 DEF Compose, Flush, Answer, tables, IInv, TypeOK
    <3>2. body[r] # NoBody
      BY <3>1, ServiceAssumption DEF IInv, RequestsCarryValidBodies, Accepted
    <3> QED
      BY <1>1, <3>1, <3>2 DEF Settled
  <2>4. CASE Commit(r)
    <3>1. /\ pc[r] = "answered" /\ body' = body
          /\ pc' = [pc EXCEPT ![r] = "committed"]
      BY <2>4 DEF Commit
    <3>2. body[r] # NoBody /\ row[r].decision.case = body[r].case
      BY <3>1, ServiceAssumption
         DEF IInv, RequestsCarryValidBodies, RowsMatchBodies, Accepted, Composed
    <3>3. row[r].decision.case # c
      BY <1>1, <3>1, <3>2
    <3>4. status'[c] = status[c]
      BY <2>4, <3>3 DEF Commit, IInv, TypeOK
    <3> QED
      BY <1>1, <3>1, <3>4 DEF Settled, IInv, TypeOK
  <2> QED
    BY <1>4, <2>1, <2>2, <2>3, <2>4 DEF Proceed
<1> QED
  BY <1>2, <1>3, <1>4 DEF Server

(* What a step of the server makes of a request that was too late.         *)
LEMMA LateStep ==
  ASSUME IInv, LateOK, Server, basis' = basis
  PROVE  LateOK'
<1> SUFFICES ASSUME NEW r \in Requests, basis[r].settled
             PROVE  /\ body'[r].case \in Cases
                    /\ Settled(body[r].case)'
                    /\ pc'[r] \in {"received", "refused", "rolled_back", "lost"}
                    /\ reply'[r] # "OK"
  BY DEF LateOK
<1>1. /\ body[r].case \in Cases /\ Settled(body[r].case)
      /\ pc[r] \in {"received", "refused", "rolled_back", "lost"}
      /\ reply[r] # "OK"
  BY DEF LateOK
<1>2. body' = body
  BY ServerKeeps
<1>3. Settled(body[r].case)'
  <2> DEFINE c == body[r].case
  <2>1. \A k \in Cases : Settled(k) => Settled(k)'
    BY SettledKept
  <2> QED
    BY <1>1, <1>2, <2>1 DEF Settled
<1>4. pc'[r] \in {"received", "refused", "rolled_back", "lost"} /\ reply'[r] # "OK"
  <2>1. CASE \E b \in Builds : Restart(b)
    BY <1>1, <2>1 DEF Restart, Working
  <2>2. ASSUME NEW q \in Requests, Fault(q)
        PROVE  pc'[r] \in {"received", "refused", "rolled_back", "lost"} /\ reply'[r] # "OK"
    BY <1>1, <2>2 DEF Fault, CommitFails, ServerError, IInv, TypeOK
  <2>3. ASSUME NEW q \in Requests, Proceed(q)
        PROVE  pc'[r] \in {"received", "refused", "rolled_back", "lost"} /\ reply'[r] # "OK"
    <3>1. CASE q # r
      BY <1>1, <2>3, <3>1 DEF Proceed, Load, Refuse, Compose, Flush, Answer, Commit,
                              IInv, TypeOK
    <3>2. CASE q = r
      <4>1. ~Load(r)
        <5>1. Load(r) => body[r] \in Body /\ status[body[r].case] \in OpenStatuses
          BY AcceptedBody DEF Load, IInv, RequestsCarryValidBodies
        <5> QED
          BY <1>1, <5>1 DEF Settled
      <4>2. Refuse(r)
        BY <1>1, <2>3, <3>2, <4>1 DEF Proceed, Compose, Flush, Answer, Commit
      <4>3. Refusal(body[r]) # "OK"
        BY <4>2, RefusalCodes DEF Refuse, Errors, IInv, RequestsCarryValidBodies
      <4> QED
        BY <4>2, <4>3 DEF Refuse, IInv, TypeOK
    <3> QED
      BY <3>1, <3>2
  <2> QED
    BY <2>1, <2>2, <2>3 DEF Server
<1> QED
  BY <1>1, <1>2, <1>3, <1>4

(* A row is frozen with the explanation of the running build.              *)
LEMMA FrozenStep ==
  ASSUME IInv, BasesOK, FrozenIsSeenWithinARun, Server, basis' = basis,
         ScreensTyped
  PROVE  FrozenIsSeenWithinARun'
<1> SUFFICES ASSUME NEW r \in Requests, row'[r] # NoRow
             PROVE  \/ row'[r].explanation = basis[r].seen.explanation
                    \/ restarts' > basis[r].seen.restarts
  BY DEF FrozenIsSeenWithinARun
<1>1. CASE Compose(r)
  <2>1. ReadEarlier(basis[r].seen)
    BY <1>1 DEF BasesOK, Compose
  <2>2. row'[r].explanation = build /\ restarts' = restarts
    BY <1>1 DEF Compose, IInv, TypeOK
  <2> QED
    BY <2>1, <2>2 DEF ReadEarlier, View, IInv, TypeOK
<1>2. CASE ~Compose(r)
  <2>1. row'[r] = row[r]
    <3>1. ASSUME NEW q \in Requests, Proceed(q) \/ Fault(q)
          PROVE  row'[r] = row[r]
      BY <1>2, <3>1 DEF Proceed, Load, Refuse, Compose, Flush, Answer, Commit,
                        Fault, CommitFails, ServerError, IInv, TypeOK
    <3> QED
      BY <3>1 DEF Server, Restart
  <2>2. pc[r] # "unsent"
    BY <2>1 DEF BasesOK
  <2>3. basis[r].seen.restarts \in Nat
    BY <2>2 DEF BasesOK, ReadEarlier, View
  <2> QED
    BY <2>1, <2>3, ServerKeeps DEF FrozenIsSeenWithinARun, IInv, TypeOK
<1> QED
  BY <1>1, <1>2

(* A step of the server, unseen by the screens.                            *)
LEMMA ServerStep ==
  ASSUME WInv, Server, UNCHANGED screens
  PROVE  WInv'
<1>1. IInv'
  BY NextInvariant DEF WInv, Server, Next
<1>2. /\ page' = page /\ listed' = listed /\ script' = script /\ view' = view
      /\ form' = form /\ sent' = sent /\ told' = told /\ trail' = trail
      /\ basis' = basis
  BY DEF screens
<1>3. \A v : ReadEarlier(v) => ReadEarlier(v)'
  BY ServerKeeps, EarlierKept DEF WInv, IInv, TypeOK
<1>4. ScreensTyped'
  BY <1>2, ServerKeeps DEF WInv, ScreensTyped, View
<1>5. ScreensOK'
  <2>1. \A c : Closing(Rows(c)) => Closing(Rows(c))'
    BY ServerKeeps DEF WInv, Closing, Rows
  <2> QED
    BY <1>2, <1>3, <2>1, ServerKeeps DEF WInv, ScreensOK, ScreenOK
<1>6. BasesOK'
  BY <1>2, <1>3, ServerKeeps DEF WInv, BasesOK
<1>7. FrozenIsSeenWithinARun' /\ LateOK'
  BY <1>2, FrozenStep, LateStep DEF WInv
<1>8. ConflictIsExplained'
  BY <1>2 DEF WInv, ConflictIsExplained
<1> QED
  BY <1>1, <1>4, <1>5, <1>6, <1>7, <1>8 DEF WInv

(* A click's POST: the request is decided on what the page showed, and it  *)
(* is too late if its case is settled by now.                              *)
LEMMA SendStep ==
  ASSUME WInv, NEW a \in Analysts, NEW r \in Requests, Send(a, r)
  PROVE  WInv'
<1> DEFINE b == form[a].body
           entry == [seen |-> form[a].seen, settled |-> Settled(page[a])]
<1>1. /\ script[a] = "clicked" /\ Post(r, b) /\ pc[r] = "unsent"
      /\ sent' = [sent EXCEPT ![a] = r]
      /\ basis' = [basis EXCEPT ![r] = entry]
      /\ form' = [form EXCEPT ![a] = NoForm]
      /\ script' = [script EXCEPT ![a] = "posting"]
      /\ page' = page /\ listed' = listed /\ view' = view /\ told' = told
      /\ trail' = trail
  BY DEF Send, Post
<1>2. /\ b \in Bodies /\ b.case = page[a] /\ page[a] \in Cases
      /\ ReadEarlier(form[a].seen)
  BY <1>1 DEF WInv, ScreensOK, ScreenOK, ScreensTyped
<1>3. /\ pc' = [pc EXCEPT ![r] = "received"] /\ body' = [body EXCEPT ![r] = b]
      /\ status' = status /\ audit_log' = audit_log /\ row' = row
      /\ reply' = reply /\ build' = build /\ restarts' = restarts
  BY <1>1 DEF Post, tables
<1>4. IInv'
  BY <1>1, <1>2, PostStep DEF WInv
<1>5. /\ basis'[r].seen = form[a].seen /\ basis'[r].settled = Settled(page[a])
      /\ \A q \in Requests : q # r => basis'[q] = basis[q]
  BY <1>1 DEF WInv, ScreensTyped
<1>6. ScreensTyped'
  <2>1. entry \in [seen: View \cup {NoView}, settled: BOOLEAN]
    BY <1>2 DEF ReadEarlier, Settled
  <2>2. NoForm \in [body: Body \cup {NoBody}, seen: View \cup {NoView}]
    BY DEF NoForm
  <2> HIDE DEF entry
  <2> QED
    BY <1>1, <1>3, <2>1, <2>2 DEF WInv, ScreensTyped, View
<1>7. \A v : ReadEarlier(v) => ReadEarlier(v)'
  BY <1>3 DEF ReadEarlier, View
<1>8. \A q \in Requests : /\ q # r => pc'[q] = pc[q] /\ body'[q] = body[q]
                          /\ q = r => pc'[q] = "received" /\ body'[q] = b
  BY <1>3 DEF WInv, IInv, TypeOK
<1>9. ScreensOK'
  <2>1. \A c : Rows(c)' = Rows(c)
    BY <1>3 DEF Rows
  <2>2. ASSUME NEW x \in Analysts, x # a
        PROVE  /\ script'[x] = script[x] /\ form'[x] = form[x] /\ sent'[x] = sent[x]
               /\ script[x] = "posting" => sent[x] # r
    BY <1>1, <2>2 DEF WInv, ScreensTyped, ScreensOK, ScreenOK
  <2>3. script'[a] = "posting" /\ sent'[a] = r
    BY <1>1 DEF WInv, ScreensTyped
  <2> QED
    BY <1>1, <1>2, <1>7, <1>8, <2>1, <2>2, <2>3 DEF WInv, ScreensOK, ScreenOK, Closing
<1>10. BasesOK'
  BY <1>2, <1>3, <1>5, <1>7, <1>8 DEF WInv, BasesOK
<1>11. FrozenIsSeenWithinARun'
  BY <1>1, <1>3, <1>5 DEF WInv, BasesOK, FrozenIsSeenWithinARun
<1>12. LateOK'
  <2>1. \A c : Settled(c) => Settled(c)'
    BY <1>3, <1>8 DEF Settled
  <2> QED
    BY <1>1, <1>2, <1>3, <1>5, <1>8, <2>1 DEF WInv, LateOK, BasesOK
<1>13. ConflictIsExplained'
  BY <1>1 DEF WInv, ConflictIsExplained, ScreensTyped
<1> QED
  BY <1>4, <1>6, <1>9, <1>10, <1>11, <1>12, <1>13 DEF WInv

(* What only the screens take part in. *)
Screen(a) == \/ ReadQueue(a)
             \/ \E c \in Cases : ShowCase(a, c)
             \/ \E b \in Bodies : Click(a, b)
             \/ Receive(a) \/ Timeout(a) \/ Disconnect(a)
             \/ ReadTrail(a) \/ ReadFails(a) \/ Back(a)

(* A 409 is told with the case's closing decision already in the log, and  *)
(* a trail is read after it or not at all.                                 *)
LEMMA ScreenStep ==
  ASSUME WInv, NEW a \in Analysts, Screen(a)
  PROVE  WInv'
<1>1. UNCHANGED vars /\ basis' = basis /\ sent' = sent
  BY DEF Screen, ReadQueue, ShowCase, Click, Receive, Timeout, Unreachable,
         Disconnect, ReadTrail, ReadFails, Back
<1>2. IInv'
  BY <1>1, NextInvariant DEF WInv
<1>3. /\ audit_log' = audit_log /\ status' = status /\ build' = build
      /\ restarts' = restarts /\ pc' = pc /\ body' = body /\ row' = row
      /\ reply' = reply
  BY <1>1 DEF vars
<1>4. \A v : ReadEarlier(v)' = ReadEarlier(v)
  BY <1>3 DEF ReadEarlier, View
<1>5. BasesOK' /\ FrozenIsSeenWithinARun' /\ LateOK'
  BY <1>1, <1>3, <1>4 DEF WInv, BasesOK, FrozenIsSeenWithinARun, LateOK, Settled
<1>6. Rendered \in View /\ ReadEarlier(Rendered)
  BY DEF Rendered, ReadEarlier, View, WInv, IInv, TypeOK
<1>7. \A c : Rows(c)' = Rows(c) /\ Rows(c) \subseteq audit_log
  BY <1>3 DEF Rows
<1>8. \A x \in Analysts : x # a =>
        /\ page'[x] = page[x] /\ script'[x] = script[x] /\ view'[x] = view[x]
        /\ form'[x] = form[x] /\ told'[x] = told[x] /\ trail'[x] = trail[x]
  BY DEF Screen, ReadQueue, ShowCase, Click, Receive, Timeout, Unreachable,
         Disconnect, ReadTrail, ReadFails, Back, WInv, ScreensTyped
<1>9. CASE ReadQueue(a)
  BY <1>1, <1>2, <1>3, <1>4, <1>5, <1>7, <1>9
     DEF ReadQueue, OpenCases, WInv, ScreensTyped, ScreensOK, ScreenOK, Closing,
         ConflictIsExplained, View
<1>10. ASSUME NEW c \in Cases, ShowCase(a, c) PROVE WInv'
  <2>1. ScreensTyped'
    BY <1>1, <1>3, <1>6, <1>10 DEF ShowCase, WInv, ScreensTyped, View
  <2>2. ScreenOK(a)' /\ told'[a] = "nothing"
    BY <1>1, <1>3, <1>4, <1>6, <1>10, ServiceAssumption
       DEF ShowCase, WInv, ScreensTyped, ScreenOK, Conflict
  <2> QED
    BY <1>1, <1>2, <1>3, <1>4, <1>5, <1>7, <1>8, <2>1, <2>2
       DEF WInv, ScreensOK, ScreenOK, Closing, ConflictIsExplained
<1>11. ASSUME NEW b \in Bodies, Click(a, b) PROVE WInv'
  <2>1. ScreensTyped'
    BY <1>1, <1>3, <1>6, <1>11, ServiceAssumption DEF Click, WInv, ScreensTyped, View
  <2>2. ScreenOK(a)' /\ told'[a] = "nothing"
    BY <1>1, <1>3, <1>4, <1>6, <1>11
       DEF Click, WInv, ScreensTyped, ScreensOK, ScreenOK, Conflict
  <2> QED
    BY <1>1, <1>2, <1>3, <1>4, <1>5, <1>7, <1>8, <2>1, <2>2
       DEF WInv, ScreensOK, ScreenOK, Closing, ConflictIsExplained
<1>12. CASE Receive(a)
  <2>1. sent[a] \in Requests /\ body[sent[a]].case = page[a]
        /\ reply[sent[a]] # "none"
    BY <1>12 DEF Receive, WInv, ScreensOK, ScreenOK
  <2>2. ScreensTyped'
    BY <1>1, <1>3, <1>12, <2>1 DEF Receive, WInv, ScreensTyped, View, IInv, TypeOK
  <2>3. reply[sent[a]] = Conflict => Closing(Rows(page[a]))
    BY <2>1 DEF WInv, IInv, ConflictMeansClosed, Conflict, Closing
  <2>4. /\ told'[a] = reply[sent[a]] /\ page' = page /\ view' = view
        /\ script'[a] = IF reply[sent[a]] = "INTERNAL_ERROR" THEN "idle" ELSE "reading"
        /\ page[a] # NoCase /\ script[a] = "posting"
        /\ form' = form /\ trail' = trail
    BY <1>12 DEF Receive, WInv, ScreensTyped, ScreensOK, ScreenOK
  <2>5. ScreenOK(a)'
    BY <1>1, <1>3, <1>4, <1>7, <2>3, <2>4 DEF WInv, ScreensOK, ScreenOK, Closing
  <2>6. told'[a] = Conflict => script'[a] # "idle"
    BY <2>4 DEF Conflict
  <2> QED
    BY <1>1, <1>2, <1>3, <1>4, <1>5, <1>7, <1>8, <2>2, <2>5, <2>6
       DEF WInv, ScreensOK, ScreenOK, Closing, ConflictIsExplained, Conflict
<1>13. CASE Timeout(a) \/ Disconnect(a)
  <2>1. /\ told' = [told EXCEPT ![a] = "unreachable"]
        /\ script' = [script EXCEPT ![a] = "idle"]
        /\ page' = page /\ listed' = listed /\ view' = view /\ form' = form
        /\ trail' = trail
    BY <1>13 DEF Timeout, Disconnect, Unreachable
  <2>2. ScreensTyped'
    BY <1>1, <1>3, <2>1 DEF WInv, ScreensTyped, View
  <2>3. ScreenOK(a)' /\ told'[a] # Conflict
    BY <1>4, <2>1 DEF WInv, ScreensTyped, ScreensOK, ScreenOK, Conflict
  <2> QED
    BY <1>1, <1>2, <1>3, <1>4, <1>5, <1>7, <1>8, <2>2, <2>3
       DEF WInv, ScreensOK, ScreenOK, Closing, ConflictIsExplained, Conflict
<1>14. CASE ReadTrail(a)
  <2>1. /\ script[a] = "reading"
        /\ trail' = [trail EXCEPT ![a] = {Rows(page[a])}]
        /\ script' = [script EXCEPT ![a] = "idle"]
        /\ page' = page /\ listed' = listed /\ view' = view /\ form' = form
        /\ told' = told
    BY <1>14 DEF ReadTrail
  <2>2. ScreensTyped'
    BY <1>1, <1>3, <1>7, <2>1 DEF WInv, ScreensTyped, View
  <2>3. ScreenOK(a)'
    BY <1>4, <2>1 DEF WInv, ScreensTyped, ScreensOK, ScreenOK
  <2>4. told'[a] = Conflict => \A rows \in trail'[a] : Closing(rows)
    BY <2>1 DEF WInv, ScreensTyped, ScreensOK, ScreenOK
  <2> QED
    BY <1>1, <1>2, <1>3, <1>4, <1>5, <1>7, <1>8, <2>2, <2>3, <2>4
       DEF WInv, ScreensOK, ScreenOK, Closing, ConflictIsExplained, Conflict
<1>15. CASE ReadFails(a)
  <2>1. /\ view'[a] \in {view[a], NoView} /\ form'[a] = NoForm /\ script'[a] = "idle"
        /\ page' = page /\ told' = told /\ trail' = trail /\ listed' = listed
        /\ told[a] = Conflict => script[a] = "reading"
    BY <1>15 DEF ReadFails, WInv, ScreensTyped, ScreensOK, ScreenOK, Conflict
  <2>2. ScreensTyped'
    <3>1. NoForm \in [body: Body \cup {NoBody}, seen: View \cup {NoView}]
      BY DEF NoForm
    <3>2. /\ view' \in [Analysts -> View \cup {NoView}]
          /\ form' \in [Analysts -> [body: Body \cup {NoBody}, seen: View \cup {NoView}]]
          /\ script' \in [Analysts -> {"idle", "clicked", "posting", "reading"}]
      BY <1>15, <3>1 DEF ReadFails, WInv, ScreensTyped
    <3> QED
      BY <1>1, <1>3, <2>1, <3>2 DEF WInv, ScreensTyped, View
  <2>3. ScreenOK(a)'
    BY <1>4, <2>1 DEF WInv, ScreensOK, ScreenOK
  <2>4. told'[a] = Conflict => \A rows \in trail'[a] : Closing(rows)
    <3>1. told[a] = Conflict => trail[a] = {}
      BY <2>1 DEF WInv, ScreensOK, ScreenOK
    <3> QED
      BY <2>1, <3>1
  <2> QED
    BY <1>1, <1>2, <1>3, <1>4, <1>5, <1>7, <1>8, <2>2, <2>3, <2>4
       DEF WInv, ScreensOK, ScreenOK, Closing, ConflictIsExplained, Conflict
<1>16. CASE Back(a)
  <2>1. ScreensTyped'
    BY <1>1, <1>3, <1>16 DEF Back, OpenCases, WInv, ScreensTyped, View
  <2>2. ScreenOK(a)' /\ told'[a] = "nothing"
    BY <1>4, <1>16 DEF Back, WInv, ScreensTyped, ScreenOK, Conflict
  <2> QED
    BY <1>1, <1>2, <1>3, <1>4, <1>5, <1>7, <1>8, <2>1, <2>2
       DEF WInv, ScreensOK, ScreenOK, Closing, ConflictIsExplained
<1> QED
  BY <1>9, <1>10, <1>11, <1>12, <1>13, <1>14, <1>15, <1>16 DEF Screen

(* Every step keeps the invariant.                                         *)
LEMMA WNextInvariant == WInv /\ [WNext]_allvars => WInv'
<1> SUFFICES ASSUME WInv, [WNext]_allvars PROVE WInv'
  OBVIOUS
<1>1. ASSUME UNCHANGED allvars PROVE WInv'
  <2>1. IInv'
    BY <1>1, NextInvariant DEF WInv, allvars
  <2>2. UNCHANGED screens /\ UNCHANGED vars
    BY <1>1 DEF allvars
  <2>3. ScreensTyped' /\ BasesOK' /\ FrozenIsSeenWithinARun' /\ LateOK'
    BY <2>2 DEF screens, vars, WInv, ScreensTyped, View, BasesOK, ReadEarlier,
                FrozenIsSeenWithinARun, LateOK, Settled
  <2>4. ScreensOK' /\ ConflictIsExplained'
    BY <2>2 DEF screens, vars, WInv, ScreensOK, ScreenOK, ReadEarlier, View,
                Closing, Rows, ConflictIsExplained
  <2> QED
    BY <2>1, <2>3, <2>4 DEF WInv
<1>2. ASSUME NEW a \in Analysts, Browse(a) PROVE WInv'
  BY <1>2, SendStep, ScreenStep DEF Browse, Screen
<1>3. ASSUME Server, UNCHANGED screens PROVE WInv'
  BY <1>3, ServerStep
<1> QED
  BY <1>1, <1>2, <1>3 DEF WNext, Serve, Fail, Redeploy, Server

(* The invariant holds in every reachable state of the composition. *)
THEOREM WInvariance == WSpec => []WInv
BY WInitInvariant, WNextInvariant, PTL DEF WSpec

-----------------------------------------------------------------------------
(* The screens' state is of its declared type, at any scale. *)
THEOREM WTyping == WSpec => []WTypeOK
<1>1. WInv => WTypeOK
  BY DEF WInv, IInv, WTypeOK
<1> QED
  BY <1>1, WInvariance, PTL

(* What is frozen differs from what was decided on only across a restart   *)
(* (record_disposition, _case_screen).                                     *)
THEOREM FrozenWithinARun == WSpec => []FrozenIsSeenWithinARun
BY WInvariance, PTL DEF WInv

(* A page that tells of a conflict, if it shows a trail at all, shows the  *)
(* decision that closed the case (_case_screen).                           *)
THEOREM ConflictsAreExplained == WSpec => []ConflictIsExplained
BY WInvariance, PTL DEF WInv

(* A decision that comes too late is never recorded, nor answered as if it *)
(* were (record_disposition, _case_screen).                                *)
THEOREM LateIsRefused == WSpec => []TooLateIsRefused
<1>1. WInv => TooLateIsRefused
  BY DEF WInv, IInv, LateOK, TooLateIsRefused, TablesHoldTheCommitted,
         RowsMatchBodies, Composed
<1> QED
  BY <1>1, WInvariance, PTL

(* The workspace drives the service in no way a bare client could not: what*)
(* it does to the service's state is a step of the service or none, so     *)
(* whatever is proved of the service's safety holds behind the workspace.  *)
THEOREM StepsOfTheService == WSpec => Init /\ [][Next]_vars
<1>1. WInit => Init
  BY DEF WInit
<1>2. WInv /\ [WNext]_allvars => [Next]_vars
  <2> SUFFICES ASSUME WInv, [WNext]_allvars PROVE [Next]_vars
    OBVIOUS
  <2>1. ASSUME NEW a \in Analysts, Browse(a) PROVE [Next]_vars
    <3>1. ASSUME NEW r \in Requests, Send(a, r) PROVE Next
      BY <3>1 DEF Send, Next, WInv, ScreensOK, ScreenOK
    <3>2. ASSUME Screen(a) PROVE UNCHANGED vars
      BY <3>2 DEF Screen, ReadQueue, ShowCase, Click, Receive, Timeout,
                  Unreachable, Disconnect, ReadTrail, ReadFails, Back
    <3> QED
      BY <2>1, <3>1, <3>2 DEF Browse, Screen
  <2> QED
    BY <2>1 DEF WNext, Serve, Fail, Redeploy, Next, allvars
<1> QED
  BY <1>1, <1>2, WInvariance, PTL DEF WSpec

(* What the service promises a bare client it promises the analysts.       *)
ServicePromises == /\ EveryDecisionIsAudited
                   /\ StatusHasProvenance
                   /\ ErrorMeansNothingRecorded
                   /\ ConflictMeansClosed
                   /\ OnlyStaleReadsMislead

(* Behind the screens, with their timeouts, stale pages and redeploys, the *)
(* tables agree, statuses have provenance, errors leave nothing behind, a  *)
(* 409 is real, and reconstruction misleads only after a stale read        *)
(* (record_disposition, _case_screen).                                     *)
THEOREM PromisesReachTheAnalysts == WSpec => []ServicePromises
<1>1. HInv => ServicePromises
  <2>1. HInv => IInv
    BY DEF HInv
  <2>2. HInv => OnlyStaleReadsMislead
    BY InTurnIsInForce DEF OnlyStaleReadsMislead
  <2> QED
    BY <2>1, <2>2, CommittedIsAudited, ErrorsAreNotCommitted
       DEF IInv, ServicePromises
<1> QED
  BY <1>1, StepsOfTheService, InitHolds, NextHolds, PTL

(* Analysts who let the last request on a case end before they submit the  *)
(* next one use an abstract ledger: each decision in one step, on an open  *)
(* case, as governance asks.                                               *)
THEOREM WorkspaceIsALedger == ClientWaits = "end" => (WSpec => ImplementsLedger)
<1> SUFFICES ASSUME ClientWaits = "end" PROVE WSpec => ImplementsLedger
  OBVIOUS
<1>1. Init => SerialInv
  BY InitSerial
<1>2. SerialInv /\ [Next]_vars => SerialInv'
  BY NextSerial
<1> QED
  BY <1>1, <1>2, StepsOfTheService, StartsAsLedger, StepsAsLedger, PTL
     DEF ImplementsLedger, Ledger!Spec

-----------------------------------------------------------------------------
(* The hint next to the rationale field.                                   *)
Depth == "RATIONALE_REQUIRED_FOR_ACTION"

(* Whoever is refused for a rationale is refused by governance's rule, and *)
(* a screen that says so has it from the request it sent.                  *)
DepthIsDue == \A r \in Requests : reply[r] = Depth =>
    /\ pc[r] = "refused"
    /\ NeedsRationale(body[r].case, body[r].action)

ToldOfDepth == \A a \in Analysts : told[a] = Depth =>
    /\ sent[a] \in Requests
    /\ reply[sent[a]] = Depth

(* A refusal for a rationale ends its request, and no other answer is one. *)
LEMMA DepthStep ==
  ASSUME WInv, DepthIsDue, Server
  PROVE  /\ DepthIsDue'
         /\ \A r \in Requests : reply[r] = Depth => reply'[r] = Depth
<1>1. CASE \E b \in Builds : Restart(b)
  BY <1>1 DEF Restart, DepthIsDue, Working, NeedsRationale
<1>2. ASSUME NEW r \in Requests, Fault(r) \/ Compose(r) \/ Flush(r) \/ Answer(r)
                                  \/ Commit(r) \/ Load(r)
      PROVE  /\ body' = body /\ pc[r] # "refused"
             /\ reply' \in {reply, [reply EXCEPT ![r] = "OK"],
                            [reply EXCEPT ![r] = "INTERNAL_ERROR"]}
             /\ \A q \in Requests : q # r => pc'[q] = pc[q]
  BY <1>2 DEF Fault, CommitFails, ServerError, Compose, Flush, Answer, Commit,
              Load, WInv, IInv, TypeOK
<1>3. ASSUME NEW r \in Requests, Refuse(r)
      PROVE  /\ DepthIsDue'
             /\ \A q \in Requests : reply[q] = Depth => reply'[q] = Depth
  <2>1. /\ body' = body /\ pc[r] = "received"
        /\ reply' = [reply EXCEPT ![r] = Refusal(body[r])]
        /\ pc' = [pc EXCEPT ![r] = "refused"]
    BY <1>3 DEF Refuse
  <2>2. Refusal(body[r]) = Depth => NeedsRationale(body[r].case, body[r].action)
    BY DEF Refusal, Depth
  <2> QED
    BY <2>1, <2>2 DEF DepthIsDue, NeedsRationale, WInv, IInv, TypeOK
<1>4. ASSUME NEW r \in Requests, Proceed(r) \/ Fault(r)
      PROVE  /\ DepthIsDue'
             /\ \A q \in Requests : reply[q] = Depth => reply'[q] = Depth
  <2>1. CASE Refuse(r)
    BY <2>1, <1>3
  <2>2. CASE ~Refuse(r)
    <3>1. /\ body' = body /\ pc[r] # "refused"
          /\ reply' \in {reply, [reply EXCEPT ![r] = "OK"],
                         [reply EXCEPT ![r] = "INTERNAL_ERROR"]}
          /\ \A q \in Requests : q # r => pc'[q] = pc[q]
      BY <1>2, <1>4, <2>2 DEF Proceed
    <3> QED
      BY <3>1 DEF DepthIsDue, Depth, NeedsRationale, WInv, IInv, TypeOK
  <2> QED
    BY <2>1, <2>2
<1> QED
  BY <1>1, <1>4 DEF Server

(* Every step of the workspace keeps both. *)
LEMMA DepthInvariant ==
  WInv /\ DepthIsDue /\ ToldOfDepth /\ [WNext]_allvars => DepthIsDue' /\ ToldOfDepth'
<1> SUFFICES ASSUME WInv, DepthIsDue, ToldOfDepth, [WNext]_allvars
             PROVE  DepthIsDue' /\ ToldOfDepth'
  OBVIOUS
<1>1. CASE UNCHANGED allvars
  BY <1>1 DEF allvars, vars, screens, DepthIsDue, ToldOfDepth, NeedsRationale
<1>2. CASE Server /\ UNCHANGED screens
  BY <1>2, DepthStep DEF screens, ToldOfDepth
<1>3. ASSUME NEW a \in Analysts, NEW r \in Requests, Send(a, r)
      PROVE  DepthIsDue' /\ ToldOfDepth'
  <2>1. /\ script[a] = "clicked" /\ pc[r] = "unsent"
        /\ pc' = [pc EXCEPT ![r] = "received"]
        /\ body' = [body EXCEPT ![r] = form[a].body]
        /\ sent' = [sent EXCEPT ![a] = r]
        /\ reply' = reply /\ told' = told
    BY <1>3 DEF Send, Post
  <2>2. told[a] # Depth /\ reply[r] # Depth
    BY <2>1 DEF WInv, ScreensOK, ScreenOK, BasesOK, Depth
  <2> QED
    BY <2>1, <2>2 DEF DepthIsDue, ToldOfDepth, NeedsRationale, WInv, IInv, TypeOK,
                      ScreensTyped
<1>4. ASSUME NEW a \in Analysts, Screen(a)
      PROVE  DepthIsDue' /\ ToldOfDepth'
  <2>1. UNCHANGED vars /\ sent' = sent
    BY <1>4 DEF Screen, ReadQueue, ShowCase, Click, Receive, Timeout, Unreachable,
                Disconnect, ReadTrail, ReadFails, Back
  <2>2. CASE Receive(a)
    <3>1. /\ sent[a] \in Requests
          /\ told' = [told EXCEPT ![a] = reply[sent[a]]]
      BY <2>2 DEF Receive, WInv, ScreensOK, ScreenOK
    <3> QED
      BY <2>1, <3>1 DEF vars, DepthIsDue, ToldOfDepth, NeedsRationale, WInv,
                        ScreensTyped
  <2>3. CASE ~Receive(a)
    <3>1. told' \in {told, [told EXCEPT ![a] = "nothing"],
                    [told EXCEPT ![a] = "unreachable"]}
      BY <1>4, <2>3 DEF Screen, ReadQueue, ShowCase, Click, Timeout, Unreachable,
                        Disconnect, ReadTrail, ReadFails, Back
    <3> QED
      BY <2>1, <3>1 DEF vars, DepthIsDue, ToldOfDepth, NeedsRationale, WInv,
                        ScreensTyped, Depth
  <2> QED
    BY <2>2, <2>3
<1> QED
  BY <1>1, <1>2, <1>3, <1>4 DEF WNext, Browse, Screen, Serve, Fail, Redeploy, Server

(* Under a governance that asks for a rationale of escalations at most, as *)
(* the shipped one does, and of deviations or not, no analyst is refused   *)
(* for a rationale the page did not hint at (render.rationale_required).   *)
THEOREM HintSuffices ==
  RicherFor \subseteq {"escalate"} => (WSpec => []HintIsEnough)
<1> SUFFICES ASSUME RicherFor \subseteq {"escalate"}
             PROVE  WSpec => []HintIsEnough
  OBVIOUS
<1>1. WInit => DepthIsDue /\ ToldOfDepth
  BY DEF WInit, Init, DepthIsDue, ToldOfDepth, Depth
<1>2. DepthIsDue /\ ToldOfDepth => HintIsEnough
  BY DEF DepthIsDue, ToldOfDepth, HintIsEnough, NeedsRationale, RationaleHint, Depth
<1> QED
  BY <1>1, <1>2, WInvariance, DepthInvariant, PTL DEF WSpec
=============================================================================
