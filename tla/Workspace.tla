----------------------------- MODULE Workspace ------------------------------
(***************************************************************************)
(* The analysts' workspace in front of the disposition service: a          *)
(* Streamlit script per browser session that lists the queue, shows a case *)
(* and posts a decision.  Any click reruns the whole script, so a page is  *)
(* a snapshot: what an analyst decides on was read before the click, and   *)
(* the POST leaves after it.  The POST gives up after ten seconds, or when *)
(* its connection breaks, while the server goes on with the request.  The  *)
(* GETs give up likewise, and on an error status; an httpx error anywhere  *)
(* ends the script there, with the error below what the page shows so far. *)
(*                                                                         *)
(* The workspace lives in a process of its own and survives the API's      *)
(* restarts.  An analyst waits for the script to stop before the next      *)
(* click.                                                                  *)
(***************************************************************************)
EXTENDS DispositionService

CONSTANTS Analysts,  \* one browser session each
          NoView     \* no explanation shown, nothing decided on

ASSUME WorkspaceAssumption == NoView \notin [explanation: Builds, restarts: Nat]

VARIABLES
    page,    \* the case on the screen; NoCase on the queue screen
    listed,  \* the cases the queue screen last listed
    script,  \* how far the session's script is
    view,    \* the explanation shown above the form, and when it was read
    form,    \* the submission a click started
    sent,    \* the last request posted from this screen
    told,    \* what the screen says of the submission
    trail,   \* the audit trails under the case: one, or none if it was not read
    basis    \* for each request, what its analyst decided on

screens == <<page, listed, script, view, form, sent, told, trail, basis>>
allvars == <<vars, screens>>

(* What an explanation on a screen was read from. *)
View == [explanation: Builds, restarts: Nat]

(* The case is closed, and no request that found it open is under way. *)
Settled(c) ==
    /\ status[c] \notin OpenStatuses
    /\ \A r \in Requests : body[r] # NoBody /\ body[r].case = c
           => pc[r] \notin {"loaded", "composed", "flushed", "answered"}

NoForm == [body |-> NoBody, seen |-> NoView]

WInit ==
    /\ Init
    /\ page = [a \in Analysts |-> NoCase]
    /\ listed = [a \in Analysts |-> {}]
    /\ script = [a \in Analysts |-> "idle"]
    /\ view = [a \in Analysts |-> NoView]
    /\ form = [a \in Analysts |-> NoForm]
    /\ sent = [a \in Analysts |-> NoRequest]
    /\ told = [a \in Analysts |-> "nothing"]
    /\ trail = [a \in Analysts |-> {}]
    /\ basis = [r \in Requests |-> [seen |-> NoView, settled |-> FALSE]]

-----------------------------------------------------------------------------
OpenCases == {c \in Cases : status[c] \in OpenStatuses}

(* GET /api/cases/{id}: the explanation is derived anew by the running     *)
(* build; the page does not show the case's status.                        *)
Rendered == [explanation |-> build, restarts |-> restarts]

(* The queue screen runs: GET /api/queue, which may fail. *)
ReadQueue(a) ==
    /\ page[a] = NoCase
    /\ \E shown \in {OpenCases, {}} : listed' = [listed EXCEPT ![a] = shown]
    /\ UNCHANGED <<vars, page, script, view, form, sent, told, trail, basis>>

(* The case screen of c runs up to the audit trail, on an Open button, on  *)
(* any other widget of the case's page or on a rerun.                      *)
ShowCase(a, c) ==
    /\ script[a] = "idle"
    /\ page[a] = c \/ (page[a] = NoCase /\ c \in listed[a])
    /\ page' = [page EXCEPT ![a] = c]
    /\ view' = [view EXCEPT ![a] = Rendered]
    /\ listed' = [listed EXCEPT ![a] = {}]
    /\ told' = [told EXCEPT ![a] = "nothing"]
    /\ trail' = [trail EXCEPT ![a] = {}]
    /\ script' = [script EXCEPT ![a] = "reading"]
    /\ UNCHANGED <<vars, form, sent, basis>>

(* Mutant: the trail of the run before stays on the page. *)
ClickKeepingTrail(a, b) ==
    /\ script[a] = "idle"
    /\ page[a] # NoCase /\ view[a] # NoView
    /\ b.case = page[a] /\ b.action \in DispositionActions /\ b.reason
    /\ form' = [form EXCEPT ![a] = [body |-> b, seen |-> view[a]]]
    /\ view' = [view EXCEPT ![a] = Rendered]
    /\ told' = [told EXCEPT ![a] = "nothing"]
    /\ script' = [script EXCEPT ![a] = "clicked"]
    /\ UNCHANGED <<vars, page, listed, sent, trail, basis>>

(* The button is enabled once an action and a reason code are chosen,      *)
(* whatever the rationale holds; a page that ends above the form has none. *)
(* The click reruns the script, which fetches the case again before it     *)
(* reaches the POST.                                                       *)
Click(a, b) ==
    /\ script[a] = "idle"
    /\ page[a] # NoCase /\ view[a] # NoView
    /\ b.case = page[a] /\ b.action \in DispositionActions /\ b.reason
    /\ form' = [form EXCEPT ![a] = [body |-> b, seen |-> view[a]]]
    /\ view' = [view EXCEPT ![a] = Rendered]
    /\ told' = [told EXCEPT ![a] = "nothing"]
    /\ trail' = [trail EXCEPT ![a] = {}]
    /\ script' = [script EXCEPT ![a] = "clicked"]
    /\ UNCHANGED <<vars, page, listed, sent, basis>>

Send(a, r) ==
    /\ script[a] = "clicked"
    /\ Post(r, form[a].body)
    /\ sent' = [sent EXCEPT ![a] = r]
    /\ basis' = [basis EXCEPT ![r] = [seen |-> form[a].seen,
                                      settled |-> Settled(page[a])]]
    /\ form' = [form EXCEPT ![a] = NoForm]
    /\ script' = [script EXCEPT ![a] = "posting"]
    /\ UNCHANGED <<page, listed, view, told, trail>>

(* The answer arrives.  An unexpected error is answered in plain text: its *)
(* resp.json() raises and the script ends there.                           *)
Receive(a) ==
    /\ script[a] = "posting"
    /\ reply[sent[a]] # "none"
    /\ told' = [told EXCEPT ![a] = reply[sent[a]]]
    /\ script' = [script EXCEPT ![a] = IF reply[sent[a]] = "INTERNAL_ERROR"
                                       THEN "idle" ELSE "reading"]
    /\ UNCHANGED <<vars, page, listed, view, form, sent, trail, basis>>

(* The script's httpx error handler: nothing is said of the decision, and  *)
(* the rest of the page is not run.                                        *)
Unreachable(a) ==
    /\ script[a] = "posting"
    /\ told' = [told EXCEPT ![a] = "unreachable"]
    /\ script' = [script EXCEPT ![a] = "idle"]
    /\ UNCHANGED <<vars, page, listed, view, form, sent, trail, basis>>

(* Ten seconds pass first; the request is not withdrawn. *)
Timeout(a) == Unreachable(a)

(* Mutant: only an answer ends the wait. *)
DisconnectAfterAnswer(a) == /\ script[a] = "posting"
                            /\ pc[sent[a]] = "lost" /\ reply[sent[a]] # "none"
                            /\ Unreachable(a)

(* The API went down with the request. *)
Disconnect(a) == /\ script[a] = "posting"
                 /\ pc[sent[a]] = "lost"
                 /\ Unreachable(a)

(* Mutant: the trail shows rows their transactions have not committed. *)
ReadTrailUncommitted(a) ==
    /\ script[a] = "reading"
    /\ trail' = [trail EXCEPT ![a] = {Rows(page[a]) \cup
                    {row[r] : r \in {q \in Requests : pc[q] \in Composed}}}]
    /\ script' = [script EXCEPT ![a] = "idle"]
    /\ UNCHANGED <<vars, page, listed, view, form, sent, told, basis>>

(* The end of the case's page: GET /api/cases/{id}/audit. *)
ReadTrail(a) ==
    /\ script[a] = "reading"
    /\ trail' = [trail EXCEPT ![a] = {Rows(page[a])}]
    /\ script' = [script EXCEPT ![a] = "idle"]
    /\ UNCHANGED <<vars, page, listed, view, form, sent, told, basis>>

(* A GET of the case's page fails.  Where it reads the case or an          *)
(* indicator's evidence, the page ends above the form, and a click that    *)
(* started the run posts nothing; where it reads the trail, all else stays,*)
(* the answer to a submission too.                                         *)
ReadFails(a) ==
    /\ script[a] \in {"clicked", "reading"}
    /\ \/ told[a] = "nothing" /\ view' = [view EXCEPT ![a] = NoView]
       \/ script[a] = "reading" /\ UNCHANGED view
    /\ form' = [form EXCEPT ![a] = NoForm]
    /\ script' = [script EXCEPT ![a] = "idle"]
    /\ UNCHANGED <<vars, page, listed, sent, told, trail, basis>>

(* Back to the queue, by the button or by opening the workspace anew.      *)
Back(a) ==
    /\ script[a] = "idle"
    /\ page[a] # NoCase
    /\ page' = [page EXCEPT ![a] = NoCase]
    /\ \E shown \in {OpenCases, {}} : listed' = [listed EXCEPT ![a] = shown]
    /\ view' = [view EXCEPT ![a] = NoView]
    /\ told' = [told EXCEPT ![a] = "nothing"]
    /\ trail' = [trail EXCEPT ![a] = {}]
    /\ UNCHANGED <<vars, script, form, sent, basis>>

Browse(a) ==
    \/ ReadQueue(a)
    \/ \E c \in Cases : ShowCase(a, c)
    \/ \E b \in Bodies : Click(a, b)
    \/ \E r \in Requests : Send(a, r)
    \/ Receive(a) \/ Timeout(a) \/ Disconnect(a)
    \/ ReadTrail(a) \/ ReadFails(a)
    \/ Back(a)

(* A step of the API or its process, unseen by any screen. *)
Serve(r) == Proceed(r) /\ UNCHANGED screens
Fail(r)  == Fault(r) /\ UNCHANGED screens
Redeploy(b) == Restart(b) /\ UNCHANGED screens

WNext == \/ \E a \in Analysts : Browse(a)
         \/ \E r \in Requests : Serve(r) \/ Fail(r)
         \/ \E b \in Builds : Redeploy(b)

(* The server works on, an answer that was sent arrives and a broken       *)
(* connection is noticed; analysts need not click, and a wait need not     *)
(* time out.                                                               *)
WSpec == /\ WInit /\ [][WNext]_allvars
         /\ \A r \in Requests : WF_allvars(Serve(r))
         /\ \A a \in Analysts : WF_allvars(Receive(a)) /\ WF_allvars(Disconnect(a))

-----------------------------------------------------------------------------
ScreensTyped ==
    /\ page \in [Analysts -> Cases \cup {NoCase}]
    /\ listed \in [Analysts -> SUBSET Cases]
    /\ script \in [Analysts -> {"idle", "clicked", "posting", "reading"}]
    /\ view \in [Analysts -> View \cup {NoView}]
    /\ form \in [Analysts -> [body: Body \cup {NoBody}, seen: View \cup {NoView}]]
    /\ sent \in [Analysts -> Requests \cup {NoRequest}]
    /\ told \in [Analysts -> {"nothing", "OK", "unreachable"} \cup Errors]
    /\ trail \in [Analysts -> SUBSET SUBSET audit_log]
    /\ basis \in [Requests -> [seen: View \cup {NoView}, settled: BOOLEAN]]

(* The type invariant, of the screens and of the service below them; a     *)
(* trail shows no row that is not in the log.                              *)
WTypeOK == TypeOK /\ ScreensTyped

(* A decision is frozen with another explanation than the one its analyst  *)
(* decided on only if the API was restarted after that page was read       *)
(* (record_disposition composes the case's explanation again).             *)
FrozenIsSeenWithinARun ==
    \A r \in Requests : row[r] # NoRow =>
        \/ row[r].explanation = basis[r].seen.explanation
        \/ restarts > basis[r].seen.restarts

(* An analyst told that the case was already decided can see by whom,      *)
(* unless the page says that the trail could not be read: a trail on the   *)
(* same page holds a decision that closed the case, however stale the page *)
(* the click was made on.  No trail of an earlier run stands in for it.    *)
ConflictIsExplained ==
    \A a \in Analysts :
        told[a] = "CASE_ALREADY_DISPOSITIONED" /\ script[a] = "idle" =>
            \A rows \in trail[a] : \E e \in rows : e.status \notin OpenStatuses

(* A decision made on a stale page comes too late once the case is settled:*)
(* it is never answered with a success and never recorded.                 *)
TooLateIsRefused ==
    \A r \in Requests : basis[r].settled =>
        /\ reply[r] # "OK"
        /\ \A d \in dispositions : d.id # r

(* render.rationale_required: the hint next to the rationale field. *)
RationaleHint(b) == b.action = "escalate" \/ b.action # Recommended[b.case]

(* Under the shipped governance the hint, written apart from it, is        *)
(* enough: no decision is refused for a rationale the page did not ask for.*)
HintIsEnough ==
    \A a \in Analysts :
        told[a] = "RATIONALE_REQUIRED_FOR_ACTION" => RationaleHint(body[sent[a]])

(* Every submission ends on the screen: the analyst is told its outcome or *)
(* that the API could not be reached, whatever restarts or fails.          *)
EverySubmissionIsAnswered ==
    \A a \in Analysts : script[a] = "posting" ~> script[a] # "posting"
=============================================================================
