------------------------------- MODULE Queue --------------------------------
(***************************************************************************)
(* The triage queue: the ordering policy read at startup, and GET          *)
(* /api/queue, which selects the open cases, filters and sorts them in     *)
(* memory and says what they are ordered by.  Decisions are recorded while *)
(* a page is being made, so a page is a snapshot of the table it was       *)
(* selected from.                                                          *)
(***************************************************************************)
EXTENDS CaseRules, Selection, Integers, SequencesExt

CONSTANTS Amount,     \* the amount in each case's evidence
          RulesOf,    \* the rules that fired, by case
          CreatedAt,  \* cases.created_at
          Policies,   \* contents of config/queue_policy.yaml
          Queries,    \* the parameters clients send
          SortNames,  \* names a policy or a query may sort by
          NoFilter    \* a parameter left out

Policy == [default_sort: SortNames, allowed_sorts: SUBSET SortNames,
           order: {"asc", "desc"}]

ASSUME QueueAssumption ==
    /\ Amount \in [Cases -> Nat] /\ CreatedAt \in [Cases -> Nat]
    /\ Policies \subseteq Policy
    /\ IsFiniteSet(Cases)
    /\ \A q \in Queries : /\ DOMAIN q = {"sort", "level", "rule", "min_amount"}
                          /\ q.min_amount \in Int \cup {NoFilter}

VARIABLES
    policy,   \* the policy the process was started with
    step,     \* "starting", "failed", or how far the request being served is
    status,   \* cases.status
    query,    \* the request being served
    rows,     \* the cases selected for it, in the database's order
    page,     \* the response
    history   \* the statuses each case has had since the request arrived

vars == <<policy, step, status, query, rows, page, history>>

NoPage == [ordering_basis |-> NoFilter, order |-> "desc", items |-> <<>>]

Init == /\ policy \in Policies
        /\ step = "starting"
        /\ status \in [Cases -> Statuses]
        /\ query = NoFilter
        /\ rows = <<>>
        /\ page = NoPage
        /\ history = [c \in Cases |-> {}]

-----------------------------------------------------------------------------
(* load_config: a default sort that is not allowed stops the process. *)
Start == /\ step = "starting"
         /\ step' = IF policy.default_sort \in policy.allowed_sorts
                    THEN "idle" ELSE "failed"
         /\ UNCHANGED <<policy, status, query, rows, page, history>>

(* A client asks, and has no use for an earlier page any more. *)
Receive(q) == /\ step \in {"idle", "answered"}
              /\ step' = "asked"
              /\ query' = q
              /\ page' = NoPage
              /\ history' = [c \in Cases |-> {status[c]}]
              /\ UNCHANGED <<policy, status, rows>>

(* Mutant: only cases nobody has touched are selected. *)
SelectQueued == /\ step = "asked"
                /\ step' = "selected"
                /\ rows' \in SetToSeqs({c \in Cases : status[c] = "queued"})
                /\ UNCHANGED <<policy, status, query, page, history>>

(* The open cases, in whatever order the database returns them. *)
Select == /\ step = "asked"
          /\ step' = "selected"
          /\ rows' \in SetToSeqs({c \in Cases : status[c] \in OpenStatuses})
          /\ UNCHANGED <<policy, status, query, page, history>>

(* A decision is committed meanwhile.  It may rest on a read made before   *)
(* another decision, so no status is final.                                *)
Decide(c, action) ==
    /\ step \in {"asked", "selected"}
    /\ status' = [status EXCEPT ![c] = Routing(action)]
    /\ history' = [history EXCEPT ![c] = @ \cup {Routing(action)}]
    /\ UNCHANGED <<policy, step, query, rows, page>>

-----------------------------------------------------------------------------
Severity(c) == CASE Recommended[c] = "escalate" -> 2
                 [] Recommended[c] = "hold"     -> 1
                 [] OTHER                       -> 0

(* The filters of list_queue, all of which a listed case passes. *)
Passes(q, c) ==
    /\ q.level # NoFilter => Recommended[c] = q.level
    /\ q.rule # NoFilter => q.rule \in RulesOf[c]
    /\ q.min_amount # NoFilter => Amount[c] >= q.min_amount

SortBy(q) == IF q.sort \in policy.allowed_sorts THEN q.sort
                                                ELSE policy.default_sort

(* Mutant: recency alone decides. *)
LessByAge(basis, c, d) == CreatedAt[c] < CreatedAt[d]

(* The sort key: the age, or for any other basis severity and then age.    *)
Less(basis, c, d) ==
    \/ basis # "case_age" /\ Severity(c) < Severity(d)
    \/ /\ basis = "case_age" \/ Severity(c) = Severity(d)
       /\ CreatedAt[c] < CreatedAt[d]

Precedes(basis, order, c, d) == IF order = "desc" THEN Less(basis, d, c)
                                                  ELSE Less(basis, c, d)

(* Place i of the list sorts before place j: equal keys stay in their order,*)
(* whether or not the sort is reversed.                                    *)
Before(s, basis, order, i, j) ==
    \/ Precedes(basis, order, s[i], s[j])
    \/ ~Precedes(basis, order, s[j], s[i]) /\ i < j

(* list.sort: the one arrangement of the list in which each place sorts    *)
(* before the next ones.                                                   *)
SortedBy(s, basis, order) ==
    {[k \in DOMAIN s |-> s[place[k]]] :
       place \in {f \in [DOMAIN s -> DOMAIN s] :
                    \A i, j \in DOMAIN s :
                       i < j => Before(s, basis, order, f[i], f[j])}}

Respond ==
    LET basis == SortBy(query)
        kept  == Kept(rows, {c \in Cases : Passes(query, c)})
    IN  /\ step = "selected"
        /\ step' = "answered"
        /\ \E items \in SortedBy(kept, basis, policy.order) :
              page' = [ordering_basis |-> basis, order |-> policy.order,
                       items |-> items]
        /\ rows' = <<>>
        /\ UNCHANGED <<policy, status, query, history>>

Next == \/ Start
        \/ \E q \in Queries : Receive(q)
        \/ Select \/ Respond
        \/ \E c \in Cases, action \in DispositionActions : Decide(c, action)

Spec == Init /\ [][Next]_vars

-----------------------------------------------------------------------------
Answered == step = "answered"

(* What the filters mean to whoever set them: a recommended level, a rule  *)
(* that fired, at least an amount.                                         *)
Asked(c) == /\ query.level \in {NoFilter, Recommended[c]}
            /\ query.rule \in RulesOf[c] \cup {NoFilter}
            /\ query.min_amount = NoFilter \/ query.min_amount <= Amount[c]

(* A page is the open cases the query asked for, whatever was decided while*)
(* it was made: a case that was open all the time is on it, exactly once,  *)
(* and one that was closed all the time is not (list_queue).               *)
PageIsTheOpenCases ==
    Answered => \A c \in Cases :
        LET places == {i \in DOMAIN page.items : page.items[i] = c}
        IN  /\ history[c] \subseteq OpenStatuses /\ Asked(c)
                  => Cardinality(places) = 1
            /\ places # {} => history[c] \cap OpenStatuses # {} /\ Asked(c)

(* An analyst who works down a page by risk meets no case of a lower       *)
(* recommended level before one of a higher, nor, within a level, an older *)
(* before a newer one; down a page by age, no older before a newer one; in *)
(* ascending order it is the reverse.  The basis is one the policy allows, *)
(* and whatever it is called, a page is by age or by risk: a sort that the *)
(* policy allows and the service does not know is reported, and is by risk.*)
PageIsInItsOrder ==
    Answered =>
        /\ page.ordering_basis \in policy.allowed_sorts
        /\ \A i, j \in DOMAIN page.items : i < j =>
             LET c == page.items[IF page.order = "desc" THEN i ELSE j]
                 d == page.items[IF page.order = "desc" THEN j ELSE i]
                 newer == CreatedAt[c] >= CreatedAt[d]
             IN  /\ page.ordering_basis = "case_age" => newer
                 /\ page.ordering_basis # "case_age" =>
                      \/ Severity(c) > Severity(d)
                      \/ Severity(c) = Severity(d) /\ newer
=============================================================================
