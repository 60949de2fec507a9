# A formal model of the transaction fraud monitoring service

The service turns flagged transactions into cases with evidence, an advisory
recommendation and a templated explanation, and lets analysts decide them; every
decision is frozen into an append-only audit log. These modules model that path in
TLA+, from the ingestion of an export to the reconstruction of a decision, with the
offline training that decides which scorer may go online and the deployment that puts
the schema in place. TLC checks small instances, TLAPS proves the safety results for
every value of the constants. Paths below are relative to the repository; `tfm/` is
`src/tfm/`.

## 1. Inventory

| Part | State | Operations | What is hard | What makes it correct |
|---|---|---|---|---|
| Disposition service (`tfm/services/disposition_service.py`, `tfm/api/deps.py`, `tfm/audit/log.py`) | `cases.status`, `dispositions`, `audit_log`, one session per request | `record_disposition`, commit or rollback in `get_session` | threads of one pool on one database, the check outside any lock, the commit after the response, failures and restarts | each decision recorded once with its audit row; status explained by the log; 409 for closed cases; an error means nothing happened; no request hangs |
| Audit log and reconstruction (`tfm/audit/`) | `audit_log` | append, `reconstruct_decision`, the audit route | order of stamps against order of commits | the reconstructed decision is the one in force, unless a decision was made on a stale read |
| Workspace (`tfm/web/`) | page, open case and form of a browser session | list, open, read, click, post, go back | pages read before a colleague decided, a POST that times out while the server goes on, a read that fails after the answer, a redeploy between page and click | what is frozen was shown, too late is refused, a conflict is explained by the trail under it or the page says the trail was not read, no submission hangs |
| Queue (`tfm/services/queue_service.py`) | reads `cases` | validate the policy, list, filter, sort | decisions committed while a page is made, sorts nobody knows | no open case missed, none offered that was closed, severity first |
| Case service, seeding (`tfm/services/case_service.py`, `scripts/seed_cases.py`) | `cases`, `rule_hits` | open a case, compose the view, drill down | container killed between any two rows and started again | the demo set whole or absent, no unique-constraint crash |
| Assembler, explanation, gate (`tfm/assembly/`, `tfm/explanation/`) | none (pure) | assemble, explain, verify | text that bypasses its gate, score statuses that contradict themselves | every claim traces to groundable evidence, no score told when excluded |
| Recommendation policy (`tfm/recommendation/policy.py`) | none (pure) | `recommend` | conflicts of score and rules, absent score, touching bands | never talked down, never clear without a score, honest confidence, monotone |
| Rule engine, configuration (`tfm/rules/`, `tfm/config/settings.py`) | configuration of the process | load and validate, evaluate | validated at startup, used much later | an accepted configuration evaluates every rule |
| Feature builder (`tfm/data/features.py`) | traversal state of a pass | `build_features` | account boundaries, window edges, ties | each feature is what its definition over earlier rows says |
| Ingestion (`tfm/data/ingest.py`, `tfm/persistence/db.py`) | canonical tables, the caller's session | validate, normalise, add parties, add transactions, commit | repeated and overlapping files, runs that fail between two flushes | references hold at every flush; the files of a growing export converge |
| Training and gate (`tfm/ml/`, `tfm/data/splits.py`, `evaluation/`, `scripts/train_model.py`) | report, verdict and artifact files | split, fit, calibrate, evaluate, gate, save, load | folds of one class, two lists kept equal by a test, a run cut short between files | nothing tested on what was learnt from; an ineligible scorer is never online |
| Reports (`evaluation/run_all.py`, `scripts/package_evaluation.py`) | summary and package manifest | read the files, write both | files of two trainings | what is shown together belongs together |
| Migrations and start (`migrations/`, `docker-compose.yml`) | schema, stamped revision | upgrade, downgrade, create what is missing, seed, serve | death between two statements, commands in an order nobody planned, stored rows a downgrade cannot keep | the schema is the stamped revision's or the one `create_all` makes; a start serves from the head only; the stack comes up again |
| API shell, observability, notebooks | - | - | - | - |

Interactions: the web workspace calls the API over HTTP; each endpoint runs on a thread
with a session of its own and shares only PostgreSQL with the others. The case service
calls rules, assembler, policy and explainer in that order as pure functions. The
container of the API runs migrations, the seeding script and then the server on every
start. Training, reports and the online path share files. The hazards, each at its line,
are in `PROJECT.json`.

## 2. Plan

Done, in this order: the disposition path with the ledger it implements; policy and rule
engine; the feature pass; the opening of cases with evidence and explanation; then the
workspace composed with the disposition service, the queue, what the page makes of a
stored case, ingestion, training with its gate and files, and the deployment. Left:

1. A larger composition: queue pages and case pages over one table, so that a list read
   during a decision is followed into the page and the submission.
2. Two start commands at once, should the deployment ever run two API containers.
3. Proofs: an abstract store whose file arrives in one step, implemented by `Ingest`.

## 3. Modules

| Module | Models | Notes |
|---|---|---|
| `CaseRules` | statuses, actions, routing, when a rationale is due | shared vocabulary |
| `CaseLedger` | the abstract promise of the disposition path: a decision is recorded in one step, only on an open case, only as governance asks | a specification, so it is mapped to no code |
| `DispositionService` | one POST: `Post`, `Load` or `Refuse`, `Compose`, `Flush`, `Answer`, `Commit`; `ServerError`, `CommitFails`, `Restart` | also the invariant `IInv` |
| `Workspace` | one script per analyst: `ReadQueue`, `ShowCase`, `Click`, `Send`, `Receive`, `Timeout`, `Disconnect`, `ReadTrail`, `ReadFails`, `Back` | EXTENDS `DispositionService`, whose steps are `Serve`, `Fail`, `Redeploy`; `DispositionProofs` is about both |
| `Queue` | the policy's validation and one page at a time: `Receive`, `Select`, `Respond`, with `Decide` in between | `QueueProofs` |
| `Selection` | what a list comprehension with a condition keeps | used by `Queue`, `Assessment`, `Evidence`, `CaseView`; `RecursionProofs` |
| `RecommendationPolicy` | `recommend` as operators | used by the next two |
| `Assessment` | load and validate, the engine's loop rule by rule, `Conclude` | `AssessmentProofs` |
| `FeatureBuilder` | the sort, then one step per reset, addition, eviction and emission | `FeatureProofs` |
| `Evidence` | the package, the templated text and the gate, over tokens | pure |
| `CaseOpening` | container starts, the seeding script's transaction, dispositions in between | `OpeningProofs` |
| `CaseView` | indicators, drill-down and basis note of a stored case | EXTENDS `CaseOpening`; `OpeningProofs` |
| `Ingest` | `Refuse`, `Load`, `WriteParties`, `WriteTransactions`, `Commit`, `Rollback` | `IngestProofs` |
| `LeakageGate` | folds, candidates, metrics on poor folds, the verdict | pure |
| `Training` | `train_model.py` step by step and file by file, `run_all.py` from its grounding report to its summary, `package_evaluation.py`, `load_scorer`, and the death of either program | `TrainingProofs` |
| `Deployment` | Alembic's statements in a transaction, `create_all`, seeding, serving; operators' commands in any order, while the API serves or not; crashes of either | its `DInit`, `DNext`, `DSpec` stand beside `CaseOpening`'s in `OpeningProofs` |
| `MC...` | the sets of the small instances | |

How the code's state appears:

- `DispositionService`: `status`, `dispositions`, `audit_log` are the committed tables;
  `pc`, `body`, `loaded`, `row`, `reply` are the locals and session of a request. `row_lock`
  is PostgreSQL's row lock, taken by the UPDATE a flush emits. SQLAlchemy emits it only for
  a changed status (`WritesCase`), so holding a pending case again takes no lock. Rows
  become visible at `Commit`. `Answer` precedes `Commit` because the locked FastAPI version
  tears yield dependencies down after the response was sent. `clock` is advanced by every
  stamp, that is, the wall clock is taken to be strictly increasing within the process.
- A request's checks are one step (`Load`/`Refuse`): they read the case once. `Refusal`
  keeps their order. A reason or rationale is only present or blank.
- `Workspace`: Streamlit reruns the whole script on each click, so a screen is a snapshot
  and a click's POST leaves after the case was fetched again. `view` is what the page shows
  and when it was read, `form` what a click took from it, `basis` remembers both for a
  request. A timeout or a broken connection says nothing of the decision and withdraws
  nothing. The GETs of a page may fail as well (`ReadFails`): a timeout or an error status
  raises, and the handler of `main` ends the script with what it has shown so far. Before
  the form that leaves a page nothing can be submitted from; after the answer to a
  submission, by the read of the audit trail, it leaves the answer without a trail. So `trail`
  is a set, of the one trail that was read or of none. An explanation is represented by the
  build whose templates rendered it.
- `Queue`: one request at a time suffices, as requests share nothing but the table; the
  database's order of unsorted rows is left open; `history` holds the statuses each case had
  while the page was made. In descending order of age the newest case comes first.
  Python's stable sort is specified by its result (`SortedBy`): the arrangement in which
  each place sorts before the next, equal keys in the order they had, reversed or not.
- `Assessment`: a parameter block is the value of the one key its rule reads, or `NoKey`.
  Probabilities are naturals; the policy only compares them.
- `FeatureBuilder`: hours and whole amounts; float sums are taken to be exact, so drift of
  the running float sum is not covered. A ratio is represented by the baseline it divides
  by. The sort is specified by its result (stable, by account and time).
- `Evidence`: numbers in millionths, the precision the gate rounds to; a text is a sequence
  of sentences, each with the tokens it shows and the elements it cites. Masking by
  substring and the regular expressions are not modelled: a token passes if it is one of
  the reference's. Payload numbers no sentence speaks of are left out, so the model's gate
  may refuse a text the real one lets pass by a coincidence of numbers.
- `CaseOpening`: the script passes no history and the excluded score; the constants `Priors`
  and `Scores` also let the operation it calls be used with what its parameters stand for.
  That is what the documents speak of, and what `assemble_and_persist_case` takes. A
  `ScoreStatus` may contradict itself, available without a probability or the reverse: its
  comments say "present iff" and nothing validates it (`tfm/schema/evidence.py:174-176`).
- `Ingest`: a row has its step, its parties and whether a destination balance is given. Its
  identity is its position in its file, as in the code. `session` is what the run's
  transaction sees, `db` what is committed. Files are prefixes of exports; `files` remembers
  those committed, in the order of their first commits.
- `LeakageGate`, `Training`: rows are told apart by step and label. What an architecture learns
  from a set of features is a number given with the input (`Inputs`); fits are seeded, so it is
  the same each time. Features are the groups the ablation tells apart. The version in
  `verdict_file` is bookkeeping: the file itself names none. Writing a file is atomic or leaves
  it `Torn`; of the grounding report only that matters. A reader that meets a torn or missing
  file stops.
- `Deployment`: the statements of the revisions are data, executed one by one in `work` and
  committed together, as Alembic does on PostgreSQL. One command runs at a time, and the
  container's start only where no API serves (`api`). Columns are abstracted, but for whether
  `cases.score` may be NULL.

Operators called *Mutant* in a comment are plausible bugs of the definition that follows
them; nothing uses them. Each property is known to fail under one of them (`PROJECT.json`,
`mutants`).

## 4. Runs

| Run | Instance | Shows |
|---|---|---|
| `workspace` | 1 case, 1 analyst with 2 overlapping submissions, 2 builds, 1 restart, any read of a page may fail, 310,952 states | the tables agree, the status has provenance, reconstruction misleads only after a stale read, errors leave nothing, a conflict is explained by the trail if it was read, too late is refused, the text frozen is the text seen unless the API restarted, the rationale hint is enough; every request finishes and every submission is answered |
| `serial` | 1 case, 3 requests that never overlap (`ClientWaits = "end"`), all early returns, 1 restart, 343,000 states | reconstruction explains the status, the service implements `CaseLedger` and so decides open cases only |
| `recheck` | violation; 3 requests, each posted once the earlier ones are answered (`ClientWaits = "answer"`) | two requests pass the status check before either commits, though nobody posts before he has his answer: the later decides a closed case |
| `answered` | violation | a failed commit after a 200 |
| `assessment` | 648 configurations (bad bands, unknown rules, missing blocks and keys, repeated rules) x features and scores around the thresholds, 110,000 states | never clear without a score, no signal talked down, honest confidence, monotone; a missing key is the only failure |
| `features` | all frames of up to 3 rows over 2 accounts, 3 hours, 2 amounts, 2 counterparties, and frames of 4 rows with longer windows, 44,000 states | all features exact |
| `strictly` | violation | equal timestamps count each other |
| `opening` | 2 transactions, 5 score statuses, two of which contradict themselves, with and without history, 3 starts, 101,479 states | the batch is atomic and never collides; citations, exclusion and grounding; indicators drill down to their signals and the note agrees with the score |
| `queue` | 3 cases of two levels, two of one age; shipped, ascending and refused policies and one that allows a third sort; 4 queries, decisions at any time, 2,643,524 states | pages miss no open case, offer no closed one, are by risk or by age as their basis says, and by risk for a sort the service does not know |
| `ingest` | every export of up to 3 rows over 2 payers, one of them a payee, and a merchant, alone or two together; files in any order, with failures, 176,848 states | references hold, the first file to reach a position keeps it, one export's files converge on the longest, first steps are first |
| `training` | 3 folds with any labels, 5 configurations, 16 qualities; a second training and reports over its files; crashes anywhere, 3,917,671 states | only an earned scorer is online, nothing is measured on what was learnt from, what is published belongs together, the five files a package lists exist |
| `migrations` | starts, seeding and both downgrades in any order, with the API up or down, 4 faults, 375 states | the schema is the stamped revision's or the one `create_all` made, a start serves from the head only, a command is refused for three causes only, the stack comes up |

Bounds. In `serial` and `recheck` the three requests are a holder, a waiter and a latecomer on
one row. In `workspace` the second submission of an analyst whose first timed out plays the
colleague who decides at the same time: the service does not know who asks, and the page that
analyst decides on is as stale as anyone's. The theorems cover any number of analysts, requests
and cases. `OnlyStaleReadsMislead` was also checked once with three requests under no
discipline, 190,148 states, before it was proved. Lookback 1 and hours 0..2 put rows inside, at
and outside the window edge. Thresholds of 1 with values 0..2 sit below, at and above. Three
starts allow a cut, a success and a start after dispositions. Three cases are enough for a tie,
a difference and a case decided meanwhile. Three rows are enough for a repeated account, a
first step that a longer file could move, and a payer who is paid. Two exports are enough for
one file to take the positions of another's and for a third to come between. One step per fold
has every combination of labels a fold can have, and puts each boundary next to rows; the
second training of the run is given one sample and two qualities, as only its verdict and the
order of its files matter to what a first one left. A score status has five kinds: excluded, of
four decimals, of more, and the two contradictions. Four faults are two operator commands, each
cut short, or one while the API serves, its death, and a start cut short. `CHECK_DEADLOCK
FALSE` where requests, rows, starts or trainings run out by design.

Fairness. `Spec` of `DispositionService` has weak fairness for `Proceed(r)` of each request:
a thread of the pool that can go on eventually does, and PostgreSQL grants a free row lock.
Strong fairness is not needed here since the bounded requests run out of rivals; with an
endless stream of them PostgreSQL's lock queue would be what serves a waiter. Nothing obliges
clients to post, faults to happen or the process to restart. `WSpec` adds that an answer that
was sent arrives (`Receive`) and that a connection whose server died is noticed
(`Disconnect`): both are TCP's. Analysts need not click, and a wait need not time out, so
`EverySubmissionIsAnswered` does not rest on the ten seconds. `Deployment` has weak fairness
for the steps of a running command, and for `StartUp`: compose restarts nothing by itself, so
that one is the operator who brings the stack up whenever it does not serve. Its property
leads from a moment without the API to one with it, or to the tables of `create_all`, on which
no start succeeds. Faults are bounded there,
as nothing comes up under endless ones. The other modules have safety properties only.

## 5. Where code and documents disagree

Three runs show it (`expect: violation`):

1. `recheck`: the addendum promises 409 for a case not queued or pending
   (`docs/internal/02_Engineering_Addendum.md:125`); the check at
   `tfm/services/disposition_service.py:74` reads without a lock. Both decisions are recorded
   and audited; an overlapping hold can put a closed case back to pending.
2. `answered`: the response is called "recorded" (`tfm/api/schemas.py:103`,
   `tfm/web/app.py:144`) and is sent before the commit (`tfm/api/deps.py:38`).
3. `strictly`: "strictly before t" (`tfm/data/features.py:11-12`); the pass goes by position,
   so rows of equal time see each other in input order.

The rest are limits the checked properties state in their premises:

- "Fails fast on drift" (`tfm/config/settings.py:222`): a missing parameter key is found only
  by `params[...]` in `tfm/rules/definitions.py`. `OnlyAMissingKeyFails` says it is the only
  way.
- The text "provably passes the grounding gate" (`tfm/explanation/templated.py:6-7`): "in the
  last 24 hours" names a number that is in the package only if the velocity rule fired, and a
  probability is shown with four decimals. A status that is available and has no probability
  is neither refused (`tfm/schema/evidence.py:174-176`) nor scored
  (`tfm/recommendation/policy.py:102`): the page calls the case excluded, and the text prints
  "Model risk score: 0.0000" (`tfm/explanation/templated.py:27`, `:95`). `ExclusionIsTold` says
  what each place tells of each status, `GroundedWithinTheseLimits` where the claim holds; the
  cases the script opens are within those limits.
- "Compose exactly what the analyst saw, then freeze it" (`tfm/services/disposition_service.py:94`):
  the view is composed again by the process that serves the POST. `FrozenIsSeenWithinARun`
  holds up to a restart since the page was read.
- "The audit log is the sole source" of a reconstruction (`tfm/audit/reconstruct.py:7-8`),
  which takes the row with the greatest `created_at`. That is stamped (`tfm/audit/log.py:54`)
  before the commit, and decisions that overlap can commit in the other order.
  `OnlyStaleReadsMislead` says that what is reconstructed differs from what is in force only if
  some decision on the case was made on a status that another had overtaken.
- "The ordering basis is visible and re-sortable" (`config/queue_policy.yaml:5`): the validator
  accepts any name in `allowed_sorts`; a page sorted by a third one is ordered by risk and
  reports that name (`tfm/services/queue_service.py:75`). `PageIsInItsOrder` says so, and the
  `queue` run has such a policy.
- "Safe to call incrementally" (`tfm/data/ingest.py:112`): ids are positions, so a file of
  another export, ingested with success, loses the rows whose positions are taken.
  `FirstFileWins` says which rows the store holds, of any files; that it is the longest file
  holds of one growing export.
- "The leakage verdict is surfaced alongside the headline metrics" (`evaluation/run_all.py:10-12`):
  the two are read from two files, and after a training cut short between them, or read around
  one, the verdict is a later training's. `VerdictIsNoOlder` is what holds. The summary's
  status says "SCORER INELIGIBLE" whatever the manifest says (`evaluation/run_all.py:73`).
- "In Postgres, a trigger created by the initial migration" (`tfm/persistence/models.py:9-10`):
  seeding an empty database by hand before it is migrated creates the tables without it
  (`scripts/seed_cases.py:103`). `AtItsRevision` counts that store as the one exception, from
  which a start never serves, as its upgrade fails on the tables (`RefusalsHaveACause`); and it
  stays so until somebody drops them (`TheStackComesUp`).

## 6. Proofs

All theorems are of the specifications TLC checks, for all values of the constants under the
named assumptions (`RulesAssumption`, `ServiceAssumption`, `WorkspaceAssumption`,
`AssessmentAssumption`, `FeatureAssumption`, `OpeningAssumption`, `QueueAssumption`,
`IngestAssumption`, `GateAssumption`, `TrainingAssumption`, `FilesAssumption`,
`DeploymentAssumption`), which TLC evaluates on every run. Every safety property a passing
run checks is also proved. A theorem that needs more than the assumptions says so in its
statement: `ClientWaits = "end"`, `RicherFor \subseteq {"escalate"}`.

- **Recursion** (`RecursionProofs`, lemmas only). The model's few recursive functions are a
  selection and a running total. A recursive definition is, to the provers, some function
  that satisfies its equation; so that there is one is proved first
  (`RecursiveFunctionExists`, each next value a given function of the one before), and
  induction is the existence of a smallest counterexample (`UpwardClosed`), a statement about
  a set. `KeptPositions` then says where each kept element stands in the list.
- **Disposition service.** `IInv` adds to the types what each request carries at each point
  (`RequestsCarryValidBodies`, `RowsMatchBodies`), that the tables hold exactly the rows of
  committed requests, that a case read as pending has left the queue for good, and that an
  error ends a request. The second-last is what makes provenance inductive: a hold of a case
  loaded as pending writes no status, and must not leave it "queued".
  One lemma per action, then `Invariance`; the safety properties follow.
- **Stamps against commits** (`MisleadingIsStale`). Where decisions were made in turn, all but
  the first found the case pending and all but the last left it so; only the last can have
  closed it. That a hold is not committed over it after all needs `HInv`: a case is pending, or
  read as pending, only after a recorded hold that found it queued, and pending although a
  decision that found it pending closed it only after two of them. Two of them are not in turn.
  Stamps differ, as each advances the clock.
- **Refinement.** Under `ClientWaits = "end"`, `SerialInv` adds that one request works on a
  case at a time, that what it loaded is current, that stamps follow commits, and that the
  newest row explains the status. `Commit` then maps to the ledger's `Record`, everything
  else to a stutter (`Refinement`). Without the premise TLC refutes it (`recheck`).
- **Workspace.** `StepsOfTheService` says that every step of the composition is a step of the
  service or leaves it alone, so `IInv` and all that follows from it hold under the screens
  (`PromisesReachTheAnalysts`), and with `ClientWaits = "end"` the screens, too, use the ledger
  (`WorkspaceIsALedger`); TLC agrees on the `workspace` instance with that premise.
  `WInv` adds what a session holds at each point of its script, that a settled case stays
  settled (no open request can reopen it), and that a refusal for a conflict was answered
  when a closing decision was already in the log, where a trail read after it finds it; no trail
  of an earlier run is left on the page for one that could not be read.
  `HintSuffices` adds `DepthIsDue` and `ToldOfDepth`: a refusal for want of depth was due, and
  a screen tells of one only as the answer to the request it sent. Its premise is on the
  governance: of the actions that ask for more there is at most "escalate", as configured;
  deviations the hint knows by itself. A richer configuration would refuse unannounced.
- **Assessment.** `AInv` says that past startup the configuration is a valid one, that a
  failure happened at a lookup, that the result is what the policy returns for the hits, and
  that the hits before rule `next` are the selection of that many enabled rules; the policy
  properties are then case analyses over bands, rules and severities, and `EngineIsExact`, which
  no run checks, is the selection at the end of the list.
- **Queue.** A list "lists" a set if it has each of its elements once. The selected rows list
  the open cases of one moment, the filter keeps a list of what passes it, and the sort an
  arrangement of that: an arrangement in which each place sorts before the next uses no place
  twice, and so, the places being finitely many, uses each (`InjectiveIsOnto`,
  `ArrangingPermutes`). `QInv` carries this along the request, with a history that ends in
  the current status until the rows are read and only grows after.
- **Feature pass.** `FInv` is the loop invariant: rows sorted, the window contiguous from
  `lo` with everything left of it expired for good, the counterparties seen those of the
  account's rows so far. It gives the count and the counterparty features at every emission.
  `SInv` adds the amounts: the window's sum is the total over the window's positions, which
  gains one row by an addition and loses one by an eviction, the prior sum and maximum those
  of the account's rows before. An emitted row is about rows left of it, which never move.
- **Opening of cases.** `OInv`: the open transaction is a prefix of the batch, the tables hold
  all of it or nothing, and nothing while the script runs. So a guard on the first
  transaction protects all of them.
- **Explanations and pages.** `CInv` says that every case, pending or stored, is `IsCase`: its
  evidence, explanation, recommendation, score and hits are what `NewCase` makes of some
  transaction, prior, score and set of rules. A disposition changes the status only, so it
  stays so. The four theorems are then about that operation. Of a score they assume that its
  probability, if there is one, is a probability, and nothing of whether it should be there.
  The package is laid out place by place, so that each id is at one known place; a text has six
  kinds of sentences, and for each it is shown what it cites and shows. The rule sentences and
  the advice pass rule ids through the recommendation, whose basis is exactly the hits, so each
  has its element; the indicators are the stretch of the package between the facts and the
  history.
- **Ingestion.** Between the flushes the session has the parties of all rows of the file and
  everything committed; `Upserted` only adds. So references hold at each flush. For a store fed
  from one export, `Grown` says that the table is a prefix of the export, at least as long as
  every file committed, and `AccountsSeen` that each account was first seen in a row of it that
  no row of the account precedes; a commit takes the longer of two prefixes (`PrefixUpserted`).
  For files of any exports, the store's positions are those of the committed files, and each
  holds the row of the first file in `files` that has it: a commit appends a file, whose rows
  only get the positions none before it has. That the smallest step of an account exists is the
  library's well-foundedness of the naturals.
- **Training.** `IInv` ties each use of rows to its fold, the scorer to the gate of the
  primary, the artifact to the report and input of its version, and the verdict file to be no
  older than any artifact that can be read. `OnlineIsEarned` then follows from the gate alone
  (`GatePassed`), for any data, NaN included; `ArtifactBelongsTogether` and `VerdictIsNoOlder`
  are conjuncts of it. `PackageOK` carries to the packaging manifest that the files of the
  version `run_all` read exist and stay (`Kept`), and the grounding report it wrote first, under
  `FilesAssumption`: nothing a program
  writes is taken for a missing or a torn file.
- **Migrations.** `IsUp(d, j)` and `IsDown(d, j)` are the schema after the first `j` of the 12
  statements up, or down. `UpStep` and `DownStep`, the heart of it, run each statement where it
  stands: no table comes before one it references or goes before one that references it
  (`OrdersFit`), and only the statement that makes the score mandatory can be refused. A
  revision's script is a stretch of one of the lists, and the revisions are where the two meet
  (`Meetings`). `WholeInv` says, of any commands in any order, that what is committed is the
  schema of a revision or the store `create_all` made (`WasMade`); that a running migration is at
  a place of its stretch, or on that store has nothing to do or its first statement, which is
  refused; that what a start seeds and serves from is the head; and that a failed command has
  one of three causes (`Refused`). `RevisionsAreWhole` and `RefusalsAreExplained` read
  `AtItsRevision` and `RefusalsHaveACause` off it, without a premise on the order of commands.

Proved and not run, because the runs' other properties already exercise the same steps: the
types of `Assessment` and `FeatureBuilder`, `EngineIsExact`, `MerchantsCarryNoSignal`,
`FailsOnlyOnPoorFolds`, `ConflictMeansClosed` and, for one request at a time,
`DecidedOnlyWhileOpen`.

Only model-checked: liveness under fairness (`EveryRequestFinishes`,
`EverySubmissionIsAnswered`, `TheStackComesUp`), which TLAPS does not reach.

## 7. Not modelled

- Training's explanatory figures: permutation importances, association directions, the DF-1
  comparison, `tfm/ml/model.py`'s per-feature attributions (no caller uses them online), and
  scikit-learn's numerics. They decide nothing; the verdict and the calibration choice do.
- Evaluation's calibration bins, label texts and what the grounding report says: measurements
  and wording. That the report's file is written, and packaged, is modelled.
- Drift of float sums; columns, indexes and types of tables.
- The LLM explainer is a stub that raises; the templated one is the only one that can run.
- Routing, error handlers and logging of the API shell; Streamlit's rendering and layout;
  notebooks, which run the modelled code on samples.
- Two starts of the API's container at the same time (the compose file runs one), and two
  migration or seeding commands at once: each is modelled from its begin to its end. An
  operator's command while the API serves is modelled, what a request sees of it is not.
