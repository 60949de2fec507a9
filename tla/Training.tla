------------------------------ MODULE Training ------------------------------
(***************************************************************************)
(* Offline training and what is made of it.  scripts/train_model.py splits *)
(* the data out of time, fits, calibrates, evaluates and gates the         *)
(* candidates in turn, and writes three files: the training report, the    *)
(* leakage verdict and the scorer's artifact.  evaluation/run_all.py reads *)
(* the artifact and the verdict into a summary and a packaging manifest.   *)
(* The registry hands a scorer to the online path.                         *)
(*                                                                         *)
(* Files are written in place, one after the other; a process that dies    *)
(* while it writes leaves a torn file.  The programs share nothing but the *)
(* files.                                                                  *)
(***************************************************************************)
EXTENDS LeakageGate, Sequences, FiniteSets

CONSTANTS MaxTrainings,  \* bound on training runs
          Inputs,        \* for each training, what it may be given
          None, Torn     \* no file; a file cut short

Kinds == {"histgb", "lightgbm", "logistic"}

Config == [train_end: Nat, val_end: Nat, artifacts: SUBSET Groups,
           method: {"auto", "isotonic", "sigmoid"}, min_fraud: Nat,
           min_behavioural: Nat, max_delta: Nat]

(* The content of config/model.yaml, the labelled rows, and what an        *)
(* estimator would learn from them.                                        *)
Input == [cfg: Config, data: Data,
          quality: [{"histgb", "lightgbm"} -> [SUBSET Groups -> Nat]]]

Versions == 1..MaxTrainings

(* What training and run_all write.                                        *)
Verdict  == [version: Versions, verdict: {"pass", "fail"}]
Artifact == [version: Versions, scorer: Kinds, eligible: BOOLEAN, metrics: Kinds,
             method: {"isotonic", "sigmoid"}]
Summary  == [version: Versions, scorer_eligible: BOOLEAN, metrics: Kinds,
             leakage_verdict: Verdict]

ASSUME TrainingAssumption ==
    /\ MaxTrainings \in Nat
    /\ \A v \in Versions : Inputs[v] \subseteq Input

ASSUME FilesAssumption ==
    /\ None # Torn
    /\ \A file \in {None, Torn} :
          /\ file \notin {"pass", "fail"} /\ file \notin Versions
          /\ file \notin Verdict /\ file \notin Artifact /\ file \notin Summary
          /\ file # "whole"

VARIABLES
    pc,        \* how far the training is
    version,   \* the version it was given; counts the trainings
    given,     \* for each version, its configuration, rows and qualities
    at,        \* the candidate it is at
    chosen,    \* the calibration chosen for that candidate
    reports,   \* the reports of the candidates done
    scorer,    \* the primary: its kind, its verdict and its calibration
    used,      \* the steps fitted, calibrated and evaluated on so far
    report_files, verdict_file, artifact,  \* what training wrote
    rpc,       \* how far run_all is
    read,      \* what it read so far, in the form of the summary
    grounding, summary, package,           \* what run_all wrote
    online     \* the artifact the online path loaded

run    == <<at, chosen, reports, scorer, used>>
files  == <<report_files, verdict_file, artifact>>
output == <<rpc, read, grounding, summary, package>>
vars   == <<pc, version, given, run, files, output, online>>

Unused == [fitted |-> {}, calibrated |-> {}, evaluated |-> {}]

Init == /\ pc = "idle" /\ version = 0
        /\ given = [v \in Versions |-> None]
        /\ at = 1 /\ chosen = "none" /\ reports = <<>> /\ scorer = None
        /\ used = Unused
        /\ report_files = [v \in Versions |-> None]
        /\ verdict_file = None /\ artifact = None
        /\ rpc = "idle" /\ read = None
        /\ grounding = None /\ summary = None /\ package = None
        /\ online = None

(* What the training under way was given. *)
cfg     == given[version].cfg
data    == given[version].data
quality == given[version].quality

-----------------------------------------------------------------------------
(* load_model_config refuses boundaries out of order; the rows are loaded, *)
(* and the training is given its version.                                  *)
Start(i) ==
    /\ pc = "idle" /\ version < MaxTrainings
    /\ ValidSplit(i.cfg)
    /\ pc' = "fitting" /\ version' = version + 1
    /\ given' = [given EXCEPT ![version'] = i]
    /\ at' = 1 /\ chosen' = "none" /\ reports' = <<>> /\ scorer' = None
    /\ used' = Unused
    /\ UNCHANGED <<files, output, online>>

(* An exception ends the training before it wrote anything. *)
Fail == pc' = "failed" /\ UNCHANGED <<version, given, run, files, output, online>>

(* No estimator fits an empty fold, nor the logistic floor one class; what *)
(* the boosters make of one class is theirs.                               *)
Fit ==
    /\ pc = "fitting"
    /\ LET classes == Classes(data, TrainFold(cfg))
       IN  \/ classes # BOOLEAN /\ Fail
           \/ /\ classes # {}
              /\ classes = BOOLEAN \/ BuildCandidates[at].kind # "logistic"
              /\ used' = [used EXCEPT !.fitted = @ \cup TrainFold(cfg)]
              /\ pc' = "calibrating"
              /\ UNCHANGED <<version, given, at, chosen, reports, scorer, files,
                             output, online>>

FraudsIn(fold) == Cardinality({s \in fold : TRUE \in data[s]})

(* The methods choose_and_fit_calibrator may return: under "auto", Brier   *)
(* scores choose between both once the fold holds frauds enough.           *)
Methods(fold) ==
    CASE cfg.method # "auto"             -> {cfg.method}
      [] FraudsIn(fold) < cfg.min_fraud  -> {"sigmoid"}
      [] OTHER                           -> {"isotonic", "sigmoid"}

(* The sigmoid refuses a fold of one class, and "auto" always fits it;     *)
(* nothing is predicted on an empty fold.                                  *)
Calibrates(fold) ==
    LET classes == Classes(data, fold)
    IN  classes = BOOLEAN \/ (classes # {} /\ cfg.method = "isotonic")

(* The calibrator is fitted on the validation fold. *)
Calibrate ==
    /\ pc = "calibrating"
    /\ \/ ~Calibrates(ValFold(cfg)) /\ Fail
       \/ /\ Calibrates(ValFold(cfg))
          /\ chosen' \in Methods(ValFold(cfg))
          /\ used' = [used EXCEPT !.calibrated = @ \cup ValFold(cfg)]
          /\ pc' = "evaluating"
          /\ UNCHANGED <<version, given, at, reports, scorer, files, output, online>>

(* The metrics are taken on the test fold; two candidates are gated on it. *)
Evaluate ==
    /\ pc = "evaluating"
    /\ LET spec    == BuildCandidates[at]
           verdict == IF spec.kind \in {"histgb", "lightgbm"}
                      THEN RunLeakageGate(spec, quality, data, cfg) ELSE "none"
       IN  \/ Classes(data, TestFold(cfg)) = {} /\ Fail
           \/ /\ Classes(data, TestFold(cfg)) # {}
              /\ reports' = Append(reports, [kind |-> spec.kind, method |-> chosen,
                                             verdict |-> verdict])
              /\ scorer' = IF spec.primary
                           THEN [kind |-> spec.kind, verdict |-> verdict,
                                 method |-> chosen]
                           ELSE scorer
              /\ used' = [used EXCEPT !.evaluated = @ \cup TestFold(cfg)]
              /\ at' = at + 1
              /\ pc' = IF at = Len(BuildCandidates) THEN "reporting" ELSE "fitting"
              /\ UNCHANGED <<version, given, chosen, files, output, online>>

-----------------------------------------------------------------------------
training == <<version, given, run>>

WriteReport ==
    /\ pc = "reporting"
    /\ report_files' = [report_files EXCEPT ![version] = scorer.verdict]
    /\ pc' = "recording"
    /\ UNCHANGED <<training, verdict_file, artifact, output, online>>

(* The version is kept to tell trainings apart; the file names none.       *)
WriteVerdict ==
    /\ pc = "recording"
    /\ verdict_file' = [version |-> version, verdict |-> scorer.verdict]
    /\ pc' = "saving"
    /\ UNCHANGED <<training, report_files, artifact, output, online>>

(* What save_scorer bundles: the scorer, its eligibility and calibration,  *)
(* and the manifest with the metrics of the first report.                  *)
Bundle == [version |-> version, scorer |-> scorer.kind,
           eligible |-> scorer.verdict = "pass",
           metrics |-> reports[1].kind, method |-> scorer.method]

(* Mutant: the artifact is saved before the verdict is written. *)
SaveScorerFirst ==
    /\ pc \in {"reporting", "saving"}
    /\ artifact' = Bundle
    /\ pc' = IF pc = "saving" THEN "idle" ELSE pc
    /\ UNCHANGED <<training, report_files, verdict_file, output, online>>

SaveScorer ==
    /\ pc = "saving"
    /\ artifact' = Bundle
    /\ pc' = "idle"
    /\ UNCHANGED <<training, report_files, verdict_file, output, online>>

(* The training process dies; the file it was writing may be torn. *)
Crash ==
    /\ pc # "idle"
    /\ pc' = "idle"
    /\ \/ UNCHANGED files
       \/ /\ pc = "reporting"
          /\ report_files' = [report_files EXCEPT ![version] = Torn]
          /\ UNCHANGED <<verdict_file, artifact>>
       \/ /\ pc = "recording"
          /\ verdict_file' = Torn
          /\ UNCHANGED <<report_files, artifact>>
       \/ /\ pc = "saving"
          /\ artifact' = Torn
          /\ UNCHANGED <<report_files, verdict_file>>
    /\ UNCHANGED <<training, output, online>>

-----------------------------------------------------------------------------
Readable(file) == file \notin {None, Torn}

StartReporting ==
    /\ rpc = "idle"
    /\ rpc' = "started"
    /\ UNCHANGED <<pc, training, files, read, grounding, summary, package, online>>

(* main writes the grounding report before it looks at any other file.     *)
WriteGrounding ==
    /\ rpc = "started"
    /\ grounding' = "whole"
    /\ rpc' = "grounded"
    /\ UNCHANGED <<pc, training, files, read, summary, package, online>>

(* build_summary: the manifest of the artifact, read verbatim; an artifact *)
(* that is missing or torn ends the program,                               *)
ReadManifest ==
    /\ rpc = "grounded"
    /\ \/ /\ Readable(artifact)
          /\ read' = [version |-> artifact.version,
                      scorer_eligible |-> artifact.eligible,
                      metrics |-> artifact.metrics, leakage_verdict |-> None]
          /\ rpc' = "manifest"
       \/ ~Readable(artifact) /\ rpc' = "idle" /\ read' = None
    /\ UNCHANGED <<pc, training, files, grounding, summary, package, online>>

(* then the verdict beside it; a torn one ends the program. *)
ReadVerdict ==
    /\ rpc = "manifest"
    /\ \/ /\ Readable(verdict_file)
          /\ read' = [read EXCEPT !.leakage_verdict = verdict_file]
          /\ rpc' = "verdict"
       \/ ~Readable(verdict_file) /\ rpc' = "idle" /\ read' = None
    /\ UNCHANGED <<pc, training, files, grounding, summary, package, online>>

WriteSummary ==
    /\ rpc = "verdict"
    /\ summary' = read
    /\ rpc' = "summary"
    /\ UNCHANGED <<pc, training, files, read, grounding, package, online>>

(* Mutant: the manifest of the outputs is written before they are. *)
WritePackageFirst ==
    /\ rpc \in {"verdict", "summary"}
    /\ package' = read.version
    /\ rpc' = IF rpc = "summary" THEN "idle" ELSE rpc
    /\ read' = IF rpc = "summary" THEN None ELSE read
    /\ UNCHANGED <<pc, training, files, grounding, summary, online>>

(* build_manifest names the files by the summary's version. *)
WritePackage ==
    /\ rpc = "summary"
    /\ package' = read.version
    /\ rpc' = "idle" /\ read' = None
    /\ UNCHANGED <<pc, training, files, grounding, summary, online>>

(* run_all dies; the file it was writing may be torn. *)
ReporterDies ==
    /\ rpc # "idle"
    /\ rpc' = "idle" /\ read' = None
    /\ \/ UNCHANGED <<grounding, summary, package>>
       \/ rpc = "started" /\ grounding' = Torn /\ UNCHANGED <<summary, package>>
       \/ rpc = "verdict" /\ summary' = Torn /\ UNCHANGED <<grounding, package>>
       \/ rpc = "summary" /\ package' = Torn /\ UNCHANGED <<grounding, summary>>
    /\ UNCHANGED <<pc, training, files, online>>

(* package_evaluation: the files a manifest lists that do not exist. *)
Missing(listed) ==
    {f \in {"summary", "grounding", "report", "verdict", "artifact"} :
        \/ f = "summary"   /\ summary = None
        \/ f = "grounding" /\ grounding = None
        \/ f = "report"    /\ report_files[listed] = None
        \/ f = "verdict"   /\ verdict_file = None
        \/ f = "artifact"  /\ artifact = None}

(* load_scorer(require_pass=True): an artifact that did not pass raises. *)
LoadScorer ==
    /\ Readable(artifact) /\ artifact.eligible
    /\ online' = artifact
    /\ UNCHANGED <<pc, training, files, output>>

Next == \/ version < MaxTrainings /\ \E i \in Inputs[version + 1] : Start(i)
        \/ Fit \/ Calibrate \/ Evaluate
        \/ WriteReport \/ WriteVerdict \/ SaveScorer \/ Crash
        \/ StartReporting \/ WriteGrounding
        \/ ReadManifest \/ ReadVerdict \/ WriteSummary \/ WritePackage
        \/ ReporterDies
        \/ LoadScorer

Spec == Init /\ [][Next]_vars

-----------------------------------------------------------------------------
(* Nothing a figure is reported on was learnt from, for the candidates and *)
(* the gate's models alike: every evaluated row is later than every row    *)
(* used to calibrate, and those than every row used to fit.                *)
OutOfTime ==
    /\ \A s \in used.fitted, t \in used.calibrated : s < t
    /\ \A s \in used.fitted \cup used.calibrated, t \in used.evaluated : s < t

(* FR-4: a scorer is online only if its own training earned it: on a test  *)
(* fold of both classes, what it learns without the balance artifacts      *)
(* reaches the configured floor, and with them it is not much better.      *)
OnlineEarnedIt ==
    online # None =>
        LET earned  == given[online.version]
            learnt  == earned.quality[online.scorer]
            reduced == learnt[Reduced(PrimaryFeatures, earned.cfg)]
        IN  /\ ~Degenerate(earned.data, TestFold(earned.cfg))
            /\ reduced >= earned.cfg.min_behavioural
            /\ learnt[PrimaryFeatures] - reduced <= earned.cfg.max_delta

(* The metrics published with a scorer are that scorer's: the manifest     *)
(* takes those of the first candidate, the artifact holds the primary.     *)
MetricsAreTheScorers == Readable(artifact) => artifact.metrics = artifact.scorer

(* Training gives up only on a fold it cannot learn or be measured on. *)
FailsOnlyOnPoorFolds ==
    pc = "failed" => \/ Degenerate(data, TrainFold(cfg))
                     \/ Degenerate(data, ValFold(cfg))
                     \/ Classes(data, TestFold(cfg)) = {}

(* Whatever was cut short, an artifact that can be loaded has its whole    *)
(* report beside it, with the verdict the artifact carries.                *)
ArtifactIsReported ==
    Readable(artifact) =>
        report_files[artifact.version] = IF artifact.eligible THEN "pass" ELSE "fail"

(* Whatever was cut short, what can be loaded belongs together: scorer,    *)
(* metrics, report and verdict are those of one training (train_model.py). *)
ArtifactBelongsTogether == MetricsAreTheScorers /\ ArtifactIsReported

(* package_evaluation finds every file a whole manifest lists, though the  *)
(* program that wrote the list wrote none of the model's files.            *)
PackagedFilesExist == Readable(package) => Missing(package) = {}

(* A summary never pairs a scorer with the verdict of an earlier training. *)
VerdictIsNoOlder ==
    Readable(summary) => summary.leakage_verdict.version >= summary.version
=============================================================================
