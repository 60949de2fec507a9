--------------------------- MODULE TrainingProofs ---------------------------
(***************************************************************************)
(* Theorems of Training, for any configurations, rows and learnable        *)
(* qualities, any number of trainings, and crashes of either program at    *)
(* any point.                                                              *)
(***************************************************************************)
EXTENDS Training, TLAPS

(* What each training was given: a split in order.                         *)
WasGiven(v) == given[v] \in Input /\ ValidSplit(given[v].cfg)

GivenOK ==
    /\ version \in 0..MaxTrainings
    /\ DOMAIN given = Versions
    /\ \A v \in 1..version : WasGiven(v)
    /\ pc # "idle" => version >= 1

(* Each kind of use stays in its fold. *)
UsedOK ==
    /\ used \in [fitted: SUBSET Steps, calibrated: SUBSET Steps,
                 evaluated: SUBSET Steps]
    /\ version = 0 => used = Unused
    /\ version >= 1 => /\ used.fitted \subseteq TrainFold(cfg)
                       /\ used.calibrated \subseteq ValFold(cfg)
                       /\ used.evaluated \subseteq TestFold(cfg)

Report == [kind: Kinds, method: {"none", "isotonic", "sigmoid"},
           verdict: {"none", "pass", "fail"}]

(* The verdict of the gate on the primary, of what a training was given.   *)
Gate(e) == RunLeakageGate(BuildCandidates[1], e.quality, e.data, e.cfg)

(* Once the first candidate is done the primary is known, with its gate.   *)
TrainedOK ==
    /\ at \in 1..4
    /\ chosen \in {"none", "isotonic", "sigmoid"}
    /\ pc \in {"fitting", "calibrating", "evaluating"} => at \in 1..3
    /\ pc \in {"reporting", "recording", "saving"} => at = 4
    /\ at = 1 => reports = <<>>
    /\ at > 1 =>
         /\ reports # <<>> /\ reports \in Seq(Report)
         /\ reports[1].kind = "histgb"
         /\ scorer.kind = "histgb"
         /\ scorer.verdict = Gate(given[version])

(* An artifact is a primary of some training, with that gate's verdict.    *)
OfItsTraining(a) == /\ a.version \in 1..version
                    /\ a.scorer = "histgb" /\ a.metrics = "histgb"
                    /\ a.eligible = (Gate(given[a.version]) = "pass")

ArtifactOK ==
    /\ DOMAIN report_files = Versions
    /\ pc \in {"recording", "saving"} => report_files[version] = scorer.verdict
    /\ Readable(artifact) =>
         /\ OfItsTraining(artifact)
         /\ pc # "idle" => artifact.version < version
    /\ ArtifactIsReported
    /\ online # None => OfItsTraining(online) /\ online.eligible

(* What run_all read is never newer than the verdict it has still to read. *)
SummaryOK ==
    /\ pc = "saving" => verdict_file.version = version
    /\ Readable(verdict_file) /\ Readable(artifact)
         => verdict_file.version >= artifact.version
    /\ rpc = "manifest" =>
         /\ \E v \in 1..version : \E e, m, l :
               read = [version |-> v, scorer_eligible |-> e, metrics |-> m,
                       leakage_verdict |-> l]
         /\ Readable(verdict_file) => verdict_file.version >= read.version
    /\ rpc \in {"verdict", "summary"} =>
         read.leakage_verdict.version >= read.version
    /\ VerdictIsNoOlder

IInv == GivenOK /\ UsedOK /\ TrainedOK /\ ArtifactOK /\ SummaryOK

-----------------------------------------------------------------------------
(* A passed gate was run on a test fold of both classes, and both its      *)
(* dimensions held.                                                        *)
LEMMA GatePassed ==
  ASSUME NEW e \in Input, Gate(e) = "pass"
  PROVE  LET learnt  == e.quality["histgb"]
             reduced == learnt[Reduced(PrimaryFeatures, e.cfg)]
         IN  /\ ~Degenerate(e.data, TestFold(e.cfg))
             /\ reduced >= e.cfg.min_behavioural
             /\ learnt[PrimaryFeatures] - reduced <= e.cfg.max_delta
<1> DEFINE c == e.cfg
           d == e.data
           q == e.quality
           learnt  == q["histgb"]
           reduced == learnt[Reduced(PrimaryFeatures, c)]
<1>1. BuildCandidates[1] = [kind |-> "histgb", features |-> PrimaryFeatures,
                            primary |-> TRUE]
  BY DEF BuildCandidates
<1>2. reduced \in Nat /\ learnt[PrimaryFeatures] \in Nat
  <2>1. PrimaryFeatures \in SUBSET Groups /\ Reduced(PrimaryFeatures, c) \in SUBSET Groups
    BY DEF PrimaryFeatures, Groups, Reduced
  <2>2. q \in [{"histgb", "lightgbm"} -> [SUBSET Groups -> Nat]]
    BY DEF Input
  <2> QED
    BY <2>1, <2>2
<1>3. NaN # reduced
  BY <1>2, GateAssumption
<1> DEFINE deg == Degenerate(d, TestFold(c))
<1>4. DeriveVerdict(IF deg THEN NaN ELSE reduced,
                    IF (IF deg THEN NaN ELSE learnt[PrimaryFeatures]) = NaN THEN NaN
                    ELSE (IF deg THEN NaN ELSE learnt[PrimaryFeatures])
                           - (IF deg THEN NaN ELSE reduced), c) = "pass"
  BY <1>1 DEF Gate, RunLeakageGate, PrAuc
<1>5. ~deg
  BY <1>4 DEF DeriveVerdict
<1>6. learnt[PrimaryFeatures] # NaN
  BY <1>2, GateAssumption
<1>7. DeriveVerdict(reduced, learnt[PrimaryFeatures] - reduced, c) = "pass"
  BY <1>4, <1>5, <1>6
<1> HIDE DEF learnt, reduced
<1>8. reduced >= c.min_behavioural /\ learnt[PrimaryFeatures] - reduced <= c.max_delta
  BY <1>3, <1>7 DEF DeriveVerdict
<1> QED
  BY <1>5, <1>8 DEF learnt, reduced

(* The gate says pass or fail, of anything.                                *)
LEMMA GateDecides ==
  ASSUME NEW spec, NEW q, NEW d, NEW c
  PROVE  RunLeakageGate(spec, q, d, c) \in {"pass", "fail"}
BY DEF RunLeakageGate, DeriveVerdict

(* The invariant holds before any training.                                *)
LEMMA InitInvariant == Init => IInv
<1> SUFFICES ASSUME Init PROVE IInv
  OBVIOUS
<1>1. GivenOK
  BY TrainingAssumption DEF Init, GivenOK, Versions
<1>2. UsedOK
  BY DEF Init, UsedOK, Unused
<1>3. TrainedOK
  BY DEF Init, TrainedOK
<1>4. ArtifactOK
  BY DEF Init, ArtifactOK, Readable, ArtifactIsReported
<1>5. SummaryOK
  BY DEF Init, SummaryOK, Readable, VerdictIsNoOlder
<1> QED
  BY <1>1, <1>2, <1>3, <1>4, <1>5 DEF IInv

-----------------------------------------------------------------------------
(* The steps of a training under way, and those that only use its files.   *)
Train == \/ Fit \/ Calibrate \/ Evaluate
         \/ WriteReport \/ WriteVerdict \/ SaveScorer \/ Crash

Use == \/ StartReporting \/ WriteGrounding \/ ReadManifest \/ ReadVerdict
       \/ WriteSummary \/ WritePackage \/ ReporterDies \/ LoadScorer \/ UNCHANGED vars

LEMMA TrainKeeps ==
  ASSUME Train
  PROVE  /\ version' = version /\ given' = given
         /\ rpc' = rpc /\ read' = read /\ summary' = summary /\ online' = online
         /\ pc # "idle"
BY DEF Train, Fit, Fail, Calibrate, Evaluate, WriteReport, WriteVerdict,
       SaveScorer, Crash, training, output

LEMMA UseKeeps ==
  ASSUME Use
  PROVE  /\ pc' = pc /\ version' = version /\ given' = given
         /\ at' = at /\ chosen' = chosen /\ reports' = reports
         /\ scorer' = scorer /\ used' = used
         /\ report_files' = report_files /\ verdict_file' = verdict_file
         /\ artifact' = artifact
BY DEF Use, StartReporting, WriteGrounding, ReadManifest, ReadVerdict,
       WriteSummary, WritePackage, ReporterDies, LoadScorer, vars, training, run,
       files

(* A training starts with a split in order and nothing used or done.       *)
LEMMA StartStep ==
  ASSUME IInv, version < MaxTrainings, NEW i \in Inputs[version + 1], Start(i)
  PROVE  IInv'
<1>1. /\ version' = version + 1 /\ version \in Nat /\ version < MaxTrainings
      /\ version' \in Versions
  BY TrainingAssumption DEF IInv, GivenOK, Start, Versions
<1>2. /\ DOMAIN given' = Versions
      /\ given'[version'] = i /\ i \in Input /\ ValidSplit(i.cfg)
      /\ \A v \in 1..version : given'[v] = given[v]
  <2>1. i \in Input /\ version' = version + 1
    BY <1>1, TrainingAssumption DEF Versions
  <2> QED
    BY <1>1, <2>1 DEF IInv, GivenOK, Start, Versions
<1>3. GivenOK'
  <2>1. \A v \in 1..version : WasGiven(v)'
    BY <1>2 DEF IInv, GivenOK, WasGiven
  <2>2. WasGiven(version)'
    BY <1>2 DEF Start, WasGiven
  <2>3. 1..version' = (1..version) \cup {version'}
    BY <1>1
  <2> QED
    BY <1>1, <1>2, <2>1, <2>2, <2>3, TrainingAssumption DEF GivenOK, Versions
<1>4. UsedOK'
  BY <1>1 DEF Start, UsedOK, Unused
<1>5. TrainedOK'
  BY DEF Start, TrainedOK
<1>6. ArtifactOK'
  <2>1. \A a : OfItsTraining(a) => OfItsTraining(a)' /\ a.version < version'
    BY <1>1, <1>2 DEF OfItsTraining
  <2> QED
    BY <2>1 DEF IInv, ArtifactOK, Start, files, Readable, ArtifactIsReported,
                output
<1>7. SummaryOK'
  BY <1>1 DEF IInv, SummaryOK, Start, files, output, Readable, VerdictIsNoOlder
<1> QED
  BY <1>3, <1>4, <1>5, <1>6, <1>7 DEF IInv

(* A row is used for what its fold is for. *)
LEMMA UsedStep ==
  ASSUME IInv, Train
  PROVE  UsedOK'
<1>1. /\ TrainFold(cfg) \subseteq Steps /\ ValFold(cfg) \subseteq Steps
      /\ TestFold(cfg) \subseteq Steps
  BY DEF TrainFold, ValFold, TestFold
<1>2. version' = version /\ cfg' = cfg /\ version # 0
  BY TrainKeeps DEF cfg, IInv, GivenOK
<1>3. \/ used' = used
      \/ used' = [used EXCEPT !.fitted = @ \cup TrainFold(cfg)]
      \/ used' = [used EXCEPT !.calibrated = @ \cup ValFold(cfg)]
      \/ used' = [used EXCEPT !.evaluated = @ \cup TestFold(cfg)]
  BY DEF Train, Fit, Fail, Calibrate, Evaluate, WriteReport, WriteVerdict,
         SaveScorer, Crash, training, run
<1>4. /\ TrainFold(cfg)' = TrainFold(cfg) /\ ValFold(cfg)' = ValFold(cfg)
      /\ TestFold(cfg)' = TestFold(cfg)
  BY <1>2 DEF TrainFold, ValFold, TestFold
<1>5. UsedOK
  BY DEF IInv
<1>6. used.fitted \subseteq TrainFold(cfg) /\ used.calibrated \subseteq ValFold(cfg)
      /\ used.evaluated \subseteq TestFold(cfg)
  BY <1>2, <1>5 DEF UsedOK, IInv, GivenOK
<1> HIDE DEF cfg
<1>7. /\ used' \in [fitted: SUBSET Steps, calibrated: SUBSET Steps,
                     evaluated: SUBSET Steps]
      /\ used'.fitted \subseteq TrainFold(cfg) /\ used'.calibrated \subseteq ValFold(cfg)
      /\ used'.evaluated \subseteq TestFold(cfg)
  BY <1>1, <1>3, <1>5, <1>6 DEF UsedOK
<1> QED
  BY <1>2, <1>4, <1>7 DEF UsedOK

(* The first candidate makes the primary and its report; later ones keep   *)
(* both.                                                                   *)
LEMMA TrainedStep ==
  ASSUME IInv, Train
  PROVE  TrainedOK'
<1>1. given'[version'] = given[version]
  BY TrainKeeps
<1>2. Len(BuildCandidates) = 3 /\ \A i \in 1..3 :
        /\ BuildCandidates[i].kind \in Kinds
        /\ BuildCandidates[i].primary <=> i = 1
        /\ i = 1 => BuildCandidates[i].kind = "histgb"
  BY DEF BuildCandidates, Kinds
<1>3. CASE Evaluate /\ pc' # "failed"
  <2> DEFINE spec    == BuildCandidates[at]
             verdict == IF spec.kind \in {"histgb", "lightgbm"}
                        THEN RunLeakageGate(spec, quality, data, cfg) ELSE "none"
             report  == [kind |-> spec.kind, method |-> chosen, verdict |-> verdict]
  <2>1. at \in 1..3 /\ chosen \in {"none", "isotonic", "sigmoid"}
    BY <1>3 DEF IInv, TrainedOK, Evaluate
  <2>2. /\ reports' = Append(reports, report)
        /\ scorer' = IF spec.primary THEN [kind |-> spec.kind, verdict |-> verdict,
                                           method |-> chosen]
                     ELSE scorer
        /\ at' = at + 1 /\ chosen' = chosen
        /\ pc' = IF at = 3 THEN "reporting" ELSE "fitting"
    BY <1>2, <1>3 DEF Evaluate, Fail
  <2>3. report \in Report
    BY <1>2, <2>1, GateDecides DEF Report
  <2>4. CASE at = 1
    <3>1. verdict = Gate(given[version]) /\ spec.primary /\ spec.kind = "histgb"
      BY <1>2, <2>4 DEF Gate, cfg, data, quality
    <3>2. reports' = <<report>>
      BY <2>2, <2>4 DEF IInv, TrainedOK
    <3>3. scorer'.kind = "histgb" /\ scorer'.verdict = Gate(given[version])
      BY <2>2, <3>1
    <3>4. report.kind = "histgb"
      BY <3>1
    <3> HIDE DEF report
    <3>5. reports' \in Seq(Report) /\ reports' # <<>> /\ reports'[1].kind = "histgb"
      BY <2>3, <3>2, <3>4
    <3>6. at' = 2 /\ pc' = "fitting"
      BY <2>2, <2>4
    <3> QED
      BY <1>1, <2>1, <2>2, <3>3, <3>5, <3>6 DEF TrainedOK
  <2>5. CASE at > 1
    <3>1. ~spec.primary
      BY <1>2, <2>1, <2>5
    <3>2. reports \in Seq(Report) /\ reports # <<>> /\ reports[1].kind = "histgb"
      BY <2>5 DEF IInv, TrainedOK
    <3> HIDE DEF spec, report
    <3>3. reports' \in Seq(Report) /\ reports' # <<>> /\ reports'[1] = reports[1]
      BY <2>2, <2>3, <3>2
    <3> QED
      BY <1>1, <2>1, <2>2, <2>5, <3>1, <3>2, <3>3 DEF IInv, TrainedOK
  <2> QED
    BY <2>1, <2>4, <2>5
<1>4. CASE ~(Evaluate /\ pc' # "failed")
  <2>0. Methods(ValFold(cfg)) \subseteq {"isotonic", "sigmoid"}
    <3>1. cfg \in Config
      <4>1. version \in 1..version
        BY TrainKeeps, TrainingAssumption DEF IInv, GivenOK
      <4>2. WasGiven(version)
        BY <4>1 DEF IInv, GivenOK
      <4> QED
        BY <4>2 DEF WasGiven, cfg, Input
    <3> QED
      BY <3>1 DEF Methods, Config
  <2>1. /\ at' = at /\ reports' = reports /\ scorer' = scorer
        /\ chosen' = chosen \/ chosen' \in {"isotonic", "sigmoid"}
        /\ pc' \in {"fitting", "calibrating", "evaluating"}
             => pc \in {"fitting", "calibrating", "evaluating"}
        /\ pc' \in {"reporting", "recording", "saving"}
             => pc \in {"reporting", "recording", "saving"}
    BY <1>4, <2>0 DEF Train, Fit, Fail, Calibrate, Evaluate, WriteReport,
         WriteVerdict, SaveScorer, Crash, training, run
  <2> QED
    BY <1>1, <2>1 DEF IInv, TrainedOK
<1> QED
  BY <1>3, <1>4

(* What an artifact was made of stays what it was.                         *)
LEMMA OfItsTrainingKept ==
  ASSUME version' = version, given' = given
  PROVE  \A a : OfItsTraining(a)' = OfItsTraining(a)
BY DEF OfItsTraining

(* A training writes the report, then the artifact, of its own version;    *)
(* the artifact there was is of an earlier one.                            *)
LEMMA ArtifactStep ==
  ASSUME IInv, Train
  PROVE  ArtifactOK'
<1>1. /\ version' = version /\ given' = given /\ online' = online
      /\ pc # "idle" /\ version \in 1..version /\ version \in Versions
  BY TrainKeeps, TrainingAssumption DEF IInv, GivenOK, Versions
<1>2. \A a : OfItsTraining(a)' = OfItsTraining(a)
  BY <1>1, OfItsTrainingKept
<1>3. Readable(artifact) => /\ OfItsTraining(artifact)
                            /\ artifact.version < version
                            /\ artifact.version \in Versions
  BY <1>1, TrainingAssumption DEF IInv, ArtifactOK, OfItsTraining, GivenOK, Versions
<1>4. online' # None => (OfItsTraining(online) /\ online.eligible)'
  BY <1>1, <1>2 DEF IInv, ArtifactOK
<1>5. DOMAIN report_files = Versions /\ ArtifactIsReported
  BY DEF IInv, ArtifactOK
<1>6. CASE Fit \/ Calibrate \/ Evaluate \/ WriteVerdict
  <2>1. /\ report_files' = report_files /\ artifact' = artifact
        /\ pc' \in {"recording", "saving"} => pc = "recording" /\ scorer' = scorer
    BY <1>6 DEF Fit, Fail, Calibrate, Evaluate, WriteVerdict, files, training, run
  <2>2. pc = "recording" => report_files[version] = scorer.verdict
    BY DEF IInv, ArtifactOK
  <2> QED
    BY <1>1, <1>2, <1>3, <1>4, <1>5, <2>1, <2>2 DEF ArtifactOK, ArtifactIsReported,
       Readable
<1>7. CASE WriteReport
  <2>1. /\ report_files' = [report_files EXCEPT ![version] = scorer.verdict]
        /\ artifact' = artifact /\ scorer' = scorer
    BY <1>7 DEF WriteReport, training, run
  <2> QED
    BY <1>1, <1>2, <1>3, <1>4, <1>5, <2>1 DEF ArtifactOK, ArtifactIsReported, Readable
<1>8. CASE SaveScorer
  <2>1. /\ report_files' = report_files /\ scorer' = scorer
        /\ artifact' = Bundle /\ pc' = "idle" /\ pc = "saving"
    BY <1>8 DEF SaveScorer, training, run
  <2>2. /\ scorer.kind = "histgb" /\ scorer.verdict = Gate(given[version])
        /\ reports[1].kind = "histgb"
    BY <2>1 DEF IInv, TrainedOK
  <2>3. Gate(given[version]) \in {"pass", "fail"}
    BY GateDecides DEF Gate
  <2>4. /\ artifact'.version = version /\ artifact'.scorer = "histgb"
        /\ artifact'.metrics = "histgb"
        /\ artifact'.eligible = (Gate(given[version]) = "pass")
    BY <2>1, <2>2 DEF Bundle
  <2>5. report_files[version] = Gate(given[version])
    BY <2>1, <2>2 DEF IInv, ArtifactOK
  <2>6. OfItsTraining(artifact)'
    BY <1>1, <2>4 DEF OfItsTraining
  <2>7. ArtifactIsReported'
    BY <2>1, <2>3, <2>4, <2>5 DEF ArtifactIsReported
  <2> QED
    BY <1>4, <1>5, <2>1, <2>6, <2>7 DEF ArtifactOK
<1>9. CASE Crash
  <2>1. /\ pc' = "idle"
        /\ \/ report_files' = report_files
           \/ report_files' = [report_files EXCEPT ![version] = Torn]
        /\ artifact' \in {artifact, Torn}
    BY <1>9 DEF Crash, files
  <2>2. ArtifactIsReported'
    BY <1>1, <1>3, <1>5, <2>1 DEF ArtifactIsReported, Readable
  <2> QED
    BY <1>1, <1>2, <1>3, <1>4, <1>5, <2>1, <2>2 DEF ArtifactOK, Readable
<1> QED
  BY <1>6, <1>7, <1>8, <1>9 DEF Train

(* The verdict is written before the artifact it belongs to.               *)
LEMMA SummaryStep ==
  ASSUME IInv, Train
  PROVE  SummaryOK'
<1>1. /\ version' = version /\ rpc' = rpc /\ read' = read /\ summary' = summary
      /\ pc # "idle" /\ version \in Nat
  BY TrainKeeps, TrainingAssumption DEF IInv, GivenOK
<1>2. SummaryOK
  BY DEF IInv
<1>3. Readable(artifact) => artifact.version \in 1..version
  BY DEF IInv, ArtifactOK, OfItsTraining
<1>4. rpc = "manifest" => read.version \in 1..version
  BY <1>2 DEF SummaryOK
<1>5. CASE verdict_file' = verdict_file /\ artifact' \in {artifact, Torn} /\ pc' # "saving"
  BY <1>1, <1>2, <1>5 DEF SummaryOK, Readable, VerdictIsNoOlder
<1>6. CASE verdict_file' = Torn /\ artifact' = artifact /\ pc' # "saving"
  BY <1>1, <1>2, <1>6 DEF SummaryOK, Readable, VerdictIsNoOlder
<1>7. CASE WriteVerdict
  <2>1. verdict_file'.version = version /\ artifact' = artifact
    BY <1>7 DEF WriteVerdict
  <2> QED
    BY <1>1, <1>2, <1>3, <1>4, <2>1 DEF SummaryOK, Readable, VerdictIsNoOlder
<1>8. CASE SaveScorer
  <2>1. /\ artifact'.version = version /\ verdict_file' = verdict_file
        /\ pc = "saving" /\ pc' = "idle"
    BY <1>8 DEF SaveScorer, Bundle
  <2> QED
    BY <1>1, <1>2, <2>1 DEF SummaryOK, Readable, VerdictIsNoOlder
<1>9. CASE Fit \/ Calibrate \/ Evaluate \/ WriteReport \/ Crash
  BY <1>5, <1>6, <1>9 DEF Fit, Fail, Calibrate, Evaluate, WriteReport, Crash, files
<1> QED
  BY <1>7, <1>8, <1>9 DEF Train

(* run_all carries what it read of the artifact to the verdict, the        *)
(* summary and the manifest; the online path loads what passed.            *)
LEMMA UseStep ==
  ASSUME IInv, Use
  PROVE  IInv'
<1>1. GivenOK' /\ TrainedOK'
  <2>1. GivenOK'
    BY UseKeeps DEF IInv, GivenOK, WasGiven
  <2>2. Gate(given[version])' = Gate(given[version])
    BY UseKeeps
  <2> QED
    BY <2>1, <2>2, UseKeeps DEF IInv, TrainedOK
<1>2. UsedOK'
  BY UseKeeps DEF IInv, UsedOK, cfg, TrainFold, ValFold, TestFold
<1>3. ArtifactOK'
  <2>1. online' = online \/ (online' = artifact /\ Readable(artifact) /\ artifact.eligible)
    BY DEF Use, StartReporting, WriteGrounding, ReadManifest, ReadVerdict,
           WriteSummary, WritePackage, ReporterDies, LoadScorer, vars
  <2>2. \A a : OfItsTraining(a)' = OfItsTraining(a)
    BY UseKeeps, OfItsTrainingKept
  <2> QED
    BY <2>1, <2>2, UseKeeps DEF IInv, ArtifactOK, ArtifactIsReported, Readable
<1>4. SummaryOK'
  <2>1. SummaryOK
    BY DEF IInv
  <2>2. CASE ReadManifest /\ rpc' = "manifest"
    <3>1. artifact.version \in 1..version /\ Readable(artifact)
      BY <2>2 DEF ReadManifest, IInv, ArtifactOK, OfItsTraining
    <3>2. /\ read' = [version |-> artifact.version, scorer_eligible |-> artifact.eligible,
                     metrics |-> artifact.metrics, leakage_verdict |-> None]
          /\ rpc' = "manifest" /\ summary' = summary
      BY <2>2 DEF ReadManifest
    <3> QED
      BY <2>1, <3>1, <3>2, UseKeeps DEF SummaryOK, Readable, VerdictIsNoOlder
  <2>3. CASE ReadVerdict
    <3>1. CASE rpc' = "idle"
      BY <2>1, <2>3, <3>1, UseKeeps DEF ReadVerdict, SummaryOK, VerdictIsNoOlder, Readable
    <3>2. CASE rpc' = "verdict"
      <4>1. /\ rpc = "manifest" /\ Readable(verdict_file) /\ summary' = summary
            /\ read' = [read EXCEPT !.leakage_verdict = verdict_file]
        BY <2>3, <3>2 DEF ReadVerdict
      <4>2. read'.version = read.version /\ read'.leakage_verdict = verdict_file
        BY <2>1, <4>1 DEF SummaryOK
      <4> QED
        BY <2>1, <3>2, <4>1, <4>2, UseKeeps DEF SummaryOK, VerdictIsNoOlder, Readable
    <3> QED
      BY <2>3, <3>1, <3>2 DEF ReadVerdict
  <2>4. CASE WriteSummary
    BY <2>1, <2>4, UseKeeps DEF WriteSummary, SummaryOK, VerdictIsNoOlder, Readable
  <2>5. CASE \/ StartReporting \/ WriteGrounding \/ WritePackage \/ ReporterDies
             \/ ReadManifest /\ rpc' = "idle"
    <3>1. /\ rpc' \in {"idle", "started", "grounded"}
          /\ summary' = summary \/ summary' = Torn
      BY <2>5 DEF StartReporting, WriteGrounding, WritePackage, ReporterDies,
                  ReadManifest
    <3> QED
      BY <2>1, <3>1, UseKeeps DEF SummaryOK, VerdictIsNoOlder, Readable
  <2>6. CASE LoadScorer \/ UNCHANGED vars
    BY <2>1, <2>6, UseKeeps DEF LoadScorer, vars, output, SummaryOK,
       VerdictIsNoOlder, Readable
  <2> QED
    BY <2>2, <2>3, <2>4, <2>5, <2>6 DEF Use, ReadManifest
<1> QED
  BY <1>1, <1>2, <1>3, <1>4 DEF IInv

(* Every step keeps the invariant.                                         *)
LEMMA NextInvariant == IInv /\ [Next]_vars => IInv'
<1> SUFFICES ASSUME IInv, [Next]_vars PROVE IInv'
  OBVIOUS
<1>1. ASSUME Train PROVE IInv'
  <2>1. GivenOK'
    BY <1>1, TrainKeeps DEF IInv, GivenOK, WasGiven
  <2> QED
    BY <1>1, <2>1, UsedStep, TrainedStep, ArtifactStep, SummaryStep DEF IInv
<1> QED
  BY <1>1, StartStep, UseStep DEF Next, Train, Use

(* The invariant holds in every reachable state. *)
THEOREM Invariance == Spec => []IInv
BY InitInvariant, NextInvariant, PTL DEF Spec

-----------------------------------------------------------------------------
(* No row a figure is reported on was fitted or calibrated on, or is from  *)
(* before one that was (make_splits, train_models).                        *)
THEOREM TestedOutOfTime == Spec => []OutOfTime
<1>1. IInv => OutOfTime
  <2> SUFFICES ASSUME IInv PROVE OutOfTime
    OBVIOUS
  <2>1. CASE version = 0
    BY <2>1 DEF IInv, UsedOK, Unused, OutOfTime
  <2>2. CASE version # 0
    <3>1. version \in 1..version
      BY <2>2, TrainingAssumption DEF IInv, GivenOK
    <3>2. cfg \in Config /\ ValidSplit(cfg)
      <4>1. WasGiven(version)
        BY <3>1 DEF IInv, GivenOK
      <4> QED
        BY <4>1 DEF WasGiven, cfg, Input
    <3>3. cfg.train_end \in Nat /\ cfg.val_end \in Nat /\ cfg.train_end < cfg.val_end
      BY <3>2 DEF Config, ValidSplit
    <3>4. /\ used.fitted \subseteq TrainFold(cfg)
          /\ used.calibrated \subseteq ValFold(cfg)
          /\ used.evaluated \subseteq TestFold(cfg)
      BY <3>1, <2>2 DEF IInv, UsedOK
    <3> HIDE DEF cfg
    <3>5. \A s \in Steps : s \in Nat
      BY GateAssumption
    <3> QED
      BY <3>3, <3>4, <3>5 DEF OutOfTime, TrainFold, ValFold, TestFold
  <2> QED
    BY <2>1, <2>2
<1> QED
  BY <1>1, Invariance, PTL

(* FR-4, for any data and any configuration: what is online passed the     *)
(* gate of its own training in both dimensions (derive_verdict,            *)
(* load_scorer).                                                           *)
THEOREM OnlineIsEarned == Spec => []OnlineEarnedIt
<1>1. IInv => OnlineEarnedIt
  <2> SUFFICES ASSUME IInv, online # None PROVE OnlineEarnedIt
    BY DEF OnlineEarnedIt
  <2>1. /\ online.version \in 1..version /\ online.scorer = "histgb"
        /\ Gate(given[online.version]) = "pass"
    BY DEF IInv, ArtifactOK, OfItsTraining
  <2>2. given[online.version] \in Input
    BY <2>1 DEF IInv, GivenOK, WasGiven
  <2> QED
    BY <2>1, <2>2, GatePassed DEF OnlineEarnedIt
<1> QED
  BY <1>1, Invariance, PTL

(* An artifact that can be loaded has its report, and its metrics are its  *)
(* own scorer's, whatever was cut short (train_model.py).                  *)
THEOREM ArtifactsBelongTogether == Spec => []ArtifactBelongsTogether
<1>1. IInv => ArtifactBelongsTogether
  BY DEF IInv, ArtifactOK, OfItsTraining, MetricsAreTheScorers,
         ArtifactBelongsTogether
<1> QED
  BY <1>1, Invariance, PTL

(* A summary's verdict is never older than its scorer (build_summary).     *)
THEOREM VerdictsAreFresh == Spec => []VerdictIsNoOlder
<1>1. IInv => VerdictIsNoOlder
  BY DEF IInv, SummaryOK
<1> QED
  BY <1>1, Invariance, PTL

(* A training fails only for want of rows or classes in one of its folds.  *)
THEOREM FailuresAreExplained == Spec => []FailsOnlyOnPoorFolds
<1>1. Init => FailsOnlyOnPoorFolds
  BY DEF Init, FailsOnlyOnPoorFolds
<1>2. FailsOnlyOnPoorFolds /\ [Next]_vars => FailsOnlyOnPoorFolds'
  <2> SUFFICES ASSUME FailsOnlyOnPoorFolds, [Next]_vars, pc' = "failed"
               PROVE  FailsOnlyOnPoorFolds'
    BY DEF FailsOnlyOnPoorFolds
  <2>1. CASE Train
    <3>1. /\ Fit \/ Calibrate \/ Evaluate
          /\ cfg' = cfg /\ data' = data
      BY <2>1, TrainKeeps DEF Train, WriteReport, WriteVerdict, SaveScorer, Crash,
                              cfg, data
    <3>2. \/ Degenerate(data, TrainFold(cfg)) \/ Degenerate(data, ValFold(cfg))
          \/ Classes(data, TestFold(cfg)) = {}
      BY <3>1 DEF Fit, Calibrate, Evaluate, Calibrates, Degenerate
    <3> QED
      BY <3>1, <3>2 DEF FailsOnlyOnPoorFolds, Degenerate, Classes, TrainFold,
                        ValFold, TestFold
  <2>2. CASE Use
    BY <2>2, UseKeeps DEF FailsOnlyOnPoorFolds, cfg, data, Degenerate, Classes,
                          TrainFold, ValFold, TestFold
  <2> QED
    BY <2>1, <2>2 DEF Next, Train, Use, Start
<1> QED
  BY <1>1, <1>2, PTL DEF Spec

-----------------------------------------------------------------------------
(* The files of training that a manifest of version v names and run_all    *)
(* does not look at.                                                       *)
Written(v) == report_files[v] # None /\ artifact # None

(* What a program is about to write is of the file's kind, so never None   *)
(* or Torn; whatever run_all has read or written exists.                   *)
PackageOK ==
    /\ pc = "evaluating" => chosen \in {"isotonic", "sigmoid"}
    /\ at > 1 => scorer.method \in {"isotonic", "sigmoid"}
    /\ Readable(artifact) => artifact \in Artifact
    /\ Readable(verdict_file) => verdict_file \in Verdict
    /\ rpc \in {"manifest", "verdict", "summary"} =>
                       /\ read.version \in Versions /\ Written(read.version)
                       /\ \E e \in BOOLEAN, m \in Kinds : \E l :
                            read = [version |-> read.version, scorer_eligible |-> e,
                                    metrics |-> m, leakage_verdict |-> l]
    /\ rpc \in {"grounded", "manifest", "verdict", "summary"} => grounding # None
    /\ rpc \in {"verdict", "summary"} => /\ verdict_file # None
                                         /\ read.leakage_verdict \in Verdict
    /\ rpc = "summary" => summary # None
    /\ Readable(package) => package \in Versions
    /\ PackagedFilesExist

(* A file that exists stays, torn or overwritten as it may be.             *)
Kept == /\ \A v \in Versions : report_files[v] # None => report_files'[v] # None
        /\ artifact # None => artifact' # None
        /\ verdict_file # None => verdict_file' # None
        /\ grounding # None => grounding' # None
        /\ summary # None => summary' # None

(* Training writes files of their kind and removes none.                   *)
LEMMA TrainingPackage ==
  ASSUME IInv, PackageOK, Train
  PROVE  PackageOK' /\ Kept
<1>1. /\ version' = version /\ given' = given
      /\ rpc' = rpc /\ read' = read /\ grounding' = grounding
      /\ summary' = summary /\ package' = package
      /\ pc # "idle" /\ version \in Versions /\ DOMAIN report_files = Versions
      /\ WasGiven(version)
  <2>1. version \in 1..version /\ version \in Versions
    BY TrainKeeps, TrainingAssumption DEF IInv, GivenOK, Versions
  <2>2. package' = package /\ grounding' = grounding
    BY DEF Train, Fit, Fail, Calibrate, Evaluate, WriteReport, WriteVerdict,
           SaveScorer, Crash, output
  <2> QED
    BY <2>1, <2>2, TrainKeeps DEF IInv, GivenOK, ArtifactOK
<1>2. Methods(ValFold(cfg)) \subseteq {"isotonic", "sigmoid"}
  <2>1. cfg \in Config
    BY <1>1 DEF WasGiven, cfg, Input
  <2> QED
    BY <2>1 DEF Methods, Config
<1>3. pc \in {"reporting", "recording", "saving"} =>
        /\ scorer.kind = "histgb" /\ scorer.verdict \in {"pass", "fail"}
        /\ reports[1].kind = "histgb" /\ scorer.method \in {"isotonic", "sigmoid"}
  BY GateDecides DEF IInv, TrainedOK, Gate, PackageOK
<1>4. /\ pc' = "evaluating" => chosen' \in {"isotonic", "sigmoid"}
      /\ at' > 1 => scorer'.method \in {"isotonic", "sigmoid"}
  <2>1. CASE Evaluate /\ pc' # "failed"
    <3>1. pc' # "evaluating"
      BY <2>1 DEF Evaluate, Fail
    <3>2. scorer'.method \in {"isotonic", "sigmoid"} \/ (scorer' = scorer /\ at > 1)
      <4>1. chosen \in {"isotonic", "sigmoid"}
        BY <2>1 DEF Evaluate, PackageOK
      <4>2. BuildCandidates[1].primary /\ at \in 1..3
        BY <2>1 DEF BuildCandidates, Evaluate, IInv, TrainedOK
      <4> QED
        BY <2>1, <4>1, <4>2 DEF Evaluate, Fail
    <3> QED
      BY <3>1, <3>2 DEF PackageOK
  <2>2. CASE ~(Evaluate /\ pc' # "failed")
    <3>1. /\ at' = at /\ scorer' = scorer
          /\ pc' = "evaluating" => chosen' \in {"isotonic", "sigmoid"}
      BY <1>2, <2>2 DEF Train, Fit, Fail, Calibrate, Evaluate, WriteReport,
         WriteVerdict, SaveScorer, Crash, training, run
    <3> QED
      BY <3>1 DEF PackageOK
  <2> QED
    BY <2>1, <2>2
<1>5. /\ Readable(artifact') => artifact' \in Artifact
      /\ artifact' # artifact => artifact' # None
  <2>1. CASE SaveScorer
    <3>1. artifact' = Bundle /\ pc = "saving"
      BY <2>1 DEF SaveScorer
    <3>2. Bundle \in Artifact
      BY <1>1, <1>3, <3>1 DEF Bundle, Artifact, Kinds
    <3> QED
      BY <3>1, <3>2, FilesAssumption
  <2>2. CASE ~SaveScorer
    <3>1. artifact' = artifact \/ artifact' = Torn
      BY <2>2 DEF Train, Fit, Fail, Calibrate, Evaluate, WriteReport, WriteVerdict,
                  Crash, files
    <3> QED
      BY <3>1, FilesAssumption DEF PackageOK, Readable
  <2> QED
    BY <2>1, <2>2
<1>6. /\ Readable(verdict_file') => verdict_file' \in Verdict
      /\ verdict_file' # verdict_file => verdict_file' # None
  <2>1. CASE WriteVerdict
    <3>1. /\ verdict_file' = [version |-> version, verdict |-> scorer.verdict]
          /\ pc = "recording"
      BY <2>1 DEF WriteVerdict
    <3>2. verdict_file' \in Verdict
      BY <1>1, <1>3, <3>1 DEF Verdict
    <3> QED
      BY <3>2, FilesAssumption
  <2>2. CASE ~WriteVerdict
    <3>1. verdict_file' = verdict_file \/ verdict_file' = Torn
      BY <2>2 DEF Train, Fit, Fail, Calibrate, Evaluate, WriteReport, SaveScorer,
                  Crash, files
    <3> QED
      BY <3>1, FilesAssumption DEF PackageOK, Readable
  <2> QED
    BY <2>1, <2>2
<1>7. \A v \in Versions : report_files[v] # None => report_files'[v] # None
  <2>1. \/ report_files' = report_files
        \/ report_files' = [report_files EXCEPT ![version] = Torn]
        \/ /\ report_files' = [report_files EXCEPT ![version] = scorer.verdict]
           /\ pc = "reporting"
    BY DEF Train, Fit, Fail, Calibrate, Evaluate, WriteReport, WriteVerdict,
           SaveScorer, Crash, files
  <2> QED
    BY <1>1, <1>3, <2>1, FilesAssumption
<1>8. Kept
  BY <1>1, <1>5, <1>6, <1>7 DEF Kept
<1>9. PackagedFilesExist'
  BY <1>1, <1>8 DEF PackageOK, PackagedFilesExist, Readable, Missing, Kept
<1>10. Readable(artifact)' = Readable(artifact')
       /\ Readable(verdict_file)' = Readable(verdict_file')
       /\ Readable(package)' = Readable(package)
  BY <1>1 DEF Readable
<1> QED
  BY <1>1, <1>4, <1>5, <1>6, <1>8, <1>9, <1>10 DEF PackageOK, Kept, Written

(* run_all lists the version it read, whose files it found or follow.      *)
LEMMA UsePackage ==
  ASSUME IInv, PackageOK, Use
  PROVE  PackageOK'
<1>1. /\ pc' = pc /\ at' = at /\ chosen' = chosen /\ scorer' = scorer
      /\ report_files' = report_files /\ verdict_file' = verdict_file
      /\ artifact' = artifact
  BY UseKeeps
<1>2. CASE ReadManifest /\ rpc' = "manifest"
  <2>1. /\ artifact \in Artifact /\ artifact # None /\ artifact.version \in Versions
        /\ artifact.eligible \in BOOLEAN /\ artifact.metrics \in Kinds
    BY <1>2 DEF ReadManifest, Readable, PackageOK, Artifact
  <2>2. report_files[artifact.version] # None
    BY <1>2, FilesAssumption DEF ReadManifest, IInv, ArtifactOK, ArtifactIsReported
  <2>3. /\ read' = [version |-> artifact.version, scorer_eligible |-> artifact.eligible,
                    metrics |-> artifact.metrics, leakage_verdict |-> None]
        /\ rpc' = "manifest" /\ summary' = summary /\ package' = package
        /\ grounding' = grounding /\ rpc = "grounded"
    BY <1>2 DEF ReadManifest
  <2> QED
    BY <1>1, <2>1, <2>2, <2>3 DEF PackageOK, Written, Readable, PackagedFilesExist,
                                  Missing
<1>3. CASE ReadVerdict
  <2>1. CASE rpc' = "idle"
    BY <1>1, <1>3, <2>1 DEF ReadVerdict, PackageOK, Readable, PackagedFilesExist,
                            Missing
  <2>2. CASE rpc' = "verdict"
    <3>1. /\ rpc = "manifest" /\ verdict_file \in Verdict /\ verdict_file # None
          /\ read' = [read EXCEPT !.leakage_verdict = verdict_file]
          /\ grounding' = grounding /\ summary' = summary /\ package' = package
      BY <1>3, <2>2 DEF ReadVerdict, PackageOK, Readable
    <3>2. PICK e \in BOOLEAN, m \in Kinds :
          \E l :
            read = [version |-> read.version, scorer_eligible |-> e,
                    metrics |-> m, leakage_verdict |-> l]
      BY <3>1 DEF PackageOK
    <3>3. read' = [version |-> read.version, scorer_eligible |-> e,
                   metrics |-> m, leakage_verdict |-> verdict_file]
      BY <3>1, <3>2
    <3>4. read'.version = read.version /\ read'.leakage_verdict = verdict_file
      BY <3>3
    <3>5. PackagedFilesExist'
      BY <1>1, <3>1 DEF PackageOK, Readable, PackagedFilesExist, Missing
    <3>6. /\ read'.version \in Versions /\ Written(read.version)
          /\ \E x \in BOOLEAN, y \in Kinds : \E z :
               read' = [version |-> read'.version, scorer_eligible |-> x,
                        metrics |-> y, leakage_verdict |-> z]
      <4>1. read.version \in Versions /\ Written(read.version)
        BY <3>1 DEF PackageOK
      <4> QED
        BY <3>3, <3>4, <4>1
    <3>7. Written(read.version)' = Written(read.version)
      BY <1>1, <3>4 DEF Written
    <3> QED
      BY <1>1, <2>2, <3>1, <3>4, <3>5, <3>6, <3>7 DEF PackageOK, Readable
  <2> QED
    BY <1>3, <2>1, <2>2 DEF ReadVerdict
<1>4. CASE WriteSummary
  <2>1. /\ rpc = "verdict" /\ rpc' = "summary" /\ summary' = read
        /\ read' = read /\ grounding' = grounding /\ package' = package
    BY <1>4 DEF WriteSummary
  <2>2. read \in Summary
    BY <2>1 DEF PackageOK, Summary
  <2>3. read # None
    BY <2>2, FilesAssumption
  <2> QED
    BY <1>1, <2>1, <2>3 DEF PackageOK, Written, Readable, PackagedFilesExist, Missing
<1>5. CASE WritePackage
  <2>1. /\ rpc = "summary" /\ rpc' = "idle" /\ package' = read.version
        /\ summary' = summary /\ grounding' = grounding
    BY <1>5 DEF WritePackage
  <2>2. /\ read.version \in Versions /\ report_files[read.version] # None
        /\ artifact # None /\ verdict_file # None /\ summary # None
        /\ grounding # None
    BY <2>1 DEF PackageOK, Written
  <2>3. PackagedFilesExist'
    BY <1>1, <2>1, <2>2 DEF PackagedFilesExist, Missing
  <2> QED
    BY <1>1, <2>1, <2>2, <2>3 DEF PackageOK, Readable
<1>6. CASE \/ StartReporting \/ WriteGrounding \/ ReporterDies
           \/ ReadManifest /\ rpc' = "idle"
  <2>1. /\ rpc' \in {"idle", "started", "grounded"}
        /\ rpc' = "grounded" => grounding' = "whole"
        /\ grounding' \in {grounding, "whole", Torn}
        /\ summary' \in {summary, Torn} /\ package' \in {package, Torn}
    BY <1>6 DEF StartReporting, WriteGrounding, ReporterDies, ReadManifest
  <2>2. "whole" # None
    BY FilesAssumption
  <2> QED
    BY <1>1, <2>1, <2>2, FilesAssumption DEF PackageOK, Readable, PackagedFilesExist,
                                             Missing
<1>7. CASE LoadScorer \/ UNCHANGED vars
  <2>1. /\ rpc' = rpc /\ read' = read /\ grounding' = grounding
        /\ summary' = summary /\ package' = package
    BY <1>7 DEF LoadScorer, vars, output
  <2> QED
    BY <1>1, <2>1 DEF PackageOK, Written, Readable, PackagedFilesExist, Missing
<1>8. ReadManifest => rpc' = "manifest" \/ rpc' = "idle"
  BY DEF ReadManifest
<1>9. CASE ReadManifest
  BY <1>2, <1>6, <1>8, <1>9
<1> QED
  BY <1>3, <1>4, <1>5, <1>6, <1>7, <1>9 DEF Use

(* Every file a whole manifest lists exists, whichever program died while  *)
(* it wrote (package_evaluation).                                          *)
THEOREM PackagesAreWhole == Spec => []PackagedFilesExist
<1>1. Init => PackageOK
  BY FilesAssumption DEF Init, PackageOK, Readable, PackagedFilesExist
<1>2. IInv /\ PackageOK /\ [Next]_vars => PackageOK'
  <2> SUFFICES ASSUME IInv, PackageOK, [Next]_vars PROVE PackageOK'
    OBVIOUS
  <2>1. ASSUME NEW i, Start(i) PROVE PackageOK'
    <3>1. /\ pc' = "fitting" /\ at' = 1 /\ report_files' = report_files
          /\ verdict_file' = verdict_file /\ artifact' = artifact
          /\ rpc' = rpc /\ read' = read /\ grounding' = grounding
          /\ summary' = summary /\ package' = package
      BY <2>1 DEF Start, files, output
    <3>2. PackagedFilesExist'
      BY <3>1 DEF PackageOK, PackagedFilesExist, Readable, Missing
    <3> QED
      BY <3>1, <3>2 DEF PackageOK, Written, Readable
  <2> QED
    BY <2>1, TrainingPackage, UsePackage DEF Next, Train, Use
<1>3. PackageOK => PackagedFilesExist
  BY DEF PackageOK
<1> QED
  BY <1>1, <1>2, <1>3, Invariance, PTL DEF Spec
=============================================================================
