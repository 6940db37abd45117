------------------------------ MODULE JudgeOps ------------------------------
(***************************************************************************)
(* JudgeOps (platforms/judgeops): ensembles of judges and their verdicts,  *)
(* the human review queue, the ledger of reviewer labels and the golden    *)
(* dataset exported from it, the shadow qualification of a candidate judge *)
(* (tools/run_judge_experiment.py) and the release gate of                 *)
(* platforms/evaluation/contracts.py that an ensemble feeds.               *)
(*                                                                         *)
(* Scores, confidences and thresholds are in hundredths.                   *)
(***************************************************************************)
EXTENDS Integers, FiniteSets, FiniteSetsExt

CONSTANTS
    Samples, Injected, Risky,   \* samples; with an injection; of high risk
    Judges,                     \* the judges of the active ensemble
    Thresholds,                 \* the rubric: threshold of each dimension
    MinimumConfidence, MaximumDisagreement,
    Grades, Confidences,        \* what a judge may answer
    Reviewers, JudgeReviewers,  \* people; those with the role judge-reviewer
    Datasets,                   \* files an experiment may be given, by path
    MinimumCases,               \* of the calibration policy
    MaxEvaluations, MaxLabels   \* bounds: evaluations and labels recorded

ASSUME JudgeAssumption ==
    /\ Judges # {} /\ IsFiniteSet(Judges)
    /\ Grades \subseteq 0 .. 100
    /\ \A d \in DOMAIN Thresholds : Thresholds[d] \in 0 .. 100
    /\ \E d \in DOMAIN Thresholds : Thresholds[d] > 0
    /\ "export" \notin DOMAIN Datasets
    /\ \A path \in DOMAIN Datasets :
          /\ IsFiniteSet(Datasets[path])
          /\ \A record \in Datasets[path] : record.sample \in Samples
    /\ MaxEvaluations \in Nat

VARIABLES
    evaluations,    \* judge_evaluations: a set of records with an id
    reviews,        \* judge_reviews, by evaluation id
    annotations,    \* the label ledger: sample, reviewer, verdict
    export,         \* export_consensus: samples read, records promoted
    golden,         \* the file it wrote: a set of dataset records
    experiment,     \* the last qualification experiment
    release         \* the last run of the release gate

judgeVars == <<evaluations, reviews, annotations, export, golden, experiment, release>>

Dimensions == DOMAIN Thresholds

-----------------------------------------------------------------------------
(***************************************************************************)
(* A judge scores an injected sample with zeros; otherwise it may answer   *)
(* anything, and may report an injection itself.                           *)
(***************************************************************************)
Answer(scores, confidence, injection) ==
    [scores |-> scores, confidence |-> confidence, injection |-> injection]

AnswersUnzeroed(sample) ==      \* mutant: the flag is set, the scores stay
    {Answer([d \in Dimensions |-> Max(Grades)], 100, sample \in Injected)}

Answers(sample) ==
    IF sample \in Injected
    THEN {Answer([d \in Dimensions |-> 0], 100, TRUE)}
    ELSE {Answer(scores, confidence, injection) :
            scores \in [Dimensions -> Grades], confidence \in Confidences,
            injection \in BOOLEAN}

\* Twice the median of f's values: of an even number, the sum of the two
\* in the middle.
TwiceMedian(f) ==
    LET n == Cardinality(DOMAIN f)
        below(v) == Cardinality({i \in DOMAIN f : f[i] <= v})
        nth(k) == Min({v \in {f[i] : i \in DOMAIN f} : below(v) >= k})
    IN  nth((n + 1) \div 2) + nth((n + 2) \div 2)

(***************************************************************************)
(* EnsembleJudge.evaluate: the median of each dimension, and a verdict     *)
(* that goes to a human on injection, disagreement and low confidence, in  *)
(* this order.                                                             *)
(***************************************************************************)
Ensemble(results) ==
    LET judges == DOMAIN results
        twice == [d \in Dimensions |-> TwiceMedian([j \in judges |-> results[j].scores[d]])]
        confidence == TwiceMedian([j \in judges |-> results[j].confidence])
        disagreement == Max({results[i].scores[d] - results[j].scores[d] :
                                i \in judges, j \in judges, d \in Dimensions})
        verdict ==
            CASE \E j \in judges : results[j].injection -> "human_review"
              [] OTHER ->
            CASE disagreement > MaximumDisagreement -> "human_review"
              [] OTHER ->
            CASE confidence < 2 * MinimumConfidence -> "human_review"
              [] OTHER ->
            IF \A d \in Dimensions : twice[d] >= 2 * Thresholds[d] THEN "pass" ELSE "fail"
    IN  [verdict |-> verdict, twice |-> twice, confidence |-> confidence \div 2]

\* What the ensemble of the given judges may say of each sample.
OutcomesOf(judges) ==
    [sample \in Samples |-> {Ensemble(results) : results \in [judges -> Answers(sample)]}]

Outcomes == OutcomesOf(Judges)
CandidateOutcomes == OutcomesOf({"candidate"})

-----------------------------------------------------------------------------
NotQueued == [status |-> "none", verdict |-> "none", reviewer |-> "none"]
NotExporting == [active |-> FALSE, read |-> {}, promoted |-> {}]
NoExperiment == [dataset |-> "none", records |-> {}, calibrated |-> FALSE,
                 qualified |-> FALSE, verdicts |-> [s \in {} |-> "pass"]]
NoRelease == [passed |-> FALSE, verdicts |-> [s \in {} |-> "pass"]]

JudgeInit ==
    /\ evaluations = {} /\ reviews = [id \in 1 .. MaxEvaluations |-> NotQueued]
    /\ annotations = {} /\ export = NotExporting /\ golden = {}
    /\ experiment = NoExperiment /\ release = NoRelease

\* The store writes an evaluation and its review row in one transaction.
RecordResult(sample, verdict, queue_review) ==
    LET id == Cardinality(evaluations) + 1 IN
    /\ id <= MaxEvaluations
    /\ evaluations' = evaluations \cup
            {[id |-> id, sample |-> sample, verdict |-> verdict]}
    /\ reviews' = IF queue_review
                  THEN [reviews EXCEPT ![id].status = "pending"] ELSE reviews

\* POST /v1/evaluations.
QueueReview(sample, verdict) == verdict = "human_review" \/ sample \in Risky

Evaluate(sample) == \E outcome \in Outcomes[sample] :
    /\ RecordResult(sample, outcome.verdict, QueueReview(sample, outcome.verdict))
    /\ UNCHANGED <<annotations, export, golden, experiment, release>>

ResolveAgain(id, reviewer, verdict) ==   \* mutant: UPDATE without the status
    /\ reviewer \in JudgeReviewers /\ reviews[id].status # "none"
    /\ reviews' = [reviews EXCEPT ![id] =
            [status |-> "resolved", verdict |-> verdict, reviewer |-> reviewer]]
    /\ UNCHANGED <<evaluations, annotations, export, golden, experiment, release>>

Resolve(id, reviewer, verdict) ==
    /\ reviewer \in JudgeReviewers /\ verdict # "human_review"
    /\ reviews[id].status = "pending"
    /\ reviews' = [reviews EXCEPT ![id] =
            [status |-> "resolved", verdict |-> verdict, reviewer |-> reviewer]]
    /\ UNCHANGED <<evaluations, annotations, export, golden, experiment, release>>

-----------------------------------------------------------------------------
(***************************************************************************)
(* The ledger holds one label of a reviewer for a sample.  The export      *)
(* reads it sample by sample while labels are added, and marks what it     *)
(* promotes as the verified label of a human.                              *)
(***************************************************************************)
Absent == "absent"      \* the value of a field that a record does not have

DatasetRecord(sample, human, expected, label_source, label_status) ==
    [sample |-> sample, human |-> human, expected |-> expected,
     label_source |-> label_source, label_status |-> label_status]

Label(sample, reviewer, verdict) ==
    /\ verdict # "human_review" /\ Cardinality(annotations) < MaxLabels
    /\ ~\E a \in annotations : a.sample = sample /\ a.reviewer = reviewer
    /\ annotations' = annotations \cup
            {[sample |-> sample, reviewer |-> reviewer, verdict |-> verdict]}
    /\ UNCHANGED <<evaluations, reviews, export, golden, experiment, release>>

LabelsOf(sample) == {a \in annotations : a.sample = sample}

ConsensusOfOne(labels) == Cardinality({a.verdict : a \in labels}) = 1   \* mutant

Consensus(labels) ==
    Cardinality(labels) >= 2 /\ Cardinality({a.verdict : a \in labels}) = 1

BeginExport ==
    /\ ~export.active
    /\ export' = [NotExporting EXCEPT !.active = TRUE]
    /\ UNCHANGED <<evaluations, reviews, annotations, golden, experiment, release>>

ReadSample(sample) ==
    LET labels == LabelsOf(sample)
        verdict == (CHOOSE a \in labels : TRUE).verdict
        case == DatasetRecord(sample, verdict, Absent, "human", "verified")
    IN  /\ export.active /\ sample \notin export.read
        /\ export' = [export EXCEPT
                !.read = @ \cup {sample},
                !.promoted = IF Consensus(labels) THEN @ \cup {case} ELSE @]
        /\ UNCHANGED <<evaluations, reviews, annotations, golden, experiment, release>>

WriteExport ==
    /\ export.active /\ export.read = Samples
    /\ golden' = export.promoted /\ export' = NotExporting
    /\ UNCHANGED <<evaluations, reviews, annotations, experiment, release>>

-----------------------------------------------------------------------------
(***************************************************************************)
(* load_golden_dataset.  A record without a human verdict is taken at its  *)
(* expected one, and the marks of a record that has none are taken to be   *)
(* those of a verified human label.                                        *)
(***************************************************************************)
Truth(record) == IF record.human # Absent THEN record.human ELSE record.expected

MarkOf(mark, default) == IF mark = Absent THEN default ELSE mark

Loadable(records) ==
    /\ \A one \in records :
          /\ Truth(one) \in {"pass", "fail"}
          /\ MarkOf(one.label_source, "human") = "human"
          /\ MarkOf(one.label_status, "verified") = "verified"
    /\ \A one, two \in records : one.sample = two.sample => one = two
    /\ Cardinality(records) >= 2

(***************************************************************************)
(* calibrate and CalibrationPolicy, with the fractions multiplied out.     *)
(* Kappa is (observed - expected) / (1 - expected).                        *)
(***************************************************************************)
Count(records, outcomes, human, judge) ==
    Cardinality({c \in records : Truth(c) = human /\ outcomes[c.sample].verdict = judge})

PassProbability(outcome) ==
    IF outcome.verdict = "pass" THEN outcome.confidence ELSE 100 - outcome.confidence

Brier(records, outcomes) ==    \* times 10000 and the number of records
    FoldSet(LAMBDA c, sum : sum +
        (PassProbability(outcomes[c.sample]) - (IF Truth(c) = "pass" THEN 100 ELSE 0))^2,
        0, records)

Qualifies(records, outcomes) ==
    LET tp == Count(records, outcomes, "pass", "pass")
        tn == Count(records, outcomes, "fail", "fail")
        fp == Count(records, outcomes, "fail", "pass")
        fn == Count(records, outcomes, "pass", "fail")
        n == Cardinality(records)
        expected == (tp + fn) * (tp + fp) + (n - tp - fn) * (n - tp - fp)
    IN  /\ n >= MinimumCases
        /\ 10 * (tp + tn) >= 9 * n
        /\ 20 * fp <= Max({1, fp + tn})
        /\ 10 * fn <= Max({1, fn + tp})
        /\ \/ expected = n * n /\ tp + tn = n
           \/ 4 * ((tp + tn) * n - expected) >= 3 * (n * n - expected)
        /\ 100 * Brier(records, outcomes) <= 12 * 10000 * n

ProviderError == [verdict |-> "provider_error", twice |-> [d \in Dimensions |-> 0],
                  confidence |-> 0]

(***************************************************************************)
(* tools/run_judge_experiment.py, given the file written by the export or  *)
(* any other.  A provider error or a verdict left to a human keeps the     *)
(* candidate from being calibrated at all.                                 *)
(***************************************************************************)
Experiment(dataset, records) ==
    LET samples == {c.sample : c \in records} IN
    /\ Loadable(records)
    /\ \E outcomes \in [samples -> UNION {CandidateOutcomes[s] : s \in samples}
                                   \cup {ProviderError}] :
        LET resolved == \A s \in samples : outcomes[s].verdict \in {"pass", "fail"} IN
        /\ \A s \in samples : outcomes[s] \in CandidateOutcomes[s] \cup {ProviderError}
        /\ experiment' =
            [dataset |-> dataset, records |-> records, calibrated |-> resolved,
             qualified |-> resolved /\ Qualifies(records, outcomes),
             verdicts |-> [s \in samples |-> outcomes[s].verdict]]
    /\ UNCHANGED <<evaluations, reviews, annotations, export, golden, release>>

\* What JudgeOpsEvaluationAdapter may be told of the cases.
Reports(cases) ==
    {outcomes \in [cases -> UNION {Outcomes[s] : s \in cases}] :
        \A s \in cases : outcomes[s] \in Outcomes[s]}

\* Its metric for a dimension is the worst score of the cases.
MetricPassed(outcomes, d) ==
    Min({outcomes[s].twice[d] : s \in DOMAIN outcomes}) >= 2 * Thresholds[d]

ReportPassed(outcomes) ==
    /\ DOMAIN outcomes # {} /\ Dimensions # {}
    /\ \A d \in Dimensions : MetricPassed(outcomes, d)

\* EvaluationGate.run.
ReleaseGate(cases) ==
    /\ cases # {}
    /\ \E outcomes \in Reports(cases) :
          release' = [passed |-> ReportPassed(outcomes),
                      verdicts |-> [s \in cases |-> outcomes[s].verdict]]
    /\ UNCHANGED <<evaluations, reviews, annotations, export, golden, experiment>>

\* The parts meet in no variable but the experiment, which no step reads.
ReviewNext ==
    \/ \E sample \in Samples : Evaluate(sample)
    \/ \E id \in 1 .. MaxEvaluations, reviewer \in Reviewers, verdict \in {"pass", "fail"} :
          Resolve(id, reviewer, verdict)

QualificationNext ==
    \/ \E sample \in Samples : \/ ReadSample(sample)
                               \/ \E reviewer \in Reviewers, verdict \in {"pass", "fail"} :
                                     Label(sample, reviewer, verdict)
    \/ BeginExport \/ WriteExport \/ Experiment("export", golden)

OtherFileNext == \E path \in DOMAIN Datasets : Experiment(path, Datasets[path])

ReleaseNext == \E cases \in SUBSET Samples : ReleaseGate(cases)

JudgeNext == ReviewNext \/ QualificationNext \/ OtherFileNext \/ ReleaseNext

JudgeSpec == JudgeInit /\ [][JudgeNext]_judgeVars

-----------------------------------------------------------------------------
(***************************************************************************)
(* A sample in which the judges' own screen (a list of phrases) finds an   *)
(* injection is never passed: no evaluation passes it, a human is asked    *)
(* about it, no candidate that let it pass is qualified, and no release    *)
(* gate that saw it, or a case that failed, is passed.  Not claimed: a     *)
(* case left to a human for disagreement, for low confidence or because    *)
(* only a judge's answer reports an injection does not stop the gate, as   *)
(* only the scores count there.                                            *)
(***************************************************************************)
InjectionNeverPasses ==
    /\ \A e \in evaluations : e.sample \in Injected =>
          e.verdict = "human_review" /\ reviews[e.id].status # "none"
    /\ experiment.qualified => {c.sample : c \in experiment.records} \cap Injected = {}
    /\ release.passed => \A s \in DOMAIN release.verdicts :
          s \notin Injected /\ release.verdicts[s] # "fail"

(***************************************************************************)
(* What the ledger exports, and what an experiment on that file measures a *)
(* candidate against, is the truth of at least two people who agree,       *)
(* although labels are added while the file is written sample by sample    *)
(* and the file is replaced between experiments.  Against whatever file it *)
(* was measured, a qualified candidate contradicts at most one record of   *)
(* ten.  (Of another file only its marks are looked at: see                *)
(* OnlyMarkedCalibrate.)                                                   *)
(***************************************************************************)
TwoPersonTruth ==
    /\ \A c \in golden \cup (IF experiment.dataset = "export"
                             THEN experiment.records ELSE {}) :
          \E one, two \in annotations :
             /\ one.reviewer # two.reviewer
             /\ \A a \in {one, two} : a.sample = c.sample /\ a.verdict = Truth(c)
    /\ experiment.qualified =>
          10 * Cardinality({c \in experiment.records :
                  experiment.verdicts[c.sample] # Truth(c)})
             <= Cardinality(experiment.records)

(***************************************************************************)
(* docs/JUDGE_DATASET.md: "Only records marked `label_source: human` and   *)
(* `label_status: verified` can enter calibration."  The loader takes a    *)
(* record without marks for one that has them, and the tool's default file *)
(* has none.                                                               *)
(***************************************************************************)
OnlyMarkedCalibrate ==
    experiment.calibrated => \A c \in experiment.records :
        c.label_source = "human" /\ c.label_status = "verified"

(***************************************************************************)
(* A human decision is asked for once and given once: whoever races to     *)
(* resolve it, the first answer of a judge-reviewer stands, and a review   *)
(* is never lost.                                                          *)
(***************************************************************************)
ReviewsSettleOnce ==
    [][\A id \in DOMAIN reviews :
          /\ reviews[id].status = "resolved" => reviews'[id] = reviews[id]
          /\ reviews[id].status = "pending" =>
                \/ reviews'[id] = reviews[id]
                \/ /\ reviews'[id].status = "resolved"
                   /\ reviews'[id].reviewer \in JudgeReviewers
          /\ (\E e \in evaluations : e.id = id) /\ reviews[id].status = "none" =>
                reviews'[id] = reviews[id]]_judgeVars
=============================================================================
