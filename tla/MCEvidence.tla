----------------------------- MODULE MCEvidence -----------------------------
(***************************************************************************)
(* Where the evidence for and against a change comes from, one source per  *)
(* behaviour as they share no state: the review of a pull request (two     *)
(* threads, one comment, a restart), the human review queue of JudgeOps    *)
(* (two evaluations of three samples, one injected, by two judges), the    *)
(* golden dataset and the qualification against it (three reviewers, four  *)
(* labels) or against another file, the release gate over the judges, and  *)
(* the signals of the streaming service and ARIA (three snapshots at or    *)
(* next to their thresholds and one that is refused, two foreign signals,  *)
(* one unrated, two tenants, the same message delivered late or twice),    *)
(* and the registry of model runs (MCMLOps).                               *)
(***************************************************************************)
EXTENDS MCMLOps, Reviewer, JudgeOps, Signals

VARIABLE source

MCThresholds == [correctness |-> 80, faithfulness |-> 90]

\* Two files no ledger wrote: records without marks, as in
\* evaluation/golden/judgeops-rag.jsonl, one of them with an expected verdict
\* only, and the candidates of tools/generate_judge_dataset.py.
MCDatasets ==
    [unmarked |-> {DatasetRecord("s1", "pass", Absent, Absent, Absent),
                   DatasetRecord("s2", Absent, "fail", Absent, Absent)},
     synthetic |-> {DatasetRecord(s, Absent, "pass", "synthetic_rule", "candidate") :
                      s \in {"s1", "s2"}}]

\* Just healthy: medium findings only, half of the error budget spent, the
\* largest lag exactly twice the mean.
Healthy ==
    [workload |-> "w1", offline_partitions |-> 0, under_replicated |-> 0,
     consumer_lag |-> 0, partition_lag |-> <<2000, 500, 500>>, rebalances_5m |-> 5,
     schema_errors_5m |-> 0, duplicate_rate |-> 10, dlq_rate |-> 0,
     disk_used_percent |-> 84, p99_latency_ms |-> 0, eligible |-> 2000, completed |-> 1999]

MCSnapshots == {Healthy,
                [Healthy EXCEPT !.partition_lag = <<1000, 249, 250>>],
                [Healthy EXCEPT !.workload = "w2", !.completed = 1998],
                [Healthy EXCEPT !.completed = 2001]}       \* refused

Foreign(n, severity) ==
    [signal |-> <<"aria", n>>, tenant |-> "t1", workload |-> "w1", severity |-> severity]

MCForeignSignals == {Foreign(1, "missing"), Foreign(2, "critical")}

MCInit ==
    /\ source \in {"pull_request", "reviews", "qualification", "other_file",
                  "release", "signals", "registry"}
    /\ Init /\ JudgeInit /\ SignalsInit /\ RegistryInit
    /\ source # "pull_request" => fork_support

MCNext ==
    /\ UNCHANGED source
    /\ \/ /\ UNCHANGED registryVars
          /\ \/ /\ source = "pull_request" /\ Next
                /\ UNCHANGED <<judgeVars, signalVars>>
             \/ /\ UNCHANGED <<vars, signalVars>>
                /\ \/ source = "reviews" /\ ReviewNext
                   \/ source = "qualification" /\ QualificationNext
                   \/ source = "other_file" /\ OtherFileNext
                   \/ source = "release" /\ ReleaseNext
             \/ /\ source = "signals" /\ SignalsNext
                /\ UNCHANGED <<vars, judgeVars>>
       \/ /\ source = "registry" /\ RegistryNext
          /\ UNCHANGED <<vars, judgeVars, signalVars>>

MCSpec == MCInit /\ [][MCNext]_<<source, vars, judgeVars, signalVars, registryVars>>
=============================================================================
