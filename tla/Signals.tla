------------------------------ MODULE Signals ------------------------------
(***************************************************************************)
(* The way of an incident from the streaming service to the release gate:  *)
(* diagnosis of a snapshot (platforms/streaming/reliability.py), the       *)
(* recent assessments kept in memory (platforms/streaming/api.py), the     *)
(* signed message of ARIA, its verification and storage in the Factory     *)
(* (platforms/integrations/aria_intelligence.py) and the scorecard.        *)
(*                                                                         *)
(* The network delivers a message late, again or not at all, and may carry *)
(* messages that were signed with another secret.                          *)
(***************************************************************************)
EXTENDS Integers, FiniteSets, FiniteSetsExt

CONSTANTS
    Snapshots,      \* what the streaming service may be asked to assess
    ForeignSignals, \* payloads ARIA makes of its own incidents
    Tenants,
    Tolerance,      \* tolerance_seconds, in ticks
    MaxTime,        \* bound: ticks of the clock
    MaxMessages     \* bound: messages published

\* What a StreamingSnapshot may be: counters from zero, rates within their
\* range, no more events completed than were eligible.  Rates are in units
\* of 0.0001.
ValidSnapshot(s) ==
    /\ \A n \in {s.offline_partitions, s.under_replicated, s.consumer_lag,
                 s.rebalances_5m, s.schema_errors_5m, s.p99_latency_ms,
                 s.eligible, s.completed} : n \in Nat
    /\ s.duplicate_rate \in 0 .. 10000 /\ s.dlq_rate \in 0 .. 10000
    /\ s.disk_used_percent \in 0 .. 100
    /\ \A p \in DOMAIN s.partition_lag : s.partition_lag[p] \in Nat
    /\ s.completed <= s.eligible

\* ARIA names its own incidents otherwise than by the digest of a snapshot.  A
\* snapshot has finitely many partitions, so one of them lags the most.
ASSUME SignalsAssumption ==
    /\ \A p \in ForeignSignals, s \in Snapshots : p.signal # <<"stream", s>>
    /\ \A s \in Snapshots : ValidSnapshot(s) /\ DOMAIN s.partition_lag # {} =>
          \E p \in DOMAIN s.partition_lag : \A q \in DOMAIN s.partition_lag :
              s.partition_lag[q] <= s.partition_lag[p]

VARIABLES
    recent,         \* RECENT: snapshots whose assessment is in memory
    assessed,       \* history: snapshots ever assessed
    wire,           \* messages on the network
    rows,           \* aria_incident_evidence
    clock

signalVars == <<recent, assessed, wire, rows, clock>>

-----------------------------------------------------------------------------
(***************************************************************************)
(* assess_slo for the target 0.999, in whole events.  The comparison with  *)
(* half of the budget is strict because at exactly one half the quotient   *)
(* of the floats is just below 50.                                         *)
(***************************************************************************)
Missed(s) == s.eligible - s.completed

SloStatus(s) ==
    IF s.eligible = 0 THEN "insufficient-data"
    ELSE IF Missed(s) * 1000 >= s.eligible THEN "exhausted"
    ELSE IF Missed(s) * 2000 > s.eligible THEN "at-risk" ELSE "healthy"

\* The largest lag is over twice the mean: never so with one or two partitions.
Total(lag) == FoldSet(LAMBDA p, sum : sum + lag[p], 0, DOMAIN lag)

IsHotAtTwice(lag) ==       \* mutant: exactly twice the mean is hot, too
    /\ DOMAIN lag # {}
    /\ LET largest == Max({lag[p] : p \in DOMAIN lag})
       IN  largest >= 1000 /\ largest * Cardinality(DOMAIN lag) >= 2 * Total(lag)

IsHot(lag) ==
    /\ DOMAIN lag # {}
    /\ LET largest == Max({lag[p] : p \in DOMAIN lag})
       IN  largest >= 1000 /\ largest * Cardinality(DOMAIN lag) > 2 * Total(lag)

Findings(s) ==
    LET add(condition, code, severity) ==
            IF condition THEN {<<code, severity>>} ELSE {}
    IN  add(s.offline_partitions > 0, "OFFLINE_PARTITIONS", "critical")
        \cup add(s.under_replicated > 0, "UNDER_REPLICATED_PARTITIONS", "high")
        \cup add(s.consumer_lag >= 10000, "CONSUMER_LAG", "high")
        \cup add(IsHot(s.partition_lag), "HOT_PARTITION", "high")
        \cup add(s.rebalances_5m >= 5, "REBALANCE_STORM", "medium")
        \cup add(s.schema_errors_5m > 0, "SCHEMA_INCOMPATIBILITY", "high")
        \cup add(s.duplicate_rate > 10, "DUPLICATE_PROCESSING", "high")
        \cup add(s.dlq_rate > 100, "POISON_MESSAGES", "medium")
        \cup add(s.disk_used_percent >= 85, "DISK_PRESSURE", "high")
        \cup add(s.p99_latency_ms >= 1000, "LATENCY_SLO", "medium")
        \cup add(SloStatus(s) = "exhausted", "ERROR_BUDGET_EXHAUSTED", "high")

SeverityRank == [info |-> 0, low |-> 1, medium |-> 2, high |-> 3, critical |-> 4]

Severity(s) ==
    LET severities == {finding[2] : finding \in Findings(s)} \cup {"info"}
    IN  CHOOSE severity \in severities : \A other \in severities :
            SeverityRank[severity] >= SeverityRank[other]

\* aria_evidence.  The incident id is the digest of the snapshot.
AriaEvidence(s, tenant) ==
    [signal |-> <<"stream", s>>, tenant |-> tenant, workload |-> s.workload,
     severity |-> Severity(s)]

-----------------------------------------------------------------------------
SignalsInit ==
    /\ recent = {} /\ assessed = {} /\ wire = {} /\ rows = {}
    /\ clock = 0

Record(s) ==
    /\ recent' = recent \cup {s}
    /\ assessed' = assessed \cup {s}
    /\ UNCHANGED <<wire, rows, clock>>

\* Asked for by a scenario, an assessment or a fire drill.
Assess(s) == ValidSnapshot(s) /\ Record(s)

RestartStreaming ==
    /\ recent # {} /\ recent' = {}
    /\ UNCHANGED <<assessed, wire, rows, clock>>

\* ARIA signs a payload under its clock and a nonce of its own choice; a
\* message signed with another secret carries any payload.
Publish(payload, nonce, secret) ==
    /\ Cardinality(wire) < MaxMessages
    /\ wire' = wire \cup {[payload |-> payload, nonce |-> nonce,
                           timestamp |-> clock, secret |-> secret]}
    /\ UNCHANGED <<recent, assessed, rows, clock>>

ForwardEvidence(s, tenant, nonce) ==
    s \in recent /\ Publish(AriaEvidence(s, tenant), nonce, "aria")

Verify(message) ==
    /\ clock - message.timestamp \in -Tolerance .. Tolerance
    /\ message.secret = "aria"

StoreOverwriting(message) ==   \* mutant: a later signal replaces the row
    rows' = {r \in rows : r.payload.signal # message.payload.signal}
            \cup {[payload |-> message.payload, nonce |-> message.nonce]}

Store(message) ==
    /\ \A r \in rows : /\ r.payload.signal # message.payload.signal
                       /\ r.nonce # message.nonce
    /\ rows' = rows \cup {[payload |-> message.payload, nonce |-> message.nonce]}

ReceiveAriaIntelligence(message) ==
    /\ Verify(message)
    /\ Store(message)
    /\ UNCHANGED <<recent, assessed, wire, clock>>

Elapse ==
    /\ clock < MaxTime /\ clock' = clock + 1
    /\ UNCHANGED <<recent, assessed, wire, rows>>

SignalsNext ==
    \/ \E s \in Snapshots :
          \/ Assess(s)
          \/ \E tenant \in Tenants, nonce \in 1 .. MaxMessages :
                ForwardEvidence(s, tenant, nonce)
    \/ \E payload \in ForeignSignals, nonce \in 1 .. MaxMessages :
          Publish(payload, nonce, "aria") \/ Publish(payload, nonce, "other")
    \/ \E message \in wire : ReceiveAriaIntelligence(message)
    \/ RestartStreaming \/ Elapse

SignalsSpec == SignalsInit /\ [][SignalsNext]_signalVars

-----------------------------------------------------------------------------
(***************************************************************************)
(* scorecard.  A severity it does not know, "info" among them, ranks       *)
(* lowest; a missing one ranks as low.                                     *)
(***************************************************************************)
Rank(payload) ==
    CASE payload.severity = "missing" -> 1
      [] payload.severity \in {"low", "medium", "high", "critical"} ->
            SeverityRank[payload.severity]
      [] OTHER -> 0

Matching(evidence, tenant, workload) ==
    {payload \in {r.payload : r \in evidence} :
        payload.tenant = tenant /\ payload.workload = workload}

ReleaseGateImpact(evidence, tenant, workload) ==
    LET matching == Matching(evidence, tenant, workload) IN
    IF \E highest \in matching :
          /\ \A other \in matching : Rank(highest) >= Rank(other)
          /\ highest.severity \in {"high", "critical"}
    THEN "fail-candidate" ELSE "none"

Workloads == {s.workload : s \in Snapshots} \cup {p.workload : p \in ForeignSignals}

(***************************************************************************)
(* The release gate of a workload is touched exactly by the grave          *)
(* incidents: a snapshot that was really assessed for this workload and    *)
(* shows lost partitions, lost replicas, a stuck or hot partition, schema  *)
(* errors, duplicates, a full disk or a spent error budget, or a grave     *)
(* signal of ARIA's own; not by anything unsigned, and not undone by any   *)
(* number of lighter or unrated signals stored next to it.  Which snapshot *)
(* is grave is stated here without the diagnosis.                          *)
(***************************************************************************)
HotPartition(lag) ==
    \E p \in DOMAIN lag :
        /\ \A q \in DOMAIN lag : lag[q] <= lag[p]
        /\ lag[p] >= 1000
        /\ lag[p] * Cardinality(DOMAIN lag) > 2 * Total(lag)

Grave(s) ==
    \/ s.offline_partitions + s.under_replicated + s.schema_errors_5m > 0
    \/ s.consumer_lag >= 10000 \/ s.duplicate_rate > 10
    \/ s.disk_used_percent >= 85
    \/ s.eligible > 0 /\ 1000 * s.completed <= 999 * s.eligible
    \/ HotPartition(s.partition_lag)

GateFollowsEvidence ==
    \A tenant \in Tenants, workload \in Workloads :
        ReleaseGateImpact(rows, tenant, workload) = "fail-candidate" <=>
            \E r \in rows :
                /\ r.payload.tenant = tenant /\ r.payload.workload = workload
                /\ \/ \E s \in assessed : /\ r.payload.signal = <<"stream", s>>
                                          /\ s.workload = workload /\ Grave(s)
                   \/ /\ r.payload \in ForeignSignals
                      /\ r.payload.severity \in {"high", "critical"}
                      /\ \E message \in wire : /\ message.payload = r.payload
                                               /\ message.secret = "aria"

(***************************************************************************)
(* Evidence against a release is never withdrawn: replays, later and       *)
(* lighter signals and restarts leave a gate that it touches touched.      *)
(***************************************************************************)
GateOnlyTightens ==
    [][\A tenant \in Tenants, workload \in Workloads :
          ReleaseGateImpact(rows, tenant, workload) = "fail-candidate" =>
          ReleaseGateImpact(rows', tenant, workload) = "fail-candidate"]_signalVars
=============================================================================
