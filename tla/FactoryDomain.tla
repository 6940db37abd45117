--------------------------- MODULE FactoryDomain ---------------------------
(***************************************************************************)
(* The release-governance domain of the AI SRE Factory                     *)
(* (platforms/factory/domain.py and platforms/factory/governance.py): what *)
(* a workload is, when each operation on it is accepted and what it makes  *)
(* of the workload.  Nothing here has state; FactoryLifecycle applies these *)
(* operators atomically, Factory applies them in concurrent API handlers   *)
(* over a versioned store.                                                 *)
(***************************************************************************)
EXTENDS Naturals, Sequences

CONSTANTS
    REQUIRED_GATES,   \* the gates a release needs (six in the code)
    GateNames,        \* gate names a request may carry, unsupported ones too
    Actors,           \* authenticated subjects
    NoActor,          \* Python's None where a subject is expected
    SpecRequests,     \* bodies of POST /workloads
    GateRequests,     \* bodies of PUT /workloads/{id}/gates
    ActionRequests,   \* path and body of POST /workloads/{id}/{operation}
    RolesOf,          \* the roles in each subject's token
    TenantOf,         \* the tenant in each subject's token
    Production        \* FACTORY_ENV == "production"

ASSUME GatesAssumption == REQUIRED_GATES \subseteq GateNames
ASSUME ActorsAssumption == NoActor \notin Actors
ASSUME ProductionAssumption == Production \in BOOLEAN

Stages == {"draft", "validated", "approved", "provisioned", "released",
           "suspended", "retired"}

(***************************************************************************)
(* Stages a workload can only be in once somebody approved it.             *)
(***************************************************************************)
ApprovedStages == Stages \ {"draft", "validated"}

GateResults == [status : {"missing", "pass", "fail"},
                evaluator : Actors \cup {NoActor},
                signed : BOOLEAN]

(***************************************************************************)
(* A gate that is not a key of the `gates` dictionary.                     *)
(***************************************************************************)
MissingGate == [status |-> "missing", evaluator |-> NoActor, signed |-> FALSE]

Hops == [from : Stages, to : Stages, actor : Actors]

Tenants == {TenantOf[a] : a \in Actors}

FactorySpecs == [values : SpecRequests, tenant : Tenants]

Workloads == [spec : FactorySpecs,
              stage : Stages,
              gates : [REQUIRED_GATES -> GateResults],
              approved_by : Actors \cup {NoActor},
              policy_digest : BOOLEAN,
              history : Seq(Hops)]

-----------------------------------------------------------------------------
(***************************************************************************)
(* Construction.  Ratios are integers: availability_target counts          *)
(* hundred-thousandths and error_rate_target thousandths, fine enough for  *)
(* every bound the code compares them with.                                *)
(***************************************************************************)
ValidSLO(values) ==
    /\ values.availability_target \in 90000..99999
    /\ values.latency_p95_ms > 0
    /\ values.error_rate_target \in 0..100

ValidSpec(values) ==
    /\ values.name = "dns-label"
    /\ values.environment \in {"development", "test", "production"}
    /\ values.data_classification \in
            {"public", "internal", "confidential", "restricted"}
    /\ values.artifact_digest = "sha256"
    /\ ValidSLO(values)

NewWorkload(values, tenant) ==
    [spec          |-> [values |-> values, tenant |-> tenant],
     stage         |-> "draft",
     gates         |-> [g \in REQUIRED_GATES |-> MissingGate],
     approved_by   |-> NoActor,
     policy_digest |-> FALSE,
     history       |-> << >>]

-----------------------------------------------------------------------------
(***************************************************************************)
(* Requests.  A gate request's `statement` says whether its evidence URI   *)
(* and digest are well formed; its `signature` is "none" (neither key id   *)
(* nor signature), "partial" (one of the two), "verified" (a trusted key   *)
(* signed exactly this statement) or "refuted".  `reason` of an action     *)
(* request says whether the reason is more than blanks.                    *)
(***************************************************************************)
ASSUME GateRequestsAssumption ==
    GateRequests \subseteq
        [op : {"gate"}, gate : GateNames, passed : BOOLEAN, statement : BOOLEAN,
         signature : {"none", "partial", "verified", "refuted"}]

Operations == {"approve", "provision", "release", "suspend", "retire"}

ASSUME ActionRequestsAssumption ==
    ActionRequests \subseteq [op : Operations \cup {"other"}, reason : BOOLEAN]

(***************************************************************************)
(* verify_gate_evidence: a signature is demanded in production and         *)
(* verified whenever either half of one is present.                        *)
(***************************************************************************)
UnsignedInProduction(req) ==       \* mutant: the production check dropped
    req.signature # "none" => req.signature = "verified"

EvidenceVerified(req) ==
    /\ Production => req.signature \notin {"none", "partial"}
    /\ req.signature # "none" => req.signature = "verified"

PolicyAllows(values) ==
    /\ ~(values.environment = "production" /\ values.internet_egress)
    /\ ~(values.data_classification = "restricted" /\ values.internet_egress)
    /\ ~(values.requires_gpu /\ values.availability_target > 99990)

-----------------------------------------------------------------------------
(***************************************************************************)
(* The operations of FactoryWorkload: for each the condition under which   *)
(* the code does not raise, and the workload it leaves.                    *)
(***************************************************************************)
MoveStageFirst(workload, target, actor) ==   \* mutant: history reads the new stage
    [workload EXCEPT !.history = Append(@, [from |-> target, to |-> target,
                                            actor |-> actor]),
                     !.stage = target]

Move(workload, target, actor) ==
    [workload EXCEPT !.history = Append(@, [from |-> workload.stage,
                                            to |-> target,
                                            actor |-> actor]),
                     !.stage = target]

CanRecordGateLate(workload, req) ==   \* mutant: gates not immutable
    req.gate \in REQUIRED_GATES

CanRecordGate(workload, req) ==
    /\ workload.stage \in {"draft", "validated"}
    /\ req.gate \in REQUIRED_GATES

RecordGate(workload, req, actor) ==
    [workload EXCEPT
        !.gates[req.gate] = [status |-> IF req.passed THEN "pass" ELSE "fail",
                             evaluator |-> actor,
                             signed |-> req.signature = "verified"],
        !.stage = "validated"]

MissingOrFailedGates(workload) ==
    {g \in REQUIRED_GATES : workload.gates[g].status # "pass"}

Evaluators(workload) ==
    {workload.gates[g].evaluator :
        g \in {k \in REQUIRED_GATES : workload.gates[k].status # "missing"}}

CanApproveOwnGate(workload, actor) ==   \* mutant: evaluators not compared
    /\ PolicyAllows(workload.spec.values)
    /\ workload.stage = "validated"
    /\ MissingOrFailedGates(workload) = {}
    /\ actor # workload.spec.values.owner

CanApprove(workload, actor) ==
    /\ PolicyAllows(workload.spec.values)
    /\ workload.stage = "validated"
    /\ MissingOrFailedGates(workload) = {}
    /\ actor # workload.spec.values.owner
    /\ actor \notin Evaluators(workload)

Approve(workload, actor) ==
    Move([workload EXCEPT !.approved_by = actor, !.policy_digest = TRUE],
         "approved", actor)

CanAdvance(workload, req, actor) ==
    \/ req.op = "approve" /\ CanApprove(workload, actor)
    \/ req.op = "provision" /\ workload.stage = "approved"
    \/ req.op = "release" /\ workload.stage = "provisioned"
    \/ req.op = "suspend" /\ workload.stage = "released" /\ req.reason
    \/ /\ req.op = "retire"
       /\ workload.stage \in {"released", "suspended"}
       /\ req.reason

Target == [provision |-> "provisioned", release |-> "released",
           suspend |-> "suspended", retire |-> "retired"]

Advance(workload, req, actor) ==
    IF req.op = "approve"
    THEN Approve(workload, actor)
    ELSE Move(workload, Target[req.op], actor)

-----------------------------------------------------------------------------
(***************************************************************************)
(* Both kinds of request together, for the code that handles either.       *)
(***************************************************************************)
Requests == GateRequests \cup ActionRequests

RequiredRole(req) ==
    CASE req.op = "gate" -> "gate-evaluator"
      [] req.op = "approve" -> "release-approver"
      [] OTHER -> "factory-admin"

Authorized(actor, role) == role \in RolesOf[actor]

Accepts(workload, req, actor) ==
    IF req.op = "gate"
    THEN req.statement /\ EvidenceVerified(req) /\ CanRecordGate(workload, req)
    ELSE CanAdvance(workload, req, actor)

Apply(workload, req, actor) ==
    IF req.op = "gate"
    THEN RecordGate(workload, req, actor)
    ELSE Advance(workload, req, actor)
=============================================================================
