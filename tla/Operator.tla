------------------------------ MODULE Operator ------------------------------
(***************************************************************************)
(* The Go control plane: the operator's Reconcile                          *)
(* (go/internal/operator/reconciler.go), the workload specification it     *)
(* shares with the admission webhook (go/internal/platform/spec.go) and    *)
(* the webhook (go/internal/admission/handler.go).                         *)
(*                                                                         *)
(* Custom resources are read from the API server; Deployments, Jobs and    *)
(* Services are read through the manager's informer cache, which lags.     *)
(* Every write is refused when the object is no longer the one that was    *)
(* read (resourceVersion), so a write is modelled as succeeding exactly    *)
(* when the object still has the value that was read.                      *)
(***************************************************************************)
EXTENDS Integers

CONSTANTS
    Resources,      \* custom resources of one namespace
    KindOf, NameOf, \* their kinds and names
    RawSpecs,       \* the specs that users write for each of them
    Admitted,       \* those whose writes go through the webhook
    Digests,        \* images that name a sha256 digest
    IntRange,       \* 2^32, the number of values of Go's int32
    MaxEvents       \* bound: edits by users and faults of the cluster

VARIABLES
    resources,      \* the custom resources, with their status
    store,          \* Deployments, Jobs and Services in the API server
    cache,          \* the same in the informer cache
    queued,         \* the controllers' work queues
    work,           \* what each running reconciliation holds
    applied,        \* history: the spec last sent for each object
    edits, faults   \* how many so far

vars == <<resources, store, cache, queued, work, applied, edits, faults>>

Names == {NameOf[r] : r \in Resources}
Keys == {"Deployment", "Job", "Service"} \X Names
NoImage == ""
Absent == [absent |-> TRUE]     \* an object that does not exist

-----------------------------------------------------------------------------
(***************************************************************************)
(* Parse: defaults, and the conversion of 64-bit fields to int32.          *)
(* Resource quantities are "missing", "malformed" or "good".               *)
(***************************************************************************)
Int32(n) == ((n + IntRange \div 2) % IntRange) - IntRange \div 2

Field(raw, name, default) == IF name \in DOMAIN raw THEN raw[name] ELSE default

Quantities == {"missing", "malformed", "good"}

ASSUME OperatorAssumption ==
    \A r \in Resources : \A raw \in RawSpecs[r] :
        Field(raw, "resources", "missing") \in Quantities

Parse(raw) ==
    [image     |-> raw.image,
     replicas  |-> Int32(Field(raw, "replicas", 1)),
     port      |-> Int32(Field(raw, "port", 8000)),
     approved  |-> Field(raw, "approved", FALSE),
     resources |-> Field(raw, "resources", "missing")]

ReplicaCounts == 1 .. 100
Ports == 1 .. 65535

ValidateUnapproved(spec) ==    \* mutant: approval not asked for
    (IF spec.image \notin Digests THEN {"image"} ELSE {})
    \cup (IF spec.replicas \notin ReplicaCounts THEN {"replicas"} ELSE {})
    \cup (IF spec.resources = "missing" THEN {"resources"} ELSE {})

Validate(spec) ==
    (IF spec.image \notin Digests THEN {"image"} ELSE {})
    \cup (IF ~spec.approved THEN {"approved"} ELSE {})
    \cup (IF spec.replicas \notin ReplicaCounts THEN {"replicas"} ELSE {})
    \cup (IF spec.port \notin Ports THEN {"port"} ELSE {})
    \cup (IF spec.resources = "missing" THEN {"resources"} ELSE {})

Valid(raw) == raw.image # NoImage /\ Validate(Parse(raw)) = {}

(***************************************************************************)
(* The webhook decodes the object with encoding/json, which makes every    *)
(* number a float64; NestedInt64 does not find one, so that Parse takes    *)
(* the defaults.  The operator's client decodes integers as int64.         *)
(***************************************************************************)
Decoded(raw) == [name \in DOMAIN raw \ {"replicas", "port"} |-> raw[name]]

Allowed(raw) == Valid(Decoded(raw))

-----------------------------------------------------------------------------
Unknown == [phase |-> "none", message |-> {}, observed |-> 0]

Idle == [pc |-> "idle"]

Init ==
    /\ resources = [r \in Resources |-> Absent]
    /\ store = [k \in Keys |-> Absent]
    /\ cache = [k \in Keys |-> Absent]
    /\ queued = [r \in Resources |-> FALSE]
    /\ work = [r \in Resources |-> Idle]
    /\ applied = [k \in Keys |-> Absent]
    /\ edits = 0 /\ faults = 0

(***************************************************************************)
(* A user creates a resource, changes its spec or deletes it; the watch on *)
(* the resource queues it.  Edits are numbered: the number serves as the   *)
(* uid of a resource created by it and as the generation of its spec.      *)
(***************************************************************************)
Apply(r, raw) ==
    LET old == resources[r]
        number == edits + 1
    IN  /\ r \in Admitted => Allowed(raw)
        /\ ~(old # Absent /\ old.raw = raw)
        /\ resources' = [resources EXCEPT ![r] =
             IF old = Absent
             THEN [raw |-> raw, uid |-> number, generation |-> number,
                   status |-> Unknown]
             ELSE [old EXCEPT !.raw = raw, !.generation = number]]

Delete(r) ==
    /\ resources[r] # Absent
    /\ resources' = [resources EXCEPT ![r] = Absent]

Edit(r) ==
    /\ edits + faults < MaxEvents
    /\ Delete(r) \/ \E raw \in RawSpecs[r] : Apply(r, raw)
    /\ edits' = edits + 1
    /\ queued' = [queued EXCEPT ![r] = TRUE]
    /\ UNCHANGED <<store, cache, work, applied, faults>>

-----------------------------------------------------------------------------
(***************************************************************************)
(* Reconcile.  A work queue gives a resource to one worker at a time.      *)
(***************************************************************************)
Workload(r) ==
    <<IF KindOf[r] = "EvaluationRun" THEN "Job" ELSE "Deployment", NameOf[r]>>

ServiceOf(r) == <<"Service", NameOf[r]>>

Owner(r, seen) == [resource |-> r, uid |-> seen.uid]

Report(seen, phase, message, complete) ==
    [pc |-> "status", seen |-> seen, complete |-> complete,
     status |-> [phase |-> phase, message |-> message,
                 observed |-> seen.generation]]

Begin(r) ==
    LET seen == resources[r] IN
    /\ work[r] = Idle /\ queued[r]
    /\ queued' = [queued EXCEPT ![r] = FALSE]
    /\ work' = [work EXCEPT ![r] =
            IF seen = Absent THEN Idle
            ELSE IF seen.raw.image = NoImage
            THEN Report(seen, "Invalid", {"image"}, TRUE)
            ELSE IF Validate(Parse(seen.raw)) # {}
            THEN Report(seen, "Rejected", Validate(Parse(seen.raw)), TRUE)
            ELSE [pc |-> "workload", seen |-> seen]]
    /\ UNCHANGED <<resources, store, cache, applied, edits, faults>>

\* Reconcile returns an error, or panics and is recovered: the queue
\* retries it.
Fail(r) ==
    /\ work' = [work EXCEPT ![r] = Idle]
    /\ queued' = [queued EXCEPT ![r] = TRUE]
    /\ UNCHANGED <<resources, store, cache, applied, edits, faults>>

GoOn(r, pc) == work' = [work EXCEPT ![r].pc = pc]

(***************************************************************************)
(* Create is refused when the object exists, Update when it is not the one *)
(* that was read; a Deployment's selector holds the kind of its resource   *)
(* and cannot be changed.  podSpec panics on a malformed quantity.         *)
(***************************************************************************)
CanWriteAnyKind(r, k) ==           \* mutant: selector without the kind
    /\ cache[k] = store[k]
    /\ Parse(work[r].seen.raw).resources # "malformed"

CanWrite(r, k) ==
    /\ cache[k] = store[k]
    /\ k[1] = "Deployment" /\ store[k] # Absent => store[k].owner.resource = r
    /\ Parse(work[r].seen.raw).resources # "malformed"

Fresh(r, spec) ==
    [owner |-> Owner(r, work[r].seen), spec |-> spec, generation |-> 1,
     observed |-> 0, up |-> 0, image |-> NoImage, failed |-> 0]

Updated(object, spec) ==
    [object EXCEPT !.spec = spec,
                   !.generation = IF object.spec = spec THEN @ ELSE @ + 1]

\* Update of a Deployment also sets its owner, of a Service it does not.
Desired(r, k, spec) ==
    IF store[k] = Absent THEN Fresh(r, spec)
    ELSE IF k[1] = "Service" THEN Updated(store[k], spec)
    ELSE [Updated(store[k], spec) EXCEPT !.owner = Owner(r, work[r].seen)]

Write(r, k, next) ==
    LET spec == Parse(work[r].seen.raw) IN
    \/ /\ CanWrite(r, k)
       /\ store' = [store EXCEPT ![k] = Desired(r, k, spec)]
       /\ applied' = [applied EXCEPT ![k] = spec]
       /\ GoOn(r, next)
       /\ UNCHANGED <<resources, cache, queued, edits, faults>>
    \/ ~CanWrite(r, k) /\ Fail(r)

ReconcileDeployment(r) ==
    \/ /\ work[r].pc = "workload" /\ KindOf[r] # "EvaluationRun"
       /\ Write(r, Workload(r), "service")
    \/ /\ work[r].pc = "service"
       /\ Write(r, ServiceOf(r), "observe")

\* A job that exists is left as it is.
ReconcileJob(r) ==
    /\ work[r].pc = "workload" /\ KindOf[r] = "EvaluationRun"
    /\ IF cache[Workload(r)] # Absent
       THEN /\ GoOn(r, "observe")
            /\ UNCHANGED <<resources, store, cache, queued, applied, edits, faults>>
       ELSE Write(r, Workload(r), "observe")

JobState(job) ==
    IF job.up > 0 THEN <<"Completed", TRUE>>
    ELSE IF job.failed > 1 THEN <<"Failed", TRUE>>
    ELSE <<"Running", FALSE>>

DeploymentState(deployment, spec) ==
    IF deployment.observed >= deployment.generation
       /\ deployment.up >= spec.replicas
    THEN <<"Ready", TRUE>> ELSE <<"Progressing", FALSE>>

ObservedState(r) ==
    LET k == Workload(r)
        seen == work[r].seen
        state == IF k[1] = "Job" THEN JobState(cache[k])
                 ELSE DeploymentState(cache[k], Parse(seen.raw))
    IN  /\ work[r].pc = "observe"
        /\ \/ cache[k] = Absent /\ Fail(r)
           \/ /\ cache[k] # Absent
              /\ work' = [work EXCEPT ![r] =
                              Report(seen, state[1], {}, state[2])]
              /\ UNCHANGED <<resources, store, cache, queued, applied, edits, faults>>

(***************************************************************************)
(* setStatus, and the end of Reconcile: a resource whose status was        *)
(* written is seen by the watch, and one that is not complete comes back   *)
(* after five seconds.                                                     *)
(***************************************************************************)
StatusIsCurrent(r) == resources[r] = work[r].seen

SetStatus(r) ==
    LET w == work[r]
        same == w.seen.status = w.status
    IN  /\ w.pc = "status"
        /\ \/ ~same /\ ~StatusIsCurrent(r) /\ Fail(r)
           \/ /\ same \/ StatusIsCurrent(r)
              /\ resources' = IF same THEN resources
                              ELSE [resources EXCEPT ![r].status = w.status]
              /\ queued' = [queued EXCEPT ![r] = @ \/ ~same \/ ~w.complete]
              /\ work' = [work EXCEPT ![r] = Idle]
              /\ UNCHANGED <<store, cache, applied, edits, faults>>

Reconcile(r) ==
    \/ Begin(r) \/ ReconcileDeployment(r) \/ ReconcileJob(r)
    \/ ObservedState(r) \/ SetStatus(r)

-----------------------------------------------------------------------------
(***************************************************************************)
(* The cluster around the operator.                                        *)
(***************************************************************************)
OwnsNot(r, object) == FALSE    \* mutant: owned objects are not watched

Owns(r, object) == object # Absent /\ object.owner.resource = r

\* A watch event brings the cache up to date and queues the owners before
\* and after.
Sync(k) ==
    /\ cache[k] # store[k]
    /\ cache' = [cache EXCEPT ![k] = store[k]]
    /\ queued' = [r \in Resources |-> queued[r]
            \/ \E object \in {cache[k], store[k]} : Owns(r, object)]
    /\ UNCHANGED <<resources, store, work, applied, edits, faults>>

Change(k, object) ==
    /\ store' = [store EXCEPT ![k] = object]
    /\ UNCHANGED <<resources, cache, queued, work, applied, edits>>

\* The garbage collector removes what the owner's deletion left.
Collect(k) ==
    /\ store[k] # Absent
    /\ LET owner == store[k].owner IN
       ~(/\ resources[owner.resource] # Absent
         /\ resources[owner.resource].uid = owner.uid)
    /\ Change(k, Absent) /\ UNCHANGED faults

\* The deployment controller sees a generation at once and replaces the
\* pods of the one before later.
Observe(k) ==
    /\ k[1] = "Deployment" /\ store[k] # Absent
    /\ store[k].observed # store[k].generation
    /\ Change(k, [store[k] EXCEPT !.observed = store[k].generation])
    /\ UNCHANGED faults

RollOut(k) ==
    /\ k[1] = "Deployment" /\ store[k] # Absent
    /\ store[k].observed = store[k].generation
    /\ <<store[k].up, store[k].image>> # <<store[k].spec.replicas, store[k].spec.image>>
    /\ Change(k, [store[k] EXCEPT !.up = store[k].spec.replicas,
                                  !.image = store[k].spec.image])
    /\ UNCHANGED faults

RunJob(k) ==
    /\ k[1] = "Job" /\ store[k] # Absent
    /\ store[k].up = 0 /\ store[k].failed < 2
    /\ \/ Change(k, [store[k] EXCEPT !.up = 1])
       \/ Change(k, [store[k] EXCEPT !.failed = @ + 1])
    /\ UNCHANGED faults

\* A node is lost, or somebody scales the deployment by hand.
Disturb(k) ==
    /\ k[1] = "Deployment" /\ store[k] # Absent
    /\ edits + faults < MaxEvents /\ faults' = faults + 1
    /\ \/ store[k].up > 0 /\ Change(k, [store[k] EXCEPT !.up = 0])
       \/ Change(k, Updated(store[k], [store[k].spec EXCEPT !.replicas = @ + 1]))

Cluster(k) == Sync(k) \/ Collect(k) \/ Observe(k) \/ RollOut(k) \/ RunJob(k)

Next ==
    \/ \E r \in Resources : Edit(r) \/ Reconcile(r)
    \/ \E k \in Keys : Cluster(k) \/ Disturb(k)

Spec == Init /\ [][Next]_vars

(***************************************************************************)
(* Fairness: the queues are served, watch events arrive, the cluster       *)
(* collects garbage, rolls deployments out and runs jobs.  Nothing is      *)
(* assumed of users or faults.                                             *)
(***************************************************************************)
Fairness ==
    /\ \A r \in Resources : WF_vars(Reconcile(r))
    /\ \A k \in Keys : /\ WF_vars(Sync(k)) /\ WF_vars(Collect(k))
                       /\ WF_vars(Observe(k)) /\ WF_vars(RollOut(k))
                       /\ WF_vars(RunJob(k))

FairSpec == Spec /\ Fairness

-----------------------------------------------------------------------------
(***************************************************************************)
(* What runs in the cluster was approved, is pinned and bounded, whatever  *)
(* was edited or deleted in the meantime and whether or not a webhook      *)
(* stood before it.  The bounds are those of the converted numbers.        *)
(***************************************************************************)
OnlyGovernedRuns ==
    \A k \in Keys : store[k] # Absent =>
        /\ applied[k].approved /\ applied[k].resources = "good"
        /\ applied[k].image \in Digests
        /\ applied[k].replicas \in ReplicaCounts /\ applied[k].port \in Ports
        /\ store[k].image \in Digests \cup {NoImage}

(***************************************************************************)
(* docs/GO_CONTROL_PLANE.md: "Admission service | Reject mutable,          *)
(* unapproved or unbounded workloads".  No resource that passed the        *)
(* webhook asks for replicas or a port out of bounds.                      *)
(***************************************************************************)
AdmittedIsBounded ==
    \A r \in Admitted : resources[r] # Absent =>
        LET spec == Parse(resources[r].raw)
        IN  spec.replicas \in ReplicaCounts /\ spec.port \in Ports

\* No other resource asks for the same Deployment or Job.
Alone(r) == \A other \in Resources \ {r} :
    Workload(other) = Workload(r) => resources[other] = Absent

(***************************************************************************)
(* A status that claims to describe the resource's present generation is   *)
(* about what this generation asks for: the Deployment last sent is its    *)
(* own, for this incarnation of the resource and not for one deleted       *)
(* before or one of another kind that shares the name.  (A Job is only     *)
(* created, so of a Job it is the first valid generation that counts.)     *)
(***************************************************************************)
StatusIsEarned ==
    \A r \in Resources :
        LET resource == resources[r]
            k == Workload(r)
        IN  /\ resource # Absent
            /\ resource.status.observed = resource.generation
            /\ resource.status.phase \in {"Ready", "Progressing"}
            => /\ store[k] # Absent /\ store[k].owner = Owner(r, resource)
               /\ applied[k] = Parse(resource.raw)

(***************************************************************************)
(* Once users and faults are quiet, every resource that never shared its   *)
(* name reaches its final state and stays there: Deployment and Service as *)
(* asked for, the pods of the present image up and Ready reported, a       *)
(* finished job reported, an invalid specification reported as such, all   *)
(* for the present generation.  A quantity that the operator cannot parse  *)
(* is the exception: Reconcile panics before it reports anything.          *)
(***************************************************************************)
Settled(r) ==
    LET k == Workload(r)
        resource == resources[r]
        spec == Parse(resource.raw)
    IN  \/ resource = Absent /\ \A j \in {k, ServiceOf(r)} :
              store[j] # Absent => store[j].owner.resource # r
        \/ resource # Absent /\ spec.resources = "malformed"
        \/ /\ resource # Absent
           /\ resource.status.observed = resource.generation
           /\ IF ~Valid(resource.raw)
              THEN resource.status.phase \in {"Invalid", "Rejected"}
              ELSE IF k[1] = "Job"
              THEN resource.status.phase \in {"Completed", "Failed"}
              ELSE /\ resource.status.phase = "Ready"
                   /\ \A j \in {k, ServiceOf(r)} :
                         store[j] # Absent /\ store[j].spec = spec
                   /\ store[k].up = spec.replicas /\ store[k].image = spec.image

Converges == \A r \in Resources : []Alone(r) => <>[]Settled(r)
=============================================================================
