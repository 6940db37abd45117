# OpenModelOps: TLA+ models, model checking and proofs

OpenModelOps is a collection of control planes for machine-learning work: small
services that keep records of workloads, model runs, cluster changes, incidents
and reviews, and let people move those records forward under rules (gates,
approvals, separation of duties). Most services are FastAPI applications whose
handlers run in a thread pool over a SQL or SQLite table, or over memory; one
runs on an asyncio loop. This directory models the services that hold state
which several requests, processes or external systems change at once, checks
them with TLC and proves every safety property with TLAPS.

## Inventory

| Component | State | Operations | What is hard | What makes it correct |
|---|---|---|---|---|
| Factory (`platforms/factory`) | versioned workload documents per tenant | create, record gate, approve, provision, release, suspend, retire | read-modify-write of concurrent handlers, gate re-recorded while an approval is on its way | a release rests on passed gates, policy and independent people; the history is complete; each save is one atomic operation |
| Kubernetes SRE (`platforms/kubernetes_sre`) | proposal rows, the cluster | propose, approve, claim, validate, read, patch, finish | racing executors, lost answers, drift of the cluster, restart in the middle | one change per proposal, three people, truthful status, claims end |
| Outbox (`platforms/integrations/outbox.py`, `dispatcher.py`) | message rows, batches of copies | enqueue, fetch, call, record, retry, dead-letter | overlapping dispatchers, stale attempt counts, crash between call and record | idempotent enqueue, no invented delivery, no early dead letter, every message settled |
| MLOps registry (`platforms/mlops`) | run rows with a revision | create, transition, evaluate | compare and write in separate statements | legal history, owner does not approve, no lost update |
| AIOps incidents (`platforms/aiops`) | incidents in memory | correlate, investigate, recommend, approve, execute, verify | unlocked check-then-act in a thread pool | nothing without its prerequisite, no self-approval, one execution |
| Review agent (`platforms/reviewer`) | one JSON review per pull request, GitHub | open, refresh, approve suggestion, authorize apply | copies upserted whole, GitHub changing between two fetches, restart with other configuration | apply needs a human approval, eligibility is latched at open |
| Metal runtime (`platforms/metal_runtime`) | queue, worker tasks, futures, cache index | admit, submit, take, finish, time out, respond, start, stop | deadline against late result, stop under a running call, admission on a stale counter | counters true, no worker lost, the queue is served, LRU right |
| Go operator and webhook (`src/go`) | custom resources with status; owned Deployments, Jobs and Services; informer cache and work queues | admit, reconcile, update, set status | cache lags behind the API server, writes refused, deletion and recreation under one name, two kinds with one name, 64-bit numbers made 32-bit | only approved, pinned and bounded workloads run; a status is true of its generation; it converges |
| Streaming reliability and ARIA ingress (`platforms/streaming`, `integrations/aria_intelligence.py`) | assessments in memory, stored signals | diagnose, record, hand evidence over, verify, store, scorecard | late, repeated and forged messages, unrated signals, thresholds at equality | the gate follows grave evidence exactly and never loosens |
| JudgeOps (`platforms/judgeops`, `tools/run_judge_experiment.py`) | evaluations, review queue, labels, golden dataset | evaluate, resolve, label, export, qualify, gate a release | racing reviewers, labels added during an export, provider errors, injected samples | injected samples never pass, exported truth is agreed by two people, a review is settled once |
| DecisionOps (`platforms/decisionops`) | circuit breaker, LRU cache | evaluate | threads share both without a lock | an accepted decision is the provider's for this question; a failing provider is left alone |
| Banking (`platforms/banking`) | bounded idempotency map | score a transaction | redelivery with other content, full map, restart | a redelivered event is answered as before |
| Corrective RAG (`platforms/rag`; the e-commerce assistant has the same loop) | state of one question | retrieve, grade, rewrite, generate, refuse | two implementations, bound on attempts | graph and loop agree |
| Agent runtime (`platforms/agents`) | traces, tools, feedback | invoke, register, invoke tool, feedback | guardrail or model missing or raising between the checks | fails closed, one trace per invocation |
| Catalog, e-commerce API, features and training contracts | none that changes | loading, validation, look-ups | – | – |
| Event contracts, security, telemetry, HTTP clients | none | validation, tokens, HTTP | retries | – |

The components meet in few places: the API layers authenticate a subject with
roles (`packages/security`), which the models take as given; producers of
integration events go through the outbox; the SRE agent talks to the Kubernetes
API, the review agent to GitHub and the Metal runtime to an inference backend,
which the models treat as external actors. The streaming service's evidence
travels through ARIA to the Factory's scorecard, which `Signals` follows from end
to end; the ensemble of JudgeOps feeds the evaluation gate, which `JudgeOps`
includes.

## Modules

`X.tla` models a component, an `MC...` module gives the constants of one or of
several components small values, and a `.cfg` lists what TLC checks. Mutated definitions that the properties are
tested against stand right before the definition they change, marked `mutant`.

* **FactoryDomain** – the workload as a value: stages, gates, evidence check
  (`EvidenceVerified`), policy (`PolicyAllows`), and per operation what it
  accepts (`Accepts`) and what it makes of a workload (`Apply`), from
  `domain.py`, `governance.py` and the handlers of `api.py`.
  **FactoryLifecycle** is the abstract promise: workloads that change by one
  accepted operation of an authorized subject of their tenant, atomically.
  **Factory** is the service: handlers read a row (`BeginRecordGate`,
  `BeginAdvance`), hold their copy, and `Save` it by compare-and-set on the
  version; requests may die in between. `AtomicOperations` states that Factory
  implements FactoryLifecycle. **FactoryProofs** holds the proofs.
* **KubernetesSRE** – rows and executor threads step by step: read proposal and
  approval, claim (`UPDATE ... WHERE status = 'approved'`), validate, read the
  deployment, patch it, record. A request names the uid and version its author
  chose, not those the cluster has. Time, drift of the cluster, the answers of
  the API server and restarts are actions of the surroundings. A digest is the value it is computed from.
  **SREProofs** holds the proofs.
* **Outbox** – table, due queue (the order `available_at` imposes), producers
  and dispatchers. Look-up and insert, fetch, call and record are separate
  transactions. `cuts` counts runs cut short, by a crash or by an exception
  that `run_once` does not catch.
* **MLOps** – `TRANSITIONS`, evaluation and the two statements of
  `RunStore.save`: `Check` (the SELECT) and `Write` (the UPDATE), by the worker
  threads of the API.
* **Incident** – the attributes of one incident and handlers that execute its
  methods statement by statement, as threads do; `_move` builds, appends and
  assigns in three steps.
* **Reviewer** – the stored review of one pull request, handlers with their
  copies, and GitHub, where the bot reviews, edits and deletes. A comment's
  text is a version number.
* **MetalRuntime** – what happens between two awaits is one action. Memory is
  counted in tokens of KV cache. The backend returns, raises or hangs.
* **Operator** – `Parse` with the conversion to int32, `Validate`, the webhook's
  `Allowed`, which sees what `encoding/json` makes of the object (`Decoded`), and `Reconcile` cut at every call of the API server: `Begin` reads
  the resource, `ReconcileDeployment` or `ReconcileJob` write the owned objects
  out of the informer cache, `ObservedState` reads it again, `SetStatus` writes
  the status. A write succeeds when the object is still the one that was read,
  which is what `resourceVersion` stands for; a refused one, an error or a panic
  puts the resource back into the queue (`Fail`). Users, watch events, garbage
  collection, the deployment and job controllers and faults are external
  actions. Edits are numbered, and the number is uid and generation.
* **Signals** – `SloStatus`, `Findings` and `Severity` are `diagnose` with rates
  as integers; `Record` and `ForwardEvidence` the streaming service, whose memory
  a restart clears; `Verify`, `Store` and `ReleaseGateImpact` the Factory's side.
  The wire keeps every message, so each may arrive late, again or never.
* **JudgeOps** – `Ensemble` computes the verdict from any answers of the judges
  (scores and confidences in hundredths, medians doubled); the review queue and
  the label ledger are tables; the export reads the ledger sample by sample.
  An experiment loads that export or any other file (`Datasets`), with the
  defaults the loader gives to missing marks and verdicts (`Truth`, `MarkOf`).
  `Qualifies` is calibration and policy with the fractions multiplied out.
* **DecisionOps** – a thread's `evaluate`, taken apart at every call that lets
  another thread in. `Open` follows `Compare` follows the count of a failure.
* **Banking** – scores as sums of weights and the ordered idempotency map.
* **CorrectiveRAG** – the compiled graph as a state machine, and `InvokeResult`,
  the loop of `invoke` in closed form, as the reference it is compared with.
* **AgentRuntime** – an invocation between its two guardrail checks, the `finally`
  that writes the trace, the tool registry and the feedback queue.
* **MCServing**, **MCEvidence** and **MCEffects** combine services that share no
  state: a behaviour picks one of them and leaves the others at their initial
  states, where none of their fair actions is enabled. The questions remain those
  of the single services.

## Runs

| Run | Shows | Instance and bounds |
|---|---|---|
| `factory` | `ReleaseGoverned`, `AuditTrail`, `SignedEvidence`, `ApprovalIsFinal`, and that the service implements `FactoryLifecycle` (`AtomicOperations`) | two handlers and two tenants, so that read and save of two requests interleave and a foreign tenant tries |
| `effects` | the outbox: idempotent enqueue, no invented delivery, no early dead letter, a settled row touched only by outcomes of copies taken before (`SettledStays`), everything settled (`EventuallySettled`); cluster changes: one governed change per proposal, truthful status, rows move forward, claims finish | two producers, two dispatchers, one routable and one unroutable message, three attempts (the code's five only lengthens the count), one run cut short; two executor threads, people with several roles, requests that fail each check or name a version the cluster does not have yet or any more; one tick past expiry, one drift, one restart |
| `sre_stale_replay` | violated: `NoStaleReplay` | one drift between read and patch |
| `mlops_lost_update` | violated: `NoOverwrite` | one run, two workers |
| `metal` | items, counters and workers accounted for, cache, budget; the queue is served although a worker may hang (`QueueIsServed`) | four requests, two workers, queue and cache of two |
| `operator` | `OnlyGovernedRuns`, `StatusIsEarned`, `Converges` | three cases: two kinds of one name; one resource with changing image and faults; an EvaluationRun with an empty, an unapproved and an unparsable spec. Three edits or faults: create, delete, recreate fits. Integers wrap at 2^18, which lies above every threshold as 2^32 does |
| `operator_admission` | violated: `AdmittedIsBounded` | an agent of 101 replicas, behind the webhook; the schema of its kind has no maximum |
| `serving` | incidents: `PrerequisitesAudited`, `SoundWhenSerial`; decisions: `DecisionsAreOwned`, `BreakerBoundsExposure`; banking: `ReplaysAgree`; retrieval: `GraphComputesInvoke`; agents: `FailsClosed` | two requests and a whole incident of six audit entries; three threads, a cache of one for two cacheable keys, threshold and reset of two; three events over a map of two, five answers; three attempts, every retrieval over two documents and every rewriting, the empty query included; two invocations, with and without a guardrail |
| `incident_self_approval` | violated: `NoSelfApproval` | two requests of two people |
| `evidence` | reviews: `ApplyWasApproved`, `SkippedStaysUnreviewed`, `EligibilityLatched`, `ApprovalsKept`; judges: `InjectionNeverPasses`, `TwoPersonTruth`, `ReviewsSettleOnce`; signals: `GateFollowsEvidence`, `GateOnlyTightens`; model registry: `HistoryIsLegal` | two handlers, one comment that appears and disappears, one restart; two judges with scores on both sides of the thresholds, three samples, four labels of three reviewers (two agreed cases), a file without marks and one with marks of synthetic labels; three snapshots at or next to their thresholds and one that is refused, two foreign signals, two tenants, two messages, a clock that leaves the tolerance; one run, two workers, six revisions: up to `deploying`, past both separations of duties, while rollback and the stages after it are transitions like those before |
| `judge_unmarked` | violated: `OnlyMarkedCalibrate` | the same |
| `reviewer_edited` | violated: `AppliedTextWasApproved` | one handler, a comment of two texts |

Bounds appear in guards under the names `Max...`; they cap counters that only
grow (time, versions, drift, restarts, audit length, edits) and leave every
operation enabled several times. `MCFactory` and the reviewer's
violation are checked for deadlock; the other runs switch that check off because
the instance really ends: all requests answered, all revisions used, the audit
full, the last edit settled.

`MinimumCases` of the calibration is 2 instead of 50, so that a qualification
can happen with the labels there are; the other parts of the policy keep the
code's values.

### Fairness

`KubernetesSRE!Fairness` assumes that a thread serving a request is scheduled
until the request ends, as long as the next step is its own (the thread pool does
that while the process lives). The answers of the API server are not the
thread's: `client.py:107,116,128` pass no timeout, so a call may wait for ever and
its row stays `executing`. `ClaimsFinish` has the answers as a hypothesis, and
ends where a restart happens. `Outbox!OutboxFairness` assumes
that dispatchers are run again and again and that backoffs elapse, with finitely
many runs cut short; nothing is assumed of producers or of how handlers end,
except that each call ends.
`MetalRuntime!FairSpec` assumes only the event loop: a worker that waits for a
queue with an item in it resumes, and so does a handler whose future is done.
Nothing is assumed of deadlines or of the backend; that it returns to one worker,
or to all, are the hypotheses of the two parts of `QueueIsServed`.
`Operator!FairSpec` assumes what controller-runtime and Kubernetes do: queued
resources are served, watch events arrive, and the garbage collector, deployment
and job controllers act. Nothing is assumed of users or faults, of which there
are finitely many; `Converges` speaks of the time after the last of them.

### Where code and documents disagree

The runs that end in a violation record these:

* `docs/KUBERNETES_SRE_AGENT.md:40` promises a version check that prevents
  stale replay; `client.py:115` compares and then patches without a
  precondition.
* `docs/ARCHITECTURE.md:36` promises optimistic concurrency; `mlops/store.py:28`
  compares in one statement and writes in another that names no revision.
* `docs/PLATFORM_EXTENSIONS.md:21` says that authors cannot approve their own
  actions; `aiops/workflow.py:74` scans the audit unlocked.
* `docs/JUDGE_DATASET.md:48` says that only records marked human and verified
  enter calibration; `datasets.py:27,36` take a missing human verdict from the
  expected one and missing marks for granted, and the default file of
  `run_judge_experiment.py:20` has neither.
* `docs/GO_CONTROL_PLANE.md:12` lets the admission service reject unbounded
  workloads; `handler.go:31` decodes numbers as `float64`, `spec.go:27,31` look
  for `int64`, and the defaults are validated instead. The operator, whose client
  decodes integers as such, refuses to run these resources (`OnlyGovernedRuns`).
* `docs/REVIEW_AGENT.md:5` asks for human approval of a suggestion;
  `reviewer/domain.py:96` knows comment ids only, and comments can be edited.

Met while modelling, and visible in how the properties are worded: overlapping
dispatchers write the same attempt count and may set a delivered row back to
pending from a copy they took before, so five failures need not dead-letter
a message (`docs/INTEGRATION_CONTRACTS.md:18`); a handler that always raises
something other than `RuntimeError` or `ValueError` keeps its message and the
rest of its batch from ever being settled; `TRANSITIONS` makes candidates
without evaluation; two overlapping `execute` requests run a remediation twice;
and two requests admitted one after the other may together be granted more than
the memory budget, for `decide` shares it among those running and ignores what
they were granted.

In the other components:

* `go/internal/platform/spec.go:42` converts before it validates, so 2^32 + 2
  replicas pass as 2; where the custom resource's schema has no maximum, nothing
  else refuses the number. A quantity that is present and malformed makes
  `MustParse` panic (`reconciler.go:106`), and no status is ever written. A
  Deployment counts old pods as available (`reconciler.go:89`). An existing Job
  is never changed (`reconciler.go:161`), so a later generation of an
  EvaluationRun reports the outcome of the first valid one.
* `integration.py:44` looks at scores only: a case left to a human for
  disagreement or low confidence does not stop the release gate, which is why
  `InjectionNeverPasses` speaks of failed and injected cases. For the same reason
  an injection that the screen does not match and only an LLM judge reports, with
  high scores, goes to a human in the evaluation but passes the release gate
  (`integration.py:39`): injected means, throughout, matched by the screen. A golden dataset of
  one class only can qualify a candidate (`calibration.py:78`).
* A streaming incident's id is a digest of the snapshot, so evidence of one
  incident is accepted for the first tenant that forwards it and refused for the
  second. With one or two partitions `HOT_PARTITION` cannot occur
  (`reliability.py:148`). A fire drill passes with a critical finding as long as
  the error budget is healthy (`streaming/api.py:59`).
* In the graph of CorrectiveRAG an empty rewritten query means the question
  (`workflow.py:77`), in the loop of `invoke` it is used as it is.
* In DecisionOps, `allow` raises when another thread closes the breaker between
  its two looks at `opened_at`, and `move_to_end` raises when the key was evicted
  after the look-up; both leave `evaluate` as errors without a record.
* `AgentRelease.allowed_tools` is consulted nowhere; tools are governed by role
  and approval alone.

## Proofs

TLC checks the instances above; the theorems hold for every value of the
constants that satisfies the assumptions named in the modules, which TLC
evaluates on every run. They say that absent values are not members of the sets
they stand beside, that bounds are naturals (a queue, a cache, a threshold or a
number of attempts at least one), that threads, workers and judges are finitely
many where something counts them, and that requests have their record type.
Those that say more follow from the code: every rubric of
`rubrics.py` has a dimension with a threshold above zero (`JudgeAssumption`), a signal of ARIA's own does not carry
the id of a streaming incident, which is a digest, and one of finitely many
partitions lags most (`SignalsAssumption`), no other file is the export
(`JudgeAssumption`), and a
quantity is missing, malformed or good (`OperatorAssumption`).

Every safety property that a run checks is also a theorem. Each rests on an
inductive invariant, because a property of what is stored does not follow from
what is stored alone: handlers, dispatchers and reconcilers write from copies.

**FactoryProofs.** `IInv` is the conjunction of the type invariant, "every
stored workload is governed, chained, signed and its history is not ahead of its
stage", and "a copy whose version matches the row is what an accepted operation
makes of the stored document". The last part is what makes it inductive: a save
that passes the version check then equals one atomic operation on the row as it
is now (`SavesAreFresh`), so each operation only has to preserve the facts about
one workload (`GovernedPreserved`, `ChainedPreserved`, `SignedPreserved`).
`NextIsRowStep` and `NextIsHandlerStep` say once what a step can do to the table
and to a handler; `Invariance`, the five invariants, `ApprovalsFinal` and the
refinement `Refinement` follow from them.

**SREProofs.** From the claim on, a thread owns its proposal. `IInv` says that
owners of different threads own different rows, that an owned row is
`executing`, that the owner's copies agree with the row, and that the row's
change was applied exactly when its owner got past the patch, or after an owner
is gone at most once. `AppliedOnce`, `ChangesGoverned`, `StatusTruthful` and
`RowsForward` follow.

**MLOpsProofs.** A save may replace a newer row by an old copy, so `IInv` demands
a legal story of every copy in flight as well; that a story has one approval
needs that no run before `approved` was ever approved, which the shape of
`TRANSITIONS` gives.

**OutboxProofs.** `GoodCopy` is what stays true of a dispatcher's copy however
old it is: its row exists and keeps its key, its attempts are below the limit,
and that many calls failed. `GoodRow` then holds of whatever is written from it.
`CopyKept` shows that no other step disturbs a copy. `SettledChangesOnlyByCopies`
does not say that a delivered row stays delivered, which the code does not ensure,
but that only copies taken before can change it, each of them once.

**ServingProofs** treats five services.
* Incidents: `Justified` says that the moves a handler has ahead were justified
  by the audit when it checked, and the audit only grows. Served one at a time,
  the n-th entry leads to stage n (`Staged`), which makes the audit a path.
* Retrieval: `RagInv` says at every node of the graph which attempts of `invoke`
  have missed and which query comes next.
* Agents: `Guarded` is what the two checks leave true of an invocation, `Traced`
  that it owns no trace before it ended and exactly one after.
* Decisions: `BreakerInv` counts. The calls since the last success or reset were
  counted as failures or are under way; while the breaker is closed, the failures
  are below the threshold but for those of callers about to compare or to open.
* Banking: `BankingInv` says that behind each remembered event stand exactly the
  events answered since its last answer, so one that is forgotten had at least
  `MaxIdempotencyKeys` others after it.

**EvidenceProofs** treats three.
* Reviews: every copy of the review, stored or in a thread, is sound
  (`SoundReview`, `SoundHandler`); for the two action properties, `ServedAlone`
  says that without overlap a handler's copy follows from the row.
* Signals: `SignalsInv` traces every stored row to the wire and from there to an
  assessed snapshot or to ARIA; `Severity` is compared rule by rule with `Grave`,
  which states the hot partition without the maximum of `IsHot` (`HotIsLargest`).
* Judges: `QueueInv` (ids are handed out in order, rows beyond them are unused),
  `TruthInv` (settled cases stay settled, annotations are unique per person and
  sample, counts of the confusion matrix bound the contradictions; two people
  stand behind the export only, the bound on contradictions behind any file) and lemmas on
  medians and minima, which get their least element from the well-foundedness of
  the naturals (`LeastNatural`).

**MetalProofs.** `SchedulerInv` puts a request in at most one place of the
scheduler and says what its future and its handler may be there; the counter is
the cardinality of the busy workers. For the cache, `IsRecent` carries a witness,
the position of each entry's last use: positions increase, and a last use
without an entry is older than all that have one. `CacheIsRecent` follows since
an increasing enumeration of a finite set is unique.

**OperatorProofs.** `OperatorInv` relates three things that change separately:
the objects, what a reconciliation holds (`GoodWork`), and what a status says.
`Backed` is the link: a resource that claims something of its Deployment
(`Claims`), or a reconciliation past the write (`Sent`), is backed by the object
last sent as long as its incarnation exists. It is kept because another resource
cannot write a Deployment whose selector names a different owner, and the garbage
collector passes over objects whose owner is alive. `ReplicaCounts` and `Ports`
have names of their own so that the provers need not look into them.

Only model-checked: liveness under fairness (`ClaimsFinish`, `EventuallySettled`,
`QueueIsServed`, `Converges`), which is outside what the prover does, and the
six violations. The theorems about type correctness, the inductive invariants
and `SavesAreFresh` have no run of their own.

The models are written for both tools. Elements leave a sequence by `RemoveAt` in
`NotId` (Outbox) and `ToEnd` (MetalRuntime), because each occurs once and the
provers know nothing of `SelectSeq`; an object that does not exist is the record
`Absent` (Operator), different from every object; `FailsClosed` counts the traces
of an invocation by the set of their positions.

## Not modelled

See "components" in `PROJECT.json` for each part and the reason. In short:
inspection of clusters, hardware detection, adapters and telemetry are I/O
without state of their own; catalogs, registries and contracts are validated
once and then only read; examples, deployment files and dashboards are data.
Inside modelled components these effects are left out: security findings of a
review, which no operation looks at; the SQLite transaction that
`SREStore.approve` leaves open when it raises, which only another process would
notice; changes between the pages of one GitHub list; metrics that are NaN, which
pass both comparisons of the evaluation policy; the weighted score of an
ensemble, which decides nothing; the calibration endpoints of the JudgeOps API,
which compute a report for the caller and store nothing; the entry into the
DecisionOps cache and the eviction, taken as one step; the count of a failure
(`engine.py:41`), one step too, since CPython switches threads at calls and
backward jumps; a telemetry span that raises before the `try` of an agent's
invocation (`runtime.py:71`), which would leave no trace; the history before a
restart of the banking service, which `ReplaysAgree` does not compare with; and
the texts of reports.

## Plan

1. Each component's inductive invariant as a theorem of its own where it is now a
   step inside another theorem, and type correctness next to it.
2. Parts of the liveness arguments that are safety: that a
   queued item in MetalRuntime always has a worker left to take it, and that a pending row of the
   outbox is due, backing off or in a batch.
3. Pure algorithms, where a property can be afforded: the catalog's cycle check,
   the rules of the SRE analyzers, the retry loop of the HTTP client.
