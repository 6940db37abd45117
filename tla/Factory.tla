------------------------------ MODULE Factory ------------------------------
(***************************************************************************)
(* The Factory API (platforms/factory/api.py) over its versioned store     *)
(* (platforms/factory/store.py).  Every request runs in a handler thread   *)
(* of some replica: it authorizes the caller, reads the row, changes a     *)
(* private copy and writes the copy back if the row still has the version  *)
(* it read.  Between the read and the write any other handler may run, and *)
(* a replica may die.  The database is the only shared state.              *)
(***************************************************************************)
EXTENDS FactoryDomain

CONSTANTS
    Ids,          \* workload identifiers (uuid4 in the code)
    Handlers,     \* threads that serve requests
    MaxVersion    \* bound: rows at this version take no more requests

ASSUME MaxVersionAssumption == MaxVersion \in Nat

VARIABLES
    rows,         \* the table factory_workloads
    handlers      \* what each handler thread holds

vars == <<rows, handlers>>

(***************************************************************************)
(* A missing row has version 0; create inserts version 1.                  *)
(***************************************************************************)
NoRow == [version |-> 0]
Rows == [tenant : Tenants, version : Nat \ {0}, document : Workloads]

(***************************************************************************)
(* An idle handler remembers how its last request ended (the HTTP statuses *)
(* other than 200 are all "refused"); one that is about to save holds its  *)
(* private copy and the version read.                                      *)
(***************************************************************************)
Replies == {"none", "ok", "refused"}
Idle(reply) == [pc |-> "idle", reply |-> reply]
Saving(i, workload, version) ==
    [pc |-> "save", id |-> i, workload |-> workload, version |-> version]

TypeOK ==
    /\ rows \in [Ids -> Rows \cup {NoRow}]
    /\ handlers \in [Handlers ->
            [pc : {"idle"}, reply : Replies] \cup
            [pc : {"save"}, id : Ids, workload : Workloads, version : Nat \ {0}]]

Init ==
    /\ rows = [i \in Ids |-> NoRow]
    /\ handlers = [h \in Handlers |-> Idle("none")]

-----------------------------------------------------------------------------
Exists(i) == rows[i].version > 0

(***************************************************************************)
(* get_workload finds a row only under the caller's own tenant.            *)
(***************************************************************************)
Found(i, actor) == Exists(i) /\ rows[i].tenant = TenantOf[actor]

(***************************************************************************)
(* An HTTPException (or an error nobody catches): nothing is written.  The *)
(* status the caller sees stands beside each use.                          *)
(***************************************************************************)
Refuse(h) ==
    /\ handlers' = [handlers EXCEPT ![h] = Idle("refused")]
    /\ UNCHANGED rows

(***************************************************************************)
(* The handler has read row i and changed its copy: the write is next.     *)
(***************************************************************************)
Hold(h, i, workload) ==
    /\ handlers' = [handlers EXCEPT ![h] = Saving(i, workload, rows[i].version)]
    /\ UNCHANGED rows

(***************************************************************************)
(* POST /workloads.  The insert is the only shared step.                   *)
(***************************************************************************)
CreateWorkload(h, actor, i, values) ==
    /\ handlers[h].pc = "idle"
    /\ ~Exists(i)
    /\ \/ ~Authorized(actor, "factory-admin") /\ Refuse(h)  \* 403
       \/ /\ Authorized(actor, "factory-admin")
          /\ ~ValidSpec(values)
          /\ Refuse(h)  \* 422
       \/ /\ Authorized(actor, "factory-admin")
          /\ ValidSpec(values)
          /\ rows' = [rows EXCEPT ![i] =
                        [tenant |-> TenantOf[actor], version |-> 1,
                         document |-> NewWorkload(values, TenantOf[actor])]]
          /\ handlers' = [handlers EXCEPT ![h] = Idle("ok")]

(***************************************************************************)
(* The common head of PUT /gates and POST /{operation}: authorize, then    *)
(* get_workload.  Either answers without touching the row.                 *)
(***************************************************************************)
Turned(h, actor, i, req) ==
    \/ ~Authorized(actor, RequiredRole(req)) /\ Refuse(h)  \* 403
    \/ /\ Authorized(actor, RequiredRole(req))
       /\ ~Found(i, actor)
       /\ Refuse(h)  \* 404

Admitted(actor, i, req) ==
    /\ Authorized(actor, RequiredRole(req))
    /\ Found(i, actor)
    /\ rows[i].version < MaxVersion

(***************************************************************************)
(* PUT /workloads/{id}/gates up to the save.  A malformed evidence         *)
(* statement raises outside the handler's try block: status 500.           *)
(***************************************************************************)
BeginRecordGate(h, actor, i, req) ==
    /\ handlers[h].pc = "idle"
    /\ \/ Turned(h, actor, i, req)
       \/ Admitted(actor, i, req) /\ ~req.statement /\ Refuse(h)  \* 500
       \/ /\ Admitted(actor, i, req)
          /\ req.statement
          /\ ~EvidenceVerified(req)
          /\ Refuse(h)  \* 422
       \/ /\ Admitted(actor, i, req)
          /\ req.statement /\ EvidenceVerified(req)
          /\ ~CanRecordGate(rows[i].document, req)
          /\ Refuse(h)  \* 409
       \/ /\ Admitted(actor, i, req)
          /\ req.statement /\ EvidenceVerified(req)
          /\ CanRecordGate(rows[i].document, req)
          /\ Hold(h, i, RecordGate(rows[i].document, req, actor))

(***************************************************************************)
(* POST /workloads/{id}/{operation} up to the save.                        *)
(***************************************************************************)
BeginAdvance(h, actor, i, req) ==
    /\ handlers[h].pc = "idle"
    /\ \/ Turned(h, actor, i, req)
       \/ Admitted(actor, i, req) /\ req.op = "other" /\ Refuse(h)  \* 404
       \/ /\ Admitted(actor, i, req)
          /\ req.op # "other"
          /\ ~CanAdvance(rows[i].document, req, actor)
          /\ Refuse(h)  \* 409
       \/ /\ Admitted(actor, i, req)
          /\ CanAdvance(rows[i].document, req, actor)
          /\ Hold(h, i, Advance(rows[i].document, req, actor))

(***************************************************************************)
(* Mutants of the store: an UPDATE without the version in its WHERE        *)
(* clause, and one that writes the version it read back.                   *)
(***************************************************************************)
MatchesAnyVersion(i, workload, version) ==   \* mutant: no version in the WHERE
    Exists(i) /\ rows[i].tenant = workload.spec.tenant

(***************************************************************************)
(* store.save: one UPDATE guarded by id, tenant and the version read.  No  *)
(* matching row is a ConcurrencyError, answered 409.                       *)
(***************************************************************************)
Matches(i, workload, version) ==
    /\ Exists(i)
    /\ rows[i].tenant = workload.spec.tenant
    /\ rows[i].version = version

Save(h) ==
    /\ handlers[h].pc = "save"
    /\ LET held == handlers[h] IN
       \/ /\ Matches(held.id, held.workload, held.version)
          /\ rows' = [rows EXCEPT ![held.id] =
                        [@ EXCEPT !.version = held.version + 1,
                                  !.document = held.workload]]
          /\ handlers' = [handlers EXCEPT ![h] = Idle("ok")]
       \/ /\ ~Matches(held.id, held.workload, held.version)
          /\ Refuse(h)  \* 409

(***************************************************************************)
(* The replica dies before the save: what the thread held is gone, the     *)
(* database keeps what was committed.                                      *)
(***************************************************************************)
Crash(h) ==
    /\ handlers[h].pc = "save"
    /\ handlers' = [handlers EXCEPT ![h] = Idle("none")]
    /\ UNCHANGED rows

Next ==
    \E h \in Handlers :
        \/ Save(h)
        \/ Crash(h)
        \/ \E actor \in Actors, i \in Ids :
              \/ \E values \in SpecRequests : CreateWorkload(h, actor, i, values)
              \/ \E req \in GateRequests : BeginRecordGate(h, actor, i, req)
              \/ \E req \in ActionRequests : BeginAdvance(h, actor, i, req)

Spec == Init /\ [][Next]_vars

-----------------------------------------------------------------------------
(***************************************************************************)
(* A workload that got past validation was released under the rules of     *)
(* domain.approve: every required gate passed, the policy allows its spec, *)
(* and the approver is neither its owner nor the evaluator of any of the   *)
(* gate results it was approved on - however gates, approvals and retries  *)
(* of several callers interleaved between read and save.                   *)
(***************************************************************************)
Governed(w) ==
    IF w.stage \in ApprovedStages
    THEN /\ \A g \in REQUIRED_GATES : w.gates[g].status = "pass"
         /\ PolicyAllows(w.spec.values) /\ w.policy_digest
         /\ w.approved_by \in Actors \ (Evaluators(w) \cup {w.spec.values.owner})
    ELSE w.approved_by = NoActor /\ ~w.policy_digest

ReleaseGoverned ==
    \A i \in Ids : Exists(i) => Governed(rows[i].document)

(***************************************************************************)
(* The stored history is a complete audit trail: it starts with the        *)
(* approval of a validated workload, each entry starts where the one       *)
(* before ended, no stage is entered twice, the last entry leads to the    *)
(* present stage, and the approval is in the approver's name.  Lost or     *)
(* duplicated saves would break the chain.                                 *)
(***************************************************************************)
Chained(w) ==
    LET n == Len(w.history) IN
    /\ n = 0 <=> w.stage \in {"draft", "validated"}
    /\ n > 0 => /\ w.history[1] = [from |-> "validated", to |-> "approved",
                                   actor |-> w.approved_by]
                /\ w.history[n].to = w.stage
    /\ \A k \in 1..n : k > 1 => w.history[k].from = w.history[k - 1].to
    /\ \A j, k \in 1..n : w.history[j].to = w.history[k].to => j = k

AuditTrail ==
    \A i \in Ids : Exists(i) => Chained(rows[i].document)

(***************************************************************************)
(* In production every gate result a release rests on carries verified     *)
(* evidence: verify_gate_evidence ran before the result was stored, and no *)
(* later step replaced it by an unsigned one.                              *)
(***************************************************************************)
Signed(w) ==
    Production => \A g \in REQUIRED_GATES :
        w.gates[g].status # "missing" => w.gates[g].signed

SignedEvidence ==
    \A i \in Ids : Exists(i) => Signed(rows[i].document)

(***************************************************************************)
(* What was approved stays as approved: no step changes the gates, the     *)
(* approver or the specification of a workload past validation, takes it   *)
(* back before approval, or rewrites an entry of its history.              *)
(***************************************************************************)
Kept(w, v) ==
    w.stage \in ApprovedStages =>
        /\ v.stage \in ApprovedStages
        /\ v.gates = w.gates
        /\ v.approved_by = w.approved_by
        /\ v.spec = w.spec
        /\ SubSeq(v.history, 1, Len(w.history)) = w.history

ApprovalIsFinal ==
    [][\A i \in Ids : Exists(i) => Kept(rows[i].document, rows'[i].document)]_vars

(***************************************************************************)
(* A copy that could still be saved is not stale: while the row keeps the  *)
(* version a handler read, what the handler holds is exactly what some     *)
(* accepted operation of an authorized subject of the row's tenant makes   *)
(* of the document stored now.  Copies of older versions may hold          *)
(* anything, and Save refuses them.                                        *)
(***************************************************************************)
Committable(row, w) ==
    \E actor \in Actors, req \in Requests :
        /\ row.tenant = TenantOf[actor]
        /\ Authorized(actor, RequiredRole(req))
        /\ Accepts(row.document, req, actor)
        /\ w = Apply(row.document, req, actor)

SavableIsFresh ==
    \A h \in Handlers : handlers[h].pc = "save" =>
        LET held == handlers[h] IN
        /\ held.version <= rows[held.id].version
        /\ held.version = rows[held.id].version =>
                Committable(rows[held.id], held.workload)

(***************************************************************************)
(* The API implements the atomic objects of FactoryLifecycle: a save that  *)
(* succeeds is one accepted operation, by an authorized subject of the     *)
(* row's tenant, on the workload as it is stored at that moment; every     *)
(* other step changes no workload.  A stale writer that overwrote another  *)
(* one's gate or approval would be a step the abstract module lacks.       *)
(***************************************************************************)
Lifecycle == INSTANCE FactoryLifecycle WITH
    workloads <- [i \in Ids |-> IF Exists(i) THEN rows[i].document
                                ELSE [stage |-> "absent"]]

AtomicOperations == Lifecycle!Spec
=============================================================================
