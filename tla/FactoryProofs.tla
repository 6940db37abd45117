--------------------------- MODULE FactoryProofs ---------------------------
(***************************************************************************)
(* Proofs about Factory for every set of gates, subjects, requests,        *)
(* workloads and handlers, and every bound on versions.                    *)
(***************************************************************************)
EXTENDS Factory, TLAPS

(***************************************************************************)
(* What an accepted operation may do to a workload: record a gate before   *)
(* approval, approve, or move on along the lifecycle.                      *)
(***************************************************************************)
Recorded(w, v) ==
    /\ w.stage \in {"draft", "validated"}
    /\ v.stage = "validated"
    /\ v.spec = w.spec
    /\ v.approved_by = w.approved_by
    /\ v.policy_digest = w.policy_digest
    /\ v.history = w.history

Moved(w, v, actor) ==
    /\ v.spec = w.spec
    /\ v.gates = w.gates
    /\ v.history = Append(w.history, [from |-> w.stage, to |-> v.stage,
                                      actor |-> actor])

Approved(w, v, actor) ==
    /\ CanApprove(w, actor)
    /\ Moved(w, v, actor)
    /\ v.stage = "approved"
    /\ v.approved_by = actor
    /\ v.policy_digest = TRUE

(***************************************************************************)
(* The lifecycle only goes forward.                                        *)
(***************************************************************************)
Rank == [draft |-> 0, validated |-> 1, approved |-> 2, provisioned |-> 3,
         released |-> 4, suspended |-> 5, retired |-> 6]

Promoted(w, v, actor) ==
    /\ w.stage \in ApprovedStages
    /\ v.stage \in ApprovedStages
    /\ Rank[w.stage] < Rank[v.stage]
    /\ Moved(w, v, actor)
    /\ v.approved_by = w.approved_by
    /\ v.policy_digest = w.policy_digest

(***************************************************************************)
(* Every accepted operation of the domain (record_gate, approve,           *)
(* provision, release, suspend, retire) returns a workload and is of one   *)
(* of the three shapes.                                                    *)
(***************************************************************************)
LEMMA ApplyShape ==
    ASSUME NEW w \in Workloads, NEW req \in Requests, NEW actor \in Actors,
           Accepts(w, req, actor)
    PROVE  LET v == Apply(w, req, actor) IN
           /\ v \in Workloads
           /\ Recorded(w, v) \/ Approved(w, v, actor) \/ Promoted(w, v, actor)
<1> DEFINE v == Apply(w, req, actor)
<1>1. CASE req.op = "gate"
  <2>1. /\ req.passed \in BOOLEAN
        /\ w.stage \in {"draft", "validated"}
        /\ req.gate \in REQUIRED_GATES
    <3>1. req \in GateRequests
      BY <1>1, ActionRequestsAssumption DEF Requests, Operations
    <3>2. QED  BY <1>1, <3>1, GateRequestsAssumption DEF Accepts, CanRecordGate
  <2>2. v = RecordGate(w, req, actor)  BY <1>1 DEF Apply
  <2> DEFINE r == [status |-> IF req.passed THEN "pass" ELSE "fail",
                   evaluator |-> actor, signed |-> req.signature = "verified"]
  <2>3. r \in GateResults  BY DEF GateResults
  <2> DEFINE gs == [w.gates EXCEPT ![req.gate] = r]
  <2> HIDE DEF r, v
  <2>4. gs \in [REQUIRED_GATES -> GateResults]
    BY <2>1, <2>3 DEF Workloads
  <2>5. v = [w EXCEPT !.gates = gs, !.stage = "validated"]
    BY <2>2 DEF RecordGate, r, Workloads
  <2> HIDE DEF gs
  <2>6. v \in Workloads  BY <2>4, <2>5 DEF Workloads, Stages
  <2>7. Recorded(w, v)  BY <2>1, <2>5 DEF Workloads, Recorded
  <2>8. QED  BY <2>6, <2>7 DEF v
<1>2. CASE req.op # "gate"
  <2>1. CanAdvance(w, req, actor) /\ v = Advance(w, req, actor)
    BY <1>2 DEF Accepts, Apply
  <2>2. ASSUME NEW x \in Workloads, NEW t \in Stages
        PROVE  LET y == Move(x, t, actor) IN
               /\ y \in Workloads
               /\ y.stage = t
               /\ y.spec = x.spec /\ y.gates = x.gates
               /\ y.approved_by = x.approved_by
               /\ y.policy_digest = x.policy_digest
               /\ y.history = Append(x.history, [from |-> x.stage, to |-> t,
                                                 actor |-> actor])
    <3> DEFINE e == [from |-> x.stage, to |-> t, actor |-> actor]
    <3>1. e \in Hops  BY DEF Hops, Workloads
    <3>2. Append(x.history, e) \in Seq(Hops)  BY <3>1 DEF Workloads
    <3> HIDE DEF e
    <3>3. Move(x, t, actor) = [x EXCEPT !.history = Append(x.history, e), !.stage = t]
      BY DEF Move, e, Workloads
    <3>4. QED  BY <3>2, <3>3 DEF Workloads, e
  <2>3. CASE req.op = "approve"
    <3> DEFINE x == [w EXCEPT !.approved_by = actor, !.policy_digest = TRUE]
    <3>1. /\ x \in Workloads
          /\ x.spec = w.spec /\ x.gates = w.gates /\ x.history = w.history
          /\ x.stage = w.stage /\ x.approved_by = actor /\ x.policy_digest = TRUE
      BY DEF Workloads
    <3>2. v = Move(x, "approved", actor)  BY <2>1, <2>3 DEF Advance, Approve
    <3>3. CanApprove(w, actor)  BY <2>1, <2>3 DEF CanAdvance
    <3> HIDE DEF x, v
    <3>4. "approved" \in Stages  BY DEF Stages
    <3>5. /\ v \in Workloads
          /\ v.stage = "approved"
          /\ v.spec = x.spec /\ v.gates = x.gates
          /\ v.approved_by = x.approved_by
          /\ v.policy_digest = x.policy_digest
          /\ v.history = Append(x.history, [from |-> x.stage, to |-> "approved",
                                            actor |-> actor])
      BY <3>1, <3>2, <3>4, <2>2
    <3>6. Approved(w, v, actor)  BY <3>1, <3>3, <3>5 DEF Approved, Moved
    <3>7. QED  BY <3>5, <3>6 DEF v
  <2>4. CASE req.op # "approve"
    <3>1. \E t \in ApprovedStages : /\ w.stage \in ApprovedStages
                                    /\ Rank[w.stage] < Rank[t]
                                    /\ v = Move(w, t, actor)
      BY <2>1, <2>4 DEF CanAdvance, Advance, Target, Rank, ApprovedStages, Stages
    <3>2. PICK t \in ApprovedStages : /\ w.stage \in ApprovedStages
                                      /\ Rank[w.stage] < Rank[t]
                                      /\ v = Move(w, t, actor)
      BY <3>1
    <3>3. t \in Stages  BY DEF ApprovedStages
    <3> HIDE DEF v
    <3>4. /\ v \in Workloads
          /\ v.stage = t
          /\ v.spec = w.spec /\ v.gates = w.gates
          /\ v.approved_by = w.approved_by
          /\ v.policy_digest = w.policy_digest
          /\ v.history = Append(w.history, [from |-> w.stage, to |-> t,
                                            actor |-> actor])
      BY <3>2, <3>3, <2>2
    <3>5. Promoted(w, v, actor)  BY <3>2, <3>4 DEF Promoted, Moved
    <3>6. QED  BY <3>4, <3>5 DEF v
  <2>5. QED  BY <2>3, <2>4
<1>3. QED  BY <1>1, <1>2

-----------------------------------------------------------------------------
(***************************************************************************)
(* The rules of domain.approve survive every accepted operation.           *)
(***************************************************************************)
LEMMA GovernedPreserved ==
    ASSUME NEW w \in Workloads, NEW v \in Workloads, NEW actor \in Actors,
           Governed(w),
           Recorded(w, v) \/ Approved(w, v, actor) \/ Promoted(w, v, actor)
    PROVE  Governed(v)
<1>1. CASE Recorded(w, v)
  BY <1>1 DEF Recorded, Governed, ApprovedStages
<1>2. CASE Approved(w, v, actor)
  <2>1. /\ v.spec = w.spec /\ v.gates = w.gates
        /\ v.stage \in ApprovedStages
        /\ v.approved_by = actor /\ v.policy_digest
    BY <1>2 DEF Approved, Moved, ApprovedStages, Stages
  <2>2. Evaluators(v) = Evaluators(w)  BY <2>1 DEF Evaluators
  <2>3. \A g \in REQUIRED_GATES : w.gates[g].status = "pass"
    BY <1>2 DEF Approved, CanApprove, MissingOrFailedGates
  <2>4. /\ PolicyAllows(w.spec.values)
        /\ actor # w.spec.values.owner
        /\ actor \notin Evaluators(w)
    BY <1>2 DEF Approved, CanApprove
  <2>5. QED  BY <2>1, <2>2, <2>3, <2>4 DEF Governed
<1>3. CASE Promoted(w, v, actor)
  <2>1. /\ v.spec = w.spec /\ v.gates = w.gates
        /\ v.approved_by = w.approved_by /\ v.policy_digest = w.policy_digest
        /\ w.stage \in ApprovedStages /\ v.stage \in ApprovedStages
    BY <1>3 DEF Promoted, Moved
  <2>2. Evaluators(v) = Evaluators(w)  BY <2>1 DEF Evaluators
  <2>3. QED  BY <2>1, <2>2 DEF Governed
<1>4. QED  BY <1>1, <1>2, <1>3

(***************************************************************************)
(* An accepted operation never changes what was approved: the gates, the   *)
(* approver, the specification and the entries of the history stay.        *)
(***************************************************************************)
LEMMA KeptByOperation ==
    ASSUME NEW w \in Workloads, NEW v \in Workloads, NEW actor \in Actors,
           Recorded(w, v) \/ Approved(w, v, actor) \/ Promoted(w, v, actor)
    PROVE  Kept(w, v)
<1>1. CASE Recorded(w, v)
  BY <1>1 DEF Recorded, Kept, ApprovedStages
<1>2. CASE Approved(w, v, actor)
  BY <1>2 DEF Approved, CanApprove, Kept, ApprovedStages
<1>3. CASE Promoted(w, v, actor)
  <2> DEFINE e == [from |-> w.stage, to |-> v.stage, actor |-> actor]
  <2>1. e \in Hops /\ w.history \in Seq(Hops)  BY DEF Hops, Workloads
  <2>2. v.history = Append(w.history, e)  BY <1>3 DEF Promoted, Moved
  <2> HIDE DEF e
  <2>3. SubSeq(v.history, 1, Len(w.history)) = w.history
    BY <2>1, <2>2
  <2>4. QED  BY <1>3, <2>3 DEF Promoted, Moved, Kept
<1>4. QED  BY <1>1, <1>2, <1>3

(***************************************************************************)
(* In production no accepted operation stores an unsigned gate result.     *)
(***************************************************************************)
LEMMA SignedPreserved ==
    ASSUME NEW w \in Workloads, NEW req \in Requests, NEW actor \in Actors,
           Accepts(w, req, actor), Signed(w)
    PROVE  Signed(Apply(w, req, actor))
<1> DEFINE v == Apply(w, req, actor)
<1>1. CASE req.op = "gate"
  <2>1. req.gate \in REQUIRED_GATES /\ (Production => req.signature = "verified")
    BY <1>1 DEF Accepts, EvidenceVerified, CanRecordGate
  <2> DEFINE r == [status |-> IF req.passed THEN "pass" ELSE "fail",
                   evaluator |-> actor, signed |-> req.signature = "verified"]
  <2>2. v.gates = [w.gates EXCEPT ![req.gate] = r]
    BY <1>1 DEF Apply, RecordGate, Workloads
  <2>3. Production => r.signed  BY <2>1
  <2> HIDE DEF r, v
  <2>4. \A g \in REQUIRED_GATES :
           v.gates[g] = IF g = req.gate THEN r ELSE w.gates[g]
    BY <2>1, <2>2 DEF Workloads
  <2>5. Signed(v)  BY <2>3, <2>4 DEF Signed
  <2>6. QED  BY <2>5 DEF v
<1>2. CASE req.op # "gate"
  <2>1. v.gates = w.gates
    BY <1>2 DEF Apply, Advance, Approve, Move, Workloads
  <2>2. QED  BY <2>1 DEF Signed
<1>3. QED  BY <1>1, <1>2

(***************************************************************************)
(* The history never runs ahead of the stage: with it, Chained is          *)
(* preserved by every accepted operation.                                  *)
(***************************************************************************)
NotAhead(w) ==
    \A k \in 1..Len(w.history) : Rank[w.history[k].to] <= Rank[w.stage]

(***************************************************************************)
(* An accepted operation keeps the audit trail of a governed workload      *)
(* chained, and the history behind the stage (domain._move).               *)
(***************************************************************************)
LEMMA ChainedPreserved ==
    ASSUME NEW w \in Workloads, NEW v \in Workloads, NEW actor \in Actors,
           Governed(w), Chained(w), NotAhead(w),
           Recorded(w, v) \/ Approved(w, v, actor) \/ Promoted(w, v, actor)
    PROVE  Chained(v) /\ NotAhead(v)
<1>1. CASE Recorded(w, v)
  <2>1. /\ v.history = w.history /\ Len(w.history) = 0 /\ v.stage = "validated"
    BY <1>1 DEF Recorded, Chained
  <2>2. QED  BY <2>1 DEF Chained, NotAhead
<1>2. CASE ~Recorded(w, v)
  <2> DEFINE e == [from |-> w.stage, to |-> v.stage, actor |-> actor]
             n == Len(w.history)
  <2>1. e \in Hops /\ w.history \in Seq(Hops)  BY DEF Hops, Workloads
  <2>2. /\ v.history = Append(w.history, e)
        /\ Rank[w.stage] < Rank[v.stage]
        /\ v.stage \in ApprovedStages
    BY <1>2 DEF Approved, Promoted, Moved, CanApprove, Rank, ApprovedStages, Stages
  <2>3. /\ Len(v.history) = n + 1
        /\ \A k \in 1..n : v.history[k] = w.history[k]
        /\ v.history[n + 1] = e
        /\ n \in Nat
    BY <2>1, <2>2
  <2>4. n = 0 => /\ w.stage = "validated"
                 /\ v.stage = "approved" /\ v.approved_by = actor
    BY <1>2 DEF Approved, Promoted, CanApprove, Chained, ApprovedStages
  <2>5. n > 0 => w.stage \in ApprovedStages /\ v.approved_by = w.approved_by
    BY <1>2, <2>1 DEF Approved, Promoted, CanApprove, Chained
  <2>6. e.from = w.stage /\ e.to = v.stage /\ e.actor = actor  OBVIOUS
  <2>7. w.stage \in Stages /\ v.stage \in Stages  BY DEF Workloads
  <2>8. \A s \in Stages : Rank[s] \in Nat  BY DEF Stages, Rank
  <2>9. \A k \in 1..n : w.history[k].to \in Stages
    <3>1. \A k \in 1..n : w.history[k] \in Hops  BY <2>1
    <3>2. QED  BY <3>1 DEF Hops
  <2>10. \A k \in 1..n : Rank[w.history[k].to] < Rank[v.stage]
    BY <2>2, <2>7, <2>8, <2>9 DEF NotAhead
  <2>11. NotAhead(v)
    <3> SUFFICES ASSUME NEW k \in 1..(n + 1)
                 PROVE  Rank[v.history[k].to] <= Rank[v.stage]
      BY <2>3 DEF NotAhead
    <3>1. CASE k \in 1..n
      <4>1. Rank[v.history[k].to] < Rank[v.stage]  BY <3>1, <2>3, <2>10
      <4>2. Rank[v.history[k].to] \in Nat /\ Rank[v.stage] \in Nat
        BY <3>1, <2>3, <2>7, <2>8, <2>9
      <4>3. QED  BY <4>1, <4>2
    <3>2. CASE k = n + 1
      <4>1. v.history[k].to = v.stage  BY <3>2, <2>3, <2>6
      <4>2. QED  BY <4>1, <2>7, <2>8
    <3>3. QED  BY <3>1, <3>2, <2>3
  <2>12. n = 0 => v.history[1] = [from |-> "validated", to |-> "approved",
                                  actor |-> v.approved_by]
    BY <2>3, <2>4
  <2>13. n > 0 => v.history[1] = [from |-> "validated", to |-> "approved",
                                  actor |-> v.approved_by]
    BY <2>3, <2>5 DEF Chained
  <2> HIDE DEF e
  <2>14. v.history[n + 1].to = v.stage  BY <2>3, <2>6
  <2>15. \A k \in 1..(n + 1) : k > 1 => v.history[k].from = v.history[k - 1].to
    <3> SUFFICES ASSUME NEW k \in 1..(n + 1), k > 1
                 PROVE  v.history[k].from = v.history[k - 1].to
      OBVIOUS
    <3>1. CASE k <= n
      BY <3>1, <2>3 DEF Chained
    <3>2. CASE k = n + 1
      <4>1. n > 0 /\ n \in 1..n /\ k - 1 = n  BY <3>2, <2>3
      <4>2. w.history[n].to = w.stage  BY <4>1 DEF Chained
      <4>3. QED  BY <3>2, <4>1, <4>2, <2>3, <2>6
    <3>3. QED  BY <3>1, <3>2, <2>3
  <2>16. \A j, k \in 1..(n + 1) : v.history[j].to = v.history[k].to => j = k
    <3> SUFFICES ASSUME NEW j \in 1..(n + 1), NEW k \in 1..(n + 1),
                        v.history[j].to = v.history[k].to
                 PROVE  j = k
      OBVIOUS
    <3>1. CASE j \in 1..n /\ k \in 1..n  BY <3>1, <2>3 DEF Chained
    <3>2. CASE j \in 1..n /\ k = n + 1
      BY <3>2, <2>3, <2>6, <2>7, <2>8, <2>9, <2>10
    <3>3. CASE j = n + 1 /\ k \in 1..n
      BY <3>3, <2>3, <2>6, <2>7, <2>8, <2>9, <2>10
    <3>4. QED  BY <3>1, <3>2, <3>3, <2>3
  <2>17. v.stage \notin {"draft", "validated"}  BY <2>2 DEF ApprovedStages
  <2> DEFINE m == Len(v.history)
  <2>18. Chained(v)
    <3>1. m = n + 1 /\ n \in Nat  BY <2>3
    <3> HIDE DEF n, m
    <3>2. m > 0 /\ ~(m = 0)  BY <3>1
    <3>3. v.history[1] = [from |-> "validated", to |-> "approved",
                          actor |-> v.approved_by]
      BY <2>12, <2>13, <3>1
    <3>4. v.history[m].to = v.stage  BY <3>1, <2>14
    <3>5. \A k \in 1..m : k > 1 => v.history[k].from = v.history[k - 1].to
      BY <3>1, <2>15
    <3>6. \A j, k \in 1..m : v.history[j].to = v.history[k].to => j = k
      BY <3>1, <2>16
    <3>7. QED  BY <3>2, <3>3, <3>4, <3>5, <3>6, <2>17 DEF Chained, m
  <2>19. QED  BY <2>11, <2>18
<1>3. QED  BY <1>1, <1>2

-----------------------------------------------------------------------------
(***************************************************************************)
(* The inductive invariant: the rows are well governed, chained and signed, *)
(* their tenant column agrees with the document, and the copies handlers   *)
(* hold are savable only while they are fresh.                             *)
(***************************************************************************)
GoodRow(r) ==
    /\ r.tenant = r.document.spec.tenant
    /\ Governed(r.document)
    /\ Signed(r.document)
    /\ Chained(r.document)
    /\ NotAhead(r.document)

GoodRows == \A i \in Ids : Exists(i) => GoodRow(rows[i])

IInv == TypeOK /\ GoodRows /\ SavableIsFresh

(***************************************************************************)
(* The two ways a step may change the table: an insert by an authorized    *)
(* administrator, or the commit of one accepted operation on the document  *)
(* as it is stored.                                                        *)
(***************************************************************************)
Inserted(i, actor, values) ==
    /\ ~Exists(i)
    /\ Authorized(actor, "factory-admin")
    /\ ValidSpec(values)
    /\ rows' = [rows EXCEPT ![i] =
                    [tenant |-> TenantOf[actor], version |-> 1,
                     document |-> NewWorkload(values, TenantOf[actor])]]

Committed(i, actor, req) ==
    /\ Exists(i)
    /\ rows[i].tenant = TenantOf[actor]
    /\ Authorized(actor, RequiredRole(req))
    /\ Accepts(rows[i].document, req, actor)
    /\ rows' = [rows EXCEPT ![i] =
                    [rows[i] EXCEPT
                        !.version = rows[i].version + 1,
                        !.document = Apply(rows[i].document, req, actor)]]

RowStep ==
    \/ UNCHANGED rows
    \/ \E i \in Ids, actor \in Actors :
          \/ \E values \in SpecRequests : Inserted(i, actor, values)
          \/ \E req \in Requests : Committed(i, actor, req)

(***************************************************************************)
(* What TypeOK says of a stored row of the workload table.                 *)
(***************************************************************************)
LEMMA RowTypes ==
    ASSUME TypeOK, NEW i \in Ids, Exists(i)
    PROVE  /\ rows[i] \in Rows
           /\ rows[i].document \in Workloads
           /\ rows[i].version \in Nat \ {0}
BY DEF TypeOK, Exists, NoRow, Rows

(***************************************************************************)
(* What TypeOK says of a handler that is about to save.                    *)
(***************************************************************************)
LEMMA HeldTypes ==
    ASSUME TypeOK, NEW h \in Handlers, handlers[h].pc = "save"
    PROVE  /\ handlers[h].id \in Ids
           /\ handlers[h].workload \in Workloads
           /\ handlers[h].version \in Nat \ {0}
BY DEF TypeOK

(***************************************************************************)
(* Whatever Next does, the table changes by a RowStep: the compare-and-set *)
(* of store.save turns a stale copy away, and a fresh one is the result of *)
(* one accepted operation.                                                 *)
(***************************************************************************)
LEMMA NextIsRowStep ==
    ASSUME IInv, [Next]_vars
    PROVE  RowStep
<1>1. CASE UNCHANGED vars  BY <1>1 DEF vars, RowStep
<1>2. ASSUME NEW h \in Handlers, Save(h)
      PROVE  RowStep
  <2> DEFINE i == handlers[h].id
  <2>1. /\ handlers[h].pc = "save" /\ i \in Ids
        /\ handlers[h].workload \in Workloads
        /\ handlers[h].version \in Nat \ {0}
    BY <1>2, HeldTypes DEF IInv, Save
  <2>2. CASE ~Matches(i, handlers[h].workload, handlers[h].version)
    BY <1>2, <2>2 DEF Save, Refuse, RowStep
  <2>3. CASE Matches(i, handlers[h].workload, handlers[h].version)
    <3>1. Exists(i) /\ rows[i].version = handlers[h].version
      BY <2>3 DEF Matches
    <3>2. rows[i] \in Rows  BY <2>1, <3>1, RowTypes DEF IInv
    <3>3. Committable(rows[i], handlers[h].workload)
      BY <2>1, <3>1 DEF IInv, SavableIsFresh
    <3>4. PICK actor \in Actors, req \in Requests :
             /\ rows[i].tenant = TenantOf[actor]
             /\ Authorized(actor, RequiredRole(req))
             /\ Accepts(rows[i].document, req, actor)
             /\ handlers[h].workload = Apply(rows[i].document, req, actor)
      BY <3>3 DEF Committable
    <3>5. rows' = [rows EXCEPT ![i] =
                     [rows[i] EXCEPT !.version = handlers[h].version + 1,
                                     !.document = handlers[h].workload]]
      BY <1>2, <2>1, <2>3 DEF Save, IInv, TypeOK
    <3>6. Committed(i, actor, req)  BY <3>1, <3>4, <3>5 DEF Committed
    <3>7. QED  BY <3>6, <2>1 DEF RowStep
  <2>4. QED  BY <2>2, <2>3
<1>3. ASSUME NEW h \in Handlers, Crash(h)
      PROVE  RowStep
  BY <1>3 DEF Crash, RowStep
<1>4. ASSUME NEW h \in Handlers, NEW actor \in Actors, NEW i \in Ids,
             NEW values \in SpecRequests, CreateWorkload(h, actor, i, values)
      PROVE  RowStep
  BY <1>4 DEF CreateWorkload, Refuse, Inserted, RowStep
<1>5. ASSUME NEW h \in Handlers, NEW actor \in Actors, NEW i \in Ids,
             NEW req \in GateRequests, BeginRecordGate(h, actor, i, req)
      PROVE  RowStep
  BY <1>5 DEF BeginRecordGate, Turned, Refuse, Hold, RowStep
<1>6. ASSUME NEW h \in Handlers, NEW actor \in Actors, NEW i \in Ids,
             NEW req \in ActionRequests, BeginAdvance(h, actor, i, req)
      PROVE  RowStep
  BY <1>6 DEF BeginAdvance, Turned, Refuse, Hold, RowStep
<1>7. QED  BY <1>1, <1>2, <1>3, <1>4, <1>5, <1>6 DEF Next

(***************************************************************************)
(* What a step does to a handler: nothing, answer its request, or make it  *)
(* hold a fresh copy of a row that the step leaves alone.                  *)
(***************************************************************************)
IdleHandlers == [pc : {"idle"}, reply : Replies]
SavingHandlers == [pc : {"save"}, id : Ids, workload : Workloads,
                   version : Nat \ {0}]

Fetched(h, i, w) ==
    /\ UNCHANGED rows
    /\ Exists(i)
    /\ w \in Workloads
    /\ Committable(rows[i], w)
    /\ handlers'[h] = Saving(i, w, rows[i].version)

HandlerStep(h) ==
    \/ handlers'[h] = handlers[h]
    \/ handlers'[h] \in IdleHandlers
    \/ \E i \in Ids : \E w \in Workloads : Fetched(h, i, w)

(***************************************************************************)
(* A handler that has answered is idle, whatever the reply.                *)
(***************************************************************************)
LEMMA IdleTypes == \A r \in Replies : Idle(r) \in IdleHandlers
BY DEF Idle, IdleHandlers

(***************************************************************************)
(* Whatever Next does, a handler stays as it is, ends its request, or      *)
(* comes to hold what an accepted operation makes of the row it has just   *)
(* read (api.record_gate, api.advance).                                    *)
(***************************************************************************)
LEMMA NextIsHandlerStep ==
    ASSUME IInv, [Next]_vars
    PROVE  /\ handlers' \in [Handlers -> IdleHandlers \cup SavingHandlers]
           /\ \A h \in Handlers : HandlerStep(h)
<1> DEFINE HH == IdleHandlers \cup SavingHandlers
<1>0. handlers \in [Handlers -> HH]
  BY DEF IInv, TypeOK, IdleHandlers, SavingHandlers
<1>1. CASE UNCHANGED vars  BY <1>0, <1>1 DEF vars, HandlerStep
<1>2. ASSUME NEW h \in Handlers, NEW r \in Replies,
             handlers' = [handlers EXCEPT ![h] = Idle(r)]
      PROVE  handlers' \in [Handlers -> HH] /\ \A k \in Handlers : HandlerStep(k)
  <2>1. Idle(r) \in IdleHandlers  BY IdleTypes
  <2>2. handlers' \in [Handlers -> HH]  BY <1>0, <1>2, <2>1
  <2>3. \A k \in Handlers : handlers'[k] = IF k = h THEN Idle(r) ELSE handlers[k]
    BY <1>0, <1>2
  <2>4. QED  BY <2>1, <2>2, <2>3 DEF HandlerStep
<1>3. \A r \in {"none", "ok", "refused"} : r \in Replies  BY DEF Replies
<1>4. ASSUME NEW h \in Handlers, Refuse(h)
      PROVE  handlers' \in [Handlers -> HH] /\ \A k \in Handlers : HandlerStep(k)
  BY <1>2, <1>3, <1>4 DEF Refuse
<1>5. ASSUME NEW h \in Handlers, NEW actor \in Actors, NEW i \in Ids,
             NEW req \in Requests, Admitted(actor, i, req),
             Accepts(rows[i].document, req, actor),
             Hold(h, i, Apply(rows[i].document, req, actor))
      PROVE  handlers' \in [Handlers -> HH] /\ \A k \in Handlers : HandlerStep(k)
  <2> DEFINE w == Apply(rows[i].document, req, actor)
             s == Saving(i, w, rows[i].version)
  <2>1. Exists(i) /\ rows[i].tenant = TenantOf[actor]
        /\ Authorized(actor, RequiredRole(req))
    BY <1>5 DEF Admitted, Found
  <2>2. rows[i].document \in Workloads /\ rows[i].version \in Nat \ {0}
    BY <2>1, RowTypes DEF IInv
  <2>3. w \in Workloads  BY <1>5, <2>2, ApplyShape
  <2>4. Committable(rows[i], w)  BY <1>5, <2>1 DEF Committable
  <2>5. s \in SavingHandlers  BY <2>2, <2>3 DEF Saving, SavingHandlers
  <2>6. handlers' = [handlers EXCEPT ![h] = s] /\ UNCHANGED rows
    BY <1>5 DEF Hold
  <2> HIDE DEF s, w
  <2>7. handlers' \in [Handlers -> HH]  BY <1>0, <2>5, <2>6
  <2>8. \A k \in Handlers : handlers'[k] = IF k = h THEN s ELSE handlers[k]
    BY <1>0, <2>6
  <2>9. Fetched(h, i, w)  BY <2>1, <2>3, <2>4, <2>6, <2>8 DEF Fetched, s
  <2>10. QED  BY <2>3, <2>7, <2>8, <2>9 DEF HandlerStep
<1>6. ASSUME NEW h \in Handlers, Save(h)
      PROVE  handlers' \in [Handlers -> HH] /\ \A k \in Handlers : HandlerStep(k)
  BY <1>2, <1>3, <1>4, <1>6 DEF Save
<1>7. ASSUME NEW h \in Handlers, Crash(h)
      PROVE  handlers' \in [Handlers -> HH] /\ \A k \in Handlers : HandlerStep(k)
  BY <1>2, <1>3, <1>7 DEF Crash
<1>8. ASSUME NEW h \in Handlers, NEW actor \in Actors, NEW i \in Ids,
             NEW values \in SpecRequests, CreateWorkload(h, actor, i, values)
      PROVE  handlers' \in [Handlers -> HH] /\ \A k \in Handlers : HandlerStep(k)
  BY <1>2, <1>3, <1>4, <1>8 DEF CreateWorkload
<1>9. ASSUME NEW h \in Handlers, NEW actor \in Actors, NEW i \in Ids,
             NEW req \in GateRequests, BeginRecordGate(h, actor, i, req)
      PROVE  handlers' \in [Handlers -> HH] /\ \A k \in Handlers : HandlerStep(k)
  <2>1. req \in Requests /\ req.op = "gate"
    BY GateRequestsAssumption DEF Requests
  <2>2. CASE Refuse(h)  BY <2>2, <1>4
  <2>3. CASE /\ Admitted(actor, i, req)
             /\ req.statement /\ EvidenceVerified(req)
             /\ CanRecordGate(rows[i].document, req)
             /\ Hold(h, i, RecordGate(rows[i].document, req, actor))
    BY <2>1, <2>3, <1>5 DEF Accepts, Apply
  <2>4. QED  BY <1>9, <2>2, <2>3 DEF BeginRecordGate, Turned
<1>10. ASSUME NEW h \in Handlers, NEW actor \in Actors, NEW i \in Ids,
              NEW req \in ActionRequests, BeginAdvance(h, actor, i, req)
       PROVE  handlers' \in [Handlers -> HH] /\ \A k \in Handlers : HandlerStep(k)
  <2>1. req \in Requests /\ req.op # "gate"
    BY ActionRequestsAssumption DEF Requests, Operations
  <2>2. CASE Refuse(h)  BY <2>2, <1>4
  <2>3. CASE /\ Admitted(actor, i, req)
             /\ CanAdvance(rows[i].document, req, actor)
             /\ Hold(h, i, Advance(rows[i].document, req, actor))
    BY <2>1, <2>3, <1>5 DEF Accepts, Apply
  <2>4. QED  BY <1>10, <2>2, <2>3 DEF BeginAdvance, Turned
<1>11. QED  BY <1>1, <1>6, <1>7, <1>8, <1>9, <1>10 DEF Next

-----------------------------------------------------------------------------
(***************************************************************************)
(* A freshly created workload satisfies every clause of GoodRow.           *)
(***************************************************************************)
LEMMA NewIsGood ==
    ASSUME NEW values \in SpecRequests, NEW actor \in Actors
    PROVE  LET w == NewWorkload(values, TenantOf[actor]) IN
           /\ w \in Workloads /\ w.spec.tenant = TenantOf[actor]
           /\ Governed(w) /\ Signed(w) /\ Chained(w) /\ NotAhead(w)
<1> DEFINE w == NewWorkload(values, TenantOf[actor])
<1>1. MissingGate \in GateResults  BY DEF MissingGate, GateResults
<1>2. << >> \in Seq(Hops)  OBVIOUS
<1>3. w \in Workloads
  BY <1>1, <1>2 DEF NewWorkload, Workloads, FactorySpecs, Tenants, Stages
<1>4. /\ w.stage = "draft" /\ w.approved_by = NoActor /\ w.policy_digest = FALSE
      /\ w.history = << >> /\ w.spec.tenant = TenantOf[actor]
      /\ \A g \in REQUIRED_GATES : w.gates[g].status = "missing"
  BY DEF NewWorkload, MissingGate
<1> HIDE DEF w
<1>5. Governed(w)  BY <1>4 DEF Governed, ApprovedStages
<1>6. Signed(w)  BY <1>4 DEF Signed
<1>7. Len(w.history) = 0  BY <1>4
<1>8. Chained(w) /\ NotAhead(w)  BY <1>4, <1>7 DEF Chained, NotAhead
<1>9. QED  BY <1>3, <1>4, <1>5, <1>6, <1>8 DEF w

(***************************************************************************)
(* A RowStep keeps the table well typed and every stored workload          *)
(* governed, chained and signed: a new row is, and an accepted operation   *)
(* keeps it so.                                                            *)
(***************************************************************************)
LEMMA RowStepPreserves ==
    ASSUME TypeOK, GoodRows, RowStep
    PROVE  rows' \in [Ids -> Rows \cup {NoRow}] /\ GoodRows'
<1>0. rows \in [Ids -> Rows \cup {NoRow}]  BY DEF TypeOK
<1>1. CASE UNCHANGED rows
  BY <1>0, <1>1 DEF GoodRows, Exists
<1>2. ASSUME NEW i \in Ids, NEW new \in Rows, GoodRow(new),
             rows' = [rows EXCEPT ![i] = new]
      PROVE  rows' \in [Ids -> Rows \cup {NoRow}] /\ GoodRows'
  <2>1. rows' \in [Ids -> Rows \cup {NoRow}]  BY <1>0, <1>2
  <2>2. \A k \in Ids : rows'[k] = IF k = i THEN new ELSE rows[k]
    BY <1>0, <1>2
  <2>3. GoodRows'
    <3> SUFFICES ASSUME NEW k \in Ids, Exists(k)'
                 PROVE  GoodRow(rows'[k])
      BY DEF GoodRows
    <3>1. CASE k = i  BY <3>1, <1>2, <2>2
    <3>2. CASE k # i
      <4>1. rows'[k] = rows[k]  BY <3>2, <2>2
      <4>2. Exists(k)  BY <4>1 DEF Exists
      <4>3. QED  BY <4>1, <4>2 DEF GoodRows
    <3>3. QED  BY <3>1, <3>2
  <2>4. QED  BY <2>1, <2>3
<1>3. ASSUME NEW i \in Ids, NEW actor \in Actors, NEW values \in SpecRequests,
             Inserted(i, actor, values)
      PROVE  rows' \in [Ids -> Rows \cup {NoRow}] /\ GoodRows'
  <2> DEFINE w == NewWorkload(values, TenantOf[actor])
             new == [tenant |-> TenantOf[actor], version |-> 1, document |-> w]
  <2>1. /\ w \in Workloads /\ w.spec.tenant = TenantOf[actor]
        /\ Governed(w) /\ Signed(w) /\ Chained(w) /\ NotAhead(w)
    BY NewIsGood
  <2>2. rows' = [rows EXCEPT ![i] = new]  BY <1>3 DEF Inserted
  <2> HIDE DEF w
  <2>3. new \in Rows /\ GoodRow(new)  BY <2>1 DEF Rows, GoodRow, Tenants
  <2> HIDE DEF new
  <2>4. QED  BY <1>2, <2>2, <2>3
<1>4. ASSUME NEW i \in Ids, NEW actor \in Actors, NEW req \in Requests,
             Committed(i, actor, req)
      PROVE  rows' \in [Ids -> Rows \cup {NoRow}] /\ GoodRows'
  <2> DEFINE d == rows[i].document
             w == Apply(d, req, actor)
             new == [rows[i] EXCEPT !.version = rows[i].version + 1, !.document = w]
  <2>1. Exists(i) /\ Accepts(d, req, actor) /\ rows' = [rows EXCEPT ![i] = new]
    BY <1>4 DEF Committed
  <2>2. rows[i] \in Rows /\ d \in Workloads /\ GoodRow(rows[i])
    BY <2>1, RowTypes DEF GoodRows
  <2>3. w \in Workloads /\
        (Recorded(d, w) \/ Approved(d, w, actor) \/ Promoted(d, w, actor))
    BY <2>1, <2>2, ApplyShape
  <2>4. Signed(w)  BY <2>1, <2>2, SignedPreserved DEF GoodRow
  <2>5. w.spec = d.spec
    BY <2>3 DEF Recorded, Approved, Promoted, Moved
  <2> HIDE DEF w, d
  <2>6. Governed(d) /\ Chained(d) /\ NotAhead(d) /\ rows[i].tenant = d.spec.tenant
    BY <2>2 DEF GoodRow, d
  <2>7. Governed(w)  BY <2>2, <2>3, <2>6, GovernedPreserved
  <2>8. Chained(w) /\ NotAhead(w)  BY <2>2, <2>3, <2>6, ChainedPreserved
  <2>9. new \in Rows /\ new.tenant = rows[i].tenant /\ new.document = w
    <3>1. rows[i].version + 1 \in Nat \ {0}  BY <2>2 DEF Rows
    <3>2. QED  BY <2>2, <2>3, <3>1 DEF Rows
  <2>10. GoodRow(new)  BY <2>4, <2>5, <2>6, <2>7, <2>8, <2>9 DEF GoodRow
  <2> HIDE DEF new
  <2>11. QED  BY <1>2, <2>1, <2>9, <2>10
<1>5. QED  BY <1>1, <1>3, <1>4 DEF RowStep

(***************************************************************************)
(* A commit makes every other copy of the row stale, so what is savable    *)
(* stays fresh.                                                            *)
(***************************************************************************)
LEMMA FreshPreserved ==
    ASSUME IInv, RowStep, \A h \in Handlers : HandlerStep(h)
    PROVE  SavableIsFresh'
<1> SUFFICES ASSUME NEW h \in Handlers, handlers'[h].pc = "save"
             PROVE  /\ handlers'[h].version <= rows'[handlers'[h].id].version
                    /\ handlers'[h].version = rows'[handlers'[h].id].version =>
                         Committable(rows'[handlers'[h].id], handlers'[h].workload)
  BY DEF SavableIsFresh
<1>0. TypeOK  BY DEF IInv
<1>1. CASE handlers'[h] = handlers[h]
  <2> DEFINE i == handlers[h].id
             u == handlers[h].version
  <2>1. handlers[h].pc = "save" /\ i \in Ids /\ u \in Nat \ {0}
    BY <1>0, <1>1, HeldTypes
  <2>2. u <= rows[i].version
        /\ (u = rows[i].version => Committable(rows[i], handlers[h].workload))
    BY <2>1 DEF IInv, SavableIsFresh
  <2>3. rows[i].version \in Nat
    BY <1>0, <2>1 DEF TypeOK, Rows, NoRow
  <2>4. Exists(i)  BY <2>1, <2>2, <2>3 DEF Exists
  <2>5. CASE rows'[i] = rows[i]
    BY <1>1, <2>2, <2>5
  <2>6. CASE rows'[i] # rows[i]
    <3>1. PICK k \in Ids, actor \in Actors, req \in Requests :
             Committed(k, actor, req)
      <4>1. ~ UNCHANGED rows  BY <2>6
      <4>2. ASSUME NEW k \in Ids, NEW actor \in Actors,
                   NEW values \in SpecRequests, Inserted(k, actor, values)
            PROVE  FALSE
        BY <1>0, <2>1, <2>4, <2>6, <4>2 DEF Inserted, TypeOK
      <4>3. QED  BY <4>1, <4>2 DEF RowStep
    <3>2. k = i  BY <1>0, <2>1, <2>6, <3>1 DEF Committed, TypeOK
    <3>3. rows[i] \in Rows  BY <1>0, <2>1, <2>4, RowTypes
    <3>4. rows'[i].version = rows[i].version + 1
      BY <1>0, <2>1, <3>1, <3>2, <3>3 DEF Committed, TypeOK, Rows
    <3>5. QED  BY <1>1, <2>1, <2>2, <2>3, <3>4
  <2>7. QED  BY <2>5, <2>6
<1>2. CASE handlers'[h] \in IdleHandlers
  BY <1>2 DEF IdleHandlers
<1>3. CASE \E i \in Ids : \E w \in Workloads : Fetched(h, i, w)
  <2>1. PICK i \in Ids, w \in Workloads : Fetched(h, i, w)  BY <1>3
  <2>2. /\ handlers'[h].id = i /\ handlers'[h].workload = w
        /\ handlers'[h].version = rows[i].version
        /\ rows' = rows /\ Committable(rows[i], w) /\ Exists(i)
    BY <2>1 DEF Fetched, Saving
  <2>3. rows[i].version \in Nat \ {0}  BY <1>0, <2>2, RowTypes
  <2>4. QED  BY <2>2, <2>3
<1>4. QED  BY <1>1, <1>2, <1>3 DEF HandlerStep

-----------------------------------------------------------------------------
(***************************************************************************)
(* The inductive invariant holds in every reachable state of the API and   *)
(* its store.                                                              *)
(***************************************************************************)
THEOREM Invariance == Spec => []IInv
<1>1. Init => IInv
  <2> SUFFICES ASSUME Init PROVE IInv  OBVIOUS
  <2>1. TypeOK
    <3>1. Idle("none") \in IdleHandlers  BY IdleTypes DEF Replies
    <3>2. QED  BY <3>1 DEF Init, TypeOK, IdleHandlers
  <2>2. GoodRows  BY DEF Init, GoodRows, Exists, NoRow
  <2>3. SavableIsFresh  BY DEF Init, SavableIsFresh, Idle
  <2>4. QED  BY <2>1, <2>2, <2>3 DEF IInv
<1>2. IInv /\ [Next]_vars => IInv'
  <2> SUFFICES ASSUME IInv, [Next]_vars PROVE IInv'  OBVIOUS
  <2>1. RowStep  BY NextIsRowStep
  <2>2. /\ handlers' \in [Handlers -> IdleHandlers \cup SavingHandlers]
        /\ \A h \in Handlers : HandlerStep(h)
    BY NextIsHandlerStep
  <2>3. rows' \in [Ids -> Rows \cup {NoRow}] /\ GoodRows'
    BY <2>1, RowStepPreserves DEF IInv
  <2>4. TypeOK'  BY <2>2, <2>3 DEF TypeOK, IdleHandlers, SavingHandlers
  <2>5. SavableIsFresh'  BY <2>1, <2>2, FreshPreserved
  <2>6. QED  BY <2>3, <2>4, <2>5 DEF IInv
<1>3. QED  BY <1>1, <1>2, PTL DEF Spec

(***************************************************************************)
(* Rows and handlers keep their types.                                     *)
(***************************************************************************)
THEOREM TypeCorrect == Spec => []TypeOK
<1>1. IInv => TypeOK  BY DEF IInv
<1>2. QED  BY <1>1, Invariance, PTL

(***************************************************************************)
(* Nothing is approved, provisioned, released, suspended or retired        *)
(* without passing gates, a policy that allows it and an approver who is   *)
(* neither owner nor evaluator (domain.approve under any interleaving of   *)
(* API handlers).                                                          *)
(***************************************************************************)
THEOREM ReleasesGoverned == Spec => []ReleaseGoverned
<1>1. IInv => ReleaseGoverned
  BY DEF IInv, GoodRows, GoodRow, ReleaseGoverned
<1>2. QED  BY <1>1, Invariance, PTL

(***************************************************************************)
(* The stored history is a gapless audit trail (domain._move).             *)
(***************************************************************************)
THEOREM TrailComplete == Spec => []AuditTrail
<1>1. IInv => AuditTrail  BY DEF IInv, GoodRows, GoodRow, AuditTrail
<1>2. QED  BY <1>1, Invariance, PTL

(***************************************************************************)
(* In production every stored gate result carries verified evidence.       *)
(***************************************************************************)
THEOREM EvidenceSigned == Spec => []SignedEvidence
<1>1. IInv => SignedEvidence  BY DEF IInv, GoodRows, GoodRow, SignedEvidence
<1>2. QED  BY <1>1, Invariance, PTL

(***************************************************************************)
(* A handler's copy can be saved only while it is what one accepted        *)
(* operation makes of the stored document (store.save's version check).    *)
(***************************************************************************)
THEOREM SavesAreFresh == Spec => []SavableIsFresh
<1>1. IInv => SavableIsFresh  BY DEF IInv
<1>2. QED  BY <1>1, Invariance, PTL

(***************************************************************************)
(* No step of any handler changes the gates, approver, specification or    *)
(* history entries of an approved workload.                                *)
(***************************************************************************)
THEOREM ApprovalsFinal == Spec => ApprovalIsFinal
<1>1. IInv /\ [Next]_vars =>
        [\A i \in Ids : Exists(i) => Kept(rows[i].document, rows'[i].document)]_vars
  <2> SUFFICES ASSUME IInv, [Next]_vars, NEW i \in Ids, Exists(i)
               PROVE  Kept(rows[i].document, rows'[i].document)
    OBVIOUS
  <2> DEFINE d == rows[i].document
  <2>0. TypeOK /\ d \in Workloads /\ rows[i] \in Rows
    BY RowTypes DEF IInv
  <2>1. RowStep  BY NextIsRowStep
  <2>2. CASE rows'[i] = rows[i]
    <3>1. d.history \in Seq(Hops)  BY <2>0 DEF Workloads
    <3>2. SubSeq(d.history, 1, Len(d.history)) = d.history  BY <3>1
    <3>3. QED  BY <2>2, <3>2 DEF Kept
  <2>3. CASE rows'[i] # rows[i]
    <3>1. PICK k \in Ids, actor \in Actors, req \in Requests :
             Committed(k, actor, req)
      <4>1. ~ UNCHANGED rows  BY <2>3
      <4>2. ASSUME NEW k \in Ids, NEW actor \in Actors,
                   NEW values \in SpecRequests, Inserted(k, actor, values)
            PROVE  FALSE
        BY <2>0, <2>3, <4>2 DEF Inserted, TypeOK
      <4>3. QED  BY <2>1, <4>1, <4>2 DEF RowStep
    <3>2. k = i  BY <2>0, <2>3, <3>1 DEF Committed, TypeOK
    <3>3. Accepts(d, req, actor)  BY <3>1, <3>2 DEF Committed
    <3> DEFINE w == Apply(d, req, actor)
    <3>4. rows'[i].document = w
      BY <2>0, <3>1, <3>2 DEF Committed, TypeOK, Rows
    <3>5. /\ w \in Workloads
          /\ Recorded(d, w) \/ Approved(d, w, actor) \/ Promoted(d, w, actor)
      BY <2>0, <3>3, ApplyShape
    <3> HIDE DEF w, d
    <3>6. Kept(d, w)  BY <2>0, <3>5, KeptByOperation
    <3>7. QED  BY <3>4, <3>6 DEF d
  <2>4. QED  BY <2>2, <2>3
<1>2. QED  BY <1>1, Invariance, PTL DEF Spec, ApprovalIsFinal

(***************************************************************************)
(* The abstract module reads the domain's operators as Factory does.       *)
(***************************************************************************)
LEMMA SameDomain ==
    ASSUME NEW w, NEW req, NEW actor, NEW values, NEW t
    PROVE  /\ Lifecycle!NewWorkload(values, t) = NewWorkload(values, t)
           /\ Lifecycle!ValidSpec(values) <=> ValidSpec(values)
           /\ Lifecycle!Authorized(actor, t) <=> Authorized(actor, t)
           /\ Lifecycle!RequiredRole(req) = RequiredRole(req)
           /\ Lifecycle!Accepts(w, req, actor) <=> Accepts(w, req, actor)
           /\ Lifecycle!Apply(w, req, actor) = Apply(w, req, actor)
           /\ Lifecycle!Requests = Requests
<1>1. Lifecycle!NewWorkload(values, t) = NewWorkload(values, t)
  BY DEF Lifecycle!NewWorkload, NewWorkload, Lifecycle!MissingGate, MissingGate
<1>2. Lifecycle!ValidSpec(values) <=> ValidSpec(values)
  BY DEF Lifecycle!ValidSpec, ValidSpec, Lifecycle!ValidSLO, ValidSLO
<1>3. Lifecycle!Authorized(actor, t) <=> Authorized(actor, t)
  BY DEF Lifecycle!Authorized, Authorized
<1>4. Lifecycle!RequiredRole(req) = RequiredRole(req)
  BY DEF Lifecycle!RequiredRole, RequiredRole
<1>5. Lifecycle!CanApprove(w, actor) <=> CanApprove(w, actor)
  <2>1. Lifecycle!PolicyAllows(w.spec.values) <=> PolicyAllows(w.spec.values)
    BY DEF Lifecycle!PolicyAllows, PolicyAllows
  <2>2. Lifecycle!MissingOrFailedGates(w) = MissingOrFailedGates(w)
    BY DEF Lifecycle!MissingOrFailedGates, MissingOrFailedGates
  <2>3. Lifecycle!Evaluators(w) = Evaluators(w)
    BY DEF Lifecycle!Evaluators, Evaluators
  <2>4. QED  BY <2>1, <2>2, <2>3 DEF Lifecycle!CanApprove, CanApprove
<1>6. Lifecycle!CanAdvance(w, req, actor) <=> CanAdvance(w, req, actor)
  BY <1>5 DEF Lifecycle!CanAdvance, CanAdvance
<1>7. Lifecycle!Accepts(w, req, actor) <=> Accepts(w, req, actor)
  BY <1>6 DEF Lifecycle!Accepts, Accepts, Lifecycle!EvidenceVerified,
              EvidenceVerified, Lifecycle!CanRecordGate, CanRecordGate
<1>8. Lifecycle!Apply(w, req, actor) = Apply(w, req, actor)
  BY Zenon DEF Lifecycle!Apply, Apply, Lifecycle!RecordGate, RecordGate, Lifecycle!Advance,
         Advance, Lifecycle!Approve, Approve, Lifecycle!Move, Move,
         Lifecycle!Target, Target
<1>9. Lifecycle!Requests = Requests  BY DEF Lifecycle!Requests, Requests
<1>10. QED  BY <1>1, <1>2, <1>3, <1>4, <1>7, <1>8, <1>9

(***************************************************************************)
(* The handlers over the versioned store implement atomic workloads:       *)
(* concurrent requests have the effect of accepted operations performed    *)
(* one at a time, each by an authorized subject of the workload's tenant.  *)
(***************************************************************************)
THEOREM Refinement == Spec => AtomicOperations
<1> DEFINE Absent == [stage |-> "absent"]
           WL == [i \in Ids |-> IF Exists(i) THEN rows[i].document ELSE Absent]
<1>1. Init => Lifecycle!Init
  BY DEF Init, Exists, NoRow, Lifecycle!Init, Lifecycle!NoWorkload
<1>2. IInv /\ [Next]_vars => [Lifecycle!Next]_WL
  <2> SUFFICES ASSUME IInv, [Next]_vars PROVE [Lifecycle!Next]_WL  OBVIOUS
  <2>0. TypeOK  BY DEF IInv
  <2>1. RowStep  BY NextIsRowStep
  <2>2. CASE UNCHANGED rows  BY <2>2 DEF Exists
  <2>3. ASSUME NEW i \in Ids, NEW actor \in Actors, NEW values \in SpecRequests,
               Inserted(i, actor, values)
        PROVE  Lifecycle!Next
    <3> DEFINE new == NewWorkload(values, TenantOf[actor])
    <3>1. WL[i] = Absent  BY <2>3 DEF Inserted
    <3>2. \A k \in Ids : /\ k = i => Exists(k)' /\ rows'[k].document = new
                         /\ k # i => rows'[k] = rows[k]
      BY <2>0, <2>3 DEF Inserted, TypeOK, Exists
    <3>3. WL' = [WL EXCEPT ![i] = new]
      BY <3>2 DEF Exists
    <3>4. Lifecycle!Create(i, actor, values)
      BY <2>3, <3>1, <3>3, SameDomain
      DEF Inserted, Lifecycle!Create, Lifecycle!NoWorkload
    <3>5. QED  BY <3>4 DEF Lifecycle!Next
  <2>4. ASSUME NEW i \in Ids, NEW actor \in Actors, NEW req \in Requests,
               Committed(i, actor, req)
        PROVE  Lifecycle!Next
    <3> DEFINE d == rows[i].document
               new == Apply(d, req, actor)
    <3>1. Exists(i) /\ rows[i] \in Rows /\ d \in Workloads
      BY <2>0, <2>4, RowTypes DEF Committed
    <3>2. WL[i] = d  BY <3>1
    <3>3. d # Absent  BY <3>1 DEF Workloads, Stages
    <3>4. \A k \in Ids : /\ k = i => Exists(k)' /\ rows'[k].document = new
                         /\ k # i => rows'[k] = rows[k]
      BY <2>0, <2>4, <3>1 DEF Committed, TypeOK, Exists, Rows
    <3>5. WL' = [WL EXCEPT ![i] = new]
      BY <3>4 DEF Exists
    <3>6. d.spec.tenant = TenantOf[actor]
      BY <2>4, <3>1 DEF Committed, IInv, GoodRows, GoodRow
    <3>7. Lifecycle!Perform(i, actor, req)
      <4>1. /\ Lifecycle!Authorized(actor, Lifecycle!RequiredRole(req))
            /\ Lifecycle!Accepts(d, req, actor)
        BY <2>4, SameDomain DEF Committed
      <4>2. Lifecycle!Apply(d, req, actor) = new  BY SameDomain
      <4> HIDE DEF new, d
      <4>3. QED  BY <3>2, <3>3, <3>5, <3>6, <4>1, <4>2
                 DEF Lifecycle!Perform, Lifecycle!NoWorkload
    <3>8. QED  BY <3>7, SameDomain DEF Lifecycle!Next
  <2>5. QED  BY <2>1, <2>2, <2>3, <2>4 DEF RowStep
<1>3. QED  BY <1>1, <1>2, Invariance, PTL DEF Spec, AtomicOperations, Lifecycle!Spec
=============================================================================
