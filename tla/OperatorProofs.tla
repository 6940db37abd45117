--------------------------- MODULE OperatorProofs ---------------------------
(***************************************************************************)
(* Proofs about the Go control plane, for any resources, kinds, names and  *)
(* specs: what runs was approved, and a status was earned.                 *)
(***************************************************************************)
EXTENDS Operator, TLAPS

Governed(spec) ==
    /\ spec.approved /\ spec.resources = "good" /\ spec.image \in Digests
    /\ spec.replicas \in ReplicaCounts /\ spec.port \in Ports

(***************************************************************************)
(* Objects in the API server: their pods run images that were pinned, and  *)
(* the spec last sent was governed.                                        *)
(***************************************************************************)
ObjectFields == {"owner", "spec", "generation", "observed", "up", "image", "failed"}

GoodObject(object) ==
    /\ object # Absent /\ DOMAIN object = ObjectFields
    /\ "image" \in DOMAIN object.spec /\ object.spec.image \in Digests
    /\ object.image \in Digests \cup {NoImage}

StoreInv ==
    /\ DOMAIN store = Keys /\ DOMAIN applied = Keys
    /\ \A k \in Keys : store[k] # Absent => GoodObject(store[k]) /\ Governed(applied[k])

(***************************************************************************)
(* Resources carry the numbers of the edits that made them, and so does    *)
(* what a reconciliation has seen of them.                                 *)
(***************************************************************************)
GoodResource(r, resource, e) ==
    /\ resource # Absent /\ DOMAIN resource = {"raw", "uid", "generation", "status"}
    /\ resource.raw \in RawSpecs[r]
    /\ resource.uid \in 1 .. e /\ resource.generation \in 1 .. e
    /\ resource.status.observed \in 0 .. e

GoodWork(r, w, e) ==
    w # Idle =>
        /\ GoodResource(r, w.seen, e)
        /\ \/ /\ w.pc \in {"workload", "service", "observe"} /\ DOMAIN w = {"pc", "seen"}
              /\ Validate(Parse(w.seen.raw)) = {}
           \/ /\ w.pc = "status" /\ w.status.observed = w.seen.generation
        /\ w.pc = "service" => KindOf[r] # "EvaluationRun"

Positive == {"Ready", "Progressing"}

(***************************************************************************)
(* A resource claims something of a Deployment by its status; a            *)
(* reconciliation has sent one when it is past that step.  Either is       *)
(* backed by the Deployment while the incarnation it is about exists: no   *)
(* other resource can take it and the garbage collector leaves it alone.   *)
(***************************************************************************)
Claims(r) ==
    /\ resources[r] # Absent
    /\ resources[r].status.observed = resources[r].generation
    /\ resources[r].status.phase \in Positive

Sent(r) ==
    /\ work[r] # Idle /\ KindOf[r] # "EvaluationRun"
    /\ \/ work[r].pc \in {"service", "observe"}
       \/ work[r].pc = "status" /\ work[r].status.phase \in Positive
    /\ resources[r] # Absent /\ resources[r].uid = work[r].seen.uid

Backed(r, x) ==
    LET k == Workload(r) IN
    store[k] # Absent /\ store[k].owner = Owner(r, x) /\ applied[k] = Parse(x.raw)

ResourceInv(r) ==
    /\ resources[r] # Absent => GoodResource(r, resources[r], edits)
    /\ GoodWork(r, work[r], edits)
    /\ work[r] # Idle /\ work[r].pc = "status" /\ work[r].status.phase \in Positive =>
          KindOf[r] # "EvaluationRun"
    /\ Claims(r) => /\ KindOf[r] # "EvaluationRun"
                    /\ Backed(r, resources[r])
                    /\ work[r] # Idle => work[r].seen = resources[r]
    /\ Sent(r) => Backed(r, work[r].seen)

OperatorInv ==
    /\ StoreInv
    /\ edits \in Nat /\ DOMAIN resources = Resources /\ DOMAIN work = Resources
    /\ \A r \in Resources : ResourceInv(r)

-----------------------------------------------------------------------------
\* Each reason to reject is among the violations.
LEMMA Violations ==
    ASSUME NEW spec
    PROVE  /\ spec.image \notin Digests => "image" \in Validate(spec)
           /\ ~spec.approved => "approved" \in Validate(spec)
           /\ spec.replicas \notin ReplicaCounts => "replicas" \in Validate(spec)
           /\ spec.port \notin Ports => "port" \in Validate(spec)
           /\ spec.resources = "missing" => "resources" \in Validate(spec)
  BY DEF Validate

\* What Validate lets pass and podSpec does not refuse is governed.
LEMMA ValidIsGoverned ==
    ASSUME NEW r \in Resources, NEW raw \in RawSpecs[r], Validate(Parse(raw)) = {},
           Parse(raw).resources # "malformed"
    PROVE  Governed(Parse(raw)) /\ "image" \in DOMAIN Parse(raw)
<1>1. "image" \in DOMAIN Parse(raw) /\ Parse(raw).resources \in Quantities
  BY OperatorAssumption DEF Parse
<1>2. PICK spec : spec = Parse(raw)
  OBVIOUS
<1>3. Validate(spec) = {} /\ spec.resources \in Quantities /\ spec.resources # "malformed"
  BY <1>1, <1>2
<1> HIDE <1>2
<1>5. \A x : x \notin Validate(spec)
  BY <1>3
<1>6. Governed(spec)
  <2>1. /\ spec.image \in Digests /\ spec.replicas \in ReplicaCounts /\ spec.port \in Ports
        /\ spec.resources # "missing"
    BY <1>5, Violations
  <2>2. spec.approved
    BY <1>5, Violations
  <2>3. spec.resources = "good"
    BY <1>3, <2>1 DEF Quantities
  <2> QED BY <2>1, <2>2, <2>3, Zenon DEF Governed
<1> QED BY <1>1, <1>2, <1>6

LEMMA LaterEdits ==
    ASSUME NEW r, NEW e \in Nat, NEW f \in Nat, e <= f
    PROVE  /\ \A x : GoodResource(r, x, e) => GoodResource(r, x, f)
           /\ \A w : GoodWork(r, w, e) => GoodWork(r, w, f)
<1>1. \A x : GoodResource(r, x, e) => GoodResource(r, x, f)
  BY DEF GoodResource
<1> QED BY <1>1 DEF GoodWork

LEMMA WorkloadKey ==
    ASSUME NEW r \in Resources
    PROVE  /\ Workload(r) \in Keys /\ ServiceOf(r) \in Keys
           /\ KindOf[r] # "EvaluationRun" => Workload(r)[1] = "Deployment"
           /\ KindOf[r] = "EvaluationRun" => Workload(r)[1] = "Job"
           /\ ServiceOf(r)[1] = "Service"
  BY DEF Workload, ServiceOf, Keys, Names

LEMMA OwnerOf ==
    ASSUME NEW r, NEW x
    PROVE  Owner(r, x).resource = r /\ Owner(r, x).uid = x.uid
  BY DEF Owner

LEMMA OperatorInit == Init => OperatorInv
<1> SUFFICES ASSUME Init PROVE OperatorInv
  OBVIOUS
<1>1. StoreInv
  BY DEF Init, StoreInv
<1>2. /\ edits = 0 /\ DOMAIN resources = Resources /\ DOMAIN work = Resources
      /\ \A r \in Resources : resources[r] = Absent /\ work[r] = Idle
  BY DEF Init
<1>3. \A r \in Resources : ResourceInv(r)
  BY <1>2 DEF ResourceInv, GoodWork, Claims, Sent
<1> QED BY <1>1, <1>2, <1>3 DEF OperatorInv

\* What an action of another resource leaves alone.
LEMMA ResourceKept ==
    ASSUME NEW r \in Resources, ResourceInv(r), edits \in Nat, edits' \in Nat, edits <= edits',
           resources'[r] = resources[r], work'[r] = work[r],
           \A x : KindOf[r] # "EvaluationRun" /\ Backed(r, x) /\ resources[r] # Absent
                  /\ resources[r].uid = x.uid
                  => /\ store'[Workload(r)] # Absent
                     /\ store'[Workload(r)].owner = Owner(r, x)
                     /\ applied'[Workload(r)] = Parse(x.raw)
    PROVE  ResourceInv(r)'
<1>1. /\ resources'[r] # Absent => GoodResource(r, resources'[r], edits')
      /\ GoodWork(r, work'[r], edits')
  BY LaterEdits DEF ResourceInv
<1>2. (Claims(r)' <=> Claims(r)) /\ (Sent(r)' <=> Sent(r))
  BY DEF Claims, Sent
<1>3. ASSUME Claims(r) PROVE Backed(r, resources[r])'
  <2>1. /\ KindOf[r] # "EvaluationRun" /\ Backed(r, resources[r]) /\ resources[r] # Absent
    BY <1>3 DEF ResourceInv, Claims
  <2> QED BY <2>1 DEF Backed
<1>4. ASSUME Sent(r) PROVE Backed(r, work[r].seen)'
  <2>1. /\ KindOf[r] # "EvaluationRun" /\ Backed(r, work[r].seen) /\ resources[r] # Absent
        /\ resources[r].uid = work[r].seen.uid
    BY <1>4 DEF ResourceInv, Sent
  <2> QED BY <2>1 DEF Backed
<1> QED BY <1>1, <1>2, <1>3, <1>4 DEF ResourceInv

\* Nothing in the API server changes but the resource r, or its work.
LEMMA OthersKept ==
    ASSUME OperatorInv, NEW r \in Resources, edits' \in Nat, edits <= edits',
           UNCHANGED <<store, applied>>,
           DOMAIN resources' = Resources, DOMAIN work' = Resources,
           \A s \in Resources \ {r} : resources'[s] = resources[s] /\ work'[s] = work[s],
           ResourceInv(r)'
    PROVE  OperatorInv'
<1>1. StoreInv'
  BY DEF OperatorInv, StoreInv
<1>2. ASSUME NEW s \in Resources \ {r} PROVE ResourceInv(s)'
  BY <1>2, ResourceKept DEF OperatorInv, Backed
<1> QED BY <1>1, <1>2 DEF OperatorInv

LEMMA ApplyFacts ==
    ASSUME NEW r \in Resources, NEW raw \in RawSpecs[r], edits \in Nat, Apply(r, raw),
           DOMAIN resources = Resources,
           resources[r] # Absent => GoodResource(r, resources[r], edits)
    PROVE  /\ GoodResource(r, resources'[r], edits + 1)
           /\ resources'[r].generation = edits + 1
           /\ resources'[r].status.observed <= edits
           /\ \/ resources'[r].uid = edits + 1
              \/ resources[r] # Absent /\ resources'[r].uid = resources[r].uid
<1> DEFINE new == [raw |-> raw, uid |-> edits + 1, generation |-> edits + 1, status |-> Unknown]
           old == resources[r]
           changed == [old EXCEPT !.raw = raw, !.generation = edits + 1]
<1>1. resources'[r] = IF old = Absent THEN new ELSE changed
  BY DEF Apply
<1>2. CASE old = Absent
  <2>1. /\ DOMAIN new = {"raw", "uid", "generation", "status"}
        /\ new.raw = raw /\ new.uid = edits + 1 /\ new.generation = edits + 1
        /\ new.status.observed = 0 /\ new # Absent
    BY DEF Unknown, Absent
  <2> HIDE DEF new
  <2>2. resources'[r] = new
    BY <1>1, <1>2
  <2> QED BY <2>1, <2>2 DEF GoodResource
<1>3. CASE old # Absent
  <2>1. GoodResource(r, old, edits)
    BY <1>3
  <2>2. /\ DOMAIN changed = {"raw", "uid", "generation", "status"}
        /\ changed.raw = raw /\ changed.uid = old.uid /\ changed.generation = edits + 1
        /\ changed.status = old.status
    BY <2>1 DEF GoodResource
  <2>3. changed # Absent
    BY <2>2 DEF Absent
  <2> HIDE DEF changed
  <2>4. resources'[r] = changed
    BY <1>1, <1>3
  <2> QED BY <1>3, <2>1, <2>2, <2>3, <2>4 DEF GoodResource
<1> QED BY <1>2, <1>3

LEMMA EditGood ==
    ASSUME OperatorInv, NEW r \in Resources, Edit(r)
    PROVE  OperatorInv'
<1>1. /\ edits' = edits + 1 /\ UNCHANGED <<store, work, applied>>
      /\ Delete(r) \/ \E raw \in RawSpecs[r] : Apply(r, raw)
  BY DEF Edit
<1>2. /\ edits \in Nat /\ DOMAIN resources = Resources /\ DOMAIN work = Resources
      /\ ResourceInv(r)
  BY DEF OperatorInv
<1>3. DOMAIN resources' = Resources /\ \A s \in Resources \ {r} : resources'[s] = resources[s]
  BY <1>1, <1>2 DEF Delete, Apply
<1>4. GoodWork(r, work'[r], edits')
  BY <1>1, <1>2, LaterEdits DEF ResourceInv
<1>5. CASE Delete(r)
  <2>1. resources'[r] = Absent
    BY <1>2, <1>5 DEF Delete
  <2>2. ResourceInv(r)'
    BY <2>1, <1>1, <1>2, <1>4 DEF ResourceInv, Claims, Sent
  <2> QED BY <2>2, <1>1, <1>2, <1>3, OthersKept
<1>6. ASSUME NEW raw \in RawSpecs[r], Apply(r, raw) PROVE OperatorInv'
  <2>1. /\ GoodResource(r, resources'[r], edits') /\ resources'[r].generation = edits + 1
        /\ resources'[r].status.observed <= edits
        /\ \/ resources'[r].uid = edits + 1
           \/ resources[r] # Absent /\ resources'[r].uid = resources[r].uid
    BY <1>1, <1>2, <1>6, ApplyFacts DEF ResourceInv
  <2>2. ~Claims(r)'
    BY <2>1, <1>1, <1>2 DEF Claims, GoodResource
  <2>3. ASSUME Sent(r)' PROVE Backed(r, work[r].seen)'
    <3>1. work[r] # Idle /\ resources'[r].uid = work[r].seen.uid
      BY <2>3, <1>1 DEF Sent
    <3>2. work[r].seen.uid \in 1 .. edits
      BY <3>1, <1>2 DEF ResourceInv, GoodWork, GoodResource
    <3>3. resources[r] # Absent /\ resources[r].uid = work[r].seen.uid
      BY <3>1, <3>2, <2>1, <1>2
    <3>4. Sent(r)
      BY <2>3, <3>3, <1>1 DEF Sent
    <3> QED BY <3>4, <1>1, <1>2 DEF ResourceInv, Backed
  <2>4. ResourceInv(r)'
    BY <2>1, <2>2, <2>3, <1>1, <1>2, <1>4 DEF ResourceInv
  <2> QED BY <2>4, <1>1, <1>2, <1>3, OthersKept
<1> QED BY <1>1, <1>5, <1>6

-----------------------------------------------------------------------------
\* A reconciliation that ends or fails asks nothing more.
LEMMA BecomesIdle ==
    ASSUME OperatorInv, NEW r \in Resources, work' = [work EXCEPT ![r] = Idle],
           UNCHANGED <<resources, store, applied, edits>>
    PROVE  OperatorInv'
<1>1. /\ edits \in Nat /\ DOMAIN resources = Resources /\ DOMAIN work = Resources
      /\ ResourceInv(r)
  BY DEF OperatorInv
<1>2. DOMAIN work' = Resources /\ work'[r] = Idle /\ \A s \in Resources \ {r} : work'[s] = work[s]
  BY <1>1
<1>3. ResourceInv(r)'
  BY <1>1, <1>2 DEF ResourceInv, GoodWork, Claims, Sent, Backed
<1> QED BY <1>1, <1>2, <1>3, OthersKept

LEMMA FailGood ==
    ASSUME OperatorInv, NEW r \in Resources, Fail(r)
    PROVE  OperatorInv'
  BY BecomesIdle DEF Fail

LEMMA BeginGood ==
    ASSUME OperatorInv, NEW r \in Resources, Begin(r)
    PROVE  OperatorInv'
<1> DEFINE seen == resources[r]
<1>1. /\ edits \in Nat /\ DOMAIN resources = Resources /\ DOMAIN work = Resources
      /\ ResourceInv(r)
  BY DEF OperatorInv
<1>2. /\ work[r] = Idle /\ UNCHANGED <<resources, store, applied, edits>>
      /\ work' = [work EXCEPT ![r] =
            IF seen = Absent THEN Idle
            ELSE IF seen.raw.image = NoImage
            THEN Report(seen, "Invalid", {"image"}, TRUE)
            ELSE IF Validate(Parse(seen.raw)) # {}
            THEN Report(seen, "Rejected", Validate(Parse(seen.raw)), TRUE)
            ELSE [pc |-> "workload", seen |-> seen]]
  BY DEF Begin
<1>3. DOMAIN work' = Resources /\ \A s \in Resources \ {r} : work'[s] = work[s]
  BY <1>1, <1>2
<1>4. CASE seen = Absent
  <2>1. work' = [work EXCEPT ![r] = Idle]
    BY <1>2, <1>4
  <2> QED BY <2>1, <1>2, BecomesIdle
<1>5. CASE seen # Absent
  <2>0. PICK w : w = work'[r]
    OBVIOUS
  <2>1. /\ w = work'[r]
        /\ w # Idle /\ w.seen = seen
        /\ \/ w.pc = "status" /\ w.status.observed = seen.generation
              /\ w.status.phase \in {"Invalid", "Rejected"}
           \/ w.pc = "workload" /\ DOMAIN w = {"pc", "seen"}
              /\ Validate(Parse(seen.raw)) = {}
    <3>1. CASE seen.raw.image = NoImage
      <4>1. w = Report(seen, "Invalid", {"image"}, TRUE)
        BY <2>0, <1>1, <1>2, <1>5, <3>1
      <4>2. /\ w # Idle /\ w.pc = "status" /\ w.seen = seen
            /\ w.status.observed = seen.generation
            /\ w.status.phase \in {"Invalid", "Rejected"}
        BY <4>1 DEF Report, Idle
      <4> QED BY <4>2, <2>0
    <3>2. CASE seen.raw.image # NoImage /\ Validate(Parse(seen.raw)) # {}
      <4>1. w = Report(seen, "Rejected", Validate(Parse(seen.raw)), TRUE)
        BY <2>0, <1>1, <1>2, <1>5, <3>2
      <4>2. /\ w # Idle /\ w.pc = "status" /\ w.seen = seen
            /\ w.status.observed = seen.generation
            /\ w.status.phase \in {"Invalid", "Rejected"}
        BY <4>1 DEF Report, Idle
      <4> QED BY <4>2, <2>0
    <3>3. CASE seen.raw.image # NoImage /\ Validate(Parse(seen.raw)) = {}
      <4> DEFINE v == [pc |-> "workload", seen |-> seen]
      <4>1. w = v
        BY <2>0, <1>1, <1>2, <1>5, <3>3
      <4>2. v # Idle /\ v.pc = "workload" /\ v.seen = seen /\ DOMAIN v = {"pc", "seen"}
        BY DEF Idle
      <4> HIDE DEF v
      <4> QED BY <4>1, <4>2, <3>3, <2>0
    <3> QED BY <3>1, <3>2, <3>3
  <2>2. GoodResource(r, seen, edits)
    BY <1>1, <1>5 DEF ResourceInv
  <2>3. GoodWork(r, w, edits) /\ ~(w.pc = "status" /\ w.status.phase \in Positive)
    BY <2>1, <2>2 DEF GoodWork, Positive
  <2>4. ~Sent(r)' /\ (Claims(r)' <=> Claims(r)) /\ (Backed(r, resources[r])' <=> Backed(r, resources[r]))
    BY <2>1, <2>3, <1>2 DEF Sent, Claims, Backed, Positive
  <2>5. ResourceInv(r)'
    BY <2>1, <2>3, <2>4, <1>1, <1>2 DEF ResourceInv
  <2>6. /\ edits' \in Nat /\ edits <= edits' /\ DOMAIN resources' = Resources
        /\ \A s \in Resources \ {r} : resources'[s] = resources[s] /\ work'[s] = work[s]
    BY <1>1, <1>2, <1>3
  <2> QED BY <2>5, <2>6, <1>2, <1>3, OthersKept
<1> QED BY <1>4, <1>5

-----------------------------------------------------------------------------
\* What Create and Update leave in the API server.
LEMMA DesiredFacts ==
    ASSUME NEW r, NEW k, NEW spec, "image" \in DOMAIN spec, spec.image \in Digests,
           store[k] # Absent => GoodObject(store[k])
    PROVE  /\ GoodObject(Desired(r, k, spec))
           /\ k[1] = "Deployment" => Desired(r, k, spec).owner = Owner(r, work[r].seen)
<1>1. CASE store[k] = Absent
  <2>1. Desired(r, k, spec) = Fresh(r, spec)
    BY <1>1 DEF Desired
  <2>2. /\ DOMAIN Fresh(r, spec) = ObjectFields /\ Fresh(r, spec).spec = spec
        /\ Fresh(r, spec).image = NoImage /\ Fresh(r, spec).owner = Owner(r, work[r].seen)
    BY DEF Fresh, ObjectFields
  <2>3. Fresh(r, spec) # Absent
    BY <2>2 DEF ObjectFields, Absent
  <2> QED BY <2>1, <2>2, <2>3 DEF GoodObject
<1>2. CASE store[k] # Absent
  <2> DEFINE u == Updated(store[k], spec)
             o == [u EXCEPT !.owner = Owner(r, work[r].seen)]
  <2>1. GoodObject(store[k])
    BY <1>2
  <2>2. DOMAIN u = ObjectFields /\ u.spec = spec /\ u.image = store[k].image
    BY <2>1 DEF GoodObject, ObjectFields, Updated
  <2> HIDE DEF u
  <2>3. /\ DOMAIN o = ObjectFields /\ o.spec = spec /\ o.image = store[k].image
        /\ o.owner = Owner(r, work[r].seen)
    BY <2>2 DEF ObjectFields
  <2> HIDE DEF o
  <2>4. u # Absent /\ o # Absent
    BY <2>2, <2>3 DEF ObjectFields, Absent
  <2>5. Desired(r, k, spec) = IF k[1] = "Service" THEN u ELSE o
    BY <1>2 DEF Desired, u, o
  <2> QED BY <2>1, <2>2, <2>3, <2>4, <2>5 DEF GoodObject
<1> QED BY <1>1, <1>2

LEMMA WriteGood ==
    ASSUME OperatorInv, NEW r \in Resources, NEW k \in Keys, NEW next \in {"service", "observe"},
           work[r] # Idle, work[r].pc \in {"workload", "service"},
           KindOf[r] = "EvaluationRun" => next = "observe",
           k = Workload(r) \/ (k = ServiceOf(r) /\ work[r].pc = "service"),
           Write(r, k, next)
    PROVE  OperatorInv'
<1> DEFINE seen == work[r].seen
           spec == Parse(work[r].seen.raw)
<1>1. CASE ~CanWrite(r, k)
  BY <1>1, FailGood DEF Write
<1>2. CASE CanWrite(r, k)
  <2>1. /\ store' = [store EXCEPT ![k] = Desired(r, k, spec)]
        /\ applied' = [applied EXCEPT ![k] = spec]
        /\ work' = [work EXCEPT ![r].pc = next]
        /\ UNCHANGED <<resources, edits>>
    BY <1>2 DEF Write, GoOn
  <2>2. /\ StoreInv /\ ResourceInv(r) /\ edits \in Nat
        /\ DOMAIN resources = Resources /\ DOMAIN work = Resources
    BY DEF OperatorInv
  <2>3. /\ GoodResource(r, seen, edits) /\ DOMAIN work[r] = {"pc", "seen"}
        /\ Validate(spec) = {}
    BY <2>2 DEF ResourceInv, GoodWork
  <2>4. Governed(spec) /\ "image" \in DOMAIN spec
    BY <1>2, <2>3, ValidIsGoverned DEF CanWrite, GoodResource
  <2>5. /\ GoodObject(Desired(r, k, spec))
        /\ k[1] = "Deployment" => Desired(r, k, spec).owner = Owner(r, seen)
    BY <2>2, <2>4, DesiredFacts DEF StoreInv, Governed
  <2> HIDE DEF spec
  <2>6. /\ DOMAIN store' = Keys /\ DOMAIN applied' = Keys
        /\ store'[k] = Desired(r, k, spec) /\ applied'[k] = spec
        /\ \A j \in Keys : j # k => store'[j] = store[j] /\ applied'[j] = applied[j]
    BY <2>1, <2>2 DEF StoreInv
  <2>7. StoreInv'
    BY <2>2, <2>4, <2>5, <2>6 DEF StoreInv
  <2>8. /\ DOMAIN work' = Resources /\ \A s \in Resources \ {r} : work'[s] = work[s]
        /\ work'[r] = [work[r] EXCEPT !.pc = next]
    BY <2>1, <2>2
  <2>9. /\ work'[r].pc = next /\ work'[r].seen = seen /\ DOMAIN work'[r] = {"pc", "seen"}
    BY <2>3, <2>8
  <2>10. work'[r] # Idle
    BY <2>9 DEF Idle
  <2>11. ASSUME NEW s \in Resources \ {r} PROVE ResourceInv(s)'
    <3> SUFFICES ASSUME NEW x, KindOf[s] # "EvaluationRun", Backed(s, x)
                 PROVE  /\ store'[Workload(s)] # Absent
                        /\ store'[Workload(s)].owner = Owner(s, x)
                        /\ applied'[Workload(s)] = Parse(x.raw)
      BY <2>1, <2>2, <2>8, ResourceKept DEF OperatorInv
    <3>1. /\ store[Workload(s)] # Absent /\ store[Workload(s)].owner = Owner(s, x)
          /\ applied[Workload(s)] = Parse(x.raw)
      BY DEF Backed
    <3>2. Workload(s) \in Keys /\ Workload(s)[1] = "Deployment"
      BY WorkloadKey
    <3>3. Workload(s) # k
      <4> SUFFICES ASSUME Workload(s) = k PROVE FALSE
        OBVIOUS
      <4>1. store[k].owner.resource = r
        BY <1>2, <3>1, <3>2 DEF CanWrite
      <4>2. store[k].owner.resource = s
        BY <3>1, OwnerOf
      <4> QED BY <4>1, <4>2
    <3> QED BY <3>1, <3>2, <3>3, <2>6
  <2>12. ASSUME KindOf[r] # "EvaluationRun", Backed(r, seen) \/ k = Workload(r)
         PROVE  /\ store'[Workload(r)] # Absent
                /\ store'[Workload(r)].owner = Owner(r, seen)
                /\ applied'[Workload(r)] = Parse(seen.raw)
    <3>1. Workload(r) \in Keys /\ Workload(r)[1] = "Deployment" /\ ServiceOf(r)[1] = "Service"
      BY <2>12, WorkloadKey
    <3>2. CASE k = Workload(r)
      BY <3>1, <3>2, <2>5, <2>6 DEF GoodObject, spec
    <3>3. CASE k # Workload(r)
      BY <3>1, <3>3, <2>6, <2>12 DEF Backed
    <3> QED BY <3>2, <3>3
  <2>13. Claims(r)' <=> Claims(r)
    BY <2>1 DEF Claims
  <2>14. ASSUME Claims(r)
         PROVE  KindOf[r] # "EvaluationRun" /\ Backed(r, resources[r])' /\ work'[r].seen = resources[r]
    <3>1. KindOf[r] # "EvaluationRun" /\ Backed(r, resources[r]) /\ seen = resources[r]
      BY <2>2, <2>14 DEF ResourceInv
    <3> QED BY <3>1, <2>1, <2>9, <2>12 DEF Backed
  <2>15. ASSUME Sent(r)' PROVE Backed(r, work[r].seen)'
    <3>1. KindOf[r] # "EvaluationRun" /\ resources[r] # Absent /\ resources[r].uid = seen.uid
      BY <2>1, <2>9, <2>15 DEF Sent
    <3>2. k # Workload(r) => Backed(r, seen)
      BY <3>1, <2>2 DEF ResourceInv, Sent
    <3>3. work'[r].seen = seen
      BY <2>9
    <3> QED BY <3>1, <3>2, <3>3, <2>12 DEF Backed
  <2>16. GoodWork(r, work'[r], edits)
    BY <2>3, <2>9 DEF GoodWork, spec
  <2>17. ResourceInv(r)'
    BY <2>1, <2>2, <2>9, <2>13, <2>14, <2>15, <2>16 DEF ResourceInv
  <2> QED BY <2>1, <2>2, <2>7, <2>8, <2>11, <2>17 DEF OperatorInv
<1> QED BY <1>1, <1>2

\* A reconciliation goes on and has sent no more and no less.
LEMMA WorkGoesOn ==
    ASSUME OperatorInv, NEW r \in Resources, NEW w, w # Idle, work[r] # Idle,
           work' = [work EXCEPT ![r] = w], UNCHANGED <<resources, store, applied, edits>>,
           w.seen = work[r].seen, GoodWork(r, w, edits),
           w.pc = "status" /\ w.status.phase \in Positive => KindOf[r] # "EvaluationRun",
           Sent(r)' => Sent(r)
    PROVE  OperatorInv'
<1>1. /\ edits \in Nat /\ DOMAIN resources = Resources /\ DOMAIN work = Resources
      /\ ResourceInv(r)
  BY DEF OperatorInv
<1>2. DOMAIN work' = Resources /\ work'[r] = w /\ \A s \in Resources \ {r} : work'[s] = work[s]
  BY <1>1
<1>3. Claims(r)' <=> Claims(r)
  BY DEF Claims
<1>4. ResourceInv(r)'
  BY <1>1, <1>2, <1>3 DEF ResourceInv, Backed
<1>5. /\ edits' \in Nat /\ edits <= edits' /\ DOMAIN resources' = Resources
      /\ \A s \in Resources \ {r} : resources'[s] = resources[s] /\ work'[s] = work[s]
  BY <1>1, <1>2
<1> QED BY <1>2, <1>4, <1>5, OthersKept

-----------------------------------------------------------------------------
LEMMA DeploymentGood ==
    ASSUME OperatorInv, NEW r \in Resources, work[r] # Idle, ReconcileDeployment(r)
    PROVE  OperatorInv'
<1>1. CASE work[r].pc = "workload" /\ KindOf[r] # "EvaluationRun" /\ Write(r, Workload(r), "service")
  BY <1>1, WorkloadKey, WriteGood
<1>2. CASE work[r].pc = "service" /\ Write(r, ServiceOf(r), "observe")
  BY <1>2, WorkloadKey, WriteGood
<1> QED BY <1>1, <1>2 DEF ReconcileDeployment

LEMMA JobGood ==
    ASSUME OperatorInv, NEW r \in Resources, work[r] # Idle, ReconcileJob(r)
    PROVE  OperatorInv'
<1>1. work[r].pc = "workload" /\ KindOf[r] = "EvaluationRun"
  BY DEF ReconcileJob
<1>2. CASE cache[Workload(r)] = Absent
  BY <1>1, <1>2, WorkloadKey, WriteGood DEF ReconcileJob
<1>3. CASE cache[Workload(r)] # Absent
  <2>1. PICK w : w = [work[r] EXCEPT !.pc = "observe"]
    OBVIOUS
  <2>2. /\ DOMAIN work = Resources /\ GoodResource(r, work[r].seen, edits)
        /\ DOMAIN work[r] = {"pc", "seen"} /\ Validate(Parse(work[r].seen.raw)) = {}
    BY <1>1 DEF OperatorInv, ResourceInv, GoodWork
  <2>3. w.pc = "observe" /\ w.seen = work[r].seen /\ DOMAIN w = {"pc", "seen"}
    BY <2>1, <2>2
  <2>4. w # Idle
    BY <2>3 DEF Idle
  <2>5. GoodWork(r, w, edits)
    BY <2>2, <2>3 DEF GoodWork
  <2>6. work' = [work EXCEPT ![r] = w] /\ UNCHANGED <<resources, store, applied, edits>>
    BY <1>3, <2>1, <2>2 DEF ReconcileJob, GoOn
  <2>7. ~Sent(r)'
    BY <1>1 DEF Sent
  <2> QED BY <2>3, <2>4, <2>5, <2>6, <2>7, WorkGoesOn
<1> QED BY <1>2, <1>3

LEMMA ObservedGood ==
    ASSUME OperatorInv, NEW r \in Resources, work[r] # Idle, ObservedState(r)
    PROVE  OperatorInv'
<1> DEFINE k == Workload(r)
           seen == work[r].seen
           state == IF k[1] = "Job" THEN JobState(cache[k])
                    ELSE DeploymentState(cache[k], Parse(seen.raw))
<1>1. work[r].pc = "observe"
  BY DEF ObservedState
<1>2. CASE cache[k] = Absent
  BY <1>2, FailGood DEF ObservedState
<1>3. CASE cache[k] # Absent
  <2>1. PICK w : w = Report(seen, state[1], {}, state[2])
    OBVIOUS
  <2>2. work' = [work EXCEPT ![r] = w] /\ UNCHANGED <<resources, store, applied, edits>>
    BY <1>3, <2>1 DEF ObservedState
  <2>3. KindOf[r] = "EvaluationRun" => state[1] \notin Positive
    BY WorkloadKey DEF JobState, Positive
  <2> HIDE DEF state
  <2>4. /\ w.pc = "status" /\ w.seen = seen /\ w.status.phase = state[1]
        /\ w.status.observed = seen.generation /\ w # Idle
    BY <2>1 DEF Report, Idle
  <2>5. DOMAIN work = Resources /\ GoodResource(r, seen, edits)
    BY DEF OperatorInv, ResourceInv, GoodWork
  <2>6. GoodWork(r, w, edits)
    BY <2>4, <2>5 DEF GoodWork
  <2>7. Sent(r)' => Sent(r)
    BY <1>1, <2>2, <2>4, <2>5 DEF Sent
  <2> QED BY <2>2, <2>3, <2>4, <2>6, <2>7, WorkGoesOn
<1> QED BY <1>2, <1>3

LEMMA SetStatusGood ==
    ASSUME OperatorInv, NEW r \in Resources, work[r] # Idle, SetStatus(r)
    PROVE  OperatorInv'
<1> DEFINE w == work[r]
           same == w.seen.status = w.status
<1>1. /\ w.pc = "status"
      /\ \/ Fail(r)
         \/ /\ same \/ StatusIsCurrent(r)
            /\ resources' = IF same THEN resources ELSE [resources EXCEPT ![r].status = w.status]
            /\ work' = [work EXCEPT ![r] = Idle]
            /\ UNCHANGED <<store, applied, edits>>
  BY DEF SetStatus
<1>2. CASE Fail(r)
  BY <1>2, FailGood
<1>3. CASE same /\ resources' = resources /\ work' = [work EXCEPT ![r] = Idle]
           /\ UNCHANGED <<store, applied, edits>>
  BY <1>3, BecomesIdle
<1>4. CASE /\ StatusIsCurrent(r) /\ resources' = [resources EXCEPT ![r].status = w.status]
           /\ work' = [work EXCEPT ![r] = Idle] /\ UNCHANGED <<store, applied, edits>>
  <2>1. /\ edits \in Nat /\ DOMAIN resources = Resources /\ DOMAIN work = Resources
        /\ ResourceInv(r)
    BY DEF OperatorInv
  <2>2. /\ resources[r] = w.seen /\ GoodResource(r, w.seen, edits)
        /\ w.status.observed = w.seen.generation
        /\ w.status.phase \in Positive => KindOf[r] # "EvaluationRun"
    BY <1>1, <1>4, <2>1 DEF StatusIsCurrent, ResourceInv, GoodWork
  <2>3. PICK x : x = [resources[r] EXCEPT !.status = w.status]
    OBVIOUS
  <2>4. /\ DOMAIN x = {"raw", "uid", "generation", "status"} /\ x.raw = w.seen.raw
        /\ x.uid = w.seen.uid /\ x.generation = w.seen.generation /\ x.status = w.status
    BY <2>2, <2>3 DEF GoodResource
  <2>5. x # Absent
    BY <2>4 DEF Absent
  <2>6. GoodResource(r, x, edits)
    BY <2>1, <2>2, <2>4, <2>5 DEF GoodResource
  <2>7. /\ resources'[r] = x /\ DOMAIN resources' = Resources
        /\ work'[r] = Idle /\ DOMAIN work' = Resources
        /\ \A s \in Resources \ {r} : resources'[s] = resources[s] /\ work'[s] = work[s]
    BY <1>4, <2>1, <2>3
  <2>8. ASSUME Claims(r)' PROVE KindOf[r] # "EvaluationRun" /\ Backed(r, resources[r])'
    <3>1. w.status.phase \in Positive
      BY <2>4, <2>7, <2>8 DEF Claims
    <3>2. Sent(r)
      BY <3>1, <2>2, <1>1 DEF Sent, GoodResource
    <3>3. Backed(r, w.seen)
      BY <3>2, <2>1 DEF ResourceInv
    <3>4. Owner(r, x) = Owner(r, w.seen)
      BY <2>4 DEF Owner
    <3> QED BY <3>1, <3>3, <3>4, <2>2, <2>4, <2>7, <1>4 DEF Backed
  <2>9. ResourceInv(r)'
    BY <1>4, <2>6, <2>7, <2>8 DEF ResourceInv, GoodWork, Sent
  <2>10. edits' \in Nat /\ edits <= edits' /\ UNCHANGED <<store, applied>>
    BY <1>4, <2>1
  <2> QED BY <2>7, <2>9, <2>10, OthersKept
<1> QED BY <1>1, <1>2, <1>3, <1>4

LEMMA ReconcileGood ==
    ASSUME OperatorInv, NEW r \in Resources, Reconcile(r)
    PROVE  OperatorInv'
<1>1. CASE Begin(r)
  BY <1>1, BeginGood
<1>2. CASE work[r] # Idle
  BY <1>1, <1>2, DeploymentGood, JobGood, ObservedGood, SetStatusGood DEF Reconcile
<1>3. CASE work[r] = Idle
  <2>1. work[r].pc = "idle"
    BY <1>3 DEF Idle
  <2> QED BY <1>1, <2>1 DEF Reconcile, ReconcileDeployment, ReconcileJob, ObservedState, SetStatus
<1> QED BY <1>2, <1>3

-----------------------------------------------------------------------------
(***************************************************************************)
(* The cluster changes one object: it is good, has its owner, and if it    *)
(* goes away it backed nobody.                                             *)
(***************************************************************************)
LEMMA ChangeGood ==
    ASSUME OperatorInv, NEW k \in Keys, NEW object, Change(k, object), store[k] # Absent,
           object # Absent => GoodObject(object) /\ object.owner = store[k].owner,
           object = Absent =>
              LET owner == store[k].owner IN
              ~(/\ resources[owner.resource] # Absent
                /\ resources[owner.resource].uid = owner.uid)
    PROVE  OperatorInv'
<1>1. /\ store' = [store EXCEPT ![k] = object]
      /\ UNCHANGED <<resources, work, applied, edits>>
  BY DEF Change
<1>2. /\ StoreInv /\ edits \in Nat /\ DOMAIN resources = Resources /\ DOMAIN work = Resources
  BY DEF OperatorInv
<1>3. /\ DOMAIN store' = Keys /\ store'[k] = object
      /\ \A j \in Keys : j # k => store'[j] = store[j]
  BY <1>1, <1>2 DEF StoreInv
<1>4. StoreInv'
  BY <1>1, <1>2, <1>3 DEF StoreInv
<1>5. ASSUME NEW s \in Resources PROVE ResourceInv(s)'
  <2> SUFFICES ASSUME NEW x, Backed(s, x), resources[s] # Absent, resources[s].uid = x.uid
               PROVE  /\ store'[Workload(s)] # Absent
                      /\ store'[Workload(s)].owner = Owner(s, x)
                      /\ applied'[Workload(s)] = Parse(x.raw)
    BY <1>1, <1>2, ResourceKept DEF OperatorInv
  <2>1. /\ store[Workload(s)] # Absent /\ store[Workload(s)].owner = Owner(s, x)
        /\ applied[Workload(s)] = Parse(x.raw) /\ Workload(s) \in Keys
    BY WorkloadKey DEF Backed
  <2>2. CASE Workload(s) # k
    BY <2>1, <2>2, <1>1, <1>3
  <2>3. CASE Workload(s) = k
    <3>1. store[k].owner.resource = s /\ store[k].owner.uid = x.uid
      BY <2>1, <2>3, OwnerOf
    <3>2. object # Absent
      BY <3>1
    <3> QED BY <2>1, <2>3, <3>2, <1>1, <1>3
  <2> QED BY <2>2, <2>3
<1> QED BY <1>1, <1>2, <1>4, <1>5 DEF OperatorInv

LEMMA ClusterGood ==
    ASSUME OperatorInv, NEW k \in Keys, Cluster(k) \/ Disturb(k)
    PROVE  OperatorInv'
<1>1. CASE Sync(k)
  <2>1. UNCHANGED <<resources, store, work, applied, edits>>
    BY <1>1 DEF Sync
  <2> QED BY <2>1 DEF OperatorInv, StoreInv, ResourceInv, Claims, Sent, Backed
<1>2. CASE store[k] # Absent /\ Change(k, Absent) /\ Collect(k)
  BY <1>2, ChangeGood DEF Collect
<1> DEFINE o == store[k]
<1>3. o # Absent => GoodObject(o)
  BY DEF OperatorInv, StoreInv
<1>4. CASE Observe(k)
  <2>1. PICK n : n = [o EXCEPT !.observed = o.generation]
    OBVIOUS
  <2>2. o # Absent /\ Change(k, n)
    BY <1>4, <2>1 DEF Observe
  <2>3. DOMAIN n = ObjectFields /\ n.owner = o.owner /\ n.spec = o.spec /\ n.image = o.image
    BY <2>1, <2>2, <1>3 DEF GoodObject, ObjectFields
  <2>4. n # Absent
    BY <2>3 DEF ObjectFields, Absent
  <2> QED BY <1>3, <2>2, <2>3, <2>4, ChangeGood DEF GoodObject
<1>5. CASE RollOut(k)
  <2>1. PICK n : n = [o EXCEPT !.up = o.spec.replicas, !.image = o.spec.image]
    OBVIOUS
  <2>2. o # Absent /\ Change(k, n)
    BY <1>5, <2>1 DEF RollOut
  <2>3. DOMAIN n = ObjectFields /\ n.owner = o.owner /\ n.spec = o.spec /\ n.image = o.spec.image
    BY <2>1, <2>2, <1>3 DEF GoodObject, ObjectFields
  <2>4. n # Absent
    BY <2>3 DEF ObjectFields, Absent
  <2> QED BY <1>3, <2>2, <2>3, <2>4, ChangeGood DEF GoodObject
<1>6. CASE RunJob(k)
  <2>2. o # Absent
    BY <1>6 DEF RunJob
  <2>3. ASSUME NEW m, Change(k, m), m = [o EXCEPT !.up = 1] \/ m = [o EXCEPT !.failed = @ + 1]
        PROVE  OperatorInv'
    <3>1. DOMAIN m = ObjectFields /\ m.owner = o.owner /\ m.spec = o.spec /\ m.image = o.image
      BY <2>2, <2>3, <1>3 DEF GoodObject, ObjectFields
    <3>2. m # Absent
      BY <3>1 DEF ObjectFields, Absent
    <3> QED BY <1>3, <2>2, <2>3, <3>1, <3>2, ChangeGood DEF GoodObject
  <2> QED BY <1>6, <2>3 DEF RunJob
<1>7. CASE Disturb(k)
  <2>1. o # Absent
    BY <1>7 DEF Disturb
  <2>2. ASSUME NEW m, Change(k, m), m = [o EXCEPT !.up = 0] PROVE OperatorInv'
    <3>1. DOMAIN m = ObjectFields /\ m.owner = o.owner /\ m.spec = o.spec /\ m.image = o.image
      BY <2>1, <2>2, <1>3 DEF GoodObject, ObjectFields
    <3>2. m # Absent
      BY <3>1 DEF ObjectFields, Absent
    <3> QED BY <1>3, <2>1, <2>2, <3>1, <3>2, ChangeGood DEF GoodObject
  <2>3. ASSUME NEW m, Change(k, m), m = Updated(o, [o.spec EXCEPT !.replicas = @ + 1])
        PROVE  OperatorInv'
    <3>1. PICK spec : spec = [o.spec EXCEPT !.replicas = @ + 1]
      OBVIOUS
    <3>2. "image" \in DOMAIN spec /\ spec.image = o.spec.image
      BY <3>1, <2>1, <1>3 DEF GoodObject
    <3>3. DOMAIN m = ObjectFields /\ m.owner = o.owner /\ m.spec = spec /\ m.image = o.image
      BY <2>1, <2>3, <3>1, <1>3 DEF GoodObject, ObjectFields, Updated
    <3>4. m # Absent
      BY <3>3 DEF ObjectFields, Absent
    <3> QED BY <1>3, <2>1, <2>3, <3>2, <3>3, <3>4, ChangeGood DEF GoodObject
  <2> QED BY <1>7, <2>2, <2>3 DEF Disturb
<1> QED BY <1>1, <1>2, <1>4, <1>5, <1>6, <1>7 DEF Cluster, Collect

-----------------------------------------------------------------------------
(***************************************************************************)
(* The operator's invariant holds for any resources, kinds, names and      *)
(* specs, with any interleaving of users, workers, watch events, garbage   *)
(* collection and faults.                                                  *)
(***************************************************************************)
THEOREM OperatorInvariant == Spec => []OperatorInv
<1>1. ASSUME OperatorInv, [Next]_vars PROVE OperatorInv'
  <2>1. ASSUME NEW r \in Resources, Edit(r) \/ Reconcile(r) PROVE OperatorInv'
    BY <1>1, <2>1, EditGood, ReconcileGood
  <2>2. ASSUME NEW k \in Keys, Cluster(k) \/ Disturb(k) PROVE OperatorInv'
    BY <1>1, <2>2, ClusterGood
  <2>3. CASE UNCHANGED vars
    BY <1>1, <2>3 DEF vars, OperatorInv, StoreInv, ResourceInv, Claims, Sent, Backed
  <2> QED BY <1>1, <2>1, <2>2, <2>3 DEF Next
<1> QED BY <1>1, OperatorInit, PTL DEF Spec

(***************************************************************************)
(* What runs in the cluster was approved, pinned and bounded, with or      *)
(* without the webhook: Reconcile validates what it has read and writes    *)
(* nothing else.                                                           *)
(***************************************************************************)
THEOREM OnlyTheGovernedRuns == Spec => []OnlyGovernedRuns
<1>1. OperatorInv => OnlyGovernedRuns
  BY DEF OperatorInv, StoreInv, GoodObject, Governed, OnlyGovernedRuns
<1> QED BY <1>1, OperatorInvariant, PTL

(***************************************************************************)
(* A Ready or Progressing status of the present generation is about the    *)
(* Deployment last sent for this very incarnation of the resource, through *)
(* stale reads, deletion and re-creation, and namesakes of another kind.   *)
(***************************************************************************)
THEOREM StatusIsAlwaysEarned == Spec => []StatusIsEarned
<1>1. OperatorInv => StatusIsEarned
  BY DEF OperatorInv, ResourceInv, Claims, Backed, Positive, StatusIsEarned
<1> QED BY <1>1, OperatorInvariant, PTL
=============================================================================
