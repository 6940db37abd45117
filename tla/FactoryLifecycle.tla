-------------------------- MODULE FactoryLifecycle --------------------------
(***************************************************************************)
(* What the factory promises its callers: every workload is one object on  *)
(* which an authorized subject of the workload's own tenant performs one   *)
(* accepted operation at a time.  No request works on an old copy, no      *)
(* change is undone by somebody else's, and nothing else touches a         *)
(* workload.  Factory (handlers, local copies, optimistic versions) is     *)
(* shown to implement this module.                                         *)
(***************************************************************************)
EXTENDS FactoryDomain

CONSTANT Ids               \* workload identifiers
VARIABLE workloads         \* workloads[i] is the object, or NoWorkload

NoWorkload == [stage |-> "absent"]

Init == workloads = [i \in Ids |-> NoWorkload]

Create(i, actor, values) ==
    /\ workloads[i] = NoWorkload
    /\ Authorized(actor, "factory-admin")
    /\ ValidSpec(values)
    /\ workloads' = [workloads EXCEPT ![i] = NewWorkload(values, TenantOf[actor])]

Perform(i, actor, req) ==
    /\ workloads[i] # NoWorkload
    /\ workloads[i].spec.tenant = TenantOf[actor]
    /\ Authorized(actor, RequiredRole(req))
    /\ Accepts(workloads[i], req, actor)
    /\ workloads' = [workloads EXCEPT ![i] = Apply(@, req, actor)]

Next ==
    \E i \in Ids, actor \in Actors :
        \/ \E values \in SpecRequests : Create(i, actor, values)
        \/ \E req \in Requests : Perform(i, actor, req)

Spec == Init /\ [][Next]_workloads
=============================================================================
