-------------------------- MODULE MCKubernetesSRE --------------------------
(***************************************************************************)
(* One proposal, three people of whom two hold more than one role, one     *)
(* managed and one unmanaged deployment, a legal scale, a restart, and     *)
(* requests that fail each check of the executor.  A request names the     *)
(* first version of a deployment, the one that a change of another writer  *)
(* makes, or the one of a deployment created again.                        *)
(***************************************************************************)
EXTENDS KubernetesSRE

Ref(uid, version) == [uid |-> uid, version |-> version]

Request(action, resource, ref, replicas, rollback) ==
    [action |-> action, resource |-> resource, ref |-> ref, replicas |-> replicas,
     rollback |-> rollback]

MCRequests ==
    {Request("scale_deployment", "payments", ref, 100, TRUE) :
        ref \in {Ref(0, 0), Ref(0, 1), Ref(1, 1)}}
    \cup {Request("scale_deployment", "payments", Ref(0, 0), 101, TRUE),
          Request("restart_deployment", "payments", Ref(0, 0), -1, TRUE),
          Request("restart_deployment", "payments", Ref(0, 0), -1, FALSE),
          Request("restart_deployment", "dns", Ref(0, 0), -1, TRUE)}

FewRequests ==
    {Request("scale_deployment", "payments", Ref(0, 0), 0, TRUE),
     Request("restart_deployment", "payments", Ref(0, 0), -1, FALSE)}
=============================================================================
