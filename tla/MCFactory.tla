----------------------------- MODULE MCFactory -----------------------------
(***************************************************************************)
(* A small factory: two release gates (and one unsupported gate name), two *)
(* tenants, an owner who is administrator, evaluator and approver at once  *)
(* (the development identity), a subject who may evaluate and approve, one *)
(* who may only approve, and an administrator of the other tenant.         *)
(***************************************************************************)
EXTENDS Factory, TLC

MCSymmetry == Permutations(Handlers)

MCActors == {"ann", "eve", "rob", "zoe"}

MCRolesOf == [ann |-> {"factory-admin", "release-approver"},
              eve |-> {"gate-evaluator", "release-approver"},
              rob |-> {"gate-evaluator", "release-approver"},
              zoe |-> {"factory-admin", "release-approver"}]

MCTenantOf == [ann |-> "t1", eve |-> "t1", rob |-> "t1", zoe |-> "t2"]

(***************************************************************************)
(* One specification the policy allows, one it denies, one the constructor *)
(* rejects.                                                                *)
(***************************************************************************)
Plain == [name |-> "dns-label", owner |-> "ann", environment |-> "production",
          data_classification |-> "internal", artifact_digest |-> "sha256",
          availability_target |-> 99900, latency_p95_ms |-> 200,
          error_rate_target |-> 10,
          requires_gpu |-> FALSE, internet_egress |-> FALSE]

MCSpecRequests == {Plain,
                   [Plain EXCEPT !.internet_egress = TRUE],
                   [Plain EXCEPT !.availability_target = 100000]}

(***************************************************************************)
(* Well-formed verified results for either gate (one of them may fail), and *)
(* one request for each way a gate request is refused.                     *)
(***************************************************************************)
GateResult(gate, passed, signature) ==
    [op |-> "gate", gate |-> gate, passed |-> passed, statement |-> TRUE,
     signature |-> signature]

MCGateRequests ==
    {GateResult("quality", TRUE, "verified"),
     GateResult("quality", FALSE, "verified"),
     GateResult("rollback", TRUE, "verified"),
     GateResult("latency", TRUE, "verified"),
     GateResult("quality", TRUE, "none"),
     GateResult("quality", TRUE, "refuted"),
     [GateResult("quality", TRUE, "verified") EXCEPT !.statement = FALSE]}

MCActionRequests ==
    {[op |-> o, reason |-> TRUE] : o \in Operations \cup {"other"}} \cup
    {[op |-> "suspend", reason |-> FALSE]}
=============================================================================
