----------------------------- MODULE MCServing -----------------------------
(***************************************************************************)
(* The services whose state is in the memory of one process, where threads *)
(* of a pool share it.  They share nothing with each other, so a behaviour *)
(* is one of: the incident workflow (two people who may do everything),    *)
(* the decision engine (three threads, a cache smaller than the keys, one  *)
(* key of a question that is not cacheable), the banking service (three    *)
(* events, two remembered, two contents that are decided differently),     *)
(* corrective retrieval (three attempts, an empty query among the          *)
(* rewrites), the agent runtime (two invocations, a protected and an       *)
(* unprotected release) and its tool registry.                             *)
(***************************************************************************)
EXTENDS MCIncident, DecisionOps, Banking, CorrectiveRAG, AgentRuntime

VARIABLE service

\* Declined (28 + 24 + 25 + 2) and approved (2 + 4).
MCTransactions == {{"high_amount", "untrusted_device", "auth_failures"}, {"ecommerce"}}

MCServingSymmetry == MCSymmetry \cup Permutations(Callers)

MCInit ==
    /\ service \in {"incidents", "decisions", "banking", "rag", "agents", "tools"}
    /\ Init /\ DecisionInit /\ BankingInit /\ RagInit /\ AgentInit
    /\ service # "agents" => guardrail = "present"
    /\ service # "incidents" => related

MCNext ==
    /\ UNCHANGED service
    /\ \/ service = "incidents" /\ Next
          /\ UNCHANGED <<decisionVars, bankingVars, ragVars, agentVars>>
       \/ service = "decisions" /\ DecisionNext
          /\ UNCHANGED <<vars, bankingVars, ragVars, agentVars>>
       \/ service = "banking" /\ BankingNext
          /\ UNCHANGED <<vars, decisionVars, ragVars, agentVars>>
       \/ service = "rag" /\ RagNext
          /\ UNCHANGED <<vars, decisionVars, bankingVars, agentVars>>
       \/ service = "agents" /\ InvocationNext
          /\ UNCHANGED <<vars, decisionVars, bankingVars, ragVars>>
       \/ service = "tools" /\ ToolNext
          /\ UNCHANGED <<vars, decisionVars, bankingVars, ragVars>>

MCSpec ==
    MCInit /\ [][MCNext]_<<service, vars, decisionVars, bankingVars, ragVars, agentVars>>
=============================================================================
