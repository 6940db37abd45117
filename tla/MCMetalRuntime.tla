-------------------------- MODULE MCMetalRuntime --------------------------
(***************************************************************************)
(* Four requests of three prompts, two workers, a queue of two, a cache of *)
(* two entries and a budget of eight tokens: r1 and r3 share a prompt, r3  *)
(* is multimodal, r4 asks for more than there is and its prompt alone      *)
(* takes half of the budget.                                               *)
(***************************************************************************)
EXTENDS MetalRuntime

MCRequests == {"r1", "r2", "r3", "r4"}
MCPrompt == [r \in MCRequests |->
               CASE r \in {"r1", "r3"} -> "p" [] r = "r2" -> "q" [] OTHER -> "s"]
MCPromptTokens == [r \in MCRequests |-> IF r = "r4" THEN 4 ELSE 1]
MCMaxTokens == [r \in MCRequests |-> IF r = "r4" THEN 5 ELSE 2]
=============================================================================
