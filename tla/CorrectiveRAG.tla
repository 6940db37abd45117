--------------------------- MODULE CorrectiveRAG ---------------------------
(***************************************************************************)
(* Corrective retrieval (platforms/rag/workflow.py): the graph compiled    *)
(* for LangGraph as a state machine, and the loop of invoke as what it is  *)
(* meant to compute.  ProductAssistant.ask (platforms/ecommerce) is the    *)
(* same loop with a rewrite that does not look at the attempt.             *)
(*                                                                         *)
(* Retrieval and grading are a function from queries to the documents that *)
(* are kept, the rewriter one from attempts to queries; both are chosen    *)
(* when a question is asked.  The empty query is false in Python.          *)
(***************************************************************************)
EXTENDS Integers

CONSTANTS
    Queries, Question,  \* queries; the question among them
    EmptyQuery,         \* "", one of the queries
    Documents,
    MaximumAttempts

ASSUME RagAssumption ==
    /\ Question \in Queries /\ EmptyQuery \in Queries
    /\ MaximumAttempts \in Nat \ {0}

VARIABLES
    kept,               \* query -> documents retrieved and graded relevant
    rewritten,          \* attempt -> query the rewriter returns
    node, query, attempts, documents, status

ragVars == <<kept, rewritten, node, query, attempts, documents, status>>

RagInit ==
    /\ kept = [q \in Queries |-> {}] /\ rewritten = [n \in 1 .. MaximumAttempts |-> Question]
    /\ node = "idle" /\ query = EmptyQuery /\ attempts = 0 /\ documents = {}
    /\ status = "none"

Ask ==
    /\ node = "idle"
    /\ kept' \in [Queries -> SUBSET Documents]
    /\ rewritten' \in [1 .. MaximumAttempts -> Queries]
    /\ node' = "retrieve"
    /\ UNCHANGED <<query, attempts, documents, status>>

RouteUnbounded == IF documents' # {} THEN "generate" ELSE "rewrite"   \* mutant

Route ==
    IF documents' # {} THEN "generate"
    ELSE IF attempts' < MaximumAttempts THEN "rewrite" ELSE "refuse"

Retrieve ==
    /\ node = "retrieve" /\ attempts <= MaximumAttempts
    /\ attempts' = attempts + 1
    /\ query' = IF query = EmptyQuery THEN Question ELSE query
    /\ documents' = kept[query']
    /\ node' = Route
    /\ UNCHANGED <<kept, rewritten, status>>

Rewrite ==
    /\ node = "rewrite" /\ node' = "retrieve"
    /\ query' = rewritten[attempts]
    /\ UNCHANGED <<kept, rewritten, attempts, documents, status>>

Generate ==
    /\ node = "generate" /\ node' = "end" /\ status' = "grounded"
    /\ UNCHANGED <<kept, rewritten, query, attempts, documents>>

Refuse ==
    /\ node = "refuse" /\ node' = "end" /\ status' = "insufficient_evidence"
    /\ UNCHANGED <<kept, rewritten, query, attempts, documents>>

RagNext == Ask \/ Retrieve \/ Rewrite \/ Generate \/ Refuse

RagSpec == RagInit /\ [][RagNext]_ragVars

-----------------------------------------------------------------------------
(***************************************************************************)
(* invoke: the first attempt whose query keeps a document decides.         *)
(***************************************************************************)
QueryOf(attempt) == IF attempt = 1 THEN Question ELSE rewritten[attempt - 1]

Successful == {n \in 1 .. MaximumAttempts : kept[QueryOf(n)] # {}}

InvokeResult ==
    IF Successful = {}
    THEN [status |-> "insufficient_evidence", documents |-> {}, attempts |-> MaximumAttempts]
    ELSE LET n == CHOOSE n \in Successful : \A m \in Successful : n <= m
         IN  [status |-> "grounded", documents |-> kept[QueryOf(n)], attempts |-> n]

(***************************************************************************)
(* The two ways to run the workflow agree on status, evidence and number   *)
(* of attempts, whatever is retrieved and however it is rewritten, as long *)
(* as the rewriter returns no empty query (the graph then asks the         *)
(* question again where the loop searches for nothing).                    *)
(***************************************************************************)
GraphComputesInvoke ==
    /\ attempts <= MaximumAttempts
    /\ node = "end" /\ EmptyQuery \notin {rewritten[n] : n \in 1 .. MaximumAttempts}
       => [status |-> status, documents |-> documents, attempts |-> attempts] = InvokeResult
=============================================================================
