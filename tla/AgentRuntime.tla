---------------------------- MODULE AgentRuntime ----------------------------
(***************************************************************************)
(* AgentRuntime.invoke, ToolRegistry and FeedbackStore (platforms/agents). *)
(* Invocations of several threads share one runtime; each is taken apart   *)
(* at its calls of the guardrail and of the model.  The guardrail is       *)
(* absent, or one whose check may raise ("Production providers implement   *)
(* this interface").  A text is "clean", "sensitive" (the guardrail's      *)
(* patterns match it) or "refusal", the text given instead of a blocked    *)
(* one.  allowed_tools of a release appears nowhere: nothing reads it.     *)
(***************************************************************************)
EXTENDS Integers, Sequences, FiniteSets

CONSTANTS
    Invocations,        \* trace ids
    Releases, Protected,\* agent releases; those with protected set
    Tools,              \* names of tools
    MaxFeedback         \* bound: feedback items

VARIABLES
    guardrail,          \* "none" or "present"
    invocations,        \* what each invocation is doing, and its texts
    traces,             \* runtime.traces
    tools,              \* registry: name -> spec, or Unregistered
    toolRuns,           \* history: handlers called
    feedback

agentVars == <<guardrail, invocations, traces, tools, toolRuns, feedback>>

Texts == {"clean", "sensitive"}
Roles == {"operator", "viewer"}
ArgumentNames == {"target"}
ToolSpecs == [required_arguments : SUBSET ArgumentNames, allowed_roles : SUBSET Roles,
              side_effecting : BOOLEAN]
Unregistered == [registered |-> FALSE]

Waiting == [at |-> "waiting"]

AgentInit ==
    /\ guardrail \in {"none", "present"}
    /\ invocations = [i \in Invocations |-> Waiting]
    /\ traces = <<>> /\ tools = [t \in Tools |-> Unregistered] /\ toolRuns = {}
    /\ feedback = <<>>

-----------------------------------------------------------------------------
(***************************************************************************)
(* _check: what the check of a text may come to.                           *)
(***************************************************************************)
LocalCheck(text) == IF text = "sensitive" THEN "blocked" ELSE "allowed"

CheckFailingOpen(release, text) ==      \* mutant: unavailable means allowed
    IF guardrail = "none" THEN {"allowed"} ELSE {LocalCheck(text), "raised"}

Check(release, text) ==
    IF guardrail = "none"
    THEN {IF release \in Protected THEN "raised" ELSE "allowed"}
    ELSE {LocalCheck(text), "raised"}

\* The reply and, in the finally block, the trace.
End(i, status, response) ==
    /\ invocations' = [invocations EXCEPT ![i] =
          [at |-> "ended", release |-> @.release, status |-> status,
           response |-> response, prompted |-> @.prompted]]
    /\ traces' = Append(traces, [trace_id |-> i, status |-> status])

Invoke(i, release, text) ==
    /\ invocations[i] = Waiting
    /\ invocations' = [invocations EXCEPT ![i] =
          [at |-> "inbound", release |-> release, text |-> text, prompted |-> "nothing"]]
    /\ UNCHANGED <<guardrail, traces, tools, toolRuns, feedback>>

CheckInbound(i) ==
    /\ invocations[i].at = "inbound"
    /\ \E result \in Check(invocations[i].release, invocations[i].text) :
       CASE result = "raised" -> End(i, "error", "nothing")
         [] result = "blocked" -> End(i, "blocked_input", "refusal")
         [] result = "allowed" ->
              /\ invocations' = [invocations EXCEPT ![i].at = "model",
                                                    ![i].prompted = invocations[i].text]
              /\ UNCHANGED traces
    /\ UNCHANGED <<guardrail, tools, toolRuns, feedback>>

ModelAnswers(i) == \E response \in Texts :
    /\ invocations[i].at = "model"
    /\ invocations' = [invocations EXCEPT ![i].at = "outbound", ![i].text = response]
    /\ UNCHANGED <<guardrail, traces, tools, toolRuns, feedback>>

ModelRaises(i) ==
    /\ invocations[i].at = "model"
    /\ End(i, "error", "nothing")
    /\ UNCHANGED <<guardrail, tools, toolRuns, feedback>>

CheckOutbound(i) ==
    /\ invocations[i].at = "outbound"
    /\ \E result \in Check(invocations[i].release, invocations[i].text) :
       CASE result = "raised" -> End(i, "error", "nothing")
         [] result = "blocked" -> End(i, "blocked_output", "refusal")
         [] result = "allowed" -> End(i, "success", invocations[i].text)
    /\ UNCHANGED <<guardrail, tools, toolRuns, feedback>>

-----------------------------------------------------------------------------
\* A name is registered once.
Register(tool, spec) ==
    /\ tools[tool] = Unregistered
    /\ tools' = [tools EXCEPT ![tool] = spec]
    /\ UNCHANGED <<guardrail, invocations, traces, toolRuns, feedback>>

\* A handler is called with the arguments it was given, the required ones
\* among them.
InvokeTool(tool, arguments, role, approved) ==
    /\ tools[tool] # Unregistered
    /\ role \in tools[tool].allowed_roles
    /\ tools[tool].required_arguments \subseteq arguments
    /\ tools[tool].side_effecting => approved
    /\ toolRuns' = toolRuns \cup {[tool |-> tool, arguments |-> arguments,
                                   role |-> role, approved |-> approved]}
    /\ UNCHANGED <<guardrail, invocations, traces, tools, feedback>>

\* Any trace id is taken, whether an invocation has it or not.
SubmitFeedback(i, score) ==
    /\ Len(feedback) < MaxFeedback
    /\ feedback' = Append(feedback, [trace_id |-> i, score |-> score])
    /\ UNCHANGED <<guardrail, invocations, traces, tools, toolRuns>>

InvocationNext == \E i \in Invocations :
    \/ \E release \in Releases, text \in Texts : Invoke(i, release, text)
    \/ CheckInbound(i) \/ ModelAnswers(i) \/ ModelRaises(i) \/ CheckOutbound(i)
    \/ \E score \in {-1, 1} : SubmitFeedback(i, score)

\* The registry shares nothing with the invocations.
ToolNext == \E tool \in Tools :
    \/ \E spec \in ToolSpecs : Register(tool, spec)
    \/ \E arguments \in SUBSET ArgumentNames, role \in Roles, approved \in BOOLEAN :
          InvokeTool(tool, arguments, role, approved)

AgentNext == InvocationNext \/ ToolNext

AgentSpec == AgentInit /\ [][AgentNext]_agentVars

-----------------------------------------------------------------------------
(***************************************************************************)
(* The runtime fails closed and accounts for it: whatever is missing or    *)
(* raises on the way, a protected release prompts the model with, and      *)
(* returns, no text that a present guardrail did not let through; without  *)
(* a guardrail no text passes at all; every invocation that ended left one *)
(* trace, with the status it ended with, and none that is still running    *)
(* left any.  (Telemetry is taken not to raise: a span that could not be   *)
(* opened, before the try of invoke, would leave no trace.)                *)
(***************************************************************************)
FailsClosed ==
    \A i \in Invocations :
        LET own == {n \in DOMAIN traces : traces[n].trace_id = i}
            it == invocations[i]
        IN  /\ it.at = "ended" => \E n \in own : own = {n} /\ traces[n].status = it.status
            /\ it.at # "ended" => own = {}
            /\ it # Waiting /\ it.release \in Protected =>
                  /\ it.prompted # "sensitive"
                  /\ guardrail = "none" => it.prompted = "nothing"
            /\ it.at = "ended" /\ it.release \in Protected =>
                  /\ it.response # "sensitive"
                  /\ it.response = "clean" => it.status = "success"
=============================================================================
