----------------------------- MODULE MCOperator -----------------------------
(***************************************************************************)
(* Three cases, one at a time: a ModelDeployment and an AgentDeployment of *)
(* the same name, with one spec each and no faults; a ModelDeployment      *)
(* alone, whose image changes, with faults; an EvaluationRun, whose Job    *)
(* shares no object with the others.  Numbers wrap at 2^18 instead of      *)
(* 2^32, so that 262146 replicas are 2 once converted.  The schema of      *)
(* ModelDeployment refuses such a number, the other kinds have none.  The  *)
(* EvaluationRun is written where no webhook is.                           *)
(***************************************************************************)
EXTENDS Operator

VARIABLE focus

Good == [image |-> "d1", approved |-> TRUE, resources |-> "good"]

MCKindOf == [model |-> "ModelDeployment", agent |-> "AgentDeployment",
             run |-> "EvaluationRun"]
MCNameOf == [r \in Resources |-> "a"]

MCRawSpecs ==
    [model |-> {Good, [Good EXCEPT !.image = "d2"], [Good EXCEPT !.approved = FALSE]},
     agent |-> {[image |-> "d1", approved |-> TRUE, replicas |-> 262146,
                 resources |-> "good"]},
     run   |-> {Good, [Good EXCEPT !.approved = FALSE], [image |-> ""],
                [Good EXCEPT !.resources = "malformed"]}]

\* An agent of 101 replicas, for the webhook's own run.
Unbounded ==
    [r \in Resources |->
        IF r = "agent" THEN {[image |-> "d1", approved |-> TRUE, replicas |-> 101,
                              resources |-> "good"]}
        ELSE {}]

MCInit == Init /\ focus \in {{"model", "agent"}, {"model"}, {"run"}}

MCNext ==
    /\ Next
    /\ \A r \in Resources \ focus : resources'[r] = Absent
    /\ "agent" \in focus /\ resources'["model"] # Absent =>
          resources'["model"].raw = Good
    /\ "agent" \in focus => faults' = 0
    /\ UNCHANGED focus

MCSpec == MCInit /\ [][MCNext]_<<vars, focus>> /\ Fairness
=============================================================================
