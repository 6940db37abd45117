------------------------------- MODULE MLOps -------------------------------
(***************************************************************************)
(* The MLOps control plane: the model-run state machine                    *)
(* (platforms/mlops/domain.py), its SQLite store (store.py) and the API    *)
(* handlers over them (api.py), run by worker threads.  A handler          *)
(* reads a run, changes its copy and saves it; save is a SELECT of the     *)
(* revision followed by an UPDATE that does not mention it, and the two    *)
(* statements are separate transactions.                                   *)
(***************************************************************************)
EXTENDS Naturals, Sequences

CONSTANTS
    Runs,           \* run ids (uuid4 in the code)
    Actors,         \* names a request gives as owner or actor
    NoActor,        \* Python's None
    Evaluations,    \* bodies of POST /evaluation
    Workers,        \* threads that serve requests
    MaxRevision     \* bound: runs at this revision take no more requests

ASSUME MLOpsAssumption == NoActor \notin Actors /\ MaxRevision \in Nat

VARIABLES
    table,          \* the table model_runs
    workers         \* what each thread holds

registryVars == <<table, workers>>

TRANSITIONS ==
    [created     |-> {"training"},
     training    |-> {"evaluating"},
     evaluating  |-> {"rejected", "candidate"},
     candidate   |-> {"approved", "rejected"},
     approved    |-> {"deploying"},
     deploying   |-> {"canary", "rolled_back"},
     canary      |-> {"production", "rolled_back"},
     production  |-> {"rolled_back", "retired"},
     rolled_back |-> {"retired"},
     rejected    |-> {},
     retired     |-> {}]

RunStates == DOMAIN TRANSITIONS

Hops == [from : RunStates, to : RunStates, actor : Actors]

ModelRuns == [owner : Actors, state : RunStates, artifact : BOOLEAN,
              approver : Actors \cup {NoActor}, history : Seq(Hops)]

(***************************************************************************)
(* A run that is not in the table has revision 0.                          *)
(***************************************************************************)
NoRow == [revision |-> 0]
Rows == [payload : ModelRuns, revision : Nat \ {0}]

NoRequest == [pc |-> "idle"]

RegistryTypeOK ==
    /\ table \in [Runs -> Rows \cup {NoRow}]
    /\ workers \in [Workers -> {NoRequest} \cup
            [pc : {"check", "write"}, id : Runs, run : ModelRuns,
             revision : Nat \ {0}]]

RegistryInit ==
    /\ table = [r \in Runs |-> NoRow]
    /\ workers = [h \in Workers |-> NoRequest]

-----------------------------------------------------------------------------
(***************************************************************************)
(* The domain.  An evaluation passes when no minimum is missed and no      *)
(* maximum exceeded; a metric that was not reported misses both.           *)
(***************************************************************************)
PolicyPasses(evaluation) ==
    /\ \A m \in DOMAIN evaluation.minimum :
          m \in DOMAIN evaluation.metrics
          /\ evaluation.metrics[m] >= evaluation.minimum[m]
    /\ \A m \in DOMAIN evaluation.maximum :
          m \in DOMAIN evaluation.metrics
          /\ evaluation.metrics[m] <= evaluation.maximum[m]

CanTransitionAnywhere(run, target, actor, reason) ==  \* mutant: table not consulted
    target = "approved" => actor # run.owner /\ reason

CanTransition(run, target, actor, reason) ==
    /\ target \in TRANSITIONS[run.state]
    /\ target = "approved" => actor # run.owner /\ reason

Transition(run, target, actor) ==
    [run EXCEPT
        !.approver = IF target = "approved" THEN actor ELSE @,
        !.history = Append(@, [from |-> run.state, to |-> target, actor |-> actor]),
        !.state = target]

RecordEvaluation(run, evaluation, actor) ==
    Transition([run EXCEPT !.artifact = TRUE],
               IF PolicyPasses(evaluation) THEN "candidate" ELSE "rejected",
               actor)

-----------------------------------------------------------------------------
Exists(r) == table[r].revision > 0

CreateRun(h, r, owner) ==
    /\ workers[h] = NoRequest
    /\ ~Exists(r)
    /\ table' = [table EXCEPT ![r] =
           [payload |-> [owner |-> owner, state |-> "created", artifact |-> FALSE,
                         approver |-> NoActor, history |-> << >>],
            revision |-> 1]]
    /\ UNCHANGED workers

(***************************************************************************)
(* The head of both handlers: the run exists and has the revision that the *)
(* caller gives in If-Match.  Refused requests (404, 409, 422) change      *)
(* nothing and are not steps.                                              *)
(***************************************************************************)
Read(h, r, if_match) ==
    /\ workers[h] = NoRequest
    /\ Exists(r)
    /\ table[r].revision = if_match
    /\ if_match < MaxRevision

HoldRun(h, r, run) ==
    /\ workers' = [workers EXCEPT ![h] =
           [pc |-> "check", id |-> r, run |-> run,
            revision |-> table[r].revision]]
    /\ UNCHANGED table

TransitionRun(h, r, if_match, target, actor, reason) ==
    /\ Read(h, r, if_match)
    /\ CanTransition(table[r].payload, target, actor, reason)
    /\ HoldRun(h, r, Transition(table[r].payload, target, actor))

EvaluateRun(h, r, if_match, evaluation, actor) ==
    /\ Read(h, r, if_match)
    /\ table[r].payload.state = "evaluating"
    /\ HoldRun(h, r, RecordEvaluation(table[r].payload, evaluation, actor))

(***************************************************************************)
(* save, first statement: the stored revision must be the one read.        *)
(***************************************************************************)
Check(h) ==
    /\ workers[h].pc = "check"
    /\ \/ /\ table[workers[h].id].revision = workers[h].revision
          /\ workers' = [workers EXCEPT ![h] = [@ EXCEPT !.pc = "write"]]
       \/ /\ table[workers[h].id].revision # workers[h].revision
          /\ workers' = [workers EXCEPT ![h] = NoRequest]
    /\ UNCHANGED table

Write(h) ==
    /\ workers[h].pc = "write"
    /\ table' = [table EXCEPT ![workers[h].id] =
           [payload |-> workers[h].run, revision |-> workers[h].revision + 1]]
    /\ workers' = [workers EXCEPT ![h] = NoRequest]

(***************************************************************************)
(* The process dies, or the database stays locked: the request is lost     *)
(* before its write.                                                       *)
(***************************************************************************)
AbandonRun(h) ==
    /\ workers[h] # NoRequest
    /\ workers' = [workers EXCEPT ![h] = NoRequest]
    /\ UNCHANGED table

RegistryNext ==
    \E h \in Workers :
        \/ Check(h)
        \/ Write(h)
        \/ AbandonRun(h)
        \/ \E r \in Runs, actor \in Actors :
              \/ CreateRun(h, r, actor)
              \/ \E if_match \in 1..MaxRevision :
                    \/ \E target \in RunStates, reason \in BOOLEAN :
                          TransitionRun(h, r, if_match, target, actor, reason)
                    \/ \E evaluation \in Evaluations :
                          EvaluateRun(h, r, if_match, evaluation, actor)

RegistrySpec == RegistryInit /\ [][RegistryNext]_registryVars

(***************************************************************************)
(* Whatever writes overtake each other, what is stored of a run is one     *)
(* legal story: its history starts at created, every hop is allowed by     *)
(* TRANSITIONS and starts where the one before ended, the last one leads   *)
(* to the stored state; and the owner never approves: a run that was ever  *)
(* approved names as approver the actor of that hop, who is not the owner, *)
(* and one that was not has no approver.                                   *)
(***************************************************************************)
LegalStory(run) ==
    LET n == Len(run.history) IN
    /\ \A k \in 1..n :
          /\ run.history[k].to \in TRANSITIONS[run.history[k].from]
          /\ run.history[k].from =
                IF k = 1 THEN "created" ELSE run.history[k - 1].to
    /\ run.state = IF n = 0 THEN "created" ELSE run.history[n].to

Separated(run) ==
    IF \E k \in 1..Len(run.history) : run.history[k].to = "approved"
    THEN /\ run.approver # run.owner
         /\ \A k \in 1..Len(run.history) : run.history[k].to = "approved" =>
                run.history[k].actor = run.approver
    ELSE run.approver = NoActor

HistoryIsLegal ==
    \A r \in Runs : Exists(r) =>
        LegalStory(table[r].payload) /\ Separated(table[r].payload)

(***************************************************************************)
(* docs/ARCHITECTURE.md: "Persistent writes use optimistic concurrency to  *)
(* prevent two reviewers from unknowingly overwriting each other."  No     *)
(* step drops an entry of a stored history, and every change advances the  *)
(* revision by one.                                                        *)
(***************************************************************************)
Extends(row, new) ==
    /\ new.revision = row.revision + 1
    /\ SubSeq(new.payload.history, 1, Len(row.payload.history))
           = row.payload.history

NoOverwrite ==
    [][\A r \in Runs : Exists(r) /\ table'[r] # table[r] =>
          Extends(table[r], table'[r])]_registryVars
=============================================================================
