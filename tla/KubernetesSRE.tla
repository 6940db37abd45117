--------------------------- MODULE KubernetesSRE ---------------------------
(***************************************************************************)
(* Governed changes of the Kubernetes SRE agent                            *)
(* (platforms/kubernetes_sre: actions.py, store.py, service.py, api.py and *)
(* the writing half of client.py).  A proposal is stored, approved by      *)
(* somebody else, claimed by an executing thread, checked, and written to  *)
(* the cluster by a read of the deployment followed by a patch.  Every     *)
(* store call is a transaction of its own, and the cluster changes under   *)
(* the agent's feet.                                                       *)
(***************************************************************************)
EXTENDS Integers, Sequences

CONSTANTS
    Ids,            \* proposal ids (uuid4 in the code)
    People,         \* authenticated subjects
    Proposers, Approvers, Executors,   \* who holds sre-proposer, -approver, -executor
    Deployments,    \* deployments the cluster has
    Managed,        \* those in a namespace of KUBERNETES_SRE_MANAGED_NAMESPACES
    Requests,       \* bodies of POST /v1/proposals
    Threads,        \* threads of the API process that serve /execute
    Lifetime,       \* ticks an approval is valid (15 minutes in the code)
    MaxTime,        \* bound: the clock stops here
    MaxDrift,       \* bound: changes others make to the cluster
    MaxCrashes      \* bound: restarts of the API process

\* A deployment's uid and resourceVersion.
Refs == [uid : Nat, version : Nat]

ASSUME SREAssumption ==
    /\ Proposers \subseteq People /\ Approvers \subseteq People
    /\ Executors \subseteq People
    /\ Managed \subseteq Deployments
    /\ Requests \subseteq [action : {"scale_deployment", "restart_deployment"},
                           resource : Deployments, ref : Refs,
                           replicas : Int, rollback : BOOLEAN]
    /\ Lifetime \in Nat /\ MaxTime \in Nat /\ MaxDrift \in Nat
    /\ MaxCrashes \in Nat

VARIABLES
    proposals,      \* the table proposals
    threads,        \* what each executing thread holds
    cluster,        \* uid and resourceVersion of each deployment
    now,            \* the clock
    drift, crashes, \* changes by others and restarts so far
    mutations       \* history: the patches the cluster took, per proposal

vars == <<proposals, threads, cluster, now, drift, crashes, mutations>>

(***************************************************************************)
(* An ActionProposal is a request and its author.  `ref` is the uid and    *)
(* the version that the author names, whatever the cluster has; `rollback` *)
(* says whether the instructions are more than blanks; `replicas` is what  *)
(* int() makes of the parameter (-1 when it is missing).                   *)
(***************************************************************************)
ActionProposals == [request : Requests, requested_by : People]

Digest(id, proposal) == <<"sha256", id, proposal>>

Approvals == [approved_by : People, proposal_digest : {"sha256"} \X Ids \X ActionProposals,
              expires_at : Nat]

NoRow == [status |-> "absent"]
Rows == [status : {"proposed"}, proposal : ActionProposals]
        \cup [status : {"approved", "executing", "executed", "failed"},
              proposal : ActionProposals, approval : Approvals]

Idle == [pc |-> "idle"]
Busy == [pc : {"claim", "check", "read", "patch", "succeeded", "raised"},
         id : Ids, actor : People, proposal : ActionProposals,
         approval : Approvals]

Mutations == [actor : People, ref : Refs, at : Nat]

TypeOK ==
    /\ proposals \in [Ids -> Rows \cup {NoRow}]
    /\ threads \in [Threads -> Busy \cup {Idle}]
    /\ cluster \in [Deployments -> Refs]
    /\ now \in Nat
    /\ drift \in Nat
    /\ crashes \in Nat
    /\ mutations \in [Ids -> Seq(Mutations)]

Init ==
    /\ proposals = [i \in Ids |-> NoRow]
    /\ threads = [t \in Threads |-> Idle]
    /\ cluster = [d \in Deployments |-> [uid |-> 0, version |-> 0]]
    /\ now = 0
    /\ drift = 0
    /\ crashes = 0
    /\ mutations = [i \in Ids |-> << >>]

-----------------------------------------------------------------------------
(***************************************************************************)
(* Proposing and approving.  A refused request (403, 409) changes nothing  *)
(* and is not a step.                                                      *)
(***************************************************************************)
Propose(i, request, who) ==
    /\ who \in Proposers
    /\ proposals[i].status = "absent"
    /\ proposals' = [proposals EXCEPT ![i] =
           [status |-> "proposed",
            proposal |-> [request |-> request, requested_by |-> who]]]
    /\ UNCHANGED <<threads, cluster, now, drift, crashes, mutations>>

Approval(i, who) ==
    [approved_by |-> who, proposal_digest |-> Digest(i, proposals[i].proposal),
     expires_at |-> now + Lifetime]

Approved(i, who) ==
    [proposals EXCEPT ![i] = [status |-> "approved",
                              proposal |-> proposals[i].proposal,
                              approval |-> Approval(i, who)]]

ApproveAgain(i, who) ==           \* mutant: the UPDATE without its status clause
    /\ who \in Approvers
    /\ proposals[i].status \in {"proposed", "approved", "executing"}
    /\ proposals[i].proposal.requested_by # who
    /\ proposals' = Approved(i, who)
    /\ UNCHANGED <<threads, cluster, now, drift, crashes, mutations>>

Approve(i, who) ==
    /\ who \in Approvers
    /\ proposals[i].status = "proposed"
    /\ proposals[i].proposal.requested_by # who
    /\ proposals' = Approved(i, who)
    /\ UNCHANGED <<threads, cluster, now, drift, crashes, mutations>>

-----------------------------------------------------------------------------
(***************************************************************************)
(* execute.  The thread reads the proposal and its approval, then claims   *)
(* the row, then checks.                                                   *)
(***************************************************************************)
BeginExecute(t, i, who) ==
    /\ threads[t] = Idle
    /\ who \in Executors
    /\ proposals[i].status \notin {"absent", "proposed"}
    /\ threads' = [threads EXCEPT ![t] =
           [pc |-> "claim", id |-> i, actor |-> who,
            proposal |-> proposals[i].proposal, approval |-> proposals[i].approval]]
    /\ UNCHANGED <<proposals, cluster, now, drift, crashes, mutations>>

GoTo(t, pc) == threads' = [threads EXCEPT ![t] = [@ EXCEPT !.pc = pc]]

SetStatus(i, status) ==
    proposals' = [proposals EXCEPT ![i] = [@ EXCEPT !.status = status]]

ClaimUnguarded(t) ==              \* mutant: the claim is not a compare-and-set
    /\ threads[t].pc = "claim"
    /\ SetStatus(threads[t].id, "executing")
    /\ GoTo(t, "check")
    /\ UNCHANGED <<cluster, now, drift, crashes, mutations>>

Claim(t) ==
    /\ threads[t].pc = "claim"
    /\ \/ /\ proposals[threads[t].id].status = "approved"
          /\ SetStatus(threads[t].id, "executing")
          /\ GoTo(t, "check")
       \/ /\ proposals[threads[t].id].status # "approved"
          /\ threads' = [threads EXCEPT ![t] = Idle]
          /\ UNCHANGED proposals
    /\ UNCHANGED <<cluster, now, drift, crashes, mutations>>

(***************************************************************************)
(* ChangeExecutor.execute: everything that must hold before the writer is  *)
(* called.                                                                 *)
(***************************************************************************)
Unexpired(approval) == now < approval.expires_at

AllowedToApprover(i, proposal, approval, actor) ==   \* mutant: the approver may execute
    /\ proposal.request.resource \in Managed
    /\ proposal.request.rollback
    /\ approval.proposal_digest = Digest(i, proposal)
    /\ approval.approved_by # proposal.requested_by
    /\ Unexpired(approval)
    /\ actor # proposal.requested_by
    /\ proposal.request.action = "scale_deployment" =>
          proposal.request.replicas \in 0..100

Allowed(i, proposal, approval, actor) ==
    /\ proposal.request.resource \in Managed
    /\ proposal.request.rollback
    /\ approval.proposal_digest = Digest(i, proposal)
    /\ approval.approved_by # proposal.requested_by
    /\ Unexpired(approval)
    /\ actor \notin {proposal.requested_by, approval.approved_by}
    /\ proposal.request.action = "scale_deployment" =>
          proposal.request.replicas \in 0..100

Check(t) ==
    /\ threads[t].pc = "check"
    /\ GoTo(t, IF Allowed(threads[t].id, threads[t].proposal,
                          threads[t].approval, threads[t].actor)
               THEN "read" ELSE "raised")
    /\ UNCHANGED <<proposals, cluster, now, drift, crashes, mutations>>

(***************************************************************************)
(* The writer: _deployment reads the deployment and compares uid and       *)
(* resourceVersion; a second call patches it.  Either call may fail, and   *)
(* an answer may be lost after the cluster took the patch.                 *)
(***************************************************************************)
Resource(t) == threads[t].proposal.request.resource

ReadDeployment(t) ==
    /\ threads[t].pc = "read"
    /\ \/ GoTo(t, "raised")
       \/ /\ cluster[Resource(t)] = threads[t].proposal.request.ref
          /\ GoTo(t, "patch")
    /\ UNCHANGED <<proposals, cluster, now, drift, crashes, mutations>>

Bump(d) == cluster' = [cluster EXCEPT ![d].version = @ + 1]

Patch(t) ==
    /\ threads[t].pc = "patch"
    /\ Bump(Resource(t))
    /\ mutations' = [mutations EXCEPT ![threads[t].id] =
           Append(@, [actor |-> threads[t].actor, ref |-> cluster[Resource(t)],
                      at |-> now])]
    /\ \/ GoTo(t, "succeeded")
       \/ GoTo(t, "raised")
    /\ UNCHANGED <<proposals, now, drift, crashes>>

PatchFails(t) ==
    /\ threads[t].pc = "patch"
    /\ GoTo(t, "raised")
    /\ UNCHANGED <<proposals, cluster, now, drift, crashes, mutations>>

FinishSwapped(t) ==               \* mutant: every execution is recorded as executed
    /\ threads[t].pc \in {"succeeded", "raised"}
    /\ IF proposals[threads[t].id].status = "executing"
       THEN SetStatus(threads[t].id, "executed")
       ELSE UNCHANGED proposals
    /\ threads' = [threads EXCEPT ![t] = Idle]
    /\ UNCHANGED <<cluster, now, drift, crashes, mutations>>

FinishOnlySuccess(t) ==           \* mutant: the except branch does not record
    /\ threads[t].pc \in {"succeeded", "raised"}
    /\ IF threads[t].pc = "succeeded"
       THEN SetStatus(threads[t].id, "executed")
       ELSE UNCHANGED proposals
    /\ threads' = [threads EXCEPT ![t] = Idle]
    /\ UNCHANGED <<cluster, now, drift, crashes, mutations>>

FinishExecution(t) ==
    /\ threads[t].pc \in {"succeeded", "raised"}
    /\ IF proposals[threads[t].id].status = "executing"
       THEN SetStatus(threads[t].id,
                      IF threads[t].pc = "succeeded" THEN "executed" ELSE "failed")
       ELSE UNCHANGED proposals
    /\ threads' = [threads EXCEPT ![t] = Idle]
    /\ UNCHANGED <<cluster, now, drift, crashes, mutations>>

-----------------------------------------------------------------------------
(***************************************************************************)
(* The surroundings: time, other writers of the cluster (a new version of  *)
(* a deployment, or a deployment deleted and created again), and a restart *)
(* of the API process, which forgets every thread.                         *)
(***************************************************************************)
Tick ==
    /\ now < MaxTime
    /\ now' = now + 1
    /\ UNCHANGED <<proposals, threads, cluster, drift, crashes, mutations>>

Drift(d) ==
    /\ drift < MaxDrift
    /\ drift' = drift + 1
    /\ \/ Bump(d)
       \/ cluster' = [cluster EXCEPT ![d] = [uid |-> @.uid + 1,
                                             version |-> @.version + 1]]
    /\ UNCHANGED <<proposals, threads, now, crashes, mutations>>

Restart ==
    /\ crashes < MaxCrashes
    /\ crashes' = crashes + 1
    /\ threads' = [t \in Threads |-> Idle]
    /\ UNCHANGED <<proposals, cluster, now, drift, mutations>>

Execute(t) ==
    \/ Claim(t)
    \/ Check(t)
    \/ ReadDeployment(t)
    \/ Patch(t)
    \/ PatchFails(t)
    \/ FinishExecution(t)

Next ==
    \/ \E i \in Ids, who \in People :
          \/ \E request \in Requests : Propose(i, request, who)
          \/ Approve(i, who)
          \/ \E t \in Threads : BeginExecute(t, i, who)
    \/ \E t \in Threads : Execute(t)
    \/ Tick
    \/ \E d \in Deployments : Drift(d)
    \/ Restart

Spec == Init /\ [][Next]_vars

(***************************************************************************)
(* A thread takes its own steps.  Nothing is assumed of callers, of the    *)
(* clock or of the cluster: no call of the API server has a timeout, so    *)
(* the steps that wait for its answer may never come.                      *)
(***************************************************************************)
OwnStep(t) == Claim(t) \/ Check(t) \/ FinishExecution(t)

Fairness == \A t \in Threads : WF_vars(OwnStep(t))

FairSpec == Spec /\ Fairness

-----------------------------------------------------------------------------
(***************************************************************************)
(* A proposal changes the cluster at most once, however many executors     *)
(* race for it, whatever fails on the way and however often the process    *)
(* restarts (store.claim_execution).                                       *)
(***************************************************************************)
OneChangePerProposal == \A i \in Ids : Len(mutations[i]) <= 1

(***************************************************************************)
(* docs/KUBERNETES_SRE_AGENT.md: "Proposal author, approver and executor   *)
(* must be three different authenticated identities", each with its role,  *)
(* and only a bounded change inside the managed namespaces is made: told   *)
(* of every change the cluster took, by the row the proposal has now.      *)
(***************************************************************************)
Governed(row, mutation) ==
    /\ row.status \in {"executing", "executed", "failed"}
    /\ row.proposal.requested_by \in Proposers
    /\ row.approval.approved_by \in Approvers \ {row.proposal.requested_by}
    /\ mutation.actor \in
          Executors \ {row.proposal.requested_by, row.approval.approved_by}
    /\ row.proposal.request.resource \in Managed
    /\ row.proposal.request.rollback
    /\ row.proposal.request.action = "scale_deployment" =>
          row.proposal.request.replicas \in 0..100

ChangeIsGoverned ==
    \A i \in Ids : \A n \in DOMAIN mutations[i] :
        Governed(proposals[i], mutations[i][n])

(***************************************************************************)
(* The row tells the truth about the cluster: "executed" says the change   *)
(* was made, "proposed" and "approved" that it was not ("failed" says      *)
(* neither: the answer to a patch may have been lost).                     *)
(***************************************************************************)
StatusMatchesCluster ==
    \A i \in Ids :
        /\ proposals[i].status = "executed" => mutations[i] # << >>
        /\ proposals[i].status \in {"absent", "proposed", "approved"} =>
              mutations[i] = << >>

(***************************************************************************)
(* A proposal and its approval never change once written, and a row's      *)
(* status only moves forward.                                              *)
(***************************************************************************)
Following(status) ==
    CASE status = "absent" -> {"proposed"}
      [] status = "proposed" -> {"approved"}
      [] status = "approved" -> {"executing"}
      [] status = "executing" -> {"executed", "failed"}
      [] OTHER -> {}

RowMoves(row, new) ==
    /\ new.status \in Following(row.status)
    /\ row.status # "absent" => new.proposal = row.proposal
    /\ row.status \notin {"absent", "proposed"} => new.approval = row.approval

RowsMoveForward ==
    [][\A i \in Ids : proposals'[i] # proposals[i] =>
          RowMoves(proposals[i], proposals'[i])]_vars

(***************************************************************************)
(* If the API server answers every call, well or badly, and the process    *)
(* stays up, a claimed proposal does not stay claimed: every way through   *)
(* the executor and the writer reaches finish_execution.  (A call without  *)
(* an answer, or a restart, does leave the row executing for good.)        *)
(***************************************************************************)
Calling(t) == threads[t].pc \in {"read", "patch"}

ClaimsFinish ==
    (\A t \in Threads : []<>~Calling(t)) =>
        \A i \in Ids : proposals[i].status = "executing" ~>
            proposals[i].status \in {"executed", "failed"} \/ crashes > 0

(***************************************************************************)
(* docs/KUBERNETES_SRE_AGENT.md: "Kubernetes UID and `resourceVersion` are *)
(* checked immediately before mutation, preventing stale approval replay." *)
(* A change is applied to the very version of the deployment that the      *)
(* proposal named.                                                         *)
(***************************************************************************)
NoStaleReplay ==
    \A i \in Ids : \A n \in DOMAIN mutations[i] :
        mutations[i][n].ref = proposals[i].proposal.request.ref
=============================================================================
