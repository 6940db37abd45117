----------------------------- MODULE SREProofs -----------------------------
(***************************************************************************)
(* Proofs about KubernetesSRE for any number of proposals, people,         *)
(* deployments, executing threads and restarts, and for a clock and a      *)
(* cluster that move as they please.                                       *)
(***************************************************************************)
EXTENDS KubernetesSRE, TLAPS

(***************************************************************************)
(* The inductive invariant.  A thread is Owning from its claim on; what it *)
(* holds agrees with the row; nobody else owns that row; and the row has   *)
(* been applied exactly when its owner has got past the patch.  RowInv     *)
(* says the same of rows nobody owns, a claim lost in a restart included.  *)
(***************************************************************************)
Owning == {"check", "read", "patch", "succeeded", "raised"}

Permitted(row, actor) ==
    /\ actor \notin {row.proposal.requested_by, row.approval.approved_by}
    /\ row.proposal.request.resource \in Managed
    /\ row.proposal.request.rollback
    /\ row.proposal.request.action = "scale_deployment" =>
          row.proposal.request.replicas \in 0..100

RowInv(row, m) ==
    /\ row.status # "absent" => row.proposal.requested_by \in Proposers
    /\ row.status \notin {"absent", "proposed"} =>
          row.approval.approved_by \in Approvers \ {row.proposal.requested_by}
    /\ row.status \in {"absent", "proposed", "approved"} => m = << >>
    /\ row.status = "executed" => m # << >>
    /\ Len(m) <= 1
    /\ \A n \in DOMAIN m : Governed(row, m[n])

ThreadInv(th, row, m) ==
    /\ row.status \notin {"absent", "proposed"}
    /\ th.proposal = row.proposal
    /\ th.approval = row.approval
    /\ th.actor \in Executors
    /\ th.pc \in Owning => row.status = "executing"
    /\ th.pc \in {"check", "read", "patch"} => m = << >>
    /\ th.pc = "succeeded" => m # << >>
    /\ th.pc \in {"read", "patch"} => Permitted(row, th.actor)

RowsOK == \A i \in Ids : RowInv(proposals[i], mutations[i])
ThreadsOK ==
    \A t \in Threads : threads[t].pc # "idle" =>
        ThreadInv(threads[t], proposals[threads[t].id], mutations[threads[t].id])
Exclusive ==
    \A t, u \in Threads :
        threads[t].pc \in Owning /\ threads[u].pc \in Owning
            /\ threads[t].id = threads[u].id => t = u

IInv == TypeOK /\ RowsOK /\ ThreadsOK /\ Exclusive

-----------------------------------------------------------------------------
(***************************************************************************)
(* The initial state is well typed.                                        *)
(***************************************************************************)
LEMMA InitTyped == Init => TypeOK
<1> SUFFICES ASSUME Init PROVE TypeOK
    OBVIOUS
<1>1. [uid |-> 0, version |-> 0] \in Refs
    BY DEF Refs
<1> QED BY <1>1 DEF Init, TypeOK

(***************************************************************************)
(* Whatever a thread's next state is called, it stays a well-typed thread. *)
(***************************************************************************)
LEMMA GoToTyped ==
    ASSUME TypeOK, NEW t \in Threads, threads[t].pc # "idle",
           NEW pc \in {"claim", "check", "read", "patch", "succeeded", "raised"},
           GoTo(t, pc)
    PROVE  threads' \in [Threads -> Busy \cup {Idle}]
<1>1. threads[t] \in Busy
    BY DEF TypeOK, Idle
<1>2. [threads[t] EXCEPT !.pc = pc] \in Busy
    BY <1>1 DEF Busy
<1> QED BY <1>2 DEF GoTo, TypeOK

(***************************************************************************)
(* A row that has an approval keeps its type under a new later status.     *)
(***************************************************************************)
LEMMA SetStatusTyped ==
    ASSUME TypeOK, NEW i \in Ids, proposals[i].status \notin {"absent", "proposed"},
           NEW status \in {"approved", "executing", "executed", "failed"},
           SetStatus(i, status)
    PROVE  proposals' \in [Ids -> Rows \cup {NoRow}]
<1>1. proposals[i] \in [status : {"approved", "executing", "executed", "failed"},
                        proposal : ActionProposals, approval : Approvals]
    BY DEF TypeOK, Rows, NoRow
<1>2. [proposals[i] EXCEPT !.status = status] \in Rows
    BY <1>1 DEF Rows
<1> QED BY <1>2 DEF SetStatus, TypeOK

(***************************************************************************)
(* Every step keeps the types.                                             *)
(***************************************************************************)
LEMMA NextTyped == TypeOK /\ [Next]_vars => TypeOK'
<1> SUFFICES ASSUME TypeOK, [Next]_vars PROVE TypeOK'
    OBVIOUS
<1> USE SREAssumption
<1>1. ASSUME NEW i \in Ids, NEW who \in People, NEW request \in Requests,
             Propose(i, request, who)
      PROVE  TypeOK'
  <2>1. [request |-> request, requested_by |-> who] \in ActionProposals
      BY DEF ActionProposals
  <2>2. [status |-> "proposed",
         proposal |-> [request |-> request, requested_by |-> who]] \in Rows
      BY <2>1 DEF Rows
  <2> QED BY <1>1, <2>2 DEF Propose, TypeOK
<1>2. ASSUME NEW i \in Ids, NEW who \in People, Approve(i, who)
      PROVE  TypeOK'
  <2>1. proposals[i].proposal \in ActionProposals
      BY <1>2 DEF Approve, TypeOK, Rows, NoRow
  <2>2. Approval(i, who) \in Approvals
      BY <2>1 DEF Approval, Approvals, Digest, TypeOK
  <2>3. [status |-> "approved", proposal |-> proposals[i].proposal,
         approval |-> Approval(i, who)] \in Rows
      BY <2>1, <2>2 DEF Rows
  <2> QED BY <1>2, <2>3 DEF Approve, Approved, TypeOK
<1>3. ASSUME NEW t \in Threads, NEW i \in Ids, NEW who \in People,
             BeginExecute(t, i, who)
      PROVE  TypeOK'
  <2>1. proposals[i].proposal \in ActionProposals /\ proposals[i].approval \in Approvals
      BY <1>3 DEF BeginExecute, TypeOK, Rows, NoRow
  <2>2. [pc |-> "claim", id |-> i, actor |-> who, proposal |-> proposals[i].proposal,
         approval |-> proposals[i].approval] \in Busy
      BY <2>1 DEF Busy
  <2> QED BY <1>3, <2>2 DEF BeginExecute, TypeOK
<1>4. ASSUME NEW t \in Threads, Claim(t) PROVE TypeOK'
  <2>1. threads[t] \in Busy
      BY <1>4 DEF Claim, TypeOK, Idle
  <2>2. threads[t].id \in Ids
      BY <2>1 DEF Busy
  <2>3. CASE proposals[threads[t].id].status = "approved"
    <3>1. SetStatus(threads[t].id, "executing") /\ GoTo(t, "check")
        BY <1>4, <2>3 DEF Claim
    <3>2. threads[t].pc # "idle"
        BY <1>4 DEF Claim
    <3> QED BY <1>4, <2>2, <2>3, <3>1, <3>2, GoToTyped, SetStatusTyped DEF Claim, TypeOK
  <2>4. CASE proposals[threads[t].id].status # "approved"
      BY <1>4, <2>4 DEF Claim, TypeOK
  <2> QED BY <2>3, <2>4
<1>5. ASSUME NEW t \in Threads, Check(t) PROVE TypeOK'
  <2> DEFINE pc == IF Allowed(threads[t].id, threads[t].proposal,
                              threads[t].approval, threads[t].actor)
                   THEN "read" ELSE "raised"
  <2>1. GoTo(t, pc) /\ pc \in {"read", "raised"} /\ threads[t].pc # "idle"
      BY <1>5 DEF Check
  <2> HIDE DEF pc
  <2> QED BY <1>5, <2>1, GoToTyped DEF Check, TypeOK
<1>6. ASSUME NEW t \in Threads, ReadDeployment(t) PROVE TypeOK'
    BY <1>6, GoToTyped DEF ReadDeployment, TypeOK
<1>7. ASSUME NEW t \in Threads, Patch(t) PROVE TypeOK'
  <2>1. threads[t] \in Busy /\ threads[t].pc # "idle"
      BY <1>7 DEF Patch, TypeOK, Idle
  <2>2. threads[t].id \in Ids /\ threads[t].actor \in People /\ Resource(t) \in Deployments
      BY <2>1 DEF Busy, ActionProposals, Resource
  <2>3. cluster[Resource(t)] \in Refs
      BY <2>2 DEF TypeOK
  <2>4. [cluster[Resource(t)] EXCEPT !.version = cluster[Resource(t)].version + 1] \in Refs
      BY <2>3 DEF Refs
  <2>5. [actor |-> threads[t].actor, ref |-> cluster[Resource(t)], at |-> now] \in Mutations
      BY <2>2, <2>3 DEF Mutations, TypeOK
  <2>6. mutations' \in [Ids -> Seq(Mutations)]
      BY <1>7, <2>2, <2>5 DEF Patch, TypeOK
  <2>7. cluster' \in [Deployments -> Refs]
      BY <1>7, <2>2, <2>4 DEF Patch, Bump, TypeOK
  <2>8. threads' \in [Threads -> Busy \cup {Idle}]
      BY <1>7, <2>1, GoToTyped DEF Patch
  <2> QED BY <1>7, <2>6, <2>7, <2>8 DEF Patch, TypeOK
<1>8. ASSUME NEW t \in Threads, PatchFails(t) PROVE TypeOK'
    BY <1>8, GoToTyped DEF PatchFails, TypeOK
<1>9. ASSUME NEW t \in Threads, FinishExecution(t) PROVE TypeOK'
  <2>1. threads[t].id \in Ids
      BY <1>9 DEF FinishExecution, TypeOK, Idle, Busy
  <2>2. CASE proposals[threads[t].id].status = "executing"
    <3> DEFINE st == IF threads[t].pc = "succeeded" THEN "executed" ELSE "failed"
    <3>1. SetStatus(threads[t].id, st) /\ st \in {"executed", "failed"}
        BY <1>9, <2>2 DEF FinishExecution
    <3> HIDE DEF st
    <3> QED BY <1>9, <2>1, <2>2, <3>1, SetStatusTyped DEF FinishExecution, TypeOK
  <2>3. CASE proposals[threads[t].id].status # "executing"
      BY <1>9, <2>3 DEF FinishExecution, TypeOK
  <2> QED BY <2>2, <2>3
<1>10. CASE Tick
    BY <1>10 DEF Tick, TypeOK
<1>11. ASSUME NEW d \in Deployments, Drift(d) PROVE TypeOK'
  <2>1. cluster[d] \in Refs
      BY DEF TypeOK
  <2>2. [cluster[d] EXCEPT !.version = cluster[d].version + 1] \in Refs
        /\ [uid |-> cluster[d].uid + 1, version |-> cluster[d].version + 1] \in Refs
      BY <2>1 DEF Refs
  <2>3. cluster' \in [Deployments -> Refs]
    <3>1. CASE Bump(d)
        BY <2>2, <3>1 DEF Bump, TypeOK
    <3>2. CASE ~Bump(d)
      <4>1. cluster' = [cluster EXCEPT ![d] = [uid |-> cluster[d].uid + 1,
                                               version |-> cluster[d].version + 1]]
          BY <1>11, <3>2 DEF Drift
      <4> QED BY <2>2, <4>1 DEF TypeOK
    <3> QED BY <3>1, <3>2
  <2> QED BY <1>11, <2>3 DEF Drift, TypeOK
<1>12. CASE Restart
    BY <1>12 DEF Restart, TypeOK
<1>13. CASE UNCHANGED vars
    BY <1>13 DEF vars, TypeOK
<1> QED BY <1>1, <1>2, <1>3, <1>4, <1>5, <1>6, <1>7, <1>8, <1>9, <1>10, <1>11,
           <1>12, <1>13 DEF Next, Execute

(***************************************************************************)
(* TypeOK of KubernetesSRE is an invariant.                                *)
(***************************************************************************)
THEOREM TypeCorrect == Spec => []TypeOK
BY InitTyped, NextTyped, PTL DEF Spec

-----------------------------------------------------------------------------
(***************************************************************************)
(* What the types say of a thread that serves a request.                   *)
(***************************************************************************)
LEMMA BusyTypes ==
    ASSUME TypeOK, NEW t \in Threads, threads[t].pc # "idle"
    PROVE  /\ threads[t] \in Busy
           /\ threads[t].id \in Ids
           /\ threads[t].proposal \in ActionProposals
           /\ mutations[threads[t].id] \in Seq(Mutations)
<1>1. threads[t] \in Busy
    BY DEF TypeOK, Idle
<1> QED BY <1>1 DEF Busy, TypeOK

(***************************************************************************)
(* A step of the thread that owns a row, or that claims it, on that row:   *)
(* if the new row and the new thread are good, no other thread is          *)
(* disturbed, because none of them owns the row.                           *)
(***************************************************************************)
LEMMA OwnerStep ==
    ASSUME TypeOK, RowsOK, ThreadsOK, Exclusive,
           NEW t \in Threads, threads[t].pc # "idle",
           NEW i, i = threads[t].id,
           threads[t].pc \in Owning \/ proposals[i].status = "approved",
           NEW th, NEW row, NEW m,
           threads' = [threads EXCEPT ![t] = th],
           proposals' = [proposals EXCEPT ![i] = row],
           mutations' = [mutations EXCEPT ![i] = m],
           row.status \notin {"absent", "proposed"},
           row.proposal = proposals[i].proposal,
           row.approval = proposals[i].approval,
           RowInv(row, m),
           th.pc = "idle" \/ (th.id = i /\ ThreadInv(th, row, m))
    PROVE  RowsOK' /\ ThreadsOK' /\ Exclusive'
<1>1. i \in Ids
    BY BusyTypes
<1>2. RowsOK'
    BY <1>1 DEF RowsOK, TypeOK
<1>3. ASSUME NEW u \in Threads, u # t, threads[u].pc \in Owning
      PROVE  threads[u].id # i
    BY <1>3 DEF Exclusive, ThreadsOK, ThreadInv, Owning
<1>4. ASSUME NEW u \in Threads, threads'[u].pc # "idle"
      PROVE  ThreadInv(threads'[u], proposals'[threads'[u].id], mutations'[threads'[u].id])
  <2>1. CASE u = t
      BY <1>1, <1>4, <2>1 DEF TypeOK
  <2>2. CASE u # t
    <3>1. threads'[u] = threads[u] /\ threads[u].id \in Ids
          /\ ThreadInv(threads[u], proposals[threads[u].id], mutations[threads[u].id])
        BY <1>4, <2>2, BusyTypes DEF TypeOK, ThreadsOK
    <3>2. CASE threads[u].id # i
        BY <3>1, <3>2 DEF TypeOK
    <3>3. CASE threads[u].id = i
      <4>1. threads[u].pc = "claim"
          BY <1>3, <1>4, <2>2, <3>1, <3>3, BusyTypes DEF Busy, Owning
      <4>2. proposals'[i] = row /\ mutations'[i] = m
          BY <1>1 DEF TypeOK
      <4>3. ThreadInv(threads[u], row, m)
          BY <3>1, <3>3, <4>1 DEF ThreadInv, Owning
      <4> QED BY <3>1, <3>3, <4>2, <4>3
    <3> QED BY <3>2, <3>3
  <2> QED BY <2>1, <2>2
<1>5. ThreadsOK'
    BY <1>4 DEF ThreadsOK
<1>6. Exclusive'
  <2> SUFFICES ASSUME NEW u \in Threads, NEW v \in Threads,
                      threads'[u].pc \in Owning, threads'[v].pc \in Owning,
                      threads'[u].id = threads'[v].id
               PROVE  u = v
      BY DEF Exclusive
  <2>1. ASSUME NEW w \in Threads, w # t PROVE threads'[w] = threads[w]
      BY <2>1 DEF TypeOK
  <2>2. threads'[t] = th
      BY DEF TypeOK
  <2>3. th.pc \in Owning => th.id = i
      BY DEF Owning
  <2>4. CASE u # t /\ v # t
      BY <2>1, <2>4 DEF Exclusive
  <2>5. CASE u = t /\ v # t
      BY <1>3, <2>1, <2>2, <2>3, <2>5
  <2>6. CASE u # t /\ v = t
      BY <1>3, <2>1, <2>2, <2>3, <2>6
  <2> QED BY <2>4, <2>5, <2>6
<1> QED BY <1>2, <1>5, <1>6
(***************************************************************************)
(* The same for a step that only moves the owner to its next state.        *)
(***************************************************************************)
LEMMA OwnerMoves ==
    ASSUME TypeOK, RowsOK, ThreadsOK, Exclusive,
           NEW t \in Threads, threads[t].pc \in Owning,
           NEW pc \in Owning, GoTo(t, pc), UNCHANGED <<proposals, mutations>>,
           pc = "succeeded" => mutations[threads[t].id] # << >>,
           pc \in {"check", "read", "patch"} => mutations[threads[t].id] = << >>,
           pc \in {"read", "patch"} =>
              Permitted(proposals[threads[t].id], threads[t].actor)
    PROVE  RowsOK' /\ ThreadsOK' /\ Exclusive'
<1> DEFINE i == threads[t].id
           th == [threads[t] EXCEPT !.pc = pc]
<1>1. threads[t].pc # "idle"
    BY DEF Owning
<1>2. threads[t] \in Busy /\ i \in Ids
    BY <1>1, BusyTypes
<1>3. th.pc = pc /\ th.id = i /\ th.actor = threads[t].actor
      /\ th.proposal = threads[t].proposal /\ th.approval = threads[t].approval
    BY <1>2 DEF Busy
<1>4. ThreadInv(threads[t], proposals[i], mutations[i]) /\ RowInv(proposals[i], mutations[i])
    BY <1>1, <1>2 DEF ThreadsOK, RowsOK
<1>5. threads' = [threads EXCEPT ![t] = th]
    BY DEF GoTo
<1>6. proposals' = [proposals EXCEPT ![i] = proposals[i]]
      /\ mutations' = [mutations EXCEPT ![i] = mutations[i]]
    BY <1>2 DEF TypeOK
<1> HIDE DEF th, i
<1>7. ThreadInv(th, proposals[i], mutations[i])
    BY <1>3, <1>4 DEF ThreadInv, Owning, i
<1>8. proposals[i].status \notin {"absent", "proposed"}
    BY <1>4 DEF ThreadInv
<1> QED BY <1>1, <1>3, <1>4, <1>5, <1>6, <1>7, <1>8, OwnerStep DEF i

(***************************************************************************)
(* The invariant holds initially.                                          *)
(***************************************************************************)
LEMMA InitInv == Init => IInv
<1> SUFFICES ASSUME Init PROVE IInv
    OBVIOUS
<1>1. RowsOK
  <2> SUFFICES ASSUME NEW i \in Ids PROVE RowInv(proposals[i], mutations[i])
      BY DEF RowsOK
  <2>1. proposals[i].status = "absent" /\ mutations[i] = << >>
      BY DEF Init, NoRow
  <2>2. Len(mutations[i]) <= 1 /\ DOMAIN mutations[i] = {}
      BY <2>1
  <2> QED BY <2>1, <2>2 DEF RowInv
<1>2. ThreadsOK /\ Exclusive
    BY DEF Init, ThreadsOK, Exclusive, Idle, Owning
<1> QED BY <1>1, <1>2, InitTyped DEF IInv

(***************************************************************************)
(* A change of one row that no thread holds disturbs no thread.            *)
(***************************************************************************)
LEMMA FreeRowStep ==
    ASSUME TypeOK, RowsOK, ThreadsOK, Exclusive,
           NEW i \in Ids, proposals[i].status \in {"absent", "proposed"},
           NEW row, proposals' = [proposals EXCEPT ![i] = row],
           UNCHANGED <<threads, mutations>>, RowInv(row, mutations[i])
    PROVE  RowsOK' /\ ThreadsOK' /\ Exclusive'
<1>1. RowsOK'
    BY DEF RowsOK, TypeOK
<1>2. ASSUME NEW t \in Threads, threads[t].pc # "idle"
      PROVE  threads[t].id # i
    BY <1>2 DEF ThreadsOK, ThreadInv
<1>3. ThreadsOK'
  <2> SUFFICES ASSUME NEW t \in Threads, threads[t].pc # "idle"
               PROVE  ThreadInv(threads[t], proposals'[threads[t].id],
                                mutations[threads[t].id])
      BY DEF ThreadsOK
  <2>1. proposals'[threads[t].id] = proposals[threads[t].id]
      BY <1>2, BusyTypes DEF TypeOK
  <2> QED BY <2>1 DEF ThreadsOK
<1>4. Exclusive'
    BY DEF Exclusive
<1> QED BY <1>1, <1>3, <1>4
(***************************************************************************)
(* Every step of the specification preserves the invariant.                *)
(***************************************************************************)
LEMMA NextInv == IInv /\ [Next]_vars => IInv'
<1> SUFFICES ASSUME IInv, [Next]_vars PROVE RowsOK' /\ ThreadsOK' /\ Exclusive'
    BY NextTyped DEF IInv
<1> USE DEF IInv
<1>1. ASSUME NEW i \in Ids, NEW who \in People, NEW request \in Requests,
             Propose(i, request, who)
      PROVE  RowsOK' /\ ThreadsOK' /\ Exclusive'
  <2> DEFINE row == [status |-> "proposed",
                     proposal |-> [request |-> request, requested_by |-> who]]
  <2>1. mutations[i] = << >>
      BY <1>1 DEF Propose, RowsOK, RowInv
  <2>2. DOMAIN mutations[i] = {} /\ Len(mutations[i]) <= 1
      BY <2>1
  <2>3. RowInv(row, mutations[i])
      BY <1>1, <2>1, <2>2 DEF Propose, RowInv
  <2>4. proposals' = [proposals EXCEPT ![i] = row]
      BY <1>1 DEF Propose
  <2> HIDE DEF row
  <2> QED BY <1>1, <2>3, <2>4, FreeRowStep DEF Propose
<1>2. ASSUME NEW i \in Ids, NEW who \in People, Approve(i, who)
      PROVE  RowsOK' /\ ThreadsOK' /\ Exclusive'
  <2> DEFINE row == [status |-> "approved", proposal |-> proposals[i].proposal,
                     approval |-> Approval(i, who)]
  <2>1. mutations[i] = << >> /\ proposals[i].proposal.requested_by \in Proposers
      BY <1>2 DEF Approve, RowsOK, RowInv
  <2>2. DOMAIN mutations[i] = {} /\ Len(mutations[i]) <= 1
      BY <2>1
  <2>3. row.approval.approved_by = who
      BY DEF Approval
  <2>4. RowInv(row, mutations[i])
      BY <1>2, <2>1, <2>2, <2>3 DEF Approve, RowInv
  <2>5. proposals' = [proposals EXCEPT ![i] = row]
      BY <1>2 DEF Approve, Approved
  <2> HIDE DEF row
  <2> QED BY <1>2, <2>4, <2>5, FreeRowStep DEF Approve
<1>3. ASSUME NEW t \in Threads, NEW i \in Ids, NEW who \in People,
             BeginExecute(t, i, who)
      PROVE  RowsOK' /\ ThreadsOK' /\ Exclusive'
  <2> DEFINE th == [pc |-> "claim", id |-> i, actor |-> who,
                    proposal |-> proposals[i].proposal,
                    approval |-> proposals[i].approval]
  <2>1. RowsOK'
      BY <1>3 DEF BeginExecute, RowsOK
  <2>2. threads' = [threads EXCEPT ![t] = th]
      BY <1>3 DEF BeginExecute
  <2>3. ThreadInv(th, proposals[i], mutations[i])
      BY <1>3 DEF BeginExecute, ThreadInv, Owning
  <2>4. th.id = i /\ th.pc = "claim"
      OBVIOUS
  <2> HIDE DEF th
  <2>5. ThreadsOK'
    <3> SUFFICES ASSUME NEW u \in Threads, threads'[u].pc # "idle"
                 PROVE  ThreadInv(threads'[u], proposals[threads'[u].id],
                                  mutations[threads'[u].id])
        BY <1>3 DEF BeginExecute, ThreadsOK
    <3> QED BY <2>2, <2>3, <2>4 DEF ThreadsOK, TypeOK
  <2>6. Exclusive'
      BY <2>2, <2>4 DEF Exclusive, Owning, TypeOK
  <2> QED BY <2>1, <2>5, <2>6
<1>4. ASSUME NEW t \in Threads, Claim(t)
      PROVE  RowsOK' /\ ThreadsOK' /\ Exclusive'
  <2> DEFINE i == threads[t].id
             th == [threads[t] EXCEPT !.pc = "check"]
             row == [proposals[i] EXCEPT !.status = "executing"]
  <2>1. threads[t].pc = "claim" /\ threads[t] \in Busy /\ i \in Ids
      BY <1>4, BusyTypes DEF Claim
  <2>2. CASE proposals[i].status = "approved"
    <3>1. proposals[i] \in [status : {"approved", "executing", "executed", "failed"},
                            proposal : ActionProposals, approval : Approvals]
        BY <2>1, <2>2 DEF TypeOK, Rows, NoRow
    <3>2. row.status = "executing" /\ row.proposal = proposals[i].proposal
          /\ row.approval = proposals[i].approval
        BY <3>1
    <3>3. th.pc = "check" /\ th.id = i /\ th.proposal = threads[t].proposal
          /\ th.approval = threads[t].approval /\ th.actor = threads[t].actor
        BY <2>1 DEF Busy
    <3>4. RowInv(proposals[i], mutations[i])
          /\ ThreadInv(threads[t], proposals[i], mutations[i])
        BY <2>1 DEF RowsOK, ThreadsOK
    <3>5. mutations[i] = << >>
        BY <2>2, <3>4 DEF RowInv
    <3>6. threads' = [threads EXCEPT ![t] = th]
          /\ proposals' = [proposals EXCEPT ![i] = row]
        BY <1>4, <2>2 DEF Claim, GoTo, SetStatus
    <3>7. mutations' = [mutations EXCEPT ![i] = mutations[i]]
        BY <1>4, <2>1 DEF Claim, TypeOK
    <3> HIDE DEF th, row, i
    <3>8. ThreadInv(th, row, mutations[i])
        BY <3>2, <3>3, <3>4, <3>5 DEF ThreadInv
    <3>9. DOMAIN mutations[i] = {} /\ Len(mutations[i]) <= 1
        BY <3>5
    <3>10. RowInv(row, mutations[i])
        BY <2>2, <3>2, <3>4, <3>5, <3>9 DEF RowInv
    <3> QED BY <2>1, <2>2, <3>2, <3>3, <3>6, <3>7, <3>8, <3>10, OwnerStep DEF i
  <2>3. CASE proposals[i].status # "approved"
    <3>1. threads' = [threads EXCEPT ![t] = Idle] /\ UNCHANGED <<proposals, mutations>>
        BY <1>4, <2>3 DEF Claim
    <3> QED BY <3>1 DEF RowsOK, ThreadsOK, Exclusive, TypeOK, Idle, Owning
  <2> QED BY <2>2, <2>3
<1>5. ASSUME NEW t \in Threads, Check(t)
      PROVE  RowsOK' /\ ThreadsOK' /\ Exclusive'
  <2>1. threads[t].pc = "check" /\ UNCHANGED <<proposals, mutations>>
      BY <1>5 DEF Check
  <2>2. ThreadInv(threads[t], proposals[threads[t].id], mutations[threads[t].id])
      BY <2>1 DEF ThreadsOK
  <2>3. CASE GoTo(t, "raised")
      BY <2>1, <2>3, OwnerMoves DEF Owning
  <2>4. CASE GoTo(t, "read") /\ Allowed(threads[t].id, threads[t].proposal,
                                        threads[t].approval, threads[t].actor)
    <3>1. Permitted(proposals[threads[t].id], threads[t].actor)
        BY <2>2, <2>4 DEF Allowed, Permitted, ThreadInv
    <3> QED BY <2>1, <2>2, <2>4, <3>1, OwnerMoves DEF Owning, ThreadInv
  <2> QED BY <1>5, <2>3, <2>4 DEF Check
<1>6. ASSUME NEW t \in Threads, ReadDeployment(t)
      PROVE  RowsOK' /\ ThreadsOK' /\ Exclusive'
  <2>1. threads[t].pc = "read" /\ UNCHANGED <<proposals, mutations>>
      BY <1>6 DEF ReadDeployment
  <2>2. ThreadInv(threads[t], proposals[threads[t].id], mutations[threads[t].id])
      BY <2>1 DEF ThreadsOK
  <2>3. CASE GoTo(t, "raised")
      BY <2>1, <2>3, OwnerMoves DEF Owning
  <2>4. CASE GoTo(t, "patch")
      BY <2>1, <2>2, <2>4, OwnerMoves DEF Owning, ThreadInv
  <2> QED BY <1>6, <2>3, <2>4 DEF ReadDeployment
<1>7. ASSUME NEW t \in Threads, Patch(t)
      PROVE  RowsOK' /\ ThreadsOK' /\ Exclusive'
  <2> DEFINE i == threads[t].id
             mutation == [actor |-> threads[t].actor, ref |-> cluster[Resource(t)],
                          at |-> now]
             m == Append(mutations[i], mutation)
  <2>1. threads[t].pc = "patch" /\ threads[t] \in Busy /\ i \in Ids
      BY <1>7, BusyTypes DEF Patch
  <2>2. PICK pc \in {"succeeded", "raised"} : GoTo(t, pc)
      BY <1>7 DEF Patch
  <2> DEFINE th == [threads[t] EXCEPT !.pc = pc]
  <2>3. th.pc = pc /\ th.id = i /\ th.proposal = threads[t].proposal
        /\ th.approval = threads[t].approval /\ th.actor = threads[t].actor
      BY <2>1 DEF Busy
  <2>4. RowInv(proposals[i], mutations[i])
        /\ ThreadInv(threads[t], proposals[i], mutations[i])
      BY <2>1 DEF RowsOK, ThreadsOK
  <2>5. mutations[i] = << >>
      BY <2>1, <2>4 DEF ThreadInv
  <2>6. m # << >> /\ Len(m) = 1 /\ DOMAIN m = {1} /\ m[1] = mutation
        /\ mutation.actor = threads[t].actor
    <3>1. mutation.actor = threads[t].actor
        OBVIOUS
    <3> HIDE DEF mutation
    <3>2. m = Append(<< >>, mutation)
        BY <2>5
    <3>3. << >> \in Seq({mutation}) /\ Len(<< >>) = 0
        OBVIOUS
    <3>4. m \in Seq({mutation}) /\ Len(m) = 1 /\ m[1] = mutation
        BY <3>2, <3>3
    <3> HIDE DEF m
    <3>5. DOMAIN m = 1..1
        BY <3>4
    <3>6. 1..1 = {1}
        OBVIOUS
    <3>7. m # << >>
        BY <3>5, <3>6
    <3> QED BY <3>1, <3>4, <3>5, <3>6, <3>7
  <2>7. threads' = [threads EXCEPT ![t] = th]
        /\ mutations' = [mutations EXCEPT ![i] = m]
      BY <1>7, <2>2 DEF Patch, GoTo
  <2>8. proposals' = [proposals EXCEPT ![i] = proposals[i]]
      BY <1>7, <2>1 DEF Patch, TypeOK
  <2> HIDE DEF m, mutation, th, i
  <2>9. Permitted(proposals[i], threads[t].actor) /\ threads[t].actor \in Executors
        /\ proposals[i].status = "executing"
      BY <2>1, <2>4 DEF ThreadInv, Owning
  <2>10. Governed(proposals[i], mutation)
      BY <2>4, <2>6, <2>9 DEF Governed, Permitted, RowInv
  <2>11. RowInv(proposals[i], m)
      BY <2>4, <2>6, <2>9, <2>10 DEF RowInv
  <2>12. ThreadInv(th, proposals[i], m)
      BY <2>3, <2>4, <2>6, <2>9 DEF ThreadInv, Owning
  <2> QED BY <2>1, <2>3, <2>7, <2>8, <2>9, <2>11, <2>12, OwnerStep DEF i, Owning
<1>8. ASSUME NEW t \in Threads, PatchFails(t)
      PROVE  RowsOK' /\ ThreadsOK' /\ Exclusive'
    BY <1>8, OwnerMoves DEF PatchFails, Owning
<1>9. ASSUME NEW t \in Threads, FinishExecution(t)
      PROVE  RowsOK' /\ ThreadsOK' /\ Exclusive'
  <2> DEFINE i == threads[t].id
             st == IF threads[t].pc = "succeeded" THEN "executed" ELSE "failed"
             row == [proposals[i] EXCEPT !.status = st]
  <2>1. threads[t].pc \in {"succeeded", "raised"} /\ threads[t].pc # "idle"
      BY <1>9 DEF FinishExecution
  <2>2. i \in Ids
      BY <2>1, BusyTypes
  <2>3. RowInv(proposals[i], mutations[i])
        /\ ThreadInv(threads[t], proposals[i], mutations[i])
      BY <2>1, <2>2 DEF RowsOK, ThreadsOK
  <2>4. proposals[i].status = "executing"
      BY <2>1, <2>3 DEF ThreadInv, Owning
  <2>5. proposals[i] \in [status : {"approved", "executing", "executed", "failed"},
                          proposal : ActionProposals, approval : Approvals]
      BY <2>2, <2>4 DEF TypeOK, Rows, NoRow
  <2>6. row.status = st /\ row.proposal = proposals[i].proposal
        /\ row.approval = proposals[i].approval
      BY <2>5
  <2>7. proposals' = [proposals EXCEPT ![i] = row]
        /\ threads' = [threads EXCEPT ![t] = Idle]
      BY <1>9, <2>4 DEF FinishExecution, SetStatus
  <2>8. mutations' = [mutations EXCEPT ![i] = mutations[i]]
      BY <1>9, <2>2 DEF FinishExecution, TypeOK
  <2>9. st \in {"executed", "failed"} /\ (st = "executed" => mutations[i] # << >>)
      BY <2>3 DEF ThreadInv
  <2> HIDE DEF i, st, row
  <2>10. \A n \in DOMAIN mutations[i] : Governed(row, mutations[i][n])
      BY <2>3, <2>6, <2>9 DEF RowInv, Governed
  <2>11. RowInv(row, mutations[i])
      BY <2>3, <2>4, <2>6, <2>9, <2>10 DEF RowInv
  <2>12. Idle.pc = "idle"
      BY DEF Idle
  <2> QED BY <2>1, <2>6, <2>7, <2>8, <2>9, <2>11, <2>12, OwnerStep DEF i, Owning
<1>10. CASE UNCHANGED <<proposals, threads, mutations>>
    BY <1>10 DEF RowsOK, ThreadsOK, Exclusive
<1>11. CASE Restart
    BY <1>11 DEF Restart, RowsOK, ThreadsOK, Exclusive, Idle, Owning
<1> QED BY <1>1, <1>2, <1>3, <1>4, <1>5, <1>6, <1>7, <1>8, <1>9, <1>10, <1>11
        DEF Next, Execute, Tick, Drift, vars
-----------------------------------------------------------------------------
(***************************************************************************)
(* IInv is an invariant of the specification.                              *)
(***************************************************************************)
THEOREM Invariance == Spec => []IInv
BY InitInv, NextInv, PTL DEF Spec

(***************************************************************************)
(* An approved proposal reaches the cluster at most once, for any number   *)
(* of threads that race to execute it and any number of restarts: the      *)
(* claim in store.claim_execution is never given twice.                    *)
(***************************************************************************)
THEOREM AppliedOnce == Spec => []OneChangePerProposal
<1>1. IInv => OneChangePerProposal
    BY DEF IInv, RowsOK, RowInv, OneChangePerProposal
<1> QED BY <1>1, Invariance, PTL

(***************************************************************************)
(* Every change the cluster took was proposed, approved and executed by    *)
(* three different people with the right roles, and stays in bounds.       *)
(***************************************************************************)
THEOREM ChangesGoverned == Spec => []ChangeIsGoverned
<1>1. IInv => ChangeIsGoverned
    BY DEF IInv, RowsOK, RowInv, ChangeIsGoverned
<1> QED BY <1>1, Invariance, PTL

(***************************************************************************)
(* A row's status never claims more or less than the cluster shows.        *)
(***************************************************************************)
THEOREM StatusTruthful == Spec => []StatusMatchesCluster
<1>1. IInv => StatusMatchesCluster
    BY DEF IInv, RowsOK, RowInv, StatusMatchesCluster
<1> QED BY <1>1, Invariance, PTL

(***************************************************************************)
(* Proposals and approvals are written once and statuses move forward.     *)
(***************************************************************************)
THEOREM RowsForward == Spec => RowsMoveForward
<1>1. IInv /\ [Next]_vars =>
        [\A i \in Ids : proposals'[i] # proposals[i] =>
            RowMoves(proposals[i], proposals'[i])]_vars
  <2> SUFFICES ASSUME IInv, Next, NEW i \in Ids, proposals'[i] # proposals[i]
               PROVE  RowMoves(proposals[i], proposals'[i])
      OBVIOUS
  <2> USE DEF IInv
  <2>1. ASSUME NEW j \in Ids, NEW who \in People, NEW request \in Requests,
               Propose(j, request, who)
        PROVE  RowMoves(proposals[i], proposals'[i])
      BY <2>1 DEF Propose, TypeOK, RowMoves, Following
  <2>2. ASSUME NEW j \in Ids, NEW who \in People, Approve(j, who)
        PROVE  RowMoves(proposals[i], proposals'[i])
      BY <2>2 DEF Approve, Approved, TypeOK, RowMoves, Following
  <2>3. ASSUME NEW j \in Ids, proposals[j].status \notin {"absent", "proposed"},
               NEW st \in Following(proposals[j].status), SetStatus(j, st)
        PROVE  RowMoves(proposals[i], proposals'[i])
    <3>1. i = j /\ proposals'[i] = [proposals[i] EXCEPT !.status = st]
        BY <2>3 DEF SetStatus, TypeOK
    <3>2. proposals[i] \in [status : {"approved", "executing", "executed", "failed"},
                            proposal : ActionProposals, approval : Approvals]
        BY <2>3, <3>1 DEF TypeOK, Rows, NoRow
    <3>3. proposals'[i].status = st /\ proposals'[i].proposal = proposals[i].proposal
          /\ proposals'[i].approval = proposals[i].approval
        BY <3>1, <3>2
    <3> QED BY <2>3, <3>1, <3>3 DEF RowMoves
  <2>4. ASSUME NEW t \in Threads, Claim(t)
        PROVE  RowMoves(proposals[i], proposals'[i])
    <3>1. threads[t].id \in Ids
        BY <2>4, BusyTypes DEF Claim
    <3>2. proposals[threads[t].id].status = "approved"
          /\ SetStatus(threads[t].id, "executing")
        BY <2>4 DEF Claim
    <3> QED BY <2>3, <3>1, <3>2 DEF Following
  <2>5. ASSUME NEW t \in Threads, FinishExecution(t)
        PROVE  RowMoves(proposals[i], proposals'[i])
    <3>1. threads[t].id \in Ids
        BY <2>5, BusyTypes DEF FinishExecution
    <3>2. PICK st \in {"executed", "failed"} :
            proposals[threads[t].id].status = "executing"
            /\ SetStatus(threads[t].id, st)
        BY <2>5 DEF FinishExecution
    <3> QED BY <2>3, <3>1, <3>2 DEF Following
  <2> QED BY <2>1, <2>2, <2>4, <2>5
          DEF Next, Execute, BeginExecute, Check, ReadDeployment, Patch, PatchFails,
              Tick, Drift, Restart
<1> QED BY <1>1, Invariance, PTL DEF Spec, RowsMoveForward
=============================================================================
