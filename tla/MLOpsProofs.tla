---------------------------- MODULE MLOpsProofs ----------------------------
(***************************************************************************)
(* Proofs about the model registry: what is stored of a run is one legal   *)
(* story, approved by somebody else than the owner, for any number of      *)
(* runs, actors and handler threads, and although a save may overwrite a   *)
(* newer row.                                                              *)
(*                                                                         *)
(* The stored rows alone are not inductive: a row is replaced by the copy  *)
(* a handler changed some time ago, so every copy in flight has to tell a  *)
(* legal story as well; and that the one approval of a story is the one    *)
(* its approver field names needs that no run before approval has been     *)
(* approved already, which the shape of TRANSITIONS gives.                 *)
(***************************************************************************)
EXTENDS MLOps, TLAPS

Early == {"created", "training", "evaluating", "candidate"}

EverApproved(run) == \E k \in 1..Len(run.history) : run.history[k].to = "approved"

(***************************************************************************)
(* What every run is like, stored or held by a handler.                    *)
(***************************************************************************)
Sound(run) ==
    /\ LegalStory(run)
    /\ Separated(run)
    /\ run.state \in Early => ~EverApproved(run)

SoundRows == \A r \in Runs : Exists(r) => Sound(table[r].payload)
SoundCopies == \A h \in Workers : workers[h] # NoRequest => Sound(workers[h].run)

IInv == RegistryTypeOK /\ SoundRows /\ SoundCopies

-----------------------------------------------------------------------------
(***************************************************************************)
(* TRANSITIONS leads from one state to another, to an early state only     *)
(* from an early state, and to approved only from candidate.               *)
(***************************************************************************)
LEMMA TransitionsShape ==
    ASSUME NEW s \in RunStates, NEW t \in TRANSITIONS[s]
    PROVE  /\ t \in RunStates
           /\ t \in Early => s \in Early
           /\ t = "approved" => s \in Early
BY DEF TRANSITIONS, RunStates, Early

(***************************************************************************)
(* _transition appends one hop and keeps a story legal, if the guard of    *)
(* CanTransition held.                                                     *)
(***************************************************************************)
LEMMA TransitionKeepsSound ==
    ASSUME NEW run \in ModelRuns, Sound(run),
           NEW target \in TRANSITIONS[run.state], NEW actor \in Actors,
           target = "approved" => actor # run.owner
    PROVE  /\ Transition(run, target, actor) \in ModelRuns
           /\ Sound(Transition(run, target, actor))
<1> DEFINE hop == [from |-> run.state, to |-> target, actor |-> actor]
           n == Len(run.history)
           new == Transition(run, target, actor)
<1>1. run.state \in RunStates /\ run.history \in Seq(Hops)
      /\ run.owner \in Actors /\ run.artifact \in BOOLEAN
      /\ run.approver \in Actors \cup {NoActor}
  BY DEF ModelRuns
<1>2. target \in RunStates /\ (target \in Early => run.state \in Early)
      /\ (target = "approved" => run.state \in Early)
  BY <1>1, TransitionsShape
<1>3. hop \in Hops
  BY <1>1, <1>2 DEF Hops
<1>4. /\ new.state = target
      /\ new.owner = run.owner
      /\ new.artifact = run.artifact
      /\ new.approver = IF target = "approved" THEN actor ELSE run.approver
      /\ new.history = Append(run.history, hop)
      /\ new \in ModelRuns
  <2> DEFINE approver == IF target = "approved" THEN actor ELSE run.approver
             history == Append(run.history, hop)
  <2>1. approver \in Actors \cup {NoActor} /\ history \in Seq(Hops)
    BY <1>1, <1>3
  <2>2. new = [run EXCEPT !.approver = approver, !.history = history, !.state = target]
    BY Zenon DEF Transition
  <2> HIDE DEF approver, history
  <2>3. /\ new.state = target /\ new.owner = run.owner /\ new.artifact = run.artifact
        /\ new.approver = approver /\ new.history = history /\ new \in ModelRuns
    BY <1>2, <2>1, <2>2 DEF ModelRuns
  <2> QED BY <2>3 DEF approver, history
<1>5. /\ n \in Nat
      /\ Len(new.history) = n + 1
      /\ \A k \in 1..n : new.history[k] = run.history[k]
      /\ new.history[n + 1] = hop
  BY <1>1, <1>3, <1>4
<1>6. LegalStory(new)
  <2>1. run.state = IF n = 0 THEN "created" ELSE run.history[n].to
    BY DEF Sound, LegalStory
  <2>2. ASSUME NEW k \in 1..(n + 1)
        PROVE  /\ new.history[k].to \in TRANSITIONS[new.history[k].from]
               /\ new.history[k].from =
                     IF k = 1 THEN "created" ELSE new.history[k - 1].to
    <3>1. CASE k = n + 1
      BY <3>1, <1>5, <2>1
    <3>2. CASE k \in 1..n
      <4>1. new.history[k] = run.history[k]
            /\ (k # 1 => new.history[k - 1] = run.history[k - 1])
        BY <3>2, <1>5
      <4>2. /\ run.history[k].to \in TRANSITIONS[run.history[k].from]
            /\ run.history[k].from =
                  IF k = 1 THEN "created" ELSE run.history[k - 1].to
        BY <3>2 DEF Sound, LegalStory
      <4> QED BY <4>1, <4>2
    <3> QED BY <3>1, <3>2, <1>5
  <2>3. new.state = new.history[n + 1].to
    BY <1>4, <1>5
  <2> HIDE DEF new, n
  <2> QED BY <2>2, <2>3, <1>5 DEF LegalStory
<1>7. Separated(new)
  <2>1. CASE target = "approved"
    <3>1. ~EverApproved(run)
      BY <2>1, <1>2 DEF Sound
    <3>2. \A k \in 1..(n + 1) : new.history[k].to = "approved" => k = n + 1
      BY <3>1, <1>5 DEF EverApproved
    <3>3. new.approver = actor /\ actor # new.owner
          /\ new.history[n + 1].to = "approved" /\ new.history[n + 1].actor = actor
      BY <2>1, <1>4, <1>5
    <3> HIDE DEF new, n
    <3> QED BY <3>2, <3>3, <1>5 DEF Separated
  <2>2. CASE target # "approved"
    <3>1. new.approver = run.approver /\ new.owner = run.owner
          /\ new.history[n + 1].to # "approved"
      BY <2>2, <1>4, <1>5
    <3>2. /\ EverApproved(new) <=> EverApproved(run)
          /\ \A k \in 1..(n + 1) : new.history[k].to = "approved" =>
                k \in 1..n /\ new.history[k] = run.history[k]
      <4> HIDE DEF new, n, hop
      <4>1. \A k \in 1..(n + 1) : k \in 1..n \/ k = n + 1
        BY <1>5
      <4>2. \A k \in 1..n : k \in 1..(n + 1)
        BY <1>5
      <4>3. EverApproved(run) <=> \E k \in 1..n : run.history[k].to = "approved"
        BY DEF EverApproved, n
      <4>4. EverApproved(new) <=> \E k \in 1..(n + 1) : new.history[k].to = "approved"
        BY <1>5 DEF EverApproved
      <4>5. \A k \in 1..(n + 1) : new.history[k].to = "approved" =>
               k \in 1..n /\ new.history[k] = run.history[k]
        BY <3>1, <4>1, <1>5
      <4> QED BY <4>2, <4>3, <4>4, <4>5, <1>5
    <3>3. IF EverApproved(run)
          THEN /\ run.approver # run.owner
               /\ \A k \in 1..n : run.history[k].to = "approved" =>
                      run.history[k].actor = run.approver
          ELSE run.approver = NoActor
      BY DEF Sound, Separated, EverApproved
    <3>4. IF EverApproved(new)
          THEN /\ new.approver # new.owner
               /\ \A k \in 1..(n + 1) : new.history[k].to = "approved" =>
                      new.history[k].actor = new.approver
          ELSE new.approver = NoActor
      <4> HIDE DEF new, n
      <4> QED BY <3>1, <3>2, <3>3
    <3> HIDE DEF new, n
    <3> QED BY <3>4, <1>5 DEF Separated, EverApproved
  <2> QED BY <2>1, <2>2
<1>8. new.state \in Early => ~EverApproved(new)
  <2> SUFFICES ASSUME target \in Early PROVE ~EverApproved(new)
    BY <1>4
  <2>1. ~EverApproved(run) /\ target # "approved"
    BY <1>2 DEF Sound, Early
  <2> HIDE DEF new
  <2> QED BY <2>1, <1>5 DEF EverApproved
<1> QED BY <1>4, <1>6, <1>7, <1>8 DEF Sound

(***************************************************************************)
(* record_evaluation ends in a _transition to candidate or rejected.       *)
(***************************************************************************)
LEMMA EvaluationKeepsSound ==
    ASSUME NEW run \in ModelRuns, Sound(run), run.state = "evaluating",
           NEW evaluation, NEW actor \in Actors
    PROVE  /\ RecordEvaluation(run, evaluation, actor) \in ModelRuns
           /\ Sound(RecordEvaluation(run, evaluation, actor))
<1> DEFINE target == IF PolicyPasses(evaluation) THEN "candidate" ELSE "rejected"
           done == [run EXCEPT !.artifact = TRUE]
<1>1. /\ done \in ModelRuns /\ done.state = run.state /\ done.owner = run.owner
      /\ done.history = run.history /\ done.approver = run.approver
  BY DEF ModelRuns
<1>2. Sound(done)
  <2> HIDE DEF done
  <2> QED BY <1>1, Zenon DEF Sound, LegalStory, Separated, EverApproved
<1>3. target \in TRANSITIONS[done.state] /\ target # "approved"
  BY <1>1 DEF TRANSITIONS
<1>4. RecordEvaluation(run, evaluation, actor) = Transition(done, target, actor)
  BY Zenon DEF RecordEvaluation
<1> HIDE DEF done, target
<1> QED BY <1>1, <1>2, <1>3, <1>4, TransitionKeepsSound

-----------------------------------------------------------------------------
LEMMA InitSound == RegistryInit => IInv
BY DEF RegistryInit, IInv, RegistryTypeOK, SoundRows, SoundCopies, Exists, NoRow, NoRequest

(***************************************************************************)
(* A handler takes a sound copy of a row.                                  *)
(***************************************************************************)
LEMMA HoldKeepsSound ==
    ASSUME IInv, NEW h \in Workers, NEW r \in Runs, Exists(r),
           NEW run \in ModelRuns, Sound(run), HoldRun(h, r, run)
    PROVE  IInv'
<1>1. table[r] \in Rows
  BY DEF IInv, RegistryTypeOK, Exists, NoRow
<1> DEFINE held == [pc |-> "check", id |-> r, run |-> run, revision |-> table[r].revision]
<1>2. held.run = run /\ held \in [pc : {"check", "write"}, id : Runs, run : ModelRuns,
                                  revision : Nat \ {0}]
  BY <1>1 DEF Rows
<1>3. table' = table /\ workers' = [workers EXCEPT ![h] = held]
  BY DEF HoldRun
<1> HIDE DEF held
<1>4. RegistryTypeOK'
  BY <1>2, <1>3 DEF IInv, RegistryTypeOK
<1>5. SoundRows'
  BY <1>3 DEF IInv, SoundRows, Exists
<1>6. SoundCopies'
  BY <1>2, <1>3 DEF IInv, RegistryTypeOK, SoundCopies
<1> QED BY <1>4, <1>5, <1>6 DEF IInv

LEMMA NextKeepsSound == IInv /\ [RegistryNext]_registryVars => IInv'
<1> SUFFICES ASSUME IInv, [RegistryNext]_registryVars PROVE IInv'
  OBVIOUS
<1>1. CASE UNCHANGED registryVars
  BY <1>1 DEF registryVars, IInv, RegistryTypeOK, SoundRows, SoundCopies, Exists
<1>2. ASSUME NEW h \in Workers, Check(h) PROVE IInv'
  <2>1. workers[h] \in [pc : {"check", "write"}, id : Runs, run : ModelRuns,
                         revision : Nat \ {0}] /\ workers[h] # NoRequest
    BY <1>2 DEF Check, IInv, RegistryTypeOK, NoRequest
  <2>2. table' = table
    BY <1>2 DEF Check
  <2>3. PICK new \in {NoRequest, [workers[h] EXCEPT !.pc = "write"]} :
            workers' = [workers EXCEPT ![h] = new]
    BY <1>2 DEF Check
  <2>4. new = NoRequest \/ (new \in [pc : {"check", "write"}, id : Runs, run : ModelRuns,
                               revision : Nat \ {0}] /\ new.run = workers[h].run)
    BY <2>1, <2>3
  <2>5. RegistryTypeOK'
    BY <2>2, <2>3, <2>4 DEF IInv, RegistryTypeOK
  <2>6. SoundRows'
    BY <2>2 DEF IInv, SoundRows, Exists
  <2>7. SoundCopies'
    BY <2>1, <2>3, <2>4 DEF IInv, RegistryTypeOK, SoundCopies
  <2> QED BY <2>5, <2>6, <2>7 DEF IInv
<1>3. ASSUME NEW h \in Workers, Write(h) PROVE IInv'
  <2>1. workers[h] \in [pc : {"check", "write"}, id : Runs, run : ModelRuns,
                         revision : Nat \ {0}]
        /\ workers[h] # NoRequest /\ Sound(workers[h].run)
    BY <1>3 DEF Write, IInv, RegistryTypeOK, SoundCopies, NoRequest
  <2> DEFINE r == workers[h].id
             new == [payload |-> workers[h].run, revision |-> workers[h].revision + 1]
  <2>2. r \in Runs /\ new \in Rows /\ new.payload = workers[h].run
    BY <2>1 DEF Rows
  <2>3. table' = [table EXCEPT ![r] = new] /\ workers' = [workers EXCEPT ![h] = NoRequest]
    BY <1>3 DEF Write
  <2> HIDE DEF r, new
  <2>4. RegistryTypeOK'
    BY <2>2, <2>3 DEF IInv, RegistryTypeOK
  <2>5. SoundRows'
    BY <2>1, <2>2, <2>3 DEF IInv, RegistryTypeOK, SoundRows, Exists
  <2>6. SoundCopies'
    BY <2>3 DEF IInv, RegistryTypeOK, SoundCopies
  <2> QED BY <2>4, <2>5, <2>6 DEF IInv
<1>4. ASSUME NEW h \in Workers, AbandonRun(h) PROVE IInv'
  BY <1>4 DEF AbandonRun, IInv, RegistryTypeOK, SoundRows, SoundCopies, Exists
<1>5. ASSUME NEW h \in Workers, NEW r \in Runs, NEW owner \in Actors,
             CreateRun(h, r, owner)
      PROVE  IInv'
  <2> DEFINE run == [owner |-> owner, state |-> "created", artifact |-> FALSE,
                     approver |-> NoActor, history |-> << >>]
             new == [payload |-> run, revision |-> 1]
  <2>1. run \in ModelRuns /\ run.history = << >> /\ run.state = "created"
        /\ run.approver = NoActor
    BY DEF ModelRuns, RunStates, TRANSITIONS
  <2>2. Sound(run)
    <3> HIDE DEF run
    <3> QED BY <2>1 DEF Sound, LegalStory, Separated, EverApproved
  <2>3. new \in Rows /\ new.payload = run
    <3> HIDE DEF run
    <3> QED BY <2>1 DEF Rows
  <2>4. table' = [table EXCEPT ![r] = new] /\ workers' = workers
    BY <1>5 DEF CreateRun
  <2> HIDE DEF run, new
  <2>5. RegistryTypeOK'
    BY <2>3, <2>4 DEF IInv, RegistryTypeOK
  <2>6. SoundRows'
    BY <2>2, <2>3, <2>4 DEF IInv, RegistryTypeOK, SoundRows, Exists
  <2>7. SoundCopies'
    BY <2>4 DEF IInv, SoundCopies
  <2> QED BY <2>5, <2>6, <2>7 DEF IInv
<1>6. ASSUME NEW r \in Runs, Exists(r)
      PROVE  table[r].payload \in ModelRuns /\ Sound(table[r].payload)
  BY <1>6 DEF IInv, RegistryTypeOK, SoundRows, Exists, NoRow, Rows
<1>7. ASSUME NEW h \in Workers, NEW r \in Runs, NEW actor \in Actors,
             NEW if_match \in 1..MaxRevision, NEW target \in RunStates,
             NEW reason \in BOOLEAN, TransitionRun(h, r, if_match, target, actor, reason)
      PROVE  IInv'
  <2>1. Exists(r) /\ HoldRun(h, r, Transition(table[r].payload, target, actor))
    BY <1>7 DEF TransitionRun, Read
  <2>2. target \in TRANSITIONS[table[r].payload.state]
        /\ (target = "approved" => actor # table[r].payload.owner)
    BY <1>7 DEF TransitionRun, CanTransition
  <2> QED BY <1>6, <2>1, <2>2, TransitionKeepsSound, HoldKeepsSound
<1>8. ASSUME NEW h \in Workers, NEW r \in Runs, NEW actor \in Actors,
             NEW if_match \in 1..MaxRevision, NEW evaluation \in Evaluations,
             EvaluateRun(h, r, if_match, evaluation, actor)
      PROVE  IInv'
  <2>1. Exists(r) /\ table[r].payload.state = "evaluating"
        /\ HoldRun(h, r, RecordEvaluation(table[r].payload, evaluation, actor))
    BY <1>8 DEF EvaluateRun, Read
  <2> QED BY <1>6, <2>1, EvaluationKeepsSound, HoldKeepsSound
<1> QED BY <1>1, <1>2, <1>3, <1>4, <1>5, <1>7, <1>8 DEF RegistryNext

(***************************************************************************)
(* The registry keeps its inductive invariant; its types follow.           *)
(***************************************************************************)
THEOREM RegistryInvariant == RegistrySpec => []IInv
<1>1. RegistryInit => IInv
  BY InitSound
<1>2. IInv /\ [RegistryNext]_registryVars => IInv'
  BY NextKeepsSound
<1> QED BY <1>1, <1>2, PTL DEF RegistrySpec

(***************************************************************************)
(* For any number of runs, actors and concurrent requests, the stored      *)
(* history of a run is legal under TRANSITIONS and leads to its state, and *)
(* its approver is the actor of its approval and never the owner - also    *)
(* when save lets an old copy overwrite a newer row.                       *)
(***************************************************************************)
THEOREM StoredHistoryIsLegal == RegistrySpec => []HistoryIsLegal
<1>1. IInv => HistoryIsLegal
  BY DEF IInv, SoundRows, Sound, HistoryIsLegal
<1> QED BY <1>1, RegistryInvariant, PTL
=============================================================================
