----------------------------- MODULE MCEffects -----------------------------
(***************************************************************************)
(* What is recorded of effects outside the process, one kind of effect per *)
(* behaviour as they share no state.  The outbox: two messages, one of     *)
(* them without a registered handler, two producers that race to enqueue   *)
(* them, two dispatchers whose batches overlap, and a run that is cut      *)
(* short.  The changes of a cluster: see MCKubernetesSRE.                  *)
(*                                                                         *)
(* The system that is not chosen stays at its initial state, where nothing *)
(* that is fair is enabled, so the fairness of both can be assumed.        *)
(***************************************************************************)
EXTENDS Outbox, MCKubernetesSRE

VARIABLE effect

MCInit == effect \in {"delivery", "change"} /\ OutboxInit /\ Init

MCNext ==
    /\ UNCHANGED effect
    /\ \/ effect = "delivery" /\ OutboxNext /\ UNCHANGED vars
       \/ effect = "change" /\ Next /\ UNCHANGED outboxVars

MCSpec == MCInit /\ [][MCNext]_<<effect, outboxVars, vars>> /\ OutboxFairness /\ Fairness
=============================================================================
