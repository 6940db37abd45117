---------------------------- MODULE MCIncident ----------------------------
(***************************************************************************)
(* One incident and two people who may do everything.                      *)
(***************************************************************************)
EXTENDS Incident, TLC

MCSymmetry == Permutations(Handlers) \cup Permutations(Actors)
=============================================================================
