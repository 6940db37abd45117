---------------------------- MODULE MCReviewer ----------------------------
(***************************************************************************)
(* One pull request with one or two comments, of one or two texts each,    *)
(* one or two approvers, and one or two handler threads.                   *)
(***************************************************************************)
EXTENDS Reviewer
=============================================================================
