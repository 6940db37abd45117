------------------------------ MODULE MCMLOps ------------------------------
(***************************************************************************)
(* One run, its owner and a reviewer, and three evaluations: one that      *)
(* passes at the threshold, one below a minimum, one that lacks a metric.  *)
(***************************************************************************)
EXTENDS MLOps

PolicyBounds == [minimum |-> [accuracy |-> 90], maximum |-> [latency |-> 50]]

MCEvaluations ==
    {[minimum |-> PolicyBounds.minimum, maximum |-> PolicyBounds.maximum,
      metrics |-> m] :
        m \in {[accuracy |-> 90, latency |-> 50], [accuracy |-> 89, latency |-> 50]}}
    \cup
    {[minimum |-> PolicyBounds.minimum, maximum |-> PolicyBounds.maximum,
      metrics |-> [accuracy |-> 95]]}
=============================================================================
