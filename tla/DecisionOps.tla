---------------------------- MODULE DecisionOps ----------------------------
(***************************************************************************)
(* DecisionEngine.evaluate (platforms/decisionops/engine.py) called by     *)
(* several threads that share one engine: its circuit breaker and its LRU  *)
(* cache have no lock, and a call of the provider takes a while.           *)
(*                                                                         *)
(* An output is abstracted to who made it, for which key, and whether its  *)
(* confidence reaches the question's threshold.  Steps of one thread are   *)
(* taken apart where it calls something and lets another thread in: around *)
(* the provider call, between the test and the use of opened_at in allow,  *)
(* between the count of a failure, its comparison and the opening of the   *)
(* breaker, and between the lookup of a cached output and the move of its  *)
(* key to the end.  The entry of an output into the cache, with the        *)
(* eviction, is one step.                                                  *)
(***************************************************************************)
EXTENDS Integers, Sequences, FiniteSets, SequencesExt

CONSTANTS
    Callers,
    Keys, Cacheable,    \* state and question; those of cacheable questions
    CacheCapacity,
    FailureThreshold, ResetTicks,
    MaxTicks            \* bound: ticks of the clock

ASSUME DecisionAssumption == IsFiniteSet(Callers) /\ FailureThreshold \in Nat \ {0}

VARIABLES
    failures, openedAt, \* CircuitBreaker; openedAt is None when closed
    cache,              \* outputs, least recently used first
    now,
    calls,              \* what each caller is doing
    record,             \* the record that the last step returned, if it did
    exposure            \* history: provider calls since its last success
                        \* or the last reset

decisionVars == <<failures, openedAt, cache, now, calls, record, exposure>>

None == -1
Resting == [at |-> "resting"]
NoRecord == [disposition |-> "none"]

DecisionInit ==
    /\ failures = 0 /\ openedAt = None /\ cache = <<>> /\ now = 0
    /\ calls = [c \in Callers |-> Resting]
    /\ record = NoRecord /\ exposure = 0

Output(origin, key, confident) == [origin |-> origin, key |-> key, confident |-> confident]

Cached(key) == {i \in DOMAIN cache : cache[i].key = key}

At(c, place, key) == calls' = [calls EXCEPT ![c] = [at |-> place, key |-> key]]

\* The record returned for an output, and who it says has decided.
Return(c, output, fallback) ==
    /\ calls' = [calls EXCEPT ![c] = Resting]
    /\ record' = [output |-> output, key |-> calls[c].key,
                  provider |-> IF fallback THEN "fallback" ELSE "primary",
                  disposition |-> IF ~output.confident THEN "human_review"
                                  ELSE IF fallback THEN "fallback" ELSE "accepted"]

(***************************************************************************)
(* evaluate up to the provider call.  allow looks at opened_at twice, and  *)
(* raises when a success of another thread came in between.                *)
(***************************************************************************)
AllowAtOnce == now >= openedAt      \* mutant: no waiting time

Allow == now - openedAt >= ResetTicks

BeginCall(c, key) ==
    /\ calls[c] = Resting
    /\ IF key \in Cacheable /\ Cached(key) # {}
       THEN /\ calls' = [calls EXCEPT ![c] = [at |-> "hit", key |-> key,
                            output |-> cache[CHOOSE i \in Cached(key) : TRUE]]]
            /\ UNCHANGED exposure
       ELSE IF openedAt = None
       THEN At(c, "provider", key) /\ exposure' = exposure + 1
       ELSE At(c, "opened", key) /\ UNCHANGED exposure
    /\ UNCHANGED <<failures, openedAt, cache, now>> /\ record' = NoRecord

AllowOpened(c) ==
    /\ calls[c].at = "opened" /\ openedAt # None
    /\ IF Allow
       THEN /\ At(c, "provider", calls[c].key)
            /\ failures' = 0 /\ openedAt' = None
            /\ exposure' = IF now - openedAt >= ResetTicks THEN 1 ELSE exposure + 1
       ELSE At(c, "fallback", calls[c].key) /\ UNCHANGED <<failures, openedAt, exposure>>
    /\ UNCHANGED <<cache, now>> /\ record' = NoRecord

AllowRaises(c) ==
    /\ calls[c].at = "opened" /\ openedAt = None
    /\ calls' = [calls EXCEPT ![c] = Resting]
    /\ UNCHANGED <<failures, openedAt, cache, now, exposure>> /\ record' = NoRecord

\* move_to_end raises when the key was evicted after the lookup.
Hit(c) ==
    /\ calls[c].at = "hit"
    /\ IF Cached(calls[c].key) # {}
       THEN /\ cache' = LET i == CHOOSE i \in Cached(calls[c].key) : TRUE
                        IN  Append(RemoveAt(cache, i), cache[i])
            /\ Return(c, calls[c].output, FALSE)
       ELSE calls' = [calls EXCEPT ![c] = Resting] /\ UNCHANGED cache /\ record' = NoRecord
    /\ UNCHANGED <<failures, openedAt, now, exposure>>

\* An assignment keeps the place of a key that is there already.
Kept(output) ==
    LET i == Cached(output.key)
        grown == IF i = {} THEN Append(cache, output)
                 ELSE [cache EXCEPT ![CHOOSE j \in i : TRUE] = output]
    IN  IF Len(grown) > CacheCapacity THEN Tail(grown) ELSE grown

ProviderDecides(c) == \E confident \in BOOLEAN :
    LET output == Output("primary", calls[c].key, confident) IN
    /\ calls[c].at = "provider"
    /\ failures' = 0 /\ openedAt' = None /\ exposure' = 0
    /\ cache' = IF calls[c].key \in Cacheable THEN Kept(output) ELSE cache
    /\ Return(c, output, FALSE)
    /\ UNCHANGED now

\* The provider raises, or answers what _validate refuses; failure() counts.
\* `self.failures += 1` is one step: CPython switches threads at calls and
\* backward jumps only, and there is none between the read and the write.
ProviderFails(c) ==
    /\ calls[c].at = "provider"
    /\ failures' = failures + 1
    /\ At(c, "failed", calls[c].key)
    /\ UNCHANGED <<openedAt, cache, now, exposure>> /\ record' = NoRecord

Compare(c) ==
    /\ calls[c].at = "failed"
    /\ At(c, IF failures >= FailureThreshold THEN "opening" ELSE "fallback", calls[c].key)
    /\ UNCHANGED <<failures, openedAt, cache, now, exposure>> /\ record' = NoRecord

Open(c) ==
    /\ calls[c].at = "opening" /\ openedAt' = now
    /\ At(c, "fallback", calls[c].key)
    /\ UNCHANGED <<failures, cache, now, exposure>> /\ record' = NoRecord

FallbackDecidesCached(c) == \E confident \in BOOLEAN :   \* mutant: cached too
    LET output == Output("fallback", calls[c].key, confident) IN
    /\ calls[c].at = "fallback"
    /\ cache' = IF calls[c].key \in Cacheable THEN Kept(output) ELSE cache
    /\ Return(c, output, TRUE)
    /\ UNCHANGED <<failures, openedAt, now, exposure>>

FallbackDecides(c) == \E confident \in BOOLEAN :
    /\ calls[c].at = "fallback"
    /\ Return(c, Output("fallback", calls[c].key, confident), TRUE)
    /\ UNCHANGED <<failures, openedAt, cache, now, exposure>>

\* The fallback raises, or its answer is refused: so does evaluate.
FallbackFails(c) ==
    /\ calls[c].at = "fallback"
    /\ calls' = [calls EXCEPT ![c] = Resting]
    /\ UNCHANGED <<failures, openedAt, cache, now, exposure>> /\ record' = NoRecord

ClockTicks ==
    /\ now < MaxTicks /\ now' = now + 1
    /\ UNCHANGED <<failures, openedAt, cache, calls, exposure>> /\ record' = NoRecord

DecisionNext ==
    \/ \E c \in Callers :
          \/ \E key \in Keys : BeginCall(c, key)
          \/ AllowOpened(c) \/ AllowRaises(c) \/ Hit(c)
          \/ ProviderDecides(c) \/ ProviderFails(c) \/ Compare(c) \/ Open(c)
          \/ FallbackDecides(c) \/ FallbackFails(c)
    \/ ClockTicks

DecisionSpec == DecisionInit /\ [][DecisionNext]_decisionVars

-----------------------------------------------------------------------------
(***************************************************************************)
(* What is accepted was decided with confidence by the primary provider    *)
(* for the very state and question it is returned for, directly or out of  *)
(* the cache, and every record names who really decided, although outputs  *)
(* pass through a cache that other threads fill and empty.                 *)
(***************************************************************************)
DecisionsAreOwned ==
    record # NoRecord =>
        /\ record.output.key = record.key /\ record.output.origin = record.provider
        /\ record.disposition = "accepted" =>
              record.provider = "primary" /\ record.output.confident

(***************************************************************************)
(* A provider that keeps failing is left alone: between two successes or   *)
(* resets it is asked at most as often as the threshold, and once more by  *)
(* each other thread that was past the check when the breaker opened.      *)
(***************************************************************************)
BreakerBoundsExposure ==
    exposure <= FailureThreshold + Cardinality(Callers) - 1
=============================================================================
