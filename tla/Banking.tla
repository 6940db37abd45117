------------------------------ MODULE Banking ------------------------------
(***************************************************************************)
(* The banking reference service: score_transaction with its bounded       *)
(* idempotency map under a lock (platforms/banking/api.py) and the rules   *)
(* that score a transaction (platforms/banking/domain.py).  Events are     *)
(* delivered again at any time, also with another content under the same   *)
(* id, and a restart forgets the map.                                      *)
(*                                                                         *)
(* Scores are in hundredths; the sums of the floats that the rules can     *)
(* produce compare with both thresholds as the hundredths do.              *)
(***************************************************************************)
EXTENDS Integers, Sequences, FiniteSets, SequencesExt

CONSTANTS
    Events,             \* event ids
    Transactions,       \* contents: the features the rules look at
    MaxIdempotencyKeys,
    MaxReplies          \* bound: requests answered

ASSUME BankingAssumption == MaxIdempotencyKeys \in Nat

VARIABLES
    seen,               \* _seen: event and decision, least recently used first
    replies             \* history: event and decision answered

bankingVars == <<seen, replies>>

Weights == [high_amount |-> 28, international |-> 18, untrusted_device |-> 24,
            high_velocity |-> 25, auth_failures |-> 25, ecommerce |-> 4]

\* A transaction is the set of the conditions that hold of it.
Score(conditions) ==
    LET value == 2 + FoldSet(LAMBDA f, sum : sum + Weights[f], 0, conditions)
    IN  IF value > 100 THEN 100 ELSE value

DecisionFor(score) ==
    IF score >= 70 THEN "decline" ELSE IF score >= 35 THEN "review" ELSE "approve"

BankingInit == seen = <<>> /\ replies = <<>>

Remembered(event) == {i \in DOMAIN seen : seen[i].event = event}

Answer(event, decision) == [event |-> event, decision |-> decision]

ReplayInPlace(i) == seen        \* mutant: a replay is no use of the key

Replay(i) == Append(RemoveAt(seen, i), seen[i])

Remember(answer) ==
    LET grown == Append(seen, answer)
    IN  IF Len(grown) > MaxIdempotencyKeys THEN Tail(grown) ELSE grown

ScoreTransaction(event, conditions) ==
    LET known == Remembered(event)
        i == CHOOSE i \in known : TRUE
        answer == Answer(event, DecisionFor(Score(conditions)))
    IN  /\ Len(replies) < MaxReplies
        /\ seen' = IF known # {} THEN Replay(i) ELSE Remember(answer)
        /\ replies' = Append(replies, IF known # {} THEN seen[i] ELSE answer)

RestartBanking ==
    /\ seen # <<>> /\ seen' = <<>>
    /\ replies' = <<>>          \* the history starts again, too

BankingNext ==
    \/ \E event \in Events, t \in Transactions : ScoreTransaction(event, t)
    \/ RestartBanking

BankingSpec == BankingInit /\ [][BankingNext]_bankingVars

(***************************************************************************)
(* While the process stays up, a redelivered event is answered as it was   *)
(* the first time, even when its content has changed, unless so many other *)
(* events were asked about in between that they fill the map; a replay     *)
(* renews an event.  A restart empties the map and the history with it:    *)
(* nothing is claimed of an event that is redelivered across one.          *)
(***************************************************************************)
ReplaysAgree ==
    \A i, j \in DOMAIN replies :
        /\ i < j /\ replies[i].event = replies[j].event
        /\ replies[i].decision # replies[j].decision
        => LET between == {replies[k].event : k \in i + 1 .. j - 1}
           IN  Cardinality(between \ {replies[i].event}) >= MaxIdempotencyKeys
=============================================================================
