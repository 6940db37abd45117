------------------------------- MODULE Outbox -------------------------------
(***************************************************************************)
(* The integration outbox (platforms/integrations/outbox.py) and the       *)
(* dispatcher that drains it (platforms/integrations/dispatcher.py).       *)
(* Producers insert messages under an idempotency key; a dispatcher reads  *)
(* a batch of due messages, calls the destination's handler for each and   *)
(* records the outcome.  Reading, calling and recording are separate       *)
(* transactions: producers, other dispatchers and crashes come in between. *)
(*                                                                         *)
(* Time appears only in the order it imposes.  `due` lists the pending     *)
(* messages whose available_at has passed, oldest first: an insert is due  *)
(* at once, a failed delivery waits for its backoff (Elapse).              *)
(***************************************************************************)
EXTENDS Naturals, Sequences, SequencesExt

CONSTANTS
    Keys,            \* idempotency keys
    RowIds,          \* message ids (uuid4 in the code)
    Unroutable,      \* keys of messages whose destination has no handler
    Producers,       \* threads that enqueue
    Dispatchers,     \* processes that run OutboxDispatcher.run_once
    MaxAttempts,     \* failed deliveries before a dead letter (5 in the code)
    Limit,           \* rows a batch reads (100 in the code)
    MaxFailures,     \* bound: failed calls are counted up to this number
    MaxCuts          \* bound: runs cut short, by a crash or by an exception
                     \* that run_once does not catch

ASSUME BoundsAssumption ==
    /\ MaxAttempts \in Nat \ {0}
    /\ Limit \in Nat \ {0}
    /\ MaxFailures \in Nat /\ MaxFailures >= MaxAttempts
    /\ MaxCuts \in Nat

VARIABLES
    rows,            \* the table integration_outbox
    due,             \* ids of pending rows whose available_at has passed
    producers,       \* what each producer is doing
    dispatchers,     \* what each dispatcher is doing
    cuts,            \* runs cut short so far
    failures,        \* history: failed handler calls per key, up to MaxFailures
    handled          \* history: keys whose handler has succeeded

outboxVars == <<rows, due, producers, dispatchers, cuts, failures, handled>>
history == <<failures, handled>>

NoMessage == [status |-> "absent"]
Messages == [status : {"pending", "delivered", "dead-letter"}, key : Keys,
             attempts : 0..MaxAttempts]
Copies == [id : RowIds, attempts : 0..MaxAttempts]

OutboxTypeOK ==
    /\ rows \in [RowIds -> Messages \cup {NoMessage}]
    /\ due \in Seq(RowIds)
    /\ producers \in [Producers ->
            [pc : {"idle"}] \cup [pc : {"insert"}, key : Keys]
            \cup [pc : {"got"}, key : Keys, id : RowIds]]
    /\ dispatchers \in [Dispatchers ->
            [pc : {"idle", "loop", "ok", "error"}, batch : Seq(Copies)]]
    /\ cuts \in 0..MaxCuts
    /\ failures \in [Keys -> 0..MaxFailures]
    /\ handled \subseteq Keys

Resting == [pc |-> "idle", batch |-> << >>]

OutboxInit ==
    /\ rows = [i \in RowIds |-> NoMessage]
    /\ due = << >>
    /\ producers = [p \in Producers |-> [pc |-> "idle"]]
    /\ dispatchers = [d \in Dispatchers |-> Resting]
    /\ cuts = 0
    /\ failures = [k \in Keys |-> 0]
    /\ handled = {}

Stored(i) == rows[i].status # "absent"
HasRow(k) == \E i \in RowIds : Stored(i) /\ rows[i].key = k

-----------------------------------------------------------------------------
(***************************************************************************)
(* enqueue: look the key up, and if it is new insert a pending row in a    *)
(* second transaction.                                                     *)
(***************************************************************************)
LookUp(p, k) ==
    /\ producers[p].pc # "insert"
    /\ \/ \E i \in RowIds :
            /\ Stored(i) /\ rows[i].key = k
            /\ producers' = [producers EXCEPT ![p] =
                                [pc |-> "got", key |-> k, id |-> i]]
       \/ /\ ~HasRow(k)
          /\ producers' = [producers EXCEPT ![p] = [pc |-> "insert", key |-> k]]
    /\ UNCHANGED <<rows, due, dispatchers, cuts, history>>

(***************************************************************************)
(* Mutant: the table without UNIQUE on idempotency_key.                    *)
(***************************************************************************)
InsertNotUnique(p) ==
    LET k == producers[p].key IN
    /\ producers[p].pc = "insert"
    /\ \E i \in RowIds :
        /\ ~Stored(i)
        /\ rows' = [rows EXCEPT ![i] = [status |-> "pending", key |-> k,
                                        attempts |-> 0]]
        /\ due' = Append(due, i)
        /\ producers' = [producers EXCEPT ![p] =
                            [pc |-> "got", key |-> k, id |-> i]]
    /\ UNCHANGED <<dispatchers, cuts, history>>

(***************************************************************************)
(* The insert.  UNIQUE(idempotency_key) makes the loser of a race fail     *)
(* with an IntegrityError.                                                 *)
(***************************************************************************)
Insert(p) ==
    LET k == producers[p].key IN
    /\ producers[p].pc = "insert"
    /\ \/ /\ HasRow(k)
          /\ producers' = [producers EXCEPT ![p] = [pc |-> "idle"]]
          /\ UNCHANGED <<rows, due>>
       \/ /\ ~HasRow(k)
          /\ \E i \in RowIds :
              /\ ~Stored(i)
              /\ rows' = [rows EXCEPT ![i] = [status |-> "pending", key |-> k,
                                              attempts |-> 0]]
              /\ due' = Append(due, i)
              /\ producers' = [producers EXCEPT ![p] =
                                  [pc |-> "got", key |-> k, id |-> i]]
    /\ UNCHANGED <<dispatchers, cuts, history>>

(***************************************************************************)
(* The backoff of a failed message is over: it is due after the others.    *)
(***************************************************************************)
IsDue(i) == \E n \in 1..Len(due) : due[n] = i

Elapse(i) ==
    /\ rows[i].status = "pending"
    /\ ~IsDue(i)
    /\ due' = Append(due, i)
    /\ UNCHANGED <<rows, producers, dispatchers, cuts, history>>

-----------------------------------------------------------------------------
(***************************************************************************)
(* The two UPDATEs that record an outcome.  Neither looks at the row's     *)
(* status or attempts.                                                     *)
(***************************************************************************)
NotId(i) ==
    IF IsDue(i) THEN RemoveAt(due, CHOOSE n \in 1..Len(due) : due[n] = i) ELSE due

DeliveredStaysDue(i) ==    \* mutant: pending() without the status filter
    /\ rows' = [rows EXCEPT ![i] = [@ EXCEPT !.status = "delivered"]]
    /\ UNCHANGED due

Delivered(i) ==
    /\ rows' = [rows EXCEPT ![i] = [@ EXCEPT !.status = "delivered"]]
    /\ due' = NotId(i)

(***************************************************************************)
(* Mutants of failed(): attempts not written, a dead letter one failure    *)
(* early, and one failure late.                                            *)
(***************************************************************************)
FailedUncounted(i, attempts) ==
    /\ rows' = [rows EXCEPT ![i] = [@ EXCEPT !.status = "pending"]]
    /\ due' = NotId(i)

FailedEarly(i, attempts) ==
    /\ rows' = [rows EXCEPT ![i] =
        [@ EXCEPT !.status = IF attempts >= MaxAttempts - 1 THEN "dead-letter"
                                                            ELSE "pending",
                  !.attempts = attempts]]
    /\ due' = NotId(i)

Failed(i, attempts) ==
    /\ rows' = [rows EXCEPT ![i] =
        [@ EXCEPT !.status = IF attempts >= MaxAttempts THEN "dead-letter"
                                                        ELSE "pending",
                  !.attempts = attempts]]
    /\ due' = NotId(i)

-----------------------------------------------------------------------------
(***************************************************************************)
(* run_once.  pending(limit) copies the oldest due messages; the loop then *)
(* works on the copies.                                                    *)
(***************************************************************************)
Fetch(d) ==
    /\ dispatchers[d].pc = "idle"
    /\ due # << >>
    /\ LET n == IF Len(due) < Limit THEN Len(due) ELSE Limit IN
       dispatchers' = [dispatchers EXCEPT ![d] =
          [pc |-> "loop",
           batch |-> [j \in 1..n |-> [id |-> due[j],
                                      attempts |-> rows[due[j]].attempts]]]]
    /\ UNCHANGED <<rows, due, producers, cuts, history>>

First(d) == Head(dispatchers[d].batch)
KeyOf(d) == rows[First(d).id].key

(***************************************************************************)
(* The loop goes on to the next copy, or the run ends.                     *)
(***************************************************************************)
Advance(d) ==
    LET rest == Tail(dispatchers[d].batch) IN
    dispatchers' = [dispatchers EXCEPT ![d] =
        IF rest = << >> THEN Resting ELSE [pc |-> "loop", batch |-> rest]]

NoHandler(d) ==
    /\ dispatchers[d].pc = "loop"
    /\ KeyOf(d) \in Unroutable
    /\ Failed(First(d).id, MaxAttempts)
    /\ Advance(d)
    /\ UNCHANGED <<producers, cuts, history>>

CountFailure(k) ==
    failures' = [failures EXCEPT ![k] = IF @ < MaxFailures THEN @ + 1 ELSE @]

(***************************************************************************)
(* The handler runs: the remote side effect happens, or the call fails.    *)
(* An exception the loop does not catch (neither RuntimeError nor          *)
(* ValueError) ends the run, and the attempt is not counted.               *)
(***************************************************************************)
Call(d, outcome) ==
    /\ dispatchers[d].pc = "loop"
    /\ KeyOf(d) \notin Unroutable
    /\ \/ /\ outcome = "ok"
          /\ handled' = handled \cup {KeyOf(d)}
          /\ dispatchers' = [dispatchers EXCEPT ![d] = [@ EXCEPT !.pc = "ok"]]
          /\ UNCHANGED failures
       \/ /\ outcome = "error"
          /\ CountFailure(KeyOf(d))
          /\ dispatchers' = [dispatchers EXCEPT ![d] = [@ EXCEPT !.pc = "error"]]
          /\ UNCHANGED handled
    /\ UNCHANGED <<rows, due, producers, cuts>>

CallRaises(d) ==
    /\ dispatchers[d].pc = "loop"
    /\ KeyOf(d) \notin Unroutable
    /\ cuts < MaxCuts
    /\ cuts' = cuts + 1
    /\ CountFailure(KeyOf(d))
    /\ dispatchers' = [dispatchers EXCEPT ![d] = Resting]
    /\ UNCHANGED <<rows, due, producers, handled>>

RecordDelivered(d) ==
    /\ dispatchers[d].pc = "ok"
    /\ Delivered(First(d).id)
    /\ Advance(d)
    /\ UNCHANGED <<producers, cuts, history>>

(***************************************************************************)
(* Mutant: a failed call recorded as delivered.                            *)
(***************************************************************************)
RecordFailedAsDelivered(d) ==
    /\ dispatchers[d].pc = "error"
    /\ Delivered(First(d).id)
    /\ Advance(d)
    /\ UNCHANGED <<producers, cuts, history>>

(***************************************************************************)
(* attempts is counted from the copy, not from the row.                    *)
(***************************************************************************)
RecordFailed(d) ==
    /\ dispatchers[d].pc = "error"
    /\ Failed(First(d).id, First(d).attempts + 1)
    /\ Advance(d)
    /\ UNCHANGED <<producers, cuts, history>>

(***************************************************************************)
(* The process dies: its batch is gone, whatever it had not recorded yet   *)
(* is still pending.                                                       *)
(***************************************************************************)
Crash(d) ==
    /\ dispatchers[d].pc # "idle"
    /\ cuts < MaxCuts
    /\ cuts' = cuts + 1
    /\ dispatchers' = [dispatchers EXCEPT ![d] = Resting]
    /\ UNCHANGED <<rows, due, producers, history>>

Work(d) ==
    \/ Fetch(d)
    \/ NoHandler(d)
    \/ \E outcome \in {"ok", "error"} : Call(d, outcome)
    \/ RecordDelivered(d)
    \/ RecordFailed(d)

OutboxNext ==
    \/ \E p \in Producers : Insert(p) \/ \E k \in Keys : LookUp(p, k)
    \/ \E i \in RowIds : Elapse(i)
    \/ \E d \in Dispatchers : Work(d) \/ CallRaises(d) \/ Crash(d)

OutboxSpec == OutboxInit /\ [][OutboxNext]_outboxVars

(***************************************************************************)
(* A dispatcher is scheduled again and again and finishes what it began,   *)
(* and backoffs end.  Nothing is assumed of producers or of how a handler  *)
(* ends, except that runs are cut short only finitely often.               *)
(***************************************************************************)
OutboxFairness ==
    /\ \A d \in Dispatchers : WF_outboxVars(Work(d))
    /\ \A i \in RowIds : WF_outboxVars(Elapse(i))

OutboxFairSpec == OutboxSpec /\ OutboxFairness

-----------------------------------------------------------------------------
(***************************************************************************)
(* enqueue is idempotent however producers race between its SELECT and its *)
(* INSERT: two rows never share a key, and an id a producer was given is   *)
(* the id of the row of its key.                                           *)
(***************************************************************************)
EnqueueIdempotent ==
    /\ \A i, j \in RowIds :
          Stored(i) /\ Stored(j) /\ rows[i].key = rows[j].key => i = j
    /\ \A p \in Producers : producers[p].pc = "got" =>
          Stored(producers[p].id) /\ rows[producers[p].id].key = producers[p].key

(***************************************************************************)
(* A row says "delivered" only if the handler really succeeded for its     *)
(* key: outcomes recorded from stale batches, by several dispatchers and   *)
(* across crashes never invent a delivery.                                 *)
(***************************************************************************)
DeliveredWasHandled ==
    \A i \in RowIds : rows[i].status = "delivered" => rows[i].key \in handled

(***************************************************************************)
(* No message is given up early: a dead letter had MaxAttempts failed      *)
(* calls, or nowhere to go - even when dispatchers count attempts from     *)
(* stale copies.                                                           *)
(***************************************************************************)
NoEarlyDeadLetter ==
    \A i \in RowIds : rows[i].status = "dead-letter" =>
        rows[i].key \in Unroutable \/ failures[rows[i].key] >= MaxAttempts

(***************************************************************************)
(* A delivered or dead-lettered message is not handed out again, and its   *)
(* row changes only when a dispatcher records the outcome of a copy that   *)
(* it took earlier; that copy is then used up.  So a row is set back at    *)
(* most as often as copies of it were held when it settled, which the code *)
(* does, and one of which nobody holds a copy is settled for good.         *)
(***************************************************************************)
Holds(d, i) ==
    \E n \in 1..Len(dispatchers[d].batch) : dispatchers[d].batch[n].id = i

SettledStays ==
    [][\A i \in RowIds : rows[i].status \in {"delivered", "dead-letter"} =>
          /\ \A d \in Dispatchers : Holds(d, i)' => Holds(d, i)
          /\ rows'[i] # rows[i] =>
                \E d \in Dispatchers :
                    Holds(d, i) /\ First(d).id = i /\ Advance(d)]_outboxVars

(***************************************************************************)
(* Every message that is stored is eventually delivered or dead-lettered:  *)
(* the loop of run_once, the order of pending() and the backoff leave no   *)
(* message behind, even when overlapping dispatchers write older counts    *)
(* over newer ones.                                                        *)
(***************************************************************************)
EventuallySettled ==
    \A i \in RowIds : (rows[i].status = "pending") ~>
                   (rows[i].status \in {"delivered", "dead-letter"})
=============================================================================
