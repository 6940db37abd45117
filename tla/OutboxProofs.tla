---------------------------- MODULE OutboxProofs ----------------------------
(***************************************************************************)
(* Proofs about the outbox for any number of messages, producers and       *)
(* dispatchers, any batch limit, number of attempts and number of cuts.    *)
(*                                                                         *)
(* The difficulty is in the copies: a dispatcher records an outcome from a *)
(* copy of a row that other dispatchers have changed since.  What remains  *)
(* true of a copy however old it is: its row exists and keeps its key, its *)
(* attempts are below the limit, and that many calls for the key have      *)
(* failed.  A row then inherits this from the copy it is written from.     *)
(***************************************************************************)
EXTENDS Outbox, TLAPS

Tables == [RowIds -> Messages \cup {NoMessage}]
Counts == [Keys -> 0..MaxFailures]
Workers == [pc : {"idle", "loop", "ok", "error"}, batch : Seq(Copies)]

UniqueKeys ==
    \A i, j \in RowIds : Stored(i) /\ Stored(j) /\ rows[i].key = rows[j].key => i = j

AnswersRight ==
    \A p \in Producers : producers[p].pc = "got" =>
        Stored(producers[p].id) /\ rows[producers[p].id].key = producers[p].key

GoodRow(m, failed, done) ==
    /\ m.status = "pending" => m.attempts < MaxAttempts
    /\ m.status = "dead-letter" => m.attempts = MaxAttempts
    /\ m.status = "delivered" => m.key \in done
    /\ m.status # "absent" /\ m.key \notin Unroutable => m.attempts <= failed[m.key]

GoodDue ==
    /\ \A n \in 1..Len(due) : rows[due[n]].status = "pending"
    /\ \A m, n \in 1..Len(due) : due[m] = due[n] => m = n

GoodCopy(c, table, failed) ==
    /\ table[c.id].status # "absent"
    /\ c.attempts < MaxAttempts
    /\ table[c.id].key \notin Unroutable => c.attempts <= failed[table[c.id].key]

GoodWorker(w, table, failed, done) ==
    /\ w.pc # "idle" => w.batch # << >>
    /\ \A n \in 1..Len(w.batch) : GoodCopy(w.batch[n], table, failed)
    /\ w.pc = "ok" => table[w.batch[1].id].key \in done
    /\ w.pc = "error" =>
          /\ table[w.batch[1].id].key \notin Unroutable
          /\ w.batch[1].attempts < failed[table[w.batch[1].id].key]

GoodRows == \A i \in RowIds : GoodRow(rows[i], failures, handled)
GoodWorkers ==
    \A d \in Dispatchers : GoodWorker(dispatchers[d], rows, failures, handled)

IInv == OutboxTypeOK /\ UniqueKeys /\ AnswersRight /\ GoodRows /\ GoodDue /\ GoodWorkers

-----------------------------------------------------------------------------
(***************************************************************************)
(* Rows are never removed and keep their key; the histories only grow.     *)
(***************************************************************************)
Keeps(before, after) ==
    \A i \in RowIds : before[i].status # "absent" =>
        after[i].status # "absent" /\ after[i].key = before[i].key

Grows(before, after) == \A k \in Keys : before[k] <= after[k]

(***************************************************************************)
(* So what is true of a copy stays true, whoever writes meanwhile.         *)
(***************************************************************************)
LEMMA CopyKept ==
    ASSUME NEW t \in Tables, NEW u \in Tables, Keeps(t, u),
           NEW f \in Counts, NEW g \in Counts, Grows(f, g),
           NEW c \in Copies, GoodCopy(c, t, f)
    PROVE  GoodCopy(c, u, g)
<1>1. c.id \in RowIds /\ c.attempts \in Nat /\ MaxAttempts \in Nat
  BY BoundsAssumption DEF Copies
<1>2. t[c.id] \in Messages /\ u[c.id].status # "absent" /\ u[c.id].key = t[c.id].key
  BY <1>1 DEF GoodCopy, Keeps, Tables, NoMessage
<1>3. t[c.id].key \in Keys
  BY <1>2 DEF Messages
<1>4. f[t[c.id].key] \in Nat /\ g[t[c.id].key] \in Nat
      /\ f[t[c.id].key] <= g[t[c.id].key]
  BY <1>3, BoundsAssumption DEF Counts, Grows
<1> QED BY <1>1, <1>2, <1>4 DEF GoodCopy

LEMMA WorkerKept ==
    ASSUME NEW t \in Tables, NEW u \in Tables, Keeps(t, u),
           NEW f \in Counts, NEW g \in Counts, Grows(f, g),
           NEW h, NEW e, h \subseteq e,
           NEW w \in Workers, GoodWorker(w, t, f, h)
    PROVE  GoodWorker(w, u, g, e)
<1>1. w.batch \in Seq(Copies)
  BY DEF Workers
<1>2. \A n \in 1..Len(w.batch) : w.batch[n] \in Copies
  BY <1>1
<1>3. \A n \in 1..Len(w.batch) : GoodCopy(w.batch[n], u, g)
  BY <1>2, CopyKept DEF GoodWorker
<1>4. ASSUME w.batch # << >>
      PROVE  /\ w.batch[1] \in Copies
             /\ u[w.batch[1].id].key = t[w.batch[1].id].key
             /\ t[w.batch[1].id].key \in Keys
  <2>1. 1 \in 1..Len(w.batch)
    BY <1>1, <1>4
  <2>2. w.batch[1] \in Copies /\ GoodCopy(w.batch[1], t, f)
    BY <1>2, <2>1 DEF GoodWorker
  <2>3. w.batch[1].id \in RowIds /\ t[w.batch[1].id] \in Messages
    BY <2>2 DEF Copies, GoodCopy, Tables, NoMessage
  <2> QED BY <2>2, <2>3 DEF Keeps, GoodCopy, Messages
<1>5. w.pc = "ok" => u[w.batch[1].id].key \in e
  BY <1>4 DEF GoodWorker
<1>6. w.pc = "error" =>
          /\ u[w.batch[1].id].key \notin Unroutable
          /\ w.batch[1].attempts < g[u[w.batch[1].id].key]
  <2> SUFFICES ASSUME w.pc = "error" PROVE w.batch[1].attempts < g[u[w.batch[1].id].key]
    BY <1>4 DEF GoodWorker
  <2> DEFINE k == t[w.batch[1].id].key
  <2>1. /\ w.batch[1].attempts \in Nat /\ w.batch[1].attempts < f[k] /\ k \in Keys
        /\ u[w.batch[1].id].key = k
    BY <1>4 DEF GoodWorker, Copies
  <2> HIDE DEF k
  <2>2. f[k] \in Nat /\ g[k] \in Nat /\ f[k] <= g[k]
    BY <2>1, BoundsAssumption DEF Counts, Grows
  <2> QED BY <2>1, <2>2
<1> QED BY <1>3, <1>5, <1>6 DEF GoodWorker

(***************************************************************************)
(* The ids that remain due when one is taken out.                          *)
(***************************************************************************)
LEMMA Removal ==
    ASSUME OutboxTypeOK, GoodDue, NEW i \in RowIds
    PROVE  /\ NotId(i) \in Seq(RowIds)
           /\ \A n \in 1..Len(NotId(i)) :
                 NotId(i)[n] # i /\ \E m \in 1..Len(due) : NotId(i)[n] = due[m]
           /\ \A m, n \in 1..Len(NotId(i)) : NotId(i)[m] = NotId(i)[n] => m = n
<1>1. due \in Seq(RowIds)
  BY DEF OutboxTypeOK
<1>2. CASE ~IsDue(i)
  <2>1. NotId(i) = due
    BY <1>2 DEF NotId
  <2> QED BY <1>1, <1>2, <2>1 DEF IsDue, GoodDue
<1>3. CASE IsDue(i)
  <2> DEFINE p == CHOOSE n \in 1..Len(due) : due[n] = i
  <2>1. p \in 1..Len(due) /\ due[p] = i
    BY <1>3 DEF IsDue
  <2>2. NotId(i) = SubSeq(due, 1, p - 1) \o SubSeq(due, p + 1, Len(due))
    BY <1>3 DEF NotId, RemoveAt
  <2> HIDE DEF p
  <2>3. /\ SubSeq(due, 1, p - 1) \in Seq(RowIds)
        /\ Len(SubSeq(due, 1, p - 1)) = p - 1
        /\ \A n \in 1..(p - 1) : SubSeq(due, 1, p - 1)[n] = due[n]
    BY <1>1, <2>1
  <2>4. /\ SubSeq(due, p + 1, Len(due)) \in Seq(RowIds)
        /\ Len(SubSeq(due, p + 1, Len(due))) = Len(due) - p
        /\ \A n \in 1..(Len(due) - p) : SubSeq(due, p + 1, Len(due))[n] = due[p + n]
    BY <1>1, <2>1
  <2>5. /\ NotId(i) \in Seq(RowIds) /\ Len(NotId(i)) = Len(due) - 1
        /\ \A n \in 1..(Len(due) - 1) :
              NotId(i)[n] = IF n < p THEN due[n] ELSE due[n + 1]
    <3> DEFINE a == SubSeq(due, 1, p - 1)
               b == SubSeq(due, p + 1, Len(due))
    <3>1. a \in Seq(RowIds) /\ b \in Seq(RowIds) /\ Len(a) = p - 1 /\ Len(b) = Len(due) - p
      BY <2>3, <2>4
    <3> HIDE DEF a, b
    <3>2. a \o b \in Seq(RowIds) /\ Len(a \o b) = Len(due) - 1
      BY <1>1, <2>1, <3>1
    <3>3. ASSUME NEW n \in 1..(Len(due) - 1)
          PROVE  (a \o b)[n] = IF n < p THEN due[n] ELSE due[n + 1]
      <4>1. CASE n < p
        <5>1. (a \o b)[n] = a[n]
          BY <4>1, <3>1, <2>1, <1>1
        <5> QED BY <5>1, <4>1, <2>1, <2>3, <1>1 DEF a
      <4>2. CASE ~(n < p)
        <5>1. (a \o b)[n] = b[n - (p - 1)]
          BY <4>2, <3>1, <2>1, <1>1
        <5>2. n - (p - 1) \in 1..(Len(due) - p) /\ p + (n - (p - 1)) = n + 1
          BY <4>2, <2>1, <1>1
        <5>3. b[n - (p - 1)] = due[p + (n - (p - 1))]
          BY <5>2, <2>4 DEF b
        <5>4. n \in Int /\ p \in Int
          BY <2>1, <1>1
        <5> QED BY <5>1, <5>2, <5>3, <5>4, <4>2
      <4> QED BY <4>1, <4>2
    <3>4. NotId(i) = a \o b
      BY <2>2 DEF a, b
    <3> QED BY <3>2, <3>3, <3>4
  <2> DEFINE new == NotId(i)
  <2>6. Len(due) \in Nat /\ \A m, n \in 1..Len(due) : due[m] = due[n] => m = n
    BY <1>1 DEF GoodDue
  <2>7. new \in Seq(RowIds) /\ Len(new) = Len(due) - 1
        /\ \A n \in 1..(Len(due) - 1) : new[n] = IF n < p THEN due[n] ELSE due[n + 1]
    BY <2>5
  <2> HIDE DEF new
  <2>8. ASSUME NEW n \in 1..Len(new)
        PROVE  new[n] # i /\ \E m \in 1..Len(due) : new[n] = due[m]
    <3> DEFINE m == IF n < p THEN n ELSE n + 1
    <3>1. m \in 1..Len(due) /\ m # p /\ new[n] = due[m]
      BY <2>1, <2>6, <2>7
    <3> QED BY <2>1, <2>6, <3>1
  <2>9. ASSUME NEW m \in 1..Len(new), NEW n \in 1..Len(new), new[m] = new[n]
        PROVE  m = n
    <3> DEFINE at(k) == IF k < p THEN k ELSE k + 1
    <3>1. /\ at(m) \in 1..Len(due) /\ new[m] = due[at(m)]
          /\ at(n) \in 1..Len(due) /\ new[n] = due[at(n)]
      BY <2>1, <2>6, <2>7
    <3>2. at(m) = at(n)
      <4> HIDE DEF at
      <4> QED BY <2>6, <2>9, <3>1
    <3> QED BY <2>1, <2>6, <2>7, <3>2
  <2> QED BY <2>7, <2>8, <2>9 DEF new
<1> QED BY <1>2, <1>3

-----------------------------------------------------------------------------
LEMMA InitGood == OutboxInit => IInv
<1> SUFFICES ASSUME OutboxInit PROVE IInv
  OBVIOUS
<1> USE BoundsAssumption
<1>1. OutboxTypeOK
  BY DEF OutboxInit, OutboxTypeOK, NoMessage, Resting, Copies
<1>2. UniqueKeys /\ GoodRows
  BY DEF OutboxInit, UniqueKeys, GoodRows, GoodRow, Stored, NoMessage
<1>3. AnswersRight /\ GoodDue
  BY DEF OutboxInit, AnswersRight, GoodDue
<1>4. GoodWorkers
  BY DEF OutboxInit, GoodWorkers, GoodWorker, Resting
<1> QED BY <1>1, <1>2, <1>3, <1>4 DEF IInv

(***************************************************************************)
(* What one dispatcher does leaves the others good.                        *)
(***************************************************************************)
LEMMA WorkersKept ==
    ASSUME OutboxTypeOK, GoodWorkers, NEW d \in Dispatchers, NEW w \in Workers,
           dispatchers' = [dispatchers EXCEPT ![d] = w],
           rows' \in Tables, failures' \in Counts, Keeps(rows, rows'),
           Grows(failures, failures'), handled \subseteq handled',
           GoodWorker(w, rows', failures', handled')
    PROVE  dispatchers' \in [Dispatchers -> Workers] /\ GoodWorkers'
<1>1. /\ rows \in Tables /\ failures \in Counts
      /\ dispatchers \in [Dispatchers -> Workers]
  BY DEF OutboxTypeOK, Tables, Counts, Workers
<1>2. dispatchers' \in [Dispatchers -> Workers]
  BY <1>1
<1>3. ASSUME NEW e \in Dispatchers
      PROVE  GoodWorker(dispatchers'[e], rows', failures', handled')
  <2>1. CASE e = d
    BY <1>1, <2>1
  <2>2. CASE e # d
    <3>1. dispatchers'[e] = dispatchers[e] /\ dispatchers[e] \in Workers
          /\ GoodWorker(dispatchers[e], rows, failures, handled)
      BY <1>1, <2>2 DEF GoodWorkers
    <3>2. GoodWorker(dispatchers[e], rows', failures', handled')
      BY <1>1, <3>1, WorkerKept
    <3> QED BY <3>1, <3>2
  <2> QED BY <2>1, <2>2
<1> QED BY <1>2, <1>3 DEF GoodWorkers

LEMMA Unmoved ==
    ASSUME OutboxTypeOK
    PROVE  /\ rows \in Tables /\ failures \in Counts /\ handled \subseteq Keys
           /\ dispatchers \in [Dispatchers -> Workers]
           /\ Keeps(rows, rows) /\ Grows(failures, failures)
BY BoundsAssumption DEF OutboxTypeOK, Tables, Counts, Workers, Keeps, Grows

(***************************************************************************)
(* A busy dispatcher holds a copy of a stored row.                         *)
(***************************************************************************)
LEMMA FirstCopy ==
    ASSUME IInv, NEW d \in Dispatchers, dispatchers[d].pc # "idle"
    PROVE  /\ dispatchers[d] \in Workers
           /\ dispatchers[d].batch \in Seq(Copies) /\ dispatchers[d].batch # << >>
           /\ First(d) = dispatchers[d].batch[1] /\ First(d) \in Copies
           /\ GoodCopy(First(d), rows, failures)
           /\ First(d).id \in RowIds /\ rows[First(d).id] \in Messages
           /\ KeyOf(d) \in Keys /\ KeyOf(d) = rows[First(d).id].key
           /\ GoodWorker(dispatchers[d], rows, failures, handled)
<1>1. dispatchers[d] \in Workers /\ rows \in Tables
      /\ GoodWorker(dispatchers[d], rows, failures, handled)
  BY Unmoved DEF IInv, GoodWorkers
<1>2. dispatchers[d].batch \in Seq(Copies) /\ dispatchers[d].batch # << >>
  BY <1>1 DEF Workers, GoodWorker
<1>3. First(d) = dispatchers[d].batch[1] /\ First(d) \in Copies
      /\ 1 \in 1..Len(dispatchers[d].batch)
  BY <1>2 DEF First
<1>4. GoodCopy(First(d), rows, failures)
  BY <1>1, <1>3 DEF GoodWorker
<1>5. First(d).id \in RowIds /\ rows[First(d).id] \in Messages
  BY <1>1, <1>3, <1>4 DEF Copies, GoodCopy, Tables, NoMessage
<1> QED BY <1>1, <1>2, <1>3, <1>4, <1>5 DEF KeyOf, Messages

(***************************************************************************)
(* The rest of a batch is as good as the batch.                            *)
(***************************************************************************)
LEMMA AdvanceGood ==
    ASSUME NEW t, NEW f, NEW h, NEW b \in Seq(Copies), b # << >>,
           \A n \in 1..Len(b) : GoodCopy(b[n], t, f),
           NEW w, w = IF Tail(b) = << >> THEN Resting ELSE [pc |-> "loop", batch |-> Tail(b)]
    PROVE  w \in Workers /\ GoodWorker(w, t, f, h)
<1>1. Tail(b) \in Seq(Copies) /\ Len(Tail(b)) = Len(b) - 1
      /\ \A n \in 1..Len(Tail(b)) : n + 1 \in 1..Len(b) /\ Tail(b)[n] = b[n + 1]
  OBVIOUS
<1> DEFINE r == Tail(b)
<1>2. r \in Seq(Copies) /\ \A n \in 1..Len(r) : GoodCopy(r[n], t, f)
  BY <1>1
<1> HIDE DEF r
<1>3. CASE r = << >>
  BY <1>3 DEF r, Resting, Workers, GoodWorker
<1>4. CASE r # << >>
  <2>1. w = [pc |-> "loop", batch |-> r]
    BY <1>4 DEF r
  <2> QED BY <1>2, <1>4, <2>1 DEF Workers, GoodWorker
<1> QED BY <1>3, <1>4

-----------------------------------------------------------------------------
(***************************************************************************)
(* An outcome is recorded from a copy: the row keeps its key and leaves    *)
(* the due messages, and the dispatcher goes on.                           *)
(***************************************************************************)
LEMMA RecordGood ==
    ASSUME IInv, NEW d \in Dispatchers, dispatchers[d].pc # "idle", Advance(d),
           NEW new \in Messages, new.key = KeyOf(d), GoodRow(new, failures, handled),
           rows' = [rows EXCEPT ![First(d).id] = new], due' = NotId(First(d).id),
           UNCHANGED <<producers, cuts, history>>
    PROVE  IInv'
<1> DEFINE i == First(d).id
<1>1. /\ i \in RowIds /\ rows[i] \in Messages /\ new.key = rows[i].key
      /\ dispatchers[d].batch \in Seq(Copies) /\ dispatchers[d].batch # << >>
      /\ GoodWorker(dispatchers[d], rows, failures, handled)
  BY FirstCopy
<1>2. rows[i].status # "absent" /\ new.status # "absent"
  BY <1>1 DEF Messages
<1>3. rows' = [rows EXCEPT ![i] = new] /\ due' = NotId(i)
  OBVIOUS
<1> HIDE DEF i
<1>4. UNCHANGED <<producers, cuts, failures, handled>>
  BY DEF history
<1>5. rows \in Tables /\ failures \in Counts /\ OutboxTypeOK /\ GoodDue
  BY Unmoved DEF IInv
<1>6. rows' \in Tables /\ Keeps(rows, rows')
  BY <1>1, <1>2, <1>3, <1>5 DEF Tables, Keeps
<1>7. Grows(failures, failures') /\ failures' \in Counts /\ handled \subseteq handled'
  BY <1>4, <1>5, Unmoved
<1> DEFINE b == dispatchers[d].batch
           w == IF Tail(b) = << >> THEN Resting ELSE [pc |-> "loop", batch |-> Tail(b)]
<1>8. dispatchers' = [dispatchers EXCEPT ![d] = w]
  BY DEF Advance
<1>9. w \in Workers /\ GoodWorker(w, rows', failures', handled')
  <2>1. \A n \in 1..Len(b) : GoodCopy(b[n], rows', failures')
    <3>1. \A n \in 1..Len(b) : b[n] \in Copies /\ GoodCopy(b[n], rows, failures)
      BY <1>1 DEF GoodWorker
    <3> QED BY <3>1, <1>5, <1>6, <1>7, CopyKept
  <2> HIDE DEF b
  <2>2. b \in Seq(Copies) /\ b # << >>
    BY <1>1 DEF b
  <2> QED BY <2>1, <2>2, AdvanceGood
<1> HIDE DEF b, w
<1>10. dispatchers' \in [Dispatchers -> Workers] /\ GoodWorkers'
  BY <1>5, <1>6, <1>7, <1>8, <1>9, WorkersKept DEF IInv
<1>11. /\ due' \in Seq(RowIds)
       /\ \A n \in 1..Len(due') : due'[n] # i /\ \E m \in 1..Len(due) : due'[n] = due[m]
       /\ \A m, n \in 1..Len(due') : due'[m] = due'[n] => m = n
  BY <1>1, <1>3, <1>5, Removal
<1>12. OutboxTypeOK'
  BY <1>4, <1>5, <1>6, <1>10, <1>11 DEF OutboxTypeOK, Tables, Workers
<1>13. UniqueKeys'
  BY <1>1, <1>2, <1>3, <1>5 DEF IInv, UniqueKeys, Stored, Tables
<1>14. AnswersRight'
  BY <1>1, <1>2, <1>3, <1>4, <1>5 DEF IInv, AnswersRight, Stored, Tables
<1>15. GoodRows'
  BY <1>1, <1>3, <1>4, <1>5 DEF IInv, GoodRows, Tables
<1>16. GoodDue'
  <2>1. ASSUME NEW n \in 1..Len(due') PROVE rows'[due'[n]].status = "pending"
    <3>1. PICK m \in 1..Len(due) : due'[n] = due[m]
      BY <1>11
    <3>2. due[m] \in RowIds /\ rows[due[m]].status = "pending" /\ due[m] # i
      BY <3>1, <1>5, <1>11 DEF OutboxTypeOK, GoodDue
    <3> QED BY <3>1, <3>2, <1>3, <1>5 DEF Tables
  <2> QED BY <2>1, <1>11 DEF GoodDue
<1> QED BY <1>10, <1>12, <1>13, <1>14, <1>15, <1>16 DEF IInv

(***************************************************************************)
(* A step of a dispatcher that leaves the table and the due messages       *)
(* alone: the fetch, the call, and the ends of a run.                      *)
(***************************************************************************)
LEMMA DispatchGood ==
    ASSUME IInv, NEW d \in Dispatchers, NEW w \in Workers,
           dispatchers' = [dispatchers EXCEPT ![d] = w],
           UNCHANGED <<rows, due, producers>>, cuts' \in 0..MaxCuts,
           failures' \in Counts, Grows(failures, failures'),
           handled \subseteq handled', handled' \subseteq Keys,
           GoodWorker(w, rows, failures', handled')
    PROVE  IInv'
<1>1. rows \in Tables /\ failures \in Counts /\ Keeps(rows, rows) /\ OutboxTypeOK
  BY Unmoved DEF IInv
<1>2. dispatchers' \in [Dispatchers -> Workers] /\ GoodWorkers'
  BY <1>1, WorkersKept DEF IInv
<1>3. OutboxTypeOK'
  BY <1>1, <1>2 DEF OutboxTypeOK, Workers, Counts
<1>4. UniqueKeys' /\ AnswersRight' /\ GoodDue'
  BY DEF IInv, UniqueKeys, AnswersRight, GoodDue, Stored
<1>5. GoodRows'
  <2>1. ASSUME NEW i \in RowIds PROVE GoodRow(rows[i], failures', handled')
    <3>1. GoodRow(rows[i], failures, handled) /\ rows[i] \in Messages \cup {NoMessage}
      BY <1>1 DEF IInv, GoodRows, Tables
    <3>2. CASE rows[i] = NoMessage
      BY <3>1, <3>2 DEF GoodRow, NoMessage
    <3>3. CASE rows[i] \in Messages
      <4>1. rows[i].key \in Keys /\ rows[i].attempts \in Nat
        BY <3>3, BoundsAssumption DEF Messages
      <4>2. failures[rows[i].key] \in Nat /\ failures'[rows[i].key] \in Nat
            /\ failures[rows[i].key] <= failures'[rows[i].key]
        BY <4>1, <1>1, BoundsAssumption DEF Counts, Grows
      <4> QED BY <3>1, <4>1, <4>2 DEF GoodRow
    <3> QED BY <3>1, <3>2, <3>3
  <2> QED BY <2>1 DEF GoodRows
<1> QED BY <1>2, <1>3, <1>4, <1>5 DEF IInv

LEMMA CountGrows ==
    ASSUME OutboxTypeOK, NEW k \in Keys, CountFailure(k)
    PROVE  /\ failures' \in Counts /\ Grows(failures, failures')
           /\ failures'[k] = IF failures[k] < MaxFailures THEN failures[k] + 1 ELSE MaxFailures
BY BoundsAssumption DEF OutboxTypeOK, CountFailure, Counts, Grows

-----------------------------------------------------------------------------
LEMMA LookUpGood ==
    ASSUME IInv, NEW p \in Producers, NEW k \in Keys, LookUp(p, k)
    PROVE  IInv'
<1>1. UNCHANGED <<rows, due, dispatchers, cuts, failures, handled>>
  BY DEF LookUp, history
<1>2. PICK new \in {[pc |-> "insert", key |-> k]} \cup
              {[pc |-> "got", key |-> k, id |-> i] : i \in {j \in RowIds : Stored(j) /\ rows[j].key = k}} :
          producers' = [producers EXCEPT ![p] = new]
  BY DEF LookUp
<1>3. OutboxTypeOK'
  BY <1>1, <1>2 DEF IInv, OutboxTypeOK
<1>4. AnswersRight'
  BY <1>1, <1>2 DEF IInv, OutboxTypeOK, AnswersRight, Stored
<1>5. UniqueKeys' /\ GoodRows' /\ GoodDue' /\ GoodWorkers'
  BY <1>1 DEF IInv, UniqueKeys, GoodRows, GoodDue, GoodWorkers, Stored
<1> QED BY <1>3, <1>4, <1>5 DEF IInv

LEMMA InsertGood ==
    ASSUME IInv, NEW p \in Producers, Insert(p)
    PROVE  IInv'
<1> DEFINE k == producers[p].key
<1>1. k \in Keys /\ producers[p].pc = "insert"
  BY DEF Insert, IInv, OutboxTypeOK
<1>2. UNCHANGED <<dispatchers, cuts, failures, handled>>
  BY DEF Insert, history
<1>3. CASE HasRow(k) /\ producers' = [producers EXCEPT ![p] = [pc |-> "idle"]]
           /\ UNCHANGED <<rows, due>>
  <2>1. OutboxTypeOK'
    BY <1>2, <1>3 DEF IInv, OutboxTypeOK
  <2>2. AnswersRight'
    BY <1>3 DEF IInv, OutboxTypeOK, AnswersRight, Stored
  <2>3. UniqueKeys' /\ GoodRows' /\ GoodDue' /\ GoodWorkers'
    BY <1>2, <1>3 DEF IInv, UniqueKeys, GoodRows, GoodDue, GoodWorkers, Stored
  <2> QED BY <2>1, <2>2, <2>3 DEF IInv
<1>4. ASSUME ~HasRow(k), NEW i \in RowIds, ~Stored(i),
             rows' = [rows EXCEPT ![i] = [status |-> "pending", key |-> k, attempts |-> 0]],
             due' = Append(due, i),
             producers' = [producers EXCEPT ![p] = [pc |-> "got", key |-> k, id |-> i]]
      PROVE  IInv'
  <2> DEFINE new == [status |-> "pending", key |-> k, attempts |-> 0]
  <2>1. /\ new \in Messages /\ new.status = "pending" /\ new.key = k /\ new.attempts = 0
        /\ rows' = [rows EXCEPT ![i] = new]
    BY <1>1, <1>4, BoundsAssumption DEF Messages
  <2> HIDE DEF new, k
  <2>2. rows \in Tables /\ failures \in Counts /\ OutboxTypeOK
        /\ dispatchers \in [Dispatchers -> Workers]
    BY Unmoved DEF IInv
  <2>3. rows' \in Tables /\ Keeps(rows, rows')
    BY <2>1, <2>2, <1>4 DEF Tables, Keeps, Stored
  <2>4. due' \in Seq(RowIds)
    BY <1>4, <2>2 DEF OutboxTypeOK
  <2>5. producers' \in [Producers ->
            [pc : {"idle"}] \cup [pc : {"insert"}, key : Keys]
            \cup [pc : {"got"}, key : Keys, id : RowIds]]
    BY <1>1, <1>4, <2>2 DEF OutboxTypeOK
  <2>6. OutboxTypeOK'
    BY <1>2, <2>2, <2>3, <2>4, <2>5 DEF OutboxTypeOK, Tables
  <2>7. UniqueKeys'
    BY <1>4, <2>1, <2>2 DEF IInv, UniqueKeys, HasRow, Stored, Tables
  <2>8. AnswersRight'
    <3> SUFFICES ASSUME NEW q \in Producers, producers'[q].pc = "got"
                 PROVE  /\ rows'[producers'[q].id].status # "absent"
                        /\ rows'[producers'[q].id].key = producers'[q].key
      BY DEF AnswersRight, Stored
    <3>1. CASE q = p
      BY <3>1, <1>4, <2>1, <2>2 DEF OutboxTypeOK, Tables
    <3>2. CASE q # p
      <4>1. producers'[q] = producers[q] /\ producers[q].pc = "got"
            /\ producers[q].id \in RowIds
        BY <3>2, <1>4, <2>2 DEF OutboxTypeOK
      <4> QED BY <4>1, <2>3 DEF IInv, AnswersRight, Stored, Keeps
    <3> QED BY <3>1, <3>2
  <2>9. GoodRows'
    <3>1. GoodRow(new, failures, handled)
      BY <1>1, <2>1, <2>2, BoundsAssumption DEF GoodRow, Counts, k
    <3> QED BY <3>1, <1>2, <2>1, <2>2 DEF IInv, GoodRows, Tables
  <2>10. GoodDue'
    <3>1. /\ due \in Seq(RowIds) /\ Len(due') = Len(due) + 1 /\ due'[Len(due) + 1] = i
          /\ \A n \in 1..Len(due) : due'[n] = due[n]
      BY <1>4, <2>2 DEF OutboxTypeOK
    <3>2. ASSUME NEW n \in 1..Len(due)
          PROVE  /\ due[n] \in RowIds /\ due[n] # i
                 /\ rows'[due[n]].status = "pending"
      BY <1>4, <2>2, <3>1, <2>1 DEF IInv, GoodDue, Stored, Tables
    <3>3. \A n \in 1..Len(due') : rows'[due'[n]].status = "pending"
      BY <3>1, <3>2, <2>1, <2>2 DEF Tables
    <3>4. \A m, n \in 1..Len(due') : due'[m] = due'[n] => m = n
      BY <3>1, <3>2 DEF IInv, GoodDue
    <3> QED BY <3>3, <3>4 DEF GoodDue
  <2>11. GoodWorkers'
    <3> SUFFICES ASSUME NEW d \in Dispatchers
                 PROVE  GoodWorker(dispatchers[d], rows', failures, handled)
      BY <1>2 DEF GoodWorkers
    <3>1. Grows(failures, failures)
      BY Unmoved DEF IInv
    <3> QED BY <3>1, <2>2, <2>3, WorkerKept DEF IInv, GoodWorkers
  <2> QED BY <2>6, <2>7, <2>8, <2>9, <2>10, <2>11 DEF IInv
<1> QED BY <1>3, <1>4 DEF Insert

LEMMA ElapseGood ==
    ASSUME IInv, NEW i \in RowIds, Elapse(i)
    PROVE  IInv'
<1>1. UNCHANGED <<rows, producers, dispatchers, cuts, failures, handled>>
      /\ due' = Append(due, i) /\ rows[i].status = "pending"
  BY DEF Elapse, history
<1>2. /\ due \in Seq(RowIds) /\ due' \in Seq(RowIds)
      /\ Len(due') = Len(due) + 1 /\ due'[Len(due) + 1] = i
      /\ \A n \in 1..Len(due) : due'[n] = due[n] /\ due[n] # i
  BY <1>1 DEF IInv, OutboxTypeOK, Elapse, IsDue
<1>3. OutboxTypeOK'
  BY <1>1, <1>2 DEF IInv, OutboxTypeOK
<1>4. GoodDue'
  BY <1>1, <1>2 DEF IInv, GoodDue
<1>5. UniqueKeys' /\ AnswersRight' /\ GoodRows' /\ GoodWorkers'
  BY <1>1 DEF IInv, UniqueKeys, AnswersRight, GoodRows, GoodWorkers, Stored
<1> QED BY <1>3, <1>4, <1>5 DEF IInv

LEMMA FetchGood ==
    ASSUME IInv, NEW d \in Dispatchers, Fetch(d)
    PROVE  IInv'
<1> DEFINE n == IF Len(due) < Limit THEN Len(due) ELSE Limit
           b == [j \in 1..n |-> [id |-> due[j], attempts |-> rows[due[j]].attempts]]
           w == [pc |-> "loop", batch |-> b]
<1>1. OutboxTypeOK /\ due \in Seq(RowIds) /\ due # << >>
  BY DEF Fetch, IInv, OutboxTypeOK
<1>2. n \in Nat /\ n > 0 /\ n <= Len(due)
  BY <1>1, BoundsAssumption
<1> HIDE DEF n
<1>3. ASSUME NEW j \in 1..n
      PROVE  /\ b[j].id = due[j] /\ b[j].attempts = rows[due[j]].attempts
             /\ b[j] \in Copies /\ GoodCopy(b[j], rows, failures)
  <2>1. j \in 1..Len(due)
    BY <1>1, <1>2
  <2>2. due[j] \in RowIds /\ rows[due[j]].status = "pending"
    BY <1>1, <2>1 DEF IInv, GoodDue
  <2>3. rows[due[j]] \in Messages /\ GoodRow(rows[due[j]], failures, handled)
    BY <1>1, <2>2 DEF IInv, OutboxTypeOK, GoodRows, NoMessage
  <2>4. b[j].id = due[j] /\ b[j].attempts = rows[due[j]].attempts /\ b[j] \in Copies
    BY <2>2, <2>3 DEF Messages, Copies
  <2> HIDE DEF b
  <2> QED BY <2>2, <2>3, <2>4 DEF GoodRow, GoodCopy
<1>4. b \in Seq(Copies) /\ Len(b) = n /\ b # << >>
  <2>1. b \in [1..n -> Copies]
    BY <1>3
  <2> HIDE DEF b
  <2> QED BY <2>1, <1>2
<1>5. dispatchers' = [dispatchers EXCEPT ![d] = w]
  BY DEF Fetch, n
<1> HIDE DEF b
<1>6. w \in Workers /\ GoodWorker(w, rows, failures, handled)
  BY <1>3, <1>4 DEF Workers, GoodWorker
<1> HIDE DEF w
<1>7. UNCHANGED <<rows, due, producers, cuts, failures, handled>>
  BY DEF Fetch, history
<1> QED BY <1>1, <1>5, <1>6, <1>7, Unmoved, DispatchGood DEF OutboxTypeOK

LEMMA CallGood ==
    ASSUME IInv, NEW d \in Dispatchers, NEW outcome \in {"ok", "error"}, Call(d, outcome)
    PROVE  IInv'
<1>1. /\ dispatchers[d].pc = "loop" /\ KeyOf(d) \notin Unroutable
      /\ UNCHANGED <<rows, due, producers, cuts>>
  BY DEF Call
<1>2. /\ dispatchers[d] \in Workers /\ dispatchers[d].batch # << >>
      /\ First(d) = dispatchers[d].batch[1] /\ First(d) \in Copies
      /\ GoodCopy(First(d), rows, failures)
      /\ KeyOf(d) \in Keys /\ KeyOf(d) = rows[First(d).id].key
      /\ GoodWorker(dispatchers[d], rows, failures, handled)
  BY <1>1, FirstCopy
<1>3. /\ OutboxTypeOK /\ rows \in Tables /\ failures \in Counts /\ handled \subseteq Keys
      /\ Keeps(rows, rows) /\ Grows(failures, failures) /\ cuts \in 0..MaxCuts
  BY Unmoved DEF IInv, OutboxTypeOK
<1>4. CASE /\ handled' = handled \cup {KeyOf(d)} /\ failures' = failures
           /\ dispatchers' = [dispatchers EXCEPT ![d] = [@ EXCEPT !.pc = "ok"]]
  <2> DEFINE w == [dispatchers[d] EXCEPT !.pc = "ok"]
  <2>1. w \in Workers /\ w.pc = "ok" /\ w.batch = dispatchers[d].batch
    BY <1>2 DEF Workers
  <2>2. dispatchers' = [dispatchers EXCEPT ![d] = w]
    BY <1>4
  <2> HIDE DEF w
  <2>3. GoodWorker(w, rows, failures, handled')
    BY <1>2, <1>4, <2>1 DEF GoodWorker
  <2> QED BY <1>1, <1>2, <1>3, <1>4, <2>1, <2>2, <2>3, DispatchGood
<1>5. CASE /\ CountFailure(KeyOf(d)) /\ handled' = handled
           /\ dispatchers' = [dispatchers EXCEPT ![d] = [@ EXCEPT !.pc = "error"]]
  <2> DEFINE w == [dispatchers[d] EXCEPT !.pc = "error"]
             k == KeyOf(d)
  <2>1. w \in Workers /\ w.pc = "error" /\ w.batch = dispatchers[d].batch
    BY <1>2 DEF Workers
  <2>2. dispatchers' = [dispatchers EXCEPT ![d] = w]
    BY <1>5
  <2> HIDE DEF w
  <2>3. /\ failures' \in Counts /\ Grows(failures, failures')
        /\ failures'[k] = IF failures[k] < MaxFailures THEN failures[k] + 1 ELSE MaxFailures
    BY <1>2, <1>3, <1>5, CountGrows
  <2>4. GoodWorker(dispatchers[d], rows, failures', handled)
    BY <1>2, <1>3, <2>3, WorkerKept
  <2>5. First(d).attempts < failures'[k]
    <3>1. First(d).attempts \in Nat /\ First(d).attempts < MaxAttempts
          /\ First(d).attempts <= failures[k] /\ failures[k] \in Nat
      BY <1>1, <1>2, <1>3, BoundsAssumption DEF GoodCopy, Copies, Counts
    <3> HIDE DEF k
    <3> QED BY <3>1, <2>3, BoundsAssumption
  <2>6. GoodWorker(w, rows, failures', handled')
    BY <1>1, <1>2, <1>5, <2>1, <2>4, <2>5 DEF GoodWorker
  <2> QED BY <1>1, <1>3, <1>5, <2>1, <2>2, <2>3, <2>6, DispatchGood
<1> QED BY <1>4, <1>5 DEF Call

(***************************************************************************)
(* A run that is cut short, by an exception or by a crash.                 *)
(***************************************************************************)
LEMMA CutShortGood ==
    ASSUME IInv, NEW d \in Dispatchers, CallRaises(d) \/ Crash(d)
    PROVE  IInv'
<1>1. Resting \in Workers /\ \A f : GoodWorker(Resting, rows, f, handled)
  BY DEF Resting, Workers, GoodWorker
<1>2. /\ dispatchers[d].pc # "idle" /\ cuts' \in 0..MaxCuts
      /\ dispatchers' = [dispatchers EXCEPT ![d] = Resting]
      /\ UNCHANGED <<rows, due, producers, handled>>
      /\ failures' = failures \/ CountFailure(KeyOf(d))
  BY BoundsAssumption DEF CallRaises, Crash, IInv, OutboxTypeOK, history
<1>3. KeyOf(d) \in Keys
  BY <1>2, FirstCopy
<1>4. failures' \in Counts /\ Grows(failures, failures') /\ handled \subseteq Keys
  BY <1>2, <1>3, CountGrows, Unmoved DEF IInv
<1> QED BY <1>1, <1>2, <1>4, DispatchGood

(***************************************************************************)
(* The three ways an outcome is recorded.                                  *)
(***************************************************************************)
LEMMA OutcomeGood ==
    ASSUME IInv, NEW d \in Dispatchers,
           NoHandler(d) \/ RecordDelivered(d) \/ RecordFailed(d)
    PROVE  IInv'
<1> DEFINE i == First(d).id
<1>1. dispatchers[d].pc # "idle" /\ Advance(d) /\ UNCHANGED <<producers, cuts, history>>
  BY DEF NoHandler, RecordDelivered, RecordFailed
<1>2. /\ i \in RowIds /\ rows[i] \in Messages /\ KeyOf(d) = rows[i].key /\ KeyOf(d) \in Keys
      /\ First(d) = dispatchers[d].batch[1] /\ First(d) \in Copies
      /\ GoodCopy(First(d), rows, failures)
      /\ GoodWorker(dispatchers[d], rows, failures, handled)
  BY <1>1, FirstCopy
<1>3. GoodRow(rows[i], failures, handled) /\ failures \in Counts
  BY <1>2, Unmoved DEF IInv, GoodRows
<1>4. CASE RecordDelivered(d)
  <2> DEFINE new == [rows[i] EXCEPT !.status = "delivered"]
  <2>1. /\ new \in Messages /\ new.key = KeyOf(d) /\ new.status = "delivered"
        /\ new.attempts = rows[i].attempts
    BY <1>2 DEF Messages
  <2>2. rows' = [rows EXCEPT ![i] = new] /\ due' = NotId(i)
    BY <1>4 DEF RecordDelivered, Delivered
  <2> HIDE DEF new
  <2>3. KeyOf(d) \in handled
    BY <1>2, <1>4 DEF RecordDelivered, GoodWorker
  <2>4. GoodRow(new, failures, handled)
    BY <1>2, <1>3, <2>1, <2>3 DEF GoodRow, Messages
  <2> QED BY <1>1, <2>1, <2>2, <2>4, RecordGood
<1>5. ASSUME NEW attempts \in 0..MaxAttempts, Failed(i, attempts),
             KeyOf(d) \notin Unroutable => attempts <= failures[KeyOf(d)]
      PROVE  IInv'
  <2> DEFINE status == IF attempts >= MaxAttempts THEN "dead-letter" ELSE "pending"
             new == [rows[i] EXCEPT !.status = status, !.attempts = attempts]
  <2>1. /\ new \in Messages /\ new.key = KeyOf(d) /\ new.status = status
        /\ new.attempts = attempts
    BY <1>2, BoundsAssumption DEF Messages
  <2>2. rows' = [rows EXCEPT ![i] = new] /\ due' = NotId(i)
    BY <1>5 DEF Failed
  <2> HIDE DEF new
  <2>3. GoodRow(new, failures, handled)
    BY <1>5, <2>1, BoundsAssumption DEF GoodRow
  <2> QED BY <1>1, <2>1, <2>2, <2>3, RecordGood
<1>6. CASE NoHandler(d)
  BY <1>5, <1>6, BoundsAssumption DEF NoHandler
<1>7. CASE RecordFailed(d)
  <2>1. /\ KeyOf(d) \notin Unroutable /\ First(d).attempts < failures[KeyOf(d)]
        /\ First(d).attempts \in Nat /\ First(d).attempts < MaxAttempts
        /\ failures[KeyOf(d)] \in Nat
    <3>1. KeyOf(d) \notin Unroutable /\ First(d).attempts < failures[KeyOf(d)]
      BY <1>2, <1>7 DEF RecordFailed, GoodWorker
    <3>2. First(d).attempts \in Nat /\ First(d).attempts < MaxAttempts
      BY <1>2, BoundsAssumption DEF GoodCopy, Copies
    <3>3. failures[KeyOf(d)] \in Nat
      BY <1>2, <1>3, BoundsAssumption DEF Counts
    <3> QED BY <3>1, <3>2, <3>3
  <2>2. First(d).attempts + 1 \in 0..MaxAttempts
        /\ First(d).attempts + 1 <= failures[KeyOf(d)]
    BY <2>1, BoundsAssumption
  <2> QED BY <1>5, <1>7, <2>2 DEF RecordFailed
<1> QED BY <1>4, <1>6, <1>7

LEMMA NextGood == IInv /\ [OutboxNext]_outboxVars => IInv'
<1> SUFFICES ASSUME IInv, [OutboxNext]_outboxVars PROVE IInv'
  OBVIOUS
<1>1. CASE UNCHANGED outboxVars
  BY <1>1 DEF outboxVars, IInv, OutboxTypeOK, UniqueKeys, AnswersRight, GoodRows, GoodDue,
              GoodWorkers, Stored
<1>2. ASSUME NEW d \in Dispatchers, Work(d) PROVE IInv'
  BY <1>2, FetchGood, CallGood, OutcomeGood DEF Work
<1> QED BY <1>1, <1>2, LookUpGood, InsertGood, ElapseGood, CutShortGood DEF OutboxNext

(***************************************************************************)
(* The outbox keeps its inductive invariant; its types follow.             *)
(***************************************************************************)
THEOREM OutboxInvariant == OutboxSpec => []IInv
BY InitGood, NextGood, PTL DEF OutboxSpec

(***************************************************************************)
(* However producers race between the SELECT and the INSERT of enqueue,    *)
(* one key has one row, and the id a producer is given is that row's.      *)
(***************************************************************************)
THEOREM EnqueueIsIdempotent == OutboxSpec => []EnqueueIdempotent
<1>1. IInv => EnqueueIdempotent
  BY DEF IInv, UniqueKeys, AnswersRight, EnqueueIdempotent
<1> QED BY <1>1, OutboxInvariant, PTL

(***************************************************************************)
(* No delivery is invented, from however stale a batch it is recorded.     *)
(***************************************************************************)
THEOREM DeliveriesAreReal == OutboxSpec => []DeliveredWasHandled
<1>1. IInv => DeliveredWasHandled
  BY DEF IInv, GoodRows, GoodRow, DeliveredWasHandled
<1> QED BY <1>1, OutboxInvariant, PTL

(***************************************************************************)
(* A dead letter had MaxAttempts failed calls or no handler, although      *)
(* attempts are counted from copies that may be stale.                     *)
(***************************************************************************)
THEOREM DeadLettersHadTheirChances == OutboxSpec => []NoEarlyDeadLetter
<1>1. IInv => NoEarlyDeadLetter
  <2> SUFFICES ASSUME IInv, NEW i \in RowIds, rows[i].status = "dead-letter",
                      rows[i].key \notin Unroutable
               PROVE  failures[rows[i].key] >= MaxAttempts
    BY DEF NoEarlyDeadLetter
  <2>1. GoodRow(rows[i], failures, handled) /\ rows[i] \in Messages /\ failures \in Counts
    BY Unmoved DEF IInv, GoodRows, OutboxTypeOK, NoMessage
  <2>2. rows[i].attempts = MaxAttempts /\ MaxAttempts <= failures[rows[i].key]
        /\ rows[i].key \in Keys
    BY <2>1 DEF GoodRow, Messages
  <2>3. failures[rows[i].key] \in Nat
    BY <2>1, <2>2, BoundsAssumption DEF Counts
  <2> QED BY <2>2, <2>3, BoundsAssumption
<1> QED BY <1>1, OutboxInvariant, PTL

-----------------------------------------------------------------------------
(***************************************************************************)
(* A dispatcher's step writes to a row only while it holds a copy of it,   *)
(* and takes new copies only of pending rows.                              *)
(***************************************************************************)
SettledStep(i) ==
    /\ \A d \in Dispatchers : Holds(d, i)' => Holds(d, i)
    /\ rows'[i] # rows[i] =>
          \E d \in Dispatchers : Holds(d, i) /\ First(d).id = i /\ Advance(d)

LEMMA SettledKept ==
    ASSUME IInv, [OutboxNext]_outboxVars, NEW i \in RowIds,
           rows[i].status \in {"delivered", "dead-letter"}
    PROVE  SettledStep(i)
<1> DEFINE Held(w) == \E n \in 1..Len(w.batch) : w.batch[n].id = i
           Kept == \A d \in Dispatchers : Held(dispatchers'[d]) => Held(dispatchers[d])
           Used == \E d \in Dispatchers :
                       Held(dispatchers[d]) /\ First(d).id = i /\ Advance(d)
<1>1. OutboxTypeOK /\ dispatchers \in [Dispatchers -> Workers]
  BY Unmoved DEF IInv
<1>2. SUFFICES Kept /\ (rows'[i] = rows[i] \/ Used)
  BY DEF SettledStep, Holds
<1>3. ~Held(Resting)
  BY DEF Resting
<1>4. CASE UNCHANGED dispatchers /\ rows' = rows
  BY <1>4
<1>5. ASSUME NEW p \in Producers, Insert(p)
      PROVE  rows'[i] = rows[i] /\ UNCHANGED dispatchers
  BY <1>1, <1>5 DEF Insert, Stored, OutboxTypeOK
<1>6. ASSUME NEW d \in Dispatchers, NEW w, dispatchers' = [dispatchers EXCEPT ![d] = w],
             Held(w) => Held(dispatchers[d])
      PROVE  Kept
  <2> HIDE DEF Held
  <2> QED BY <1>1, <1>6
<1>7. ASSUME NEW d \in Dispatchers, Fetch(d)
      PROVE  rows' = rows /\ Kept
  <2> DEFINE n == IF Len(due) < Limit THEN Len(due) ELSE Limit
             b == [j \in 1..n |-> [id |-> due[j], attempts |-> rows[due[j]].attempts]]
             w == [pc |-> "loop", batch |-> b]
  <2>1. n \in Nat /\ n <= Len(due)
    BY <1>1, BoundsAssumption DEF OutboxTypeOK
  <2>2. dispatchers' = [dispatchers EXCEPT ![d] = w] /\ rows' = rows
    BY <1>7 DEF Fetch
  <2> HIDE DEF n
  <2>3. Len(b) = n /\ \A j \in 1..n : b[j].id = due[j]
    BY <2>1
  <2>4. \A j \in 1..n : due[j] # i
    BY <1>1, <2>1 DEF IInv, GoodDue, OutboxTypeOK
  <2> HIDE DEF b
  <2>5. ~Held(w)
    BY <2>3, <2>4
  <2> HIDE DEF w, Held
  <2> QED BY <1>6, <2>2, <2>5
<1>8. ASSUME NEW d \in Dispatchers, NEW outcome \in {"ok", "error"}, Call(d, outcome)
      PROVE  rows' = rows /\ Kept
  <2>1. PICK pc \in {"ok", "error"} :
            dispatchers' = [dispatchers EXCEPT ![d] = [@ EXCEPT !.pc = pc]] /\ rows' = rows
    BY <1>8 DEF Call
  <2> DEFINE w == [dispatchers[d] EXCEPT !.pc = pc]
  <2>2. w.batch = dispatchers[d].batch
    BY <1>1 DEF Workers
  <2>3. Held(w) => Held(dispatchers[d])
    <3> HIDE DEF w
    <3> QED BY <2>2
  <2>4. dispatchers' = [dispatchers EXCEPT ![d] = w]
    BY <2>1
  <2> HIDE DEF w, Held
  <2> QED BY <1>6, <2>1, <2>3, <2>4
<1>9. ASSUME NEW d \in Dispatchers, CallRaises(d) \/ Crash(d)
      PROVE  rows' = rows /\ Kept
  <2>1. dispatchers' = [dispatchers EXCEPT ![d] = Resting] /\ rows' = rows
    BY <1>9 DEF CallRaises, Crash
  <2> HIDE DEF Held
  <2> QED BY <1>3, <1>6, <2>1
<1>10. ASSUME NEW d \in Dispatchers, NoHandler(d) \/ RecordDelivered(d) \/ RecordFailed(d)
       PROVE  Kept /\ (rows'[i] = rows[i] \/ Used)
  <2> DEFINE b == dispatchers[d].batch
             w == IF Tail(b) = << >> THEN Resting ELSE [pc |-> "loop", batch |-> Tail(b)]
  <2>1. dispatchers[d].pc # "idle" /\ Advance(d)
    BY <1>10 DEF NoHandler, RecordDelivered, RecordFailed
  <2>2. dispatchers' = [dispatchers EXCEPT ![d] = w]
    BY <2>1 DEF Advance
  <2>3. b \in Seq(Copies) /\ b # << >> /\ First(d) = b[1] /\ First(d).id \in RowIds
    BY <2>1, FirstCopy
  <2>4. \E new : rows' = [rows EXCEPT ![First(d).id] = new]
    BY <1>10 DEF NoHandler, RecordDelivered, RecordFailed, Delivered, Failed
  <2>5. First(d).id # i => rows'[i] = rows[i]
    BY <1>1, <2>3, <2>4 DEF OutboxTypeOK
  <2>6. First(d).id = i => Held(dispatchers[d])
    <3>1. 1 \in 1..Len(b)
      BY <2>3
    <3> QED BY <2>3, <3>1
  <2>7. Held([pc |-> "loop", batch |-> Tail(b)]) => Held(dispatchers[d])
    <3>1. \A n \in 1..Len(Tail(b)) : n + 1 \in 1..Len(b) /\ Tail(b)[n] = b[n + 1]
      BY <2>3
    <3> QED BY <3>1
  <2>8. Held(w) => Held(dispatchers[d])
    <3> HIDE DEF Held
    <3> QED BY <1>3, <2>7
  <2> HIDE DEF w, Held
  <2>9. Kept
    BY <1>6, <2>2, <2>8
  <2> QED BY <2>1, <2>5, <2>6, <2>9
<1>11. ASSUME NEW p \in Producers, NEW k \in Keys, LookUp(p, k)
       PROVE  UNCHANGED <<rows, dispatchers>>
  BY <1>11 DEF LookUp
<1>12. ASSUME NEW j \in RowIds, Elapse(j) PROVE UNCHANGED <<rows, dispatchers>>
  BY <1>12 DEF Elapse
<1>13. UNCHANGED dispatchers => Kept
  OBVIOUS
<1> HIDE DEF Held, Kept, Used
<1> QED
  <2>1. CASE UNCHANGED outboxVars
    BY <1>4, <2>1 DEF outboxVars
  <2>2. CASE \E p \in Producers : Insert(p)
    BY <1>5, <1>13, <2>2
  <2>3. CASE \E d \in Dispatchers : Work(d) \/ CallRaises(d) \/ Crash(d)
    BY <1>7, <1>8, <1>9, <1>10, <2>3 DEF Work
  <2> QED BY <1>4, <1>11, <1>12, <2>1, <2>2, <2>3 DEF OutboxNext

(***************************************************************************)
(* For any messages, producers, dispatchers and cuts: nobody takes a       *)
(* copy of a delivered or dead-lettered row, and such a row changes only   *)
(* by the record of a copy taken before, which uses the copy up.           *)
(***************************************************************************)
THEOREM SettledChangesOnlyByCopies == OutboxSpec => SettledStays
<1> DEFINE Body == \A i \in RowIds : rows[i].status \in {"delivered", "dead-letter"} =>
          /\ \A d \in Dispatchers : Holds(d, i)' => Holds(d, i)
          /\ rows'[i] # rows[i] =>
                \E d \in Dispatchers :
                    Holds(d, i) /\ First(d).id = i /\ Advance(d)
<1>1. IInv /\ [OutboxNext]_outboxVars => [Body]_outboxVars
  BY SettledKept DEF SettledStep
<1> HIDE DEF Body
<1>2. OutboxSpec => [][Body]_outboxVars
  BY <1>1, OutboxInvariant, PTL DEF OutboxSpec
<1> QED BY <1>2 DEF SettledStays, Body
=============================================================================
