---------------------------- MODULE MetalProofs ----------------------------
(***************************************************************************)
(* Proofs about the Metal inference runtime: the accounting of its         *)
(* scheduler, what its planner grants, and its index of cached prompts.    *)
(***************************************************************************)
EXTENDS MetalRuntime, FiniteSetTheorems, TLAPS

(***************************************************************************)
(* A request is in at most one place of the scheduler.  One that waits in  *)
(* the queue is still wanted or was cancelled, a pending future belongs to *)
(* a handler that waits, and a handler that has not run has left no trace. *)
(***************************************************************************)
QueuedOnce == \A i, j \in DOMAIN queue : queue[i] = queue[j] => i = j

HeldOnce == \A v, w \in Workers : workers[v] \in Requests /\ workers[v] = workers[w] => v = w

Apart == \A w \in Workers, i \in DOMAIN queue : workers[w] # queue[i]

Waits(r) == \E i \in DOMAIN queue : queue[i] = r
Held(r) == \E w \in Workers : workers[w] = r

Busy == {w \in Workers : workers[w] \in Requests}

FitsBudget(r) == granted[r] = 1 \/ Context(r) <= Budget

SchedulerTypes ==
    /\ phase \in {"starting", "serving", "stopped"}
    /\ queue \in Seq(Requests)
    /\ workers \in [Workers -> Requests \cup {Free, Off}]
    /\ active \in Nat
    /\ futures \in [Requests -> {"none", "pending", "cancelled"} \cup Outcomes]
    /\ calls \in [Requests -> {"new", "waiting"} \cup Answers]
    /\ granted \in [Requests -> Nat]

RequestInv(r) ==
    /\ futures[r] = "pending" => calls[r] = "waiting" /\ phase # "starting"
    /\ calls[r] = "new" => ~Waits(r) /\ ~Held(r)
    /\ Waits(r) => futures[r] \in {"pending", "cancelled"}
    /\ Waits(r) \/ Held(r) => FitsBudget(r)
    /\ phase = "serving" /\ futures[r] = "pending" => Waits(r) \/ Held(r)

SchedulerInv ==
    /\ SchedulerTypes
    /\ QueuedOnce /\ HeldOnce /\ Apart
    /\ phase = "serving" => \A w \in Workers : workers[w] # Off
    /\ phase # "serving" => \A w \in Workers : workers[w] = Off
    /\ active = Cardinality(Busy)
    /\ \A r \in Requests : RequestInv(r)

-----------------------------------------------------------------------------
LEMMA MinOfTwo ==
    ASSUME NEW m \in Nat, NEW n \in Nat
    PROVE  Min({m, n}) = IF m <= n THEN m ELSE n
<1>1. \E x \in {m, n} : \A y \in {m, n} : x <= y
  OBVIOUS
<1>2. Min({m, n}) \in {m, n} /\ \A y \in {m, n} : Min({m, n}) <= y
  BY <1>1 DEF Min
<1> HIDE <1>1
<1> QED BY <1>2

LEMMA MaxOfTwo ==
    ASSUME NEW m \in Nat, NEW n \in Nat
    PROVE  Max({m, n}) = IF m >= n THEN m ELSE n
<1>1. \E x \in {m, n} : \A y \in {m, n} : x >= y
  OBVIOUS
<1>2. Max({m, n}) \in {m, n} /\ \A y \in {m, n} : Max({m, n}) >= y
  BY <1>1 DEF Max
<1> HIDE <1>1
<1> QED BY <1>2

LEMMA NoMoreThanOne ==
    ASSUME NEW S, \A x, y \in S : x = y
    PROVE  /\ S = {} => Cardinality(S) = 0
           /\ S # {} => Cardinality(S) = 1
<1>1. CASE S = {}
  BY <1>1, FS_EmptySet
<1>2. CASE S # {}
  <2>1. PICK x : S = {x}
    BY <1>2
  <2> QED BY <2>1, FS_Singleton
<1> QED BY <1>1, <1>2

\* What the planner grants to an admitted request fits the budget.
LEMMA GrantFits ==
    ASSUME NEW r \in Requests, active \in Nat, Admitted(r)
    PROVE  /\ MaximumTokens(r) \in Nat
           /\ MaximumTokens(r) = 1 \/ PromptTokens[r] + MaximumTokens(r) <= Budget
<1> DEFINE p == PromptTokens[r]
           a == Available(r)
           c == MaximumContext(r)
           g == GrantedContext(r)
           left == IF g > p THEN g - p ELSE 0
<1>1. p \in Nat /\ p > 0 /\ MaxTokens[r] \in Nat /\ MaxTokens[r] > 0
  BY MetalAssumption
<1>2. a \in Nat /\ a <= Budget /\ Budget \in Nat
  BY MetalAssumption DEF Available
<1>3. Slots \in Nat /\ Slots >= 1
  BY DEF Slots
<1>4. c = a \div Slots
  BY DEF MaximumContext
<1> HIDE DEF a, c, p
<1>5. c \in Nat /\ c <= a
  <2>1. \A m, s \in Nat : s >= 1 => m \div s \in Nat /\ m \div s <= m
    OBVIOUS
  <2> QED BY <1>2, <1>3, <1>4, <2>1
<1>6. g = IF p + MaxTokens[r] <= c THEN p + MaxTokens[r] ELSE c
  <2>1. p + MaxTokens[r] \in Nat
    BY <1>1
  <2>2. g = Min({p + MaxTokens[r], c})
    BY DEF GrantedContext, Requested, p, c
  <2> QED BY <2>1, <2>2, <1>5, MinOfTwo
<1> HIDE DEF g
<1>7. left \in Nat /\ (left > 0 => p + left <= Budget)
  BY <1>1, <1>2, <1>5, <1>6
<1>8. MaximumTokens(r) = Min({MaxTokens[r], Max({1, left})})
  BY DEF MaximumTokens, g, p
<1> HIDE DEF left
<1>9. Max({1, left}) = IF 1 >= left THEN 1 ELSE left
  BY <1>7, MaxOfTwo
<1>10. Max({1, left}) \in Nat
  BY <1>7, <1>9
<1>11. MaximumTokens(r) = IF MaxTokens[r] <= Max({1, left}) THEN MaxTokens[r] ELSE Max({1, left})
  BY <1>1, <1>8, <1>10, MinOfTwo
<1> DEFINE m == Max({1, left})
<1>12. m = (IF 1 >= left THEN 1 ELSE left) /\ MaximumTokens(r) = IF MaxTokens[r] <= m THEN MaxTokens[r] ELSE m
  BY <1>9, <1>11
<1> HIDE DEF m
<1>13. MaximumTokens(r) \in Nat /\ (MaximumTokens(r) = 1 \/ p + MaximumTokens(r) <= Budget)
  BY <1>1, <1>2, <1>7, <1>12
<1> QED BY <1>13 DEF p

LEMMA BusyFinite == IsFiniteSet(Busy)
<1>1. Busy \subseteq Workers
  BY DEF Busy
<1> QED BY <1>1, FS_Subset, MetalAssumption

LEMMA SchedulerInit == Init => SchedulerInv
<1> SUFFICES ASSUME Init PROVE SchedulerInv
  OBVIOUS
<1>1. SchedulerTypes
  BY DEF Init, SchedulerTypes, Outcomes
<1>2. QueuedOnce /\ HeldOnce /\ Apart
  BY MetalAssumption DEF Init, QueuedOnce, HeldOnce, Apart
<1>3. Busy = {} /\ active = 0
  BY MetalAssumption DEF Init, Busy
<1>4. \A r \in Requests : ~Waits(r) /\ ~Held(r) /\ futures[r] = "none"
  BY MetalAssumption DEF Init, Waits, Held
<1>5. \A r \in Requests : RequestInv(r)
  BY <1>4 DEF RequestInv
<1>6. phase # "serving" /\ \A w \in Workers : workers[w] = Off
  BY DEF Init
<1> QED BY <1>1, <1>2, <1>3, <1>5, <1>6, FS_EmptySet DEF SchedulerInv

LEMMA StartGood == SchedulerInv /\ Start => SchedulerInv'
<1> SUFFICES ASSUME SchedulerInv, Start PROVE SchedulerInv'
  OBVIOUS
<1>1. /\ phase = "starting" /\ phase' = "serving" /\ workers' = [w \in Workers |-> Free]
      /\ UNCHANGED <<queue, active, futures, calls, granted>>
  BY DEF Start
<1>2. SchedulerTypes'
  BY <1>1 DEF SchedulerInv, SchedulerTypes
<1>3. \A w \in Workers : workers'[w] = Free /\ workers'[w] \notin Requests /\ workers'[w] # Off
  BY <1>1, MetalAssumption
<1>4. QueuedOnce' /\ HeldOnce' /\ Apart'
  BY <1>1, <1>3 DEF SchedulerInv, SchedulerTypes, QueuedOnce, HeldOnce, Apart
<1>5. Busy' = {} /\ Busy = {}
  BY <1>1, <1>3, MetalAssumption DEF SchedulerInv, Busy
<1>6. active' = Cardinality(Busy')
  BY <1>1, <1>5 DEF SchedulerInv
<1>7. \A r \in Requests : (Waits(r)' <=> Waits(r)) /\ ~Held(r)' /\ (FitsBudget(r)' <=> FitsBudget(r))
  BY <1>1, <1>3 DEF Waits, Held, FitsBudget, Context
<1>8. \A r \in Requests : RequestInv(r)'
  BY <1>1, <1>7 DEF SchedulerInv, RequestInv
<1> QED BY <1>1, <1>2, <1>3, <1>4, <1>6, <1>8 DEF SchedulerInv

LEMMA StopGood == SchedulerInv /\ Stop => SchedulerInv'
<1> SUFFICES ASSUME SchedulerInv, Stop PROVE SchedulerInv'
  OBVIOUS
<1>1. /\ phase' = "stopped" /\ workers' = [w \in Workers |-> Off] /\ active' = 0
      /\ UNCHANGED <<queue, futures, calls, granted>>
  BY DEF Stop
<1>2. SchedulerTypes'
  BY <1>1 DEF SchedulerInv, SchedulerTypes
<1>3. \A w \in Workers : workers'[w] = Off /\ workers'[w] \notin Requests
  BY <1>1, MetalAssumption
<1>4. QueuedOnce' /\ HeldOnce' /\ Apart'
  BY <1>1, <1>3 DEF SchedulerInv, SchedulerTypes, QueuedOnce, HeldOnce, Apart
<1>5. Busy' = {}
  BY <1>3 DEF Busy
<1>6. \A r \in Requests : (Waits(r)' <=> Waits(r)) /\ ~Held(r)' /\ (FitsBudget(r)' <=> FitsBudget(r))
  BY <1>1, <1>3 DEF Waits, Held, FitsBudget, Context
<1>7. \A r \in Requests : RequestInv(r)'
  BY <1>1, <1>6 DEF SchedulerInv, RequestInv
<1> QED BY <1>1, <1>2, <1>3, <1>4, <1>5, <1>7, FS_EmptySet DEF SchedulerInv

\* A step that moves no item: handlers and futures change, the rest stays.
LEMMA NothingMoves ==
    ASSUME SchedulerInv, UNCHANGED <<phase, queue, workers, active, granted>>,
           SchedulerTypes',
           \A r \in Requests :
              /\ futures'[r] = "pending" => futures[r] = "pending" /\ calls'[r] = "waiting"
              /\ calls'[r] = "new" => calls[r] = "new"
              /\ futures[r] \in {"pending", "cancelled"} => futures'[r] \in {"pending", "cancelled"}
    PROVE  SchedulerInv'
<1>1. \A r \in Requests : /\ Waits(r)' <=> Waits(r)
                          /\ Held(r)' <=> Held(r)
                          /\ FitsBudget(r)' <=> FitsBudget(r)
  BY DEF Waits, Held, FitsBudget, Context
<1>2. \A r \in Requests : RequestInv(r)'
  BY <1>1 DEF SchedulerInv, RequestInv
<1>3. QueuedOnce' /\ HeldOnce' /\ Apart' /\ Busy' = Busy
  BY DEF SchedulerInv, QueuedOnce, HeldOnce, Apart, Busy
<1> QED BY <1>2, <1>3 DEF SchedulerInv

LEMMA AnswerGood ==
    ASSUME SchedulerInv, NEW r \in Requests,
           Reject(r) \/ QueueFull(r) \/ Timeout(r) \/ Respond(r)
    PROVE  SchedulerInv'
<1>1. UNCHANGED <<phase, queue, workers, active, granted>>
  BY DEF Reject, QueueFull, Timeout, Respond
<1>2. PICK answer \in Answers :
        /\ calls' = [calls EXCEPT ![r] = answer]
        /\ \/ futures' = futures /\ futures[r] # "pending"
           \/ futures' = [futures EXCEPT ![r] = IF @ = "pending" THEN "cancelled" ELSE @]
  <2>1. CASE Reject(r)
    BY <2>1 DEF Reject, Answers, SchedulerInv, RequestInv
  <2>2. CASE QueueFull(r)
    BY <2>2 DEF QueueFull, Answers, SchedulerInv, RequestInv
  <2>3. CASE Timeout(r)
    BY <2>3 DEF Timeout, Answers
  <2>4. CASE Respond(r)
    BY <2>4 DEF Respond, Answers
  <2> QED BY <2>1, <2>2, <2>3, <2>4
<1>3. calls'[r] = answer /\ answer # "new" /\ answer # "waiting"
  BY <1>2 DEF SchedulerInv, SchedulerTypes, Answers
<1>4. \A s \in Requests : s # r => calls'[s] = calls[s] /\ futures'[s] = futures[s]
  BY <1>2 DEF SchedulerInv, SchedulerTypes
<1>5. futures'[r] # "pending" /\ (futures[r] \in {"pending", "cancelled"} => futures'[r] = "cancelled")
  BY <1>2 DEF SchedulerInv, SchedulerTypes
<1>6. SchedulerTypes'
  BY <1>1, <1>2 DEF SchedulerInv, SchedulerTypes
<1>7. ASSUME NEW s \in Requests
      PROVE  /\ futures'[s] = "pending" => futures[s] = "pending" /\ calls'[s] = "waiting"
             /\ calls'[s] = "new" => calls[s] = "new"
             /\ futures[s] \in {"pending", "cancelled"} => futures'[s] \in {"pending", "cancelled"}
  <2>1. CASE s = r
    BY <2>1, <1>3, <1>5
  <2>2. CASE s # r
    BY <2>2, <1>4 DEF SchedulerInv, RequestInv
  <2> QED BY <2>1, <2>2
<1> QED BY <1>1, <1>6, <1>7, NothingMoves

LEMMA SubmitGood ==
    ASSUME SchedulerInv, NEW r \in Requests, Submit(r)
    PROVE  SchedulerInv'
<1>1. /\ phase = "serving" /\ calls[r] = "new" /\ Admitted(r)
      /\ queue' = Append(queue, r)
      /\ futures' = [futures EXCEPT ![r] = "pending"]
      /\ granted' = [granted EXCEPT ![r] = MaximumTokens(r)]
      /\ calls' = [calls EXCEPT ![r] = "waiting"]
      /\ UNCHANGED <<phase, workers, active>>
  BY DEF Submit
<1>2. /\ queue \in Seq(Requests) /\ active \in Nat
      /\ ~Waits(r) /\ ~Held(r)
  BY <1>1 DEF SchedulerInv, SchedulerTypes, RequestInv
<1>3. MaximumTokens(r) \in Nat /\ (MaximumTokens(r) = 1 \/ PromptTokens[r] + MaximumTokens(r) <= Budget)
  BY <1>1, <1>2, GrantFits
<1>4. SchedulerTypes'
  BY <1>1, <1>2, <1>3 DEF SchedulerInv, SchedulerTypes
<1>5. /\ DOMAIN queue' = 1 .. Len(queue) + 1 /\ DOMAIN queue = 1 .. Len(queue)
      /\ Len(queue) \in Nat
      /\ \A i \in DOMAIN queue : queue'[i] = queue[i]
      /\ queue'[Len(queue) + 1] = r
  BY <1>1, <1>2
<1>6. /\ Waits(r)'
      /\ \A s \in Requests : s # r => (Waits(s)' <=> Waits(s))
  BY <1>5 DEF Waits
<1>7. \A s \in Requests : Held(s)' <=> Held(s)
  BY <1>1 DEF Held
<1>8. QueuedOnce' /\ HeldOnce' /\ Apart'
  BY <1>1, <1>2, <1>5 DEF SchedulerInv, QueuedOnce, HeldOnce, Apart, Waits, Held
<1>9. Busy' = Busy
  BY <1>1 DEF Busy
<1>10. FitsBudget(r)'
  BY <1>1, <1>3 DEF SchedulerInv, SchedulerTypes, FitsBudget, Context
<1>11. \A s \in Requests : s # r =>
         /\ futures'[s] = futures[s] /\ calls'[s] = calls[s]
         /\ FitsBudget(s)' <=> FitsBudget(s)
  BY <1>1 DEF SchedulerInv, SchedulerTypes, FitsBudget, Context
<1>12. futures'[r] = "pending" /\ calls'[r] = "waiting"
  BY <1>1 DEF SchedulerInv, SchedulerTypes
<1>13. ASSUME NEW s \in Requests PROVE RequestInv(s)'
  <2>1. CASE s = r
    BY <2>1, <1>1, <1>6, <1>10, <1>12 DEF RequestInv
  <2>2. CASE s # r
    BY <2>2, <1>1, <1>6, <1>7, <1>11 DEF SchedulerInv, RequestInv
  <2> QED BY <2>1, <2>2
<1> QED BY <1>1, <1>4, <1>8, <1>9, <1>13 DEF SchedulerInv

\* Taking an item from the queue: the first one leaves it, the others stay.
LEMMA FirstLeaves ==
    ASSUME SchedulerTypes, QueuedOnce, NEW h, queue # << >>,
           h = Head(queue), queue' = Tail(queue)
    PROVE  /\ h \in Requests /\ Waits(h) /\ ~Waits(h)'
           /\ queue' \in Seq(Requests) /\ QueuedOnce'
           /\ \A s \in Requests : s # h => (Waits(s)' <=> Waits(s))
           /\ \A i \in DOMAIN queue' : \E j \in DOMAIN queue : queue'[i] = queue[j] /\ j # 1
<1>1. queue \in Seq(Requests) /\ Len(queue) \in Nat /\ Len(queue) >= 1
  BY DEF SchedulerTypes
<1>2. h = queue[1] /\ h \in Requests /\ 1 \in DOMAIN queue
  BY <1>1
<1>3. /\ queue' \in Seq(Requests) /\ DOMAIN queue' = 1 .. Len(queue) - 1
      /\ DOMAIN queue = 1 .. Len(queue)
      /\ \A i \in DOMAIN queue' : i + 1 \in DOMAIN queue /\ queue'[i] = queue[i + 1]
  BY <1>1
<1>4. Waits(h)
  BY <1>2 DEF Waits
<1>5. ~Waits(h)'
  <2> SUFFICES ASSUME NEW i \in DOMAIN queue', queue'[i] = queue[1] PROVE FALSE
    BY <1>2 DEF Waits
  <2>1. i + 1 = 1
    BY <1>2, <1>3 DEF QueuedOnce
  <2> QED BY <1>1, <1>3, <2>1
<1>6. QueuedOnce'
  <2> SUFFICES ASSUME NEW i \in DOMAIN queue', NEW j \in DOMAIN queue', queue'[i] = queue'[j]
               PROVE  i = j
    BY DEF QueuedOnce
  <2>1. i + 1 = j + 1
    BY <1>3 DEF QueuedOnce
  <2> QED BY <1>1, <1>3, <2>1
<1>7. ASSUME NEW s \in Requests, s # h PROVE Waits(s)' <=> Waits(s)
  <2>1. ASSUME Waits(s)' PROVE Waits(s)
    BY <2>1, <1>3 DEF Waits
  <2>2. ASSUME Waits(s) PROVE Waits(s)'
    <3>1. PICK i \in DOMAIN queue : queue[i] = s
      BY <2>2 DEF Waits
    <3>2. i # 1
      BY <3>1, <1>2, <1>7
    <3>3. i - 1 \in DOMAIN queue' /\ (i - 1) + 1 = i
      BY <3>2, <1>1, <1>3
    <3> QED BY <3>1, <3>3, <1>3 DEF Waits
  <2> QED BY <2>1, <2>2
<1>8. \A i \in DOMAIN queue' : \E j \in DOMAIN queue : queue'[i] = queue[j] /\ j # 1
  BY <1>1, <1>3
<1> QED BY <1>2, <1>3, <1>4, <1>5, <1>6, <1>7, <1>8

LEMMA TakeGood ==
    ASSUME SchedulerInv, NEW w \in Workers, Take(w)
    PROVE  /\ SchedulerInv'
           /\ \A s \in Requests : Held(s)' /\ ~Held(s) => calls[s] = "waiting"
<1>0. PICK h : h = Head(queue)
  OBVIOUS
<1>1. /\ workers[w] = Free /\ queue # << >> /\ queue' = Tail(queue)
      /\ UNCHANGED <<phase, futures, calls, granted>>
  BY DEF Take
<1>2. SchedulerTypes /\ QueuedOnce /\ HeldOnce /\ Apart
  BY DEF SchedulerInv
<1>3. /\ h \in Requests /\ Waits(h) /\ ~Waits(h)'
      /\ queue' \in Seq(Requests) /\ QueuedOnce'
      /\ \A s \in Requests : s # h => (Waits(s)' <=> Waits(s))
      /\ \A i \in DOMAIN queue' : \E j \in DOMAIN queue : queue'[i] = queue[j] /\ j # 1
  BY <1>0, <1>1, <1>2, FirstLeaves
<1>4. h = queue[1] /\ 1 \in DOMAIN queue
  BY <1>0, <1>1, <1>2 DEF SchedulerTypes
<1>5. RequestInv(h) /\ ~Held(h)
  BY <1>2, <1>3, <1>4 DEF SchedulerInv, Apart, Held
<1>6. \A s \in Requests : FitsBudget(s)' <=> FitsBudget(s)
  BY <1>1 DEF FitsBudget, Context
<1>7. CASE futures[h] = "cancelled"
  <2>1. UNCHANGED <<workers, active>>
    BY <1>0, <1>7 DEF Take
  <2>2. SchedulerTypes'
    BY <1>1, <1>2, <1>3, <2>1 DEF SchedulerTypes
  <2>3. \A s \in Requests : Held(s)' <=> Held(s)
    BY <2>1 DEF Held
  <2>4. HeldOnce' /\ Apart' /\ Busy' = Busy
    BY <1>2, <1>3, <2>1 DEF HeldOnce, Apart, Busy
  <2>5. ASSUME NEW s \in Requests PROVE RequestInv(s)'
    <3>1. CASE s = h
      BY <3>1, <1>1, <1>3, <1>5, <1>6, <1>7, <2>3 DEF RequestInv
    <3>2. CASE s # h
      BY <3>2, <1>1, <1>3, <1>6, <2>3 DEF SchedulerInv, RequestInv
    <3> QED BY <3>1, <3>2
  <2> QED BY <1>1, <1>3, <2>1, <2>2, <2>3, <2>4, <2>5 DEF SchedulerInv
<1>8. CASE futures[h] # "cancelled"
  <2>1. /\ workers' = [workers EXCEPT ![w] = h] /\ active' = active + 1
    BY <1>0, <1>8 DEF Take
  <2>2. calls[h] = "waiting"
    BY <1>3, <1>5, <1>8 DEF RequestInv
  <2>3. SchedulerTypes'
    BY <1>1, <1>2, <1>3, <2>1 DEF SchedulerTypes
  <2>4. workers'[w] = h /\ \A v \in Workers : v # w => workers'[v] = workers[v]
    BY <1>2, <2>1 DEF SchedulerTypes
  <2>5. Held(h)' /\ \A s \in Requests : s # h => (Held(s)' <=> Held(s))
    BY <1>1, <2>4, MetalAssumption DEF Held
  <2>6. HeldOnce'
    BY <1>2, <1>5, <2>4 DEF HeldOnce, Held
  <2>7. Apart'
    <3> SUFFICES ASSUME NEW v \in Workers, NEW i \in DOMAIN queue' PROVE workers'[v] # queue'[i]
      BY DEF Apart
    <3>1. PICK j \in DOMAIN queue : queue'[i] = queue[j] /\ j # 1
      BY <1>3
    <3>2. CASE v = w
      BY <3>1, <3>2, <2>4, <1>2, <1>4 DEF QueuedOnce
    <3>3. CASE v # w
      BY <3>1, <3>3, <2>4, <1>2 DEF Apart
    <3> QED BY <3>2, <3>3
  <2>8. Busy' = Busy \cup {w} /\ w \notin Busy
    BY <1>1, <1>3, <2>4, MetalAssumption DEF Busy
  <2>9. active' = Cardinality(Busy')
    BY <2>1, <2>8, BusyFinite, FS_AddElement DEF SchedulerInv
  <2>10. ASSUME NEW s \in Requests PROVE RequestInv(s)'
    <3>1. CASE s = h
      BY <3>1, <1>1, <1>3, <1>5, <1>6, <2>2, <2>5 DEF RequestInv
    <3>2. CASE s # h
      BY <3>2, <1>1, <1>3, <1>6, <2>5 DEF SchedulerInv, RequestInv
    <3> QED BY <3>1, <3>2
  <2>11. phase = "serving"
    BY <1>1, MetalAssumption DEF SchedulerInv
  <2>12. \A v \in Workers : workers'[v] # Off
    BY <2>4, <2>11, <1>3, MetalAssumption DEF SchedulerInv
  <2>13. SchedulerInv'
    BY <1>1, <1>3, <2>3, <2>6, <2>7, <2>9, <2>10, <2>11, <2>12 DEF SchedulerInv
  <2> QED BY <2>2, <2>5, <2>13
<1> QED BY <1>7, <1>8

LEMMA FinishGood ==
    ASSUME SchedulerInv, NEW w \in Workers, NEW outcome \in Outcomes, Finish(w, outcome)
    PROVE  SchedulerInv' /\ \A s \in Requests : Held(s)' => Held(s)
<1>0. PICK r \in Requests : r = workers[w]
  BY DEF Finish
<1>1. /\ r \in Requests
      /\ futures' = [futures EXCEPT ![r] = IF @ = "pending" THEN outcome ELSE @]
      /\ workers' = [workers EXCEPT ![w] = Free]
      /\ active' = active - 1
      /\ UNCHANGED <<phase, queue, calls, granted>>
  BY <1>0 DEF Finish
<1>2. SchedulerTypes /\ QueuedOnce /\ HeldOnce /\ Apart
  BY DEF SchedulerInv
<1>3. Held(r) /\ ~Waits(r)
  BY <1>0, <1>2 DEF Held, Waits, Apart
<1>4. workers'[w] = Free /\ \A v \in Workers : v # w => workers'[v] = workers[v]
  BY <1>1, <1>2 DEF SchedulerTypes
<1>5. ~Held(r)' /\ \A s \in Requests : s # r => (Held(s)' <=> Held(s))
  <2>1. \A v \in Workers : workers[v] = r => v = w
    BY <1>0, <1>1, <1>2 DEF HeldOnce
  <2> QED BY <1>0, <1>1, <1>4, <2>1, MetalAssumption DEF Held
<1>6. /\ Busy' = Busy \ {w} /\ w \in Busy
  BY <1>0, <1>1, <1>4, MetalAssumption DEF Busy
<1>7. active' = Cardinality(Busy')
  BY <1>1, <1>6, BusyFinite, FS_RemoveElement DEF SchedulerInv
<1>8. active' \in Nat
  BY <1>6, <1>7, BusyFinite, FS_RemoveElement, FS_CardinalityType
<1>9. SchedulerTypes'
  BY <1>1, <1>2, <1>8 DEF SchedulerTypes
<1>10. HeldOnce' /\ Apart' /\ QueuedOnce'
  BY <1>1, <1>2, <1>4, MetalAssumption DEF HeldOnce, Apart, QueuedOnce, SchedulerTypes
<1>11. /\ futures'[r] # "pending"
       /\ \A s \in Requests : s # r => futures'[s] = futures[s]
  BY <1>1, <1>2 DEF SchedulerTypes, Outcomes
<1>12. \A s \in Requests : (FitsBudget(s)' <=> FitsBudget(s)) /\ (Waits(s)' <=> Waits(s))
  BY <1>1 DEF FitsBudget, Context, Waits
<1>13. ASSUME NEW s \in Requests PROVE RequestInv(s)'
  <2>1. CASE s = r
    BY <2>1, <1>1, <1>3, <1>5, <1>11, <1>12 DEF SchedulerInv, RequestInv
  <2>2. CASE s # r
    BY <2>2, <1>1, <1>5, <1>11, <1>12 DEF SchedulerInv, RequestInv
  <2> QED BY <2>1, <2>2
<1>14. phase = "serving"
  BY <1>0, <1>1, MetalAssumption DEF SchedulerInv
<1>15. \A v \in Workers : workers'[v] # Off
  BY <1>4, <1>14, MetalAssumption DEF SchedulerInv
<1>16. SchedulerInv'
  BY <1>1, <1>7, <1>9, <1>10, <1>13, <1>14, <1>15 DEF SchedulerInv
<1> QED BY <1>3, <1>5, <1>16

LEMMA SchedulerNext ==
    ASSUME SchedulerInv, [Next]_vars
    PROVE  /\ SchedulerInv'
           /\ \A s \in Requests : Held(s)' /\ ~Held(s) => calls[s] = "waiting"
<1>1. ASSUME UNCHANGED workers PROVE \A s \in Requests : Held(s)' => Held(s)
  BY <1>1 DEF Held
<1>2. CASE Start
  <2>1. \A s \in Requests : ~Held(s)'
    BY <1>2, MetalAssumption DEF Start, Held
  <2> QED BY <1>2, <2>1, StartGood
<1>3. CASE Stop
  <2>1. \A s \in Requests : ~Held(s)'
    BY <1>3, MetalAssumption DEF Stop, Held
  <2> QED BY <1>3, <2>1, StopGood
<1>4. ASSUME NEW r \in Requests, Reject(r) \/ QueueFull(r) \/ Timeout(r) \/ Respond(r)
      PROVE  SchedulerInv' /\ UNCHANGED workers
  <2>1. UNCHANGED workers
    BY <1>4 DEF Reject, QueueFull, Timeout, Respond
  <2> QED BY <1>4, <2>1, AnswerGood
<1>5. ASSUME NEW r \in Requests, Submit(r) PROVE SchedulerInv' /\ UNCHANGED workers
  BY <1>5, SubmitGood DEF Submit
<1>6. CASE \E w \in Workers : Work(w)
  BY <1>6, TakeGood, FinishGood DEF Work
<1>7. CASE UNCHANGED vars
  <2>1. UNCHANGED workers /\ SchedulerInv'
    BY <1>7 DEF vars, SchedulerInv, SchedulerTypes, QueuedOnce, HeldOnce, Apart, Busy,
                RequestInv, Waits, Held, FitsBudget, Context
  <2> QED BY <1>1, <2>1
<1> QED BY <1>1, <1>2, <1>3, <1>4, <1>5, <1>6, <1>7 DEF Next

(***************************************************************************)
(* The inductive invariant of the scheduler holds in every execution.      *)
(***************************************************************************)
THEOREM SchedulerInvariant == Spec => []SchedulerInv
<1>1. SchedulerInv /\ [Next]_vars => SchedulerInv'
  BY SchedulerNext
<1> QED BY <1>1, SchedulerInit, PTL DEF Spec

(***************************************************************************)
(* For any number of requests and workers, whatever times out, fails or is *)
(* stopped: the counter that admission decides on is the number of workers *)
(* in the backend, and no item is lost or held twice.                      *)
(***************************************************************************)
THEOREM WorkIsAccountedFor == Spec => []WorkIsAccounted
<1>1. SchedulerInv => WorkIsAccounted
  <2> SUFFICES ASSUME SchedulerInv PROVE WorkIsAccounted
    OBVIOUS
  <2>1. ASSUME NEW r \in Requests
        PROVE  LET copies == Cardinality({i \in DOMAIN queue : queue[i] = r})
                             + Cardinality({w \in Workers : workers[w] = r})
               IN  /\ copies <= 1
                   /\ futures[r] = "pending" /\ phase = "serving" => copies = 1
    <3> DEFINE Q == {i \in DOMAIN queue : queue[i] = r}
               H == {w \in Workers : workers[w] = r}
    <3>1. (Q # {} <=> Waits(r)) /\ (H # {} <=> Held(r))
      BY DEF Waits, Held
    <3>2. ~(Waits(r) /\ Held(r))
      BY DEF SchedulerInv, Apart, Waits, Held
    <3>3. (\A x, y \in Q : x = y) /\ (\A x, y \in H : x = y)
      BY DEF SchedulerInv, QueuedOnce, HeldOnce
    <3>4. futures[r] = "pending" /\ phase = "serving" => Waits(r) \/ Held(r)
      BY DEF SchedulerInv, RequestInv
    <3> HIDE DEF Q, H
    <3>5. /\ Cardinality(Q) = IF Waits(r) THEN 1 ELSE 0
          /\ Cardinality(H) = IF Held(r) THEN 1 ELSE 0
      BY <3>1, <3>3, NoMoreThanOne
    <3>6. /\ Cardinality(Q) + Cardinality(H) <= 1
          /\ futures[r] = "pending" /\ phase = "serving" => Cardinality(Q) + Cardinality(H) = 1
      BY <3>2, <3>4, <3>5
    <3> QED BY <3>6 DEF Q, H
  <2> QED BY <2>1 DEF SchedulerInv, WorkIsAccounted, Busy
<1> QED BY <1>1, SchedulerInvariant, PTL

(***************************************************************************)
(* Whatever the budget and the requests: one that runs alone fits, but for *)
(* the single token granted to a prompt that fills its context.            *)
(***************************************************************************)
THEOREM AloneAlwaysFits == Spec => []AloneFitsBudget
<1>1. SchedulerInv => AloneFitsBudget
  BY DEF SchedulerInv, RequestInv, FitsBudget, Held, Running, AloneFitsBudget
<1> QED BY <1>1, SchedulerInvariant, PTL

(***************************************************************************)
(* Whatever the timing of a timer and a worker: the backend is never       *)
(* started for a caller who has been told of the timeout.                  *)
(***************************************************************************)
THEOREM AbandonedIsNotStarted == Spec => NoWorkForAbandoned
<1> DEFINE Wanted == \A r \in Requests :
              r \in Running' /\ r \notin Running => calls[r] = "waiting"
<1>1. SchedulerInv /\ [Next]_vars => SchedulerInv' /\ [Wanted]_vars
  <2> SUFFICES ASSUME SchedulerInv, [Next]_vars PROVE Wanted
    BY SchedulerNext
  <2>1. \A r \in Requests : (r \in Running' <=> Held(r)') /\ (r \in Running <=> Held(r))
    BY DEF Running, Held
  <2> QED BY <2>1, SchedulerNext
<1> HIDE DEF Wanted
<1>2. Spec => [][Wanted]_vars
  BY <1>1, SchedulerInit, PTL DEF Spec
<1> QED BY <1>2 DEF NoWorkForAbandoned, Wanted

-----------------------------------------------------------------------------
(***************************************************************************)
(* The index of cached prompts.  pos gives for each entry s[n] the         *)
(* position of its last use in the uses t: the positions increase, and a   *)
(* last use that has no entry is older than all that have one, of which    *)
(* there are then Capacity.                                                *)
(***************************************************************************)
LastUse(i, t) == \A j \in (i + 1) .. Len(t) : t[j] # t[i]

IsRecent(s, t, pos) ==
    /\ pos \in [1 .. Len(s) -> 1 .. Len(t)]
    /\ \A m, n \in 1 .. Len(s) : m < n => pos[m] < pos[n]
    /\ \A n \in 1 .. Len(s) : t[pos[n]] = s[n] /\ LastUse(pos[n], t)
    /\ \A i \in 1 .. Len(t) : LastUse(i, t) =>
          \/ \E n \in 1 .. Len(s) : pos[n] = i
          \/ Len(s) = Capacity /\ \A n \in 1 .. Len(s) : i < pos[n]

OneMore(t2, t, p) ==
    /\ Len(t) \in Nat /\ Len(t2) = Len(t) + 1 /\ t2[Len(t) + 1] = p
    /\ \A i \in 1 .. Len(t) : t2[i] = t[i]

\* An entry leaves place k and p comes to the end.
Moved(s2, s, k, p) ==
    /\ Len(s) \in Nat /\ k \in 1 .. Len(s) /\ Len(s2) = Len(s) /\ s2[Len(s)] = p
    /\ \A n \in 1 .. Len(s) - 1 : s2[n] = IF n < k THEN s[n] ELSE s[n + 1]

LEMMA LastUseStep ==
    ASSUME NEW t, NEW t2, NEW p, OneMore(t2, t, p)
    PROVE  /\ LastUse(Len(t) + 1, t2)
           /\ \A i \in 1 .. Len(t) : LastUse(i, t2) <=> LastUse(i, t) /\ t[i] # p
<1>1. Len(t) \in Nat /\ Len(t2) = Len(t) + 1 /\ t2[Len(t) + 1] = p
  BY DEF OneMore
<1>2. LastUse(Len(t) + 1, t2)
  BY <1>1 DEF LastUse
<1>3. ASSUME NEW i \in 1 .. Len(t) PROVE LastUse(i, t2) <=> LastUse(i, t) /\ t[i] # p
  <2>1. t2[i] = t[i] /\ \A j \in (i + 1) .. Len(t) : t2[j] = t[j]
    BY <1>1 DEF OneMore
  <2>2. \A j \in (i + 1) .. Len(t2) : j = Len(t) + 1 \/ j \in (i + 1) .. Len(t)
    BY <1>1
  <2>3. Len(t) + 1 \in (i + 1) .. Len(t2) /\ \A j \in (i + 1) .. Len(t) : j \in (i + 1) .. Len(t2)
    BY <1>1
  <2> QED BY <1>1, <2>1, <2>2, <2>3 DEF LastUse
<1> QED BY <1>2, <1>3

LEMMA MovedIsRecent ==
    ASSUME NEW s, NEW t, NEW s2, NEW t2, NEW p, NEW k, NEW pos,
           IsRecent(s, t, pos), OneMore(t2, t, p), Moved(s2, s, k, p),
           \/ s[k] = p
           \/ k = 1 /\ Len(s) = Capacity /\ \A n \in 1 .. Len(s) : s[n] # p
    PROVE  \E pos2 : IsRecent(s2, t2, pos2)
<1> DEFINE L == Len(s)
           src(n) == IF n < k THEN n ELSE n + 1
           pos2 == [n \in 1 .. L |-> IF n = L THEN Len(t) + 1 ELSE pos[src(n)]]
<1>1. /\ L \in Nat /\ k \in 1 .. L /\ Len(s2) = L /\ s2[L] = p
      /\ Len(t) \in Nat /\ Len(t2) = Len(t) + 1 /\ t2[Len(t) + 1] = p
  BY DEF Moved, OneMore
<1>2. ASSUME NEW n \in 1 .. L, n # L
      PROVE  /\ src(n) \in 1 .. L /\ src(n) # k /\ s2[n] = s[src(n)]
             /\ pos2[n] = pos[src(n)]
  BY <1>1, <1>2 DEF Moved
<1>3. pos2[L] = Len(t) + 1
  BY <1>1
<1>4. \A m, n \in 1 .. L : m < n => src(m) < src(n)
  BY <1>1
<1>5. ASSUME NEW m \in 1 .. L, m # k
      PROVE  \E n \in 1 .. L : n # L /\ src(n) = m
  <2>1. CASE m < k
    BY <2>1, <1>1
  <2>2. CASE m > k
    <3>1. m - 1 \in 1 .. L /\ m - 1 # L /\ src(m - 1) = m
      BY <2>2, <1>1
    <3> QED BY <3>1
  <2> QED BY <2>1, <2>2, <1>1, <1>5
<1> HIDE DEF src, pos2, L
<1>6. /\ pos \in [1 .. L -> 1 .. Len(t)]
      /\ \A m, n \in 1 .. L : m < n => pos[m] < pos[n]
      /\ \A n \in 1 .. L : t[pos[n]] = s[n] /\ LastUse(pos[n], t)
      /\ \A i \in 1 .. Len(t) : LastUse(i, t) =>
            \/ \E n \in 1 .. L : pos[n] = i
            \/ L = Capacity /\ \A n \in 1 .. L : i < pos[n]
  BY DEF IsRecent, L
<1>7. ASSUME NEW m \in 1 .. L, m # k, s[k] = p PROVE s[m] # p
  <2>1. pos[m] \in 1 .. Len(t) /\ pos[k] \in 1 .. Len(t)
    BY <1>1, <1>6
  <2>2. t[pos[m]] = s[m] /\ t[pos[k]] = s[k] /\ LastUse(pos[m], t) /\ LastUse(pos[k], t)
    BY <1>1, <1>6
  <2>3. CASE m < k
    <3>1. pos[k] \in (pos[m] + 1) .. Len(t)
      BY <2>1, <2>3, <1>1, <1>6
    <3>2. t[pos[k]] # t[pos[m]]
      BY <2>2, <3>1 DEF LastUse
    <3> QED BY <2>2, <3>2, <1>7
  <2>4. CASE k < m
    <3>1. pos[m] \in (pos[k] + 1) .. Len(t)
      BY <2>1, <2>4, <1>1, <1>6
    <3>2. t[pos[m]] # t[pos[k]]
      BY <2>2, <3>1 DEF LastUse
    <3> QED BY <2>2, <3>2, <1>7
  <2> QED BY <2>3, <2>4, <1>1, <1>7
<1>8. \A m \in 1 .. L : m # k => s[m] # p
  BY <1>7 DEF L
<1>9. pos2 \in [1 .. Len(s2) -> 1 .. Len(t2)]
  <2>1. ASSUME NEW n \in 1 .. L PROVE pos2[n] \in 1 .. Len(t2)
    <3>1. CASE n = L
      BY <3>1, <1>1, <1>3
    <3>2. CASE n # L
      <4>1. pos2[n] \in 1 .. Len(t)
        BY <3>2, <1>2, <1>6
      <4> QED BY <4>1, <1>1
    <3> QED BY <3>1, <3>2
  <2>2. pos2 = [n \in 1 .. L |-> pos2[n]]
    BY DEF pos2
  <2> QED BY <1>1, <2>1, <2>2
<1>10. ASSUME NEW m \in 1 .. L, NEW n \in 1 .. L, m < n PROVE pos2[m] < pos2[n]
  <2>1. m # L /\ pos2[m] = pos[src(m)] /\ src(m) \in 1 .. L
    BY <1>1, <1>2, <1>10
  <2>2. CASE n = L
    BY <2>1, <2>2, <1>1, <1>3, <1>6
  <2>3. CASE n # L
    BY <2>1, <2>3, <1>2, <1>4, <1>6, <1>10
  <2> QED BY <2>2, <2>3
<1>11. ASSUME NEW n \in 1 .. L PROVE t2[pos2[n]] = s2[n] /\ LastUse(pos2[n], t2)
  <2>1. CASE n = L
    BY <2>1, <1>1, <1>3, LastUseStep
  <2>2. CASE n # L
    <3>1. src(n) \in 1 .. L /\ pos2[n] = pos[src(n)] /\ s2[n] = s[src(n)] /\ s[src(n)] # p
      BY <2>2, <1>2, <1>8
    <3>2. pos2[n] \in 1 .. Len(t) /\ t[pos2[n]] = s2[n] /\ LastUse(pos2[n], t)
      BY <3>1, <1>6
    <3>3. t2[pos2[n]] = t[pos2[n]]
      BY <3>2 DEF OneMore
    <3> QED BY <3>1, <3>2, <3>3, LastUseStep
  <2> QED BY <2>1, <2>2
<1>12. ASSUME NEW i \in 1 .. Len(t2), LastUse(i, t2)
       PROVE  \/ \E n \in 1 .. L : pos2[n] = i
              \/ L = Capacity /\ \A n \in 1 .. L : i < pos2[n]
  <2>1. CASE i = Len(t) + 1
    BY <2>1, <1>1, <1>3
  <2>2. CASE i # Len(t) + 1
    <3>1. i \in 1 .. Len(t)
      BY <2>2, <1>1
    <3>2. LastUse(i, t) /\ t[i] # p
      BY <3>1, <1>12, LastUseStep
    <3>3. ASSUME L = Capacity, \A n \in 1 .. L : n # k => i < pos[n]
          PROVE  \A n \in 1 .. L : i < pos2[n]
      <4> SUFFICES ASSUME NEW n \in 1 .. L PROVE i < pos2[n]
        OBVIOUS
      <4>1. CASE n = L
        BY <4>1, <3>1, <1>1, <1>3
      <4>2. CASE n # L
        BY <4>2, <3>3, <1>2
      <4> QED BY <4>1, <4>2
    <3>4. CASE \E n \in 1 .. L : pos[n] = i
      <4>1. PICK m \in 1 .. L : pos[m] = i
        BY <3>4
      <4>2. CASE m = k
        <5>1. s[k] # p
          BY <4>1, <4>2, <3>2, <1>6
        <5>2. k = 1 /\ L = Capacity
          BY <5>1 DEF L
        <5>3. \A n \in 1 .. L : n # k => i < pos[n]
          BY <4>1, <4>2, <5>2, <1>1, <1>6
        <5> QED BY <5>2, <5>3, <3>3
      <4>3. CASE m # k
        BY <4>1, <4>3, <1>2, <1>5
      <4> QED BY <4>2, <4>3
    <3> QED BY <3>1, <3>2, <3>3, <3>4, <1>6
  <2> QED BY <2>1, <2>2
<1>13. IsRecent(s2, t2, pos2)
  BY <1>1, <1>9, <1>10, <1>11, <1>12 DEF IsRecent
<1> QED BY <1>13

LEMMA GrownIsRecent ==
    ASSUME NEW s, NEW t, NEW s2, NEW t2, NEW p, NEW pos,
           IsRecent(s, t, pos), OneMore(t2, t, p), OneMore(s2, s, p), Len(s) # Capacity,
           \A n \in 1 .. Len(s) : s[n] # p
    PROVE  \E pos2 : IsRecent(s2, t2, pos2)
<1> DEFINE L == Len(s)
           pos2 == [n \in 1 .. L + 1 |-> IF n = L + 1 THEN Len(t) + 1 ELSE pos[n]]
<1>1. /\ L \in Nat /\ Len(s2) = L + 1 /\ s2[L + 1] = p /\ \A n \in 1 .. L : s2[n] = s[n]
      /\ Len(t) \in Nat /\ Len(t2) = Len(t) + 1 /\ t2[Len(t) + 1] = p
      /\ \A i \in 1 .. Len(t) : t2[i] = t[i]
  BY DEF OneMore
<1>2. pos2[L + 1] = Len(t) + 1 /\ \A n \in 1 .. L : pos2[n] = pos[n]
  BY <1>1
<1>3. \A n \in 1 .. L + 1 : n \in 1 .. L \/ n = L + 1
  BY <1>1
<1> HIDE DEF pos2, L
<1>4. /\ pos \in [1 .. L -> 1 .. Len(t)]
      /\ \A m, n \in 1 .. L : m < n => pos[m] < pos[n]
      /\ \A n \in 1 .. L : t[pos[n]] = s[n] /\ LastUse(pos[n], t)
      /\ \A i \in 1 .. Len(t) : LastUse(i, t) => \E n \in 1 .. L : pos[n] = i
  BY DEF IsRecent, L
<1>5. pos2 \in [1 .. Len(s2) -> 1 .. Len(t2)]
  <2>1. ASSUME NEW n \in 1 .. L + 1 PROVE pos2[n] \in 1 .. Len(t2)
    <3>1. CASE n = L + 1
      BY <3>1, <1>1, <1>2
    <3>2. CASE n \in 1 .. L
      <4>1. pos2[n] \in 1 .. Len(t)
        BY <3>2, <1>2, <1>4
      <4> QED BY <4>1, <1>1
    <3> QED BY <3>1, <3>2, <1>3
  <2>2. pos2 = [n \in 1 .. L + 1 |-> pos2[n]]
    BY DEF pos2
  <2> QED BY <1>1, <2>1, <2>2
<1>6. ASSUME NEW m \in 1 .. L + 1, NEW n \in 1 .. L + 1, m < n PROVE pos2[m] < pos2[n]
  <2>1. m \in 1 .. L
    BY <1>1, <1>6
  <2>2. CASE n = L + 1
    BY <2>1, <2>2, <1>1, <1>2, <1>4
  <2>3. CASE n \in 1 .. L
    BY <2>1, <2>3, <1>2, <1>4, <1>6
  <2> QED BY <2>2, <2>3, <1>3
<1>7. ASSUME NEW n \in 1 .. L + 1 PROVE t2[pos2[n]] = s2[n] /\ LastUse(pos2[n], t2)
  <2>1. CASE n = L + 1
    BY <2>1, <1>1, <1>2, LastUseStep
  <2>2. CASE n \in 1 .. L
    <3>1. pos2[n] = pos[n] /\ s2[n] = s[n] /\ s[n] # p
      BY <2>2, <1>1, <1>2 DEF L
    <3>2. pos[n] \in 1 .. Len(t) /\ t[pos[n]] = s[n] /\ LastUse(pos[n], t)
      BY <2>2, <1>4
    <3> QED BY <3>1, <3>2, <1>1, LastUseStep
  <2> QED BY <2>1, <2>2, <1>3
<1>8. ASSUME NEW i \in 1 .. Len(t2), LastUse(i, t2)
      PROVE  \E n \in 1 .. L + 1 : pos2[n] = i
  <2>1. CASE i = Len(t) + 1
    BY <2>1, <1>1, <1>2
  <2>2. CASE i # Len(t) + 1
    <3>1. i \in 1 .. Len(t)
      BY <2>2, <1>1
    <3>2. LastUse(i, t)
      BY <3>1, <1>8, LastUseStep
    <3>3. PICK n \in 1 .. L : pos[n] = i
      BY <3>1, <3>2, <1>4
    <3> QED BY <3>3, <1>1, <1>2
  <2> QED BY <2>1, <2>2
<1>9. IsRecent(s2, t2, pos2)
  BY <1>1, <1>5, <1>6, <1>7, <1>8 DEF IsRecent
<1> QED BY <1>9

LEMMA RemovedThenAppended ==
    ASSUME NEW P, NEW s \in Seq(P), NEW p \in P, NEW k \in 1 .. Len(s)
    PROVE  LET e == Append(RemoveAt(s, k), p) IN e \in Seq(P) /\ Moved(e, s, k, p)
<1> DEFINE low == SubSeq(s, 1, k - 1)
           high == SubSeq(s, k + 1, Len(s))
           c == low \o high
           e == Append(c, p)
<1>1. Len(s) \in Nat
  OBVIOUS
<1>2. /\ low \in Seq(P) /\ Len(low) = k - 1
      /\ \A n \in 1 .. k - 1 : low[n] = s[n]
  BY <1>1
<1>3. /\ high \in Seq(P) /\ Len(high) = Len(s) - k
      /\ \A n \in 1 .. Len(s) - k : high[n] = s[k + n]
  BY <1>1
<1> HIDE DEF low, high
<1>4. c \in Seq(P) /\ Len(c) = Len(low) + Len(high)
  <2>1. low \in Seq(P) /\ high \in Seq(P)
    BY <1>2, <1>3
  <2> QED BY <2>1
<1>5. Len(c) = Len(s) - 1
  <2> HIDE DEF c
  <2> QED BY <1>1, <1>2, <1>3, <1>4
<1>6. ASSUME NEW n \in 1 .. Len(s) - 1 PROVE c[n] = IF n < k THEN s[n] ELSE s[n + 1]
  <2>1. CASE n < k
    <3>1. n \in 1 .. k - 1
      BY <2>1, <1>1
    <3>2. c[n] = low[n]
      BY <3>1, <1>1, <1>2, <1>3
    <3> QED BY <2>1, <3>1, <3>2, <1>2
  <2>2. CASE ~(n < k)
    <3>1. n - (k - 1) \in 1 .. Len(s) - k /\ k + (n - (k - 1)) = n + 1
      BY <2>2, <1>1
    <3>2. c[n] = high[n - (k - 1)]
      BY <2>2, <3>1, <1>1, <1>2, <1>3
    <3>3. high[n - (k - 1)] = s[k + (n - (k - 1))]
      BY <3>1, <1>3
    <3> QED BY <2>2, <3>1, <3>2, <3>3
  <2> QED BY <2>1, <2>2
<1> HIDE DEF c
<1>7. e \in Seq(P) /\ Len(e) = Len(c) + 1 /\ e[Len(c) + 1] = p /\ \A n \in 1 .. Len(c) : e[n] = c[n]
  BY <1>4
<1>8. Len(c) + 1 = Len(s)
  BY <1>1, <1>5
<1> HIDE DEF e
<1>9. Moved(e, s, k, p)
  BY <1>1, <1>5, <1>6, <1>7, <1>8 DEF Moved
<1> QED BY <1>7, <1>9 DEF e, c, low, high, RemoveAt

\* Bringing p to the end: its entry moves, or a new one is added.
LEMMA ToEndFacts ==
    ASSUME NEW P, NEW s \in Seq(P), NEW p \in P
    PROVE  /\ ToEnd(s, p) \in Seq(P)
           /\ p \in ToSet(s) => \E k \in 1 .. Len(s) : s[k] = p /\ Moved(ToEnd(s, p), s, k, p)
           /\ p \notin ToSet(s) =>
                 OneMore(ToEnd(s, p), s, p) /\ \A n \in 1 .. Len(s) : s[n] # p
<1>1. Len(s) \in Nat /\ DOMAIN s = 1 .. Len(s)
  OBVIOUS
<1>2. CASE p \in ToSet(s)
  <2> DEFINE k == CHOOSE i \in DOMAIN s : s[i] = p
  <2>1. k \in 1 .. Len(s) /\ s[k] = p
    BY <1>1, <1>2 DEF ToSet
  <2>2. ToEnd(s, p) = Append(RemoveAt(s, k), p)
    BY <1>2 DEF ToEnd
  <2> HIDE DEF k
  <2>3. ToEnd(s, p) \in Seq(P) /\ Moved(ToEnd(s, p), s, k, p)
    BY <2>1, <2>2, RemovedThenAppended
  <2> QED BY <1>2, <2>1, <2>3
<1>3. CASE p \notin ToSet(s)
  <2>1. ToEnd(s, p) = Append(s, p)
    BY <1>3 DEF ToEnd
  <2>2. \A n \in 1 .. Len(s) : s[n] # p
    BY <1>1, <1>3 DEF ToSet
  <2> QED BY <1>1, <1>3, <2>1, <2>2 DEF OneMore
<1> QED BY <1>2, <1>3

-----------------------------------------------------------------------------
Prompts == {Prompt[r] : r \in Requests}

CacheInv ==
    /\ cache \in Seq(Prompts) /\ touches \in Seq(Prompts)
    /\ Len(cache) <= Capacity
    /\ \E pos : IsRecent(cache, touches, pos)

LEMMA UsedOnce ==
    ASSUME CacheInv, NEW p \in Prompts, touches' = Append(touches, p)
    PROVE  touches' \in Seq(Prompts) /\ OneMore(touches', touches, p)
  BY DEF CacheInv, OneMore

LEMMA LookupGood ==
    ASSUME CacheInv, NEW p \in Prompts, Lookup(p)
    PROVE  CacheInv'
<1>1. CASE p \notin ToSet(cache)
  <2>1. UNCHANGED <<cache, touches>>
    BY <1>1 DEF Lookup, caching
  <2> QED BY <2>1 DEF CacheInv
<1>2. CASE p \in ToSet(cache)
  <2>1. cache' = ToEnd(cache, p) /\ touches' = Append(touches, p)
    BY <1>2 DEF Lookup
  <2>2. cache \in Seq(Prompts) /\ Len(cache) \in Nat
    BY DEF CacheInv
  <2>3. cache' \in Seq(Prompts)
    BY <2>1, <2>2, ToEndFacts
  <2>4. PICK k \in 1 .. Len(cache) : cache[k] = p /\ Moved(cache', cache, k, p)
    BY <1>2, <2>1, <2>2, ToEndFacts
  <2>5. Len(cache') = Len(cache)
    BY <2>4 DEF Moved
  <2>6. touches' \in Seq(Prompts) /\ OneMore(touches', touches, p)
    BY <2>1, UsedOnce
  <2>7. PICK pos : IsRecent(cache, touches, pos)
    BY DEF CacheInv
  <2>8. \E pos2 : IsRecent(cache', touches', pos2)
    BY <2>4, <2>6, <2>7, MovedIsRecent
  <2> QED BY <2>3, <2>5, <2>6, <2>8 DEF CacheInv
<1> QED BY <1>1, <1>2

LEMMA RecordGood ==
    ASSUME CacheInv, NEW p \in Prompts, Record(p)
    PROVE  CacheInv'
<1> DEFINE e == ToEnd(cache, p)
           excess == IF Len(e) > Capacity THEN Len(e) - Capacity ELSE 0
<1>1. cache' = SubSeq(e, excess + 1, Len(e)) /\ touches' = Append(touches, p)
  BY DEF Record
<1>2. /\ cache \in Seq(Prompts) /\ Len(cache) \in Nat /\ Len(cache) <= Capacity
      /\ Capacity \in Nat /\ Capacity >= 1
  BY MetalAssumption DEF CacheInv
<1>3. /\ e \in Seq(Prompts)
      /\ p \in ToSet(cache) =>
            \E k \in 1 .. Len(cache) : cache[k] = p /\ Moved(e, cache, k, p)
      /\ p \notin ToSet(cache) =>
            OneMore(e, cache, p) /\ \A n \in 1 .. Len(cache) : cache[n] # p
  BY <1>2, ToEndFacts
<1>4. Len(e) \in Nat
  BY <1>3
<1> HIDE DEF e
<1>5. touches' \in Seq(Prompts) /\ OneMore(touches', touches, p)
  BY <1>1, UsedOnce
<1>6. PICK pos : IsRecent(cache, touches, pos)
  BY DEF CacheInv
<1>7. Len(e) <= Capacity => cache' = e
  <2> SUFFICES ASSUME Len(e) <= Capacity PROVE cache' = e
    OBVIOUS
  <2>1. excess = 0
    BY <1>2, <1>4
  <2>2. cache' = SubSeq(e, 1, Len(e))
    BY <1>1, <2>1
  <2>3. cache' \in Seq(Prompts) /\ Len(cache') = Len(e) /\ \A n \in 1 .. Len(e) : cache'[n] = e[n]
    BY <2>2, <1>3, <1>4
  <2> QED BY <2>3, <1>3
<1>8. CASE p \in ToSet(cache)
  <2>1. PICK k \in 1 .. Len(cache) : cache[k] = p /\ Moved(e, cache, k, p)
    BY <1>3, <1>8
  <2>2. Len(e) = Len(cache)
    BY <2>1 DEF Moved
  <2>3. cache' = e
    BY <1>2, <1>7, <2>2
  <2>4. \E pos2 : IsRecent(cache', touches', pos2)
    BY <2>1, <2>3, <1>5, <1>6, MovedIsRecent
  <2> QED BY <1>2, <1>3, <1>5, <2>2, <2>3, <2>4 DEF CacheInv
<1>9. CASE p \notin ToSet(cache) /\ Len(cache) # Capacity
  <2>1. OneMore(e, cache, p) /\ \A n \in 1 .. Len(cache) : cache[n] # p
    BY <1>3, <1>9
  <2>2. Len(e) = Len(cache) + 1 /\ Len(e) <= Capacity
    BY <2>1, <1>2, <1>9 DEF OneMore
  <2>3. cache' = e
    BY <1>7, <2>2
  <2>4. \E pos2 : IsRecent(cache', touches', pos2)
    BY <2>1, <2>3, <1>5, <1>6, <1>9, GrownIsRecent
  <2> QED BY <1>3, <1>5, <2>2, <2>3, <2>4 DEF CacheInv
<1>10. CASE p \notin ToSet(cache) /\ Len(cache) = Capacity
  <2>1. OneMore(e, cache, p) /\ \A n \in 1 .. Len(cache) : cache[n] # p
    BY <1>3, <1>10
  <2>2. /\ Len(e) = Len(cache) + 1 /\ e[Len(cache) + 1] = p
        /\ \A n \in 1 .. Len(cache) : e[n] = cache[n]
    BY <2>1 DEF OneMore
  <2>3. excess = 1
    BY <1>2, <1>4, <1>10, <2>2
  <2>4. cache' = SubSeq(e, 2, Len(e))
    BY <1>1, <2>3
  <2>5. /\ cache' \in Seq(Prompts) /\ Len(cache') = Len(cache)
        /\ \A n \in 1 .. Len(cache) : cache'[n] = e[n + 1]
    BY <2>2, <2>4, <1>2, <1>3, <1>4
  <2>6. cache'[Len(cache)] = p
    BY <2>2, <2>5, <1>2, <1>10
  <2>7. \A n \in 1 .. Len(cache) - 1 : cache'[n] = cache[n + 1]
    BY <2>2, <2>5, <1>2
  <2>8. Moved(cache', cache, 1, p)
    BY <2>5, <2>6, <2>7, <1>2, <1>10 DEF Moved
  <2>9. \E pos2 : IsRecent(cache', touches', pos2)
    BY <2>1, <2>8, <1>5, <1>6, <1>10, MovedIsRecent
  <2> QED BY <1>2, <1>5, <2>5, <2>9 DEF CacheInv
<1> QED BY <1>8, <1>9, <1>10

LEMMA CacheNext == CacheInv /\ [Next]_vars => CacheInv'
<1> SUFFICES ASSUME CacheInv, [Next]_vars PROVE CacheInv'
  OBVIOUS
<1>1. ASSUME UNCHANGED <<cache, touches>> PROVE CacheInv'
  BY <1>1 DEF CacheInv
<1>2. CASE Start \/ Stop
  BY <1>1, <1>2 DEF Start, Stop, caching
<1>3. ASSUME NEW r \in Requests, Reject(r) \/ Timeout(r) PROVE CacheInv'
  BY <1>1, <1>3 DEF Reject, Timeout, caching
<1>4. ASSUME NEW r \in Requests, QueueFull(r) \/ Submit(r) PROVE CacheInv'
  <2>1. Lookup(Prompt[r]) /\ Prompt[r] \in Prompts
    BY <1>4 DEF QueueFull, Submit, Prompts
  <2> QED BY <2>1, LookupGood
<1>5. ASSUME NEW r \in Requests, Respond(r) PROVE CacheInv'
  <2>1. Prompt[r] \in Prompts
    BY DEF Prompts
  <2>2. Record(Prompt[r]) \/ UNCHANGED caching
    BY <1>5 DEF Respond
  <2> QED BY <2>1, <2>2, <1>1, RecordGood DEF caching
<1>6. CASE \E w \in Workers : Work(w)
  BY <1>1, <1>6 DEF Work, Take, Finish, caching
<1>7. CASE UNCHANGED vars
  BY <1>1, <1>7 DEF vars
<1> QED BY <1>2, <1>3, <1>4, <1>5, <1>6, <1>7 DEF Next

LEMMA CacheInit == Init => CacheInv
<1> SUFFICES ASSUME Init PROVE CacheInv
  OBVIOUS
<1>1. cache = << >> /\ touches = << >>
  BY DEF Init
<1>2. IsRecent(<< >>, << >>, [n \in {} |-> 0])
  BY DEF IsRecent
<1> QED BY <1>1, <1>2, MetalAssumption DEF CacheInv

-----------------------------------------------------------------------------
Between(pos, a, b) == {pos[m] : m \in a .. b}

\* From positions that increase, those of the entries a .. b are as many.
LEMMA PositionsCount ==
    ASSUME NEW L \in Nat, NEW M \in Nat, NEW pos \in [1 .. L -> 1 .. M],
           \A m, n \in 1 .. L : m < n => pos[m] < pos[n],
           NEW a \in 1 .. L, NEW b \in 1 .. L, a <= b
    PROVE  /\ IsFiniteSet(Between(pos, a, b))
           /\ Cardinality(Between(pos, a, b)) = b - a + 1
<1> DEFINE T == {pos[m] : m \in a .. b}
           f == [m \in a .. b |-> pos[m]]
<1>1. IsFiniteSet(a .. b) /\ Cardinality(a .. b) = b - a + 1
  <2>1. Cardinality(a .. b) = IF a > b THEN 0 ELSE b - a + 1
    BY FS_Interval
  <2> QED BY <2>1, FS_Interval
<1>2. f \in Surjection(a .. b, T)
  BY DEF Surjection
<1>3. ASSUME NEW m \in a .. b, NEW n \in a .. b, f[m] = f[n] PROVE m = n
  <2>1. m \in 1 .. L /\ n \in 1 .. L /\ pos[m] = pos[n]
    BY <1>3
  <2>2. pos[m] \in Nat /\ pos[n] \in Nat
    BY <2>1
  <2> QED BY <2>1, <2>2
<1>4. f \in Injection(a .. b, T)
  BY <1>2, <1>3 DEF Injection, Surjection, IsInjective
<1>5. ExistsBijection(a .. b, T)
  BY <1>2, <1>4 DEF ExistsBijection, Bijection
<1>6. T = Between(pos, a, b)
  BY DEF Between
<1> HIDE DEF T
<1> QED BY <1>1, <1>5, <1>6, FS_Bijection

LEMMA CacheInvIsEnough == CacheInv => CacheIsRecent
<1> SUFFICES ASSUME CacheInv PROVE CacheIsRecent
  OBVIOUS
<1> DEFINE L == Len(cache)
           M == Len(touches)
           since(i) == {j \in LastUses : j >= i}
           recent == {i \in LastUses : Cardinality(since(i)) <= Capacity}
           upto(i) == {j \in recent : j <= i}
<1>1. /\ cache \in Seq(Prompts) /\ touches \in Seq(Prompts)
      /\ L \in Nat /\ M \in Nat /\ L <= Capacity /\ Capacity \in Nat
      /\ DOMAIN touches = 1 .. M /\ DOMAIN cache = 1 .. L
  BY MetalAssumption DEF CacheInv
<1>2. PICK pos : IsRecent(cache, touches, pos)
  BY DEF CacheInv
<1>3. /\ pos \in [1 .. L -> 1 .. M]
      /\ \A m, n \in 1 .. L : m < n => pos[m] < pos[n]
      /\ \A n \in 1 .. L : touches[pos[n]] = cache[n] /\ LastUse(pos[n], touches)
      /\ \A i \in 1 .. M : LastUse(i, touches) =>
            \/ \E n \in 1 .. L : pos[n] = i
            \/ L = Capacity /\ \A n \in 1 .. L : i < pos[n]
  BY <1>2 DEF IsRecent
<1>4. \A i : i \in LastUses <=> i \in 1 .. M /\ LastUse(i, touches)
  BY <1>1 DEF LastUses, LastUse
<1>5. \A n \in 1 .. L : pos[n] \in 1 .. M /\ pos[n] \in LastUses
  BY <1>3, <1>4
<1>6. \A i \in LastUses : i \in Nat /\ i <= M
  BY <1>1, <1>4
<1>7. \A m, n \in 1 .. L : pos[m] <= pos[n] <=> m <= n
  <2> SUFFICES ASSUME NEW m \in 1 .. L, NEW n \in 1 .. L PROVE pos[m] <= pos[n] <=> m <= n
    OBVIOUS
  <2>1. pos[m] \in Nat /\ pos[n] \in Nat /\ m \in Nat /\ n \in Nat
    BY <1>1, <1>5
  <2>2. (m < n => pos[m] < pos[n]) /\ (n < m => pos[n] < pos[m]) /\ (m = n => pos[m] = pos[n])
    BY <1>3
  <2> QED BY <2>1, <2>2
<1> HIDE DEF L, M
<1>count. \A a, b \in 1 .. L : a <= b =>
        IsFiniteSet(Between(pos, a, b)) /\ Cardinality(Between(pos, a, b)) = b - a + 1
  BY <1>1, <1>3, PositionsCount
<1>8. ASSUME NEW n \in 1 .. L PROVE pos[n] \in recent
  <2>1. ASSUME NEW j \in since(pos[n]) PROVE \E m \in n .. L : j = pos[m]
    <3>1. j \in LastUses /\ j >= pos[n] /\ j \in Nat /\ pos[n] \in Nat
      BY <1>1, <1>5, <1>6
    <3>2. ~(j < pos[n])
      BY <3>1
    <3>3. PICK m \in 1 .. L : pos[m] = j
      BY <3>1, <3>2, <1>3, <1>4
    <3>4. pos[n] <= pos[m]
      BY <3>1, <3>3
    <3>5. n <= m
      BY <3>4, <1>7
    <3> QED BY <3>3, <3>5, <1>1
  <2>2. ASSUME NEW m \in n .. L PROVE pos[m] \in since(pos[n])
    <3>1. m \in 1 .. L /\ n <= m
      BY <1>1
    <3>2. pos[n] <= pos[m] /\ pos[m] \in LastUses /\ pos[m] \in Nat /\ pos[n] \in Nat
      BY <3>1, <1>1, <1>5, <1>7
    <3> QED BY <3>2
  <2>3. since(pos[n]) = Between(pos, n, L)
    BY <2>1, <2>2 DEF Between
  <2>4. L \in 1 .. L /\ n <= L
    BY <1>1
  <2>5. Cardinality(Between(pos, n, L)) = L - n + 1
    BY <2>4, <1>count
  <2>6. Cardinality(since(pos[n])) <= Capacity
    <3> HIDE DEF since
    <3> QED BY <2>3, <2>5, <1>1
  <2> QED BY <2>6, <1>5
<1>9. ASSUME NEW i \in recent PROVE \E n \in 1 .. L : pos[n] = i
  <2> SUFFICES ASSUME ~\E n \in 1 .. L : pos[n] = i PROVE FALSE
    OBVIOUS
  <2>1. i \in LastUses /\ Cardinality(since(i)) <= Capacity
    OBVIOUS
  <2>2. L = Capacity /\ \A n \in 1 .. L : i < pos[n]
    BY <2>1, <1>3, <1>4
  <2> DEFINE T == Between(pos, 1, L)
  <2>3. L \in Nat /\ L >= 1
    BY <2>2, <1>1, MetalAssumption
  <2>4. IsFiniteSet(T) /\ Cardinality(T) = L
    <3>1. 1 \in 1 .. L /\ L \in 1 .. L /\ 1 <= L /\ L - 1 + 1 = L
      BY <2>3
    <3> QED BY <3>1, <1>count
  <2>5. i \notin T
    BY DEF Between
  <2>6. T \cup {i} \subseteq since(i)
    <3>1. \A n \in 1 .. L : pos[n] \in LastUses /\ pos[n] >= i
      BY <2>1, <2>2, <1>1, <1>5, <1>6
    <3> QED BY <3>1, <2>1, <1>6 DEF Between
  <2>7. IsFiniteSet(since(i)) /\ Cardinality(since(i)) \in Nat
    <3>1. since(i) \in SUBSET Nat /\ \A j \in since(i) : j <= M
      BY <1>6
    <3> HIDE DEF since
    <3> QED BY <3>1, <1>1, FS_BoundedSetOfNaturals, FS_CardinalityType
  <2> HIDE DEF T, since, recent
  <2>8. IsFiniteSet(T \cup {i}) /\ Cardinality(T \cup {i}) = L + 1
    BY <2>4, <2>5, FS_AddElement
  <2>9. Cardinality(T \cup {i}) <= Cardinality(since(i))
    BY <2>6, <2>7, FS_Subset
  <2> QED BY <2>1, <2>2, <2>3, <2>7, <2>8, <2>9
<1>10. recent = Between(pos, 1, L)
  <2> HIDE DEF recent
  <2> QED BY <1>8, <1>9 DEF Between
<1> HIDE DEF recent
<1>11. Cardinality(recent) = L
  <2>1. CASE L = 0
    BY <2>1, <1>10, FS_EmptySet DEF Between
  <2>2. CASE L # 0
    <3>1. 1 \in 1 .. L /\ L \in 1 .. L /\ 1 <= L /\ L - 1 + 1 = L
      BY <2>2, <1>1
    <3>2. Cardinality(Between(pos, 1, L)) = L - 1 + 1
      BY <3>1, <1>count
    <3> QED BY <3>1, <3>2, <1>10
  <2> QED BY <2>1, <2>2
<1>12. ASSUME NEW n \in 1 .. L PROVE Cardinality(upto(pos[n])) = n
  <2>1. upto(pos[n]) = Between(pos, 1, n)
    <3>1. ASSUME NEW j \in upto(pos[n]) PROVE \E m \in 1 .. n : j = pos[m]
      <4>1. PICK m \in 1 .. L : j = pos[m]
        BY <1>10 DEF Between
      <4>2. m <= n
        BY <4>1, <1>7
      <4> QED BY <4>1, <4>2, <1>1
    <3>2. ASSUME NEW m \in 1 .. n PROVE pos[m] \in upto(pos[n])
      <4>1. m \in 1 .. L /\ m <= n
        BY <1>1
      <4> QED BY <4>1, <1>7, <1>8
    <3> QED BY <3>1, <3>2 DEF Between
  <2>2. 1 \in 1 .. L /\ 1 <= n /\ n - 1 + 1 = n
    BY <1>1
  <2>3. Cardinality(Between(pos, 1, n)) = n - 1 + 1
    BY <2>2, <1>count
  <2> HIDE DEF upto
  <2> QED BY <2>1, <2>2, <2>3
<1>13. ASSUME NEW n \in 1 .. L
       PROVE  (CHOOSE i \in recent : Cardinality(upto(i)) = n) = pos[n]
  <2>1. pos[n] \in recent /\ Cardinality(upto(pos[n])) = n
    BY <1>8, <1>12
  <2>2. ASSUME NEW i \in recent, Cardinality(upto(i)) = n PROVE i = pos[n]
    <3>1. PICK m \in 1 .. L : i = pos[m]
      BY <1>9
    <3> HIDE DEF upto
    <3>2. m = n
      BY <3>1, <2>2, <1>12
    <3> QED BY <3>1, <3>2
  <2> HIDE DEF upto
  <2> QED BY <2>1, <2>2
<1> DEFINE f == [n \in 1 .. Cardinality(recent) |->
                    touches[CHOOSE i \in recent : Cardinality(upto(i)) = n]]
<1>14. cache = f
  <2>1. \A n \in 1 .. L : f[n] = cache[n]
    <3> HIDE DEF upto
    <3> QED BY <1>3, <1>11, <1>13
  <2>2. DOMAIN f = 1 .. L /\ f = [n \in 1 .. L |-> f[n]]
    BY <1>11
  <2>3. cache = [n \in 1 .. L |-> cache[n]]
    BY <1>1
  <2> HIDE DEF f
  <2> QED BY <2>1, <2>2, <2>3
<1> QED BY <1>14, Zenon DEF CacheIsRecent, f, recent, since, upto

(***************************************************************************)
(* For any capacity and any sequence of uses: the index holds exactly the  *)
(* prompts used most recently, in the order of their last uses.            *)
(***************************************************************************)
THEOREM CacheKeepsRecent == Spec => []CacheIsRecent
  BY CacheInit, CacheNext, CacheInvIsEnough, PTL DEF Spec
============================================================================
