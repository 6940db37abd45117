---------------------------- MODULE MetalRuntime ----------------------------
(***************************************************************************)
(* The Metal inference runtime (platforms/metal_runtime: api.py chat,      *)
(* scheduler.py, planner.py, cache.py).  Everything runs on one asyncio    *)
(* loop, so an action is what happens between two awaits: admission and    *)
(* enqueueing of a request are one step; a worker suspends only for the    *)
(* queue and for the backend; the timer of wait_for and the resumption of  *)
(* the waiting handler come in between as they please.                     *)
(*                                                                         *)
(* Memory is counted in tokens of KV cache (cache_budget_gb divided by     *)
(* kv_bytes_per_token).  The backend is external: it answers, raises, or   *)
(* never returns.                                                          *)
(***************************************************************************)
EXTENDS Naturals, Sequences, FiniteSets, SequencesExt, FiniteSetsExt

CONSTANTS
    Requests,       \* chat requests, each of them sent at most once
    Prompt,         \* Prompt[r]: its prompt
    PromptTokens,   \* PromptTokens[r]: estimate_tokens of the prompt
    MaxTokens,      \* MaxTokens[r]: request.max_tokens
    Multimodal,     \* the requests with request.multimodal
    Workers,        \* the worker tasks; their number is scheduler.slots
    QueueLimit,     \* METAL_QUEUE_LIMIT
    Budget,         \* cache_budget_gb, in tokens
    VisionReserve,  \* vision_reserve_gb, in tokens
    Capacity,       \* METAL_PROMPT_CACHE_ENTRIES
    Free, Off       \* a worker without item; a worker that does not exist

ASSUME MetalAssumption ==
    /\ IsFiniteSet(Workers) /\ Workers # {}
    /\ QueueLimit \in Nat \ {0}
    /\ Budget \in Nat /\ VisionReserve \in Nat
    /\ Capacity \in Nat \ {0}
    /\ PromptTokens \in [Requests -> Nat \ {0}]
    /\ MaxTokens \in [Requests -> Nat \ {0}]
    /\ Multimodal \subseteq Requests
    /\ Free \notin Requests /\ Off \notin Requests /\ Free # Off

VARIABLES
    phase,          \* lifespan of the application
    queue,          \* scheduler.queue, by request
    workers,        \* the item each worker has
    active,         \* scheduler.active
    futures,        \* the future of each request
    calls,          \* where each chat handler is, or what it answered
    granted,        \* maximum_tokens handed to the scheduler
    cache,          \* PromptCacheIndex._entries, least recently used first
    touches         \* history: prompts in the order they were used

vars == <<phase, queue, workers, active, futures, calls, granted, cache, touches>>
caching == <<cache, touches>>

Answers == {"ok", "error", "timeout", "rejected", "queue_full"}

Init ==
    /\ phase = "starting"
    /\ queue = << >>
    /\ workers = [w \in Workers |-> Off]
    /\ active = 0
    /\ futures = [r \in Requests |-> "none"]
    /\ calls = [r \in Requests |-> "new"]
    /\ granted = [r \in Requests |-> 0]
    /\ cache = << >>
    /\ touches = << >>

(***************************************************************************)
(* scheduler.start and scheduler.stop, called by the lifespan.  A worker   *)
(* cancelled inside generate passes through finally, but leaves the future *)
(* of its item pending.                                                    *)
(***************************************************************************)
Start ==
    /\ phase = "starting"
    /\ phase' = "serving"
    /\ workers' = [w \in Workers |-> Free]
    /\ UNCHANGED <<queue, active, futures, calls, granted, caching>>

Stop ==
    /\ phase = "serving"
    /\ phase' = "stopped"
    /\ workers' = [w \in Workers |-> Off]
    /\ active' = 0
    /\ UNCHANGED <<queue, futures, calls, granted, caching>>

-----------------------------------------------------------------------------
(***************************************************************************)
(* MemoryPlanner.decide with active_slots = scheduler.active: the budget   *)
(* is shared out among the requests that are running and this one.         *)
(***************************************************************************)
Slots == active + 1
Available(r) ==
    LET reserve == IF r \in Multimodal THEN VisionReserve ELSE 0
    IN  IF reserve > Budget THEN 0 ELSE Budget - reserve
MaximumContext(r) == Available(r) \div Slots
Requested(r) == PromptTokens[r] + MaxTokens[r]

GrantedUnclamped(r) == Requested(r)     \* mutant: what was asked for is granted

GrantedContext(r) == Min({Requested(r), MaximumContext(r)})

Admitted(r) ==
    /\ Slots <= Cardinality(Workers)
    /\ MaximumContext(r) >= PromptTokens[r]

\* maximum_tokens of the chat handler; at least one token, even when the
\* prompt takes the whole context.
MaximumTokens(r) ==
    LET left == IF GrantedContext(r) > PromptTokens[r]
                  THEN GrantedContext(r) - PromptTokens[r] ELSE 0
    IN  Min({MaxTokens[r], Max({1, left})})

(***************************************************************************)
(* PromptCacheIndex: lookup moves an entry to the recent end, record       *)
(* inserts it there and drops the oldest entries beyond the capacity.      *)
(***************************************************************************)
ToEnd(entries, p) ==
    LET others == IF p \in ToSet(entries)
                  THEN RemoveAt(entries, CHOOSE i \in DOMAIN entries : entries[i] = p)
                  ELSE entries
    IN  Append(others, p)

LookupInPlace(p) ==                     \* mutant: no move_to_end
    IF p \in ToSet(cache)
      THEN cache' = cache /\ touches' = Append(touches, p)
      ELSE UNCHANGED caching

Lookup(p) ==
    IF p \in ToSet(cache)
      THEN cache' = ToEnd(cache, p) /\ touches' = Append(touches, p)
      ELSE UNCHANGED caching

Record(p) ==
    LET entries == ToEnd(cache, p)
        excess == IF Len(entries) > Capacity THEN Len(entries) - Capacity ELSE 0
    IN  /\ cache' = SubSeq(entries, excess + 1, Len(entries))
        /\ touches' = Append(touches, p)

-----------------------------------------------------------------------------
(***************************************************************************)
(* chat, up to its await: the request is rejected, finds the queue full,   *)
(* or is enqueued.                                                         *)
(***************************************************************************)
Reject(r) ==
    /\ phase = "serving"
    /\ calls[r] = "new"
    /\ ~Admitted(r)
    /\ calls' = [calls EXCEPT ![r] = "rejected"]
    /\ UNCHANGED <<phase, queue, workers, active, futures, granted, caching>>

QueueFull(r) ==
    /\ phase = "serving"
    /\ calls[r] = "new"
    /\ Admitted(r)
    /\ Lookup(Prompt[r])
    /\ Len(queue) >= QueueLimit
    /\ calls' = [calls EXCEPT ![r] = "queue_full"]
    /\ UNCHANGED <<phase, queue, workers, active, futures, granted>>

Submit(r) ==
    /\ phase = "serving"
    /\ calls[r] = "new"
    /\ Admitted(r)
    /\ Lookup(Prompt[r])
    /\ Len(queue) < QueueLimit
    /\ queue' = Append(queue, r)
    /\ futures' = [futures EXCEPT ![r] = "pending"]
    /\ granted' = [granted EXCEPT ![r] = MaximumTokens(r)]
    /\ calls' = [calls EXCEPT ![r] = "waiting"]
    /\ UNCHANGED <<phase, workers, active>>

(***************************************************************************)
(* _worker.  An item whose future was cancelled while it waited in the     *)
(* queue is passed over without an await, so active goes up and down in    *)
(* one step.                                                               *)
(***************************************************************************)
TakeBlindly(w) ==                       \* mutant: the future is not looked at
    /\ workers[w] = Free
    /\ queue # << >>
    /\ queue' = Tail(queue)
    /\ workers' = [workers EXCEPT ![w] = Head(queue)]
    /\ active' = active + 1
    /\ UNCHANGED <<phase, futures, calls, granted, caching>>

TakeOrEnd(w) ==                         \* mutant: a cancelled item ends the worker
    /\ workers[w] = Free
    /\ queue # << >>
    /\ queue' = Tail(queue)
    /\ IF futures[Head(queue)] = "cancelled"
         THEN workers' = [workers EXCEPT ![w] = Off] /\ UNCHANGED active
         ELSE /\ workers' = [workers EXCEPT ![w] = Head(queue)]
              /\ active' = active + 1
    /\ UNCHANGED <<phase, futures, calls, granted, caching>>

Take(w) ==
    /\ workers[w] = Free
    /\ queue # << >>
    /\ queue' = Tail(queue)
    /\ IF futures[Head(queue)] = "cancelled"
         THEN UNCHANGED <<workers, active>>
         ELSE /\ workers' = [workers EXCEPT ![w] = Head(queue)]
              /\ active' = active + 1
    /\ UNCHANGED <<phase, futures, calls, granted, caching>>

(***************************************************************************)
(* The backend returns (outcome "result") or raises ("exception").  A      *)
(* future that was cancelled meanwhile keeps its state: set_result raises  *)
(* on it, and the guard of the except clause lets that pass.               *)
(***************************************************************************)

FinishSwallowing(w, outcome) ==         \* mutant: the exception is dropped
    /\ workers[w] \in Requests
    /\ LET r == workers[w]
       IN  futures' = [futures EXCEPT
                        ![r] = IF @ = "pending" /\ outcome = "result" THEN outcome ELSE @]
    /\ workers' = [workers EXCEPT ![w] = Free]
    /\ active' = active - 1
    /\ UNCHANGED <<phase, queue, calls, granted, caching>>

Finish(w, outcome) ==
    /\ workers[w] \in Requests
    /\ LET r == workers[w]
       IN  futures' = [futures EXCEPT
                        ![r] = IF @ = "pending" THEN outcome ELSE @]
    /\ workers' = [workers EXCEPT ![w] = Free]
    /\ active' = active - 1
    /\ UNCHANGED <<phase, queue, calls, granted, caching>>

(***************************************************************************)
(* wait_for: the timer cancels a pending future; when the future is done   *)
(* and the handler not yet resumed, the timer wins and the result is lost. *)
(***************************************************************************)
Timeout(r) ==
    /\ calls[r] = "waiting"
    /\ calls' = [calls EXCEPT ![r] = "timeout"]
    /\ futures' = [futures EXCEPT ![r] = IF @ = "pending" THEN "cancelled" ELSE @]
    /\ UNCHANGED <<phase, queue, workers, active, granted, caching>>

\* The handler resumes with the outcome; only a success is recorded.
Respond(r) ==
    /\ calls[r] = "waiting"
    /\ \/ /\ futures[r] = "result"
          /\ calls' = [calls EXCEPT ![r] = "ok"]
          /\ Record(Prompt[r])
       \/ /\ futures[r] = "exception"
          /\ calls' = [calls EXCEPT ![r] = "error"]
          /\ UNCHANGED caching
    /\ UNCHANGED <<phase, queue, workers, active, futures, granted>>

-----------------------------------------------------------------------------
Outcomes == {"result", "exception"}
Work(w) == Take(w) \/ \E outcome \in Outcomes : Finish(w, outcome)

Next ==
    \/ Start
    \/ Stop
    \/ \E r \in Requests :
          Reject(r) \/ QueueFull(r) \/ Submit(r) \/ Timeout(r) \/ Respond(r)
    \/ \E w \in Workers : Work(w)

Spec == Init /\ [][Next]_vars

(***************************************************************************)
(* The loop runs what is ready: a free worker takes what is queued, and a  *)
(* handler whose future is done resumes.  Nothing is assumed of the        *)
(* backend, of callers or of the deadline.                                 *)
(***************************************************************************)
FairSpec ==
    /\ Spec
    /\ \A w \in Workers : WF_vars(Take(w))
    /\ \A r \in Requests : WF_vars(Respond(r))

-----------------------------------------------------------------------------
\* Requests that are being generated, by a worker the application counts on.
Running == {r \in Requests : \E w \in Workers : workers[w] = r}
Context(r) == PromptTokens[r] + granted[r]

(***************************************************************************)
(* Types, the queue limit, the cache capacity included (scheduler.py       *)
(* __init__ and submit, cache.py record).                                  *)
(***************************************************************************)
TypeOK ==
    /\ phase \in {"starting", "serving", "stopped"}
    /\ queue \in Seq(Requests) /\ Len(queue) <= QueueLimit
    /\ workers \in [Workers -> Requests \cup {Free, Off}]
    /\ active \in Nat
    /\ futures \in [Requests -> {"none", "pending", "cancelled"} \cup Outcomes]
    /\ calls \in [Requests -> {"new", "waiting"} \cup Answers]
    /\ granted \in [Requests -> Nat]
    /\ Len(cache) <= Capacity

(***************************************************************************)
(* Whatever times out, fails or is stopped, work is accounted for (submit, *)
(* _worker, stop): scheduler.active, on which every admission decides, is  *)
(* the number of workers inside the backend; no worker is lost while the   *)
(* application serves; and a request is in one place, queued once or with  *)
(* one worker, where the item of every pending future is found.            *)
(***************************************************************************)
WorkIsAccounted ==
    /\ active = Cardinality({w \in Workers : workers[w] \in Requests})
    /\ phase = "serving" => \A w \in Workers : workers[w] # Off
    /\ \A r \in Requests :
          LET copies == Cardinality({i \in DOMAIN queue : queue[i] = r})
                        + Cardinality({w \in Workers : workers[w] = r})
          IN  /\ copies <= 1
              /\ futures[r] = "pending" /\ phase = "serving" => copies = 1

(***************************************************************************)
(* The cache index holds the prompts used most recently, in that order:    *)
(* the last Capacity distinct ones of all uses (cache.py lookup, record).  *)
(***************************************************************************)
LastUses == {i \in DOMAIN touches :
                \A j \in (i + 1)..Len(touches) : touches[j] # touches[i]}
CacheIsRecent ==
    LET recent == {i \in LastUses :
                      Cardinality({j \in LastUses : j >= i}) <= Capacity}
    IN  cache = [n \in 1..Cardinality(recent) |->
                    touches[CHOOSE i \in recent :
                                Cardinality({j \in recent : j <= i}) = n]]

(***************************************************************************)
(* No worker starts the backend for a request whose caller has been told   *)
(* about the timeout (_worker, the test of result.cancelled()).            *)
(***************************************************************************)
NoWorkForAbandoned ==
    [][\A r \in Requests :
          r \in Running' /\ r \notin Running => calls[r] = "waiting"]_vars

(***************************************************************************)
(* Until the application stops, the workers serve the queue without help   *)
(* from the deadlines (_worker, submit).  As long as the backend returns,  *)
(* sooner or later, what one of the workers asks of it, no request stays   *)
(* queued, although every other worker may hang in it; and if it returns   *)
(* to all of them, well or badly, every caller is answered.                *)
(***************************************************************************)
Returning(w) == []<>(workers[w] \notin Requests)

QueueIsServed ==
    /\ (\E w \in Workers : Returning(w)) =>
          \A r \in Requests :
              r \in ToSet(queue) ~> r \notin ToSet(queue) \/ phase = "stopped"
    /\ (\A w \in Workers : Returning(w)) =>
          \A r \in Requests :
              calls[r] = "waiting" ~> calls[r] \in Answers \/ phase = "stopped"

(***************************************************************************)
(* A request that runs alone fits the cache budget, whatever else ran when *)
(* it was admitted, except for the one token that is granted to a prompt   *)
(* as long as the whole context (planner.py decide, api.py chat).          *)
(***************************************************************************)
AloneFitsBudget ==
    \A r \in Requests : Running = {r} => Context(r) <= Budget \/ granted[r] = 1
=============================================================================
