------------------------------ MODULE Incident ------------------------------
(***************************************************************************)
(* The AIOps incident workflow (platforms/aiops/workflow.py) behind its    *)
(* API (platforms/aiops/api.py).  Incidents live in the memory of one      *)
(* process; FastAPI runs the handlers in a thread pool and nothing locks   *)
(* an incident, so the statements of two handlers interleave: the check of *)
(* the state, the assignment of a field, and in _move the building of the  *)
(* audit entry, its append and the assignment of the state.                *)
(*                                                                         *)
(* Remediations are told apart by who wrote them; the rationale and the    *)
(* action that the audit quotes stand for the remediation.                 *)
(***************************************************************************)
EXTENDS Naturals, Sequences

CONSTANTS
    Actors,         \* names a request gives as actor
    Nobody,         \* Python's None
    Handlers,       \* threads that serve requests
    MaxAudit        \* bound: an incident with this many entries takes no more requests

ASSUME IncidentAssumption == Nobody \notin Actors /\ MaxAudit \in Nat

VARIABLES
    created,        \* whether the incident has been created
    related,        \* whether its signals all name its service
    state, recommendation, approved_by, audit,     \* the Incident's attributes
    handlers,       \* what each handler thread is doing
    overlapped      \* history: whether two requests were ever in progress at once

vars == <<created, related, state, recommendation, approved_by, audit, handlers,
          overlapped>>
incident == <<created, related, state, recommendation, approved_by, audit>>

IncidentStates == {"detected", "correlated", "investigating", "recommended",
                   "approved", "executing", "verifying", "resolved", "escalated"}

(***************************************************************************)
(* What each operation requires of the state, and the moves it makes.      *)
(***************************************************************************)
Required == [correlate |-> "detected", investigate |-> "correlated",
             recommend |-> "investigating", approve |-> "recommended",
             execute |-> "approved", verify |-> "executing"]

Operations == DOMAIN Required

Targets(op, healthy) ==
    CASE op = "correlate"   -> <<"correlated">>
      [] op = "investigate" -> <<"investigating">>
      [] op = "recommend"   -> <<"recommended">>
      [] op = "approve"     -> <<"approved">>
      [] op = "execute"     -> <<"executing">>
      [] op = "verify"      -> <<"verifying",
                                 IF healthy THEN "resolved" ELSE "escalated">>

Entries == [from : IncidentStates, to : IncidentStates, actor : Actors,
            reason : Actors \cup {Nobody}]

Idle == [pc |-> "idle"]
Running == [pc : {"scan", "set", "log"}, op : Operations, actor : Actors,
            moves : Seq(IncidentStates)]
Logging == [pc : {"append", "assign"}, op : Operations, actor : Actors,
            moves : Seq(IncidentStates), entry : Entries]

TypeOK ==
    /\ created \in BOOLEAN /\ related \in BOOLEAN
    /\ state \in IncidentStates
    /\ recommendation \in Actors \cup {Nobody}
    /\ approved_by \in Actors \cup {Nobody}
    /\ audit \in Seq(Entries)
    /\ handlers \in [Handlers -> Running \cup Logging \cup {Idle}]
    /\ overlapped \in BOOLEAN

Init ==
    /\ created = FALSE /\ related \in BOOLEAN
    /\ state = "detected"
    /\ recommendation = Nobody
    /\ approved_by = Nobody
    /\ audit = << >>
    /\ handlers = [h \in Handlers |-> Idle]
    /\ overlapped = FALSE

CreateIncident ==
    /\ ~created
    /\ created' = TRUE
    /\ UNCHANGED <<related, state, recommendation, approved_by, audit, handlers,
                   overlapped>>

-----------------------------------------------------------------------------
(***************************************************************************)
(* The checks at the head of an operation.  A refused request (404, 409)   *)
(* changes nothing and is not a step.                                      *)
(***************************************************************************)
AdmitsUnchecked(op, valid) ==          \* mutant: execute does not look at the state
    /\ op # "execute" => state = Required[op]
    /\ op = "correlate" => related
    /\ op = "recommend" => valid
    /\ op = "execute" => recommendation # Nobody

Admits(op, valid) ==
    /\ state = Required[op]
    /\ op = "correlate" => related
    /\ op = "recommend" => valid
    /\ op = "execute" => recommendation # Nobody

Begin(h, op, actor, healthy, valid) ==
    /\ handlers[h] = Idle
    /\ created
    /\ Len(audit) < MaxAudit
    /\ Admits(op, valid)
    /\ handlers' = [handlers EXCEPT ![h] =
           [pc |-> CASE op = "approve" -> "scan"
                     [] op = "recommend" -> "set"
                     [] OTHER -> "log",
            op |-> op, actor |-> actor, moves |-> Targets(op, healthy)]]
    /\ overlapped' = (overlapped \/ \E g \in Handlers : handlers[g] # Idle)
    /\ UNCHANGED incident

(***************************************************************************)
(* approve looks for the approver among the authors of recommendations.    *)
(***************************************************************************)
IsAuthorFrom(actor) ==                 \* mutant: the wrong end of the move
    \E n \in 1..Len(audit) :
        audit[n].actor = actor /\ audit[n].from = "recommended"

IsAuthor(actor) ==
    \E n \in 1..Len(audit) :
        audit[n].actor = actor /\ audit[n].to = "recommended"

Scan(h) ==
    /\ handlers[h].pc = "scan"
    /\ handlers' = [handlers EXCEPT ![h] =
           IF IsAuthor(handlers[h].actor) THEN Idle ELSE [@ EXCEPT !.pc = "set"]]
    /\ UNCHANGED <<incident, overlapped>>

SetField(h) ==
    /\ handlers[h].pc = "set"
    /\ \/ /\ handlers[h].op = "recommend"
          /\ recommendation' = handlers[h].actor
          /\ UNCHANGED approved_by
       \/ /\ handlers[h].op = "approve"
          /\ approved_by' = handlers[h].actor
          /\ UNCHANGED recommendation
    /\ handlers' = [handlers EXCEPT ![h] = [@ EXCEPT !.pc = "log"]]
    /\ UNCHANGED <<overlapped, created, related, state, audit>>

-----------------------------------------------------------------------------
(***************************************************************************)
(* _move: build the entry, append it, assign the state.  verify moves      *)
(* twice.                                                                  *)
(***************************************************************************)
Reason(h) == CASE handlers[h].op = "recommend" -> handlers[h].actor
               [] handlers[h].op = "execute" -> recommendation
               [] OTHER -> Nobody

Log(h) ==
    /\ handlers[h].pc = "log"
    /\ handlers' = [handlers EXCEPT ![h] =
           [pc |-> "append", op |-> handlers[h].op, actor |-> handlers[h].actor,
            moves |-> handlers[h].moves,
            entry |-> [from |-> state, to |-> Head(handlers[h].moves),
                       actor |-> handlers[h].actor, reason |-> Reason(h)]]]
    /\ UNCHANGED <<incident, overlapped>>

AppendEntry(h) ==
    /\ handlers[h].pc = "append"
    /\ audit' = Append(audit, handlers[h].entry)
    /\ handlers' = [handlers EXCEPT ![h] = [@ EXCEPT !.pc = "assign"]]
    /\ UNCHANGED <<overlapped, created, related, state, recommendation, approved_by>>

AssignState(h) ==
    /\ handlers[h].pc = "assign"
    /\ state' = handlers[h].entry.to
    /\ LET rest == Tail(handlers[h].moves) IN
       handlers' = [handlers EXCEPT ![h] =
           IF rest = << >> THEN Idle
           ELSE [pc |-> "log", op |-> handlers[h].op, actor |-> handlers[h].actor,
                 moves |-> rest]]
    /\ UNCHANGED <<overlapped, created, related, recommendation, approved_by, audit>>

Step(h) == Scan(h) \/ SetField(h) \/ Log(h) \/ AppendEntry(h) \/ AssignState(h)

Next ==
    \/ CreateIncident
    \/ \E h \in Handlers :
          \/ Step(h)
          \/ \E op \in Operations, actor \in Actors, healthy, valid \in BOOLEAN :
                Begin(h, op, actor, healthy, valid)

Spec == Init /\ [][Next]_vars

-----------------------------------------------------------------------------
(***************************************************************************)
(* However the handlers interleave, nothing in the audit lacks its         *)
(* prerequisite: no execution without an earlier approval, no approval     *)
(* without an earlier recommendation, no resolution without verification,  *)
(* all the way back to the correlation.                                    *)
(***************************************************************************)
Predecessor == [correlated |-> "detected", investigating |-> "correlated",
                recommended |-> "investigating", approved |-> "recommended",
                executing |-> "approved", verifying |-> "executing",
                resolved |-> "verifying", escalated |-> "verifying"]

Earned(s, n) == s = "detected" \/ \E m \in 1..n : audit[m].to = s

PrerequisitesAudited ==
    /\ \A n \in 1..Len(audit) : Earned(Predecessor[audit[n].to], n - 1)
    /\ Earned(state, Len(audit))

(***************************************************************************)
(* docs/PLATFORM_EXTENSIONS.md: "Recommendation authors cannot approve     *)
(* their own actions."  The remediation that is executed was not written   *)
(* by anybody who approved before.                                         *)
(***************************************************************************)
NoSelfApproval ==
    \A n \in 1..Len(audit) : audit[n].to = "executing" =>
        \A m \in 1..n : audit[m].to = "approved" =>
            audit[m].actor # audit[n].reason

(***************************************************************************)
(* Served one at a time, requests leave a sound incident: the audit is its *)
(* path (entries chain, the last one leads to the state), nobody approved  *)
(* their own remediation, and it was executed at most once.                *)
(***************************************************************************)
AuditIsPath ==
    (\A h \in Handlers : handlers[h].pc \in {"idle", "scan", "set", "log"}) =>
    /\ \A n \in 1..Len(audit) :
          audit[n].from = IF n = 1 THEN "detected" ELSE audit[n - 1].to
    /\ state = IF audit = << >> THEN "detected" ELSE audit[Len(audit)].to

ExecutedOnce ==
    \A m, n \in 1..Len(audit) :
        audit[m].to = "executing" /\ audit[n].to = "executing" => m = n

SoundWhenSerial == ~overlapped => AuditIsPath /\ NoSelfApproval /\ ExecutedOnce
=============================================================================
