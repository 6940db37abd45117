--------------------------- MODULE ServingProofs ---------------------------
(***************************************************************************)
(* Proofs about the services that keep their state in the memory of one    *)
(* process: the incident workflow, corrective retrieval, the agent         *)
(* runtime, the decision engine and the banking service, each for any      *)
(* number of threads and any sizes.                                        *)
(***************************************************************************)
EXTENDS Incident, DecisionOps, Banking, CorrectiveRAG, AgentRuntime,
        FiniteSetTheorems, TLAPS

-----------------------------------------------------------------------------
(***************************************************************************)
(* The incident workflow.  A handler checks the state once and then works  *)
(* on its own, so its moves are justified by what the audit held then; the *)
(* audit only grows, so they stay justified.  Justified says so of every   *)
(* handler, from the check to the assignment of the state.                 *)
(***************************************************************************)
MoveLists ==
    {<<"correlated">>, <<"investigating">>, <<"recommended">>, <<"approved">>,
     <<"executing">>, <<"verifying", "resolved">>, <<"verifying", "escalated">>,
     <<"resolved">>, <<"escalated">>}

EarnedBy(log, s) == s = "detected" \/ \E m \in 1..Len(log) : log[m].to = s

Justified(handler, log) ==
    handler # Idle =>
        /\ handler.moves \in MoveLists
        /\ EarnedBy(log, Predecessor[handler.moves[1]])
        /\ handler.pc \in {"append", "assign"} => handler.entry.to = handler.moves[1]
        /\ handler.pc = "assign" => EarnedBy(log, handler.moves[1])

IncidentInv ==
    /\ TypeOK
    /\ PrerequisitesAudited
    /\ \A h \in Handlers : Justified(handlers[h], audit)

LEMMA MoveListFacts ==
    ASSUME NEW moves \in MoveLists
    PROVE  /\ moves \in Seq(IncidentStates) /\ moves # << >>
           /\ moves[1] \in DOMAIN Predecessor /\ Head(moves) = moves[1]
           /\ Predecessor[moves[1]] \in IncidentStates
           /\ Tail(moves) # << >> =>
                 /\ Tail(moves) \in MoveLists
                 /\ Predecessor[Tail(moves)[1]] = moves[1] /\ moves[1] = "verifying"
                 /\ Tail(moves)[1] \in {"resolved", "escalated"}
<1>1. CASE \E s \in DOMAIN Predecessor : moves = <<s>>
  <2>1. PICK s \in DOMAIN Predecessor : moves = <<s>>
    BY <1>1
  <2>2. s \in IncidentStates /\ Predecessor[s] \in IncidentStates
    BY DEF Predecessor, IncidentStates
  <2>3. moves \in Seq(IncidentStates) /\ moves # << >> /\ moves[1] = s
        /\ Head(moves) = s /\ Tail(moves) = << >>
    BY <2>1, <2>2
  <2> QED BY <2>2, <2>3
<1>2. CASE \E s \in {"resolved", "escalated"} : moves = <<"verifying", s>>
  <2>1. PICK s \in {"resolved", "escalated"} : moves = <<"verifying", s>>
    BY <1>2
  <2>2. /\ "verifying" \in DOMAIN Predecessor /\ Predecessor["verifying"] \in IncidentStates
        /\ Predecessor[s] = "verifying" /\ {"verifying", s} \subseteq IncidentStates
    BY DEF Predecessor, IncidentStates
  <2>3. moves \in Seq(IncidentStates) /\ moves # << >> /\ moves[1] = "verifying"
        /\ Head(moves) = "verifying" /\ Tail(moves) = <<s>>
    BY <2>1, <2>2
  <2>4. <<s>> \in MoveLists /\ <<s>>[1] = s
    BY DEF MoveLists
  <2> QED BY <2>2, <2>3, <2>4
<1>3. DOMAIN Predecessor = {"correlated", "investigating", "recommended", "approved",
                            "executing", "verifying", "resolved", "escalated"}
  BY DEF Predecessor
<1> QED BY <1>1, <1>2, <1>3 DEF MoveLists

(***************************************************************************)
(* What an operation requires is the predecessor of its first move.        *)
(***************************************************************************)
LEMMA TargetsFollowRequired ==
    ASSUME NEW op \in Operations, NEW healthy \in BOOLEAN
    PROVE  /\ Targets(op, healthy) \in MoveLists
           /\ Predecessor[Targets(op, healthy)[1]] = Required[op]
<1>1. op \in {"correlate", "investigate", "recommend", "approve", "execute", "verify"}
  BY DEF Operations, Required
<1>2. CASE op = "correlate"
  BY <1>2 DEF Targets, MoveLists, Predecessor, Required
<1>3. CASE op = "investigate"
  BY <1>3 DEF Targets, MoveLists, Predecessor, Required
<1>4. CASE op = "recommend"
  BY <1>4 DEF Targets, MoveLists, Predecessor, Required
<1>5. CASE op = "approve"
  BY <1>5 DEF Targets, MoveLists, Predecessor, Required
<1>6. CASE op = "execute"
  BY <1>6 DEF Targets, MoveLists, Predecessor, Required
<1>7. CASE op = "verify"
  BY <1>7 DEF Targets, MoveLists, Predecessor, Required
<1> QED BY <1>1, <1>2, <1>3, <1>4, <1>5, <1>6, <1>7

LEMMA IncidentInitGood == Init => IncidentInv
<1> SUFFICES ASSUME Init PROVE IncidentInv
  OBVIOUS
<1>1. TypeOK
  <2>1. created \in BOOLEAN /\ related \in BOOLEAN /\ overlapped \in BOOLEAN
    BY Zenon DEF Init
  <2>2. /\ state \in IncidentStates /\ recommendation \in Actors \cup {Nobody}
        /\ approved_by \in Actors \cup {Nobody} /\ audit \in Seq(Entries)
        /\ handlers \in [Handlers -> Running \cup Logging \cup {Idle}]
    BY DEF Init, IncidentStates
  <2> QED BY <2>1, <2>2 DEF TypeOK
<1>2. PrerequisitesAudited
  BY DEF Init, PrerequisitesAudited, Earned
<1>3. \A h \in Handlers : Justified(handlers[h], audit)
  BY DEF Init, Justified
<1> QED BY <1>1, <1>2, <1>3 DEF IncidentInv

(***************************************************************************)
(* A handler's step that does not touch the audit.                         *)
(***************************************************************************)
LEMMA HandlerKept ==
    ASSUME IncidentInv, NEW h \in Handlers, NEW new \in Running \cup Logging \cup {Idle},
           handlers' = [handlers EXCEPT ![h] = new], audit' = audit,
           created' \in BOOLEAN, related' \in BOOLEAN, overlapped' \in BOOLEAN,
           state' \in IncidentStates, EarnedBy(audit, state'),
           recommendation' \in Actors \cup {Nobody}, approved_by' \in Actors \cup {Nobody},
           Justified(new, audit)
    PROVE  IncidentInv'
<1>1. TypeOK'
  BY DEF IncidentInv, TypeOK
<1>2. PrerequisitesAudited'
  BY DEF IncidentInv, PrerequisitesAudited, Earned, EarnedBy
<1>3. (\A g \in Handlers : Justified(handlers[g], audit))'
  BY DEF IncidentInv, TypeOK
<1> QED BY <1>1, <1>2, <1>3 DEF IncidentInv

LEMMA Unhurried ==
    ASSUME IncidentInv
    PROVE  /\ created \in BOOLEAN /\ related \in BOOLEAN /\ overlapped \in BOOLEAN
           /\ state \in IncidentStates /\ EarnedBy(audit, state) /\ audit \in Seq(Entries)
           /\ recommendation \in Actors \cup {Nobody} /\ approved_by \in Actors \cup {Nobody}
           /\ handlers \in [Handlers -> Running \cup Logging \cup {Idle}]
BY DEF IncidentInv, TypeOK, PrerequisitesAudited, Earned, EarnedBy

LEMMA BeginGood ==
    ASSUME IncidentInv, NEW h \in Handlers, NEW op \in Operations, NEW actor \in Actors,
           NEW healthy \in BOOLEAN, NEW valid \in BOOLEAN,
           Begin(h, op, actor, healthy, valid)
    PROVE  IncidentInv'
<1> DEFINE pc == CASE op = "approve" -> "scan" [] op = "recommend" -> "set"
                   [] OTHER -> "log"
           moves == Targets(op, healthy)
           new == [pc |-> pc, op |-> op, actor |-> actor, moves |-> moves]
<1>1. pc \in {"scan", "set", "log"}
  OBVIOUS
<1>2. handlers' = [handlers EXCEPT ![h] = new] /\ state = Required[op]
  BY DEF Begin, Admits
<1>3. moves \in MoveLists /\ Predecessor[moves[1]] = state
  BY <1>2, TargetsFollowRequired
<1> HIDE DEF pc, moves
<1>4. new \in Running /\ new.pc = pc /\ new.moves = moves
  BY <1>1, <1>3, MoveListFacts DEF Running
<1> HIDE DEF new
<1>5. Justified(new, audit)
  BY <1>1, <1>3, <1>4, Unhurried DEF Justified
<1>6. UNCHANGED incident /\ overlapped' \in BOOLEAN
  BY Zenon DEF Begin
<1> QED BY <1>2, <1>4, <1>5, <1>6, Unhurried, HandlerKept DEF incident

(***************************************************************************)
(* What a busy handler holds.                                              *)
(***************************************************************************)
LEMMA Busy ==
    ASSUME IncidentInv, NEW h \in Handlers, handlers[h] # Idle
    PROVE  /\ handlers[h] \in Running \cup Logging
           /\ handlers[h].pc \in {"scan", "set", "log"} => handlers[h] \in Running
           /\ handlers[h].pc \in {"append", "assign"} => handlers[h] \in Logging
           /\ handlers[h].actor \in Actors /\ handlers[h].op \in Operations
           /\ handlers[h].moves \in MoveLists
           /\ EarnedBy(audit, Predecessor[handlers[h].moves[1]])
           /\ handlers[h].pc \in {"append", "assign"} =>
                 handlers[h].entry.to = handlers[h].moves[1] /\ handlers[h].entry \in Entries
           /\ handlers[h].pc = "assign" => EarnedBy(audit, handlers[h].moves[1])
<1>1. handlers[h] \in Running \cup Logging /\ Justified(handlers[h], audit)
  BY Unhurried DEF IncidentInv
<1>2. handlers[h].pc \in {"append", "assign"} => handlers[h] \in Logging
  BY <1>1 DEF Running
<1> QED BY <1>1, <1>2 DEF Running, Logging, Justified

LEMMA NotIdle ==
    ASSUME NEW h \in Handlers,
           handlers[h].pc \in {"scan", "set", "log", "append", "assign"}
    PROVE  handlers[h] # Idle
BY DEF Idle

LEMMA ScanGood ==
    ASSUME IncidentInv, NEW h \in Handlers, Scan(h)
    PROVE  IncidentInv'
<1>1. handlers[h].pc = "scan" /\ handlers[h] # Idle
  BY NotIdle DEF Scan
<1> DEFINE new == IF IsAuthor(handlers[h].actor) THEN Idle
                  ELSE [handlers[h] EXCEPT !.pc = "set"]
<1>2. handlers[h] \in Running
  BY <1>1, Busy
<1>3. [handlers[h] EXCEPT !.pc = "set"] \in Running
      /\ [handlers[h] EXCEPT !.pc = "set"].pc = "set"
      /\ [handlers[h] EXCEPT !.pc = "set"].moves = handlers[h].moves
  BY <1>2 DEF Running
<1>4. new \in Running \cup Logging \cup {Idle} /\ Justified(new, audit)
  BY <1>1, <1>3, Busy DEF Justified
<1>5. handlers' = [handlers EXCEPT ![h] = new] /\ UNCHANGED <<incident, overlapped>>
  BY DEF Scan
<1> HIDE DEF new
<1> QED BY <1>4, <1>5, Unhurried, HandlerKept DEF incident

LEMMA SetFieldGood ==
    ASSUME IncidentInv, NEW h \in Handlers, SetField(h)
    PROVE  IncidentInv'
<1>1. handlers[h].pc = "set" /\ handlers[h] # Idle
  BY NotIdle DEF SetField
<1> DEFINE new == [handlers[h] EXCEPT !.pc = "log"]
<1>2. handlers[h] \in Running /\ handlers[h].actor \in Actors
  BY <1>1, Busy
<1>3. new \in Running /\ new.pc = "log" /\ new.moves = handlers[h].moves
  BY <1>2 DEF Running
<1>4. handlers' = [handlers EXCEPT ![h] = new]
  BY DEF SetField
<1> HIDE DEF new
<1>5. Justified(new, audit)
  BY <1>1, <1>3, Busy DEF Justified
<1>6. /\ recommendation' \in Actors \cup {Nobody} /\ approved_by' \in Actors \cup {Nobody}
      /\ UNCHANGED <<overlapped, created, related, state, audit>>
  BY <1>2, Unhurried DEF SetField
<1> QED BY <1>3, <1>4, <1>5, <1>6, Unhurried, HandlerKept

LEMMA LogGood ==
    ASSUME IncidentInv, NEW h \in Handlers, Log(h)
    PROVE  IncidentInv'
<1>1. handlers[h].pc = "log" /\ handlers[h] # Idle
  BY NotIdle DEF Log
<1> DEFINE moves == handlers[h].moves
           entry == [from |-> state, to |-> Head(moves), actor |-> handlers[h].actor,
                     reason |-> Reason(h)]
           new == [pc |-> "append", op |-> handlers[h].op, actor |-> handlers[h].actor,
                   moves |-> moves, entry |-> entry]
<1>2. /\ handlers[h] \in Running /\ handlers[h].actor \in Actors
      /\ handlers[h].op \in Operations /\ moves \in MoveLists
      /\ EarnedBy(audit, Predecessor[moves[1]])
  BY <1>1, Busy
<1>3. Reason(h) \in Actors \cup {Nobody}
  BY <1>2, Unhurried DEF Reason
<1>4. /\ moves \in Seq(IncidentStates) /\ Head(moves) = moves[1]
      /\ moves[1] \in IncidentStates
  BY <1>2, MoveListFacts
<1>5. handlers' = [handlers EXCEPT ![h] = new] /\ UNCHANGED <<incident, overlapped>>
  BY DEF Log
<1> HIDE DEF moves
<1>6. entry \in Entries /\ entry.to = moves[1]
  BY <1>2, <1>3, <1>4, Unhurried DEF Entries
<1> HIDE DEF entry
<1>7. /\ new \in Logging /\ new.pc = "append" /\ new.moves = moves /\ new.entry = entry
  BY <1>2, <1>4, <1>6 DEF Logging
<1> HIDE DEF new
<1>8. Justified(new, audit)
  BY <1>2, <1>6, <1>7 DEF Justified
<1> QED BY <1>5, <1>7, <1>8, Unhurried, HandlerKept DEF incident

LEMMA AppendEntryGood ==
    ASSUME IncidentInv, NEW h \in Handlers, AppendEntry(h)
    PROVE  IncidentInv'
<1>1. handlers[h].pc = "append" /\ handlers[h] # Idle
  BY NotIdle DEF AppendEntry
<1> DEFINE new == [handlers[h] EXCEPT !.pc = "assign"]
           entry == handlers[h].entry
           n == Len(audit)
<1>2. /\ handlers[h] \in Logging /\ handlers[h].moves \in MoveLists /\ entry \in Entries
      /\ entry.to = handlers[h].moves[1]
      /\ EarnedBy(audit, Predecessor[handlers[h].moves[1]])
  BY <1>1, Busy
<1>3. /\ new \in Logging /\ new.pc = "assign" /\ new.moves = handlers[h].moves
      /\ new.entry = entry
  BY <1>2 DEF Logging
<1>4. /\ handlers' = [handlers EXCEPT ![h] = new] /\ audit' = Append(audit, entry)
      /\ UNCHANGED <<overlapped, created, related, state, recommendation, approved_by>>
  BY DEF AppendEntry
<1> HIDE DEF new, entry
<1>5. /\ audit \in Seq(Entries) /\ n \in Nat /\ Len(audit') = n + 1
      /\ audit' \in Seq(Entries)
      /\ audit'[n + 1] = entry /\ \A m \in 1..n : audit'[m] = audit[m]
  BY <1>2, <1>4, Unhurried
<1> HIDE DEF n
<1>6. ASSUME NEW s, EarnedBy(audit, s) PROVE EarnedBy(audit', s)
  BY <1>5, <1>6 DEF EarnedBy, n
<1>7. TypeOK'
  BY <1>3, <1>4, <1>5, Unhurried DEF TypeOK
<1>8. PrerequisitesAudited'
  <2>1. ASSUME NEW m \in 1..(n + 1)
        PROVE  LET p == Predecessor[audit'[m].to] IN
               p = "detected" \/ \E k \in 1..(m - 1) : audit'[k].to = p
    <3>1. CASE m = n + 1
      BY <3>1, <1>2, <1>5 DEF EarnedBy, n
    <3>2. CASE m \in 1..n
      BY <3>2, <1>5 DEF IncidentInv, PrerequisitesAudited, Earned, n
    <3> QED BY <3>1, <3>2, <1>5
  <2>2. EarnedBy(audit', state')
    BY <1>4, <1>6, Unhurried
  <2> QED BY <2>1, <2>2, <1>5 DEF PrerequisitesAudited, Earned, EarnedBy
<1>9. ASSUME NEW g \in Handlers PROVE Justified(handlers'[g], audit')
  <2>1. CASE g = h
    <3>1. handlers'[g] = new
      BY <1>4, <2>1, Unhurried
    <3>2. EarnedBy(audit', new.moves[1])
      BY <1>2, <1>3, <1>5 DEF EarnedBy
    <3> QED BY <3>1, <3>2, <1>2, <1>3, <1>6 DEF Justified
  <2>2. CASE g # h
    <3>1. handlers'[g] = handlers[g] /\ Justified(handlers[g], audit)
      BY <1>4, <2>2, Unhurried DEF IncidentInv
    <3> QED BY <3>1, <1>6 DEF Justified
  <2> QED BY <2>1, <2>2
<1> QED BY <1>7, <1>8, <1>9 DEF IncidentInv

LEMMA AssignStateGood ==
    ASSUME IncidentInv, NEW h \in Handlers, AssignState(h)
    PROVE  IncidentInv'
<1>1. handlers[h].pc = "assign" /\ handlers[h] # Idle
  BY NotIdle DEF AssignState
<1> DEFINE moves == handlers[h].moves
           rest == Tail(moves)
           next == [pc |-> "log", op |-> handlers[h].op, actor |-> handlers[h].actor,
                    moves |-> rest]
           new == IF rest = << >> THEN Idle ELSE next
<1>2. /\ handlers[h].actor \in Actors /\ handlers[h].op \in Operations
      /\ moves \in MoveLists /\ handlers[h].entry.to = moves[1]
      /\ handlers[h].entry \in Entries /\ EarnedBy(audit, moves[1])
  BY <1>1, Busy
<1>3. /\ handlers' = [handlers EXCEPT ![h] = new] /\ state' = handlers[h].entry.to
      /\ UNCHANGED <<overlapped, created, related, recommendation, approved_by, audit>>
  BY DEF AssignState
<1>4. state' \in IncidentStates /\ EarnedBy(audit, state')
  BY <1>2, <1>3 DEF Entries
<1>5. rest # << >> => /\ rest \in MoveLists /\ rest \in Seq(IncidentStates)
                      /\ EarnedBy(audit, Predecessor[rest[1]])
  BY <1>2, MoveListFacts
<1> HIDE DEF rest
<1>6. rest # << >> => next \in Running /\ next.pc = "log" /\ next.moves = rest
  BY <1>2, <1>5 DEF Running
<1> HIDE DEF next
<1>7. new \in Running \cup Logging \cup {Idle} /\ Justified(new, audit)
  BY <1>5, <1>6 DEF Justified
<1> HIDE DEF new
<1> QED BY <1>3, <1>4, <1>7, Unhurried, HandlerKept

LEMMA IncidentNextGood == IncidentInv /\ [Next]_vars => IncidentInv'
<1> SUFFICES ASSUME IncidentInv, [Next]_vars PROVE IncidentInv'
  OBVIOUS
<1>1. CASE UNCHANGED vars
  BY <1>1 DEF vars, IncidentInv, TypeOK, PrerequisitesAudited, Earned
<1>2. CASE CreateIncident
  BY <1>2 DEF CreateIncident, IncidentInv, TypeOK, PrerequisitesAudited, Earned
<1>3. ASSUME NEW h \in Handlers, Step(h) PROVE IncidentInv'
  BY <1>3, ScanGood, SetFieldGood, LogGood, AppendEntryGood, AssignStateGood DEF Step
<1> QED BY <1>1, <1>2, <1>3, BeginGood DEF Next

(***************************************************************************)
(* The workflow keeps its inductive invariant; its types follow.           *)
(***************************************************************************)
THEOREM IncidentInvariant == Spec => []IncidentInv
BY IncidentInitGood, IncidentNextGood, PTL DEF Spec

(***************************************************************************)
(* However the statements of any number of handlers interleave, no audit   *)
(* entry lacks its prerequisite: nothing is executed without an approval,  *)
(* approved without a recommendation or resolved without a verification.   *)
(***************************************************************************)
THEOREM AuditIsJustified == Spec => []PrerequisitesAudited
<1>1. IncidentInv => PrerequisitesAudited
  BY DEF IncidentInv
<1> QED BY <1>1, IncidentInvariant, PTL

-----------------------------------------------------------------------------
(***************************************************************************)
(* Served one at a time.  Every state of the workflow has its stage, and   *)
(* the n-th audit entry leads to stage n: that makes the audit a path on   *)
(* which nothing happens twice.  The third entry is the recommendation,    *)
(* the fourth the approval, the fifth the execution.                       *)
(***************************************************************************)
Stage == [detected |-> 0, correlated |-> 1, investigating |-> 2, recommended |-> 3,
          approved |-> 4, executing |-> 5, verifying |-> 6, resolved |-> 7,
          escalated |-> 7]

Reached(log) == IF log = << >> THEN "detected" ELSE log[Len(log)].to

Staged(log) == \A n \in 1..Len(log) : Stage[log[n].to] = n /\ Stage[log[n].from] = n - 1

TwoPeople(log, author) ==
    /\ Len(log) >= 3 => log[3].actor = author
    /\ Len(log) >= 4 => log[4].actor # log[3].actor
    /\ Len(log) >= 5 => log[5].reason = log[3].actor

Disciplined(handler, log, s, author) ==
    handler # Idle =>
        /\ handler.op = "recommend" <=> handler.moves[1] = "recommended"
        /\ handler.op = "approve" <=> handler.moves[1] = "approved"
        /\ handler.op = "execute" <=> handler.moves[1] = "executing"
        /\ handler.pc # "assign" => Stage[handler.moves[1]] = Len(log) + 1
        /\ handler.pc = "assign" => log # << >> /\ handler.entry.to = Reached(log)
        /\ handler.op = "recommend" /\ handler.pc \in {"log", "append"} =>
              handler.actor = author
        /\ handler.op = "approve" /\ handler.pc \in {"set", "log", "append"} =>
              handler.actor # log[3].actor
        /\ handler.pc = "append" =>
              /\ handler.entry.from = s /\ handler.entry.actor = handler.actor
              /\ handler.op = "execute" => handler.entry.reason = author

Alone == \A g, h \in Handlers : handlers[g] # Idle /\ handlers[h] # Idle => g = h

Serial ==
    /\ Alone
    /\ Staged(audit)
    /\ TwoPeople(audit, recommendation)
    /\ (\A h \in Handlers : handlers[h].pc # "assign") => state = Reached(audit)
    /\ \A h \in Handlers : Disciplined(handlers[h], audit, state, recommendation)

\* The stage of a log decides its length.
LEMMA OneLess ==
    /\ \A n \in Nat : n + 1 = 3 => n = 2
    /\ \A n \in Nat : n + 1 = 4 => n = 3
  OBVIOUS

LEMMA StageFacts ==
    /\ \A s \in IncidentStates : Stage[s] \in 0..7
    /\ \A s, r \in IncidentStates : Stage[s] = Stage[r] /\ Stage[s] < 7 => s = r
    /\ \A s \in DOMAIN Predecessor : Stage[s] = Stage[Predecessor[s]] + 1
    /\ \A s \in IncidentStates : Stage[s] = 3 => s = "recommended"
    /\ \A s \in IncidentStates : Stage[s] = 4 => s = "approved"
    /\ \A s \in IncidentStates : Stage[s] = 5 => s = "executing"
    /\ Stage["detected"] = 0 /\ Stage["recommended"] = 3 /\ Stage["approved"] = 4
    /\ Stage["executing"] = 5
<1>1. /\ Stage["detected"] = 0 /\ Stage["correlated"] = 1 /\ Stage["investigating"] = 2
      /\ Stage["recommended"] = 3 /\ Stage["approved"] = 4 /\ Stage["executing"] = 5
      /\ Stage["verifying"] = 6 /\ Stage["resolved"] = 7 /\ Stage["escalated"] = 7
  BY DEF Stage
<1>2. \A s \in IncidentStates : Stage[s] \in 0..7
  BY <1>1 DEF IncidentStates
<1>3. \A s, r \in IncidentStates : Stage[s] = Stage[r] /\ Stage[s] < 7 => s = r
  BY <1>1 DEF IncidentStates
<1>4. \A s \in DOMAIN Predecessor : Stage[s] = Stage[Predecessor[s]] + 1
  BY <1>1 DEF Predecessor
<1>5. \A s \in IncidentStates : Stage[s] = 3 => s = "recommended"
  BY <1>1 DEF IncidentStates
<1>6. \A s \in IncidentStates : Stage[s] = 4 => s = "approved"
  BY <1>1 DEF IncidentStates
<1>7. \A s \in IncidentStates : Stage[s] = 5 => s = "executing"
  BY <1>1 DEF IncidentStates
<1> QED BY <1>1, <1>2, <1>3, <1>4, <1>5, <1>6, <1>7

LEMMA ReachedStage ==
    ASSUME NEW log \in Seq(Entries), Staged(log)
    PROVE  Reached(log) \in IncidentStates /\ Stage[Reached(log)] = Len(log)
<1>1. CASE log = << >>
  BY <1>1, StageFacts DEF Reached, IncidentStates
<1>2. CASE log # << >>
  <2>1. Len(log) \in 1..Len(log) /\ log[Len(log)] \in Entries
    BY <1>2
  <2> QED BY <1>2, <2>1 DEF Reached, Staged, Entries
<1> QED BY <1>1, <1>2

(***************************************************************************)
(* One handler at work: its step decides what the next state is like.      *)
(***************************************************************************)
LEMMA SerialKept ==
    ASSUME TypeOK, NEW h \in Handlers, \A g \in Handlers \ {h} : handlers[g] = Idle,
           NEW new, handlers' = [handlers EXCEPT ![h] = new],
           Staged(audit'), TwoPeople(audit', recommendation'),
           new.pc # "assign" => state' = Reached(audit'),
           Disciplined(new, audit', state', recommendation')
    PROVE  Serial'
<1>1. handlers'[h] = new /\ \A g \in Handlers \ {h} : handlers'[g] = Idle
  BY DEF TypeOK
<1>2. Alone'
  BY <1>1 DEF Alone
<1>3. (\A g \in Handlers : Disciplined(handlers[g], audit, state, recommendation))'
  BY <1>1 DEF Disciplined
<1>4. ((\A g \in Handlers : handlers[g].pc # "assign") => state = Reached(audit))'
  BY <1>1
<1> QED BY <1>2, <1>3, <1>4 DEF Serial

LEMMA OthersIdle ==
    ASSUME Serial, NEW h \in Handlers, handlers[h] # Idle
    PROVE  /\ \A g \in Handlers \ {h} : handlers[g] = Idle
           /\ handlers[h].pc # "assign" => state = Reached(audit)
           /\ Disciplined(handlers[h], audit, state, recommendation)
           /\ Staged(audit) /\ TwoPeople(audit, recommendation)
<1>1. \A g \in Handlers \ {h} : handlers[g] = Idle
  BY DEF Serial, Alone
<1> QED BY <1>1 DEF Serial, Idle

LEMMA BeginSerial ==
    ASSUME IncidentInv, ~overlapped => Serial, NEW h \in Handlers, NEW op \in Operations,
           NEW actor \in Actors, NEW healthy \in BOOLEAN, NEW valid \in BOOLEAN,
           Begin(h, op, actor, healthy, valid), ~overlapped'
    PROVE  Serial'
<1> DEFINE pc == CASE op = "approve" -> "scan" [] op = "recommend" -> "set"
                   [] OTHER -> "log"
           moves == Targets(op, healthy)
           new == [pc |-> pc, op |-> op, actor |-> actor, moves |-> moves]
<1>1. pc \in {"scan", "set", "log"} /\ (op = "approve" <=> pc = "scan")
      /\ (op = "recommend" <=> pc = "set")
  OBVIOUS
<1>2. /\ handlers' = [handlers EXCEPT ![h] = new] /\ state = Required[op]
      /\ UNCHANGED incident
  BY DEF Begin, Admits
<1>3. ~overlapped /\ \A g \in Handlers : handlers[g] = Idle
  BY Zenon DEF Begin
<1>4. /\ Staged(audit) /\ TwoPeople(audit, recommendation) /\ state = Reached(audit)
      /\ audit \in Seq(Entries)
  BY <1>3, Unhurried DEF Serial, Idle
<1>5. moves \in MoveLists /\ Predecessor[moves[1]] = state /\ moves[1] \in DOMAIN Predecessor
  BY <1>2, TargetsFollowRequired, MoveListFacts
<1>6. Stage[moves[1]] = Len(audit) + 1
  BY <1>4, <1>5, ReachedStage, StageFacts
<1>7. /\ op = "recommend" <=> moves[1] = "recommended"
      /\ op = "approve" <=> moves[1] = "approved"
      /\ op = "execute" <=> moves[1] = "executing"
  BY DEF Targets, Operations, Required
<1> HIDE DEF pc, moves
<1>8. new.pc = pc /\ new.moves = moves /\ new.op = op
  OBVIOUS
<1> HIDE DEF new
<1>9. Disciplined(new, audit, state, recommendation)
  BY <1>1, <1>6, <1>7, <1>8 DEF Disciplined
<1> QED BY <1>2, <1>3, <1>4, <1>9, SerialKept DEF incident, IncidentInv

LEMMA ScanSerial ==
    ASSUME IncidentInv, Serial, NEW h \in Handlers, Scan(h)
    PROVE  Serial'
<1>1. handlers[h].pc = "scan" /\ handlers[h] # Idle
  BY NotIdle DEF Scan
<1> DEFINE next == [handlers[h] EXCEPT !.pc = "set"]
           new == IF IsAuthor(handlers[h].actor) THEN Idle ELSE next
<1>2. /\ handlers[h] \in Running
      /\ next.pc = "set" /\ next.moves = handlers[h].moves /\ next.op = handlers[h].op
      /\ next.actor = handlers[h].actor
  BY <1>1, Busy DEF Running
<1>3. /\ handlers' = [handlers EXCEPT ![h] = new] /\ UNCHANGED <<incident, overlapped>>
  BY DEF Scan
<1> HIDE DEF next
<1>4. /\ \A g \in Handlers \ {h} : handlers[g] = Idle /\ state = Reached(audit)
      /\ Disciplined(handlers[h], audit, state, recommendation)
      /\ Staged(audit) /\ TwoPeople(audit, recommendation) /\ audit \in Seq(Entries)
      /\ state = Reached(audit)
  BY <1>1, OthersIdle, Unhurried
<1>5. ASSUME ~IsAuthor(handlers[h].actor) PROVE Disciplined(next, audit, state, recommendation)
  <2>1. ASSUME handlers[h].op = "approve" PROVE handlers[h].actor # audit[3].actor
    <3>1. handlers[h].moves[1] = "approved" /\ Stage[handlers[h].moves[1]] = Len(audit) + 1
      BY <1>1, <1>4, <2>1 DEF Disciplined
    <3>2. Len(audit) = 3
      <4>1. Len(audit) \in Nat
        BY <1>4
      <4>2. Stage["approved"] = 4
        BY StageFacts
      <4>3. Len(audit) + 1 = 4
        BY ONLY <3>1, <4>2, Zenon
      <4> QED BY <4>1, <4>3, OneLess
    <3>3. audit[3] \in Entries /\ Stage[audit[3].to] = 3
      <4>1. 3 \in 1..Len(audit)
        BY <3>2
      <4> QED BY <1>4, <4>1 DEF Staged
    <3>4. audit[3].to = "recommended"
      BY <3>3, StageFacts DEF Entries
    <3> QED BY <1>5, <3>2, <3>4 DEF IsAuthor
  <2> QED BY <1>1, <1>2, <1>4, <2>1 DEF Disciplined
<1>6. Disciplined(new, audit, state, recommendation)
  BY <1>5 DEF Disciplined
<1> HIDE DEF new
<1> QED BY <1>3, <1>4, <1>6, SerialKept DEF incident, IncidentInv

LEMMA SetFieldSerial ==
    ASSUME IncidentInv, Serial, NEW h \in Handlers, SetField(h)
    PROVE  Serial'
<1>1. handlers[h].pc = "set" /\ handlers[h] # Idle
  BY NotIdle DEF SetField
<1> DEFINE new == [handlers[h] EXCEPT !.pc = "log"]
<1>2. /\ handlers[h] \in Running
      /\ new.pc = "log" /\ new.moves = handlers[h].moves /\ new.op = handlers[h].op
      /\ new.actor = handlers[h].actor
  BY <1>1, Busy DEF Running
<1>3. /\ handlers' = [handlers EXCEPT ![h] = new] /\ audit' = audit /\ state' = state
      /\ recommendation' = IF handlers[h].op = "recommend" THEN handlers[h].actor
                           ELSE recommendation
  BY DEF SetField
<1> HIDE DEF new
<1>4. /\ \A g \in Handlers \ {h} : handlers[g] = Idle
      /\ Disciplined(handlers[h], audit, state, recommendation)
      /\ Staged(audit) /\ TwoPeople(audit, recommendation) /\ audit \in Seq(Entries)
      /\ state = Reached(audit)
  BY <1>1, OthersIdle, Unhurried
<1>5. TwoPeople(audit, recommendation')
  <2>1. ASSUME handlers[h].op = "recommend" PROVE Len(audit) = 2
    <3>1. handlers[h].moves[1] = "recommended" /\ Stage[handlers[h].moves[1]] = Len(audit) + 1
      BY <1>1, <1>4, <2>1 DEF Disciplined
    <3>2. Len(audit) \in Nat
      BY <1>4
    <3>3. Stage["recommended"] = 3
      BY StageFacts
    <3>4. Len(audit) + 1 = 3
      BY ONLY <3>1, <3>3, Zenon
    <3> QED BY <3>2, <3>4, OneLess
  <2> QED BY <1>3, <1>4, <2>1 DEF TwoPeople
<1>6. Disciplined(new, audit, state, recommendation')
  BY <1>1, <1>2, <1>3, <1>4 DEF Disciplined
<1> QED BY <1>3, <1>4, <1>5, <1>6, SerialKept DEF IncidentInv

LEMMA LogSerial ==
    ASSUME IncidentInv, Serial, NEW h \in Handlers, Log(h)
    PROVE  Serial'
<1>1. handlers[h].pc = "log" /\ handlers[h] # Idle
  BY NotIdle DEF Log
<1> DEFINE entry == [from |-> state, to |-> Head(handlers[h].moves),
                     actor |-> handlers[h].actor, reason |-> Reason(h)]
           new == [pc |-> "append", op |-> handlers[h].op, actor |-> handlers[h].actor,
                   moves |-> handlers[h].moves, entry |-> entry]
<1>2. handlers' = [handlers EXCEPT ![h] = new] /\ UNCHANGED <<incident, overlapped>>
  BY DEF Log
<1>3. /\ entry.from = state /\ entry.actor = handlers[h].actor
      /\ handlers[h].op = "execute" => entry.reason = recommendation
  BY DEF Reason
<1> HIDE DEF entry
<1>4. /\ new.pc = "append" /\ new.moves = handlers[h].moves /\ new.op = handlers[h].op
      /\ new.actor = handlers[h].actor /\ new.entry = entry
  OBVIOUS
<1> HIDE DEF new
<1>5. /\ \A g \in Handlers \ {h} : handlers[g] = Idle
      /\ Disciplined(handlers[h], audit, state, recommendation)
      /\ Staged(audit) /\ TwoPeople(audit, recommendation)
      /\ state = Reached(audit)
  BY <1>1, OthersIdle
<1>6. Disciplined(new, audit, state, recommendation)
  BY <1>1, <1>3, <1>4, <1>5 DEF Disciplined
<1> QED BY <1>2, <1>5, <1>6, SerialKept DEF incident, IncidentInv

LEMMA AppendEntrySerial ==
    ASSUME IncidentInv, Serial, NEW h \in Handlers, AppendEntry(h)
    PROVE  Serial'
<1>1. handlers[h].pc = "append" /\ handlers[h] # Idle
  BY NotIdle DEF AppendEntry
<1> DEFINE new == [handlers[h] EXCEPT !.pc = "assign"]
           entry == handlers[h].entry
           n == Len(audit)
<1>2. /\ handlers[h] \in Logging /\ entry \in Entries /\ entry.to = handlers[h].moves[1]
  BY <1>1, Busy
<1>3. /\ new.pc = "assign" /\ new.moves = handlers[h].moves /\ new.op = handlers[h].op
      /\ new.actor = handlers[h].actor /\ new.entry = entry
  BY <1>2 DEF Logging
<1>4. /\ handlers' = [handlers EXCEPT ![h] = new] /\ audit' = Append(audit, entry)
      /\ UNCHANGED <<state, recommendation>>
  BY DEF AppendEntry
<1> HIDE DEF new
<1>5. /\ \A g \in Handlers \ {h} : handlers[g] = Idle
      /\ Disciplined(handlers[h], audit, state, recommendation)
      /\ Staged(audit) /\ TwoPeople(audit, recommendation) /\ audit \in Seq(Entries)
      /\ state = Reached(audit)
  BY <1>1, OthersIdle, Unhurried
<1>6. /\ n \in Nat /\ Len(audit') = n + 1 /\ audit' # << >>
      /\ audit'[n + 1] = entry /\ \A m \in 1..n : audit'[m] = audit[m]
  BY <1>2, <1>4, <1>5
<1>7. /\ Stage[entry.to] = n + 1 /\ entry.from = state /\ entry.actor = handlers[h].actor
      /\ Stage[entry.from] = n
  BY <1>1, <1>2, <1>5, ReachedStage DEF Disciplined
<1> HIDE DEF n
<1>8. Staged(audit')
  <2> SUFFICES ASSUME NEW m \in 1..(n + 1)
               PROVE  Stage[audit'[m].to] = m /\ Stage[audit'[m].from] = m - 1
    BY <1>6 DEF Staged
  <2>1. CASE m = n + 1
    BY <2>1, <1>6, <1>7
  <2>2. CASE m \in 1..n
    BY <2>2, <1>5, <1>6 DEF Staged, n
  <2> QED BY <2>1, <2>2, <1>6
<1>9. TwoPeople(audit', recommendation)
  <2>1. entry.to \in IncidentStates
    BY <1>2 DEF Entries
  <2>2. /\ n = 2 => entry.actor = recommendation
        /\ n = 3 => entry.actor # audit[3].actor
        /\ n = 4 => entry.reason = recommendation
    <3>1. /\ n = 2 => handlers[h].op = "recommend"
          /\ n = 3 => handlers[h].op = "approve"
          /\ n = 4 => handlers[h].op = "execute"
      BY <1>1, <1>2, <1>5, <1>6, <1>7, <2>1, StageFacts DEF Disciplined
    <3> QED BY <3>1, <1>1, <1>5, <1>7 DEF Disciplined
  <2>3. /\ n >= 3 => audit[3].actor = recommendation
        /\ n >= 4 => audit[4].actor # audit[3].actor
        /\ n >= 5 => audit[5].reason = audit[3].actor
    BY <1>5 DEF TwoPeople, n
  <2>4. /\ n >= 3 => audit'[3] = audit[3]
        /\ n >= 4 => audit'[4] = audit[4]
        /\ n >= 5 => audit'[5] = audit[5]
    BY <1>6
  <2> HIDE DEF entry
  <2> QED BY <2>2, <2>3, <2>4, <1>6 DEF TwoPeople
<1>10. Disciplined(new, audit', state', recommendation')
  <2>1. entry.to = Reached(audit')
    BY <1>6 DEF Reached
  <2> QED BY <2>1, <1>1, <1>3, <1>4, <1>5, <1>6 DEF Disciplined
<1> QED BY <1>3, <1>4, <1>5, <1>8, <1>9, <1>10, SerialKept DEF IncidentInv

LEMMA AssignStateSerial ==
    ASSUME IncidentInv, Serial, NEW h \in Handlers, AssignState(h)
    PROVE  Serial'
<1>1. handlers[h].pc = "assign" /\ handlers[h] # Idle
  BY NotIdle DEF AssignState
<1> DEFINE moves == handlers[h].moves
           rest == Tail(moves)
           next == [pc |-> "log", op |-> handlers[h].op, actor |-> handlers[h].actor,
                    moves |-> rest]
           new == IF rest = << >> THEN Idle ELSE next
<1>2. moves \in MoveLists /\ handlers[h].entry.to = moves[1]
  BY <1>1, Busy
<1>3. /\ handlers' = [handlers EXCEPT ![h] = new] /\ state' = handlers[h].entry.to
      /\ UNCHANGED <<recommendation, audit>>
  BY DEF AssignState
<1>4. /\ \A g \in Handlers \ {h} : handlers[g] = Idle
      /\ Disciplined(handlers[h], audit, state, recommendation)
      /\ Staged(audit) /\ TwoPeople(audit, recommendation) /\ audit \in Seq(Entries)
  BY <1>1, OthersIdle, Unhurried
<1>5. state' = Reached(audit) /\ state' = moves[1]
  BY <1>1, <1>2, <1>3, <1>4 DEF Disciplined
<1>6. ASSUME rest # << >>
      PROVE  /\ Stage[rest[1]] = Len(audit) + 1
             /\ rest[1] \in {"resolved", "escalated"} /\ moves[1] = "verifying"
  <2>1. /\ rest[1] \in DOMAIN Predecessor /\ Predecessor[rest[1]] = moves[1]
        /\ rest[1] \in {"resolved", "escalated"} /\ moves[1] = "verifying"
    BY <1>2, <1>6, MoveListFacts
  <2> HIDE DEF rest
  <2>2. Stage[rest[1]] = Stage[moves[1]] + 1
    BY <2>1, StageFacts
  <2>3. Stage[moves[1]] = Len(audit)
    BY <1>4, <1>5, ReachedStage
  <2> QED BY <2>1, <2>2, <2>3
<1> HIDE DEF rest
<1>7. next.pc = "log" /\ next.moves = rest /\ next.op = handlers[h].op
  OBVIOUS
<1> HIDE DEF next
<1>8. rest # << >> => Disciplined(next, audit, state', recommendation)
  BY <1>1, <1>4, <1>6, <1>7 DEF Disciplined
<1>9. Disciplined(new, audit, state', recommendation)
  BY <1>8 DEF Disciplined
<1> HIDE DEF new
<1> QED BY <1>3, <1>4, <1>5, <1>9, SerialKept DEF IncidentInv

LEMMA SerialNext ==
    ASSUME IncidentInv, ~overlapped => Serial, [Next]_vars, ~overlapped'
    PROVE  Serial'
<1>1. CASE UNCHANGED vars
  BY <1>1 DEF vars, Serial, Alone
<1>2. CASE CreateIncident
  BY <1>2 DEF CreateIncident, Serial, Alone
<1>3. ASSUME NEW h \in Handlers, Step(h) PROVE Serial'
  <2>1. ~overlapped
    BY <1>3 DEF Step, Scan, SetField, Log, AppendEntry, AssignState
  <2> QED BY <1>3, <2>1, ScanSerial, SetFieldSerial, LogSerial, AppendEntrySerial,
             AssignStateSerial DEF Step
<1> QED BY <1>1, <1>2, <1>3, BeginSerial DEF Next

LEMMA SerialIsSound ==
    ASSUME IncidentInv, Serial
    PROVE  AuditIsPath /\ NoSelfApproval /\ ExecutedOnce
<1>1. /\ audit \in Seq(Entries) /\ Len(audit) \in Nat /\ Staged(audit)
      /\ TwoPeople(audit, recommendation)
  BY Unhurried DEF Serial
<1>2. ASSUME NEW n \in 1..Len(audit)
      PROVE  /\ audit[n].to \in IncidentStates /\ audit[n].from \in IncidentStates
             /\ Stage[audit[n].to] = n /\ Stage[audit[n].from] = n - 1 /\ n <= 7
  <2>1. audit[n] \in Entries /\ Stage[audit[n].to] = n /\ Stage[audit[n].from] = n - 1
    BY <1>1 DEF Staged
  <2>2. audit[n].to \in IncidentStates /\ audit[n].from \in IncidentStates
    BY <2>1 DEF Entries
  <2>3. Stage[audit[n].to] \in 0..7
    BY <2>2, StageFacts
  <2> QED BY <2>1, <2>2, <2>3
<1>3. AuditIsPath
  <2> SUFFICES ASSUME \A h \in Handlers : handlers[h].pc \in {"idle", "scan", "set", "log"}
               PROVE  /\ \A n \in 1..Len(audit) :
                            audit[n].from = IF n = 1 THEN "detected" ELSE audit[n - 1].to
                      /\ state = IF audit = << >> THEN "detected" ELSE audit[Len(audit)].to
    BY DEF AuditIsPath
  <2>1. state = Reached(audit)
    BY DEF Serial
  <2>2. ASSUME NEW n \in 1..Len(audit), n = 1 PROVE audit[n].from = "detected"
    <3>1. audit[n].from \in IncidentStates /\ Stage[audit[n].from] = 0
      BY <1>2, <2>2
    <3> QED BY <3>1, StageFacts DEF IncidentStates
  <2>3. ASSUME NEW n \in 1..Len(audit), n # 1 PROVE audit[n].from = audit[n - 1].to
    <3>1. n - 1 \in 1..Len(audit)
      BY <1>1, <2>3
    <3>2. /\ audit[n].from \in IncidentStates /\ audit[n - 1].to \in IncidentStates
          /\ Stage[audit[n].from] = n - 1 /\ Stage[audit[n - 1].to] = n - 1 /\ n - 1 < 7
      BY <1>2, <3>1
    <3> QED BY <3>2, StageFacts
  <2> QED BY <2>1, <2>2, <2>3 DEF Reached
<1>4. NoSelfApproval
  <2> SUFFICES ASSUME NEW n \in 1..Len(audit), audit[n].to = "executing",
                      NEW m \in 1..n, audit[m].to = "approved"
               PROVE  audit[m].actor # audit[n].reason
    BY DEF NoSelfApproval
  <2>1. m \in 1..Len(audit)
    BY <1>1
  <2>2. n = 5 /\ m = 4
    BY <1>2, <2>1, StageFacts
  <2>3. Len(audit) >= 5
    BY <1>1, <2>2
  <2> QED BY <1>1, <2>2, <2>3 DEF TwoPeople
<1>5. ExecutedOnce
  BY <1>2 DEF ExecutedOnce
<1> QED BY <1>3, <1>4, <1>5

(***************************************************************************)
(* For any number of handlers and people: as long as no two requests have  *)
(* been in progress at once, the audit of an incident is its path, nobody  *)
(* has approved their own remediation, and it is executed at most once.    *)
(***************************************************************************)
THEOREM SerialRequestsAreSound == Spec => []SoundWhenSerial
<1> DEFINE Inv == IncidentInv /\ (~overlapped => Serial)
<1>1. Init => Inv
  <2> SUFFICES ASSUME Init PROVE Serial
    BY IncidentInitGood
  <2>1. /\ audit = << >> /\ state = "detected" /\ \A h \in Handlers : handlers[h] = Idle
    BY DEF Init
  <2>2. Staged(audit) /\ TwoPeople(audit, recommendation) /\ state = Reached(audit)
    BY <2>1 DEF Staged, TwoPeople, Reached
  <2> QED BY <2>1, <2>2 DEF Serial, Alone, Disciplined
<1>2. Inv /\ [Next]_vars => Inv'
  BY IncidentNextGood, SerialNext
<1>3. Inv => SoundWhenSerial
  BY SerialIsSound DEF SoundWhenSerial
<1> QED BY <1>1, <1>2, <1>3, PTL DEF Spec

-----------------------------------------------------------------------------
(***************************************************************************)
(* Corrective retrieval.  While the graph runs, every attempt behind it    *)
(* has missed, and the query ahead is the one that invoke would search for *)
(* at its next attempt.                                                    *)
(***************************************************************************)
RagTypeOK ==
    /\ kept \in [Queries -> SUBSET Documents]
    /\ rewritten \in [1 .. MaximumAttempts -> Queries]
    /\ node \in {"idle", "retrieve", "rewrite", "generate", "refuse", "end"}
    /\ query \in Queries /\ attempts \in 0 .. MaximumAttempts

NoEmptyRewrite == EmptyQuery \notin {rewritten[n] : n \in 1 .. MaximumAttempts}

Missed(n) == \A m \in 1 .. n : kept[QueryOf(m)] = {}

FoundAt(n) == n >= 1 /\ documents = kept[QueryOf(n)] /\ documents # {} /\ Missed(n - 1)

MissedAll == attempts = MaximumAttempts /\ documents = {} /\ Missed(attempts)

RagInv ==
    /\ RagTypeOK
    /\ node = "idle" => attempts = 0 /\ query = EmptyQuery
    /\ node = "retrieve" => attempts < MaximumAttempts
    /\ node = "rewrite" => 1 <= attempts /\ attempts < MaximumAttempts
    /\ NoEmptyRewrite =>
          /\ node = "retrieve" =>
                /\ Missed(attempts)
                /\ (IF query = EmptyQuery THEN Question ELSE query) = QueryOf(attempts + 1)
          /\ node = "rewrite" => Missed(attempts)
          /\ node = "generate" => FoundAt(attempts)
          /\ node = "refuse" => MissedAll
          /\ node = "end" =>
                \/ status = "grounded" /\ FoundAt(attempts)
                \/ status = "insufficient_evidence" /\ MissedAll

LEMMA AskRag ==
    ASSUME RagInv, Ask
    PROVE  RagInv'
<1>1. attempts' = 0 /\ query' = EmptyQuery /\ node' = "retrieve" /\ RagTypeOK'
  BY DEF RagInv, RagTypeOK, Ask
<1>2. QueryOf(attempts + 1)' = Question
  BY <1>1 DEF QueryOf
<1>3. Missed(attempts)'
  BY <1>1 DEF Missed
<1>4. 0 < MaximumAttempts
  BY RagAssumption
<1> QED BY <1>1, <1>2, <1>3, <1>4 DEF RagInv

LEMMA RetrieveRag ==
    ASSUME RagInv, Retrieve
    PROVE  RagInv'
<1>1. /\ node = "retrieve" /\ attempts' = attempts + 1 /\ documents' = kept[query']
      /\ query' = (IF query = EmptyQuery THEN Question ELSE query)
      /\ kept' = kept /\ rewritten' = rewritten
      /\ node' = IF documents' # {} THEN "generate"
                 ELSE IF attempts' < MaximumAttempts THEN "rewrite" ELSE "refuse"
  BY DEF Retrieve, Route
<1>2. /\ attempts \in Nat /\ attempts < MaximumAttempts /\ MaximumAttempts \in Nat
      /\ attempts' \in 1 .. MaximumAttempts
  BY <1>1, RagAssumption DEF RagInv, RagTypeOK
<1>3. RagTypeOK'
  BY <1>1, <1>2, RagAssumption DEF RagInv, RagTypeOK
<1>4. NoEmptyRewrite' = NoEmptyRewrite
  BY <1>1 DEF NoEmptyRewrite
<1>5. \A m : kept'[QueryOf(m)'] = kept[QueryOf(m)]
  BY <1>1 DEF QueryOf
<1>6. ASSUME NoEmptyRewrite
      PROVE  Missed(attempts) /\ documents' = kept[QueryOf(attempts + 1)]
  BY <1>1, <1>6 DEF RagInv
<1>7. ASSUME NoEmptyRewrite PROVE Missed(attempts - 1)'
  <2> SUFFICES ASSUME NEW m \in 1 .. attempts' - 1 PROVE kept'[QueryOf(m)'] = {}
    BY DEF Missed
  <2>1. m \in 1 .. attempts
    BY <1>1, <1>2
  <2> QED BY <1>5, <1>6, <1>7, <2>1 DEF Missed
<1>8. ASSUME NoEmptyRewrite, documents' = {} PROVE Missed(attempts)'
  <2> SUFFICES ASSUME NEW m \in 1 .. attempts' PROVE kept'[QueryOf(m)'] = {}
    BY DEF Missed
  <2>1. m \in 1 .. attempts \/ m = attempts + 1
    BY <1>1, <1>2
  <2> QED BY <1>5, <1>6, <1>8, <2>1 DEF Missed
<1>9. ASSUME NoEmptyRewrite, documents' # {} PROVE FoundAt(attempts)'
  <2>1. documents' = kept'[QueryOf(attempts)']
    BY <1>1, <1>6, <1>9 DEF QueryOf
  <2> QED BY <1>2, <1>7, <1>9, <2>1 DEF FoundAt
<1>10. CASE documents' # {}
  BY <1>1, <1>3, <1>4, <1>9, <1>10 DEF RagInv
<1>11. CASE documents' = {} /\ attempts' < MaximumAttempts
  BY <1>1, <1>2, <1>3, <1>4, <1>8, <1>11 DEF RagInv
<1>12. CASE documents' = {} /\ ~(attempts' < MaximumAttempts)
  <2>1. attempts' = MaximumAttempts
    BY <1>2, <1>12
  <2>2. NoEmptyRewrite => MissedAll'
    BY <1>8, <1>12, <2>1 DEF MissedAll
  <2> QED BY <1>1, <1>3, <1>4, <1>12, <2>2 DEF RagInv
<1> QED BY <1>10, <1>11, <1>12

LEMMA RewriteRag ==
    ASSUME RagInv, Rewrite
    PROVE  RagInv'
<1>1. /\ node = "rewrite" /\ node' = "retrieve" /\ query' = rewritten[attempts]
      /\ UNCHANGED <<kept, rewritten, attempts, documents>>
  BY DEF Rewrite
<1>2. attempts \in 1 .. MaximumAttempts /\ attempts < MaximumAttempts /\ MaximumAttempts \in Nat
  BY <1>1, RagAssumption DEF RagInv, RagTypeOK
<1>3. RagTypeOK'
  BY <1>1, <1>2 DEF RagInv, RagTypeOK
<1>4. NoEmptyRewrite' = NoEmptyRewrite /\ Missed(attempts)' = Missed(attempts)
  BY <1>1 DEF NoEmptyRewrite, Missed, QueryOf
<1>5. ASSUME NoEmptyRewrite
      PROVE  /\ Missed(attempts)
             /\ (IF query' = EmptyQuery THEN Question ELSE query') = QueryOf(attempts + 1)'
  <2>1. query' # EmptyQuery
    BY <1>1, <1>2, <1>5 DEF NoEmptyRewrite
  <2>2. QueryOf(attempts + 1)' = rewritten[attempts]
    BY <1>1, <1>2 DEF QueryOf
  <2> QED BY <1>1, <1>5, <2>1, <2>2 DEF RagInv
<1> QED BY <1>1, <1>2, <1>3, <1>4, <1>5 DEF RagInv

LEMMA FinishRag ==
    ASSUME RagInv, Generate \/ Refuse \/ UNCHANGED ragVars
    PROVE  RagInv'
<1>1. /\ UNCHANGED <<kept, rewritten, query, attempts, documents>>
      /\ \/ node = "generate" /\ node' = "end" /\ status' = "grounded"
         \/ node = "refuse" /\ node' = "end" /\ status' = "insufficient_evidence"
         \/ node' = node /\ status' = status
  BY DEF Generate, Refuse, ragVars
<1>2. RagTypeOK' /\ NoEmptyRewrite' = NoEmptyRewrite
  BY <1>1 DEF RagInv, RagTypeOK, NoEmptyRewrite
<1>3. /\ Missed(attempts)' = Missed(attempts) /\ FoundAt(attempts)' = FoundAt(attempts)
      /\ MissedAll' = MissedAll /\ QueryOf(attempts + 1)' = QueryOf(attempts + 1)
  BY <1>1 DEF Missed, FoundAt, MissedAll, QueryOf
<1>4. CASE node = "generate" /\ node' = "end" /\ status' = "grounded"
  <2>1. NoEmptyRewrite => FoundAt(attempts)
    BY <1>4 DEF RagInv
  <2>2. NoEmptyRewrite' => FoundAt(attempts)'
    BY <1>2, <1>3, <2>1, Zenon
  <2> QED BY <1>2, <1>4, <2>2, Zenon DEF RagInv
<1>5. CASE node = "refuse" /\ node' = "end" /\ status' = "insufficient_evidence"
  BY <1>2, <1>3, <1>5 DEF RagInv
<1>6. CASE node' = node /\ status' = status
  BY <1>1, <1>2, <1>3, <1>6 DEF RagInv
<1> QED BY <1>1, <1>4, <1>5, <1>6

LEMMA RagInvAgrees ==
    ASSUME RagInv
    PROVE  GraphComputesInvoke
<1>1. attempts \in Nat /\ MaximumAttempts \in Nat /\ attempts <= MaximumAttempts
  BY RagAssumption DEF RagInv, RagTypeOK
<1> SUFFICES ASSUME node = "end", NoEmptyRewrite
             PROVE  [status |-> status, documents |-> documents, attempts |-> attempts]
                       = InvokeResult
  BY <1>1 DEF GraphComputesInvoke, NoEmptyRewrite
<1>2. CASE status = "grounded" /\ FoundAt(attempts)
  <2>1. /\ attempts \in Successful /\ \A m \in Successful : attempts <= m
        /\ documents = kept[QueryOf(attempts)]
    BY <1>1, <1>2 DEF FoundAt, Missed, Successful
  <2>2. \A m \in Successful : (\A k \in Successful : m <= k) => m = attempts
    BY <1>1, <2>1 DEF Successful
  <2>3. (CHOOSE n \in Successful : \A m \in Successful : n <= m) = attempts
    BY <2>1, <2>2
  <2> QED BY <1>2, <2>1, <2>3 DEF InvokeResult
<1>3. CASE status = "insufficient_evidence" /\ MissedAll
  <2>1. Successful = {}
    BY <1>3 DEF MissedAll, Missed, Successful
  <2> QED BY <1>3, <2>1 DEF InvokeResult, MissedAll
<1> QED BY <1>2, <1>3 DEF RagInv

(***************************************************************************)
(* For any set of queries, any retriever and rewriter that returns no      *)
(* empty query, and any limit on the attempts: the graph compiled for      *)
(* LangGraph ends with the status, the evidence and the number of attempts *)
(* that the loop of invoke returns, and never makes more attempts.         *)
(***************************************************************************)
THEOREM GraphAgreesWithInvoke == RagSpec => []GraphComputesInvoke
<1>1. RagInit => RagInv
  <2> SUFFICES ASSUME RagInit PROVE RagInv
    OBVIOUS
  <2>1. node = "idle" /\ attempts = 0 /\ query = EmptyQuery /\ RagTypeOK
    BY RagAssumption DEF RagInit, RagTypeOK
  <2> QED BY <2>1 DEF RagInv
<1>2. RagInv /\ [RagNext]_ragVars => RagInv'
  BY AskRag, RetrieveRag, RewriteRag, FinishRag DEF RagNext
<1>3. RagInv => GraphComputesInvoke
  BY RagInvAgrees
<1> QED BY <1>1, <1>2, <1>3, PTL DEF RagSpec
-----------------------------------------------------------------------------
(***************************************************************************)
(* The agent runtime.  Guarded is what the checks leave true of one        *)
(* invocation, Traced what the finally block leaves true of the traces.    *)
(***************************************************************************)
Statuses == {"error", "blocked_input", "blocked_output", "success"}
Prompts == Texts \cup {"nothing"}
RunningInvocations ==
    [at : {"inbound", "model", "outbound"}, release : Releases, text : Texts,
     prompted : Prompts]
EndedInvocations ==
    [at : {"ended"}, release : Releases, status : Statuses,
     response : Texts \cup {"nothing", "refusal"}, prompted : Prompts]

AgentTypeOK ==
    /\ guardrail \in {"none", "present"}
    /\ invocations \in [Invocations -> RunningInvocations \cup EndedInvocations \cup {Waiting}]
    /\ traces \in Seq([trace_id : Invocations, status : Statuses])

Guarded(it, guard) ==
    /\ it # Waiting /\ it.release \in Protected =>
          /\ it.prompted # "sensitive"
          /\ guard = "none" => it.prompted = "nothing"
    /\ it.at = "ended" /\ it.release \in Protected =>
          /\ it.response # "sensitive"
          /\ it.response = "clean" => it.status = "success"

Own(log, i) == {n \in DOMAIN log : log[n].trace_id = i}

Traced(it, i, log) ==
    /\ it.at = "ended" => \E n \in Own(log, i) : Own(log, i) = {n} /\ log[n].status = it.status
    /\ it.at # "ended" => Own(log, i) = {}

AgentInv ==
    /\ AgentTypeOK
    /\ \A i \in Invocations :
          Guarded(invocations[i], guardrail) /\ Traced(invocations[i], i, traces)

LEMMA CheckedText ==
    ASSUME AgentInv, NEW release, NEW text \in Texts, NEW result \in Check(release, text)
    PROVE  /\ result \in {"raised", "blocked", "allowed"}
           /\ result = "allowed" /\ release \in Protected =>
                 text = "clean" /\ guardrail # "none"
  BY DEF Check, LocalCheck, Texts, AgentInv, AgentTypeOK

\* An invocation goes on, and no trace is written.
LEMMA GoesOn ==
    ASSUME AgentInv, NEW i \in Invocations, NEW new \in RunningInvocations,
           invocations[i].at # "ended", Guarded(new, guardrail),
           invocations' = [invocations EXCEPT ![i] = new], UNCHANGED <<guardrail, traces>>
    PROVE  AgentInv'
<1>1. new.at # "ended" /\ AgentTypeOK'
  BY DEF AgentInv, AgentTypeOK, RunningInvocations
<1>2. \A j \in Invocations : invocations'[j] = IF j = i THEN new ELSE invocations[j]
  BY DEF AgentInv, AgentTypeOK
<1>3. Traced(new, i, traces)
  BY <1>1 DEF AgentInv, Traced
<1> QED BY <1>1, <1>2, <1>3 DEF AgentInv

\* An invocation ends, and leaves its trace.
LEMMA EndGood ==
    ASSUME AgentInv, NEW i \in Invocations, NEW s \in Statuses,
           NEW response \in Texts \cup {"nothing", "refusal"},
           invocations[i] \in RunningInvocations, End(i, s, response),
           invocations[i].release \in Protected =>
              response # "sensitive" /\ (response = "clean" => s = "success"),
           UNCHANGED guardrail
    PROVE  AgentInv'
<1> DEFINE old == invocations[i]
           new == [at |-> "ended", release |-> old.release, status |-> s,
                   response |-> response, prompted |-> old.prompted]
           trace == [trace_id |-> i, status |-> s]
<1>1. invocations' = [invocations EXCEPT ![i] = new] /\ traces' = Append(traces, trace)
  BY DEF End
<1>2. old.at # "ended" /\ old # Waiting /\ old.release \in Releases /\ old.prompted \in Prompts
  BY DEF RunningInvocations, Waiting
<1>3. new \in EndedInvocations
  BY <1>2 DEF EndedInvocations
<1>4. /\ new.at = "ended" /\ new.status = s /\ new.response = response
      /\ new.release = old.release /\ new.prompted = old.prompted
      /\ trace.trace_id = i /\ trace.status = s /\ new # Waiting
  BY <1>3 DEF Waiting, EndedInvocations
<1>5. trace \in [trace_id : Invocations, status : Statuses]
  OBVIOUS
<1> HIDE DEF new, trace
<1>6. AgentTypeOK'
  BY <1>1, <1>3, <1>5 DEF AgentInv, AgentTypeOK
<1>7. Guarded(new, guardrail)
  BY <1>2, <1>4 DEF AgentInv, Guarded
<1>8. /\ DOMAIN traces' = DOMAIN traces \cup {Len(traces) + 1}
      /\ Len(traces) + 1 \notin DOMAIN traces
      /\ traces'[Len(traces) + 1] = trace
      /\ \A n \in DOMAIN traces : traces'[n] = traces[n]
  <2>1. traces \in Seq([trace_id : Invocations, status : Statuses])
    BY DEF AgentInv, AgentTypeOK
  <2>2. /\ Len(traces) \in Nat /\ DOMAIN traces = 1 .. Len(traces)
        /\ DOMAIN traces' = 1 .. Len(traces) + 1
    BY <1>1, <1>5, <2>1
  <2>3. \A n \in 1 .. Len(traces) + 1 :
           traces'[n] = IF n = Len(traces) + 1 THEN trace ELSE traces[n]
    BY <1>1, <1>5, <2>1
  <2> QED BY <2>2, <2>3
<1>9. Own(traces', i) = Own(traces, i) \cup {Len(traces) + 1}
  BY <1>4, <1>8 DEF Own
<1>10. \A j \in Invocations \ {i} : Own(traces', j) = Own(traces, j)
  BY <1>4, <1>8 DEF Own
<1>11. Own(traces, i) = {}
  BY <1>2 DEF AgentInv, Traced
<1>12. Traced(new, i, traces')
  BY <1>4, <1>8, <1>9, <1>11 DEF Traced
<1>13. \A j \in Invocations \ {i} : Traced(invocations[j], j, traces')
  BY <1>8, <1>10 DEF AgentInv, Traced, Own
<1>14. \A j \in Invocations : invocations'[j] = IF j = i THEN new ELSE invocations[j]
  BY <1>1 DEF AgentInv, AgentTypeOK
<1> QED BY <1>6, <1>7, <1>12, <1>13, <1>14 DEF AgentInv

LEMMA IsRunning ==
    ASSUME AgentInv, NEW i \in Invocations,
           invocations[i].at \in {"inbound", "model", "outbound"}
    PROVE  invocations[i] \in RunningInvocations /\ invocations[i] # Waiting
  BY DEF AgentInv, AgentTypeOK, EndedInvocations, Waiting

LEMMA InvokeGood ==
    ASSUME AgentInv, NEW i \in Invocations, NEW release \in Releases, NEW text \in Texts,
           Invoke(i, release, text)
    PROVE  AgentInv'
<1> DEFINE new == [at |-> "inbound", release |-> release, text |-> text, prompted |-> "nothing"]
<1>1. /\ invocations' = [invocations EXCEPT ![i] = new] /\ UNCHANGED <<guardrail, traces>>
      /\ invocations[i].at # "ended"
  BY DEF Invoke, Waiting
<1>2. new \in RunningInvocations
  BY DEF RunningInvocations, Prompts
<1>3. new.at # "ended" /\ new.prompted = "nothing"
  OBVIOUS
<1> HIDE DEF new
<1>4. Guarded(new, guardrail)
  BY <1>3 DEF Guarded
<1> QED BY <1>1, <1>2, <1>4, GoesOn

LEMMA CheckInboundGood ==
    ASSUME AgentInv, NEW i \in Invocations, CheckInbound(i)
    PROVE  AgentInv'
<1> DEFINE it == invocations[i]
           new == [it EXCEPT !.at = "model", !.prompted = it.text]
<1>1. it \in RunningInvocations /\ it # Waiting /\ it.text \in Texts /\ it.at # "ended"
  BY IsRunning DEF CheckInbound, RunningInvocations
<1>2. PICK result \in Check(it.release, it.text) :
         CASE result = "raised" -> End(i, "error", "nothing")
           [] result = "blocked" -> End(i, "blocked_input", "refusal")
           [] result = "allowed" ->
                /\ invocations' = [invocations EXCEPT ![i].at = "model",
                                                      ![i].prompted = invocations[i].text]
                /\ UNCHANGED traces
  BY DEF CheckInbound
<1>3. UNCHANGED guardrail
  BY DEF CheckInbound
<1>4. CASE result = "raised"
  BY <1>1, <1>2, <1>3, <1>4, EndGood DEF Statuses
<1>5. CASE result = "blocked"
  BY <1>1, <1>2, <1>3, <1>5, EndGood DEF Statuses
<1>6. CASE result = "allowed"
  <2>1. invocations' = [invocations EXCEPT ![i] = new] /\ UNCHANGED traces
    BY <1>2, <1>6
  <2>2. /\ new \in RunningInvocations /\ new.at = "model" /\ new.prompted = it.text
        /\ new.release = it.release
    BY <1>1 DEF RunningInvocations, Prompts
  <2> HIDE DEF new
  <2>3. Guarded(new, guardrail)
    BY <1>1, <1>6, <2>2, CheckedText DEF Guarded
  <2> QED BY <1>1, <1>3, <2>1, <2>2, <2>3, GoesOn
<1> QED BY <1>1, <1>4, <1>5, <1>6, CheckedText

LEMMA ModelAnswersGood ==
    ASSUME AgentInv, NEW i \in Invocations, ModelAnswers(i)
    PROVE  AgentInv'
<1>1. PICK response \in Texts :
         /\ invocations[i].at = "model"
         /\ invocations' = [invocations EXCEPT ![i].at = "outbound", ![i].text = response]
         /\ UNCHANGED <<guardrail, traces>>
  BY DEF ModelAnswers
<1> DEFINE it == invocations[i]
           new == [it EXCEPT !.at = "outbound", !.text = response]
<1>2. it \in RunningInvocations /\ it # Waiting
  BY <1>1, IsRunning
<1>3. invocations' = [invocations EXCEPT ![i] = new]
  BY <1>1
<1>4. /\ new \in RunningInvocations /\ new.at = "outbound" /\ new.prompted = it.prompted
      /\ new.release = it.release
  BY <1>2 DEF RunningInvocations
<1> HIDE DEF new
<1>5. Guarded(new, guardrail)
  BY <1>2, <1>4 DEF Guarded, AgentInv
<1> QED BY <1>1, <1>3, <1>4, <1>5, GoesOn

LEMMA CheckOutboundGood ==
    ASSUME AgentInv, NEW i \in Invocations, CheckOutbound(i)
    PROVE  AgentInv'
<1> DEFINE it == invocations[i]
<1>1. it \in RunningInvocations /\ it.text \in Texts
  BY IsRunning DEF CheckOutbound, RunningInvocations
<1>2. PICK result \in Check(it.release, it.text) :
         CASE result = "raised" -> End(i, "error", "nothing")
           [] result = "blocked" -> End(i, "blocked_output", "refusal")
           [] result = "allowed" -> End(i, "success", invocations[i].text)
  BY DEF CheckOutbound
<1>3. UNCHANGED guardrail
  BY DEF CheckOutbound
<1>4. CASE result = "raised"
  BY <1>1, <1>2, <1>3, <1>4, EndGood DEF Statuses
<1>5. CASE result = "blocked"
  BY <1>1, <1>2, <1>3, <1>5, EndGood DEF Statuses
<1>6. CASE result = "allowed"
  <2>1. it.release \in Protected => it.text = "clean"
    BY <1>1, <1>6, CheckedText
  <2>2. End(i, "success", it.text)
    BY <1>2, <1>6
  <2> QED BY <1>1, <1>3, <2>1, <2>2, EndGood DEF Statuses
<1> QED BY <1>1, <1>4, <1>5, <1>6, CheckedText

(***************************************************************************)
(* For any number of invocations, releases and tools: the runtime fails    *)
(* closed.  A protected release is prompted with, and returns, nothing     *)
(* that a present guardrail did not let through, and every invocation that *)
(* ended has exactly one trace, with the status it ended with.             *)
(***************************************************************************)
THEOREM RuntimeFailsClosed == AgentSpec => []FailsClosed
<1>1. AgentInit => AgentInv
  <2> SUFFICES ASSUME AgentInit PROVE AgentInv
    OBVIOUS
  <2>1. traces = << >> /\ \A i \in Invocations : invocations[i] = Waiting
    BY DEF AgentInit
  <2>2. AgentTypeOK
    BY DEF AgentInit, AgentTypeOK
  <2> QED BY <2>1, <2>2 DEF AgentInv, Guarded, Traced, Own, Waiting
<1>2. AgentInv /\ [AgentNext]_agentVars => AgentInv'
  <2> SUFFICES ASSUME AgentInv, [AgentNext]_agentVars PROVE AgentInv'
    OBVIOUS
  <2>1. ASSUME NEW i \in Invocations, ModelRaises(i) PROVE AgentInv'
    <3>1. invocations[i] \in RunningInvocations
      BY <2>1, IsRunning DEF ModelRaises
    <3> QED BY <2>1, <3>1, EndGood DEF ModelRaises, Statuses
  <2>2. ASSUME UNCHANGED <<guardrail, invocations, traces>> PROVE AgentInv'
    BY <2>2 DEF AgentInv, AgentTypeOK
  <2>3. ASSUME NEW i \in Invocations, NEW score \in {-1, 1}, SubmitFeedback(i, score)
        PROVE  AgentInv'
    BY <2>2, <2>3 DEF SubmitFeedback
  <2>4. ASSUME NEW tool \in Tools, NEW spec \in ToolSpecs, Register(tool, spec)
        PROVE  AgentInv'
    BY <2>2, <2>4 DEF Register
  <2>5. ASSUME NEW tool \in Tools, NEW role \in Roles, NEW approved \in BOOLEAN,
               NEW arguments \in SUBSET ArgumentNames, InvokeTool(tool, arguments, role, approved)
        PROVE  AgentInv'
    BY <2>2, <2>5 DEF InvokeTool
  <2> QED BY <2>1, <2>2, <2>3, <2>4, <2>5, InvokeGood, CheckInboundGood, ModelAnswersGood,
             CheckOutboundGood
          DEF AgentNext, InvocationNext, ToolNext, agentVars
<1>3. AgentInv => FailsClosed
  BY DEF AgentInv, FailsClosed, Guarded, Traced, Own
<1> QED BY <1>1, <1>2, <1>3, PTL DEF AgentSpec
-----------------------------------------------------------------------------
(***************************************************************************)
(* The decision engine.  Only outputs of the primary provider are in the   *)
(* cache, and in the hands of a caller that found one there.               *)
(***************************************************************************)
PrimaryOutputs == [origin : {"primary"}, key : Keys, confident : BOOLEAN]

CallsInProgress ==
    [at : {"provider", "opened", "failed", "opening", "fallback"}, key : Keys]
CallsWithOutput ==
    {call \in [at : {"hit"}, key : Keys, output : PrimaryOutputs] :
        call.output.key = call.key}
CallStates == CallsInProgress \cup CallsWithOutput \cup {Resting}

DecisionTypeOK ==
    /\ failures \in Nat /\ exposure \in Nat /\ now \in Nat
    /\ openedAt \in Nat \cup {None}
    /\ cache \in Seq(PrimaryOutputs)
    /\ calls \in [Callers -> CallStates]

(***************************************************************************)
(* The breaker.  The calls since the last success or reset have failed and *)
(* were counted, or are still on their way; and while the breaker is       *)
(* closed, at most as many failures are counted as it takes to open it,    *)
(* less one, and those of callers about to compare or to open.             *)
(***************************************************************************)
Asking == {c \in Callers : calls[c].at = "provider"}
Counting == {c \in Callers : calls[c].at \in {"failed", "opening"}}

BreakerInv ==
    /\ exposure <= failures + Cardinality(Asking)
    /\ openedAt = None => failures <= FailureThreshold - 1 + Cardinality(Counting)
    /\ BreakerBoundsExposure

DecisionInv == DecisionTypeOK /\ BreakerInv /\ DecisionsAreOwned

Ones(b) == IF b THEN 1 ELSE 0

\* One caller more in a set, or less.
LEMMA Recount ==
    ASSUME NEW S, NEW T, NEW c, IsFiniteSet(S), NEW in \in BOOLEAN,
           T = IF in THEN S \cup {c} ELSE S \ {c}
    PROVE  /\ IsFiniteSet(T) /\ Cardinality(S) \in Nat /\ Cardinality(T) \in Nat
           /\ Cardinality(T) = Cardinality(S) + Ones(in) - Ones(c \in S)
<1>1. Cardinality(S) \in Nat /\ (c \in S => Cardinality(S) # 0)
  BY FS_CardinalityType, FS_EmptySet
<1>2. CASE in
  BY <1>1, <1>2, FS_AddElement DEF Ones
<1>3. CASE ~in
  BY <1>1, <1>3, FS_RemoveElement DEF Ones
<1> QED BY <1>2, <1>3

LEMMA DisjointCount ==
    ASSUME NEW S, NEW T, IsFiniteSet(S), IsFiniteSet(T), S \cap T = {}
    PROVE  Cardinality(S \cup T) = Cardinality(S) + Cardinality(T)
<1>1. Cardinality(S \cup T) = Cardinality(S) + Cardinality(T) - Cardinality(S \cap T)
  BY FS_Union
<1>2. Cardinality(S \cap T) = 0 /\ Cardinality(S) \in Nat /\ Cardinality(T) \in Nat
  BY FS_EmptySet, FS_CardinalityType
<1> QED BY <1>1, <1>2

LEMMA CallersCounted ==
    ASSUME DecisionTypeOK
    PROVE  /\ IsFiniteSet(Asking) /\ IsFiniteSet(Counting)
           /\ Cardinality(Asking) \in Nat /\ Cardinality(Counting) \in Nat
           /\ Cardinality(Callers) \in Nat
           /\ Cardinality(Asking) + Cardinality(Counting) <= Cardinality(Callers)
<1>1. Asking \subseteq Callers /\ Counting \subseteq Callers /\ Asking \cap Counting = {}
  BY DEF Asking, Counting
<1>2. IsFiniteSet(Callers) /\ IsFiniteSet(Asking) /\ IsFiniteSet(Counting)
  BY <1>1, DecisionAssumption, FS_Subset
<1>3. /\ Cardinality(Callers) \in Nat /\ Cardinality(Asking) \in Nat
      /\ Cardinality(Counting) \in Nat
  BY <1>2, FS_CardinalityType
<1>4. Cardinality(Asking \cup Counting) = Cardinality(Asking) + Cardinality(Counting)
  BY <1>1, <1>2, DisjointCount
<1>5. Asking \cup Counting \in SUBSET Callers
  BY <1>1
<1>6. Cardinality(Asking \cup Counting) <= Cardinality(Callers)
  BY <1>2, <1>5, FS_Subset
<1> QED BY <1>2, <1>3, <1>4, <1>6

LEMMA CallerMoves ==
    ASSUME DecisionTypeOK, NEW c \in Callers, NEW new,
           calls' = [calls EXCEPT ![c] = new]
    PROVE  /\ Cardinality(Asking') = Cardinality(Asking) + Ones(new.at = "provider")
                                       - Ones(calls[c].at = "provider")
           /\ Cardinality(Counting') = Cardinality(Counting)
                 + Ones(new.at \in {"failed", "opening"})
                 - Ones(calls[c].at \in {"failed", "opening"})
           /\ Cardinality(Asking') \in Nat /\ Cardinality(Counting') \in Nat
           /\ Cardinality(Asking') + Cardinality(Counting') <= Cardinality(Callers)
<1>1. \A d \in Callers : calls'[d] = IF d = c THEN new ELSE calls[d]
  BY DEF DecisionTypeOK
<1>2. /\ Asking' = IF new.at = "provider" THEN Asking \cup {c} ELSE Asking \ {c}
      /\ Counting' = IF new.at \in {"failed", "opening"} THEN Counting \cup {c}
                     ELSE Counting \ {c}
  BY <1>1 DEF Asking, Counting
<1>3. /\ c \in Asking <=> calls[c].at = "provider"
      /\ c \in Counting <=> calls[c].at \in {"failed", "opening"}
  BY DEF Asking, Counting
<1>4. IsFiniteSet(Asking) /\ IsFiniteSet(Counting)
  BY CallersCounted
<1>5. /\ IsFiniteSet(Asking') /\ Cardinality(Asking') \in Nat
      /\ Cardinality(Asking') = Cardinality(Asking) + Ones(new.at = "provider")
                                  - Ones(c \in Asking)
  <2> DEFINE in == new.at = "provider"
  <2>1. in \in BOOLEAN /\ Asking' = IF in THEN Asking \cup {c} ELSE Asking \ {c}
    BY <1>2
  <2> HIDE DEF in
  <2>2. /\ IsFiniteSet(Asking') /\ Cardinality(Asking') \in Nat
        /\ Cardinality(Asking') = Cardinality(Asking) + Ones(in) - Ones(c \in Asking)
    BY <1>4, <2>1, Recount
  <2> QED BY <2>2 DEF in
<1>6. /\ IsFiniteSet(Counting') /\ Cardinality(Counting') \in Nat
      /\ Cardinality(Counting') = Cardinality(Counting)
            + Ones(new.at \in {"failed", "opening"}) - Ones(c \in Counting)
  <2> DEFINE in == new.at \in {"failed", "opening"}
  <2>1. in \in BOOLEAN /\ Counting' = IF in THEN Counting \cup {c} ELSE Counting \ {c}
    BY <1>2
  <2> HIDE DEF in
  <2>2. /\ IsFiniteSet(Counting') /\ Cardinality(Counting') \in Nat
        /\ Cardinality(Counting') = Cardinality(Counting) + Ones(in) - Ones(c \in Counting)
    BY <1>4, <2>1, Recount
  <2> QED BY <2>2 DEF in
<1>7. Asking' \cup Counting' \in SUBSET Callers /\ Asking' \cap Counting' = {}
  BY <1>1 DEF Asking, Counting
<1>8. Cardinality(Asking' \cup Counting') <= Cardinality(Callers)
  BY <1>7, DecisionAssumption, FS_Subset
<1>9. Cardinality(Asking' \cup Counting') = Cardinality(Asking') + Cardinality(Counting')
  BY <1>5, <1>6, <1>7, DisjointCount
<1> QED BY <1>3, <1>5, <1>6, <1>8, <1>9

LEMMA DecisionTypesKept ==
    ASSUME DecisionTypeOK, NEW c \in Callers, NEW new \in CallStates,
           calls' = [calls EXCEPT ![c] = new], cache' \in Seq(PrimaryOutputs),
           failures' \in Nat, exposure' \in Nat, now' \in Nat, openedAt' \in Nat \cup {None}
    PROVE  DecisionTypeOK'
  BY DEF DecisionTypeOK

\* A step of a caller that neither asks, nor counts, nor touches the breaker.
LEMMA BreakerLeftAlone ==
    ASSUME DecisionInv, NEW c \in Callers, NEW new,
           calls' = [calls EXCEPT ![c] = new],
           new.at \notin {"provider", "failed", "opening"},
           calls[c].at \notin {"provider", "failed", "opening"},
           UNCHANGED <<failures, openedAt, exposure>>
    PROVE  BreakerInv'
<1>1. /\ Cardinality(Asking') = Cardinality(Asking) + Ones(new.at = "provider")
                                  - Ones(calls[c].at = "provider")
      /\ Cardinality(Counting') = Cardinality(Counting)
            + Ones(new.at \in {"failed", "opening"})
            - Ones(calls[c].at \in {"failed", "opening"})
  BY CallerMoves DEF DecisionInv
<1>2. Cardinality(Asking) \in Nat /\ Cardinality(Counting) \in Nat
  BY CallersCounted DEF DecisionInv
<1>3. /\ Ones(new.at = "provider") = 0 /\ Ones(calls[c].at = "provider") = 0
      /\ Ones(new.at \in {"failed", "opening"}) = 0
      /\ Ones(calls[c].at \in {"failed", "opening"}) = 0
  BY DEF Ones
<1>4. Cardinality(Asking') = Cardinality(Asking) /\ Cardinality(Counting') = Cardinality(Counting)
  BY <1>1, <1>2, <1>3
<1> QED BY <1>4 DEF DecisionInv, BreakerInv, BreakerBoundsExposure

LEMMA NoRecordOwned ==
    ASSUME record' = NoRecord
    PROVE  DecisionsAreOwned'
  BY DEF DecisionsAreOwned

LEMMA ReturnOwned ==
    ASSUME NEW c \in Callers, NEW output, NEW fallback \in BOOLEAN,
           output.key = calls[c].key, output.confident \in BOOLEAN,
           output.origin = IF fallback THEN "fallback" ELSE "primary",
           Return(c, output, fallback)
    PROVE  DecisionsAreOwned'
<1> DEFINE provider == IF fallback THEN "fallback" ELSE "primary"
           disposition == IF ~output.confident THEN "human_review"
                          ELSE IF fallback THEN "fallback" ELSE "accepted"
           new == [output |-> output, key |-> calls[c].key, provider |-> provider,
                   disposition |-> disposition]
<1>1. record' = new
  BY DEF Return
<1>2. disposition = "accepted" => provider = "primary" /\ output.confident
  OBVIOUS
<1>3. output.origin = provider
  OBVIOUS
<1> HIDE DEF provider, disposition
<1>4. new.output = output /\ new.key = calls[c].key /\ new.provider = provider
      /\ new.disposition = disposition
  OBVIOUS
<1> HIDE DEF new
<1> QED BY <1>1, <1>2, <1>3, <1>4 DEF DecisionsAreOwned

\* The place of a caller, and the key it is about.
LEMMA InProgress ==
    ASSUME DecisionTypeOK, NEW c \in Callers,
           calls[c].at \in {"provider", "opened", "failed", "opening", "fallback"}
    PROVE  calls[c].key \in Keys
  BY DEF DecisionTypeOK, CallStates, CallsInProgress, CallsWithOutput, Resting

LEMMA PlaceFacts ==
    ASSUME NEW place \in {"provider", "opened", "failed", "opening", "fallback"},
           NEW key \in Keys
    PROVE  /\ [at |-> place, key |-> key] \in CallStates
           /\ [at |-> place, key |-> key].at = place
  BY DEF CallStates, CallsInProgress

LEMMA RestingFacts == Resting \in CallStates /\ Resting.at = "resting"
  BY DEF CallStates, Resting

LEMMA CachedFacts ==
    ASSUME DecisionTypeOK, NEW key, Cached(key) # {}
    PROVE  LET i == CHOOSE i \in Cached(key) : TRUE
           IN  i \in 1 .. Len(cache) /\ cache[i] \in PrimaryOutputs /\ cache[i].key = key
  BY DEF DecisionTypeOK, Cached

LEMMA KeptType ==
    ASSUME DecisionTypeOK, NEW output \in PrimaryOutputs
    PROVE  Kept(output) \in Seq(PrimaryOutputs)
<1> DEFINE i == Cached(output.key)
           j == CHOOSE j \in i : TRUE
           grown == IF i = {} THEN Append(cache, output) ELSE [cache EXCEPT ![j] = output]
<1>1. cache \in Seq(PrimaryOutputs)
  BY DEF DecisionTypeOK
<1>2. grown \in Seq(PrimaryOutputs) /\ grown # << >>
  <2>1. CASE i = {}
    BY <1>1, <2>1
  <2>2. CASE i # {}
    <3>1. j \in 1 .. Len(cache)
      BY <2>2, CachedFacts
    <3> HIDE DEF j
    <3> QED BY <1>1, <2>2, <3>1
  <2> QED BY <2>1, <2>2
<1>3. Kept(output) = IF Len(grown) > CacheCapacity THEN Tail(grown) ELSE grown
  BY DEF Kept
<1> HIDE DEF grown
<1> QED BY <1>2, <1>3

LEMMA BeginCallGood ==
    ASSUME DecisionInv, NEW c \in Callers, NEW key \in Keys, BeginCall(c, key)
    PROVE  DecisionInv'
<1>1. /\ calls[c].at = "resting" /\ UNCHANGED <<failures, openedAt, cache, now>>
      /\ record' = NoRecord /\ DecisionTypeOK
  BY RestingFacts DEF BeginCall, DecisionInv
<1>2. DecisionsAreOwned'
  BY <1>1, NoRecordOwned
<1>3. CASE key \in Cacheable /\ Cached(key) # {}
  <2> DEFINE output == cache[CHOOSE i \in Cached(key) : TRUE]
             new == [at |-> "hit", key |-> key, output |-> output]
  <2>1. calls' = [calls EXCEPT ![c] = new] /\ UNCHANGED exposure
    BY <1>3 DEF BeginCall
  <2>2. output \in PrimaryOutputs /\ output.key = key
    BY <1>1, <1>3, CachedFacts
  <2> HIDE DEF output
  <2>3. new \in CallsWithOutput
    BY <2>2 DEF CallsWithOutput
  <2>4. new \in CallStates /\ new.at = "hit"
    BY <2>3 DEF CallStates
  <2> HIDE DEF new
  <2>5. DecisionTypeOK'
    BY <1>1, <2>1, <2>4, DecisionTypesKept DEF DecisionTypeOK
  <2>6. BreakerInv'
    BY <1>1, <2>1, <2>4, BreakerLeftAlone
  <2> QED BY <1>2, <2>5, <2>6 DEF DecisionInv
<1>4. CASE ~(key \in Cacheable /\ Cached(key) # {}) /\ openedAt = None
  <2> DEFINE new == [at |-> "provider", key |-> key]
  <2>1. calls' = [calls EXCEPT ![c] = new] /\ exposure' = exposure + 1
    BY <1>4 DEF BeginCall, At
  <2>2. new \in CallStates /\ new.at = "provider"
    BY PlaceFacts
  <2> HIDE DEF new
  <2>3. DecisionTypeOK'
    BY <1>1, <2>1, <2>2, DecisionTypesKept DEF DecisionTypeOK
  <2>4. /\ Cardinality(Asking') = Cardinality(Asking) + Ones(new.at = "provider")
                                    - Ones(calls[c].at = "provider")
        /\ Cardinality(Counting') = Cardinality(Counting)
              + Ones(new.at \in {"failed", "opening"})
              - Ones(calls[c].at \in {"failed", "opening"})
        /\ Cardinality(Asking') + Cardinality(Counting') <= Cardinality(Callers)
    BY <1>1, <2>1, CallerMoves
  <2>5. /\ Cardinality(Asking) \in Nat /\ Cardinality(Counting) \in Nat
        /\ Cardinality(Callers) \in Nat
    BY <1>1, CallersCounted
  <2>6. BreakerInv'
    <3>1. /\ exposure <= failures + Cardinality(Asking)
          /\ failures <= FailureThreshold - 1 + Cardinality(Counting)
          /\ failures \in Nat /\ exposure \in Nat /\ FailureThreshold \in Nat
      BY <1>4, DecisionAssumption DEF DecisionInv, BreakerInv, DecisionTypeOK
    <3>2. /\ Ones(new.at = "provider") = 1 /\ Ones(calls[c].at = "provider") = 0
          /\ Ones(new.at \in {"failed", "opening"}) = 0
          /\ Ones(calls[c].at \in {"failed", "opening"}) = 0
      BY <1>1, <2>2 DEF Ones
    <3>3. /\ Cardinality(Asking') = Cardinality(Asking) + 1
          /\ Cardinality(Counting') = Cardinality(Counting)
      BY <2>4, <2>5, <3>2
    <3>4. exposure + 1 <= FailureThreshold + Cardinality(Callers) - 1
      BY <2>4, <2>5, <3>1, <3>3
    <3>5. exposure' <= failures' + Cardinality(Asking')
      BY <1>1, <2>1, <2>5, <3>1, <3>3
    <3> QED BY <1>1, <2>1, <3>1, <3>3, <3>4, <3>5 DEF BreakerInv, BreakerBoundsExposure
  <2> QED BY <1>2, <2>3, <2>6 DEF DecisionInv
<1>5. CASE ~(key \in Cacheable /\ Cached(key) # {}) /\ openedAt # None
  <2> DEFINE new == [at |-> "opened", key |-> key]
  <2>1. calls' = [calls EXCEPT ![c] = new] /\ exposure' = exposure
    BY <1>5 DEF BeginCall, At
  <2>2. new \in CallStates /\ new.at = "opened"
    BY PlaceFacts
  <2> HIDE DEF new
  <2>3. DecisionTypeOK'
    BY <1>1, <2>1, <2>2, DecisionTypesKept DEF DecisionTypeOK
  <2>4. BreakerInv'
    BY <1>1, <2>1, <2>2, BreakerLeftAlone
  <2> QED BY <1>2, <2>3, <2>4 DEF DecisionInv
<1> QED BY <1>3, <1>4, <1>5
\* The breaker is reset, by a success or for a trial call.
LEMMA BreakerReset ==
    ASSUME DecisionInv, NEW c \in Callers, NEW new,
           calls' = [calls EXCEPT ![c] = new], failures' = 0, openedAt' = None,
           exposure' = 0 \/ (exposure' = 1 /\ new.at = "provider")
    PROVE  BreakerInv'
<1>1. /\ Cardinality(Asking') \in Nat /\ Cardinality(Counting') \in Nat
      /\ Cardinality(Asking') + Cardinality(Counting') <= Cardinality(Callers)
      /\ Cardinality(Callers) \in Nat
  BY CallerMoves, CallersCounted DEF DecisionInv
<1>2. FailureThreshold \in Nat /\ FailureThreshold >= 1
  BY DecisionAssumption
<1>3. Cardinality(Callers) # 0
  BY DecisionAssumption, FS_EmptySet
<1>4. ASSUME new.at = "provider" PROVE Cardinality(Asking') # 0
  <2>1. calls'[c] = new
    BY DEF DecisionInv, DecisionTypeOK
  <2>2. c \in Asking' /\ Asking' \subseteq Callers
    BY <1>4, <2>1 DEF Asking
  <2>3. IsFiniteSet(Asking')
    BY <2>2, DecisionAssumption, FS_Subset
  <2> QED BY <2>2, <2>3, FS_EmptySet
<1>5. exposure' <= Cardinality(Asking')
  BY <1>1, <1>4
<1>6. exposure' <= FailureThreshold + Cardinality(Callers) - 1
  BY <1>1, <1>2, <1>3
<1> QED BY <1>1, <1>2, <1>5, <1>6 DEF BreakerInv, BreakerBoundsExposure

LEMMA AllowOpenedGood ==
    ASSUME DecisionInv, NEW c \in Callers, AllowOpened(c)
    PROVE  DecisionInv'
<1>1. /\ calls[c].at = "opened" /\ UNCHANGED <<cache, now>> /\ record' = NoRecord
      /\ DecisionTypeOK
  BY DEF AllowOpened, DecisionInv
<1>2. DecisionsAreOwned' /\ calls[c].key \in Keys
  BY <1>1, NoRecordOwned, InProgress
<1>3. CASE Allow
  <2> DEFINE new == [at |-> "provider", key |-> calls[c].key]
  <2>1. /\ calls' = [calls EXCEPT ![c] = new] /\ failures' = 0 /\ openedAt' = None
        /\ exposure' = 1
    BY <1>3 DEF AllowOpened, At, Allow
  <2>2. new \in CallStates /\ new.at = "provider"
    BY <1>2, PlaceFacts
  <2> HIDE DEF new
  <2>3. DecisionTypeOK'
    BY <1>1, <2>1, <2>2, DecisionTypesKept DEF DecisionTypeOK
  <2> QED BY <1>2, <2>1, <2>2, <2>3, BreakerReset DEF DecisionInv
<1>4. CASE ~Allow
  <2> DEFINE new == [at |-> "fallback", key |-> calls[c].key]
  <2>1. calls' = [calls EXCEPT ![c] = new] /\ UNCHANGED <<failures, openedAt, exposure>>
    BY <1>4 DEF AllowOpened, At
  <2>2. new \in CallStates /\ new.at = "fallback"
    BY <1>2, PlaceFacts
  <2> HIDE DEF new
  <2>3. DecisionTypeOK'
    BY <1>1, <2>1, <2>2, DecisionTypesKept DEF DecisionTypeOK
  <2> QED BY <1>1, <1>2, <2>1, <2>2, <2>3, BreakerLeftAlone DEF DecisionInv
<1> QED BY <1>3, <1>4

\* A caller gives up, or its evaluate raises.
LEMMA CallEnds ==
    ASSUME DecisionInv, NEW c \in Callers,
           calls' = [calls EXCEPT ![c] = Resting],
           calls[c].at \notin {"provider", "failed", "opening"},
           UNCHANGED <<failures, openedAt, exposure, now>>, cache' \in Seq(PrimaryOutputs),
           DecisionsAreOwned'
    PROVE  DecisionInv'
<1>1. DecisionTypeOK'
  BY RestingFacts, DecisionTypesKept DEF DecisionInv, DecisionTypeOK
<1>2. BreakerInv'
  BY RestingFacts, BreakerLeftAlone
<1> QED BY <1>1, <1>2 DEF DecisionInv

LEMMA HitGood ==
    ASSUME DecisionInv, NEW c \in Callers, Hit(c)
    PROVE  DecisionInv'
<1>1. calls[c].at = "hit" /\ UNCHANGED <<failures, openedAt, now, exposure>> /\ DecisionTypeOK
  BY DEF Hit, DecisionInv
<1>2. calls[c].output \in PrimaryOutputs /\ calls[c].output.key = calls[c].key
  BY <1>1 DEF DecisionTypeOK, CallStates, CallsInProgress, CallsWithOutput, Resting
<1>3. CASE Cached(calls[c].key) # {}
  <2> DEFINE i == CHOOSE i \in Cached(calls[c].key) : TRUE
  <2>1. cache' = Append(RemoveAt(cache, i), cache[i]) /\ Return(c, calls[c].output, FALSE)
    BY <1>3 DEF Hit
  <2>2. i \in 1 .. Len(cache) /\ cache[i] \in PrimaryOutputs
    BY <1>1, <1>3, CachedFacts
  <2> HIDE DEF i
  <2>3. cache' \in Seq(PrimaryOutputs)
    <3>1. cache \in Seq(PrimaryOutputs)
      BY <1>1 DEF DecisionTypeOK
    <3>2. RemoveAt(cache, i) \in Seq(PrimaryOutputs)
      BY <2>2, <3>1 DEF RemoveAt
    <3> QED BY <2>1, <2>2, <3>2
  <2>4. DecisionsAreOwned'
    BY <1>2, <2>1, ReturnOwned DEF PrimaryOutputs
  <2> QED BY <1>1, <2>1, <2>3, <2>4, CallEnds DEF Return
<1>4. CASE Cached(calls[c].key) = {}
  BY <1>1, <1>4, NoRecordOwned, CallEnds DEF Hit, DecisionTypeOK
<1> QED BY <1>3, <1>4

LEMMA ProviderDecidesGood ==
    ASSUME DecisionInv, NEW c \in Callers, ProviderDecides(c)
    PROVE  DecisionInv'
<1>1. PICK confident \in BOOLEAN :
         LET output == Output("primary", calls[c].key, confident) IN
         /\ calls[c].at = "provider"
         /\ failures' = 0 /\ openedAt' = None /\ exposure' = 0
         /\ cache' = IF calls[c].key \in Cacheable THEN Kept(output) ELSE cache
         /\ Return(c, output, FALSE)
         /\ UNCHANGED now
  BY DEF ProviderDecides
<1> DEFINE output == Output("primary", calls[c].key, confident)
<1>2. calls[c].key \in Keys /\ DecisionTypeOK
  BY <1>1, InProgress DEF DecisionInv
<1>3. /\ output \in PrimaryOutputs /\ output.key = calls[c].key
      /\ output.origin = "primary" /\ output.confident = confident
  BY <1>2 DEF Output, PrimaryOutputs
<1>4. /\ cache' = (IF calls[c].key \in Cacheable THEN Kept(output) ELSE cache)
      /\ Return(c, output, FALSE)
  BY <1>1
<1> HIDE DEF output
<1>5. cache' \in Seq(PrimaryOutputs)
  BY <1>2, <1>3, <1>4, KeptType DEF DecisionTypeOK
<1>6. DecisionsAreOwned'
  BY <1>3, <1>4, ReturnOwned
<1>7. calls' = [calls EXCEPT ![c] = Resting]
  BY <1>4 DEF Return
<1>8. DecisionTypeOK'
  BY <1>1, <1>2, <1>5, <1>7, RestingFacts, DecisionTypesKept DEF DecisionTypeOK
<1>9. BreakerInv'
  BY <1>1, <1>7, BreakerReset
<1> QED BY <1>6, <1>8, <1>9 DEF DecisionInv

LEMMA ProviderFailsGood ==
    ASSUME DecisionInv, NEW c \in Callers, ProviderFails(c)
    PROVE  DecisionInv'
<1> DEFINE new == [at |-> "failed", key |-> calls[c].key]
<1>1. /\ calls[c].at = "provider" /\ failures' = failures + 1
      /\ calls' = [calls EXCEPT ![c] = new]
      /\ UNCHANGED <<openedAt, cache, now, exposure>> /\ record' = NoRecord /\ DecisionTypeOK
  BY DEF ProviderFails, At, DecisionInv
<1>2. DecisionsAreOwned' /\ calls[c].key \in Keys
  BY <1>1, NoRecordOwned, InProgress
<1>3. new \in CallStates /\ new.at = "failed"
  BY <1>2, PlaceFacts
<1> HIDE DEF new
<1>4. DecisionTypeOK'
  BY <1>1, <1>3, DecisionTypesKept DEF DecisionTypeOK
<1>5. /\ Cardinality(Asking') = Cardinality(Asking) + Ones(new.at = "provider")
                                  - Ones(calls[c].at = "provider")
      /\ Cardinality(Counting') = Cardinality(Counting)
            + Ones(new.at \in {"failed", "opening"})
            - Ones(calls[c].at \in {"failed", "opening"})
  BY <1>1, CallerMoves
<1>6. /\ Ones(new.at = "provider") = 0 /\ Ones(calls[c].at = "provider") = 1
      /\ Ones(new.at \in {"failed", "opening"}) = 1
      /\ Ones(calls[c].at \in {"failed", "opening"}) = 0
  BY <1>1, <1>3 DEF Ones
<1>7. Cardinality(Asking) \in Nat /\ Cardinality(Counting) \in Nat
  BY <1>1, CallersCounted
<1>8. /\ Cardinality(Asking') = Cardinality(Asking) - 1
      /\ Cardinality(Counting') = Cardinality(Counting) + 1
  BY <1>5, <1>6, <1>7
<1>9. failures \in Nat /\ exposure \in Nat /\ FailureThreshold \in Nat
  BY <1>1, DecisionAssumption DEF DecisionTypeOK
<1>10. exposure' <= failures' + Cardinality(Asking')
  BY <1>1, <1>7, <1>8, <1>9 DEF DecisionInv, BreakerInv
<1>11. openedAt' = None => failures' <= FailureThreshold - 1 + Cardinality(Counting')
  BY <1>1, <1>7, <1>8, <1>9 DEF DecisionInv, BreakerInv
<1>12. BreakerBoundsExposure'
  BY <1>1 DEF DecisionInv, BreakerInv, BreakerBoundsExposure
<1> QED BY <1>2, <1>4, <1>10, <1>11, <1>12 DEF DecisionInv, BreakerInv

LEMMA CompareGood ==
    ASSUME DecisionInv, NEW c \in Callers, Compare(c)
    PROVE  DecisionInv'
<1> DEFINE place == IF failures >= FailureThreshold THEN "opening" ELSE "fallback"
           new == [at |-> place, key |-> calls[c].key]
<1>1. /\ calls[c].at = "failed" /\ calls' = [calls EXCEPT ![c] = new]
      /\ UNCHANGED <<failures, openedAt, cache, now, exposure>> /\ record' = NoRecord
      /\ DecisionTypeOK
  BY DEF Compare, At, DecisionInv
<1>2. DecisionsAreOwned' /\ calls[c].key \in Keys
  BY <1>1, NoRecordOwned, InProgress
<1>3. new \in CallStates /\ new.at = place
  BY <1>2, PlaceFacts
<1> HIDE DEF new
<1>4. DecisionTypeOK'
  BY <1>1, <1>3, DecisionTypesKept DEF DecisionTypeOK
<1>5. /\ Cardinality(Asking') = Cardinality(Asking) + Ones(new.at = "provider")
                                  - Ones(calls[c].at = "provider")
      /\ Cardinality(Counting') = Cardinality(Counting)
            + Ones(new.at \in {"failed", "opening"})
            - Ones(calls[c].at \in {"failed", "opening"})
      /\ Cardinality(Counting') \in Nat
  BY <1>1, CallerMoves
<1>6. /\ Ones(new.at = "provider") = 0 /\ Ones(calls[c].at = "provider") = 0
      /\ Ones(new.at \in {"failed", "opening"}) = Ones(failures >= FailureThreshold)
      /\ Ones(calls[c].at \in {"failed", "opening"}) = 1
  BY <1>1, <1>3 DEF Ones
<1>7. Cardinality(Asking) \in Nat /\ Cardinality(Counting) \in Nat
  BY <1>1, CallersCounted
<1>8. failures \in Nat /\ exposure \in Nat /\ FailureThreshold \in Nat
  BY <1>1, DecisionAssumption DEF DecisionTypeOK
<1>9. Cardinality(Asking') = Cardinality(Asking)
  BY <1>5, <1>6, <1>7
<1>10. openedAt = None => failures <= FailureThreshold - 1 + Cardinality(Counting')
  <2>1. CASE failures >= FailureThreshold
    <3>1. Ones(failures >= FailureThreshold) = 1
      BY <2>1 DEF Ones
    <3>2. Cardinality(Counting') = Cardinality(Counting)
      BY <1>5, <1>6, <1>7, <3>1
    <3> QED BY <3>2 DEF DecisionInv, BreakerInv
  <2>2. CASE ~(failures >= FailureThreshold)
    BY <1>5, <1>8, <2>2
  <2> QED BY <2>1, <2>2
<1>11. exposure' <= failures' + Cardinality(Asking') /\ BreakerBoundsExposure'
  BY <1>1, <1>9 DEF DecisionInv, BreakerInv, BreakerBoundsExposure
<1> QED BY <1>1, <1>2, <1>4, <1>10, <1>11 DEF DecisionInv, BreakerInv

LEMMA OpenGood ==
    ASSUME DecisionInv, NEW c \in Callers, Open(c)
    PROVE  DecisionInv'
<1> DEFINE new == [at |-> "fallback", key |-> calls[c].key]
<1>1. /\ calls[c].at = "opening" /\ openedAt' = now /\ calls' = [calls EXCEPT ![c] = new]
      /\ UNCHANGED <<failures, cache, now, exposure>> /\ record' = NoRecord /\ DecisionTypeOK
  BY DEF Open, At, DecisionInv
<1>2. DecisionsAreOwned' /\ calls[c].key \in Keys
  BY <1>1, NoRecordOwned, InProgress
<1>3. new \in CallStates /\ new.at = "fallback"
  BY <1>2, PlaceFacts
<1> HIDE DEF new
<1>4. DecisionTypeOK'
  BY <1>1, <1>3, DecisionTypesKept DEF DecisionTypeOK
<1>5. Cardinality(Asking') = Cardinality(Asking) + Ones(new.at = "provider")
                               - Ones(calls[c].at = "provider")
  BY <1>1, CallerMoves
<1>6. Ones(new.at = "provider") = 0 /\ Ones(calls[c].at = "provider") = 0
  BY <1>1, <1>3 DEF Ones
<1>7. Cardinality(Asking) \in Nat
  BY <1>1, CallersCounted
<1>8. Cardinality(Asking') = Cardinality(Asking)
  BY <1>5, <1>6, <1>7
<1>9. openedAt' # None
  BY <1>1 DEF DecisionTypeOK, None
<1>10. exposure' <= failures' + Cardinality(Asking') /\ BreakerBoundsExposure'
  BY <1>1, <1>8 DEF DecisionInv, BreakerInv, BreakerBoundsExposure
<1> QED BY <1>2, <1>4, <1>9, <1>10 DEF DecisionInv, BreakerInv

LEMMA FallbackDecidesGood ==
    ASSUME DecisionInv, NEW c \in Callers, FallbackDecides(c)
    PROVE  DecisionInv'
<1>1. PICK confident \in BOOLEAN :
         /\ calls[c].at = "fallback"
         /\ Return(c, Output("fallback", calls[c].key, confident), TRUE)
         /\ UNCHANGED <<failures, openedAt, cache, now, exposure>>
  BY DEF FallbackDecides
<1> DEFINE output == Output("fallback", calls[c].key, confident)
<1>2. /\ output.key = calls[c].key /\ output.origin = "fallback"
      /\ output.confident = confident
  BY DEF Output
<1>3. Return(c, output, TRUE)
  BY <1>1
<1> HIDE DEF output
<1>4. DecisionsAreOwned' /\ calls' = [calls EXCEPT ![c] = Resting]
  BY <1>2, <1>3, ReturnOwned DEF Return
<1> QED BY <1>1, <1>4, CallEnds DEF DecisionInv, DecisionTypeOK

(***************************************************************************)
(* The steps of the callers and of the clock keep the invariant.           *)
(***************************************************************************)
LEMMA DecisionNextGood == DecisionInv /\ [DecisionNext]_decisionVars => DecisionInv'
<1> SUFFICES ASSUME DecisionInv, [DecisionNext]_decisionVars PROVE DecisionInv'
  OBVIOUS
<1>1. ASSUME NEW c \in Callers, AllowRaises(c) \/ FallbackFails(c) PROVE DecisionInv'
  <2>1. /\ calls' = [calls EXCEPT ![c] = Resting] /\ calls[c].at \in {"opened", "fallback"}
        /\ UNCHANGED <<failures, openedAt, cache, now, exposure>> /\ record' = NoRecord
    BY <1>1 DEF AllowRaises, FallbackFails
  <2>2. DecisionsAreOwned'
    BY <2>1, NoRecordOwned
  <2> QED BY <2>1, <2>2, CallEnds DEF DecisionInv, DecisionTypeOK
<1>2. ASSUME ClockTicks PROVE DecisionInv'
  <2>1. /\ now' = now + 1 /\ record' = NoRecord
        /\ UNCHANGED <<failures, openedAt, cache, calls, exposure>>
    BY <1>2 DEF ClockTicks
  <2>2. DecisionTypeOK' /\ DecisionsAreOwned'
    BY <2>1, NoRecordOwned DEF DecisionInv, DecisionTypeOK
  <2>3. BreakerInv'
    BY <2>1 DEF DecisionInv, BreakerInv, BreakerBoundsExposure, Asking, Counting
  <2> QED BY <2>2, <2>3 DEF DecisionInv
<1>3. ASSUME UNCHANGED decisionVars PROVE DecisionInv'
  BY <1>3 DEF decisionVars, DecisionInv, DecisionTypeOK, BreakerInv, BreakerBoundsExposure,
     DecisionsAreOwned, Asking, Counting
<1> QED BY <1>1, <1>2, <1>3, BeginCallGood, AllowOpenedGood, HitGood, ProviderDecidesGood,
           ProviderFailsGood, CompareGood, OpenGood, FallbackDecidesGood DEF DecisionNext

LEMMA DecisionInitGood == DecisionInit => DecisionInv
<1> SUFFICES ASSUME DecisionInit PROVE DecisionInv
  OBVIOUS
<1>1. DecisionTypeOK
  BY RestingFacts DEF DecisionInit, DecisionTypeOK
<1>2. /\ Cardinality(Asking) \in Nat /\ Cardinality(Counting) \in Nat
      /\ Cardinality(Callers) \in Nat
  BY <1>1, CallersCounted
<1>3. FailureThreshold \in Nat /\ FailureThreshold >= 1
  BY DecisionAssumption
<1>4. BreakerInv
  BY <1>2, <1>3 DEF DecisionInit, BreakerInv, BreakerBoundsExposure
<1> QED BY <1>1, <1>4 DEF DecisionInv, DecisionInit, DecisionsAreOwned

(***************************************************************************)
(* For any number of threads, keys and any capacity of the cache: whatever *)
(* evaluate returns was decided by whom the record names and for the key   *)
(* it is returned for, and only the primary provider is accepted.          *)
(***************************************************************************)
THEOREM DecisionsOwnedAlways == DecisionSpec => []DecisionsAreOwned
<1>1. DecisionInv => DecisionsAreOwned
  BY DEF DecisionInv
<1> QED BY <1>1, DecisionInitGood, DecisionNextGood, PTL DEF DecisionSpec

(***************************************************************************)
(* For any finite number of threads and any positive threshold: a provider *)
(* that keeps failing is asked at most threshold plus threads less one     *)
(* times between two successes or resets, without any lock.                *)
(***************************************************************************)
THEOREM ExposureIsBounded == DecisionSpec => []BreakerBoundsExposure
<1>1. DecisionInv => BreakerBoundsExposure
  BY DEF DecisionInv, BreakerInv
<1> QED BY <1>1, DecisionInitGood, DecisionNextGood, PTL DEF DecisionSpec
-----------------------------------------------------------------------------
(***************************************************************************)
(* The banking service.  The map is a stack of the events by their last    *)
(* use: behind each of them are exactly the events answered since its last *)
(* answer, and that answer is the one remembered.  An event that is        *)
(* forgotten had at least MaxIdempotencyKeys others answered since.        *)
(***************************************************************************)
Answers == [event : Events, decision : {"approve", "review", "decline"}]

EventsAt(r, i, j) == {r[k].event : k \in i .. j}

After(l, r) == EventsAt(r, l + 1, Len(r))

IsLast(l, r) == l \in 1 .. Len(r) /\ \A k \in l + 1 .. Len(r) : r[k].event # r[l].event

Distinct(s) == \A p, q \in 1 .. Len(s) : s[p].event = s[q].event => p = q

Ordered(s, r) ==
    \A p \in 1 .. Len(s) :
        \E l \in 1 .. Len(r) : IsLast(l, r) /\ r[l] = s[p] /\ After(l, r) = After(p, s)

Forgets(e, s) == \A p \in 1 .. Len(s) : s[p].event # e

Forgotten(s, r) ==
    \A l \in 1 .. Len(r) : IsLast(l, r) /\ Forgets(r[l].event, s) =>
        Cardinality(After(l, r)) >= MaxIdempotencyKeys

HasLast(r) ==
    \A i \in 1 .. Len(r) :
        \E l \in i .. Len(r) : IsLast(l, r) /\ r[l].event = r[i].event

Between(i, j, r) == EventsAt(r, i + 1, j - 1)

Agree(r) ==
    \A i, j \in 1 .. Len(r) :
        i < j /\ r[i].event = r[j].event /\ r[i].decision # r[j].decision =>
            Cardinality(Between(i, j, r) \ {r[i].event}) >= MaxIdempotencyKeys

BankingInv ==
    /\ seen \in Seq(Answers) /\ replies \in Seq(Answers)
    /\ Distinct(seen) /\ Ordered(seen, replies) /\ Forgotten(seen, replies)
    /\ HasLast(replies) /\ Agree(replies)

LEMMA EventsFinite ==
    ASSUME NEW r, NEW a \in Int, NEW b \in Int
    PROVE  IsFiniteSet(EventsAt(r, a, b)) /\ Cardinality(EventsAt(r, a, b)) \in Nat
<1> DEFINE T == EventsAt(r, a, b)
           f == [k \in a .. b |-> r[k].event]
<1>1. IsFiniteSet(a .. b)
  BY FS_Interval
<1>2. f \in Surjection(a .. b, T)
  BY DEF Surjection, EventsAt
<1>3. IsFiniteSet(T)
  BY <1>1, <1>2, FS_Surjection
<1> QED BY <1>3, FS_CardinalityType

\* More events are not fewer.
LEMMA MoreEvents ==
    ASSUME NEW S, NEW T, IsFiniteSet(T), S \subseteq T, NEW n \in Nat, Cardinality(S) >= n
    PROVE  Cardinality(T) >= n
<1>1. Cardinality(S) <= Cardinality(T) /\ IsFiniteSet(S)
  BY FS_Subset
<1>2. Cardinality(S) \in Nat /\ Cardinality(T) \in Nat
  BY <1>1, FS_CardinalityType
<1> QED BY <1>1, <1>2

LEMMA DistinctCount ==
    ASSUME NEW s \in Seq(Answers), Distinct(s), s # << >>
    PROVE  Cardinality(After(1, s)) = Len(s) - 1
<1> DEFINE T == After(1, s)
           f == [k \in 2 .. Len(s) |-> s[k].event]
<1>1. Len(s) \in Nat /\ Len(s) >= 1
  OBVIOUS
<1>2. IsFiniteSet(2 .. Len(s)) /\ Cardinality(2 .. Len(s)) = Len(s) - 1
  <2>1. Cardinality(2 .. Len(s)) = IF 2 > Len(s) THEN 0 ELSE Len(s) - 2 + 1
    BY <1>1, FS_Interval
  <2> QED BY <1>1, <2>1, FS_Interval
<1>3. T = {s[k].event : k \in 2 .. Len(s)}
  BY <1>1 DEF After, EventsAt
<1>4. f \in Surjection(2 .. Len(s), T)
  BY <1>3 DEF Surjection
<1>5. \A p, q \in 2 .. Len(s) : f[p] = f[q] => p = q
  BY <1>1 DEF Distinct
<1>6. f \in Injection(2 .. Len(s), T)
  BY <1>4, <1>5 DEF Injection, Surjection, IsInjective
<1>7. ExistsBijection(2 .. Len(s), T)
  BY <1>4, <1>6 DEF ExistsBijection, Bijection
<1> QED BY <1>2, <1>7, FS_Bijection

\* One more reply, or one more event in the map.
IsAppend(r2, r, a) ==
    /\ Len(r) \in Nat /\ Len(r2) = Len(r) + 1 /\ r2[Len(r) + 1] = a
    /\ \A k \in 1 .. Len(r) : r2[k] = r[k]

LEMMA AppendFacts ==
    ASSUME NEW r \in Seq(Answers), NEW a \in Answers
    PROVE  Append(r, a) \in Seq(Answers) /\ IsAppend(Append(r, a), r, a)
  BY DEF IsAppend

LEMMA AppendAfter ==
    ASSUME NEW r, NEW r2, NEW a, IsAppend(r2, r, a)
    PROVE  /\ \A l \in 1 .. Len(r) : After(l, r2) = After(l, r) \cup {a.event}
           /\ After(Len(r) + 1, r2) = {}
<1>1. ASSUME NEW l \in 1 .. Len(r) PROVE After(l, r2) = After(l, r) \cup {a.event}
  <2>1. l + 1 .. Len(r2) = (l + 1 .. Len(r)) \cup {Len(r) + 1}
    BY DEF IsAppend
  <2>2. \A k \in l + 1 .. Len(r) : r2[k] = r[k]
    BY DEF IsAppend
  <2>3. r2[Len(r) + 1] = a
    BY DEF IsAppend
  <2> QED BY <2>1, <2>2, <2>3 DEF After, EventsAt
<1>2. After(Len(r) + 1, r2) = {}
  BY DEF After, EventsAt, IsAppend
<1> QED BY <1>1, <1>2

LEMMA AppendLast ==
    ASSUME NEW r, NEW r2, NEW a, IsAppend(r2, r, a)
    PROVE  /\ \A l \in 1 .. Len(r) : IsLast(l, r) /\ r[l].event # a.event => IsLast(l, r2)
           /\ \A l \in 1 .. Len(r) : IsLast(l, r2) => IsLast(l, r) /\ r[l].event # a.event
           /\ IsLast(Len(r) + 1, r2)
<1>1. ASSUME NEW l \in 1 .. Len(r), IsLast(l, r), r[l].event # a.event PROVE IsLast(l, r2)
  <2>1. \A k \in l + 1 .. Len(r2) : k \in l + 1 .. Len(r) \/ k = Len(r) + 1
    BY DEF IsAppend
  <2> QED BY <1>1, <2>1 DEF IsLast, IsAppend
<1>2. ASSUME NEW l \in 1 .. Len(r), IsLast(l, r2)
      PROVE  IsLast(l, r) /\ r[l].event # a.event
  BY <1>2 DEF IsLast, IsAppend
<1>3. IsLast(Len(r) + 1, r2)
  BY DEF IsLast, IsAppend
<1> QED BY <1>1, <1>2, <1>3

LEMMA HasLastKept ==
    ASSUME NEW r, NEW r2, NEW a, IsAppend(r2, r, a), HasLast(r)
    PROVE  HasLast(r2)
<1>1. /\ Len(r2) = Len(r) + 1 /\ Len(r) \in Nat /\ r2[Len(r) + 1] = a
      /\ \A k \in 1 .. Len(r) : r2[k] = r[k]
  BY DEF IsAppend
<1>2. /\ \A l \in 1 .. Len(r) : IsLast(l, r) /\ r[l].event # a.event => IsLast(l, r2)
      /\ IsLast(Len(r) + 1, r2)
  BY AppendLast
<1> SUFFICES ASSUME NEW i \in 1 .. Len(r2)
             PROVE  \E l \in i .. Len(r2) : IsLast(l, r2) /\ r2[l].event = r2[i].event
  BY DEF HasLast
<1>3. CASE r2[i].event = a.event
  BY <1>1, <1>2, <1>3
<1>4. CASE r2[i].event # a.event
  <2>1. i \in 1 .. Len(r) /\ r2[i] = r[i]
    BY <1>1, <1>4
  <2>2. PICK l \in i .. Len(r) : IsLast(l, r) /\ r[l].event = r[i].event
    BY <2>1 DEF HasLast
  <2>3. l \in 1 .. Len(r) /\ r2[l] = r[l] /\ l \in i .. Len(r2)
    BY <1>1, <2>1, <2>2
  <2> QED BY <1>2, <1>4, <2>1, <2>2, <2>3
<1> QED BY <1>3, <1>4

\* A new event is remembered.
LEMMA RememberOrdered ==
    ASSUME NEW s, NEW r, NEW a, NEW s2, NEW r2, IsAppend(s2, s, a), IsAppend(r2, r, a),
           Distinct(s), Ordered(s, r), Forgotten(s, r), Forgets(a.event, s)
    PROVE  Distinct(s2) /\ Ordered(s2, r2) /\ Forgotten(s2, r2)
<1>1. /\ Len(r2) = Len(r) + 1 /\ Len(r) \in Nat /\ r2[Len(r) + 1] = a
      /\ \A k \in 1 .. Len(r) : r2[k] = r[k]
      /\ \A l \in 1 .. Len(r) : After(l, r2) = After(l, r) \cup {a.event}
      /\ After(Len(r) + 1, r2) = {}
  BY AppendAfter, Zenon DEF IsAppend
<1>2. /\ Len(s2) = Len(s) + 1 /\ Len(s) \in Nat /\ s2[Len(s) + 1] = a
      /\ \A k \in 1 .. Len(s) : s2[k] = s[k]
      /\ \A l \in 1 .. Len(s) : After(l, s2) = After(l, s) \cup {a.event}
      /\ After(Len(s) + 1, s2) = {}
  BY AppendAfter, Zenon DEF IsAppend
<1>3. /\ \A l \in 1 .. Len(r) : IsLast(l, r) /\ r[l].event # a.event => IsLast(l, r2)
      /\ \A l \in 1 .. Len(r) : IsLast(l, r2) => IsLast(l, r) /\ r[l].event # a.event
      /\ IsLast(Len(r) + 1, r2)
  BY AppendLast
<1>4. Distinct(s2)
  <2> SUFFICES ASSUME NEW p \in 1 .. Len(s2), NEW q \in 1 .. Len(s2),
                      s2[p].event = s2[q].event
               PROVE  p = q
    BY DEF Distinct
  <2>1. /\ p \in 1 .. Len(s) \/ p = Len(s) + 1
        /\ q \in 1 .. Len(s) \/ q = Len(s) + 1
    BY <1>2
  <2> QED BY <1>2, <2>1 DEF Distinct, Forgets
<1>5. Ordered(s2, r2)
  <2> SUFFICES ASSUME NEW p \in 1 .. Len(s2)
               PROVE  \E l \in 1 .. Len(r2) :
                         IsLast(l, r2) /\ r2[l] = s2[p] /\ After(l, r2) = After(p, s2)
    BY DEF Ordered
  <2>1. CASE p = Len(s) + 1
    <3>1. Len(r) + 1 \in 1 .. Len(r2)
      BY <1>1
    <3> QED BY <1>1, <1>2, <1>3, <2>1, <3>1
  <2>2. CASE p \in 1 .. Len(s)
    <3>1. PICK l \in 1 .. Len(r) : IsLast(l, r) /\ r[l] = s[p] /\ After(l, r) = After(p, s)
      BY <2>2 DEF Ordered
    <3>2. r[l].event # a.event /\ l \in 1 .. Len(r2)
      BY <1>1, <2>2, <3>1 DEF Forgets
    <3>3. IsLast(l, r2) /\ r2[l] = s2[p] /\ After(l, r2) = After(p, s2)
      BY <1>1, <1>2, <1>3, <2>2, <3>1, <3>2
    <3> QED BY <3>2, <3>3
  <2> QED BY <1>2, <2>1, <2>2
<1>6. Forgotten(s2, r2)
  <2> SUFFICES ASSUME NEW l \in 1 .. Len(r2), IsLast(l, r2), Forgets(r2[l].event, s2)
               PROVE  Cardinality(After(l, r2)) >= MaxIdempotencyKeys
    BY DEF Forgotten
  <2>1. Len(s) + 1 \in 1 .. Len(s2)
    BY <1>2
  <2>2. l \in 1 .. Len(r)
    BY <1>1, <1>2, <2>1 DEF Forgets
  <2>3. IsLast(l, r) /\ r2[l] = r[l] /\ After(l, r) \subseteq After(l, r2)
    BY <1>1, <1>3, <2>2
  <2>4. Forgets(r[l].event, s)
    BY <1>2, <2>3 DEF Forgets
  <2>5. Cardinality(After(l, r)) >= MaxIdempotencyKeys
    BY <2>2, <2>3, <2>4 DEF Forgotten
  <2>6. IsFiniteSet(After(l, r2))
    <3>1. l + 1 \in Int /\ Len(r2) \in Int
      BY <1>1
    <3> QED BY <3>1, EventsFinite DEF After
  <2> QED BY <2>3, <2>5, <2>6, MoreEvents, BankingAssumption
<1> QED BY <1>4, <1>5, <1>6
\* The least recently used event is forgotten, as the map is too long.
IsTail(s2, s) ==
    /\ Len(s) \in Nat \ {0} /\ Len(s2) = Len(s) - 1
    /\ \A k \in 1 .. Len(s2) : s2[k] = s[k + 1]

LEMMA EvictOrdered ==
    ASSUME NEW s \in Seq(Answers), NEW r, NEW s2, IsTail(s2, s), Len(r) \in Nat,
           Len(s) > MaxIdempotencyKeys, Distinct(s), Ordered(s, r), Forgotten(s, r)
    PROVE  Distinct(s2) /\ Ordered(s2, r) /\ Forgotten(s2, r)
<1>1. /\ Len(s) \in Nat \ {0} /\ Len(s2) = Len(s) - 1 /\ Len(s2) \in Nat
      /\ \A k \in 1 .. Len(s2) : s2[k] = s[k + 1] /\ k + 1 \in 1 .. Len(s)
  BY DEF IsTail
<1>2. ASSUME NEW p \in 1 .. Len(s2) PROVE After(p, s2) = After(p + 1, s)
  <2>1. ASSUME NEW k \in p + 1 .. Len(s2) PROVE s2[k].event \in After(p + 1, s)
    BY <1>1 DEF After, EventsAt
  <2>2. ASSUME NEW k \in p + 1 + 1 .. Len(s) PROVE s[k].event \in After(p, s2)
    <3>1. k - 1 \in p + 1 .. Len(s2) /\ k - 1 \in 1 .. Len(s2) /\ k - 1 + 1 = k
      BY <1>1
    <3>2. s2[k - 1] = s[k]
      BY <1>1, <3>1
    <3> QED BY <3>1, <3>2 DEF After, EventsAt
  <2> QED BY <1>1, <2>1, <2>2 DEF After, EventsAt
<1>3. Distinct(s2)
  <2> SUFFICES ASSUME NEW p \in 1 .. Len(s2), NEW q \in 1 .. Len(s2),
                      s2[p].event = s2[q].event
               PROVE  p = q
    BY DEF Distinct
  <2>1. p + 1 \in 1 .. Len(s) /\ q + 1 \in 1 .. Len(s) /\ s[p + 1].event = s[q + 1].event
    BY <1>1
  <2>2. p + 1 = q + 1
    BY <2>1 DEF Distinct
  <2> QED BY <1>1, <2>2
<1>4. Ordered(s2, r)
  <2> SUFFICES ASSUME NEW p \in 1 .. Len(s2)
               PROVE  \E l \in 1 .. Len(r) :
                         IsLast(l, r) /\ r[l] = s2[p] /\ After(l, r) = After(p, s2)
    BY DEF Ordered
  <2>1. p + 1 \in 1 .. Len(s) /\ s2[p] = s[p + 1]
    BY <1>1
  <2>2. PICK l \in 1 .. Len(r) :
           IsLast(l, r) /\ r[l] = s[p + 1] /\ After(l, r) = After(p + 1, s)
    BY <2>1 DEF Ordered
  <2> QED BY <1>2, <2>1, <2>2
<1>5. Forgotten(s2, r)
  <2> SUFFICES ASSUME NEW l \in 1 .. Len(r), IsLast(l, r), Forgets(r[l].event, s2)
               PROVE  Cardinality(After(l, r)) >= MaxIdempotencyKeys
    BY DEF Forgotten
  <2>1. CASE Forgets(r[l].event, s)
    BY <2>1 DEF Forgotten
  <2>2. CASE ~Forgets(r[l].event, s)
    <3>1. PICK p \in 1 .. Len(s) : s[p].event = r[l].event
      BY <2>2 DEF Forgets
    <3>2. p = 1
      <4>1. ASSUME p # 1 PROVE FALSE
        <5>1. p - 1 \in 1 .. Len(s2) /\ p - 1 + 1 = p
          BY <1>1, <4>1
        <5>2. s2[p - 1] = s[p]
          BY <1>1, <5>1
        <5> QED BY <3>1, <5>1, <5>2 DEF Forgets
      <4> QED BY <4>1
    <3>3. PICK m \in 1 .. Len(r) : IsLast(m, r) /\ r[m] = s[1] /\ After(m, r) = After(1, s)
      BY <3>1, <3>2 DEF Ordered
    <3>4. m = l
      BY <3>1, <3>2, <3>3 DEF IsLast
    <3>5. Cardinality(After(1, s)) = Len(s) - 1
      BY <1>1, DistinctCount
    <3>6. Len(s) - 1 >= MaxIdempotencyKeys
      BY <1>1, BankingAssumption
    <3> QED BY <3>3, <3>4, <3>5, <3>6
  <2> QED BY <2>1, <2>2
<1> QED BY <1>3, <1>4, <1>5

\* A remembered event is answered again, and becomes the most recent.
IsReplay(s2, s, p) ==
    /\ Len(s) \in Nat \ {0} /\ Len(s2) = Len(s) /\ p \in 1 .. Len(s) /\ s2[Len(s)] = s[p]
    /\ \A k \in 1 .. p - 1 : s2[k] = s[k]
    /\ \A k \in p .. Len(s) - 1 : s2[k] = s[k + 1]

LEMMA ReplayAfter ==
    ASSUME NEW s, NEW s2, NEW p, IsReplay(s2, s, p)
    PROVE  /\ \A q \in 1 .. p - 1 : After(q, s2) = After(q, s)
           /\ \A q \in p .. Len(s) - 1 : After(q, s2) = After(q + 1, s) \cup {s[p].event}
           /\ After(Len(s), s2) = {}
<1>1. /\ Len(s) \in Nat \ {0} /\ Len(s2) = Len(s) /\ p \in 1 .. Len(s) /\ s2[Len(s)] = s[p]
      /\ \A k \in 1 .. p - 1 : s2[k] = s[k]
      /\ \A k \in p .. Len(s) - 1 : s2[k] = s[k + 1]
  BY DEF IsReplay
<1>2. \A k \in 1 .. Len(s) : k \in 1 .. p - 1 \/ k \in p .. Len(s) - 1 \/ k = Len(s)
  BY <1>1
<1>3. ASSUME NEW q \in 1 .. p - 1 PROVE After(q, s2) = After(q, s)
  <2>1. ASSUME NEW k \in q + 1 .. Len(s) PROVE s2[k].event \in After(q, s)
    <3>1. k \in 1 .. Len(s)
      BY <1>1
    <3>2. CASE k \in 1 .. p - 1
      BY <1>1, <3>2 DEF After, EventsAt
    <3>3. CASE k \in p .. Len(s) - 1
      BY <1>1, <3>3 DEF After, EventsAt
    <3>4. CASE k = Len(s)
      BY <1>1, <3>4 DEF After, EventsAt
    <3> QED BY <1>2, <3>1, <3>2, <3>3, <3>4
  <2>2. ASSUME NEW k \in q + 1 .. Len(s) PROVE s[k].event \in After(q, s2)
    <3>1. CASE k < p
      BY <1>1, <3>1 DEF After, EventsAt
    <3>2. CASE k = p
      BY <1>1, <3>2 DEF After, EventsAt
    <3>3. CASE k > p
      <4>1. k - 1 \in p .. Len(s) - 1 /\ k - 1 + 1 = k /\ k - 1 \in q + 1 .. Len(s2)
        BY <1>1, <3>3
      <4>2. s2[k - 1] = s[k]
        BY <1>1, <4>1
      <4> QED BY <4>1, <4>2 DEF After, EventsAt
    <3> QED BY <1>1, <3>1, <3>2, <3>3
  <2> QED BY <1>1, <2>1, <2>2 DEF After, EventsAt
<1>4. ASSUME NEW q \in p .. Len(s) - 1
      PROVE  After(q, s2) = After(q + 1, s) \cup {s[p].event}
  <2>1. ASSUME NEW k \in q + 1 .. Len(s) PROVE s2[k].event \in After(q + 1, s) \cup {s[p].event}
    <3>1. CASE k = Len(s)
      BY <1>1, <3>1
    <3>2. CASE k # Len(s)
      <4>1. k \in p .. Len(s) - 1 /\ k + 1 \in q + 1 + 1 .. Len(s)
        BY <1>1, <3>2
      <4> QED BY <1>1, <4>1 DEF After, EventsAt
    <3> QED BY <3>1, <3>2
  <2>2. ASSUME NEW k \in q + 1 + 1 .. Len(s) PROVE s[k].event \in After(q, s2)
    <3>1. k - 1 \in p .. Len(s) - 1 /\ k - 1 + 1 = k /\ k - 1 \in q + 1 .. Len(s2)
      BY <1>1
    <3>2. s2[k - 1] = s[k]
      BY <1>1, <3>1
    <3> QED BY <3>1, <3>2 DEF After, EventsAt
  <2>3. s[p].event \in After(q, s2)
    <3>1. Len(s) \in q + 1 .. Len(s2)
      BY <1>1
    <3> QED BY <1>1, <3>1 DEF After, EventsAt
  <2> QED BY <1>1, <2>1, <2>2, <2>3 DEF After, EventsAt
<1>5. After(Len(s), s2) = {}
  BY <1>1 DEF After, EventsAt
<1> QED BY <1>3, <1>4, <1>5

LEMMA ReplayOrdered ==
    ASSUME NEW s, NEW r, NEW p, NEW s2, NEW r2, IsReplay(s2, s, p), IsAppend(r2, r, s[p]),
           Distinct(s), Ordered(s, r), Forgotten(s, r)
    PROVE  Distinct(s2) /\ Ordered(s2, r2) /\ Forgotten(s2, r2)
<1>1. /\ Len(s) \in Nat \ {0} /\ Len(s2) = Len(s) /\ p \in 1 .. Len(s) /\ s2[Len(s)] = s[p]
      /\ \A k \in 1 .. p - 1 : s2[k] = s[k]
      /\ \A k \in p .. Len(s) - 1 : s2[k] = s[k + 1]
  BY DEF IsReplay
<1>2. \A k \in 1 .. Len(s) : k \in 1 .. p - 1 \/ k \in p .. Len(s) - 1 \/ k = Len(s)
  BY <1>1
<1>3. /\ \A q \in 1 .. p - 1 : After(q, s2) = After(q, s)
      /\ \A q \in p .. Len(s) - 1 : After(q, s2) = After(q + 1, s) \cup {s[p].event}
      /\ After(Len(s), s2) = {}
  BY ReplayAfter
<1>4. /\ Len(r2) = Len(r) + 1 /\ Len(r) \in Nat /\ r2[Len(r) + 1] = s[p]
      /\ \A k \in 1 .. Len(r) : r2[k] = r[k]
      /\ \A l \in 1 .. Len(r) : After(l, r2) = After(l, r) \cup {s[p].event}
      /\ After(Len(r) + 1, r2) = {}
  BY AppendAfter, Zenon DEF IsAppend
<1>5. /\ \A l \in 1 .. Len(r) : IsLast(l, r) /\ r[l].event # s[p].event => IsLast(l, r2)
      /\ \A l \in 1 .. Len(r) : IsLast(l, r2) => IsLast(l, r) /\ r[l].event # s[p].event
      /\ IsLast(Len(r) + 1, r2)
  BY AppendLast
<1>6. Distinct(s2)
  <2> SUFFICES ASSUME NEW j \in 1 .. Len(s), NEW k \in 1 .. Len(s),
                      s2[j].event = s2[k].event
               PROVE  j = k
    BY <1>1 DEF Distinct
  <2>1. ASSUME NEW i \in 1 .. Len(s)
        PROVE  \/ i = Len(s) /\ s2[i] = s[p]
               \/ i < p /\ i < Len(s) /\ s2[i] = s[i]
               \/ i >= p /\ i + 1 \in 1 .. Len(s) /\ s2[i] = s[i + 1]
    BY <1>1, <1>2
  <2> QED BY <1>1, <2>1 DEF Distinct
<1>7. Ordered(s2, r2)
  <2> SUFFICES ASSUME NEW q \in 1 .. Len(s)
               PROVE  \E l \in 1 .. Len(r2) :
                         IsLast(l, r2) /\ r2[l] = s2[q] /\ After(l, r2) = After(q, s2)
    BY <1>1 DEF Ordered
  <2>1. CASE q \in 1 .. p - 1
    <3>1. q # p /\ s2[q] = s[q] /\ s[q].event # s[p].event /\ s[p].event \in After(q, s)
      BY <1>1, <2>1 DEF Distinct, After, EventsAt
    <3>2. PICK l \in 1 .. Len(r) : IsLast(l, r) /\ r[l] = s[q] /\ After(l, r) = After(q, s)
      BY DEF Ordered
    <3>3. l \in 1 .. Len(r2) /\ IsLast(l, r2) /\ r2[l] = s2[q]
      BY <1>4, <1>5, <3>1, <3>2
    <3>4. After(l, r2) = After(q, s2)
      BY <1>3, <1>4, <2>1, <3>1, <3>2
    <3> QED BY <3>3, <3>4
  <2>2. CASE q \in p .. Len(s) - 1
    <3>1. /\ q + 1 \in 1 .. Len(s) /\ s2[q] = s[q + 1] /\ q + 1 # p
          /\ s[q + 1].event # s[p].event
      BY <1>1, <2>2 DEF Distinct
    <3>2. PICK l \in 1 .. Len(r) :
             IsLast(l, r) /\ r[l] = s[q + 1] /\ After(l, r) = After(q + 1, s)
      BY <3>1 DEF Ordered
    <3>3. l \in 1 .. Len(r2) /\ IsLast(l, r2) /\ r2[l] = s2[q]
      BY <1>4, <1>5, <3>1, <3>2
    <3>4. After(l, r2) = After(q, s2)
      BY <1>3, <1>4, <2>2, <3>2
    <3> QED BY <3>3, <3>4
  <2>3. CASE q = Len(s)
    <3>1. Len(r) + 1 \in 1 .. Len(r2)
      BY <1>4
    <3> QED BY <1>1, <1>3, <1>4, <1>5, <2>3, <3>1
  <2> QED BY <1>2, <2>1, <2>2, <2>3
<1>8. Forgotten(s2, r2)
  <2> SUFFICES ASSUME NEW l \in 1 .. Len(r2), IsLast(l, r2), Forgets(r2[l].event, s2)
               PROVE  Cardinality(After(l, r2)) >= MaxIdempotencyKeys
    BY DEF Forgotten
  <2>1. l # Len(r) + 1
    BY <1>1, <1>4 DEF Forgets
  <2>2. l \in 1 .. Len(r)
    BY <1>4, <2>1
  <2>3. /\ IsLast(l, r) /\ r2[l] = r[l] /\ After(l, r) \subseteq After(l, r2)
        /\ r[l].event # s[p].event
    BY <1>4, <1>5, <2>2
  <2>4. Forgets(r[l].event, s)
    <3> SUFFICES ASSUME NEW k \in 1 .. Len(s), s[k].event = r[l].event PROVE FALSE
      BY DEF Forgets
    <3>1. k # p
      BY <2>3
    <3>2. CASE k < p
      BY <1>1, <2>3, <3>2 DEF Forgets
    <3>3. CASE k > p
      <4>1. k - 1 \in p .. Len(s) - 1 /\ k - 1 + 1 = k /\ k - 1 \in 1 .. Len(s2)
        BY <1>1, <3>3
      <4>2. s2[k - 1] = s[k]
        BY <1>1, <4>1
      <4> QED BY <2>3, <4>1, <4>2 DEF Forgets
    <3> QED BY <1>1, <3>1, <3>2, <3>3
  <2>5. Cardinality(After(l, r)) >= MaxIdempotencyKeys
    BY <2>2, <2>3, <2>4 DEF Forgotten
  <2>6. IsFiniteSet(After(l, r2))
    <3>1. l + 1 \in Int /\ Len(r2) \in Int
      BY <1>4
    <3> QED BY <3>1, EventsFinite DEF After
  <2> QED BY <2>3, <2>5, <2>6, MoreEvents, BankingAssumption
<1> QED BY <1>6, <1>7, <1>8

\* Whether remembered or not, the next answer agrees.
LEMMA AgreeKept ==
    ASSUME NEW s, NEW r, NEW a, NEW r2, IsAppend(r2, r, a), Ordered(s, r), Forgotten(s, r),
           HasLast(r), Agree(r),
           Forgets(a.event, s) \/ \E p \in 1 .. Len(s) : a = s[p]
    PROVE  Agree(r2)
<1>1. /\ Len(r2) = Len(r) + 1 /\ Len(r) \in Nat /\ r2[Len(r) + 1] = a
      /\ \A k \in 1 .. Len(r) : r2[k] = r[k]
  BY DEF IsAppend
<1> SUFFICES ASSUME NEW i \in 1 .. Len(r2), NEW j \in 1 .. Len(r2), i < j,
                    r2[i].event = r2[j].event, r2[i].decision # r2[j].decision
             PROVE  Cardinality(Between(i, j, r2) \ {r2[i].event}) >= MaxIdempotencyKeys
  BY DEF Agree
<1>2. i \in 1 .. Len(r) /\ r2[i] = r[i]
  BY <1>1
<1>3. IsFiniteSet(Between(i, j, r2) \ {r2[i].event})
  <2>1. i + 1 \in Int /\ j - 1 \in Int
    BY <1>1
  <2>2. IsFiniteSet(Between(i, j, r2))
    BY <2>1, EventsFinite DEF Between
  <2> QED BY <2>2, FS_Subset
<1>4. CASE j # Len(r) + 1
  <2>1. j \in 1 .. Len(r) /\ r2[j] = r[j]
    BY <1>1, <1>4
  <2>2. Between(i, j, r2) = Between(i, j, r)
    BY <1>1, <1>2, <2>1 DEF Between, EventsAt
  <2> QED BY <1>2, <2>1, <2>2 DEF Agree
<1>5. CASE j = Len(r) + 1
  <2>1. PICK l \in i .. Len(r) : IsLast(l, r) /\ r[l].event = r[i].event
    BY <1>2 DEF HasLast
  <2>2. l \in 1 .. Len(r) /\ r2[l] = r[l] /\ r2[j] = a /\ a.event = r[l].event
    BY <1>1, <1>2, <1>5, <2>1
  <2>3. CASE Forgets(a.event, s)
    <3>1. Cardinality(After(l, r)) >= MaxIdempotencyKeys
      BY <2>1, <2>2, <2>3 DEF Forgotten
    <3>2. After(l, r) \subseteq Between(i, j, r2) \ {r2[i].event}
      <4> SUFFICES ASSUME NEW k \in l + 1 .. Len(r)
                   PROVE  r[k].event \in Between(i, j, r2) /\ r[k].event # r2[i].event
        BY DEF After, EventsAt
      <4>1. k \in 1 .. Len(r) /\ k \in i + 1 .. j - 1 /\ r2[k] = r[k]
        BY <1>1, <1>5, <2>1
      <4>2. r[k].event # r2[i].event
        BY <1>2, <2>1 DEF IsLast
      <4> QED BY <4>1, <4>2 DEF Between, EventsAt
    <3> QED BY <1>3, <3>1, <3>2, MoreEvents, BankingAssumption
  <2>4. CASE \E p \in 1 .. Len(s) : a = s[p]
    <3>1. PICK p \in 1 .. Len(s) : a = s[p]
      BY <2>4
    <3>2. PICK m \in 1 .. Len(r) : IsLast(m, r) /\ r[m] = s[p]
      BY DEF Ordered
    <3>3. m = l
      BY <2>1, <2>2, <3>1, <3>2 DEF IsLast
    <3>4. i < l /\ r[i].decision # r[l].decision
      <4>1. r[l] = a
        BY <3>1, <3>2, <3>3
      <4>2. i # l
        BY <1>2, <2>2, <4>1
      <4> QED BY <1>1, <1>2, <2>1, <2>2, <4>1, <4>2
    <3>5. Cardinality(Between(i, l, r) \ {r[i].event}) >= MaxIdempotencyKeys
      BY <1>2, <2>1, <2>2, <3>4 DEF Agree
    <3>6. Between(i, l, r) \ {r[i].event} \subseteq Between(i, j, r2) \ {r2[i].event}
      <4> SUFFICES ASSUME NEW k \in i + 1 .. l - 1
                   PROVE  r[k].event \in Between(i, j, r2)
        BY <1>2 DEF Between, EventsAt
      <4>1. k \in 1 .. Len(r) /\ k \in i + 1 .. j - 1 /\ r2[k] = r[k]
        BY <1>1, <1>5, <2>1
      <4> QED BY <4>1 DEF Between, EventsAt
    <3> QED BY <1>3, <3>5, <3>6, MoreEvents, BankingAssumption
  <2> QED BY <2>3, <2>4
<1> QED BY <1>4, <1>5

LEMMA ScoreTransactionGood ==
    ASSUME BankingInv, NEW event \in Events, NEW t \in Transactions,
           ScoreTransaction(event, t)
    PROVE  BankingInv'
<1> DEFINE known == Remembered(event)
           i == CHOOSE i \in known : TRUE
           answer == Answer(event, DecisionFor(Score(t)))
<1>1. /\ seen \in Seq(Answers) /\ replies \in Seq(Answers) /\ Distinct(seen)
      /\ Ordered(seen, replies) /\ Forgotten(seen, replies) /\ HasLast(replies)
      /\ Agree(replies)
  BY DEF BankingInv
<1>2. CASE known # {}
  <2>1. i \in 1 .. Len(seen) /\ seen[i] \in Answers
    BY <1>1, <1>2 DEF Remembered
  <2>2. seen' = Append(RemoveAt(seen, i), seen[i]) /\ replies' = Append(replies, seen[i])
    BY <1>2 DEF ScoreTransaction, Replay
  <2> HIDE DEF i
  <2>3. IsAppend(replies', replies, seen[i]) /\ replies' \in Seq(Answers)
    BY <1>1, <2>1, <2>2, AppendFacts
  <2>4. IsReplay(seen', seen, i) /\ seen' \in Seq(Answers)
    <3> DEFINE low == SubSeq(seen, 1, i - 1)
               high == SubSeq(seen, i + 1, Len(seen))
               rest == low \o high
    <3>1. /\ low \in Seq(Answers) /\ Len(low) = i - 1
          /\ \A k \in 1 .. i - 1 : low[k] = seen[k]
      BY <1>1, <2>1
    <3>2. /\ high \in Seq(Answers) /\ Len(high) = Len(seen) - i
          /\ \A k \in 1 .. Len(seen) - i : high[k] = seen[i + k]
      BY <1>1, <2>1
    <3> HIDE DEF low, high
    <3>3. rest \in Seq(Answers) /\ Len(rest) = Len(seen) - 1
      <4>1. rest \in Seq(Answers) /\ Len(rest) = Len(low) + Len(high)
        BY <3>1, <3>2
      <4>2. Len(seen) \in Nat /\ i \in Nat
        BY <1>1, <2>1
      <4> HIDE DEF rest
      <4> QED BY <3>1, <3>2, <4>1, <4>2
    <3>4. ASSUME NEW k \in 1 .. i - 1 PROVE rest[k] = seen[k]
      <4>1. rest[k] = low[k]
        BY <1>1, <2>1, <3>1, <3>2
      <4> QED BY <3>1, <4>1
    <3>5. ASSUME NEW k \in i .. Len(seen) - 1 PROVE rest[k] = seen[k + 1]
      <4>1. rest[k] = high[k - (i - 1)]
        BY <1>1, <2>1, <3>1, <3>2
      <4>2. k - (i - 1) \in 1 .. Len(seen) - i /\ i + (k - (i - 1)) = k + 1
        BY <1>1, <2>1
      <4>3. high[k - (i - 1)] = seen[i + (k - (i - 1))]
        BY <3>2, <4>2
      <4> QED BY <4>1, <4>2, <4>3
    <3>6. seen' = Append(rest, seen[i])
      BY <2>2 DEF RemoveAt, low, high
    <3> HIDE DEF rest
    <3>7. /\ seen' \in Seq(Answers) /\ Len(seen') = Len(seen) /\ seen'[Len(seen)] = seen[i]
          /\ \A k \in 1 .. Len(seen) - 1 : seen'[k] = rest[k]
      BY <1>1, <2>1, <3>3, <3>6
    <3>8. /\ \A k \in 1 .. i - 1 : k \in 1 .. Len(seen) - 1
          /\ \A k \in i .. Len(seen) - 1 : k \in 1 .. Len(seen) - 1
          /\ Len(seen) \in Nat \ {0}
      BY <1>1, <2>1
    <3> QED BY <2>1, <3>4, <3>5, <3>7, <3>8 DEF IsReplay
  <2>5. Distinct(seen') /\ Ordered(seen', replies') /\ Forgotten(seen', replies')
    BY <1>1, <2>3, <2>4, ReplayOrdered
  <2>6. HasLast(replies') /\ Agree(replies')
    BY <1>1, <2>1, <2>3, HasLastKept, AgreeKept
  <2> QED BY <2>3, <2>4, <2>5, <2>6 DEF BankingInv
<1>3. CASE known = {}
  <2>1. answer \in Answers /\ answer.event = event
    BY DEF Answers, Answer, DecisionFor
  <2>2. seen' = Remember(answer) /\ replies' = Append(replies, answer)
    BY <1>3 DEF ScoreTransaction
  <2>3. Forgets(answer.event, seen)
    BY <1>1, <1>3, <2>1 DEF Remembered, Forgets
  <2> HIDE DEF answer
  <2> DEFINE grown == Append(seen, answer)
  <2>4. /\ IsAppend(replies', replies, answer) /\ replies' \in Seq(Answers)
        /\ IsAppend(grown, seen, answer) /\ grown \in Seq(Answers) /\ grown # << >>
    BY <1>1, <2>1, <2>2, AppendFacts
  <2>5. seen' = IF Len(grown) > MaxIdempotencyKeys THEN Tail(grown) ELSE grown
    BY <2>2 DEF Remember
  <2> HIDE DEF grown
  <2>6. Distinct(grown) /\ Ordered(grown, replies') /\ Forgotten(grown, replies')
    BY <1>1, <2>3, <2>4, RememberOrdered
  <2>7. HasLast(replies') /\ Agree(replies')
    BY <1>1, <2>3, <2>4, HasLastKept, AgreeKept
  <2>8. CASE Len(grown) > MaxIdempotencyKeys
    <3>1. seen' = Tail(grown)
      BY <2>5, <2>8
    <3>2. IsTail(seen', grown) /\ seen' \in Seq(Answers) /\ Len(replies') \in Nat
      BY <2>4, <3>1 DEF IsTail
    <3>3. Distinct(seen') /\ Ordered(seen', replies') /\ Forgotten(seen', replies')
      BY <2>4, <2>6, <2>8, <3>2, EvictOrdered
    <3> QED BY <2>4, <2>7, <3>2, <3>3 DEF BankingInv
  <2>9. CASE ~(Len(grown) > MaxIdempotencyKeys)
    <3>1. seen' = grown
      BY <2>5, <2>9
    <3> QED BY <2>4, <2>6, <2>7, <3>1 DEF BankingInv
  <2> QED BY <2>8, <2>9
<1> QED BY <1>2, <1>3

(***************************************************************************)
(* For any number of events and any capacity of the map: a redelivered     *)
(* event is answered as before, unless since then at least as many other   *)
(* events were answered as the map holds.                                  *)
(***************************************************************************)
THEOREM RedeliveriesAgree == BankingSpec => []ReplaysAgree
<1>1. ASSUME seen = << >>, replies = << >> PROVE BankingInv
  BY <1>1 DEF BankingInv, Distinct, Ordered, Forgotten, HasLast, Agree
<1>2. BankingInit => BankingInv
  BY <1>1 DEF BankingInit
<1>3. BankingInv /\ [BankingNext]_bankingVars => BankingInv'
  <2> SUFFICES ASSUME BankingInv, [BankingNext]_bankingVars PROVE BankingInv'
    OBVIOUS
  <2>1. ASSUME RestartBanking PROVE BankingInv'
    <3>1. seen' = << >> /\ replies' = << >>
      BY <2>1 DEF RestartBanking
    <3> QED BY <3>1 DEF BankingInv, Distinct, Ordered, Forgotten, HasLast, Agree
  <2>2. ASSUME UNCHANGED bankingVars PROVE BankingInv'
    BY <2>2 DEF bankingVars, BankingInv
  <2> QED BY <2>1, <2>2, ScoreTransactionGood DEF BankingNext
<1>4. BankingInv => ReplaysAgree
  <2> SUFFICES ASSUME BankingInv PROVE ReplaysAgree
    OBVIOUS
  <2>1. DOMAIN replies = 1 .. Len(replies) /\ Agree(replies)
    BY DEF BankingInv
  <2> QED BY <2>1 DEF ReplaysAgree, Agree, Between, EventsAt
<1> QED BY <1>2, <1>3, <1>4, PTL DEF BankingSpec
=============================================================================
