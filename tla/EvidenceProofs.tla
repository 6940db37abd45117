--------------------------- MODULE EvidenceProofs ---------------------------
(***************************************************************************)
(* Proofs about the sources of evidence: the review of a pull request, the *)
(* judges and the people who check them, and the signals that reach the    *)
(* release gate.                                                           *)
(***************************************************************************)
EXTENDS Reviewer, JudgeOps, Signals, FiniteSetTheorems, WellFoundedInduction, TLAPS

-----------------------------------------------------------------------------
(***************************************************************************)
(* The review of a pull request.  Every copy of the review, stored or in   *)
(* the hands of a thread, is sound: one that was not eligible is still as  *)
(* new, its approvals were given, and only a report that was fetched has a *)
(* verdict, except between the two calls to GitHub.                        *)
(***************************************************************************)
Backed(approvals, g) ==
    \A c \in Comments : approvals[c] # Nobody =>
        \E a \in g : a.comment = c /\ a.by = approvals[c] /\ a.text # 0

SoundReview(review, g) ==
    /\ ~review.eligible_at_open => review = NewReview(FALSE)
    /\ Backed(review.approvals, g)

SoundHandler(handler, g) ==
    handler # Idle =>
        /\ SoundReview(handler.review, g)
        /\ handler.pc \in {"fetch_reviews", "fetch_comments"} =>
              handler.review.eligible_at_open
        /\ handler.pc # "fetch_comments" /\ handler.review.verdict # "none" =>
              handler.review.fetched

ReviewerInv ==
    /\ TypeOK
    /\ row.stored => SoundReview(row, given) /\ (row.verdict # "none" => row.fetched)
    /\ \A h \in Handlers : SoundHandler(handlers[h], given)
    /\ ApplyWasApproved

LEMMA HeldReview ==
    ASSUME TypeOK, NEW h \in Handlers, handlers[h].pc \in {"fetch_reviews", "fetch_comments", "save"}
    PROVE  handlers[h].review \in Reviews /\ handlers[h] # Idle
  BY DEF TypeOK, Idle

LEMMA StoredReview ==
    ASSUME TypeOK, row.stored
    PROVE  row \in Reviews
  BY DEF TypeOK, NoReview

LEMMA NewReviewFacts ==
    ASSUME NEW eligible \in BOOLEAN
    PROVE  /\ NewReview(eligible) \in Reviews
           /\ NewReview(eligible).verdict = "none"
           /\ NewReview(eligible).eligible_at_open = eligible
           /\ NewReview(eligible).approvals = [c \in Comments |-> Nobody]
           /\ NewReview(eligible).inline_comments = [c \in Comments |-> 0]
<1>1. "none" \in Verdicts /\ 0 \in Texts
  BY ReviewerAssumption DEF Verdicts, Texts
<1>2. NewReview(eligible) \in Reviews
  BY <1>1 DEF NewReview, Reviews
<1>3. /\ NewReview(eligible).verdict = "none"
      /\ NewReview(eligible).eligible_at_open = eligible
      /\ NewReview(eligible).approvals = [c \in Comments |-> Nobody]
      /\ NewReview(eligible).inline_comments = [c \in Comments |-> 0]
  BY DEF NewReview
<1> QED BY <1>2, <1>3

\* More approvals given back no fewer.
LEMMA SoundnessKept ==
    ASSUME NEW g, NEW g2, g \subseteq g2
    PROVE  /\ \A review : SoundReview(review, g) => SoundReview(review, g2)
           /\ \A handler : SoundHandler(handler, g) => SoundHandler(handler, g2)
<1>1. \A review : SoundReview(review, g) => SoundReview(review, g2)
  BY DEF SoundReview, Backed
<1> QED BY <1>1 DEF SoundHandler

\* A thread takes up a copy, and perhaps an approval is asked for.
LEMMA HoldGood ==
    ASSUME ReviewerInv, NEW h \in Handlers,
           NEW pc \in {"fetch_reviews", "fetch_comments", "save"}, NEW review \in Reviews,
           Hold(h, pc, review), given \subseteq given', given' \subseteq Approved,
           SoundReview(review, given'),
           pc \in {"fetch_reviews", "fetch_comments"} => review.eligible_at_open,
           pc # "fetch_comments" /\ review.verdict # "none" => review.fetched
    PROVE  ReviewerInv'
<1> DEFINE new == [pc |-> pc, review |-> review]
<1>1. /\ handlers' = [handlers EXCEPT ![h] = new] /\ row' = row
      /\ UNCHANGED <<bot_verdict, comments, fork_support, restarts, authorized>>
      /\ overlapped' \in BOOLEAN
  BY DEF Hold, github, ReviewerInv, TypeOK
<1>2. new \in [pc : {"fetch_reviews", "fetch_comments", "save"}, review : Reviews]
  OBVIOUS
<1>3. new.pc = pc /\ new.review = review
  OBVIOUS
<1> HIDE DEF new
<1>4. TypeOK'
  BY <1>1, <1>2 DEF ReviewerInv, TypeOK
<1>5. SoundHandler(new, given')
  BY <1>3 DEF SoundHandler
<1>6. \A g \in Handlers : handlers'[g] = IF g = h THEN new ELSE handlers[g]
  BY <1>1 DEF ReviewerInv, TypeOK
<1>7. \A g \in Handlers : SoundHandler(handlers'[g], given')
  BY <1>5, <1>6, SoundnessKept DEF ReviewerInv
<1>8. row'.stored => SoundReview(row', given') /\ (row'.verdict # "none" => row'.fetched)
  BY <1>1, SoundnessKept DEF ReviewerInv
<1>9. ApplyWasApproved'
  BY <1>1 DEF ReviewerInv, ApplyWasApproved
<1> QED BY <1>4, <1>7, <1>8, <1>9 DEF ReviewerInv

LEMMA OpenGood ==
    ASSUME ReviewerInv, NEW h \in Handlers, NEW on_target \in BOOLEAN,
           NEW from_fork \in BOOLEAN, OpenPullRequest(h, on_target, from_fork)
    PROVE  ReviewerInv'
<1> DEFINE eligible == Eligible(on_target, from_fork)
           review == NewReview(eligible)
<1>1. eligible \in BOOLEAN
  BY DEF Eligible
<1>2. Hold(h, "save", review) /\ given' = given /\ given \subseteq Approved
  BY DEF OpenPullRequest, ReviewerInv, TypeOK
<1> HIDE DEF eligible
<1>3. review \in Reviews /\ review.verdict = "none" /\ review.eligible_at_open = eligible
      /\ review.approvals = [c \in Comments |-> Nobody]
  BY <1>1, NewReviewFacts
<1>4. ~eligible => review = NewReview(FALSE)
  BY <1>1
<1> HIDE DEF review
<1>5. SoundReview(review, given')
  BY <1>3, <1>4 DEF SoundReview, Backed
<1> QED BY <1>2, <1>3, <1>5, HoldGood

LEMMA BeginRefreshGood ==
    ASSUME ReviewerInv, NEW h \in Handlers, BeginRefresh(h)
    PROVE  ReviewerInv'
<1>1. row \in Reviews /\ row.eligible_at_open /\ Hold(h, "fetch_reviews", row)
      /\ given' = given /\ given \subseteq Approved
      /\ SoundReview(row, given) /\ (row.verdict # "none" => row.fetched)
  BY StoredReview DEF BeginRefresh, ReviewerInv, TypeOK
<1> QED BY <1>1, HoldGood

LEMMA FetchReviewsGood ==
    ASSUME ReviewerInv, NEW h \in Handlers, FetchReviews(h)
    PROVE  ReviewerInv'
<1> DEFINE old == handlers[h].review
           new == [old EXCEPT !.verdict = bot_verdict]
<1>1. Hold(h, "fetch_comments", new) /\ given' = given /\ given \subseteq Approved
      /\ handlers[h].pc = "fetch_reviews" /\ bot_verdict \in Verdicts
  BY DEF FetchReviews, ReviewerInv, TypeOK
<1>2. old \in Reviews /\ SoundReview(old, given) /\ old.eligible_at_open
  BY <1>1, HeldReview DEF ReviewerInv, SoundHandler
<1>3. new \in Reviews /\ new.eligible_at_open = old.eligible_at_open
      /\ new.approvals = old.approvals
  BY <1>1, <1>2 DEF Reviews
<1> HIDE DEF new
<1>4. SoundReview(new, given)
  BY <1>2, <1>3 DEF SoundReview
<1> QED BY <1>1, <1>2, <1>3, <1>4, HoldGood

LEMMA FetchCommentsGood ==
    ASSUME ReviewerInv, NEW h \in Handlers, FetchComments(h)
    PROVE  ReviewerInv'
<1> DEFINE old == handlers[h].review
           new == [old EXCEPT !.inline_comments = comments, !.fetched = TRUE]
<1>1. Hold(h, "save", new) /\ given' = given /\ given \subseteq Approved
      /\ handlers[h].pc = "fetch_comments" /\ comments \in [Comments -> Texts]
  BY DEF FetchComments, ReviewerInv, TypeOK
<1>2. old \in Reviews /\ SoundReview(old, given) /\ old.eligible_at_open
  BY <1>1, HeldReview DEF ReviewerInv, SoundHandler
<1>3. new \in Reviews /\ new.eligible_at_open = old.eligible_at_open
      /\ new.approvals = old.approvals /\ new.fetched
  BY <1>1, <1>2 DEF Reviews
<1> HIDE DEF new
<1>4. SoundReview(new, given)
  BY <1>2, <1>3 DEF SoundReview
<1> QED BY <1>1, <1>3, <1>4, HoldGood

LEMMA ApproveGood ==
    ASSUME ReviewerInv, NEW h \in Handlers, NEW c \in Comments, NEW who \in Approvers,
           ApproveSuggestion(h, c, who)
    PROVE  ReviewerInv'
<1> DEFINE new == [row EXCEPT !.approvals[c] = who]
           approval == [comment |-> c, text |-> row.inline_comments[c], by |-> who]
<1>1. /\ row.stored /\ row.inline_comments[c] # 0 /\ Hold(h, "save", new)
      /\ given' = given \cup {approval} /\ given \subseteq Approved
  BY DEF ApproveSuggestion, ReviewerInv, TypeOK
<1>2. row \in Reviews /\ SoundReview(row, given) /\ (row.verdict # "none" => row.fetched)
  BY <1>1, StoredReview DEF ReviewerInv
<1>3. row.eligible_at_open
  BY <1>1, <1>2, NewReviewFacts DEF SoundReview
<1>4. /\ approval \in Approved /\ approval.comment = c /\ approval.by = who
      /\ approval.text = row.inline_comments[c]
  BY <1>2 DEF Approved, Reviews
<1>5. /\ new \in Reviews /\ new.eligible_at_open = row.eligible_at_open
      /\ new.verdict = row.verdict /\ new.fetched = row.fetched
      /\ new.approvals = [row.approvals EXCEPT ![c] = who]
  BY <1>2 DEF Reviews
<1> HIDE DEF new, approval
<1>6. row.approvals \in [Comments -> Approvers \cup {Nobody}]
  BY <1>2 DEF Reviews
<1>7. Backed(new.approvals, given')
  <2> SUFFICES ASSUME NEW d \in Comments, new.approvals[d] # Nobody
               PROVE  \E a \in given' :
                         a.comment = d /\ a.by = new.approvals[d] /\ a.text # 0
    BY DEF Backed
  <2>1. CASE d = c
    BY <1>1, <1>4, <1>5, <1>6, <2>1
  <2>2. CASE d # c
    <3>1. new.approvals[d] = row.approvals[d]
      BY <1>5, <1>6, <2>2
    <3> QED BY <1>1, <1>2, <3>1 DEF SoundReview, Backed
  <2> QED BY <2>1, <2>2
<1>8. SoundReview(new, given')
  BY <1>3, <1>5, <1>7 DEF SoundReview
<1> QED BY <1>1, <1>2, <1>4, <1>5, <1>8, HoldGood

LEMMA SaveGood ==
    ASSUME ReviewerInv, NEW h \in Handlers, Save(h)
    PROVE  ReviewerInv'
<1>1. /\ handlers[h].pc = "save" /\ row' = handlers[h].review
      /\ handlers' = [handlers EXCEPT ![h] = Idle]
      /\ UNCHANGED <<bot_verdict, comments, fork_support, restarts, given, authorized, overlapped>>
  BY DEF Save, github, history
<1>2. handlers[h].review \in Reviews /\ SoundHandler(handlers[h], given) /\ handlers[h] # Idle
  BY <1>1, HeldReview DEF ReviewerInv
<1>3. TypeOK'
  BY <1>1, <1>2 DEF ReviewerInv, TypeOK
<1>4. SoundReview(row', given') /\ (row'.verdict # "none" => row'.fetched)
  BY <1>1, <1>2 DEF SoundHandler
<1>5. \A g \in Handlers : handlers'[g] = IF g = h THEN Idle ELSE handlers[g]
  BY <1>1 DEF ReviewerInv, TypeOK
<1>6. \A g \in Handlers : SoundHandler(handlers'[g], given')
  BY <1>1, <1>5 DEF ReviewerInv, SoundHandler
<1> QED BY <1>1, <1>3, <1>4, <1>6 DEF ReviewerInv, ApplyWasApproved

LEMMA AuthorizeGood ==
    ASSUME ReviewerInv, NEW c \in Comments, AuthorizeApply(c)
    PROVE  ReviewerInv'
<1> DEFINE new == [comment |-> c, text |-> row.inline_comments[c], by |-> row.approvals[c]]
<1>1. /\ row.stored /\ row.approvals[c] # Nobody /\ authorized' = authorized \cup {new}
      /\ UNCHANGED <<bot_verdict, comments, fork_support, restarts, row, handlers, given,
                     overlapped>>
  BY DEF AuthorizeApply, github
<1>2. row \in Reviews /\ SoundReview(row, given)
  BY <1>1, StoredReview DEF ReviewerInv
<1>3. new \in Approved /\ new.comment = c /\ new.by = row.approvals[c]
  BY <1>1, <1>2 DEF Approved, Reviews
<1> HIDE DEF new
<1>4. \E g \in given : g.comment = new.comment /\ g.by = new.by /\ g.text # 0
  BY <1>1, <1>2, <1>3 DEF SoundReview, Backed
<1>5. ApplyWasApproved'
  BY <1>1, <1>4 DEF ReviewerInv, ApplyWasApproved
<1>6. TypeOK'
  BY <1>1, <1>3 DEF ReviewerInv, TypeOK
<1> QED BY <1>1, <1>5, <1>6 DEF ReviewerInv

LEMMA ReviewerNextGood == ReviewerInv /\ [Next]_vars => ReviewerInv'
<1> SUFFICES ASSUME ReviewerInv, [Next]_vars PROVE ReviewerInv'
  OBVIOUS
<1>1. ASSUME NEW v \in ReviewStates, BotReviews(v) PROVE ReviewerInv'
  BY <1>1 DEF BotReviews, history, ReviewerInv, TypeOK, Verdicts, ApplyWasApproved
<1>2. ASSUME NEW c \in Comments, BotEdits(c) \/ BotDeletes(c) PROVE ReviewerInv'
  <2>1. /\ UNCHANGED <<bot_verdict, fork_support, restarts, row, handlers, given, authorized,
                       overlapped>>
        /\ comments' \in [Comments -> Texts]
    BY <1>2, ReviewerAssumption DEF BotEdits, BotDeletes, history, ReviewerInv, TypeOK, Texts
  <2> QED BY <2>1 DEF ReviewerInv, TypeOK, ApplyWasApproved
<1>3. ASSUME NEW h \in Handlers, Abandon(h) PROVE ReviewerInv'
  <2>1. /\ UNCHANGED <<bot_verdict, comments, fork_support, restarts, row, given, authorized,
                       overlapped>>
        /\ \A g \in Handlers : handlers'[g] = IF g = h THEN Idle ELSE handlers[g]
    BY <1>3 DEF Abandon, github, history, ReviewerInv, TypeOK
  <2>2. TypeOK'
    BY <1>3, <2>1 DEF Abandon, ReviewerInv, TypeOK
  <2>3. \A g \in Handlers : SoundHandler(handlers'[g], given')
    BY <2>1 DEF ReviewerInv, SoundHandler
  <2> QED BY <2>1, <2>2, <2>3 DEF ReviewerInv, ApplyWasApproved
<1>4. ASSUME Restart PROVE ReviewerInv'
  <2>1. /\ UNCHANGED <<bot_verdict, comments, row, given, authorized, overlapped>>
        /\ \A g \in Handlers : handlers'[g] = Idle
        /\ restarts' \in 0..MaxRestarts /\ fork_support' \in BOOLEAN
    BY <1>4, ReviewerAssumption DEF Restart, github, history, ReviewerInv, TypeOK
  <2>2. TypeOK'
    BY <1>4, <2>1 DEF Restart, ReviewerInv, TypeOK
  <2>3. \A g \in Handlers : SoundHandler(handlers'[g], given')
    BY <2>1 DEF SoundHandler
  <2> QED BY <2>1, <2>2, <2>3 DEF ReviewerInv, ApplyWasApproved
<1>5. ASSUME UNCHANGED vars PROVE ReviewerInv'
  BY <1>5 DEF vars, ReviewerInv, TypeOK, ApplyWasApproved
<1> QED BY <1>1, <1>2, <1>3, <1>4, <1>5, OpenGood, BeginRefreshGood, FetchReviewsGood,
           FetchCommentsGood, ApproveGood, SaveGood, AuthorizeGood DEF Next

LEMMA ReviewerInitGood == Init => ReviewerInv
<1> SUFFICES ASSUME Init PROVE ReviewerInv
  OBVIOUS
<1>1. TypeOK
  <2>1. 0 \in Texts /\ "none" \in Verdicts /\ 0 \in 0..MaxRestarts
    BY ReviewerAssumption DEF Verdicts, Texts
  <2>2. /\ comments \in [Comments -> Texts] /\ bot_verdict \in Verdicts
        /\ restarts \in 0..MaxRestarts /\ row \in Reviews \cup {NoReview}
    BY <2>1 DEF Init
  <2>3. handlers \in [Handlers -> {Idle} \cup
                         [pc : {"fetch_reviews", "fetch_comments", "save"}, review : Reviews]]
    BY DEF Init
  <2>4. overlapped \in BOOLEAN /\ fork_support \in BOOLEAN
    BY Zenon DEF Init
  <2> QED BY <2>2, <2>3, <2>4 DEF Init, TypeOK
<1>2. ~row.stored /\ authorized = {} /\ \A h \in Handlers : handlers[h] = Idle
  BY DEF Init, NoReview
<1> QED BY <1>1, <1>2 DEF ReviewerInv, SoundHandler, ApplyWasApproved

(***************************************************************************)
(* For any number of comments, approvers and threads: what may be applied  *)
(* was approved by the person it names while the report had the comment,   *)
(* whichever copies overwrite each other.                                  *)
(***************************************************************************)
THEOREM ApplyNeedsApproval == Spec => []ApplyWasApproved
<1>1. ReviewerInv => ApplyWasApproved
  BY DEF ReviewerInv
<1> QED BY <1>1, ReviewerInitGood, ReviewerNextGood, PTL DEF Spec

(***************************************************************************)
(* A pull request that was skipped when it was opened is never reviewed,   *)
(* and no decision is given without a fetched report.                      *)
(***************************************************************************)
THEOREM SkippedIsNeverReviewed == Spec => []SkippedStaysUnreviewed
<1>1. ReviewerInv => SkippedStaysUnreviewed
  <2> SUFFICES ASSUME ReviewerInv, row.stored
               PROVE  /\ ~row.eligible_at_open => row = NewReview(FALSE)
                      /\ Decision(row) \in {"ready", "changes_requested"} => row.fetched
    BY DEF SkippedStaysUnreviewed
  <2>1. SoundReview(row, given) /\ (row.verdict # "none" => row.fetched)
    BY DEF ReviewerInv
  <2>2. Decision(row) \in {"ready", "changes_requested"} => row.verdict # "none"
    BY DEF Decision
  <2> QED BY <2>1, <2>2 DEF SoundReview
<1> QED BY <1>1, ReviewerInitGood, ReviewerNextGood, PTL DEF Spec
(***************************************************************************)
(* As long as requests are served one at a time, at most one thread holds  *)
(* a copy, and the copy follows what is stored: the same eligibility, and  *)
(* an approval wherever there is one.                                      *)
(***************************************************************************)
Follows(review, stored) ==
    stored.stored =>
        /\ review.eligible_at_open = stored.eligible_at_open
        /\ \A c \in Comments : stored.approvals[c] # Nobody => review.approvals[c] # Nobody

ServedAlone ==
    ~overlapped =>
        /\ \A g, h \in Handlers : handlers[g] # Idle /\ handlers[h] # Idle => g = h
        /\ \A h \in Handlers : handlers[h] # Idle => Follows(handlers[h].review, row)

LEMMA HoldAlone ==
    ASSUME ReviewerInv, ServedAlone, NEW h \in Handlers, NEW pc, NEW review,
           Hold(h, pc, review), ~overlapped => Follows(review, row)
    PROVE  ServedAlone' /\ row' = row
<1> SUFFICES ASSUME ~overlapped' PROVE ServedAlone' /\ row' = row
  BY DEF Hold, ServedAlone
<1> DEFINE new == [pc |-> pc, review |-> review]
<1>1. new.review = review
  OBVIOUS
<1>2. /\ handlers' = [handlers EXCEPT ![h] = new] /\ row' = row
      /\ ~overlapped /\ \A g \in Handlers \ {h} : handlers[g] = Idle
  BY Zenon DEF Hold
<1> HIDE DEF new
<1>3. \A g \in Handlers : handlers'[g] = IF g = h THEN new ELSE Idle
  BY <1>2 DEF ReviewerInv, TypeOK
<1> QED BY <1>1, <1>2, <1>3 DEF ServedAlone

LEMMA FollowsItself == \A review : Follows(review, review)
  BY DEF Follows

\* Every step keeps a thread alone with its copy, and what it stores follows.
LEMMA AloneKept ==
    ASSUME ReviewerInv, ServedAlone, [Next]_vars
    PROVE  ServedAlone' /\ (~overlapped => (row' = row \/ (row' \in Reviews /\ Follows(row', row))))
<1>1. ASSUME NEW h \in Handlers, NEW on_target \in BOOLEAN, NEW from_fork \in BOOLEAN,
             OpenPullRequest(h, on_target, from_fork)
      PROVE  ServedAlone' /\ row' = row
  <2>1. \A review : Follows(review, row)
    BY <1>1 DEF OpenPullRequest, Follows
  <2> QED BY <1>1, <2>1, HoldAlone DEF OpenPullRequest
<1>2. ASSUME NEW h \in Handlers, BeginRefresh(h) PROVE ServedAlone' /\ row' = row
  BY <1>2, HoldAlone, FollowsItself DEF BeginRefresh
<1>3. ASSUME NEW h \in Handlers, FetchReviews(h) PROVE ServedAlone' /\ row' = row
  <2> DEFINE old == handlers[h].review
             new == [old EXCEPT !.verdict = bot_verdict]
  <2>1. Hold(h, "fetch_comments", new) /\ handlers[h].pc = "fetch_reviews"
    BY <1>3 DEF FetchReviews
  <2>2. old \in Reviews /\ handlers[h] # Idle
    BY <2>1, HeldReview DEF ReviewerInv
  <2>3. new.eligible_at_open = old.eligible_at_open /\ new.approvals = old.approvals
    BY <2>2 DEF Reviews
  <2> HIDE DEF new
  <2>4. ~overlapped => Follows(new, row)
    BY <2>2, <2>3 DEF ServedAlone, Follows
  <2> QED BY <2>1, <2>4, HoldAlone
<1>4. ASSUME NEW h \in Handlers, FetchComments(h) PROVE ServedAlone' /\ row' = row
  <2> DEFINE old == handlers[h].review
             new == [old EXCEPT !.inline_comments = comments, !.fetched = TRUE]
  <2>1. Hold(h, "save", new) /\ handlers[h].pc = "fetch_comments"
    BY <1>4 DEF FetchComments
  <2>2. old \in Reviews /\ handlers[h] # Idle
    BY <2>1, HeldReview DEF ReviewerInv
  <2>3. new.eligible_at_open = old.eligible_at_open /\ new.approvals = old.approvals
    BY <2>2 DEF Reviews
  <2> HIDE DEF new
  <2>4. ~overlapped => Follows(new, row)
    BY <2>2, <2>3 DEF ServedAlone, Follows
  <2> QED BY <2>1, <2>4, HoldAlone
<1>5. ASSUME NEW h \in Handlers, NEW c \in Comments, NEW who \in Approvers,
             ApproveSuggestion(h, c, who)
      PROVE  ServedAlone' /\ row' = row
  <2> DEFINE new == [row EXCEPT !.approvals[c] = who]
  <2>1. Hold(h, "save", new) /\ row \in Reviews
    BY <1>5, StoredReview DEF ApproveSuggestion, ReviewerInv
  <2>2. /\ new.eligible_at_open = row.eligible_at_open
        /\ new.approvals = [row.approvals EXCEPT ![c] = who]
        /\ row.approvals \in [Comments -> Approvers \cup {Nobody}]
    BY <2>1 DEF Reviews
  <2> HIDE DEF new
  <2>3. Follows(new, row)
    BY <2>2, ReviewerAssumption DEF Follows
  <2> QED BY <2>1, <2>3, HoldAlone
<1>6. ASSUME NEW h \in Handlers, Save(h)
      PROVE  ServedAlone' /\ (~overlapped => row' \in Reviews /\ Follows(row', row))
  <2>1. /\ handlers[h].pc = "save" /\ row' = handlers[h].review
        /\ overlapped' = overlapped
        /\ \A g \in Handlers : handlers'[g] = IF g = h THEN Idle ELSE handlers[g]
    BY <1>6 DEF Save, history, ReviewerInv, TypeOK
  <2>2. handlers[h].review \in Reviews /\ handlers[h] # Idle
    BY <2>1, HeldReview DEF ReviewerInv
  <2>3. ~overlapped => \A g \in Handlers : handlers'[g] = Idle
    BY <2>1, <2>2 DEF ServedAlone
  <2> QED BY <2>1, <2>2, <2>3 DEF ServedAlone
<1>7. ASSUME row' = row, overlapped' = overlapped,
             \A g \in Handlers : handlers'[g] = handlers[g] \/ handlers'[g] = Idle
      PROVE  ServedAlone' /\ row' = row
  BY <1>7 DEF ServedAlone
<1>8. ASSUME NEW h \in Handlers, Abandon(h) PROVE ServedAlone' /\ row' = row
  BY <1>7, <1>8 DEF Abandon, history, ReviewerInv, TypeOK
<1>9. ASSUME Restart PROVE ServedAlone' /\ row' = row
  BY <1>7, <1>9 DEF Restart, history
<1>10. ASSUME NEW c \in Comments, BotEdits(c) \/ BotDeletes(c) \/ AuthorizeApply(c)
       PROVE  ServedAlone' /\ row' = row
  BY <1>7, <1>10 DEF BotEdits, BotDeletes, AuthorizeApply, history
<1>11. ASSUME NEW v \in ReviewStates, BotReviews(v) PROVE ServedAlone' /\ row' = row
  BY <1>7, <1>11 DEF BotReviews, history
<1>12. ASSUME UNCHANGED vars PROVE ServedAlone' /\ row' = row
  BY <1>7, <1>12 DEF vars
<1> QED BY <1>1, <1>2, <1>3, <1>4, <1>5, <1>6, <1>8, <1>9, <1>10, <1>11, <1>12 DEF Next

LEMMA InitAlone == Init => ServedAlone
  BY DEF Init, ServedAlone

(***************************************************************************)
(* Served one at a time, requests never change a stored eligibility,       *)
(* whatever the configuration is changed to.                               *)
(***************************************************************************)
THEOREM EligibilityIsLatched == Spec => EligibilityLatched
<1> DEFINE Latched == row.stored /\ ~overlapped =>
                         row'.stored /\ row'.eligible_at_open = row.eligible_at_open
<1>1. ReviewerInv /\ ServedAlone /\ [Next]_vars => ReviewerInv' /\ ServedAlone' /\ Latched
  <2> SUFFICES ASSUME ReviewerInv, ServedAlone, [Next]_vars PROVE ServedAlone' /\ Latched
    BY ReviewerNextGood
  <2> QED BY AloneKept DEF Follows, Reviews
<1>2. ReviewerInv /\ ServedAlone /\ [Next]_vars
      => ReviewerInv' /\ ServedAlone' /\ [Latched]_vars
  BY <1>1
<1> HIDE DEF Latched
<1>3. Spec => [][Latched]_vars
  BY <1>2, ReviewerInitGood, InitAlone, PTL DEF Spec
<1> QED BY <1>3 DEF EligibilityLatched, Latched

(***************************************************************************)
(* Served one at a time, requests never lose an approval that was stored.  *)
(***************************************************************************)
THEOREM ApprovalsAreKept == Spec => ApprovalsKept
<1> DEFINE KeptAll == \A c \in Comments :
                         row.stored /\ ~overlapped /\ row.approvals[c] # Nobody =>
                            row'.approvals[c] # Nobody
<1>1. ReviewerInv /\ ServedAlone /\ [Next]_vars => ReviewerInv' /\ ServedAlone' /\ KeptAll
  <2> SUFFICES ASSUME ReviewerInv, ServedAlone, [Next]_vars PROVE ServedAlone' /\ KeptAll
    BY ReviewerNextGood
  <2> QED BY AloneKept DEF Follows
<1>2. ReviewerInv /\ ServedAlone /\ [Next]_vars
      => ReviewerInv' /\ ServedAlone' /\ [KeptAll]_vars
  BY <1>1
<1> HIDE DEF KeptAll
<1>3. Spec => [][KeptAll]_vars
  BY <1>2, ReviewerInitGood, InitAlone, PTL DEF Spec
<1> QED BY <1>3 DEF ApprovalsKept, KeptAll
-----------------------------------------------------------------------------
(***************************************************************************)
(* The signals.  What reaches the table came over the wire, signed; what   *)
(* is on the wire is one of ARIA's own signals or the evidence of a        *)
(* snapshot that was assessed.                                             *)
(***************************************************************************)
FromSnapshot(payload, done) ==
    \E s \in done, tenant \in Tenants : payload = AriaEvidence(s, tenant)

SignalsInv ==
    /\ recent \subseteq assessed
    /\ \A s \in assessed : s \in Snapshots /\ ValidSnapshot(s)
    /\ \A message \in wire :
          FromSnapshot(message.payload, assessed) \/ message.payload \in ForeignSignals
    /\ \A r \in rows : \E message \in wire :
          message.payload = r.payload /\ message.secret = "aria"

\* The severities a snapshot's findings have.
LEMMA FindingSeverities ==
    ASSUME NEW s
    PROVE  LET severities == {finding[2] : finding \in Findings(s)}
           IN  /\ severities \subseteq {"medium", "high", "critical"}
               /\ "critical" \in severities <=> s.offline_partitions > 0
               /\ "high" \in severities <=>
                     \/ s.under_replicated > 0 \/ s.consumer_lag >= 10000
                     \/ IsHot(s.partition_lag) \/ s.schema_errors_5m > 0
                     \/ s.duplicate_rate > 10 \/ s.disk_used_percent >= 85
                     \/ SloStatus(s) = "exhausted"
<1> DEFINE severities == {finding[2] : finding \in Findings(s)}
<1>1. \A finding \in Findings(s) : finding[2] \in {"medium", "high", "critical"}
  BY DEF Findings
<1>2. s.offline_partitions > 0 => <<"OFFLINE_PARTITIONS", "critical">> \in Findings(s)
  BY DEF Findings
<1>3. \A finding \in Findings(s) : finding[2] = "critical" => s.offline_partitions > 0
  BY DEF Findings
<1>4. /\ s.under_replicated > 0 => <<"UNDER_REPLICATED_PARTITIONS", "high">> \in Findings(s)
      /\ s.consumer_lag >= 10000 => <<"CONSUMER_LAG", "high">> \in Findings(s)
      /\ IsHot(s.partition_lag) => <<"HOT_PARTITION", "high">> \in Findings(s)
      /\ s.schema_errors_5m > 0 => <<"SCHEMA_INCOMPATIBILITY", "high">> \in Findings(s)
      /\ s.duplicate_rate > 10 => <<"DUPLICATE_PROCESSING", "high">> \in Findings(s)
      /\ s.disk_used_percent >= 85 => <<"DISK_PRESSURE", "high">> \in Findings(s)
      /\ SloStatus(s) = "exhausted" => <<"ERROR_BUDGET_EXHAUSTED", "high">> \in Findings(s)
  BY DEF Findings
<1>5. \A finding \in Findings(s) : finding[2] = "high" =>
         \/ s.under_replicated > 0 \/ s.consumer_lag >= 10000
         \/ IsHot(s.partition_lag) \/ s.schema_errors_5m > 0
         \/ s.duplicate_rate > 10 \/ s.disk_used_percent >= 85
         \/ SloStatus(s) = "exhausted"
  BY DEF Findings
<1>6. \A code, severity : <<code, severity>> \in Findings(s) => severity \in severities
  <2> SUFFICES ASSUME NEW code, NEW severity, <<code, severity>> \in Findings(s)
               PROVE  severity \in severities
    OBVIOUS
  <2>1. <<code, severity>>[2] = severity
    OBVIOUS
  <2> QED BY <2>1
<1> HIDE DEF severities
<1>7. severities \subseteq {"medium", "high", "critical"}
  BY <1>1 DEF severities
<1>8. "critical" \in severities <=> s.offline_partitions > 0
  BY <1>2, <1>3, <1>6 DEF severities
<1>9. "high" \in severities => \E finding \in Findings(s) : finding[2] = "high"
  BY DEF severities
<1> QED BY <1>4, <1>5, <1>6, <1>7, <1>8, <1>9 DEF severities

LEMMA RankFacts ==
    /\ SeverityRank["info"] = 0 /\ SeverityRank["low"] = 1 /\ SeverityRank["medium"] = 2
    /\ SeverityRank["high"] = 3 /\ SeverityRank["critical"] = 4
  BY DEF SeverityRank

\* The diagnosis finds a hot partition exactly if there is one.
LEMMA HotIsLargest ==
    ASSUME NEW s \in Snapshots, ValidSnapshot(s)
    PROVE  IsHot(s.partition_lag) <=> HotPartition(s.partition_lag)
<1> DEFINE lag == s.partition_lag
           lags == {lag[p] : p \in DOMAIN lag}
<1>1. \A p \in DOMAIN lag : lag[p] \in Nat
  BY DEF ValidSnapshot
<1>2. CASE DOMAIN lag = {}
  BY <1>2 DEF IsHot, HotPartition
<1>3. CASE DOMAIN lag # {}
  <2>1. PICK p \in DOMAIN lag : \A q \in DOMAIN lag : lag[q] <= lag[p]
    BY <1>3, SignalsAssumption
  <2>2. lag[p] \in lags /\ lags \subseteq Nat /\ \A y \in lags : lag[p] >= y
    BY <1>1, <2>1
  <2>3. \A x \in lags : (\A y \in lags : x >= y) => x = lag[p]
    BY <2>2
  <2> HIDE DEF lags
  <2>4. Max(lags) = lag[p]
    BY <2>2, <2>3 DEF Max
  <2>5. \A r \in DOMAIN lag : (\A q \in DOMAIN lag : lag[q] <= lag[r]) => lag[r] = lag[p]
    BY <1>1, <2>1
  <2>6. IsHot(lag) <=> lag[p] >= 1000 /\ lag[p] * Cardinality(DOMAIN lag) > 2 * Total(lag)
    BY <1>3, <2>4 DEF IsHot, lags
  <2>7. HotPartition(lag) <=> lag[p] >= 1000 /\ lag[p] * Cardinality(DOMAIN lag) > 2 * Total(lag)
    BY <2>1, <2>5 DEF HotPartition
  <2> QED BY <2>6, <2>7
<1> QED BY <1>2, <1>3

(***************************************************************************)
(* The diagnosis of a snapshot is high or critical exactly when the        *)
(* snapshot is grave.                                                      *)
(***************************************************************************)
LEMMA GraveSeverity ==
    ASSUME NEW s \in Snapshots, ValidSnapshot(s)
    PROVE  Severity(s) \in {"high", "critical"} <=> Grave(s)
<1> DEFINE found == {finding[2] : finding \in Findings(s)}
           severities == found \cup {"info"}
           highest(x) == \A other \in severities : SeverityRank[x] >= SeverityRank[other]
<1>1. /\ found \subseteq {"medium", "high", "critical"}
      /\ "critical" \in found <=> s.offline_partitions > 0
      /\ "high" \in found <=>
            \/ s.under_replicated > 0 \/ s.consumer_lag >= 10000
            \/ IsHot(s.partition_lag) \/ s.schema_errors_5m > 0
            \/ s.duplicate_rate > 10 \/ s.disk_used_percent >= 85
            \/ SloStatus(s) = "exhausted"
  BY FindingSeverities
<1>2. Severity(s) = CHOOSE x \in severities : highest(x)
  BY DEF Severity
<1> HIDE DEF found
<1>3. severities \subseteq {"info", "medium", "high", "critical"} /\ "info" \in severities
  BY <1>1
<1>4. \E x \in severities : highest(x)
  <2>1. CASE "critical" \in severities
    BY <1>3, <2>1, RankFacts
  <2>2. CASE "critical" \notin severities /\ "high" \in severities
    BY <1>3, <2>2, RankFacts
  <2>3. CASE "critical" \notin severities /\ "high" \notin severities /\ "medium" \in severities
    BY <1>3, <2>3, RankFacts
  <2>4. CASE severities = {"info"}
    BY <2>4, RankFacts
  <2> QED BY <1>3, <2>1, <2>2, <2>3, <2>4
<1>5. Severity(s) \in severities /\ highest(Severity(s))
  BY <1>2, <1>4
<1>6. Severity(s) \in {"high", "critical"} <=> "high" \in severities \/ "critical" \in severities
  <2>1. ASSUME "high" \in severities \/ "critical" \in severities
        PROVE  Severity(s) \in {"high", "critical"}
    <3>1. SeverityRank[Severity(s)] >= 3
      BY <1>3, <1>5, <2>1, RankFacts
    <3> QED BY <1>3, <1>5, <3>1, RankFacts
  <2> QED BY <1>5, <2>1
<1>7. /\ s.offline_partitions \in Nat /\ s.under_replicated \in Nat
      /\ s.schema_errors_5m \in Nat /\ s.eligible \in Nat /\ s.completed \in Nat
  BY DEF ValidSnapshot
<1>8. SloStatus(s) = "exhausted" <=> s.eligible > 0 /\ 1000 * s.completed <= 999 * s.eligible
  BY <1>7 DEF SloStatus, Missed
<1>9. s.offline_partitions + s.under_replicated + s.schema_errors_5m > 0 <=>
         s.offline_partitions > 0 \/ s.under_replicated > 0 \/ s.schema_errors_5m > 0
  BY <1>7
<1>10. "high" \in severities \/ "critical" \in severities <=>
          \/ s.offline_partitions > 0
          \/ s.under_replicated > 0 \/ s.consumer_lag >= 10000
          \/ IsHot(s.partition_lag) \/ s.schema_errors_5m > 0
          \/ s.duplicate_rate > 10 \/ s.disk_used_percent >= 85
          \/ SloStatus(s) = "exhausted"
  BY <1>1
<1> QED BY <1>6, <1>8, <1>9, <1>10, HotIsLargest DEF Grave

\* The scorecard fails a candidate exactly if some matching signal is grave.
LEMMA ImpactIsGrave ==
    ASSUME NEW evidence, NEW tenant, NEW workload
    PROVE  ReleaseGateImpact(evidence, tenant, workload) = "fail-candidate" <=>
              \E r \in evidence :
                 /\ r.payload.tenant = tenant /\ r.payload.workload = workload
                 /\ r.payload.severity \in {"high", "critical"}
<1> DEFINE matching == Matching(evidence, tenant, workload)
           top(p) == \A other \in matching : Rank(p) >= Rank(other)
<1>1. ReleaseGateImpact(evidence, tenant, workload) = "fail-candidate" <=>
         \E p \in matching : top(p) /\ p.severity \in {"high", "critical"}
  BY DEF ReleaseGateImpact
<1>2. (\E p \in matching : p.severity \in {"high", "critical"}) <=>
      \E r \in evidence :
         /\ r.payload.tenant = tenant /\ r.payload.workload = workload
         /\ r.payload.severity \in {"high", "critical"}
  BY DEF Matching
<1>3. \A p : /\ Rank(p) \in 0 .. 4
             /\ p.severity = "critical" => Rank(p) = 4
             /\ p.severity = "high" => Rank(p) = 3
             /\ Rank(p) = 4 => p.severity = "critical"
  <2> SUFFICES ASSUME NEW p
               PROVE  /\ Rank(p) \in 0 .. 4
                      /\ p.severity = "critical" => Rank(p) = 4
                      /\ p.severity = "high" => Rank(p) = 3
                      /\ Rank(p) = 4 => p.severity = "critical"
    OBVIOUS
  <2>1. CASE p.severity = "missing"
    BY <2>1 DEF Rank
  <2>2. CASE p.severity \in {"low", "medium", "high", "critical"}
    <3>1. Rank(p) = SeverityRank[p.severity]
      BY <2>2 DEF Rank
    <3> QED BY <2>2, <3>1, RankFacts
  <2>3. CASE p.severity \notin {"missing", "low", "medium", "high", "critical"}
    BY <2>3 DEF Rank
  <2> QED BY <2>1, <2>2, <2>3
<1> HIDE DEF matching
<1>4. ASSUME NEW p \in matching, p.severity \in {"high", "critical"}
      PROVE  \E q \in matching : top(q) /\ q.severity \in {"high", "critical"}
  <2>1. CASE \E q \in matching : q.severity = "critical"
    BY <1>3, <2>1
  <2>2. CASE ~\E q \in matching : q.severity = "critical"
    <3>1. Rank(p) = 3 /\ \A other \in matching : Rank(other) \in 0 .. 4 /\ Rank(other) # 4
      BY <1>3, <1>4, <2>2
    <3> QED BY <1>4, <3>1
  <2> QED BY <2>1, <2>2
<1> QED BY <1>1, <1>2, <1>4

LEMMA SignalsNextGood == SignalsInv /\ [SignalsNext]_signalVars => SignalsInv' /\ rows \subseteq rows'
<1> SUFFICES ASSUME SignalsInv, [SignalsNext]_signalVars PROVE SignalsInv' /\ rows \subseteq rows'
  OBVIOUS
<1>1. ASSUME NEW s \in Snapshots, Assess(s) PROVE SignalsInv' /\ rows \subseteq rows'
  BY <1>1 DEF Assess, Record, SignalsInv, FromSnapshot
<1>2. ASSUME NEW payload, NEW nonce, NEW secret, Publish(payload, nonce, secret),
             FromSnapshot(payload, assessed) \/ payload \in ForeignSignals
      PROVE  SignalsInv' /\ rows \subseteq rows'
  <2> DEFINE new == [payload |-> payload, nonce |-> nonce, timestamp |-> clock, secret |-> secret]
  <2>1. wire' = wire \cup {new} /\ UNCHANGED <<recent, assessed, rows, clock>>
    BY <1>2 DEF Publish
  <2>2. new.payload = payload
    OBVIOUS
  <2> HIDE DEF new
  <2> QED BY <1>2, <2>1, <2>2 DEF SignalsInv
<1>3. ASSUME NEW s \in Snapshots, NEW tenant \in Tenants, NEW nonce \in 1 .. MaxMessages,
             ForwardEvidence(s, tenant, nonce)
      PROVE  SignalsInv' /\ rows \subseteq rows'
  <2>1. s \in assessed
    BY <1>3 DEF ForwardEvidence, SignalsInv
  <2>2. FromSnapshot(AriaEvidence(s, tenant), assessed)
    BY <2>1 DEF FromSnapshot
  <2> QED BY <1>2, <1>3, <2>2 DEF ForwardEvidence
<1>4. ASSUME NEW message \in wire, ReceiveAriaIntelligence(message)
      PROVE  SignalsInv' /\ rows \subseteq rows'
  <2> DEFINE new == [payload |-> message.payload, nonce |-> message.nonce]
  <2>1. /\ rows' = rows \cup {new} /\ UNCHANGED <<recent, assessed, wire, clock>>
        /\ message.secret = "aria"
    BY <1>4 DEF ReceiveAriaIntelligence, Store, Verify
  <2>2. new.payload = message.payload
    OBVIOUS
  <2> HIDE DEF new
  <2> QED BY <2>1, <2>2 DEF SignalsInv
<1>5. ASSUME RestartStreaming \/ Elapse \/ UNCHANGED signalVars
      PROVE  SignalsInv' /\ rows \subseteq rows'
  BY <1>5 DEF RestartStreaming, Elapse, signalVars, SignalsInv
<1> QED BY <1>1, <1>2, <1>3, <1>4, <1>5 DEF SignalsNext

LEMMA SignalsInitGood == SignalsInit => SignalsInv
  BY DEF SignalsInit, SignalsInv

LEMMA EvidenceFacts ==
    ASSUME NEW s, NEW tenant
    PROVE  /\ AriaEvidence(s, tenant).signal = <<"stream", s>>
           /\ AriaEvidence(s, tenant).severity = Severity(s)
           /\ AriaEvidence(s, tenant).workload = s.workload
  BY DEF AriaEvidence

\* A stored signal is grave exactly if its origin is.
LEMMA OriginDecides ==
    ASSUME SignalsInv, NEW r \in rows, NEW workload, r.payload.workload = workload
    PROVE  r.payload.severity \in {"high", "critical"} <=>
              \/ \E s \in assessed : /\ r.payload.signal = <<"stream", s>>
                                     /\ s.workload = workload /\ Grave(s)
              \/ /\ r.payload \in ForeignSignals
                 /\ r.payload.severity \in {"high", "critical"}
                 /\ \E message \in wire : /\ message.payload = r.payload
                                          /\ message.secret = "aria"
<1>1. PICK message \in wire : message.payload = r.payload /\ message.secret = "aria"
  BY DEF SignalsInv
<1>2. CASE FromSnapshot(r.payload, assessed)
  <2>1. PICK s \in assessed, tenant \in Tenants : r.payload = AriaEvidence(s, tenant)
    BY <1>2 DEF FromSnapshot
  <2>2. /\ r.payload.signal = <<"stream", s>> /\ r.payload.severity = Severity(s)
        /\ s.workload = workload /\ ValidSnapshot(s) /\ s \in Snapshots
    BY <2>1, EvidenceFacts DEF SignalsInv
  <2>3. r.payload.severity \in {"high", "critical"} <=> Grave(s)
    BY <2>2, GraveSeverity
  <2>4. r.payload \notin ForeignSignals
    BY <2>2, SignalsAssumption
  <2>5. \A t : r.payload.signal = <<"stream", t>> => t = s
    BY <2>2
  <2> QED BY <2>2, <2>3, <2>4, <2>5
<1>3. CASE r.payload \in ForeignSignals
  <2>1. ~\E s \in assessed : r.payload.signal = <<"stream", s>>
    BY <1>3, SignalsAssumption DEF SignalsInv
  <2> QED BY <1>1, <1>3, <2>1
<1> QED BY <1>1, <1>2, <1>3 DEF SignalsInv

(***************************************************************************)
(* For any snapshots, signals and tenants, however late or often messages  *)
(* arrive: the gate of a workload is touched exactly by grave incidents    *)
(* that were really assessed for it or signed by ARIA.                     *)
(***************************************************************************)
THEOREM GateFollowsEvidenceAlways == SignalsSpec => []GateFollowsEvidence
<1>1. SignalsInv => GateFollowsEvidence
  <2> SUFFICES ASSUME SignalsInv, NEW tenant \in Tenants, NEW workload \in Workloads
               PROVE  ReleaseGateImpact(rows, tenant, workload) = "fail-candidate" <=>
            \E r \in rows :
                /\ r.payload.tenant = tenant /\ r.payload.workload = workload
                /\ \/ \E s \in assessed : /\ r.payload.signal = <<"stream", s>>
                                          /\ s.workload = workload /\ Grave(s)
                   \/ /\ r.payload \in ForeignSignals
                      /\ r.payload.severity \in {"high", "critical"}
                      /\ \E message \in wire : /\ message.payload = r.payload
                                               /\ message.secret = "aria"
    BY DEF GateFollowsEvidence
  <2> QED BY ImpactIsGrave, OriginDecides
<1> QED BY <1>1, SignalsInitGood, SignalsNextGood, PTL DEF SignalsSpec

(***************************************************************************)
(* Evidence against a release is never withdrawn.                          *)
(***************************************************************************)
THEOREM GateNeverLoosens == SignalsSpec => GateOnlyTightens
<1> DEFINE Tightens == \A tenant \in Tenants, workload \in Workloads :
              ReleaseGateImpact(rows, tenant, workload) = "fail-candidate" =>
              ReleaseGateImpact(rows', tenant, workload) = "fail-candidate"
<1>1. SignalsInv /\ [SignalsNext]_signalVars => SignalsInv' /\ [Tightens]_signalVars
  <2> SUFFICES ASSUME SignalsInv, [SignalsNext]_signalVars PROVE Tightens
    BY SignalsNextGood
  <2>1. rows \subseteq rows'
    BY SignalsNextGood
  <2> QED BY <2>1, ImpactIsGrave
<1> HIDE DEF Tightens
<1>2. SignalsSpec => [][Tightens]_signalVars
  BY <1>1, SignalsInitGood, PTL DEF SignalsSpec
<1> QED BY <1>2 DEF GateOnlyTightens, Tightens

-----------------------------------------------------------------------------
(***************************************************************************)
(* The judges.  First what an ensemble computes: a sample with an          *)
(* injection goes to a human with zeros in every dimension, and a sample   *)
(* that failed is below the rubric in some dimension.                      *)
(***************************************************************************)
LEMMA LeastNatural ==
    ASSUME NEW S, S \subseteq Nat, S # {}
    PROVE  \E x \in S : \A y \in S : x <= y
<1> DEFINE R == OpToRel(<, Nat)
<1>1. IsWellFoundedOn(R, Nat)
  BY NatLessThanWellFounded, Zenon
<1>2. \A x, y \in Nat : <<y, x>> \notin R => x <= y
  BY DEF OpToRel
<1> HIDE DEF R
<1>3. PICK x \in S : \A y \in S : <<y, x>> \notin R
  BY <1>1, WFMin
<1> QED BY <1>2, <1>3

LEMMA MinOfNaturals ==
    ASSUME NEW S, S \subseteq Nat, S # {}
    PROVE  Min(S) \in S /\ \A y \in S : Min(S) <= y
<1>1. \E x \in S : \A y \in S : x <= y
  BY LeastNatural
<1> QED BY <1>1 DEF Min

LEMMA MostOfScores ==
    ASSUME NEW S, S \subseteq 0 .. 100, S # {}
    PROVE  \E x \in S : \A y \in S : y <= x
<1> DEFINE T == {100 - x : x \in S}
<1>1. T \subseteq Nat /\ T # {}
  <2>1. \A x \in S : 100 - x \in Nat
    OBVIOUS
  <2>2. PICK x : x \in S
    OBVIOUS
  <2>3. 100 - x \in T
    BY <2>2
  <2> QED BY <2>1, <2>3
<1>2. PICK t \in T : \A y \in T : t <= y
  BY <1>1, LeastNatural
<1>3. PICK x \in S : t = 100 - x
  OBVIOUS
<1>4. ASSUME NEW y \in S PROVE y <= x
  <2>1. 100 - y \in T /\ y \in 0 .. 100 /\ x \in 0 .. 100
    OBVIOUS
  <2>2. 100 - x <= 100 - y
    BY <1>2, <1>3, <2>1
  <2> QED BY <2>1, <2>2
<1> QED BY <1>3, <1>4

\* Twice the median of scores is a natural number, and of zeros it is zero.
LEMMA MedianOfScores ==
    ASSUME NEW judges, judges # {}, IsFiniteSet(judges), NEW f \in [judges -> 0 .. 100]
    PROVE  /\ TwiceMedian(f) \in Nat
           /\ (\A j \in judges : f[j] = 0) => TwiceMedian(f) = 0
<1> DEFINE n == Cardinality(judges)
           values == {f[i] : i \in judges}
           below(v) == Cardinality({i \in judges : f[i] <= v})
           above(k) == {v \in values : below(v) >= k}
           nth(k) == Min(above(k))
<1>1. n \in Nat /\ n >= 1
  <2>1. n \in Nat /\ n # 0
    BY FS_CardinalityType, FS_EmptySet
  <2> QED BY <2>1
<1>2. values \subseteq 0 .. 100 /\ values # {}
  OBVIOUS
<1>3. PICK m \in values : \A v \in values : v <= m
  BY <1>2, MostOfScores
<1>4. below(m) = n
  <2>1. {i \in judges : f[i] <= m} = judges
    BY <1>3
  <2> QED BY <2>1
<1>5. TwiceMedian(f) = nth((n + 1) \div 2) + nth((n + 2) \div 2)
  BY DEF TwiceMedian
<1> DEFINE h == (n + 1) \div 2
           g == (n + 2) \div 2
<1>6. h <= n /\ g <= n
  <2> HIDE DEF n
  <2> QED BY <1>1
<1>7. ASSUME NEW k, k <= n
      PROVE  nth(k) \in Nat /\ ((\A j \in judges : f[j] = 0) => nth(k) = 0)
  <2>1. m \in above(k)
    BY <1>3, <1>4, <1>7
  <2>2. above(k) \subseteq Nat /\ above(k) # {}
    <3>1. above(k) \subseteq values
      OBVIOUS
    <3>2. values \subseteq Nat
      BY <1>2
    <3> HIDE DEF above, values
    <3> QED BY <2>1, <3>1, <3>2
  <2>3. nth(k) \in above(k)
    BY <2>2, MinOfNaturals
  <2>4. nth(k) \in values
    BY <2>3
  <2> HIDE DEF nth
  <2> QED BY <2>4
<1>8. TwiceMedian(f) = nth(h) + nth(g)
  BY <1>5
<1> HIDE DEF h, g, nth
<1> QED BY <1>6, <1>7, <1>8

LEMMA AnswerScores ==
    ASSUME NEW sample, NEW answer \in Answers(sample), NEW d \in Dimensions
    PROVE  /\ answer.scores[d] \in 0 .. 100
           /\ sample \in Injected => answer.scores[d] = 0 /\ answer.injection = TRUE
<1>1. CASE sample \in Injected
  BY <1>1 DEF Answers, Answer
<1>2. CASE sample \notin Injected
  <2>1. PICK scores \in [Dimensions -> Grades] : answer.scores = scores
    BY <1>2 DEF Answers, Answer
  <2> QED BY <1>2, <2>1, JudgeAssumption
<1> QED BY <1>1, <1>2

LEMMA EnsembleFields ==
    ASSUME NEW results
    PROVE  /\ Ensemble(results).twice =
                 [d \in Dimensions |-> TwiceMedian([j \in DOMAIN results |-> results[j].scores[d]])]
           /\ (\E j \in DOMAIN results : results[j].injection) =>
                 Ensemble(results).verdict = "human_review"
           /\ Ensemble(results).verdict \in {"human_review", "pass", "fail"}
           /\ Ensemble(results).verdict = "fail" =>
                 \E d \in Dimensions : ~(Ensemble(results).twice[d] >= 2 * Thresholds[d])
  BY DEF Ensemble

LEMMA OutcomeFacts ==
    ASSUME NEW judges, judges # {}, IsFiniteSet(judges),
           NEW sample \in Samples, NEW outcome \in OutcomesOf(judges)[sample]
    PROVE  /\ \A d \in Dimensions : outcome.twice[d] \in Nat
           /\ outcome.verdict \in {"human_review", "pass", "fail"}
           /\ outcome.verdict = "fail" =>
                 \E d \in Dimensions : ~(outcome.twice[d] >= 2 * Thresholds[d])
           /\ sample \in Injected =>
                 /\ outcome.verdict = "human_review"
                 /\ \A d \in Dimensions : outcome.twice[d] = 0
<1>1. PICK results \in [judges -> Answers(sample)] : outcome = Ensemble(results)
  BY DEF OutcomesOf
<1>2. ASSUME NEW d \in Dimensions
      PROVE  /\ outcome.twice[d] \in Nat
             /\ sample \in Injected => outcome.twice[d] = 0
  <2> DEFINE f == [j \in judges |-> results[j].scores[d]]
  <2>1. outcome.twice[d] = TwiceMedian(f)
    <3> DEFINE scores == [j \in DOMAIN results |-> results[j].scores[d]]
    <3>1. scores = f
      OBVIOUS
    <3>2. outcome.twice =
            [e \in Dimensions |-> TwiceMedian([j \in DOMAIN results |-> results[j].scores[e]])]
      BY <1>1, EnsembleFields, Zenon
    <3>3. outcome.twice[d] = TwiceMedian(scores)
      BY <3>2, Zenon
    <3> HIDE DEF scores, f
    <3> QED BY <3>1, <3>3
  <2>2. f \in [judges -> 0 .. 100] /\ (sample \in Injected => \A j \in judges : f[j] = 0)
    BY AnswerScores
  <2> HIDE DEF f
  <2> QED BY <2>1, <2>2, MedianOfScores
<1>3. sample \in Injected => outcome.verdict = "human_review"
  <2>1. \E d : d \in Dimensions
    BY JudgeAssumption DEF Dimensions
  <2>2. sample \in Injected => \A j \in judges : results[j].injection = TRUE
    BY <2>1, AnswerScores
  <2> QED BY <1>1, <2>2, EnsembleFields
<1> QED BY <1>1, <1>2, <1>3, EnsembleFields

-----------------------------------------------------------------------------
(***************************************************************************)
(* The review queue.  Identifiers are handed out in order, and no row of   *)
(* the queue is written before its evaluation.                             *)
(***************************************************************************)
QueueRows ==
    [status : {"none", "pending", "resolved"}, verdict : {"none", "pass", "fail"},
     reviewer : Reviewers \cup {"none"}]

QueueInv ==
    /\ IsFiniteSet(evaluations)
    /\ reviews \in [1 .. MaxEvaluations -> QueueRows]
    /\ \A e \in evaluations :
          /\ e.id \in 1 .. MaxEvaluations /\ e.id <= Cardinality(evaluations)
          /\ e.sample \in Injected =>
                e.verdict = "human_review" /\ reviews[e.id].status # "none"
    /\ \A id \in 1 .. MaxEvaluations :
          id > Cardinality(evaluations) => reviews[id] = NotQueued

ReviewSettles(id) ==
    /\ reviews[id].status = "resolved" => reviews'[id] = reviews[id]
    /\ reviews[id].status = "pending" =>
          \/ reviews'[id] = reviews[id]
          \/ /\ reviews'[id].status = "resolved"
             /\ reviews'[id].reviewer \in JudgeReviewers
    /\ (\E e \in evaluations : e.id = id) /\ reviews[id].status = "none" =>
          reviews'[id] = reviews[id]

LEMMA QueueInit == JudgeInit => QueueInv
<1> SUFFICES ASSUME JudgeInit PROVE QueueInv
  OBVIOUS
<1>1. evaluations = {} /\ reviews = [id \in 1 .. MaxEvaluations |-> NotQueued]
  BY DEF JudgeInit
<1>2. NotQueued \in QueueRows
  BY DEF NotQueued, QueueRows
<1> QED BY <1>1, <1>2, FS_EmptySet DEF QueueInv

LEMMA QueueEvaluate ==
    ASSUME QueueInv, NEW sample \in Samples, Evaluate(sample)
    PROVE  QueueInv' /\ \A i \in DOMAIN reviews : ReviewSettles(i)
<1> DEFINE n == Cardinality(evaluations)
           id == n + 1
<1>1. PICK outcome \in Outcomes[sample] :
        RecordResult(sample, outcome.verdict, QueueReview(sample, outcome.verdict))
  BY DEF Evaluate
<1> DEFINE e == [id |-> id, sample |-> sample, verdict |-> outcome.verdict]
           queue == QueueReview(sample, outcome.verdict)
<1>2. n \in Nat /\ id \in 1 .. MaxEvaluations
  BY <1>1, FS_CardinalityType, JudgeAssumption DEF QueueInv, RecordResult
<1>3. /\ evaluations' = evaluations \cup {e}
      /\ reviews' = IF queue THEN [reviews EXCEPT ![id].status = "pending"] ELSE reviews
  BY <1>1 DEF RecordResult
<1>4. e.id = id /\ e.sample = sample /\ e.verdict = outcome.verdict
  OBVIOUS
<1>5. sample \in Injected => outcome.verdict = "human_review" /\ queue
  <2>1. sample \in Injected => outcome.verdict = "human_review"
    BY OutcomeFacts, JudgeAssumption DEF Outcomes
  <2> QED BY <2>1 DEF QueueReview
<1> HIDE DEF e, queue
<1>6. e \notin evaluations
  BY <1>2, <1>4 DEF QueueInv
<1>7. IsFiniteSet(evaluations') /\ Cardinality(evaluations') = id
  BY <1>3, <1>6, FS_AddElement DEF QueueInv
<1> HIDE DEF n
<1>8. reviews' \in [1 .. MaxEvaluations -> QueueRows]
  BY <1>2, <1>3 DEF QueueInv, QueueRows
<1>9. ASSUME NEW i \in 1 .. MaxEvaluations, i # id
      PROVE  reviews'[i] = reviews[i]
  BY <1>3, <1>9 DEF QueueInv
<1>10. queue => reviews'[id].status = "pending"
  BY <1>2, <1>3 DEF QueueInv, QueueRows
<1>11. QueueInv'
  <2>1. ASSUME NEW d \in evaluations'
        PROVE  /\ d.id \in 1 .. MaxEvaluations /\ d.id <= id
               /\ d.sample \in Injected =>
                     d.verdict = "human_review" /\ reviews'[d.id].status # "none"
    <3>1. CASE d = e
      BY <3>1, <1>2, <1>4, <1>5, <1>10
    <3>2. CASE d \in evaluations
      <4>1. d.id \in 1 .. MaxEvaluations /\ d.id <= n
        BY <3>2 DEF QueueInv, n
      <4> QED BY <3>2, <4>1, <1>2, <1>9 DEF QueueInv
    <3> QED BY <1>3, <3>1, <3>2
  <2>2. ASSUME NEW i \in 1 .. MaxEvaluations, i > id
        PROVE  reviews'[i] = NotQueued
    <3>1. i # id /\ i > n
      BY <2>2, <1>2
    <3>2. reviews[i] = NotQueued
      BY <3>1 DEF QueueInv, n
    <3> QED BY <3>1, <3>2, <1>9
  <2> QED BY <1>7, <1>8, <2>1, <2>2 DEF QueueInv
<1>12. ASSUME NEW i \in DOMAIN reviews PROVE ReviewSettles(i)
  <2>1. i \in 1 .. MaxEvaluations
    BY DEF QueueInv
  <2>2. CASE i # id
    BY <2>1, <2>2, <1>9 DEF ReviewSettles
  <2>3. CASE i = id
    <3>1. i > n
      BY <2>3, <1>2
    <3>2. reviews[i] = NotQueued
      BY <2>1, <3>1 DEF QueueInv, n
    <3>3. ~\E d \in evaluations : d.id = i
      BY <2>3, <1>2 DEF QueueInv, n
    <3> QED BY <3>2, <3>3 DEF ReviewSettles, NotQueued
  <2> QED BY <2>2, <2>3
<1> QED BY <1>11, <1>12

LEMMA QueueResolve ==
    ASSUME QueueInv, NEW id \in 1 .. MaxEvaluations, NEW reviewer \in Reviewers,
           NEW verdict \in {"pass", "fail"}, Resolve(id, reviewer, verdict)
    PROVE  QueueInv' /\ \A i \in DOMAIN reviews : ReviewSettles(i)
<1> DEFINE new == [status |-> "resolved", verdict |-> verdict, reviewer |-> reviewer]
<1>1. /\ reviewer \in JudgeReviewers /\ reviews[id].status = "pending"
      /\ reviews' = [reviews EXCEPT ![id] = new]
      /\ evaluations' = evaluations
  BY DEF Resolve
<1>2. new \in QueueRows /\ new.status = "resolved" /\ new.reviewer = reviewer
  BY DEF QueueRows
<1> HIDE DEF new
<1>3. reviews[id] # NotQueued
  BY <1>1 DEF NotQueued
<1>4. reviews'[id] = new /\ \A i \in 1 .. MaxEvaluations : i # id => reviews'[i] = reviews[i]
  BY <1>1 DEF QueueInv
<1>5. reviews' \in [1 .. MaxEvaluations -> QueueRows]
  BY <1>1, <1>2 DEF QueueInv
<1>6. QueueInv'
  BY <1>1, <1>2, <1>3, <1>4, <1>5 DEF QueueInv
<1>7. \A i \in DOMAIN reviews : ReviewSettles(i)
  BY <1>1, <1>2, <1>4 DEF QueueInv, ReviewSettles
<1> QED BY <1>6, <1>7

LEMMA QueueNext ==
    ASSUME QueueInv, [JudgeNext]_judgeVars
    PROVE  QueueInv' /\ \A i \in DOMAIN reviews : ReviewSettles(i)
<1>1. ASSUME UNCHANGED <<evaluations, reviews>>
      PROVE  QueueInv' /\ \A i \in DOMAIN reviews : ReviewSettles(i)
  BY <1>1 DEF QueueInv, ReviewSettles
<1>2. CASE ReviewNext
  BY <1>2, QueueEvaluate, QueueResolve DEF ReviewNext
<1>3. CASE QualificationNext
  <2>1. UNCHANGED <<evaluations, reviews>>
    BY <1>3 DEF QualificationNext, ReadSample, Label, BeginExport, WriteExport, Experiment
  <2> QED BY <1>1, <2>1
<1>4. CASE OtherFileNext
  BY <1>1, <1>4 DEF OtherFileNext, Experiment
<1>5. CASE ReleaseNext
  BY <1>1, <1>5 DEF ReleaseNext, ReleaseGate
<1>6. CASE UNCHANGED judgeVars
  BY <1>1, <1>6 DEF judgeVars
<1> QED BY <1>2, <1>3, <1>4, <1>5, <1>6 DEF JudgeNext

(***************************************************************************)
(* However many reviewers race, and whatever is evaluated meanwhile: the   *)
(* first answer of a judge-reviewer stands, and an evaluation that asked   *)
(* nobody is never queued later.                                           *)
(***************************************************************************)
THEOREM HumanDecisionsStand == JudgeSpec => ReviewsSettleOnce
<1> DEFINE Settles == \A id \in DOMAIN reviews :
          /\ reviews[id].status = "resolved" => reviews'[id] = reviews[id]
          /\ reviews[id].status = "pending" =>
                \/ reviews'[id] = reviews[id]
                \/ /\ reviews'[id].status = "resolved"
                   /\ reviews'[id].reviewer \in JudgeReviewers
          /\ (\E e \in evaluations : e.id = id) /\ reviews[id].status = "none" =>
                reviews'[id] = reviews[id]
<1>1. QueueInv /\ [JudgeNext]_judgeVars => QueueInv' /\ [Settles]_judgeVars
  BY QueueNext DEF ReviewSettles
<1> HIDE DEF Settles
<1>2. JudgeSpec => [][Settles]_judgeVars
  BY <1>1, QueueInit, PTL DEF JudgeSpec
<1> QED BY <1>2 DEF ReviewsSettleOnce, Settles

-----------------------------------------------------------------------------
(***************************************************************************)
(* The golden dataset and what is measured against it.  A case is settled  *)
(* by two annotations that agree; annotations are never removed, so a case *)
(* read early stays settled however the export goes on.                    *)
(***************************************************************************)
Settled(c, ledger) ==
    /\ c.sample \in Samples
    /\ \E one, two \in ledger :
          /\ one.reviewer # two.reviewer
          /\ \A a \in {one, two} : a.sample = c.sample /\ a.verdict = Truth(c)

LedgerInv ==
    /\ IsFiniteSet(annotations)
    /\ annotations \subseteq
          [sample : Samples, reviewer : Reviewers, verdict : {"pass", "fail"}]
    /\ \A a, b \in annotations :
          a.sample = b.sample /\ a.reviewer = b.reviewer => a = b

ExportInv ==
    /\ DOMAIN export = {"active", "read", "promoted"}
    /\ IsFiniteSet(export.promoted) /\ IsFiniteSet(golden)
    /\ \A c \in export.promoted \cup golden : Settled(c, annotations)

\* At most one record of ten is contradicted, and none of them injected.
SoundExperiment(x) ==
    x.qualified =>
        /\ {c.sample : c \in x.records} \cap Injected = {}
        /\ 10 * Cardinality({c \in x.records : x.verdicts[c.sample] # Truth(c)})
              <= Cardinality(x.records)

TruthInv ==
    /\ LedgerInv /\ ExportInv
    /\ experiment.dataset = "export" =>
          \A c \in experiment.records : Settled(c, annotations)
    /\ SoundExperiment(experiment)

LEMMA TruthInit == JudgeInit => TruthInv
<1> SUFFICES ASSUME JudgeInit PROVE TruthInv
  OBVIOUS
<1>1. /\ annotations = {} /\ golden = {} /\ export = NotExporting
      /\ experiment = NoExperiment
  BY DEF JudgeInit
<1>2. DOMAIN NotExporting = {"active", "read", "promoted"} /\ NotExporting.promoted = {}
  BY DEF NotExporting
<1>3. NoExperiment.dataset # "export" /\ NoExperiment.qualified = FALSE
  BY DEF NoExperiment
<1>4. LedgerInv
  BY <1>1, FS_EmptySet DEF LedgerInv
<1>5. ExportInv
  BY <1>1, <1>2, FS_EmptySet DEF ExportInv
<1> QED BY <1>1, <1>3, <1>4, <1>5 DEF TruthInv, SoundExperiment

\* A consensus names two people and one verdict.
LEMMA ConsensusOfTwo ==
    ASSUME LedgerInv, NEW sample \in Samples, Consensus(LabelsOf(sample))
    PROVE  \E one, two \in annotations :
              /\ one.reviewer # two.reviewer
              /\ \A a \in {one, two} : /\ a.sample = sample
                                       /\ a.verdict = (CHOOSE b \in LabelsOf(sample) : TRUE).verdict
<1> DEFINE labels == LabelsOf(sample)
           verdicts == {a.verdict : a \in labels}
<1>1. labels \subseteq annotations /\ \A a \in labels : a.sample = sample
  BY DEF LabelsOf
<1>2. IsFiniteSet(labels)
  BY <1>1, FS_Subset DEF LedgerInv
<1>3. Cardinality(labels) >= 2 /\ Cardinality(verdicts) = 1
  BY Zenon DEF Consensus
<1>4. IsFiniteSet(verdicts)
  <2>1. verdicts \subseteq {"pass"} \cup {"fail"}
    BY <1>1 DEF LedgerInv
  <2>2. IsFiniteSet({"pass"} \cup {"fail"})
    BY FS_Singleton, FS_Union
  <2> HIDE DEF verdicts
  <2> QED BY <2>1, <2>2, FS_Subset
<1>5. PICK v : verdicts = {v}
  <2> HIDE DEF verdicts
  <2> QED BY <1>3, <1>4, FS_Singleton
<1>6. \A a \in labels : a.verdict = v
  BY <1>5
<1> HIDE DEF labels, verdicts
<1>7. Cardinality(labels) \in Nat
  BY <1>2, FS_CardinalityType
<1>8. labels # {}
  BY <1>3, FS_EmptySet
<1>9. PICK one : one \in labels
  BY <1>8
<1>10. IsFiniteSet(labels \ {one}) /\ Cardinality(labels \ {one}) = Cardinality(labels) - 1
  BY <1>2, <1>9, FS_RemoveElement
<1>11. labels \ {one} # {}
  <2>1. Cardinality(labels \ {one}) # 0
    BY <1>3, <1>7, <1>10
  <2> QED BY <2>1, FS_EmptySet
<1>12. PICK two : two \in labels /\ two # one
  BY <1>11
<1>13. one.reviewer # two.reviewer
  BY <1>1, <1>9, <1>12 DEF LedgerInv
<1>14. (CHOOSE b \in labels : TRUE) \in labels
  BY <1>8
<1>15. (CHOOSE b \in labels : TRUE).verdict = v
  BY <1>6, <1>14
<1> QED BY <1>1, <1>6, <1>9, <1>12, <1>13, <1>15 DEF labels

LEMMA SettledStill ==
    ASSUME NEW c, NEW S, NEW T, S \subseteq T, Settled(c, S)
    PROVE  Settled(c, T)
  BY DEF Settled

LEMMA TruthLabel ==
    ASSUME TruthInv, NEW sample \in Samples, NEW reviewer \in Reviewers,
           NEW verdict \in {"pass", "fail"}, Label(sample, reviewer, verdict)
    PROVE  TruthInv'
<1> DEFINE new == [sample |-> sample, reviewer |-> reviewer, verdict |-> verdict]
<1>1. /\ annotations' = annotations \cup {new}
      /\ ~\E a \in annotations : a.sample = sample /\ a.reviewer = reviewer
      /\ UNCHANGED <<export, golden, experiment>>
  BY DEF Label
<1>2. /\ new \in [sample : Samples, reviewer : Reviewers, verdict : {"pass", "fail"}]
      /\ new.sample = sample /\ new.reviewer = reviewer
  OBVIOUS
<1> HIDE DEF new
<1>3. LedgerInv'
  <2>1. IsFiniteSet(annotations')
    BY <1>1, FS_AddElement DEF TruthInv, LedgerInv
  <2> QED BY <1>1, <1>2, <2>1 DEF TruthInv, LedgerInv
<1>4. annotations \subseteq annotations'
  BY <1>1
<1>5. \A c : Settled(c, annotations) => Settled(c, annotations')
  BY <1>4, SettledStill
<1>6. ExportInv'
  BY <1>1, <1>5 DEF TruthInv, ExportInv
<1>7. experiment'.dataset = "export" =>
        \A c \in experiment'.records : Settled(c, annotations')
  BY <1>1, <1>5 DEF TruthInv
<1>8. SoundExperiment(experiment')
  BY <1>1 DEF TruthInv
<1> QED BY <1>3, <1>6, <1>7, <1>8 DEF TruthInv

LEMMA TruthReadSample ==
    ASSUME TruthInv, NEW sample \in Samples, ReadSample(sample)
    PROVE  TruthInv'
<1> DEFINE labels == LabelsOf(sample)
           verdict == (CHOOSE a \in labels : TRUE).verdict
           case == DatasetRecord(sample, verdict, Absent, "human", "verified")
           more == IF Consensus(labels) THEN export.promoted \cup {case} ELSE export.promoted
<1>1. /\ export' = [export EXCEPT !.read = @ \cup {sample}, !.promoted = more]
      /\ UNCHANGED <<annotations, golden, experiment>>
  BY DEF ReadSample
<1>2. case.sample = sample /\ case.human = verdict /\ case.expected = Absent
  BY DEF DatasetRecord
<1>3. Consensus(labels) => Settled(case, annotations)
  <2> SUFFICES ASSUME Consensus(labels) PROVE Settled(case, annotations)
    OBVIOUS
  <2>1. PICK one, two \in annotations :
          /\ one.reviewer # two.reviewer
          /\ \A a \in {one, two} : a.sample = sample /\ a.verdict = verdict
    BY ConsensusOfTwo DEF TruthInv
  <2>2. verdict \in {"pass", "fail"}
    BY <2>1 DEF TruthInv, LedgerInv
  <2> HIDE DEF case, verdict
  <2>3. Truth(case) = verdict
    BY <1>2, <2>2 DEF Truth, Absent
  <2> QED BY <1>2, <2>1, <2>3 DEF Settled
<1> HIDE DEF case
<1>4. IsFiniteSet(export.promoted \cup {case})
  BY FS_AddElement DEF TruthInv, ExportInv
<1>5. IsFiniteSet(more) /\ \A c \in more : Settled(c, annotations)
  BY <1>3, <1>4 DEF TruthInv, ExportInv
<1> HIDE DEF more
<1>6. DOMAIN export' = {"active", "read", "promoted"} /\ export'.promoted = more
  BY <1>1 DEF TruthInv, ExportInv
<1>7. ExportInv'
  BY <1>1, <1>5, <1>6 DEF TruthInv, ExportInv
<1> QED BY <1>1, <1>7 DEF TruthInv, LedgerInv

\* Agreement in nine cases of ten leaves one of ten to contradict.
LEMMA QualifiedAgrees ==
    ASSUME NEW cases, NEW outcomes, IsFiniteSet(cases), Qualifies(cases, outcomes)
    PROVE  10 * Cardinality({c \in cases : outcomes[c.sample].verdict # Truth(c)})
              <= Cardinality(cases)
<1> DEFINE P == {c \in cases : Truth(c) = "pass" /\ outcomes[c.sample].verdict = "pass"}
           F == {c \in cases : Truth(c) = "fail" /\ outcomes[c.sample].verdict = "fail"}
           W == {c \in cases : outcomes[c.sample].verdict # Truth(c)}
           R == cases \ W
<1>1. 10 * (Cardinality(P) + Cardinality(F)) >= 9 * Cardinality(cases)
  BY DEF Qualifies, Count
<1>2. /\ P \subseteq cases /\ F \subseteq cases /\ W \subseteq cases
      /\ P \cap F = {} /\ P \cup F \subseteq R /\ cases \cap W = W
  OBVIOUS
<1> HIDE DEF P, F, W
<1>3. IsFiniteSet(P) /\ IsFiniteSet(F) /\ IsFiniteSet(W)
  BY <1>2, FS_Subset
<1>4. IsFiniteSet(R) /\ Cardinality(R) = Cardinality(cases) - Cardinality(W)
  BY <1>2, FS_Difference
<1> HIDE DEF R
<1>5. Cardinality(P \cup F) = Cardinality(P) + Cardinality(F) - Cardinality({})
  BY <1>2, <1>3, FS_Union
<1>6. Cardinality(P \cup F) <= Cardinality(R)
  BY <1>2, <1>4, FS_Subset
<1>7. /\ Cardinality(P) \in Nat /\ Cardinality(F) \in Nat /\ Cardinality(W) \in Nat
      /\ Cardinality(cases) \in Nat /\ Cardinality(R) \in Nat /\ Cardinality({}) = 0
  BY <1>3, <1>4, FS_CardinalityType, FS_EmptySet
<1>8. 10 * Cardinality(W) <= Cardinality(cases)
  BY <1>1, <1>4, <1>5, <1>6, <1>7
<1> QED BY <1>8 DEF W

\* Whatever file the experiment is given.
LEMMA ExperimentSound ==
    ASSUME NEW dataset, NEW records, IsFiniteSet(records),
           \A c \in records : c.sample \in Samples, Experiment(dataset, records)
    PROVE  /\ experiment'.dataset = dataset /\ experiment'.records = records
           /\ SoundExperiment(experiment')
<1> DEFINE samples == {c.sample : c \in records}
           resolved(outcomes) == \A s \in samples : outcomes[s].verdict \in {"pass", "fail"}
<1>1. PICK outcomes \in [samples -> UNION {CandidateOutcomes[s] : s \in samples}
                                    \cup {ProviderError}] :
        /\ \A s \in samples : outcomes[s] \in CandidateOutcomes[s] \cup {ProviderError}
        /\ experiment' =
            [dataset |-> dataset, records |-> records, calibrated |-> resolved(outcomes),
             qualified |-> resolved(outcomes) /\ Qualifies(records, outcomes),
             verdicts |-> [s \in samples |-> outcomes[s].verdict]]
  BY DEF Experiment
<1>2. /\ experiment'.dataset = dataset /\ experiment'.records = records
      /\ experiment'.verdicts = [s \in samples |-> outcomes[s].verdict]
      /\ experiment'.qualified =>
            /\ \A s \in samples : outcomes[s].verdict \in {"pass", "fail"}
            /\ Qualifies(records, outcomes)
  BY <1>1
<1>3. \A c \in records : c.sample \in samples /\ c.sample \in Samples
  OBVIOUS
<1>4. ASSUME experiment'.qualified, NEW c \in records PROVE c.sample \notin Injected
  <2> SUFFICES ASSUME c.sample \in Injected PROVE FALSE
    OBVIOUS
  <2> DEFINE s == c.sample
  <2>1. s \in samples /\ s \in Samples /\ outcomes[s].verdict \in {"pass", "fail"}
    BY <1>2, <1>3, <1>4
  <2>2. outcomes[s] # ProviderError
    BY <2>1 DEF ProviderError
  <2>3. outcomes[s] \in CandidateOutcomes[s]
    BY <1>1, <2>1, <2>2
  <2>4. {"candidate"} # {} /\ IsFiniteSet({"candidate"})
    BY FS_Singleton
  <2>5. outcomes[s].verdict = "human_review"
    BY <2>1, <2>3, <2>4, OutcomeFacts DEF CandidateOutcomes
  <2> QED BY <2>1, <2>5
<1>5. ASSUME experiment'.qualified
      PROVE  10 * Cardinality({c \in records : experiment'.verdicts[c.sample] # Truth(c)})
                <= Cardinality(records)
  <2>1. {c \in records : experiment'.verdicts[c.sample] # Truth(c)} =
        {c \in records : outcomes[c.sample].verdict # Truth(c)}
    BY <1>2, <1>3
  <2>2. Qualifies(records, outcomes)
    BY <1>2, <1>5
  <2> QED BY <2>1, <2>2, QualifiedAgrees
<1> QED BY <1>2, <1>4, <1>5 DEF SoundExperiment

LEMMA TruthExperiment ==
    ASSUME TruthInv, Experiment("export", golden)
    PROVE  TruthInv'
<1>1. UNCHANGED <<annotations, export, golden>>
  BY DEF Experiment
<1>2. IsFiniteSet(golden) /\ \A c \in golden : c.sample \in Samples
  BY DEF TruthInv, ExportInv, Settled
<1>3. experiment'.records = golden /\ SoundExperiment(experiment')
  BY <1>2, ExperimentSound
<1> QED BY <1>1, <1>3 DEF TruthInv, LedgerInv, ExportInv

LEMMA TruthOtherFile ==
    ASSUME TruthInv, OtherFileNext
    PROVE  TruthInv'
<1>1. PICK path \in DOMAIN Datasets : Experiment(path, Datasets[path])
  BY DEF OtherFileNext
<1>2. UNCHANGED <<annotations, export, golden>>
  BY <1>1 DEF Experiment
<1>3. /\ path # "export" /\ IsFiniteSet(Datasets[path])
      /\ \A c \in Datasets[path] : c.sample \in Samples
  BY JudgeAssumption
<1>4. experiment'.dataset = path /\ SoundExperiment(experiment')
  BY <1>1, <1>3, ExperimentSound
<1> QED BY <1>2, <1>3, <1>4 DEF TruthInv, LedgerInv, ExportInv

LEMMA TruthNext == TruthInv /\ [JudgeNext]_judgeVars => TruthInv'
<1> SUFFICES ASSUME TruthInv, [JudgeNext]_judgeVars PROVE TruthInv'
  OBVIOUS
<1>1. ASSUME UNCHANGED <<annotations, export, golden, experiment>> PROVE TruthInv'
  BY <1>1 DEF TruthInv, LedgerInv, ExportInv
<1>2. CASE ReviewNext
  BY <1>1, <1>2 DEF ReviewNext, Evaluate, Resolve
<1>3. CASE QualificationNext
  <2>1. CASE BeginExport
    <3>1. /\ export' = [NotExporting EXCEPT !.active = TRUE]
          /\ UNCHANGED <<annotations, golden, experiment>>
      BY <2>1 DEF BeginExport
    <3>2. DOMAIN export' = {"active", "read", "promoted"} /\ export'.promoted = {}
      BY <3>1 DEF NotExporting
    <3>3. ExportInv'
      BY <3>1, <3>2, FS_EmptySet DEF TruthInv, ExportInv
    <3> QED BY <3>1, <3>3 DEF TruthInv, LedgerInv
  <2>2. CASE WriteExport
    <3>1. /\ export' = NotExporting /\ golden' = export.promoted
          /\ UNCHANGED <<annotations, experiment>>
      BY <2>2 DEF WriteExport
    <3>2. DOMAIN export' = {"active", "read", "promoted"} /\ export'.promoted = {}
      BY <3>1 DEF NotExporting
    <3>3. ExportInv'
      BY <3>1, <3>2, FS_EmptySet DEF TruthInv, ExportInv
    <3> QED BY <3>1, <3>3 DEF TruthInv, LedgerInv
  <2> QED BY <1>3, <2>1, <2>2, TruthLabel, TruthReadSample, TruthExperiment
          DEF QualificationNext
<1>4. CASE ReleaseNext
  BY <1>1, <1>4 DEF ReleaseNext, ReleaseGate
<1>5. CASE UNCHANGED judgeVars
  BY <1>1, <1>5 DEF judgeVars
<1>6. CASE OtherFileNext
  BY <1>6, TruthOtherFile
<1> QED BY <1>2, <1>3, <1>4, <1>5, <1>6 DEF JudgeNext

(***************************************************************************)
(* For any people, samples, labels and other files: whatever the ledger    *)
(* exported, and whatever an experiment measured a candidate against when  *)
(* it was given that file, two people agreed on; and a candidate that      *)
(* qualified contradicts at most one record of ten of the file it was      *)
(* given, exported or not.                                                 *)
(***************************************************************************)
THEOREM TruthIsOfTwoPeople == JudgeSpec => []TwoPersonTruth
<1>1. TruthInv => TwoPersonTruth
  BY DEF TruthInv, ExportInv, SoundExperiment, Settled, TwoPersonTruth
<1> QED BY <1>1, TruthInit, TruthNext, PTL DEF JudgeSpec

-----------------------------------------------------------------------------
(***************************************************************************)
(* The release gate: a metric that passed bounds the score of every case.  *)
(***************************************************************************)
ReleaseInv ==
    release.passed => \A s \in DOMAIN release.verdicts :
        s \notin Injected /\ release.verdicts[s] # "fail"

LEMMA PassedEverywhere ==
    ASSUME NEW cases \in SUBSET Samples, NEW outcomes \in Reports(cases),
           ReportPassed(outcomes), NEW s \in cases
    PROVE  s \notin Injected /\ outcomes[s].verdict # "fail"
<1>1. DOMAIN outcomes = cases /\ \A c \in cases : outcomes[c] \in OutcomesOf(Judges)[c]
  BY DEF Reports, Outcomes
<1>2. \A c \in cases, d \in Dimensions : outcomes[c].twice[d] \in Nat
  BY <1>1, OutcomeFacts, JudgeAssumption
<1>3. ASSUME NEW d \in Dimensions PROVE outcomes[s].twice[d] >= 2 * Thresholds[d]
  <2> DEFINE S == {outcomes[c].twice[d] : c \in cases}
  <2>1. Min(S) >= 2 * Thresholds[d]
    BY <1>1 DEF ReportPassed, MetricPassed
  <2>2. S \subseteq Nat /\ outcomes[s].twice[d] \in S
    BY <1>2
  <2> HIDE DEF S
  <2>3. Min(S) \in Nat /\ Min(S) <= outcomes[s].twice[d]
    BY <2>2, MinOfNaturals
  <2>4. Thresholds[d] \in Nat
    BY JudgeAssumption DEF Dimensions
  <2>5. \A m, n, k \in Int : m >= k /\ m <= n => n >= k
    OBVIOUS
  <2>6. outcomes[s].twice[d] \in Int /\ Min(S) \in Int /\ 2 * Thresholds[d] \in Int
    BY <1>2, <2>3, <2>4
  <2> QED BY <2>1, <2>3, <2>5, <2>6
<1>4. s \in Injected => \A d \in Dimensions : outcomes[s].twice[d] = 0
  BY <1>1, OutcomeFacts, JudgeAssumption
<1>5. PICK d \in Dimensions : Thresholds[d] \in Nat /\ Thresholds[d] > 0
  BY JudgeAssumption DEF Dimensions
<1>6. s \notin Injected
  BY <1>3, <1>4, <1>5
<1>7. outcomes[s].verdict = "fail" => \E e \in Dimensions : ~(outcomes[s].twice[e] >= 2 * Thresholds[e])
  BY <1>1, OutcomeFacts, JudgeAssumption
<1> QED BY <1>3, <1>6, <1>7

LEMMA ReleaseStep == ReleaseInv /\ [JudgeNext]_judgeVars => ReleaseInv'
<1> SUFFICES ASSUME ReleaseInv, [JudgeNext]_judgeVars PROVE ReleaseInv'
  OBVIOUS
<1>1. ASSUME UNCHANGED release PROVE ReleaseInv'
  BY <1>1 DEF ReleaseInv
<1>2. CASE ReviewNext
  BY <1>1, <1>2 DEF ReviewNext, Evaluate, Resolve
<1>3. CASE QualificationNext
  <2>1. UNCHANGED release
    BY <1>3 DEF QualificationNext, ReadSample, Label, BeginExport, WriteExport, Experiment
  <2> QED BY <1>1, <2>1
<1>4. CASE ReleaseNext
  <2>1. PICK cases \in SUBSET Samples : ReleaseGate(cases)
    BY <1>4 DEF ReleaseNext
  <2>2. PICK outcomes \in Reports(cases) :
          release' = [passed |-> ReportPassed(outcomes),
                      verdicts |-> [s \in cases |-> outcomes[s].verdict]]
    BY <2>1 DEF ReleaseGate
  <2>3. /\ release'.passed => ReportPassed(outcomes)
        /\ release'.verdicts = [s \in cases |-> outcomes[s].verdict]
    BY <2>2
  <2> QED BY <2>3, PassedEverywhere DEF ReleaseInv
<1>5. CASE OtherFileNext
  BY <1>1, <1>5 DEF OtherFileNext, Experiment
<1>6. CASE UNCHANGED judgeVars
  BY <1>1, <1>6 DEF judgeVars
<1> QED BY <1>2, <1>3, <1>4, <1>5, <1>6 DEF JudgeNext

(***************************************************************************)
(* For any number of judges, whatever they answer: a sample with an        *)
(* injection passes no ensemble, no qualification and no release gate.     *)
(***************************************************************************)
THEOREM InjectionsNeverPass == JudgeSpec => []InjectionNeverPasses
<1>1. JudgeInit => ReleaseInv
  BY DEF JudgeInit, NoRelease, ReleaseInv
<1>2. QueueInv /\ TruthInv /\ ReleaseInv => InjectionNeverPasses
  BY DEF QueueInv, TruthInv, SoundExperiment, ReleaseInv, InjectionNeverPasses
<1>3. QueueInv /\ [JudgeNext]_judgeVars => QueueInv'
  BY QueueNext
<1> QED BY <1>1, <1>2, <1>3, QueueInit, TruthInit, TruthNext, ReleaseStep, PTL DEF JudgeSpec
=============================================================================
