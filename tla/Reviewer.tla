------------------------------ MODULE Reviewer ------------------------------
(***************************************************************************)
(* The pull-request review agent (platforms/reviewer: domain.py,           *)
(* service.py, store.py, api.py, config.py) for one pull request.  Every   *)
(* operation reads the stored review, works on its copy and upserts it     *)
(* whole; refresh calls GitHub in between, once for the reviews and once   *)
(* for the comments.  GitHub, where the bot reviews, comments, edits and   *)
(* deletes, is external.  A comment's text is its version; 0 stands for a  *)
(* comment that does not exist.                                            *)
(***************************************************************************)
EXTENDS Naturals

CONSTANTS
    Comments,       \* ids of inline comments
    Approvers,      \* subjects with the role review-approver
    Nobody,         \* no approval
    Handlers,       \* threads that serve requests
    ReviewStates,   \* states a review of the bot may have on GitHub
    RequestChanges, \* config.review_request_changes
    MaxVersion,     \* bound: edits of a comment
    MaxRestarts     \* bound: restarts of the service

ASSUME ReviewerAssumption ==
    /\ Nobody \notin Approvers
    /\ ReviewStates \subseteq {"APPROVED", "COMMENTED", "CHANGES_REQUESTED", "DISMISSED"}
    /\ RequestChanges \in BOOLEAN
    /\ MaxVersion \in Nat /\ MaxRestarts \in Nat

VARIABLES
    bot_verdict,    \* GitHub: state of the bot's latest review
    comments,       \* GitHub: the comments
    fork_support,   \* configuration of the running process
    restarts,       \* restarts so far
    row,            \* the stored review
    handlers,       \* what each handler thread holds
    given,          \* history: approvals asked for, with the text in the report
    authorized,     \* history: apply authorizations returned, with the stored text
    overlapped      \* history: whether two requests were ever in progress at once

vars == <<bot_verdict, comments, fork_support, restarts, row, handlers, given,
          authorized, overlapped>>
github == <<bot_verdict, comments>>
history == <<given, authorized, overlapped>>

Verdicts == ReviewStates \cup {"none"}
Texts == 0..MaxVersion

NoReview == [stored |-> FALSE]
Reviews == [stored : {TRUE}, eligible_at_open : BOOLEAN, fetched : BOOLEAN,
            verdict : Verdicts, inline_comments : [Comments -> Texts],
            approvals : [Comments -> Approvers \cup {Nobody}]]

Idle == [pc |-> "idle"]
Approved == [comment : Comments, text : Texts, by : Approvers]

TypeOK ==
    /\ bot_verdict \in Verdicts
    /\ comments \in [Comments -> Texts]
    /\ fork_support \in BOOLEAN
    /\ restarts \in 0..MaxRestarts
    /\ row \in Reviews \cup {NoReview}
    /\ handlers \in [Handlers ->
            {Idle} \cup [pc : {"fetch_reviews", "fetch_comments", "save"},
                         review : Reviews]]
    /\ given \subseteq Approved
    /\ authorized \subseteq Approved
    /\ overlapped \in BOOLEAN

Init ==
    /\ bot_verdict = "none"
    /\ comments = [c \in Comments |-> 0]
    /\ fork_support \in BOOLEAN
    /\ restarts = 0
    /\ row = NoReview
    /\ handlers = [h \in Handlers |-> Idle]
    /\ given = {}
    /\ authorized = {}
    /\ overlapped = FALSE

-----------------------------------------------------------------------------
(***************************************************************************)
(* GitHub.                                                                 *)
(***************************************************************************)
BotReviews(v) ==
    /\ bot_verdict' = v
    /\ UNCHANGED <<comments, fork_support, restarts, row, handlers, history>>

BotEdits(c) ==
    /\ comments[c] < MaxVersion
    /\ comments' = [comments EXCEPT ![c] = @ + 1]
    /\ UNCHANGED <<bot_verdict, fork_support, restarts, row, handlers, history>>

BotDeletes(c) ==
    /\ comments[c] # 0
    /\ comments' = [comments EXCEPT ![c] = 0]
    /\ UNCHANGED <<bot_verdict, fork_support, restarts, row, handlers, history>>

-----------------------------------------------------------------------------
Hold(h, pc, review) ==
    /\ handlers' = [handlers EXCEPT ![h] = [pc |-> pc, review |-> review]]
    /\ overlapped' = (overlapped \/ \E g \in Handlers \ {h} : handlers[g] # Idle)
    /\ UNCHANGED <<github, fork_support, restarts, row, authorized>>

(***************************************************************************)
(* open_pull_request: a stored review is returned as it is; otherwise the  *)
(* eligibility is computed from the request and the configuration.         *)
(***************************************************************************)
Eligible(on_target, from_fork) == on_target /\ (~from_fork \/ fork_support)

NewReview(eligible) ==
    [stored |-> TRUE, eligible_at_open |-> eligible, fetched |-> FALSE,
     verdict |-> "none", inline_comments |-> [c \in Comments |-> 0],
     approvals |-> [c \in Comments |-> Nobody]]

OpenAlways(h, on_target, from_fork) ==    \* mutant: the latch is not looked at
    /\ handlers[h] = Idle
    /\ Hold(h, "save", NewReview(Eligible(on_target, from_fork)))
    /\ UNCHANGED given

OpenPullRequest(h, on_target, from_fork) ==
    /\ handlers[h] = Idle
    /\ ~row.stored
    /\ Hold(h, "save", NewReview(Eligible(on_target, from_fork)))
    /\ UNCHANGED given

(***************************************************************************)
(* refresh_report: nothing happens for a review that was not eligible.     *)
(***************************************************************************)
RefreshSkipped(h) ==              \* mutant: the eligibility is not looked at
    /\ handlers[h] = Idle
    /\ row.stored
    /\ Hold(h, "fetch_reviews", row)
    /\ UNCHANGED given

BeginRefresh(h) ==
    /\ handlers[h] = Idle
    /\ row.stored
    /\ row.eligible_at_open
    /\ Hold(h, "fetch_reviews", row)
    /\ UNCHANGED given

FetchReviews(h) ==
    /\ handlers[h].pc = "fetch_reviews"
    /\ Hold(h, "fetch_comments", [handlers[h].review EXCEPT !.verdict = bot_verdict])
    /\ UNCHANGED given

FetchAfresh(h) ==                 \* mutant: the report is stored as a new review
    /\ handlers[h].pc = "fetch_comments"
    /\ Hold(h, "save", [NewReview(TRUE) EXCEPT !.inline_comments = comments,
                                               !.verdict = handlers[h].review.verdict,
                                               !.fetched = TRUE])
    /\ UNCHANGED given

FetchComments(h) ==
    /\ handlers[h].pc = "fetch_comments"
    /\ Hold(h, "save", [handlers[h].review EXCEPT !.inline_comments = comments,
                                                  !.fetched = TRUE])
    /\ UNCHANGED given

(***************************************************************************)
(* approve_suggestion: the comment must be in the stored report.           *)
(***************************************************************************)

ApproveSuggestion(h, c, who) ==
    /\ handlers[h] = Idle
    /\ row.stored
    /\ row.inline_comments[c] # 0
    /\ Hold(h, "save", [row EXCEPT !.approvals[c] = who])
    /\ given' = given \cup {[comment |-> c, text |-> row.inline_comments[c], by |-> who]}

(***************************************************************************)
(* The upsert replaces whatever is stored by now.                          *)
(***************************************************************************)
Save(h) ==
    /\ handlers[h].pc = "save"
    /\ row' = handlers[h].review
    /\ handlers' = [handlers EXCEPT ![h] = Idle]
    /\ UNCHANGED <<github, fork_support, restarts, history>>

(***************************************************************************)
(* authorize_apply answers from the stored approvals and stores nothing.   *)
(***************************************************************************)
AuthorizeShown(c) ==              \* mutant: a comment in the report is enough
    /\ row.stored
    /\ row.inline_comments[c] # 0
    /\ authorized' = authorized \cup
           {[comment |-> c, text |-> row.inline_comments[c], by |-> who] :
               who \in Approvers}
    /\ UNCHANGED <<github, fork_support, restarts, row, handlers, given,
                   overlapped>>

AuthorizeApply(c) ==
    /\ row.stored
    /\ row.approvals[c] # Nobody
    /\ authorized' = authorized \cup
           {[comment |-> c, text |-> row.inline_comments[c], by |-> row.approvals[c]]}
    /\ UNCHANGED <<github, fork_support, restarts, row, handlers, given,
                   overlapped>>

-----------------------------------------------------------------------------
(***************************************************************************)
(* A call to GitHub fails (IntegrationError), or the request dies.         *)
(***************************************************************************)
Abandon(h) ==
    /\ handlers[h] # Idle
    /\ handlers' = [handlers EXCEPT ![h] = Idle]
    /\ UNCHANGED <<github, fork_support, restarts, row, history>>

(***************************************************************************)
(* The service restarts, perhaps with a new configuration.                 *)
(***************************************************************************)
Restart ==
    /\ restarts < MaxRestarts
    /\ restarts' = restarts + 1
    /\ fork_support' \in BOOLEAN
    /\ handlers' = [h \in Handlers |-> Idle]
    /\ UNCHANGED <<github, row, history>>

Next ==
    \/ \E v \in ReviewStates : BotReviews(v)
    \/ \E c \in Comments : BotEdits(c) \/ BotDeletes(c) \/ AuthorizeApply(c)
    \/ \E h \in Handlers :
          \/ \E on_target, from_fork \in BOOLEAN :
                OpenPullRequest(h, on_target, from_fork)
          \/ BeginRefresh(h) \/ FetchReviews(h) \/ FetchComments(h)
          \/ \E c \in Comments, who \in Approvers : ApproveSuggestion(h, c, who)
          \/ Save(h)
          \/ Abandon(h)
    \/ Restart

Spec == Init /\ [][Next]_vars

-----------------------------------------------------------------------------
(***************************************************************************)
(* The decision a readiness answer gives for a review.                     *)
(***************************************************************************)
Decision(review) ==
    CASE ~review.eligible_at_open -> "skipped_fork"
      [] review.eligible_at_open /\ RequestChanges
            /\ review.verdict = "CHANGES_REQUESTED" -> "changes_requested"
      [] review.eligible_at_open /\ review.verdict \in {"APPROVED", "COMMENTED"} -> "ready"
      [] OTHER -> "pending"

(***************************************************************************)
(* docs/REVIEW_AGENT.md: "A bot suggestion must be fetched, shown in the   *)
(* report and explicitly approved by a human before an apply operation can *)
(* be authorized."  Whatever copies overwrite each other, an authorization *)
(* names an approver who approved that comment while the report had it.    *)
(***************************************************************************)
ApplyWasApproved ==
    \A a \in authorized : \E g \in given :
        g.comment = a.comment /\ g.by = a.by /\ g.text # 0

(***************************************************************************)
(* A pull request that was skipped when it was opened is never reviewed:   *)
(* its stored review has no report and no approval, and only a fetched     *)
(* report leads to a decision, whichever copy was saved last.              *)
(***************************************************************************)
SkippedStaysUnreviewed ==
    row.stored =>
        /\ ~row.eligible_at_open => row = NewReview(FALSE)
        /\ Decision(row) \in {"ready", "changes_requested"} => row.fetched

(***************************************************************************)
(* docs/REVIEW_AGENT.md: "Changing `fork_support` later does not           *)
(* reactivate that stored pull request."  Served one at a time, requests   *)
(* never change a stored eligibility.                                      *)
(***************************************************************************)
EligibilityLatched ==
    [][row.stored /\ ~overlapped =>
          row'.stored /\ row'.eligible_at_open = row.eligible_at_open]_vars

(***************************************************************************)
(* Served one at a time, an approval that was stored is not lost: it may   *)
(* only be replaced by another approver's.                                 *)
(***************************************************************************)
ApprovalsKept ==
    [][\A c \in Comments : row.stored /\ ~overlapped /\ row.approvals[c] # Nobody =>
          row'.approvals[c] # Nobody]_vars

(***************************************************************************)
(* docs/REVIEW_AGENT.md, the same sentence read for the suggestion itself: *)
(* the text that is authorized is a text that somebody approved.           *)
(***************************************************************************)
AppliedTextWasApproved ==
    \A a \in authorized : \E g \in given :
        g.comment = a.comment /\ g.text = a.text
=============================================================================
