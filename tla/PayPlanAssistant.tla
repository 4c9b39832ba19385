-------------------------- MODULE PayPlanAssistant --------------------------
(* The conversations of one user with the pay plan assistant                *)
(* (pay_plan_conversations.py): a request locks the row of its conversation, *)
(* records the question and commits; the interpreter is called outside every *)
(* transaction; its answer is stored by another transaction, if the          *)
(* conversation still waits for it. A worker may die at any moment, and a    *)
(* browser may send a form again.                                            *)
EXTENDS Integers, Sequences

CONSTANTS
  Conversations,   \* conversations that may be created
  Versions,        \* versions of the user's pay plan
  NoVersion,       \* no version
  Submissions,     \* submission tokens that forms carry
  NoSubmission,    \* a form without a token
  TurnLimit,       \* PAY_PLAN_ASSISTANT_MAX_TURNS
  MaxQuestions     \* bound: questions of a conversation that are interpreted

ASSUME AssistantAssumption ==
  /\ NoVersion \notin Versions
  /\ NoSubmission \notin Submissions
  /\ TurnLimit \in Nat
  /\ MaxQuestions \in Nat

VARIABLES
  active,        \* the active version of the user's plan
  conversation,  \* PayPlanConversation rows
  turns,         \* PayPlanConversationTurn rows, by sequence
  calls,         \* interpreter calls in progress
  drafting       \* the version read by a draft transaction holding the row

vars == <<active, conversation, turns, calls, drafting>>

Maybe(S, none) == S \cup {none}

(* pending says what resolve_intent makes of the pending intent with no     *)
(* rule selected: nothing pending, a clarification, a choice of rules, or a *)
(* proposal. The processing token is the revision of the question, 0 for a  *)
(* blank one. expired: processing_deadline has passed. idle: the time to    *)
(* live since updated_at has passed.                                        *)
Row ==
  [status : {"absent", "open", "resolved", "cancelled", "expired", "stale"},
   version : Maybe(Versions, NoVersion), start : Maybe(Submissions, NoSubmission),
   pending : {"none", "unclear", "choice", "clear"}, selected : BOOLEAN,
   token : 0..MaxQuestions, revision : 0..MaxQuestions,
   expired : BOOLEAN, idle : BOOLEAN,
   source : Maybe(Versions, NoVersion), clone : Maybe(Versions, NoVersion)]

NoRow ==
  [status |-> "absent", version |-> NoVersion, start |-> NoSubmission,
   pending |-> "none", selected |-> FALSE, token |-> 0, revision |-> 0,
   expired |-> FALSE, idle |-> FALSE, source |-> NoVersion, clone |-> NoVersion]

\* answers: the sequence of the turn whose interpretation the turn reports.
Turn == [role : {"user", "assistant"},
         submission : Maybe(Submissions, NoSubmission), answers : 0..TurnLimit]

Said(s)     == [role |-> "user", submission |-> s, answers |-> 0]
Reply(turn) == [role |-> "assistant", submission |-> NoSubmission, answers |-> turn]

\* turn: the sequence of the question the call is about.
Call == [of : Conversations, token : 1..MaxQuestions, turn : 1..TurnLimit]

TypeOK ==
  /\ active \in Maybe(Versions, NoVersion)
  /\ conversation \in [Conversations -> Row]
  /\ turns \in [Conversations -> Seq(Turn)]
  /\ calls \subseteq Call
  /\ drafting \in [Conversations -> Maybe(Versions, NoVersion)]

Init ==
  /\ active \in Versions
  /\ conversation = [c \in Conversations |-> NoRow]
  /\ turns = [c \in Conversations |-> << >>]
  /\ calls = {}
  /\ drafting = [c \in Conversations |-> NoVersion]

-----------------------------------------------------------------------------
(* Helpers.                                                                 *)

Exists(c) == conversation[c].status # "absent"

\* No transaction that outlasts a step holds the row.
Unlocked(c) == drafting[c] = NoVersion

(* Mutant: the wrong blank in the proposal of a closed conversation.        *)
ClosedHalf(row, status) ==
  [row EXCEPT !.status = status, !.pending = NoVersion, !.selected = FALSE,
              !.token = 0, !.expired = FALSE, !.idle = FALSE]

Closed(row, status) ==
  [row EXCEPT !.status = status, !.pending = "none", !.selected = FALSE,
              !.token = 0, !.expired = FALSE, !.idle = FALSE]

(* Mutant: the deadline of a token is never looked at.                      *)
ReleasedNever(row) == row

\* A token past its deadline is cleared, and the save renews updated_at.
Released(row) ==
  IF row.token # 0 /\ row.expired
  THEN [row EXCEPT !.token = 0, !.expired = FALSE, !.idle = FALSE]
  ELSE row

Outdated(row) ==
  IF row.idle THEN Closed(row, "expired")
  ELSE IF row.version # active THEN Closed(row, "stale") ELSE row

RefreshLifecycle(row) ==
  IF row.status = "open" THEN Outdated(Released(row)) ELSE row

\* The row of a request that may go on: open, current and not processing.
Ready(row) == row.status = "open" /\ row.token = 0

(* Mutant: room for the question, none for its answer.                      *)
HasCapacityOne(c) == Len(turns[c]) + 1 <= TurnLimit

HasCapacity(c) == Len(turns[c]) + 2 <= TurnLimit

(* Mutant: only the last turn is searched.                                  *)
RecordedLast(c, s) ==
  /\ s # NoSubmission
  /\ turns[c] # << >> /\ turns[c][Len(turns[c])].submission = s

Recorded(c, s) ==
  /\ s # NoSubmission
  /\ \E i \in DOMAIN turns[c] : turns[c][i].submission = s

Started(c, s) == s # NoSubmission /\ conversation[c].start = s

MayDraft(row) == row.pending = "clear" \/ (row.pending = "choice" /\ row.selected)

Processing(row, revision) ==
  [row EXCEPT !.token = revision, !.revision = revision,
              !.expired = FALSE, !.idle = FALSE]

\* The turn is appended, the row takes the token of the new revision, and
\* the interpreter is called when the transaction has committed.
BeginProcessing(c, row, s) ==
  LET revision == row.revision + 1 IN
  /\ revision <= MaxQuestions
  /\ turns' = [turns EXCEPT ![c] = Append(@, Said(s))]
  /\ conversation' = [conversation EXCEPT ![c] = Processing(row, revision)]
  /\ calls' = calls \cup
       {[of |-> c, token |-> revision, turn |-> Len(turns[c]) + 1]}
  /\ UNCHANGED <<active, drafting>>

NewRow(s) == [NoRow EXCEPT !.status = "open", !.version = active, !.start = s]

-----------------------------------------------------------------------------
(* Operations of PayPlanConversationService.                                *)

\* A new conversation with its first question; a start token of the user is
\* unique, so a second submission becomes a repeated one (Resubmit).
Start(c, s) ==
  /\ ~Exists(c)
  /\ \A d \in Conversations : ~Started(d, s)
  /\ active # NoVersion
  /\ HasCapacity(c)
  /\ BeginProcessing(c, NewRow(s), s)

\* The first question of a conversation that StartOver made.
BeginExisting(c, s) ==
  LET row == RefreshLifecycle(conversation[c]) IN
  /\ Unlocked(c)
  /\ \A d \in Conversations \ {c} : ~Started(d, s)
  /\ Ready(row)
  /\ turns[c] = << >> /\ row.pending = "none"
  /\ HasCapacity(c)
  /\ BeginProcessing(c, [row EXCEPT !.start = s], s)

\* A further question. What was pending stays until the answer arrives.
FollowUp(c, s) ==
  LET row == RefreshLifecycle(conversation[c]) IN
  /\ Unlocked(c)
  /\ ~Recorded(c, s)
  /\ Ready(row)
  /\ HasCapacity(c)
  /\ BeginProcessing(c, [row EXCEPT !.selected = FALSE], s)

Selecting(row) == [row EXCEPT !.selected = TRUE, !.idle = FALSE]

\* The user picks one of the rules offered: question and answer in one
\* transaction, without the interpreter.
CandidateFollowUp(c, s) ==
  LET row == RefreshLifecycle(conversation[c]) IN
  /\ Unlocked(c)
  /\ ~Recorded(c, s)
  /\ Ready(row)
  /\ row.pending = "choice"
  /\ HasCapacity(c)
  /\ turns' = [turns EXCEPT ![c] =
       Append(Append(@, Said(s)), Reply(Len(@) + 1))]
  /\ conversation' = [conversation EXCEPT ![c] = Selecting(row)]
  /\ UNCHANGED <<active, calls, drafting>>

\* A submission that was recorded comes again. It is refused, with nothing
\* changed, while its question is being processed or has no interpretation.
Resubmit(c, s) ==
  LET row == RefreshLifecycle(conversation[c]) IN
  /\ Unlocked(c)
  /\ Recorded(c, s) \/ Started(c, s)
  /\ row.token = 0
  /\ row.status = "open" => row.pending # "none"
  /\ conversation' = [conversation EXCEPT ![c] = row]
  /\ UNCHANGED <<active, turns, calls, drafting>>

\* Every page of the assistant refreshes the conversations it shows.
Refresh(c) ==
  /\ Exists(c) /\ Unlocked(c)
  /\ conversation' = [conversation EXCEPT ![c] = RefreshLifecycle(@)]
  /\ UNCHANGED <<active, turns, calls, drafting>>

Cancel(c) ==
  /\ Unlocked(c)
  /\ conversation[c].status = "open"
  /\ conversation' = [conversation EXCEPT ![c] = Closed(@, "cancelled")]
  /\ UNCHANGED <<active, turns, calls, drafting>>

\* An empty conversation in place of another, which is closed if it is open.
StartOver(c, d) ==
  /\ Exists(c) /\ Unlocked(c)
  /\ ~Exists(d)
  /\ active # NoVersion
  /\ conversation' = [conversation EXCEPT
       ![c] = IF @.status = "open" THEN Closed(@, "cancelled") ELSE @,
       ![d] = NewRow(NoSubmission)]
  /\ UNCHANGED <<active, turns, calls, drafting>>

-----------------------------------------------------------------------------
(* The interpretation of a question.                                        *)

Interpreted(row, pending) ==
  [row EXCEPT !.pending = pending, !.token = 0, !.expired = FALSE, !.idle = FALSE]

(* Mutant: an answer is stored whatever the token of the row is.            *)
StoreInterpretationLate(k, pending) ==
  LET row == RefreshLifecycle(conversation[k.of]) IN
  /\ Unlocked(k.of)
  /\ row.status = "open"
  /\ conversation' = [conversation EXCEPT ![k.of] = Interpreted(row, pending)]
  /\ turns' = [turns EXCEPT ![k.of] = Append(@, Reply(k.turn))]
  /\ calls' = calls \ {k}
  /\ UNCHANGED <<active, drafting>>

(* Mutant: an answer is stored for its token, before the deadline is looked  *)
(* at.                                                                      *)
StoreInterpretationStale(k, pending) ==
  LET row == conversation[k.of] IN
  /\ Unlocked(k.of)
  /\ row.status = "open" /\ row.token = k.token
  /\ conversation' = [conversation EXCEPT ![k.of] = Interpreted(row, pending)]
  /\ turns' = [turns EXCEPT ![k.of] = Append(@, Reply(k.turn))]
  /\ calls' = calls \ {k}
  /\ UNCHANGED <<active, drafting>>

\* An answer is stored if the row, refreshed, still holds the token of its
\* question.
StoreInterpretation(k, pending) ==
  LET row == RefreshLifecycle(conversation[k.of]) IN
  /\ Unlocked(k.of)
  /\ row.status = "open" /\ row.token = k.token
  /\ conversation' = [conversation EXCEPT ![k.of] = Interpreted(row, pending)]
  /\ turns' = [turns EXCEPT ![k.of] = Append(@, Reply(k.turn))]
  /\ calls' = calls \ {k}
  /\ UNCHANGED <<active, drafting>>

(* Mutant: the answer to a closed conversation is kept.                     *)
AnswerClosedKept(k) ==
  LET row == RefreshLifecycle(conversation[k.of]) IN
  /\ Unlocked(k.of)
  /\ row.status # "open"
  /\ conversation' = [conversation EXCEPT ![k.of] = row]
  /\ turns' = [turns EXCEPT ![k.of] = Append(@, Reply(k.turn))]
  /\ calls' = calls \ {k}
  /\ UNCHANGED <<active, drafting>>

\* The answer to a conversation that is, or by now should be, closed: the
\* closing commits, the answer is dropped.
AnswerClosed(k) ==
  LET row == RefreshLifecycle(conversation[k.of]) IN
  /\ Unlocked(k.of)
  /\ row.status # "open"
  /\ conversation' = [conversation EXCEPT ![k.of] = row]
  /\ calls' = calls \ {k}
  /\ UNCHANGED <<active, turns, drafting>>

\* The call ends without a trace in the database: the answer is no longer
\* current or cannot be resolved, the interpreter raises, or the worker dies.
AnswerLost(k) ==
  /\ calls' = calls \ {k}
  /\ UNCHANGED <<active, conversation, turns, drafting>>

-----------------------------------------------------------------------------
(* The draft. Its transaction holds the row of the conversation and reads    *)
(* the active version, which that row does not protect, more than once.      *)

\* create_draft and create_draft_from_intent up to the last comparison of
\* the active version with the one the conversation is about.
CheckDraft(c) ==
  LET row == RefreshLifecycle(conversation[c]) IN
  /\ Unlocked(c)
  /\ Ready(row)
  /\ MayDraft(row)
  /\ drafting' = [drafting EXCEPT ![c] = active]
  /\ UNCHANGED <<active, conversation, turns, calls>>

\* create_manual_draft clones the version that is active now.
CloneDraft(c) ==
  /\ ~Unlocked(c)
  /\ active # NoVersion
  /\ conversation' = [conversation EXCEPT ![c] =
       [Closed(@, "resolved") EXCEPT !.source = drafting[c], !.clone = active]]
  /\ drafting' = [drafting EXCEPT ![c] = NoVersion]
  /\ UNCHANGED <<active, turns, calls>>

\* The draft is refused, or its worker dies: the transaction rolls back.
AbortDraft(c) ==
  /\ ~Unlocked(c)
  /\ drafting' = [drafting EXCEPT ![c] = NoVersion]
  /\ UNCHANGED <<active, conversation, turns, calls>>

-----------------------------------------------------------------------------
(* Time, and the rest of the application.                                   *)

DeadlinePasses(c) ==
  /\ conversation[c].token # 0 /\ ~conversation[c].expired
  /\ conversation' = [conversation EXCEPT ![c].expired = TRUE]
  /\ UNCHANGED <<active, turns, calls, drafting>>

\* The time to live counts in hours, the deadline of a question in seconds.
TimeToLivePasses(c) ==
  /\ conversation[c].status = "open" /\ ~conversation[c].idle
  /\ conversation[c].token = 0 \/ conversation[c].expired
  /\ conversation' = [conversation EXCEPT ![c].idle = TRUE]
  /\ UNCHANGED <<active, turns, calls, drafting>>

\* Another version becomes active (PayPlanLifecycle), or the plan ends.
ChangeActive(v) ==
  /\ v # active
  /\ active' = v
  /\ UNCHANGED <<conversation, turns, calls, drafting>>

Conversing(c) ==
  \/ \E s \in Maybe(Submissions, NoSubmission) :
       Start(c, s) \/ BeginExisting(c, s) \/ FollowUp(c, s)
       \/ CandidateFollowUp(c, s) \/ Resubmit(c, s)
  \/ Refresh(c)
  \/ Cancel(c)
  \/ \E d \in Conversations : StartOver(c, d)

Interpreting(k) ==
  \/ \E pending \in {"unclear", "choice", "clear"} : StoreInterpretation(k, pending)
  \/ AnswerClosed(k)
  \/ AnswerLost(k)

Drafting(c) == CheckDraft(c) \/ CloneDraft(c) \/ AbortDraft(c)

Next ==
  \/ \E c \in Conversations :
       Conversing(c) \/ Drafting(c) \/ DeadlinePasses(c) \/ TimeToLivePasses(c)
  \/ \E k \in calls : Interpreting(k)
  \/ \E v \in Maybe(Versions, NoVersion) : ChangeActive(v)

Spec == Init /\ [][Next]_vars

(* Time passes, a draft transaction ends, and the user goes on opening the   *)
(* page. Row locks are granted in turn, so a page that waits for one again   *)
(* and again gets it: strong fairness. Nothing is assumed of the interpreter *)
(* or of the worker that called it.                                          *)
FairSpec ==
  /\ Spec
  /\ \A c \in Conversations :
       /\ WF_vars(DeadlinePasses(c))
       /\ WF_vars(CloneDraft(c) \/ AbortDraft(c))
       /\ SF_vars(Refresh(c))

-----------------------------------------------------------------------------
(* Properties.                                                              *)

Open(c) == conversation[c].status = "open"

(* A reply of the assistant stands right after the question whose            *)
(* interpretation it reports, however late answers come, whatever workers    *)
(* die and whatever was asked meanwhile (_interpret_and_reconcile).          *)
RepliesFollowQuestions ==
  \A c \in Conversations : \A i \in DOMAIN turns[c] :
    turns[c][i].role = "assistant" =>
      i > 1 /\ turns[c][i].answers = i - 1 /\ turns[c][i - 1].role = "user"

(* A conversation never holds more turns than PAY_PLAN_ASSISTANT_MAX_TURNS,  *)
(* and while a question waits there is room for its answer: the answer       *)
(* itself is stored without a test (_assert_turn_capacity).                  *)
TurnsFit ==
  \A c \in Conversations :
    /\ Len(turns[c]) <= TurnLimit
    /\ Open(c) /\ conversation[c].token # 0 => Len(turns[c]) < TurnLimit

(* A form that is sent again, at once or much later, adds no second question *)
(* to its conversation and begins no second conversation.                    *)
SubmittedOnce ==
  /\ \A c \in Conversations : \A i, j \in DOMAIN turns[c] :
       /\ turns[c][i].submission # NoSubmission
       /\ turns[c][i].submission = turns[c][j].submission
       => i = j
  /\ \A c, d \in Conversations : \A s \in Submissions :
       Started(c, s) /\ Started(d, s) => c = d

(* What a closed conversation holds is final: no late answer, no page and no *)
(* deadline changes its row or its turns, and none opens it again.           *)
ClosedIsFinal ==
  [][\A c \in Conversations : Exists(c) /\ ~Open(c) =>
       conversation'[c] = conversation[c] /\ turns'[c] = turns[c]]_vars

(* A conversation whose worker died is usable again: a processing token does *)
(* not stay for ever while the user keeps opening the page.                  *)
TokenReleased ==
  \A c \in Conversations : \A t \in 1..MaxQuestions :
    conversation[c].token = t ~> conversation[c].token # t

(* To the user the conversation is a dialogue: its phase and what was said.  *)
Phase(row) ==
  IF row.status = "absent" THEN "absent"
  ELSE IF row.status # "open" THEN "closed"
  ELSE IF row.token # 0 /\ ~row.expired THEN "waiting" ELSE "ready"

Spoken(turn) ==
  [says |-> IF turn.role = "user" THEN "question" ELSE "answer", to |-> turn.answers]

D == INSTANCE Dialogue WITH
  phase <- [c \in Conversations |-> Phase(conversation[c])],
  log   <- [c \in Conversations |-> [i \in DOMAIN turns[c] |-> Spoken(turns[c][i])]]

(* Tokens, deadlines and lost workers implement that dialogue: a question is *)
(* given up the moment its deadline passes, and only then may another be     *)
(* asked or a late answer be refused.                                        *)
IsDialogue == D!Spec

=============================================================================
