------------------------------ MODULE AskStew ------------------------------
(* The Ask Stew conversations of one user (ask_stew_conversations.py) and    *)
(* the daily quota of provider calls they share with the pay plan assistant  *)
(* (pay_plan_provider_runtime.py). A request records its question under the  *)
(* lock of the user's row, may reserve one provider call, and stores its     *)
(* answer in a transaction of its own. Several tabs ask at once, browsers    *)
(* send forms again, workers die, and old conversations are purged.          *)
EXTENDS Integers, Sequences, FiniteSets

CONSTANTS
  Conversations,  \* conversations that may be created
  Submissions,    \* submission tokens that pages hand out
  NoSubmission,   \* none: an answer, or a call of the pay plan assistant
  TurnLimit,      \* ASK_STEW_AI_MAX_TURNS
  Window,         \* ASK_STEW_AI_SHORT_WINDOW_SECONDS
  WindowLimit,    \* ASK_STEW_AI_SHORT_WINDOW_LIMIT
  TimeToLive,     \* ASK_STEW_AI_CONVERSATION_TTL_HOURS
  Retention,      \* --days of the purge command
  TokenLife,      \* max_age of a submission token
  DailyLimit,     \* daily_request_limit of the provider
  DayLength,      \* ticks of a day
  MaxTime         \* bound: the last tick

ASSUME AskStewAssumption ==
  /\ NoSubmission \notin Submissions
  /\ TurnLimit \in Nat \ {0}
  /\ \A n \in {Window, WindowLimit, TimeToLive, Retention, TokenLife, DailyLimit, MaxTime} : n \in Nat
  /\ DayLength \in Nat \ {0}

VARIABLES
  now,           \* the clock
  issued,        \* when each token was handed out
  conversation,  \* AskStewConversation rows
  turns,         \* AskStewTurn rows, by sequence
  asks,          \* requests between their question and their answer
  events         \* PayPlanAssistantUsageEvent rows of provider calls

vars == <<now, issued, conversation, turns, asks, events>>

Time  == 0..MaxTime
Never == MaxTime + 1
References == Submissions \cup {NoSubmission}

Row == [status : {"absent", "open", "purged"}, updated : Time]

Turn == [role : {"user", "assistant"}, submission : References, replies : Nat, at : Time]

Asked(s)     == [role |-> "user", submission |-> s, replies |-> 0, at |-> now]
(* Mutant: the role of an answer is no role.                                *)
ReplyTypo(place) ==
  [role |-> "stew", submission |-> NoSubmission, replies |-> place, at |-> now]

Reply(place) == [role |-> "assistant", submission |-> NoSubmission, replies |-> place, at |-> now]

\* number: which call of its day it was.
Event == [reference : References, day : Nat, number : Nat]

\* turn: the sequence of the question. called: its provider call is reserved.
Ask == [of : Conversations, turn : Nat \ {0}, submission : Submissions, called : BOOLEAN]

TypeOK ==
  /\ now \in Time
  /\ issued \in [Submissions -> Time \cup {Never}]
  /\ conversation \in [Conversations -> Row]
  /\ turns \in [Conversations -> Seq(Turn)]
  /\ asks \subseteq Ask
  /\ events \subseteq Event

Init ==
  /\ now = 0
  /\ issued = [s \in Submissions |-> Never]
  /\ conversation = [c \in Conversations |-> [status |-> "absent", updated |-> 0]]
  /\ turns = [c \in Conversations |-> << >>]
  /\ asks = {}
  /\ events = {}

-----------------------------------------------------------------------------
(* Helpers.                                                                 *)

Questions(c) == {i \in DOMAIN turns[c] : turns[c][i].role = "user"}

\* Where the user submitted a token.
Submitted(s) ==
  {c \in Conversations : \E i \in Questions(c) : turns[c][i].submission = s}

AllQuestions == UNION {{c} \X Questions(c) : c \in Conversations}

\* The user's questions from a time on, in all conversations.
Since(t) == {p \in AllQuestions : turns[p[1]][p[2]].at >= t}

\* A page hands out a new token; the form it is part of is valid for a while.
Valid(s) == issued[s] # Never /\ now <= issued[s] + TokenLife

\* A new conversation, or one of the user's that has not expired.
MayAsk(c) ==
  /\ conversation[c].status # "purged"
  /\ conversation[c].status = "open" => now < conversation[c].updated + TimeToLive

ShortWindowCapacity == Cardinality(Since(now - Window)) < WindowLimit

(* Mutant: room for one more turn than there may be.                        *)
TurnCapacityOne(c) == Len(turns[c]) + 1 <= TurnLimit

TurnCapacity(c) == Len(turns[c]) + 2 <= TurnLimit

Today == now \div DayLength

\* The number of provider calls of a day, whoever made them.
Calls(d) == Cardinality({e \in events : e.day = d})

Reserved(s) == events \cup {[reference |-> s, day |-> Today, number |-> Calls(Today) + 1]}

(* Mutant: only the events of today are searched.                           *)
CalledToday(s) == \E e \in events : e.reference = s /\ e.day = Today

\* A provider call was reserved for the token, on any day.
Called(s) == \E e \in events : e.reference = s

-----------------------------------------------------------------------------
(* The life of a question.                                                  *)

NewToken(s) ==
  /\ issued[s] = Never
  /\ issued' = [issued EXCEPT ![s] = now]
  /\ UNCHANGED <<now, conversation, turns, asks, events>>

(* Mutant: a token is looked for in the thread of the form only.            *)
PrepareSubmissionThread(s, c) ==
  /\ Valid(s)
  /\ MayAsk(c)
  /\ c \notin Submitted(s)
  /\ ShortWindowCapacity
  /\ TurnCapacity(c)
  /\ turns' = [turns EXCEPT ![c] = Append(@, Asked(s))]
  /\ conversation' = [conversation EXCEPT ![c] =
       IF @.status = "absent" THEN [status |-> "open", updated |-> now] ELSE @]
  /\ asks' = asks \cup
       {[of |-> c, turn |-> Len(turns[c]) + 1, submission |-> s, called |-> FALSE]}
  /\ UNCHANGED <<now, issued, events>>

\* A question recorded under the lock of the user's row. A token submitted
\* before, in any conversation, records nothing. updated_at stays as it was.
PrepareSubmission(s, c) ==
  /\ Valid(s)
  /\ MayAsk(c)
  /\ Submitted(s) = {}
  /\ ShortWindowCapacity
  /\ TurnCapacity(c)
  /\ turns' = [turns EXCEPT ![c] = Append(@, Asked(s))]
  /\ conversation' = [conversation EXCEPT ![c] =
       IF @.status = "absent" THEN [status |-> "open", updated |-> now] ELSE @]
  /\ asks' = asks \cup
       {[of |-> c, turn |-> Len(turns[c]) + 1, submission |-> s, called |-> FALSE]}
  /\ UNCHANGED <<now, issued, events>>

\* A provider call is reserved under the lock of the user's row, for a token
\* none was reserved for, on any day, and within the quota of today.
AuthorizeAttempt(q) ==
  /\ ~q.called
  /\ ~Called(q.submission)
  /\ Calls(Today) < DailyLimit
  /\ events' = Reserved(q.submission)
  /\ asks' = (asks \ {q}) \cup {[q EXCEPT !.called = TRUE]}
  /\ UNCHANGED <<now, issued, conversation, turns>>

Answered(q) ==
  \E i \in DOMAIN turns[q.of] :
    turns[q.of][i].role = "assistant" /\ turns[q.of][i].replies = q.turn

\* The answer, by the provider or without it, unless there is one.
CompleteSubmission(q) ==
  /\ conversation[q.of].status = "open"
  /\ IF Answered(q)
     THEN UNCHANGED <<conversation, turns>>
     ELSE /\ turns' = [turns EXCEPT ![q.of] = Append(@, Reply(q.turn))]
          /\ conversation' = [conversation EXCEPT ![q.of].updated = now]
  /\ asks' = asks \ {q}
  /\ UNCHANGED <<now, issued, events>>

\* The worker dies, or the conversation is gone when the answer comes.
RequestFails(q) ==
  /\ asks' = asks \ {q}
  /\ UNCHANGED <<now, issued, conversation, turns, events>>

-----------------------------------------------------------------------------
(* The rest of the application.                                             *)

\* The pay plan assistant reserves a call without looking for its reference.
AssistantAttempt ==
  /\ Calls(Today) < DailyLimit
  /\ events' = Reserved(NoSubmission)
  /\ UNCHANGED <<now, issued, conversation, turns, asks>>

Old == {c \in Conversations :
          conversation[c].status = "open" /\ conversation[c].updated < now - Retention}

\* Conversations past their retention go, with their turns.
PurgeConversations ==
  /\ Old # {}
  /\ conversation' = [c \in Conversations |->
       IF c \in Old THEN [conversation[c] EXCEPT !.status = "purged"] ELSE conversation[c]]
  /\ turns' = [c \in Conversations |-> IF c \in Old THEN << >> ELSE turns[c]]
  /\ UNCHANGED <<now, issued, asks, events>>

Tick ==
  /\ now < MaxTime
  /\ now' = now + 1
  /\ UNCHANGED <<issued, conversation, turns, asks, events>>

Next ==
  \/ \E s \in Submissions :
       NewToken(s) \/ \E c \in Conversations : PrepareSubmission(s, c)
  \/ \E q \in asks : AuthorizeAttempt(q) \/ CompleteSubmission(q) \/ RequestFails(q)
  \/ AssistantAttempt
  \/ PurgeConversations
  \/ Tick

Spec == Init /\ [][Next]_vars

-----------------------------------------------------------------------------
(* Properties.                                                              *)

(* A form sent twice is one question: a token stands in one place of one     *)
(* conversation, also when its two submissions named different ones or       *)
(* none, and every answer is the only one to an earlier question.            *)
AskedOnce ==
  /\ \A c, d \in Conversations : \A i \in Questions(c), j \in Questions(d) :
       turns[c][i].submission = turns[d][j].submission => <<c, i>> = <<d, j>>
  /\ \A c \in Conversations : \A i, j \in DOMAIN turns[c] \ Questions(c) :
       /\ turns[c][i].replies \in Questions(c) /\ turns[c][i].replies < i
       /\ turns[c][i].replies = turns[c][j].replies => i = j

(* No form pays for two provider calls, on one day or on two: not even when  *)
(* its question was purged with an old conversation and is recorded again    *)
(* (prevent_duplicate_reference).                                            *)
OneCallPerSubmission ==
  \A e, f \in events : e.reference = f.reference /\ e.reference \in Submissions => e = f

(* The limits hold whatever is in flight: the questions of any short window, *)
(* over all conversations, the provider calls of a day, over both            *)
(* assistants, and a thread, which questions still waiting may take past     *)
(* ASK_STEW_AI_MAX_TURNS, but never to twice that.                           *)
LimitsKept ==
  /\ \A t \in Time : Cardinality(Since(t - Window) \ Since(t + 1)) <= WindowLimit
  /\ \A d \in Time : Calls(d) <= DailyLimit
  /\ \A c \in Conversations : Len(turns[c]) <= 2 * (TurnLimit - 1)

=============================================================================
