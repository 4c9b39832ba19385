----------------------- MODULE PayPlanAssistantProofs -----------------------
(* Proofs about PayPlanAssistant: whatever workers, browsers and time do, a *)
(* reply follows the question it answers, turns fit their limit, forms are  *)
(* recorded once, closed conversations are final, and the whole is the      *)
(* dialogue of module Dialogue.                                             *)
EXTENDS PayPlanAssistant, SequenceTheorems, TLAPS

-----------------------------------------------------------------------------
(* The inductive invariant.                                                 *)

\* Only an open row has a processing token, and it is one already given out.
TokensInOrder ==
  \A c \in Conversations :
    /\ conversation[c].token <= conversation[c].revision
    /\ conversation[c].token # 0 => Open(c)

\* A call whose token the row still holds is about the last turn said. This
\* is what makes the comparison of tokens enough to keep late answers out.
CallsCurrent ==
  \A k \in calls :
    /\ k.token <= conversation[k.of].revision
    /\ conversation[k.of].token = k.token =>
         k.turn = Len(turns[k.of]) /\ turns[k.of][k.turn].role = "user"

\* A draft transaction holds the row of an open conversation.
LocksOpen == \A c \in Conversations : Unlocked(c) \/ Open(c)

\* A conversation not created yet has a blank row and no turns.
AbsentBlank ==
  \A c \in Conversations : Exists(c) \/ (conversation[c] = NoRow /\ turns[c] = << >>)

IInv ==
  /\ TypeOK /\ TokensInOrder /\ CallsCurrent /\ LocksOpen /\ AbsentBlank
  /\ RepliesFollowQuestions /\ TurnsFit /\ SubmittedOnce

-----------------------------------------------------------------------------
(* Lemmas about rows and turns.                                             *)

(* Rows keep their type when a handler saves them.                          *)
LEMMA ClosedFacts ==
  ASSUME AssistantAssumption, NEW row \in Row,
         NEW s \in {"resolved", "cancelled", "expired", "stale"}
  PROVE  /\ Closed(row, s) \in Row
         /\ Closed(row, s).revision = row.revision
         /\ Closed(row, s).start = row.start
         /\ Closed(row, s).token = 0
         /\ Closed(row, s).status = s
<1>1. /\ 0 \in 0..MaxQuestions /\ FALSE \in BOOLEAN
      /\ s \in {"absent", "open", "resolved", "cancelled", "expired", "stale"}
      /\ "none" \in {"none", "unclear", "choice", "clear"}
  BY DEF AssistantAssumption
<1>2. Closed(row, s) \in Row
  BY <1>1, ZenonT(60) DEF Row, Closed
<1>3. /\ Closed(row, s).revision = row.revision
      /\ Closed(row, s).start = row.start
      /\ Closed(row, s).token = 0
      /\ Closed(row, s).status = s
  BY DEF Closed, Row
<1> QED BY <1>2, <1>3

LEMMA NoRowType ==
  ASSUME AssistantAssumption
  PROVE  NoRow \in Row
<1>1. /\ 0 \in 0..MaxQuestions
      /\ NoSubmission \in Maybe(Submissions, NoSubmission)
      /\ NoVersion \in Maybe(Versions, NoVersion)
  BY DEF AssistantAssumption, Maybe
<1> QED BY <1>1 DEF Row, NoRow

LEMMA NewRowFacts ==
  ASSUME TypeOK, AssistantAssumption, NEW s \in Maybe(Submissions, NoSubmission)
  PROVE  /\ NewRow(s) \in Row /\ NewRow(s).revision = 0 /\ NewRow(s).token = 0
         /\ NewRow(s).start = s /\ NewRow(s).status = "open"
         /\ ~NewRow(s).expired
<1>1. NoRow \in Row
  BY NoRowType
<1>2. /\ active \in Maybe(Versions, NoVersion)
      /\ "open" \in {"absent", "open", "resolved", "cancelled", "expired", "stale"}
  BY DEF TypeOK
<1>3. NewRow(s) \in Row
  BY <1>1, <1>2, ZenonT(60) DEF Row, NewRow
<1>4. /\ NewRow(s).revision = NoRow.revision /\ NewRow(s).token = NoRow.token
      /\ NewRow(s).expired = NoRow.expired
      /\ NewRow(s).start = s /\ NewRow(s).status = "open"
  BY <1>1, ZenonT(60) DEF Row, NewRow
<1> QED BY <1>3, <1>4 DEF NoRow

(* The row of a question that begins to be processed, and of one answered.   *)
LEMMA TokenRowFacts ==
  ASSUME AssistantAssumption, NEW row \in Row, NEW n \in 0..MaxQuestions
  PROVE  LET q == Processing(row, n) IN
         /\ q \in Row /\ q.token = n /\ q.revision = n /\ ~q.expired
         /\ q.status = row.status /\ q.start = row.start
<1>1. FALSE \in BOOLEAN
  OBVIOUS
<1>2. Processing(row, n) \in Row
  BY <1>1, ZenonT(60) DEF Row, Processing
<1> QED BY <1>2 DEF Row, Processing

LEMMA AnsweredRowFacts ==
  ASSUME AssistantAssumption, NEW row \in Row,
         NEW p \in {"unclear", "choice", "clear"}
  PROVE  LET q == Interpreted(row, p) IN
         /\ q \in Row /\ q.token = 0 /\ q.revision = row.revision
         /\ q.status = row.status /\ q.start = row.start
<1>1. /\ 0 \in 0..MaxQuestions /\ FALSE \in BOOLEAN
      /\ p \in {"none", "unclear", "choice", "clear"}
  BY DEF AssistantAssumption
<1>2. Interpreted(row, p) \in Row
  BY <1>1, ZenonT(60) DEF Row, Interpreted
<1> QED BY <1>2 DEF Row, Interpreted

LEMMA SelectedRowFacts ==
  ASSUME AssistantAssumption, NEW row \in Row
  PROVE  LET q == Selecting(row) IN
         /\ q \in Row /\ q.token = row.token /\ q.revision = row.revision
         /\ q.status = row.status /\ q.start = row.start
         /\ q.expired = row.expired
<1>1. Selecting(row) \in Row
  BY ZenonT(60) DEF Row, Selecting
<1> QED BY <1>1 DEF Row, Selecting

LEMMA ReleasedFacts ==
  ASSUME AssistantAssumption, NEW row \in Row
  PROVE  /\ Released(row) \in Row
         /\ Released(row).revision = row.revision
         /\ Released(row).start = row.start
         /\ Released(row).status = row.status
         /\ Released(row).token # 0 => Released(row).token = row.token /\ ~row.expired
         /\ Released(row).token = 0 => row.token = 0 \/ row.expired
<1>1. CASE row.token # 0 /\ row.expired
  <2>1. 0 \in 0..MaxQuestions /\ FALSE \in BOOLEAN
    BY DEF AssistantAssumption
  <2>2. Released(row) = [row EXCEPT !.token = 0, !.expired = FALSE, !.idle = FALSE]
    BY <1>1 DEF Released
  <2>3. [row EXCEPT !.token = 0, !.expired = FALSE, !.idle = FALSE] \in Row
    BY <2>1, ZenonT(60) DEF Row
  <2> QED BY <1>1, <2>2, <2>3 DEF Row
<1>2. CASE ~(row.token # 0 /\ row.expired)
  BY <1>2 DEF Released
<1> QED BY <1>1, <1>2

(* What the refresh of a row may change (_refresh_lifecycle).               *)
LEMMA RefreshFacts ==
  ASSUME AssistantAssumption, NEW row \in Row, row.token # 0 => row.status = "open"
  PROVE  /\ RefreshLifecycle(row) \in Row
         /\ RefreshLifecycle(row).revision = row.revision
         /\ RefreshLifecycle(row).start = row.start
         /\ RefreshLifecycle(row).token # 0 =>
              /\ RefreshLifecycle(row).status = "open"
              /\ RefreshLifecycle(row).token = row.token
              /\ ~row.expired
         /\ row.status # "open" => RefreshLifecycle(row) = row
         /\ RefreshLifecycle(row).status \in {row.status, "expired", "stale"}
         /\ RefreshLifecycle(row).token = 0 /\ RefreshLifecycle(row).status = "open"
              => row.token = 0 \/ row.expired
<1> DEFINE r == Released(row)
           q == Outdated(r)
<1>1. CASE row.status # "open"
  BY <1>1 DEF RefreshLifecycle
<1>2. CASE row.status = "open"
  <2>1. /\ r \in Row /\ r.revision = row.revision /\ r.start = row.start
        /\ r.status = "open"
        /\ r.token # 0 => r.token = row.token /\ ~row.expired
        /\ r.token = 0 => row.token = 0 \/ row.expired
    BY <1>2, ReleasedFacts
  <2>2. \A s \in {"expired", "stale"} :
          /\ Closed(r, s) \in Row /\ Closed(r, s).revision = r.revision
          /\ Closed(r, s).start = r.start
          /\ Closed(r, s).token = 0 /\ Closed(r, s).status = s
    BY <2>1, ClosedFacts
  <2>3. q = r \/ \E s \in {"expired", "stale"} : q = Closed(r, s)
    BY DEF Outdated
  <2> QED BY <1>2, <2>1, <2>2, <2>3 DEF RefreshLifecycle
<1> QED BY <1>1, <1>2

(* One more turn.                                                           *)
LEMMA AppendTurn ==
  ASSUME NEW log \in Seq(Turn), NEW turn \in Turn
  PROVE  /\ Append(log, turn) \in Seq(Turn)
         /\ Len(Append(log, turn)) = Len(log) + 1
         /\ DOMAIN Append(log, turn) = 1..(Len(log) + 1)
         /\ DOMAIN log = 1..Len(log)
         /\ Len(log) \in Nat
         /\ Append(log, turn)[Len(log) + 1] = turn
         /\ \A i \in 1..Len(log) : Append(log, turn)[i] = log[i]
<1>1. /\ Append(log, turn) \in Seq(Turn)
      /\ Len(Append(log, turn)) = Len(log) + 1
      /\ \A i \in 1..Len(log) : Append(log, turn)[i] = log[i]
      /\ Append(log, turn)[Len(log) + 1] = turn
  BY AppendProperties
<1>2. Len(log) \in Nat /\ DOMAIN log = 1..Len(log)
  BY LenProperties
<1>3. DOMAIN Append(log, turn) = 1..Len(Append(log, turn))
  BY <1>1, LenProperties
<1> QED BY <1>1, <1>2, <1>3

(* The parts of the invariant that are about the log of one conversation.    *)
Answering(log) ==
  \A i \in DOMAIN log :
    log[i].role = "assistant" =>
      i > 1 /\ log[i].answers = i - 1 /\ log[i - 1].role = "user"

Distinct(log) ==
  \A i, j \in DOMAIN log :
    log[i].submission # NoSubmission /\ log[i].submission = log[j].submission => i = j

LEMMA SayLog ==
  ASSUME AssistantAssumption, NEW log \in Seq(Turn), Answering(log), Distinct(log),
         NEW s \in Maybe(Submissions, NoSubmission),
         s # NoSubmission => \A i \in DOMAIN log : log[i].submission # s
  PROVE  /\ Append(log, Said(s)) \in Seq(Turn)
         /\ Len(Append(log, Said(s))) = Len(log) + 1
         /\ Append(log, Said(s))[Len(log) + 1].role = "user"
         /\ Answering(Append(log, Said(s)))
         /\ Distinct(Append(log, Said(s)))
<1> DEFINE new == Append(log, Said(s))
           n   == Len(log)
<1>1. Said(s) \in Turn /\ Said(s).role = "user" /\ Said(s).submission = s
  BY DEF Said, Turn, AssistantAssumption
<1>2. /\ new \in Seq(Turn) /\ Len(new) = n + 1
      /\ DOMAIN new = 1..(n + 1) /\ DOMAIN log = 1..n
      /\ n \in Nat /\ new[n + 1] = Said(s)
      /\ \A i \in 1..n : new[i] = log[i]
  BY <1>1, AppendTurn
<1> HIDE DEF new, n
<1>3. Answering(new)
  <2> SUFFICES ASSUME NEW i \in DOMAIN new, new[i].role = "assistant"
               PROVE  i > 1 /\ new[i].answers = i - 1 /\ new[i - 1].role = "user"
    BY DEF Answering
  <2>1. i # n + 1
    BY <1>1, <1>2
  <2>2. i \in 1..n /\ log[i].role = "assistant"
    BY <2>1, <1>2
  <2>3. i > 1 /\ log[i].answers = i - 1 /\ log[i - 1].role = "user"
    BY <2>2, <1>2 DEF Answering
  <2>4. i - 1 \in 1..n
    BY <2>2, <2>3, <1>2
  <2> QED BY <2>2, <2>3, <2>4, <1>2
<1>4. Distinct(new)
  <2> SUFFICES ASSUME NEW i \in 1..(n + 1), NEW j \in 1..(n + 1),
                      new[i].submission # NoSubmission,
                      new[i].submission = new[j].submission
               PROVE  i = j
    BY <1>2 DEF Distinct
  <2>1. CASE i \in 1..n /\ j \in 1..n
    BY <2>1, <1>2 DEF Distinct
  <2>2. CASE i = n + 1 /\ j \in 1..n
    BY <2>2, <1>1, <1>2
  <2>3. CASE i \in 1..n /\ j = n + 1
    BY <2>3, <1>1, <1>2
  <2> QED BY <2>1, <2>2, <2>3, <1>2
<1> QED BY <1>1, <1>2, <1>3, <1>4 DEF new, n

LEMMA ReplyLog ==
  ASSUME AssistantAssumption, NEW log \in Seq(Turn), Answering(log), Distinct(log),
         Len(log) \in 1..TurnLimit, log[Len(log)].role = "user"
  PROVE  /\ Append(log, Reply(Len(log))) \in Seq(Turn)
         /\ Len(Append(log, Reply(Len(log)))) = Len(log) + 1
         /\ Answering(Append(log, Reply(Len(log))))
         /\ Distinct(Append(log, Reply(Len(log))))
<1> DEFINE n   == Len(log)
           new == Append(log, Reply(n))
<1>1. /\ Reply(n) \in Turn /\ Reply(n).role = "assistant" /\ Reply(n).answers = n
      /\ Reply(n).submission = NoSubmission
  BY DEF Reply, Turn, AssistantAssumption, Maybe
<1>2. /\ new \in Seq(Turn) /\ Len(new) = n + 1
      /\ DOMAIN new = 1..(n + 1) /\ DOMAIN log = 1..n
      /\ n \in Nat /\ n >= 1 /\ new[n + 1] = Reply(n)
      /\ \A i \in 1..n : new[i] = log[i]
  BY <1>1, AppendTurn
<1>3. log[n].role = "user"
  OBVIOUS
<1> HIDE DEF new, n
<1>4. Answering(new)
  <2> SUFFICES ASSUME NEW i \in DOMAIN new, new[i].role = "assistant"
               PROVE  i > 1 /\ new[i].answers = i - 1 /\ new[i - 1].role = "user"
    BY DEF Answering
  <2>1. CASE i = n + 1
    <3>1. n \in 1..n /\ i - 1 = n /\ i > 1
      BY <2>1, <1>2
    <3> QED BY <2>1, <3>1, <1>1, <1>2, <1>3
  <2>2. CASE i \in 1..n
    <3>1. i > 1 /\ log[i].answers = i - 1 /\ log[i - 1].role = "user"
      BY <2>2, <1>2 DEF Answering
    <3>2. i - 1 \in 1..n
      BY <2>2, <3>1, <1>2
    <3> QED BY <2>2, <3>1, <3>2, <1>2
  <2> QED BY <2>1, <2>2, <1>2
<1>5. Distinct(new)
  <2> SUFFICES ASSUME NEW i \in 1..(n + 1), NEW j \in 1..(n + 1),
                      new[i].submission # NoSubmission,
                      new[i].submission = new[j].submission
               PROVE  i = j
    BY <1>2 DEF Distinct
  <2>1. i \in 1..n /\ j \in 1..n
    BY <1>1, <1>2
  <2> QED BY <2>1, <1>2 DEF Distinct
<1> QED BY <1>1, <1>2, <1>4, <1>5 DEF new, n

LEMMA InitIInv ==
  ASSUME AssistantAssumption, Init
  PROVE  IInv
<1> USE DEF Init, NoRow, Maybe
<1>1. TypeOK
  BY DEF TypeOK, Row, AssistantAssumption
<1>2. TokensInOrder /\ CallsCurrent /\ LocksOpen /\ AbsentBlank
  BY DEF TokensInOrder, CallsCurrent, LocksOpen, AbsentBlank, Unlocked, Exists, Open
<1>3. RepliesFollowQuestions /\ TurnsFit
  BY DEF RepliesFollowQuestions, TurnsFit, Open, AssistantAssumption
<1>4. SubmittedOnce
  BY DEF SubmittedOnce, Started, AssistantAssumption
<1> QED BY <1>1, <1>2, <1>3, <1>4 DEF IInv

-----------------------------------------------------------------------------
(* Steps that say nothing: a row may lose its token, close or, if it was    *)
(* blank, come to exist.                                                    *)

Quieter(old, new) ==
  /\ new.revision = old.revision
  /\ new.start = old.start
  /\ new.token \in {0, old.token}
  /\ new.token # 0 => new.status = "open"
  /\ new.status = "absent" => new = old

LEMMA QuietStep ==
  ASSUME AssistantAssumption, IInv, TypeOK', UNCHANGED turns, calls' \subseteq calls,
         \A c \in Conversations :
           /\ Quieter(conversation[c], conversation'[c])
           /\ drafting'[c] = NoVersion \/ conversation'[c].status = "open"
  PROVE  IInv'
<1> USE DEF IInv
<1>1. TokensInOrder'
  BY DEF TokensInOrder, Quieter, Open, TypeOK, Row
<1>2. CallsCurrent'
  <2> SUFFICES ASSUME NEW k \in calls'
               PROVE  /\ k.token <= conversation'[k.of].revision
                      /\ conversation'[k.of].token = k.token =>
                           k.turn = Len(turns[k.of]) /\ turns[k.of][k.turn].role = "user"
    BY DEF CallsCurrent
  <2>1. k \in calls /\ k.of \in Conversations /\ k.token # 0
    BY DEF TypeOK, Call
  <2> QED BY <2>1 DEF CallsCurrent, Quieter
<1>3. LocksOpen'
  BY DEF LocksOpen, Unlocked, Open
<1>4. AbsentBlank'
  BY DEF AbsentBlank, Exists, Quieter
<1>5. RepliesFollowQuestions'
  BY DEF RepliesFollowQuestions
<1>6. TurnsFit'
  BY DEF TurnsFit, Open, Quieter, TokensInOrder
<1>7. SubmittedOnce'
  BY DEF SubmittedOnce, Started, Quieter
<1> QED BY <1>1, <1>2, <1>3, <1>4, <1>5, <1>6, <1>7

-----------------------------------------------------------------------------
(* A question that begins to be processed.                                  *)
LEMMA AskStep ==
  ASSUME AssistantAssumption, IInv,
         NEW c \in Conversations, NEW s \in Maybe(Submissions, NoSubmission),
         NEW row \in Row, row.status = "open",
         row.revision = conversation[c].revision,
         \/ row.start = conversation[c].start
         \/ row.start = s /\ \A d \in Conversations \ {c} : ~Started(d, s),
         Unlocked(c), HasCapacity(c), ~Recorded(c, s), BeginProcessing(c, row, s)
  PROVE  IInv'
<1> DEFINE n     == row.revision + 1
           q     == Processing(row, n)
           place == Len(turns[c]) + 1
           k0    == [of |-> c, token |-> n, turn |-> place]
<1>1. /\ n \in 1..MaxQuestions /\ n \in 0..MaxQuestions
      /\ conversation' = [conversation EXCEPT ![c] = q]
      /\ turns' = [turns EXCEPT ![c] = Append(@, Said(s))]
      /\ calls' = calls \cup {k0}
      /\ UNCHANGED <<active, drafting>>
  BY DEF BeginProcessing, Row, AssistantAssumption
<1>2. /\ q \in Row /\ q.token = n /\ q.revision = n /\ q.status = "open"
      /\ q.start = row.start
  BY <1>1, TokenRowFacts
<1>3. /\ turns[c] \in Seq(Turn) /\ Len(turns[c]) \in Nat
      /\ place \in 1..TurnLimit /\ place < TurnLimit
      /\ Answering(turns[c]) /\ Distinct(turns[c])
  <2>1. turns[c] \in Seq(Turn)
    BY DEF IInv, TypeOK
  <2>2. Len(turns[c]) \in Nat
    BY <2>1, LenProperties
  <2>3. place \in 1..TurnLimit /\ place < TurnLimit
    BY <2>2 DEF HasCapacity, AssistantAssumption
  <2>4. Answering(turns[c]) /\ Distinct(turns[c])
    BY DEF IInv, RepliesFollowQuestions, SubmittedOnce, Answering, Distinct
  <2> QED BY <2>1, <2>2, <2>3, <2>4
<1>4. /\ turns'[c] \in Seq(Turn) /\ Len(turns'[c]) = place
      /\ turns'[c][place].role = "user"
      /\ Answering(turns'[c]) /\ Distinct(turns'[c])
  <2>1. turns'[c] = Append(turns[c], Said(s))
    BY <1>1 DEF IInv, TypeOK
  <2>2. s # NoSubmission => \A i \in DOMAIN turns[c] : turns[c][i].submission # s
    BY DEF Recorded
  <2> QED BY <1>3, <2>1, <2>2, SayLog
<1>5. /\ conversation'[c] = q
      /\ \A d \in Conversations \ {c} :
           conversation'[d] = conversation[d] /\ turns'[d] = turns[d]
  BY <1>1 DEF IInv, TypeOK
<1>6. TypeOK'
  <2>1. k0 \in Call
    BY <1>1, <1>3 DEF Call
  <2> QED BY <1>1, <1>2, <1>4, <2>1 DEF IInv, TypeOK
<1>7. TokensInOrder'
  BY <1>1, <1>2, <1>5 DEF IInv, TokensInOrder, Open
<1>8. CallsCurrent'
  <2> SUFFICES ASSUME NEW k \in calls'
               PROVE  /\ k.token <= conversation'[k.of].revision
                      /\ conversation'[k.of].token = k.token =>
                           k.turn = Len(turns'[k.of]) /\ turns'[k.of][k.turn].role = "user"
    BY DEF CallsCurrent
  <2>1. CASE k = k0
    BY <2>1, <1>1, <1>2, <1>3, <1>4, <1>5
  <2>2. CASE k \in calls
    <3>1. /\ k.of \in Conversations /\ k.token \in 1..MaxQuestions
          /\ k.token <= conversation[k.of].revision
          /\ conversation[k.of].token = k.token =>
               k.turn = Len(turns[k.of]) /\ turns[k.of][k.turn].role = "user"
      BY <2>2 DEF IInv, CallsCurrent, TypeOK, Call
    <3>2. CASE k.of = c
      BY <3>1, <3>2, <1>1, <1>2, <1>5 DEF Row
    <3>3. CASE k.of # c
      BY <3>1, <3>3, <1>5
    <3> QED BY <3>2, <3>3
  <2> QED BY <1>1, <2>1, <2>2
<1>9. LocksOpen'
  BY <1>1, <1>2, <1>5 DEF IInv, LocksOpen, Unlocked, Open
<1>10. AbsentBlank'
  <2> SUFFICES ASSUME NEW d \in Conversations
               PROVE  conversation'[d].status # "absent"
                        \/ (conversation'[d] = NoRow /\ turns'[d] = << >>)
    BY DEF AbsentBlank, Exists
  <2>1. CASE d = c
    BY <2>1, <1>2, <1>5
  <2>2. CASE d # c
    BY <2>2, <1>5 DEF IInv, AbsentBlank, Exists
  <2> QED BY <2>1, <2>2
<1>11. RepliesFollowQuestions'
  BY <1>4, <1>5 DEF IInv, RepliesFollowQuestions, Answering
<1>12. TurnsFit'
  <2>1. Len(turns'[c]) < TurnLimit /\ Len(turns'[c]) <= TurnLimit
    BY <1>3, <1>4 DEF AssistantAssumption
  <2> QED BY <2>1, <1>5 DEF IInv, TurnsFit, Open
<1>13. SubmittedOnce'
  <2>1. \A d \in Conversations : Distinct(turns'[d])
    BY <1>4, <1>5 DEF IInv, SubmittedOnce, Distinct
  <2>2. ASSUME NEW d \in Conversations, NEW e \in Conversations, NEW t \in Submissions,
               Started(d, t)', Started(e, t)'
        PROVE  d = e
    <3>1. \A f \in Conversations :
            Started(f, t)' => Started(f, t) \/ (f = c /\ row.start = s /\ t = s)
      <4> SUFFICES ASSUME NEW f \in Conversations, Started(f, t)'
                   PROVE  Started(f, t) \/ (f = c /\ row.start = s /\ t = s)
        OBVIOUS
      <4>1. CASE f = c
        BY <4>1, <1>2, <1>5 DEF Started
      <4>2. CASE f # c
        BY <4>2, <1>5 DEF Started
      <4> QED BY <4>1, <4>2
    <3>2. d # e => ~(Started(d, t) /\ Started(e, t))
      BY DEF IInv, SubmittedOnce
    <3> QED BY <2>2, <3>1, <3>2, <1>2, <1>5 DEF Started
  <2> QED BY <2>1, <2>2 DEF SubmittedOnce, Distinct
<1> QED BY <1>6, <1>7, <1>8, <1>9, <1>10, <1>11, <1>12, <1>13 DEF IInv

-----------------------------------------------------------------------------
(* An answer that is stored, and a choice answered at once.                 *)

(* The log of one open conversation grows to one that is in order, and its   *)
(* row keeps its revision and loses its token.                              *)
LEMMA AnsweredStep ==
  ASSUME AssistantAssumption, IInv, NEW c \in Conversations, Open(c), Unlocked(c),
         NEW row \in Row, row.status = "open", row.token = 0,
         row.revision = conversation[c].revision, row.start = conversation[c].start,
         NEW log \in Seq(Turn), Answering(log), Distinct(log), Len(log) <= TurnLimit,
         conversation' = [conversation EXCEPT ![c] = row],
         turns' = [turns EXCEPT ![c] = log],
         calls' \subseteq calls,
         UNCHANGED <<active, drafting>>
  PROVE  IInv'
<1>1. /\ conversation'[c] = row /\ turns'[c] = log
      /\ \A d \in Conversations \ {c} :
           conversation'[d] = conversation[d] /\ turns'[d] = turns[d]
  BY DEF IInv, TypeOK
<1>2. TypeOK'
  BY DEF IInv, TypeOK
<1>3. TokensInOrder'
  BY <1>1 DEF IInv, TokensInOrder, Open, Row
<1>4. CallsCurrent'
  <2> SUFFICES ASSUME NEW k \in calls'
               PROVE  /\ k.token <= conversation'[k.of].revision
                      /\ conversation'[k.of].token = k.token =>
                           k.turn = Len(turns'[k.of]) /\ turns'[k.of][k.turn].role = "user"
    BY DEF CallsCurrent
  <2>1. /\ k.of \in Conversations /\ k.token # 0
        /\ k.token <= conversation[k.of].revision
        /\ conversation[k.of].token = k.token =>
             k.turn = Len(turns[k.of]) /\ turns[k.of][k.turn].role = "user"
    BY DEF IInv, CallsCurrent, TypeOK, Call
  <2>2. CASE k.of = c
    BY <2>1, <2>2, <1>1
  <2>3. CASE k.of # c
    BY <2>1, <2>3, <1>1
  <2> QED BY <2>2, <2>3
<1>5. LocksOpen'
  BY <1>1 DEF IInv, LocksOpen, Unlocked, Open
<1>6. AbsentBlank'
  <2> SUFFICES ASSUME NEW d \in Conversations
               PROVE  conversation'[d].status # "absent"
                        \/ (conversation'[d] = NoRow /\ turns'[d] = << >>)
    BY DEF AbsentBlank, Exists
  <2>1. CASE d = c
    BY <2>1, <1>1
  <2>2. CASE d # c
    BY <2>2, <1>1 DEF IInv, AbsentBlank, Exists
  <2> QED BY <2>1, <2>2
<1>7. RepliesFollowQuestions'
  BY <1>1 DEF IInv, RepliesFollowQuestions, Answering
<1>8. TurnsFit'
  BY <1>1 DEF IInv, TurnsFit, Open
<1>9. SubmittedOnce'
  <2>1. \A d \in Conversations : Distinct(turns'[d])
    BY <1>1 DEF IInv, SubmittedOnce, Distinct
  <2>2. \A d \in Conversations : conversation'[d].start = conversation[d].start
    BY <1>1
  <2> QED BY <2>1, <2>2 DEF IInv, SubmittedOnce, Distinct, Started
<1> QED BY <1>2, <1>3, <1>4, <1>5, <1>6, <1>7, <1>8, <1>9 DEF IInv

\* What the invariant says of one conversation.
LEMMA OneConversation ==
  ASSUME AssistantAssumption, IInv, NEW c \in Conversations
  PROVE  /\ conversation[c] \in Row
         /\ conversation[c].token # 0 => conversation[c].status = "open"
         /\ turns[c] \in Seq(Turn) /\ Len(turns[c]) \in Nat
         /\ Answering(turns[c]) /\ Distinct(turns[c])
<1>1. turns[c] \in Seq(Turn)
  BY DEF IInv, TypeOK
<1>2. Len(turns[c]) \in Nat
  BY <1>1, LenProperties
<1> QED BY <1>1, <1>2 DEF IInv, TypeOK, TokensInOrder, Open,
             RepliesFollowQuestions, SubmittedOnce, Answering, Distinct

LEMMA StoreStep ==
  ASSUME AssistantAssumption, IInv, NEW k \in calls,
         NEW p \in {"unclear", "choice", "clear"}, StoreInterpretation(k, p)
  PROVE  IInv'
<1> DEFINE c   == k.of
           row == RefreshLifecycle(conversation[c])
           n   == Len(turns[c])
<1>1. c \in Conversations /\ k.token # 0
  BY DEF IInv, TypeOK, Call
<1>2. /\ conversation[c] \in Row
      /\ conversation[c].token # 0 => conversation[c].status = "open"
      /\ turns[c] \in Seq(Turn) /\ n \in Nat
      /\ Answering(turns[c]) /\ Distinct(turns[c])
  BY <1>1, OneConversation
<1>3. row.status = "open" /\ row.token = k.token /\ Unlocked(c)
  BY DEF StoreInterpretation
<1>4. /\ row \in Row /\ row.revision = conversation[c].revision
      /\ row.start = conversation[c].start
      /\ conversation[c].token = k.token /\ Open(c)
  BY <1>1, <1>2, <1>3, RefreshFacts DEF Open
<1>5. /\ Interpreted(row, p) \in Row /\ Interpreted(row, p).token = 0
      /\ Interpreted(row, p).revision = row.revision
      /\ Interpreted(row, p).status = "open"
      /\ Interpreted(row, p).start = row.start
  BY <1>3, <1>4, AnsweredRowFacts
<1>6. k.turn = n /\ turns[c][n].role = "user" /\ n \in 1..TurnLimit /\ n < TurnLimit
  BY <1>1, <1>4 DEF IInv, CallsCurrent, TypeOK, Call, TurnsFit
<1>7. /\ Append(turns[c], Reply(n)) \in Seq(Turn)
      /\ Len(Append(turns[c], Reply(n))) = n + 1
      /\ Answering(Append(turns[c], Reply(n)))
      /\ Distinct(Append(turns[c], Reply(n)))
  BY <1>2, <1>6, ReplyLog
<1>8. n + 1 <= TurnLimit
  BY <1>6 DEF AssistantAssumption
<1>9. /\ conversation' = [conversation EXCEPT ![c] = Interpreted(row, p)]
      /\ turns' = [turns EXCEPT ![c] = Append(turns[c], Reply(n))]
      /\ calls' \subseteq calls
      /\ UNCHANGED <<active, drafting>>
  BY <1>6 DEF StoreInterpretation
<1> HIDE DEF c, row, n
<1> QED BY <1>1, <1>3, <1>4, <1>5, <1>7, <1>8, <1>9, AnsweredStep

LEMMA CandidateStep ==
  ASSUME AssistantAssumption, IInv, NEW c \in Conversations,
         NEW s \in Maybe(Submissions, NoSubmission), CandidateFollowUp(c, s)
  PROVE  IInv'
<1> DEFINE row   == RefreshLifecycle(conversation[c])
           n     == Len(turns[c])
           asked == Append(turns[c], Said(s))
           log   == Append(asked, Reply(n + 1))
<1>1. /\ conversation[c] \in Row
      /\ conversation[c].token # 0 => conversation[c].status = "open"
      /\ turns[c] \in Seq(Turn) /\ n \in Nat
      /\ Answering(turns[c]) /\ Distinct(turns[c])
  BY OneConversation
<1>2. row.status = "open" /\ row.token = 0 /\ Unlocked(c)
  BY DEF CandidateFollowUp, Ready
<1>3. /\ row \in Row /\ row.revision = conversation[c].revision
      /\ row.start = conversation[c].start /\ Open(c)
  BY <1>1, <1>2, RefreshFacts DEF Open
<1>4. /\ Selecting(row) \in Row /\ Selecting(row).token = 0
      /\ Selecting(row).revision = row.revision
      /\ Selecting(row).status = "open" /\ Selecting(row).start = row.start
  BY <1>2, <1>3, SelectedRowFacts
<1>5. s # NoSubmission => \A i \in DOMAIN turns[c] : turns[c][i].submission # s
  BY DEF CandidateFollowUp, Recorded
<1>6. /\ asked \in Seq(Turn) /\ Len(asked) = n + 1 /\ asked[n + 1].role = "user"
      /\ Answering(asked) /\ Distinct(asked)
  BY <1>1, <1>5, SayLog
<1>7. n + 1 \in 1..TurnLimit /\ n + 2 <= TurnLimit
  BY <1>1 DEF CandidateFollowUp, HasCapacity, AssistantAssumption
<1>8. /\ log \in Seq(Turn) /\ Len(log) = n + 2
      /\ Answering(log) /\ Distinct(log)
  <2>1. Len(asked) \in 1..TurnLimit /\ asked[Len(asked)].role = "user"
    BY <1>6, <1>7
  <2>2. log = Append(asked, Reply(Len(asked)))
    BY <1>6
  <2>3. Len(asked) + 1 = n + 2
    BY <1>1, <1>6
  <2> HIDE DEF asked, log, n
  <2> QED BY <1>6, <2>1, <2>2, <2>3, ReplyLog
<1>9. /\ conversation' = [conversation EXCEPT ![c] = Selecting(row)]
      /\ turns' = [turns EXCEPT ![c] = log]
      /\ calls' \subseteq calls
      /\ UNCHANGED <<active, drafting>>
  BY DEF CandidateFollowUp
<1>10. Len(log) <= TurnLimit
  BY <1>7, <1>8
<1> HIDE DEF row, asked, log, n
<1> QED BY <1>2, <1>3, <1>4, <1>8, <1>9, <1>10, AnsweredStep

-----------------------------------------------------------------------------
(* Steps in which one row grows quieter.                                    *)
LEMMA QuietRow ==
  ASSUME AssistantAssumption, IInv, NEW c \in Conversations, NEW row \in Row,
         Quieter(conversation[c], row),
         drafting'[c] = NoVersion \/ row.status = "open",
         conversation' = [conversation EXCEPT ![c] = row],
         \A d \in Conversations \ {c} : drafting'[d] = drafting[d],
         drafting' \in [Conversations -> Maybe(Versions, NoVersion)],
         calls' \subseteq calls,
         UNCHANGED <<active, turns>>
  PROVE  IInv'
<1>1. /\ conversation'[c] = row
      /\ \A d \in Conversations \ {c} : conversation'[d] = conversation[d]
  BY DEF IInv, TypeOK
<1>2. TypeOK'
  BY DEF IInv, TypeOK
<1>3. ASSUME NEW d \in Conversations
      PROVE  /\ Quieter(conversation[d], conversation'[d])
             /\ drafting'[d] = NoVersion \/ conversation'[d].status = "open"
  <2>1. CASE d = c
    BY <2>1, <1>1
  <2>2. CASE d # c
    <3>1. Quieter(conversation[d], conversation'[d])
      BY <2>2, <1>1 DEF IInv, Quieter, TokensInOrder, Open
    <3>2. drafting'[d] = NoVersion \/ conversation'[d].status = "open"
      BY <2>2, <1>1 DEF IInv, LocksOpen, Unlocked, Open
    <3> QED BY <3>1, <3>2
  <2> QED BY <2>1, <2>2
<1> QED BY <1>2, <1>3, QuietStep

LEMMA RefreshedRow ==
  ASSUME AssistantAssumption, IInv, NEW c \in Conversations
  PROVE  /\ RefreshLifecycle(conversation[c]) \in Row
         /\ Quieter(conversation[c], RefreshLifecycle(conversation[c]))
<1> DEFINE old == conversation[c]
           row == RefreshLifecycle(old)
<1>1. old \in Row /\ (old.token # 0 => old.status = "open")
  BY OneConversation
<1>2. /\ row \in Row /\ row.revision = old.revision /\ row.start = old.start
      /\ row.token # 0 => row.status = "open" /\ row.token = old.token
      /\ old.status # "open" => row = old
      /\ row.status \in {old.status, "expired", "stale"}
  BY <1>1, RefreshFacts
<1> HIDE DEF row, old
<1>3. Quieter(old, row)
  BY <1>2 DEF Quieter
<1> QED BY <1>2, <1>3 DEF row, old

LEMMA ClosedRow ==
  ASSUME AssistantAssumption, NEW old \in Row,
         NEW s \in {"resolved", "cancelled", "expired", "stale"}
  PROVE  Closed(old, s) \in Row /\ Quieter(old, Closed(old, s))
<1> DEFINE row == Closed(old, s)
<1>1. /\ row \in Row /\ row.revision = old.revision /\ row.start = old.start
      /\ row.token = 0 /\ row.status = s
  BY ClosedFacts
<1> HIDE DEF row
<1>2. Quieter(old, row)
  BY <1>1 DEF Quieter
<1> QED BY <1>1, <1>2 DEF row

\* Pages, cancelling, starting over.
LEMMA PageStep ==
  ASSUME AssistantAssumption, IInv, NEW c \in Conversations,
         \/ Refresh(c) \/ Cancel(c)
         \/ \E s \in Maybe(Submissions, NoSubmission) : Resubmit(c, s)
         \/ \E d \in Conversations : StartOver(c, d)
  PROVE  IInv'
<1>1. conversation[c] \in Row
  BY OneConversation
<1>2. drafting \in [Conversations -> Maybe(Versions, NoVersion)]
  BY DEF IInv, TypeOK
<1>3. CASE Refresh(c) \/ \E s \in Maybe(Submissions, NoSubmission) : Resubmit(c, s)
  <2>1. /\ conversation' =
             [conversation EXCEPT ![c] = RefreshLifecycle(conversation[c])]
        /\ Unlocked(c)
        /\ UNCHANGED <<active, turns, calls, drafting>>
    BY <1>3 DEF Refresh, Resubmit
  <2> QED BY <1>2, <2>1, RefreshedRow, QuietRow DEF Unlocked
<1>4. CASE Cancel(c)
  <2>1. /\ conversation' =
             [conversation EXCEPT ![c] = Closed(conversation[c], "cancelled")]
        /\ Unlocked(c)
        /\ UNCHANGED <<active, turns, calls, drafting>>
    BY <1>4 DEF Cancel
  <2> QED BY <1>1, <1>2, <2>1, ClosedRow, QuietRow DEF Unlocked
<1>5. ASSUME NEW d \in Conversations, StartOver(c, d)
      PROVE  IInv'
  <2> DEFINE old == IF conversation[c].status = "open"
                    THEN Closed(conversation[c], "cancelled") ELSE conversation[c]
             new == NewRow(NoSubmission)
  <2>1. /\ conversation' = [conversation EXCEPT ![c] = old, ![d] = new]
        /\ Exists(c) /\ ~Exists(d) /\ Unlocked(c) /\ c # d
        /\ UNCHANGED <<active, turns, calls, drafting>>
    BY <1>5 DEF StartOver, Exists
  <2>2. /\ new \in Row /\ new.revision = 0 /\ new.token = 0
        /\ new.start = NoSubmission /\ new.status = "open"
    BY NewRowFacts DEF IInv, Maybe
  <2>3. old \in Row /\ Quieter(conversation[c], old)
    <3>1. CASE conversation[c].status = "open"
      BY <3>1, <1>1, ClosedRow
    <3>2. CASE conversation[c].status # "open"
      BY <3>2, <1>1 DEF Quieter, IInv, TokensInOrder, Open
    <3> QED BY <3>1, <3>2
  <2>4. conversation[d] = NoRow
    BY <2>1 DEF IInv, AbsentBlank
  <2> HIDE DEF old, new
  <2>5. /\ conversation'[c] = old /\ conversation'[d] = new
        /\ \A e \in Conversations \ {c, d} : conversation'[e] = conversation[e]
    BY <2>1 DEF IInv, TypeOK
  <2>6. TypeOK'
    BY <2>1, <2>2, <2>3 DEF IInv, TypeOK
  <2>7. Quieter(conversation[d], new)
    BY <2>2, <2>4 DEF Quieter, NoRow
  <2>8. ASSUME NEW e \in Conversations
        PROVE  /\ Quieter(conversation[e], conversation'[e])
               /\ drafting'[e] = NoVersion \/ conversation'[e].status = "open"
    <3>1. CASE e = c
      BY <3>1, <2>1, <2>3, <2>5 DEF Unlocked
    <3>2. CASE e = d
      BY <3>2, <2>2, <2>5, <2>7
    <3>3. CASE e \notin {c, d}
      <4>1. Quieter(conversation[e], conversation'[e])
        BY <3>3, <2>5 DEF IInv, Quieter, TokensInOrder, Open
      <4>2. drafting'[e] = NoVersion \/ conversation'[e].status = "open"
        BY <3>3, <2>1, <2>5 DEF IInv, LocksOpen, Unlocked, Open
      <4> QED BY <4>1, <4>2
    <3> QED BY <3>1, <3>2, <3>3
  <2> QED BY <2>1, <2>6, <2>8, QuietStep
<1> QED BY <1>3, <1>4, <1>5

\* Drafts, time, and calls that leave no answer.
LEMMA OtherStep ==
  ASSUME AssistantAssumption, IInv,
         \/ \E c \in Conversations :
              Drafting(c) \/ DeadlinePasses(c) \/ TimeToLivePasses(c)
         \/ \E k \in calls : AnswerClosed(k) \/ AnswerLost(k)
         \/ \E v \in Maybe(Versions, NoVersion) : ChangeActive(v)
  PROVE  IInv'
<1>1. \A c \in Conversations : conversation[c] \in Row
  BY OneConversation
<1>2. drafting \in [Conversations -> Maybe(Versions, NoVersion)]
  BY DEF IInv, TypeOK
<1>3. ASSUME NEW c \in Conversations, CheckDraft(c)
      PROVE  IInv'
  <2>1. conversation[c].status = "open"
    <3>1. RefreshLifecycle(conversation[c]).status = "open"
      BY <1>3 DEF CheckDraft, Ready
    <3> QED BY <3>1 DEF RefreshLifecycle
  <2>2. /\ drafting' = [drafting EXCEPT ![c] = active]
        /\ UNCHANGED <<active, conversation, turns, calls>>
    BY <1>3 DEF CheckDraft
  <2>3. Quieter(conversation[c], conversation[c])
    BY <1>1, <2>1 DEF Quieter
  <2>4. /\ conversation' = [conversation EXCEPT ![c] = conversation[c]]
        /\ drafting' \in [Conversations -> Maybe(Versions, NoVersion)]
        /\ \A d \in Conversations \ {c} : drafting'[d] = drafting[d]
    BY <2>2 DEF IInv, TypeOK
  <2> QED BY <1>1, <2>1, <2>2, <2>3, <2>4, QuietRow
<1>4. ASSUME NEW c \in Conversations, CloneDraft(c)
      PROVE  IInv'
  <2> DEFINE closed == Closed(conversation[c], "resolved")
             row    == [closed EXCEPT !.source = drafting[c], !.clone = active]
  <2>1. /\ closed \in Row /\ closed.revision = conversation[c].revision
        /\ closed.start = conversation[c].start
        /\ closed.token = 0 /\ closed.status = "resolved"
    BY <1>1, ClosedFacts
  <2>2. drafting[c] \in Maybe(Versions, NoVersion) /\ active \in Maybe(Versions, NoVersion)
    BY DEF IInv, TypeOK
  <2>3. /\ conversation' = [conversation EXCEPT ![c] = row]
        /\ drafting' = [drafting EXCEPT ![c] = NoVersion]
        /\ UNCHANGED <<active, turns, calls>>
    BY <1>4 DEF CloneDraft
  <2> HIDE DEF closed
  <2>4. row \in Row
    BY <2>1, <2>2, ZenonT(60) DEF Row
  <2>5. Quieter(conversation[c], row)
    BY <2>1 DEF Quieter, Row
  <2>6. /\ drafting'[c] = NoVersion
        /\ drafting' \in [Conversations -> Maybe(Versions, NoVersion)]
        /\ \A d \in Conversations \ {c} : drafting'[d] = drafting[d]
    BY <2>3 DEF IInv, TypeOK, Maybe
  <2> HIDE DEF row
  <2> QED BY <2>3, <2>4, <2>5, <2>6, QuietRow
<1>5. ASSUME NEW c \in Conversations, AbortDraft(c)
      PROVE  IInv'
  <2>1. /\ drafting' = [drafting EXCEPT ![c] = NoVersion]
        /\ UNCHANGED <<active, conversation, turns, calls>>
    BY <1>5 DEF AbortDraft
  <2>2. Quieter(conversation[c], conversation[c])
    BY <1>1 DEF Quieter, IInv, TokensInOrder, Open
  <2>3. /\ conversation' = [conversation EXCEPT ![c] = conversation[c]]
        /\ drafting'[c] = NoVersion
        /\ drafting' \in [Conversations -> Maybe(Versions, NoVersion)]
        /\ \A d \in Conversations \ {c} : drafting'[d] = drafting[d]
    BY <2>1 DEF IInv, TypeOK, Maybe
  <2> QED BY <1>1, <2>1, <2>2, <2>3, QuietRow
<1>6. ASSUME NEW c \in Conversations, DeadlinePasses(c) \/ TimeToLivePasses(c)
      PROVE  IInv'
  <2>1. PICK row \in {[conversation[c] EXCEPT !.expired = TRUE],
                      [conversation[c] EXCEPT !.idle = TRUE]} :
          conversation' = [conversation EXCEPT ![c] = row]
    BY <1>6 DEF DeadlinePasses, TimeToLivePasses
  <2>2. UNCHANGED <<active, turns, calls, drafting>>
    BY <1>6 DEF DeadlinePasses, TimeToLivePasses
  <2>3. conversation[c].status = "open"
    BY <1>6 DEF DeadlinePasses, TimeToLivePasses, IInv, TokensInOrder, Open
  <2>4. /\ row \in Row /\ row.status = "open" /\ row.token = conversation[c].token
        /\ row.revision = conversation[c].revision /\ row.start = conversation[c].start
    BY <1>1, <2>1, <2>3 DEF Row
  <2>5. Quieter(conversation[c], row)
    BY <2>4 DEF Quieter
  <2> QED BY <1>2, <2>1, <2>2, <2>4, <2>5, QuietRow
<1>7. ASSUME NEW k \in calls, AnswerClosed(k)
      PROVE  IInv'
  <2>1. k.of \in Conversations
    BY DEF IInv, TypeOK, Call
  <2>2. /\ conversation' =
             [conversation EXCEPT ![k.of] = RefreshLifecycle(conversation[k.of])]
        /\ Unlocked(k.of) /\ calls' \subseteq calls
        /\ UNCHANGED <<active, turns, drafting>>
    BY <1>7 DEF AnswerClosed
  <2> QED BY <1>2, <2>1, <2>2, RefreshedRow, QuietRow DEF Unlocked
<1>8. ASSUME \/ \E k \in calls : AnswerLost(k)
             \/ \E v \in Maybe(Versions, NoVersion) : ChangeActive(v)
      PROVE  IInv'
  <2>1. /\ calls' \subseteq calls /\ active' \in Maybe(Versions, NoVersion)
        /\ UNCHANGED <<conversation, turns, drafting>>
    BY <1>8 DEF AnswerLost, ChangeActive, IInv, TypeOK
  <2>2. TypeOK'
    BY <2>1 DEF IInv, TypeOK
  <2>3. \A c \in Conversations :
          /\ Quieter(conversation[c], conversation'[c])
          /\ drafting'[c] = NoVersion \/ conversation'[c].status = "open"
    BY <1>1, <2>1 DEF Quieter, IInv, TokensInOrder, LocksOpen, Unlocked, Open
  <2> QED BY <2>1, <2>2, <2>3, QuietStep
<1> QED BY <1>3, <1>4, <1>5, <1>6, <1>7, <1>8 DEF Drafting

\* The three ways to ask.
LEMMA AskingStep ==
  ASSUME AssistantAssumption, IInv, NEW c \in Conversations,
         NEW s \in Maybe(Submissions, NoSubmission),
         Start(c, s) \/ BeginExisting(c, s) \/ FollowUp(c, s)
  PROVE  IInv'
<1> DEFINE row == RefreshLifecycle(conversation[c])
<1>1. conversation[c] \in Row /\ (conversation[c].token # 0 => conversation[c].status = "open")
  BY OneConversation
<1>2. /\ row \in Row /\ row.revision = conversation[c].revision
      /\ row.start = conversation[c].start
  BY <1>1, RefreshFacts
<1>3. CASE Start(c, s)
  <2>1. conversation[c] = NoRow /\ turns[c] = << >>
    BY <1>3 DEF Start, IInv, AbsentBlank
  <2>2. Unlocked(c) /\ ~Recorded(c, s)
    BY <2>1, <1>3 DEF Start, IInv, LocksOpen, Exists, Open, Recorded
  <2>3. /\ NewRow(s) \in Row /\ NewRow(s).status = "open" /\ NewRow(s).start = s
        /\ NewRow(s).revision = conversation[c].revision
    BY <2>1, NewRowFacts DEF IInv, NoRow
  <2>4. /\ \A d \in Conversations \ {c} : ~Started(d, s)
        /\ HasCapacity(c) /\ BeginProcessing(c, NewRow(s), s)
    BY <1>3 DEF Start
  <2> QED BY <2>2, <2>3, <2>4, AskStep
<1>4. CASE BeginExisting(c, s)
  <2> DEFINE mine == [row EXCEPT !.start = s]
  <2>1. /\ Unlocked(c) /\ row.status = "open" /\ turns[c] = << >>
        /\ \A d \in Conversations \ {c} : ~Started(d, s)
        /\ HasCapacity(c) /\ BeginProcessing(c, mine, s)
    BY <1>4 DEF BeginExisting, Ready
  <2>2. ~Recorded(c, s)
    BY <2>1 DEF Recorded
  <2> HIDE DEF row
  <2>3. mine \in Row
    BY <1>2, ZenonT(60) DEF Row
  <2>4. /\ mine.status = "open" /\ mine.revision = conversation[c].revision
        /\ mine.start = s
    BY <1>2, <2>1 DEF Row
  <2> HIDE DEF mine
  <2> QED BY <2>1, <2>2, <2>3, <2>4, AskStep
<1>5. CASE FollowUp(c, s)
  <2> DEFINE mine == [row EXCEPT !.selected = FALSE]
  <2>1. /\ Unlocked(c) /\ row.status = "open" /\ ~Recorded(c, s)
        /\ HasCapacity(c) /\ BeginProcessing(c, mine, s)
    BY <1>5 DEF FollowUp, Ready
  <2> HIDE DEF row
  <2>2. mine \in Row
    BY <1>2, ZenonT(60) DEF Row
  <2>3. /\ mine.status = "open" /\ mine.revision = conversation[c].revision
        /\ mine.start = conversation[c].start
    BY <1>2, <2>1 DEF Row
  <2> HIDE DEF mine
  <2> QED BY <2>1, <2>2, <2>3, AskStep
<1> QED BY <1>3, <1>4, <1>5

LEMMA NextIInv ==
  ASSUME AssistantAssumption, IInv, [Next]_vars
  PROVE  IInv'
<1>1. ASSUME NEW c \in Conversations, Conversing(c)
      PROVE  IInv'
  <2>1. CASE \E s \in Maybe(Submissions, NoSubmission) :
               Start(c, s) \/ BeginExisting(c, s) \/ FollowUp(c, s)
    BY <2>1, AskingStep
  <2>2. CASE \E s \in Maybe(Submissions, NoSubmission) : CandidateFollowUp(c, s)
    BY <2>2, CandidateStep
  <2>3. CASE \/ Refresh(c) \/ Cancel(c)
             \/ \E s \in Maybe(Submissions, NoSubmission) : Resubmit(c, s)
             \/ \E d \in Conversations : StartOver(c, d)
    BY <2>3, PageStep
  <2> QED BY <1>1, <2>1, <2>2, <2>3 DEF Conversing
<1>2. ASSUME NEW k \in calls, NEW p \in {"unclear", "choice", "clear"},
             StoreInterpretation(k, p)
      PROVE  IInv'
  BY <1>2, StoreStep
<1>3. CASE \/ \E c \in Conversations :
                Drafting(c) \/ DeadlinePasses(c) \/ TimeToLivePasses(c)
           \/ \E k \in calls : AnswerClosed(k) \/ AnswerLost(k)
           \/ \E v \in Maybe(Versions, NoVersion) : ChangeActive(v)
  BY <1>3, OtherStep
<1>4. CASE UNCHANGED vars
  <2>1. UNCHANGED <<active, conversation, turns, calls, drafting>>
    BY <1>4 DEF vars
  <2>2. \A c \in Conversations :
          /\ Quieter(conversation[c], conversation'[c])
          /\ drafting'[c] = NoVersion \/ conversation'[c].status = "open"
    BY <2>1 DEF Quieter, IInv, TokensInOrder, LocksOpen, Unlocked, Open
  <2>3. TypeOK'
    BY <2>1 DEF IInv, TypeOK
  <2> QED BY <2>1, <2>2, <2>3, QuietStep
<1> QED BY <1>1, <1>2, <1>3, <1>4 DEF Next, Interpreting

-----------------------------------------------------------------------------
(* Theorems.                                                                *)

(* The inductive invariant holds of every behaviour of the assistant.       *)
THEOREM AssistantInvariance == Spec => []IInv
<1>1. Init => IInv
  BY InitIInv, AssistantAssumption
<1>2. IInv /\ [Next]_vars => IInv'
  BY NextIInv, AssistantAssumption
<1> QED BY <1>1, <1>2, PTL DEF Spec

(* Rows, turns and calls keep their types.                                  *)
THEOREM AssistantTypes == Spec => []TypeOK
<1>1. IInv => TypeOK
  BY DEF IInv
<1> QED BY <1>1, AssistantInvariance, PTL

(* A late answer of the interpreter never reaches a later question.          *)
THEOREM RepliesAreInPlace == Spec => []RepliesFollowQuestions
<1>1. IInv => RepliesFollowQuestions
  BY DEF IInv
<1> QED BY <1>1, AssistantInvariance, PTL

(* The limit of turns is kept, though answers are stored without a test.    *)
THEOREM TurnsKeepTheirLimit == Spec => []TurnsFit
<1>1. IInv => TurnsFit
  BY DEF IInv
<1> QED BY <1>1, AssistantInvariance, PTL

(* A form sent again is recorded once.                                      *)
THEOREM FormsAreRecordedOnce == Spec => []SubmittedOnce
<1>1. IInv => SubmittedOnce
  BY DEF IInv
<1> QED BY <1>1, AssistantInvariance, PTL

-----------------------------------------------------------------------------
(* The assistant implements the dialogue. A step changes one conversation,  *)
(* in one of four ways, or puts one in place of another; that closed        *)
(* conversations are final follows as well.                                 *)

Moved(c, row, log) ==
  /\ conversation' = [conversation EXCEPT ![c] = row]
  /\ turns' = [turns EXCEPT ![c] = log]

Asks(c) ==
  \E row \in Row, s \in Maybe(Submissions, NoSubmission) :
    /\ Moved(c, row, Append(turns[c], Said(s)))
    /\ Phase(conversation[c]) \in {"absent", "ready"} /\ Phase(row) = "waiting"

Answers(c) ==
  \E row \in Row :
    /\ Moved(c, row, Append(turns[c], Reply(Len(turns[c]))))
    /\ Phase(conversation[c]) = "waiting" /\ Phase(row) = "ready"

AsksAnswered(c) ==
  \E row \in Row, s \in Maybe(Submissions, NoSubmission) :
    /\ Moved(c, row, Append(Append(turns[c], Said(s)), Reply(Len(turns[c]) + 1)))
    /\ Phase(conversation[c]) = "ready" /\ Phase(row) = "ready"

Quiets(c) ==
  \E row \in Row :
    /\ conversation' = [conversation EXCEPT ![c] = row] /\ UNCHANGED turns
    /\ \/ Phase(row) = Phase(conversation[c]) /\ Phase(row) # "closed"
       \/ row = conversation[c]
       \/ Phase(conversation[c]) = "waiting" /\ Phase(row) = "ready"
       \/ Phase(conversation[c]) \in {"ready", "waiting"} /\ Phase(row) = "closed"

Replaces(c, d) ==
  \E row, new \in Row :
    /\ c # d /\ UNCHANGED turns
    /\ conversation' = [conversation EXCEPT ![c] = row, ![d] = new]
    /\ \/ Phase(conversation[c]) \in {"ready", "waiting"} /\ Phase(row) = "closed"
       \/ row = conversation[c]
    /\ Phase(conversation[d]) = "absent" /\ Phase(new) = "ready"

Moves ==
  \/ UNCHANGED <<conversation, turns>>
  \/ \E c \in Conversations : Asks(c) \/ Answers(c) \/ AsksAnswered(c) \/ Quiets(c)
  \/ \E c, d \in Conversations : Replaces(c, d)

(* The phase of a row before and after a page refreshes it.                 *)
LEMMA RefreshPhase ==
  ASSUME AssistantAssumption, NEW row \in Row, row.token # 0 => row.status = "open"
  PROVE  LET new == RefreshLifecycle(row) IN
         /\ new \in Row
         /\ new.status = "open" /\ new.token # 0 => new = row
         /\ new.status = "open" /\ new.token = 0 => Phase(row) = "ready"
         /\ \/ new = row
            \/ Phase(new) = Phase(row) /\ Phase(new) # "closed"
            \/ Phase(row) = "waiting" /\ Phase(new) = "ready"
            \/ Phase(row) \in {"ready", "waiting"} /\ Phase(new) = "closed"
<1> DEFINE r == Released(row)
           q == Outdated(r)
           new == RefreshLifecycle(row)
<1>1. /\ new \in Row
      /\ new.token = 0 /\ new.status = "open" => row.token = 0 \/ row.expired
      /\ row.status # "open" => new = row
      /\ new.status \in {row.status, "expired", "stale"}
  BY RefreshFacts
<1>2. CASE row.status # "open"
  BY <1>1, <1>2
<1>3. CASE row.status = "open"
  <2>1. new = q
    BY <1>3 DEF RefreshLifecycle
  <2>2. r.status = "open" /\ (r.token # 0 => r = row) /\ r \in Row
    <3>1. /\ r \in Row /\ r.status = row.status
          /\ r.token # 0 => r.token = row.token /\ ~row.expired
      BY ReleasedFacts
    <3>2. r = row \/ row.expired
      BY DEF Released
    <3> HIDE DEF r
    <3>3. r.token # 0 => r = row
      BY <3>1, <3>2
    <3> QED BY <1>3, <3>1, <3>3
  <2>3. \/ q = r
        \/ q.status \in {"expired", "stale"}
    <3>1. q = r \/ \E s \in {"expired", "stale"} : q = Closed(r, s)
      BY DEF Outdated
    <3>2. \A s \in {"expired", "stale"} : Closed(r, s).status = s
      BY <2>2, ClosedFacts
    <3> QED BY <3>1, <3>2
  <2> HIDE DEF new, q, r
  <2>4. Phase(row) \in {"ready", "waiting"}
    BY <1>3 DEF Phase
  <2>5. CASE q = r
    <3>1. CASE r.token # 0
      BY <1>1, <2>1, <2>2, <2>5, <3>1 DEF new
    <3>2. CASE r.token = 0
      <4>1. new.status = "open" /\ new.token = 0
        BY <2>1, <2>2, <2>5, <3>2
      <4>2. Phase(new) = "ready"
        BY <4>1 DEF Phase
      <4>3. Phase(row) = "ready"
        BY <1>1, <1>3, <4>1 DEF Phase
      <4> QED BY <1>1, <4>1, <4>2, <4>3 DEF new
    <3> QED BY <3>1, <3>2
  <2>6. CASE q.status \in {"expired", "stale"}
    <3>1. Phase(new) = "closed" /\ new.status # "open"
      BY <2>1, <2>6 DEF Phase
    <3> QED BY <1>1, <2>4, <3>1 DEF new
  <2> QED BY <2>3, <2>5, <2>6
<1> QED BY <1>2, <1>3

LEMMA AskingMoves ==
  ASSUME AssistantAssumption, IInv, NEW c \in Conversations,
         NEW s \in Maybe(Submissions, NoSubmission),
         Start(c, s) \/ BeginExisting(c, s) \/ FollowUp(c, s)
  PROVE  Asks(c)
<1> DEFINE row == RefreshLifecycle(conversation[c])
<1>1. conversation[c] \in Row /\ (conversation[c].token # 0 => conversation[c].status = "open")
  BY OneConversation
<1>2. row \in Row /\ (row.status = "open" /\ row.token = 0 => Phase(conversation[c]) = "ready")
  BY <1>1, RefreshPhase
<1>3. ASSUME NEW base \in Row, base.status = "open", BeginProcessing(c, base, s),
             Phase(conversation[c]) \in {"absent", "ready"}
      PROVE  Asks(c)
  <2> DEFINE n == base.revision + 1
             q == Processing(base, n)
  <2>1. /\ n \in 0..MaxQuestions /\ n # 0
        /\ conversation' = [conversation EXCEPT ![c] = q]
        /\ turns' = [turns EXCEPT ![c] = Append(turns[c], Said(s))]
    BY <1>3 DEF BeginProcessing, Row, AssistantAssumption
  <2>2. q \in Row /\ q.token = n /\ ~q.expired /\ q.status = "open"
    BY <1>3, <2>1, TokenRowFacts
  <2> HIDE DEF q, n
  <2>3. Phase(q) = "waiting"
    BY <2>1, <2>2 DEF Phase
  <2> QED BY <1>3, <2>1, <2>2, <2>3 DEF Asks, Moved
<1>4. CASE Start(c, s)
  <2>1. Phase(conversation[c]) = "absent" /\ BeginProcessing(c, NewRow(s), s)
    BY <1>4 DEF Start, Exists, Phase
  <2>2. NewRow(s) \in Row /\ NewRow(s).status = "open"
    BY NewRowFacts DEF IInv
  <2> QED BY <1>3, <2>1, <2>2
<1>5. CASE BeginExisting(c, s)
  <2> DEFINE mine == [row EXCEPT !.start = s]
  <2>1. row.status = "open" /\ row.token = 0 /\ BeginProcessing(c, mine, s)
    BY <1>5 DEF BeginExisting, Ready
  <2> HIDE DEF row
  <2>2. mine \in Row
    BY <1>2, ZenonT(60) DEF Row
  <2>3. mine.status = "open"
    BY <1>2, <2>1 DEF Row
  <2> HIDE DEF mine
  <2> QED BY <1>2, <1>3, <2>1, <2>2, <2>3
<1>6. CASE FollowUp(c, s)
  <2> DEFINE mine == [row EXCEPT !.selected = FALSE]
  <2>1. row.status = "open" /\ row.token = 0 /\ BeginProcessing(c, mine, s)
    BY <1>6 DEF FollowUp, Ready
  <2> HIDE DEF row
  <2>2. mine \in Row
    BY <1>2, ZenonT(60) DEF Row
  <2>3. mine.status = "open"
    BY <1>2, <2>1 DEF Row
  <2> HIDE DEF mine
  <2> QED BY <1>2, <1>3, <2>1, <2>2, <2>3
<1> QED BY <1>4, <1>5, <1>6

LEMMA AnswerMoves ==
  ASSUME AssistantAssumption, IInv, NEW k \in calls,
         NEW p \in {"unclear", "choice", "clear"}, StoreInterpretation(k, p)
  PROVE  Answers(k.of)
<1> DEFINE c   == k.of
           row == RefreshLifecycle(conversation[c])
           q   == Interpreted(row, p)
<1>1. c \in Conversations /\ k.token # 0
  BY DEF IInv, TypeOK, Call
<1>2. conversation[c] \in Row /\ (conversation[c].token # 0 => conversation[c].status = "open")
  BY <1>1, OneConversation
<1>3. row.status = "open" /\ row.token = k.token
  BY DEF StoreInterpretation
<1>4. row \in Row /\ row = conversation[c] /\ ~conversation[c].expired
  <2>1. row \in Row /\ row = conversation[c]
    BY <1>1, <1>2, <1>3, RefreshPhase
  <2>2. ~conversation[c].expired
    BY <1>1, <1>2, <1>3, RefreshFacts
  <2> QED BY <2>1, <2>2
<1>5. Phase(conversation[c]) = "waiting"
  BY <1>1, <1>3, <1>4 DEF Phase
<1>6. q \in Row /\ q.token = 0 /\ q.status = "open"
  BY <1>3, <1>4, AnsweredRowFacts
<1>7. k.turn = Len(turns[c])
  BY <1>1, <1>3, <1>4 DEF IInv, CallsCurrent
<1>8. Moved(c, q, Append(turns[c], Reply(Len(turns[c]))))
  BY <1>7 DEF StoreInterpretation, Moved
<1> HIDE DEF q
<1>9. Phase(q) = "ready"
  BY <1>6 DEF Phase
<1> QED BY <1>5, <1>6, <1>8, <1>9 DEF Answers

LEMMA CandidateMoves ==
  ASSUME AssistantAssumption, IInv, NEW c \in Conversations,
         NEW s \in Maybe(Submissions, NoSubmission), CandidateFollowUp(c, s)
  PROVE  AsksAnswered(c)
<1> DEFINE row == RefreshLifecycle(conversation[c])
           q   == Selecting(row)
<1>1. conversation[c] \in Row /\ (conversation[c].token # 0 => conversation[c].status = "open")
  BY OneConversation
<1>2. row.status = "open" /\ row.token = 0
  BY DEF CandidateFollowUp, Ready
<1>3. row \in Row /\ Phase(conversation[c]) = "ready"
  BY <1>1, <1>2, RefreshPhase
<1>4. q \in Row /\ q.token = 0 /\ q.status = "open"
  BY <1>2, <1>3, SelectedRowFacts
<1>5. Moved(c, q, Append(Append(turns[c], Said(s)), Reply(Len(turns[c]) + 1)))
  BY DEF CandidateFollowUp, Moved, IInv, TypeOK
<1> HIDE DEF q
<1>6. Phase(q) = "ready"
  BY <1>4 DEF Phase
<1> QED BY <1>3, <1>4, <1>5, <1>6 DEF AsksAnswered

LEMMA RefreshMoves ==
  ASSUME AssistantAssumption, IInv, NEW c \in Conversations,
         conversation' = [conversation EXCEPT ![c] = RefreshLifecycle(conversation[c])],
         UNCHANGED turns
  PROVE  Quiets(c)
<1>1. conversation[c] \in Row /\ (conversation[c].token # 0 => conversation[c].status = "open")
  BY OneConversation
<1> QED BY <1>1, RefreshPhase DEF Quiets

LEMMA CloseMoves ==
  ASSUME AssistantAssumption, IInv, NEW c \in Conversations, Open(c),
         NEW row \in Row, row.status \notin {"absent", "open"},
         conversation' = [conversation EXCEPT ![c] = row],
         UNCHANGED turns
  PROVE  Quiets(c)
<1>1. Phase(conversation[c]) \in {"ready", "waiting"} /\ Phase(row) = "closed"
  BY DEF Open, Phase
<1> QED BY <1>1 DEF Quiets

LEMMA StartOverMoves ==
  ASSUME AssistantAssumption, IInv, NEW c \in Conversations, NEW d \in Conversations,
         StartOver(c, d)
  PROVE  Replaces(c, d)
<1> DEFINE old == IF conversation[c].status = "open"
                  THEN Closed(conversation[c], "cancelled") ELSE conversation[c]
           new == NewRow(NoSubmission)
<1>1. /\ conversation' = [conversation EXCEPT ![c] = old, ![d] = new]
      /\ Exists(c) /\ ~Exists(d) /\ c # d /\ UNCHANGED turns
  BY DEF StartOver, Exists
<1>2. conversation[c] \in Row
  BY OneConversation
<1>3. new \in Row /\ new.token = 0 /\ new.status = "open"
  BY NewRowFacts DEF IInv, Maybe
<1>4. \/ old = conversation[c] /\ old \in Row
      \/ /\ old \in Row /\ Phase(conversation[c]) \in {"ready", "waiting"}
         /\ Phase(old) = "closed"
  <2>1. CASE conversation[c].status = "open"
    <3>1. old \in Row /\ old.status = "cancelled"
      BY <1>2, <2>1, ClosedFacts
    <3>2. Phase(conversation[c]) \in {"ready", "waiting"}
      BY <2>1 DEF Phase
    <3> HIDE DEF old
    <3> QED BY <3>1, <3>2 DEF Phase
  <2>2. CASE conversation[c].status # "open"
    BY <1>2, <2>2
  <2> QED BY <2>1, <2>2
<1> HIDE DEF old, new
<1>5. Phase(new) = "ready" /\ Phase(conversation[d]) = "absent"
  BY <1>1, <1>3 DEF Phase, Exists
<1> QED BY <1>1, <1>3, <1>4, <1>5 DEF Replaces

LEMMA NextMoves ==
  ASSUME AssistantAssumption, IInv, Next
  PROVE  Moves
<1>1. ASSUME NEW c \in Conversations, Conversing(c)
      PROVE  Moves
  <2>1. CASE \E s \in Maybe(Submissions, NoSubmission) :
               Start(c, s) \/ BeginExisting(c, s) \/ FollowUp(c, s)
    BY <2>1, AskingMoves DEF Moves
  <2>2. CASE \E s \in Maybe(Submissions, NoSubmission) : CandidateFollowUp(c, s)
    BY <2>2, CandidateMoves DEF Moves
  <2>3. CASE Refresh(c) \/ \E s \in Maybe(Submissions, NoSubmission) : Resubmit(c, s)
    BY <2>3, RefreshMoves DEF Moves, Refresh, Resubmit
  <2>4. CASE Cancel(c)
    <3>1. /\ conversation' =
               [conversation EXCEPT ![c] = Closed(conversation[c], "cancelled")]
          /\ Open(c) /\ UNCHANGED turns
      BY <2>4 DEF Cancel, Open
    <3>2. /\ Closed(conversation[c], "cancelled") \in Row
          /\ Closed(conversation[c], "cancelled").status = "cancelled"
      BY OneConversation, ClosedFacts
    <3> QED BY <3>1, <3>2, CloseMoves DEF Moves
  <2>5. CASE \E d \in Conversations : StartOver(c, d)
    BY <2>5, StartOverMoves DEF Moves
  <2> QED BY <1>1, <2>1, <2>2, <2>3, <2>4, <2>5 DEF Conversing
<1>2. ASSUME NEW c \in Conversations, Drafting(c)
      PROVE  Moves
  <2>1. CASE CheckDraft(c) \/ AbortDraft(c)
    BY <2>1 DEF CheckDraft, AbortDraft, Moves
  <2>2. CASE CloneDraft(c)
    <3> DEFINE closed == Closed(conversation[c], "resolved")
               row    == [closed EXCEPT !.source = drafting[c], !.clone = active]
    <3>1. closed \in Row /\ closed.status = "resolved"
      BY OneConversation, ClosedFacts
    <3>2. /\ drafting[c] \in Maybe(Versions, NoVersion)
          /\ active \in Maybe(Versions, NoVersion)
      BY DEF IInv, TypeOK
    <3>3. /\ conversation' = [conversation EXCEPT ![c] = row] /\ UNCHANGED turns
          /\ Open(c)
      BY <2>2 DEF CloneDraft, IInv, LocksOpen
    <3> HIDE DEF closed
    <3>4. row \in Row
      BY <3>1, <3>2, ZenonT(60) DEF Row
    <3>5. row.status = "resolved"
      BY <3>1 DEF Row
    <3> HIDE DEF row
    <3> QED BY <3>3, <3>4, <3>5, CloseMoves DEF Moves
  <2> QED BY <1>2, <2>1, <2>2 DEF Drafting
<1>3. ASSUME NEW c \in Conversations, DeadlinePasses(c) \/ TimeToLivePasses(c)
      PROVE  Quiets(c)
  <2> DEFINE late == [conversation[c] EXCEPT !.expired = TRUE]
             idle == [conversation[c] EXCEPT !.idle = TRUE]
  <2>1. /\ conversation[c] \in Row /\ conversation[c].status = "open"
        /\ UNCHANGED turns
    BY <1>3, OneConversation
       DEF DeadlinePasses, TimeToLivePasses, IInv, TokensInOrder, Open
  <2>2. CASE DeadlinePasses(c)
    <3>1. /\ conversation' = [conversation EXCEPT ![c] = late]
          /\ conversation[c].token # 0 /\ ~conversation[c].expired
      BY <2>2 DEF DeadlinePasses
    <3>2. late \in Row /\ late.status = "open" /\ late.expired
      BY <2>1 DEF Row
    <3> HIDE DEF late
    <3>3. Phase(conversation[c]) = "waiting" /\ Phase(late) = "ready"
      BY <2>1, <3>1, <3>2 DEF Phase
    <3> QED BY <2>1, <3>1, <3>2, <3>3 DEF Quiets
  <2>3. CASE TimeToLivePasses(c)
    <3>1. conversation' = [conversation EXCEPT ![c] = idle]
      BY <2>3 DEF TimeToLivePasses
    <3>2. /\ idle \in Row /\ idle.status = "open"
          /\ idle.expired = conversation[c].expired
          /\ idle.token = conversation[c].token
      BY <2>1 DEF Row
    <3> HIDE DEF idle
    <3>3. Phase(idle) = Phase(conversation[c]) /\ Phase(idle) # "closed"
      BY <2>1, <3>2 DEF Phase
    <3> QED BY <2>1, <3>1, <3>2, <3>3 DEF Quiets
  <2> QED BY <1>3, <2>2, <2>3
<1>4. ASSUME NEW k \in calls, Interpreting(k)
      PROVE  Moves
  <2>1. k.of \in Conversations
    BY DEF IInv, TypeOK, Call
  <2>2. CASE \E p \in {"unclear", "choice", "clear"} : StoreInterpretation(k, p)
    BY <2>1, <2>2, AnswerMoves DEF Moves
  <2>3. CASE AnswerClosed(k)
    <3>1. /\ conversation' =
               [conversation EXCEPT ![k.of] = RefreshLifecycle(conversation[k.of])]
          /\ UNCHANGED turns
      BY <2>3 DEF AnswerClosed
    <3> QED BY <2>1, <3>1, RefreshMoves DEF Moves
  <2>4. CASE AnswerLost(k)
    BY <2>4 DEF AnswerLost, Moves
  <2> QED BY <1>4, <2>2, <2>3, <2>4 DEF Interpreting
<1>5. ASSUME NEW v \in Maybe(Versions, NoVersion), ChangeActive(v)
      PROVE  Moves
  BY <1>5 DEF ChangeActive, Moves
<1> QED BY <1>1, <1>2, <1>3, <1>4, <1>5 DEF Next, Moves

(* What is final is final.                                                  *)
LEMMA FinalStep ==
  ASSUME AssistantAssumption, IInv, [Next]_vars
  PROVE  \A c \in Conversations : Exists(c) /\ ~Open(c) =>
           conversation'[c] = conversation[c] /\ turns'[c] = turns[c]
<1> SUFFICES ASSUME NEW c \in Conversations, Exists(c), ~Open(c)
             PROVE  conversation'[c] = conversation[c] /\ turns'[c] = turns[c]
  OBVIOUS
<1>1. Phase(conversation[c]) = "closed"
  BY DEF Exists, Open, Phase
<1>2. Moves
  <2>1. CASE Next
    BY <2>1, NextMoves
  <2>2. CASE UNCHANGED vars
    BY <2>2 DEF Moves, vars
  <2> QED BY <2>1, <2>2
<1>3. CASE UNCHANGED <<conversation, turns>>
  BY <1>3
<1>4. CASE \E d \in Conversations : Asks(d) \/ Answers(d) \/ AsksAnswered(d)
  <2>1. PICK d \in Conversations :
          /\ Phase(conversation[d]) # "closed"
          /\ \E row, log : Moved(d, row, log)
    BY <1>4 DEF Asks, Answers, AsksAnswered
  <2> QED BY <1>1, <2>1 DEF Moved, IInv, TypeOK
<1>5. CASE \E d \in Conversations : Quiets(d)
  <2>1. PICK d \in Conversations, row \in Row :
          /\ conversation' = [conversation EXCEPT ![d] = row] /\ UNCHANGED turns
          /\ row = conversation[d] \/ Phase(conversation[d]) # "closed"
    BY <1>5 DEF Quiets
  <2> QED BY <1>1, <2>1 DEF IInv, TypeOK
<1>6. CASE \E d, e \in Conversations : Replaces(d, e)
  <2>0. PICK d \in Conversations, e \in Conversations : Replaces(d, e)
    BY <1>6
  <2>1. PICK row \in Row, new \in Row :
          /\ d # e /\ UNCHANGED turns
          /\ conversation' = [conversation EXCEPT ![d] = row, ![e] = new]
          /\ row = conversation[d] \/ Phase(conversation[d]) # "closed"
          /\ Phase(conversation[e]) # "closed"
    BY <2>0 DEF Replaces
  <2> QED BY <1>1, <2>1 DEF IInv, TypeOK
<1> QED BY <1>2, <1>3, <1>4, <1>5, <1>6 DEF Moves

(* The log of the dialogue that the turns stand for.                        *)
Heard(log) == [i \in DOMAIN log |-> Spoken(log[i])]

LEMMA HeardAppend ==
  ASSUME AssistantAssumption, NEW log \in Seq(Turn), NEW turn \in Turn
  PROVE  Heard(Append(log, turn)) = Append(Heard(log), Spoken(turn))
<1> DEFINE n == Len(log)
           old == Heard(log)
           new == Heard(Append(log, turn))
<1>1. /\ Append(log, turn) \in Seq(Turn) /\ n \in Nat
      /\ DOMAIN Append(log, turn) = 1..(n + 1) /\ DOMAIN log = 1..n
      /\ Append(log, turn)[n + 1] = turn
      /\ \A i \in 1..n : Append(log, turn)[i] = log[i]
  BY AppendTurn
<1>2. \A t \in Turn : Spoken(t) \in {Spoken(u) : u \in Turn}
  OBVIOUS
<1>3. \A i \in 1..n : log[i] \in Turn
  BY <1>1, ElementOfSeq
<1> DEFINE E == {Spoken(u) : u \in Turn}
<1>4. old = [i \in 1..n |-> Spoken(log[i])] /\ old \in Seq(E) /\ Len(old) = n
  <2>1. old = [i \in 1..n |-> Spoken(log[i])]
    BY <1>1 DEF Heard
  <2>2. old \in [1..n -> E]
    BY <1>2, <1>3, <2>1
  <2> HIDE DEF old, E
  <2> QED BY <1>1, <2>1, <2>2, IsASeq, LenProperties
<1>5. /\ new = [i \in 1..(n + 1) |-> Spoken(Append(log, turn)[i])]
      /\ new \in Seq(E) /\ Len(new) = n + 1
  <2>1. new = [i \in 1..(n + 1) |-> Spoken(Append(log, turn)[i])]
    BY <1>1 DEF Heard
  <2>2. \A i \in 1..(n + 1) : Append(log, turn)[i] \in Turn
    BY <1>1, <1>3
  <2>3. new \in [1..(n + 1) -> E]
    BY <1>2, <2>1, <2>2
  <2> HIDE DEF new, E
  <2> QED BY <1>1, <2>1, <2>3, IsASeq, LenProperties
<1> HIDE DEF old, new, E
<1>6. /\ Append(old, Spoken(turn)) \in Seq(E)
      /\ Len(Append(old, Spoken(turn))) = n + 1
      /\ \A i \in 1..n : Append(old, Spoken(turn))[i] = old[i]
      /\ Append(old, Spoken(turn))[n + 1] = Spoken(turn)
  <2>1. Spoken(turn) \in E
    BY <1>2 DEF E
  <2> QED BY <1>4, <2>1, AppendProperties
<1>7. \A i \in 1..(n + 1) : new[i] = Append(old, Spoken(turn))[i]
  BY <1>1, <1>4, <1>5, <1>6
<1>8. new = Append(old, Spoken(turn))
  BY <1>5, <1>6, <1>7, SeqEqual
<1> QED BY <1>8 DEF old, new

Phases == [c \in Conversations |-> Phase(conversation[c])]
Logs   == [c \in Conversations |-> Heard(turns[c])]

(* The mapped variables change where the rows and turns do.                 *)
LEMMA MappedMove ==
  ASSUME IInv, NEW c \in Conversations, NEW row, NEW log, Moved(c, row, log)
  PROVE  /\ Phases' = [Phases EXCEPT ![c] = Phase(row)]
         /\ Logs' = [Logs EXCEPT ![c] = Heard(log)]
<1>1. /\ conversation' \in [Conversations -> {conversation'[d] : d \in Conversations}]
      /\ conversation'[c] = row /\ turns'[c] = log
      /\ \A d \in Conversations \ {c} :
           conversation'[d] = conversation[d] /\ turns'[d] = turns[d]
  BY DEF Moved, IInv, TypeOK
<1> QED BY <1>1 DEF Phases, Logs

LEMMA SpokenTurns ==
  ASSUME NEW s, NEW n
  PROVE  Spoken(Said(s)) = D!Question /\ Spoken(Reply(n)) = D!AnswerTo(n)
BY DEF Spoken, Said, Reply, D!Question, D!AnswerTo

(* Steps of the dialogue, over the mapped variables by name.                *)
LEMMA DialogueInit ==
  ASSUME AssistantAssumption, Init
  PROVE  D!Init
BY DEF Init, D!Init, NoRow, Phase

LEMMA DialogueStep ==
  ASSUME AssistantAssumption, IInv, [Next]_vars
  PROVE  D!Next \/ UNCHANGED D!dialogue
<1>1. Moves
  <2>1. CASE Next
    BY <2>1, NextMoves
  <2>2. CASE UNCHANGED vars
    BY <2>2 DEF Moves, vars
  <2> QED BY <2>1, <2>2
<1>2. /\ Phases = [c \in Conversations |-> Phase(conversation[c])]
      /\ Logs = [c \in Conversations |-> [i \in DOMAIN turns[c] |-> Spoken(turns[c][i])]]
      /\ Phases' = [c \in Conversations |-> Phase(conversation'[c])]
      /\ Logs' = [c \in Conversations |-> [i \in DOMAIN turns'[c] |-> Spoken(turns'[c][i])]]
  BY DEF Phases, Logs, Heard
<1>3. ASSUME NEW c \in Conversations
      PROVE  /\ Phases[c] = Phase(conversation[c]) /\ Logs[c] = Heard(turns[c])
             /\ turns[c] \in Seq(Turn) /\ Len(Heard(turns[c])) = Len(turns[c])
  <2>1. turns[c] \in Seq(Turn)
    BY DEF IInv, TypeOK
  <2>2. Len(Heard(turns[c])) = Len(turns[c])
    BY <2>1, LenProperties DEF Heard
  <2> QED BY <2>1, <2>2 DEF Phases, Logs
<1>4. ASSUME NEW c \in Conversations, Asks(c)
      PROVE  D!Begin(c) \/ D!Ask(c)
  <2>1. PICK row \in Row, s \in Maybe(Submissions, NoSubmission) :
          /\ Moved(c, row, Append(turns[c], Said(s)))
          /\ Phase(conversation[c]) \in {"absent", "ready"} /\ Phase(row) = "waiting"
    BY <1>4 DEF Asks
  <2>2. Said(s) \in Turn
    BY DEF Said, Turn, AssistantAssumption
  <2>3. Phases' = [Phases EXCEPT ![c] = "waiting"] /\ Phases[c] \in {"absent", "ready"}
    BY <1>3, <2>1, MappedMove
  <2>4. Heard(Append(turns[c], Said(s))) = Append(Logs[c], D!Question)
    BY <1>3, <2>2, HeardAppend, SpokenTurns
  <2>5. Logs' = [Logs EXCEPT ![c] = Append(Logs[c], D!Question)]
    BY <2>1, <2>4, MappedMove
  <2> QED BY <1>2, <2>3, <2>5 DEF D!Begin, D!Ask
<1>5. ASSUME NEW c \in Conversations, Answers(c)
      PROVE  D!Answer(c)
  <2>1. PICK row \in Row :
          /\ Moved(c, row, Append(turns[c], Reply(Len(turns[c]))))
          /\ Phase(conversation[c]) = "waiting" /\ Phase(row) = "ready"
    BY <1>5 DEF Answers
  <2>2. Reply(Len(turns[c])) \in Turn
    <3>1. Len(turns[c]) \in 0..TurnLimit
      BY <1>3, LenProperties DEF IInv, TurnsFit, AssistantAssumption
    <3> QED BY <3>1 DEF Reply, Turn, Maybe
  <2>3. Phases' = [Phases EXCEPT ![c] = "ready"] /\ Phases[c] = "waiting"
    BY <1>3, <2>1, MappedMove
  <2>4. Heard(Append(turns[c], Reply(Len(turns[c]))))
          = Append(Logs[c], D!AnswerTo(Len(Logs[c])))
    BY <1>3, <2>2, HeardAppend, SpokenTurns
  <2>5. Logs' = [Logs EXCEPT ![c] = Append(Logs[c], D!AnswerTo(Len(Logs[c])))]
    BY <2>1, <2>4, MappedMove
  <2> QED BY <1>2, <2>3, <2>5 DEF D!Answer
<1>6. ASSUME NEW c \in Conversations, AsksAnswered(c)
      PROVE  D!AskAnswered(c)
  <2> DEFINE n == Len(turns[c])
  <2>1. PICK row \in Row, s \in Maybe(Submissions, NoSubmission) :
          /\ Moved(c, row, Append(Append(turns[c], Said(s)), Reply(n + 1)))
          /\ Phase(conversation[c]) = "ready" /\ Phase(row) = "ready"
    BY <1>6 DEF AsksAnswered
  <2>2. /\ Said(s) \in Turn /\ Append(turns[c], Said(s)) \in Seq(Turn)
        /\ Len(Append(turns[c], Said(s))) = n + 1
    <3>1. Said(s) \in Turn
      BY DEF Said, Turn, AssistantAssumption
    <3> QED BY <1>3, <3>1, AppendProperties
  <2>3. Reply(n + 1) \in Turn
    <3>1. n + 1 \in 0..TurnLimit
      <4>1. /\ turns'[c] = Append(Append(turns[c], Said(s)), Reply(n + 1))
            /\ Len(turns'[c]) <= TurnLimit
        BY <2>1, NextIInv DEF Moved, IInv, TypeOK, TurnsFit
      <4>2. n \in Nat
        BY <1>3, LenProperties
      <4>3. Len(turns'[c]) = n + 2
        BY <4>1, <4>2, <2>2
      <4> QED BY <4>1, <4>2, <4>3 DEF AssistantAssumption
    <3> QED BY <3>1 DEF Reply, Turn, Maybe
  <2>4. Heard(Append(Append(turns[c], Said(s)), Reply(n + 1)))
          = Append(Append(Heard(turns[c]), D!Question), D!AnswerTo(n + 1))
    <3>1. Heard(Append(turns[c], Said(s))) = Append(Heard(turns[c]), D!Question)
      BY <1>3, <2>2, HeardAppend, SpokenTurns
    <3>2. Heard(Append(Append(turns[c], Said(s)), Reply(n + 1)))
            = Append(Heard(Append(turns[c], Said(s))), D!AnswerTo(n + 1))
      BY <2>2, <2>3, HeardAppend, SpokenTurns
    <3> QED BY <3>1, <3>2
  <2>5. /\ Phases' = [Phases EXCEPT ![c] = "ready"]
        /\ Logs' = [Logs EXCEPT ![c] =
             Append(Append(Logs[c], D!Question), D!AnswerTo(Len(Logs[c]) + 1))]
        /\ Phases[c] = "ready"
    BY <1>3, <2>1, <2>4, MappedMove
  <2>6. Phases' = Phases
    BY <2>5 DEF Phases
  <2> QED BY <1>2, <2>5, <2>6 DEF D!AskAnswered
<1>7. ASSUME NEW c \in Conversations, Quiets(c)
      PROVE  D!GiveUp(c) \/ D!Close(c) \/ UNCHANGED D!dialogue
  <2>1. PICK row \in Row :
          /\ conversation' = [conversation EXCEPT ![c] = row] /\ UNCHANGED turns
          /\ \/ Phase(row) = Phase(conversation[c])
             \/ Phase(conversation[c]) = "waiting" /\ Phase(row) = "ready"
             \/ Phase(conversation[c]) \in {"ready", "waiting"} /\ Phase(row) = "closed"
    BY <1>7 DEF Quiets
  <2>2. /\ Phases' = [Phases EXCEPT ![c] = Phase(row)] /\ Logs' = Logs
    <3>1. Moved(c, row, turns[c])
      BY <2>1 DEF Moved, IInv, TypeOK
    <3>2. Logs' = Logs
      BY <2>1 DEF Logs
    <3> QED BY <3>1, <3>2, MappedMove
  <2>3. CASE Phase(row) = Phase(conversation[c])
    <3>1. Phases' = Phases
      BY <2>2, <2>3 DEF Phases
    <3> QED BY <1>2, <2>2, <3>1 DEF D!dialogue
  <2>4. CASE Phase(conversation[c]) = "waiting" /\ Phase(row) = "ready"
    BY <1>2, <1>3, <2>2, <2>4 DEF D!GiveUp
  <2>5. CASE Phase(conversation[c]) \in {"ready", "waiting"} /\ Phase(row) = "closed"
    BY <1>2, <1>3, <2>2, <2>5 DEF D!Close
  <2> QED BY <2>1, <2>3, <2>4, <2>5
<1>8. ASSUME NEW c \in Conversations, NEW d \in Conversations, Replaces(c, d)
      PROVE  D!Replace(c, d) \/ D!Begin(d)
  <2>1. PICK row \in Row, new \in Row :
          /\ c # d /\ UNCHANGED turns
          /\ conversation' = [conversation EXCEPT ![c] = row, ![d] = new]
          /\ \/ Phase(conversation[c]) \in {"ready", "waiting"} /\ Phase(row) = "closed"
             \/ row = conversation[c]
          /\ Phase(conversation[d]) = "absent" /\ Phase(new) = "ready"
    BY <1>8 DEF Replaces
  <2>2. /\ conversation'[c] = row /\ conversation'[d] = new
        /\ \A e \in Conversations \ {c, d} : conversation'[e] = conversation[e]
    BY <2>1 DEF IInv, TypeOK
  <2>3. Logs' = Logs /\ Phases[d] = "absent"
    BY <1>3, <2>1 DEF Logs
  <2>4. Phases' = [Phases EXCEPT ![c] = Phase(row), ![d] = "ready"]
    <3>1. ASSUME NEW e \in Conversations
          PROVE  Phases'[e] = IF e = d THEN "ready"
                              ELSE IF e = c THEN Phase(row) ELSE Phases[e]
      <4>1. Phases'[e] = Phase(conversation'[e]) /\ Phases[e] = Phase(conversation[e])
        BY DEF Phases
      <4>2. Phases'[c] = Phase(row) /\ Phases'[d] = "ready"
        BY <2>1, <2>2 DEF Phases
      <4>3. e \notin {c, d} => Phases'[e] = Phases[e]
        BY <2>2, <4>1
      <4> QED BY <2>1, <4>2, <4>3
    <3>2. Phases' = [e \in Conversations |-> Phases'[e]]
      BY DEF Phases
    <3>3. Phases = [e \in Conversations |-> Phases[e]]
      BY DEF Phases
    <3> QED BY <2>1, <3>1, <3>2, <3>3
  <2>5. CASE Phase(conversation[c]) \in {"ready", "waiting"} /\ Phase(row) = "closed"
    BY <1>2, <1>3, <2>3, <2>4, <2>5 DEF D!Replace
  <2>6. CASE row = conversation[c]
    <3>1. Phases' = [Phases EXCEPT ![d] = "ready"]
      <4>1. [Phases EXCEPT ![c] = Phase(row)] = Phases
        BY <1>3, <2>6 DEF Phases
      <4> QED BY <2>4, <4>1
    <3> QED BY <1>2, <2>3, <3>1 DEF D!Begin
  <2> QED BY <2>1, <2>5, <2>6
<1>9. CASE UNCHANGED <<conversation, turns>>
  <2>1. Phases' = Phases /\ Logs' = Logs
    BY <1>9 DEF Phases, Logs
  <2> QED BY <1>2, <2>1 DEF D!dialogue
<1> QED BY <1>1, <1>4, <1>5, <1>6, <1>7, <1>8, <1>9 DEF Moves, D!Next

(* A closed conversation is final: no late answer, page or deadline changes *)
(* what it holds.                                                           *)
THEOREM ClosedConversationsAreFinal == Spec => ClosedIsFinal
<1>1. IInv /\ [Next]_vars =>
        [\A c \in Conversations : Exists(c) /\ ~Open(c) =>
           conversation'[c] = conversation[c] /\ turns'[c] = turns[c]]_vars
  BY FinalStep, AssistantAssumption
<1> QED BY <1>1, AssistantInvariance, PTL DEF Spec, ClosedIsFinal

(* The assistant, with its tokens, deadlines and lost workers, implements   *)
(* the dialogue of module Dialogue.                                         *)
THEOREM AssistantIsDialogue == Spec => IsDialogue
<1>1. Init => D!Init
  BY DialogueInit, AssistantAssumption
<1>2. IInv /\ [Next]_vars => [D!Next]_(D!dialogue)
  BY DialogueStep, AssistantAssumption
<1> QED BY <1>1, <1>2, AssistantInvariance, PTL DEF Spec, IsDialogue, D!Spec

=============================================================================
