---------------------------- MODULE AskStewProofs ----------------------------
(* Theorems about AskStew for every value of its constants.                *)
EXTENDS AskStew, SequenceTheorems, FiniteSetTheorems, TLAPS

-----------------------------------------------------------------------------
(* The types                                                               *)

LEMMA LimitsNatural ==
  /\ DailyLimit \in Nat /\ Window \in Nat /\ WindowLimit \in Nat
  /\ MaxTime \in Nat /\ TurnLimit \in Nat \ {0}
BY AskStewAssumption

LEMMA TypeInit == Init => TypeOK
<1> SUFFICES ASSUME Init PROVE TypeOK
  OBVIOUS
<1>1. now \in Time /\ [status |-> "absent", updated |-> 0] \in Row
  BY AskStewAssumption DEF Init, Time, Row
<1>2. /\ issued \in [Submissions -> Time \cup {Never}]
      /\ turns \in [Conversations -> Seq(Turn)]
      /\ asks \subseteq Ask /\ events \subseteq Event
  BY DEF Init
<1> QED
  BY <1>1, <1>2 DEF Init, TypeOK

(* What a row at the end of a thread changes, and what it leaves.          *)
LEMMA AddedTurn ==
  ASSUME TypeOK, NEW c \in Conversations, NEW row \in Turn,
         turns' = [turns EXCEPT ![c] = Append(@, row)]
  PROVE  /\ turns' \in [Conversations -> Seq(Turn)]
         /\ \A d \in Conversations \ {c} : turns'[d] = turns[d]
         /\ Len(turns'[c]) = Len(turns[c]) + 1
         /\ turns'[c][Len(turns[c]) + 1] = row
         /\ \A i \in DOMAIN turns[c] : turns'[c][i] = turns[c][i]
<1>1. turns[c] \in Seq(Turn) /\ turns'[c] = Append(turns[c], row)
  BY DEF TypeOK
<1>2. turns' \in [Conversations -> Seq(Turn)]
  BY <1>1 DEF TypeOK
<1> QED
  BY <1>1, <1>2, AppendProperties DEF TypeOK

LEMMA AskedType ==
  ASSUME TypeOK, NEW s \in Submissions
  PROVE  Asked(s) \in Turn
BY DEF TypeOK, Asked, Turn, References, Time

LEMMA ReplyType ==
  ASSUME TypeOK, NEW place \in Nat
  PROVE  Reply(place) \in Turn
BY DEF TypeOK, Reply, Turn, References, Time

LEMMA ThreadLength ==
  ASSUME TypeOK, NEW c \in Conversations
  PROVE  /\ turns[c] \in Seq(Turn)
         /\ Len(turns[c]) \in Nat
         /\ DOMAIN turns[c] = 1..Len(turns[c])
         /\ \A i \in DOMAIN turns[c] : turns[c][i] \in Turn
         /\ Questions(c) \subseteq DOMAIN turns[c]
<1>1. turns[c] \in Seq(Turn)
  BY DEF TypeOK
<1> QED
  BY <1>1, LenProperties DEF Questions

LEMMA TodayType == TypeOK => Today \in Nat
<1> SUFFICES ASSUME TypeOK PROVE Today \in Nat
  OBVIOUS
<1>1. \A n \in Nat, m \in Nat \ {0} : n \div m \in Nat
  OBVIOUS
<1>2. now \in Nat
  BY LimitsNatural DEF TypeOK, Time
<1>3. DayLength \in Nat \ {0}
  BY AskStewAssumption
<1> QED
  BY <1>1, <1>2, <1>3, Zenon DEF Today

(* The calls of a day can be counted.                                      *)
CallsFinite == IsFiniteSet(events)

LEMMA CallsType ==
  ASSUME CallsFinite, NEW d
  PROVE  Calls(d) \in Nat
BY FS_Subset, FS_CardinalityType DEF CallsFinite, Calls

LEMMA ReservedType ==
  ASSUME TypeOK, CallsFinite, NEW s \in References
  PROVE  Reserved(s) \subseteq Event /\ IsFiniteSet(Reserved(s))
<1> DEFINE new == [reference |-> s, day |-> Today, number |-> Calls(Today) + 1]
<1>1. new \in Event
  BY TodayType, CallsType DEF Event
<1>2. IsFiniteSet(events \cup {new})
  BY FS_AddElement DEF CallsFinite
<1> QED
  BY <1>1, <1>2 DEF Reserved, TypeOK

LEMMA CallsFiniteNext ==
  ASSUME TypeOK, CallsFinite, [Next]_vars
  PROVE  CallsFinite'
<1>1. \/ UNCHANGED events
      \/ \E s \in References : events' = Reserved(s)
  BY DEF Next, vars, NewToken, PrepareSubmission, AuthorizeAttempt, CompleteSubmission,
         RequestFails, AssistantAttempt, PurgeConversations, Tick, TypeOK, Ask, References
<1> QED
  BY <1>1, ReservedType DEF CallsFinite

LEMMA TypeNext == TypeOK /\ CallsFinite /\ [Next]_vars => TypeOK'
<1> SUFFICES ASSUME TypeOK, CallsFinite, [Next]_vars PROVE TypeOK'
  OBVIOUS
<1>1. ASSUME NEW s \in Submissions, NewToken(s) PROVE TypeOK'
  BY <1>1 DEF NewToken, TypeOK
<1>2. ASSUME NEW s \in Submissions, NEW c \in Conversations, PrepareSubmission(s, c)
      PROVE  TypeOK'
  <2>1. turns' = [turns EXCEPT ![c] = Append(@, Asked(s))]
    BY <1>2 DEF PrepareSubmission
  <2>2. turns' \in [Conversations -> Seq(Turn)]
    BY <2>1, AskedType, AddedTurn
  <2>3. [of |-> c, turn |-> Len(turns[c]) + 1, submission |-> s, called |-> FALSE] \in Ask
    BY ThreadLength DEF Ask
  <2>4. asks' \subseteq Ask
    BY <1>2, <2>3 DEF PrepareSubmission, TypeOK
  <2>5. conversation' \in [Conversations -> Row]
    BY <1>2 DEF PrepareSubmission, TypeOK, Row
  <2> QED
    BY <1>2, <2>2, <2>4, <2>5 DEF PrepareSubmission, TypeOK
<1>3. ASSUME NEW q \in asks, AuthorizeAttempt(q) PROVE TypeOK'
  <2>1. [q EXCEPT !.called = TRUE] \in Ask
    BY DEF TypeOK, Ask
  <2>2. asks' \subseteq Ask
    BY <1>3, <2>1 DEF AuthorizeAttempt, TypeOK
  <2>3. events' \subseteq Event
    BY <1>3, ReservedType DEF AuthorizeAttempt, TypeOK, Ask, References
  <2> QED
    BY <1>3, <2>2, <2>3 DEF AuthorizeAttempt, TypeOK
<1>4. ASSUME NEW q \in asks, CompleteSubmission(q) PROVE TypeOK'
  <2>1. q \in Ask /\ q.of \in Conversations /\ q.turn \in Nat
    BY DEF TypeOK, Ask
  <2>2. CASE UNCHANGED <<conversation, turns>>
    BY <1>4, <2>2 DEF CompleteSubmission, TypeOK
  <2>3. CASE turns' = [turns EXCEPT ![q.of] = Append(@, Reply(q.turn))]
             /\ conversation' = [conversation EXCEPT ![q.of].updated = now]
    <3>1. turns' \in [Conversations -> Seq(Turn)]
      BY <2>1, <2>3, ReplyType, AddedTurn
    <3>2. conversation' \in [Conversations -> Row]
      BY <2>3 DEF TypeOK, Row
    <3> QED
      BY <1>4, <3>1, <3>2 DEF CompleteSubmission, TypeOK
  <2> QED
    BY <1>4, <2>2, <2>3 DEF CompleteSubmission
<1>5. ASSUME NEW q \in asks, RequestFails(q) PROVE TypeOK'
  BY <1>5 DEF RequestFails, TypeOK
<1>6. CASE AssistantAttempt
  BY <1>6, ReservedType DEF AssistantAttempt, TypeOK, References
<1>7. CASE PurgeConversations
  <2>1. conversation' \in [Conversations -> Row]
    BY <1>7 DEF PurgeConversations, TypeOK, Row
  <2>2. turns' \in [Conversations -> Seq(Turn)]
    BY <1>7 DEF PurgeConversations, TypeOK
  <2> QED
    BY <1>7, <2>1, <2>2 DEF PurgeConversations, TypeOK
<1>8. CASE Tick
  BY <1>8, AskStewAssumption DEF Tick, TypeOK, Time
<1>9. CASE UNCHANGED vars
  BY <1>9 DEF vars, TypeOK
<1> QED
  BY <1>1, <1>2, <1>3, <1>4, <1>5, <1>6, <1>7, <1>8, <1>9 DEF Next

LEMMA CallsFiniteInit == Init => CallsFinite
BY FS_EmptySet DEF Init, CallsFinite

(* Every variable keeps its type, whatever is asked, purged or lost.       *)
THEOREM TypeCorrect == Spec => []TypeOK
BY TypeInit, TypeNext, CallsFiniteInit, CallsFiniteNext, PTL DEF Spec

LEMMA CallsFiniteCorrect == Spec => []CallsFinite
BY TypeCorrect, CallsFiniteInit, CallsFiniteNext, PTL DEF Spec

-----------------------------------------------------------------------------
(* Provider calls                                                          *)

(* What a step writes to the table of calls.                               *)
LEMMA CallSteps ==
  ASSUME TypeOK, [Next]_vars
  PROVE  \/ UNCHANGED events
         \/ \E s \in References :
              /\ events' = Reserved(s)
              /\ Calls(Today) < DailyLimit
              /\ s \in Submissions => ~Called(s)
<1>1. ASSUME NEW q \in asks, AuthorizeAttempt(q)
      PROVE  /\ q.submission \in References /\ events' = Reserved(q.submission)
             /\ Calls(Today) < DailyLimit /\ ~Called(q.submission)
  BY <1>1 DEF AuthorizeAttempt, TypeOK, Ask, References
<1>2. CASE AssistantAttempt
  BY <1>2, AskStewAssumption DEF AssistantAttempt, References
<1>3. CASE UNCHANGED events
  BY <1>3
<1> QED
  BY <1>1, <1>2, <1>3
  DEF Next, vars, NewToken, PrepareSubmission, CompleteSubmission, RequestFails,
      PurgeConversations, Tick

LEMMA OneCallNext ==
  TypeOK /\ OneCallPerSubmission /\ [Next]_vars => OneCallPerSubmission'
<1> SUFFICES ASSUME TypeOK, OneCallPerSubmission, [Next]_vars
             PROVE  OneCallPerSubmission'
  OBVIOUS
<1>1. CASE UNCHANGED events
  BY <1>1 DEF OneCallPerSubmission
<1>2. ASSUME NEW s \in References, events' = Reserved(s), s \in Submissions => ~Called(s)
      PROVE  OneCallPerSubmission'
  <2> DEFINE new == [reference |-> s, day |-> Today, number |-> Calls(Today) + 1]
  <2>1. events' = events \cup {new} /\ new.reference = s
    BY <1>2 DEF Reserved
  <2>2. s \in Submissions => \A e \in events : e.reference # s
    BY <1>2 DEF Called
  <2> HIDE DEF new
  <2> QED
    BY <2>1, <2>2 DEF OneCallPerSubmission
<1> QED
  BY <1>1, <1>2, CallSteps

(* No form pays for two provider calls: the search for its reference and   *)
(* the write of the new call are one transaction, and calls are never      *)
(* forgotten, not even with the conversation they were made for.           *)
THEOREM OneCallCorrect == Spec => []OneCallPerSubmission
<1>1. Init => OneCallPerSubmission
  BY DEF Init, OneCallPerSubmission
<1> QED
  BY <1>1, OneCallNext, TypeCorrect, PTL DEF Spec

(* The first limit: the calls of a day.                                    *)
CallsFit == \A d \in Nat : Calls(d) <= DailyLimit

LEMMA CallsFitNext ==
  TypeOK /\ CallsFinite /\ CallsFit /\ [Next]_vars => CallsFit'
<1> SUFFICES ASSUME TypeOK, CallsFinite, CallsFit, [Next]_vars, NEW d \in Nat
             PROVE  Calls(d)' <= DailyLimit
  BY DEF CallsFit
<1>1. CASE UNCHANGED events
  BY <1>1 DEF CallsFit, Calls
<1>2. ASSUME NEW s \in References, events' = Reserved(s), Calls(Today) < DailyLimit
      PROVE  Calls(d)' <= DailyLimit
  <2> DEFINE new == [reference |-> s, day |-> Today, number |-> Calls(Today) + 1]
             old == {e \in events : e.day = d}
  <2>1. events' = events \cup {new} /\ new.day = Today
    BY <1>2 DEF Reserved
  <2>2. IsFiniteSet(old) /\ Cardinality(old) \in Nat
    BY FS_Subset, FS_CardinalityType DEF CallsFinite
  <2>3. Cardinality(old) <= DailyLimit /\ (d = Today => Cardinality(old) < DailyLimit)
    BY <1>2 DEF CallsFit, Calls
  <2> HIDE DEF new
  <2>4. CASE d = Today
    <3>1. {e \in events' : e.day = d} = old \cup {new}
      BY <2>1, <2>4
    <3>2. Cardinality(old \cup {new}) <= Cardinality(old) + 1
      BY <2>2, FS_AddElement
    <3>3. Cardinality(old \cup {new}) \in Nat
      BY <2>2, FS_AddElement, FS_CardinalityType
    <3>4. Calls(d)' = Cardinality(old \cup {new})
      BY <3>1 DEF Calls
    <3> HIDE DEF old
    <3> QED
      BY <3>2, <3>3, <3>4, <2>2, <2>3, <2>4, LimitsNatural
  <2>5. CASE d # Today
    BY <2>1, <2>3, <2>5 DEF Calls
  <2> QED
    BY <2>4, <2>5
<1> QED
  BY <1>1, <1>2, CallSteps

LEMMA CallsFitCorrect == Spec => []CallsFit
<1>1. Init => CallsFit
  <2> SUFFICES ASSUME Init, NEW d \in Nat PROVE Calls(d) <= DailyLimit
    BY DEF CallsFit
  <2>1. {e \in events : e.day = d} = {}
    BY DEF Init
  <2> QED
    BY <2>1, FS_EmptySet, AskStewAssumption DEF Calls
<1> QED
  BY <1>1, CallsFitNext, TypeCorrect, CallsFiniteCorrect, PTL DEF Spec

-----------------------------------------------------------------------------
(* Threads                                                                 *)

(* What a new question changes: one place more, and it is the question's.  *)
LEMMA NewQuestion ==
  ASSUME TypeOK, NEW s \in Submissions, NEW c \in Conversations, PrepareSubmission(s, c)
  PROVE  LET n == Len(turns[c]) + 1 IN
         /\ Len(turns'[c]) = n
         /\ turns'[c][n] = Asked(s)
         /\ \A i \in DOMAIN turns[c] : turns'[c][i] = turns[c][i]
         /\ \A d \in Conversations \ {c} : turns'[d] = turns[d]
         /\ DOMAIN turns'[c] = (DOMAIN turns[c]) \cup {n}
         /\ n \notin DOMAIN turns[c]
         /\ Questions(c)' = Questions(c) \cup {n}
         /\ \A d \in Conversations \ {c} : Questions(d)' = Questions(d)
<1> DEFINE n == Len(turns[c]) + 1
<1>1. /\ turns' \in [Conversations -> Seq(Turn)]
      /\ \A d \in Conversations \ {c} : turns'[d] = turns[d]
      /\ Len(turns'[c]) = n
      /\ turns'[c][n] = Asked(s)
      /\ \A i \in DOMAIN turns[c] : turns'[c][i] = turns[c][i]
  BY AddedTurn, AskedType DEF PrepareSubmission
<1>2. /\ DOMAIN turns[c] = 1..Len(turns[c]) /\ Len(turns[c]) \in Nat
      /\ DOMAIN turns'[c] = 1..n
  BY <1>1, ThreadLength, LenProperties
<1>3. DOMAIN turns'[c] = (DOMAIN turns[c]) \cup {n} /\ n \notin DOMAIN turns[c]
  BY <1>2
<1>4. Questions(c)' = Questions(c) \cup {n}
  BY <1>1, <1>3 DEF Questions, Asked
<1>5. \A d \in Conversations \ {c} : Questions(d)' = Questions(d)
  BY <1>1 DEF Questions
<1> QED
  BY <1>1, <1>3, <1>4, <1>5

(* What an answer changes, when it is stored.                              *)
LEMMA NewAnswer ==
  ASSUME TypeOK, NEW q \in asks, CompleteSubmission(q), ~Answered(q)
  PROVE  LET c == q.of
             n == Len(turns[c]) + 1
         IN
         /\ c \in Conversations /\ q.turn \in Nat
         /\ Len(turns'[c]) = n
         /\ turns'[c][n] = Reply(q.turn)
         /\ \A i \in DOMAIN turns[c] : turns'[c][i] = turns[c][i]
         /\ \A d \in Conversations \ {c} : turns'[d] = turns[d]
         /\ DOMAIN turns'[c] = (DOMAIN turns[c]) \cup {n}
         /\ n \notin DOMAIN turns[c]
         /\ \A d \in Conversations : Questions(d)' = Questions(d)
<1> DEFINE c == q.of
           n == Len(turns[c]) + 1
<1>1. c \in Conversations /\ q.turn \in Nat
  BY DEF TypeOK, Ask
<1>2. /\ turns' \in [Conversations -> Seq(Turn)]
      /\ \A d \in Conversations \ {c} : turns'[d] = turns[d]
      /\ Len(turns'[c]) = n
      /\ turns'[c][n] = Reply(q.turn)
      /\ \A i \in DOMAIN turns[c] : turns'[c][i] = turns[c][i]
  BY <1>1, AddedTurn, ReplyType DEF CompleteSubmission
<1>3. /\ DOMAIN turns[c] = 1..Len(turns[c]) /\ Len(turns[c]) \in Nat
      /\ DOMAIN turns'[c] = 1..n
  BY <1>1, <1>2, ThreadLength, LenProperties
<1>4. DOMAIN turns'[c] = (DOMAIN turns[c]) \cup {n} /\ n \notin DOMAIN turns[c]
  BY <1>3
<1>5. Questions(c)' = Questions(c)
  BY <1>2, <1>4 DEF Questions, Reply
<1>6. \A d \in Conversations \ {c} : Questions(d)' = Questions(d)
  BY <1>2 DEF Questions
<1> QED
  BY <1>1, <1>2, <1>4, <1>5, <1>6

(* What a purge changes: threads go as a whole.                            *)
LEMMA Purged ==
  ASSUME TypeOK, PurgeConversations
  PROVE  \A c \in Conversations :
           \/ /\ turns'[c] = turns[c] /\ conversation'[c] = conversation[c]
              /\ Questions(c)' = Questions(c)
           \/ /\ turns'[c] = << >> /\ DOMAIN turns'[c] = {} /\ Len(turns'[c]) = 0
              /\ conversation'[c].status = "purged"
              /\ Questions(c)' = {}
<1> SUFFICES ASSUME NEW c \in Conversations
             PROVE  \/ /\ turns'[c] = turns[c] /\ conversation'[c] = conversation[c]
                       /\ Questions(c)' = Questions(c)
                    \/ /\ turns'[c] = << >> /\ DOMAIN turns'[c] = {} /\ Len(turns'[c]) = 0
                       /\ conversation'[c].status = "purged"
                       /\ Questions(c)' = {}
  OBVIOUS
<1>1. CASE c \in Old
  <2>1. /\ turns'[c] = << >>
        /\ conversation'[c] = [conversation[c] EXCEPT !.status = "purged"]
    BY <1>1 DEF PurgeConversations
  <2>2. DOMAIN turns'[c] = {} /\ Len(turns'[c]) = 0
    BY <2>1
  <2>3. Questions(c)' = {}
    BY <2>2 DEF Questions
  <2> QED
    BY <2>1, <2>2, <2>3 DEF TypeOK, Row
<1>2. CASE c \notin Old
  BY <1>2 DEF PurgeConversations, Questions
<1> QED
  BY <1>1, <1>2

(* Every other step leaves the threads alone.                              *)
LEMMA ThreadSteps ==
  ASSUME TypeOK, [Next]_vars
  PROVE  \/ \E s \in Submissions, c \in Conversations : PrepareSubmission(s, c)
         \/ \E q \in asks : CompleteSubmission(q) /\ ~Answered(q)
         \/ PurgeConversations
         \/ /\ UNCHANGED <<conversation, turns>>
            /\ \A q \in asks' : \E p \in asks : p.of = q.of /\ p.turn = q.turn
<1>1. ASSUME NEW q \in asks, AuthorizeAttempt(q)
      PROVE  /\ UNCHANGED <<conversation, turns>>
             /\ \A r \in asks' : \E p \in asks : p.of = r.of /\ p.turn = r.turn
  BY <1>1 DEF AuthorizeAttempt, TypeOK, Ask
<1>2. ASSUME NEW q \in asks, CompleteSubmission(q), Answered(q)
      PROVE  UNCHANGED <<conversation, turns>> /\ asks' \subseteq asks
  BY <1>2 DEF CompleteSubmission
<1> QED
  BY <1>1, <1>2
  DEF Next, vars, NewToken, RequestFails, AssistantAttempt, Tick

(* A token stands in one place only.                                       *)
TokensOnce ==
  \A c, d \in Conversations : \A i \in Questions(c), j \in Questions(d) :
    turns[c][i].submission = turns[d][j].submission => <<c, i>> = <<d, j>>

(* Every answer is the only one to an earlier question of its thread.      *)
AnswersInPlace ==
  \A c \in Conversations : \A i, j \in DOMAIN turns[c] \ Questions(c) :
    /\ turns[c][i].replies \in Questions(c) /\ turns[c][i].replies < i
    /\ turns[c][i].replies = turns[c][j].replies => i = j

(* As long as its conversation is open a request finds its question.       *)
AsksStand ==
  \A q \in asks :
    /\ conversation[q.of].status # "absent"
    /\ conversation[q.of].status = "open" => q.turn \in Questions(q.of)

(* Threads keep room for an answer to every question in them.              *)
QuestionsFit == \A c \in Conversations : Cardinality(Questions(c)) <= TurnLimit - 1

LEMMA QuestionsFinite ==
  ASSUME TypeOK, NEW c \in Conversations
  PROVE  IsFiniteSet(Questions(c)) /\ Cardinality(Questions(c)) \in Nat
<1>1. IsFiniteSet(DOMAIN turns[c])
  BY ThreadLength, FS_Interval
<1> QED
  BY <1>1, ThreadLength, FS_Subset, FS_CardinalityType

LEMMA TokensOnceNext == TypeOK /\ TokensOnce /\ [Next]_vars => TokensOnce'
<1> SUFFICES ASSUME TypeOK, TokensOnce, [Next]_vars PROVE TokensOnce'
  OBVIOUS
<1>1. ASSUME NEW s \in Submissions, NEW c \in Conversations, PrepareSubmission(s, c)
      PROVE  TokensOnce'
  <2> DEFINE n == Len(turns[c]) + 1
  <2>1. \A d \in Conversations : \A i \in Questions(d) :
          turns'[d][i] = turns[d][i] /\ turns[d][i].submission # s
    <3>1. \A d \in Conversations : \A i \in Questions(d) : turns[d][i].submission # s
      BY <1>1 DEF PrepareSubmission, Submitted
    <3>2. \A d \in Conversations : \A i \in DOMAIN turns[d] : turns'[d][i] = turns[d][i]
      BY <1>1, NewQuestion
    <3> QED
      BY <3>1, <3>2 DEF Questions
  <2>2. /\ turns'[c][n].submission = s
        /\ Questions(c)' = Questions(c) \cup {n}
        /\ \A d \in Conversations \ {c} : Questions(d)' = Questions(d)
    BY <1>1, NewQuestion, Asked(s).submission = s DEF Asked
  <2> HIDE DEF n
  <2> QED
    BY <2>1, <2>2 DEF TokensOnce
<1>2. ASSUME NEW q \in asks, CompleteSubmission(q), ~Answered(q)
      PROVE  TokensOnce'
  <2>1. \A d \in Conversations :
          /\ Questions(d)' = Questions(d)
          /\ \A i \in Questions(d) : turns'[d][i] = turns[d][i]
    BY <1>2, NewAnswer DEF Questions
  <2> QED
    BY <2>1 DEF TokensOnce
<1>3. CASE PurgeConversations
  <2>1. \A d \in Conversations :
          /\ Questions(d)' \subseteq Questions(d)
          /\ \A i \in Questions(d)' : turns'[d][i] = turns[d][i]
    BY <1>3, Purged
  <2> QED
    BY <2>1 DEF TokensOnce
<1>4. CASE UNCHANGED turns
  BY <1>4 DEF TokensOnce, Questions
<1> QED
  BY <1>1, <1>2, <1>3, <1>4, ThreadSteps

LEMMA AsksStandNext == TypeOK /\ AsksStand /\ [Next]_vars => AsksStand'
<1> SUFFICES ASSUME TypeOK, AsksStand, [Next]_vars PROVE AsksStand'
  OBVIOUS
<1>1. ASSUME NEW s \in Submissions, NEW c \in Conversations, PrepareSubmission(s, c)
      PROVE  AsksStand'
  <2> DEFINE n == Len(turns[c]) + 1
  <2>1. /\ \A d \in Conversations : Questions(d) \subseteq Questions(d)'
        /\ n \in Questions(c)'
    BY <1>1, NewQuestion
  <2>2. /\ \A d \in Conversations \ {c} : conversation'[d] = conversation[d]
        /\ conversation'[c].status = "open"
        /\ conversation[c].status # "absent" => conversation[c].status = "open"
    BY <1>1 DEF PrepareSubmission, MayAsk, TypeOK, Row
  <2>3. \A q \in asks' : q \in asks \/ (q.of = c /\ q.turn = n)
    BY <1>1 DEF PrepareSubmission
  <2>4. \A q \in asks : q.of \in Conversations
    BY DEF TypeOK, Ask
  <2> HIDE DEF n
  <2> QED
    BY <2>1, <2>2, <2>3, <2>4 DEF AsksStand
<1>2. ASSUME NEW q \in asks, CompleteSubmission(q), ~Answered(q)
      PROVE  AsksStand'
  <2>1. asks' \subseteq asks /\ \A r \in asks : r.of \in Conversations
    BY <1>2 DEF CompleteSubmission, TypeOK, Ask
  <2>2. \A d \in Conversations :
          /\ Questions(d)' = Questions(d)
          /\ conversation'[d].status = conversation[d].status
    BY <1>2, NewAnswer DEF CompleteSubmission, TypeOK, Row
  <2> QED
    BY <2>1, <2>2 DEF AsksStand
<1>3. CASE PurgeConversations
  <2>1. asks' = asks /\ \A r \in asks : r.of \in Conversations
    BY <1>3 DEF PurgeConversations, TypeOK, Ask
  <2> QED
    BY <1>3, <2>1, Purged DEF AsksStand
<1>4. CASE /\ UNCHANGED <<conversation, turns>>
           /\ \A q \in asks' : \E p \in asks : p.of = q.of /\ p.turn = q.turn
  BY <1>4 DEF AsksStand, Questions
<1> QED
  BY <1>1, <1>2, <1>3, <1>4, ThreadSteps

LEMMA AnswersInPlaceNext ==
  TypeOK /\ AsksStand /\ AnswersInPlace /\ [Next]_vars => AnswersInPlace'
<1> SUFFICES ASSUME TypeOK, AsksStand, AnswersInPlace, [Next]_vars
             PROVE  AnswersInPlace'
  OBVIOUS
<1>1. ASSUME NEW s \in Submissions, NEW c \in Conversations, PrepareSubmission(s, c)
      PROVE  AnswersInPlace'
  <2>1. \A d \in Conversations :
          /\ Questions(d) \subseteq Questions(d)'
          /\ (DOMAIN turns[d] \ Questions(d))' = DOMAIN turns[d] \ Questions(d)
          /\ \A i \in DOMAIN turns[d] : turns'[d][i] = turns[d][i]
    BY <1>1, NewQuestion
  <2> QED
    BY <2>1 DEF AnswersInPlace
<1>2. ASSUME NEW q \in asks, CompleteSubmission(q), ~Answered(q)
      PROVE  AnswersInPlace'
  <2> DEFINE c == q.of
             n == Len(turns[c]) + 1
  <2>1. /\ c \in Conversations /\ turns'[c][n] = Reply(q.turn)
        /\ n \notin DOMAIN turns[c] /\ DOMAIN turns'[c] = (DOMAIN turns[c]) \cup {n}
        /\ \A i \in DOMAIN turns[c] : turns'[c][i] = turns[c][i]
        /\ \A d \in Conversations \ {c} : turns'[d] = turns[d]
        /\ \A d \in Conversations : Questions(d)' = Questions(d)
    BY <1>2, NewAnswer
  <2>2. q.turn \in Questions(c) /\ turns'[c][n].replies = q.turn
    BY <1>2, <2>1 DEF CompleteSubmission, AsksStand, Reply
  <2>3. /\ Questions(c) \subseteq DOMAIN turns[c]
        /\ \A i \in DOMAIN turns[c] : i \in 1..Len(turns[c])
        /\ Len(turns[c]) \in Nat
    BY <2>1, ThreadLength
  <2>4. q.turn < n
    BY <2>2, <2>3
  <2>5. \A i \in DOMAIN turns[c] \ Questions(c) : turns[c][i].replies # q.turn
    <3>1. \A i \in DOMAIN turns[c] \ Questions(c) : turns[c][i].role = "assistant"
      BY <2>1, ThreadLength DEF Questions, Turn
    <3> QED
      BY <1>2, <3>1 DEF Answered
  <2> HIDE DEF c, n
  <2> QED
    BY <2>1, <2>2, <2>3, <2>4, <2>5 DEF AnswersInPlace
<1>3. CASE PurgeConversations
  BY <1>3, Purged DEF AnswersInPlace
<1>4. CASE UNCHANGED turns
  BY <1>4 DEF AnswersInPlace, Questions
<1> QED
  BY <1>1, <1>2, <1>3, <1>4, ThreadSteps

(* A form sent twice is one question, in whichever thread, and no question *)
(* gets two answers, although each is stored in a transaction of its own.  *)
THEOREM AskedOnceCorrect == Spec => []AskedOnce
<1>1. Init => TokensOnce /\ AnswersInPlace /\ AsksStand
  BY DEF Init, TokensOnce, AnswersInPlace, AsksStand, Questions
<1>2. TokensOnce /\ AnswersInPlace => AskedOnce
  BY DEF TokensOnce, AnswersInPlace, AskedOnce
<1> QED
  BY <1>1, <1>2, TokensOnceNext, AnswersInPlaceNext, AsksStandNext, TypeCorrect, PTL
     DEF Spec

-----------------------------------------------------------------------------
(* The length of a thread                                                  *)

LEMMA QuestionsFitNext ==
  TypeOK /\ QuestionsFit /\ [Next]_vars => QuestionsFit'
<1> SUFFICES ASSUME TypeOK, QuestionsFit, [Next]_vars PROVE QuestionsFit'
  OBVIOUS
<1>1. ASSUME NEW s \in Submissions, NEW c \in Conversations, PrepareSubmission(s, c)
      PROVE  QuestionsFit'
  <2> DEFINE n == Len(turns[c]) + 1
  <2>1. /\ Questions(c)' = Questions(c) \cup {n}
        /\ \A d \in Conversations \ {c} : Questions(d)' = Questions(d)
    BY <1>1, NewQuestion
  <2>2. Len(turns[c]) \in Nat /\ n <= TurnLimit - 1
    BY <1>1, ThreadLength, LimitsNatural DEF PrepareSubmission, TurnCapacity
  <2>3. Questions(c) \cup {n} \subseteq 1..n
    BY <2>2, ThreadLength
  <2>4. IsFiniteSet(1..n) /\ Cardinality(1..n) = n
    BY <2>2, FS_Interval
  <2>5. /\ Cardinality(Questions(c) \cup {n}) <= n
        /\ Cardinality(Questions(c) \cup {n}) \in Nat
    BY <2>3, <2>4, FS_Subset, FS_CardinalityType
  <2> HIDE DEF n
  <2>6. Cardinality(Questions(c)') <= TurnLimit - 1
    BY <2>1, <2>2, <2>5, LimitsNatural DEF n
  <2>7. \A d \in Conversations \ {c} : Cardinality(Questions(d)') <= TurnLimit - 1
    BY <2>1 DEF QuestionsFit
  <2> QED
    BY <2>6, <2>7 DEF QuestionsFit
<1>2. ASSUME NEW q \in asks, CompleteSubmission(q), ~Answered(q)
      PROVE  QuestionsFit'
  BY <1>2, NewAnswer DEF QuestionsFit
<1>3. CASE PurgeConversations
  <2>1. \A c \in Conversations : Questions(c)' = Questions(c) \/ Questions(c)' = {}
    BY <1>3, Purged
  <2>2. Cardinality({}) <= TurnLimit - 1
    BY FS_EmptySet, LimitsNatural
  <2> QED
    BY <2>1, <2>2 DEF QuestionsFit
<1>4. CASE UNCHANGED turns
  BY <1>4 DEF QuestionsFit, Questions
<1> QED
  BY <1>1, <1>2, <1>3, <1>4, ThreadSteps

(* Answers are as many as questions at most: each has one of its own.      *)
LEMMA ThreadFits ==
  ASSUME TypeOK, AnswersInPlace, QuestionsFit, NEW c \in Conversations
  PROVE  Len(turns[c]) <= 2 * (TurnLimit - 1)
<1> DEFINE Q == Questions(c)
           A == DOMAIN turns[c] \ Questions(c)
           f == [i \in A |-> turns[c][i].replies]
<1>1. /\ DOMAIN turns[c] = 1..Len(turns[c]) /\ Len(turns[c]) \in Nat
      /\ Q \subseteq DOMAIN turns[c]
  BY ThreadLength
<1>2. f \in Injection(A, Q)
  <2>1. f \in [A -> Q]
    BY DEF AnswersInPlace
  <2>2. \A i, j \in A : f[i] = f[j] => i = j
    BY DEF AnswersInPlace
  <2> QED
    BY <2>1, <2>2 DEF Injection, IsInjective
<1>3. IsFiniteSet(Q) /\ Cardinality(Q) \in Nat /\ Cardinality(Q) <= TurnLimit - 1
  BY QuestionsFinite DEF QuestionsFit
<1> HIDE DEF f
<1>4. IsFiniteSet(A) /\ Cardinality(A) <= Cardinality(Q)
  BY <1>2, <1>3, FS_Injection
<1>5. Q \cup A = 1..Len(turns[c]) /\ Q \cap A = {}
  BY <1>1
<1> HIDE DEF Q, A
<1>6. Cardinality(1..Len(turns[c])) = Cardinality(Q) + Cardinality(A) - Cardinality({})
  BY <1>3, <1>4, <1>5, FS_Union
<1>7. Cardinality(1..Len(turns[c])) = Len(turns[c])
  BY <1>1, FS_Interval
<1>8. Cardinality({}) = 0 /\ Cardinality(A) \in Nat
  BY <1>4, FS_EmptySet, FS_CardinalityType
<1> QED
  BY <1>1, <1>3, <1>4, <1>6, <1>7, <1>8, LimitsNatural

-----------------------------------------------------------------------------
(* The short window                                                        *)

\* The questions of the window that ends at a time.
InWindow(t) == Since(t - Window) \ Since(t + 1)

(* Questions can be counted, and none is later than the clock.             *)
QuestionsPast ==
  /\ IsFiniteSet(AllQuestions)
  /\ \A c \in Conversations : \A i \in Questions(c) : turns[c][i].at <= now

WindowsFit == \A t \in Time : Cardinality(InWindow(t)) <= WindowLimit

LEMMA InAllQuestions ==
  /\ \A p \in AllQuestions :
       \E c \in Conversations : \E i \in Questions(c) : p = <<c, i>>
  /\ \A c \in Conversations : \A i \in Questions(c) : <<c, i>> \in AllQuestions
BY DEF AllQuestions

(* A new question is the only new element of what was asked.               *)
LEMMA AllQuestionsAdded ==
  ASSUME TypeOK, NEW s \in Submissions, NEW c \in Conversations, PrepareSubmission(s, c)
  PROVE  LET new == <<c, Len(turns[c]) + 1>> IN
         /\ AllQuestions' = AllQuestions \cup {new}
         /\ turns'[new[1]][new[2]].at = now
         /\ \A p \in AllQuestions : turns'[p[1]][p[2]] = turns[p[1]][p[2]]
<1> DEFINE n == Len(turns[c]) + 1
<1>1. /\ Questions(c)' = Questions(c) \cup {n}
      /\ \A d \in Conversations \ {c} : Questions(d)' = Questions(d)
      /\ \A i \in DOMAIN turns[c] : turns'[c][i] = turns[c][i]
      /\ \A d \in Conversations \ {c} : turns'[d] = turns[d]
      /\ turns'[c][n] = Asked(s)
  BY NewQuestion
<1>2. AllQuestions' = AllQuestions \cup {<<c, n>>}
  <2> HIDE DEF n
  <2>1. AllQuestions' = UNION {{d} \X Questions(d)' : d \in Conversations}
    BY DEF AllQuestions
  <2> QED
    BY <1>1, <2>1 DEF AllQuestions
<1>3. \A p \in AllQuestions : turns'[p[1]][p[2]] = turns[p[1]][p[2]]
  BY <1>1, InAllQuestions DEF Questions
<1>4. turns'[c][n].at = now
  BY <1>1, Asked(s).at = now DEF Asked
<1> QED
  BY <1>2, <1>3, <1>4

(* No other step adds one.                                                 *)
LEMMA AllQuestionsKept ==
  ASSUME TypeOK, [Next]_vars,
         \A s \in Submissions, c \in Conversations : ~PrepareSubmission(s, c)
  PROVE  /\ AllQuestions' \subseteq AllQuestions
         /\ \A p \in AllQuestions' : turns'[p[1]][p[2]] = turns[p[1]][p[2]]
<1> DEFINE Kept == \A c \in Conversations :
                     /\ Questions(c)' \subseteq Questions(c)
                     /\ \A i \in Questions(c)' : turns'[c][i] = turns[c][i]
<1>1. Kept
  <2>1. ASSUME NEW q \in asks, CompleteSubmission(q), ~Answered(q)
        PROVE  Kept
    BY <2>1, NewAnswer DEF Questions
  <2>2. CASE PurgeConversations
    BY <2>2, Purged
  <2>3. CASE UNCHANGED turns
    BY <2>3 DEF Questions
  <2> QED
    BY <2>1, <2>2, <2>3, ThreadSteps
<1>2. AllQuestions' = UNION {{d} \X Questions(d)' : d \in Conversations}
  BY DEF AllQuestions
<1> QED
  BY <1>1, <1>2, InAllQuestions DEF AllQuestions

LEMMA ClockStep ==
  ASSUME TypeOK, [Next]_vars
  PROVE  now' \in Int /\ now' >= now
<1>1. now \in Int
  BY DEF TypeOK, Time
<1>2. now' = now \/ now' = now + 1
  BY DEF Next, vars, NewToken, PrepareSubmission, AuthorizeAttempt, CompleteSubmission,
         RequestFails, AssistantAttempt, PurgeConversations, Tick
<1> QED
  BY <1>1, <1>2

LEMMA AskedAt ==
  ASSUME TypeOK, NEW p \in AllQuestions
  PROVE  turns[p[1]][p[2]].at \in Int
<1>1. PICK c \in Conversations : \E i \in Questions(c) : p = <<c, i>>
  BY InAllQuestions
<1> PICK i \in Questions(c) : p = <<c, i>>
  BY <1>1
<1>2. turns[c][i] \in Turn
  BY ThreadLength
<1> QED
  BY <1>1, <1>2 DEF Turn, Time

LEMMA QuestionsPastNext ==
  TypeOK /\ QuestionsPast /\ [Next]_vars => QuestionsPast'
<1> SUFFICES ASSUME TypeOK, QuestionsPast, [Next]_vars PROVE QuestionsPast'
  OBVIOUS
<1>1. /\ IsFiniteSet(AllQuestions)
      /\ \A p \in AllQuestions : turns[p[1]][p[2]].at <= now
      /\ now \in Int
  BY InAllQuestions DEF QuestionsPast, TypeOK, Time
<1> DEFINE Past == /\ IsFiniteSet(AllQuestions)
                   /\ \A p \in AllQuestions : turns[p[1]][p[2]].at <= now
<1>2. Past'
  <2>1. ASSUME NEW s \in Submissions, NEW c \in Conversations, PrepareSubmission(s, c)
        PROVE  Past'
    <3>1. now' = now
      BY <2>1 DEF PrepareSubmission
    <3> DEFINE new == <<c, Len(turns[c]) + 1>>
    <3>2. /\ AllQuestions' = AllQuestions \cup {new}
          /\ turns'[new[1]][new[2]].at = now
          /\ \A p \in AllQuestions : turns'[p[1]][p[2]] = turns[p[1]][p[2]]
      BY <2>1, AllQuestionsAdded
    <3> HIDE DEF new
    <3>3. IsFiniteSet(AllQuestions')
      BY <1>1, <3>2, FS_AddElement
    <3> QED
      BY <1>1, <3>1, <3>2, <3>3
  <2>2. CASE \A s \in Submissions, c \in Conversations : ~PrepareSubmission(s, c)
    <3>1. /\ AllQuestions' \subseteq AllQuestions
          /\ \A p \in AllQuestions' : turns'[p[1]][p[2]] = turns[p[1]][p[2]]
      BY <2>2, AllQuestionsKept
    <3>2. IsFiniteSet(AllQuestions')
      BY <1>1, <3>1, FS_Subset
    <3>3. now' \in Int /\ now' >= now
      BY <1>1, ClockStep
    <3> QED
      BY <1>1, <3>1, <3>2, <3>3, AskedAt
  <2> QED
    BY <2>1, <2>2
<1>3. \A c \in Conversations : \A i \in Questions(c)' : turns'[c][i].at <= now'
  <2>1. \A c \in Conversations : \A i \in Questions(c)' : <<c, i>> \in AllQuestions'
    BY DEF AllQuestions
  <2> QED
    BY <1>2, <2>1
<1> QED
  BY <1>2, <1>3 DEF QuestionsPast

LEMMA WindowsFitNext ==
  TypeOK /\ QuestionsPast /\ WindowsFit /\ [Next]_vars => WindowsFit'
<1> SUFFICES ASSUME TypeOK, QuestionsPast, WindowsFit, [Next]_vars, NEW t \in Time
             PROVE  Cardinality(InWindow(t)') <= WindowLimit
  BY DEF WindowsFit
<1>1. /\ IsFiniteSet(AllQuestions)
      /\ \A p \in AllQuestions : turns[p[1]][p[2]].at <= now
      /\ \A p \in AllQuestions : turns[p[1]][p[2]].at \in Int
      /\ now \in Int /\ t \in Int
  BY InAllQuestions, AskedAt DEF QuestionsPast, TypeOK, Time
<1>2. /\ InWindow(t) = {p \in AllQuestions : /\ turns[p[1]][p[2]].at >= t - Window
                                             /\ ~(turns[p[1]][p[2]].at >= t + 1)}
      /\ InWindow(t)' = {p \in AllQuestions' : /\ turns'[p[1]][p[2]].at >= t - Window
                                               /\ ~(turns'[p[1]][p[2]].at >= t + 1)}
  BY DEF InWindow, Since
<1>3. /\ IsFiniteSet(InWindow(t)) /\ Cardinality(InWindow(t)) \in Nat
      /\ Cardinality(InWindow(t)) <= WindowLimit
  BY <1>1, <1>2, FS_Subset, FS_CardinalityType DEF WindowsFit
<1>4. ASSUME InWindow(t)' \subseteq InWindow(t)
      PROVE  Cardinality(InWindow(t)') <= WindowLimit
  <2>1. /\ Cardinality(InWindow(t)') <= Cardinality(InWindow(t))
        /\ Cardinality(InWindow(t)') \in Nat
    BY <1>3, <1>4, FS_Subset, FS_CardinalityType
  <2> QED
    BY <1>3, <2>1, LimitsNatural
<1>5. ASSUME NEW s \in Submissions, NEW c \in Conversations, PrepareSubmission(s, c)
      PROVE  Cardinality(InWindow(t)') <= WindowLimit
  <2> DEFINE new == <<c, Len(turns[c]) + 1>>
             open == Since(now - Window)
  <2>1. /\ AllQuestions' = AllQuestions \cup {new}
        /\ turns'[new[1]][new[2]].at = now
        /\ \A p \in AllQuestions : turns'[p[1]][p[2]] = turns[p[1]][p[2]]
    BY <1>5, AllQuestionsAdded
  <2>2. /\ open = {p \in AllQuestions : turns[p[1]][p[2]].at >= now - Window}
        /\ Cardinality(open) < WindowLimit
    BY <1>5 DEF PrepareSubmission, ShortWindowCapacity, Since
  <2>3. IsFiniteSet(open) /\ Cardinality(open) \in Nat
    BY <1>1, <2>2, FS_Subset, FS_CardinalityType
  <2> HIDE DEF new, open
  <2>4. CASE now >= t - Window /\ ~(now >= t + 1)
    <3>1. ASSUME NEW p \in AllQuestions, turns[p[1]][p[2]].at >= t - Window
          PROVE  turns[p[1]][p[2]].at >= now - Window
      <4>1. turns[p[1]][p[2]].at \in Int
        BY <1>1
      <4> QED
        BY <1>1, <2>4, <3>1, <4>1, LimitsNatural
    <3>2. InWindow(t)' \subseteq open \cup {new}
      BY <1>2, <2>1, <2>2, <3>1
    <3>3. /\ IsFiniteSet(open \cup {new}) /\ Cardinality(open \cup {new}) \in Nat
          /\ Cardinality(open \cup {new}) <= Cardinality(open) + 1
      <4>1. /\ IsFiniteSet(open \cup {new})
            /\ Cardinality(open \cup {new}) \in {Cardinality(open), Cardinality(open) + 1}
        BY <2>3, FS_AddElement
      <4> QED
        BY <2>3, <4>1
    <3>4. /\ Cardinality(InWindow(t)') <= Cardinality(open \cup {new})
          /\ Cardinality(InWindow(t)') \in Nat
      BY <3>2, <3>3, FS_Subset, FS_CardinalityType
    <3> QED
      BY <2>2, <2>3, <3>3, <3>4, LimitsNatural
  <2>5. CASE ~(now >= t - Window /\ ~(now >= t + 1))
    <3>1. InWindow(t)' \subseteq InWindow(t)
      BY <1>2, <2>1, <2>5
    <3> QED
      BY <1>4, <3>1
  <2> QED
    BY <2>4, <2>5
<1>6. CASE \A s \in Submissions, c \in Conversations : ~PrepareSubmission(s, c)
  <2>1. InWindow(t)' \subseteq InWindow(t)
    BY <1>2, <1>6, AllQuestionsKept
  <2> QED
    BY <1>4, <2>1
<1> QED
  BY <1>5, <1>6

(* The limits hold whatever is in flight: each is checked under the lock   *)
(* of the user's row, in the transaction that uses up what it limits. Only *)
(* answers come without a check, and a thread has one for each question.   *)
THEOREM LimitsKeptCorrect == Spec => []LimitsKept
<1>1. Init => QuestionsFit /\ QuestionsPast /\ WindowsFit /\ AnswersInPlace /\ AsksStand
  <2> SUFFICES ASSUME Init
               PROVE  QuestionsFit /\ QuestionsPast /\ WindowsFit /\ AnswersInPlace
                      /\ AsksStand
    OBVIOUS
  <2>1. \A c \in Conversations : turns[c] = << >> /\ Questions(c) = {}
    BY DEF Init, Questions
  <2>2. AllQuestions = {}
    BY <2>1 DEF AllQuestions
  <2>3. \A t \in Time : InWindow(t) = {}
    BY <2>2 DEF InWindow, Since
  <2>4. QuestionsFit /\ WindowsFit
    <3>1. Cardinality({}) = 0 /\ 0 <= WindowLimit /\ 0 <= TurnLimit - 1
      BY FS_EmptySet, LimitsNatural
    <3> QED
      BY <2>1, <2>3, <3>1 DEF QuestionsFit, WindowsFit
  <2>5. QuestionsPast
    BY <2>1, <2>2, FS_EmptySet DEF QuestionsPast
  <2> QED
    BY <2>1, <2>4, <2>5 DEF AnswersInPlace, AsksStand, Init
<1>2. TypeOK /\ CallsFit /\ QuestionsFit /\ WindowsFit /\ AnswersInPlace => LimitsKept
  BY ThreadFits DEF LimitsKept, CallsFit, WindowsFit, InWindow, Time
<1> QED
  BY <1>1, <1>2, QuestionsFitNext, QuestionsPastNext, WindowsFitNext, AnswersInPlaceNext,
     AsksStandNext, CallsFitCorrect, TypeCorrect, PTL DEF Spec
=============================================================================
