------------------------------ MODULE Dialogue ------------------------------
(* What the pay plan assistant promises of a conversation, whatever the     *)
(* interpreter, the browser and the workers do: one question at a time      *)
(* waits for its answer, an answer follows the question that waits, a       *)
(* question given up is never answered, and a closed conversation keeps     *)
(* what was said.                                                           *)
EXTENDS Naturals, Sequences

CONSTANT Conversations

VARIABLES
  phase,   \* of each conversation
  log      \* what was said in it, in order

dialogue == <<phase, log>>

Phases == {"absent", "ready", "waiting", "closed"}
Entry  == [says : {"question", "answer"}, to : Nat]

Question == [says |-> "question", to |-> 0]

\* The answer to the question at a place of the log.
AnswerTo(place) == [says |-> "answer", to |-> place]

DialogueType ==
  /\ phase \in [Conversations -> Phases]
  /\ log \in [Conversations -> Seq(Entry)]

Init ==
  /\ phase = [c \in Conversations |-> "absent"]
  /\ log = [c \in Conversations |-> << >>]

\* A conversation begins, with or without its first question.
Begin(c) ==
  /\ phase[c] = "absent"
  /\ \/ /\ phase' = [phase EXCEPT ![c] = "ready"]
        /\ log' = log
     \/ /\ phase' = [phase EXCEPT ![c] = "waiting"]
        /\ log' = [log EXCEPT ![c] = Append(@, Question)]

Ask(c) ==
  /\ phase[c] = "ready"
  /\ phase' = [phase EXCEPT ![c] = "waiting"]
  /\ log' = [log EXCEPT ![c] = Append(@, Question)]

Answer(c) ==
  /\ phase[c] = "waiting"
  /\ phase' = [phase EXCEPT ![c] = "ready"]
  /\ log' = [log EXCEPT ![c] = Append(@, AnswerTo(Len(@)))]

\* A question the server answers by itself.
AskAnswered(c) ==
  /\ phase[c] = "ready"
  /\ log' = [log EXCEPT ![c] = Append(Append(@, Question), AnswerTo(Len(@) + 1))]
  /\ phase' = phase

GiveUp(c) ==
  /\ phase[c] = "waiting"
  /\ phase' = [phase EXCEPT ![c] = "ready"]
  /\ log' = log

Close(c) ==
  /\ phase[c] \in {"ready", "waiting"}
  /\ phase' = [phase EXCEPT ![c] = "closed"]
  /\ log' = log

\* One conversation takes the place of another.
Replace(c, d) ==
  /\ phase[c] \in {"ready", "waiting"}
  /\ phase[d] = "absent"
  /\ phase' = [phase EXCEPT ![c] = "closed", ![d] = "ready"]
  /\ log' = log

Next ==
  \/ \E c \in Conversations :
       Begin(c) \/ Ask(c) \/ Answer(c) \/ AskAnswered(c) \/ GiveUp(c) \/ Close(c)
  \/ \E c, d \in Conversations : Replace(c, d)

Spec == Init /\ [][Next]_dialogue

=============================================================================
