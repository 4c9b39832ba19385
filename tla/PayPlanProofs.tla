---------------------------- MODULE PayPlanProofs ----------------------------
(* Theorems about PayPlanLifecycle, for every number of days, rows and      *)
(* requests.                                                                *)
EXTENDS PayPlanLifecycle, TLAPS

(* Dates, days without an end, and rows are integers.                       *)
LEMMA Numbers ==
  /\ Dates \subseteq Int /\ Ends \subseteq Int /\ Slots \subseteq Int
  /\ Open \in Ends /\ \A d \in Dates : d < Open
  /\ 1 \in Dates /\ 1 \in Versions /\ 0 \notin Versions
BY BoundsAssumption DEF Dates, Ends, Slots, Open, Versions

(* The rows an activation starts from have their types.                     *)
LEMMA ReplacedType ==
  ASSUME TypeOK, NEW prev \in LiveSlots, NEW v \in Versions, NEW start \in Dates
  PROVE  /\ Replaced(prev, v, start).versions \in [Versions -> VersionRow]
         /\ Replaced(prev, v, start).assignments \in [Slots -> AssignmentRow]
<1> DEFINE row == assignment[prev]
           ended == Ended(row, start)
           old == row.version
<1>1. row \in AssignmentRow /\ old \in Versions /\ prev \in Slots
  BY DEF TypeOK, LiveSlots, Inserted, AssignmentRow
<1>2. ended \in AssignmentRow
  <2>1. CASE start - 1 >= row.start
    <3>1. start - 1 \in Ends
      BY <1>1, <2>1, BoundsAssumption DEF AssignmentRow, Dates, Ends, Open
    <3> QED BY <1>1, <2>1, <3>1 DEF Ended, AssignmentRow
  <2>2. CASE ~(start - 1 >= row.start)
    BY <1>1, <2>2 DEF Ended, AssignmentRow
  <2> QED BY <2>1, <2>2
<1>3. Superseded(version[old], ended) \in VersionRow
  <2>1. version[old] \in VersionRow BY <1>1 DEF TypeOK
  <2> HIDE DEF ended
  <2>2. ended.live \in BOOLEAN /\ ended.end \in Ends BY <1>2 DEF AssignmentRow
  <2> QED BY <2>1, <2>2 DEF Superseded, VersionRow
<1> HIDE DEF ended
<1>4. Replaced(prev, v, start) =
        [assignments |-> [assignment EXCEPT ![prev] = ended],
         versions |-> IF old = v THEN version
                      ELSE [version EXCEPT ![old] = Superseded(@, ended)]]
  BY DEF Replaced, ended
<1> HIDE DEF row, old
<1> QED BY <1>1, <1>2, <1>3, <1>4 DEF TypeOK

(* Types are kept by every step.                                            *)
LEMMA TypeStep ==
  ASSUME TypeOK, [Next]_vars
  PROVE  TypeOK'
<1> USE DEF TypeOK
<1>0. CASE UNCHANGED vars BY <1>0 DEF vars
<1>1. ASSUME NEW d \in Dates, LogSale(d) \/ DeleteSale(d) PROVE TypeOK'
  BY <1>1 DEF LogSale, DeleteSale
<1>2. ASSUME NEW v \in Versions PROVE Revised(v) \in [Versions -> VersionRow]
  BY DEF Revised, VersionRow
<1>3. ASSUME NEW v \in Versions, AddRule(v) PROVE TypeOK'
  BY <1>2, <1>3 DEF AddRule
<1>4. ASSUME NEW v \in Versions, NEW d \in Dates, CreateDraft(v, d) PROVE TypeOK'
  BY <1>4, Numbers DEF CreateDraft, VersionRow
<1>5. NoRequest \in Request BY Numbers DEF NoRequest, Request
<1>6. ASSUME NEW r \in Requests, Done(r) PROVE req' \in [Requests -> Request]
  BY <1>5, <1>6 DEF Done
<1>7. ASSUME NEW r \in Requests, SaveRule(r) \/ GiveUp(r) PROVE TypeOK'
  BY <1>2, <1>6, <1>7 DEF SaveRule, GiveUp, Request
<1>8. ASSUME NEW r \in Requests, NEW v \in Versions, NEW d \in Dates,
             NEW op \in {"confirm", "sync", "edit"}, Begin(r, op, v, d)
      PROVE  TypeOK'
  BY <1>8 DEF Begin, Reads, Request, VersionRow
<1>9. ASSUME NEW r \in Requests, NEW v \in Versions, LockRule(r, v) \/ ReadDraft(r, v)
      PROVE  TypeOK'
  <2>1. version[v].start \in Dates BY DEF VersionRow
  <2> QED BY <1>8, <1>9, <2>1 DEF LockRule, ReadDraft
<1>10. ASSUME NEW r \in Requests, SyncRead(r) PROVE TypeOK'
  <2>1. onboarding.current \in Versions BY DEF OnboardingRow
  <2> QED BY <1>8, <1>10, <2>1 DEF SyncRead
<1>11. ASSUME NEW r \in Requests, Activate(r) PROVE TypeOK'
  <2> DEFINE v == req[r].version
  <2>1. v \in Versions /\ req[r].start \in Dates /\ req[r].end \in Ends
    BY DEF Request
  <2>2. ASSUME NEW before, NEW new \in Slots, Activated(r, before, new),
               before.versions \in [Versions -> VersionRow],
               before.assignments \in [Slots -> AssignmentRow]
        PROVE  /\ version' \in [Versions -> VersionRow]
               /\ assignment' \in [Slots -> AssignmentRow]
               /\ onboarding' \in OnboardingRow
    <3> DEFINE row == [version |-> v, start |-> req[r].start, end |-> req[r].end, live |-> TRUE]
    <3>1. row \in AssignmentRow BY <2>1 DEF AssignmentRow
    <3>2. assignment' = [before.assignments EXCEPT ![new] = row]
      BY <2>2 DEF Activated
    <3>3. [before.versions[v] EXCEPT !.status = "active"] \in VersionRow
      BY <2>1, <2>2 DEF VersionRow
    <3>4. version' = [before.versions EXCEPT ![v] = [@ EXCEPT !.status = "active"]]
      BY <2>2 DEF Activated
    <3>5. onboarding' = [active |-> TRUE, current |-> v]
      BY <2>2 DEF Activated
    <3> HIDE DEF row, v
    <3> QED BY <2>1, <2>2, <3>1, <3>2, <3>3, <3>4, <3>5 DEF OnboardingRow
  <2>3. PICK new \in Slots :
          \/ Activated(r, [assignments |-> assignment, versions |-> version], new)
          \/ \E prev \in LiveSlots :
               Activated(r, Replaced(prev, req[r].version, req[r].start), new)
    BY <1>11 DEF Activate
  <2>4. /\ version' \in [Versions -> VersionRow]
        /\ assignment' \in [Slots -> AssignmentRow]
        /\ onboarding' \in OnboardingRow
    BY <2>1, <2>2, <2>3, ReplacedType
  <2> QED BY <1>6, <1>11, <2>4 DEF Activate
<1>12. ASSUME NEW r \in Requests, SyncCommit(r) PROVE TypeOK'
  <2>1. req[r] \in Request BY DEF Request
  <2>2. version' \in [Versions -> VersionRow]
    BY ZenonT(40), <1>12, <2>1 DEF SyncCommit, Request, VersionRow
  <2>3. PICK own \in Slots :
          assignment' = OthersOff(Aligned(own, req[r]), own, req[r].desired)
    BY <1>12 DEF SyncCommit
  <2>4. Aligned(own, req[r]) \in [Slots -> AssignmentRow]
    BY <2>1 DEF Aligned, Request, AssignmentRow
  <2>5. assignment' \in [Slots -> AssignmentRow]
    BY <2>3, <2>4 DEF OthersOff, AssignmentRow
  <2> QED BY <1>6, <1>12, <2>2, <2>5 DEF SyncCommit
<1>13. CASE ReopenReview
  <2>1. onboarding.current \in Versions BY DEF OnboardingRow
  <2> QED BY <1>2, <1>13, <2>1 DEF ReopenReview, OnboardingRow
<1>14. ASSUME NEW r \in Requests, FinishReview(r) PROVE TypeOK'
  <2>1. onboarding.current \in Versions BY DEF OnboardingRow
  <2>2. ASSUME NEW d \in Dates, Reads(r, "sync", onboarding.current, d)
        PROVE  req' \in [Requests -> Request]
    BY <2>1, <2>2 DEF Reads, Request, VersionRow
  <2> QED BY <1>14, <2>1, <2>2 DEF FinishReview, OnboardingRow
<1> QED
  BY <1>0, <1>1, <1>3, <1>4, <1>7, <1>9, <1>10, <1>11, <1>12, <1>13, <1>14 DEF Next

LEMMA TypeInit == Init => TypeOK
BY Numbers, BoundsAssumption
   DEF Init, TypeOK, VersionRow, AssignmentRow, OnboardingRow, Request, NoRequest, Ends, Slots

(* Every row keeps its type.                                                *)
THEOREM TypeCorrect == Spec => []TypeOK
BY TypeInit, TypeStep, PTL DEF Spec

-----------------------------------------------------------------------------
(* The inductive invariant.                                                 *)

(* A request that confirms an activation has read a version without an end. *)
Confirmed ==
  \A r \in Requests : req[r].op = "confirm" =>
    req[r].end = Open /\ version[req[r].version].status # "absent"

(* A draft has no end.                                                      *)
DraftOpen == \A v \in Versions : version[v].status = "review" => version[v].end = Open

(* What is or was active has been assigned.                                 *)
ActiveAssigned ==
  \A v \in Versions : version[v].status \in {"active", "inactive"} =>
    \E a \in Slots : assignment[a].version = v

(* An active version has no end, nor has what a synchronization read of it. *)
ActiveOpen ==
  AssignedOnce =>
    /\ \A v \in Versions : version[v].status = "active" => version[v].end = Open
    /\ \A r \in Requests : req[r].op = "sync" => req[r].end = Open

(* The current version is active, also when it was activated twice.         *)
CurrentActive == version[onboarding.current].status = "active"

IInv ==
  /\ TypeOK /\ Confirmed /\ DraftOpen /\ ActiveAssigned /\ CurrentActive
  /\ ActiveOpen /\ OneActiveVersion /\ CurrentInForce

(* Steps that insert no assignment and change no status, end or onboarding  *)
(* pointer.                                                                 *)
LEMMA QuietStep ==
  ASSUME IInv, TypeOK', assignment' = assignment,
         onboarding'.current = onboarding.current,
         \A v \in Versions : version'[v].status = version[v].status
                               /\ version'[v].end = version[v].end,
         \A r \in Requests : req'[r].op \in {"confirm", "sync"} =>
           \/ req'[r] = req[r]
           \/ /\ req'[r].op = "confirm"
              /\ req'[r].end = Open /\ version[req'[r].version].status # "absent"
           \/ /\ req'[r].op = "sync"
              /\ version[req'[r].version].status = "active"
              /\ req'[r].end = version[req'[r].version].end
  PROVE  IInv'
<1>0. \A r \in Requests : req[r].version \in Versions /\ req'[r].version \in Versions
  BY DEF IInv, TypeOK, Request
<1>1. Confirmed' BY <1>0 DEF IInv, Confirmed
<1>2. DraftOpen' /\ ActiveAssigned' BY DEF IInv, DraftOpen, ActiveAssigned
<1>3. AssignedOnce' <=> AssignedOnce BY DEF AssignedOnce, Inserted
<1>4. ActiveOpen' BY <1>0, <1>3 DEF IInv, ActiveOpen
<1>5. OneActiveVersion' BY <1>3 DEF IInv, OneActiveVersion
<1>6. LiveSlots' = LiveSlots BY DEF LiveSlots, Inserted
<1>7. CurrentInForce' BY <1>3, <1>6 DEF IInv, CurrentInForce
<1>8. CurrentActive' BY DEF IInv, CurrentActive, TypeOK, OnboardingRow
<1> QED BY <1>1, <1>2, <1>4, <1>5, <1>7, <1>8 DEF IInv

LEMMA CreateStep ==
  ASSUME IInv, TypeOK', NEW v \in Versions, NEW d \in Dates, CreateDraft(v, d)
  PROVE  IInv'
<1>1. /\ version[v].status = "absent"
      /\ version'[v].status = "review" /\ version'[v].end = Open
      /\ \A w \in Versions \ {v} : version'[w] = version[w]
      /\ UNCHANGED <<assignment, onboarding, req>>
  BY DEF CreateDraft, NextVersion, IInv, TypeOK
<1>2. Confirmed' BY <1>1 DEF IInv, Confirmed, TypeOK, Request
<1>3. DraftOpen' /\ ActiveAssigned' BY <1>1 DEF IInv, DraftOpen, ActiveAssigned
<1>4. AssignedOnce' <=> AssignedOnce BY <1>1 DEF AssignedOnce, Inserted
<1>5. ActiveOpen' BY <1>1, <1>4 DEF IInv, ActiveOpen
<1>6. OneActiveVersion' BY <1>1, <1>4 DEF IInv, OneActiveVersion
<1>7. LiveSlots' = LiveSlots BY <1>1 DEF LiveSlots, Inserted
<1>8. CurrentInForce' BY <1>1, <1>4, <1>7 DEF IInv, CurrentInForce
<1>9. CurrentActive' BY <1>1 DEF IInv, CurrentActive, TypeOK, OnboardingRow
<1> QED BY <1>2, <1>3, <1>5, <1>6, <1>8, <1>9 DEF IInv

-----------------------------------------------------------------------------
(* What an activation does to the rows.                                     *)
Inserts(r, new) ==
  /\ ~Inserted(new)
  /\ assignment'[new] =
       [version |-> req[r].version, start |-> req[r].start, end |-> req[r].end, live |-> TRUE]
  /\ Constraints(version', assignment')
  /\ onboarding' = [active |-> TRUE, current |-> req[r].version]
  /\ version'[req[r].version].status = "active"

Supersedes(r, new, prev) ==
  /\ First(prev, LiveSlots)
  /\ assignment'[prev] = Ended(assignment[prev], req[r].start)
  /\ \A a \in Slots \ {prev, new} : assignment'[a] = assignment[a]
  /\ version'[req[r].version].end = version[req[r].version].end
       \/ assignment[prev].version = req[r].version
  /\ assignment[prev].version # req[r].version =>
       version'[assignment[prev].version].status = "inactive"
  /\ \A w \in Versions \ {req[r].version, assignment[prev].version} : version'[w] = version[w]

LEMMA ActivateShape ==
  ASSUME TypeOK, NEW r \in Requests, Activate(r)
  PROVE  \E new \in Slots :
           /\ Inserts(r, new)
           /\ \/ /\ LiveSlots = {}
                 /\ \A a \in Slots \ {new} : assignment'[a] = assignment[a]
                 /\ \A w \in Versions \ {req[r].version} : version'[w] = version[w]
              \/ \E prev \in LiveSlots : Supersedes(r, new, prev)
<1> DEFINE v == req[r].version
           start == req[r].start
<1>1. v \in Versions BY DEF TypeOK, Request
<1>2. PICK new \in Slots :
        /\ ~Inserted(new)
        /\ \/ /\ LiveSlots = {}
              /\ Activated(r, [assignments |-> assignment, versions |-> version], new)
           \/ \E prev \in LiveSlots :
                /\ First(prev, LiveSlots)
                /\ Activated(r, Replaced(prev, v, start), new)
  BY DEF Activate, NextSlot
<1>3. CASE LiveSlots = {} /\ Activated(r, [assignments |-> assignment, versions |-> version], new)
  BY <1>1, <1>2, <1>3 DEF Activated, Inserts, TypeOK, VersionRow
<1>4. ASSUME NEW prev \in LiveSlots, First(prev, LiveSlots),
             Activated(r, Replaced(prev, v, start), new)
      PROVE  Inserts(r, new) /\ Supersedes(r, new, prev)
  <2> DEFINE ended == Ended(assignment[prev], start)
             old   == assignment[prev].version
             rows  == [assignment EXCEPT ![prev] = ended]
             vers  == IF old = v THEN version
                      ELSE [version EXCEPT ![old] = Superseded(@, ended)]
  <2>1. /\ version' = [vers EXCEPT ![v].status = "active"]
        /\ assignment' = [rows EXCEPT ![new] =
             [version |-> v, start |-> start, end |-> req[r].end, live |-> TRUE]]
        /\ Constraints(version', assignment')
        /\ onboarding' = [active |-> TRUE, current |-> v]
    BY <1>4 DEF Activated, Replaced
  <2>2. /\ prev \in Slots /\ prev # new /\ old \in Versions
        /\ assignment \in [Slots -> AssignmentRow]
        /\ version \in [Versions -> VersionRow]
    BY <1>2 DEF LiveSlots, Inserted, TypeOK, AssignmentRow
  <2>3. vers \in [Versions -> VersionRow]
    BY <1>1, <2>2, ReplacedType, TypeOK, start \in Dates DEF Replaced, TypeOK, Request
  <2>4. old # v => vers[old].status = "inactive"
    BY <2>2 DEF Superseded, VersionRow
  <2> HIDE DEF ended
  <2>5. /\ assignment'[new] = [version |-> v, start |-> start, end |-> req[r].end, live |-> TRUE]
        /\ assignment'[prev] = ended
        /\ \A a \in Slots \ {prev, new} : assignment'[a] = assignment[a]
    BY <2>1, <2>2
  <2>6. \A w \in Versions \ {v, old} : version'[w] = version[w]
    BY <2>1, <2>2, <2>3
  <2>7. old # v => vers[v] = version[v] BY <1>1, <2>2
  <2> HIDE DEF vers, old
  <2>8. /\ version'[v].status = "active" /\ version'[v].end = vers[v].end
        /\ \A w \in Versions \ {v} : version'[w] = vers[w]
    BY <1>1, <2>1, <2>3 DEF VersionRow
  <2>9. old # v => version'[old].status = "inactive" /\ version'[v].end = version[v].end
    BY <2>2, <2>4, <2>7, <2>8
  <2> USE DEF old, ended
  <2> QED BY <1>2, <1>4, <2>1, <2>5, <2>6, <2>8, <2>9 DEF Inserts, Supersedes
<1> QED BY <1>2, <1>3, <1>4 DEF Inserts, Activated, TypeOK

(* Under AssignedOnce an activation supersedes the current version: the     *)
(* index on the open active assignment leaves no other choice.              *)
LEMMA SupersedesCurrent ==
  ASSUME IInv, TypeOK', NEW r \in Requests, Activate(r), NEW new \in Slots,
         Inserts(r, new), AssignedOnce',
         \/ /\ LiveSlots = {}
            /\ \A a \in Slots \ {new} : assignment'[a] = assignment[a]
         \/ \E prev \in LiveSlots : Supersedes(r, new, prev)
  PROVE  /\ AssignedOnce
         /\ version[req[r].version].status = "review"
         /\ \E prev \in LiveSlots :
              /\ Supersedes(r, new, prev)
              /\ assignment[prev].version = onboarding.current
              /\ assignment[prev].version # req[r].version
              /\ assignment[prev].end = Open
<1> DEFINE v == req[r].version
<1>1. v \in Versions /\ req[r].end = Open /\ version[v].status # "absent"
  BY DEF Activate, IInv, TypeOK, Confirmed, Request
<1>2. assignment'[new].version = v /\ assignment'[new].live /\ assignment'[new].end = Open
  BY <1>1 DEF Inserts
<1>3. \A a \in Slots \ {new} : assignment'[a].version = assignment[a].version
  <2>1. ASSUME NEW prev \in LiveSlots, NEW start
        PROVE  Ended(assignment[prev], start).version = assignment[prev].version
    BY DEF Ended, LiveSlots, IInv, TypeOK, AssignmentRow
  <2> QED BY <2>1 DEF Supersedes
<1>4. assignment[new].version = 0 BY DEF Inserts, Inserted
<1>5. AssignedOnce
  BY <1>3, <1>4 DEF AssignedOnce, Inserted
<1>6. \A a \in Slots : assignment[a].version # v
  <2> SUFFICES ASSUME NEW a \in Slots, assignment[a].version = v PROVE FALSE
    OBVIOUS
  <2>1. a # new /\ v # 0 BY <1>1, <1>4, Numbers
  <2> QED BY <1>2, <1>3, <2>1 DEF AssignedOnce, Inserted
<1>7. version[v].status = "review"
  BY <1>1, <1>6 DEF IInv, ActiveAssigned, TypeOK, VersionRow
<1>8. PICK c \in LiveSlots : assignment[c].version = onboarding.current /\ assignment[c].end = Open
  BY <1>5 DEF IInv, CurrentInForce
<1>9. c \in Slots /\ c # new /\ assignment[c].live
  BY DEF LiveSlots, Inserts
<1>10. assignment'[c] # assignment[c]
  <2> SUFFICES ASSUME assignment'[c] = assignment[c] PROVE FALSE
    OBVIOUS
  <2>1. assignment[c].version # 0 /\ assignment'[new].version # 0
    BY <1>1, <1>2, Numbers DEF LiveSlots, Inserted
  <2> QED BY <1>2, <1>8, <1>9, <2>1 DEF Inserts, Constraints
<1>11. PICK prev \in LiveSlots : Supersedes(r, new, prev)
  BY <1>9, <1>10
<1>12. c = prev BY <1>9, <1>10, <1>11 DEF Supersedes
<1> QED BY <1>5, <1>6, <1>7, <1>8, <1>9, <1>11, <1>12

LEMMA ActivateStep ==
  ASSUME IInv, TypeOK', NEW r \in Requests, Activate(r)
  PROVE  IInv'
<1> DEFINE v == req[r].version
<1>1. PICK new \in Slots :
        /\ Inserts(r, new)
        /\ \/ /\ LiveSlots = {}
              /\ \A a \in Slots \ {new} : assignment'[a] = assignment[a]
              /\ \A w \in Versions \ {v} : version'[w] = version[w]
           \/ \E prev \in LiveSlots : Supersedes(r, new, prev)
  BY ActivateShape DEF IInv
<1>2. v \in Versions /\ version'[v].status = "active" /\ onboarding' = [active |-> TRUE, current |-> v]
  BY <1>1 DEF IInv, TypeOK, Request, Inserts
<1>3. req[r].end = Open BY DEF IInv, Confirmed, Activate
<1>4. req'[r].op = "idle" /\ \A q \in Requests \ {r} : req'[q] = req[q]
  BY DEF Activate, Done, NoRequest, IInv, TypeOK
<1>5. \A a \in Slots \ {new} : assignment'[a].version = assignment[a].version
  <2>1. ASSUME NEW prev \in LiveSlots, NEW start
        PROVE  Ended(assignment[prev], start).version = assignment[prev].version
    BY DEF Ended, LiveSlots, IInv, TypeOK, AssignmentRow
  <2> QED BY <1>1, <2>1 DEF Supersedes
<1>6. \A w \in Versions \ {v} :
        \/ version'[w] = version[w]
        \/ /\ version'[w].status = "inactive"
           /\ \E a \in Slots \ {new} : assignment[a].version = w
  <2>1. ASSUME NEW prev \in LiveSlots, Supersedes(r, new, prev), NEW w \in Versions \ {v}
        PROVE  \/ version'[w] = version[w]
               \/ /\ version'[w].status = "inactive"
                  /\ \E a \in Slots \ {new} : assignment[a].version = w
    <3>1. prev \in Slots \ {new} BY <1>1 DEF LiveSlots, Inserts
    <3>2. CASE w = assignment[prev].version BY <2>1, <3>1, <3>2 DEF Supersedes
    <3>3. CASE w # assignment[prev].version BY <2>1, <3>3 DEF Supersedes
    <3> QED BY <3>2, <3>3
  <2> QED BY <1>1, <2>1
<1>7. Confirmed'
  BY <1>2, <1>4, <1>6 DEF IInv, Confirmed, TypeOK, Request
<1>8. DraftOpen' BY <1>2, <1>6 DEF IInv, DraftOpen
<1>9. ActiveAssigned'
  <2> SUFFICES ASSUME NEW w \in Versions, version'[w].status \in {"active", "inactive"}
               PROVE  \E a \in Slots : assignment'[a].version = w
    BY DEF ActiveAssigned
  <2>1. CASE w = v BY <1>1, <2>1 DEF Inserts
  <2>2. CASE w # v
    <3>1. PICK a \in Slots : assignment[a].version = w
      BY <1>6, <2>2 DEF IInv, ActiveAssigned
    <3>2. a # new BY <1>1, <3>1, Numbers DEF Inserts, Inserted
    <3> QED BY <1>5, <3>1, <3>2
  <2> QED BY <2>1, <2>2
<1>10. ASSUME AssignedOnce'
       PROVE  /\ \A w \in Versions : version'[w].status = "active" <=> w = v
              /\ \A w \in Versions : version'[w].status = "active" => version'[w].end = Open
              /\ AssignedOnce
  <2>1. PICK prev \in LiveSlots :
          /\ Supersedes(r, new, prev)
          /\ assignment[prev].version = onboarding.current
          /\ assignment[prev].version # v
    BY <1>1, <1>10, SupersedesCurrent
  <2>2. AssignedOnce /\ version[v].status = "review"
    BY <1>1, <1>10, SupersedesCurrent
  <2>3. version'[v].end = Open
    BY <1>2, <2>1, <2>2 DEF Supersedes, IInv, DraftOpen
  <2>4. \A w \in Versions : version[w].status = "active" <=> w = onboarding.current
    BY <2>2 DEF IInv, OneActiveVersion
  <2>5. onboarding.current \in Versions BY DEF IInv, TypeOK, OnboardingRow
  <2>6. version'[onboarding.current].status = "inactive"
    BY <2>1 DEF Supersedes
  <2>7. \A w \in Versions \ {v, onboarding.current} : version'[w] = version[w]
    BY <2>1 DEF Supersedes
  <2> HIDE DEF v
  <2> QED BY <1>2, <2>2, <2>3, <2>4, <2>5, <2>6, <2>7
<1>11. OneActiveVersion' BY <1>2, <1>10 DEF OneActiveVersion
<1>12. ActiveOpen' BY <1>4, <1>10 DEF IInv, ActiveOpen
<1>13. CurrentInForce'
  <2>1. new \in LiveSlots'
    BY <1>1, <1>2, Numbers DEF LiveSlots, Inserted, Inserts
  <2> QED BY <1>1, <1>2, <1>3, <2>1 DEF CurrentInForce, Inserts
<1>14. CurrentActive' BY <1>2 DEF CurrentActive
<1> QED BY <1>7, <1>8, <1>9, <1>11, <1>12, <1>13, <1>14 DEF IInv

-----------------------------------------------------------------------------
(* A synchronization that gets past the indexes is one of the current       *)
(* version: with another version in force without an end, the assignment it *)
(* would put back breaks the index.                                         *)
LEMMA SyncStep ==
  ASSUME IInv, TypeOK', NEW r \in Requests, SyncCommit(r)
  PROVE  IInv'
<1> DEFINE v == req[r].version
<1>1. v \in Versions /\ req[r].desired \in Dates /\ req[r].end \in Ends
  BY DEF IInv, TypeOK, Request
<1>2. PICK own \in Slots :
        /\ OwnSlot(own, v)
        /\ Constraints(version', Aligned(own, req[r]))
        /\ assignment' = OthersOff(Aligned(own, req[r]), own, req[r].desired)
  BY DEF SyncCommit
<1>3. /\ Aligned(own, req[r])[own] =
           [version |-> v, start |-> req[r].desired, end |-> req[r].end, live |-> TRUE]
      /\ \A a \in Slots \ {own} : Aligned(own, req[r])[a] = assignment[a]
  BY DEF Aligned, IInv, TypeOK
<1>4. /\ assignment'[own] =
           [version |-> v, start |-> req[r].desired, end |-> req[r].end, live |-> TRUE]
      /\ \A a \in Slots \ {own} : assignment'[a].version = assignment[a].version
  BY <1>2, <1>3 DEF OthersOff, IInv, TypeOK, AssignmentRow
<1>5. assignment[own].version \in {0, v}
  BY <1>2 DEF OwnSlot, SlotsOf, NextSlot, Inserted
<1>6. /\ \A w \in Versions : version'[w].status = version[w].status
                             /\ version'[w].end = version[w].end
      /\ onboarding' = onboarding
      /\ req'[r].op = "idle" /\ \A q \in Requests \ {r} : req'[q] = req[q]
  BY DEF SyncCommit, Done, NoRequest, IInv, TypeOK, VersionRow
<1>7. Confirmed' BY <1>6 DEF IInv, Confirmed, TypeOK, Request
<1>8. DraftOpen' BY <1>6 DEF IInv, DraftOpen
<1>9. ActiveAssigned'
  <2> SUFFICES ASSUME NEW w \in Versions, version[w].status \in {"active", "inactive"}
               PROVE  \E a \in Slots : assignment'[a].version = w
    BY <1>6 DEF ActiveAssigned
  <2>1. PICK a \in Slots : assignment[a].version = w
    BY DEF IInv, ActiveAssigned
  <2>2. a = own => w = v BY <1>5, <2>1, Numbers
  <2> QED BY <1>4, <2>1, <2>2
<1>10. ASSUME AssignedOnce' PROVE AssignedOnce
  BY <1>1, <1>4, <1>5, <1>10, Numbers DEF AssignedOnce, Inserted
<1>11. ActiveOpen' BY <1>6, <1>10 DEF IInv, ActiveOpen
<1>12. OneActiveVersion' BY <1>6, <1>10 DEF IInv, OneActiveVersion
<1>13. CurrentInForce'
  <2> SUFFICES ASSUME AssignedOnce'
               PROVE  \E a \in LiveSlots' :
                        assignment'[a].version = onboarding.current /\ assignment'[a].end = Open
    BY <1>6 DEF CurrentInForce
  <2>1. req[r].end = Open BY <1>10 DEF IInv, ActiveOpen, SyncCommit
  <2>2. PICK c \in LiveSlots :
          assignment[c].version = onboarding.current /\ assignment[c].end = Open
    BY <1>10 DEF IInv, CurrentInForce
  <2>3. c = own
    <3> SUFFICES ASSUME c # own PROVE FALSE
      OBVIOUS
    <3>1. c \in Slots /\ assignment[c].live /\ assignment[c].version # 0
      BY DEF LiveSlots, Inserted
    <3>2. v # 0 BY <1>1, Numbers
    <3> QED BY <1>2, <1>3, <2>1, <2>2, <3>1, <3>2 DEF Constraints
  <2>4. v = onboarding.current
    BY <1>5, <2>2, <2>3 DEF LiveSlots, Inserted
  <2>5. own \in LiveSlots'
    BY <1>1, <1>4, Numbers DEF LiveSlots, Inserted
  <2> QED BY <1>4, <2>1, <2>4, <2>5
<1>14. CurrentActive' BY <1>6 DEF IInv, CurrentActive, TypeOK, OnboardingRow
<1> QED BY <1>7, <1>8, <1>9, <1>11, <1>12, <1>13, <1>14 DEF IInv

-----------------------------------------------------------------------------
LEMMA InvInit == Init => IInv
<1> SUFFICES ASSUME Init PROVE IInv
  OBVIOUS
<1>1. PICK d \in Dates :
        /\ version = [v \in Versions |->
             [status |-> IF v = 1 THEN "active" ELSE "absent",
              start |-> IF v = 1 THEN d ELSE 1, end |-> Open, rules |-> 0]]
        /\ assignment = [a \in Slots |->
             [version |-> IF a = 1 THEN 1 ELSE 0, start |-> IF a = 1 THEN d ELSE 1,
              end |-> Open, live |-> a = 1]]
        /\ onboarding = [active |-> FALSE, current |-> 1]
        /\ req = [r \in Requests |-> NoRequest]
  BY DEF Init
<1>2. 1 \in Slots BY BoundsAssumption DEF Slots
<1>3. \A r \in Requests : req[r].op = "idle" BY <1>1 DEF NoRequest
<1>4. Confirmed /\ DraftOpen /\ ActiveOpen BY <1>1, <1>3 DEF Confirmed, DraftOpen, ActiveOpen
<1>5. ActiveAssigned BY <1>1, <1>2 DEF ActiveAssigned
<1>6. OneActiveVersion BY <1>1 DEF OneActiveVersion
<1>7. 1 \in LiveSlots
  <2>1. assignment[1].version = 1 /\ assignment[1].live BY <1>1, <1>2
  <2> QED BY <1>2, <2>1 DEF LiveSlots, Inserted
<1>8. assignment[1].version = onboarding.current /\ assignment[1].end = Open
  BY <1>1, <1>2
<1>9. CurrentInForce BY <1>7, <1>8 DEF CurrentInForce
<1>10. CurrentActive BY <1>1, Numbers DEF CurrentActive
<1> QED BY <1>4, <1>5, <1>6, <1>9, <1>10, TypeInit DEF IInv

LEMMA InvStep == IInv /\ [Next]_vars => IInv'
<1> SUFFICES ASSUME IInv, [Next]_vars PROVE IInv'
  OBVIOUS
<1>0. TypeOK' BY TypeStep DEF IInv
<1> USE <1>0
<1>1. CASE UNCHANGED vars BY <1>1, QuietStep DEF vars
<1>2. ASSUME NEW d \in Dates, LogSale(d) \/ DeleteSale(d) PROVE IInv'
  BY <1>2, QuietStep DEF LogSale, DeleteSale
<1>3. ASSUME NEW v \in Versions, version' = Revised(v)
      PROVE  \A w \in Versions : version'[w].status = version[w].status
                                /\ version'[w].end = version[w].end
  BY <1>3 DEF Revised, IInv, TypeOK, VersionRow
<1>4. ASSUME NEW v \in Versions, AddRule(v) PROVE IInv'
  BY <1>3, <1>4, QuietStep DEF AddRule
<1>5. ASSUME NEW r \in Requests, Done(r)
      PROVE  \A q \in Requests : req'[q].op \in {"confirm", "sync"} => req'[q] = req[q]
  BY <1>5 DEF Done, NoRequest, IInv, TypeOK
<1>6. ASSUME NEW r \in Requests, SaveRule(r) PROVE IInv'
  <2>1. req[r].version \in Versions BY DEF IInv, TypeOK, Request
  <2> QED BY <1>3, <1>5, <1>6, <2>1, QuietStep DEF SaveRule
<1>7. ASSUME NEW r \in Requests, GiveUp(r) PROVE IInv'
  BY <1>5, <1>7, QuietStep DEF GiveUp
<1>8. ASSUME NEW r \in Requests, NEW v \in Versions, NEW d \in Dates,
             NEW op \in {"confirm", "sync", "edit"}, Begin(r, op, v, d),
             op = "confirm" => version[v].status = "review",
             op = "sync" => version[v].status = "active"
      PROVE  IInv'
  <2>1. /\ req'[r].op = op /\ req'[r].version = v /\ req'[r].end = version[v].end
        /\ \A q \in Requests \ {r} : req'[q] = req[q]
        /\ UNCHANGED <<version, assignment, onboarding>>
    BY <1>8 DEF Begin, Reads, IInv, TypeOK
  <2>2. version[v].status = "review" => version[v].end = Open
    BY DEF IInv, DraftOpen
  <2> QED BY <1>8, <2>1, <2>2, QuietStep
<1>9. ASSUME NEW r \in Requests, NEW v \in Versions, LockRule(r, v) \/ ReadDraft(r, v)
      PROVE  IInv'
  <2>1. version[v].start \in Dates BY DEF IInv, TypeOK, VersionRow
  <2> QED BY <1>8, <1>9, <2>1 DEF LockRule, ReadDraft
<1>10. ASSUME NEW r \in Requests, SyncRead(r) PROVE IInv'
  <2>1. onboarding.current \in Versions BY DEF IInv, TypeOK, OnboardingRow
  <2> QED BY <1>8, <1>10, <2>1 DEF SyncRead
<1>11. CASE ReopenReview
  <2>1. onboarding.current \in Versions /\ onboarding'.current = onboarding.current
    BY <1>11 DEF ReopenReview, IInv, TypeOK, OnboardingRow
  <2> QED BY <1>3, <1>11, <2>1, QuietStep DEF ReopenReview
<1>12. ASSUME NEW r \in Requests, FinishReview(r) PROVE IInv'
  <2>1. onboarding'.current = onboarding.current
    BY <1>12 DEF FinishReview, IInv, TypeOK, OnboardingRow
  <2>2. \/ req' = req
        \/ /\ req'[r].op = "sync" /\ req'[r].version = onboarding.current
           /\ req'[r].end = version[onboarding.current].end
           /\ version[onboarding.current].status = "active"
           /\ \A q \in Requests \ {r} : req'[q] = req[q]
    BY <1>12 DEF FinishReview, Reads, IInv, TypeOK
  <2> QED BY <1>12, <2>1, <2>2, QuietStep DEF FinishReview
<1> QED
  BY <1>1, <1>2, <1>4, <1>6, <1>7, <1>9, <1>10, <1>11, <1>12, CreateStep, ActivateStep, SyncStep DEF Next

(* In every reachable state the version onboarding calls current is the one *)
(* active version, unless a version was activated twice.                    *)
THEOREM OneActiveCorrect == Spec => []OneActiveVersion
<1>1. IInv => OneActiveVersion BY DEF IInv
<1> QED BY <1>1, InvInit, InvStep, PTL DEF Spec

(* Its assignment is in force without an end: no late synchronization of a  *)
(* replaced version displaces it.                                           *)
THEOREM CurrentInForceCorrect == Spec => []CurrentInForce
<1>1. IInv => CurrentInForce BY DEF IInv
<1> QED BY <1>1, InvInit, InvStep, PTL DEF Spec

-----------------------------------------------------------------------------
(* The past of an activation: the superseded assignment covers the same     *)
(* days before the start, and the new one none of them.                     *)
LEMMA SameCovering ==
  ASSUME IInv, TypeOK', NEW r \in Requests, NEW new \in Slots, NEW prev \in LiveSlots,
         Inserts(r, new), Supersedes(r, new, prev), assignment[prev].end = Open,
         NEW d \in 1..(req[r].start - 1)
  PROVE  /\ Covering(d)' = Covering(d)
         /\ \A a \in Covering(d) : /\ assignment'[a].start = assignment[a].start
                                  /\ assignment'[a].version = assignment[a].version
<1>0. req[r].start \in Dates BY DEF IInv, TypeOK, Request
<1>1. /\ prev \in Slots /\ prev # new /\ assignment[prev] \in AssignmentRow
      /\ assignment[prev].version # 0 /\ assignment[prev].live
      /\ req[r].start \in Int /\ d \in Int /\ d < req[r].start /\ d < Open
  <2>1. /\ prev \in Slots /\ prev # new /\ assignment[prev] \in AssignmentRow
        /\ assignment[prev].version # 0 /\ assignment[prev].live
    BY DEF LiveSlots, Inserted, Inserts, IInv, TypeOK
  <2>2. /\ req[r].start \in Int /\ d \in Int /\ d < req[r].start /\ d < Open
    BY <1>0, BoundsAssumption DEF Dates, Open
  <2> QED BY <2>1, <2>2
<1>2. /\ new \notin Covering(d)
      /\ new \notin Covering(d)'
  <2>1. assignment'[new].start = req[r].start BY DEF Inserts
  <2>2. ~(req[r].start <= d) BY <1>1
  <2> QED BY <2>1, <2>2 DEF Covering, LiveSlots, Inserts, Inserted
<1>3. /\ assignment'[prev].version = assignment[prev].version
      /\ assignment'[prev].start = assignment[prev].start
      /\ prev \in Covering(d) <=> prev \in Covering(d)'
  <2>1. assignment[prev].start \in Int BY <1>1, Numbers DEF AssignmentRow
  <2>2. CASE req[r].start - 1 >= assignment[prev].start
    <3>1. assignment'[prev] = [assignment[prev] EXCEPT !.end = req[r].start - 1]
      BY <2>2 DEF Supersedes, Ended
    <3>2. /\ assignment'[prev].version = assignment[prev].version
          /\ assignment'[prev].start = assignment[prev].start
          /\ assignment'[prev].live /\ assignment'[prev].end = req[r].start - 1
      BY <1>1, <3>1 DEF AssignmentRow
    <3>3. d <= req[r].start - 1 /\ d <= assignment[prev].end
      BY <1>1, Numbers
    <3> QED BY <1>1, <2>1, <3>2, <3>3 DEF Covering, LiveSlots, Inserted
  <2>3. CASE ~(req[r].start - 1 >= assignment[prev].start)
    <3>1. assignment'[prev] = [assignment[prev] EXCEPT !.live = FALSE]
      BY <2>3 DEF Supersedes, Ended
    <3>2. /\ assignment'[prev].version = assignment[prev].version
          /\ assignment'[prev].start = assignment[prev].start
          /\ ~assignment'[prev].live
      BY <1>1, <3>1 DEF AssignmentRow
    <3>3. ~(assignment[prev].start <= d)
      BY <1>1, <2>1, <2>3
    <3> QED BY <1>1, <3>2, <3>3 DEF Covering, LiveSlots, Inserted
  <2> QED BY <2>2, <2>3
<1>4. \A a \in Slots \ {prev, new} : assignment'[a] = assignment[a]
  BY DEF Supersedes
<1>5. \A a \in Slots \ {prev, new} : a \in Covering(d) <=> a \in Covering(d)'
  BY <1>4 DEF Covering, LiveSlots, Inserted
<1>6. Covering(d) \subseteq Slots /\ Covering(d)' \subseteq Slots
  BY DEF Covering, LiveSlots
<1>7. \A a \in Slots : a \in Covering(d) <=> a \in Covering(d)'
  <2> SUFFICES ASSUME NEW a \in Slots PROVE a \in Covering(d) <=> a \in Covering(d)'
    OBVIOUS
  <2>1. CASE a = prev BY <1>3, <2>1
  <2>2. CASE a = new BY <1>2, <2>2
  <2>3. CASE a \notin {prev, new} BY <1>5, <2>3
  <2> QED BY <2>1, <2>2, <2>3
<1>8. Covering(d)' = Covering(d) BY <1>6, <1>7
<1>9. ASSUME NEW a \in Covering(d)
      PROVE  /\ assignment'[a].start = assignment[a].start
             /\ assignment'[a].version = assignment[a].version
  <2>1. a \in Slots /\ a # new BY <1>2, <1>6, <1>9
  <2>2. CASE a = prev BY <1>3, <2>2
  <2>3. CASE a # prev BY <1>4, <2>1, <2>3
  <2> QED BY <2>2, <2>3
<1> QED BY <1>8, <1>9

LEMMA PastStep ==
  ASSUME IInv, TypeOK', NEW r \in Requests, Activate(r), AssignedOnce',
         NEW d \in 1..(req[r].start - 1)
  PROVE  Governing(d)' = Governing(d)
<1>1. PICK new \in Slots :
        /\ Inserts(r, new)
        /\ \/ /\ LiveSlots = {}
              /\ \A a \in Slots \ {new} : assignment'[a] = assignment[a]
           \/ \E prev \in LiveSlots : Supersedes(r, new, prev)
  BY ActivateShape DEF IInv
<1>2. PICK prev \in LiveSlots : Supersedes(r, new, prev) /\ assignment[prev].end = Open
  BY <1>1, SupersedesCurrent
<1>3. /\ Covering(d)' = Covering(d)
      /\ \A a \in Covering(d) : /\ assignment'[a].start = assignment[a].start
                               /\ assignment'[a].version = assignment[a].version
  BY <1>1, <1>2, SameCovering
<1>4. \A a \in Slots : First(a, Covering(d))' <=> First(a, Covering(d))
  BY <1>3 DEF First, Before
<1> QED BY <1>3, <1>4 DEF Governing, First

(* No activation changes by which version the archived sales of the days    *)
(* before its start are calculated, unless it puts a version in force for   *)
(* the second time.                                                         *)
THEOREM ActivationKeepsArchiveCorrect == Spec => ActivationKeepsArchive
<1>1. ASSUME IInv, [Next]_vars
      PROVE  [\A r \in Requests : Activate(r) /\ AssignedOnce' =>
                \A d \in 1..(req[r].start - 1) : Governing(d)' = Governing(d)]_vars
  <2>1. TypeOK' BY <1>1, TypeStep DEF IInv
  <2> QED BY <1>1, <2>1, PastStep
<1> QED BY <1>1, InvInit, InvStep, PTL DEF Spec, ActivationKeepsArchive

-----------------------------------------------------------------------------
(* After a synchronization its own assignment is the only one that covers a *)
(* day from its start on.                                                   *)
LEMMA SyncStays ==
  ASSUME IInv, NEW r \in Requests, SyncCommit(r),
         req[r].version = onboarding.current,
         NEW d \in Dates, req[r].desired <= d, d <= req[r].end
  PROVE  Paying(d)' = {onboarding.current}
<1> DEFINE v == req[r].version
           row == [version |-> v, start |-> req[r].desired, end |-> req[r].end, live |-> TRUE]
<1>1. v \in Versions /\ req[r].desired \in Dates /\ req[r].end \in Ends
  BY DEF IInv, TypeOK, Request
<1>2. PICK own \in Slots :
        assignment' = OthersOff(Aligned(own, req[r]), own, req[r].desired)
  BY DEF SyncCommit
<1>3. /\ Aligned(own, req[r])[own] = row
      /\ \A a \in Slots \ {own} : Aligned(own, req[r])[a] = assignment[a]
  BY DEF Aligned, IInv, TypeOK
<1>4. assignment'[own] = row BY <1>2, <1>3 DEF OthersOff
<1>5. ASSUME NEW a \in Slots \ {own} PROVE a \notin Covering(d)'
  <2>1. CASE assignment[a].end >= req[r].desired
    <3>1. assignment'[a] = [assignment[a] EXCEPT !.live = FALSE]
      BY <1>2, <1>3, <2>1 DEF OthersOff
    <3>2. ~assignment'[a].live BY <3>1 DEF IInv, TypeOK, AssignmentRow
    <3> QED BY <3>2 DEF Covering, LiveSlots
  <2>2. CASE ~(assignment[a].end >= req[r].desired)
    <3>1. assignment'[a] = assignment[a]
      BY <1>2, <1>3, <2>2 DEF OthersOff
    <3>2. assignment[a].end \in Int /\ req[r].desired \in Int /\ d \in Int
      BY <1>1, Numbers DEF IInv, TypeOK, AssignmentRow
    <3>3. ~(d <= assignment'[a].end) BY <2>2, <3>1, <3>2
    <3> QED BY <3>3 DEF Covering
  <2> QED BY <2>1, <2>2
<1>6. own \in Covering(d)'
  BY <1>1, <1>4, Numbers DEF Covering, LiveSlots, Inserted
<1>7. Covering(d)' = {own} BY <1>5, <1>6 DEF Covering, LiveSlots
<1>8. First(own, Covering(d))'
  <2>1. Before(own, own)' BY Numbers DEF Before
  <2> QED BY <1>7, <2>1 DEF First
<1>9. Governing(d)' = {v}
  BY <1>4, <1>7, <1>8 DEF Governing, First
<1>10. version'[v].status = "active"
  BY <1>1 DEF SyncCommit, IInv, CurrentActive, TypeOK, VersionRow
<1>11. Paying(d)' = {v} BY <1>9, <1>10 DEF Paying
<1> QED BY <1>11

(* However stale what it read, a synchronization of the current version     *)
(* leaves no other version to pay a day from the start it gives it.         *)
THEOREM SyncPaysCorrect == Spec => SyncPays
<1>1. ASSUME IInv, [Next]_vars
      PROVE  [\A r \in Requests :
                SyncCommit(r) /\ req[r].version = onboarding.current =>
                  \A d \in Dates : req[r].desired <= d /\ d <= req[r].end =>
                    Paying(d)' = {onboarding.current}]_vars
  <2>1. \A r \in Requests :
          SyncCommit(r) /\ req[r].version = onboarding.current =>
            \A d \in Dates : req[r].desired <= d /\ d <= req[r].end =>
              Paying(d)' = {onboarding.current}
    <3> SUFFICES ASSUME NEW r \in Requests, SyncCommit(r),
                        req[r].version = onboarding.current,
                        NEW d \in Dates, req[r].desired <= d, d <= req[r].end
                 PROVE  Paying(d)' = {onboarding.current}
      OBVIOUS
    <3> QED BY <1>1, SyncStays
  <2> QED BY <2>1
<1> QED BY <1>1, InvInit, InvStep, PTL DEF Spec, SyncPays

=============================================================================
