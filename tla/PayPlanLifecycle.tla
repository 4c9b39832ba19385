-------------------------- MODULE PayPlanLifecycle --------------------------
(* The pay plan of one user: draft versions, the assignments that put a     *)
(* version in force from a day on, activation, and the synchronization      *)
(* that guarded pages run before they answer (pay_plan_management.py,       *)
(* access.py, views.py, commission_engine/engine.py). Rows are numbered in   *)
(* the order of their ids.                                                  *)
EXTENDS Integers

CONSTANTS
  Requests,         \* requests of the user that may be in progress at once
  Staff,            \* whether the user is staff (internal)
  MaxDate,          \* bound: days
  MaxVersions,      \* bound: version rows
  MaxAssignments    \* bound: assignment rows

ASSUME BoundsAssumption ==
  /\ Staff \in BOOLEAN
  /\ MaxDate \in Nat \ {0}
  /\ MaxVersions \in Nat \ {0}
  /\ MaxAssignments \in Nat \ {0}

VARIABLES
  version,      \* PayPlanVersion rows
  assignment,   \* PayPlanAssignment rows
  onboarding,   \* the PayPlanOnboarding row
  sales,        \* the days with a sale, live or archived
  req           \* requests in progress and the rows they have read

vars == <<version, assignment, onboarding, sales, req>>

(* The null end date is later than every day.                              *)
Dates    == 1..MaxDate
Open     == MaxDate + 1
Ends     == Dates \cup {Open}
Versions == 1..MaxVersions
Slots    == 1..MaxAssignments

(* "review" stands for draft and review_required, which every check treats *)
(* alike; "absent" is a row not inserted yet. Of the rules of a version    *)
(* only that they changed matters.                                         *)
VersionRow ==
  [status : {"absent", "review", "active", "inactive"},
   start : Dates, end : Ends, rules : 0..1]

(* version 0: a row not inserted yet.                                      *)
AssignmentRow ==
  [version : Versions \cup {0}, start : Dates, end : Ends, live : BOOLEAN]

OnboardingRow == [active : BOOLEAN, current : Versions]

(* What a request has read: a version, and the start that a                *)
(* synchronization wants it to have.                                       *)
Request ==
  [op : {"idle", "confirm", "sync", "edit"}, version : Versions,
   start : Dates, end : Ends, desired : Dates]

NoRequest == [op |-> "idle", version |-> 1, start |-> 1, end |-> Open, desired |-> 1]

(* A user created by the application, switched to the new engine: the      *)
(* placeholder plan is active and assigned from the day of joining, and    *)
(* onboarding is not finished.                                             *)
Init ==
  \E d \in Dates :
    /\ version = [v \in Versions |->
         [status |-> IF v = 1 THEN "active" ELSE "absent",
          start |-> IF v = 1 THEN d ELSE 1, end |-> Open, rules |-> 0]]
    /\ assignment = [a \in Slots |->
         [version |-> IF a = 1 THEN 1 ELSE 0, start |-> IF a = 1 THEN d ELSE 1,
          end |-> Open, live |-> a = 1]]
    /\ onboarding = [active |-> FALSE, current |-> 1]
    /\ sales = {}
    /\ req = [r \in Requests |-> NoRequest]

(***************************************************************************)
(* Rows                                                                    *)
(***************************************************************************)

Inserted(a) == assignment[a].version # 0
LiveSlots   == {a \in Slots : Inserted(a) /\ assignment[a].live}
SlotsOf(v)  == {a \in Slots : assignment[a].version = v}

(* The next row of a table.                                                *)
NextSlot(a)    == ~Inserted(a) /\ \A b \in Slots : b < a => Inserted(b)
NextVersion(v) ==
  version[v].status = "absent" /\ \A w \in Versions : w < v => version[w].status # "absent"

(* The order "-effective_start_date", "-id".                               *)
Before(a, b) ==
  \/ assignment[a].start > assignment[b].start
  \/ assignment[a].start = assignment[b].start /\ a >= b

First(a, S) == a \in S /\ \A b \in S : Before(a, b)

(* resolve_pay_plan_version: the version assigned to a day; no element if   *)
(* there is none. Archived sales of the day are calculated with it whatever *)
(* its status (allow_historical_versions), ...                             *)
Covering(d) ==
  {a \in LiveSlots : assignment[a].start <= d /\ d <= assignment[a].end}

Governing(d) == {assignment[a].version : a \in {b \in Slots : First(b, Covering(d))}}

(* ... live ones by calculate_sale, which pays nothing by a version that is *)
(* not active.                                                             *)
Paying(d) == {v \in Governing(d) : version[v].status = "active"}

(* Mutant: the unique index on the open active assignment is missing.      *)
ConstraintsNoOpen(vs, as) ==
  \A a \in Slots : as[a].version # 0 => as[a].start <= as[a].end

(* The unique indexes and checks of both tables: a statement that breaks   *)
(* one rolls its transaction back.                                         *)
Constraints(vs, as) ==
  /\ \A a, b \in Slots : a # b /\ as[a].version # 0 /\ as[b].version # 0 =>
       /\ <<as[a].version, as[a].start>> # <<as[b].version, as[b].start>>
       /\ ~(as[a].live /\ as[a].end = Open /\ as[b].live /\ as[b].end = Open)
  /\ \A a \in Slots : as[a].version # 0 => as[a].start <= as[a].end
  /\ \A v, w \in Versions : v # w =>
       ~(vs[v].status = "active" /\ vs[v].end = Open
           /\ vs[w].status = "active" /\ vs[w].end = Open)
  /\ \A v \in Versions : vs[v].status # "absent" => vs[v].start <= vs[v].end

(***************************************************************************)
(* Requests                                                                *)
(***************************************************************************)

Idle(r) == req[r].op = "idle"

Reads(r, op, v, desired) ==
  /\ Idle(r)
  /\ req' = [req EXCEPT ![r] = [op |-> op, version |-> v, start |-> version[v].start,
                                end |-> version[v].end, desired |-> desired]]

Begin(r, op, v, desired) ==
  /\ Reads(r, op, v, desired)
  /\ UNCHANGED <<version, assignment, onboarding, sales>>

Done(r) == req' = [req EXCEPT ![r] = NoRequest]

(* A transaction is rolled back (a constraint, a draft without usable      *)
(* rules), or the worker dies.                                             *)
GiveUp(r) ==
  /\ ~Idle(r)
  /\ Done(r)
  /\ UNCHANGED <<version, assignment, onboarding, sales>>

(***************************************************************************)
(* Drafts and their rules                                                  *)
(***************************************************************************)

(* _create_version in one transaction: a draft from the day the form chose.*)
CreateDraft(v, d) ==
  /\ NextVersion(v)
  /\ version' = [version EXCEPT ![v] =
       [status |-> "review", start |-> d, end |-> Open, rules |-> 0]]
  /\ UNCHANGED <<assignment, onboarding, sales, req>>

Revised(v) == [version EXCEPT ![v].rules = 1 - @]

(* The review page adds a rule under the lock of the version.              *)
AddRule(v) ==
  /\ version[v].status = "review"
  /\ version' = Revised(v)
  /\ UNCHANGED <<assignment, onboarding, sales, req>>

MayEdit(v) ==
  \/ version[v].status = "review"
  \/ Staff /\ version[v].status # "absent"

(* edit_pay_plan_rule locks the rule, not its version, if the version is a *)
(* draft, ...                                                              *)
LockRule(r, v) ==
  /\ MayEdit(v)
  /\ \A q \in Requests : ~(req[q].op = "edit" /\ req[q].version = v)
  /\ Begin(r, "edit", v, version[v].start)

(* ... and writes it.                                                      *)
SaveRule(r) ==
  /\ req[r].op = "edit"
  /\ version' = Revised(req[r].version)
  /\ Done(r)
  /\ UNCHANGED <<assignment, onboarding, sales>>

(***************************************************************************)
(* Activation                                                              *)
(***************************************************************************)

(* The view reads the draft before the transaction of activate.            *)
ReadDraft(r, v) ==
  /\ version[v].status = "review"
  /\ Begin(r, "confirm", v, version[v].start)

(* Mutant: the previous assignment is always switched off.                 *)
EndedOff(row, start) == [row EXCEPT !.live = FALSE]

(* The previous assignment ends the day before the draft starts, or is     *)
(* switched off if it starts no earlier.                                   *)
Ended(row, start) ==
  IF start - 1 >= row.start THEN [row EXCEPT !.end = start - 1]
                            ELSE [row EXCEPT !.live = FALSE]

(* Mutant: the previous version stays active.                              *)
SupersededActive(row, ended) ==
  [row EXCEPT !.end = IF ended.live THEN ended.end ELSE @]

(* Its version becomes inactive, with the end of the assignment if that is *)
(* still in force.                                                         *)
Superseded(row, ended) ==
  [row EXCEPT !.status = "inactive", !.end = IF ended.live THEN ended.end ELSE @]

(* The effect of an activation on the rows of the assignment prev.         *)
Replaced(prev, v, start) ==
  LET ended == Ended(assignment[prev], start)
      old   == assignment[prev].version
  IN [assignments |-> [assignment EXCEPT ![prev] = ended],
      versions    |-> IF old = v THEN version
                      ELSE [version EXCEPT ![old] = Superseded(@, ended)]]

(* PayPlanActivationService.activate: one transaction on the draft as the  *)
(* view read it, serialized with other activations by the row locks on a   *)
(* version of the plan and on the previous assignment.                     *)
Activated(r, before, new) ==
  LET v == req[r].version
  IN /\ version' = [before.versions EXCEPT ![v].status = "active"]
     /\ assignment' = [before.assignments EXCEPT ![new] =
          [version |-> v, start |-> req[r].start, end |-> req[r].end, live |-> TRUE]]
     /\ Constraints(version', assignment')
     /\ onboarding' = [active |-> TRUE, current |-> v]

Activate(r) ==
  /\ req[r].op = "confirm"
  /\ \E new \in Slots :
       /\ NextSlot(new)
       /\ \/ /\ LiveSlots = {}
             /\ Activated(r, [assignments |-> assignment, versions |-> version], new)
          \/ \E prev \in LiveSlots :
               /\ First(prev, LiveSlots)
               /\ Activated(r, Replaced(prev, req[r].version, req[r].start), new)
  /\ Done(r)
  /\ UNCHANGED sales

(***************************************************************************)
(* Synchronization                                                         *)
(***************************************************************************)

(* sync_active_onboarding_assignment reads onboarding, its version and the *)
(* earliest sale, ...                                                      *)
Earliest(d, S) == d \in S /\ \A e \in S : d <= e

SyncRead(r) ==
  LET v == onboarding.current
  IN /\ onboarding.active
     /\ version[v].status = "active"
     /\ \E d \in Dates :
          /\ Earliest(d, sales \cup {version[v].start})
          /\ Begin(r, "sync", v, d)

(* ... then, in a transaction, aligns the first assignment of the version, *)
(* or a new one, ...                                                       *)
OwnSlot(a, v) ==
  IF SlotsOf(v) = {} THEN NextSlot(a)
  ELSE /\ a \in SlotsOf(v)
       /\ \A b \in SlotsOf(v) :
            \/ assignment[a].start < assignment[b].start
            \/ assignment[a].start = assignment[b].start /\ a <= b

Aligned(own, row) ==
  [assignment EXCEPT ![own] =
     [version |-> row.version, start |-> row.desired, end |-> row.end, live |-> TRUE]]

(* Mutant: only those without an end.                                      *)
OpenOthersOff(as, own, start) ==
  [a \in Slots |->
     IF a # own /\ as[a].end = Open THEN [as[a] EXCEPT !.live = FALSE] ELSE as[a]]

(* ... and switches off the others that have not ended before it.          *)
OthersOff(as, own, start) ==
  [a \in Slots |->
     IF a # own /\ as[a].end >= start THEN [as[a] EXCEPT !.live = FALSE] ELSE as[a]]

SyncCommit(r) ==
  /\ req[r].op = "sync"
  /\ version' = IF req[r].start = req[r].desired THEN version
                ELSE [version EXCEPT ![req[r].version].start = req[r].desired]
  /\ \E own \in Slots :
       /\ OwnSlot(own, req[r].version)
       /\ Constraints(version', Aligned(own, req[r]))
       /\ assignment' = OthersOff(Aligned(own, req[r]), own, req[r].desired)
  /\ Done(r)
  /\ UNCHANGED <<onboarding, sales>>

(***************************************************************************)
(* The rest                                                                *)
(***************************************************************************)

(* The review page of staff finishes onboarding and synchronizes the        *)
(* version it has read, ...                                                *)
FinishReview(r) ==
  LET v == onboarding.current
  IN /\ Staff
     /\ onboarding' = [onboarding EXCEPT !.active = TRUE]
     /\ IF version[v].status = "active"
        THEN \E d \in Dates :
               Earliest(d, sales \cup {version[v].start}) /\ Reads(r, "sync", v, d)
        ELSE req' = req
     /\ UNCHANGED <<version, assignment, sales>>

(* ... or reopens it; an approved import replaces the rules of the current *)
(* version, whatever its status. The set-up page reopens it as well.       *)
ReopenReview ==
  /\ Staff
  /\ onboarding' = [onboarding EXCEPT !.active = FALSE]
  /\ version' \in {version, Revised(onboarding.current)}
  /\ UNCHANGED <<assignment, sales, req>>

(* Sales are logged with either engine; an administrator chooses the one    *)
(* of the user. Archived sales cannot be deleted, but the earliest sale may *)
(* be one that is not archived.                                             *)
LogSale(d) ==
  /\ sales' = sales \cup {d}
  /\ UNCHANGED <<version, assignment, onboarding, req>>

DeleteSale(d) ==
  /\ sales' = sales \ {d}
  /\ UNCHANGED <<version, assignment, onboarding, req>>

Next ==
  \/ \E d \in Dates : LogSale(d) \/ DeleteSale(d)
  \/ \E v \in Versions : AddRule(v) \/ \E d \in Dates : CreateDraft(v, d)
  \/ \E r \in Requests :
       \/ Activate(r) \/ SyncRead(r) \/ SyncCommit(r) \/ SaveRule(r) \/ GiveUp(r)
       \/ FinishReview(r)
       \/ \E v \in Versions : LockRule(r, v) \/ ReadDraft(r, v)
  \/ ReopenReview

Spec == Init /\ [][Next]_vars

(***************************************************************************)
(* Properties                                                              *)
(***************************************************************************)

(* Every row has its type.                                                 *)
TypeOK ==
  /\ version \in [Versions -> VersionRow]
  /\ assignment \in [Slots -> AssignmentRow]
  /\ onboarding \in OnboardingRow
  /\ sales \subseteq Dates
  /\ req \in [Requests -> Request]

(* No version was put in force by two activations. A request may do so: it   *)
(* checks the status of the draft that its view read, and the unique start   *)
(* of assignments stops it only until a synchronization moves that start.    *)
AssignedOnce ==
  \A a, b \in Slots : Inserted(a) /\ assignment[a].version = assignment[b].version => a = b

(* The version onboarding calls current is the one active version, although *)
(* activate finds the version to supersede by the order of the assignments. *)
OneActiveVersion ==
  AssignedOnce =>
    \A v \in Versions : version[v].status = "active" <=> v = onboarding.current

(* The current version has an assignment in force without an end: neither   *)
(* an activation nor the late synchronization of a replaced version         *)
(* displaces it.                                                            *)
CurrentInForce ==
  AssignedOnce =>
    \E a \in LiveSlots : assignment[a].version = onboarding.current /\ assignment[a].end = Open

(* Drafts activated in any order may leave a day to a version that is no    *)
(* longer active, which pays nothing for it. Once the current version is    *)
(* synchronized it alone pays the live sales of its days, however stale the *)
(* rows were that the request had read.                                     *)
SyncPays ==
  [][\A r \in Requests :
       SyncCommit(r) /\ req[r].version = onboarding.current =>
         \A d \in Dates : req[r].desired <= d /\ d <= req[r].end =>
           Paying(d)' = {onboarding.current}]_vars

(* An activation does not change by which version the archived sales before *)
(* the day it starts are calculated. (The live ones are paid by none: the   *)
(* version that was in force is inactive.)                                  *)
ActivationKeepsArchive ==
  [][\A r \in Requests : Activate(r) /\ AssignedOnce' =>
       \A d \in 1..(req[r].start - 1) : Governing(d)' = Governing(d)]_vars

=============================================================================
