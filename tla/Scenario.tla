----------------------------- MODULE Scenario ------------------------------
(* A commission scenario (scenario_services.py, sandbox_services.py): a      *)
(* private copy of a pay plan whose rules are edited, replayed against the   *)
(* recorded sales and converted to a draft of the pay plan. A calculation    *)
(* holds the lock of the scenario, but reads the sales and the plan in force *)
(* twice, without a lock; the forms for hypothetical deals work on the row   *)
(* they have read before. Rules, sales and deals are contents that are only  *)
(* compared; a result is the inputs it was calculated from. One of them is   *)
(* in no fingerprint: the facts, that is the eligibility of the month and    *)
(* the mileage of the vehicles sold. The scenarios of a user share nothing   *)
(* but the record of which one each is a copy of.                            *)
EXTENDS Integers, Sequences, SequencesExt, FiniteSets

CONSTANTS
  Contents,     \* sets of rules the scenario may hold
  Original,     \* the rules of the version it starts from
  Broken,       \* those that do not compile
  Idle,         \* those without an executable rule
  None,         \* no calculation, no version, no result
  MaxVersions,  \* bound: production versions, the original is version 1
  MaxSales,     \* bound: states of the recorded sales, 0 when there are none
  MaxDeals,     \* bound: states of the hypothetical deals, likewise
  MaxFacts,     \* bound: changes of the facts
  Requests,     \* requests for a hypothetical deal at once
  MaxRevision,  \* bound: revision
  MaxCopies,    \* bound: copies of the scenario
  MaxRuns       \* bound: older runs are forgotten

ASSUME ScenarioAssumption ==
  /\ Broken \subseteq Contents /\ Idle \subseteq Contents
  /\ Original \in Contents \ Broken
  /\ None \notin Contents
  /\ MaxVersions \in Nat \ {0} /\ MaxSales \in Nat /\ MaxDeals \in Nat
  /\ MaxFacts \in Nat
  /\ MaxRevision \in Nat \ {0} /\ MaxCopies \in Nat /\ MaxRuns \in Nat \ {0}

VARIABLES
  live,      \* the production version in force for the sales
  sales,     \* the recorded sales
  facts,     \* the eligibility of the month and the mileage of the vehicles
  row,       \* CommissionSandbox row, with the rules of its draft version
  runs,      \* SandboxRun rows
  work,      \* the calculation in progress, in its transaction
  forms,     \* the requests for a hypothetical deal
  copies,    \* scenarios whose recorded source this one is
  drafts,    \* rules of the pay plan drafts it was converted to
  finished   \* what the last calculation would have replayed when it
             \* finished (history)

vars == <<live, sales, facts, row, runs, work, forms, copies, drafts, finished>>

Modes     == {"replay", "projection", "mixed"}
Statuses  == {"absent", "draft", "archived", "converted", "deleted"}
Outcomes  == {"calculate", "convert", "copy"}
Versions  == 1..MaxVersions
Sales     == 0..MaxSales
Deals     == 0..MaxDeals
Facts     == 0..MaxFacts

Result ==
  [rules : Contents, live : Versions \cup {None}, sales : Sales, deals : Deals,
   facts : Facts \cup {None}]

Replay == [live : Versions \cup {None}, sales : Sales]

Fingerprint ==
  [revision : Nat, rules : Contents, open : BOOLEAN, mode : Modes, sales : Sales, deals : Deals]

\* calculated: last_calculated_revision. inputs, open, result: what the last
\* calculation stored.
Row ==
  [status : Statuses, rules : Contents, deals : Deals, mode : Modes, revision : Nat, saved : Nat,
   calculated : Nat, inputs : Fingerprint \cup {None}, open : BOOLEAN, result : Result \cup {None}]

\* by: which of two functions made the fingerprint of the versions in force.
Baseline == [by : {"sandbox", "scenario"}, live : Versions]
Run      == [inputs : Fingerprint, result : Result, baseline : Baseline \cup {None}]
Work     == [row : Row, run : Run, outcome : Outcomes]

\* revision: the one the request has read, 0 when there is no request.
\* gone: it has deleted its deal and not yet written the revision.
Form == [revision : Nat, gone : BOOLEAN]
NoForm == [revision |-> 0, gone |-> FALSE]

ASSUME NoneAssumption ==
  None \notin Versions \cup Facts /\ None \notin Result /\ None \notin Fingerprint /\
  None \notin Baseline /\ None \notin Work

TypeOK ==
  /\ live \in Versions /\ sales \in Sales /\ facts \in Facts
  /\ row \in Row
  /\ runs \in Seq(Run)
  /\ work \in Work \cup {None}
  /\ forms \in [Requests -> Form]
  /\ copies \in Nat
  /\ drafts \in Seq(Contents)
  /\ finished \in Replay

Fresh ==
  [status |-> "draft", rules |-> Original, deals |-> 0, mode |-> "replay", revision |-> 1,
   saved |-> 1, calculated |-> 0, inputs |-> None, open |-> FALSE, result |-> None]

Init ==
  /\ live \in Versions /\ sales \in Sales /\ facts = 0
  /\ row = [Fresh EXCEPT !.status = "absent"]
  /\ runs = << >> /\ work = None /\ forms = [q \in Requests |-> NoForm]
  /\ copies = 0 /\ drafts = << >> /\ finished = [live |-> None, sales |-> 0]

-----------------------------------------------------------------------------
(* Inputs, fingerprints and staleness.                                      *)

ReplayedSales(r) == IF r.mode = "projection" THEN 0 ELSE sales
ReplayedDeals(r) == IF r.mode = "replay" THEN 0 ELSE r.deals

\* The version in force is looked up for every replayed sale.
ReplayedLive(r) == IF ReplayedSales(r) = 0 THEN None ELSE live

\* The original version's dates are in its fingerprint: the version that
\* follows it sets its end.
OriginalOpen == live = 1

Replayed(r) == [live |-> ReplayedLive(r), sales |-> ReplayedSales(r)]

\* Every sale and deal is calculated with the eligibility of its month.
ReplayedFacts(r) ==
  IF ReplayedSales(r) = 0 /\ ReplayedDeals(r) = 0 THEN None ELSE facts

(* Mutant: the deals are left to the revision.                              *)
InputFingerprintNoDeals(r, open) ==
  [revision |-> r.revision, rules |-> r.rules, open |-> open, mode |-> r.mode,
   sales |-> ReplayedSales(r), deals |-> 0]

\* open: the original version as it was read.
InputFingerprint(r, open) ==
  [revision |-> r.revision, rules |-> r.rules, open |-> open, mode |-> r.mode,
   sales |-> ReplayedSales(r), deals |-> ReplayedDeals(r)]

CurrentResult(r) ==
  [rules |-> r.rules, live |-> ReplayedLive(r), sales |-> ReplayedSales(r),
   deals |-> ReplayedDeals(r), facts |-> ReplayedFacts(r)]

LiveFingerprint(by, r) ==
  IF ReplayedLive(r) = None THEN None ELSE [by |-> by, live |-> live]

NewRun(r) ==
  [inputs |-> InputFingerprint(r, OriginalOpen), result |-> CurrentResult(r),
   baseline |-> LiveFingerprint("sandbox", r)]

\* The runs that are read again: the latest, and those that may be reused.
Stored(run) == IF Len(runs) < MaxRuns THEN Append(runs, run) ELSE Append(Tail(runs), run)

NotStale ==
  /\ row.calculated # 0 /\ row.calculated = row.revision
  /\ row.open = OriginalOpen
  /\ runs # << >> => Last(runs).baseline = LiveFingerprint("scenario", row)
  /\ row.inputs = InputFingerprint(row, OriginalOpen)

Exists   == row.status \notin {"absent", "deleted"}
Locked   == work # None
Editable == ~Locked /\ row.status = "draft"
Compiles == row.rules \notin Broken

-----------------------------------------------------------------------------
(* Calculation. Calculate opens the transaction and replays the sales it     *)
(* reads; Finish reads them again for the fingerprint and commits.           *)

Store(r) ==
  /\ r.revision <= MaxRevision
  /\ row' = r
  /\ UNCHANGED <<live, sales, facts, runs, work, forms, copies, drafts, finished>>

Calculate(r, outcome) ==
  /\ r.rules \notin Broken /\ r.revision <= MaxRevision
  /\ work' = [row |-> r, run |-> NewRun(r), outcome |-> outcome]
  /\ UNCHANGED <<live, sales, facts, row, runs, forms, copies, drafts, finished>>

\* The original version is the one the request loaded when it began.
Calculated(r, run) ==
  [r EXCEPT !.calculated = r.revision, !.inputs = InputFingerprint(r, run.inputs.open),
            !.open = run.inputs.open, !.result = run.result]

Converted(r) == [r EXCEPT !.status = "converted", !.saved = r.revision]

\* A deal may have been deleted meanwhile, but none the new run refers to.
Settled(r) == [r EXCEPT !.deals = IF @ = 0 THEN 0 ELSE row.deals]

Finish ==
  /\ work # None /\ work.outcome # "copy"
  /\ ReplayedDeals(work.row) \in {0, row.deals}
  /\ LET r == Calculated(Settled(work.row), work.run)
     IN  /\ row' = IF work.outcome = "convert" THEN Converted(r) ELSE r
         /\ drafts' = IF work.outcome = "convert" THEN Append(drafts, r.rules) ELSE drafts
         /\ runs' = Stored([work.run EXCEPT !.baseline = LiveFingerprint("scenario", r)])
         /\ finished' = Replayed(r)
  /\ work' = None
  /\ UNCHANGED <<live, sales, facts, forms, copies>>

FinishCopy ==
  /\ work # None /\ work.outcome = "copy"
  /\ copies' = copies + 1
  /\ work' = None
  /\ UNCHANGED <<live, sales, facts, row, runs, forms, drafts, finished>>

\* The request fails: nothing is kept.
RollBack ==
  /\ work # None
  /\ work' = None
  /\ UNCHANGED <<live, sales, facts, row, runs, forms, copies, drafts, finished>>

-----------------------------------------------------------------------------
(* Requests of the user.                                                    *)

Create == row.status = "absent" /\ Store(Fresh)

WithMode(mode) ==
  IF mode = row.mode THEN row ELSE [row EXCEPT !.mode = mode, !.revision = @ + 1]

Recalculate(mode) == Editable /\ Calculate(WithMode(mode), "calculate")

Saved(changed) ==
  LET revision == row.revision + (IF changed THEN 1 ELSE 0)
  IN  [row EXCEPT !.revision = revision, !.saved = revision]

\* Rules that do not compile are saved without a calculation.
Save(changed) ==
  /\ Editable
  /\ IF Compiles THEN Calculate(Saved(changed), "calculate") ELSE Store(Saved(changed))

Cleared(keepDeals, keepSettings) ==
  [Fresh EXCEPT !.deals = IF keepDeals THEN row.deals ELSE 0,
                !.mode = IF keepSettings THEN row.mode ELSE "replay",
                !.revision = row.revision + 1, !.saved = row.revision + 1]

Reset(keepDeals, keepSettings) ==
  Editable /\ Calculate(Cleared(keepDeals, keepSettings), "calculate")

(* Mutant: a scenario with a result is converted without a calculation.      *)
ConvertAsStored ==
  /\ Editable /\ drafts = << >> /\ row.rules \notin Idle \cup Broken /\ row.calculated # 0
  /\ row' = Converted(row) /\ drafts' = << row.rules >>
  /\ UNCHANGED <<live, sales, facts, runs, work, forms, copies, finished>>

Convert ==
  /\ Editable /\ drafts = << >> /\ row.rules \notin Idle
  /\ Calculate(row, "convert")

\* The copy is stored, and calculated if it compiles, under the lock of the
\* scenario it is a copy of.
Clone ==
  /\ Exists /\ ~Locked /\ copies < MaxCopies
  /\ work' = [row |-> row, run |-> NewRun(row), outcome |-> "copy"]
  /\ UNCHANGED <<live, sales, facts, row, runs, forms, copies, drafts, finished>>

DeleteCopy ==
  /\ copies > 0
  /\ copies' = copies - 1
  /\ UNCHANGED <<live, sales, facts, row, runs, work, forms, drafts, finished>>

EditRules(rules) ==
  /\ Editable /\ rules # row.rules
  /\ Store([row EXCEPT !.rules = rules, !.revision = @ + 1])

Archive == Editable /\ Store([row EXCEPT !.status = "archived"])

Restore == ~Locked /\ row.status = "archived" /\ Store([row EXCEPT !.status = "draft"])

Delete ==
  /\ ~Locked /\ row.status = "archived" /\ drafts = << >> /\ copies = 0
  /\ row' = [row EXCEPT !.status = "deleted"]
  /\ runs' = << >>
  /\ UNCHANGED <<live, sales, facts, work, forms, copies, drafts, finished>>

\* The view reads the scenario without a lock ...
OpenForm(q) ==
  /\ forms[q] = NoForm
  /\ row.status = "draft" /\ row.revision < MaxRevision
  /\ forms' = [forms EXCEPT ![q].revision = row.revision]
  /\ UNCHANGED <<live, sales, facts, row, runs, work, copies, drafts, finished>>

\* ... and writes the revision after the one it has read, with the deal it
\* adds or edits ...
Writes(q, deals) ==
  /\ Exists /\ ~Locked /\ row.saved <= forms[q].revision + 1
  /\ row' = [row EXCEPT !.deals = deals, !.revision = forms[q].revision + 1]
  /\ forms' = [forms EXCEPT ![q] = NoForm]
  /\ UNCHANGED <<live, sales, facts, runs, work, copies, drafts, finished>>

SetDeal(q, deals) ==
  forms[q] # NoForm /\ ~forms[q].gone /\ deals # 0 /\ Writes(q, deals)

\* ... or after the deal it has deleted, which takes no lock of the scenario.
DeleteDeal(q, deals) ==
  /\ forms[q] # NoForm /\ ~forms[q].gone
  /\ Exists /\ deals < row.deals
  /\ row' = [row EXCEPT !.deals = deals]
  /\ forms' = [forms EXCEPT ![q].gone = TRUE]
  /\ UNCHANGED <<live, sales, facts, runs, work, copies, drafts, finished>>

Invalidate(q) == forms[q].gone /\ Writes(q, row.deals)

\* The scenario is gone, or the constraint on the saved revision refuses.
RefuseDeal(q) ==
  /\ forms[q] # NoForm /\ ~Locked
  /\ ~Exists \/ row.saved > forms[q].revision + 1
  /\ forms' = [forms EXCEPT ![q] = NoForm]
  /\ UNCHANGED <<live, sales, facts, row, runs, work, copies, drafts, finished>>

\* A comparison reuses the latest run with the same inputs, if there is one.
Cached == SelectSeq(runs, LAMBDA run : run.inputs = InputFingerprint(row, OriginalOpen))

ComparedRun == IF Cached # << >> THEN Last(Cached) ELSE NewRun(row)

Compare ==
  /\ Editable /\ Compiles /\ Cached = << >>
  /\ runs' = Stored(ComparedRun)
  /\ UNCHANGED <<live, sales, facts, row, work, forms, copies, drafts, finished>>

-----------------------------------------------------------------------------
(* The rest of the system: sales are recorded and edited, plans activated.   *)

ChangeSales(new) ==
  /\ sales' = new /\ new # sales
  /\ UNCHANGED <<live, facts, row, runs, work, forms, copies, drafts, finished>>

\* The monthly form, or the vehicle of a sale.
ChangeFacts ==
  /\ facts < MaxFacts
  /\ facts' = facts + 1
  /\ UNCHANGED <<live, sales, row, runs, work, forms, copies, drafts, finished>>

ActivateVersion ==
  /\ live < MaxVersions
  /\ live' = live + 1
  /\ UNCHANGED <<sales, facts, row, runs, work, forms, copies, drafts, finished>>

Editing ==
  \/ Create \/ Archive \/ Restore \/ Delete \/ DeleteCopy
  \/ \E rules \in Contents : EditRules(rules)
  \/ \E q \in Requests :
       \/ OpenForm(q) \/ Invalidate(q) \/ RefuseDeal(q)
       \/ \E deals \in Deals : SetDeal(q, deals) \/ DeleteDeal(q, deals)

Calculating ==
  \/ \E mode \in Modes : Recalculate(mode)
  \/ \E changed \in BOOLEAN : Save(changed)
  \/ \E keepDeals, keepSettings \in BOOLEAN : Reset(keepDeals, keepSettings)
  \/ Convert \/ Clone \/ Finish \/ FinishCopy \/ RollBack \/ Compare

Production ==
  \/ \E new \in Sales : ChangeSales(new)
  \/ ChangeFacts \/ ActivateVersion

Next == Editing \/ Calculating \/ Production

Spec == Init /\ [][Next]_vars

-----------------------------------------------------------------------------
(* Properties.                                                              *)

(* A scenario becomes at most one draft of the pay plan, and stays the       *)
(* record of it: converted, with the rules of the draft, and with a result   *)
(* calculated from these rules, whatever requests were under way.            *)
AuditTrail ==
  /\ Len(drafts) <= 1
  /\ \A i \in DOMAIN drafts :
       /\ row.status = "converted"
       /\ row.rules = drafts[i]
       /\ row.result # None /\ row.result.rules = drafts[i]

(* Without a reason for being stale, the result of a scenario is that of its *)
(* rules and deals, and the sales and the plan in force are those of the     *)
(* moment the calculation finished, whatever was edited, activated or set    *)
(* back since; and the forms for hypothetical deals may restore a revision   *)
(* that was calculated before. (It may be out of date all the same: the      *)
(* sales and the plan were replayed before that moment, and nothing compares *)
(* the facts.)                                                               *)
ResultTrusted ==
  Exists /\ NotStale =>
    /\ row.result.rules = row.rules /\ row.result.deals = ReplayedDeals(row)
    /\ finished = Replayed(row)

=============================================================================
