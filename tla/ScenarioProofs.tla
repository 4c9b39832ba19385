--------------------------- MODULE ScenarioProofs ---------------------------
(* Proofs about Scenario: whatever requests, calculations and changes of     *)
(* sales and plans interleave, a conversion happens once and leaves its      *)
(* record, and a result that is not reported stale belongs to the rules and  *)
(* deals there are, with the sales and the plan its calculation ended with.  *)
EXTENDS Scenario, SequenceTheorems, TLAPS

-----------------------------------------------------------------------------
(* The inductive invariant.                                                 *)

\* A calculation under way is one of a scenario not converted before, and of
\* the rules and deals of the row it will store.
WorkFits ==
  work # None =>
    /\ work.outcome # "copy" => drafts = << >>
    /\ work.run.result.rules = work.row.rules
    /\ work.run.result.deals = ReplayedDeals(work.row)

\* What a calculation stores has the rules and the deals of the inputs whose
\* fingerprint it stores, and was finished with their sales; the plan in force
\* is not among them.
ResultOfInputs ==
  row.calculated # 0 =>
    /\ row.result \in Result /\ row.inputs \in Fingerprint
    /\ row.result.rules = row.inputs.rules
    /\ row.result.deals = row.inputs.deals
    /\ finished.sales = row.inputs.sales
    /\ finished.sales = 0 => finished.live = None

\* A calculated scenario has a run, and the latest run, when its baseline can
\* be compared at all, has the plan in force when the calculation finished.
BaselineOfResult ==
  Exists /\ row.calculated # 0 =>
    /\ runs # << >>
    /\ Last(runs).baseline # None /\ Last(runs).baseline.by = "scenario" =>
         finished.live = Last(runs).baseline.live

IInv == TypeOK /\ AuditTrail /\ WorkFits /\ ResultOfInputs /\ BaselineOfResult

-----------------------------------------------------------------------------
(* Lemmas about the operators.                                              *)

(* Fingerprints and results have their types.                               *)
LEMMA FingerprintFacts ==
  ASSUME ScenarioAssumption, TypeOK, NEW r \in Row
  PROVE  /\ ReplayedSales(r) \in Sales /\ ReplayedDeals(r) \in Deals
         /\ ReplayedLive(r) \in Versions \cup {None}
         /\ ReplayedFacts(r) \in Facts \cup {None} /\ Replayed(r) \in Replay
         /\ \A open \in BOOLEAN : InputFingerprint(r, open) \in Fingerprint
         /\ CurrentResult(r) \in Result
         /\ \A by \in {"sandbox", "scenario"} : LiveFingerprint(by, r) \in Baseline \cup {None}
         /\ NewRun(r) \in Run
<1>1. /\ r.rules \in Contents /\ r.deals \in Deals /\ r.mode \in Modes /\ r.revision \in Nat
      /\ 0 \in Sales /\ 0 \in Deals /\ sales \in Sales /\ live \in Versions /\ facts \in Facts
  BY DEF Row, TypeOK, Sales, Deals, ScenarioAssumption
<1>2. ReplayedSales(r) \in Sales /\ ReplayedDeals(r) \in Deals
  BY <1>1 DEF ReplayedSales, ReplayedDeals
<1>3. ReplayedLive(r) \in Versions \cup {None}
  BY <1>1 DEF ReplayedLive
<1>4. \A open \in BOOLEAN : InputFingerprint(r, open) \in Fingerprint
  BY <1>1, <1>2 DEF InputFingerprint, Fingerprint
<1>8. ReplayedFacts(r) \in Facts \cup {None} /\ Replayed(r) \in Replay
  BY <1>1, <1>2, <1>3 DEF ReplayedFacts, Replayed, Replay
<1>5. CurrentResult(r) \in Result
  BY <1>1, <1>2, <1>3, <1>8 DEF CurrentResult, Result
<1>6. \A by \in {"sandbox", "scenario"} : LiveFingerprint(by, r) \in Baseline \cup {None}
  BY <1>1 DEF LiveFingerprint, Baseline
<1>7. NewRun(r) \in Run
  BY <1>4, <1>5, <1>6 DEF NewRun, Run, OriginalOpen
<1> QED BY <1>2, <1>3, <1>4, <1>5, <1>6, <1>7, <1>8

(* A stored run is the latest one.                                          *)
LEMMA StoredFacts ==
  ASSUME ScenarioAssumption, TypeOK, NEW run \in Run
  PROVE  Stored(run) \in Seq(Run) /\ Stored(run) # << >> /\ Last(Stored(run)) = run
<1>1. runs \in Seq(Run) /\ MaxRuns \in Nat \ {0}
  BY DEF TypeOK, ScenarioAssumption
<1>2. \A s \in Seq(Run) :
        Append(s, run) \in Seq(Run) /\ Append(s, run) # << >> /\ Last(Append(s, run)) = run
  BY DEF Last
<1>3. CASE Len(runs) < MaxRuns
  BY <1>1, <1>2, <1>3 DEF Stored
<1>4. CASE ~(Len(runs) < MaxRuns)
  <2>1. Tail(runs) \in Seq(Run)
    BY <1>1, <1>4
  <2>2. Stored(run) = Append(Tail(runs), run)
    BY <1>4 DEF Stored
  <2> QED BY <1>2, <2>1, <2>2
<1> QED BY <1>3, <1>4

(* The rows the requests and calculations store keep their type.            *)
LEMMA RowFacts ==
  ASSUME ScenarioAssumption, TypeOK, NEW r \in Row
  PROVE  /\ \A run \in Run : Calculated(r, run) \in Row
         /\ Converted(r) \in Row
         /\ Settled(r) \in Row
         /\ Fresh \in Row
         /\ \A changed \in BOOLEAN : Saved(changed) \in Row
         /\ \A mode \in Modes : WithMode(mode) \in Row
         /\ \A keepDeals, keepSettings \in BOOLEAN : Cleared(keepDeals, keepSettings) \in Row
<1>1. /\ row \in Row /\ r.revision \in Nat /\ row.revision \in Nat /\ r.deals \in Deals
      /\ row.deals \in Deals /\ row.mode \in Modes /\ 0 \in Deals /\ Original \in Contents
      /\ row.revision + 1 \in Nat /\ row.revision + 0 \in Nat
  BY DEF Row, TypeOK, Deals, ScenarioAssumption
<1>2. ASSUME NEW run \in Run PROVE Calculated(r, run) \in Row
  <2>1. run.inputs.open \in BOOLEAN /\ run.result \in Result
    BY DEF Run, Fingerprint
  <2>2. InputFingerprint(r, run.inputs.open) \in Fingerprint
    BY <2>1, FingerprintFacts
  <2> QED BY <1>1, <2>1, <2>2, ZenonT(60) DEF Calculated, Row
<1>3. Converted(r) \in Row
  <2>1. "converted" \in Statuses
    BY DEF Statuses
  <2> QED BY <1>1, <2>1, ZenonT(60) DEF Converted, Row
<1>4. Settled(r) \in Row
  BY <1>1, ZenonT(60) DEF Settled, Row
<1>5. Fresh \in Row
  BY <1>1 DEF Fresh, Row, Statuses, Modes, Deals
<1>6. ASSUME NEW changed \in BOOLEAN PROVE Saved(changed) \in Row
  <2>1. row.revision + (IF changed THEN 1 ELSE 0) \in Nat
    BY <1>1
  <2> QED BY <1>1, <2>1, ZenonT(60) DEF Saved, Row
<1>7. ASSUME NEW mode \in Modes PROVE WithMode(mode) \in Row
  BY <1>1, ZenonT(60) DEF WithMode, Row
<1>8. ASSUME NEW keepDeals \in BOOLEAN, NEW keepSettings \in BOOLEAN
      PROVE  Cleared(keepDeals, keepSettings) \in Row
  <2>1. /\ (IF keepDeals THEN row.deals ELSE 0) \in Deals
        /\ (IF keepSettings THEN row.mode ELSE "replay") \in Modes
    BY <1>1 DEF Modes
  <2>2. ASSUME NEW f \in Row, NEW d \in Deals, NEW m \in Modes, NEW v \in Nat
        PROVE  [f EXCEPT !.deals = d, !.mode = m, !.revision = v, !.saved = v] \in Row
    BY ZenonT(60) DEF Row
  <2> QED BY <1>1, <1>5, <2>1, <2>2 DEF Cleared
<1> QED BY <1>2, <1>3, <1>4, <1>5, <1>6, <1>7, <1>8

-----------------------------------------------------------------------------
(* Type correctness.                                                        *)

(* Every step keeps the types.                                              *)
LEMMA TypeStep ==
  ASSUME ScenarioAssumption, NoneAssumption, TypeOK, [Next]_vars
  PROVE  TypeOK'
<1> USE DEF TypeOK
<1>1. ASSUME NEW r \in Row, Store(r) PROVE TypeOK'
  BY <1>1 DEF Store
<1>2. ASSUME NEW r \in Row, NEW outcome \in Outcomes, Calculate(r, outcome) PROVE TypeOK'
  <2>1. [row |-> r, run |-> NewRun(r), outcome |-> outcome] \in Work
    BY FingerprintFacts DEF Work
  <2> QED BY <1>2, <2>1 DEF Calculate
<1>3. \A s \in Statuses : [row EXCEPT !.status = s] \in Row
  BY ZenonT(60) DEF Row
<1>4. CASE Editing
  <2>1. CASE Create
    BY <2>1, <1>1, RowFacts DEF Create
  <2>2. CASE Archive
    BY <2>2, <1>1, <1>3 DEF Archive, Statuses
  <2>3. CASE Restore
    BY <2>3, <1>1, <1>3 DEF Restore, Statuses
  <2>4. CASE Delete
    BY <2>4, <1>3 DEF Delete, Statuses
  <2>5. CASE DeleteCopy
    BY <2>5 DEF DeleteCopy
  <2>6. ASSUME NEW rules \in Contents, EditRules(rules) PROVE TypeOK'
    <3>1. row.revision + 1 \in Nat
      BY DEF Row
    <3>2. [row EXCEPT !.rules = rules, !.revision = @ + 1] \in Row
      BY <3>1, ZenonT(60) DEF Row
    <3> QED BY <2>6, <3>2, <1>1 DEF EditRules
  <2>7. ASSUME NEW q \in Requests, NEW deals \in Deals, Writes(q, deals) PROVE TypeOK'
    <3>1. NoForm \in Form /\ forms[q].revision + 1 \in Nat
      BY DEF NoForm, Form
    <3>2. [row EXCEPT !.deals = deals, !.revision = forms[q].revision + 1] \in Row
      BY <3>1, ZenonT(60) DEF Row
    <3> QED BY <2>7, <3>1, <3>2 DEF Writes
  <2>8. ASSUME NEW q \in Requests, OpenForm(q) PROVE TypeOK'
    <3>1. row.revision \in Nat
      BY DEF Row
    <3>2. [forms EXCEPT ![q].revision = row.revision] \in [Requests -> Form]
      BY <3>1 DEF Form
    <3> QED BY <2>8, <3>2 DEF OpenForm
  <2>9. ASSUME NEW q \in Requests, NEW deals \in Deals, DeleteDeal(q, deals) PROVE TypeOK'
    <3>1. [row EXCEPT !.deals = deals] \in Row
      BY ZenonT(60) DEF Row
    <3>2. [forms EXCEPT ![q].gone = TRUE] \in [Requests -> Form]
      BY DEF Form
    <3> QED BY <2>9, <3>1, <3>2 DEF DeleteDeal
  <2>10. ASSUME NEW q \in Requests, RefuseDeal(q) PROVE TypeOK'
    BY <2>10 DEF RefuseDeal, NoForm, Form
  <2>11. row.deals \in Deals
    BY DEF Row
  <2> QED
    BY <1>4, <2>1, <2>2, <2>3, <2>4, <2>5, <2>6, <2>7, <2>8, <2>9, <2>10, <2>11
    DEF Editing, SetDeal, Invalidate
<1>5. CASE Calculating
  <2> row \in Row /\ \A outcome \in {"calculate", "convert", "copy"} : outcome \in Outcomes
    BY DEF Outcomes
  <2>1. ASSUME NEW mode \in Modes, Recalculate(mode) PROVE TypeOK'
    BY <2>1, <1>2, RowFacts DEF Recalculate
  <2>2. ASSUME NEW changed \in BOOLEAN, Save(changed) PROVE TypeOK'
    BY <2>2, <1>1, <1>2, RowFacts DEF Save
  <2>3. ASSUME NEW keepDeals \in BOOLEAN, NEW keepSettings \in BOOLEAN,
               Reset(keepDeals, keepSettings)
        PROVE  TypeOK'
    BY <2>3, <1>2, RowFacts DEF Reset
  <2>4. CASE Convert
    BY <2>4, <1>2 DEF Convert
  <2>5. CASE Clone
    <3>1. [row |-> row, run |-> NewRun(row), outcome |-> "copy"] \in Work
      BY FingerprintFacts DEF Work
    <3> QED BY <2>5, <3>1 DEF Clone
  <2>6. CASE Finish
    <3> DEFINE settled == Settled(work.row)
               r == Calculated(settled, work.run)
               run == [work.run EXCEPT !.baseline = LiveFingerprint("scenario", r)]
    <3>1. work.row \in Row /\ work.run \in Run /\ work.run.result \in Result
      BY <2>6 DEF Finish, Work, Run
    <3>2. settled \in Row
      BY <3>1, RowFacts
    <3> HIDE DEF settled
    <3>3. r \in Row
      BY <3>1, <3>2, RowFacts
    <3> HIDE DEF r
    <3>4. LiveFingerprint("scenario", r) \in Baseline \cup {None}
      BY <3>3, FingerprintFacts
    <3>5. run \in Run
      BY <3>1, <3>4 DEF Run
    <3> HIDE DEF run
    <3>8. Replayed(r) \in Replay
      BY <3>3, FingerprintFacts
    <3>6. Converted(r) \in Row /\ r.rules \in Contents /\ Stored(run) \in Seq(Run)
      BY <3>3, <3>5, RowFacts, StoredFacts DEF Row
    <3>7. /\ row' = IF work.outcome = "convert" THEN Converted(r) ELSE r
          /\ drafts' = IF work.outcome = "convert" THEN Append(drafts, r.rules) ELSE drafts
          /\ runs' = Stored(run)
          /\ finished' = Replayed(r)
          /\ work' = None /\ UNCHANGED <<live, sales, facts, forms, copies>>
      BY <2>6 DEF Finish, r, run, settled
    <3> QED BY <3>3, <3>6, <3>7, <3>8
  <2>7. CASE FinishCopy
    BY <2>7 DEF FinishCopy
  <2>8. CASE RollBack
    BY <2>8 DEF RollBack
  <2>9. CASE Compare
    <3>1. NewRun(row) \in Run
      BY FingerprintFacts
    <3>2. ComparedRun = NewRun(row)
      BY <2>9 DEF Compare, ComparedRun
    <3> QED BY <2>9, <3>1, <3>2, StoredFacts DEF Compare
  <2> QED
    BY <1>5, <2>1, <2>2, <2>3, <2>4, <2>5, <2>6, <2>7, <2>8, <2>9 DEF Calculating
<1>6. CASE Production
  <2>1. live < MaxVersions => live + 1 \in Versions
    BY DEF Versions, ScenarioAssumption
  <2>2. facts < MaxFacts => facts + 1 \in Facts
    BY DEF Facts, ScenarioAssumption
  <2> QED BY <1>6, <2>1, <2>2 DEF Production, ChangeSales, ChangeFacts, ActivateVersion
<1>7. CASE UNCHANGED vars
  BY <1>7 DEF vars
<1> QED BY <1>4, <1>5, <1>6, <1>7 DEF Next

(* Every variable keeps its type in all behaviours.                         *)
THEOREM TypeCorrect == Spec => []TypeOK
<1>1. ScenarioAssumption /\ NoneAssumption
  BY ScenarioAssumption, NoneAssumption
<1>2. Init => TypeOK
  <2>1. SUFFICES ASSUME Init PROVE TypeOK
    OBVIOUS
  <2>2. Fresh \in Row
    BY <1>1 DEF Fresh, Row, Statuses, Modes, Deals, ScenarioAssumption
  <2>3. [Fresh EXCEPT !.status = "absent"] \in Row
    BY <2>2, ZenonT(60) DEF Row, Statuses
  <2>4. forms \in [Requests -> Form]
    BY <2>1 DEF Init, NoForm, Form
  <2>5. runs \in Seq(Run) /\ drafts \in Seq(Contents) /\ copies \in Nat
    <3>1. runs = << >> /\ drafts = << >> /\ copies = 0
      BY <2>1 DEF Init
    <3>2. << >> \in Seq(Run) /\ << >> \in Seq(Contents) /\ 0 \in Nat
      OBVIOUS
    <3> QED BY <3>1, <3>2
  <2>6. facts \in Facts /\ finished \in Replay
    BY <1>1, <2>1 DEF Init, Facts, Replay, Sales, ScenarioAssumption
  <2> QED BY <2>1, <2>3, <2>4, <2>5, <2>6 DEF Init, TypeOK
<1>3. TypeOK /\ [Next]_vars => TypeOK'
  BY <1>1, TypeStep
<1> QED BY <1>2, <1>3, PTL DEF Spec

-----------------------------------------------------------------------------
(* The conversion and the stored result.                                    *)

(* A converted scenario has one draft, and nothing else has any.            *)
LEMMA DraftFacts ==
  ASSUME TypeOK, AuditTrail
  PROVE  drafts = << >> \/ (row.status = "converted" /\ row.result # None)
<1>1. drafts # << >> => 1 \in DOMAIN drafts
  BY DEF TypeOK
<1> QED BY <1>1 DEF AuditTrail

(* A step that leaves the draft, the stored result and the runs alone keeps  *)
(* what relates them.                                                       *)
LEMMA QuietStep ==
  ASSUME IInv, UNCHANGED <<drafts, finished, runs>>, WorkFits',
         drafts # << >> => row'.status = row.status /\ row'.rules = row.rules,
         \/ drafts = << >> /\ row'.calculated = 0
         \/ /\ row'.calculated = row.calculated /\ row'.inputs = row.inputs
            /\ row'.result = row.result
            /\ Exists' => Exists
  PROVE  (AuditTrail /\ WorkFits /\ ResultOfInputs /\ BaselineOfResult)'
<1> USE DEF IInv
<1>1. AuditTrail'
  <2>1. CASE drafts = << >>
    <3>1. Len(drafts') = 0 /\ DOMAIN drafts' = {}
      BY <2>1
    <3> QED BY <3>1 DEF AuditTrail
  <2>2. CASE drafts # << >>
    BY <2>2 DEF AuditTrail
  <2> QED BY <2>1, <2>2
<1>2. ResultOfInputs'
  BY DEF ResultOfInputs
<1>3. BaselineOfResult'
  BY DEF BaselineOfResult
<1> QED BY <1>1, <1>2, <1>3

(* A new run has the current results, and its inputs their fingerprint.     *)
LEMMA ResultFacts ==
  ASSUME NEW r \in Row
  PROVE  /\ NewRun(r).result.rules = r.rules
         /\ NewRun(r).result.deals = ReplayedDeals(r)
         /\ Replayed(r).live = ReplayedLive(r) /\ Replayed(r).sales = ReplayedSales(r)
         /\ \A open \in BOOLEAN :
              /\ InputFingerprint(r, open).rules = r.rules
              /\ InputFingerprint(r, open).sales = ReplayedSales(r)
              /\ InputFingerprint(r, open).deals = ReplayedDeals(r)
BY DEF NewRun, CurrentResult, InputFingerprint, Replayed

(* The rest of the invariant is kept by every step.                         *)
LEMMA RestStep ==
  ASSUME ScenarioAssumption, NoneAssumption, IInv, TypeOK', [Next]_vars
  PROVE  (AuditTrail /\ WorkFits /\ ResultOfInputs /\ BaselineOfResult)'
<1> DEFINE Rest == AuditTrail /\ WorkFits /\ ResultOfInputs /\ BaselineOfResult
<1> TypeOK /\ AuditTrail /\ WorkFits /\ row \in Row /\ row' \in Row
  BY DEF IInv, TypeOK
<1>1. ASSUME row.status = "draft" PROVE drafts = << >>
  BY <1>1, DraftFacts
<1>2. ASSUME NEW r \in Row, Store(r),
             drafts # << >> => r.status = row.status /\ r.rules = row.rules,
             \/ drafts = << >> /\ r.calculated = 0
             \/ /\ r.calculated = row.calculated /\ r.inputs = row.inputs
                /\ r.result = row.result
                /\ r.status = row.status \/ Exists
      PROVE  Rest'
  <2>1. WorkFits'
    BY <1>2 DEF Store, WorkFits
  <2>2. row' = r /\ UNCHANGED <<drafts, finished, runs>> /\ (r.status = row.status => Exists' = Exists)
    BY <1>2 DEF Store, Exists
  <2> QED BY <1>2, <2>1, <2>2, QuietStep
<1>3. ASSUME NEW r \in Row, NEW outcome \in Outcomes, Calculate(r, outcome), drafts = << >>
      PROVE  Rest'
  <2>1. WorkFits'
    BY <1>3, ResultFacts DEF Calculate, WorkFits
  <2>2. UNCHANGED <<row, drafts, finished, runs>> /\ Exists' = Exists
    BY <1>3 DEF Calculate, Exists
  <2> QED BY <2>1, <2>2, QuietStep
<1>4. ASSUME UNCHANGED <<row, drafts, finished, runs, work>> PROVE Rest'
  <2>1. WorkFits' /\ Exists' = Exists
    BY <1>4 DEF WorkFits, Exists
  <2> QED BY <1>4, <2>1, QuietStep
<1>5. CASE Editing
  <2>1. CASE Create
    <3>1. drafts = << >>
      BY <2>1, DraftFacts DEF Create
    <3>2. Fresh \in Row /\ Fresh.calculated = 0
      BY RowFacts DEF Fresh
    <3> QED BY <2>1, <3>1, <3>2, <1>2 DEF Create
  <2>2. CASE Archive \/ Restore
    <3>1. ASSUME NEW s \in Statuses
          PROVE  /\ [row EXCEPT !.status = s] \in Row
                 /\ [row EXCEPT !.status = s].calculated = row.calculated
                 /\ [row EXCEPT !.status = s].inputs = row.inputs
                 /\ [row EXCEPT !.status = s].result = row.result
      <4>1. [row EXCEPT !.status = s] \in Row
        BY ZenonT(60) DEF Row
      <4> QED BY <4>1 DEF Row
    <3>2. drafts = << >> /\ Exists
      BY <2>2, DraftFacts DEF Archive, Restore, Editable, Exists
    <3> QED BY <2>2, <3>1, <3>2, <1>2 DEF Archive, Restore, Statuses
  <2>3. CASE Delete
    <3>1. runs' = << >> /\ drafts' = << >> /\ finished' = finished /\ work' = work
          /\ row' = [row EXCEPT !.status = "deleted"] /\ drafts = << >>
      BY <2>3 DEF Delete
    <3>2. row'.status = "deleted" /\ row'.calculated = row.calculated
          /\ row'.inputs = row.inputs /\ row'.result = row.result
      BY <3>1 DEF Row
    <3>3. AuditTrail'
      <4>1. Len(drafts') = 0 /\ DOMAIN drafts' = {}
        BY <3>1
      <4> QED BY <4>1 DEF AuditTrail
    <3> QED BY <3>1, <3>2, <3>3 DEF WorkFits, ResultOfInputs, BaselineOfResult, Exists, IInv
  <2>4. CASE DeleteCopy
    BY <2>4, <1>4 DEF DeleteCopy
  <2>5. ASSUME NEW rules \in Contents, EditRules(rules) PROVE Rest'
    <3> DEFINE r == [row EXCEPT !.rules = rules, !.revision = @ + 1]
    <3>1. Store(r) /\ drafts = << >>
      BY <2>5, <1>1 DEF EditRules, Editable
    <3>2. row' = r
      BY <3>1 DEF Store
    <3>3. r \in Row
      BY <3>2
    <3>4. r.calculated = row.calculated /\ r.inputs = row.inputs /\ r.result = row.result
          /\ r.status = row.status
      BY DEF Row
    <3> QED BY <3>1, <3>3, <3>4, <1>2
  <2>6. ASSUME UNCHANGED <<drafts, finished, runs, work>>,
               NEW d, NEW v, row' = [row EXCEPT !.deals = d, !.revision = v]
        PROVE  Rest'
    <3>1. /\ row'.calculated = row.calculated /\ row'.inputs = row.inputs
          /\ row'.result = row.result /\ row'.status = row.status /\ row'.rules = row.rules
      BY <2>6 DEF Row
    <3>2. WorkFits' /\ Exists' = Exists
      BY <2>6, <3>1 DEF WorkFits, Exists
    <3> QED BY <2>6, <3>1, <3>2, QuietStep
  <2>7. ASSUME NEW q \in Requests, NEW deals, Writes(q, deals) PROVE Rest'
    BY <2>7, <2>6 DEF Writes
  <2>8. ASSUME NEW q \in Requests, NEW deals \in Deals, DeleteDeal(q, deals) PROVE Rest'
    <3>1. [row EXCEPT !.deals = deals] = [row EXCEPT !.deals = deals, !.revision = row.revision]
      BY DEF Row
    <3> QED BY <2>8, <3>1, <2>6 DEF DeleteDeal
  <2>9. ASSUME NEW q \in Requests, OpenForm(q) \/ RefuseDeal(q) PROVE Rest'
    BY <2>9, <1>4 DEF OpenForm, RefuseDeal
  <2> QED
    BY <1>5, <2>1, <2>2, <2>3, <2>4, <2>5, <2>7, <2>8, <2>9 DEF Editing, SetDeal, Invalidate
<1>6. CASE Calculating
  <2> \A outcome \in {"calculate", "convert", "copy"} : outcome \in Outcomes
    BY DEF Outcomes
  <2> Editable => drafts = << >>
    BY <1>1 DEF Editable
  <2>1. ASSUME NEW mode \in Modes, Recalculate(mode) PROVE Rest'
    BY <2>1, <1>3, RowFacts DEF Recalculate
  <2>2. ASSUME NEW changed \in BOOLEAN, Save(changed) PROVE Rest'
    <3>1. Saved(changed) \in Row
      BY RowFacts
    <3>2. CASE Calculate(Saved(changed), "calculate")
      BY <2>2, <3>1, <3>2, <1>3 DEF Save
    <3>3. CASE Store(Saved(changed))
      <4>1. /\ Saved(changed).calculated = row.calculated
            /\ Saved(changed).inputs = row.inputs
            /\ Saved(changed).result = row.result /\ Saved(changed).status = row.status
        BY DEF Saved, Row
      <4> QED BY <2>2, <3>1, <3>3, <4>1, <1>2 DEF Save
    <3> QED BY <2>2, <3>2, <3>3 DEF Save
  <2>3. ASSUME NEW keepDeals \in BOOLEAN, NEW keepSettings \in BOOLEAN,
               Reset(keepDeals, keepSettings)
        PROVE  Rest'
    BY <2>3, <1>3, RowFacts DEF Reset
  <2>4. CASE Convert
    BY <2>4, <1>3 DEF Convert
  <2>5. CASE Clone
    <3>1. WorkFits'
      BY <2>5, ResultFacts DEF Clone, WorkFits
    <3>2. UNCHANGED <<row, drafts, finished, runs>> /\ Exists' = Exists
      BY <2>5 DEF Clone, Exists
    <3> QED BY <3>1, <3>2, QuietStep
  <2>6. CASE Finish
    <3> DEFINE settled == Settled(work.row)
               r == Calculated(settled, work.run)
               run == [work.run EXCEPT !.baseline = LiveFingerprint("scenario", r)]
    <3>1. work.row \in Row /\ work.run \in Run /\ work.run.result \in Result
      BY <2>6 DEF Finish, Work, Run, TypeOK
    <3>2. settled \in Row /\ settled.rules = work.row.rules
      <4>1. settled \in Row
        BY <3>1, RowFacts
      <4>2. settled.rules = work.row.rules
        BY <3>1, ZenonT(60) DEF Settled, Row
      <4> QED BY <4>1, <4>2
    <3>3. /\ drafts = << >> /\ work.run.result.rules = settled.rules
          /\ row' = IF work.outcome = "convert" THEN Converted(r) ELSE r
          /\ drafts' = IF work.outcome = "convert" THEN Append(drafts, r.rules) ELSE drafts
          /\ runs' = Stored(run)
          /\ finished' = Replayed(r)
          /\ work' = None
      BY <2>6, <3>2 DEF Finish, WorkFits
    <3> HIDE DEF settled
    <3>4. /\ r \in Row /\ r.result = work.run.result /\ r.rules = settled.rules
          /\ r.inputs = InputFingerprint(r, work.run.inputs.open)
          /\ r.deals = settled.deals /\ r.mode = settled.mode
      <4>1. r \in Row
        BY <3>1, <3>2, RowFacts
      <4> QED
        BY <3>2, <4>1
        DEF Calculated, Row, InputFingerprint, ReplayedSales, ReplayedDeals
    <3>13. work.run.inputs.open \in BOOLEAN
      BY <3>1 DEF Run, Fingerprint
    <3>14. ReplayedDeals(r) = work.run.result.deals
      <4>1. /\ settled.mode = work.row.mode
            /\ settled.deals = IF work.row.deals = 0 THEN 0 ELSE row.deals
        BY <3>1 DEF settled, Settled, Row
      <4>2. /\ work.run.result.deals = ReplayedDeals(work.row)
            /\ ReplayedDeals(work.row) \in {0, row.deals}
        BY <2>6 DEF Finish, WorkFits
      <4> HIDE DEF r, settled
      <4> QED BY <3>4, <4>1, <4>2 DEF ReplayedDeals
    <3> HIDE DEF r
    <3>5. LiveFingerprint("scenario", r) \in Baseline \cup {None}
      BY <3>4, FingerprintFacts
    <3>6. run \in Run /\ run.baseline = LiveFingerprint("scenario", r)
      BY <3>1, <3>5 DEF Run
    <3> HIDE DEF run
    <3>7. runs' # << >> /\ Last(runs').baseline = LiveFingerprint("scenario", r)
      BY <3>3, <3>6, StoredFacts
    <3>8. row'.result = r.result /\ row'.rules = r.rules /\ row'.inputs = r.inputs
      <4>1. Converted(r).result = r.result /\ Converted(r).rules = r.rules
            /\ Converted(r).inputs = r.inputs
        BY <3>4 DEF Converted, Row
      <4> QED BY <3>3, <4>1
    <3>9. AuditTrail'
      <4>1. CASE work.outcome = "convert"
        <5>1. drafts' = << r.rules >>
          BY <3>3, <4>1
        <5>2. Len(drafts') = 1 /\ DOMAIN drafts' = {1} /\ drafts'[1] = r.rules
          BY <5>1
        <5>3. row'.status = "converted"
          BY <3>3, <3>4, <4>1 DEF Converted, Row
        <5>4. row'.result # None /\ row'.result.rules = r.rules
          BY <3>1, <3>3, <3>4, <3>8 DEF NoneAssumption
        <5> QED BY <3>8, <5>2, <5>3, <5>4 DEF AuditTrail
      <4>2. CASE work.outcome # "convert"
        <5>1. drafts' = << >>
          BY <3>3, <4>2
        <5>2. Len(drafts') = 0 /\ DOMAIN drafts' = {}
          BY <5>1
        <5> QED BY <5>2 DEF AuditTrail
      <4> QED BY <4>1, <4>2
    <3>10. WorkFits'
      BY <3>3 DEF WorkFits
    <3>15. /\ finished'.sales = ReplayedSales(r) /\ finished'.live = ReplayedLive(r)
           /\ ReplayedSales(r) = 0 => ReplayedLive(r) = None
      BY <3>3, <3>4, ResultFacts DEF ReplayedLive
    <3>11. ResultOfInputs'
      <4>1. InputFingerprint(r, work.run.inputs.open) \in Fingerprint
        BY <3>4, <3>13, FingerprintFacts
      <4>2. row'.result \in Result /\ row'.result.rules = r.rules
            /\ row'.result.deals = ReplayedDeals(r)
        BY <3>1, <3>3, <3>4, <3>8, <3>14
      <4>3. /\ row'.inputs \in Fingerprint /\ row'.inputs.rules = r.rules
            /\ row'.inputs.deals = ReplayedDeals(r) /\ row'.inputs.sales = ReplayedSales(r)
        BY <3>4, <3>8, <3>13, <4>1, ResultFacts
      <4> QED BY <3>15, <4>2, <4>3 DEF ResultOfInputs
    <3>12. BaselineOfResult'
      <4>1. ASSUME Last(runs').baseline # None
            PROVE  finished'.live = Last(runs').baseline.live
        <5>1. ReplayedLive(r) # None /\ Last(runs').baseline.live = live
          BY <3>7, <4>1 DEF LiveFingerprint
        <5>2. ReplayedLive(r) = live
          BY <5>1 DEF ReplayedLive
        <5> QED BY <3>15, <5>1, <5>2
      <4> QED BY <3>7, <4>1 DEF BaselineOfResult
    <3> QED BY <3>9, <3>10, <3>11, <3>12
  <2>7. CASE FinishCopy \/ RollBack
    <3>1. WorkFits' /\ UNCHANGED <<row, drafts, finished, runs>> /\ Exists' = Exists
      BY <2>7 DEF FinishCopy, RollBack, WorkFits, Exists
    <3> QED BY <3>1, QuietStep
  <2>8. CASE Compare
    <3>1. NewRun(row) \in Run /\ ComparedRun = NewRun(row)
      BY <2>8, FingerprintFacts DEF Compare, ComparedRun
    <3>2. /\ runs' # << >> /\ Last(runs') = NewRun(row)
          /\ UNCHANGED <<row, work, drafts, finished>>
      BY <2>8, <3>1, StoredFacts DEF Compare
    <3>3. Last(runs').baseline # None => Last(runs').baseline.by = "sandbox"
      BY <3>2 DEF NewRun, LiveFingerprint
    <3>4. AuditTrail'
      BY <3>2 DEF AuditTrail
    <3> QED
      BY <3>2, <3>3, <3>4 DEF WorkFits, ResultOfInputs, BaselineOfResult, Exists, IInv
  <2> QED
    BY <1>6, <2>1, <2>2, <2>3, <2>4, <2>5, <2>6, <2>7, <2>8 DEF Calculating
<1>7. CASE Production
  BY <1>7, <1>4 DEF Production, ChangeSales, ChangeFacts, ActivateVersion
<1>8. CASE UNCHANGED vars
  BY <1>8, <1>4 DEF vars
<1> QED BY <1>5, <1>6, <1>7, <1>8 DEF Next

(* The inputs make a result that is not stale the one of its rules, deals    *)
(* and sales; what they leave out is the plan in force, and that is in the   *)
(* baseline.                                                                 *)
LEMMA NotStaleIsCurrent ==
  ASSUME ScenarioAssumption, NoneAssumption, IInv
  PROVE  ResultTrusted
<1> SUFFICES ASSUME Exists, NotStale
             PROVE  /\ row.result.rules = row.rules /\ row.result.deals = ReplayedDeals(row)
                    /\ finished = Replayed(row)
  BY DEF ResultTrusted
<1> row \in Row /\ OriginalOpen \in BOOLEAN
  BY DEF IInv, TypeOK, OriginalOpen
<1>1. /\ row.result.rules = row.rules
      /\ row.result.deals = ReplayedDeals(row)
      /\ finished.sales = ReplayedSales(row)
      /\ finished.sales = 0 => finished.live = None
  BY ResultFacts DEF IInv, ResultOfInputs, NotStale
<1>2. finished.live = ReplayedLive(row)
  <2>1. CASE ReplayedSales(row) = 0
    BY <1>1, <2>1 DEF ReplayedLive
  <2>2. CASE ReplayedSales(row) # 0
    <3>1. ReplayedLive(row) = live /\ live # None
      BY <2>2 DEF ReplayedLive, IInv, TypeOK, NoneAssumption
    <3>2. LiveFingerprint("scenario", row) = [by |-> "scenario", live |-> live]
          /\ LiveFingerprint("scenario", row) # None
      BY <3>1 DEF LiveFingerprint, Baseline, IInv, TypeOK, NoneAssumption
    <3> QED BY <3>1, <3>2 DEF IInv, BaselineOfResult, NotStale
  <2> QED BY <2>1, <2>2
<1>3. finished \in Replay
  BY DEF IInv, TypeOK
<1> QED BY <1>1, <1>2, <1>3 DEF Replayed, Replay

(* The inductive invariant holds in all behaviours.                         *)
THEOREM Inductive == Spec => []IInv
<1>1. ScenarioAssumption /\ NoneAssumption
  BY ScenarioAssumption, NoneAssumption
<1>2. Init => AuditTrail /\ WorkFits /\ ResultOfInputs /\ BaselineOfResult
  <2>1. SUFFICES ASSUME Init PROVE AuditTrail /\ WorkFits /\ ResultOfInputs /\ BaselineOfResult
    OBVIOUS
  <2>2. drafts = << >> /\ work = None /\ row = [Fresh EXCEPT !.status = "absent"]
    BY <2>1 DEF Init
  <2>3. row.status = "absent" /\ row.calculated = 0
    BY <2>2 DEF Fresh
  <2>4. Len(drafts) = 0 /\ DOMAIN drafts = {}
    BY <2>2
  <2> QED
    BY <2>2, <2>3, <2>4 DEF AuditTrail, WorkFits, ResultOfInputs, BaselineOfResult, Exists
<1>3. TypeOK /\ IInv /\ TypeOK' /\ [Next]_vars => IInv'
  BY <1>1, RestStep DEF IInv
<1>4. Init /\ TypeOK => IInv
  BY <1>2 DEF IInv
<1> QED BY <1>3, <1>4, TypeCorrect, PTL DEF Spec

(* A scenario is converted at most once, and keeps the record of it.        *)
THEOREM AuditTrailCorrect == Spec => []AuditTrail
<1>1. IInv => AuditTrail
  BY DEF IInv
<1> QED BY <1>1, Inductive, PTL

(* A result without a reason for being stale is that of the rules and the    *)
(* deals there are, and the sales and the plan in force are those of the end *)
(* of its calculation.                                                       *)
THEOREM ResultTrustedCorrect == Spec => []ResultTrusted
<1>1. ScenarioAssumption /\ NoneAssumption
  BY ScenarioAssumption, NoneAssumption
<1>2. IInv => ResultTrusted
  BY <1>1, NotStaleIsCurrent
<1> QED BY <1>2, Inductive, PTL
=============================================================================
