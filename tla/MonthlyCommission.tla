-------------------------- MODULE MonthlyCommission --------------------------
(* The sales of one user and what the pay plan in force pays for them:      *)
(* sales are recorded, edited and deleted (views.py), and every page        *)
(* calculates the month anew from the rows (commission_engine/engine.py,    *)
(* unit_position.py, commission_service.py).                                *)
EXTENDS CommissionRules

CONSTANTS
  MaxSales,       \* bound: sales ever recorded
  MonthLength,    \* days of a month; days are numbered through the months
  Months,         \* bound: the months 0..n
  TenthDay,       \* the last day of a month of the ten-day metric
  FastStartDay,   \* the seventh working day of a month
  Facts,          \* what a sale may say
  Eligibilities,  \* what a month may say of the user
  Calendars       \* which version of the plan is assigned on each day

(* Primary keys, and days through the months.                              *)
SaleIds == 1..MaxSales
Days    == 1..(MonthLength * (Months + 1))
Month(d) == (d - 1) \div MonthLength
DayOf(d) == ((d - 1) % MonthLength) + 1

NoSale    == [day |-> 0]
NoVersion == [status |-> "missing"]

(* A half deal, a deal and, when edited, a double deal, in half units.     *)
Counts == {1, 2, 4}

IsVersion(version) ==
  /\ Sequence(version.rules)
  /\ \A i \in DOMAIN version.rules :
       IsRule(version.rules[i]) /\ version.rules[i].start \in Days \cup {NoStart}
  /\ {version.backend.percentage, version.backend.minimum, version.backend.maximum} \subseteq Int

ASSUME ConstantsAssumption ==
  /\ MaxSales \in Nat
  /\ MonthLength \in Nat \ {0}
  /\ Months \in Nat
  /\ \A f \in Facts : f.day \in Days /\ f.count \in Counts /\ {f.front, f.back} \subseteq Int
  /\ \A e \in Eligibilities :
       {e.nps_qualifying_surveys, e.nps_low_score_surveys} \subseteq Int
  /\ \A c \in Calendars :
       DOMAIN c = Days /\ \A d \in Days : c[d] # NoVersion => IsVersion(c[d])

VARIABLES
  sales,        \* Sale rows
  last,         \* the primary key given last
  calendar,     \* the assigned version of each day
  eligibility   \* PayPlanEligibility of each month

vars == <<sales, last, calendar, eligibility>>

Init ==
  /\ sales = [s \in SaleIds |-> NoSale]
  /\ last = 0
  /\ calendar \in Calendars
  /\ eligibility \in [0..Months -> Eligibilities]

(***************************************************************************)
(* Positions and metrics                                                   *)
(***************************************************************************)

Recorded == {s \in SaleIds : sales[s] # NoSale}
SalesOf(m) == {s \in Recorded : Month(sales[s].day) = m}

(* Mutant: sales of one day are not ordered.                               *)
PrecedesByDay(s, t) == sales[s].day < sales[t].day

(* The order of the sales of a month: the day, then the key.               *)
Precedes(s, t) ==
  \/ sales[s].day < sales[t].day
  \/ sales[s].day = sales[t].day /\ s < t

(* A sale without a condition belongs to no series.                        *)
SameSeries(s, t) ==
  /\ sales[s] # NoSale
  /\ sales[t] # NoSale
  /\ Month(sales[s].day) = Month(sales[t].day)
  /\ sales[s].condition = sales[t].condition
  /\ sales[t].condition # ""

(* Mutant: the rows are read newest first.                                 *)
UnitsBeforeReversed(t) ==
  Total([s \in SaleIds |-> IF SameSeries(s, t) /\ Precedes(t, s) THEN sales[s].count ELSE 0])

(* condition_unit_position: the units of the series before a sale, ...     *)
UnitsBefore(t) ==
  Total([s \in SaleIds |-> IF SameSeries(s, t) /\ Precedes(s, t) THEN sales[s].count ELSE 0])

(* ... and with it.                                                        *)
UnitsAfter(t) == IF sales[t].condition = "" THEN 0 ELSE UnitsBefore(t) + sales[t].count

(* Units of the sales of a set, and the metrics of a period.               *)
Units(S) == Total([s \in S |-> sales[s].count])
Gross(S, side) == Total([s \in S |-> sales[s][side]])

Metrics(S) ==
  [monthly_units           |-> Units(S),
   monthly_new_units       |-> Units({s \in S : sales[s].condition = "new"}),
   monthly_used_units      |-> Units({s \in S : sales[s].condition = "used"}),
   units_by_day_10         |-> Units({s \in S : DayOf(sales[s].day) <= TenthDay}),
   fast_start_volume_units |->
     Units(S) + Units({s \in S : DayOf(sales[s].day) <= FastStartDay}),
   monthly_front_gross     |-> Gross(S, "front"),
   monthly_back_gross      |-> Gross(S, "back"),
   monthly_total_gross     |-> Gross(S, "front") + Gross(S, "back")]

(***************************************************************************)
(* One sale                                                                *)
(***************************************************************************)

SaleMetrics ==
  {"monthly_units", "monthly_new_units", "monthly_used_units",
   "monthly_front_gross", "monthly_back_gross", "monthly_total_gross"}

SaleContext(s) ==
  LET f == sales[s]
      m == Metrics(SalesOf(Month(f.day)))
  IN  [scope |-> "sale", day |-> f.day, subtotal |-> NoResult.subtotal,
       sale |-> [vehicle_condition |-> f.condition, acquisition_source |-> f.source,
                 front_end_gross |-> f.front, back_end_gross |-> f.back,
                 total_gross |-> f.front + f.back, unit_credit |-> f.count,
                 condition_units_before_sale |-> UnitsBefore(s),
                 condition_units_after_sale |-> UnitsAfter(s)],
       metrics |-> [k \in SaleMetrics |-> m[k]],
       eligibility |-> eligibility[Month(f.day)]]

FrontTypes == {"front_gross_percentage", "progressive_unit_position_percentage"}
BackTypes  == {"back_gross_percentage", "flat_backend_commission"}

(* The places of some rules in a version.                                   *)
RulesOf(version, scope, types) ==
  {i \in DOMAIN version.rules :
     version.rules[i].scope = scope /\ version.rules[i].type \in types}

OtherRules(version) ==
  {i \in DOMAIN version.rules :
     /\ version.rules[i].scope = "per_sale"
     /\ version.rules[i].type \notin FrontTypes \cup BackTypes}

(* The first of some places, if there is one.                               *)
FirstOf(places) == IF places = {} THEN {} ELSE {First(places)}

(* The most specific of the rules that match, the first one of those.      *)
Selected(version, places, ctx) ==
  LET matching == {i \in places : Matches(version.rules[i], ctx)}
  IN  FirstOf({i \in matching : \A j \in matching :
                 Len(version.rules[j].conditions) <= Len(version.rules[i].conditions)})

BackRule(version, ctx) ==
  LET rules == RulesOf(version, "per_sale", BackTypes)
      default == {i \in rules : version.rules[i].conditions = <<>>}
      special == Selected(version, rules \ default, ctx)
  IN  IF special # {} THEN special ELSE FirstOf(default)

(* The percentage of the version itself, when no backend rule is selected. *)
DefaultRule(version) ==
  [type |-> "default_backend_percentage", scope |-> "per_sale", split |-> TRUE]

DefaultAmount(version, gross) ==
  LET paid == gross * version.backend.percentage
      low  == IF paid < version.backend.minimum * 10000
              THEN version.backend.minimum * 10000 ELSE paid
      high == IF version.backend.maximum # NoEnd /\ low > version.backend.maximum * 10000
              THEN version.backend.maximum * 10000 ELSE low
  IN  RoundMoney(high, 10000)

WithDefault(version, ctx, result) ==
  IF version.backend.percentage # NoEnd /\ ctx.sale.back_end_gross > 0
  THEN LET amount == DefaultAmount(version, ctx.sale.back_end_gross)
       IN  [items |-> Append(result.items, Applied(DefaultRule(version), "back_end", amount)),
            subtotal |-> [result.subtotal EXCEPT !["back_end"] = amount]]
  ELSE result

BackResult(version, ctx, result) ==
  IF BackRule(version, ctx) = {} THEN WithDefault(version, ctx, result)
  ELSE EvaluateRules(result, version.rules, BackRule(version, ctx), ctx)

FrontRule(version, ctx) ==
  Selected(version, RulesOf(version, "per_sale", FrontTypes), ctx)

WholeDeal(version, ctx) ==
  LET front == EvaluateRules(NoResult, version.rules, FrontRule(version, ctx), ctx)
  IN  EvaluateRules(BackResult(version, ctx, front), version.rules, OtherRules(version), ctx).items

(* A half deal pays half, once, when all rules and limits are resolved.    *)
Split(item) ==
  IF item.outcome = "applied" /\ item.rule.scope = "per_sale" /\ item.rule.split
  THEN [item EXCEPT !.amount = RoundMoney(@, 2)] ELSE item

SplitDeal(items, count) ==
  IF count = 1 THEN [i \in DOMAIN items |-> Split(items[i])] ELSE items

ItemsFor(version, s) == SplitDeal(WholeDeal(version, SaleContext(s)), sales[s].count)

VersionOf(s) == calendar[sales[s].day]

(***************************************************************************)
(* The month                                                               *)
(***************************************************************************)

PaidFor(version, s, categories) == Paid(ItemsFor(version, s), categories)

(* A side with gross and without commission is not configured, unless the  *)
(* dealership acquired the car.                                            *)
Unconfigured(items, gross, category) ==
  /\ gross # 0
  /\ \A i \in DOMAIN items : items[i].outcome = "applied" =>
       items[i].category # category /\ items[i].rule.type # "acquisition_bonus"

StatusOf(items, f) ==
  IF ~Unconfigured(items, f.front, "front_end") /\ ~Unconfigured(items, f.back, "back_end")
  THEN "calculated"
  ELSE IF \E i \in DOMAIN items : items[i].outcome = "applied" THEN "partial" ELSE "configuration_error"

(* What the page says of a sale; only calculated and partial ones count.   *)
Status(s) ==
  CASE VersionOf(s) = NoVersion -> "missing_plan"
    [] VersionOf(s).status = "inactive" -> "inactive_plan"
    [] OTHER -> StatusOf(ItemsFor(VersionOf(s), s), sales[s])

CalculatedSales(m) == {s \in SalesOf(m) : Status(s) \in {"calculated", "partial"}}

DealCommission(m) ==
  Total([s \in CalculatedSales(m) |-> PaidFor(VersionOf(s), s, Categories)])

(* The version of the first day of the month, or the first one to start    *)
(* in it.                                                                  *)
PeriodVersion(m) ==
  LET covered == {d \in Days : Month(d) = m /\ calendar[d] # NoVersion}
  IN  IF covered = {} THEN NoVersion
      ELSE calendar[CHOOSE d \in covered : \A e \in covered : d <= e]

PeriodContext(m) ==
  [scope |-> "period", day |-> MonthLength * (m + 1), subtotal |-> NoResult.subtotal,
   sale |-> <<>>, metrics |-> Metrics(SalesOf(m)), eligibility |-> eligibility[m],
   since |-> [d \in Days |-> Metrics({s \in SalesOf(m) : sales[s].day >= d})]]

BonusTypes ==
  {"volume_bonus", "per_unit_bonus", "period_qualification_bonus", "survey_count_bonus"}

(* A sale that no version governs leaves the month without a unit bonus.   *)
UnitBonus(m) ==
  IF PeriodVersion(m) = NoVersion \/ \E s \in SalesOf(m) : VersionOf(s) = NoVersion
  THEN 0
  ELSE Total([i \in RulesOf(PeriodVersion(m), "period", BonusTypes) |->
         Evaluate(PeriodVersion(m).rules[i], PeriodContext(m)).amount])

MonthCommission(m) == DealCommission(m) + UnitBonus(m)

(***************************************************************************)
(* Operations                                                              *)
(***************************************************************************)

(* The form for a new sale offers no double deals.                         *)
AddSale(f) ==
  /\ last + 1 \in SaleIds
  /\ f.count # 4
  /\ last' = last + 1
  /\ sales' = [sales EXCEPT ![last + 1] = f]
  /\ UNCHANGED <<calendar, eligibility>>

(* The form works on a row it read: one deleted since is inserted again.    *)
EditSale(s, f) ==
  /\ s <= last
  /\ sales' = [sales EXCEPT ![s] = f]
  /\ UNCHANGED <<last, calendar, eligibility>>

DeleteSale(s) ==
  /\ sales[s] # NoSale
  /\ sales' = [sales EXCEPT ![s] = NoSale]
  /\ UNCHANGED <<last, calendar, eligibility>>

SetEligibility(m, e) ==
  /\ eligibility' = [eligibility EXCEPT ![m] = e]
  /\ UNCHANGED <<sales, last, calendar>>

Next ==
  \/ \E f \in Facts : AddSale(f) \/ \E s \in SaleIds : EditSale(s, f)
  \/ \E s \in SaleIds : DeleteSale(s)
  \/ \E m \in 0..Months, e \in Eligibilities : SetEligibility(m, e)

Spec == Init /\ [][Next]_vars

(***************************************************************************)
(* Properties                                                              *)
(***************************************************************************)

(* Every row has its type, and no sale has a key not given yet.            *)
TypeOK ==
  /\ sales \in [SaleIds -> Facts \cup {NoSale}]
  /\ last \in SaleIds \cup {0}
  /\ \A s \in SaleIds : sales[s] # NoSale => s <= last
  /\ calendar \in Calendars
  /\ eligibility \in [0..Months -> Eligibilities]

(* The positions of the sales of a series follow one another without gap   *)
(* or overlap, whatever was edited or deleted and however many sales share *)
(* a day: no unit is paid at the rate of two positions, none is passed     *)
(* over.                                                                   *)
PositionsTile ==
  \A t \in SaleIds : SameSeries(t, t) =>
    /\ \A s \in SaleIds : SameSeries(s, t) /\ s # t =>
         UnitsAfter(s) <= UnitsBefore(t) \/ UnitsAfter(t) <= UnitsBefore(s)
    /\ \E s \in SaleIds :
         SameSeries(s, t) /\ UnitsAfter(s) = Units({u \in SaleIds : SameSeries(u, t)})

(* A later sale is not retroactive: recording, editing or deleting it      *)
(* leaves the position, and so the progressive rate, of every sale before  *)
(* it as it was.                                                           *)
Position(t) == <<UnitsBefore(t), UnitsAfter(t)>>

NonRetroactive ==
  [][\A t \in SaleIds :
       /\ sales[t] # NoSale
       /\ sales'[t] = sales[t]
       /\ \A s \in SaleIds : sales'[s] # sales[s] =>
            /\ sales[s] # NoSale => Precedes(t, s)
            /\ sales'[s] # NoSale => Precedes(t, s)'
       => Position(t)' = Position(t)]_vars

Writes(rule, side) ==
  CASE rule.type \in {"minimum_commission", "maximum_commission"} -> rule.applies_to = {side}
    [] rule.type = "tiered_minimum_commission" -> side = "front_end"
    [] OTHER -> FALSE

LastWord(version, i, side) ==
  \A j \in OtherRules(version) : j > i /\ Writes(version.rules[j], side) =>
    /\ version.rules[i].type = "minimum_commission"
    /\ version.rules[j].type = "maximum_commission"
    /\ version.rules[i].amount <= version.rules[j].amount

WithinLimits(s, version, items) ==
  LET half  == sales[s].count = 1
      slack == IF half THEN Len(items) ELSE 0
  IN  \A i \in OtherRules(version), side \in {"front_end", "back_end"} :
        LET rule  == version.rules[i]
            paid  == 2 * Paid(items, {side})
            limit == IF half THEN rule.amount ELSE 2 * rule.amount
        IN  /\ rule.type \in {"minimum_commission", "maximum_commission"}
            /\ rule.applies_to = {side}
            /\ Applies(rule, SaleContext(s))
            /\ LastWord(version, i, side)
            /\ half => \A j \in DOMAIN items : items[j].category = side => items[j].rule.split
            => IF rule.type = "minimum_commission"
               THEN paid >= limit - slack ELSE paid <= limit + slack

(* A limit on one side of the deal holds for what is paid in the end,      *)
(* unless a rule after it pays on the same side: a half deal keeps half of *)
(* it, up to the rounding of each item, if all that pays there is split.   *)
LimitsKept ==
  \A s \in Recorded : Status(s) \in {"calculated", "partial"} =>
    WithinLimits(s, VersionOf(s), ItemsFor(VersionOf(s), s))

(* A new sale never lowers the unit bonus of its month, when the bonuses   *)
(* take nothing away, count units, have no upper ends and ask for nothing  *)
(* that a sale may break.                                                  *)
UnitMetrics ==
  {"monthly_units", "monthly_new_units", "monthly_used_units", "units_by_day_10",
   "fast_start_volume_units"}
GrossMetrics == {"monthly_front_gross", "monthly_back_gross", "monthly_total_gross"}

Grows(rule, m) ==
  /\ \A i \in DOMAIN rule.conditions :
       rule.conditions[i].field \in DOMAIN eligibility[m] \ (UnitMetrics \cup GrossMetrics)
  /\ rule.type = "volume_bonus" =>
       /\ rule.unit_metric \in UnitMetrics
       /\ \A i \in DOMAIN rule.tiers : rule.tiers[i].high = NoEnd /\ rule.tiers[i].amount >= 0
  /\ rule.type \in {"per_unit_bonus", "period_qualification_bonus"} => rule.amount >= 0
  /\ rule.type = "period_qualification_bonus" =>
       \A i \in DOMAIN rule.requirements :
         /\ rule.requirements[i].metric \in UnitMetrics
         /\ rule.requirements[i].operator = "greater_than_or_equal"

BonusNeverFalls ==
  [][\A f \in Facts :
       LET m == Month(f.day)
           bonuses == RulesOf(PeriodVersion(m), "period", BonusTypes)
       IN  AddSale(f) /\ calendar[f.day] # NoVersion
             /\ (\A i \in bonuses : Grows(PeriodVersion(m).rules[i], m))
           => UnitBonus(m)' >= UnitBonus(m)]_vars

=============================================================================
