--------------------------- MODULE CommissionRules ---------------------------
(* The rules of a pay plan and what each of them pays                       *)
(* (commission_engine/evaluators.py, conditions.py). Money is in cents,     *)
(* units are in half deals, percentages as written are in hundredths. A     *)
(* context holds the facts of a sale, the metrics of its month and what the *)
(* month says of the user, each a record of what is known, and the subtotal *)
(* of each category; a rule is a record with the fields its type needs.     *)
EXTENDS Integers, Sequences, Functions

(* A tier without a maximum, a rule without an effective start.            *)
NoEnd   == -1
NoStart == 0

Categories ==
  {"front_end", "back_end", "flat", "minimum_adjustment", "cap_adjustment",
   "bonus", "spiff", "manual_adjustment", "deduction"}

Greater(a, b) == IF a > b THEN a ELSE b

(* n / d to the cent, halves away from zero (ROUND_HALF_UP).               *)
RoundMoney(n, d) ==
  IF n >= 0 THEN (2 * n + d) \div (2 * d) ELSE -((d - 2 * n) \div (2 * d))

Total(f) == FoldFunction(+, 0, f)

(* The first of some places in a sequence.                                 *)
First(places) == CHOOSE i \in places : \A j \in places : i <= j

(***************************************************************************)
(* Conditions                                                              *)
(***************************************************************************)

HasFact(ctx, name) ==
  name \in DOMAIN ctx.sale \cup DOMAIN ctx.metrics \cup DOMAIN ctx.eligibility

Fact(ctx, name) ==
  IF name \in DOMAIN ctx.sale THEN ctx.sale[name]
  ELSE IF name \in DOMAIN ctx.metrics THEN ctx.metrics[name] ELSE ctx.eligibility[name]

Holds(c, value) ==
  CASE c.operator = "equals"                -> value = c.value
    [] c.operator = "not_equals"            -> value # c.value
    [] c.operator = "greater_than"          -> value > c.value
    [] c.operator = "greater_than_or_equal" -> value >= c.value
    [] c.operator = "less_than"             -> value < c.value
    [] c.operator = "less_than_or_equal"    -> value <= c.value
    [] c.operator = "in"                    -> value \in c.value
    [] c.operator = "not_in"                -> value \notin c.value
    [] c.operator = "between"  -> c.value[1] <= value /\ value <= c.value[2]
    [] c.operator = "is_true"               -> value = TRUE
    [] c.operator = "is_false"              -> value = FALSE

(* A fact that is not known equals nothing and is in no order.             *)
EvaluateCondition(c, ctx) ==
  IF HasFact(ctx, c.field) THEN Holds(c, Fact(ctx, c.field))
  ELSE c.operator \in {"not_equals", "not_in"}

EvaluateConditions(rule, ctx) ==
  IF rule.any
  THEN \E i \in DOMAIN rule.conditions : EvaluateCondition(rule.conditions[i], ctx)
  ELSE \A i \in DOMAIN rule.conditions : EvaluateCondition(rule.conditions[i], ctx)

Matches(rule, ctx) == rule.conditions = <<>> \/ EvaluateConditions(rule, ctx)

(* ctx.day is the day of the sale, or the last day of the period.          *)
Applies(rule, ctx) ==
  /\ rule.start # NoStart => ctx.day >= rule.start
  /\ Matches(rule, ctx)

(* What the types of rules are configured with (REQUIRED_RULE_FIELDS).     *)
AmountTypes ==
  {"flat_per_deal", "flat_backend_commission", "minimum_commission", "maximum_commission",
   "per_unit_bonus", "vehicle_spiff", "acquisition_bonus", "manual_adjustment", "deduction",
   "period_qualification_bonus"}
GrossTypes ==
  {"front_gross_percentage", "back_gross_percentage", "progressive_unit_position_percentage"}
TierTypes ==
  {"progressive_unit_position_percentage", "tiered_minimum_commission", "volume_bonus"}
LimitTypes ==
  {"minimum_commission", "maximum_commission", "tiered_minimum_commission"}

Sequence(s) == s \in Seq(Range(s))

IsTier(rule, tier) ==
  /\ {tier.low, tier.high} \subseteq Int
  /\ IF rule.type \in GrossTypes THEN tier.rate.value \in Int ELSE tier.amount \in Int

IsRule(rule) ==
  /\ rule.type \in AmountTypes => rule.amount \in Int
  /\ rule.type \in GrossTypes =>
       /\ rule.gross_field \in {"front_end_gross", "back_end_gross", "total_gross"}
       /\ rule.pack \in Int
       /\ rule.type \notin TierTypes => rule.rate.value \in Int
  /\ rule.type \in TierTypes =>
       Sequence(rule.tiers) /\ \A i \in DOMAIN rule.tiers : IsTier(rule, rule.tiers[i])
  /\ rule.type \in LimitTypes => rule.applies_to \subseteq Categories
  /\ rule.type = "per_unit_bonus" => rule.threshold \in Int
  /\ rule.type = "period_qualification_bonus" =>
       \A i \in DOMAIN rule.requirements : rule.requirements[i].value \in Int
  /\ rule.type = "survey_count_bonus" =>
       /\ Sequence(rule.grid) /\ rule.grid # <<>>
       /\ \A i \in DOMAIN rule.grid :
            rule.grid[i].count \in Int /\ rule.grid[i].total \in Int /\ rule.grid[i].rate \in Int

(***************************************************************************)
(* Results                                                                 *)
(***************************************************************************)

Item(rule, outcome, category, amount) ==
  [rule |-> rule, outcome |-> outcome, category |-> category, amount |-> amount]

Applied(rule, category, amount) == Item(rule, "applied", category, amount)
NotApplied(rule, category)      == Item(rule, "not_applied", category, 0)

(* The rule raised an error: it is skipped.                                *)
SkippedRule(rule) == Item(rule, "skipped", "flat", 0)

AppliedIf(nonzero, rule, category, amount) ==
  IF nonzero THEN Applied(rule, category, amount) ELSE NotApplied(rule, category)

(***************************************************************************)
(* One operator per kind of rule                                           *)
(***************************************************************************)

(* "5", "5%" and "0.05" are the same rate: ten-thousandths.                *)
NormalizeRate(rate) ==
  IF rate.percent \/ rate.value > 100 THEN rate.value ELSE rate.value * 100

ValidRate(rate) == NormalizeRate(rate) \in 1..10000

Percentage(rule, category, gross, rate) ==
  IF ValidRate(rate)
  THEN Applied(rule, category, RoundMoney(gross * NormalizeRate(rate), 10000))
  ELSE SkippedRule(rule)

(* A pack can make the front end negative, never the back end.             *)
FrontGrossPercentage(rule, ctx) ==
  Percentage(rule, "front_end", Fact(ctx, rule.gross_field) - rule.pack, rule.rate)

BackGrossPercentage(rule, ctx) ==
  Percentage(rule, "back_end", Greater(Fact(ctx, rule.gross_field) - rule.pack, 0), rule.rate)

InTier(units, tier) == units >= tier.low /\ (tier.high = NoEnd \/ units <= tier.high)

(* The places of the tiers that hold the units.                            *)
TiersOf(rule, units) == {i \in DOMAIN rule.tiers : InTier(units, rule.tiers[i])}

(* The whole deal is paid at the rate of the position it reaches.          *)
ProgressiveUnitPosition(rule, ctx) ==
  LET tiers == TiersOf(rule, ctx.sale.condition_units_after_sale)
  IN  IF tiers = {} THEN SkippedRule(rule)
      ELSE Percentage(rule, "front_end", Fact(ctx, rule.gross_field) - rule.pack,
                      rule.tiers[First(tiers)].rate)

Subtotal(rule, ctx) ==
  Total([c \in Categories |-> IF c \in rule.applies_to THEN ctx.subtotal[c] ELSE 0])

TieredMinimum(rule, ctx) ==
  LET tiers  == TiersOf(rule, Fact(ctx, rule.unit_metric))
      amount == Greater(rule.tiers[First(tiers)].amount - Subtotal(rule, ctx), 0)
  IN  AppliedIf(tiers # {} /\ amount > 0, rule, "front_end", amount)

(* A limit on one side of the deal is booked on that side.                 *)
OutputCategory(rule, category) ==
  IF rule.applies_to \in {{"front_end"}, {"back_end"}}
  THEN CHOOSE c \in rule.applies_to : TRUE ELSE category

Minimum(rule, ctx) ==
  AppliedIf(Subtotal(rule, ctx) < rule.amount, rule,
            OutputCategory(rule, "minimum_adjustment"), rule.amount - Subtotal(rule, ctx))

Maximum(rule, ctx) ==
  AppliedIf(Subtotal(rule, ctx) > rule.amount, rule,
            OutputCategory(rule, "cap_adjustment"), rule.amount - Subtotal(rule, ctx))

(* The units sold since the rule took effect, when the sales are at hand:  *)
(* the context of a period holds the metrics of the sales from a day on.   *)
(* Then a metric that is not one of three counts every unit.               *)
VolumeUnits(rule, ctx) ==
  IF rule.start # NoStart /\ ctx.scope = "period"
  THEN ctx.since[rule.start][
         IF rule.unit_metric \in {"monthly_new_units", "monthly_used_units",
                                  "fast_start_volume_units"}
         THEN rule.unit_metric ELSE "monthly_units"]
  ELSE IF HasFact(ctx, rule.unit_metric) THEN Fact(ctx, rule.unit_metric) ELSE 0

VolumeBonus(rule, ctx) ==
  LET tiers   == TiersOf(rule, VolumeUnits(rule, ctx))
      amounts == {rule.tiers[i].amount : i \in tiers}
  IN  AppliedIf(tiers # {}, rule, "bonus",
        IF rule.tier_mode = "cumulative" THEN Total([i \in tiers |-> rule.tiers[i].amount])
        ELSE CHOOSE amount \in amounts : \A other \in amounts : other <= amount)

(* Mutant: the units still missing are paid, not those beyond.             *)
EligibleUnitsSwapped(rule, ctx) ==
  Greater(0, rule.threshold - ctx.metrics.monthly_units + IF rule.include_threshold THEN 2 ELSE 0)

(* The threshold unit itself counts when the rule says so.                 *)
EligibleUnits(rule, ctx) ==
  Greater(0, ctx.metrics.monthly_units - rule.threshold + IF rule.include_threshold THEN 2 ELSE 0)

PerUnitBonus(rule, ctx) ==
  AppliedIf(EligibleUnits(rule, ctx) > 0, rule, "bonus",
            RoundMoney(rule.amount * EligibleUnits(rule, ctx), 2))

(* A deal, a backend product or a vehicle that pays a fixed amount.        *)
FixedAmount(rule, category) == AppliedIf(rule.amount # 0, rule, category, rule.amount)

Deduction(rule) ==
  AppliedIf(rule.amount # 0, rule, "deduction",
            -(IF rule.amount < 0 THEN -rule.amount ELSE rule.amount))

(* Of the metrics of a qualification only the units are counted anew.      *)
QualificationMetric(rule, ctx, metric) ==
  IF rule.start # NoStart /\ ctx.scope = "period" /\ metric # "monthly_total_gross"
  THEN ctx.since[rule.start][metric] ELSE ctx.metrics[metric]

Satisfied(rule, ctx, i) ==
  Holds(rule.requirements[i], QualificationMetric(rule, ctx, rule.requirements[i].metric))

PeriodQualification(rule, ctx) ==
  IF \/ rule.mode = "all" /\ \A i \in DOMAIN rule.requirements : Satisfied(rule, ctx, i)
     \/ rule.mode = "any" /\ \E i \in DOMAIN rule.requirements : Satisfied(rule, ctx, i)
  THEN Applied(rule, "bonus", rule.amount) ELSE NotApplied(rule, "bonus")

(* The row of the grid for the surveys that qualify, the last one for      *)
(* more, the first one when none fits; low scores are deducted at its rate. *)
SurveyRow(rule, qualifying) ==
  LET last == rule.grid[Len(rule.grid)].count
      rows == {i \in DOMAIN rule.grid :
                 rule.grid[i].count = IF qualifying < last THEN qualifying ELSE last}
  IN  IF rows = {} THEN rule.grid[1] ELSE rule.grid[First(rows)]

SurveyCountBonus(rule, ctx) ==
  LET row == SurveyRow(rule, ctx.eligibility.nps_qualifying_surveys)
  IN  AppliedIf(ctx.eligibility.nps_qualifying_surveys > 0 \/ ctx.eligibility.nps_low_score_surveys > 0, rule, "bonus",
        (IF ctx.eligibility.nps_qualifying_surveys > 0 THEN row.total ELSE 0)
          - row.rate * ctx.eligibility.nps_low_score_surveys)

Evaluate(rule, ctx) ==
  IF ~Applies(rule, ctx) THEN NotApplied(rule, "flat")
  ELSE CASE rule.type = "front_gross_percentage"     -> FrontGrossPercentage(rule, ctx)
         [] rule.type = "back_gross_percentage"      -> BackGrossPercentage(rule, ctx)
         [] rule.type = "progressive_unit_position_percentage"
                                                     -> ProgressiveUnitPosition(rule, ctx)
         [] rule.type = "tiered_minimum_commission"  -> TieredMinimum(rule, ctx)
         [] rule.type = "minimum_commission"         -> Minimum(rule, ctx)
         [] rule.type = "maximum_commission"         -> Maximum(rule, ctx)
         [] rule.type = "volume_bonus"               -> VolumeBonus(rule, ctx)
         [] rule.type = "per_unit_bonus"             -> PerUnitBonus(rule, ctx)
         [] rule.type = "period_qualification_bonus" -> PeriodQualification(rule, ctx)
         [] rule.type = "survey_count_bonus"         -> SurveyCountBonus(rule, ctx)
         [] rule.type = "flat_per_deal"              -> FixedAmount(rule, "flat")
         [] rule.type = "flat_backend_commission"    -> FixedAmount(rule, "back_end")
         [] rule.type = "vehicle_spiff"              -> FixedAmount(rule, "spiff")
         [] rule.type = "acquisition_bonus"          -> Applied(rule, "bonus", rule.amount)
         [] rule.type = "manual_adjustment"  -> Applied(rule, "manual_adjustment", rule.amount)
         [] rule.type = "deduction"                  -> Deduction(rule)
         [] OTHER                                    -> SkippedRule(rule)

NoResult == [items |-> <<>>, subtotal |-> [c \in Categories |-> 0]]

WithItem(result, item) ==
  [items |-> Append(result.items, item),
   subtotal |-> [result.subtotal EXCEPT ![item.category] = @ + item.amount]]

(* Mutant: the subtotals are those from before the rules.                  *)
EvaluateRuleStale(result, rule, ctx) == WithItem(result, Evaluate(rule, ctx))

EvaluateRule(result, rule, ctx) ==
  WithItem(result, Evaluate(rule, [ctx EXCEPT !.subtotal = result.subtotal]))

(* The rules at some places, in their order; each sees the subtotals of    *)
(* those before it.                                                        *)
EvaluateRules(result, rules, places, ctx) ==
  LET after[n \in 0..Len(rules)] ==
        IF n = 0 THEN result
        ELSE IF n \in places THEN EvaluateRule(after[n - 1], rules[n], ctx)
        ELSE after[n - 1]
  IN  after[Len(rules)]

(* What the items of some categories pay.                                  *)
Paid(items, categories) ==
  Total([i \in DOMAIN items |-> IF items[i].category \in categories THEN items[i].amount ELSE 0])

=============================================================================
