------------------------- MODULE MCMonthlyCommission -------------------------
(* A small instance of MonthlyCommission for TLC: months of two days, two   *)
(* plans, and sales on both sides of every limit. Money is in cents.        *)
EXTENDS MonthlyCommission, TLC

Rule(type, scope, conditions, config) ==
  [type |-> type, scope |-> scope, conditions |-> conditions, any |-> FALSE,
   start |-> NoStart, split |-> TRUE, pack |-> 0] @@ config

Is(field, value) == [field |-> field, operator |-> "equals", value |-> value]
Percent(n)       == [value |-> n * 100, percent |-> TRUE]
Tier(low, high, amount) ==
  [low |-> low, high |-> high, amount |-> amount, rate |-> Percent(amount)]

(* New cars by percentage, used cars by position; limits, a spiff that is   *)
(* not split, bonuses without an upper end.                                 *)
Open ==
  [status |-> "active",
   backend |-> [percentage |-> 500, minimum |-> 20, maximum |-> 40],
   rules |-> <<
     Rule("front_gross_percentage", "per_sale", <<Is("vehicle_condition", "new")>>,
          [gross_field |-> "front_end_gross", rate |-> [value |-> 25, percent |-> FALSE]]),
     Rule("progressive_unit_position_percentage", "per_sale", <<Is("vehicle_condition", "used")>>,
          [gross_field |-> "front_end_gross",
           tiers |-> <<Tier(1, 2, 20), Tier(3, NoEnd, 30)>>]),
     Rule("back_gross_percentage", "per_sale", <<Is("acquisition_source", "trade_in")>>,
          [gross_field |-> "back_end_gross", rate |-> Percent(10)]),
     Rule("minimum_commission", "per_sale", <<>>, [applies_to |-> {"front_end"}, amount |-> 75]),
     Rule("maximum_commission", "per_sale", <<>>, [applies_to |-> {"front_end"}, amount |-> 251]),
     Rule("maximum_commission", "per_sale", <<>>, [applies_to |-> {"back_end"}, amount |-> 33]),
     Rule("vehicle_spiff", "per_sale", <<Is("vehicle_condition", "used")>>,
          [amount |-> 7, split |-> FALSE]),
     Rule("volume_bonus", "period", <<>>,
          [tiers |-> <<Tier(2, NoEnd, 10), Tier(4, NoEnd, 25)>>, tier_mode |-> "highest_only",
           unit_metric |-> "fast_start_volume_units", start |-> 2]),
     Rule("per_unit_bonus", "period", <<[field |-> "green_pea", operator |-> "is_true"]>>,
          [amount |-> 5, threshold |-> 3, include_threshold |-> TRUE]),
     Rule("period_qualification_bonus", "period", <<>>,
          [amount |-> 9, mode |-> "all", start |-> 2,
           requirements |-> <<[metric |-> "units_by_day_10", value |-> 1,
                               operator |-> "greater_than_or_equal"]>>]),
     Rule("survey_count_bonus", "period", <<>>,
          [grid |-> <<[count |-> 1, total |-> 8, rate |-> 3], [count |-> 2, total |-> 20, rate |-> 4]>>])
   >>]

(* A tier with a gap at a half deal, bounded bonuses, fixed amounts.        *)
Bounded ==
  [status |-> "active",
   backend |-> [percentage |-> NoEnd, minimum |-> 0, maximum |-> NoEnd],
   rules |-> <<
     Rule("progressive_unit_position_percentage", "per_sale", <<>>,
          [gross_field |-> "front_end_gross", tiers |-> <<Tier(1, 2, 20), Tier(4, NoEnd, 30)>>]),
     Rule("flat_backend_commission", "per_sale", <<>>, [amount |-> 15]),
     Rule("tiered_minimum_commission", "per_sale", <<>>,
          [applies_to |-> {"front_end"}, unit_metric |-> "monthly_new_units",
           tiers |-> <<Tier(2, NoEnd, 80)>>]),
     Rule("flat_per_deal", "per_sale", <<>>, [amount |-> 11]),
     Rule("maximum_commission", "per_sale", <<>>,
          [applies_to |-> {"front_end", "flat"}, amount |-> 200]),
     Rule("acquisition_bonus", "per_sale", <<Is("acquisition_source", "trade_in")>>,
          [amount |-> 13]),
     Rule("manual_adjustment", "per_sale", <<>>, [amount |-> 1]),
     Rule("deduction", "per_sale", <<>>, [amount |-> 2]),
     Rule("volume_bonus", "period", <<>>,
          [tiers |-> <<Tier(1, 2, 10), Tier(4, NoEnd, 25)>>, tier_mode |-> "cumulative",
           unit_metric |-> "monthly_units"])
   >>]

Retired == [Open EXCEPT !.status = "inactive"]

Sale(day, condition, source, count, front, back) ==
  [day |-> day, condition |-> condition, source |-> source, count |-> count,
   front |-> front, back |-> back]

MCFacts ==
  {Sale(1, "used", "", 1, 1001, 0), Sale(1, "used", "", 2, 100, 999),
   Sale(2, "used", "trade_in", 2, 1003, 999), Sale(2, "used", "", 4, -300, 0),
   Sale(1, "new", "", 1, 100, 301), Sale(2, "new", "trade_in", 2, 3000, 301),
   Sale(2, "", "", 2, 500, 0), Sale(3, "used", "", 1, 1001, 601)}

Known   == [green_pea |-> TRUE, nps_qualifying_surveys |-> 3, nps_low_score_surveys |-> 1]
Unknown == [nps_qualifying_surveys |-> 0, nps_low_score_surveys |-> 0]

MCEligibilities == {Known, Unknown}

MCCalendars ==
  {[d \in Days |-> Open], [d \in Days |-> Bounded],
   [d \in Days |-> IF d = 1 THEN NoVersion ELSE Open],
   [d \in Days |-> IF d = 1 THEN Retired ELSE Bounded]}
=============================================================================
