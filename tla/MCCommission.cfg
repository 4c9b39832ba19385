SPECIFICATION Spec
CONSTANTS
  MaxSales = 3
  MonthLength = 2
  Months = 1
  TenthDay = 1
  FastStartDay = 1
  Facts <- MCFacts
  Eligibilities <- MCEligibilities
  Calendars <- MCCalendars
INVARIANTS PositionsTile LimitsKept
PROPERTIES NonRetroactive BonusNeverFalls
