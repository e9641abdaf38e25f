SPECIFICATION FairStatementSpec
CONSTANTS
  Principal = 20
  Rate = 10
  Thirty = 2
  Threshold = 3
  MinDays = 2
  DefaultMultiplier = 100
  Multipliers <- MCMultipliers
  MonthEnds <- MCMonthEnds
  Amounts <- MCAmounts
  MaxDay = 7
  MaxSettlements = 3
  MaxBackdate = 2
  Never = Never
PROPERTIES ResetOnlyForFuture
CHECK_DEADLOCK FALSE
