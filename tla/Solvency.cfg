SPECIFICATION TimerSpec
CONSTANTS
  Scale = 3
  Margin = 2
  U256 = 22
  U64 = 16
  Rates = {0, 1, 2, 4, 7}
  Amounts = {0, 1, 3, 6}
  MinRate = 1
  MaxTime = 8
  MaxBalance = 8
CHECK_DEADLOCK FALSE
INVARIANTS NotEarly
PROPERTY PaidFor
