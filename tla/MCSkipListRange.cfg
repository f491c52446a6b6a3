CONSTANTS
  MaxKey = 2
  MaxLevel = 2
  Values = {v1}
  NoValue = NoValue
SPECIFICATION ListSpec
INVARIANT
  RangeExcludesLast
