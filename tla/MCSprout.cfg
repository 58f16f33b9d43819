SPECIFICATION Spec
CONSTANTS
  MaxTime = 3
  MaxTip = 2
  Window = 2
  MinAge = 1
  Drift = 1
  Limits = {0, 2}
  Beans <- BeanTimes
INVARIANTS
  SproutValid
  WeightNotNegative
PROPERTIES
  EachSecondOnce
