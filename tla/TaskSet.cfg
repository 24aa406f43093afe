SPECIFICATION Spec
CONSTANTS
  Task = {t1, t2, t3}
  Manager = {m1}
SYMMETRY Symmetry
INVARIANTS
  CountersMatchQueue
  OldestExecutes
  OrderedIsOldest
  DispatchedOnce
  PromotedIsScan
PROPERTIES
  SimpleWaitsForOrdered
