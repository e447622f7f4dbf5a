SPECIFICATION Spec
CONSTANTS
  Symbols = {s1}
  Leverages = {low, high}
  Quantities = {0, 1}
  OrderIds = {1, 2, 6}
  UnmappedOrders = {2}
  UnmappedEnds = {1}
  Width = 3
  AllPositions = AllPositions
  Missing = Missing
  MaxChanges = 3
  MaxPending = 2
  MaxOutages = 1
INVARIANTS
  TypeOK
  LeverageSettled
  OrdersSettled
  PositionsSettled
SYMMETRY LeverageSymmetry
CHECK_DEADLOCK FALSE
