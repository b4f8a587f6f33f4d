SPECIFICATION SpinSpec
CONSTANTS
  Entry = {ann, bob}
  KindOf <- MCKindOf
  Gift = {mug}
  Round = {r1}
  Tab = {t1, t2}
  None = None
  MaxDraw = 2
  MaxTotal = 2
  AwardRow = {a1, a2}
  MaxWins = 2
  MaxOps = 5
SYMMETRY SpinSymmetry
CHECK_DEADLOCK FALSE
INVARIANTS
  SpinTypeOK
  StockWithinTotal
  StockMatchesAwards
  NobodyStuckOut
  WinsOnce
