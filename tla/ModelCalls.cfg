SPECIFICATION Spec
CONSTANTS
  Call = {c1, c2}
  Turn = {t1, t2}
  Chats = {t2}
  PlanPrice = {2}
  NoTurn = NoTurn
  Worst <- MCWorst
  LastMonth = 2
  Limit <- MCLimit
  Unlimited <- MCUnlimited
  TokensPerCredit = 1
  Cap = 2
  MaxFaults = 2
SYMMETRY Symmetry
CHECK_DEADLOCK FALSE
INVARIANTS TypeOK MoneyInv LedgerWithinLimits BooksBalance BilledIsBooked UseIsCounted OverByOneCall ChargedForAnswers
