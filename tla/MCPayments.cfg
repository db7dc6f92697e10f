\* Two tenants; two server actions at once, either may fail at any step.
SPECIFICATION Spec
CONSTANTS
  t1 = t1
  t2 = t2
  i1 = i1
  i2 = i2
  b1 = b1
  b2 = b2
  s1 = s1
  s2 = s2
  None = None
  TotalOf <- MCTotals
  CreditOf <- MCCredits
  Tenants = {t1, t2}
  Invoices = {i1, i2}
  BankTxs = {b1}
  Sessions = {s1, s2}
  OwnerOf <- MCOwners
  Amounts = {0, 1}
  Drafts = {i2}
  MayFail = TRUE
  MaxPayments = 2
SYMMETRY Symmetry
INVARIANTS TypeOK SettledWhenCovered MatchedCarriesItsCredit
