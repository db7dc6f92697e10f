\* An invoice is issued and part paid between the two balance queries.
SPECIFICATION Spec
CONSTANTS
  t1 = t1
  t2 = t2
  i1 = i1
  i2 = i2
  b1 = b1
  b2 = b2
  s1 = s1
  s2 = s2
  None = None
  TotalOf <- MCTotals
  CreditOf <- MCCredits
  Tenants = {t1}
  Invoices = {i1, i2}
  BankTxs = {}
  Sessions = {s1, s2}
  OwnerOf <- MCOwner
  Amounts = {1}
  Drafts = {i2}
  MayFail = FALSE
  MaxPayments = 2
SYMMETRY Symmetry
INVARIANT OwingIsSettled
