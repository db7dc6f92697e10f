\* Two operators confirm the same bank transaction; nothing fails.
SPECIFICATION Spec
CONSTANTS
  t1 = t1
  t2 = t2
  i1 = i1
  i2 = i2
  b1 = b1
  b2 = b2
  s1 = s1
  s2 = s2
  None = None
  TotalOf <- MCTotals
  CreditOf <- MCCredits
  Tenants = {t1}
  Invoices = {i1, i2}
  BankTxs = {b1}
  Sessions = {s1, s2}
  OwnerOf <- MCOwner
  Amounts = {1}
  Drafts = {}
  MayFail = FALSE
  MaxPayments = 2
SYMMETRY Symmetry
INVARIANT OnePaymentPerCredit
