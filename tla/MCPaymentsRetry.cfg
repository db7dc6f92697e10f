\* One operator; a step after the payment fails and the match is retried.
SPECIFICATION Spec
CONSTANTS
  t1 = t1
  t2 = t2
  i1 = i1
  i2 = i2
  b1 = b1
  b2 = b2
  s1 = s1
  s2 = s2
  None = None
  TotalOf <- MCTotals
  CreditOf <- MCCredits
  Tenants = {t1}
  Invoices = {i1, i2}
  BankTxs = {b1}
  Sessions = {s1}
  OwnerOf <- MCOwner
  Amounts = {1}
  Drafts = {}
  MayFail = TRUE
  MaxPayments = 2
INVARIANT OnePaymentPerCredit
