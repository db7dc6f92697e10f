------------------------ MODULE InvoiceRegisterProofs ------------------------
(* The register is gap-free for any number of invoices and years.          *)
EXTENDS InvoiceRegister, TLAPS

(* An invoice that is not registered has nothing in its entry: without     *)
(* this an unnumbered invoice could share a number with a registered one.  *)
Unregistered ==
    \A i \in InvoiceIds : entry[i].status = "none" => entry[i] = NoEntry

RegisterInv == TypeOK /\ Unregistered /\ GapFree

LEMMA RegisterInit ==
    ASSUME YearsArePositive, Init
    PROVE  RegisterInv
BY DEF YearsArePositive, Init, RegisterInv, TypeOK, Unregistered, GapFree,
      NoEntry, NoNumber, Number, Settled

LEMMA RegisterEnter ==
    ASSUME NEW i \in InvoiceIds, NEW y \in Years, NEW lines \in SUBSET Items,
           YearsArePositive, RegisterInv, Enter(i, y, lines)
    PROVE  RegisterInv'
<1> USE DEF RegisterInv, YearsArePositive
<1> DEFINE new == [year |-> y, seq |-> last[y] + 1]
<1>1. /\ entry' = [entry EXCEPT ![i] = [number |-> new, status |-> "issued", lines |-> lines]]
      /\ last' = [last EXCEPT ![y] = last[y] + 1]
      /\ entry[i] = NoEntry
      /\ last[y] \in Nat
  BY DEF Enter, TypeOK
<1>2. TypeOK'
  BY <1>1 DEF TypeOK, Number, Settled
<1>3. Unregistered'
  BY <1>1 DEF Unregistered, TypeOK, NoEntry
<1>4. ASSUME NEW x \in Years, NEW n \in 1 .. last'[x]
      PROVE  \E j \in InvoiceIds : entry'[j].number = [year |-> x, seq |-> n]
  <2>1. CASE x = y /\ n = last[y] + 1
    BY <2>1, <1>1 DEF TypeOK
  <2>2. CASE ~(x = y /\ n = last[y] + 1)
    <3>1. n \in 1 .. last[x]
      BY <2>2, <1>1 DEF TypeOK
    <3>2. PICK j \in InvoiceIds : entry[j].number = [year |-> x, seq |-> n]
      BY <3>1 DEF GapFree
    <3>3. j # i
      BY <3>2, <1>1 DEF NoEntry, NoNumber
    <3> QED BY <3>2, <3>3, <1>1 DEF TypeOK
  <2> QED BY <2>1, <2>2
<1>5. ASSUME NEW j \in InvoiceIds, entry'[j].status # "none"
      PROVE  /\ entry'[j].number.year \in Years
             /\ entry'[j].number.seq \in 1 .. last'[entry'[j].number.year]
  <2>1. CASE j = i
    BY <2>1, <1>1 DEF TypeOK
  <2>2. CASE j # i
    <3>1. entry'[j] = entry[j]
      BY <2>2, <1>1 DEF TypeOK
    <3>2. /\ entry[j].number.year \in Years
          /\ entry[j].number.seq \in 1 .. last[entry[j].number.year]
      BY <1>5, <3>1 DEF GapFree
    <3> QED BY <3>1, <3>2, <1>1 DEF TypeOK
  <2> QED BY <2>1, <2>2
<1>6. ASSUME NEW j \in InvoiceIds, NEW k \in InvoiceIds,
             entry'[j].status # "none", entry'[j].number = entry'[k].number
      PROVE  j = k
  <2>1. \A m \in InvoiceIds : m # i => entry'[m] = entry[m] /\ entry[m].number # new
    <3> SUFFICES ASSUME NEW m \in InvoiceIds, m # i
                 PROVE  entry'[m] = entry[m] /\ entry[m].number # new
      OBVIOUS
    <3>1. entry'[m] = entry[m]
      BY <1>1 DEF TypeOK
    <3>2. CASE entry[m].status = "none"
      BY <3>1, <3>2 DEF Unregistered, NoEntry, NoNumber
    <3>3. CASE entry[m].status # "none"
      BY <3>1, <3>3, <1>1 DEF GapFree
    <3> QED BY <3>2, <3>3, <3>1
  <2>2. entry'[i].number = new
    BY <1>1 DEF TypeOK
  <2> QED BY <1>6, <2>1, <2>2 DEF GapFree
<1> QED BY <1>2, <1>3, <1>4, <1>5, <1>6 DEF GapFree

LEMMA RegisterSettle ==
    ASSUME NEW i \in InvoiceIds, NEW to \in Settled, RegisterInv, Settle(i, to)
    PROVE  RegisterInv'
<1> USE DEF RegisterInv
<1>1. /\ last' = last
      /\ \A j \in InvoiceIds : /\ entry'[j].number = entry[j].number
                               /\ entry'[j].lines = entry[j].lines
                               /\ j # i => entry'[j] = entry[j]
      /\ entry'[i].status = to /\ to # "none" /\ entry[i].status # "none"
  BY DEF Settle, TypeOK, Settled
<1>2. TypeOK'
  BY <1>1 DEF Settle, TypeOK, Settled
<1>3. Unregistered'
  BY <1>1 DEF Unregistered
<1>4. \A j \in InvoiceIds : entry'[j].status = "none" <=> entry[j].status = "none"
  BY <1>1
<1>5. GapFree'
  BY <1>1, <1>4 DEF GapFree
<1> QED BY <1>2, <1>3, <1>5

(* Every number up to the last of its year is on exactly one invoice, for  *)
(* every set of invoices and of years.                                     *)
THEOREM RegisterGapFree ==
    ASSUME YearsArePositive
    PROVE  Spec => []GapFree
<1>1. RegisterInv /\ [Next]_registerVars => RegisterInv'
  <2> SUFFICES ASSUME RegisterInv, [Next]_registerVars PROVE RegisterInv'
    OBVIOUS
  <2>1. CASE Next
    BY <2>1, RegisterEnter, RegisterSettle DEF Next
  <2>2. CASE UNCHANGED registerVars
    BY <2>2 DEF registerVars, RegisterInv, TypeOK, Unregistered, GapFree
  <2> QED BY <2>1, <2>2
<1>2. RegisterInv => GapFree
  BY DEF RegisterInv
<1>3. Init => RegisterInv
  BY RegisterInit
<1> QED BY <1>1, <1>2, <1>3, PTL DEF Spec
=============================================================================
