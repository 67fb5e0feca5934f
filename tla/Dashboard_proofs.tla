-------------------------- MODULE Dashboard_proofs --------------------------
(***************************************************************************)
(* Theorems about Dashboard, for any number of overlapping loads, events,  *)
(* clicks and failed requests.                                             *)
(***************************************************************************)
EXTENDS Dashboard, EthVault_proofs

(***************************************************************************)
(* What a removal leaves of a sequence of loads.                           *)
(***************************************************************************)
LEMMA RemoveAtIs ==
  ASSUME NEW S, NEW s \in Seq(S), NEW k \in DOMAIN s
  PROVE  /\ RemoveAt(s, k) \in Seq(S)
         /\ Len(RemoveAt(s, k)) = Len(s) - 1
         /\ \A i \in DOMAIN RemoveAt(s, k) : \E j \in DOMAIN s : RemoveAt(s, k)[i] = s[j]
<1> DEFINE before == SubSeq(s, 1, k - 1)
           after == SubSeq(s, k + 1, Len(s))
<1>1. k \in 1 .. Len(s) /\ Len(s) \in Nat /\ \A i \in 1 .. Len(s) : s[i] \in S
  OBVIOUS
<1>2. k \in Int /\ k - 1 \in Int /\ k + 1 \in Int /\ Len(s) \in Int
  BY <1>1
<1>3. /\ before \in Seq(S) /\ Len(before) = k - 1
      /\ \A i \in 1 .. k - 1 : before[i] = s[i]
  <2>1. \A i \in 1 .. k - 1 : s[i] \in S
    BY <1>1, <1>2
  <2>2. /\ before \in Seq(S)
        /\ Len(before) = IF 1 <= k - 1 THEN k - 1 - 1 + 1 ELSE 0
        /\ \A i \in 1 .. k - 1 - 1 + 1 : before[i] = s[1 + i - 1]
    BY <1>2, <2>1, SubSeqProperties
  <2> HIDE DEF before
  <2>3. QED
    BY <1>1, <2>2
<1>4. /\ after \in Seq(S) /\ Len(after) = Len(s) - k
      /\ \A i \in 1 .. Len(s) - k : after[i] = s[k + i]
  <2>1. \A i \in k + 1 .. Len(s) : s[i] \in S
    BY <1>1, <1>2
  <2>2. /\ after \in Seq(S)
        /\ Len(after) = IF k + 1 <= Len(s) THEN Len(s) - (k + 1) + 1 ELSE 0
        /\ \A i \in 1 .. Len(s) - (k + 1) + 1 : after[i] = s[k + 1 + i - 1]
    BY <1>2, <2>1, SubSeqProperties
  <2> HIDE DEF after
  <2>3. QED
    BY <1>1, <2>2
<1>5. RemoveAt(s, k) = before \o after
  BY DEF RemoveAt
<1> HIDE DEF before, after
<1>6. /\ before \o after \in Seq(S) /\ Len(before \o after) = Len(before) + Len(after)
      /\ \A i \in 1 .. Len(before) + Len(after) :
           (before \o after)[i] = IF i <= Len(before) THEN before[i] ELSE after[i - Len(before)]
  BY <1>3, <1>4, ConcatProperties
<1>7. Len(before) + Len(after) = Len(s) - 1
  BY <1>1, <1>3, <1>4
<1>8. ASSUME NEW i \in 1 .. Len(s) - 1
      PROVE  \E j \in 1 .. Len(s) : (before \o after)[i] = s[j]
  <2>1. (before \o after)[i] = IF i <= k - 1 THEN before[i] ELSE after[i - (k - 1)]
    BY <1>3, <1>6, <1>7
  <2>2. CASE i <= k - 1
    <3>1. i \in 1 .. k - 1 /\ i \in 1 .. Len(s)
      BY <1>1, <2>2
    <3>2. QED
      BY <1>3, <2>1, <2>2, <3>1
  <2>3. CASE ~(i <= k - 1)
    <3>1. i - (k - 1) \in 1 .. Len(s) - k /\ k + (i - (k - 1)) = i + 1 /\ i + 1 \in 1 .. Len(s)
      BY <1>1, <2>3
    <3>2. QED
      BY <1>4, <2>1, <2>3, <3>1
  <2>4. QED
    BY <2>2, <2>3
<1>9. DOMAIN (before \o after) = 1 .. Len(before \o after) /\ DOMAIN s = 1 .. Len(s)
  BY <1>6, LenProperties
<1>10. QED
  BY <1>5, <1>6, <1>7, <1>8, <1>9

LEMMA MoreLoads ==
  ASSUME NEW S, NEW s \in Seq(S), NEW x \in S, NEW n \in Nat
  PROVE  LET more == s \o [i \in 1 .. n |-> x] IN
         /\ more \in Seq(S)
         /\ Len(more) = Len(s) + n
         /\ \A i \in DOMAIN more : more[i] = x \/ (i \in DOMAIN s /\ more[i] = s[i])
  OBVIOUS
-----------------------------------------------------------------------------
(***************************************************************************)
(* The shape of the page's state.  A load reads no further than the        *)
(* contract's list goes, which never gets shorter; an open form is on a    *)
(* row of a table that is shown.                                           *)
(***************************************************************************)
RosterOK == owner \in Users /\ totalEmployees = Len(employees)
LoadOK(load) == Paired(load.addresses, load.found) /\ load.total <= Len(employees)
LoadsOK == \A k \in DOMAIN loads : LoadOK(loads[k])
TablePaired == Paired(employeeAddresses, allEmployees)
FormShown == form # Closed => ~loadingEmployees /\ form.row \in DOMAIN employeeAddresses

PageInv ==
  /\ DashboardTypeOK /\ RosterOK
  /\ TablePaired /\ LoadsOK /\ LoadingEnds /\ FormShown

LEMMA NewLoadOK == NewLoad \in Load /\ (TypeOK => LoadOK(NewLoad))
  BY DEF NewLoad, Load, LoadOK, Paired, TypeOK

LEMMA Starts ==
  ASSUME loads \in Seq(Load), NEW n \in Nat \ {0}, StartLoads(n)
  PROVE  /\ loads' \in Seq(Load) /\ Len(loads') <= MaxLoads /\ loads' # << >>
         /\ \A k \in DOMAIN loads' :
              loads'[k] = NewLoad \/ (k \in DOMAIN loads /\ loads'[k] = loads[k])
         /\ loadingEmployees' = TRUE /\ form' = Closed
<1>1. NewLoad \in Load
  BY NewLoadOK
<1>2. Len(loads) \in Nat
  BY LenProperties
<1>3. loads' = loads \o [i \in 1 .. n |-> NewLoad] /\ Len(loads) + n <= MaxLoads
  BY DEF StartLoads
<1>4. loads' \in Seq(Load) /\ Len(loads') = Len(loads) + n
  BY <1>1, <1>3, MoreLoads
<1>5. loads' # << >>
  BY <1>2, <1>4
<1>6. \A k \in DOMAIN loads' :
        loads'[k] = NewLoad \/ (k \in DOMAIN loads /\ loads'[k] = loads[k])
  BY <1>1, <1>3, MoreLoads
<1>7. QED
  BY <1>3, <1>4, <1>5, <1>6 DEF StartLoads

(***************************************************************************)
(* What happens to the vault, whoever causes it.                           *)
(***************************************************************************)
VaultStep ==
  \/ \E e \in Payees, s \in Uint, t \in Tokens \cup {Zero}, f \in Uint, p \in Uint :
       addEmployees(owner, e, s, t, f, p) \/ editEmployees(owner, e, s, t, f, p)
  \/ \E e \in Payees : removeEmployees(owner, e) \/ performUpkeep(e)
  \/ Tick
  \/ UNCHANGED vars

LEMMA VaultTyped ==
  ASSUME TypeOK, RosterOK, VaultStep
  PROVE  /\ TypeOK' /\ RosterOK' /\ Len(employees) <= Len(employees')
         /\ \A i \in 1 .. Len(employees) : employees'[i] = employees[i]
<1> USE VaultAssumption
<1>0. employees \in Seq(Payees) /\ Len(employees) \in Nat
  BY DEF TypeOK
<1>1. ASSUME NEW e \in Payees, NEW s \in Uint, NEW t \in Tokens \cup {Zero}, NEW f \in Uint,
             NEW p \in Uint, addEmployees(owner, e, s, t, f, p)
      PROVE  /\ TypeOK' /\ RosterOK' /\ Len(employees) <= Len(employees')
             /\ \A i \in 1 .. Len(employees) : employees'[i] = employees[i]
  <2>1. Record(e, s, t, f, p, FALSE)
    BY <1>1 DEF addEmployees
  <2>2. /\ employeeDetails' \in [Payees -> Employee]
        /\ first' \in [Payees -> Uint]
        /\ paid' \in [Payees -> Nat]
    BY <2>1, RecordTyped
  <2>3. /\ employees' \in Seq(Payees) /\ Len(employees') = Len(employees) + 1
        /\ \A i \in 1 .. Len(employees) : employees'[i] = employees[i]
    BY <1>0, <1>1, AppendProperties DEF addEmployees
  <2>4. TypeOK'
    BY <1>1, <2>2, <2>3 DEF addEmployees, TypeOK
  <2>5. RosterOK'
    BY <1>1, <2>3 DEF addEmployees, RosterOK
  <2>6. QED
    BY <1>0, <2>3, <2>4, <2>5
<1>2. ASSUME employees' = employees, TypeOK', RosterOK'
      PROVE  /\ TypeOK' /\ RosterOK' /\ Len(employees) <= Len(employees')
             /\ \A i \in 1 .. Len(employees) : employees'[i] = employees[i]
  BY <1>0, <1>2
<1>3. ASSUME NEW e \in Payees, NEW s \in Uint, NEW t \in Tokens \cup {Zero}, NEW f \in Uint,
             NEW p \in Uint, editEmployees(owner, e, s, t, f, p)
      PROVE  TypeOK' /\ employees' = employees /\ RosterOK'
  <2>1. employeeDetails[e].deleted \in BOOLEAN
    BY DEF TypeOK, Employee
  <2>2. /\ employeeDetails' \in [Payees -> Employee]
        /\ first' \in [Payees -> Uint]
        /\ paid' \in [Payees -> Nat]
    BY <1>3, <2>1, RecordTyped DEF editEmployees
  <2>3. QED
    BY <1>3, <2>2 DEF editEmployees, TypeOK, roster, RosterOK
<1>4. ASSUME NEW e \in Payees, removeEmployees(owner, e)
      PROVE  TypeOK' /\ employees' = employees /\ RosterOK'
  <2>1. TypeOK'
    BY <1>4 DEF removeEmployees, TypeOK, Employee, roster, history
  <2>2. QED
    BY <1>4, <2>1 DEF removeEmployees, roster, RosterOK
<1>5. ASSUME NEW e \in Payees, performUpkeep(e)
      PROVE  TypeOK' /\ employees' = employees /\ RosterOK'
  <2>1. TypeOK'
    BY <1>5, TypeStep DEF Next
  <2>2. QED
    BY <1>5, <2>1 DEF performUpkeep, roster, RosterOK
<1>6. ASSUME Tick
      PROVE  TypeOK' /\ employees' = employees /\ RosterOK'
  <2>1. TypeOK'
    BY <1>6, TypeStep DEF Next
  <2>2. QED
    BY <1>6, <2>1 DEF Tick, roster, RosterOK
<1>7. ASSUME UNCHANGED vars
      PROVE  TypeOK' /\ employees' = employees /\ RosterOK'
  BY <1>7, TypeStep DEF vars, roster, RosterOK
<1>8. QED
  BY <1>1, <1>2, <1>3, <1>4, <1>5, <1>6, <1>7 DEF VaultStep

LEMMA LoadsKept ==
  ASSUME PageInv, TypeOK', Len(employees) <= Len(employees'),
         \A k \in DOMAIN loads' : loads'[k] = NewLoad \/ \E j \in DOMAIN loads : loads'[k] = loads[j]
  PROVE  LoadsOK'
<1>1. /\ Len(employees) \in Nat /\ Len(employees') \in Nat
      /\ \A j \in DOMAIN loads : loads[j] \in Load
  BY DEF PageInv, DashboardTypeOK, TypeOK
<1>2. LoadOK(NewLoad)'
  BY <1>1 DEF LoadOK, NewLoad, Paired
<1>3. ASSUME NEW j \in DOMAIN loads
      PROVE  Paired(loads[j].addresses, loads[j].found) /\ loads[j].total <= Len(employees')
  BY <1>1 DEF PageInv, LoadsOK, LoadOK, Load
<1>4. QED
  BY <1>2, <1>3 DEF LoadsOK, LoadOK

LEMMA LoadChanged ==
  ASSUME PageInv, UNCHANGED vars, NEW k \in DOMAIN loads, NEW load \in Load, LoadOK(load),
         loads' = [loads EXCEPT ![k] = load]
  PROVE  /\ loads' \in Seq(Load) /\ Len(loads') = Len(loads) /\ DOMAIN loads' = DOMAIN loads
         /\ loads' # << >> /\ LoadsOK'
<1>1. loads \in Seq(Load)
  BY DEF PageInv, DashboardTypeOK
<1>2. loads' \in Seq(Load) /\ Len(loads') = Len(loads) /\ DOMAIN loads' = DOMAIN loads
  BY <1>1
<1>3. loads' # << >>
  BY <1>1, <1>2
<1>4. ASSUME NEW j \in DOMAIN loads PROVE LoadOK(loads'[j])
  BY <1>1, <1>4 DEF PageInv, LoadsOK
<1>5. LoadsOK'
  BY <1>2, <1>4 DEF LoadsOK, LoadOK, vars, roster
<1>6. QED
  BY <1>2, <1>3, <1>5

(***************************************************************************)
(* One lemma for each action: the steps of a load, ...                     *)
(***************************************************************************)
LEMMA PageReadTotal ==
  ASSUME PageInv, NEW k \in DOMAIN loads, ReadTotal(k)
  PROVE  PageInv'
<1>1. VaultStep /\ UNCHANGED vars
  BY DEF ReadTotal, VaultStep
<1>2. TypeOK' /\ RosterOK'
  BY <1>1, VaultTyped DEF PageInv, DashboardTypeOK
<1>3. loads \in Seq(Load) /\ loads[k] \in Load /\ totalEmployees = Len(employees) /\ totalEmployees \in Nat
  BY DEF PageInv, DashboardTypeOK, RosterOK, TypeOK
<1>4. PICK load : load = [loads[k] EXCEPT !.total = totalEmployees]
  OBVIOUS
<1>5. load \in Load /\ load.total = Len(employees) /\ Len(employees) \in Nat
      /\ load.addresses = loads[k].addresses /\ load.found = loads[k].found
  BY <1>3, <1>4 DEF Load
<1>6. LoadOK(load)
  BY <1>5 DEF PageInv, LoadsOK, LoadOK
<1>7. loads' = [loads EXCEPT ![k] = load]
  BY <1>4 DEF ReadTotal
<1>8. /\ loads' \in Seq(Load) /\ Len(loads') = Len(loads)
      /\ loads' # << >> /\ LoadsOK'
  BY <1>1, <1>5, <1>6, <1>7, LoadChanged
<1>9. DashboardTypeOK'
  BY <1>2, <1>8 DEF ReadTotal, PageInv, DashboardTypeOK, tableVars, txVars
<1>10. QED
  BY <1>2, <1>8, <1>9
  DEF ReadTotal, PageInv, tableVars, txVars, TablePaired, LoadingEnds, FormShown

LEMMA LoadUpdated ==
  ASSUME NEW A, NEW B, NEW T, NEW load \in [total : T, next : Nat, addresses : A, found : B],
         NEW m \in Nat, NEW as \in A, NEW rs \in B
  PROVE  LET after == [load EXCEPT !.next = m, !.addresses = as, !.found = rs] IN
         /\ after \in [total : T, next : Nat, addresses : A, found : B]
         /\ after.next = m /\ after.total = load.total
         /\ after.addresses = as /\ after.found = rs
  OBVIOUS

LEMMA RowRead ==
  ASSUME TypeOK, NEW load \in Load, LoadOK(load), load.next < load.total
  PROVE  LET e == employees[load.next + 1]
             after == WithRow(load, e)
         IN  /\ load.next + 1 \in 1 .. Len(employees) /\ e \in Payees
             /\ after \in Load /\ LoadOK(after)
             /\ after.next = load.next + 1 /\ after.total = load.total
             /\ after.addresses = IF employeeDetails[e].deleted THEN load.addresses
                                  ELSE Append(load.addresses, e)
             /\ after.found = IF employeeDetails[e].deleted THEN load.found
                              ELSE Append(load.found, [of |-> e, details |-> employeeDetails[e]])
<1> DEFINE e == employees[load.next + 1]
           d == employeeDetails[e]
           row == [of |-> e, details |-> d]
<1>1. /\ load.total \in Nat \cup {-1} /\ load.next \in Nat /\ load.total <= Len(employees)
      /\ load.addresses \in Seq(Payees) /\ load.found \in Seq(Row)
      /\ Paired(load.addresses, load.found)
  BY DEF Load, LoadOK
<1>2. employees \in Seq(Payees) /\ Len(employees) \in Nat
  BY DEF TypeOK
<1>3. load.next + 1 \in 1 .. Len(employees) /\ e \in Payees
  BY <1>1, <1>2
<1>4. row \in Row /\ d.deleted \in BOOLEAN /\ row.of = e
  BY <1>3 DEF TypeOK, Row, Employee
<1> HIDE DEF e, d, row
<1>5. CASE d.deleted
  BY <1>1, <1>3, <1>5 DEF WithRow, Load, LoadOK, e, d
<1>6. CASE ~d.deleted
  <2> DEFINE as == Append(load.addresses, e)
             rs == Append(load.found, row)
             after == [load EXCEPT !.next = @ + 1, !.addresses = as, !.found = rs]
  <2>1. PICK n \in Nat : n = Len(load.addresses) /\ n = Len(load.found)
    BY <1>1 DEF Paired
  <2>2. /\ as \in Seq(Payees) /\ Len(as) = n + 1 /\ as[n + 1] = e
        /\ \A i \in 1 .. n : as[i] = load.addresses[i]
    <3>1. load.addresses \in Seq(Payees) /\ e \in Payees
      BY <1>1, <1>3
    <3>2. /\ as \in Seq(Payees) /\ Len(as) = Len(load.addresses) + 1
          /\ as[Len(load.addresses) + 1] = e
          /\ \A i \in 1 .. Len(load.addresses) : as[i] = load.addresses[i]
      BY <3>1, AppendProperties
    <3>3. QED
      BY <2>1, <3>2
  <2>3. /\ rs \in Seq(Row) /\ Len(rs) = n + 1 /\ rs[n + 1] = row
        /\ \A i \in 1 .. n : rs[i] = load.found[i]
    <3>1. load.found \in Seq(Row) /\ row \in Row
      BY <1>1, <1>4
    <3>2. /\ rs \in Seq(Row) /\ Len(rs) = Len(load.found) + 1
          /\ rs[Len(load.found) + 1] = row
          /\ \A i \in 1 .. Len(load.found) : rs[i] = load.found[i]
      BY <3>1, AppendProperties
    <3>3. QED
      BY <2>1, <3>2
  <2>4. /\ after \in Load /\ after.next = load.next + 1 /\ after.total = load.total
        /\ after.addresses = as /\ after.found = rs
    <3>1. as \in Seq(Payees) /\ rs \in Seq(Row)
      BY <2>2, <2>3
    <3> HIDE DEF as, rs
    <3>2. load.next + 1 \in Nat
      BY <1>1
    <3>3. QED
      BY <3>1, <3>2, LoadUpdated DEF Load
  <2>5. WithRow(load, e) = after
    BY <1>6 DEF WithRow, d, row
  <2>6. as = Append(load.addresses, e) /\ rs = Append(load.found, row)
    OBVIOUS
  <2> HIDE DEF as, rs, after
  <2>7. DOMAIN as = 1 .. n + 1 /\ DOMAIN load.addresses = 1 .. n
    BY <1>1, <2>1, <2>2, LenProperties
  <2>8. ASSUME NEW i \in 1 .. n PROVE rs[i].of = as[i]
    BY <1>1, <2>2, <2>3, <2>7 DEF Paired
  <2>9. rs[n + 1].of = as[n + 1]
    BY <1>4, <2>2, <2>3
  <2>10. 1 .. n + 1 = (1 .. n) \cup {n + 1}
    OBVIOUS
  <2>11. Paired(as, rs)
    BY <2>2, <2>3, <2>7, <2>8, <2>9, <2>10 DEF Paired
  <2>12. LoadOK(after)
    BY <1>1, <2>4, <2>11 DEF LoadOK
  <2>13. QED
    BY <1>3, <1>6, <2>4, <2>5, <2>6, <2>12 DEF e, d, row
<1>7. QED
  BY <1>4, <1>5, <1>6 DEF d

LEMMA PageReadRow ==
  ASSUME PageInv, NEW k \in DOMAIN loads, ReadRow(k)
  PROVE  PageInv'
<1> DEFINE after == WithRow(loads[k], employees[loads[k].next + 1])
<1>1. VaultStep /\ UNCHANGED vars
  BY DEF ReadRow, VaultStep
<1>2. TypeOK' /\ RosterOK'
  BY <1>1, VaultTyped DEF PageInv, DashboardTypeOK
<1>3. loads \in Seq(Load) /\ loads[k] \in Load /\ LoadOK(loads[k]) /\ TypeOK
  BY DEF PageInv, DashboardTypeOK, LoadsOK
<1>4. after \in Load /\ LoadOK(after)
  BY <1>3, RowRead DEF ReadRow
<1> HIDE DEF after
<1>5. loads' = [loads EXCEPT ![k] = after]
  BY DEF ReadRow, after
<1>6. /\ loads' \in Seq(Load) /\ Len(loads') = Len(loads)
      /\ loads' # << >> /\ LoadsOK'
  BY <1>1, <1>4, <1>5, LoadChanged
<1>7. DashboardTypeOK'
  BY <1>2, <1>6 DEF ReadRow, PageInv, DashboardTypeOK, tableVars, txVars
<1>8. QED
  BY <1>2, <1>6, <1>7
  DEF ReadRow, PageInv, tableVars, txVars, TablePaired, LoadingEnds, FormShown

LEMMA PageFinishLoad ==
  ASSUME PageInv, NEW k \in DOMAIN loads, FinishLoad(k)
  PROVE  PageInv'
<1>1. VaultStep /\ UNCHANGED vars
  BY DEF FinishLoad, VaultStep
<1>2. TypeOK' /\ RosterOK' /\ Len(employees) <= Len(employees')
  BY <1>1, VaultTyped DEF PageInv, DashboardTypeOK
<1>3. /\ loads \in Seq(Load) /\ loads[k] \in Load /\ Len(loads) <= MaxLoads
      /\ Paired(loads[k].addresses, loads[k].found)
  BY DEF PageInv, DashboardTypeOK, LoadsOK, LoadOK
<1>4. /\ loads' \in Seq(Load) /\ Len(loads') = Len(loads) - 1
      /\ \A i \in DOMAIN loads' : \E j \in DOMAIN loads : loads'[i] = loads[j]
  BY <1>3, RemoveAtIs DEF FinishLoad
<1>5. LoadsOK'
  BY <1>2, <1>4, LoadsKept
<1>6. Len(loads') <= MaxLoads
  BY <1>3, <1>4, DashboardAssumption
<1>7. /\ employeeAddresses' \in Seq(Payees) /\ allEmployees' \in Seq(Row)
      /\ TablePaired' /\ Len(employeeAddresses') = Len(allEmployees')
      /\ Len(allEmployees') \in Nat /\ DOMAIN employeeAddresses' = 1 .. Len(allEmployees')
  BY <1>3 DEF FinishLoad, Load, TablePaired, Paired
<1>8. form' \in Form \cup {Closed}
  BY DEF FinishLoad, PageInv, DashboardTypeOK
<1>9. DashboardTypeOK'
  BY <1>2, <1>4, <1>6, <1>7, <1>8 DEF FinishLoad, PageInv, DashboardTypeOK, txVars
<1>10. FormShown'
  <2>1. SUFFICES ASSUME form' # Closed
                 PROVE  form'.row \in DOMAIN employeeAddresses' /\ loadingEmployees' = FALSE
    BY DEF FormShown
  <2>2. form' = form /\ ~(form.row > Len(allEmployees')) /\ form \in Form /\ form # Closed
    BY <2>1 DEF FinishLoad, PageInv, DashboardTypeOK
  <2>3. form.row \in 1 .. Len(employeeAddresses) /\ form.row \in Nat
    BY <2>2 DEF PageInv, FormShown, DashboardTypeOK, Form
  <2>4. QED
    BY <1>7, <2>2, <2>3 DEF FinishLoad
<1>11. QED
  BY <1>2, <1>5, <1>7, <1>9, <1>10 DEF FinishLoad, PageInv, LoadingEnds

LEMMA PageFailLoad ==
  ASSUME PageInv, NEW k \in DOMAIN loads, FailLoad(k)
  PROVE  PageInv'
<1>1. VaultStep /\ UNCHANGED vars
  BY DEF FailLoad, VaultStep
<1>2. TypeOK' /\ RosterOK' /\ Len(employees) <= Len(employees')
  BY <1>1, VaultTyped DEF PageInv, DashboardTypeOK
<1>3. loads \in Seq(Load) /\ Len(loads) <= MaxLoads
  BY DEF PageInv, DashboardTypeOK
<1>4. /\ loads' \in Seq(Load) /\ Len(loads') = Len(loads) - 1
      /\ \A i \in DOMAIN loads' : \E j \in DOMAIN loads : loads'[i] = loads[j]
  BY <1>3, RemoveAtIs DEF FailLoad
<1>5. LoadsOK'
  BY <1>2, <1>4, LoadsKept
<1>6. Len(loads') <= MaxLoads /\ errors' \in 0 .. MaxErrors /\ loadingEmployees' = FALSE
  BY <1>3, <1>4, DashboardAssumption DEF FailLoad, LoadingAfterError, PageInv, DashboardTypeOK
<1>7. DashboardTypeOK'
  BY <1>2, <1>4, <1>6 DEF FailLoad, PageInv, DashboardTypeOK, tableVars, txVars
<1>8. QED
  BY <1>2, <1>5, <1>6, <1>7 DEF FailLoad, PageInv, tableVars, TablePaired, LoadingEnds, FormShown

(***************************************************************************)
(* ... and the steps that start loads, or leave them and the table alone.  *)
(***************************************************************************)
RestTyped ==
  /\ addTx \in Args \cup {Closed} /\ editTx \in EditArgs \cup {Closed}
  /\ removeTx \in Payees \cup {Closed}
  /\ events \in Nat /\ clicks \in 0 .. MaxClicks /\ errors \in 0 .. MaxErrors
  /\ overlap \in BOOLEAN /\ paidDates \in [Payees -> SUBSET Uint]

LEMMA PageKept ==
  ASSUME PageInv, VaultStep, UNCHANGED tableVars, RestTyped',
         \/ UNCHANGED <<loads, loadingEmployees>> /\ form' \in {form, Closed}
         \/ \E n \in Nat \ {0} : StartLoads(n)
  PROVE  PageInv'
<1>1. TypeOK' /\ RosterOK' /\ Len(employees) <= Len(employees')
  BY VaultTyped DEF PageInv, DashboardTypeOK
<1>2. /\ loads \in Seq(Load) /\ Len(loads) <= MaxLoads /\ loadingEmployees \in BOOLEAN
      /\ form \in Form \cup {Closed}
  BY DEF PageInv, DashboardTypeOK
<1>3. CASE UNCHANGED <<loads, loadingEmployees>> /\ form' \in {form, Closed}
  <2>1. LoadsOK'
    BY <1>1, <1>3, LoadsKept
  <2>2. DashboardTypeOK'
    BY <1>1, <1>2, <1>3 DEF RestTyped, PageInv, DashboardTypeOK, tableVars
  <2>3. QED
    BY <1>1, <1>3, <2>1, <2>2 DEF PageInv, tableVars, TablePaired, LoadingEnds, FormShown
<1>4. CASE \E n \in Nat \ {0} : StartLoads(n)
  <2>1. /\ loads' \in Seq(Load) /\ Len(loads') <= MaxLoads /\ loads' # << >>
        /\ \A k \in DOMAIN loads' :
             loads'[k] = NewLoad \/ (k \in DOMAIN loads /\ loads'[k] = loads[k])
        /\ loadingEmployees' = TRUE /\ form' = Closed
    BY <1>2, <1>4, Starts
  <2>2. LoadsOK'
    BY <1>1, <2>1, LoadsKept
  <2>3. DashboardTypeOK'
    BY <1>1, <2>1 DEF RestTyped, PageInv, DashboardTypeOK, tableVars
  <2>4. QED
    BY <1>1, <2>1, <2>2, <2>3 DEF PageInv, tableVars, TablePaired, LoadingEnds, FormShown
<1>5. QED
  BY <1>3, <1>4

LEMMA Typed ==
  ASSUME PageInv
  PROVE  /\ RestTyped /\ TypeOK
         /\ (Click => clicks' \in 0 .. MaxClicks)
         /\ (errors < MaxErrors => errors + 1 \in 0 .. MaxErrors)
         /\ events + 1 \in Nat /\ (events > 0 => events - 1 \in Nat)
         /\ (ChangeUnderWay => overlap' \in BOOLEAN)
         /\ \A e : [paidDates EXCEPT ![e] = {}] \in [Payees -> SUBSET Uint]
<1>1. RestTyped /\ TypeOK
  BY DEF PageInv, DashboardTypeOK, RestTyped
<1>2. /\ (Click => clicks' \in 0 .. MaxClicks)
      /\ (errors < MaxErrors => errors + 1 \in 0 .. MaxErrors)
      /\ events + 1 \in Nat /\ (events > 0 => events - 1 \in Nat)
  BY <1>1, DashboardAssumption DEF RestTyped, Click
<1>3. ChangeUnderWay => overlap' \in BOOLEAN
  BY Zenon DEF ChangeUnderWay
<1>4. ASSUME NEW e PROVE [paidDates EXCEPT ![e] = {}] \in [Payees -> SUBSET Uint]
  BY <1>1 DEF RestTyped
<1>5. QED
  BY <1>1, <1>2, <1>3, <1>4

LEMMA PageRefreshed ==
  ASSUME PageInv, Refreshed
  PROVE  PageInv'
<1>1. RestTyped'
  BY Typed DEF Refreshed, RestTyped, txVars
<1>2. \E n \in Nat \ {0} : StartLoads(n)
  <2>1. PICK n \in 1 .. MaxCopies : StartLoads(n)
    BY DEF Refreshed
  <2>2. n \in Nat \ {0}
    BY DashboardAssumption
  <2>3. QED
    BY <2>1, <2>2
<1>3. QED
  BY <1>1, <1>2, PageKept DEF Refreshed, VaultStep

LEMMA PageClickAdd ==
  ASSUME PageInv, NEW e \in Payees, NEW s \in Salaries, NEW t \in Tokens, NEW f \in FirstDates,
         NEW p \in Periods, ClickAdd(e, s, t, f, p)
  PROVE  PageInv'
<1>1. s \in Uint /\ f \in Uint /\ p \in Uint
  BY VaultAssumption
<1>2. [e |-> e, s |-> s, t |-> t, f |-> f, p |-> p] \in Args
  BY <1>1 DEF Args
<1>3. RestTyped'
  BY <1>2, Typed DEF ClickAdd, RestTyped
<1>4. QED
  BY <1>3, PageKept DEF ClickAdd, VaultStep

LEMMA PageMineAdd ==
  ASSUME PageInv, MineAdd
  PROVE  PageInv'
<1>1. addTx \in Args
  BY Typed DEF MineAdd, RestTyped
<1>2. VaultStep
  BY <1>1 DEF MineAdd, VaultStep, Args
<1>3. RestTyped'
  BY Typed DEF MineAdd, RestTyped
<1>4. QED
  BY <1>2, <1>3, PageKept DEF MineAdd, LoadAfterAdd

LEMMA PageFailAdd ==
  ASSUME PageInv, FailAdd
  PROVE  PageInv'
<1>1. RestTyped'
  BY Typed DEF FailAdd, RestTyped
<1>2. QED
  BY <1>1, PageKept DEF FailAdd, LoadAfterAdd, VaultStep

LEMMA PageMineEdit ==
  ASSUME PageInv, MineEdit
  PROVE  PageInv'
<1>1. editTx \in EditArgs
  BY Typed DEF MineEdit, RestTyped
<1>2. VaultStep
  BY <1>1 DEF MineEdit, VaultStep, EditArgs
<1>3. paidDates' \in [Payees -> SUBSET Uint]
  BY Typed DEF MineEdit, RestTyped
<1>4. RestTyped'
  BY <1>3, Typed DEF MineEdit, RestTyped, Announced
<1>5. QED
  BY <1>2, <1>4, PageKept DEF MineEdit

LEMMA PageMineRemove ==
  ASSUME PageInv, MineRemove
  PROVE  PageInv'
<1>1. removeTx \in Payees
  BY Typed DEF MineRemove, RestTyped
<1>2. VaultStep
  BY <1>1 DEF MineRemove, VaultStep
<1>3. RestTyped'
  BY Typed DEF MineRemove, RestTyped, Announced
<1>4. QED
  BY <1>2, <1>3, PageKept DEF MineRemove

LEMMA PageFailTx ==
  ASSUME PageInv, FailTx
  PROVE  PageInv'
<1>1. RestTyped'
  BY Typed DEF FailTx, RestTyped
<1>2. QED
  BY <1>1, PageKept DEF FailTx, VaultStep

LEMMA PageOpenForm ==
  ASSUME PageInv, NEW i \in DOMAIN allEmployees, OpenForm(i)
  PROVE  PageInv'
<1>1. VaultStep /\ UNCHANGED vars
  BY DEF OpenForm, VaultStep
<1>2. TypeOK' /\ RosterOK' /\ Len(employees) <= Len(employees')
  BY <1>1, VaultTyped DEF PageInv, DashboardTypeOK
<1>3. /\ allEmployees \in Seq(Row) /\ employeeAddresses \in Seq(Payees)
      /\ Len(employeeAddresses) = Len(allEmployees)
  BY DEF PageInv, DashboardTypeOK, TablePaired, Paired
<1>4. i \in Nat /\ i \in DOMAIN employeeAddresses /\ allEmployees[i] \in Row
  BY <1>3
<1>5. form' \in Form /\ form'.row = i
  BY <1>4 DEF OpenForm, Form, Row
<1>6. LoadsOK'
  BY <1>2, LoadsKept DEF OpenForm
<1>7. RestTyped'
  BY Typed DEF OpenForm, RestTyped, txVars
<1>8. DashboardTypeOK'
  BY <1>2, <1>5, <1>7 DEF RestTyped, OpenForm, PageInv, DashboardTypeOK, tableVars
<1>9. QED
  BY <1>2, <1>4, <1>5, <1>6, <1>8
  DEF OpenForm, PageInv, tableVars, TablePaired, LoadingEnds, FormShown

LEMMA PageCancelForm ==
  ASSUME PageInv, CancelForm
  PROVE  PageInv'
<1>1. RestTyped'
  BY Typed DEF CancelForm, RestTyped, txVars
<1>2. QED
  BY <1>1, PageKept DEF CancelForm, VaultStep

LEMMA PageSubmitEdit ==
  ASSUME PageInv, NEW s \in Salaries, NEW t \in Tokens, NEW typed \in FirstDates \cup {-1},
         NEW p \in Periods \cup {monthly}, SubmitEdit(s, t, typed, p)
  PROVE  PageInv'
<1>1. s \in Uint /\ typed \in Uint \cup {-1} /\ p \in Uint
  BY VaultAssumption, DashboardAssumption
<1>2. form \in Form /\ employeeAddresses[form.row] \in Payees
  BY DEF SubmitEdit, PageInv, DashboardTypeOK, FormShown
<1>3. DateSent(typed) \in Uint
  BY DEF SubmitEdit
<1>4. editTx' \in EditArgs
  BY <1>1, <1>2, <1>3 DEF SubmitEdit, EditArgs
<1>5. RestTyped'
  BY <1>4, Typed DEF SubmitEdit, RestTyped
<1>6. QED
  BY <1>5, PageKept DEF SubmitEdit, VaultStep

LEMMA PageClickRemove ==
  ASSUME PageInv, NEW i \in DOMAIN allEmployees, ClickRemove(i)
  PROVE  PageInv'
<1>1. /\ allEmployees \in Seq(Row) /\ employeeAddresses \in Seq(Payees)
      /\ Len(employeeAddresses) = Len(allEmployees)
  BY DEF PageInv, DashboardTypeOK, TablePaired, Paired
<1>2. employeeAddresses[i] \in Payees
  BY <1>1
<1>3. RestTyped'
  BY <1>2, Typed DEF ClickRemove, RestTyped
<1>4. QED
  BY <1>3, PageKept DEF ClickRemove, VaultStep

LEMMA PageOutside ==
  ASSUME PageInv, Outside
  PROVE  PageInv'
<1>1. VaultStep
  BY DEF Outside, KeeperPays, VaultStep
<1>2. paidDates' \in [Payees -> SUBSET Uint]
  <2>1. ASSUME NEW e \in Payees, KeeperPays(e)
        PROVE  paidDates' \in [Payees -> SUBSET Uint]
    <3>1. employeeDetails[e].nextPayTimestamp \in Uint
      BY Typed DEF TypeOK, Employee
    <3>2. QED
      BY <2>1, <3>1, Typed DEF KeeperPays, RestTyped
  <2>2. QED
    BY <2>1, Typed DEF Outside, RestTyped
<1>3. RestTyped'
  BY <1>2, Typed DEF Outside, RestTyped, txVars
<1>4. QED
  BY <1>1, <1>3, PageKept DEF Outside

LEMMA PageStepKeeps ==
  ASSUME PageInv, [DashboardNext]_dashboardVars
  PROVE  PageInv'
<1>1. CASE UNCHANGED dashboardVars
  <2>1. RestTyped'
    BY <1>1, Typed DEF dashboardVars, RestTyped, txVars
  <2>2. QED
    BY <1>1, <2>1, PageKept DEF dashboardVars, VaultStep
<1>2. QED
  BY <1>1, PageReadTotal, PageReadRow, PageFinishLoad, PageFailLoad, PageRefreshed, PageMineAdd,
     PageFailAdd, PageMineEdit, PageMineRemove, PageFailTx, PageClickAdd, PageOpenForm,
     PageClickRemove, PageCancelForm, PageSubmitEdit, PageOutside
  DEF DashboardNext, PageStep, OwnerClicks

LEMMA PageInit == DashboardInit => PageInv
<1> SUFFICES ASSUME DashboardInit PROVE PageInv
  OBVIOUS
<1>1. TypeOK
  BY VaultAssumption DEF DashboardInit, Init, TypeOK, Uint, Employee, Unwritten
<1>2. RosterOK
  BY DEF DashboardInit, Init, RosterOK
<1>3. loads \in Seq(Load) /\ Len(loads) = 1 /\ loads # << >> /\ \A k \in DOMAIN loads : loads[k] = NewLoad
  BY NewLoadOK DEF DashboardInit
<1>4. Len(loads) <= MaxLoads
  BY <1>3, DashboardAssumption
<1>5. LoadsOK
  BY <1>1, <1>3, NewLoadOK DEF LoadsOK
<1>6. /\ employeeAddresses \in Seq(Payees) /\ allEmployees \in Seq(Row)
      /\ paidDates \in [Payees -> SUBSET Uint] /\ 0 \in 0 .. MaxClicks /\ 0 \in 0 .. MaxErrors
      /\ TablePaired
  BY DashboardAssumption DEF DashboardInit, TablePaired, Paired
<1>7. DashboardTypeOK
  BY <1>1, <1>3, <1>4, <1>6 DEF DashboardInit, DashboardTypeOK
<1>8. QED
  BY <1>2, <1>3, <1>5, <1>6, <1>7 DEF DashboardInit, PageInv, LoadingEnds, FormShown

LEMMA PageHolds == DashboardSpec => []PageInv
  BY PageInit, PageStepKeeps, PTL DEF DashboardSpec

(***************************************************************************)
(* The page's state is well formed after any clicks, loads and failures.   *)
(***************************************************************************)
THEOREM PageTyped == DashboardSpec => []DashboardTypeOK
<1>1. PageInv => DashboardTypeOK
  BY DEF PageInv
<1>2. QED
  BY <1>1, PageHolds, PTL

(***************************************************************************)
(* An address and the record beside it are always of the same person, in   *)
(* the table and in every load under way.                                  *)
(***************************************************************************)
THEOREM RowsArePaired == DashboardSpec => []RowsPaired
<1>1. PageInv => RowsPaired
  BY DEF PageInv, TablePaired, LoadsOK, LoadOK, RowsPaired
<1>2. QED
  BY <1>1, PageHolds, PTL

(***************************************************************************)
(* When no load is left, the table is shown, however many loads overlapped *)
(* and failed.                                                             *)
(***************************************************************************)
THEOREM TableIsShown == DashboardSpec => []LoadingEnds
<1>1. PageInv => LoadingEnds
  BY DEF PageInv
<1>2. QED
  BY <1>1, PageHolds, PTL

-----------------------------------------------------------------------------
(***************************************************************************)
(* Selections.  The places of what is selected are all different and go up *)
(* with the order of the list, so two selections of the same are equal.    *)
(***************************************************************************)
LEMMA PlaceIs ==
  ASSUME NEW N \in Nat, NEW S, S \subseteq 1 .. N, NEW n \in Nat
  PROVE  Place(S, n) \in Nat /\ IsFiniteSet({i \in S : i <= n})
<1>1. IsFiniteSet(1 .. N)
  BY FS_Interval
<1>2. IsFiniteSet({i \in S : i <= n})
  BY <1>1, FS_Subset
<1>3. QED
  BY <1>2, FS_CardinalityType DEF Place

LEMMA PlaceZero ==
  ASSUME NEW N \in Nat, NEW S, S \subseteq 1 .. N
  PROVE  Place(S, 0) = 0
<1>1. ASSUME NEW i \in S, i <= 0 PROVE FALSE
  <2>1. i \in 1 .. N
    OBVIOUS
  <2>2. QED
    BY <1>1, <2>1
<1>2. QED
  <2>1. {i \in S : i <= 0} = {}
    BY <1>1
  <2>2. QED
    BY <2>1, FS_EmptySet DEF Place

LEMMA PlaceNext ==
  ASSUME NEW N \in Nat, NEW S, S \subseteq 1 .. N, NEW n \in Nat
  PROVE  Place(S, n + 1) = IF n + 1 \in S THEN Place(S, n) + 1 ELSE Place(S, n)
<1> DEFINE upTo(m) == {i \in S : i <= m}
<1>1. IsFiniteSet(upTo(n)) /\ n + 1 \notin upTo(n)
  <2>1. IsFiniteSet(upTo(n))
    BY PlaceIs
  <2>2. ~(n + 1 <= n)
    OBVIOUS
  <2>3. QED
    BY <2>1, <2>2
<1>2. \A i \in S : i \in Int /\ (i <= n + 1 <=> i <= n \/ i = n + 1)
  <2>1. \A i \in S : i \in 1 .. N
    OBVIOUS
  <2>2. QED
    BY <2>1
<1>3. CASE n + 1 \in S
  <2>1. upTo(n + 1) = upTo(n) \cup {n + 1}
    BY <1>2, <1>3
  <2> HIDE DEF upTo
  <2>2. Cardinality(upTo(n + 1)) = Cardinality(upTo(n)) + 1
    BY <1>1, <2>1, FS_AddElement
  <2>3. QED
    BY <1>3, <2>2 DEF Place, upTo
<1>4. CASE n + 1 \notin S
  <2>1. upTo(n + 1) = upTo(n)
    BY <1>2, <1>4
  <2>2. QED
    BY <1>4, <2>1 DEF Place
<1>5. QED
  BY <1>3, <1>4

LEMMA PlacesDiffer ==
  ASSUME NEW N \in Nat, NEW S, S \subseteq 1 .. N, NEW i \in S, NEW j \in S, i < j
  PROVE  Place(S, i) < Place(S, j)
<1> DEFINE lower == {k \in S : k <= i}
           upper == {k \in S : k <= j}
<1>1. i \in Nat /\ j \in Nat /\ \A k \in S : k \in Nat
  <2>1. \A k \in S : k \in 1 .. N
    OBVIOUS
  <2>2. QED
    BY <2>1
<1>2. IsFiniteSet(upper) /\ Cardinality(upper) \in Nat
  BY <1>1, PlaceIs DEF Place
<1>3. lower \subseteq upper /\ j \in upper /\ j \notin lower
  <2>1. j <= j /\ ~(j <= i)
    BY <1>1
  <2>2. \A k \in S : k <= i => k <= j
    BY <1>1
  <2>3. QED
    BY <2>1, <2>2
<1>4. Place(S, i) = Cardinality(lower) /\ Place(S, j) = Cardinality(upper)
  BY DEF Place
<1> HIDE DEF lower, upper
<1>5. /\ IsFiniteSet(lower) /\ Cardinality(lower) <= Cardinality(upper)
      /\ (Cardinality(upper) = Cardinality(lower) => upper = lower)
  BY <1>2, <1>3, FS_Subset
<1>6. Cardinality(lower) \in Nat
  BY <1>5, FS_CardinalityType
<1>7. QED
  BY <1>2, <1>3, <1>4, <1>5, <1>6

LEMMA SelectsNext ==
  ASSUME NEW N \in Nat, NEW S, S \subseteq 1 .. N, NEW n \in Nat, NEW Names, NEW es,
         NEW as \in Seq(Names), Selects(as, es, S, n)
  PROVE  /\ n + 1 \notin S => Selects(as, es, S, n + 1)
         /\ n + 1 \in S /\ es[n + 1] \in Names => Selects(Append(as, es[n + 1]), es, S, n + 1)
<1>1. Place(S, n) \in Nat /\ Len(as) = Place(S, n)
  BY PlaceIs DEF Selects
<1>2. DOMAIN as = 1 .. Place(S, n)
  BY <1>1, LenProperties
<1>3. \A j \in S : j <= n => j <= n + 1
  <2>1. \A j \in S : j \in 1 .. N
    OBVIOUS
  <2>2. QED
    BY <2>1
<1>4. \A i \in 1 .. Place(S, n) :
        \E j \in S : j <= n + 1 /\ Place(S, j) = i /\ as[i] = es[j]
  BY <1>2, <1>3 DEF Selects
<1>5. ASSUME n + 1 \notin S PROVE Selects(as, es, S, n + 1)
  <2>1. Place(S, n + 1) = Place(S, n)
    BY <1>5, PlaceNext
  <2>2. QED
    BY <1>1, <1>2, <1>4, <2>1 DEF Selects
<1>6. ASSUME n + 1 \in S, es[n + 1] \in Names PROVE Selects(Append(as, es[n + 1]), es, S, n + 1)
  <2>1. PICK x \in Names : x = es[n + 1]
    BY <1>6
  <2> DEFINE more == Append(as, x)
  <2>2. more = Append(as, es[n + 1])
    BY <2>1
  <2>3. /\ more \in Seq(Names) /\ Len(more) = Len(as) + 1 /\ more[Len(as) + 1] = x
        /\ \A i \in 1 .. Len(as) : more[i] = as[i]
    <3>1. more \in Seq(Names) /\ Len(more) = Len(as) + 1
      BY AppendProperties
    <3>2. more[Len(as) + 1] = x
      BY AppendProperties
    <3>3. \A i \in 1 .. Len(as) : more[i] = as[i]
      BY AppendProperties
    <3>4. QED
      BY <3>1, <3>2, <3>3
  <2> HIDE DEF more
  <2>4. Place(S, n + 1) = Place(S, n) + 1
    BY <1>6, PlaceNext
  <2>5. DOMAIN more = 1 .. Place(S, n) + 1
    BY <1>1, <2>3, LenProperties
  <2>6. ASSUME NEW i \in 1 .. Place(S, n)
        PROVE  \E j \in S : j <= n + 1 /\ Place(S, j) = i /\ more[i] = es[j]
    BY <1>1, <1>4, <2>3
  <2>7. more[Place(S, n) + 1] = es[n + 1] /\ n + 1 <= n + 1
    BY <1>1, <2>1, <2>3
  <2>8. \A i \in 1 .. Place(S, n) + 1 : i \in 1 .. Place(S, n) \/ i = Place(S, n) + 1
    BY <1>1
  <2>9. \A i \in DOMAIN more : \E j \in S : j <= n + 1 /\ Place(S, j) = i /\ more[i] = es[j]
    BY <1>6, <2>4, <2>5, <2>6, <2>7, <2>8
  <2>10. QED
    BY <1>1, <2>1, <2>2, <2>3, <2>4, <2>9 DEF Selects
<1>7. QED
  BY <1>5, <1>6

LEMMA SelectionsEqual ==
  ASSUME NEW N \in Nat, NEW S, S \subseteq 1 .. N, NEW n \in Nat, NEW Names, NEW es,
         NEW as \in Seq(Names), NEW bs \in Seq(Names), Selects(as, es, S, n), Selects(bs, es, S, n)
  PROVE  as = bs
<1>1. Len(as) = Len(bs)
  BY DEF Selects
<1>2. DOMAIN as = 1 .. Len(as) /\ DOMAIN bs = 1 .. Len(as)
  BY <1>1, LenProperties
<1>3. ASSUME NEW i \in 1 .. Len(as) PROVE as[i] = bs[i]
  <2>1. PICK j \in S : Place(S, j) = i /\ as[i] = es[j]
    BY <1>2 DEF Selects
  <2>2. PICK k \in S : Place(S, k) = i /\ bs[i] = es[k]
    BY <1>2 DEF Selects
  <2>3. j \in Int /\ k \in Int /\ Place(S, j) \in Int
    <3>1. j \in 1 .. N /\ k \in 1 .. N
      OBVIOUS
    <3>2. QED
      BY <2>1, <3>1
  <2>4. ~(j < k) /\ ~(k < j)
    <3>1. ASSUME j < k PROVE FALSE
      <4>1. Place(S, j) < Place(S, k)
        BY <3>1, PlacesDiffer
      <4>2. QED
        BY <2>1, <2>2, <2>3, <4>1
    <3>2. ASSUME k < j PROVE FALSE
      <4>1. Place(S, k) < Place(S, j)
        BY <3>2, PlacesDiffer
      <4>2. QED
        BY <2>1, <2>2, <2>3, <4>1
    <3>3. QED
      BY <3>1, <3>2
  <2>5. j = k
    BY <2>3, <2>4
  <2>6. QED
    BY <2>1, <2>2, <2>5
<1>4. QED
  BY <1>1, <1>3, SeqEqual

-----------------------------------------------------------------------------
(***************************************************************************)
(* Why the table settles and an open form stays on its row.  As long as    *)
(* the vault did not change under a load and none failed, every load has   *)
(* read what the contract says now; and the table that is shown shows it,  *)
(* unless a load is still to come.                                         *)
(***************************************************************************)
Untouched == ~overlap /\ errors = 0

ReadRight(load) ==
  /\ load.total \in {-1, Len(employees)}
  /\ Selects(load.addresses, employees, Employed, load.next)
  /\ ShowsTerms(load.found)

Shown ==
  /\ Selects(employeeAddresses, employees, Employed, Len(employees))
  /\ ShowsTerms(allEmployees)

ShownWhenDue == (IF loads = << >> THEN events = 0 ELSE ~loadingEmployees) => Shown
FormOnRow == form # Closed => form.of = employeeAddresses[form.row]

Fresh ==
  Untouched => (\A k \in DOMAIN loads : ReadRight(loads[k])) /\ ShownWhenDue /\ FormOnRow

\* the list and the terms stay; pay dates may move
SameRoster ==
  /\ employees' = employees
  /\ \A e \in Payees : /\ TermsShown(employeeDetails'[e]) = TermsShown(employeeDetails[e])
                       /\ employeeDetails'[e].deleted = employeeDetails[e].deleted

LEMMA EmployedIs ==
  ASSUME TypeOK
  PROVE  Len(employees) \in Nat /\ Employed \subseteq 1 .. Len(employees)
  BY LenProperties DEF TypeOK, Employed

LEMMA EmployedKept ==
  ASSUME TypeOK, SameRoster
  PROVE  Employed' = Employed
<1>1. \A j \in DOMAIN employees : employees[j] \in Payees
  BY DEF TypeOK
<1>2. QED
  BY <1>1 DEF Employed, SameRoster

LEMMA TermsKept ==
  ASSUME SameRoster, NEW rows \in Seq(Row), ShowsTerms(rows)
  PROVE  ShowsTerms(rows)'
<1>1. \A i \in DOMAIN rows : rows[i] \in Row
  OBVIOUS
<1>2. \A row \in Row : row.of \in Payees
  BY DEF Row
<1>3. QED
  BY <1>1, <1>2 DEF ShowsTerms, SameRoster

LEMMA ReadKept ==
  ASSUME TypeOK, SameRoster, NEW load \in Load, ReadRight(load)
  PROVE  ReadRight(load)'
<1>1. load.found \in Seq(Row)
  BY DEF Load
<1>2. PICK rows \in Seq(Row) : rows = load.found
  BY <1>1
<1>3. ShowsTerms(rows)'
  BY <1>2, TermsKept DEF ReadRight
<1>4. Employed' = Employed /\ employees' = employees
  BY EmployedKept DEF SameRoster
<1>5. QED
  BY <1>2, <1>3, <1>4 DEF ReadRight, ShowsTerms

LEMMA NewReadRight ==
  ASSUME TypeOK
  PROVE  ReadRight(NewLoad)
<1>1. Place(Employed, 0) = 0
  BY EmployedIs, PlaceZero
<1>2. Len(<< >>) = 0 /\ DOMAIN << >> = {}
  OBVIOUS
<1>3. Selects(<< >>, employees, Employed, 0)
  BY <1>1, <1>2 DEF Selects
<1>4. ShowsTerms(<< >>)
  BY <1>2 DEF ShowsTerms
<1>5. /\ NewLoad.total = -1 /\ NewLoad.next = 0
      /\ NewLoad.addresses = << >> /\ NewLoad.found = << >>
  BY DEF NewLoad
<1>6. QED
  BY <1>3, <1>4, <1>5 DEF ReadRight

LEMMA ShownKept ==
  ASSUME PageInv, SameRoster, UNCHANGED tableVars, Shown
  PROVE  Shown'
<1>1. PICK rows \in Seq(Row) : rows = allEmployees /\ ShowsTerms(rows)
  BY DEF PageInv, DashboardTypeOK, Shown
<1>2. ShowsTerms(rows)' /\ Employed' = Employed /\ employees' = employees
  BY <1>1, TermsKept, EmployedKept DEF PageInv, DashboardTypeOK, SameRoster
<1>3. QED
  BY <1>1, <1>2 DEF Shown, ShowsTerms, tableVars

LEMMA LoadsRight ==
  ASSUME PageInv, TypeOK', \A k \in DOMAIN loads : ReadRight(loads[k]),
         SameRoster \/ loads = << >>,
         \A k \in DOMAIN loads' : loads'[k] = NewLoad \/ \E j \in DOMAIN loads : loads'[k] = loads[j]
  PROVE  \A k \in DOMAIN loads' : ReadRight(loads[k])'
<1> SUFFICES ASSUME NEW k \in DOMAIN loads'
             PROVE  ReadRight(loads[k])'
  OBVIOUS
<1>1. PICK load : load = loads'[k]
  OBVIOUS
<1>2. CASE load = NewLoad
  <2>1. ReadRight(NewLoad)'
    BY NewReadRight, PTL
  <2>2. QED
    BY <1>1, <1>2, <2>1 DEF ReadRight, ShowsTerms, NewLoad
<1>3. CASE \E j \in DOMAIN loads : load = loads[j]
  <2>1. load \in Load /\ ReadRight(load) /\ loads # << >>
    BY <1>3 DEF PageInv, DashboardTypeOK
  <2>2. ReadRight(load)'
    BY <2>1, ReadKept DEF PageInv, DashboardTypeOK
  <2>3. QED
    BY <1>1, <2>2 DEF ReadRight, ShowsTerms
<1>4. QED
  BY <1>1, <1>2, <1>3

(***************************************************************************)
(* The steps that leave the table as it is: the loads and the list do not  *)
(* change; or loads start; or the vault changes when none is under way,    *)
(* and an event says so.                                                   *)
(***************************************************************************)
LEMMA FreshKept ==
  ASSUME PageInv, Fresh, TypeOK', UNCHANGED tableVars, Untouched' => Untouched,
         form' \in {form, Closed},
         \/ SameRoster /\ UNCHANGED <<loads, loadingEmployees>> /\ (events' = 0 => events = 0)
         \/ (SameRoster \/ loads = << >>) /\ \E n \in Nat \ {0} : StartLoads(n)
         \/ UNCHANGED <<loads, loadingEmployees>> /\ loads = << >> /\ events' # 0
  PROVE  Fresh'
<1> SUFFICES ASSUME Untouched'
             PROVE  (\A k \in DOMAIN loads' : ReadRight(loads[k])') /\ ShownWhenDue' /\ FormOnRow'
  BY DEF Fresh
<1>1. (\A k \in DOMAIN loads : ReadRight(loads[k])) /\ ShownWhenDue /\ FormOnRow
  BY DEF Fresh
<1>2. FormOnRow'
  BY <1>1 DEF FormOnRow, tableVars
<1>3. CASE SameRoster /\ UNCHANGED <<loads, loadingEmployees>> /\ (events' = 0 => events = 0)
  <2>1. \A k \in DOMAIN loads' : ReadRight(loads[k])'
    BY <1>1, <1>3, LoadsRight
  <2>2. ShownWhenDue'
    BY <1>1, <1>3, ShownKept DEF ShownWhenDue
  <2>3. QED
    BY <1>2, <2>1, <2>2
<1>4. CASE (SameRoster \/ loads = << >>) /\ \E n \in Nat \ {0} : StartLoads(n)
  <2>1. /\ loads' # << >> /\ loadingEmployees' = TRUE
        /\ \A k \in DOMAIN loads' :
             loads'[k] = NewLoad \/ (k \in DOMAIN loads /\ loads'[k] = loads[k])
    BY <1>4, Starts DEF PageInv, DashboardTypeOK
  <2>2. \A k \in DOMAIN loads' : ReadRight(loads[k])'
    BY <1>1, <1>4, <2>1, LoadsRight
  <2>3. ShownWhenDue'
    BY <2>1 DEF ShownWhenDue
  <2>4. QED
    BY <1>2, <2>2, <2>3
<1>5. CASE UNCHANGED <<loads, loadingEmployees>> /\ loads = << >> /\ events' # 0
  <2>1. \A k \in DOMAIN loads' : ReadRight(loads[k])'
    BY <1>5
  <2>2. ShownWhenDue'
    BY <1>5 DEF ShownWhenDue
  <2>3. QED
    BY <1>2, <2>1, <2>2
<1>6. QED
  BY <1>3, <1>4, <1>5

LEMMA SameVault ==
  ASSUME UNCHANGED vars
  PROVE  SameRoster
  BY DEF vars, roster, SameRoster

LEMMA FreshReadTotal ==
  ASSUME PageInv, Fresh, PageInv', NEW k \in DOMAIN loads, ReadTotal(k)
  PROVE  Fresh'
<1> SUFFICES ASSUME Untouched'
             PROVE  (\A j \in DOMAIN loads' : ReadRight(loads[j])') /\ ShownWhenDue' /\ FormOnRow'
  BY DEF Fresh
<1>1. (\A j \in DOMAIN loads : ReadRight(loads[j])) /\ ShownWhenDue /\ FormOnRow
  BY DEF Fresh, ReadTotal, Untouched
<1>2. UNCHANGED vars /\ UNCHANGED <<tableVars, loadingEmployees, form, events>>
  BY DEF ReadTotal
<1>3. loads \in Seq(Load) /\ loads[k] \in Load /\ totalEmployees = Len(employees)
  BY DEF PageInv, DashboardTypeOK, RosterOK
<1>4. DOMAIN loads' = DOMAIN loads /\ loads' # << >> /\ loads # << >>
  BY <1>3 DEF ReadTotal
<1>5. ASSUME NEW j \in DOMAIN loads PROVE ReadRight(loads[j])'
  <2>1. PICK load : load = loads[j]
    OBVIOUS
  <2>2. load \in Load /\ ReadRight(load)
    BY <1>1, <1>3, <1>5, <2>1
  <2>3. ReadRight(load)'
    BY <1>2, <2>2, SameVault, ReadKept DEF PageInv, DashboardTypeOK
  <2>4. /\ loads'[j].addresses = load.addresses /\ loads'[j].found = load.found
        /\ loads'[j].next = load.next
        /\ loads'[j].total \in {load.total, Len(employees)}
    BY <1>3, <2>1, <2>2 DEF ReadTotal, Load
  <2>5. employees' = employees
    BY <1>2 DEF vars, roster
  <2>6. QED
    BY <2>3, <2>4, <2>5 DEF ReadRight, ShowsTerms
<1>6. ShownWhenDue'
  BY <1>1, <1>2, <1>4, SameVault, ShownKept DEF ShownWhenDue
<1>7. FormOnRow'
  BY <1>1, <1>2 DEF FormOnRow, tableVars
<1>8. QED
  BY <1>4, <1>5, <1>6, <1>7

LEMMA FreshReadRow ==
  ASSUME PageInv, Fresh, PageInv', NEW k \in DOMAIN loads, ReadRow(k)
  PROVE  Fresh'
<1> SUFFICES ASSUME Untouched'
             PROVE  (\A j \in DOMAIN loads' : ReadRight(loads[j])') /\ ShownWhenDue' /\ FormOnRow'
  BY DEF Fresh
<1>1. (\A j \in DOMAIN loads : ReadRight(loads[j])) /\ ShownWhenDue /\ FormOnRow
  BY DEF Fresh, ReadRow, Untouched
<1>2. UNCHANGED vars /\ UNCHANGED <<tableVars, loadingEmployees, form, events>>
  BY DEF ReadRow
<1>3. loads \in Seq(Load) /\ loads[k] \in Load /\ LoadOK(loads[k]) /\ TypeOK
  BY DEF PageInv, DashboardTypeOK, LoadsOK
<1>4. DOMAIN loads' = DOMAIN loads /\ loads' # << >> /\ loads # << >>
  BY <1>3 DEF ReadRow
<1>5. ASSUME NEW j \in DOMAIN loads, j # k PROVE ReadRight(loads[j])'
  <2>1. PICK load : load = loads[j]
    OBVIOUS
  <2>2. load \in Load /\ ReadRight(load)
    BY <1>1, <1>3, <1>5, <2>1
  <2>3. ReadRight(load)'
    BY <1>2, <1>3, <2>2, SameVault, ReadKept
  <2>4. loads'[j] = load
    BY <1>3, <1>5, <2>1 DEF ReadRow
  <2>5. QED
    BY <2>3, <2>4 DEF ReadRight, ShowsTerms
<1>6. ReadRight(loads[k])'
  <2>1. PICK load : load = loads[k]
    OBVIOUS
  <2> DEFINE e == employees[load.next + 1]
             row == [of |-> e, details |-> employeeDetails[e]]
             after == WithRow(load, e)
  <2>2. load \in Load /\ LoadOK(load) /\ load.next < load.total /\ ReadRight(load)
    BY <1>1, <1>3, <2>1 DEF ReadRow
  <2>3. /\ load.next + 1 \in 1 .. Len(employees) /\ e \in Payees
        /\ after \in Load /\ LoadOK(after)
        /\ after.next = load.next + 1 /\ after.total = load.total
        /\ after.addresses = IF employeeDetails[e].deleted THEN load.addresses
                             ELSE Append(load.addresses, e)
        /\ after.found = IF employeeDetails[e].deleted THEN load.found
                         ELSE Append(load.found, row)
    BY <1>3, <2>2, RowRead
  <2>4. load.next \in Nat /\ load.addresses \in Seq(Payees) /\ load.found \in Seq(Row)
    BY <2>2 DEF Load
  <2>5. load.next + 1 \in Employed <=> ~employeeDetails[e].deleted
    BY <1>3, <2>3 DEF Employed, TypeOK
  <2>6. Selects(load.addresses, employees, Employed, load.next) /\ ShowsTerms(load.found)
        /\ load.total \in {-1, Len(employees)}
    BY <2>2 DEF ReadRight
  <2>7. Selects(after.addresses, employees, Employed, load.next + 1)
    <3>1. Len(employees) \in Nat /\ Employed \subseteq 1 .. Len(employees)
      BY <1>3, EmployedIs
    <3>2. /\ load.next + 1 \notin Employed =>
               Selects(load.addresses, employees, Employed, load.next + 1)
          /\ load.next + 1 \in Employed =>
               Selects(Append(load.addresses, e), employees, Employed, load.next + 1)
      BY <2>3, <2>4, <2>6, <3>1, SelectsNext
    <3>3. QED
      BY <2>3, <2>5, <3>2
  <2>8. row.of = e /\ row.details = employeeDetails[e] /\ row \in Row
    BY <1>3, <2>3 DEF Row, TypeOK
  <2> HIDE DEF e, row, after
  <2>9. ShowsTerms(after.found)
    <3>1. CASE employeeDetails[e].deleted
      BY <2>3, <2>6, <3>1
    <3>2. CASE ~employeeDetails[e].deleted
      <4> DEFINE more == Append(load.found, row)
      <4>1. /\ Len(more) = Len(load.found) + 1 /\ more \in Seq(Row)
        BY <2>4, <2>8, AppendProperties
      <4>2. more[Len(load.found) + 1] = row
        BY <2>4, <2>8, AppendProperties
      <4>3. \A i \in 1 .. Len(load.found) : more[i] = load.found[i]
        BY <2>4, <2>8, AppendProperties
      <4>4. after.found = more
        BY <2>3, <3>2
      <4> HIDE DEF more
      <4>5. DOMAIN more = (1 .. Len(load.found)) \cup {Len(load.found) + 1}
            /\ DOMAIN load.found = 1 .. Len(load.found)
        <5>1. Len(load.found) \in Nat /\ DOMAIN load.found = 1 .. Len(load.found)
          BY <2>4, LenProperties
        <5>2. DOMAIN more = 1 .. Len(load.found) + 1
          BY <4>1, LenProperties
        <5>3. 1 .. Len(load.found) + 1 = (1 .. Len(load.found)) \cup {Len(load.found) + 1}
          BY <5>1
        <5>4. QED
          BY <5>1, <5>2, <5>3
      <4>6. \A i \in DOMAIN more :
              TermsShown(more[i].details) = TermsShown(employeeDetails[more[i].of])
        BY <2>6, <2>8, <4>2, <4>3, <4>5 DEF ShowsTerms
      <4>7. QED
        BY <4>4, <4>6 DEF ShowsTerms
    <3>3. QED
      BY <3>1, <3>2
  <2>10. ReadRight(after) /\ after \in Load
    BY <2>3, <2>6, <2>7, <2>9 DEF ReadRight
  <2>11. PICK read \in Load : read = after /\ ReadRight(read)
    BY <2>10
  <2>12. ReadRight(read)'
    BY <1>2, <1>3, <2>11, SameVault, ReadKept
  <2>13. loads'[k] = read
    BY <1>3, <2>1, <2>11 DEF ReadRow, after, e
  <2>14. QED
    BY <2>12, <2>13 DEF ReadRight, ShowsTerms
<1>7. ShownWhenDue'
  BY <1>1, <1>2, <1>4, SameVault, ShownKept DEF ShownWhenDue
<1>8. FormOnRow'
  BY <1>1, <1>2 DEF FormOnRow, tableVars
<1>9. QED
  BY <1>4, <1>5, <1>6, <1>7, <1>8

LEMMA FreshFinishLoad ==
  ASSUME PageInv, Fresh, PageInv', NEW k \in DOMAIN loads, FinishLoad(k)
  PROVE  Fresh'
<1> SUFFICES ASSUME Untouched'
             PROVE  (\A j \in DOMAIN loads' : ReadRight(loads[j])') /\ ShownWhenDue' /\ FormOnRow'
  BY DEF Fresh
<1>1. (\A j \in DOMAIN loads : ReadRight(loads[j])) /\ ShownWhenDue /\ FormOnRow
  BY DEF Fresh, FinishLoad, Untouched
<1>2. UNCHANGED vars /\ SameRoster /\ TypeOK /\ TypeOK'
  BY SameVault DEF FinishLoad, PageInv, DashboardTypeOK
<1>3. /\ loads \in Seq(Load) /\ loads[k] \in Load /\ loads # << >>
      /\ employeeAddresses \in Seq(Payees)
  BY DEF PageInv, DashboardTypeOK
<1>4. \A i \in DOMAIN loads' : \E j \in DOMAIN loads : loads'[i] = loads[j]
  BY <1>3, RemoveAtIs DEF FinishLoad
<1>5. \A j \in DOMAIN loads' : ReadRight(loads[j])'
  BY <1>1, <1>2, <1>4, LoadsRight
<1>6. PICK load \in Load : load = loads[k] /\ ReadRight(load)
  BY <1>1, <1>3
<1>7. /\ load.next = Len(employees) /\ load.addresses \in Seq(Payees)
      /\ Selects(load.addresses, employees, Employed, Len(employees))
  <2>1. load.next \in Nat /\ load.next = load.total /\ load.total \in {-1, Len(employees)}
        /\ load.addresses \in Seq(Payees)
    BY <1>6 DEF FinishLoad, Load, ReadRight
  <2>2. load.next = Len(employees)
    BY <2>1
  <2>3. QED
    BY <1>6, <2>1, <2>2 DEF ReadRight
<1>8. ShownWhenDue'
  <2>1. ReadRight(load)' /\ Employed' = Employed /\ employees' = employees
    BY <1>2, <1>6, ReadKept, EmployedKept DEF SameRoster
  <2>2. employeeAddresses' = load.addresses /\ allEmployees' = load.found
    BY <1>6 DEF FinishLoad
  <2>3. Shown'
    BY <1>7, <2>1, <2>2 DEF Shown, ReadRight, ShowsTerms
  <2>4. QED
    BY <2>3 DEF ShownWhenDue
<1>9. FormOnRow'
  <2>1. SUFFICES ASSUME form' # Closed
                 PROVE  form'.of = employeeAddresses'[form'.row]
    BY DEF FormOnRow
  <2>2. form' = form /\ form # Closed
    BY <2>1 DEF FinishLoad
  <2>3. ~loadingEmployees /\ form.of = employeeAddresses[form.row]
    BY <1>1, <2>2 DEF PageInv, FormShown, FormOnRow
  <2>4. Selects(employeeAddresses, employees, Employed, Len(employees))
    BY <1>1, <1>3, <2>3 DEF ShownWhenDue, Shown
  <2>5. Len(employees) \in Nat /\ Employed \subseteq 1 .. Len(employees)
    BY <1>2, EmployedIs
  <2>6. load.addresses = employeeAddresses
    BY <1>3, <1>7, <2>4, <2>5, SelectionsEqual
  <2>7. employeeAddresses' = employeeAddresses
    BY <1>6, <2>6 DEF FinishLoad
  <2>8. QED
    BY <2>2, <2>3, <2>7
<1>10. QED
  BY <1>5, <1>8, <1>9

LEMMA FreshOpenForm ==
  ASSUME PageInv, Fresh, PageInv', NEW i \in DOMAIN allEmployees, OpenForm(i)
  PROVE  Fresh'
<1> SUFFICES ASSUME Untouched'
             PROVE  (\A j \in DOMAIN loads' : ReadRight(loads[j])') /\ ShownWhenDue' /\ FormOnRow'
  BY DEF Fresh
<1>1. (\A j \in DOMAIN loads : ReadRight(loads[j])) /\ ShownWhenDue
  BY DEF Fresh, OpenForm, Untouched
<1>2. UNCHANGED <<loads, tableVars, loadingEmployees, events>> /\ SameRoster /\ TypeOK /\ TypeOK'
  BY SameVault DEF OpenForm, PageInv, DashboardTypeOK
<1>3. \A j \in DOMAIN loads' : ReadRight(loads[j])'
  BY <1>1, <1>2, LoadsRight
<1>4. ShownWhenDue'
  BY <1>1, <1>2, ShownKept DEF ShownWhenDue
<1>5. FormOnRow'
  <2>1. /\ allEmployees \in Seq(Row) /\ employeeAddresses \in Seq(Payees)
        /\ Paired(employeeAddresses, allEmployees)
    BY DEF PageInv, DashboardTypeOK, TablePaired
  <2>2. allEmployees[i].of = employeeAddresses[i]
    BY <2>1 DEF Paired
  <2>3. form'.row = i /\ form'.of = allEmployees[i].of /\ employeeAddresses' = employeeAddresses
    BY DEF OpenForm, tableVars
  <2>4. QED
    BY <2>2, <2>3 DEF FormOnRow
<1>6. QED
  BY <1>3, <1>4, <1>5

LEMMA PaymentKeepsTerms ==
  ASSUME TypeOK, NEW e \in Payees, performUpkeep(e)
  PROVE  SameRoster
<1>1. /\ employees' = employees
      /\ employeeDetails' = [employeeDetails EXCEPT ![e].nextPayTimestamp = NextDate(e)]
  BY DEF performUpkeep, roster
<1>2. employeeDetails[e] \in Employee /\ employeeDetails \in [Payees -> Employee]
  BY DEF TypeOK
<1>3. ASSUME NEW x \in Payees, x # e PROVE employeeDetails'[x] = employeeDetails[x]
  BY <1>1, <1>2, <1>3
<1>4. employeeDetails'[e] = [employeeDetails[e] EXCEPT !.nextPayTimestamp = NextDate(e)]
  BY <1>1, <1>2
<1>5. /\ TermsShown(employeeDetails'[e]) = TermsShown(employeeDetails[e])
      /\ employeeDetails'[e].deleted = employeeDetails[e].deleted
  BY <1>2, <1>4 DEF TermsShown, Employee
<1>6. QED
  BY <1>1, <1>3, <1>5 DEF SameRoster

LEMMA Overlapping ==
  ASSUME PageInv, ChangeUnderWay, Untouched', errors' = errors
  PROVE  loads = << >> /\ Untouched
<1>1. overlap' = (overlap \/ loads # << >>) /\ ~overlap' /\ errors' = 0
  BY DEF ChangeUnderWay, Untouched
<1>2. ~overlap /\ loads = << >>
  BY <1>1
<1>3. QED
  BY <1>1, <1>2 DEF Untouched

LEMMA FreshMined ==
  ASSUME PageInv, Fresh, PageInv', MineAdd \/ MineEdit \/ MineRemove
  PROVE  Fresh'
<1> SUFFICES ASSUME Untouched' PROVE Fresh'
  BY DEF Fresh
<1>1. ChangeUnderWay /\ errors' = errors /\ UNCHANGED tableVars /\ TypeOK'
  BY DEF MineAdd, MineEdit, MineRemove, PageInv, DashboardTypeOK
<1>2. loads = << >> /\ Untouched
  BY <1>1, Overlapping
<1>3. CASE MineAdd
  <2>1. \E n \in Nat \ {0} : StartLoads(n)
    BY <1>3 DEF MineAdd, LoadAfterAdd
  <2>2. form' = Closed
    BY <1>3 DEF MineAdd, LoadAfterAdd, StartLoads
  <2>3. QED
    BY <1>1, <1>2, <2>1, <2>2, FreshKept
<1>4. CASE MineEdit \/ MineRemove
  <2>1. /\ UNCHANGED <<loads, loadingEmployees>> /\ form' \in {form, Closed}
        /\ events' = events + 1
    BY <1>4 DEF MineEdit, MineRemove, Announced
  <2>2. events' # 0
    BY <2>1 DEF PageInv, DashboardTypeOK
  <2>3. QED
    BY <1>1, <1>2, <2>1, <2>2, FreshKept
<1>5. QED
  BY <1>3, <1>4

LEMMA FreshStarts ==
  ASSUME PageInv, Fresh, PageInv', UNCHANGED <<vars, tableVars, overlap>>,
         Untouched' => errors = 0, \E n \in Nat \ {0} : StartLoads(n)
  PROVE  Fresh'
<1>1. form' = Closed
  BY DEF StartLoads
<1>2. Untouched' => Untouched
  BY DEF Untouched
<1>3. QED
  BY <1>1, <1>2, SameVault, FreshKept DEF PageInv, DashboardTypeOK

LEMMA FreshSame ==
  ASSUME PageInv, Fresh, PageInv', SameRoster,
         UNCHANGED <<loads, tableVars, loadingEmployees, events, overlap>>,
         Untouched' => errors = 0, form' \in {form, Closed}
  PROVE  Fresh'
<1>1. Untouched' => Untouched
  BY DEF Untouched
<1>2. QED
  BY <1>1, FreshKept DEF PageInv, DashboardTypeOK

LEMMA FreshStep ==
  ASSUME PageInv, Fresh, [DashboardNext]_dashboardVars
  PROVE  Fresh'
<1>1. PageInv' /\ errors \in Nat
  BY PageStepKeeps DEF PageInv, DashboardTypeOK
<1>2. ASSUME NEW k \in DOMAIN loads, FailLoad(k) PROVE Fresh'
  <2>1. errors' # 0
    BY <1>1, <1>2 DEF FailLoad
  <2>2. QED
    BY <2>1 DEF Fresh, Untouched
<1>3. ASSUME Refreshed PROVE Fresh'
  <2>1. PICK n \in 1 .. MaxCopies : StartLoads(n)
    BY <1>3 DEF Refreshed
  <2>2. n \in Nat \ {0}
    BY DashboardAssumption
  <2>3. QED
    BY <1>1, <1>3, <2>1, <2>2, FreshStarts DEF Refreshed, Untouched
<1>4. ASSUME FailAdd PROVE Fresh'
  <2>1. Untouched' => errors = 0
    BY <1>1, <1>4 DEF FailAdd, Untouched
  <2>2. QED
    BY <1>1, <1>4, <2>1, FreshStarts DEF FailAdd, LoadAfterAdd
<1>5. ASSUME NEW e, NEW s, NEW t, NEW f, NEW p, ClickAdd(e, s, t, f, p) PROVE Fresh'
  BY <1>1, <1>5, FreshStarts DEF ClickAdd, Untouched
<1>6. ASSUME FailTx PROVE Fresh'
  <2>1. errors' # 0
    BY <1>1, <1>6 DEF FailTx
  <2>2. QED
    BY <2>1 DEF Fresh, Untouched
<1>7. ASSUME CancelForm PROVE Fresh'
  BY <1>1, <1>7, SameVault, FreshSame DEF CancelForm, Untouched
<1>8. ASSUME NEW s, NEW t, NEW typed, NEW p, SubmitEdit(s, t, typed, p) PROVE Fresh'
  BY <1>1, <1>8, SameVault, FreshSame DEF SubmitEdit, Untouched
<1>9. ASSUME NEW i, ClickRemove(i) PROVE Fresh'
  BY <1>1, <1>9, SameVault, FreshSame DEF ClickRemove, Untouched
<1>10. ASSUME Outside PROVE Fresh'
  <2>1. ASSUME Tick PROVE SameRoster
    BY <2>1 DEF Tick, roster, SameRoster
  <2>2. SameRoster
    BY <1>10, <2>1, PaymentKeepsTerms DEF Outside, KeeperPays, PageInv, DashboardTypeOK
  <2>3. QED
    BY <1>1, <1>10, <2>2, FreshSame DEF Outside, Untouched
<1>11. CASE UNCHANGED dashboardVars
  BY <1>1, <1>11, SameVault, FreshSame DEF dashboardVars, Untouched
<1>12. QED
  BY <1>1, <1>2, <1>3, <1>4, <1>5, <1>6, <1>7, <1>8, <1>9, <1>10, <1>11,
     FreshReadTotal, FreshReadRow, FreshFinishLoad, FreshOpenForm, FreshMined
  DEF DashboardNext, PageStep, OwnerClicks

LEMMA FreshInit == DashboardInit => Fresh
<1> SUFFICES ASSUME DashboardInit PROVE Fresh
  OBVIOUS
<1>1. TypeOK
  BY PageInit DEF PageInv, DashboardTypeOK
<1>2. \A k \in DOMAIN loads : loads[k] = NewLoad
  BY DEF DashboardInit
<1>3. \A k \in DOMAIN loads : ReadRight(loads[k])
  BY <1>1, <1>2, NewReadRight
<1>4. loads # << >> /\ loadingEmployees = TRUE /\ form = Closed
  BY DEF DashboardInit
<1>5. QED
  BY <1>3, <1>4 DEF Fresh, ShownWhenDue, FormOnRow

LEMMA FreshHolds == DashboardSpec => [](PageInv /\ Fresh)
<1>1. PageInv /\ Fresh /\ [DashboardNext]_dashboardVars => (PageInv /\ Fresh)'
  BY PageStepKeeps, FreshStep
<1>2. QED
  BY <1>1, PageInit, FreshInit, PTL DEF DashboardSpec

(***************************************************************************)
(* The address an open edit form sends is the one whose data fill it,      *)
(* unless the vault changed under a load or a request failed.              *)
(***************************************************************************)
THEOREM FormStaysOnRow == DashboardSpec => []FormFollowsRow
<1>1. Fresh => FormFollowsRow
  BY DEF Fresh, Untouched, FormOnRow, FormFollowsRow
<1>2. QED
  BY <1>1, FreshHolds, PTL

(***************************************************************************)
(* When all is quiet, the table lists who is employed, in the contract's   *)
(* order and with their terms, unless the vault changed under a load or a  *)
(* request failed.                                                         *)
(***************************************************************************)
THEOREM TableShowsRoster == DashboardSpec => []TableSettles
<1>1. Fresh => TableSettles
  BY DEF Fresh, Untouched, ShownWhenDue, Shown, TableSettles, Quiet
<1>2. QED
  BY <1>1, FreshHolds, PTL
=============================================================================
