----------------------------- MODULE Dashboard -----------------------------
(***************************************************************************)
(* The owner's Dashboard on the vault: the employee table, its loads, and  *)
(* the forms that add, edit and remove.  getAllEmployees is a chain of     *)
(* awaited reads; every change of addingEmployee and every EmployeeEdited  *)
(* or EmployeeDeleted event starts one or more of them (each render adds   *)
(* another listener), so loads overlap each other, the transactions and    *)
(* the keepers' payments, and finish in any order.                         *)
(*                                                                         *)
(* One transaction of each form is under way at a time, and one edit form  *)
(* is open.  overlap, paidDates and the address a row says its details are *)
(* of are history.                                                         *)
(***************************************************************************)
EXTENDS EthVault, FiniteSets, SequencesExt

CONSTANTS
  weekly, biWeekly, monthly,   \* the intervals the forms offer
  LocalOffset,        \* local clock minus GMT, in the unit of the timestamps
  Closed,             \* no edit form, and no transaction
  MaxLoads,           \* bound on loads under way
  MaxCopies,          \* bound on the loads one event starts
  MaxClicks,          \* bound on the owner's clicks
  MaxErrors           \* bound on failed requests

ASSUME DashboardAssumption ==
  /\ {weekly, biWeekly, monthly} \subseteq Uint /\ weekly # biWeekly
  /\ LocalOffset \in Int
  /\ MaxLoads \in Nat \ {0} /\ MaxCopies \in Nat \ {0}
  /\ MaxClicks \in Nat /\ MaxErrors \in Nat

VARIABLES
  loads,             \* calls of getAllEmployees under way
  employeeAddresses, allEmployees, loadingEmployees,
  addTx, editTx, removeTx,   \* transactions the forms have sent
  form,              \* the open edit form
  events,            \* EmployeeEdited and EmployeeDeleted on their way
  clicks, errors,
  overlap,           \* something changed while a load was under way
  paidDates          \* the pay dates paid since the owner last typed one

tableVars == <<employeeAddresses, allEmployees>>
txVars == <<addTx, editTx, removeTx>>
dashboardVars == <<vars, loads, tableVars, loadingEmployees, txVars, form, events, clicks,
                   errors, overlap, paidDates>>

Row == [of : Payees, details : Employee]
Load == [total : Nat \cup {-1}, next : Nat, addresses : Seq(Payees), found : Seq(Row)]
Form == [row : Nat, of : Payees, details : Employee]
Args == [e : Payees, s : Uint, t : Tokens \cup {Zero}, f : Uint, p : Uint]
EditArgs == [e : Payees, s : Uint, t : Tokens \cup {Zero}, f : Uint, p : Uint,
             typed : Uint \cup {-1}, form : Form]

DashboardTypeOK ==
  /\ TypeOK
  /\ loads \in Seq(Load) /\ Len(loads) <= MaxLoads
  /\ employeeAddresses \in Seq(Payees) /\ allEmployees \in Seq(Row)
  /\ loadingEmployees \in BOOLEAN /\ overlap \in BOOLEAN
  /\ addTx \in Args \cup {Closed} /\ editTx \in EditArgs \cup {Closed}
  /\ removeTx \in Payees \cup {Closed}
  /\ form \in Form \cup {Closed}
  /\ events \in Nat /\ clicks \in 0 .. MaxClicks /\ errors \in 0 .. MaxErrors
  /\ paidDates \in [Payees -> SUBSET Uint]

NewLoad == [total |-> -1, next |-> 0, addresses |-> << >>, found |-> << >>]

DashboardInit ==
  /\ Init
  /\ loads = <<NewLoad>>
  /\ employeeAddresses = << >> /\ allEmployees = << >>
  /\ loadingEmployees = TRUE
  /\ addTx = Closed /\ editTx = Closed /\ removeTx = Closed
  /\ form = Closed
  /\ events = 0 /\ clicks = 0 /\ errors = 0
  /\ overlap = FALSE
  /\ paidDates = [e \in Payees |-> {}]

-----------------------------------------------------------------------------
(***************************************************************************)
(* getAllEmployees.  While loadingEmployees the table is not rendered, and *)
(* an edit form in it is gone.                                             *)
(***************************************************************************)
\* Faulty variant: the table stays while it is loaded again.
StartLoadsBehindTable(n) ==
  /\ Len(loads) + n <= MaxLoads
  /\ loads' = loads \o [i \in 1 .. n |-> NewLoad]
  /\ UNCHANGED <<loadingEmployees, form>>

StartLoads(n) ==
  /\ Len(loads) + n <= MaxLoads
  /\ loads' = loads \o [i \in 1 .. n |-> NewLoad]
  /\ loadingEmployees' = TRUE
  /\ form' = Closed

ReadTotal(k) ==
  /\ loads[k].total = -1
  /\ loads' = [loads EXCEPT ![k].total = totalEmployees]
  /\ UNCHANGED <<vars, tableVars, loadingEmployees, txVars, form, events, clicks, errors,
                 overlap, paidDates>>

\* Faulty variant: the address is kept before the test for removed employees.
WithEveryAddress(load, e) ==
  LET d == employeeDetails[e] IN
  [load EXCEPT !.next = @ + 1, !.addresses = Append(@, e),
               !.found = IF d.deleted THEN @ ELSE Append(@, [of |-> e, details |-> d])]

\* the body of the loop, for the address employees(next)
WithRow(load, e) ==
  LET d == employeeDetails[e] IN
  IF d.deleted THEN [load EXCEPT !.next = @ + 1]
  ELSE [load EXCEPT !.next = @ + 1, !.addresses = Append(@, e),
                    !.found = Append(@, [of |-> e, details |-> d])]

ReadRow(k) ==
  /\ loads[k].next < loads[k].total
  /\ loads' = [loads EXCEPT ![k] = WithRow(loads[k], employees[loads[k].next + 1])]
  /\ UNCHANGED <<vars, tableVars, loadingEmployees, txVars, form, events, clicks, errors,
                 overlap, paidDates>>

\* The rows are keyed by their position: an open form stays at its position.
FinishLoad(k) ==
  /\ loads[k].next = loads[k].total
  /\ employeeAddresses' = loads[k].addresses
  /\ allEmployees' = loads[k].found
  /\ loadingEmployees' = FALSE
  /\ form' = IF form # Closed /\ form.row > Len(allEmployees') THEN Closed ELSE form
  /\ loads' = RemoveAt(loads, k)
  /\ UNCHANGED <<vars, txVars, events, clicks, errors, overlap, paidDates>>

\* Faulty variant: the catch block leaves the table loading.
StillLoading == loadingEmployees

\* the catch block
LoadingAfterError == FALSE

FailLoad(k) ==
  /\ errors < MaxErrors
  /\ errors' = errors + 1
  /\ loadingEmployees' = LoadingAfterError
  /\ loads' = RemoveAt(loads, k)
  /\ UNCHANGED <<vars, tableVars, txVars, form, events, clicks, overlap, paidDates>>

\* an event reaches the page; the number of listeners is that of the renders so far
Refreshed ==
  /\ events > 0
  /\ events' = events - 1
  /\ \E n \in 1 .. MaxCopies : StartLoads(n)
  /\ UNCHANGED <<vars, tableVars, txVars, clicks, errors, overlap, paidDates>>

-----------------------------------------------------------------------------
(***************************************************************************)
(* The forms.  A click sends a transaction; it is mined, or fails, some    *)
(* time later.                                                             *)
(***************************************************************************)
Click == clicks < MaxClicks /\ clicks' = clicks + 1

\* history: the vault's records change while a load reads them
ChangeUnderWay == overlap' = (overlap \/ loads # << >>)

ClickAdd(e, s, t, f, p) ==
  /\ Click
  /\ addTx = Closed
  /\ addTx' = [e |-> e, s |-> s, t |-> t, f |-> f, p |-> p]
  /\ StartLoads(1)
  /\ UNCHANGED <<vars, tableVars, editTx, removeTx, events, errors, overlap, paidDates>>

\* Faulty variant: the table is loaded when the form is sent, and not again.
LoadAfterAddForgotten == UNCHANGED <<loads, loadingEmployees, form>>

\* addingEmployee has changed back
LoadAfterAdd == StartLoads(1)

MineAdd ==
  /\ addTx # Closed
  /\ addEmployees(owner, addTx.e, addTx.s, addTx.t, addTx.f, addTx.p)
  /\ paidDates' = [paidDates EXCEPT ![addTx.e] = {}]
  /\ addTx' = Closed
  /\ LoadAfterAdd
  /\ ChangeUnderWay
  /\ UNCHANGED <<tableVars, editTx, removeTx, events, clicks, errors>>

\* the vault refuses an employee it has, the wallet or a request may fail
FailAdd ==
  /\ addTx # Closed
  /\ \/ ~Unregistered(addTx.e) /\ UNCHANGED errors
     \/ errors < MaxErrors /\ errors' = errors + 1
  /\ addTx' = Closed
  /\ LoadAfterAdd
  /\ UNCHANGED <<vars, tableVars, editTx, removeTx, events, clicks, overlap, paidDates>>

\* The fields are filled when the form is rendered first.
OpenForm(i) ==
  /\ Click
  /\ ~loadingEmployees /\ form = Closed
  /\ i \in DOMAIN allEmployees
  /\ form' = [row |-> i, of |-> allEmployees[i].of, details |-> allEmployees[i].details]
  /\ UNCHANGED <<vars, loads, tableVars, loadingEmployees, txVars, events, errors, overlap,
                 paidDates>>

CancelForm ==
  /\ form # Closed
  /\ form' = Closed
  /\ UNCHANGED <<vars, loads, tableVars, loadingEmployees, txVars, events, clicks, errors,
                 overlap, paidDates>>

(***************************************************************************)
(* The date field shows GMT and is read as local time (to the minute,      *)
(* which is the unit here).  An interval that is none of the three is      *)
(* filled in as the monthly one, the bi-weekly one as a word, which cannot *)
(* be sent.  Periods are the intervals picked in the forms.                *)
(***************************************************************************)
DateSent(typed) == (IF typed = -1 THEN form.details.nextPayTimestamp ELSE typed) - LocalOffset

IntervalFilledIn == IF form.details.timePeriod = weekly THEN weekly ELSE monthly

IntervalSent(p) == p \in Periods \/ (p = IntervalFilledIn /\ form.details.timePeriod # biWeekly)

SubmitEdit(s, t, typed, p) ==
  /\ Click
  /\ form # Closed /\ editTx = Closed
  /\ DateSent(typed) \in Uint
  /\ IntervalSent(p)
  /\ editTx' = [e |-> employeeAddresses[form.row], s |-> s, t |-> t,
                f |-> DateSent(typed), p |-> p, typed |-> typed, form |-> form]
  /\ UNCHANGED <<vars, loads, tableVars, loadingEmployees, addTx, removeTx, form, events,
                 errors, overlap, paidDates>>

\* Faulty variant: nobody listens to the event.
Unannounced == events

\* EmployeeEdited or EmployeeDeleted
Announced == events + 1

MineEdit ==
  /\ editTx # Closed
  /\ editEmployees(owner, editTx.e, editTx.s, editTx.t, editTx.f, editTx.p)
  /\ paidDates' = IF editTx.typed = -1 THEN paidDates
                  ELSE [paidDates EXCEPT ![editTx.e] = {}]
  /\ editTx' = Closed
  /\ form' = IF form = editTx.form THEN Closed ELSE form
  /\ events' = Announced
  /\ ChangeUnderWay
  /\ UNCHANGED <<loads, tableVars, loadingEmployees, addTx, removeTx, clicks, errors>>

ClickRemove(i) ==
  /\ Click
  /\ ~loadingEmployees /\ removeTx = Closed
  /\ i \in DOMAIN allEmployees
  /\ form # Closed => form.row # i
  /\ removeTx' = employeeAddresses[i]
  /\ UNCHANGED <<vars, loads, tableVars, loadingEmployees, addTx, editTx, form, events,
                 errors, overlap, paidDates>>

MineRemove ==
  /\ removeTx # Closed
  /\ removeEmployees(owner, removeTx)
  /\ removeTx' = Closed
  /\ events' = Announced
  /\ ChangeUnderWay
  /\ UNCHANGED <<loads, tableVars, loadingEmployees, addTx, editTx, form, clicks, errors,
                 paidDates>>

FailTx ==
  /\ errors < MaxErrors /\ errors' = errors + 1
  /\ \/ editTx # Closed /\ editTx' = Closed /\ UNCHANGED removeTx
     \/ removeTx # Closed /\ removeTx' = Closed /\ UNCHANGED editTx
  /\ UNCHANGED <<vars, loads, tableVars, loadingEmployees, addTx, form, events, clicks,
                 overlap, paidDates>>

\* what goes on without the page
KeeperPays(e) ==
  /\ performUpkeep(e)
  /\ paidDates' = [paidDates EXCEPT ![e] = @ \cup {employeeDetails[e].nextPayTimestamp}]

Outside ==
  /\ \/ \E e \in Payees : KeeperPays(e)
     \/ Tick /\ UNCHANGED paidDates
  /\ UNCHANGED <<loads, tableVars, loadingEmployees, txVars, form, events, clicks, errors,
                 overlap>>

PageStep ==
  \/ \E k \in DOMAIN loads : ReadTotal(k) \/ ReadRow(k) \/ FinishLoad(k) \/ FailLoad(k)
  \/ Refreshed
  \/ MineAdd \/ FailAdd \/ MineEdit \/ MineRemove \/ FailTx

OwnerClicks ==
  \/ \E e \in Payees, s \in Salaries, t \in Tokens, f \in FirstDates, p \in Periods :
       ClickAdd(e, s, t, f, p)
  \/ \E i \in DOMAIN allEmployees : OpenForm(i) \/ ClickRemove(i)
  \/ CancelForm
  \/ \E s \in Salaries, t \in Tokens, typed \in FirstDates \cup {-1}, p \in Periods \cup {monthly} :
       SubmitEdit(s, t, typed, p)

DashboardNext == PageStep \/ OwnerClicks \/ Outside

DashboardSpec == DashboardInit /\ [][DashboardNext]_dashboardVars

-----------------------------------------------------------------------------
Quiet == loads = << >> /\ events = 0 /\ txVars = <<Closed, Closed, Closed>>

(***************************************************************************)
(* A row of the table is of one person: the record in it was read for the  *)
(* address in it, in the table and in every load under way.                *)
(***************************************************************************)
Paired(as, rs) == Len(as) = Len(rs) /\ \A i \in DOMAIN as : rs[i].of = as[i]

RowsPaired ==
  /\ Paired(employeeAddresses, allEmployees)
  /\ \A k \in DOMAIN loads : Paired(loads[k].addresses, loads[k].found)

(***************************************************************************)
(* The table does not stay loading when no load is left, whichever of      *)
(* several ended first and whichever failed.                               *)
(***************************************************************************)
LoadingEnds == loads = << >> => ~loadingEmployees

(***************************************************************************)
(* The table settles on the roster: when all is quiet and nothing changed  *)
(* while a load was under way, it lists who is employed with their terms,  *)
(* in the order of the contract's list (row i is the i-th entry that is    *)
(* not removed); only the next pay date may have moved on.                 *)
(***************************************************************************)
Employed == {j \in DOMAIN employees : ~employeeDetails[employees[j]].deleted}

Place(S, j) == Cardinality({i \in S : i <= j})

\* as has what es has at the places S, up to n, in its order
Selects(as, es, S, n) ==
  /\ Len(as) = Place(S, n)
  /\ \A i \in DOMAIN as : \E j \in S : j <= n /\ Place(S, j) = i /\ as[i] = es[j]

TermsShown(d) == [d EXCEPT !.nextPayTimestamp = 0]
ShowsTerms(rows) ==
  \A i \in DOMAIN rows : TermsShown(rows[i].details) = TermsShown(employeeDetails[rows[i].of])

TableSettles ==
  Quiet /\ ~overlap /\ errors = 0 =>
    /\ Selects(employeeAddresses, employees, Employed, Len(employees))
    /\ ShowsTerms(allEmployees)

(***************************************************************************)
(* Rows are keyed by their position (Dashboard.js:365), and the address an *)
(* open edit form sends is that of its row: it is still the one whose data *)
(* fill the form, however loads, additions and removals follow each other, *)
(* unless the vault changed while a load was reading it or one failed.     *)
(***************************************************************************)
FormFollowsRow ==
  form # Closed /\ ~overlap /\ errors = 0 => form.of = employeeAddresses[form.row]

(***************************************************************************)
(* A second payment for the same date "cannot be done" (test/Eth.t.sol:133)*)
(* unless the owner has typed a date since: an edit that leaves the date   *)
(* as it is pays nobody twice.                                             *)
(***************************************************************************)
NoDatePaidTwice ==
  [][\A e \in Payees : paid'[e] = paid[e] + 1 =>
       employeeDetails[e].nextPayTimestamp \notin paidDates[e]]_dashboardVars
==============================================================================
