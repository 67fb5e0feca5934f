--------------------------- MODULE EthVault_proofs ---------------------------
(***************************************************************************)
(* Theorems about EthVault, for every set of users, tokens and arguments.  *)
(***************************************************************************)
EXTENDS EthVault, FiniteSetTheorems, SequenceTheorems, WellFoundedInduction, TLAPS

(***************************************************************************)
(* A transfer that does not revert keeps the ledger a ledger: no balance   *)
(* goes below zero.                                                        *)
(***************************************************************************)
LEMMA TransferTyped ==
  ASSUME balances \in Ledger, NEW t \in Tokens \cup {Zero}, NEW from \in Accounts,
         NEW to \in Accounts \cup {Zero}, NEW n \in Nat, Transfer(t, from, to, n)
  PROVE  /\ t \in Tokens /\ to \in Accounts
         /\ balances' \in Ledger
<1>1. t \in Tokens /\ to \in Accounts
  BY DEF Transfer, TransferReverts
<1>2. CASE Covers(t, from, n)
  <2>1. balances[t][from] \in Nat /\ balances[t][from] - n \in Nat
    BY <1>1, <1>2 DEF Covers, Ledger
  <2> DEFINE debited == [balances EXCEPT ![t][from] = @ - n]
  <2>2. debited \in Ledger
    BY <1>1, <2>1 DEF Ledger
  <2>3. balances' = [debited EXCEPT ![t][to] = @ + n]
    BY <1>2 DEF Transfer, AfterTransfer
  <2>4. debited[t][to] + n \in Nat
    BY <1>1, <2>2 DEF Ledger
  <2> HIDE DEF debited
  <2>5. QED
    BY <1>1, <2>2, <2>3, <2>4 DEF Ledger
<1>3. CASE ~Covers(t, from, n)
  BY <1>1, <1>3 DEF Transfer, AfterTransfer
<1>4. QED
  BY <1>1, <1>2, <1>3

(***************************************************************************)
(* A covered transfer between two accounts moves n from one to the other   *)
(* and touches no other token.                                             *)
(***************************************************************************)
LEMMA TransferMoves ==
  ASSUME balances \in Ledger, NEW t \in Tokens, NEW from \in Accounts,
         NEW to \in Accounts, NEW n \in Nat, from # to, Covers(t, from, n)
  PROVE  /\ AfterTransfer(t, from, to, n)[t][from] = balances[t][from] - n
         /\ AfterTransfer(t, from, to, n)[t][to] = balances[t][to] + n
         /\ \A u \in Tokens \ {t} : AfterTransfer(t, from, to, n)[u] = balances[u]
  BY DEF AfterTransfer, Ledger

(***************************************************************************)
(* A transfer touches no account but the two it names.                     *)
(***************************************************************************)
LEMMA TransferAside ==
  ASSUME balances \in Ledger, NEW t, NEW from, NEW to, NEW n, Transfer(t, from, to, n),
         NEW u \in Tokens, NEW a \in Accounts \ {from, to}
  PROVE  balances'[u][a] = balances[u][a]
<1>1. CASE Covers(t, from, n)
  <2> DEFINE debited == [balances EXCEPT ![t][from] = @ - n]
  <2>1. debited[u] \in [Accounts -> {debited[u][b] : b \in Accounts}] /\ debited[u][a] = balances[u][a]
    BY DEF Ledger
  <2>2. balances' = [debited EXCEPT ![t][to] = @ + n] /\ u \in DOMAIN debited
    BY <1>1 DEF Transfer, AfterTransfer, Ledger
  <2> HIDE DEF debited
  <2>3. QED
    BY <2>1, <2>2
<1>2. CASE ~Covers(t, from, n)
  BY <1>2 DEF Transfer, AfterTransfer
<1>3. QED
  BY <1>1, <1>2

-----------------------------------------------------------------------------
(***************************************************************************)
(* Record writes a well-formed record, starts a new schedule for its       *)
(* employee and leaves everybody else's alone.                             *)
(***************************************************************************)
LEMMA RecordTyped ==
  ASSUME TypeOK, NEW e \in Payees, NEW s \in Uint, NEW t \in Tokens \cup {Zero},
         NEW f \in Uint, NEW p \in Uint, NEW d \in BOOLEAN,
         Record(e, s, t, f, p, d)
  PROVE  /\ employeeDetails' \in [Payees -> Employee]
         /\ first' \in [Payees -> Uint]
         /\ paid' \in [Payees -> Nat]
<1>1. [salary |-> s, token |-> t, nextPayTimestamp |-> f, timePeriod |-> p, deleted |-> d]
        \in Employee
  BY DEF Employee
<1>2. QED
  BY <1>1 DEF Record, TypeOK

(***************************************************************************)
(* Type correctness: every call leaves the storage well formed; a stored   *)
(* date never leaves uint256 and no balance goes below zero.               *)
(***************************************************************************)
LEMMA TypeStep ==
  ASSUME TypeOK, [Next]_vars
  PROVE  TypeOK'
<1> USE VaultAssumption, LedgerAssumption
<1>1. ASSUME NEW c \in Users, NEW e \in Payees, NEW s \in Salaries, NEW t \in Tokens \cup {Zero},
             NEW f \in FirstDates, NEW p \in Periods, addEmployees(c, e, s, t, f, p)
      PROVE  TypeOK'
  <2>1. Record(e, s, t, f, p, FALSE)
    BY <1>1 DEF addEmployees
  <2>2. /\ employeeDetails' \in [Payees -> Employee]
        /\ first' \in [Payees -> Uint]
        /\ paid' \in [Payees -> Nat]
    BY <2>1, RecordTyped
  <2>3. QED
    BY <1>1, <2>2 DEF addEmployees, TypeOK
<1>2. ASSUME NEW c \in Users, NEW e \in Payees, NEW s \in Salaries, NEW t \in Tokens \cup {Zero},
             NEW f \in FirstDates, NEW p \in Periods, editEmployees(c, e, s, t, f, p)
      PROVE  TypeOK'
  <2>1. employeeDetails[e].deleted \in BOOLEAN
    BY DEF TypeOK, Employee
  <2>2. QED
    BY <1>2, <2>1, RecordTyped DEF editEmployees, TypeOK, roster
<1>3. ASSUME NEW c \in Users, NEW e \in Payees, removeEmployees(c, e)
      PROVE  TypeOK'
  BY <1>3 DEF removeEmployees, TypeOK, Employee, roster, history
<1>4. ASSUME NEW c \in Users, NEW t \in Tokens, NEW n \in Amounts, withdrawToken(c, t, n)
      PROVE  TypeOK'
  <2>1. n \in Nat /\ c \in Accounts
    BY DEF Uint
  <2>2. balances' \in Ledger
    BY <1>4, <2>1, TransferTyped DEF withdrawToken, TypeOK
  <2>3. QED
    BY <1>4, <2>2 DEF withdrawToken, TypeOK, roster, history
<1>5. ASSUME NEW c \in Users, NEW u \in Users, transferOwnership(c, u)
      PROVE  TypeOK'
  BY <1>5 DEF transferOwnership, TypeOK, roster, history
<1>6. ASSUME NEW c \in Users, renounceOwnership(c)
      PROVE  TypeOK'
  BY <1>6 DEF renounceOwnership, TypeOK, roster, history
<1>7. ASSUME NEW e \in Payees, performUpkeep(e)
      PROVE  TypeOK'
  <2>1. /\ employeeDetails[e].token \in Tokens \cup {Zero}
        /\ employeeDetails[e].salary \in Nat
        /\ e \in Accounts \cup {Zero}
    BY DEF TypeOK, Employee, Uint
  <2>2. balances' \in Ledger
    BY <1>7, <2>1, TransferTyped DEF performUpkeep, TypeOK
  <2>3. NextDate(e) \in Uint
    BY <1>7 DEF performUpkeep, NextDate, TypeOK, Employee, Uint
  <2>4. employeeDetails' \in [Payees -> Employee]
    BY <1>7, <2>3 DEF performUpkeep, TypeOK, Employee
  <2>5. QED
    BY <1>7, <2>2, <2>4 DEF performUpkeep, TypeOK, roster
<1>8. ASSUME NEW u \in Users, NEW t \in Tokens, NEW n \in Amounts, addFunds(u, t, n)
      PROVE  TypeOK'
  <2>1. n \in Nat /\ u \in Accounts
    BY DEF Uint
  <2>2. balances' \in Ledger
    BY <1>8, <2>1, TransferTyped DEF addFunds, TypeOK
  <2>3. QED
    BY <1>8, <2>2 DEF addFunds, TypeOK, roster, history
<1>9. ASSUME Tick
      PROVE  TypeOK'
  BY <1>9 DEF Tick, TypeOK, roster, history, Uint
<1>10. CASE UNCHANGED vars
  BY <1>10 DEF vars, TypeOK
<1>11. QED
  BY <1>1, <1>2, <1>3, <1>4, <1>5, <1>6, <1>7, <1>8, <1>9, <1>10 DEF Next, OwnerStep

THEOREM TypeCorrect == Spec => []TypeOK
<1>1. Init => TypeOK
  BY VaultAssumption DEF Init, TypeOK, Uint, Employee, Unwritten
<1>2. QED
  BY <1>1, TypeStep, PTL DEF Spec

-----------------------------------------------------------------------------
(***************************************************************************)
(* Schedule and pace of one employee.  Together they are inductive: a      *)
(* payment needs the stored date to have come, and only ScheduleExact says *)
(* that the stored date is the date of instalment paid[e].                 *)
(***************************************************************************)
Exact(e) ==
  employeeDetails[e].nextPayTimestamp = first[e] + paid[e] * employeeDetails[e].timePeriod

Ahead(e) ==
  paid[e] > 0 => first[e] + (paid[e] - 1) * employeeDetails[e].timePeriod <= now

(***************************************************************************)
(* A step that leaves an employee's schedule alone keeps both, whatever    *)
(* else it does: the clock only moves forward.                             *)
(***************************************************************************)
LEMMA SameSchedule ==
  ASSUME TypeOK, NEW x \in Payees, Exact(x), Ahead(x),
         employeeDetails'[x].nextPayTimestamp = employeeDetails[x].nextPayTimestamp,
         employeeDetails'[x].timePeriod = employeeDetails[x].timePeriod,
         first'[x] = first[x], paid'[x] = paid[x], now' \in Int, now <= now'
  PROVE  Exact(x)' /\ Ahead(x)'
<1> DEFINE last == first[x] + (paid[x] - 1) * employeeDetails[x].timePeriod
<1>1. last \in Int /\ now \in Int
  BY DEF TypeOK, Employee, Uint
<1>2. last <= now => last <= now'
  <2> HIDE DEF last
  <2>1. QED BY <1>1
<1>3. QED
  BY <1>2 DEF Exact, Ahead

(***************************************************************************)
(* Writing a record starts a schedule nothing has been paid under.         *)
(***************************************************************************)
LEMMA NewSchedule ==
  ASSUME TypeOK, NEW e \in Payees, NEW s \in Salaries, NEW t \in Tokens \cup {Zero},
         NEW f \in FirstDates, NEW p \in Periods, NEW d \in BOOLEAN,
         Record(e, s, t, f, p, d), now' = now, ScheduleExact, NeverAhead
  PROVE  ScheduleExact' /\ NeverAhead'
<1> SUFFICES ASSUME NEW x \in Payees
             PROVE  Exact(x)' /\ Ahead(x)'
  BY DEF ScheduleExact, NeverAhead, Exact, Ahead
<1>1. CASE x = e
  <2>1. /\ employeeDetails'[e].nextPayTimestamp = f
        /\ employeeDetails'[e].timePeriod = p
        /\ first'[e] = f /\ paid'[e] = 0
    BY DEF Record, TypeOK
  <2>2. f \in Nat /\ p \in Nat
    BY VaultAssumption DEF Uint
  <2>3. f = f + 0 * p
    BY <2>2
  <2>4. QED
    BY <1>1, <2>1, <2>3 DEF Exact, Ahead
<1>2. CASE x # e
  <2>1. /\ employeeDetails'[x] = employeeDetails[x]
        /\ first'[x] = first[x] /\ paid'[x] = paid[x]
    BY <1>2 DEF Record, TypeOK
  <2>2. Exact(x) /\ Ahead(x) /\ now' \in Int /\ now <= now'
    BY DEF ScheduleExact, NeverAhead, Exact, Ahead, TypeOK, Uint
  <2>3. QED
    BY <2>1, <2>2, SameSchedule
<1>3. QED
  BY <1>1, <1>2

(***************************************************************************)
(* A payment counts one instalment and moves the date by one period.       *)
(***************************************************************************)
LEMMA PaidSchedule ==
  ASSUME TypeOK, NEW e \in Payees, performUpkeep(e), ScheduleExact, NeverAhead
  PROVE  ScheduleExact' /\ NeverAhead'
<1> SUFFICES ASSUME NEW x \in Payees
             PROVE  Exact(x)' /\ Ahead(x)'
  BY DEF ScheduleExact, NeverAhead, Exact, Ahead
<1>1. CASE x = e
  <2> DEFINE date == employeeDetails[e].nextPayTimestamp
             period == employeeDetails[e].timePeriod
             k == paid[e]
  <2>1. /\ employeeDetails'[e].nextPayTimestamp = date + period
        /\ employeeDetails'[e].timePeriod = period
        /\ paid'[e] = k + 1 /\ first'[e] = first[e] /\ now' = now /\ date <= now
    BY DEF performUpkeep, UpkeepNeeded, NextDate, TypeOK, Employee, Uint
  <2>2. /\ date \in Nat /\ period \in Nat /\ k \in Nat /\ first[e] \in Nat
        /\ date = first[e] + k * period
    BY DEF TypeOK, Employee, Uint, ScheduleExact
  <2> HIDE DEF date, period, k
  <2>3. date + period = first[e] + (k + 1) * period
    BY <2>2
  <2>4. (k + 1) - 1 = k
    BY <2>2
  <2>5. QED
    BY <1>1, <2>1, <2>2, <2>3, <2>4 DEF Exact, Ahead
<1>2. CASE x # e
  <2>1. /\ employeeDetails'[x] = employeeDetails[x]
        /\ first'[x] = first[x] /\ paid'[x] = paid[x]
        /\ now' \in Int /\ now <= now'
    BY <1>2 DEF performUpkeep, TypeOK, Uint
  <2>2. Exact(x) /\ Ahead(x)
    BY DEF ScheduleExact, NeverAhead, Exact, Ahead
  <2>3. QED
    BY <2>1, <2>2, SameSchedule
<1>3. QED
  BY <1>1, <1>2

LEMMA ScheduleStep ==
  ASSUME TypeOK, ScheduleExact, NeverAhead, [Next]_vars
  PROVE  ScheduleExact' /\ NeverAhead'
<1>1. ASSUME NEW c \in Users, NEW e \in Payees, NEW s \in Salaries, NEW t \in Tokens \cup {Zero},
             NEW f \in FirstDates, NEW p \in Periods,
             addEmployees(c, e, s, t, f, p) \/ editEmployees(c, e, s, t, f, p)
      PROVE  ScheduleExact' /\ NeverAhead'
  <2>1. PICK d \in BOOLEAN : Record(e, s, t, f, p, d)
    BY <1>1 DEF addEmployees, editEmployees, TypeOK, Employee
  <2>2. now' = now
    BY <1>1 DEF addEmployees, editEmployees
  <2>3. QED
    BY <2>1, <2>2, NewSchedule
<1>2. ASSUME NEW e \in Payees, performUpkeep(e)
      PROVE  ScheduleExact' /\ NeverAhead'
  BY <1>2, PaidSchedule
<1>3. ASSUME /\ \A x \in Payees :
                  /\ employeeDetails'[x].nextPayTimestamp = employeeDetails[x].nextPayTimestamp
                  /\ employeeDetails'[x].timePeriod = employeeDetails[x].timePeriod
             /\ UNCHANGED <<first, paid>> /\ now' \in Int /\ now <= now'
      PROVE  ScheduleExact' /\ NeverAhead'
  <2>1. ASSUME NEW x \in Payees
        PROVE  Exact(x)' /\ Ahead(x)'
    <3>1. Exact(x) /\ Ahead(x)
      BY DEF ScheduleExact, NeverAhead, Exact, Ahead
    <3>2. QED
      BY <1>3, <3>1, SameSchedule
  <2>2. QED
    BY <2>1 DEF ScheduleExact, NeverAhead, Exact, Ahead
<1>4. ASSUME NEW c \in Users, NEW e \in Payees, removeEmployees(c, e)
      PROVE  ScheduleExact' /\ NeverAhead'
  <2>1. \A x \in Payees :
          /\ employeeDetails'[x].nextPayTimestamp = employeeDetails[x].nextPayTimestamp
          /\ employeeDetails'[x].timePeriod = employeeDetails[x].timePeriod
    BY <1>4 DEF removeEmployees, TypeOK, Employee
  <2>2. QED
    BY <1>3, <1>4, <2>1 DEF removeEmployees, TypeOK, Uint, history
<1>5. ASSUME UNCHANGED <<employeeDetails, first, paid, now>> \/ Tick
      PROVE  ScheduleExact' /\ NeverAhead'
  BY <1>3, <1>5 DEF Tick, TypeOK, Uint, history
<1>6. QED
  BY <1>1, <1>2, <1>4, <1>5
  DEF Next, OwnerStep, withdrawToken, transferOwnership, renounceOwnership, addFunds, vars, history

(***************************************************************************)
(* Both are invariant together.                                            *)
(***************************************************************************)
LEMMA SchedulesKept == Spec => [](ScheduleExact /\ NeverAhead)
<1>1. Init => ScheduleExact /\ NeverAhead
  BY DEF Init, ScheduleExact, NeverAhead, Unwritten
<1>2. TypeOK /\ (ScheduleExact /\ NeverAhead) /\ [Next]_vars => (ScheduleExact /\ NeverAhead)'
  BY ScheduleStep
<1>3. QED
  BY <1>1, <1>2, TypeCorrect, PTL DEF Spec

(***************************************************************************)
(* The date the contract stores is the date the owner set and one period   *)
(* for every payment since, however many keepers call performUpkeep and    *)
(* however late.                                                           *)
(***************************************************************************)
THEOREM ScheduleIsExact == Spec => []ScheduleExact
  BY SchedulesKept, PTL

(***************************************************************************)
(* No employee is ever paid ahead of the dates the owner set.              *)
(***************************************************************************)
THEOREM NobodyIsAhead == Spec => []NeverAhead
  BY SchedulesKept, PTL

-----------------------------------------------------------------------------
(***************************************************************************)
(* A transfer out of the vault lowers the vault's balance of at most that  *)
(* token, by exactly what the receiver gets.                               *)
(***************************************************************************)
LEMMA VaultTransfer ==
  ASSUME TypeOK, NEW t \in Tokens \cup {Zero}, NEW to \in Users \cup {Zero}, NEW n \in Nat,
         Transfer(t, Vault, to, n), NEW u \in Tokens, Outflow(u) > 0
  PROVE  u = t /\ to # Zero /\ Outflow(u) = n /\ Received(u, to) = n
<1> USE VaultAssumption
<1>1. t \in Tokens /\ to \in Accounts /\ to # Zero /\ Vault # to /\ Vault \in Accounts
  BY DEF Transfer, TransferReverts
<1>2. CASE Covers(t, Vault, n)
  <2>1. /\ balances'[t][Vault] = balances[t][Vault] - n
        /\ balances'[t][to] = balances[t][to] + n
        /\ \A v \in Tokens \ {t} : balances'[v] = balances[v]
    BY <1>1, <1>2, TransferMoves DEF Transfer, TypeOK
  <2>2. balances[t][Vault] \in Nat /\ balances[t][to] \in Nat /\ balances[u][Vault] \in Nat
    BY <1>1 DEF TypeOK, Ledger
  <2>3. u = t
    BY <2>1, <2>2 DEF Outflow
  <2>4. QED
    BY <1>1, <2>1, <2>2, <2>3 DEF Outflow, Received
<1>3. CASE ~Covers(t, Vault, n)
  <2>1. balances' = balances /\ balances[u][Vault] \in Nat
    BY <1>1, <1>3 DEF Transfer, AfterTransfer, TypeOK, Ledger
  <2>2. QED
    BY <2>1 DEF Outflow
<1>4. QED
  BY <1>2, <1>3

(***************************************************************************)
(* What a payment takes from the vault is the salary of an employee due.   *)
(***************************************************************************)
LEMMA SalaryOutflow ==
  ASSUME TypeOK, NEW e \in Payees, performUpkeep(e), NEW t \in Tokens, Outflow(t) > 0
  PROVE  SalaryPaid(e, t)
<1> USE VaultAssumption
<1> DEFINE d == employeeDetails[e]
<1>1. /\ d.token \in Tokens \cup {Zero} /\ d.salary \in Nat
      /\ employeeDetails'[e].nextPayTimestamp = d.nextPayTimestamp + d.timePeriod
      /\ now \in Int /\ d.nextPayTimestamp \in Int
  BY DEF performUpkeep, NextDate, TypeOK, Employee, Uint
<1>2. Transfer(d.token, Vault, e, d.salary) /\ e \in Users \cup {Zero}
  BY DEF performUpkeep
<1>3. t = d.token /\ Outflow(t) = d.salary /\ Received(t, e) = d.salary
  BY <1>1, <1>2, VaultTransfer
<1>4. Owed(e)
  BY <1>1 DEF performUpkeep, UpkeepNeeded, Owed
<1>5. QED
  BY <1>1, <1>3, <1>4 DEF SalaryPaid

(***************************************************************************)
(* The step form of OutflowJustified.                                      *)
(***************************************************************************)
LEMMA OutflowStep ==
  ASSUME TypeOK, Next, NEW t \in Tokens, Outflow(t) > 0
  PROVE  \/ owner # Zero /\ Received(t, owner) = Outflow(t) /\ UNCHANGED employeeDetails
         \/ \E e \in Payees : SalaryPaid(e, t)
<1> USE VaultAssumption, LedgerAssumption
<1>1. ASSUME UNCHANGED balances PROVE FALSE
  <2>1. balances[t][Vault] \in Nat
    BY DEF TypeOK, Ledger
  <2>2. QED
    BY <1>1, <2>1 DEF Outflow
<1>2. ASSUME NEW c \in Users, NEW u \in Tokens, NEW n \in Amounts, withdrawToken(c, u, n)
      PROVE  owner # Zero /\ Received(t, owner) = Outflow(t) /\ UNCHANGED employeeDetails
  <2>1. n \in Nat /\ c = owner /\ Transfer(u, Vault, c, n) /\ UNCHANGED employeeDetails
    BY <1>2 DEF withdrawToken, onlyOwner, Uint
  <2>2. c # Zero /\ Outflow(t) = n /\ Received(t, c) = n
    BY <2>1, VaultTransfer
  <2>3. QED
    BY <2>1, <2>2
<1>3. ASSUME NEW e \in Payees, performUpkeep(e)
      PROVE  SalaryPaid(e, t)
  BY <1>3, SalaryOutflow
<1>4. ASSUME NEW u \in Users, NEW v \in Tokens, NEW n \in Amounts, addFunds(u, v, n)
      PROVE  FALSE
  <2>1. n \in Nat /\ u \in Accounts /\ Vault \in Accounts /\ u # Vault
    BY DEF Uint
  <2>2. Covers(v, u, n)
    BY <1>1, <1>4 DEF addFunds, Transfer, AfterTransfer
  <2>3. /\ balances'[v][Vault] = balances[v][Vault] + n
        /\ \A w \in Tokens \ {v} : balances'[w] = balances[w]
    BY <1>4, <2>1, <2>2, TransferMoves DEF addFunds, Transfer, TypeOK
  <2>4. balances[v][Vault] \in Nat /\ balances[t][Vault] \in Nat
    BY DEF TypeOK, Ledger
  <2>5. QED
    BY <2>1, <2>3, <2>4 DEF Outflow
<1>5. QED
  BY <1>1, <1>2, <1>3, <1>4
  DEF Next, OwnerStep, addEmployees, editEmployees, removeEmployees, transferOwnership,
      renounceOwnership, Tick

(***************************************************************************)
(* The vault's calls move tokens between itself and people.                *)
(***************************************************************************)
LEMMA OthersKeep ==
  ASSUME TypeOK, [Next]_vars, NEW t \in Tokens, NEW a \in Accounts \ (Users \cup {Vault})
  PROVE  balances'[t][a] = balances[t][a]
<1>1. ASSUME UNCHANGED balances PROVE balances'[t][a] = balances[t][a]
  BY <1>1
<1>2. ASSUME NEW u, NEW from \in Users \cup {Vault}, NEW to \in Users \cup {Vault, Zero}, NEW n,
             Transfer(u, from, to, n)
      PROVE  balances'[t][a] = balances[t][a]
  BY <1>2, TransferAside, LedgerAssumption DEF TypeOK
<1>3. ASSUME NEW c \in Users, NEW u \in Tokens, NEW n \in Amounts,
             withdrawToken(c, u, n) \/ addFunds(c, u, n)
      PROVE  balances'[t][a] = balances[t][a]
  BY <1>2, <1>3 DEF withdrawToken, addFunds
<1>4. ASSUME NEW e \in Payees, performUpkeep(e)
      PROVE  balances'[t][a] = balances[t][a]
  BY <1>2, <1>4, VaultAssumption DEF performUpkeep
<1>5. QED
  BY <1>1, <1>3, <1>4
  DEF Next, OwnerStep, vars, addEmployees, editEmployees, removeEmployees, transferOwnership,
      renounceOwnership, Tick

(***************************************************************************)
(* Every unit that leaves the vault is the owner's withdrawal or the full  *)
(* salary of an employee who is due at that moment, for tokens that revert *)
(* and for tokens that answer FALSE alike.                                 *)
(***************************************************************************)
THEOREM OutflowIsJustified == Spec => OutflowJustified
<1>1. TypeOK /\ [Next]_vars =>
        [\A t \in Tokens : Outflow(t) > 0 =>
           \/ owner # Zero /\ Received(t, owner) = Outflow(t) /\ UNCHANGED employeeDetails
           \/ \E e \in Payees : SalaryPaid(e, t)]_vars
  BY OutflowStep
<1>2. QED
  BY <1>1, TypeCorrect, PTL DEF Spec, OutflowJustified

-----------------------------------------------------------------------------
(***************************************************************************)
(* The terms and the ledger of the abstract payroll, as the contract       *)
(* represents them.                                                        *)
(***************************************************************************)
termsBar == [e \in Payees |-> TermsOf(e)]

LEMMA SameLedgerOperators ==
  /\ \A t, a, b, n : P!Transfer(t, a, b, n) <=> Transfer(t, a, b, n)
  /\ \A t, a, n : P!Covers(t, a, n) <=> Covers(t, a, n)
  BY DEF P!Transfer, P!TransferReverts, P!AfterTransfer, P!Covers,
         Transfer, TransferReverts, AfterTransfer, Covers

(***************************************************************************)
(* Writing a record is agreeing on new terms.                              *)
(***************************************************************************)
LEMMA RecordAgrees ==
  ASSUME TypeOK, NEW e \in Payees, NEW s, NEW t, NEW f, NEW p, NEW d \in BOOLEAN,
         Record(e, s, t, f, p, d), UNCHANGED <<owner, now, balances>>
  PROVE  P!Agree(e, s, t, f, p, d)
<1>1. termsBar' = [termsBar EXCEPT ![e] = [salary |-> s, token |-> t, first |-> f,
                                           period |-> p, dismissed |-> d]]
  BY DEF Record, TypeOK, termsBar, TermsOf
<1>2. QED
  BY <1>1 DEF P!Agree, Record, termsBar

(***************************************************************************)
(* A payment by the contract is the payment of the instalment the payroll  *)
(* expects next: here the exact schedule identifies the stored date with   *)
(* the date of instalment paid[e], and a token that reverts makes the call *)
(* with an empty vault no step at all.                                     *)
(***************************************************************************)
LEMMA PerformPays ==
  ASSUME FalseTokens = {}, TypeOK, ScheduleExact, NEW e \in Payees, performUpkeep(e)
  PROVE  P!Pay(e)
<1>1. /\ employeeDetails[e].token # Zero
      /\ Covers(employeeDetails[e].token, Vault, employeeDetails[e].salary)
      /\ Transfer(employeeDetails[e].token, Vault, e, employeeDetails[e].salary)
  BY DEF performUpkeep, Transfer, TransferReverts
<1>2. /\ now >= employeeDetails[e].nextPayTimestamp /\ ~employeeDetails[e].deleted
      /\ paid' = [paid EXCEPT ![e] = @ + 1] /\ UNCHANGED <<owner, now>>
  BY DEF performUpkeep, UpkeepNeeded
<1>3. termsBar[e] = TermsOf(e)
  BY DEF termsBar
<1>4. P!PayDate(e, paid[e]) <= now
  BY <1>2, <1>3 DEF P!PayDate, termsBar, TermsOf, ScheduleExact, TypeOK, Employee, Uint
<1>5. P!Employed(e)
  BY <1>1, <1>2 DEF P!Employed, TermsOf
<1>6. termsBar' = termsBar
  BY DEF performUpkeep, TypeOK, termsBar, TermsOf, Employee
<1>7. QED
  BY <1>1, <1>2, <1>3, <1>4, <1>5, <1>6, SameLedgerOperators DEF P!Pay, termsBar, TermsOf

LEMMA ImplementsStep ==
  ASSUME FalseTokens = {}, TypeOK, ScheduleExact, [Next]_vars
  PROVE  [P!PayrollNext]_(P!payrollVars)
<1>1. ASSUME NEW c \in Users, NEW e \in Payees, NEW s \in Salaries, NEW t \in Tokens \cup {Zero},
             NEW f \in FirstDates, NEW p \in Periods, addEmployees(c, e, s, t, f, p)
      PROVE  P!Hire(c, e, s, t, f, p)
  <2>1. P!Agree(e, s, t, f, p, FALSE)
    BY <1>1, RecordAgrees DEF addEmployees
  <2>2. QED
    BY <1>1, <2>1 DEF addEmployees, onlyOwner, Unregistered, P!Hire, P!Employed, TermsOf
<1>2. ASSUME NEW c \in Users, NEW e \in Payees, NEW s \in Salaries, NEW t \in Tokens \cup {Zero},
             NEW f \in FirstDates, NEW p \in Periods, editEmployees(c, e, s, t, f, p)
      PROVE  P!Amend(c, e, s, t, f, p)
  <2>1. employeeDetails[e].deleted \in BOOLEAN
    BY DEF TypeOK, Employee
  <2>2. P!Agree(e, s, t, f, p, employeeDetails[e].deleted)
    BY <1>2, <2>1, RecordAgrees DEF editEmployees
  <2>3. [x \in Payees |-> TermsOf(x)][e].dismissed = employeeDetails[e].deleted
    BY DEF TermsOf
  <2>4. c = owner
    BY <1>2 DEF editEmployees, onlyOwner
  <2>5. QED
    BY <2>2, <2>3, <2>4 DEF P!Amend
<1>3. ASSUME NEW c \in Users, NEW e \in Payees, removeEmployees(c, e)
      PROVE  P!Dismiss(c, e)
  <2>1. termsBar' = [termsBar EXCEPT ![e].dismissed = TRUE]
    BY <1>3 DEF removeEmployees, TypeOK, Employee, termsBar, TermsOf, history
  <2>2. QED
    BY <1>3, <2>1 DEF removeEmployees, onlyOwner, history, P!Dismiss, termsBar
<1>4. ASSUME UNCHANGED <<employeeDetails, first>>
      PROVE  UNCHANGED termsBar
  BY <1>4 DEF termsBar, TermsOf
<1>5. ASSUME NEW c \in Users, NEW t \in Tokens, NEW n \in Amounts, withdrawToken(c, t, n)
      PROVE  P!Withdraw(c, t, n)
  BY <1>4, <1>5, SameLedgerOperators DEF withdrawToken, onlyOwner, history, P!Withdraw, termsBar
<1>6. ASSUME NEW c \in Users, NEW u \in Users, transferOwnership(c, u)
      PROVE  P!HandOver(c, u)
  BY <1>4, <1>6 DEF transferOwnership, onlyOwner, history, P!HandOver, termsBar
<1>7. ASSUME NEW c \in Users, renounceOwnership(c)
      PROVE  P!HandOver(c, Zero)
  BY <1>4, <1>7 DEF renounceOwnership, onlyOwner, history, P!HandOver, termsBar
<1>8. ASSUME NEW u \in Users, NEW t \in Tokens, NEW n \in Amounts, addFunds(u, t, n)
      PROVE  P!Deposit(u, t, n)
  BY <1>4, <1>8, SameLedgerOperators DEF addFunds, history, P!Deposit, termsBar
<1>9. ASSUME Tick
      PROVE  P!Pass
  BY <1>4, <1>9 DEF Tick, history, P!Pass, termsBar
<1>10. ASSUME UNCHANGED vars
       PROVE  UNCHANGED P!payrollVars
  BY <1>4, <1>10 DEF vars, P!payrollVars, termsBar
<1>11. ASSUME Next
       PROVE  P!PayrollNext
  <2>1. ASSUME NEW c \in Users, OwnerStep(c) PROVE P!PayrollNext
    <3>1. CASE \E e \in Payees, s \in Salaries, t \in Tokens \cup {Zero}, f \in FirstDates,
                  p \in Periods : addEmployees(c, e, s, t, f, p) \/ editEmployees(c, e, s, t, f, p)
      BY <3>1, <1>1, <1>2 DEF P!PayrollNext
    <3>2. CASE \E e \in Payees : removeEmployees(c, e)
      BY <3>2, <1>3 DEF P!PayrollNext
    <3>3. CASE \E t \in Tokens, n \in Amounts : withdrawToken(c, t, n)
      BY <3>3, <1>5 DEF P!PayrollNext
    <3>4. CASE (\E u \in Users : transferOwnership(c, u)) \/ renounceOwnership(c)
      BY <3>4, <1>6, <1>7 DEF P!PayrollNext
    <3>5. QED
      BY <2>1, <3>1, <3>2, <3>3, <3>4 DEF OwnerStep
  <2>2. ASSUME NEW e \in Payees, performUpkeep(e) PROVE P!PayrollNext
    BY <2>2, PerformPays DEF P!PayrollNext
  <2>3. ASSUME NEW u \in Users, NEW t \in Tokens, NEW n \in Amounts, addFunds(u, t, n)
        PROVE  P!PayrollNext
    BY <2>3, <1>8 DEF P!PayrollNext
  <2>4. CASE Tick
    BY <2>4, <1>9 DEF P!PayrollNext
  <2>5. QED
    BY <1>11, <2>1, <2>2, <2>3, <2>4 DEF Next
<1>12. QED
  BY <1>10, <1>11

(***************************************************************************)
(* With tokens that revert, the contract implements the abstract payroll:  *)
(* each of its steps is a step of Payroll or changes nothing Payroll sees. *)
(***************************************************************************)
THEOREM Implementation == FalseTokens = {} => (Spec => ImplementsPayroll)
<1> SUFFICES ASSUME FalseTokens = {} PROVE Spec => ImplementsPayroll
  OBVIOUS
<1>1. Init => P!PayrollInit
  BY DEF Init, Unwritten, TermsOf, P!PayrollInit, P!NoTerms
<1>2. TypeOK /\ ScheduleExact /\ [Next]_vars => [P!PayrollNext]_(P!payrollVars)
  BY ImplementsStep
<1>3. QED
  BY <1>1, <1>2, TypeCorrect, SchedulesKept, PTL DEF Spec, ImplementsPayroll, P!PayrollSpec

-----------------------------------------------------------------------------
(***************************************************************************)
(* A non-empty set of naturals has a least element, so checkUpkeep's scan  *)
(* stops at a well-defined entry.                                          *)
(***************************************************************************)
LEMMA LeastIndex ==
  ASSUME NEW S \in SUBSET Nat, S # {}
  PROVE  \E i \in S : \A j \in S : i <= j
<1> DEFINE R == OpToRel(<, Nat)
<1>1. PICK i \in S : \A j \in S : ~ (<<j, i>> \in R)
  <2> HIDE DEF R
  <2>1. IsWellFoundedOn(R, Nat)
    BY NatLessThanWellFounded DEF R
  <2>2. QED
    BY <2>1, WFMin
<1>2. ASSUME NEW j \in S PROVE i <= j
  <2>1. ~ (j < i)
    BY <1>1 DEF OpToRel
  <2>2. QED
    BY <2>1
<1>3. QED
  BY <1>2

(***************************************************************************)
(* The employee list holds exactly the addresses that were ever added, and *)
(* totalEmployees is its length, although removals never shorten it.       *)
(***************************************************************************)
Listed ==
  /\ totalEmployees = Len(employees)
  /\ enrolled = {employees[i] : i \in 1 .. Len(employees)}

LEMMA ListedStep ==
  ASSUME TypeOK, Listed, [Next]_vars
  PROVE  Listed'
<1>1. ASSUME NEW c \in Users, NEW e \in Payees, NEW s \in Salaries, NEW t \in Tokens \cup {Zero},
             NEW f \in FirstDates, NEW p \in Periods, addEmployees(c, e, s, t, f, p)
      PROVE  Listed'
  <2>1. /\ employees' = Append(employees, e) /\ enrolled' = enrolled \cup {e}
        /\ totalEmployees' = totalEmployees + 1 /\ employees \in Seq(Payees)
    BY <1>1 DEF addEmployees, TypeOK
  <2>2. /\ Len(employees') = Len(employees) + 1 /\ Len(employees) \in Nat
        /\ \A i \in 1 .. Len(employees) : employees'[i] = employees[i]
        /\ employees'[Len(employees) + 1] = e
    BY <2>1, AppendProperties, LenProperties
  <2>3. 1 .. Len(employees') = (1 .. Len(employees)) \cup {Len(employees) + 1}
    BY <2>2
  <2>4. QED
    BY <2>1, <2>2, <2>3 DEF Listed
<1>2. ASSUME UNCHANGED <<employees, totalEmployees, enrolled>>
      PROVE  Listed'
  BY <1>2 DEF Listed
<1>3. QED
  BY <1>1, <1>2
  DEF Next, OwnerStep, vars, roster, history, editEmployees, removeEmployees, withdrawToken,
      transferOwnership, renounceOwnership, performUpkeep, addFunds, Tick

(***************************************************************************)
(* With such a list, the answer of checkUpkeep is an employee who is owed  *)
(* a payment, and it is "nothing to do" only when there is none.           *)
(***************************************************************************)
LEMMA ScanFinds ==
  ASSUME TypeOK, Listed
  PROVE  CheckUpkeepAgrees
<1> DEFINE owed == {e \in enrolled : Owed(e)}
<1>1. \A e \in Payees : Owed(e) <=> UpkeepNeeded(e)
  BY DEF Owed, UpkeepNeeded, TypeOK, Employee, Uint
<1>2. DueIndices \in SUBSET Nat /\ DueIndices \subseteq 1 .. Len(employees)
  BY DEF DueIndices, Listed
<1>3. \A i \in 1 .. Len(employees) : employees[i] \in Payees
  BY ElementOfSeq DEF TypeOK
<1>4. CASE DueIndices = {}
  <2>1. owed = {}
    BY <1>1, <1>3, <1>4 DEF Listed, DueIndices
  <2>2. QED
    BY <1>4, <2>1 DEF CheckUpkeepAgrees, checkUpkeep
<1>5. CASE DueIndices # {}
  <2> DEFINE k == CHOOSE i \in DueIndices : \A j \in DueIndices : i <= j
  <2>1. k \in DueIndices
    BY <1>2, <1>5, LeastIndex
  <2>2. checkUpkeep = employees[k]
    BY <1>5 DEF checkUpkeep
  <2> HIDE DEF k
  <2>3. employees[k] \in owed
    BY <2>1, <1>1, <1>2, <1>3 DEF DueIndices, Listed
  <2>4. QED
    BY <2>2, <2>3 DEF CheckUpkeepAgrees
<1>6. QED
  BY <1>4, <1>5

(***************************************************************************)
(* checkUpkeep sees every employee who was ever added, through any number  *)
(* of removals, re-additions and edits.                                    *)
(***************************************************************************)
THEOREM KeeperViewAgrees == Spec => []CheckUpkeepAgrees
<1>1. Init => Listed
  BY DEF Init, Listed
<1>2. TypeOK /\ Listed /\ [Next]_vars => Listed'
  BY ListedStep
<1>3. TypeOK /\ Listed => CheckUpkeepAgrees
  BY ScanFinds
<1>4. QED
  BY <1>1, <1>2, <1>3, TypeCorrect, PTL DEF Spec
==============================================================================
