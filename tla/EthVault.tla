------------------------------ MODULE EthVault ------------------------------
(***************************************************************************)
(* The payroll contract EthVault (BscVault is the same code with other     *)
(* addresses): Ownable, the employee list and the employee records, the    *)
(* owner's operations on them, and performUpkeep, which anybody may call   *)
(* with any address.  A call that reverts changes nothing, so it is no     *)
(* step.  The upkeep registration of the contract is in Automation.        *)
(*                                                                         *)
(* first, paid and enrolled are history variables: the pay date the owner  *)
(* last set for an address, how often performUpkeep has run to its end     *)
(* since, and the addresses addEmployees has succeeded for.                *)
(***************************************************************************)
EXTENDS ERC20, Sequences

CONSTANTS
  Users,      \* people: owners and employees
  Payees,     \* addresses that may be passed as an employee
  Vault,      \* the contract's own address
  Salaries, FirstDates, Periods, Amounts,   \* arguments of the calls
  Genesis,    \* the token balances the system starts with
  MaxUint,    \* type(uint256).max
  MaxTime,    \* bound on the clock
  MaxListed,  \* bound on the length of the employee list
  NoUpkeep    \* what checkUpkeep answers when there is nothing to do

Uint == 0 .. MaxUint

ASSUME VaultAssumption ==
  /\ Users \subseteq Accounts /\ Vault \in Accounts \ Users
  /\ Payees \subseteq Users \cup {Zero}
  /\ MaxUint \in Nat /\ MaxTime \in Uint /\ MaxListed \in Nat
  /\ Salaries \subseteq Uint /\ FirstDates \subseteq Uint
  /\ Periods \subseteq Uint /\ Amounts \subseteq Uint
  /\ Genesis \in Ledger
  /\ NoUpkeep \notin Payees

VARIABLES
  owner,            \* Ownable._owner
  employees,        \* address[] employees
  totalEmployees,
  employeeDetails,  \* mapping(address => Employee)
  now,              \* block.timestamp
  first, paid, enrolled   \* history

vars == <<owner, employees, totalEmployees, employeeDetails, now,
          first, paid, enrolled, balances>>

roster == <<employees, totalEmployees>>
history == <<first, paid, enrolled>>

Employee == [salary : Uint, token : Tokens \cup {Zero}, nextPayTimestamp : Uint,
             timePeriod : Uint, deleted : BOOLEAN]

(***************************************************************************)
(* What a mapping holds for an address nobody has written to.              *)
(***************************************************************************)
Unwritten == [salary |-> 0, token |-> Zero, nextPayTimestamp |-> 0,
              timePeriod |-> 0, deleted |-> FALSE]

TypeOK ==
  /\ owner \in Users \cup {Zero}
  /\ employees \in Seq(Payees)
  /\ totalEmployees \in Nat
  /\ employeeDetails \in [Payees -> Employee]
  /\ now \in Uint
  /\ first \in [Payees -> Uint]
  /\ paid \in [Payees -> Nat]
  /\ enrolled \subseteq Payees
  /\ balances \in Ledger

Init ==
  /\ owner \in Users
  /\ employees = << >>
  /\ totalEmployees = 0
  /\ employeeDetails = [e \in Payees |-> Unwritten]
  /\ now = 0
  /\ first = [e \in Payees |-> 0]
  /\ paid = [e \in Payees |-> 0]
  /\ enrolled = {}
  /\ balances = Genesis

onlyOwner(caller) == caller = owner

(***************************************************************************)
(* The four fields addEmployees and editEmployees both write.              *)
(***************************************************************************)
Record(e, s, t, f, p, d) ==
  /\ employeeDetails' = [employeeDetails EXCEPT ![e] =
       [salary |-> s, token |-> t, nextPayTimestamp |-> f, timePeriod |-> p, deleted |-> d]]
  /\ first' = [first EXCEPT ![e] = f]
  /\ paid' = [paid EXCEPT ![e] = 0]

Unregistered(e) == employeeDetails[e].token = Zero \/ employeeDetails[e].deleted

addEmployees(caller, e, s, t, f, p) ==
  /\ onlyOwner(caller)
  /\ Unregistered(e)
  /\ Len(employees) < MaxListed
  /\ Record(e, s, t, f, p, FALSE)
  /\ totalEmployees' = totalEmployees + 1
  /\ employees' = Append(employees, e)
  /\ enrolled' = enrolled \cup {e}
  /\ UNCHANGED <<owner, now, balances>>

editEmployees(caller, e, s, t, f, p) ==
  /\ onlyOwner(caller)
  /\ Record(e, s, t, f, p, employeeDetails[e].deleted)
  /\ UNCHANGED <<owner, roster, now, enrolled, balances>>

removeEmployees(caller, e) ==
  /\ onlyOwner(caller)
  /\ employeeDetails' = [employeeDetails EXCEPT ![e].deleted = TRUE]
  /\ UNCHANGED <<owner, roster, now, history, balances>>

withdrawToken(caller, t, n) ==
  /\ onlyOwner(caller)
  /\ Transfer(t, Vault, caller, n)
  /\ UNCHANGED <<owner, roster, employeeDetails, now, history>>

\* Faulty variants: a pay date compared one second early, and a call that
\* trusts the keeper's earlier check that the employee is not removed.
UpkeepNeededEarly(e) ==
  now + 1 >= employeeDetails[e].nextPayTimestamp /\ ~employeeDetails[e].deleted

UpkeepNeededOfAnyone(e) == now >= employeeDetails[e].nextPayTimestamp

(***************************************************************************)
(* isPaymentTime && isDeleted of checkUpkeep and performUpkeep (isDeleted  *)
(* is TRUE of an employee who is not deleted).                             *)
(***************************************************************************)
UpkeepNeeded(e) ==
  now >= employeeDetails[e].nextPayTimestamp /\ ~employeeDetails[e].deleted

\* Faulty variant: the loop stops one entry short.
DueIndicesButLast == {i \in 1 .. totalEmployees - 1 : UpkeepNeeded(employees[i])}

(***************************************************************************)
(* checkUpkeep: the first listed employee an upkeep is needed for.         *)
(***************************************************************************)
DueIndices == {i \in 1 .. totalEmployees : UpkeepNeeded(employees[i])}

checkUpkeep ==
  IF DueIndices = {} THEN NoUpkeep
  ELSE employees[CHOOSE i \in DueIndices : \A j \in DueIndices : i <= j]

\* Faulty variants: the next date counted from the day of the payment, and
\* a date that is not moved.
NextDateFromNow(e) == now + employeeDetails[e].timePeriod

NextDateUnmoved(e) == employeeDetails[e].nextPayTimestamp

(***************************************************************************)
(* performUpkeep(e) reverts when an addition overflows or the transfer     *)
(* reverts; when no upkeep is needed it returns without an effect.         *)
(***************************************************************************)
NextDate(e) == employeeDetails[e].nextPayTimestamp + employeeDetails[e].timePeriod

PerformReverts(e) ==
  /\ UpkeepNeeded(e)
  /\ \/ NextDate(e) > MaxUint
     \/ TransferReverts(employeeDetails[e].token, Vault, e, employeeDetails[e].salary)

performUpkeep(e) ==
  /\ UpkeepNeeded(e)
  /\ NextDate(e) <= MaxUint
  /\ employeeDetails' = [employeeDetails EXCEPT ![e].nextPayTimestamp = NextDate(e)]
  /\ Transfer(employeeDetails[e].token, Vault, e, employeeDetails[e].salary)
  /\ paid' = [paid EXCEPT ![e] = @ + 1]
  /\ UNCHANGED <<owner, roster, now, first, enrolled>>

transferOwnership(caller, newOwner) ==
  /\ onlyOwner(caller)
  /\ newOwner # Zero
  /\ owner' = newOwner
  /\ UNCHANGED <<roster, employeeDetails, now, history, balances>>

renounceOwnership(caller) ==
  /\ onlyOwner(caller)
  /\ owner' = Zero
  /\ UNCHANGED <<roster, employeeDetails, now, history, balances>>

(***************************************************************************)
(* Anybody funds the vault with a plain token transfer.                    *)
(***************************************************************************)
addFunds(u, t, n) ==
  /\ Transfer(t, u, Vault, n)
  /\ UNCHANGED <<owner, roster, employeeDetails, now, history>>

Tick ==
  /\ now < MaxTime
  /\ now' = now + 1
  /\ UNCHANGED <<owner, roster, employeeDetails, history, balances>>

OwnerStep(c) ==
  \/ \E e \in Payees, s \in Salaries, t \in Tokens \cup {Zero},
        f \in FirstDates, p \in Periods :
        addEmployees(c, e, s, t, f, p) \/ editEmployees(c, e, s, t, f, p)
  \/ \E e \in Payees : removeEmployees(c, e)
  \/ \E t \in Tokens, n \in Amounts : withdrawToken(c, t, n)
  \/ \E u \in Users : transferOwnership(c, u)
  \/ renounceOwnership(c)

Next ==
  \/ \E c \in Users : OwnerStep(c)
  \/ \E e \in Payees : performUpkeep(e)
  \/ \E u \in Users, t \in Tokens, n \in Amounts : addFunds(u, t, n)
  \/ Tick

Spec == Init /\ [][Next]_vars

-----------------------------------------------------------------------------
Owed(e) == ~employeeDetails[e].deleted /\ employeeDetails[e].nextPayTimestamp <= now

(***************************************************************************)
(* The schedule is exact: whatever late, repeated or interleaved calls of  *)
(* performUpkeep came in, the stored pay date is the date the owner set    *)
(* plus one period for every payment made since.                           *)
(***************************************************************************)
ScheduleExact ==
  \A e \in Payees :
    employeeDetails[e].nextPayTimestamp = first[e] + paid[e] * employeeDetails[e].timePeriod

(***************************************************************************)
(* Nobody is paid ahead: the instalment performUpkeep paid last had        *)
(* reached its date, counted from the date the owner set and not from the  *)
(* stored one.                                                             *)
(***************************************************************************)
NeverAhead ==
  \A e \in Payees :
    paid[e] > 0 => first[e] + (paid[e] - 1) * employeeDetails[e].timePeriod <= now

(***************************************************************************)
(* The keeper's view agrees with the roster: through removals and          *)
(* re-additions, which leave duplicates behind, checkUpkeep finds somebody *)
(* exactly when an employee who was ever added is due, and only such a one.*)
(***************************************************************************)
CheckUpkeepAgrees ==
  LET owed == {e \in enrolled : Owed(e)}
  IN  IF owed = {} THEN checkUpkeep = NoUpkeep ELSE checkUpkeep \in owed

(***************************************************************************)
(* Money leaves the vault in two ways only: to the owner who withdraws it, *)
(* or as the full salary of an employee who is due and not removed at the  *)
(* moment the call executes, however old the check that caused the call,   *)
(* and that employee's date then moves by exactly one period.              *)
(***************************************************************************)
Outflow(t) == balances[t][Vault] - balances'[t][Vault]
Received(t, a) == balances'[t][a] - balances[t][a]

SalaryPaid(e, t) ==
  /\ Owed(e)
  /\ employeeDetails[e].token = t
  /\ Outflow(t) = employeeDetails[e].salary
  /\ Received(t, e) = employeeDetails[e].salary
  /\ employeeDetails'[e].nextPayTimestamp =
       employeeDetails[e].nextPayTimestamp + employeeDetails[e].timePeriod

OutflowJustified ==
  [][\A t \in Tokens : Outflow(t) > 0 =>
       \/ owner # Zero /\ Received(t, owner) = Outflow(t) /\ UNCHANGED employeeDetails
       \/ \E e \in Payees : SalaryPaid(e, t)]_vars

(***************************************************************************)
(* The contract implements the payroll: the owner is the employer, and an  *)
(* employee's instalments are counted from the date the owner set.         *)
(***************************************************************************)
TermsOf(e) ==
  [salary |-> employeeDetails[e].salary, token |-> employeeDetails[e].token,
   first |-> first[e], period |-> employeeDetails[e].timePeriod,
   dismissed |-> employeeDetails[e].deleted]

P == INSTANCE Payroll WITH employer <- owner, terms <- [e \in Payees |-> TermsOf(e)]

ImplementsPayroll == P!PayrollSpec
==============================================================================
