------------------------------- MODULE Payroll -------------------------------
(***************************************************************************)
(* What the payroll promises, without saying how a contract does it: an    *)
(* employee's terms name a first pay date and a period, every instalment   *)
(* is paid once, in full and not before its date, and only the employer    *)
(* changes the terms or takes money out.  An instalment is identified by   *)
(* its number, so "the next pay date" is computed and never stored.        *)
(***************************************************************************)
EXTENDS ERC20

CONSTANTS
  Users,      \* people: employers and employees
  Payees,     \* addresses that may be put on the payroll
  Vault,      \* the account salaries are paid from
  Salaries, FirstDates, Periods, Amounts,   \* inputs
  Genesis,    \* the token balances the system starts with
  MaxTime     \* bound on the clock

VARIABLES
  employer,   \* who commands the payroll, or Zero when nobody does
  terms,      \* the agreed terms of every payee
  paid,       \* instalments paid under the current terms
  now         \* the clock

payrollVars == <<employer, terms, paid, now, balances>>

NoTerms == [salary |-> 0, token |-> Zero, first |-> 0,
            period |-> 0, dismissed |-> FALSE]

PayDate(e, k) == terms[e].first + k * terms[e].period

Employed(e) == terms[e].token # Zero /\ ~terms[e].dismissed

PayrollInit ==
  /\ employer \in Users
  /\ terms = [e \in Payees |-> NoTerms]
  /\ paid = [e \in Payees |-> 0]
  /\ now = 0
  /\ balances = Genesis

Agree(e, s, t, f, p, d) ==
  /\ terms' = [terms EXCEPT ![e] = [salary |-> s, token |-> t, first |-> f,
                                    period |-> p, dismissed |-> d]]
  /\ paid' = [paid EXCEPT ![e] = 0]
  /\ UNCHANGED <<employer, now, balances>>

Hire(c, e, s, t, f, p) == c = employer /\ ~Employed(e) /\ Agree(e, s, t, f, p, FALSE)

Amend(c, e, s, t, f, p) == c = employer /\ Agree(e, s, t, f, p, terms[e].dismissed)

Dismiss(c, e) ==
  /\ c = employer
  /\ terms' = [terms EXCEPT ![e].dismissed = TRUE]
  /\ UNCHANGED <<employer, paid, now, balances>>

Pay(e) ==
  /\ Employed(e)
  /\ PayDate(e, paid[e]) <= now
  /\ Covers(terms[e].token, Vault, terms[e].salary)
  /\ Transfer(terms[e].token, Vault, e, terms[e].salary)
  /\ paid' = [paid EXCEPT ![e] = @ + 1]
  /\ UNCHANGED <<employer, terms, now>>

Withdraw(c, t, n) ==
  /\ c = employer
  /\ Transfer(t, Vault, c, n)
  /\ UNCHANGED <<employer, terms, paid, now>>

Deposit(u, t, n) ==
  /\ Transfer(t, u, Vault, n)
  /\ UNCHANGED <<employer, terms, paid, now>>

HandOver(c, successor) ==
  /\ c = employer
  /\ employer' = successor
  /\ UNCHANGED <<terms, paid, now, balances>>

Pass ==
  /\ now < MaxTime
  /\ now' = now + 1
  /\ UNCHANGED <<employer, terms, paid, balances>>

PayrollNext ==
  \/ \E c \in Users, e \in Payees, s \in Salaries, t \in Tokens \cup {Zero},
        f \in FirstDates, p \in Periods :
        Hire(c, e, s, t, f, p) \/ Amend(c, e, s, t, f, p)
  \/ \E c \in Users, e \in Payees : Dismiss(c, e)
  \/ \E e \in Payees : Pay(e)
  \/ \E u \in Users, t \in Tokens, n \in Amounts : Withdraw(u, t, n) \/ Deposit(u, t, n)
  \/ \E c \in Users, u \in Users \cup {Zero} : HandOver(c, u)
  \/ Pass

PayrollSpec == PayrollInit /\ [][PayrollNext]_payrollVars
==============================================================================
