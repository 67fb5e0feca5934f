----------------------------- MODULE MCDashboard -----------------------------
(***************************************************************************)
(* Instances of Dashboard for TLC: the boss's page.                        *)
(***************************************************************************)
EXTENDS Dashboard

CONSTANTS boss, ann, bob, usdc, vault

MCUsers == {boss, ann, bob}
PayeeSymmetry == Permutations({ann, bob})
MCAccounts == MCUsers \cup {vault}

\* the vault can pay three salaries
MCGenesis == [t \in Tokens |-> [a \in Accounts |-> IF a = vault THEN 3 ELSE 0]]

MCInit == DashboardInit /\ owner = boss
=============================================================================
