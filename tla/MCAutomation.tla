---------------------------- MODULE MCAutomation ----------------------------
(***************************************************************************)
(* An instance of Automation for TLC: the vault of the boss, another       *)
(* contract with upkeeps, and LINK as the only token.                      *)
(***************************************************************************)
EXTENDS Automation, TLC

CONSTANTS boss, dao, vault, other, registry, registrar, k1, k2

MCUsers == {boss, dao}
MCAccounts == MCUsers \cup {vault, registry, registrar}
MCTargets == {vault, other}
MCKeepers == {k1, k2}
KeeperSymmetry == Permutations(MCKeepers)

\* all the LINK there is starts in the vault
MCGenesis ==
  [t \in Tokens |-> [a \in Accounts |-> IF a = vault THEN 1 ELSE 0]]

\* the boss's vault
MCInit == AutomationInit /\ owner = boss
=============================================================================
