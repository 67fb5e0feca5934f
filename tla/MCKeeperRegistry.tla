-------------------------- MODULE MCKeeperRegistry --------------------------
(***************************************************************************)
(* An instance of KeeperRegistry for TLC.                                  *)
(***************************************************************************)
EXTENDS KeeperRegistry, TLC

CONSTANTS boss, dao, registry, registrar, k1, k2

MCKeepers == {k1, k2}
KeeperSymmetry == Permutations(MCKeepers)

MCUsers == {boss, dao}
MCAccounts == MCUsers \cup {registry, registrar}

\* all the LINK there is starts with the boss
MCGenesis == [t \in Tokens |-> [a \in Accounts |-> IF a = boss THEN 2 ELSE 0]]
=============================================================================
