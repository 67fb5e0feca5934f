---------------------------- MODULE MCKeeperNodes ----------------------------
(***************************************************************************)
(* Instances of KeeperNodes for TLC.                                       *)
(***************************************************************************)
EXTENDS KeeperNodes

CONSTANTS boss, ann, bob, usdc, vault, registry, registrar, k1, k2

MCUsers == {boss, ann, bob}
MCAccounts == MCUsers \cup {vault, registry, registrar}
MCTargets == {vault}
MCKeepers == {k1, k2}
MCBuddy == [k \in Keepers |-> CHOOSE l \in Keepers : l # k]

\* two units of usdc in the vault, and the upkeep's LINK in the registry
MCGenesis ==
  [t \in Tokens |-> [a \in Accounts |->
     IF t = LINK /\ a = registry THEN Charge
     ELSE IF t # LINK /\ a = vault THEN 2 ELSE 0]]

MCInit == NodesInit /\ owner = boss
MCSpec == MCInit /\ [][NodesNext]_nodesVars /\ Fairness
=============================================================================
