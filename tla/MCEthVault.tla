----------------------------- MODULE MCEthVault -----------------------------
(***************************************************************************)
(* Instances of EthVault for TLC.                                          *)
(***************************************************************************)
EXTENDS EthVault

CONSTANTS boss, ann, usdc, vault

MCUsers == {boss, ann}
MCAccounts == MCUsers \cup {vault}

\* the boss starts with two units of every token, one of them in the vault
MCGenesis == [t \in Tokens |-> [a \in Accounts |-> IF a \in {boss, vault} THEN 1 ELSE 0]]
==============================================================================
