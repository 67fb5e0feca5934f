-------------------------------- MODULE ERC20 --------------------------------
(***************************************************************************)
(* The token ledger every other module moves money through: what a call    *)
(* of transfer(to, n) does to the balances of an ERC-20 token, seen by a   *)
(* contract that calls it and does not look at the returned boolean.       *)
(* Most tokens revert a transfer the sender cannot cover (OpenZeppelin's   *)
(* ERC20); the interface also allows a token to return FALSE and change    *)
(* nothing, and FalseTokens are the tokens that do.                        *)
(***************************************************************************)
EXTENDS Integers

CONSTANTS
  Accounts,     \* addresses that can hold tokens
  Tokens,       \* deployed ERC-20 contracts
  FalseTokens,  \* those that answer FALSE instead of reverting
  Zero          \* address(0)

VARIABLE balances

(***************************************************************************)
(* address(0) holds nothing and is not a contract.                         *)
(***************************************************************************)
ASSUME LedgerAssumption ==
  /\ Zero \notin Tokens
  /\ Zero \notin Accounts
  /\ FalseTokens \subseteq Tokens

Ledger == [Tokens -> [Accounts -> Nat]]

\* Faulty variant: a token that does not look at the sender's balance.
CoversAlways(t, from, n) == TRUE

Covers(t, from, n) == balances[t][from] >= n

(***************************************************************************)
(* A call to an address without code reverts, and so does a transfer to    *)
(* address(0).                                                             *)
(***************************************************************************)
TransferReverts(t, from, to, n) ==
  \/ t = Zero
  \/ to = Zero
  \/ t \notin FalseTokens /\ ~Covers(t, from, n)

AfterTransfer(t, from, to, n) ==
  LET debited == [balances EXCEPT ![t][from] = @ - n]
  IN  IF Covers(t, from, n) THEN [debited EXCEPT ![t][to] = @ + n] ELSE balances

Transfer(t, from, to, n) ==
  /\ ~TransferReverts(t, from, to, n)
  /\ balances' = AfterTransfer(t, from, to, n)
==============================================================================
