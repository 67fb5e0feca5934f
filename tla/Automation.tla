----------------------------- MODULE Automation -----------------------------
(***************************************************************************)
(* The vault and the Chainlink registry it registers itself with: the      *)
(* vault's upkeepId, registerAndPredictID, checkIfLinkIsWithdrawable, and  *)
(* the two pages that act on the upkeep (Account.js cancels it and takes   *)
(* its LINK back, Dashboard.js funds it).  The registry and the vault      *)
(* share the token balances and the chain's clock.  An upkeep is performed *)
(* by an active keeper with whatever performData that keeper sends; which  *)
(* data honest keepers send, and when, is in KeeperNodes.                  *)
(***************************************************************************)
EXTENDS EthVault

CONSTANTS
  LINK, Registry, Registrar, registryOwner, Keepers,
  Targets,           \* the vault and other contracts with upkeeps
  LinkAmounts, Payments, MaxPayment, minUpkeepSpend, minLINKJuels,
  autoApproveMaxAllowed, CANCELATION_DELAY, UINT64_MAX,
  MaxNonce, MaxBlock, MaxSpent

VARIABLES
  s_upkeep, s_upkeepIDs, nonce, keeperBalance, activeKeepers, s_ownerLinkBalance,
  s_expectedLinkBalance, paused, blockNumber, autoApprove, approvedCount, pending,
  upkeepId           \* the vault's; 0 until registerAndPredictID has succeeded

R == INSTANCE KeeperRegistry WITH LinkGenesis <- Genesis

ASSUME AutomationAssumption ==
  /\ Vault \in Targets /\ Vault \notin {Registry, Registrar}
  /\ R!RegistryAssumption

\* the vault's and the registry's own variables, without the balances they share
vaultVars == <<owner, employees, totalEmployees, employeeDetails, now, first, paid, enrolled>>
chainlinkVars == <<s_upkeep, s_upkeepIDs, nonce, keeperBalance, activeKeepers,
                   s_ownerLinkBalance, s_expectedLinkBalance, paused, blockNumber,
                   autoApprove, approvedCount, pending>>
automationVars == <<vars, chainlinkVars, upkeepId>>

AutomationTypeOK ==
  /\ TypeOK
  /\ R!RegistryTypeOK
  /\ upkeepId \in R!Ids \cup {0}

AutomationInit ==
  /\ Init
  /\ R!RegistryInit
  /\ upkeepId = 0

-----------------------------------------------------------------------------
\* Faulty variant: the nonce is read after the registration.
PredictedIDOfNewNonce == R!UpkeepID(nonce')

\* the id registerAndPredictID computes from the nonce it read first
PredictedID == R!UpkeepID(nonce)

\* Faulty variant: whatever the registrar did with the request.
ApprovedOrNot == TRUE

\* the registry's nonce has moved while the registrar handled the request
ApprovedAtOnce == nonce' = nonce + 1

\* The vault pays with its own LINK.
registerAndPredictID(caller, adminAddress, amount) ==
  /\ onlyOwner(caller)
  /\ upkeepId = 0
  /\ R!register(Vault, Vault, adminAddress, amount)
  /\ ApprovedAtOnce
  /\ upkeepId' = PredictedID
  /\ UNCHANGED vaultVars

\* Faulty variant: the last block before cancellation counts as canceled.
WithdrawableOneBlockEarly ==
  upkeepId # 0 /\ s_upkeep[upkeepId].maxValidBlocknumber <= blockNumber + 1

\* checkIfLinkIsWithdrawable; an id never issued has maxValidBlocknumber 0
checkIfLinkIsWithdrawable ==
  upkeepId = 0 \/ s_upkeep[upkeepId].maxValidBlocknumber <= blockNumber

linkBalance == IF upkeepId = 0 THEN 0 ELSE s_upkeep[upkeepId].balance

\* the call the registry makes to the vault pays e
VaultPays(id, e) ==
  s_upkeep[id].target = Vault /\ e # NoUpkeep /\ UpkeepNeeded(e) /\ ~PerformReverts(e)

(***************************************************************************)
(* What an active keeper's performUpkeep(id, e) does: the registry's part, *)
(* and the vault's when the upkeep is the vault's and the call does not    *)
(* fail.  NoUpkeep stands for data that is nobody's address.               *)
(***************************************************************************)
PerformThroughRegistry(k, id, e, payment) ==
  /\ R!performUpkeep(k, id, payment)
  /\ \/ VaultPays(id, e) /\ performUpkeep(e)
     \/ ~VaultPays(id, e) /\ UNCHANGED vars
  /\ UNCHANGED upkeepId

\* a block: the number and the timestamp move together
Block == R!NextBlock /\ Tick /\ UNCHANGED upkeepId

VaultCall(u) ==
  \/ /\ \/ OwnerStep(u)
        \/ \E e \in Payees : performUpkeep(e)
        \/ \E t \in Tokens, n \in Amounts : addFunds(u, t, n)
     /\ UNCHANGED <<chainlinkVars, upkeepId>>
  \/ \E a \in Users, n \in LinkAmounts : registerAndPredictID(u, a, n)

RegistryCall(u) ==
  /\ R!UserStep(u) \/ R!OwnerStep(u)
  /\ UNCHANGED <<vaultVars, upkeepId>>

KeeperCall(k) ==
  \/ \E id \in R!Ids, e \in Payees \cup {NoUpkeep}, p \in Payments :
       PerformThroughRegistry(k, id, e, p)
  \/ (\E to \in Users : R!withdrawPayment(k, to)) /\ UNCHANGED <<vaultVars, upkeepId>>

AutomationNext ==
  \/ \E u \in Users : VaultCall(u) \/ RegistryCall(u)
  \/ \E k \in Keepers : KeeperCall(k)
  \/ Block

AutomationSpec == AutomationInit /\ [][AutomationNext]_automationVars

-----------------------------------------------------------------------------
(***************************************************************************)
(* The predicted id is the right one: however registrations, approvals and *)
(* cancellations interleave, the vault's upkeepId names an upkeep the      *)
(* registry has issued for this very vault.                                *)
(***************************************************************************)
UpkeepIdTracks == upkeepId # 0 => s_upkeep[upkeepId].target = Vault

(***************************************************************************)
(* The Withdraw button works: when Account.js shows it (LINK left and      *)
(* checkIfLinkIsWithdrawable), the admin's withdrawFunds goes through, and *)
(* while the page still offers to cancel, it would be refused.             *)
(***************************************************************************)
WithdrawableAgrees ==
  linkBalance # 0 =>
    LET admin == s_upkeep[upkeepId].admin
    IN  checkIfLinkIsWithdrawable <=> ENABLED R!withdrawFunds(admin, upkeepId, admin)

(***************************************************************************)
(* No LINK is lost on the way: what leaves the vault is withdrawn by its   *)
(* owner, paid as a salary, or found on the vault's own upkeep, never in a *)
(* pending request or on somebody else's upkeep.                           *)
(***************************************************************************)
Funded(id, n) == upkeepId = 0 /\ id # 0 /\ s_upkeep'[id].balance = n

LinkAccountedFor ==
  [][Outflow(LINK) > 0 =>
       \/ owner # Zero /\ Received(LINK, owner) = Outflow(LINK) /\ UNCHANGED chainlinkVars
       \/ Funded(upkeepId', Outflow(LINK))
       \/ \E e \in Payees : SalaryPaid(e, LINK)]_automationVars
==============================================================================
