--------------------------- MODULE KeeperRegistry ---------------------------
(***************************************************************************)
(* The Chainlink contracts the vaults run on: KeeperRegistry 1.2 (upkeeps, *)
(* their LINK, keepers and cancellation), KeeperRegistrar (auto-approval   *)
(* and pending requests), and LINK.  One action is one transaction; the    *)
(* hops LINK makes inside it (sender, registrar, registry) appear as their *)
(* net effect.  What the target of an upkeep does when it is performed is  *)
(* left to the module that composes this one with the target.              *)
(*                                                                         *)
(* Left out: gas limits, price feeds (a perform costs a member of          *)
(* Payments), migration to another registry, payee transfers.              *)
(***************************************************************************)
EXTENDS ERC20, FiniteSetsExt

CONSTANTS
  LINK,              \* the token
  Registry, Registrar,   \* the two contracts' accounts
  Users,             \* accounts of people
  registryOwner,     \* owner of both contracts
  Keepers,           \* addresses that may be made keepers
  Targets,           \* contracts an upkeep may be registered for
  LinkAmounts,       \* arguments of the calls
  Payments,          \* what a perform may cost
  MaxPayment,        \* maxLinkPayment of _prePerformUpkeep
  minUpkeepSpend, minLINKJuels, autoApproveMaxAllowed,   \* configuration
  CANCELATION_DELAY,
  UINT64_MAX,        \* the maxValidBlocknumber of an active upkeep
  LinkGenesis,       \* the token balances the system starts with
  MaxNonce,          \* bound on the number of upkeeps
  MaxBlock,          \* bound on the block number
  MaxSpent           \* bound on what one upkeep has spent

\* ids are hashes of the nonce, distinct and not 0
Ids == 1 .. MaxNonce
UpkeepID(n) == n + 1

ASSUME RegistryAssumption ==
  /\ LINK \in Tokens \ FalseTokens
  /\ {Registry, Registrar} \subseteq Accounts \ Users /\ Registry # Registrar
  /\ Users \subseteq Accounts /\ registryOwner \in Users
  /\ Zero \notin Keepers /\ Zero \notin Targets
  /\ IsFiniteSet(Users) /\ IsFiniteSet(Keepers) /\ IsFiniteSet(Targets)   \* 160-bit addresses
  /\ LinkAmounts \subseteq Nat /\ Payments \subseteq Nat /\ MaxPayment \in Nat
  /\ minUpkeepSpend \in Nat /\ autoApproveMaxAllowed \in Nat
  /\ minLINKJuels \in Nat \ {0}
  /\ CANCELATION_DELAY \in Nat /\ MaxNonce \in Nat /\ MaxBlock \in Nat \ {0} /\ MaxSpent \in Nat
  /\ UINT64_MAX \in Nat /\ MaxBlock + CANCELATION_DELAY < UINT64_MAX
  /\ LinkGenesis \in Ledger

VARIABLES
  s_upkeep, s_upkeepIDs, nonce,
  keeperBalance,            \* s_keeperInfo[k].balance
  activeKeepers,            \* s_keeperInfo[k].active
  s_ownerLinkBalance, s_expectedLinkBalance,
  paused,
  blockNumber,              \* block.number
  autoApprove,              \* the registrar's configuration type
  approvedCount, pending    \* s_config.approvedCount, s_pendingRequests

upkeepVars == <<s_upkeep, s_upkeepIDs, nonce>>
adminVars == <<activeKeepers, paused>>
registrarVars == <<autoApprove, approvedCount, pending>>
registryVars == <<upkeepVars, keeperBalance, s_ownerLinkBalance, s_expectedLinkBalance,
                  adminVars, registrarVars, blockNumber, balances>>

Upkeep == [balance : Nat, lastKeeper : Keepers \cup {Zero}, maxValidBlocknumber : Nat,
           target : Targets \cup {Zero}, amountSpent : 0 .. MaxSpent, admin : Users \cup {Zero}]

NoUpkeepRecord == [balance |-> 0, lastKeeper |-> Zero, maxValidBlocknumber |-> 0,
                   target |-> Zero, amountSpent |-> 0, admin |-> Zero]

RegistryTypeOK ==
  /\ s_upkeep \in [Ids -> Upkeep]
  /\ s_upkeepIDs \subseteq Ids
  /\ nonce \in 0 .. MaxNonce
  /\ keeperBalance \in [Keepers -> Nat]
  /\ activeKeepers \subseteq Keepers
  /\ s_ownerLinkBalance \in Nat /\ s_expectedLinkBalance \in Nat
  /\ paused \in BOOLEAN /\ autoApprove \in BOOLEAN
  /\ blockNumber \in 1 .. MaxBlock
  /\ approvedCount \in Nat
  /\ pending \in [Targets \X Users -> Nat]
  /\ balances \in Ledger

RegistryInit ==
  /\ s_upkeep = [id \in Ids |-> NoUpkeepRecord]
  /\ s_upkeepIDs = {}
  /\ nonce = 0
  /\ keeperBalance = [k \in Keepers |-> 0]
  /\ activeKeepers = {}
  /\ s_ownerLinkBalance = 0 /\ s_expectedLinkBalance = 0
  /\ paused = FALSE
  /\ blockNumber = 1
  /\ autoApprove = TRUE
  /\ approvedCount = 0
  /\ pending = [r \in Targets \X Users |-> 0]
  /\ balances = LinkGenesis

\* Faulty variant: a canceled upkeep counts as active until its last block.
ActiveUntilLastBlock(id) == s_upkeep[id].maxValidBlocknumber > blockNumber

\* onlyActiveUpkeep
Active(id) == s_upkeep[id].maxValidBlocknumber = UINT64_MAX

-----------------------------------------------------------------------------
(***************************************************************************)
(* Registration.  _approve creates the upkeep with no balance and then     *)
(* funds it with transferAndCall, which calls the registry's               *)
(* onTokenTransfer.                                                        *)
(***************************************************************************)
_approve(target, admin, amount) ==
  LET id == UpkeepID(nonce) IN
  /\ ~paused
  /\ nonce < MaxNonce
  /\ s_upkeep' = [s_upkeep EXCEPT ![id] =
       [balance |-> amount, lastKeeper |-> Zero, maxValidBlocknumber |-> UINT64_MAX,
        target |-> target, amountSpent |-> 0, admin |-> admin]]
  /\ s_upkeepIDs' = s_upkeepIDs \cup {id}
  /\ nonce' = nonce + 1
  /\ s_expectedLinkBalance' = s_expectedLinkBalance + amount

_shouldAutoApprove == autoApprove /\ approvedCount < autoApproveMaxAllowed

\* A request whose sender is not auto-approved waits, together with its LINK.
register(sender, target, admin, amount) ==
  /\ amount >= minLINKJuels
  /\ \/ /\ _shouldAutoApprove
        /\ approvedCount' = approvedCount + 1
        /\ _approve(target, admin, amount)
        /\ Transfer(LINK, sender, Registry, amount)
        /\ UNCHANGED pending
     \/ /\ ~_shouldAutoApprove
        /\ pending' = [pending EXCEPT ![<<target, admin>>] = @ + amount]
        /\ Transfer(LINK, sender, Registrar, amount)
        /\ UNCHANGED <<upkeepVars, s_expectedLinkBalance, approvedCount>>
  /\ UNCHANGED <<keeperBalance, s_ownerLinkBalance, adminVars, autoApprove, blockNumber>>

approve(caller, target, admin) ==
  LET amount == pending[<<target, admin>>] IN
  /\ caller = registryOwner
  /\ amount > 0
  /\ pending' = [pending EXCEPT ![<<target, admin>>] = 0]
  /\ _approve(target, admin, amount)
  /\ Transfer(LINK, Registrar, Registry, amount)
  /\ UNCHANGED <<keeperBalance, s_ownerLinkBalance, adminVars, autoApprove, approvedCount,
                 blockNumber>>

cancel(caller, target, admin) ==
  LET amount == pending[<<target, admin>>] IN
  /\ caller \in {admin, registryOwner}
  /\ amount > 0
  /\ pending' = [pending EXCEPT ![<<target, admin>>] = 0]
  /\ Transfer(LINK, Registrar, caller, amount)
  /\ UNCHANGED <<upkeepVars, keeperBalance, s_ownerLinkBalance, s_expectedLinkBalance,
                 adminVars, autoApprove, approvedCount, blockNumber>>

setRegistrationConfig(caller, auto) ==
  /\ caller = registryOwner
  /\ autoApprove' = auto
  /\ UNCHANGED <<upkeepVars, keeperBalance, s_ownerLinkBalance, s_expectedLinkBalance,
                 adminVars, approvedCount, pending, blockNumber, balances>>

-----------------------------------------------------------------------------
(***************************************************************************)
(* Upkeeps.  addFunds (approve and transferFrom) and onTokenTransfer       *)
(* (transferAndCall) have the same effect.                                 *)
(***************************************************************************)
addFunds(sender, id, amount) ==
  /\ Active(id)
  /\ s_upkeep' = [s_upkeep EXCEPT ![id].balance = @ + amount]
  /\ s_expectedLinkBalance' = s_expectedLinkBalance + amount
  /\ Transfer(LINK, sender, Registry, amount)
  /\ UNCHANGED <<s_upkeepIDs, nonce, keeperBalance, s_ownerLinkBalance, adminVars,
                 registrarVars, blockNumber>>

_prePerformUpkeep(k, id) ==
  /\ k \in activeKeepers
  /\ s_upkeep[id].balance >= MaxPayment
  /\ s_upkeep[id].lastKeeper # k

\* whenNotPaused and validUpkeep
Valid(id) == ~paused /\ s_upkeep[id].maxValidBlocknumber > blockNumber

Performable(k, id) == Valid(id) /\ _prePerformUpkeep(k, id)

\* The keeper is paid whether or not the target's performUpkeep succeeded.
performUpkeep(k, id, payment) ==
  /\ Performable(k, id)
  /\ payment <= s_upkeep[id].balance
  /\ s_upkeep[id].amountSpent + payment <= MaxSpent
  /\ s_upkeep' = [s_upkeep EXCEPT ![id].balance = @ - payment,
                                  ![id].amountSpent = @ + payment,
                                  ![id].lastKeeper = k]
  /\ keeperBalance' = [keeperBalance EXCEPT ![k] = @ + payment]
  /\ UNCHANGED <<s_upkeepIDs, nonce, s_ownerLinkBalance, s_expectedLinkBalance, adminVars,
                 registrarVars, blockNumber>>

\* The registry's owner cancels at once, and may shorten an admin's delay.
Cancel(caller, id) ==
  /\ Active(id) \/ (caller = registryOwner /\ s_upkeep[id].maxValidBlocknumber > blockNumber)
  /\ caller \in {registryOwner, s_upkeep[id].admin}
  /\ s_upkeep' = [s_upkeep EXCEPT ![id].maxValidBlocknumber =
       IF caller = registryOwner THEN blockNumber ELSE blockNumber + CANCELATION_DELAY]
  /\ UNCHANGED <<nonce, keeperBalance, s_ownerLinkBalance, s_expectedLinkBalance, adminVars,
                 registrarVars, blockNumber, balances>>

\* Faulty variant: the id stays listed.
cancelUpkeepStillListed(caller, id) == Cancel(caller, id) /\ UNCHANGED s_upkeepIDs

cancelUpkeep(caller, id) == Cancel(caller, id) /\ s_upkeepIDs' = s_upkeepIDs \ {id}

\* Faulty variant: the fee is not capped by what is left.
CancellationFeeUncapped(id) ==
  LET missing == minUpkeepSpend - s_upkeep[id].amountSpent
  IN  IF missing <= 0 THEN 0 ELSE missing

\* min(max(minUpkeepSpend - amountSpent, 0), amountLeft)
CancellationFee(id) ==
  LET missing == minUpkeepSpend - s_upkeep[id].amountSpent
      amountLeft == s_upkeep[id].balance
  IN  IF missing <= 0 THEN 0 ELSE IF missing > amountLeft THEN amountLeft ELSE missing

\* Faulty variant: the refund forgets the fee.
RefundWithFee(id) == s_upkeep[id].balance

\* amountToWithdraw of withdrawFunds
Refund(id) == s_upkeep[id].balance - CancellationFee(id)

withdrawFunds(caller, id, to) ==
  /\ caller = s_upkeep[id].admin
  /\ s_upkeep[id].maxValidBlocknumber <= blockNumber
  /\ s_upkeep' = [s_upkeep EXCEPT ![id].balance = 0]
  /\ s_ownerLinkBalance' = s_ownerLinkBalance + CancellationFee(id)
  /\ s_expectedLinkBalance' = s_expectedLinkBalance - Refund(id)
  /\ Transfer(LINK, Registry, to, Refund(id))
  /\ UNCHANGED <<s_upkeepIDs, nonce, keeperBalance, adminVars, registrarVars, blockNumber>>

-----------------------------------------------------------------------------
(***************************************************************************)
(* The registry's owner and the keepers' payees.                           *)
(***************************************************************************)
withdrawOwnerFunds(caller) ==
  /\ caller = registryOwner
  /\ s_expectedLinkBalance' = s_expectedLinkBalance - s_ownerLinkBalance
  /\ s_ownerLinkBalance' = 0
  /\ Transfer(LINK, Registry, caller, s_ownerLinkBalance)
  /\ UNCHANGED <<upkeepVars, keeperBalance, adminVars, registrarVars, blockNumber>>

\* Faulty variant: the fees its owner has not withdrawn yet count as surplus.
SurplusAndFees == balances[LINK][Registry] - s_expectedLinkBalance + s_ownerLinkBalance

\* LINK the registry holds and owes nobody
Surplus == balances[LINK][Registry] - s_expectedLinkBalance

recoverFunds(caller) ==
  /\ caller = registryOwner
  /\ Surplus >= 0
  /\ Transfer(LINK, Registry, caller, Surplus)
  /\ UNCHANGED <<upkeepVars, keeperBalance, s_ownerLinkBalance, s_expectedLinkBalance,
                 adminVars, registrarVars, blockNumber>>

withdrawPayment(k, to) ==
  /\ keeperBalance' = [keeperBalance EXCEPT ![k] = 0]
  /\ s_expectedLinkBalance' = s_expectedLinkBalance - keeperBalance[k]
  /\ Transfer(LINK, Registry, to, keeperBalance[k])
  /\ UNCHANGED <<upkeepVars, s_ownerLinkBalance, adminVars, registrarVars, blockNumber>>

pause(caller) ==
  /\ caller = registryOwner
  /\ ~paused
  /\ paused' = TRUE
  /\ UNCHANGED <<upkeepVars, keeperBalance, s_ownerLinkBalance, s_expectedLinkBalance,
                 activeKeepers, registrarVars, blockNumber, balances>>

unpause(caller) ==
  /\ caller = registryOwner
  /\ paused
  /\ paused' = FALSE
  /\ UNCHANGED <<upkeepVars, keeperBalance, s_ownerLinkBalance, s_expectedLinkBalance,
                 activeKeepers, registrarVars, blockNumber, balances>>

\* at least two keepers, named once each
setKeepers(caller, keepers) ==
  /\ caller = registryOwner
  /\ \E k1, k2 \in keepers : k1 # k2
  /\ activeKeepers' = keepers
  /\ UNCHANGED <<upkeepVars, keeperBalance, s_ownerLinkBalance, s_expectedLinkBalance,
                 paused, registrarVars, blockNumber, balances>>

\* LINK sent to the registry without naming an upkeep
strayTransfer(sender, amount) ==
  /\ Transfer(LINK, sender, Registry, amount)
  /\ UNCHANGED <<upkeepVars, keeperBalance, s_ownerLinkBalance, s_expectedLinkBalance,
                 adminVars, registrarVars, blockNumber>>

NextBlock ==
  /\ blockNumber < MaxBlock
  /\ blockNumber' = blockNumber + 1
  /\ UNCHANGED <<upkeepVars, keeperBalance, s_ownerLinkBalance, s_expectedLinkBalance,
                 adminVars, registrarVars, balances>>

UserStep(u) ==
  \/ \E t \in Targets, a \in Users, n \in LinkAmounts : register(u, t, a, n)
  \/ \E t \in Targets, a \in Users : approve(u, t, a) \/ cancel(u, t, a)
  \/ \E id \in Ids, n \in LinkAmounts : addFunds(u, id, n)
  \/ \E id \in Ids : cancelUpkeep(u, id)
  \/ \E id \in Ids, to \in Users : withdrawFunds(u, id, to)
  \/ \E n \in LinkAmounts : strayTransfer(u, n)

OwnerStep(u) ==
  \/ withdrawOwnerFunds(u) \/ recoverFunds(u) \/ pause(u) \/ unpause(u)
  \/ \E b \in BOOLEAN : setRegistrationConfig(u, b)
  \/ \E ks \in SUBSET Keepers : setKeepers(u, ks)

KeeperStep(k) ==
  \/ \E id \in Ids, p \in Payments : performUpkeep(k, id, p) /\ UNCHANGED balances
  \/ \E to \in Users : withdrawPayment(k, to)

RegistryNext ==
  \/ \E u \in Users : UserStep(u) \/ OwnerStep(u)
  \/ \E k \in Keepers : KeeperStep(k)
  \/ NextBlock

RegistrySpec == RegistryInit /\ [][RegistryNext]_registryVars

-----------------------------------------------------------------------------
(***************************************************************************)
(* The registry's books: s_expectedLinkBalance, which every operation      *)
(* adjusts by itself, is at all times what the registry owes to upkeeps,   *)
(* keepers and its owner together.                                         *)
(***************************************************************************)
upkeepLink == SumFunction([id \in Ids |-> s_upkeep[id].balance])
keeperLink == SumFunction(keeperBalance)
pendingLink == SumFunction(pending)

Accounting == s_expectedLinkBalance = upkeepLink + keeperLink + s_ownerLinkBalance

(***************************************************************************)
(* What the registry and the registrar owe, they hold: recoverFunds,       *)
(* which hands out what nobody is owed, never touches LINK that is, and a  *)
(* pending request can always be refunded.                                 *)
(***************************************************************************)
Solvent ==
  /\ s_expectedLinkBalance <= balances[LINK][Registry]
  /\ pendingLink <= balances[LINK][Registrar]

(***************************************************************************)
(* s_upkeepIDs lists the active upkeeps, neither a canceled one nor an id  *)
(* that was never issued.                                                  *)
(***************************************************************************)
ActiveIDs == s_upkeepIDs = {id \in Ids : s_upkeep[id].maxValidBlocknumber = UINT64_MAX}

(***************************************************************************)
(* Cancellation is final: whoever acts, a canceled upkeep is never active  *)
(* or funded again, its last block never moves away, and it is performed   *)
(* only before that block.                                                 *)
(***************************************************************************)
StaysCanceled(id) ==
  LET before == s_upkeep[id]
      after == s_upkeep'[id]
  IN  /\ after.maxValidBlocknumber <= before.maxValidBlocknumber
      /\ after.balance <= before.balance
      /\ after.amountSpent > before.amountSpent => blockNumber < before.maxValidBlocknumber

CancelIsFinal ==
  [][\A id \in Ids :
       s_upkeep[id].maxValidBlocknumber \notin {0, UINT64_MAX} => StaysCanceled(id)]_registryVars
==============================================================================
