--------------------------- MODULE Automation_proofs ---------------------------
(***************************************************************************)
(* The vault's upkeepId and the registry, for every set of people,         *)
(* contracts, keepers and arguments.  What a step of the registry does to  *)
(* its upkeeps is taken from KeeperRegistry_proofs.                        *)
(***************************************************************************)
EXTENDS Automation, EthVault_proofs

RP == INSTANCE KeeperRegistry_proofs WITH LinkGenesis <- Genesis

-----------------------------------------------------------------------------
(***************************************************************************)
(* Automation's instance of the registry and the proofs' are the same.     *)
(***************************************************************************)
LEMMA SameAssumption == RP!RegistryAssumption /\ RP!LedgerAssumption
  BY AutomationAssumption, LedgerAssumption
     DEF R!RegistryAssumption, RP!RegistryAssumption, RP!LedgerAssumption,
         RP!Ledger, R!Ledger, Ledger, R!IsFiniteSet, RP!IsFiniteSet

LEMMA SameInit == R!RegistryInit => RP!RegistryInit
  BY DEF R!RegistryInit, RP!RegistryInit, R!NoUpkeepRecord, RP!NoUpkeepRecord, R!Ids, RP!Ids

LEMMA SameRegister ==
  ASSUME NEW u, NEW t, NEW a, NEW n, R!register(u, t, a, n)
  PROVE  RP!register(u, t, a, n)
  BY DEF R!register, RP!register, R!_shouldAutoApprove, RP!_shouldAutoApprove,
     R!_approve, RP!_approve, R!UpkeepID, RP!UpkeepID, R!upkeepVars, RP!upkeepVars,
     R!adminVars, RP!adminVars, R!Transfer, RP!Transfer, R!TransferReverts, RP!TransferReverts,
     R!AfterTransfer, RP!AfterTransfer, R!Covers, RP!Covers

LEMMA SamePerform ==
  ASSUME NEW k, NEW i, NEW p, R!performUpkeep(k, i, p)
  PROVE  RP!performUpkeep(k, i, p)
  BY DEF R!performUpkeep, RP!performUpkeep, R!Performable, RP!Performable, R!Valid, RP!Valid,
     R!_prePerformUpkeep, RP!_prePerformUpkeep, R!adminVars, RP!adminVars,
     R!registrarVars, RP!registrarVars

LEMMA SameUserStep ==
  ASSUME NEW u, R!UserStep(u)
  PROVE  RP!UserStep(u)
  BY SameRegister
     DEF R!UserStep, RP!UserStep, R!approve, RP!approve, R!cancel, RP!cancel,
     R!addFunds, RP!addFunds, R!cancelUpkeep, RP!cancelUpkeep, R!Cancel, RP!Cancel,
     R!Active, RP!Active, R!withdrawFunds, RP!withdrawFunds, R!Refund, RP!Refund,
     R!CancellationFee, RP!CancellationFee, R!strayTransfer, RP!strayTransfer, R!Ids, RP!Ids,
     R!_approve, RP!_approve, R!UpkeepID, RP!UpkeepID, R!upkeepVars, RP!upkeepVars,
     R!adminVars, RP!adminVars, R!registrarVars, RP!registrarVars,
     R!Transfer, RP!Transfer, R!TransferReverts, RP!TransferReverts,
     R!AfterTransfer, RP!AfterTransfer, R!Covers, RP!Covers

LEMMA SameOwnerStep ==
  ASSUME NEW u, R!OwnerStep(u)
  PROVE  RP!OwnerStep(u)
  BY DEF R!OwnerStep, RP!OwnerStep, R!withdrawOwnerFunds, RP!withdrawOwnerFunds,
     R!recoverFunds, RP!recoverFunds, R!Surplus, RP!Surplus, R!pause, RP!pause,
     R!unpause, RP!unpause, R!setRegistrationConfig, RP!setRegistrationConfig,
     R!setKeepers, RP!setKeepers, R!upkeepVars, RP!upkeepVars,
     R!adminVars, RP!adminVars, R!registrarVars, RP!registrarVars,
     R!Transfer, RP!Transfer, R!TransferReverts, RP!TransferReverts,
     R!AfterTransfer, RP!AfterTransfer, R!Covers, RP!Covers

LEMMA SameKeeperStep ==
  ASSUME NEW k, NEW to \in Users, R!withdrawPayment(k, to)
  PROVE  RP!KeeperStep(k)
  BY DEF RP!KeeperStep, R!withdrawPayment, RP!withdrawPayment, R!upkeepVars, RP!upkeepVars,
     R!adminVars, RP!adminVars, R!registrarVars, RP!registrarVars,
     R!Transfer, RP!Transfer, R!TransferReverts, RP!TransferReverts,
     R!AfterTransfer, RP!AfterTransfer, R!Covers, RP!Covers

LEMMA SameBlock == R!NextBlock => RP!NextBlock
  BY DEF R!NextBlock, RP!NextBlock, R!upkeepVars, RP!upkeepVars,
     R!adminVars, RP!adminVars, R!registrarVars, RP!registrarVars

-----------------------------------------------------------------------------
(***************************************************************************)
(* The invariant: the registry's, and that the vault's id is one of the    *)
(* registry's and names the vault, and has an admin.  Ids are issued in    *)
(* order and never again, so later registrations cannot take the id away.  *)
(***************************************************************************)
OwnUpkeep ==
  upkeepId # 0 =>
    /\ upkeepId \in RP!Ids /\ s_upkeep[upkeepId].target = Vault
    /\ s_upkeep[upkeepId].admin \in Users

IdInv == RP!UpkeepsInv /\ OwnUpkeep

LEMMA VaultIsNoZero == Vault # Zero
  BY SameAssumption, AutomationAssumption DEF RP!RegistryAssumption

LEMMA IdInit == AutomationInit => IdInv
  BY SameInit, SameAssumption, RP!UpkeepsInit DEF AutomationInit, IdInv, OwnUpkeep

(***************************************************************************)
(* A step that leaves the vault's id alone.                                *)
(***************************************************************************)
LEMMA IdKept ==
  ASSUME IdInv, RP!Preserved, upkeepId' = upkeepId
  PROVE  IdInv'
<1>1. RP!UpkeepsInv'
  BY DEF RP!Preserved
<1>2. OwnUpkeep'
  BY VaultIsNoZero DEF RP!Preserved, RP!KeepsTarget, IdInv, OwnUpkeep
<1>3. QED
  BY <1>1, <1>2 DEF IdInv

(***************************************************************************)
(* A step that leaves the registry alone.                                  *)
(***************************************************************************)
LEMMA RegistryIdle ==
  ASSUME RP!UpkeepsInv, UNCHANGED chainlinkVars
  PROVE  RP!Preserved
<1>1. /\ UNCHANGED RP!upkeepVars /\ blockNumber' \in 1 .. MaxBlock
      /\ pending' \in [Targets \X Users -> Nat] /\ activeKeepers' \subseteq Keepers
  BY DEF chainlinkVars, RP!upkeepVars, RP!UpkeepsInv, RP!UpkeepsTyped
<1>2. QED
  BY <1>1, SameAssumption, RP!IdleStep

(***************************************************************************)
(* registerAndPredictID: the nonce has moved, so the request was approved  *)
(* at once and the new upkeep has the id that was predicted.               *)
(***************************************************************************)
LEMMA IdPredicted ==
  ASSUME IdInv, NEW u \in Users, NEW a \in Users, NEW n \in LinkAmounts, registerAndPredictID(u, a, n)
  PROVE  IdInv'
<1>1. RP!register(Vault, Vault, a, n) /\ nonce' = nonce + 1 /\ upkeepId' = RP!UpkeepID(nonce)
  BY SameRegister DEF registerAndPredictID, ApprovedAtOnce, PredictedID, R!UpkeepID, RP!UpkeepID
<1>2. Vault \in Targets /\ n \in Nat /\ nonce \in 0 .. MaxNonce /\ s_upkeep \in [RP!Ids -> RP!Upkeep]
  BY SameAssumption, AutomationAssumption
     DEF RP!RegistryAssumption, IdInv, RP!UpkeepsInv, RP!UpkeepsTyped
<1>3. RP!Preserved
  BY <1>1, <1>2, SameAssumption, RP!RegisterStep DEF IdInv
<1>4. RP!_approve(Vault, a, n)
  BY <1>1, <1>2 DEF RP!register, RP!upkeepVars
<1>5. /\ upkeepId' \in RP!Ids /\ s_upkeep'[upkeepId'].target = Vault
      /\ s_upkeep'[upkeepId'].admin \in Users
  <2>1. RP!UpkeepID(nonce) \in RP!Ids
    BY <1>2, <1>4, SameAssumption DEF RP!_approve, RP!UpkeepID, RP!Ids, RP!RegistryAssumption
  <2>2. s_upkeep'[RP!UpkeepID(nonce)].target = Vault /\ s_upkeep'[RP!UpkeepID(nonce)].admin = a
    BY <1>2, <1>4, <2>1 DEF RP!_approve
  <2>3. QED
    BY <1>1, <2>1, <2>2
<1>6. QED
  BY <1>3, <1>5 DEF RP!Preserved, IdInv, OwnUpkeep

LEMMA IdVaultCall ==
  ASSUME IdInv, NEW u \in Users, VaultCall(u)
  PROVE  IdInv'
<1>1. CASE UNCHANGED <<chainlinkVars, upkeepId>>
  BY <1>1, RegistryIdle, IdKept DEF IdInv
<1>2. CASE \E a \in Users, n \in LinkAmounts : registerAndPredictID(u, a, n)
  BY <1>2, IdPredicted
<1>3. QED
  BY <1>1, <1>2 DEF VaultCall

LEMMA IdRegistryCall ==
  ASSUME IdInv, NEW u \in Users, RegistryCall(u)
  PROVE  IdInv'
<1>1. RP!UserStep(u) \/ RP!OwnerStep(u)
  BY SameUserStep, SameOwnerStep DEF RegistryCall
<1>2. RP!Preserved
  BY <1>1, SameAssumption, RP!UserStepPreserves, RP!OwnerStepPreserves DEF IdInv
<1>3. QED
  BY <1>2, IdKept DEF RegistryCall

LEMMA IdKeeperCall ==
  ASSUME IdInv, NEW k \in Keepers, KeeperCall(k)
  PROVE  IdInv'
<1>1. CASE \E id \in R!Ids, e \in Payees \cup {NoUpkeep}, p \in Payments :
             PerformThroughRegistry(k, id, e, p)
  <2>1. PICK id \in R!Ids, e \in Payees \cup {NoUpkeep}, p \in Payments :
               PerformThroughRegistry(k, id, e, p)
    BY <1>1
  <2>2. id \in RP!Ids /\ p \in Nat /\ RP!performUpkeep(k, id, p)
    BY <2>1, SamePerform, SameAssumption
       DEF PerformThroughRegistry, R!Ids, RP!Ids, RP!RegistryAssumption
  <2>3. RP!Preserved
    BY <2>2, SameAssumption, RP!PerformStep DEF IdInv
  <2>4. QED
    BY <2>1, <2>3, IdKept DEF PerformThroughRegistry
<1>2. CASE (\E to \in Users : R!withdrawPayment(k, to)) /\ UNCHANGED <<vaultVars, upkeepId>>
  <2>1. RP!KeeperStep(k)
    BY <1>2, SameKeeperStep
  <2>2. RP!Preserved
    BY <2>1, SameAssumption, RP!KeeperStepPreserves DEF IdInv
  <2>3. QED
    BY <1>2, <2>2, IdKept
<1>3. QED
  BY <1>1, <1>2 DEF KeeperCall

LEMMA IdBlock ==
  ASSUME IdInv, Block
  PROVE  IdInv'
<1>1. RP!Preserved
  BY SameBlock, SameAssumption, RP!BlockStepPreserves DEF Block, IdInv
<1>2. QED
  BY <1>1, IdKept DEF Block

LEMMA IdStep == IdInv /\ [AutomationNext]_automationVars => IdInv'
<1>1. ASSUME IdInv, UNCHANGED automationVars PROVE IdInv'
  BY <1>1, RegistryIdle, IdKept DEF automationVars, IdInv
<1>2. QED
  BY <1>1, IdVaultCall, IdRegistryCall, IdKeeperCall, IdBlock DEF AutomationNext

(***************************************************************************)
(* The id registerAndPredictID computes from the nonce it read is the      *)
(* vault's, whoever registers, approves or cancels before and after.       *)
(***************************************************************************)
THEOREM PredictionHolds == AutomationSpec => []UpkeepIdTracks
<1>1. IdInv => UpkeepIdTracks
  BY DEF IdInv, OwnUpkeep, UpkeepIdTracks
<1>2. QED
  BY <1>1, IdInit, IdStep, PTL DEF AutomationSpec

-----------------------------------------------------------------------------
(***************************************************************************)
(* The vault and the registry share the ledger, so the typing of both and  *)
(* the registry's books are invariant together: the vault's payments must  *)
(* not touch LINK the registry owes, nor the registry's transfers the      *)
(* vault's.                                                                *)
(***************************************************************************)
SharedInv == TypeOK /\ IdInv /\ RP!BooksInv

LEMMA Apart ==
  /\ LINK \in Tokens
  /\ Vault \in Accounts \ (Users \cup {Registry, Registrar}) /\ Vault \in RP!Outsiders
  /\ \A a \in {Registry, Registrar} : a \in Accounts \ (Users \cup {Vault})
  /\ LinkAmounts \subseteq Nat /\ Payments \subseteq Nat
  BY SameAssumption, AutomationAssumption, VaultAssumption DEF RP!RegistryAssumption, RP!Outsiders

LEMMA SharedLedger ==
  /\ RP!BooksInv => balances \in RP!Ledger /\ balances \in Ledger
  /\ RP!Books' => balances' \in Ledger
  BY DEF RP!BooksInv, RP!RegistryTypeOK, RP!Books, RP!MoneyTyped, RP!Ledger, Ledger

(***************************************************************************)
(* A step of the composition, seen from the vault.                         *)
(***************************************************************************)
LEMMA VaultTyped ==
  ASSUME TypeOK, UNCHANGED vaultVars, balances' \in Ledger
  PROVE  TypeOK'
  BY DEF vaultVars, TypeOK

(***************************************************************************)
(* A step of the vault alone, seen from the registry's books.              *)
(***************************************************************************)
LEMMA VaultAside ==
  ASSUME SharedInv, [Next]_vars
  PROVE  /\ balances' \in RP!Ledger
         /\ \A a \in {Registry, Registrar} : balances'[LINK][a] = balances[LINK][a]
<1>1. TypeOK'
  BY TypeStep DEF SharedInv
<1>2. balances' \in RP!Ledger
  BY <1>1 DEF TypeOK, Ledger, RP!Ledger
<1>3. QED
  BY <1>2, Apart, OthersKeep DEF SharedInv

LEMMA VaultIdleBooks ==
  ASSUME SharedInv, [Next]_vars, UNCHANGED chainlinkVars
  PROVE  RP!Books' /\ RP!Flags'
<1>1. RP!OwedKept /\ UNCHANGED <<s_ownerLinkBalance, s_expectedLinkBalance>>
  BY DEF chainlinkVars, RP!OwedKept
<1>2. RP!Books'
  BY <1>1, VaultAside, SameAssumption, RP!IdleBooks DEF SharedInv
<1>3. RP!Flags'
  BY DEF SharedInv, RP!BooksInv, RP!RegistryTypeOK, RP!Flags, chainlinkVars
<1>4. QED
  BY <1>2, <1>3

(***************************************************************************)
(* The flags of the registry, which only its own calls change.             *)
(***************************************************************************)
LEMMA FlagsStep ==
  ASSUME RP!Flags, RP!RegistryNext
  PROVE  RP!Flags'
  BY SameAssumption, RP!FlagsKept

LEMMA RegisterFlags ==
  ASSUME RP!Flags, NEW u, NEW t, NEW a, NEW n, RP!register(u, t, a, n)
  PROVE  RP!Flags'
<1>1. UNCHANGED <<paused, autoApprove>>
  BY DEF RP!register, RP!adminVars
<1>2. approvedCount' \in {approvedCount, approvedCount + 1}
  BY DEF RP!register
<1>3. QED
  BY <1>1, <1>2 DEF RP!Flags

(***************************************************************************)
(* Each step keeps the three parts.                                        *)
(***************************************************************************)
Kept == TypeOK' /\ RP!Books' /\ RP!Flags'

LEMMA SharedVaultCall ==
  ASSUME SharedInv, IdInv', NEW u \in Users, VaultCall(u)
  PROVE  Kept
<1>1. CASE \E a \in Users, n \in LinkAmounts : registerAndPredictID(u, a, n)
  <2>1. PICK a \in Users, n \in LinkAmounts : registerAndPredictID(u, a, n)
    BY <1>1
  <2>2. RP!register(Vault, Vault, a, n) /\ n \in Nat /\ Vault \in Targets
    BY <2>1, SameRegister, Apart, AutomationAssumption DEF registerAndPredictID
  <2>3. RP!Books'
    BY <2>2, Apart, SameAssumption, RP!RegisterBooks DEF SharedInv, IdInv
  <2>4. RP!Flags'
    BY <2>2, SameAssumption, RP!BooksParts, RegisterFlags DEF SharedInv
  <2>5. TypeOK'
    BY <2>1, <2>3, SharedLedger, VaultTyped DEF registerAndPredictID, SharedInv
  <2>6. QED
    BY <2>3, <2>4, <2>5 DEF Kept
<1>2. CASE ~\E a \in Users, n \in LinkAmounts : registerAndPredictID(u, a, n)
  <2>1. Next /\ UNCHANGED chainlinkVars
    BY <1>2 DEF VaultCall, Next
  <2>2. TypeOK'
    BY <2>1, TypeStep DEF SharedInv
  <2>3. QED
    BY <2>1, <2>2, VaultIdleBooks DEF Kept
<1>3. QED
  BY <1>1, <1>2

LEMMA SharedRegistryCall ==
  ASSUME SharedInv, IdInv', NEW u \in Users, RegistryCall(u)
  PROVE  Kept
<1>1. RP!UserStep(u) \/ RP!OwnerStep(u)
  BY SameUserStep, SameOwnerStep DEF RegistryCall
<1>2. RP!Books'
  BY <1>1, SameAssumption, RP!UserBooks, RP!OwnerBooks DEF SharedInv, IdInv
<1>3. RP!Flags'
  BY <1>1, SameAssumption, RP!BooksParts, FlagsStep DEF SharedInv, RP!RegistryNext
<1>4. TypeOK'
  BY <1>2, SharedLedger, VaultTyped DEF RegistryCall, SharedInv
<1>5. QED
  BY <1>2, <1>3, <1>4 DEF Kept

LEMMA SharedKeeperCall ==
  ASSUME SharedInv, IdInv', NEW k \in Keepers, KeeperCall(k)
  PROVE  Kept
<1>1. CASE \E id \in R!Ids, e \in Payees \cup {NoUpkeep}, p \in Payments :
             PerformThroughRegistry(k, id, e, p)
  <2>1. PICK id \in R!Ids, e \in Payees \cup {NoUpkeep}, p \in Payments :
               PerformThroughRegistry(k, id, e, p)
    BY <1>1
  <2>2. id \in RP!Ids /\ p \in Nat /\ RP!performUpkeep(k, id, p)
    BY <2>1, SamePerform, Apart DEF PerformThroughRegistry, R!Ids, RP!Ids
  <2>3. [Next]_vars
    BY <2>1 DEF PerformThroughRegistry, VaultPays, Next
  <2>4. TypeOK'
    BY <2>3, TypeStep DEF SharedInv
  <2>5. RP!Books'
    BY <2>2, <2>3, VaultAside, SameAssumption, RP!PerformBooks DEF SharedInv, IdInv
  <2>6. RP!Flags'
    BY <2>2 DEF RP!performUpkeep, RP!adminVars, RP!registrarVars, SharedInv, RP!BooksInv,
                RP!RegistryTypeOK, RP!Flags
  <2>7. QED
    BY <2>4, <2>5, <2>6 DEF Kept
<1>2. CASE (\E to \in Users : R!withdrawPayment(k, to)) /\ UNCHANGED <<vaultVars, upkeepId>>
  <2>1. RP!KeeperStep(k)
    BY <1>2, SameKeeperStep
  <2>2. RP!Books'
    BY <2>1, SameAssumption, RP!KeeperBooks DEF SharedInv, IdInv
  <2>3. RP!Flags'
    BY <2>1, SameAssumption, RP!BooksParts, FlagsStep DEF SharedInv, RP!RegistryNext
  <2>4. TypeOK'
    BY <1>2, <2>2, SharedLedger, VaultTyped DEF SharedInv
  <2>5. QED
    BY <2>2, <2>3, <2>4 DEF Kept
<1>3. QED
  BY <1>1, <1>2 DEF KeeperCall

LEMMA SharedBlock ==
  ASSUME SharedInv, Block
  PROVE  Kept
<1>1. RP!NextBlock /\ Next
  BY SameBlock DEF Block, Next
<1>2. TypeOK'
  BY <1>1, TypeStep DEF SharedInv
<1>3. RP!Books'
  BY <1>1, SameAssumption, RP!BlockBooks DEF SharedInv
<1>4. RP!Flags'
  BY <1>1, SameAssumption, RP!BooksParts, FlagsStep DEF SharedInv, RP!RegistryNext
<1>5. QED
  BY <1>2, <1>3, <1>4 DEF Kept

LEMMA SharedStep == SharedInv /\ [AutomationNext]_automationVars => SharedInv'
<1> SUFFICES ASSUME SharedInv, [AutomationNext]_automationVars PROVE SharedInv'
  OBVIOUS
<1>1. IdInv'
  BY IdStep DEF SharedInv
<1>2. Kept
  <2>1. CASE UNCHANGED automationVars
    <3>1. TypeOK' /\ UNCHANGED chainlinkVars /\ UNCHANGED vars
      BY <2>1 DEF automationVars, vars, TypeOK, SharedInv
    <3>2. QED
      BY <3>1, VaultIdleBooks DEF Kept
  <2>2. CASE AutomationNext
    BY <1>1, <2>2, SharedVaultCall, SharedRegistryCall, SharedKeeperCall, SharedBlock
       DEF AutomationNext
  <2>3. QED
    BY <2>1, <2>2
<1>3. RP!UpkeepsInv' /\ RP!Flags' /\ RP!Books'
  BY <1>1, <1>2 DEF Kept, IdInv
<1>4. RP!BooksInv'
  BY <1>3 DEF RP!BooksInv, RP!UpkeepsInv, RP!UpkeepsTyped, RP!Flags, RP!Books, RP!MoneyTyped,
              RP!RegistryTypeOK
<1>5. QED
  BY <1>1, <1>2, <1>4 DEF SharedInv, Kept

LEMMA SharedInit == AutomationInit => SharedInv
<1> SUFFICES ASSUME AutomationInit PROVE SharedInv
  OBVIOUS
<1>1. TypeOK
  BY VaultAssumption DEF AutomationInit, Init, TypeOK, Uint, Employee, Unwritten
<1>2. RP!BooksInv
  BY SameInit, SameAssumption, RP!BooksInit DEF AutomationInit
<1>3. QED
  BY <1>1, <1>2, IdInit DEF SharedInv

(***************************************************************************)
(* Vault, registry and registrar are well typed together, on one ledger.   *)
(***************************************************************************)
THEOREM AutomationTyped == AutomationSpec => []AutomationTypeOK
<1>1. SharedInv => AutomationTypeOK
  BY DEF SharedInv, IdInv, OwnUpkeep, AutomationTypeOK, RP!BooksInv, RP!RegistryTypeOK,
         R!RegistryTypeOK, RP!Ids, R!Ids, RP!Upkeep, R!Upkeep, RP!Ledger, R!Ledger
<1>2. QED
  BY <1>1, SharedInit, SharedStep, PTL DEF AutomationSpec

-----------------------------------------------------------------------------
(***************************************************************************)
(* The registry's books hold in the composition too: what keepers earn     *)
(* with the vault's payments and what the vault registers with are in      *)
(* them, and the LINK the vault pays salaries with is not.                 *)
(***************************************************************************)
THEOREM SharedBooks == AutomationSpec => [](RP!Accounting /\ RP!Solvent)
<1>1. SharedInv => RP!Accounting /\ RP!Solvent
  BY DEF SharedInv, RP!BooksInv
<1>2. QED
  BY <1>1, SharedInit, SharedStep, PTL DEF AutomationSpec

-----------------------------------------------------------------------------
(***************************************************************************)
(* What leaves the vault, step by step: LINK and every other token.        *)
(***************************************************************************)
Accounted(t) ==
  \/ owner # Zero /\ Received(t, owner) = Outflow(t) /\ UNCHANGED chainlinkVars
  \/ t = LINK /\ Funded(upkeepId', Outflow(t))
  \/ \E e \in Payees : SalaryPaid(e, t)

LEMMA NoOutflow ==
  ASSUME TypeOK, NEW t \in Tokens, balances'[t][Vault] = balances[t][Vault]
  PROVE  ~(Outflow(t) > 0)
<1>1. balances[t][Vault] \in Nat
  BY Apart DEF TypeOK, Ledger
<1>2. QED
  BY <1>1 DEF Outflow

LEMMA RegistrationFunds ==
  ASSUME SharedInv, NEW u \in Users, NEW a \in Users, NEW n \in LinkAmounts,
         registerAndPredictID(u, a, n)
  PROVE  /\ Funded(upkeepId', Outflow(LINK))
         /\ \A t \in Tokens \ {LINK} : balances'[t][Vault] = balances[t][Vault]
<1>1. /\ RP!register(Vault, Vault, a, n) /\ nonce' = nonce + 1
      /\ upkeepId = 0 /\ upkeepId' = RP!UpkeepID(nonce)
  BY SameRegister DEF registerAndPredictID, ApprovedAtOnce, PredictedID, R!UpkeepID, RP!UpkeepID
<1>2. n \in Nat /\ nonce \in 0 .. MaxNonce /\ s_upkeep \in [RP!Ids -> RP!Upkeep]
  BY Apart DEF SharedInv, IdInv, RP!UpkeepsInv, RP!UpkeepsTyped
<1>3. RP!_approve(Vault, a, n) /\ RP!Transfer(LINK, Vault, Registry, n)
  BY <1>1, <1>2 DEF RP!register, RP!upkeepVars
<1>4. RP!UpkeepID(nonce) \in RP!Ids /\ RP!UpkeepID(nonce) # 0
  BY <1>2, <1>3, SameAssumption DEF RP!_approve, RP!UpkeepID, RP!Ids, RP!RegistryAssumption
<1>5. s_upkeep'[upkeepId'].balance = n
  BY <1>1, <1>2, <1>3, <1>4 DEF RP!_approve
<1>6. balances'[LINK][Vault] = balances[LINK][Vault] - n
  BY <1>2, <1>3, Apart, SameAssumption, RP!Outside, RP!LinkMoves, SharedLedger DEF SharedInv
<1>7. Outflow(LINK) = n
  <2>1. balances[LINK][Vault] \in Nat
    BY Apart DEF SharedInv, TypeOK, Ledger
  <2>2. QED
    BY <1>2, <1>6, <2>1 DEF Outflow
<1>8. \A t \in Tokens \ {LINK} : balances'[t][Vault] = balances[t][Vault]
  BY <1>3, Apart, SameAssumption, RP!TransferKeeps, SharedLedger DEF SharedInv
<1>9. QED
  BY <1>1, <1>4, <1>5, <1>7, <1>8 DEF Funded

LEMMA AccountedStep ==
  ASSUME SharedInv, AutomationNext, NEW t \in Tokens, Outflow(t) > 0
  PROVE  Accounted(t)
<1>1. TypeOK /\ RP!BooksInv
  BY DEF SharedInv
<1>2. ASSUME NEW u \in Users, VaultCall(u)
      PROVE  Accounted(t)
  <2>1. CASE \E a \in Users, n \in LinkAmounts : registerAndPredictID(u, a, n)
    BY <1>1, <2>1, NoOutflow, RegistrationFunds DEF Accounted
  <2>2. CASE ~\E a \in Users, n \in LinkAmounts : registerAndPredictID(u, a, n)
    <3>1. Next /\ UNCHANGED chainlinkVars
      BY <1>2, <2>2 DEF VaultCall, Next
    <3>2. QED
      BY <1>1, <3>1, Apart, OutflowStep DEF Accounted
  <2>3. QED
    BY <2>1, <2>2
<1>3. ASSUME NEW u \in Users, RegistryCall(u)
      PROVE  FALSE
  <2>1. RP!UserStep(u) \/ RP!OwnerStep(u)
    BY <1>3, SameUserStep, SameOwnerStep DEF RegistryCall
  <2>2. balances'[t][Vault] = balances[t][Vault]
    BY <1>1, <2>1, Apart, SharedLedger, SameAssumption, RP!BystandersKeep
  <2>3. QED
    BY <1>1, <2>2, NoOutflow
<1>4. ASSUME NEW k \in Keepers, KeeperCall(k)
      PROVE  Accounted(t)
  <2>1. CASE \E to \in Users : R!withdrawPayment(k, to)
    <3>1. \E to \in Users : RP!withdrawPayment(k, to)
      BY <2>1 DEF R!withdrawPayment, RP!withdrawPayment, R!upkeepVars, RP!upkeepVars,
         R!adminVars, RP!adminVars, R!registrarVars, RP!registrarVars,
         R!Transfer, RP!Transfer, R!TransferReverts, RP!TransferReverts,
         R!AfterTransfer, RP!AfterTransfer, R!Covers, RP!Covers
    <3>2. balances'[t][Vault] = balances[t][Vault]
      BY <1>1, <3>1, Apart, SharedLedger, SameAssumption, RP!BystandersKeep
    <3>3. QED
      BY <1>1, <3>2, NoOutflow
  <2>2. ASSUME NEW id \in R!Ids, NEW e \in Payees \cup {NoUpkeep}, NEW p \in Payments,
               PerformThroughRegistry(k, id, e, p)
        PROVE  Accounted(t)
    <3>1. CASE VaultPays(id, e) /\ performUpkeep(e)
      BY <1>1, <3>1, Apart, SalaryOutflow DEF Accounted, VaultPays
    <3>2. CASE UNCHANGED vars
      BY <1>1, <3>2, NoOutflow DEF vars
    <3>3. QED
      BY <2>2, <3>1, <3>2 DEF PerformThroughRegistry
  <2>3. QED
    BY <1>4, <2>1, <2>2 DEF KeeperCall
<1>5. ASSUME Block
      PROVE  FALSE
  BY <1>1, <1>5, NoOutflow DEF Block, Tick
<1>6. QED
  BY <1>2, <1>3, <1>4, <1>5 DEF AutomationNext

(***************************************************************************)
(* LINK leaves the vault to its owner, as a salary, or to the vault's own  *)
(* upkeep, in full and at once: never to a request that waits, to another  *)
(* contract's upkeep or to a keeper.                                       *)
(***************************************************************************)
THEOREM LinkIsAccountedFor == AutomationSpec => LinkAccountedFor
<1>1. SharedInv /\ [AutomationNext]_automationVars =>
        [Outflow(LINK) > 0 =>
           \/ owner # Zero /\ Received(LINK, owner) = Outflow(LINK) /\ UNCHANGED chainlinkVars
           \/ Funded(upkeepId', Outflow(LINK))
           \/ \E e \in Payees : SalaryPaid(e, LINK)]_automationVars
  BY Apart, AccountedStep DEF Accounted
<1>2. QED
  BY <1>1, SharedInit, SharedStep, PTL DEF AutomationSpec, LinkAccountedFor

(***************************************************************************)
(* And so does every other token, but for the upkeep: registering, funding *)
(* and performing it through the registry opens no further way out of the  *)
(* vault than EthVault's OutflowJustified names.                           *)
(***************************************************************************)
THEOREM TokensAreAccountedFor ==
  AutomationSpec => [][\A t \in Tokens : Outflow(t) > 0 => Accounted(t)]_automationVars
<1>1. SharedInv /\ [AutomationNext]_automationVars =>
        [\A t \in Tokens : Outflow(t) > 0 => Accounted(t)]_automationVars
  BY AccountedStep
<1>2. QED
  BY <1>1, SharedInit, SharedStep, PTL DEF AutomationSpec

-----------------------------------------------------------------------------
(***************************************************************************)
(* A step of the composition is a step of the vault or leaves it alone.    *)
(***************************************************************************)
LEMMA VaultActs ==
  ASSUME [AutomationNext]_automationVars
  PROVE  [Next]_vars \/ UNCHANGED vaultVars
<1>1. ASSUME NEW u \in Users, VaultCall(u)
      PROVE  Next \/ UNCHANGED vaultVars
  BY <1>1 DEF VaultCall, Next, registerAndPredictID
<1>2. ASSUME NEW k \in Keepers, KeeperCall(k)
      PROVE  [Next]_vars \/ UNCHANGED vaultVars
  BY <1>2 DEF KeeperCall, PerformThroughRegistry, VaultPays, Next
<1>3. QED
  BY <1>1, <1>2 DEF AutomationNext, automationVars, RegistryCall, Block, Next

(***************************************************************************)
(* The payroll inside the composition.  The registry's steps and the       *)
(* keepers' leave the vault's own variables alone or are its steps, and    *)
(* the schedule and the employee list are said of these variables only.    *)
(***************************************************************************)
PayrollInv == ScheduleExact /\ NeverAhead /\ Listed

LEMMA PayrollStep ==
  ASSUME TypeOK, PayrollInv, [AutomationNext]_automationVars
  PROVE  PayrollInv'
<1>1. CASE [Next]_vars
  BY <1>1, ScheduleStep, ListedStep DEF PayrollInv
<1>2. CASE UNCHANGED vaultVars
  BY <1>2 DEF vaultVars, PayrollInv, ScheduleExact, NeverAhead, Listed
<1>3. QED
  BY <1>1, <1>2, VaultActs

LEMMA PayrollStart == Init => PayrollInv
  BY DEF Init, PayrollInv, ScheduleExact, NeverAhead, Listed, Unwritten

(***************************************************************************)
(* Registering, funding and cancelling the upkeep, and whatever performs   *)
(* the keepers send, leave the payroll right: the pay dates are exact and  *)
(* nobody is paid ahead of them.                                           *)
(***************************************************************************)
THEOREM AutomatedScheduleIsExact == AutomationSpec => [](ScheduleExact /\ NeverAhead)
<1>1. SharedInv /\ PayrollInv /\ [AutomationNext]_automationVars => PayrollInv'
  BY PayrollStep DEF SharedInv
<1>2. AutomationInit => PayrollInv
  BY PayrollStart DEF AutomationInit
<1>3. PayrollInv => ScheduleExact /\ NeverAhead
  BY DEF PayrollInv
<1>4. QED
  BY <1>1, <1>2, <1>3, SharedInit, SharedStep, PTL DEF AutomationSpec

(***************************************************************************)
(* What a keeper is told through the registry's checkUpkeep is right too:  *)
(* somebody who is owed whenever there is one.                             *)
(***************************************************************************)
THEOREM AutomatedViewAgrees == AutomationSpec => []CheckUpkeepAgrees
<1>1. SharedInv /\ PayrollInv /\ [AutomationNext]_automationVars => PayrollInv'
  BY PayrollStep DEF SharedInv
<1>2. AutomationInit => PayrollInv
  BY PayrollStart DEF AutomationInit
<1>3. SharedInv /\ PayrollInv => CheckUpkeepAgrees
  BY ScanFinds DEF SharedInv, PayrollInv
<1>4. QED
  BY <1>1, <1>2, <1>3, SharedInit, SharedStep, PTL DEF AutomationSpec

-----------------------------------------------------------------------------
(***************************************************************************)
(* The Withdraw button.  withdrawFunds is a condition of the state, under  *)
(* which the registry does not revert, and one value for every variable.   *)
(***************************************************************************)
NotRefused(caller, id, to) ==
  /\ caller = s_upkeep[id].admin
  /\ s_upkeep[id].maxValidBlocknumber <= blockNumber
  /\ ~R!TransferReverts(LINK, Registry, to, R!Refund(id))

Withdrawn(id, to) ==
  /\ s_upkeep' = [s_upkeep EXCEPT ![id].balance = 0]
  /\ s_ownerLinkBalance' = s_ownerLinkBalance + R!CancellationFee(id)
  /\ s_expectedLinkBalance' = s_expectedLinkBalance - R!Refund(id)
  /\ balances' = R!AfterTransfer(LINK, Registry, to, R!Refund(id))
  /\ UNCHANGED <<s_upkeepIDs, nonce, keeperBalance, R!adminVars, R!registrarVars, blockNumber>>

LEMMA WithdrawSplits ==
  ASSUME NEW caller, NEW id, NEW to
  PROVE  R!withdrawFunds(caller, id, to) <=> NotRefused(caller, id, to) /\ Withdrawn(id, to)
  BY DEF R!withdrawFunds, NotRefused, Withdrawn, R!Transfer

\* WithdrawableAgrees, with the condition in place of ENABLED
WithdrawNotRefused ==
  linkBalance # 0 =>
    LET admin == s_upkeep[upkeepId].admin
    IN  checkIfLinkIsWithdrawable <=> NotRefused(admin, upkeepId, admin)

LEMMA WithdrawCovered ==
  ASSUME SharedInv, linkBalance # 0
  PROVE  ~R!TransferReverts(LINK, Registry, s_upkeep[upkeepId].admin, R!Refund(upkeepId))
<1>1. upkeepId # 0
  BY DEF linkBalance
<1>2. upkeepId \in RP!Ids /\ s_upkeep[upkeepId].admin \in Users
  BY <1>1 DEF SharedInv, IdInv, OwnUpkeep
<1>3. R!Refund(upkeepId) <= balances[LINK][Registry]
  BY <1>2, SameAssumption, RP!RefundHeld
     DEF SharedInv, R!Refund, RP!Refund, R!CancellationFee, RP!CancellationFee
<1>4. s_upkeep[upkeepId].admin # Zero /\ LINK # Zero
  BY <1>2, Apart, VaultAssumption, LedgerAssumption
<1>5. R!Refund(upkeepId) \in Int /\ balances[LINK][Registry] \in Int
  BY <1>2, Apart, SameAssumption, RP!FeeCovered
     DEF SharedInv, RP!BooksInv, TypeOK, Ledger, R!Refund, RP!Refund, R!CancellationFee, RP!CancellationFee
<1>6. QED
  BY <1>3, <1>4, <1>5 DEF R!TransferReverts, R!Covers

LEMMA WithdrawAllowed == SharedInv => WithdrawNotRefused
<1> SUFFICES ASSUME SharedInv, linkBalance # 0
             PROVE  LET admin == s_upkeep[upkeepId].admin
                    IN  checkIfLinkIsWithdrawable <=> NotRefused(admin, upkeepId, admin)
  BY DEF WithdrawNotRefused
<1>1. upkeepId # 0
  BY DEF linkBalance
<1>2. QED
  BY <1>1, WithdrawCovered DEF checkIfLinkIsWithdrawable, NotRefused

(***************************************************************************)
(* When Account.js shows the Withdraw button, the registry's withdrawFunds *)
(* does not revert: the cancellation is due, the caller is the admin, and  *)
(* the registry holds the refund, whatever recoverFunds, the owner's and   *)
(* the keepers' withdrawals have taken.                                    *)
(* While the page offers to cancel, it reverts.                            *)
(***************************************************************************)
THEOREM WithdrawButtonWorks == AutomationSpec => []WithdrawNotRefused
  BY WithdrawAllowed, SharedInit, SharedStep, PTL DEF AutomationSpec
================================================================================
