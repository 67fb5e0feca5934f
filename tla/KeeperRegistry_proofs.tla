------------------------- MODULE KeeperRegistry_proofs -------------------------
(***************************************************************************)
(* The life of an upkeep: issued once, active, cancelled for good; and the *)
(* registry's books, which balance.  For all finite sets of people,        *)
(* contracts and keepers, every delay and bound.                           *)
(***************************************************************************)
EXTENDS KeeperRegistry, FiniteSetTheorems, TLAPS

-----------------------------------------------------------------------------
(***************************************************************************)
(* The strengthening.  ActiveIDs is not inductive alone: an id is added    *)
(* when it is issued, and has to be one that no upkeep had before.         *)
(***************************************************************************)
UpkeepsTyped ==
  /\ s_upkeep \in [Ids -> Upkeep] /\ s_upkeepIDs \subseteq Ids
  /\ nonce \in 0 .. MaxNonce /\ blockNumber \in 1 .. MaxBlock
  /\ pending \in [Targets \X Users -> Nat]
  /\ activeKeepers \subseteq Keepers

IssuedInOrder == \A id \in Ids : id > nonce => s_upkeep[id] = NoUpkeepRecord

UpkeepsInv == UpkeepsTyped /\ IssuedInOrder /\ ActiveIDs

LEMMA UpkeepsInit == RegistryInit => UpkeepsInv
<1> SUFFICES ASSUME RegistryInit PROVE UpkeepsInv
  OBVIOUS
<1> USE RegistryAssumption DEF RegistryInit
<1>1. NoUpkeepRecord \in Upkeep
  BY DEF NoUpkeepRecord, Upkeep
<1>2. UpkeepsTyped
  BY <1>1 DEF UpkeepsTyped
<1>3. IssuedInOrder
  BY DEF IssuedInOrder
<1>4. ActiveIDs
  BY DEF ActiveIDs, NoUpkeepRecord, Ids
<1>5. QED
  BY <1>2, <1>3, <1>4 DEF UpkeepsInv

-----------------------------------------------------------------------------
(***************************************************************************)
(* What no step may do to an upkeep: bring a cancelled one back, or point  *)
(* one at another contract or give it another admin.                       *)
(***************************************************************************)
KeepsTarget(id) ==
  s_upkeep[id].target # Zero =>
    s_upkeep'[id].target = s_upkeep[id].target /\ s_upkeep'[id].admin = s_upkeep[id].admin

KeepsEnd(id) ==
  s_upkeep[id].maxValidBlocknumber \notin {0, UINT64_MAX} => StaysCanceled(id)

Preserved == UpkeepsInv' /\ \A id \in Ids : KeepsTarget(id) /\ KeepsEnd(id)

LEMMA ApproveStep ==
  ASSUME UpkeepsInv, NEW t \in Targets, NEW a \in Users, NEW n \in Nat, _approve(t, a, n)
  PROVE  /\ s_upkeep' \in [Ids -> Upkeep] /\ s_upkeepIDs' \subseteq Ids /\ nonce' \in 0 .. MaxNonce
         /\ IssuedInOrder' /\ ActiveIDs'
         /\ \A id \in Ids : id # UpkeepID(nonce) => s_upkeep'[id] = s_upkeep[id]
         /\ s_upkeep[UpkeepID(nonce)].maxValidBlocknumber = 0
<1> DEFINE new == UpkeepID(nonce)
           record == [balance |-> n, lastKeeper |-> Zero, maxValidBlocknumber |-> UINT64_MAX,
                      target |-> t, amountSpent |-> 0, admin |-> a]
<1> USE RegistryAssumption DEF UpkeepsInv, UpkeepsTyped, _approve
<1>1. new \in Ids /\ new > nonce /\ nonce' = new /\ nonce' \in 0 .. MaxNonce
  BY DEF UpkeepID, Ids
<1>2. record \in Upkeep
  BY DEF Upkeep
<1>3. s_upkeep' = [s_upkeep EXCEPT ![new] = record] /\ s_upkeepIDs' = s_upkeepIDs \cup {new}
  OBVIOUS
<1>4. s_upkeep[new] = NoUpkeepRecord
  BY <1>1 DEF IssuedInOrder
<1>5. record.maxValidBlocknumber = UINT64_MAX
  OBVIOUS
<1> HIDE DEF new, record
<1>6. s_upkeep' \in [Ids -> Upkeep] /\ s_upkeepIDs' \subseteq Ids
  BY <1>1, <1>2, <1>3
<1>7. \A id \in Ids : s_upkeep'[id] = IF id = new THEN record ELSE s_upkeep[id]
  BY <1>1, <1>3
<1>8. IssuedInOrder'
  <2> SUFFICES ASSUME NEW id \in Ids, id > nonce' PROVE s_upkeep'[id] = NoUpkeepRecord
    BY DEF IssuedInOrder
  <2>1. id # new /\ id > nonce
    BY <1>1 DEF Ids
  <2>2. QED
    BY <1>7, <2>1 DEF IssuedInOrder
<1>9. ActiveIDs'
  BY <1>1, <1>3, <1>5, <1>7 DEF ActiveIDs
<1>10. NoUpkeepRecord.maxValidBlocknumber = 0
  BY DEF NoUpkeepRecord
<1>11. QED
  BY <1>1, <1>4, <1>6, <1>7, <1>8, <1>9, <1>10 DEF new

(***************************************************************************)
(* A step that moves money of one upkeep: the rest of it and the others    *)
(* stay, so the invariant does.                                            *)
(***************************************************************************)
LEMMA MoneyStep ==
  ASSUME UpkeepsInv, s_upkeep' \in [Ids -> Upkeep], UNCHANGED <<s_upkeepIDs, nonce>>,
         NEW i \in Ids, s_upkeep[i] # NoUpkeepRecord,
         s_upkeep'[i].maxValidBlocknumber = s_upkeep[i].maxValidBlocknumber,
         \A id \in Ids \ {i} : s_upkeep'[id] = s_upkeep[id]
  PROVE  IssuedInOrder' /\ ActiveIDs'
<1>1. IssuedInOrder'
  BY DEF UpkeepsInv, IssuedInOrder
<1>2. ActiveIDs'
  BY DEF UpkeepsInv, ActiveIDs
<1>3. QED
  BY <1>1, <1>2

LEMMA IdleStep ==
  ASSUME UpkeepsInv, UNCHANGED upkeepVars, blockNumber' \in 1 .. MaxBlock,
         pending' \in [Targets \X Users -> Nat], activeKeepers' \subseteq Keepers
  PROVE  Preserved
<1>1. UpkeepsInv'
  BY DEF upkeepVars, UpkeepsInv, UpkeepsTyped, IssuedInOrder, ActiveIDs
<1>2. \A id \in Ids : KeepsTarget(id) /\ KeepsEnd(id)
  BY DEF upkeepVars, UpkeepsInv, UpkeepsTyped, Upkeep, KeepsTarget, KeepsEnd, StaysCanceled
<1>3. QED
  BY <1>1, <1>2 DEF Preserved

(***************************************************************************)
(* Registrations and approvals.                                            *)
(***************************************************************************)
LEMMA IssueStep ==
  ASSUME UpkeepsInv, NEW t \in Targets, NEW a \in Users, NEW n \in Nat, _approve(t, a, n),
         UNCHANGED <<blockNumber, activeKeepers>>, pending' \in [Targets \X Users -> Nat]
  PROVE  Preserved
<1>1. UpkeepsInv'
  BY ApproveStep DEF UpkeepsInv, UpkeepsTyped
<1>2. s_upkeep[UpkeepID(nonce)] = NoUpkeepRecord
  BY RegistryAssumption DEF _approve, UpkeepID, Ids, UpkeepsInv, UpkeepsTyped, IssuedInOrder
<1>3. ASSUME NEW id \in Ids PROVE KeepsTarget(id) /\ KeepsEnd(id)
  <2>1. CASE id = UpkeepID(nonce)
    BY <1>2, <2>1 DEF NoUpkeepRecord, KeepsTarget, KeepsEnd
  <2>2. CASE id # UpkeepID(nonce)
    <3>1. s_upkeep'[id] = s_upkeep[id]
      BY <2>2, ApproveStep
    <3>2. QED
      BY <3>1 DEF UpkeepsInv, UpkeepsTyped, Upkeep, KeepsTarget, KeepsEnd, StaysCanceled
  <2>3. QED
    BY <2>1, <2>2
<1>4. QED
  BY <1>1, <1>3 DEF Preserved

LEMMA RegisterStep ==
  ASSUME UpkeepsInv, NEW u, NEW t \in Targets, NEW a \in Users, NEW n \in Nat, register(u, t, a, n)
  PROVE  Preserved
<1>1. UNCHANGED <<blockNumber, activeKeepers>>
  BY DEF register, adminVars
<1>2. CASE _shouldAutoApprove
  BY <1>1, <1>2, IssueStep DEF register, UpkeepsInv, UpkeepsTyped
<1>3. CASE ~_shouldAutoApprove
  <2>1. pending' = [pending EXCEPT ![<<t, a>>] = @ + n] /\ UNCHANGED upkeepVars
    BY <1>3 DEF register
  <2>2. pending' \in [Targets \X Users -> Nat]
    BY <2>1 DEF UpkeepsInv, UpkeepsTyped
  <2>3. QED
    BY <1>1, <2>1, <2>2, IdleStep DEF UpkeepsInv, UpkeepsTyped
<1>4. QED
  BY <1>2, <1>3

LEMMA RequestStep ==
  ASSUME UpkeepsInv, NEW u, NEW t \in Targets, NEW a \in Users, approve(u, t, a) \/ cancel(u, t, a)
  PROVE  Preserved
<1>1. pending' = [pending EXCEPT ![<<t, a>>] = 0]
  BY DEF approve, cancel
<1>2. pending' \in [Targets \X Users -> Nat] /\ pending[<<t, a>>] \in Nat
  BY <1>1 DEF UpkeepsInv, UpkeepsTyped
<1>3. CASE approve(u, t, a)
  BY <1>2, <1>3, IssueStep DEF approve, adminVars
<1>4. CASE cancel(u, t, a)
  BY <1>2, <1>4, IdleStep DEF cancel, adminVars, UpkeepsInv, UpkeepsTyped
<1>5. QED
  BY <1>3, <1>4

(***************************************************************************)
(* Funding, performing, withdrawing: money of one upkeep.                  *)
(***************************************************************************)
LEMMA FundsStep ==
  ASSUME UpkeepsInv, NEW u, NEW i \in Ids, NEW n \in Nat, addFunds(u, i, n)
  PROVE  Preserved
<1> USE RegistryAssumption
<1>1. s_upkeep' = [s_upkeep EXCEPT ![i].balance = @ + n] /\ Active(i)
  BY DEF addFunds
<1>2. s_upkeep' \in [Ids -> Upkeep]
  BY <1>1 DEF UpkeepsInv, UpkeepsTyped, Upkeep
<1>3. /\ \A id \in Ids \ {i} : s_upkeep'[id] = s_upkeep[id]
      /\ s_upkeep'[i].maxValidBlocknumber = s_upkeep[i].maxValidBlocknumber
      /\ s_upkeep'[i].target = s_upkeep[i].target /\ s_upkeep'[i].admin = s_upkeep[i].admin
      /\ s_upkeep[i].maxValidBlocknumber = UINT64_MAX /\ s_upkeep[i] # NoUpkeepRecord
  BY <1>1 DEF Active, NoUpkeepRecord, UpkeepsInv, UpkeepsTyped, Upkeep
<1>4. UNCHANGED <<s_upkeepIDs, nonce, blockNumber, activeKeepers, pending>>
  BY DEF addFunds, adminVars, registrarVars
<1>5. IssuedInOrder' /\ ActiveIDs'
  BY <1>2, <1>3, <1>4, MoneyStep
<1>6. \A id \in Ids : KeepsTarget(id) /\ KeepsEnd(id)
  BY <1>3 DEF UpkeepsInv, UpkeepsTyped, Upkeep, KeepsTarget, KeepsEnd, StaysCanceled
<1>7. QED
  BY <1>2, <1>4, <1>5, <1>6 DEF Preserved, UpkeepsInv, UpkeepsTyped

LEMMA PerformStep ==
  ASSUME UpkeepsInv, NEW k \in Keepers, NEW i \in Ids, NEW p \in Nat, performUpkeep(k, i, p)
  PROVE  Preserved
<1> USE RegistryAssumption
<1>1. /\ s_upkeep' = [s_upkeep EXCEPT ![i].balance = @ - p, ![i].amountSpent = @ + p, ![i].lastKeeper = k]
      /\ s_upkeep[i].maxValidBlocknumber > blockNumber
      /\ p <= s_upkeep[i].balance /\ s_upkeep[i].amountSpent + p <= MaxSpent
  BY DEF performUpkeep, Performable, Valid
<1>2. s_upkeep[i] \in Upkeep
  BY DEF UpkeepsInv, UpkeepsTyped
<1>3. s_upkeep[i].balance - p \in Nat /\ s_upkeep[i].amountSpent + p \in 0 .. MaxSpent
  BY <1>1, <1>2 DEF Upkeep
<1>4. /\ \A id \in Ids \ {i} : s_upkeep'[id] = s_upkeep[id]
      /\ s_upkeep'[i] = [s_upkeep[i] EXCEPT !.balance = @ - p, !.amountSpent = @ + p, !.lastKeeper = k]
  BY <1>1 DEF UpkeepsInv, UpkeepsTyped
<1>5. s_upkeep'[i] \in Upkeep
  BY <1>2, <1>3, <1>4 DEF Upkeep
<1>6. s_upkeep' \in [Ids -> Upkeep]
  BY <1>1, <1>4, <1>5 DEF UpkeepsInv, UpkeepsTyped
<1>7. /\ s_upkeep'[i].maxValidBlocknumber = s_upkeep[i].maxValidBlocknumber
      /\ s_upkeep'[i].target = s_upkeep[i].target
      /\ s_upkeep'[i].balance = s_upkeep[i].balance - p
      /\ s_upkeep[i] # NoUpkeepRecord
  BY <1>1, <1>2, <1>4 DEF NoUpkeepRecord, Upkeep, UpkeepsInv, UpkeepsTyped
<1>8. UNCHANGED <<s_upkeepIDs, nonce, blockNumber, activeKeepers, pending>>
  BY DEF performUpkeep, adminVars, registrarVars
<1>9. IssuedInOrder' /\ ActiveIDs'
  BY <1>4, <1>6, <1>7, <1>8, MoneyStep
<1>10. \A id \in Ids : KeepsTarget(id) /\ KeepsEnd(id)
  BY <1>1, <1>2, <1>4, <1>7 DEF UpkeepsInv, UpkeepsTyped, Upkeep, KeepsTarget, KeepsEnd, StaysCanceled
<1>11. QED
  BY <1>6, <1>8, <1>9, <1>10 DEF Preserved, UpkeepsInv, UpkeepsTyped

LEMMA WithdrawStep ==
  ASSUME UpkeepsInv, NEW u \in Users, NEW i \in Ids, NEW to, withdrawFunds(u, i, to)
  PROVE  Preserved
<1> USE RegistryAssumption
<1>1. s_upkeep' = [s_upkeep EXCEPT ![i].balance = 0] /\ u = s_upkeep[i].admin
  BY DEF withdrawFunds
<1>2. s_upkeep' \in [Ids -> Upkeep]
  BY <1>1 DEF UpkeepsInv, UpkeepsTyped, Upkeep
<1>3. /\ \A id \in Ids \ {i} : s_upkeep'[id] = s_upkeep[id]
      /\ s_upkeep'[i] = [s_upkeep[i] EXCEPT !.balance = 0]
      /\ s_upkeep[i] \in Upkeep
  BY <1>1 DEF UpkeepsInv, UpkeepsTyped
<1>4. /\ s_upkeep'[i].maxValidBlocknumber = s_upkeep[i].maxValidBlocknumber
      /\ s_upkeep'[i].target = s_upkeep[i].target
      /\ s_upkeep'[i].amountSpent = s_upkeep[i].amountSpent
      /\ s_upkeep'[i].balance = 0
  BY <1>3 DEF Upkeep
<1>5. UNCHANGED <<s_upkeepIDs, nonce, blockNumber, activeKeepers, pending>>
  BY DEF withdrawFunds, adminVars, registrarVars
<1>6. s_upkeep[i] # NoUpkeepRecord
  BY <1>1, LedgerAssumption DEF NoUpkeepRecord
<1>7. IssuedInOrder' /\ ActiveIDs'
  BY <1>2, <1>3, <1>4, <1>5, <1>6, MoneyStep
<1>8. \A id \in Ids : KeepsTarget(id) /\ KeepsEnd(id)
  BY <1>3, <1>4 DEF UpkeepsInv, UpkeepsTyped, Upkeep, KeepsTarget, KeepsEnd, StaysCanceled
<1>9. QED
  BY <1>2, <1>5, <1>7, <1>8 DEF Preserved, UpkeepsInv, UpkeepsTyped

(***************************************************************************)
(* Cancelling: the block it names is before UINT64_MAX, which marks an     *)
(* active upkeep, and never behind one named before.                       *)
(***************************************************************************)
LEMMA CancelStep ==
  ASSUME UpkeepsInv, NEW u \in Users, NEW i \in Ids, cancelUpkeep(u, i)
  PROVE  Preserved
<1> USE RegistryAssumption
<1> DEFINE end == IF u = registryOwner THEN blockNumber ELSE blockNumber + CANCELATION_DELAY
<1>1. /\ s_upkeep' = [s_upkeep EXCEPT ![i].maxValidBlocknumber = end]
      /\ s_upkeepIDs' = s_upkeepIDs \ {i}
  BY DEF cancelUpkeep, Cancel
<1>2. end \in Nat /\ end # UINT64_MAX
  BY DEF UpkeepsInv, UpkeepsTyped
<1>3. s_upkeep[i].maxValidBlocknumber # UINT64_MAX => end <= s_upkeep[i].maxValidBlocknumber
  BY DEF cancelUpkeep, Cancel, Active, UpkeepsInv, UpkeepsTyped, Upkeep
<1>4. s_upkeep[i].maxValidBlocknumber # 0
  BY DEF cancelUpkeep, Cancel, Active, UpkeepsInv, UpkeepsTyped
<1>5. UNCHANGED <<nonce, blockNumber, activeKeepers, pending>>
  BY DEF cancelUpkeep, Cancel, adminVars, registrarVars
<1> HIDE DEF end
<1>6. s_upkeep' \in [Ids -> Upkeep]
  BY <1>1, <1>2 DEF UpkeepsInv, UpkeepsTyped, Upkeep
<1>7. /\ \A id \in Ids \ {i} : s_upkeep'[id] = s_upkeep[id]
      /\ s_upkeep'[i] = [s_upkeep[i] EXCEPT !.maxValidBlocknumber = end]
      /\ s_upkeep[i] \in Upkeep
  BY <1>1 DEF UpkeepsInv, UpkeepsTyped
<1>8. /\ s_upkeep'[i].maxValidBlocknumber = end
      /\ s_upkeep'[i].target = s_upkeep[i].target
      /\ s_upkeep'[i].amountSpent = s_upkeep[i].amountSpent
      /\ s_upkeep'[i].balance = s_upkeep[i].balance
  BY <1>7 DEF Upkeep
<1>9. IssuedInOrder'
  BY <1>4, <1>5, <1>7 DEF UpkeepsInv, IssuedInOrder, NoUpkeepRecord
<1>10. ActiveIDs'
  BY <1>1, <1>2, <1>7, <1>8 DEF UpkeepsInv, ActiveIDs
<1>11. \A id \in Ids : KeepsTarget(id) /\ KeepsEnd(id)
  BY <1>3, <1>7, <1>8 DEF UpkeepsInv, UpkeepsTyped, Upkeep, KeepsTarget, KeepsEnd, StaysCanceled
<1>12. QED
  BY <1>1, <1>5, <1>6, <1>9, <1>10, <1>11 DEF Preserved, UpkeepsInv, UpkeepsTyped

-----------------------------------------------------------------------------
LEMMA UserStepPreserves ==
  ASSUME UpkeepsInv, NEW u \in Users, UserStep(u)
  PROVE  Preserved
<1>1. LinkAmounts \subseteq Nat
  BY RegistryAssumption
<1>2. CASE \E t \in Targets, a \in Users, n \in LinkAmounts : register(u, t, a, n)
  BY <1>1, <1>2, RegisterStep
<1>3. CASE \E t \in Targets, a \in Users : approve(u, t, a) \/ cancel(u, t, a)
  BY <1>3, RequestStep
<1>4. CASE \E id \in Ids, n \in LinkAmounts : addFunds(u, id, n)
  BY <1>1, <1>4, FundsStep
<1>5. CASE \E id \in Ids : cancelUpkeep(u, id)
  BY <1>5, CancelStep
<1>6. CASE \E id \in Ids, to \in Users : withdrawFunds(u, id, to)
  BY <1>6, WithdrawStep
<1>7. CASE \E n \in LinkAmounts : strayTransfer(u, n)
  BY <1>7, IdleStep DEF strayTransfer, adminVars, registrarVars, UpkeepsInv, UpkeepsTyped
<1>8. QED
  BY <1>2, <1>3, <1>4, <1>5, <1>6, <1>7 DEF UserStep

LEMMA OwnerStepPreserves ==
  ASSUME UpkeepsInv, NEW u, OwnerStep(u)
  PROVE  Preserved
<1>1. UNCHANGED <<upkeepVars, blockNumber, pending>>
  BY DEF OwnerStep, withdrawOwnerFunds, recoverFunds, pause, unpause, setRegistrationConfig,
         setKeepers, registrarVars
<1>2. activeKeepers' \subseteq Keepers
  <2>1. CASE \E ks \in SUBSET Keepers : setKeepers(u, ks)
    BY <2>1 DEF setKeepers
  <2>2. CASE ~\E ks \in SUBSET Keepers : setKeepers(u, ks)
    BY <2>2 DEF OwnerStep, withdrawOwnerFunds, recoverFunds, pause, unpause,
       setRegistrationConfig, adminVars, UpkeepsInv, UpkeepsTyped
  <2>3. QED
    BY <2>1, <2>2
<1>3. QED
  BY <1>1, <1>2, IdleStep DEF UpkeepsInv, UpkeepsTyped

LEMMA KeeperStepPreserves ==
  ASSUME UpkeepsInv, NEW k \in Keepers, KeeperStep(k)
  PROVE  Preserved
<1>1. CASE \E id \in Ids, p \in Payments : performUpkeep(k, id, p) /\ UNCHANGED balances
  BY <1>1, PerformStep, RegistryAssumption
<1>2. CASE \E to \in Users : withdrawPayment(k, to)
  BY <1>2, IdleStep DEF withdrawPayment, adminVars, registrarVars, UpkeepsInv, UpkeepsTyped
<1>3. QED
  BY <1>1, <1>2 DEF KeeperStep

LEMMA BlockStepPreserves ==
  ASSUME UpkeepsInv, NextBlock
  PROVE  Preserved
<1>1. UNCHANGED upkeepVars /\ UNCHANGED <<activeKeepers, pending>> /\ blockNumber' \in 1 .. MaxBlock
  BY RegistryAssumption DEF NextBlock, adminVars, registrarVars, UpkeepsInv, UpkeepsTyped
<1>2. QED
  BY <1>1, IdleStep DEF UpkeepsInv, UpkeepsTyped

LEMMA RegistryStep == UpkeepsInv /\ [RegistryNext]_registryVars => Preserved
<1> SUFFICES ASSUME UpkeepsInv, [RegistryNext]_registryVars PROVE Preserved
  OBVIOUS
<1>1. CASE UNCHANGED registryVars
  BY <1>1, IdleStep DEF registryVars, adminVars, registrarVars, UpkeepsInv, UpkeepsTyped
<1>2. CASE RegistryNext
  BY <1>2, UserStepPreserves, OwnerStepPreserves, KeeperStepPreserves, BlockStepPreserves
     DEF RegistryNext
<1>3. QED
  BY <1>1, <1>2

(***************************************************************************)
(* s_upkeepIDs, which keepers read their work from, lists exactly the      *)
(* active upkeeps, through any registrations and cancellations.            *)
(***************************************************************************)
THEOREM ListIsExact == RegistrySpec => []ActiveIDs
<1>1. UpkeepsInv /\ [RegistryNext]_registryVars => UpkeepsInv'
  BY RegistryStep DEF Preserved
<1>2. UpkeepsInv => ActiveIDs
  BY DEF UpkeepsInv
<1>3. QED
  BY <1>1, <1>2, UpkeepsInit, PTL DEF RegistrySpec

(***************************************************************************)
(* A cancelled upkeep stays cancelled: nobody funds it, revives it or puts *)
(* its last block off, and nobody performs it after that block.            *)
(***************************************************************************)
THEOREM CancellationIsFinal == RegistrySpec => CancelIsFinal
<1>1. UpkeepsInv /\ [RegistryNext]_registryVars => UpkeepsInv'
  BY RegistryStep DEF Preserved
<1>2. UpkeepsInv /\ [RegistryNext]_registryVars =>
        [\A id \in Ids : s_upkeep[id].maxValidBlocknumber \notin {0, UINT64_MAX}
            => StaysCanceled(id)]_registryVars
  BY RegistryStep DEF Preserved, KeepsEnd
<1>3. QED
  BY <1>1, <1>2, UpkeepsInit, PTL DEF RegistrySpec, CancelIsFinal

-----------------------------------------------------------------------------
(***************************************************************************)
(* The units f counts over s: f[x] of them for each x.  Their number is    *)
(* the sum, and cardinalities can be reasoned about where a fold cannot.   *)
(***************************************************************************)
Units(f, s) == UNION {{x} \X (1 .. f[x]) : x \in s}

LEMMA UnitsOfOne ==
  ASSUME NEW x, NEW n \in Nat
  PROVE  IsFiniteSet({x} \X (1 .. n)) /\ Cardinality({x} \X (1 .. n)) = n
<1> DEFINE one == {x}
           upTo == 1 .. n
<1>1. IsFiniteSet(one) /\ Cardinality(one) = 1
  BY FS_Singleton
<1>2. IsFiniteSet(upTo) /\ Cardinality(upTo) = n
  BY FS_Interval
<1> HIDE DEF one, upTo
<1>3. IsFiniteSet(one \X upTo) /\ Cardinality(one \X upTo) = 1 * n
  BY <1>1, <1>2, FS_Product
<1>4. QED
  BY <1>3 DEF one, upTo

LEMMA UnitsFinite ==
  ASSUME NEW s, IsFiniteSet(s), NEW f \in [s -> Nat]
  PROVE  IsFiniteSet(Units(f, s))
<1> DEFINE parts == {{x} \X (1 .. f[x]) : x \in s}
           part == [x \in s |-> {x} \X (1 .. f[x])]
<1>1. part \in Surjection(s, parts)
  BY DEF Surjection
<1>2. IsFiniteSet(parts)
  BY <1>1, FS_Surjection
<1>3. ASSUME NEW p \in parts PROVE IsFiniteSet(p)
  <2>1. PICK x \in s : p = {x} \X (1 .. f[x])
    OBVIOUS
  <2>2. f[x] \in Nat
    OBVIOUS
  <2>3. QED
    BY <2>1, <2>2, UnitsOfOne
<1>4. QED
  BY <1>2, <1>3, FS_UNION DEF Units

LEMMA UnitsSplit ==
  ASSUME NEW s, IsFiniteSet(s), NEW f, \A y \in s : f[y] \in Nat, NEW x \in s
  PROVE  /\ Cardinality(Units(f, s)) \in Nat
         /\ Cardinality(Units(f, s \ {x})) \in Nat
         /\ Cardinality(Units(f, s)) = f[x] + Cardinality(Units(f, s \ {x}))
<1> DEFINE rest == Units(f, s \ {x})
           own == {x} \X (1 .. f[x])
           g == [y \in s |-> f[y]]
           h == [y \in s \ {x} |-> f[y]]
<1>1. IsFiniteSet(own) /\ Cardinality(own) = f[x]
  BY UnitsOfOne
<1>2. IsFiniteSet(rest)
  <2>1. IsFiniteSet(s \ {x}) /\ h \in [s \ {x} -> Nat]
    BY FS_RemoveElement
  <2>2. IsFiniteSet(Units(h, s \ {x}))
    BY <2>1, UnitsFinite
  <2>3. QED
    BY <2>2 DEF Units
<1>3. Units(f, s) = own \cup rest /\ own \cap rest = {}
  BY DEF Units
<1> HIDE DEF own, rest
<1>4. IsFiniteSet(Units(f, s))
      /\ Cardinality(Units(f, s)) = Cardinality(own) + Cardinality(rest) - Cardinality({})
  BY <1>1, <1>2, <1>3, FS_Union
<1>5. QED
  BY <1>1, <1>2, <1>4, FS_EmptySet, FS_CardinalityType DEF rest

(***************************************************************************)
(* The sum of a function is a fold, that is, the value at S of the         *)
(* function that this equation defines.                                    *)
(***************************************************************************)
SumStep(S, f, H) ==
  H = [s \in SUBSET S |-> IF s = {} THEN 0
                          ELSE LET x == CHOOSE x \in s : TRUE IN f[x] + H[s \ {x}]]

LEMMA SumUnfolds ==
  ASSUME NEW f, NEW S, \E G : SumStep(S, f, G)
  PROVE  \E H : SumStep(S, f, H) /\ SumFunctionOnSet(f, S) = H[S]
BY DEF SumStep, SumFunctionOnSet, FoldFunctionOnSet, MapThenFoldSet

(***************************************************************************)
(* Some function satisfies the equation, the one that counts units, and no *)
(* two differ anywhere: a smallest set where they differ has an element,   *)
(* and without it they agree.                                              *)
(***************************************************************************)
LEMMA SumIsCount ==
  ASSUME NEW S, IsFiniteSet(S), NEW f, \A y \in S : f[y] \in Nat
  PROVE  SumFunctionOnSet(f, S) = Cardinality(Units(f, S))
<1> DEFINE G == [s \in SUBSET S |-> Cardinality(Units(f, s))]
<1>1. G[{}] = 0
  BY FS_EmptySet DEF Units
<1>2. ASSUME NEW s \in SUBSET S, NEW x \in s
      PROVE  G[s] = f[x] + G[s \ {x}]
  BY FS_Subset, UnitsSplit
<1> HIDE DEF G
<1>3. SumStep(S, f, G)
  <2>1. ASSUME NEW s \in SUBSET S
        PROVE  G[s] = IF s = {} THEN 0
                      ELSE LET x == CHOOSE x \in s : TRUE IN f[x] + G[s \ {x}]
    <3>1. CASE s = {}
      BY <1>1, <3>1
    <3>2. CASE s # {}
      BY <1>2, <3>2
    <3>3. QED
      BY <3>1, <3>2
  <2>2. G = [s \in SUBSET S |-> G[s]]
    BY DEF G
  <2>3. QED
    BY <2>1, <2>2 DEF SumStep
<1>4. PICK H : SumStep(S, f, H) /\ SumFunctionOnSet(f, S) = H[S]
  BY <1>3, SumUnfolds
<1>5. \A s \in SUBSET S : H[s] = IF s = {} THEN 0
                      ELSE LET x == CHOOSE x \in s : TRUE IN f[x] + H[s \ {x}]
  BY <1>4 DEF SumStep
<1>6. \A s \in SUBSET S : H[s] = G[s]
  <2> DEFINE bad == {s \in SUBSET S : H[s] # G[s]}
  <2> SUFFICES ASSUME bad # {} PROVE FALSE
    OBVIOUS
  <2>1. bad \subseteq FiniteSubsetsOf(S)
    BY FS_Subset DEF FiniteSubsetsOf
  <2>2. PICK s \in bad : \A t \in bad : ~(<<t, s>> \in StrictSubsetOrdering(S))
    BY <2>1, FS_StrictSubsetOrderingWellFounded, WFMin
  <2>3. s # {}
    BY <1>1, <1>5
  <2> DEFINE x == CHOOSE x \in s : TRUE
  <2>4. x \in s
    BY <2>3
  <2> HIDE DEF x
  <2>5. s \ {x} \in SUBSET S /\ H[s \ {x}] = G[s \ {x}]
    <3>1. s \ {x} \in SUBSET S /\ s \ {x} # s
      BY <2>4
    <3>2. <<s \ {x}, s>> \in StrictSubsetOrdering(S)
      BY <3>1 DEF StrictSubsetOrdering
    <3>3. QED
      BY <2>2, <3>1, <3>2
  <2>6. H[s] = f[x] + H[s \ {x}]
    BY <1>5, <2>3 DEF x
  <2>7. QED
    BY <1>2, <2>4, <2>5, <2>6
<1>7. QED
  BY <1>4, <1>6 DEF G

(***************************************************************************)
(* What the proofs use: a sum of zeros is 0, and changing one summand      *)
(* changes the sum by the difference.                                      *)
(***************************************************************************)
LEMMA SumOfZeros ==
  ASSUME NEW S, IsFiniteSet(S)
  PROVE  SumFunction([x \in S |-> 0]) = 0
<1> DEFINE f == [x \in S |-> 0]
<1>1. SumFunction(f) = Cardinality(Units(f, S))
  BY SumIsCount DEF SumFunction
<1>2. Units(f, S) = {}
  BY DEF Units
<1>3. QED
  BY <1>1, <1>2, FS_EmptySet

LEMMA SumTyped ==
  ASSUME NEW S, IsFiniteSet(S), NEW f \in [S -> Nat]
  PROVE  SumFunction(f) \in Nat
<1>1. SumFunction(f) = Cardinality(Units(f, S))
  BY SumIsCount DEF SumFunction
<1>2. QED
  BY <1>1, UnitsFinite, FS_CardinalityType

LEMMA SumChanges ==
  ASSUME NEW S, IsFiniteSet(S), NEW f \in [S -> Nat], NEW g \in [S -> Nat], NEW x \in S,
         \A y \in S \ {x} : g[y] = f[y]
  PROVE  /\ SumFunction(f) \in Nat /\ f[x] <= SumFunction(f)
         /\ SumFunction(g) = SumFunction(f) - f[x] + g[x]
<1>1. /\ SumFunction(f) = Cardinality(Units(f, S))
      /\ SumFunction(g) = Cardinality(Units(g, S))
  BY SumIsCount DEF SumFunction
<1>2. Units(g, S \ {x}) = Units(f, S \ {x})
  BY DEF Units
<1>3. QED
  BY <1>1, <1>2, UnitsSplit

-----------------------------------------------------------------------------
(***************************************************************************)
(* The books.  Each operation changes one summand of what is owed and      *)
(* s_expectedLinkBalance by the same amount, and moves that much LINK.     *)
(* Accounting needs IssuedInOrder: an upkeep that is issued starts from a  *)
(* record without LINK.                                                    *)
(***************************************************************************)
BooksInv == UpkeepsInv /\ RegistryTypeOK /\ Accounting /\ Solvent

LEMMA LinkMoves ==
  ASSUME balances \in Ledger, NEW from \in Accounts, NEW to \in Accounts, from # to,
         NEW n \in Nat, Transfer(LINK, from, to, n)
  PROVE  /\ balances' \in Ledger
         /\ \A a \in Accounts :
              balances'[LINK][a] = IF a = from THEN balances[LINK][a] - n
                                   ELSE IF a = to THEN balances[LINK][a] + n
                                   ELSE balances[LINK][a]
<1>1. LINK \in Tokens /\ LINK \notin FalseTokens
  BY RegistryAssumption
<1>2. Covers(LINK, from, n) /\ balances' = AfterTransfer(LINK, from, to, n)
  BY <1>1 DEF Transfer, TransferReverts
<1> DEFINE debited == [balances EXCEPT ![LINK][from] = @ - n]
<1>3. debited \in Ledger /\ debited[LINK] = [balances[LINK] EXCEPT ![from] = @ - n]
  BY <1>1, <1>2 DEF Covers, Ledger
<1>4. balances' = [debited EXCEPT ![LINK][to] = @ + n]
  BY <1>2 DEF AfterTransfer
<1> HIDE DEF debited
<1>5. balances' \in Ledger
  BY <1>1, <1>3, <1>4 DEF Ledger
<1>6. QED
  BY <1>1, <1>3, <1>4 DEF Ledger

(***************************************************************************)
(* One upkeep's LINK changes, one keeper's balance, one pending request.   *)
(***************************************************************************)
LEMMA UpkeepLinkChanges ==
  ASSUME s_upkeep \in [Ids -> Upkeep], s_upkeep' \in [Ids -> Upkeep], NEW i \in Ids,
         \A id \in Ids \ {i} : s_upkeep'[id].balance = s_upkeep[id].balance
  PROVE  /\ upkeepLink \in Nat /\ s_upkeep[i].balance <= upkeepLink
         /\ upkeepLink' = upkeepLink - s_upkeep[i].balance + s_upkeep'[i].balance
<1> DEFINE f == [id \in Ids |-> s_upkeep[id].balance]
           g == [id \in Ids |-> s_upkeep'[id].balance]
<1>1. f \in [Ids -> Nat] /\ g \in [Ids -> Nat] /\ \A id \in Ids \ {i} : g[id] = f[id]
  BY DEF Upkeep
<1>2. IsFiniteSet(Ids)
  BY RegistryAssumption, FS_Interval DEF Ids
<1>3. f[i] = s_upkeep[i].balance /\ g[i] = s_upkeep'[i].balance
  OBVIOUS
<1>4. upkeepLink = SumFunction(f) /\ upkeepLink' = SumFunction(g)
  BY DEF upkeepLink
<1> HIDE DEF f, g
<1>5. /\ SumFunction(f) \in Nat /\ f[i] <= SumFunction(f)
      /\ SumFunction(g) = SumFunction(f) - f[i] + g[i]
  BY ONLY <1>1, <1>2, SumChanges, i \in Ids
<1>6. QED
  BY <1>3, <1>4, <1>5

LEMMA KeeperLinkChanges ==
  ASSUME keeperBalance \in [Keepers -> Nat], NEW k \in Keepers, NEW n \in Nat,
         keeperBalance' = [keeperBalance EXCEPT ![k] = n]
  PROVE  /\ keeperBalance' \in [Keepers -> Nat]
         /\ keeperLink \in Nat /\ keeperBalance[k] <= keeperLink
         /\ keeperLink' = keeperLink - keeperBalance[k] + n
<1> DEFINE f == keeperBalance
           g == keeperBalance'
<1>1. IsFiniteSet(Keepers)
  BY RegistryAssumption
<1>2. /\ f \in [Keepers -> Nat] /\ g \in [Keepers -> Nat] /\ g[k] = n
      /\ \A j \in Keepers \ {k} : g[j] = f[j]
  OBVIOUS
<1>3. keeperLink = SumFunction(f) /\ keeperLink' = SumFunction(g)
  BY DEF keeperLink
<1> HIDE DEF f, g
<1>4. /\ SumFunction(f) \in Nat /\ f[k] <= SumFunction(f)
      /\ SumFunction(g) = SumFunction(f) - f[k] + g[k]
  BY ONLY <1>1, <1>2, SumChanges, k \in Keepers
<1>5. QED
  BY <1>2, <1>3, <1>4 DEF f, g

LEMMA PendingLinkChanges ==
  ASSUME pending \in [Targets \X Users -> Nat], NEW r \in Targets \X Users, NEW n \in Nat,
         pending' = [pending EXCEPT ![r] = n]
  PROVE  /\ pendingLink \in Nat /\ pending[r] <= pendingLink
         /\ pendingLink' = pendingLink - pending[r] + n
<1> DEFINE requests == Targets \X Users
           f == pending
           g == pending'
<1>1. IsFiniteSet(requests)
  BY RegistryAssumption, FS_Product
<1>2. /\ f \in [requests -> Nat] /\ g \in [requests -> Nat] /\ r \in requests /\ g[r] = n
      /\ \A q \in requests \ {r} : g[q] = f[q]
  OBVIOUS
<1>3. pendingLink = SumFunction(f) /\ pendingLink' = SumFunction(g)
  BY DEF pendingLink
<1> HIDE DEF requests, f, g
<1>4. /\ SumFunction(f) \in Nat /\ f[r] <= SumFunction(f)
      /\ SumFunction(g) = SumFunction(f) - f[r] + g[r]
  BY ONLY <1>1, <1>2, SumChanges
<1>5. QED
  BY <1>2, <1>3, <1>4 DEF f

LEMMA LinkKept ==
  /\ UNCHANGED s_upkeep => upkeepLink' = upkeepLink
  /\ UNCHANGED keeperBalance => keeperLink' = keeperLink
  /\ UNCHANGED pending => pendingLink' = pendingLink
  BY DEF upkeepLink, keeperLink, pendingLink

LEMMA LinkTyped ==
  ASSUME RegistryTypeOK
  PROVE  upkeepLink \in Nat /\ keeperLink \in Nat /\ pendingLink \in Nat
<1> DEFINE f == [id \in Ids |-> s_upkeep[id].balance]
<1>1. f \in [Ids -> Nat] /\ IsFiniteSet(Ids)
  BY RegistryAssumption, FS_Interval DEF RegistryTypeOK, Upkeep, Ids
<1>2. keeperBalance \in [Keepers -> Nat] /\ IsFiniteSet(Keepers)
  BY RegistryAssumption DEF RegistryTypeOK
<1>3. pending \in [Targets \X Users -> Nat] /\ IsFiniteSet(Targets \X Users)
  BY RegistryAssumption, FS_Product DEF RegistryTypeOK
<1> HIDE DEF f
<1>4. SumFunction(f) \in Nat
  BY <1>1, SumTyped
<1>5. QED
  BY <1>2, <1>3, <1>4, SumTyped DEF upkeepLink, keeperLink, pendingLink, f

(***************************************************************************)
(* What a step has to keep, besides what Preserved says.                   *)
(***************************************************************************)
Flags == paused \in BOOLEAN /\ autoApprove \in BOOLEAN /\ approvedCount \in Nat

MoneyTyped ==
  /\ keeperBalance \in [Keepers -> Nat]
  /\ s_ownerLinkBalance \in Nat /\ s_expectedLinkBalance \in Nat
  /\ balances \in Ledger

Books == MoneyTyped /\ Accounting /\ Solvent

LEMMA BooksParts == BooksInv <=> UpkeepsInv /\ Flags /\ Books
  BY DEF BooksInv, UpkeepsInv, UpkeepsTyped, Flags, Books, MoneyTyped, RegistryTypeOK

Outsiders == Accounts \ {Registry, Registrar}

LEMMA Outside ==
  /\ Users \subseteq Outsiders /\ registryOwner \in Outsiders
  /\ Registry \in Accounts /\ Registrar \in Accounts /\ Registry # Registrar
  BY RegistryAssumption DEF Outsiders

(***************************************************************************)
(* A registration or an approval: n LINK arrives with a new upkeep.        *)
(***************************************************************************)
LEMMA ApproveBooks ==
  ASSUME BooksInv, UpkeepsInv', NEW t \in Targets, NEW a \in Users, NEW n \in Nat, _approve(t, a, n)
  PROVE  /\ upkeepLink' = upkeepLink + n
         /\ s_expectedLinkBalance' = s_expectedLinkBalance + n
<1> DEFINE new == UpkeepID(nonce)
<1>1. new \in Ids
  BY RegistryAssumption DEF _approve, UpkeepID, Ids, BooksInv, UpkeepsInv, UpkeepsTyped
<1>2. s_upkeep[new] = NoUpkeepRecord
  BY <1>1, RegistryAssumption
     DEF UpkeepID, Ids, BooksInv, UpkeepsInv, UpkeepsTyped, IssuedInOrder
<1>3. s_upkeep[new].balance = 0
  BY <1>2 DEF NoUpkeepRecord
<1>4. s_upkeep'[new].balance = n /\ \A id \in Ids \ {new} : s_upkeep'[id] = s_upkeep[id]
  BY <1>1 DEF _approve, BooksInv, UpkeepsInv, UpkeepsTyped
<1>5. s_upkeep \in [Ids -> Upkeep] /\ s_upkeep' \in [Ids -> Upkeep]
  BY DEF BooksInv, UpkeepsInv, UpkeepsTyped
<1> HIDE DEF new
<1>6. upkeepLink' = upkeepLink - 0 + n /\ upkeepLink \in Nat
  BY <1>1, <1>3, <1>4, <1>5, UpkeepLinkChanges
<1>7. QED
  BY <1>6 DEF _approve

(***************************************************************************)
(* LINK that arrives from an outsider, and LINK that is paid out.          *)
(***************************************************************************)
LEMMA LinkArrives ==
  ASSUME balances \in Ledger, NEW u \in Outsiders, NEW to \in {Registry, Registrar}, NEW n \in Nat,
         Transfer(LINK, u, to, n)
  PROVE  /\ balances' \in Ledger
         /\ balances'[LINK][to] = balances[LINK][to] + n
         /\ \A a \in {Registry, Registrar} \ {to} : balances'[LINK][a] = balances[LINK][a]
<1>1. u \in Accounts /\ to \in Accounts /\ u # to
  BY Outside DEF Outsiders
<1>2. QED
  BY <1>1, Outside, LinkMoves DEF Outsiders

LEMMA LinkLeaves ==
  ASSUME balances \in Ledger, NEW u \in Outsiders, NEW from \in {Registry, Registrar}, NEW n \in Nat,
         Transfer(LINK, from, u, n)
  PROVE  /\ balances' \in Ledger
         /\ balances'[LINK][from] = balances[LINK][from] - n
         /\ \A a \in {Registry, Registrar} \ {from} : balances'[LINK][a] = balances[LINK][a]
<1>1. u \in Accounts /\ from \in Accounts /\ u # from
  BY Outside DEF Outsiders
<1>2. QED
  BY <1>1, Outside, LinkMoves DEF Outsiders

LEMMA LinkHeld ==
  ASSUME balances \in Ledger
  PROVE  balances[LINK][Registry] \in Nat /\ balances[LINK][Registrar] \in Nat
  BY Outside, RegistryAssumption DEF Ledger

LEMMA RegisterBooks ==
  ASSUME BooksInv, UpkeepsInv', NEW u \in Outsiders, NEW t \in Targets, NEW a \in Users,
         NEW n \in Nat, register(u, t, a, n)
  PROVE  Books'
<1> USE DEF BooksInv, RegistryTypeOK
<1>1. upkeepLink \in Nat /\ keeperLink \in Nat /\ pendingLink \in Nat
  BY LinkTyped
<1>2. keeperLink' = keeperLink /\ UNCHANGED <<keeperBalance, s_ownerLinkBalance>>
  BY LinkKept DEF register
<1>3. balances[LINK][Registry] \in Nat /\ balances[LINK][Registrar] \in Nat
  BY LinkHeld
<1>4. CASE _shouldAutoApprove
  <2>1. _approve(t, a, n) /\ Transfer(LINK, u, Registry, n) /\ UNCHANGED pending
    BY <1>4 DEF register
  <2>2. upkeepLink' = upkeepLink + n /\ s_expectedLinkBalance' = s_expectedLinkBalance + n
    BY <2>1, ApproveBooks
  <2>3. /\ balances' \in Ledger
        /\ balances'[LINK][Registry] = balances[LINK][Registry] + n
        /\ balances'[LINK][Registrar] = balances[LINK][Registrar]
    BY <2>1, LinkArrives, Outside
  <2>4. pendingLink' = pendingLink
    BY <2>1, LinkKept
  <2>5. QED
    BY <1>1, <1>2, <1>3, <2>2, <2>3, <2>4 DEF Books, MoneyTyped, Accounting, Solvent
<1>5. CASE ~_shouldAutoApprove
  <2> DEFINE m == pending[<<t, a>>] + n
  <2>1. /\ pending' = [pending EXCEPT ![<<t, a>>] = m]
        /\ Transfer(LINK, u, Registrar, n)
        /\ UNCHANGED <<upkeepVars, s_expectedLinkBalance>>
    BY <1>5 DEF register
  <2>2. <<t, a>> \in Targets \X Users /\ pending[<<t, a>>] \in Nat /\ m \in Nat
    OBVIOUS
  <2> HIDE DEF m
  <2>3. pendingLink' = pendingLink + n
    <3>1. pendingLink' = pendingLink - pending[<<t, a>>] + m
      BY <2>1, <2>2, PendingLinkChanges
    <3>2. QED
      BY <1>1, <2>2, <3>1 DEF m
  <2>4. /\ balances' \in Ledger
        /\ balances'[LINK][Registrar] = balances[LINK][Registrar] + n
        /\ balances'[LINK][Registry] = balances[LINK][Registry]
    BY <2>1, LinkArrives, Outside
  <2>5. upkeepLink' = upkeepLink
    BY <2>1, LinkKept DEF upkeepVars
  <2>6. QED
    BY <1>1, <1>2, <1>3, <2>1, <2>3, <2>4, <2>5 DEF Books, MoneyTyped, Accounting, Solvent
<1>6. QED
  BY <1>4, <1>5

LEMMA ApprovalBooks ==
  ASSUME BooksInv, UpkeepsInv', NEW u, NEW t \in Targets, NEW a \in Users, approve(u, t, a)
  PROVE  Books'
<1> USE DEF BooksInv, RegistryTypeOK
<1> DEFINE n == pending[<<t, a>>]
<1>1. upkeepLink \in Nat /\ keeperLink \in Nat /\ pendingLink \in Nat
  BY LinkTyped
<1>2. keeperLink' = keeperLink /\ UNCHANGED <<keeperBalance, s_ownerLinkBalance>>
  BY LinkKept DEF approve
<1>3. n \in Nat /\ balances[LINK][Registry] \in Nat /\ balances[LINK][Registrar] \in Nat
  BY LinkHeld
<1>4. /\ pending' = [pending EXCEPT ![<<t, a>>] = 0]
      /\ _approve(t, a, n) /\ Transfer(LINK, Registrar, Registry, n)
  BY DEF approve
<1>5. pendingLink' = pendingLink - n + 0 /\ n <= pendingLink
  BY <1>4, PendingLinkChanges
<1>6. upkeepLink' = upkeepLink + n /\ s_expectedLinkBalance' = s_expectedLinkBalance + n
  BY <1>3, <1>4, ApproveBooks
<1>7. /\ balances' \in Ledger
      /\ balances'[LINK][Registry] = balances[LINK][Registry] + n
      /\ balances'[LINK][Registrar] = balances[LINK][Registrar] - n
  BY <1>3, <1>4, LinkMoves, Outside
<1> HIDE DEF n
<1>8. QED
  BY <1>1, <1>2, <1>3, <1>5, <1>6, <1>7 DEF Books, MoneyTyped, Accounting, Solvent

LEMMA RefusalBooks ==
  ASSUME BooksInv, NEW u \in Outsiders, NEW t \in Targets, NEW a \in Users, cancel(u, t, a)
  PROVE  Books'
<1> USE DEF BooksInv, RegistryTypeOK
<1> DEFINE n == pending[<<t, a>>]
<1>1. upkeepLink \in Nat /\ keeperLink \in Nat /\ pendingLink \in Nat
  BY LinkTyped
<1>2. /\ keeperLink' = keeperLink /\ upkeepLink' = upkeepLink
      /\ UNCHANGED <<keeperBalance, s_ownerLinkBalance, s_expectedLinkBalance>>
  BY LinkKept DEF cancel, upkeepVars
<1>3. n \in Nat /\ balances[LINK][Registry] \in Nat /\ balances[LINK][Registrar] \in Nat
  BY LinkHeld
<1>4. pending' = [pending EXCEPT ![<<t, a>>] = 0] /\ Transfer(LINK, Registrar, u, n)
  BY DEF cancel
<1>5. pendingLink' = pendingLink - n + 0 /\ n <= pendingLink
  BY <1>4, PendingLinkChanges
<1>6. /\ balances' \in Ledger
      /\ balances'[LINK][Registrar] = balances[LINK][Registrar] - n
      /\ balances'[LINK][Registry] = balances[LINK][Registry]
  BY <1>3, <1>4, LinkLeaves, Outside
<1> HIDE DEF n
<1>7. QED
  BY <1>1, <1>2, <1>3, <1>5, <1>6 DEF Books, MoneyTyped, Accounting, Solvent

(***************************************************************************)
(* Upkeeps: funded, performed, cancelled and emptied.                      *)
(***************************************************************************)
LEMMA FundsBooks ==
  ASSUME BooksInv, UpkeepsInv', NEW u \in Outsiders, NEW i \in Ids, NEW n \in Nat, addFunds(u, i, n)
  PROVE  Books'
<1> USE DEF BooksInv, RegistryTypeOK
<1>1. upkeepLink \in Nat /\ keeperLink \in Nat /\ pendingLink \in Nat
  BY LinkTyped
<1>2. /\ keeperLink' = keeperLink /\ pendingLink' = pendingLink
      /\ UNCHANGED <<keeperBalance, s_ownerLinkBalance>>
  BY LinkKept DEF addFunds, registrarVars
<1>3. balances[LINK][Registry] \in Nat /\ balances[LINK][Registrar] \in Nat
  BY LinkHeld
<1>4. /\ s_expectedLinkBalance' = s_expectedLinkBalance + n
      /\ Transfer(LINK, u, Registry, n)
      /\ s_upkeep' = [s_upkeep EXCEPT ![i].balance = @ + n]
  BY DEF addFunds
<1>5. /\ s_upkeep[i] \in Upkeep /\ s_upkeep'[i].balance = s_upkeep[i].balance + n
      /\ \A id \in Ids \ {i} : s_upkeep'[id].balance = s_upkeep[id].balance
  BY <1>4 DEF Upkeep
<1>6. upkeepLink' = upkeepLink - s_upkeep[i].balance + s_upkeep'[i].balance
  BY <1>5, UpkeepLinkChanges DEF UpkeepsInv, UpkeepsTyped
<1>7. upkeepLink' = upkeepLink + n
  BY <1>1, <1>5, <1>6 DEF Upkeep
<1>8. /\ balances' \in Ledger
      /\ balances'[LINK][Registry] = balances[LINK][Registry] + n
      /\ balances'[LINK][Registrar] = balances[LINK][Registrar]
  BY <1>4, LinkArrives, Outside
<1>9. QED
  BY <1>1, <1>2, <1>3, <1>4, <1>7, <1>8 DEF Books, MoneyTyped, Accounting, Solvent

LEMMA PerformBooks ==
  ASSUME BooksInv, UpkeepsInv', NEW k \in Keepers, NEW i \in Ids, NEW p \in Nat,
         performUpkeep(k, i, p),
         \* what the upkeep's target does leaves the registry's LINK alone
         balances' \in Ledger,
         \A a \in {Registry, Registrar} : balances'[LINK][a] = balances[LINK][a]
  PROVE  Books'
<1> USE DEF BooksInv, RegistryTypeOK
<1>1. upkeepLink \in Nat /\ keeperLink \in Nat /\ pendingLink \in Nat
  BY LinkTyped
<1>2. pendingLink' = pendingLink /\ UNCHANGED <<s_ownerLinkBalance, s_expectedLinkBalance>>
  BY LinkKept DEF performUpkeep, registrarVars
<1>3. /\ s_upkeep' = [s_upkeep EXCEPT ![i].balance = @ - p, ![i].amountSpent = @ + p, ![i].lastKeeper = k]
      /\ keeperBalance' = [keeperBalance EXCEPT ![k] = @ + p]
  BY DEF performUpkeep
<1>4. s_upkeep[i] \in Upkeep /\ keeperBalance[k] \in Nat
  OBVIOUS
<1>5. /\ s_upkeep'[i].balance = s_upkeep[i].balance - p
      /\ \A id \in Ids \ {i} : s_upkeep'[id].balance = s_upkeep[id].balance
  BY <1>3, <1>4 DEF Upkeep
<1>6. upkeepLink' = upkeepLink - s_upkeep[i].balance + s_upkeep'[i].balance
  BY <1>5, UpkeepLinkChanges DEF UpkeepsInv, UpkeepsTyped
<1>7. upkeepLink' = upkeepLink - p
  BY <1>1, <1>4, <1>5, <1>6 DEF Upkeep
<1>8. keeperBalance' \in [Keepers -> Nat] /\ keeperLink' = keeperLink - keeperBalance[k] + (keeperBalance[k] + p)
  <2> DEFINE m == keeperBalance[k] + p
  <2>1. m \in Nat /\ keeperBalance' = [keeperBalance EXCEPT ![k] = m]
    BY <1>3, <1>4
  <2> HIDE DEF m
  <2>2. keeperBalance' \in [Keepers -> Nat] /\ keeperLink' = keeperLink - keeperBalance[k] + m
    BY <2>1, KeeperLinkChanges
  <2>3. QED
    BY <2>2 DEF m
<1>9. keeperLink' = keeperLink + p
  BY <1>1, <1>4, <1>8
<1>10. QED
  BY <1>1, <1>2, <1>7, <1>8, <1>9 DEF Books, MoneyTyped, Accounting, Solvent

\* The fee is what is missing of the minimum, and never more than is left.
LEMMA FeeCovered ==
  ASSUME RegistryTypeOK, NEW i \in Ids
  PROVE  CancellationFee(i) \in 0 .. s_upkeep[i].balance /\ Refund(i) \in 0 .. s_upkeep[i].balance
<1>1. s_upkeep[i].balance \in Nat /\ s_upkeep[i].amountSpent \in Nat /\ minUpkeepSpend \in Nat
  BY RegistryAssumption DEF RegistryTypeOK, Upkeep
<1>2. CancellationFee(i) \in 0 .. s_upkeep[i].balance
  BY <1>1 DEF CancellationFee
<1>3. QED
  BY <1>1, <1>2 DEF Refund

LEMMA RefundHeld ==
  ASSUME BooksInv, NEW i \in Ids
  PROVE  Refund(i) <= balances[LINK][Registry]
<1> USE DEF BooksInv, RegistryTypeOK
<1> DEFINE f == [id \in Ids |-> s_upkeep[id].balance]
<1>1. f \in [Ids -> Nat] /\ IsFiniteSet(Ids) /\ f[i] = s_upkeep[i].balance
  BY RegistryAssumption, FS_Interval DEF Ids, Upkeep
<1>2. upkeepLink = SumFunction(f)
  BY DEF upkeepLink
<1> HIDE DEF f
<1>3. s_upkeep[i].balance <= upkeepLink
  BY <1>1, <1>2, SumChanges
<1>4. upkeepLink \in Nat /\ keeperLink \in Nat /\ s_ownerLinkBalance \in Nat
  BY LinkTyped
<1>5. Refund(i) \in Nat /\ s_upkeep[i].balance \in Nat /\ Refund(i) <= s_upkeep[i].balance
  BY FeeCovered DEF Upkeep
<1>6. balances[LINK][Registry] \in Nat /\ upkeepLink + keeperLink + s_ownerLinkBalance <= balances[LINK][Registry]
  BY LinkHeld DEF Accounting, Solvent
<1>7. QED
  BY <1>3, <1>4, <1>5, <1>6

LEMMA WithdrawBooks ==
  ASSUME BooksInv, UpkeepsInv', NEW u, NEW i \in Ids, NEW to \in Users, withdrawFunds(u, i, to)
  PROVE  Books'
<1> USE DEF BooksInv, RegistryTypeOK
<1> DEFINE fee == CancellationFee(i)
           refund == Refund(i)
<1>1. upkeepLink \in Nat /\ keeperLink \in Nat /\ pendingLink \in Nat
  BY LinkTyped
<1>2. /\ keeperLink' = keeperLink /\ pendingLink' = pendingLink
      /\ UNCHANGED keeperBalance
  BY LinkKept DEF withdrawFunds, registrarVars
<1>3. balances[LINK][Registry] \in Nat /\ balances[LINK][Registrar] \in Nat
  BY LinkHeld
<1>4. /\ s_upkeep' = [s_upkeep EXCEPT ![i].balance = 0]
      /\ s_ownerLinkBalance' = s_ownerLinkBalance + fee
      /\ s_expectedLinkBalance' = s_expectedLinkBalance - refund
      /\ Transfer(LINK, Registry, to, refund)
  BY DEF withdrawFunds
<1>5. s_upkeep[i].balance \in Nat /\ fee \in Nat /\ refund \in Nat /\ refund = s_upkeep[i].balance - fee
  BY FeeCovered DEF Upkeep, Refund
<1> HIDE DEF fee, refund
<1>6. /\ s_upkeep'[i].balance = 0
      /\ \A id \in Ids \ {i} : s_upkeep'[id].balance = s_upkeep[id].balance
  BY <1>4 DEF Upkeep
<1>7. upkeepLink' = upkeepLink - s_upkeep[i].balance + 0 /\ s_upkeep[i].balance <= upkeepLink
  BY <1>6, UpkeepLinkChanges DEF UpkeepsInv, UpkeepsTyped
<1>8. /\ balances' \in Ledger
      /\ balances'[LINK][Registry] = balances[LINK][Registry] - refund
      /\ balances'[LINK][Registrar] = balances[LINK][Registrar]
  BY <1>4, <1>5, LinkLeaves, Outside
<1>9. QED
  BY <1>1, <1>2, <1>3, <1>4, <1>5, <1>7, <1>8 DEF Books, MoneyTyped, Accounting, Solvent

LEMMA CancelBooks ==
  ASSUME BooksInv, UpkeepsInv', NEW u \in Users, NEW i \in Ids, cancelUpkeep(u, i)
  PROVE  Books'
<1> USE DEF BooksInv, RegistryTypeOK
<1> DEFINE end == IF u = registryOwner THEN blockNumber ELSE blockNumber + CANCELATION_DELAY
<1>1. /\ s_upkeep' = [s_upkeep EXCEPT ![i].maxValidBlocknumber = end]
      /\ UNCHANGED <<keeperBalance, s_ownerLinkBalance, s_expectedLinkBalance, pending, balances>>
  BY DEF cancelUpkeep, Cancel, registrarVars
<1> HIDE DEF end
<1>2. \A id \in Ids : s_upkeep'[id].balance = s_upkeep[id].balance
  BY <1>1 DEF Upkeep
<1>3. upkeepLink' = upkeepLink
  BY <1>2 DEF upkeepLink
<1>4. keeperLink' = keeperLink /\ pendingLink' = pendingLink
  BY <1>1, LinkKept
<1>5. QED
  BY <1>1, <1>3, <1>4 DEF Books, MoneyTyped, Accounting, Solvent

(***************************************************************************)
(* Payees, the owner, and LINK that nobody is owed.                        *)
(***************************************************************************)
LEMMA PayeeBooks ==
  ASSUME BooksInv, NEW k \in Keepers, NEW to \in Users, withdrawPayment(k, to)
  PROVE  Books'
<1> USE DEF BooksInv, RegistryTypeOK
<1>1. upkeepLink \in Nat /\ keeperLink \in Nat /\ pendingLink \in Nat
  BY LinkTyped
<1>2. /\ upkeepLink' = upkeepLink /\ pendingLink' = pendingLink
      /\ UNCHANGED s_ownerLinkBalance
  BY LinkKept DEF withdrawPayment, upkeepVars, registrarVars
<1>3. keeperBalance[k] \in Nat /\ balances[LINK][Registry] \in Nat /\ balances[LINK][Registrar] \in Nat
  BY LinkHeld
<1>4. /\ keeperBalance' = [keeperBalance EXCEPT ![k] = 0]
      /\ s_expectedLinkBalance' = s_expectedLinkBalance - keeperBalance[k]
      /\ Transfer(LINK, Registry, to, keeperBalance[k])
  BY DEF withdrawPayment
<1>5. /\ keeperBalance' \in [Keepers -> Nat] /\ keeperBalance[k] <= keeperLink
      /\ keeperLink' = keeperLink - keeperBalance[k] + 0
  BY <1>4, KeeperLinkChanges
<1>6. /\ balances' \in Ledger
      /\ balances'[LINK][Registry] = balances[LINK][Registry] - keeperBalance[k]
      /\ balances'[LINK][Registrar] = balances[LINK][Registrar]
  BY <1>3, <1>4, LinkLeaves, Outside
<1>7. QED
  BY <1>1, <1>2, <1>3, <1>4, <1>5, <1>6 DEF Books, MoneyTyped, Accounting, Solvent

\* the balances of upkeeps, keepers and requests stay
OwedKept == UNCHANGED <<s_upkeep, keeperBalance, pending>>

LEMMA OwedSums ==
  ASSUME OwedKept
  PROVE  upkeepLink' = upkeepLink /\ keeperLink' = keeperLink /\ pendingLink' = pendingLink
  BY LinkKept DEF OwedKept

LEMMA IdleBooks ==
  ASSUME BooksInv, OwedKept, UNCHANGED <<s_ownerLinkBalance, s_expectedLinkBalance>>,
         balances' \in Ledger,
         \A a \in {Registry, Registrar} : balances'[LINK][a] = balances[LINK][a]
  PROVE  Books'
  BY OwedSums DEF BooksInv, RegistryTypeOK, OwedKept, Books, MoneyTyped, Accounting, Solvent

LEMMA StrayBooks ==
  ASSUME BooksInv, NEW u \in Outsiders, NEW n \in Nat, strayTransfer(u, n)
  PROVE  Books'
<1> USE DEF BooksInv, RegistryTypeOK
<1>1. OwedKept /\ UNCHANGED <<s_ownerLinkBalance, s_expectedLinkBalance>>
  BY DEF strayTransfer, OwedKept, upkeepVars, registrarVars
<1>2. /\ balances' \in Ledger
      /\ balances'[LINK][Registry] = balances[LINK][Registry] + n
      /\ balances'[LINK][Registrar] = balances[LINK][Registrar]
  BY LinkArrives, Outside DEF strayTransfer
<1>3. balances[LINK][Registry] \in Nat
  BY LinkHeld
<1>4. QED
  BY <1>1, <1>2, <1>3, OwedSums DEF OwedKept, Books, MoneyTyped, Accounting, Solvent

LEMMA OwnerFundsBooks ==
  ASSUME BooksInv, NEW u \in Outsiders, withdrawOwnerFunds(u) \/ recoverFunds(u)
  PROVE  Books'
<1> USE DEF BooksInv, RegistryTypeOK
<1>1. OwedKept
  BY DEF withdrawOwnerFunds, recoverFunds, OwedKept, upkeepVars, registrarVars
<1>2. /\ upkeepLink' = upkeepLink /\ keeperLink' = keeperLink /\ pendingLink' = pendingLink
      /\ upkeepLink \in Nat /\ keeperLink \in Nat /\ pendingLink \in Nat
  BY <1>1, OwedSums, LinkTyped
<1>3. balances[LINK][Registry] \in Nat /\ balances[LINK][Registrar] \in Nat
  BY LinkHeld
<1>4. CASE withdrawOwnerFunds(u)
  <2>1. /\ balances' \in Ledger
        /\ balances'[LINK][Registry] = balances[LINK][Registry] - s_ownerLinkBalance
        /\ balances'[LINK][Registrar] = balances[LINK][Registrar]
    BY <1>4, LinkLeaves, Outside DEF withdrawOwnerFunds
  <2>2. QED
    BY <1>1, <1>2, <1>3, <1>4, <2>1
       DEF withdrawOwnerFunds, OwedKept, Books, MoneyTyped, Accounting, Solvent
<1>5. CASE recoverFunds(u)
  <2>1. Surplus \in Nat /\ Transfer(LINK, Registry, u, Surplus)
    BY <1>3, <1>5 DEF recoverFunds, Surplus
  <2>2. /\ balances' \in Ledger
        /\ balances'[LINK][Registry] = balances[LINK][Registry] - Surplus
        /\ balances'[LINK][Registrar] = balances[LINK][Registrar]
    BY <2>1, LinkLeaves, Outside
  <2>3. balances'[LINK][Registry] = s_expectedLinkBalance
    BY <1>3, <2>2 DEF Surplus
  <2>4. QED
    BY <1>1, <1>2, <1>3, <1>5, <2>2, <2>3
       DEF recoverFunds, OwedKept, Books, MoneyTyped, Accounting, Solvent
<1>6. QED
  BY <1>4, <1>5

-----------------------------------------------------------------------------
(***************************************************************************)
(* The registry's and the registrar's calls move LINK between themselves   *)
(* and people: nobody else's, and no other token.                          *)
(***************************************************************************)
LEMMA TransferKeeps ==
  ASSUME balances \in Ledger, NEW from, NEW to, NEW n, Transfer(LINK, from, to, n),
         NEW t \in Tokens, NEW a \in Accounts, t # LINK \/ a \notin {from, to}
  PROVE  balances'[t][a] = balances[t][a]
<1>1. LINK \in Tokens \ FalseTokens
  BY RegistryAssumption
<1>2. balances' = [[balances EXCEPT ![LINK][from] = @ - n] EXCEPT ![LINK][to] = @ + n]
  BY <1>1 DEF Transfer, TransferReverts, AfterTransfer
<1>3. QED
  BY <1>1, <1>2 DEF Ledger

LEMMA BystandersKeep ==
  ASSUME balances \in Ledger,
         \/ \E u \in Users : UserStep(u) \/ OwnerStep(u)
         \/ \E k \in Keepers, to \in Users : withdrawPayment(k, to),
         NEW t \in Tokens, NEW a \in Accounts,
         t # LINK \/ a \notin Users \cup {Registry, Registrar}
  PROVE  balances'[t][a] = balances[t][a]
<1>1. ASSUME UNCHANGED balances PROVE balances'[t][a] = balances[t][a]
  BY <1>1
<1>2. ASSUME NEW from \in Users \cup {Registry, Registrar}, NEW to \in Users \cup {Registry, Registrar},
             NEW n, Transfer(LINK, from, to, n)
      PROVE  balances'[t][a] = balances[t][a]
  BY <1>2, TransferKeeps
<1>3. CASE \E k \in Keepers, to \in Users : withdrawPayment(k, to)
  BY <1>2, <1>3 DEF withdrawPayment
<1>4. ASSUME NEW u \in Users, UserStep(u)
      PROVE  balances'[t][a] = balances[t][a]
  BY <1>1, <1>2, <1>4 DEF UserStep, register, approve, cancel, addFunds, cancelUpkeep, Cancel,
                          withdrawFunds, strayTransfer
<1>5. ASSUME NEW u \in Users, OwnerStep(u)
      PROVE  balances'[t][a] = balances[t][a]
  BY <1>1, <1>2, <1>5 DEF OwnerStep, withdrawOwnerFunds, recoverFunds, pause, unpause,
                          setRegistrationConfig, setKeepers
<1>6. QED
  BY <1>3, <1>4, <1>5

-----------------------------------------------------------------------------
LEMMA FlagsKept ==
  ASSUME Flags, [RegistryNext]_registryVars
  PROVE  Flags'
<1>1. ASSUME NEW u \in Users, UserStep(u)
      PROVE  Flags'
  <2>1. UNCHANGED <<paused, autoApprove>>
    BY <1>1 DEF UserStep, register, approve, cancel, addFunds, cancelUpkeep, Cancel,
                withdrawFunds, strayTransfer, adminVars, registrarVars
  <2>2. approvedCount' \in {approvedCount, approvedCount + 1}
    BY <1>1 DEF UserStep, register, approve, cancel, addFunds, cancelUpkeep, Cancel,
                withdrawFunds, strayTransfer, adminVars, registrarVars
  <2>3. approvedCount' \in Nat
    BY <2>2 DEF Flags
  <2>4. QED
    BY <2>1, <2>3 DEF Flags
<1>2. ASSUME NEW u \in Users, OwnerStep(u)
      PROVE  Flags'
  BY <1>2 DEF Flags, OwnerStep, withdrawOwnerFunds, recoverFunds, pause, unpause,
              setRegistrationConfig, setKeepers, adminVars, registrarVars
<1>3. ASSUME NEW k \in Keepers, KeeperStep(k)
      PROVE  Flags'
  BY <1>3 DEF Flags, KeeperStep, performUpkeep, withdrawPayment, adminVars, registrarVars
<1>4. CASE NextBlock
  BY <1>4 DEF Flags, NextBlock, adminVars, registrarVars
<1>5. CASE UNCHANGED registryVars
  BY <1>5 DEF Flags, registryVars, adminVars, registrarVars
<1>6. QED
  BY <1>1, <1>2, <1>3, <1>4, <1>5 DEF RegistryNext

LEMMA UserBooks ==
  ASSUME BooksInv, UpkeepsInv', NEW u \in Users, UserStep(u)
  PROVE  Books'
<1>1. LinkAmounts \subseteq Nat /\ u \in Outsiders
  BY RegistryAssumption, Outside
<1>2. CASE \E t \in Targets, a \in Users, n \in LinkAmounts : register(u, t, a, n)
  BY <1>1, <1>2, RegisterBooks
<1>3. CASE \E t \in Targets, a \in Users : approve(u, t, a) \/ cancel(u, t, a)
  BY <1>1, <1>3, ApprovalBooks, RefusalBooks
<1>4. CASE \E id \in Ids, n \in LinkAmounts : addFunds(u, id, n)
  BY <1>1, <1>4, FundsBooks
<1>5. CASE \E id \in Ids : cancelUpkeep(u, id)
  BY <1>5, CancelBooks
<1>6. CASE \E id \in Ids, to \in Users : withdrawFunds(u, id, to)
  BY <1>6, WithdrawBooks
<1>7. CASE \E n \in LinkAmounts : strayTransfer(u, n)
  BY <1>1, <1>7, StrayBooks
<1>8. QED
  BY <1>2, <1>3, <1>4, <1>5, <1>6, <1>7 DEF UserStep

LEMMA OwnerBooks ==
  ASSUME BooksInv, NEW u \in Users, OwnerStep(u)
  PROVE  Books'
<1>1. CASE withdrawOwnerFunds(u) \/ recoverFunds(u)
  BY <1>1, OwnerFundsBooks, Outside
<1>2. CASE ~(withdrawOwnerFunds(u) \/ recoverFunds(u))
  <2>1. OwedKept /\ UNCHANGED <<s_ownerLinkBalance, s_expectedLinkBalance, balances>>
    BY <1>2 DEF OwnerStep, pause, unpause, setRegistrationConfig, setKeepers, OwedKept,
                upkeepVars, registrarVars
  <2>2. QED
    BY <2>1, IdleBooks DEF BooksInv, RegistryTypeOK
<1>3. QED
  BY <1>1, <1>2

LEMMA KeeperBooks ==
  ASSUME BooksInv, UpkeepsInv', NEW k \in Keepers, KeeperStep(k)
  PROVE  Books'
<1>1. CASE \E id \in Ids, p \in Payments : performUpkeep(k, id, p) /\ UNCHANGED balances
  BY <1>1, PerformBooks, RegistryAssumption DEF BooksInv, RegistryTypeOK
<1>2. CASE \E to \in Users : withdrawPayment(k, to)
  BY <1>2, PayeeBooks
<1>3. QED
  BY <1>1, <1>2 DEF KeeperStep

LEMMA BlockBooks ==
  ASSUME BooksInv, NextBlock
  PROVE  Books'
  BY IdleBooks DEF NextBlock, OwedKept, upkeepVars, registrarVars, BooksInv, RegistryTypeOK

LEMMA BooksStep == BooksInv /\ [RegistryNext]_registryVars => BooksInv'
<1> SUFFICES ASSUME BooksInv, [RegistryNext]_registryVars PROVE BooksInv'
  OBVIOUS
<1>1. UpkeepsInv'
  BY RegistryStep DEF Preserved, BooksInv
<1>2. Flags'
  BY BooksParts, FlagsKept
<1>3. Books'
  <2>1. CASE UNCHANGED registryVars
    BY <2>1, IdleBooks DEF registryVars, upkeepVars, registrarVars, OwedKept, BooksInv, RegistryTypeOK
  <2>2. CASE RegistryNext
    BY <1>1, <2>2, UserBooks, OwnerBooks, KeeperBooks, BlockBooks DEF RegistryNext
  <2>3. QED
    BY <2>1, <2>2
<1>4. (UpkeepsInv /\ Flags /\ Books)'
  BY <1>1, <1>2, <1>3
<1>5. QED
  BY <1>4, BooksParts, PTL

LEMMA BooksInit == RegistryInit => BooksInv
<1> SUFFICES ASSUME RegistryInit PROVE BooksInv
  OBVIOUS
<1>1. UpkeepsInv
  BY UpkeepsInit
<1>2. Flags /\ MoneyTyped
  BY RegistryAssumption DEF RegistryInit, Flags, MoneyTyped
<1>3. upkeepLink = 0
  <2>1. [id \in Ids |-> s_upkeep[id].balance] = [id \in Ids |-> 0]
    BY DEF RegistryInit, NoUpkeepRecord
  <2>2. IsFiniteSet(Ids)
    BY RegistryAssumption, FS_Interval DEF Ids
  <2>3. QED
    BY <2>1, <2>2, SumOfZeros DEF upkeepLink
<1>4. keeperLink = 0
  BY RegistryAssumption, SumOfZeros DEF RegistryInit, keeperLink
<1>5. pendingLink = 0
  BY RegistryAssumption, SumOfZeros, FS_Product DEF RegistryInit, pendingLink
<1>6. Accounting /\ Solvent
  BY <1>2, <1>3, <1>4, <1>5, LinkHeld DEF RegistryInit, Accounting, Solvent, MoneyTyped
<1>7. QED
  BY <1>1, <1>2, <1>6, BooksParts DEF Books

(***************************************************************************)
(* The sums when at most one upkeep has LINK and nobody else is owed any.  *)
(***************************************************************************)
LEMMA SumsOfOne ==
  ASSUME s_upkeep \in [Ids -> Upkeep], NEW i \in Ids,
         \A id \in Ids \ {i} : s_upkeep[id].balance = 0,
         keeperBalance = [k \in Keepers |-> 0], pending = [r \in Targets \X Users |-> 0]
  PROVE  upkeepLink = s_upkeep[i].balance /\ keeperLink = 0 /\ pendingLink = 0
<1> DEFINE none == [id \in Ids |-> 0]
           held == [id \in Ids |-> s_upkeep[id].balance]
<1>1. IsFiniteSet(Ids)
  BY RegistryAssumption, FS_Interval DEF Ids
<1>2. /\ none \in [Ids -> Nat] /\ held \in [Ids -> Nat]
      /\ held[i] = s_upkeep[i].balance /\ s_upkeep[i].balance \in Nat
      /\ none[i] = 0 /\ \A id \in Ids \ {i} : held[id] = none[id]
  BY DEF Upkeep
<1>3. SumFunction(none) = 0
  BY <1>1, SumOfZeros
<1>4. upkeepLink = SumFunction(held)
  BY DEF upkeepLink
<1> HIDE DEF none, held
<1>5. SumFunction(held) = SumFunction(none) - none[i] + held[i]
  BY <1>1, <1>2, SumChanges
<1>6. upkeepLink = s_upkeep[i].balance
  BY <1>2, <1>3, <1>4, <1>5
<1>7. keeperLink = 0
  BY RegistryAssumption, SumOfZeros DEF keeperLink
<1>8. pendingLink = 0
  BY RegistryAssumption, SumOfZeros, FS_Product DEF pendingLink
<1>9. QED
  BY <1>6, <1>7, <1>8

(***************************************************************************)
(* Every reachable state of the registry and the registrar is well formed: *)
(* no subtraction that the contracts make goes below zero.                 *)
(***************************************************************************)
THEOREM RegistryTyped == RegistrySpec => []RegistryTypeOK
<1>1. BooksInv => RegistryTypeOK
  BY DEF BooksInv
<1>2. QED
  BY <1>1, BooksInit, BooksStep, PTL DEF RegistrySpec

(***************************************************************************)
(* s_expectedLinkBalance, adjusted by every operation on its own, is what  *)
(* upkeeps, keepers and the owner can still withdraw, to the last unit.    *)
(***************************************************************************)
THEOREM BooksBalance == RegistrySpec => []Accounting
<1>1. BooksInv => Accounting
  BY DEF BooksInv
<1>2. QED
  BY <1>1, BooksInit, BooksStep, PTL DEF RegistrySpec

(***************************************************************************)
(* The registry and the registrar hold all they owe, so recoverFunds gives *)
(* away nobody's LINK and no withdrawal or refund finds them short.        *)
(***************************************************************************)
THEOREM OwedIsHeld == RegistrySpec => []Solvent
<1>1. BooksInv => Solvent
  BY DEF BooksInv
<1>2. QED
  BY <1>1, BooksInit, BooksStep, PTL DEF RegistrySpec
================================================================================
