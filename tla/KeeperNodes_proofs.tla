-------------------------- MODULE KeeperNodes_proofs --------------------------
(***************************************************************************)
(* The off-chain keepers, for every number of keepers and people, whatever *)
(* the turns, the grace period and the salaries: a perform that comes too  *)
(* late harms nobody, and there are only so many that pay nobody.          *)
(***************************************************************************)
EXTENDS KeeperNodes, Automation_proofs

-----------------------------------------------------------------------------
(***************************************************************************)
(* The keepers and the people act on the vault and the registry only by    *)
(* the calls of Automation, so that its invariant holds here too.  The id  *)
(* and the nonce never go back to 0: nobody registers the vault again.     *)
(***************************************************************************)
NodesTyped ==
  /\ turn \in Keepers /\ lastRun \in [Keepers -> Run] /\ performed \in [Keepers -> Seq(Run)]
  /\ job \in [Keepers -> Job \cup {NoJob}]
  /\ ops \in 0 .. MaxOps
  /\ useful \in Nat

Registered == upkeepId = 1 /\ nonce \in 1 .. MaxNonce

NodesInv == SharedInv /\ Listed /\ Registered /\ NodesTyped

LEMMA SameIds == R!Ids = RP!Ids /\ (nonce = 1 => 1 \in RP!Ids)
  BY NodesAssumption, SameAssumption DEF R!Ids, RP!Ids, RP!RegistryAssumption

LEMMA PerformIsCall ==
  ASSUME NodesInv, NEW k \in Keepers, NEW e \in Payees, NEW p \in Payments,
         PerformThroughRegistry(k, upkeepId, e, p)
  PROVE  AutomationNext
<1>1. upkeepId \in R!Ids
  BY SameIds DEF NodesInv, Registered, SharedInv, IdInv, OwnUpkeep
<1>2. KeeperCall(k)
  BY <1>1 DEF KeeperCall
<1>3. QED
  BY <1>2 DEF AutomationNext

(***************************************************************************)
(* What a keeper has under way was checked for somebody's address.         *)
(***************************************************************************)
LEMMA JobTyped ==
  ASSUME NodesTyped, NEW k \in Keepers, job[k] # NoJob
  PROVE  job[k] \in Job /\ job[k].performData \in Payees
  BY DEF NodesTyped, Job

LEMMA NodesAct ==
  ASSUME NodesInv, [NodesNext]_nodesVars
  PROVE  [AutomationNext]_automationVars
<1>1. ASSUME NEW k \in Keepers, KeeperPerform(k)
      PROVE  [AutomationNext]_automationVars
  BY <1>1, PerformIsCall, JobTyped DEF KeeperPerform, NodesInv
<1>2. ASSUME NEW k \in Keepers, KeeperStep(k)
      PROVE  [AutomationNext]_automationVars
  BY <1>1, <1>2 DEF KeeperStep, KeeperCheck, KeeperSimulate, handleUpkeepPerformed
<1>3. ASSUME People
      PROVE  AutomationNext
  BY <1>3 DEF People, AutomationNext, KeeperCall
<1>4. ASSUME NEW next \in Keepers, NewHead(next)
      PROVE  [AutomationNext]_automationVars
  BY <1>4 DEF NewHead, AutomationNext
<1>5. QED
  BY <1>2, <1>3, <1>4 DEF NodesNext, nodesVars

LEMMA ListedKept ==
  ASSUME NodesInv, [AutomationNext]_automationVars
  PROVE  Listed'
<1>1. CASE [Next]_vars
  BY <1>1, ListedStep DEF NodesInv, SharedInv
<1>2. CASE UNCHANGED vaultVars
  BY <1>2 DEF vaultVars, NodesInv, Listed
<1>3. QED
  BY <1>1, <1>2, VaultActs

(***************************************************************************)
(* The id is the vault's for good, and ids are only issued.                *)
(***************************************************************************)
LEMMA RegisteredKept ==
  ASSUME NodesInv, [AutomationNext]_automationVars
  PROVE  Registered'
<1>1. upkeepId' = upkeepId
  BY DEF AutomationNext, automationVars, VaultCall, registerAndPredictID, RegistryCall, KeeperCall,
         PerformThroughRegistry, Block, NodesInv, Registered
<1>2. nonce' \in {nonce, nonce + 1}
  <2>1. ASSUME NEW u \in Users, VaultCall(u)
        PROVE  nonce' \in {nonce, nonce + 1}
    BY <2>1 DEF VaultCall, registerAndPredictID, ApprovedAtOnce, chainlinkVars
  <2>2. ASSUME NEW u, R!UserStep(u)
        PROVE  nonce' \in {nonce, nonce + 1}
    BY <2>2 DEF R!UserStep, R!register, R!approve, R!cancel, R!addFunds, R!cancelUpkeep, R!Cancel,
       R!withdrawFunds, R!strayTransfer, R!_approve, R!upkeepVars
  <2>3. ASSUME NEW u, R!OwnerStep(u)
        PROVE  UNCHANGED nonce
    BY <2>3 DEF R!OwnerStep, R!withdrawOwnerFunds, R!recoverFunds, R!pause, R!unpause,
       R!setRegistrationConfig, R!setKeepers, R!upkeepVars
  <2>4. ASSUME NEW k \in Keepers, KeeperCall(k)
        PROVE  UNCHANGED nonce
    BY <2>4 DEF KeeperCall, PerformThroughRegistry, R!performUpkeep, R!withdrawPayment, R!upkeepVars
  <2>5. R!NextBlock => UNCHANGED nonce
    BY DEF R!NextBlock, R!upkeepVars
  <2>6. QED
    BY <2>1, <2>2, <2>3, <2>4, <2>5 DEF AutomationNext, RegistryCall, Block, automationVars, chainlinkVars
<1>3. nonce' \in 0 .. MaxNonce
  BY SharedStep DEF NodesInv, SharedInv, IdInv, RP!UpkeepsInv, RP!UpkeepsTyped
<1>4. QED
  BY <1>1, <1>2, <1>3 DEF NodesInv, Registered

-----------------------------------------------------------------------------
(***************************************************************************)
(* The keepers' own state.                                                 *)
(***************************************************************************)
LEMMA CheckFinds ==
  ASSUME NodesInv, checkUpkeep # NoUpkeep
  PROVE  checkUpkeep \in Payees /\ UpkeepNeeded(checkUpkeep)
<1>1. CheckUpkeepAgrees
  BY ScanFinds DEF NodesInv, SharedInv
<1>2. checkUpkeep \in {e \in enrolled : Owed(e)}
  BY <1>1 DEF CheckUpkeepAgrees
<1>3. enrolled \subseteq Payees
  BY DEF NodesInv, SharedInv, TypeOK
<1>4. QED
  BY <1>2, <1>3 DEF Owed, UpkeepNeeded, NodesInv, SharedInv, TypeOK, Employee, Uint

LEMMA AgesTyped ==
  /\ OldAge \in Nat /\ 0 \in 0 .. OldAge
  /\ \A age \in 0 .. OldAge : Older(age) \in 0 .. OldAge
  BY NodesAssumption DEF OldAge, Older

LEMMA JobUpdated ==
  ASSUME NEW j \in Job
  PROVE  /\ [j EXCEPT !.stage = "sent", !.age = 0] \in Job
         /\ [j EXCEPT !.age = Older(@)] \in Job
<1>1. PICK stage \in {"checked", "sent"}, e \in Payees, age \in 0 .. OldAge :
            j = [stage |-> stage, performData |-> e, age |-> age]
  BY DEF Job
<1>2. [j EXCEPT !.stage = "sent", !.age = 0] = [stage |-> "sent", performData |-> e, age |-> 0]
  <2>1. [j EXCEPT !.stage = "sent"] = [stage |-> "sent", performData |-> e, age |-> age]
    BY <1>1
  <2>2. [[stage |-> "sent", performData |-> e, age |-> age] EXCEPT !.age = 0] =
          [stage |-> "sent", performData |-> e, age |-> 0]
    OBVIOUS
  <2>3. QED
    BY <2>1, <2>2, Zenon
<1>3. [j EXCEPT !.age = Older(@)] = [stage |-> stage, performData |-> e, age |-> Older(age)]
  BY <1>1
<1>4. QED
  BY <1>2, <1>3, AgesTyped DEF Job

LEMMA SetLastRunTyped ==
  ASSUME lastRun \in [Keepers -> Run], NEW k \in Keepers, NEW run \in Run, SetLastRun(k, run)
  PROVE  lastRun' \in [Keepers -> Run]
  BY DEF SetLastRun

LEMMA TypedKept ==
  ASSUME NodesInv, [NodesNext]_nodesVars
  PROVE  NodesTyped'
<1> USE NodesAssumption
<1>1. ASSUME NEW k \in Keepers, KeeperCheck(k)
      PROVE  NodesTyped'
  <2>1. [stage |-> "checked", performData |-> checkUpkeep, age |-> 0] \in Job
    BY <1>1, CheckFinds, AgesTyped DEF KeeperCheck, Job
  <2>2. QED
    BY <1>1, <2>1 DEF KeeperCheck, turnVars, NodesInv, NodesTyped
<1>2. ASSUME NEW k \in Keepers, KeeperSimulate(k)
      PROVE  NodesTyped'
  <2>1. job[k] \in Job
    BY <1>2, JobTyped DEF KeeperSimulate, NodesInv
  <2>2. [job[k] EXCEPT !.stage = "sent", !.age = 0] \in Job
    BY <2>1, JobUpdated
  <2>3. [keeper |-> k, age |-> job[k].age] \in Run
    BY <2>1 DEF Job, Run
  <2>4. lastRun' \in [Keepers -> Run]
    BY <1>2, <2>3, SetLastRunTyped DEF KeeperSimulate, NodesInv, NodesTyped
  <2>5. job' \in [Keepers -> Job \cup {NoJob}]
    <3>1. \/ job' = [job EXCEPT ![k] = [job[k] EXCEPT !.stage = "sent", !.age = 0]]
          \/ job' = [job EXCEPT ![k] = NoJob]
      BY <1>2 DEF KeeperSimulate, NodesInv, NodesTyped
    <3>2. QED
      BY <2>2, <3>1 DEF NodesInv, NodesTyped
  <2>6. QED
    BY <1>2, <2>4, <2>5 DEF KeeperSimulate, NodesInv, NodesTyped
<1>3. ASSUME NEW k \in Keepers, KeeperPerform(k)
      PROVE  NodesTyped'
  <2>1. [keeper |-> k, age |-> 0] \in Run
    BY AgesTyped DEF Run
  <2>2. performed' \in [Keepers -> Seq(Run)]
    <3>1. CASE performed' = [n \in Keepers |-> Append(performed[n], [keeper |-> k, age |-> 0])]
      BY <2>1, <3>1, AppendProperties DEF NodesInv, NodesTyped
    <3>2. CASE UNCHANGED performed
      BY <3>2 DEF NodesInv, NodesTyped
    <3>3. QED
      BY <1>3, <3>1, <3>2 DEF KeeperPerform
  <2>3. useful' \in Nat
    BY <1>3 DEF KeeperPerform, NodesInv, NodesTyped
  <2>4. job' \in [Keepers -> Job \cup {NoJob}]
    BY <1>3 DEF KeeperPerform, NodesInv, NodesTyped
  <2>5. QED
    BY <1>3, <2>2, <2>3, <2>4 DEF KeeperPerform, NodesInv, NodesTyped
<1>4. ASSUME NEW k \in Keepers, handleUpkeepPerformed(k)
      PROVE  NodesTyped'
  <2>1. Head(performed[k]) \in Run /\ Tail(performed[k]) \in Seq(Run)
    BY <1>4, HeadTailProperties DEF handleUpkeepPerformed, NodesInv, NodesTyped
  <2>2. lastRun' \in [Keepers -> Run]
    BY <1>4, <2>1, SetLastRunTyped DEF handleUpkeepPerformed, NodesInv, NodesTyped
  <2>3. QED
    BY <1>4, <2>1, <2>2 DEF handleUpkeepPerformed, NodesInv, NodesTyped
<1>5. ASSUME People
      PROVE  NodesTyped'
  <2>1. ops' \in 0 .. MaxOps
    BY <1>5 DEF People, NodesInv, NodesTyped
  <2>2. QED
    BY <1>5, <2>1 DEF People, turnVars, NodesInv, NodesTyped
<1>6. ASSUME NEW next \in Keepers, NewHead(next)
      PROVE  NodesTyped'
  <2>1. \A run \in Run : [run EXCEPT !.age = Older(@)] \in Run
    BY AgesTyped DEF Run
  <2>2. lastRun' \in [Keepers -> Run]
    BY <1>6, <2>1 DEF NewHead, NodesInv, NodesTyped
  <2>3. ASSUME NEW k \in Keepers
        PROVE  [i \in DOMAIN performed[k] |-> [performed[k][i] EXCEPT !.age = Older(@)]] \in Seq(Run)
    <3>1. performed[k] \in Seq(Run)
      BY DEF NodesInv, NodesTyped
    <3>2. Len(performed[k]) \in Nat /\ DOMAIN performed[k] = 1 .. Len(performed[k])
      BY <3>1, LenProperties
    <3>3. \A i \in 1 .. Len(performed[k]) : performed[k][i] \in Run
      BY <3>1, ElementOfSeq
    <3>4. QED
      BY <2>1, <3>2, <3>3
  <2>4. performed' \in [Keepers -> Seq(Run)]
    BY <1>6, <2>3 DEF NewHead
  <2>5. \A j \in Job : [j EXCEPT !.age = Older(@)] \in Job
    BY JobUpdated
  <2>6. job' \in [Keepers -> Job \cup {NoJob}]
    BY <1>6, <2>5 DEF NewHead, NodesInv, NodesTyped
  <2>7. QED
    BY <1>6, <2>2, <2>4, <2>6 DEF NewHead, NodesInv, NodesTyped
<1>7. CASE UNCHANGED nodesVars
  BY <1>7 DEF nodesVars, turnVars, NodesInv, NodesTyped
<1>8. QED
  BY <1>1, <1>2, <1>3, <1>4, <1>5, <1>6, <1>7 DEF NodesNext, KeeperStep

LEMMA NodesStep == NodesInv /\ [NodesNext]_nodesVars => NodesInv'
<1> SUFFICES ASSUME NodesInv, [NodesNext]_nodesVars PROVE NodesInv'
  OBVIOUS
<1>1. [AutomationNext]_automationVars
  BY NodesAct
<1>2. SharedInv'
  BY <1>1, SharedStep DEF NodesInv
<1>3. QED
  BY <1>1, <1>2, ListedKept, RegisteredKept, TypedKept DEF NodesInv

-----------------------------------------------------------------------------
(***************************************************************************)
(* A vault that has just registered its upkeep: Charge LINK is on it, in   *)
(* the registry's books and in the registry's hands.                       *)
(***************************************************************************)
LEMMA NodesUpkeeps ==
  ASSUME NodesInit
  PROVE  RP!UpkeepsInv /\ s_upkeep[1].balance = Charge /\ s_upkeep[1].target = Vault
         /\ s_upkeep[1].admin \in Users
         /\ \A id \in RP!Ids \ {1} : s_upkeep[id].balance = 0
<1> DEFINE funded == [balance |-> Charge, lastKeeper |-> Zero, maxValidBlocknumber |-> UINT64_MAX,
                      target |-> Vault, amountSpent |-> 0, admin |-> owner]
<1> USE SameAssumption, NodesAssumption, AutomationAssumption DEF RP!RegistryAssumption
<1>1. upkeepId = 1 /\ nonce = 1 /\ 1 \in RP!Ids
  BY SameIds DEF NodesInit, R!UpkeepID
<1>2. s_upkeep = [id \in RP!Ids |-> IF id = 1 THEN funded ELSE RP!NoUpkeepRecord]
  BY <1>1, SameIds DEF NodesInit, R!NoUpkeepRecord, RP!NoUpkeepRecord
<1>3. funded \in RP!Upkeep /\ RP!NoUpkeepRecord \in RP!Upkeep
  BY DEF NodesInit, Init, RP!Upkeep, RP!NoUpkeepRecord
<1>4. /\ funded.balance = Charge /\ funded.target = Vault /\ funded.admin \in Users
      /\ funded.maxValidBlocknumber = UINT64_MAX
      /\ RP!NoUpkeepRecord.balance = 0 /\ RP!NoUpkeepRecord.maxValidBlocknumber = 0
  BY DEF NodesInit, Init, RP!NoUpkeepRecord
<1> HIDE DEF funded
<1>5. RP!UpkeepsTyped
  BY <1>1, <1>2, <1>3 DEF NodesInit, RP!UpkeepsTyped
<1>6. RP!IssuedInOrder
  BY <1>1, <1>2 DEF RP!IssuedInOrder, RP!Ids
<1>7. RP!ActiveIDs
  <2>1. s_upkeepIDs = {1} /\ UINT64_MAX # 0
    BY <1>1 DEF NodesInit
  <2>2. QED
    BY <1>1, <1>2, <1>4, <2>1 DEF RP!ActiveIDs
<1>8. QED
  BY <1>1, <1>2, <1>4, <1>5, <1>6, <1>7 DEF RP!UpkeepsInv

LEMMA NodesBooks ==
  ASSUME NodesInit
  PROVE  RP!Books
<1> USE SameAssumption, NodesAssumption DEF RP!RegistryAssumption
<1>1. 1 \in RP!Ids /\ s_upkeep \in [RP!Ids -> RP!Upkeep]
  BY SameIds, NodesUpkeeps DEF NodesInit, RP!UpkeepsInv, RP!UpkeepsTyped
<1>2. keeperBalance = [k \in Keepers |-> 0] /\ pending = [r \in Targets \X Users |-> 0]
  BY DEF NodesInit
<1>3. RP!upkeepLink = Charge /\ RP!keeperLink = 0 /\ RP!pendingLink = 0
  BY <1>1, <1>2, NodesUpkeeps, RP!SumsOfOne
<1>4. balances = Genesis /\ Genesis[LINK][Registry] = Charge /\ balances \in RP!Ledger
  BY DEF NodesInit, Init
<1>5. RP!MoneyTyped
  BY <1>4 DEF NodesInit, RP!MoneyTyped
<1>6. balances[LINK][Registrar] \in Nat
  BY <1>4 DEF RP!Ledger
<1>7. s_expectedLinkBalance = Charge /\ s_ownerLinkBalance = 0
  BY DEF NodesInit
<1>8. RP!Accounting /\ RP!Solvent
  BY <1>3, <1>4, <1>6, <1>7 DEF RP!Accounting, RP!Solvent
<1>9. QED
  BY <1>5, <1>8 DEF RP!Books

LEMMA NodesStart == NodesInit => NodesInv
<1> SUFFICES ASSUME NodesInit PROVE NodesInv
  OBVIOUS
<1> USE NodesAssumption
<1>1. TypeOK
  BY VaultAssumption DEF NodesInit, Init, TypeOK, Uint, Employee, Unwritten
<1>2. upkeepId = 1 /\ nonce = 1 /\ 1 \in RP!Ids
  BY SameIds DEF NodesInit, R!UpkeepID
<1>3. IdInv
  BY <1>2, NodesUpkeeps DEF IdInv, OwnUpkeep
<1>4. RP!Flags
  BY DEF NodesInit, RP!Flags
<1>5. RP!BooksInv
  BY <1>4, NodesBooks, NodesUpkeeps, SameAssumption, RP!BooksParts
<1>6. Listed
  BY DEF NodesInit, Init, Listed
<1>7. NodesTyped
  BY AgesTyped DEF NodesInit, NodesTyped, Run
<1>8. QED
  BY <1>1, <1>2, <1>3, <1>5, <1>6, <1>7 DEF NodesInv, SharedInv, Registered, RP!Ids

(***************************************************************************)
(* The keepers' jobs, runs and logs stay what they are said to be, with    *)
(* the vault and the registry under them.                                  *)
(***************************************************************************)
THEOREM NodesTypeCorrect == NodesSpec => []NodesTypeOK
<1>1. NodesInv => NodesTypeOK
  BY DEF NodesInv, NodesTyped, NodesTypeOK, SharedInv, IdInv, OwnUpkeep, AutomationTypeOK,
         RP!BooksInv, RP!RegistryTypeOK, R!RegistryTypeOK, RP!Ids, R!Ids, RP!Upkeep, R!Upkeep,
         RP!Ledger, R!Ledger
<1>2. QED
  BY <1>1, NodesStart, NodesStep, PTL DEF NodesSpec

-----------------------------------------------------------------------------
(***************************************************************************)
(* The off-chain keepers implement the automation: whatever they check,    *)
(* simulate, send too late or miss, the chain only makes Automation's      *)
(* steps, and what is proved of these holds with the keepers running.      *)
(***************************************************************************)
THEOREM KeepersOnlyCall == NodesSpec => [][AutomationNext]_automationVars
<1>1. NodesInv /\ [NodesNext]_nodesVars => [AutomationNext]_automationVars
  BY NodesAct
<1>2. QED
  BY <1>1, NodesStart, NodesStep, PTL DEF NodesSpec

(***************************************************************************)
(* The pay dates stay exact, nobody is paid ahead of them, and what a      *)
(* keeper is told by checkUpkeep is right.                                 *)
(***************************************************************************)
THEOREM KeptScheduleIsExact == NodesSpec => [](ScheduleExact /\ NeverAhead /\ CheckUpkeepAgrees)
<1>1. NodesInv /\ PayrollInv /\ [NodesNext]_nodesVars => PayrollInv'
  BY NodesAct, PayrollStep DEF NodesInv, SharedInv
<1>2. NodesInit => PayrollInv
  BY PayrollStart DEF NodesInit
<1>3. NodesInv /\ PayrollInv => ScheduleExact /\ NeverAhead /\ CheckUpkeepAgrees
  BY ScanFinds DEF NodesInv, SharedInv, PayrollInv
<1>4. QED
  BY <1>1, <1>2, <1>3, NodesStart, NodesStep, PTL DEF NodesSpec

(***************************************************************************)
(* The registry's books balance under the keepers' performs and charges,   *)
(* and the admin's Withdraw button works when it is shown.                 *)
(***************************************************************************)
THEOREM KeptBooksBalance == NodesSpec => [](RP!Accounting /\ RP!Solvent /\ WithdrawNotRefused)
<1>1. NodesInv => RP!Accounting /\ RP!Solvent /\ WithdrawNotRefused
  BY WithdrawAllowed DEF NodesInv, SharedInv, RP!BooksInv
<1>2. QED
  BY <1>1, NodesStart, NodesStep, PTL DEF NodesSpec

(***************************************************************************)
(* Once the upkeep is registered the vault loses tokens, LINK among them,  *)
(* only to its owner or as the full salary of an employee who is owed it.  *)
(* However many keepers send the same perform, early, late or twice, and   *)
(* whatever they are paid, they take nothing else from it.                 *)
(***************************************************************************)
Justified(t) ==
  \/ owner # Zero /\ Received(t, owner) = Outflow(t) /\ UNCHANGED chainlinkVars
  \/ \E e \in Payees : SalaryPaid(e, t)

THEOREM KeepersTakeNothing ==
  NodesSpec => [][\A t \in Tokens : Outflow(t) > 0 => Justified(t)]_automationVars
<1>1. ASSUME NodesInv, [NodesNext]_nodesVars, ~UNCHANGED automationVars,
             NEW t \in Tokens, Outflow(t) > 0
      PROVE  Justified(t)
  <2>1. AutomationNext
    BY <1>1, NodesAct
  <2>2. Accounted(t)
    BY <1>1, <2>1, AccountedStep DEF NodesInv
  <2>3. ~Funded(upkeepId', Outflow(t))
    BY <1>1 DEF NodesInv, Registered, Funded
  <2>4. QED
    BY <2>2, <2>3 DEF Accounted, Justified
<1>2. NodesInv /\ [NodesNext]_nodesVars =>
        [\A t \in Tokens : Outflow(t) > 0 => Justified(t)]_automationVars
  BY <1>1
<1>3. QED
  BY <1>2, NodesStart, NodesStep, PTL DEF NodesSpec

-----------------------------------------------------------------------------
(***************************************************************************)
(* Only a perform moves tokens and ends a keeper's job in one step; the    *)
(* vault then pays the employee the job is for, or nobody.                 *)
(***************************************************************************)
LEMMA NothingOut ==
  ASSUME TypeOK, UNCHANGED balances, NEW t \in Tokens
  PROVE  ~(Outflow(t) > 0)
<1>1. balances[t][Vault] \in Nat
  BY VaultAssumption DEF TypeOK, Ledger
<1>2. QED
  BY <1>1 DEF Outflow

LEMMA StaleStep ==
  ASSUME NodesInv, NodesNext, NEW k \in Keepers, job[k] # NoJob, job'[k] = NoJob,
         NEW t \in Tokens, Outflow(t) > 0
  PROVE  SalaryPaid(job[k].performData, t)
<1>1. TypeOK
  BY DEF NodesInv, SharedInv
<1>2. ~UNCHANGED balances
  BY <1>1, NothingOut
<1>3. ASSUME NEW j \in Keepers, KeeperStep(j)
      PROVE  KeeperPerform(j) /\ j = k
  <2>1. KeeperPerform(j)
    BY <1>2, <1>3 DEF KeeperStep, KeeperCheck, KeeperSimulate, handleUpkeepPerformed,
       automationVars, vars
  <2>2. job' = [job EXCEPT ![j] = NoJob]
    BY <2>1 DEF KeeperPerform
  <2>3. QED
    BY <2>1, <2>2 DEF NodesInv, NodesTyped
<1>4. ~People
  BY DEF People
<1>5. ~\E next \in Keepers : NewHead(next)
  BY <1>2 DEF NewHead, Block, Tick, automationVars, vars
<1>6. KeeperPerform(k)
  BY <1>3, <1>4, <1>5 DEF NodesNext
<1>7. job[k].performData \in Payees
  BY JobTyped DEF NodesInv
<1>8. PICK p \in Payments : PerformThroughRegistry(k, upkeepId, job[k].performData, p)
  BY <1>2, <1>6 DEF KeeperPerform, automationVars, vars
<1>9. performUpkeep(job[k].performData)
  BY <1>2, <1>8 DEF PerformThroughRegistry, vars
<1>10. QED
  BY <1>1, <1>7, <1>9, SalaryOutflow

(***************************************************************************)
(* Whatever the vault, the registry and the other keepers did between the  *)
(* check and the execution, a perform pays the employee it was checked for *)
(* and who is owed the salary, or nobody.                                  *)
(***************************************************************************)
THEOREM LatePerformHarmless == NodesSpec => StalePerformHarmless
<1>1. NodesInv /\ [NodesNext]_nodesVars =>
        [\A k \in Keepers : job[k] # NoJob /\ job'[k] = NoJob =>
           \A t \in Tokens : Outflow(t) > 0 => SalaryPaid(job[k].performData, t)]_nodesVars
  BY StaleStep
<1>2. QED
  BY <1>1, NodesStart, NodesStep, PTL DEF NodesSpec, StalePerformHarmless

-----------------------------------------------------------------------------
(***************************************************************************)
(* Why the waste is bounded.  A perform that would pay nobody is stale:    *)
(* its employee is no longer due, or it passed its simulation and the      *)
(* payment would revert by now.  A keeper's own steps and the clock make   *)
(* no job stale; a payment or a transaction of the people may make all     *)
(* others so.  What has been charged, together with one MaxPayment for     *)
(* each stale job, therefore grows only with payments and transactions.    *)
(***************************************************************************)
Stale ==
  {k \in Keepers :
     /\ job[k] # NoJob
     /\ \/ ~UpkeepNeeded(job[k].performData)
        \/ job[k].stage = "sent" /\ PerformReverts(job[k].performData)}

Within(spent, stale, n) ==
  spent + MaxPayment * Cardinality(stale) <= Cardinality(Keepers) * MaxPayment * n

WasteInv == Within(s_upkeep[1].amountSpent, Stale, useful + ops)

\* a perform is charged at most what _prePerformUpkeep has asked the upkeep to hold
PaymentsCapped == \A p \in Payments : p <= MaxPayment

LEMMA Counts ==
  ASSUME NEW s \in SUBSET Keepers, NEW r \in SUBSET s
  PROVE  /\ Cardinality(s) \in Nat /\ Cardinality(r) \in Nat /\ MaxPayment \in Nat
         /\ Cardinality(r) <= Cardinality(s)
         /\ \A k \in s \ r : Cardinality(r) + 1 <= Cardinality(s)
<1>1. IsFiniteSet(Keepers) /\ MaxPayment \in Nat
  BY AutomationAssumption DEF R!RegistryAssumption, R!IsFiniteSet, IsFiniteSet
<1>2. IsFiniteSet(s) /\ IsFiniteSet(r)
  BY <1>1, FS_Subset
<1>3. Cardinality(s) \in Nat /\ Cardinality(r) \in Nat /\ Cardinality(r) <= Cardinality(s)
  BY <1>2, FS_CardinalityType, FS_Subset
<1>4. ASSUME NEW k \in s \ r
      PROVE  Cardinality(r) + 1 <= Cardinality(s)
  <2>1. r # s
    OBVIOUS
  <2>2. Cardinality(r) < Cardinality(s)
    BY <1>2, <1>3, <2>1, FS_Subset
  <2>3. QED
    BY <1>3, <2>2
<1>5. QED
  BY <1>1, <1>3, <1>4

(***************************************************************************)
(* A step that charges nothing and makes nothing stale; one that charges   *)
(* a stale job; and one that counts, after which all may be stale.         *)
(***************************************************************************)
LEMMA WithinFewer ==
  ASSUME NEW x \in Nat, NEW n \in Nat, NEW s \in SUBSET Keepers, NEW r \in SUBSET s, Within(x, s, n)
  PROVE  Within(x, r, n)
<1>1. /\ Cardinality(s) \in Nat /\ Cardinality(r) \in Nat /\ Cardinality(r) <= Cardinality(s)
      /\ MaxPayment \in Nat /\ Cardinality(Keepers) \in Nat
  BY Counts
<1>2. MaxPayment * Cardinality(r) <= MaxPayment * Cardinality(s)
  BY <1>1
<1>3. QED
  BY <1>1, <1>2 DEF Within

LEMMA WithinCharged ==
  ASSUME NEW x \in Nat, NEW p \in Nat, p <= MaxPayment, NEW n \in Nat, NEW s \in SUBSET Keepers,
         NEW k \in s, NEW r \in SUBSET (s \ {k}), Within(x, s, n)
  PROVE  Within(x + p, r, n)
<1>1. /\ Cardinality(s) \in Nat /\ Cardinality(r) \in Nat /\ Cardinality(r) + 1 <= Cardinality(s)
      /\ MaxPayment \in Nat /\ Cardinality(Keepers) \in Nat
  BY Counts
<1>2. MaxPayment * (Cardinality(r) + 1) <= MaxPayment * Cardinality(s)
  BY <1>1
<1>3. MaxPayment * (Cardinality(r) + 1) = MaxPayment * Cardinality(r) + MaxPayment
  BY <1>1
<1>4. QED
  BY <1>1, <1>2, <1>3 DEF Within

LEMMA WithinCounted ==
  ASSUME NEW x \in Nat, NEW n \in Nat, NEW s \in SUBSET Keepers, NEW r \in SUBSET Keepers, Within(x, s, n)
  PROVE  /\ Within(x, r, n + 1)
         /\ \A k \in Keepers \ r, p \in Nat : p <= MaxPayment => Within(x + p, r, n + 1)
<1> DEFINE all == Cardinality(Keepers)
           c == Cardinality(r)
           m == MaxPayment
<1>1. all \in Nat /\ c \in Nat /\ c <= all /\ m \in Nat /\ Cardinality(s) \in Nat
  BY Counts
<1>2. x <= all * m * n
  BY <1>1 DEF Within
<1>3. all * m * (n + 1) = all * m * n + m * all /\ all * m * n \in Nat
  BY <1>1
<1>4. m * c <= m * all
  BY <1>1
<1>5. Within(x, r, n + 1)
  BY <1>1, <1>2, <1>3, <1>4 DEF Within
<1>6. ASSUME NEW k \in Keepers \ r, NEW p \in Nat, p <= m
      PROVE  Within(x + p, r, n + 1)
  <2>1. c + 1 <= all
    BY Counts
  <2>2. m * (c + 1) <= m * all /\ m * (c + 1) = m * c + m
    BY <1>1, <2>1
  <2>3. QED
    BY <1>1, <1>2, <1>3, <1>6, <2>2 DEF Within
<1>7. QED
  BY <1>5, <1>6

(***************************************************************************)
(* Only a perform is charged to the upkeep.                                *)
(***************************************************************************)
LEMMA SpentByUser ==
  ASSUME NodesInv, NEW u, R!UserStep(u)
  PROVE  s_upkeep'[1].amountSpent = s_upkeep[1].amountSpent
<1>1. s_upkeep \in [R!Ids -> RP!Upkeep] /\ 1 \in R!Ids /\ nonce \in Nat /\ nonce >= 1
  BY SameIds DEF NodesInv, Registered, SharedInv, IdInv, OwnUpkeep, RP!UpkeepsInv, RP!UpkeepsTyped
<1>2. ASSUME NEW t, NEW a, NEW n, R!_approve(t, a, n)
      PROVE  s_upkeep'[1].amountSpent = s_upkeep[1].amountSpent
  BY <1>1, <1>2 DEF R!_approve, R!UpkeepID
<1>3. ASSUME NEW i, R!cancelUpkeep(u, i)
      PROVE  s_upkeep'[1].amountSpent = s_upkeep[1].amountSpent
  BY <1>1, <1>3 DEF R!cancelUpkeep, R!Cancel, RP!Upkeep
<1>4. ASSUME NEW i, NEW n, R!addFunds(u, i, n)
      PROVE  s_upkeep'[1].amountSpent = s_upkeep[1].amountSpent
  BY <1>1, <1>4 DEF R!addFunds, RP!Upkeep
<1>5. ASSUME NEW i, NEW to, R!withdrawFunds(u, i, to)
      PROVE  s_upkeep'[1].amountSpent = s_upkeep[1].amountSpent
  BY <1>1, <1>5 DEF R!withdrawFunds, RP!Upkeep
<1>6. ASSUME UNCHANGED s_upkeep
      PROVE  s_upkeep'[1].amountSpent = s_upkeep[1].amountSpent
  BY <1>6
<1>7. QED
  BY <1>2, <1>3, <1>4, <1>5, <1>6
     DEF R!UserStep, R!register, R!approve, R!cancel, R!strayTransfer, R!upkeepVars

LEMMA SpentByPeople ==
  ASSUME NodesInv, People
  PROVE  s_upkeep'[1].amountSpent = s_upkeep[1].amountSpent
<1>1. ASSUME NEW u \in Users, VaultCall(u)
      PROVE  UNCHANGED s_upkeep
  BY <1>1 DEF VaultCall, registerAndPredictID, chainlinkVars, NodesInv, Registered
<1>2. ASSUME NEW u \in Users, R!OwnerStep(u)
      PROVE  UNCHANGED s_upkeep
  BY <1>2 DEF R!OwnerStep, R!withdrawOwnerFunds, R!recoverFunds, R!pause, R!unpause,
     R!setRegistrationConfig, R!setKeepers, R!upkeepVars
<1>3. ASSUME NEW k \in Keepers, NEW to \in Users, R!withdrawPayment(k, to)
      PROVE  UNCHANGED s_upkeep
  BY <1>3 DEF R!withdrawPayment, R!upkeepVars
<1>4. QED
  BY <1>1, <1>2, <1>3, SpentByUser DEF People, RegistryCall

LEMMA SpentByPerform ==
  ASSUME NodesInv, NEW k \in Keepers, NEW p \in Nat, R!performUpkeep(k, upkeepId, p)
  PROVE  s_upkeep'[1].amountSpent = s_upkeep[1].amountSpent + p
<1>1. s_upkeep \in [R!Ids -> RP!Upkeep] /\ 1 \in R!Ids /\ upkeepId = 1
  BY SameIds DEF NodesInv, Registered, SharedInv, IdInv, OwnUpkeep, RP!UpkeepsInv, RP!UpkeepsTyped
<1>2. s_upkeep' = [s_upkeep EXCEPT ![1].balance = @ - p, ![1].amountSpent = @ + p, ![1].lastKeeper = k]
  BY <1>1 DEF R!performUpkeep
<1>3. s_upkeep'[1] = [s_upkeep[1] EXCEPT !.balance = @ - p, !.amountSpent = @ + p, !.lastKeeper = k]
  BY <1>1, <1>2
<1>4. s_upkeep[1] \in RP!Upkeep
  BY <1>1
<1>5. QED
  BY <1>3, <1>4 DEF RP!Upkeep

(***************************************************************************)
(* Time makes no job stale: an upkeep that is needed stays needed, and     *)
(* while nothing is paid or edited a payment reverts as it did.            *)
(***************************************************************************)
LEMMA StaleBefore ==
  ASSUME NodesInv, UNCHANGED <<employeeDetails, balances>>, now' \in {now, now + 1},
         NEW k \in Keepers, job[k] # NoJob, k \in Stale',
         job'[k].performData = job[k].performData, job'[k].stage = job[k].stage
  PROVE  k \in Stale
<1> DEFINE e == job[k].performData
<1>1. e \in Payees
  BY JobTyped DEF NodesInv
<1>2. now \in Int /\ employeeDetails[e].nextPayTimestamp \in Int
  BY <1>1, VaultAssumption DEF NodesInv, SharedInv, TypeOK, Employee, Uint
<1>3. UpkeepNeeded(e) => now' >= employeeDetails'[e].nextPayTimestamp /\ ~employeeDetails'[e].deleted
  BY <1>2 DEF UpkeepNeeded
<1>4. CASE ~UpkeepNeeded(e)
  BY <1>4 DEF Stale
<1>5. CASE UpkeepNeeded(e)
  <2>1. job'[k].stage = "sent" /\ PerformReverts(job[k].performData)'
    BY <1>3, <1>5 DEF Stale, UpkeepNeeded
  <2>2. PerformReverts(e)
    BY <1>5, <2>1 DEF PerformReverts, NextDate, TransferReverts, Covers
  <2>3. QED
    BY <2>1, <2>2 DEF Stale
<1>6. QED
  BY <1>4, <1>5

LEMMA StaleElsewhere ==
  ASSUME NodesInv, UNCHANGED vars, NEW k \in Keepers, k \in Stale', job'[k] = job[k]
  PROVE  k \in Stale
<1>1. job[k] # NoJob
  BY DEF Stale
<1>2. QED
  BY <1>1, StaleBefore DEF vars

-----------------------------------------------------------------------------
(***************************************************************************)
(* The keepers' steps.                                                     *)
(***************************************************************************)
LEMMA CheckWaste ==
  ASSUME NodesInv, NEW k \in Keepers, KeeperCheck(k)
  PROVE  Stale' \subseteq Stale
<1> SUFFICES ASSUME NEW j \in Stale' PROVE j \in Stale
  OBVIOUS
<1>1. UNCHANGED vars /\ j \in Keepers
  BY DEF KeeperCheck, automationVars, Stale
<1>2. job' = [job EXCEPT ![k] = [stage |-> "checked", performData |-> checkUpkeep, age |-> 0]]
  BY DEF KeeperCheck
<1>3. job'[k].stage = "checked" /\ job'[k].performData = checkUpkeep
  BY <1>2 DEF NodesInv, NodesTyped
<1>4. UpkeepNeeded(checkUpkeep)
  BY CheckFinds DEF KeeperCheck
<1>5. j # k
  <2> SUFFICES ASSUME k \in Stale' PROVE FALSE
    OBVIOUS
  <2>1. ~UpkeepNeeded(job[k].performData)'
    BY <1>3 DEF Stale
  <2>2. QED
    BY <1>1, <1>3, <1>4, <2>1 DEF UpkeepNeeded, vars
<1>6. job'[j] = job[j]
  BY <1>1, <1>2, <1>5 DEF NodesInv, NodesTyped
<1>7. QED
  BY <1>1, <1>6, StaleElsewhere

LEMMA SimulateWaste ==
  ASSUME NodesInv, NEW k \in Keepers, KeeperSimulate(k)
  PROVE  Stale' \subseteq Stale
<1> SUFFICES ASSUME NEW j \in Stale' PROVE j \in Stale
  OBVIOUS
<1>1. UNCHANGED vars /\ j \in Keepers
  BY DEF KeeperSimulate, automationVars, Stale
<1>2. CASE j # k
  <2>1. job'[j] = job[j]
    BY <1>1, <1>2 DEF KeeperSimulate, NodesInv, NodesTyped
  <2>2. QED
    BY <1>1, <2>1, StaleElsewhere
<1>3. CASE j = k
  <2>1. job'[k] # NoJob
    BY <1>3 DEF Stale
  <2>2. /\ SimulationSucceeds(k)
        /\ job' = [job EXCEPT ![k] = [job[k] EXCEPT !.stage = "sent", !.age = 0]]
    BY <2>1 DEF KeeperSimulate, NodesInv, NodesTyped
  <2>3. job'[k].performData = job[k].performData
    <3>1. job'[k] = [job[k] EXCEPT !.stage = "sent", !.age = 0] /\ job[k] \in Job
      BY <2>2, JobTyped DEF KeeperSimulate, NodesInv, NodesTyped
    <3>2. QED
      BY <3>1 DEF Job
  <2>4. ~PerformReverts(job[k].performData)
    BY <2>2 DEF SimulationSucceeds
  <2>5. ~PerformReverts(job[k].performData)'
    BY <1>1, <2>3, <2>4 DEF PerformReverts, UpkeepNeeded, NextDate, TransferReverts, Covers, vars
  <2>6. ~UpkeepNeeded(job[k].performData)'
    BY <1>3, <2>5 DEF Stale
  <2>7. ~UpkeepNeeded(job[k].performData)
    BY <1>1, <2>3, <2>6 DEF UpkeepNeeded, vars
  <2>8. QED
    BY <1>3, <2>7 DEF Stale, KeeperSimulate
<1>4. QED
  BY <1>2, <1>3

LEMMA HeadWaste ==
  ASSUME NodesInv, NEW next \in Keepers, NewHead(next)
  PROVE  Stale' \subseteq Stale
<1> SUFFICES ASSUME NEW j \in Stale' PROVE j \in Stale
  OBVIOUS
<1>1. UNCHANGED <<employeeDetails, balances>> /\ now' \in {now, now + 1} /\ j \in Keepers
  BY DEF NewHead, Block, Tick, automationVars, vars, Stale
<1>2. job'[j] = IF job[j] # NoJob /\ job[j].stage = "checked"
                THEN [job[j] EXCEPT !.age = Older(@)] ELSE job[j]
  BY <1>1 DEF NewHead
<1>3. job[j] # NoJob
  BY <1>2 DEF Stale
<1>4. job[j] \in Job
  BY <1>1, <1>3, JobTyped DEF NodesInv
<1>5. job'[j].performData = job[j].performData /\ job'[j].stage = job[j].stage
  BY <1>2, <1>4 DEF Job
<1>6. QED
  BY <1>1, <1>3, <1>5, StaleBefore

(***************************************************************************)
(* A step that charges nothing, pays nothing and makes no job stale.       *)
(***************************************************************************)
LEMMA CountsTyped ==
  ASSUME NodesInv
  PROVE  s_upkeep[1].amountSpent \in Nat /\ useful \in Nat /\ ops \in Nat /\ Stale \in SUBSET Keepers
<1>1. s_upkeep \in [RP!Ids -> RP!Upkeep] /\ 1 \in RP!Ids
  BY DEF NodesInv, Registered, SharedInv, IdInv, OwnUpkeep, RP!UpkeepsInv, RP!UpkeepsTyped
<1>2. s_upkeep[1].amountSpent \in 0 .. MaxSpent /\ MaxSpent \in Nat
  BY <1>1, SameAssumption DEF RP!Upkeep, RP!RegistryAssumption
<1>3. QED
  BY <1>2, NodesAssumption DEF NodesInv, NodesTyped, Stale

LEMMA WasteQuiet ==
  ASSUME NodesInv, WasteInv, Stale' \subseteq Stale, UNCHANGED <<useful, ops>>,
         s_upkeep'[1].amountSpent = s_upkeep[1].amountSpent
  PROVE  WasteInv'
<1>1. Within(s_upkeep[1].amountSpent, Stale', useful + ops)
  BY CountsTyped, WithinFewer DEF WasteInv
<1>2. QED
  BY <1>1 DEF WasteInv, Within

LEMMA HandleWaste ==
  ASSUME NodesInv, UNCHANGED <<automationVars, job>>
  PROVE  Stale' \subseteq Stale
  BY StaleElsewhere DEF automationVars, Stale

LEMMA PeopleWaste ==
  ASSUME NodesInv, WasteInv, People
  PROVE  WasteInv'
<1>1. ops' = ops + 1 /\ useful' = useful /\ Stale' \in SUBSET Keepers
  BY DEF People, Stale
<1>2. Within(s_upkeep[1].amountSpent, Stale', useful + ops + 1)
  BY <1>1, CountsTyped, WithinCounted DEF WasteInv
<1>3. useful' + ops' = useful + ops + 1
  BY <1>1, CountsTyped
<1>4. QED
  BY <1>2, <1>3, SpentByPeople DEF WasteInv, Within

LEMMA PerformWaste ==
  ASSUME PaymentsCapped, NodesInv, WasteInv, NEW k \in Keepers, KeeperPerform(k)
  PROVE  WasteInv'
<1> DEFINE e == job[k].performData
<1>1. e \in Payees /\ upkeepId = 1 /\ s_upkeep[1].target = Vault
  BY JobTyped DEF KeeperPerform, NodesInv, Registered, SharedInv, IdInv, OwnUpkeep
<1>2. k \notin Stale' /\ UNCHANGED ops /\ Stale' \in SUBSET Keepers
  BY DEF KeeperPerform, NodesInv, NodesTyped, Stale
<1>3. ASSUME UNCHANGED vars
      PROVE  Stale' \subseteq Stale \ {k}
  <2> SUFFICES ASSUME NEW j \in Stale' PROVE j \in Stale
    BY <1>2
  <2>1. j \in Keepers /\ job'[j] = job[j]
    BY <1>2 DEF KeeperPerform, NodesInv, NodesTyped
  <2>2. QED
    BY <1>3, <2>1, StaleElsewhere
<1>4. CASE UNCHANGED <<automationVars, performed, useful>>
  BY <1>2, <1>3, <1>4, WasteQuiet DEF automationVars, chainlinkVars
<1>5. CASE /\ \E p \in Payments : PerformThroughRegistry(k, upkeepId, e, p)
           /\ useful' = useful + (IF VaultPays(upkeepId, e) THEN 1 ELSE 0)
  <2>1. PICK p \in Payments : PerformThroughRegistry(k, upkeepId, e, p)
    BY <1>5
  <2>2. p \in Nat /\ p <= MaxPayment
    BY Apart DEF PaymentsCapped
  <2>3. s_upkeep'[1].amountSpent = s_upkeep[1].amountSpent + p
    BY <2>1, <2>2, SpentByPerform DEF PerformThroughRegistry
  <2>4. CASE VaultPays(upkeepId, e)
    <3>1. Within(s_upkeep[1].amountSpent + p, Stale', useful + ops + 1)
      BY <1>2, <2>2, CountsTyped, WithinCounted DEF WasteInv
    <3>2. useful' + ops' = useful + ops + 1
      BY <1>2, <1>5, <2>4, CountsTyped
    <3>3. QED
      BY <2>3, <3>1, <3>2 DEF WasteInv, Within
  <2>5. CASE ~VaultPays(upkeepId, e)
    <3>1. UNCHANGED vars
      BY <2>1, <2>5 DEF PerformThroughRegistry
    <3>2. ~UpkeepNeeded(e) \/ PerformReverts(e)
      BY <1>1, <2>5, VaultAssumption DEF VaultPays
    <3>3. k \in Stale
      BY <3>2 DEF Stale, KeeperPerform
    <3>4. Stale' \in SUBSET (Stale \ {k})
      BY <1>3, <3>1
    <3>5. Within(s_upkeep[1].amountSpent + p, Stale', useful + ops)
      BY <2>2, <3>3, <3>4, CountsTyped, WithinCharged DEF WasteInv
    <3>6. useful' + ops' = useful + ops
      BY <1>2, <1>5, <2>5, CountsTyped
    <3>7. QED
      BY <2>3, <3>5, <3>6 DEF WasteInv, Within
  <2>6. QED
    BY <2>4, <2>5
<1>6. QED
  BY <1>4, <1>5 DEF KeeperPerform

LEMMA WasteStep ==
  ASSUME PaymentsCapped, NodesInv, WasteInv, [NodesNext]_nodesVars
  PROVE  WasteInv'
<1>1. ASSUME NEW k \in Keepers, KeeperStep(k)
      PROVE  WasteInv'
  <2>1. CASE KeeperCheck(k)
    BY <2>1, CheckWaste, WasteQuiet DEF KeeperCheck, automationVars, chainlinkVars
  <2>2. CASE KeeperSimulate(k)
    BY <2>2, SimulateWaste, WasteQuiet DEF KeeperSimulate, automationVars, chainlinkVars
  <2>3. CASE KeeperPerform(k)
    BY <2>3, PerformWaste
  <2>4. CASE handleUpkeepPerformed(k)
    BY <2>4, HandleWaste, WasteQuiet DEF handleUpkeepPerformed, automationVars, chainlinkVars
  <2>5. QED
    BY <1>1, <2>1, <2>2, <2>3, <2>4 DEF KeeperStep
<1>2. ASSUME NEW next \in Keepers, NewHead(next)
      PROVE  WasteInv'
  <2>1. UNCHANGED <<s_upkeep, useful, ops>>
    BY <1>2 DEF NewHead, Block, R!NextBlock, R!upkeepVars, automationVars, chainlinkVars
  <2>2. QED
    BY <1>2, <2>1, HeadWaste, WasteQuiet
<1>3. CASE UNCHANGED nodesVars
  BY <1>3, HandleWaste, WasteQuiet DEF nodesVars, automationVars, chainlinkVars
<1>4. QED
  BY <1>1, <1>2, <1>3, PeopleWaste DEF NodesNext

LEMMA WasteStart == NodesInit => WasteInv
<1> SUFFICES ASSUME NodesInit PROVE WasteInv
  OBVIOUS
<1>1. upkeepId = 1 /\ 1 \in R!Ids /\ ops = 0 /\ useful = 0
  BY SameIds DEF NodesInit, R!UpkeepID
<1>2. s_upkeep[1].amountSpent = 0
  BY <1>1 DEF NodesInit
<1>3. Stale = {}
  BY DEF NodesInit, Stale
<1>4. Cardinality(Stale) = 0 /\ MaxPayment \in Nat /\ Cardinality(Keepers) \in Nat
  BY <1>3, FS_EmptySet, Counts
<1>5. Cardinality(Keepers) * MaxPayment * 0 = 0 /\ MaxPayment * 0 = 0
  BY <1>4
<1>6. QED
  BY <1>1, <1>2, <1>4, <1>5 DEF WasteInv, Within

(***************************************************************************)
(* If no perform is charged more than the maximum it is checked against,   *)
(* the upkeep is never charged more than one such maximum per keeper for   *)
(* every salary paid and every transaction people sent: a perform that     *)
(* pays nobody needs a cause, and each cause can spoil one per keeper.     *)
(***************************************************************************)
THEOREM WasteIsBounded == PaymentsCapped => (NodesSpec => []WasteBounded)
<1> SUFFICES ASSUME PaymentsCapped PROVE NodesSpec => []WasteBounded
  OBVIOUS
<1>1. NodesInv /\ WasteInv => WasteBounded
  <2> SUFFICES ASSUME NodesInv, WasteInv PROVE WasteBounded
    OBVIOUS
  <2>1. Within(s_upkeep[1].amountSpent, {}, useful + ops)
    BY CountsTyped, WithinFewer DEF WasteInv
  <2>2. Cardinality({}) = 0 /\ MaxPayment \in Nat
    BY FS_EmptySet, Counts
  <2>3. QED
    BY <2>1, <2>2, CountsTyped DEF Within, WasteBounded, NodesInv, Registered
<1>2. NodesInv /\ WasteInv /\ [NodesNext]_nodesVars => WasteInv'
  BY WasteStep
<1>3. QED
  BY <1>1, <1>2, WasteStart, NodesStart, NodesStep, PTL DEF NodesSpec
===============================================================================
