----------------------------- MODULE KeeperNodes -----------------------------
(***************************************************************************)
(* The off-chain keepers.  At a head of the chain a keeper asks the        *)
(* registry to check the vault's upkeep, simulates the perform it would    *)
(* send, and sends it; the transaction is executed some time later, when   *)
(* the vault, the registry and the other keeper may have moved on.  The    *)
(* three steps of a keeper interleave with those of everybody else.        *)
(*                                                                         *)
(* Whether a keeper looks at the upkeep at a head follows from whose turn  *)
(* it is, which comes from a block's hash and may be anybody's, and from   *)
(* the last run its own database knows of (keeper/orm.go): its own runs,   *)
(* and the performs whose logs it has handled, which come later.  Ages are *)
(* counted in heads, up to OldAge.  A keeper has one perform under way.    *)
(***************************************************************************)
EXTENDS Automation, FiniteSets

CONSTANTS
  Charge,        \* LINK on the vault's upkeep to begin with
  Buddy,         \* the keeper whose index follows
  GracePeriod,   \* KeeperMaximumGracePeriod
  NoJob,         \* a keeper with nothing under way
  MaxOps         \* bound on the number of transactions people send

ASSUME NodesAssumption ==
  /\ Charge \in Nat /\ MaxOps \in Nat /\ MaxNonce > 0 /\ GracePeriod \in Nat
  /\ Buddy \in [Keepers -> Keepers]
  /\ Genesis[LINK][Registry] = Charge

VARIABLES
  turn,          \* whose turn it is at the newest head
  lastRun,       \* in each node's upkeep_registrations: last keeper and run, by age
  performed,     \* UpkeepPerformed logs that each node has not handled
  job,           \* what each keeper has under way
  ops,           \* transactions people have sent
  useful         \* history: performs that paid a salary

turnVars == <<turn, lastRun, performed>>
nodesVars == <<automationVars, turnVars, job, ops, useful>>

OldAge == GracePeriod + 1
Older(age) == IF age < OldAge THEN age + 1 ELSE age
Run == [keeper : Keepers \cup {Zero}, age : 0 .. OldAge]

\* performData checked only, at a head of some age, or checked, simulated and sent
Job == [stage : {"checked", "sent"}, performData : Payees, age : 0 .. OldAge]

NodesTypeOK ==
  /\ AutomationTypeOK
  /\ turn \in Keepers /\ lastRun \in [Keepers -> Run] /\ performed \in [Keepers -> Seq(Run)]
  /\ job \in [Keepers -> Job \cup {NoJob}]
  /\ ops \in 0 .. MaxOps
  /\ useful \in Nat

(***************************************************************************)
(* A vault that has just registered its upkeep.                            *)
(***************************************************************************)
NodesInit ==
  /\ Init
  /\ upkeepId = R!UpkeepID(0) /\ nonce = 1 /\ approvedCount = 1
  /\ s_upkeepIDs = {upkeepId}
  /\ s_upkeep = [id \in R!Ids |->
       IF id = upkeepId
       THEN [balance |-> Charge, lastKeeper |-> Zero, maxValidBlocknumber |-> UINT64_MAX,
             target |-> Vault, amountSpent |-> 0, admin |-> owner]
       ELSE R!NoUpkeepRecord]
  /\ s_expectedLinkBalance = Charge /\ s_ownerLinkBalance = 0
  /\ keeperBalance = [k \in Keepers |-> 0]
  /\ activeKeepers = Keepers
  /\ paused = FALSE /\ autoApprove = TRUE
  /\ pending = [r \in Targets \X Users |-> 0]
  /\ blockNumber = 1
  /\ turn \in Keepers
  /\ lastRun = [k \in Keepers |-> [keeper |-> Zero, age |-> OldAge]]
  /\ performed = [k \in Keepers |-> <<>>]
  /\ job = [k \in Keepers |-> NoJob]
  /\ ops = 0 /\ useful = 0

\* Faulty variant: a keeper that ran last waits for the others.
EligibleUnlessLast(k) ==
  \/ turn = k /\ lastRun[k].keeper # k
  \/ turn = Buddy[k] /\ Buddy[k] # k /\ lastRun[k].keeper = Buddy[k]

(***************************************************************************)
(* EligibleUpkeepsForRegistry: it is my turn and I was not the last, or I  *)
(* was and the grace period is over; or it is my buddy's turn, who was.    *)
(***************************************************************************)
Eligible(k) ==
  \/ turn = k /\ (lastRun[k].keeper = k => lastRun[k].age > GracePeriod)
  \/ turn = Buddy[k] /\ Buddy[k] # k /\ lastRun[k].keeper = Buddy[k]

(***************************************************************************)
(* SetLastRunInfoForUpkeepOnJob: a run that is not older takes the place   *)
(* of the last; of two old ones either may be the older.                   *)
(***************************************************************************)
SetLastRun(k, run) ==
  \/ run.age <= lastRun[k].age /\ lastRun' = [lastRun EXCEPT ![k] = run]
  \/ (run.age = OldAge \/ run.age > lastRun[k].age) /\ UNCHANGED lastRun

\* the registry's checkUpkeep(id, k): the target's check and _prePerformUpkeep
KeeperCheck(k) ==
  /\ job[k] = NoJob
  /\ Eligible(k)
  /\ checkUpkeep # NoUpkeep
  /\ R!_prePerformUpkeep(k, upkeepId)
  /\ job' = [job EXCEPT ![k] = [stage |-> "checked", performData |-> checkUpkeep, age |-> 0]]
  /\ UNCHANGED <<automationVars, turnVars, ops, useful>>

\* Faulty variant: the transaction is sent without a simulation.
SimulationNotNeeded(k) == TRUE

\* simulate_perform_upkeep_tx and check_success
SimulationSucceeds(k) == R!Performable(k, upkeepId) /\ ~PerformReverts(job[k].performData)

\* the run is completed, and recorded, with the transaction sent and not yet executed
KeeperSimulate(k) ==
  /\ job[k] # NoJob
  /\ job[k].stage = "checked"
  /\ IF SimulationSucceeds(k)
     THEN /\ job' = [job EXCEPT ![k].stage = "sent", ![k].age = 0]
          /\ SetLastRun(k, [keeper |-> k, age |-> job[k].age])
     ELSE job' = [job EXCEPT ![k] = NoJob] /\ UNCHANGED lastRun
  /\ UNCHANGED <<automationVars, turn, performed, ops, useful>>

\* the transaction is executed and its log sent to every node, or reverts in the registry
KeeperPerform(k) ==
  /\ job[k] # NoJob
  /\ job[k].stage = "sent"
  /\ \/ /\ \E p \in Payments : PerformThroughRegistry(k, upkeepId, job[k].performData, p)
        /\ useful' = useful + (IF VaultPays(upkeepId, job[k].performData) THEN 1 ELSE 0)
        /\ performed' = [n \in Keepers |-> Append(performed[n], [keeper |-> k, age |-> 0])]
     \/ ~R!Performable(k, upkeepId) /\ UNCHANGED <<automationVars, performed, useful>>
  /\ job' = [job EXCEPT ![k] = NoJob]
  /\ UNCHANGED <<turn, lastRun, ops>>

handleUpkeepPerformed(k) ==
  /\ performed[k] # <<>>
  /\ SetLastRun(k, Head(performed[k]))
  /\ performed' = [performed EXCEPT ![k] = Tail(@)]
  /\ UNCHANGED <<automationVars, turn, job, ops, useful>>

KeeperStep(k) ==
  KeeperCheck(k) \/ KeeperSimulate(k) \/ KeeperPerform(k) \/ handleUpkeepPerformed(k)

People ==
  /\ ops < MaxOps
  /\ ops' = ops + 1
  /\ \/ \E u \in Users : VaultCall(u) \/ RegistryCall(u)
     \/ \E k \in Keepers, to \in Users :
          R!withdrawPayment(k, to) /\ UNCHANGED <<vaultVars, upkeepId>>
  /\ UNCHANGED <<turnVars, job, useful>>

\* a head, with its block or with one like those before
NewHead(next) ==
  /\ Block \/ UNCHANGED automationVars
  /\ turn' = next
  /\ lastRun' = [k \in Keepers |-> [lastRun[k] EXCEPT !.age = Older(@)]]
  /\ performed' = [k \in Keepers |->
       [i \in DOMAIN performed[k] |-> [performed[k][i] EXCEPT !.age = Older(@)]]]
  /\ job' = [k \in Keepers |->
       IF job[k] # NoJob /\ job[k].stage = "checked" THEN [job[k] EXCEPT !.age = Older(@)] ELSE job[k]]
  /\ UNCHANGED <<ops, useful>>

NodesNext ==
  \/ \E k \in Keepers : KeeperStep(k)
  \/ People
  \/ \E next \in Keepers : NewHead(next)

(***************************************************************************)
(* Heads keep coming, each keeper has its turn again and again, the nodes  *)
(* handle their logs, and a transaction is rebroadcast until it is mined.  *)
(* A node may be too busy for a head (upkeep_executer.go:137), but not for *)
(* each at which it is eligible.  Nothing makes people act.                *)
(***************************************************************************)
Fairness ==
  \A k \in Keepers :
    /\ SF_nodesVars(NewHead(k))
    /\ SF_nodesVars(KeeperCheck(k)) /\ WF_nodesVars(KeeperSimulate(k))
    /\ WF_nodesVars(KeeperPerform(k)) /\ WF_nodesVars(handleUpkeepPerformed(k))

NodesSpec == NodesInit /\ [][NodesNext]_nodesVars /\ Fairness

-----------------------------------------------------------------------------
(***************************************************************************)
(* What the automation needs of the registry: not paused, an upkeep that   *)
(* is valid and has the LINK for one more perform.                         *)
(***************************************************************************)
Automated ==
  /\ R!Valid(upkeepId)
  /\ s_upkeep[upkeepId].balance >= MaxPayment
  /\ activeKeepers = Keepers

Payable(e) == Owed(e) => ~PerformReverts(e)

(***************************************************************************)
(* Salaries are disbursed: if from some point on the automation is in      *)
(* order and every employee who is owed can be paid, then no employee      *)
(* stays owed for ever, however checks and performs of the keepers and     *)
(* everybody's transactions interleave.                                    *)
(***************************************************************************)
Disbursed ==
  <>[](Automated /\ \A e \in enrolled : Payable(e))
    => \A e \in Payees : []<>(e \notin enrolled \/ ~Owed(e))

(***************************************************************************)
(* "Once everything is done, the salary will be disbursed automatically to *)
(* the employees" (README.md:54): an employee who can be paid from some    *)
(* point on does not stay owed, whatever is the matter with another.       *)
(***************************************************************************)
EachDisbursed ==
  \A e \in Payees :
    <>[](Automated /\ Payable(e)) => []<>(e \notin enrolled \/ ~Owed(e))

(***************************************************************************)
(* A perform that is sent too late pays nobody: whatever happened since a  *)
(* keeper checked, its transaction takes from the vault either nothing or  *)
(* exactly the salary of the employee it was checked for, who is owed it   *)
(* when the transaction executes.                                          *)
(***************************************************************************)
StalePerformHarmless ==
  [][\A k \in Keepers : job[k] # NoJob /\ job'[k] = NoJob =>
       \A t \in Tokens : Outflow(t) > 0 => SalaryPaid(job[k].performData, t)]_nodesVars

(***************************************************************************)
(* Keepers waste little of the employer's LINK: a perform that pays nobody *)
(* is charged all the same, but it takes a transaction of somebody else    *)
(* between its simulation and its execution, so what the upkeep is charged *)
(* stays within one perform per keeper for every salary paid and every     *)
(* transaction people sent.                                                *)
(***************************************************************************)
WasteBounded ==
  s_upkeep[upkeepId].amountSpent <= Cardinality(Keepers) * MaxPayment * (useful + ops)
==============================================================================
