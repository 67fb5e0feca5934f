------------------------------ MODULE TxManager ------------------------------
(***************************************************************************)
(* A keeper node's transaction manager (core/chains/evm/txmgr), for one    *)
(* sending address.  A broadcaster takes the queued transactions one by    *)
(* one, gives each a nonce and sends it; a confirmer works through a       *)
(* sequence of phases at every head of the chain; a resender and a reaper  *)
(* run beside them.  They share the database; the eth node, the mempool    *)
(* and the miners are the environment, with blocks that reorganise,        *)
(* answers that are lost and a process that stops anywhere.                *)
(*                                                                         *)
(* A row of the database is written by one of the components at a time     *)
(* (the broadcaster has the in_progress transaction, the confirmer the     *)
(* later ones), so sending an attempt and saving the answer is one step;   *)
(* that the answer is never seen, or the process stops before saving it,   *)
(* is the answer "unknown".  Heights are relative to the newest head: an   *)
(* age is the number of blocks since, up to OldAge.                        *)
(***************************************************************************)
EXTENDS Integers, Sequences, FiniteSets, FiniteSetsExt

CONSTANTS
  NumTxs,            \* transactions the keepers' pipelines will create
  MaxPrice,          \* gas prices are 1, the estimate, to MaxPrice
  Worlds,            \* the surroundings the node may run in, see World
  FinalityDepth, HistoryDepth, GasBumpThreshold, MaxInFlight, MaxQueued,
  GasBumpTxDepth,    \* how many of the oldest transactions may be bumped, 0 for any number
  MaxFaults,         \* bound on the number of faults
  MaxReorgs, ReorgDepth,  \* bounds on reorganisations and their depth
  MaxLag             \* bound on the heads the confirmer is behind

Txs == 1 .. NumTxs
Prices == 1 .. MaxPrice
OldAge == HistoryDepth + MaxLag + 1
Null == -1

\* What can go wrong: an answer that is lost, a process that stops or a phase that fails,
\* a mempool that drops an attempt, a node that has not caught up with a reorganisation, a
\* receipt that is not found, a wallet that is empty, a node that caps fees, a transmit
\* checker that fails, and a reorganisation.
FaultKinds == {"unknown", "stop", "evict", "stale", "noreceipt", "insufficient", "feecap",
               "checker", "reorg"}

\* the gas limit of the account, the least price a node takes and the least a miner takes,
\* the transactions every node rejects, and the faults that occur
World == [limit : Prices, floor : Prices, going : Prices, bad : SUBSET Txs, kinds : SUBSET FaultKinds]

ASSUME TxManagerAssumption ==
  /\ NumTxs \in Nat \ {0} /\ MaxPrice \in Nat \ {0}
  /\ Worlds \subseteq {w \in World : w.floor <= w.going /\ w.going <= w.limit}
  /\ FinalityDepth \in Nat /\ GasBumpThreshold \in Nat \ {0}
  /\ MaxInFlight \in Nat \ {0} /\ MaxQueued \in Nat \ {0} /\ GasBumpTxDepth \in Nat
  /\ MaxFaults \in Nat /\ MaxReorgs \in Nat /\ MaxLag \in Nat \ {0}
  /\ ReorgDepth \in Nat /\ ReorgDepth <= FinalityDepth
  /\ HistoryDepth \in Nat /\ HistoryDepth >= FinalityDepth

VARIABLES
  etx,        \* eth_txes: state and nonce of each transaction
  attempts,   \* eth_tx_attempts: state and broadcast_before_block_num, by gas price
  receipts,   \* eth_receipts
  nextNonce,  \* evm_key_states.next_nonce
  phase,      \* where the confirmer is in ProcessHead
  todo,       \* transactions rebroadcastWhereNecessary has still to go through
  lag,        \* heads since the one the confirmer took last
  common,     \* its chain and the longest share the blocks of this age and more
  mined,      \* the account's transactions on the longest chain, by nonce
  mempool,    \* attempts some node has and that are not on the chain
  abandoned,  \* how many nonces the fork abandoned last had on it
  world, faults, reorgs

db == <<etx, attempts, receipts, nextNonce>>
env == <<mined, mempool, abandoned, world>>
head == <<lag, common>>
vars == <<db, phase, todo, head, env, faults, reorgs>>

EtxStates == {"none", "unstarted", "in_progress", "unconfirmed", "confirmed",
              "confirmed_missing_receipt", "fatal_error", "reaped"}
AttemptStates == {"none", "in_progress", "insufficient_eth", "broadcast"}
Phases == {"idle", "broadcast_before", "missing_receipt", "receipts", "mark_missing",
           "mark_old", "in_progress", "rebroadcast", "reorgs", "last"}
\* of a receipt's block: the longest chain, that of the confirmer's head but no longer
\* the longest, or neither
Chains == {"longest", "head", "orphaned"}
NoAttempt == [state |-> "none", age |-> Null]
Sent(t, p) == [nonce |-> etx[t].nonce, tx |-> t, price |-> p]

TypeOK ==
  /\ etx \in [Txs -> [state : EtxStates, nonce : Nat \cup {Null}]]
  /\ attempts \in [Txs -> [Prices -> [state : AttemptStates, age : 0 .. OldAge \cup {Null}]]]
  /\ receipts \subseteq [tx : Txs, price : Prices, age : 0 .. OldAge, chain : Chains]
  /\ nextNonce \in 0 .. NumTxs
  /\ phase \in Phases /\ todo \subseteq Txs
  /\ lag \in 0 .. MaxLag /\ common \in 0 .. MaxLag + ReorgDepth
  /\ mined \in Seq([tx : Txs, price : Prices, age : 0 .. OldAge])
  /\ mempool \subseteq [nonce : Nat, tx : Txs, price : Prices]
  /\ abandoned \in 0 .. NumTxs
  /\ world \in Worlds /\ faults \in 0 .. MaxFaults /\ reorgs \in 0 .. MaxReorgs

Init ==
  /\ etx = [t \in Txs |-> [state |-> "none", nonce |-> Null]]
  /\ attempts = [t \in Txs |-> [p \in Prices |-> NoAttempt]]
  /\ receipts = {} /\ nextNonce = 0
  /\ phase = "idle" /\ todo = {} /\ lag = 0 /\ common = 0
  /\ mined = <<>> /\ mempool = {} /\ abandoned = 0 /\ world \in Worlds
  /\ faults = 0 /\ reorgs = 0

-----------------------------------------------------------------------------
In(states) == {t \in Txs : etx[t].state \in states}
WithState(t, states) == {p \in Prices : attempts[t][p].state \in states}
PricesOf(t) == WithState(t, AttemptStates \ {"none"})
Highest(t) == Max(PricesOf(t))
Lowest(k, S) == {t \in S : Cardinality({s \in S : etx[s].nonce < etx[t].nonce}) < k}

Fault(kind) == kind \in world.kinds /\ faults < MaxFaults /\ faults' = faults + 1

(***************************************************************************)
(* What an eth node makes of an attempt that is sent to it: rejected as    *)
(* invalid, "nonce too low" when the nonce is on the chain already,        *)
(* underpriced, or taken.  A taken attempt and one that is known or that   *)
(* replaces none are the same to the code.                                 *)
(***************************************************************************)
Verdict(a) ==
  IF a.tx \in world.bad THEN "fatal"
  ELSE IF a.nonce < Len(mined) THEN "nonce_too_low"
  ELSE IF a.price < world.floor THEN "underpriced"
  ELSE "ok"

Answer(a) ==
  LET taken == Verdict(a) = "ok"
      stale == a.nonce \in Len(mined) .. abandoned - 1  \* in a node that is still on the old fork
  IN {[err |-> Verdict(a), taken |-> taken, faulty |-> 0]} \cup
     {r \in [err : world.kinds \cup {"nonce_too_low"}, taken : BOOLEAN, faulty : {1}] :
        \/ r.err = "unknown" /\ (r.taken => taken)
        \/ r.err = "nonce_too_low" /\ stale /\ "stale" \in world.kinds /\ ~r.taken
        \/ r.err \in {"insufficient", "feecap"} /\ taken /\ ~r.taken}

\* the attempts S are sent, and answer[a] is what comes back
Send(S, answer) ==
  /\ \A a \in S : answer[a] \in Answer(a)
  /\ mempool' = mempool \cup {a \in S : answer[a].taken}
  /\ faults' = faults + Cardinality({a \in S : answer[a].faulty = 1})
  /\ faults' <= MaxFaults

SendOne(a, r) ==
  /\ r \in Answer(a)
  /\ mempool' = IF r.taken THEN mempool \cup {a} ELSE mempool
  /\ faults' = faults + r.faulty
  /\ faults' <= MaxFaults

-----------------------------------------------------------------------------
(***************************************************************************)
(* The pipelines and the broadcaster.                                      *)
(***************************************************************************)
CreateEthTransaction(t) ==
  /\ etx[t].state = "none" /\ \A s \in 1 .. t - 1 : etx[s].state # "none"
  /\ Cardinality(In({"unstarted"})) < MaxQueued
  /\ etx' = [etx EXCEPT ![t].state = "unstarted"]
  /\ UNCHANGED <<attempts, receipts, nextNonce, phase, todo, head, env, faults, reorgs>>

\* Faulty variant: any transaction of the queue may be next.
findUnstartedTransaction(t) == etx[t].state = "unstarted"

findNextUnstartedTransaction(t) ==
  etx[t].state = "unstarted" /\ \A s \in In({"unstarted"}) : t <= s

\* the oldest transaction of the queue gets the next nonce and an attempt
saveInProgressTransaction(t) ==
  /\ In({"in_progress"}) = {}
  /\ Cardinality(In({"unconfirmed"})) < MaxInFlight
  /\ findNextUnstartedTransaction(t)
  /\ \A s \in Txs : etx[s].nonce # nextNonce       \* unique in the database
  /\ etx' = [etx EXCEPT ![t] = [state |-> "in_progress", nonce |-> nextNonce]]
  /\ attempts' = [attempts EXCEPT ![t][1] = [state |-> "in_progress", age |-> Null]]
  /\ UNCHANGED <<receipts, nextNonce, phase, todo, head, env, faults, reorgs>>

\* Faulty variant: the nonce is used up.
saveFatallyErroredWithNonce(t) ==
  /\ etx' = [etx EXCEPT ![t] = [state |-> "fatal_error", nonce |-> Null]]
  /\ attempts' = [attempts EXCEPT ![t] = [p \in Prices |-> NoAttempt]]
  /\ nextNonce' = nextNonce + 1

saveFatallyErroredTransaction(t) ==
  /\ etx' = [etx EXCEPT ![t] = [state |-> "fatal_error", nonce |-> Null]]
  /\ attempts' = [attempts EXCEPT ![t] = [p \in Prices |-> NoAttempt]]
  /\ UNCHANGED nextNonce

saveAttempt(t, p) ==
  /\ nextNonce = etx[t].nonce
  /\ nextNonce' = nextNonce + 1
  /\ etx' = [etx EXCEPT ![t].state = "unconfirmed"]
  /\ attempts' = [attempts EXCEPT ![t][p].state = "broadcast"]

\* Faulty variant: the attempt that was refused stays.
tryAgainBesideFirst(t, p) ==
  /\ attempts' = IF p + 1 >= world.limit THEN attempts
                 ELSE [attempts EXCEPT ![t][p + 1] = [state |-> "in_progress", age |-> Null]]
  /\ UNCHANGED <<etx, nextNonce>>

\* the node's least price is above the attempt's: a dearer one takes its place
tryAgainBumpingGas(t, p) ==
  /\ attempts' = IF p + 1 >= world.limit THEN attempts
                 ELSE [attempts EXCEPT ![t][p] = NoAttempt,
                                       ![t][p + 1] = [state |-> "in_progress", age |-> Null]]
  /\ UNCHANGED <<etx, nextNonce>>

\* Faulty variant: an answer that is not understood counts as a rejection.
FatalOrUnknown(err) == err \in {"fatal", "unknown"}

\* the answers that say no node will ever take the transaction
Fatal(err) == err = "fatal"

handleInProgressEthTx(t) ==
  /\ etx[t].state = "in_progress" /\ Cardinality(PricesOf(t)) = 1
  /\ LET p == Highest(t) IN
     \/ /\ Fault("checker")
        /\ saveFatallyErroredTransaction(t)
        /\ UNCHANGED mempool
     \/ \E r \in Answer(Sent(t, p)) :
          /\ SendOne(Sent(t, p), r)
          /\ \/ Fatal(r.err) /\ saveFatallyErroredTransaction(t)
             \/ r.err \in {"ok", "nonce_too_low"} /\ saveAttempt(t, p)
             \/ r.err = "underpriced" /\ tryAgainBumpingGas(t, p)
             \/ /\ r.err \in {"unknown", "insufficient", "feecap"} /\ ~Fatal(r.err)
                /\ UNCHANGED <<etx, attempts, nextNonce>>
  /\ UNCHANGED <<receipts, phase, todo, head, mined, abandoned, world, reorgs>>

-----------------------------------------------------------------------------
(***************************************************************************)
(* The confirmer, phase by phase.  A phase that fails leaves the rest for  *)
(* the next head.                                                          *)
(***************************************************************************)
Enter(next) ==
  /\ phase' = next
  /\ todo' = {}
  /\ UNCHANGED <<nextNonce, head, mined, abandoned, world, reorgs>>

TakeHead ==
  /\ phase = "idle" /\ lag > 0
  /\ lag' = 0 /\ common' = 0 /\ phase' = "broadcast_before"
  /\ receipts' = {IF r.chain = "head" THEN [r EXCEPT !.chain = "orphaned"] ELSE r : r \in receipts}
  /\ UNCHANGED <<etx, attempts, nextNonce, todo, env, faults, reorgs>>

SetBroadcastBeforeBlockNum ==
  /\ phase = "broadcast_before"
  /\ attempts' = [t \in Txs |-> [p \in Prices |->
       IF attempts[t][p] = [state |-> "broadcast", age |-> Null]
       THEN [attempts[t][p] EXCEPT !.age = lag] ELSE attempts[t][p]]]
  /\ Enter("missing_receipt")
  /\ UNCHANGED <<etx, receipts, mempool, faults>>

\* any answer but "nonce too low" makes the transaction unconfirmed again
CheckConfirmedMissingReceipt ==
  LET S == {Sent(t, Highest(t)) : t \in {u \in In({"confirmed_missing_receipt"}) : PricesOf(u) # {}}} IN
  /\ phase = "missing_receipt"
  /\ \E answer \in [S -> UNION {Answer(a) : a \in S}] :
       /\ Send(S, answer)
       /\ etx' = [t \in Txs |->
            IF \E a \in S : a.tx = t /\ answer[a].err # "nonce_too_low"
            THEN [etx[t] EXCEPT !.state = "unconfirmed"] ELSE etx[t]]
  /\ Enter("receipts")
  /\ UNCHANGED <<attempts, receipts>>

\* mined attempts whose receipt is asked for
RequiringReceiptFetch ==
  {n \in DOMAIN mined :
     LET e == mined[n] IN
     /\ etx[e.tx].state \in {"unconfirmed", "confirmed_missing_receipt"}
     /\ attempts[e.tx][e.price].state \in {"in_progress", "broadcast"}}

\* the receipts of the blocks in `got' are saved, and their transactions are confirmed
saveFetchedReceipts(got) ==
  LET found(t, p) == {n \in got : mined[n].tx = t /\ mined[n].price = p} IN
  /\ receipts' = receipts \cup
       {[tx |-> mined[n].tx, price |-> mined[n].price, age |-> mined[n].age,
         chain |-> "longest"] : n \in got}
  /\ attempts' = [t \in Txs |-> [p \in Prices |->
       IF found(t, p) = {} THEN attempts[t][p]
       ELSE [state |-> "broadcast",
             age |-> IF attempts[t][p].age # Null THEN attempts[t][p].age
                     ELSE mined[CHOOSE n \in found(t, p) : TRUE].age]]]
  /\ etx' = [t \in Txs |-> IF \E p \in Prices : found(t, p) # {}
                           THEN [etx[t] EXCEPT !.state = "confirmed"] ELSE etx[t]]

CheckForReceipts ==
  /\ phase = "receipts"
  /\ \E got \in SUBSET RequiringReceiptFetch :
       /\ IF got = RequiringReceiptFetch THEN UNCHANGED faults ELSE Fault("noreceipt")
       /\ saveFetchedReceipts(got)
  /\ Enter(IF \E t \in In({"unconfirmed", "confirmed_missing_receipt"}) :
                WithState(t, {"in_progress", "broadcast"}) # {}
           THEN "mark_missing" ELSE "in_progress")
  /\ UNCHANGED mempool

markAllConfirmedMissingReceipt ==
  /\ phase = "mark_missing"
  /\ etx' = [t \in Txs |->
       IF etx[t].state = "unconfirmed" /\ \E s \in In({"confirmed"}) : etx[t].nonce < etx[s].nonce
       THEN [etx[t] EXCEPT !.state = "confirmed_missing_receipt"] ELSE etx[t]]
  /\ Enter("mark_old")
  /\ UNCHANGED <<attempts, receipts, mempool, faults>>

\* every attempt whose block is known was sent before the final blocks
Expired(t) ==
  LET ages == {attempts[t][p].age : p \in Prices} \ {Null} IN
  ages # {} /\ \A a \in ages : a - lag > FinalityDepth

markOldTxesMissingReceiptAsErrored ==
  /\ phase = "mark_old"
  /\ etx' = [t \in Txs |->
       IF etx[t].state = "confirmed_missing_receipt" /\ Expired(t)
       THEN [state |-> "fatal_error", nonce |-> Null] ELSE etx[t]]
  /\ Enter("in_progress")
  /\ UNCHANGED <<attempts, receipts, mempool, faults>>

\* the node's answer to an attempt that the confirmer has in progress
handleInProgressAttempt(t, p, r) ==
  /\ SendOne(Sent(t, p), r)
  /\ \/ /\ r.err = "ok"
        /\ attempts' = [attempts EXCEPT ![t][p] = [state |-> "broadcast", age |-> Null]]
        /\ UNCHANGED etx
     \/ /\ r.err = "nonce_too_low"                    \* saveConfirmedMissingReceiptAttempt
        /\ attempts' = [attempts EXCEPT ![t][p] = [state |-> "broadcast", age |-> Null]]
        /\ etx' = [etx EXCEPT ![t].state = "confirmed_missing_receipt"]
     \/ /\ r.err = "insufficient"
        /\ attempts' = [attempts EXCEPT ![t][p] = [state |-> "insufficient_eth", age |-> Null]]
        /\ UNCHANGED etx
     \/ /\ r.err = "feecap"                           \* deleteInProgressAttempt
        /\ attempts' = [attempts EXCEPT ![t][p] = NoAttempt]
        /\ UNCHANGED etx
     \/ /\ r.err = "unknown"
        /\ attempts' = [attempts EXCEPT ![t][p] = [state |-> "in_progress", age |-> Null]]
        /\ UNCHANGED etx
  /\ receipts' = {q \in receipts : attempts'[q.tx][q.price].state # "none"}

\* an error leaves the rest of the phases to the next head
NextPhase(r, next) == IF r.err = "unknown" THEN "idle" ELSE next

HasInProgressAttempt(t) ==
  /\ etx[t].state \in {"confirmed", "confirmed_missing_receipt", "unconfirmed"}
  /\ WithState(t, {"in_progress"}) # {}

handleAnyInProgressAttempts ==
  /\ phase \in {"in_progress", "last"}
  /\ \E t \in Txs :
       /\ HasInProgressAttempt(t)
       /\ \E p \in WithState(t, {"in_progress"}) : \E r \in Answer(Sent(t, p)) :
            /\ handleInProgressAttempt(t, p, r)
            /\ Enter(NextPhase(r, phase))

\* of the oldest transactions, those whose attempts were all sent long enough ago
FindEthTxsRequiringGasBump ==
  LET unconfirmed == In({"unconfirmed"})
      oldest == IF GasBumpTxDepth = 0 THEN unconfirmed ELSE Lowest(GasBumpTxDepth, unconfirmed)
  IN {t \in oldest : \A p \in PricesOf(t) :
        /\ attempts[t][p].state = "broadcast" /\ attempts[t][p].age # Null
        /\ attempts[t][p].age - lag >= GasBumpThreshold}

FindEthTxsRequiringRebroadcast ==
  Lowest(MaxInFlight,
         {t \in In({"unconfirmed"}) : WithState(t, {"insufficient_eth"}) # {}} \cup FindEthTxsRequiringGasBump)

rebroadcastWhereNecessary ==
  /\ phase = "in_progress" /\ \A t \in Txs : ~HasInProgressAttempt(t)
  /\ todo' = FindEthTxsRequiringRebroadcast
  /\ phase' = IF todo' = {} THEN "reorgs" ELSE "rebroadcast"
  /\ UNCHANGED <<db, head, env, faults, reorgs>>

\* the attempt resubmitted for want of ether, or a dearer one if there is one
attemptForRebroadcast(t) ==
  IF attempts[t][Highest(t)].state = "insufficient_eth" THEN Highest(t)
  ELSE IF Highest(t) < world.limit THEN Highest(t) + 1 ELSE Highest(t)

Rebroadcast(t) ==
  /\ phase = "rebroadcast" /\ t \in todo
  /\ \A s \in todo : etx[t].nonce <= etx[s].nonce
  /\ IF PricesOf(t) = {}
     THEN phase' = "idle" /\ todo' = {} /\ UNCHANGED <<etx, attempts, receipts, mempool, faults>>
     ELSE \E r \in Answer(Sent(t, attemptForRebroadcast(t))) :
            /\ handleInProgressAttempt(t, attemptForRebroadcast(t), r)
            /\ todo' = IF r.err = "unknown" THEN {} ELSE todo \ {t}
            /\ phase' = IF todo' # {} THEN phase ELSE NextPhase(r, "reorgs")
  /\ UNCHANGED <<nextNonce, head, mined, abandoned, world, reorgs>>

InHead(r) == (r.chain = "longest" /\ r.age >= common) \/ r.chain = "head"

\* confirmed, going by receipts from the blocks of the head, and not in one of them
ReorgedOut(t) ==
  LET own == {r \in receipts : r.tx = t} IN
  /\ etx[t].state \in {"confirmed", "confirmed_missing_receipt"}
  /\ \E r \in own : attempts[t][r.price].state = "broadcast" /\ r.age - lag \in 0 .. HistoryDepth - 1
  /\ ~\E r \in own : InHead(r) /\ r.age - lag \in 0 .. HistoryDepth - 1

markForRebroadcast(t) ==
  /\ phase = "reorgs" /\ ReorgedOut(t)
  /\ \A s \in Txs : ReorgedOut(s) => etx[t].nonce <= etx[s].nonce
  /\ IF etx[t].state = "confirmed" /\ attempts[t][Highest(t)].state = "broadcast"
     THEN /\ receipts' = {r \in receipts : r.tx # t}
          /\ etx' = [etx EXCEPT ![t].state = "unconfirmed"]
          /\ attempts' = [attempts EXCEPT ![t][Highest(t)] = [state |-> "in_progress", age |-> Null]]
          /\ phase' = "reorgs"
     ELSE phase' = "idle" /\ UNCHANGED <<etx, attempts, receipts>>
  /\ UNCHANGED <<nextNonce, todo, head, env, faults, reorgs>>

EnsureConfirmedTransactionsInLongestChain ==
  /\ phase = "reorgs" /\ \A t \in Txs : ~ReorgedOut(t)
  /\ Enter(IF \E t \in Txs : HasInProgressAttempt(t) THEN "last" ELSE "idle")
  /\ UNCHANGED <<etx, attempts, receipts, mempool, faults>>

HeadDone ==
  /\ phase = "last" /\ \A t \in Txs : ~HasInProgressAttempt(t)
  /\ Enter("idle")
  /\ UNCHANGED <<etx, attempts, receipts, mempool, faults>>

ProcessHead ==
  \/ TakeHead \/ SetBroadcastBeforeBlockNum \/ CheckConfirmedMissingReceipt \/ CheckForReceipts
  \/ markAllConfirmedMissingReceipt \/ markOldTxesMissingReceiptAsErrored
  \/ handleAnyInProgressAttempts \/ rebroadcastWhereNecessary
  \/ (\E t \in Txs : Rebroadcast(t))
  \/ (\E t \in Txs : markForRebroadcast(t)) \/ EnsureConfirmedTransactionsInLongestChain
  \/ HeadDone

-----------------------------------------------------------------------------
(***************************************************************************)
(* The resender, the reaper, and the process as a whole.                   *)
(***************************************************************************)
ResendUnconfirmed ==
  LET last(t) == WithState(t, {"insufficient_eth", "broadcast"})
      due == Lowest(MaxInFlight, {t \in In({"unconfirmed", "confirmed_missing_receipt"}) : last(t) # {}})
  IN /\ mempool' = mempool \cup {a \in {Sent(t, Max(last(t))) : t \in due} : Verdict(a) = "ok"}
     /\ mempool' # mempool
     /\ UNCHANGED <<db, phase, todo, head, mined, abandoned, world, faults, reorgs>>

\* Faulty variant: the block the chain is about to leave counts.
FinalOneEarly(r) == r.age >= ReorgDepth - 1

Final(r) == r.age > FinalityDepth

\* errored transactions are reaped too; nothing refers to them afterwards
ReapEthTxes(t) ==
  /\ etx[t].state = "confirmed"
  /\ \E r \in receipts : r.tx = t /\ Final(r)
  /\ etx' = [etx EXCEPT ![t] = [state |-> "reaped", nonce |-> Null]]
  /\ attempts' = [attempts EXCEPT ![t] = [p \in Prices |-> NoAttempt]]
  /\ receipts' = {r \in receipts : r.tx # t}
  /\ UNCHANGED <<nextNonce, phase, todo, head, env, faults, reorgs>>

\* Faulty variant: one too many.
NonceAfterPending == Min({n \in Len(mined) .. NumTxs : \A a \in mempool : a.nonce # n}) + 1

PendingNonce ==
  Min({n \in Len(mined) .. NumTxs : \A a \in mempool : a.nonce # n})

\* the process stops wherever it is and starts again, or a phase fails on the node or the database
Stop ==
  /\ phase # "idle" /\ Fault("stop")
  /\ LET ahead == IF In({"in_progress"}) # {} THEN 1 ELSE 0 IN   \* fastForwardNonceIfNecessary
     nextNonce' = IF PendingNonce > nextNonce + ahead THEN PendingNonce - ahead ELSE nextNonce
  /\ phase' = "idle" /\ todo' = {}
  /\ UNCHANGED <<etx, attempts, receipts, head, env, reorgs>>

-----------------------------------------------------------------------------
(***************************************************************************)
(* The chain and the nodes.  A head ends a chain that replaces the last    *)
(* `depth' blocks, whose transactions return to the mempool, and may have  *)
(* the next ones in it.                                                    *)
(***************************************************************************)
Older(age) == IF age = Null THEN Null ELSE Min({age + 1, OldAge})

NewHead(depth, taken) ==
  LET kept == SubSeq(mined, 1, Max({0} \cup {n \in DOMAIN mined : mined[n].age >= depth}))
      lost == {[nonce |-> n - 1, tx |-> mined[n].tx, price |-> mined[n].price] :
                 n \in Len(kept) + 1 .. Len(mined)}
      length == Len(kept) + Cardinality(taken)
  IN
  /\ lag < MaxLag
  /\ depth = 0 \/ (lost # {} /\ "reorg" \in world.kinds /\ reorgs < MaxReorgs)
  /\ taken \subseteq mempool \cup lost
  /\ {a.nonce : a \in taken} = Len(kept) .. length - 1
  /\ \A a \in taken : a.price >= world.going
  /\ mined' = [n \in 1 .. length |->
       IF n <= Len(kept) THEN [kept[n] EXCEPT !.age = Older(@)]
       ELSE LET a == CHOOSE a \in taken : a.nonce = n - 1
            IN [tx |-> a.tx, price |-> a.price, age |-> 0]]
  /\ mempool' = {a \in mempool \cup lost : a.nonce >= length}
  /\ receipts' = {[r EXCEPT !.age = Older(@),
                            !.chain = IF @ = "longest" /\ r.age < depth
                                      THEN IF phase # "idle" /\ r.age >= common THEN "head" ELSE "orphaned"
                                      ELSE @] : r \in receipts}
  /\ attempts' = [t \in Txs |-> [p \in Prices |-> [attempts[t][p] EXCEPT !.age = Older(@)]]]
  /\ lag' = lag + 1
  /\ common' = IF phase = "idle" THEN 0 ELSE Max({common, depth}) + 1
  /\ abandoned' = IF depth > 0 /\ length < Len(mined) THEN Len(mined)
                  ELSE IF length < abandoned THEN abandoned ELSE 0
  /\ reorgs' = reorgs + (IF depth > 0 THEN 1 ELSE 0)
  /\ UNCHANGED <<etx, nextNonce, phase, todo, world, faults>>

Mine == \E taken \in SUBSET mempool \ {{}} : NewHead(0, taken)

Reorganise ==
  LET known == mempool \cup {[nonce |-> n - 1, tx |-> mined[n].tx, price |-> mined[n].price] :
                               n \in DOMAIN mined}
  IN \E depth \in 1 .. ReorgDepth, taken \in SUBSET known : NewHead(depth, taken)

Evict == \E a \in mempool :
  /\ Fault("evict")
  /\ mempool' = mempool \ {a}
  /\ UNCHANGED <<db, phase, todo, head, mined, abandoned, world, reorgs>>

Broadcaster == \E t \in Txs : saveInProgressTransaction(t) \/ handleInProgressEthTx(t)

Next ==
  \/ \E t \in Txs : CreateEthTransaction(t) \/ ReapEthTxes(t)
  \/ Broadcaster
  \/ ProcessHead
  \/ ResendUnconfirmed
  \/ Stop
  \/ NewHead(0, {}) \/ Mine \/ Reorganise
  \/ Evict

(***************************************************************************)
(* The components run in loops of the process; blocks keep coming, and a   *)
(* transaction that stays in the mempool at a price a miner takes is mined *)
(* at some time.  Faults and reorganisations stop.                         *)
(***************************************************************************)
Fairness ==
  /\ WF_vars(Broadcaster) /\ WF_vars(ProcessHead) /\ WF_vars(ResendUnconfirmed)
  /\ WF_vars(NewHead(0, {})) /\ SF_vars(Mine)

Spec == Init /\ [][Next]_vars /\ Fairness

-----------------------------------------------------------------------------
OnChain(t) == \E n \in DOMAIN mined : mined[n].tx = t
Confirmed(t) == etx[t].state = "confirmed" /\ \E r \in receipts : r.tx = t /\ r.chain = "longest"

(***************************************************************************)
(* What the components rely on in each other's rows: at most one           *)
(* transaction is in_progress and it has exactly one attempt, which is in  *)
(* progress ("Your database is in an inconsistent state and this node will *)
(* not function correctly", eth_broadcaster.go:396); a later one has an    *)
(* attempt to rebroadcast and at most one in progress; one that is not     *)
(* sent yet has none.                                                      *)
(***************************************************************************)
RowsConsistent ==
  /\ Cardinality(In({"in_progress"})) <= 1
  /\ \A t \in Txs :
       /\ Cardinality(WithState(t, {"in_progress"})) <= 1
       /\ etx[t].state = "in_progress" =>
            Cardinality(PricesOf(t)) = 1 /\ WithState(t, {"in_progress"}) # {}
       /\ etx[t].state \in {"unconfirmed", "confirmed", "confirmed_missing_receipt"} => PricesOf(t) # {}
       /\ etx[t].state \in {"none", "unstarted", "reaped"} => PricesOf(t) = {}

(***************************************************************************)
(* "existence of a saved eth_tx_attempt" (eth_broadcaster.go:90): whatever *)
(* a node or the chain has of this account is an attempt in the database   *)
(* of a transaction that still holds its nonce, unless it was reaped;      *)
(* nothing is sent behind the node's back, and no transaction recorded as  *)
(* failed is carried out.                                                  *)
(***************************************************************************)
SentIsSaved ==
  LET saved(t, nonce, price) == etx[t].nonce = nonce /\ price \in PricesOf(t) IN
  /\ \A a \in mempool : saved(a.tx, a.nonce, a.price)
  /\ \A n \in DOMAIN mined : saved(mined[n].tx, n - 1, mined[n].price) \/ etx[mined[n].tx].state = "reaped"

(***************************************************************************)
(* "a monotonic series of increasing nonces for eth_txes that can all      *)
(* eventually be confirmed" (eth_broadcaster.go:88): every nonce given out *)
(* and not on the chain belongs to one transaction that is still looked    *)
(* after, so none waits behind a nonce nobody sends.                       *)
(***************************************************************************)
NoNonceGap ==
  \A n \in Len(mined) .. nextNonce - 1 :
    Cardinality({t \in Txs : etx[t].nonce = n /\ etx[t].state # "in_progress"}) = 1

(***************************************************************************)
(* The account's transactions are carried out once each and in the order   *)
(* they were created in, through crashes, retries and reorganisations.     *)
(***************************************************************************)
OnceInOrder == \A m, n \in DOMAIN mined : m < n => mined[m].tx < mined[n].tx

(***************************************************************************)
(* The reaper forgets only what was carried out: its receipts may be of    *)
(* blocks that the chain has left.                                         *)
(***************************************************************************)
ReapedIsMined == \A t \in Txs : etx[t].state = "reaped" => OnChain(t)

(***************************************************************************)
(* "Responsibility for ensuring eventual inclusion into the chain falls on *)
(* the shoulders of the ethConfirmer" (eth_broadcaster.go:84): after the   *)
(* last fault and reorganisation, every transaction ends up confirmed with *)
(* a receipt of the longest chain, or rejected and not on it, for good.    *)
(***************************************************************************)
Settled(t) ==
  \/ etx[t].state = "none" \/ Confirmed(t)
  \/ etx[t].state = "reaped" /\ OnChain(t)
  \/ etx[t].state = "fatal_error" /\ ~OnChain(t)

EventuallyConfirmed == <>[](\A t \in Txs : Settled(t))

(***************************************************************************)
(* "If any of the confirmed transactions does not have a receipt in the    *)
(* chain, it has been re-org'd out and will be rebroadcast"                *)
(* (eth_confirmer.go:1406), so that it ends up on the chain again.         *)
(***************************************************************************)
ReorgedIsRebroadcast ==
  \A t \in Txs : (etx[t].state = "confirmed" /\ ~OnChain(t)) ~> OnChain(t)

(***************************************************************************)
(* "Once eth_tx has all of its attempts broadcast before some cutoff       *)
(* threshold without receiving any receipts, we mark it as fatally         *)
(* errored" (eth_confirmer.go:746): what the confirmer gives up has no     *)
(* attempt that is still to be sent, or was sent since the final blocks.   *)
(***************************************************************************)
GivenUpIsOld ==
  [][\A t \in Txs : etx[t].state = "confirmed_missing_receipt" /\ etx'[t].state = "fatal_error" =>
       \A p \in PricesOf(t) : attempts[t][p].age # Null /\ attempts[t][p].age - lag > FinalityDepth]_vars

=============================================================================
