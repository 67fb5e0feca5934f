-------------------------- MODULE TxManager_proofs --------------------------
(***************************************************************************)
(* Facts about the transaction manager, for any number of transactions,    *)
(* prices, faults, reorganisations and heads, and in every world.          *)
(***************************************************************************)
EXTENDS TxManager, FiniteSetTheorems, SequenceTheorems, WellFoundedInduction, TLAPS

(***************************************************************************)
(* The least and the greatest member of a set of numbers, as the code's    *)
(* ORDER BY ... LIMIT 1 finds them.                                        *)
(***************************************************************************)
LEMMA GreatestExists ==
  ASSUME NEW S, S \subseteq Int, IsFiniteSet(S), S # {}
  PROVE  Max(S) \in S /\ \A y \in S : Max(S) >= y
<1> DEFINE above(x) == {z \in S : z > x}
           all == {above(x) : x \in S}
<1>1. \A x \in S : above(x) \in FiniteSubsetsOf(S)
  BY FS_Subset DEF FiniteSubsetsOf
<1>2. all \subseteq FiniteSubsetsOf(S) /\ all # {}
  <2>1. PICK x \in S : TRUE
    OBVIOUS
  <2>2. above(x) \in all
    OBVIOUS
  <2>3. QED
    BY <1>1, <2>2
<1>3. PICK x \in S : \A y \in S : ~(<<above(y), above(x)>> \in StrictSubsetOrdering(S))
  <2>0. \A y \in S : above(y) \in all
    OBVIOUS
  <2> HIDE DEF all
  <2>1. PICK s \in all : \A t \in all : ~(<<t, s>> \in StrictSubsetOrdering(S))
    BY <1>2, FS_StrictSubsetOrderingWellFounded, WFMin
  <2>2. PICK x \in S : s = above(x)
    BY DEF all
  <2> HIDE DEF above
  <2>3. QED
    BY <2>1, <2>2, <2>0
<1>4. ASSUME NEW y \in S, y > x PROVE FALSE
  <2>0. x \in Int /\ y \in Int /\ \A z \in S : z > y => z > x
    BY <1>4
  <2>1. above(y) \subseteq above(x)
    BY <2>0
  <2>5. y \in above(x)
    BY <1>4
  <2>6. y \notin above(y)
    BY <2>0
  <2>2. <<above(y), above(x)>> \in StrictSubsetOrdering(S)
    BY <2>1, <2>5, <2>6 DEF StrictSubsetOrdering
  <2> HIDE DEF above
  <2>3. QED
    BY <1>3, <2>2
<1>5. \A y \in S : x >= y
  BY <1>4
<1>6. QED
  BY <1>5 DEF Max

LEMMA LeastExists ==
  ASSUME NEW S, S \subseteq Int, IsFiniteSet(S), S # {}
  PROVE  Min(S) \in S /\ \A y \in S : Min(S) =< y
<1> DEFINE below(x) == {z \in S : z < x}
           all == {below(x) : x \in S}
<1>1. \A x \in S : below(x) \in FiniteSubsetsOf(S)
  BY FS_Subset DEF FiniteSubsetsOf
<1>2. all \subseteq FiniteSubsetsOf(S) /\ all # {}
  <2>1. PICK x \in S : TRUE
    OBVIOUS
  <2>2. below(x) \in all
    OBVIOUS
  <2>3. QED
    BY <1>1, <2>2
<1>3. PICK x \in S : \A y \in S : ~(<<below(y), below(x)>> \in StrictSubsetOrdering(S))
  <2>0. \A y \in S : below(y) \in all
    OBVIOUS
  <2> HIDE DEF all
  <2>1. PICK s \in all : \A t \in all : ~(<<t, s>> \in StrictSubsetOrdering(S))
    BY <1>2, FS_StrictSubsetOrderingWellFounded, WFMin
  <2>2. PICK x \in S : s = below(x)
    BY DEF all
  <2> HIDE DEF below
  <2>3. QED
    BY <2>1, <2>2, <2>0
<1>4. ASSUME NEW y \in S, y < x PROVE FALSE
  <2>0. x \in Int /\ y \in Int /\ \A z \in S : z < y => z < x
    BY <1>4
  <2>1. below(y) \subseteq below(x)
    BY <2>0
  <2>5. y \in below(x)
    BY <1>4
  <2>6. y \notin below(y)
    BY <2>0
  <2>2. <<below(y), below(x)>> \in StrictSubsetOrdering(S)
    BY <2>1, <2>5, <2>6 DEF StrictSubsetOrdering
  <2> HIDE DEF below
  <2>3. QED
    BY <1>3, <2>2
<1>5. \A y \in S : x =< y
  BY <1>4
<1>6. QED
  BY <1>5 DEF Min

LEMMA HighestIs ==
  ASSUME TxManagerAssumption, NEW t, PricesOf(t) # {}
  PROVE  Highest(t) \in PricesOf(t) /\ Highest(t) \in Prices
<1>1. IsFiniteSet(Prices)
  BY FS_Interval DEF Prices, TxManagerAssumption
<1>2. PricesOf(t) \subseteq Prices
  BY DEF PricesOf, WithState
<1>3. IsFiniteSet(PricesOf(t)) /\ PricesOf(t) \subseteq Int
  BY <1>1, <1>2, FS_Subset DEF Prices
<1>4. QED
  BY <1>2, <1>3, GreatestExists DEF Highest

-----------------------------------------------------------------------------
(***************************************************************************)
(* The inductive invariant of the rows.  RowOK is what a transaction's own *)
(* rows say of each other; the rest relates rows to other rows and to the  *)
(* confirmer's phase: while it rebroadcasts, nothing else of the confirmer *)
(* is in progress, which is why it can put one attempt in progress.        *)
(***************************************************************************)
Later == {"unconfirmed", "confirmed", "confirmed_missing_receipt"}
AttemptInProgress(t, p) == attempts[t][p].state = "in_progress"

RowOK(t) ==
  /\ etx[t].state \in Later \cup {"in_progress"} => etx[t].nonce # Null
  /\ \A p, q \in Prices : AttemptInProgress(t, p) /\ AttemptInProgress(t, q) => p = q
  /\ etx[t].state = "in_progress" =>
       \E p \in Prices : /\ AttemptInProgress(t, p)
                         /\ \A q \in Prices \ {p} : attempts[t][q].state = "none"
  /\ etx[t].state \in {"none", "unstarted", "reaped"} =>
       \A p \in Prices : attempts[t][p].state = "none"

OneInProgress ==
  \A t, u \in Txs : etx[t].state = "in_progress" /\ etx[u].state = "in_progress" => t = u

PhaseOK ==
  /\ \A t \in todo : etx[t].state = "unconfirmed"
  /\ phase = "rebroadcast" =>
       \A t \in Txs, p \in Prices : etx[t].state \in Later => ~AttemptInProgress(t, p)
  /\ phase = "reorgs" =>
       \A t \in Txs, p \in Prices :
         etx[t].state \in Later \ {"unconfirmed"} => ~AttemptInProgress(t, p)
  /\ common <= lag + ReorgDepth

RowsInv == (\A t \in Txs : RowOK(t)) /\ OneInProgress /\ PhaseOK

(***************************************************************************)
(* The nonce a transaction holds, or held when something was sent for it:  *)
(* in its row, in the mempool or on the chain.                             *)
(***************************************************************************)
Started(t) == etx[t].state \notin {"none", "unstarted"}

Claims(t, n) ==
  \/ etx[t].nonce = n
  \/ \E a \in mempool : a.tx = t /\ a.nonce = n
  \/ n + 1 \in DOMAIN mined /\ mined[n + 1].tx = t

(***************************************************************************)
(* Transactions start in the order of their creation, and nonces were      *)
(* claimed in that order: this is all that OnceInOrder needs, and no fault *)
(* and no reorganisation disturbs it.                                      *)
(***************************************************************************)
QueueOrder ==
  /\ \A t, u \in Txs : etx[u].state = "none" /\ u < t => etx[t].state = "none"
  /\ \A t, u \in Txs : Started(t) /\ ~Started(u) => t < u
  /\ \A u \in Txs : ~Started(u) => nextNonce < u

ClaimsInOrder ==
  /\ \A t \in Txs, n \in Nat : Claims(t, n) => Started(t) /\ n <= nextNonce /\ n < t
  /\ \A t, u \in Txs, m, n \in Nat : Claims(t, m) /\ Claims(u, n) /\ t <= u => m <= n

NoncesInv == QueueOrder /\ ClaimsInOrder

Inv == TypeOK /\ RowsInv /\ NoncesInv

(***************************************************************************)
(* What most steps leave alone: the rows of the other transactions; the    *)
(* order, when nothing is started and no claim is added.                   *)
(***************************************************************************)
LEMMA RowKept ==
  ASSUME NEW u, RowOK(u), etx'[u] = etx[u], attempts'[u] = attempts[u]
  PROVE  RowOK(u)'
  BY DEF RowOK, AttemptInProgress

AddsNoClaim ==
  /\ \A t \in Txs : Started(t)' = Started(t)
  /\ \A t \in Txs, n \in Nat : Claims(t, n)' => Claims(t, n)

LEMMA ClaimsKept ==
  ASSUME TypeOK, ClaimsInOrder, AddsNoClaim, nextNonce' \in Nat, nextNonce <= nextNonce'
  PROVE  ClaimsInOrder'
<1>1. nextNonce \in Nat
  BY DEF TypeOK
<1>2. QED
  BY <1>1 DEF ClaimsInOrder, AddsNoClaim

LEMMA OrderKept ==
  ASSUME TypeOK, NoncesInv, AddsNoClaim, nextNonce' \in Nat, nextNonce <= nextNonce',
         \A t \in Txs : (etx[t].state = "none")' = (etx[t].state = "none"),
         \A u \in Txs : ~Started(u) => nextNonce' < u
  PROVE  NoncesInv'
<1>1. QueueOrder'
  BY DEF NoncesInv, QueueOrder, AddsNoClaim
<1>2. ClaimsInOrder'
  BY ClaimsKept DEF NoncesInv
<1>3. QED
  BY <1>1, <1>2 DEF NoncesInv

LEMMA SendsClaimed ==
  ASSUME TypeOK, UNCHANGED mined,
         \A a \in mempool' : a \in mempool \/ etx[a.tx].nonce = a.nonce,
         \A u \in Txs : etx'[u].nonce \in {etx[u].nonce, Null},
         NEW u \in Txs, NEW n \in Nat, Claims(u, n)'
  PROVE  Claims(u, n)
  BY DEF Claims, Null

-----------------------------------------------------------------------------
(***************************************************************************)
(* The world, the attempts that are sent in it, and the answers.           *)
(***************************************************************************)
LEMMA WorldTyped ==
  ASSUME TxManagerAssumption, TypeOK
  PROVE  /\ world.limit \in Prices /\ world.floor \in Prices /\ world.going \in Prices
         /\ world.bad \subseteq Txs /\ world.kinds \subseteq FaultKinds
<1>1. world \in World
  BY DEF TxManagerAssumption, TypeOK
<1>2. QED
  BY <1>1 DEF World

Attempts == [nonce : Nat, tx : Txs, price : Prices]
Blocks == [tx : Txs, price : Prices, age : 0 .. OldAge]

LEMMA MinedTyped ==
  ASSUME TypeOK
  PROVE  /\ mined \in Seq(Blocks) /\ Len(mined) \in Nat /\ DOMAIN mined = 1 .. Len(mined)
         /\ \A n \in DOMAIN mined : mined[n] \in Blocks
<1>1. mined \in Seq(Blocks)
  BY DEF TypeOK, Blocks
<1>2. QED
  BY <1>1

LEMMA SentTyped ==
  ASSUME TypeOK, NEW t \in Txs, NEW p \in Prices, etx[t].nonce # Null
  PROVE  /\ Sent(t, p) \in Attempts /\ Sent(t, p).tx = t /\ Sent(t, p).price = p
         /\ Sent(t, p).nonce = etx[t].nonce
  BY DEF TypeOK, Sent, Attempts

LEMMA AnswerIs ==
  ASSUME TxManagerAssumption, TypeOK, NEW a \in Attempts, NEW r \in Answer(a)
  PROVE  /\ r.err \in {"ok", "fatal", "nonce_too_low", "underpriced", "unknown", "insufficient", "feecap"}
         /\ r.taken => Verdict(a) = "ok"
         /\ r.faulty \in 0 .. 1
         /\ r.err \in {"ok", "fatal", "underpriced"} => Verdict(a) = r.err
         /\ r.err = "nonce_too_low" => Verdict(a) = r.err \/ a.nonce < abandoned
         /\ r.err \in {"unknown", "insufficient", "feecap"} => r.err \in world.kinds
<1>1. Verdict(a) \in {"ok", "fatal", "nonce_too_low", "underpriced"}
  BY DEF Verdict
<1> DEFINE right == [err |-> Verdict(a), taken |-> (Verdict(a) = "ok"), faulty |-> 0]
<1>2. CASE r = right
  <2>1. r.err = Verdict(a) /\ r.faulty = 0
    BY <1>2
  <2>2. r.taken => Verdict(a) = "ok"
    BY <1>2, Zenon
  <2>3. QED
    BY <1>1, <2>1, <2>2
<1>3. CASE r # right
  <2>1. /\ r \in [err : world.kinds \cup {"nonce_too_low"}, taken : BOOLEAN, faulty : {1}]
        /\ \/ r.err = "unknown" /\ (r.taken => Verdict(a) = "ok")
           \/ r.err = "nonce_too_low" /\ a.nonce \in Len(mined) .. abandoned - 1 /\ ~r.taken
           \/ r.err \in {"insufficient", "feecap"} /\ Verdict(a) = "ok" /\ ~r.taken
    BY <1>3 DEF Answer
  <2>2. Len(mined) \in Nat /\ abandoned \in Nat /\ a.nonce \in Nat
    BY DEF TypeOK, Attempts
  <2>3. r.err \in world.kinds \cup {"nonce_too_low"} /\ r.faulty = 1
    BY <2>1
  <2> HIDE DEF right
  <2>4. QED
    BY <2>1, <2>2, <2>3
<1>4. QED
  BY <1>2, <1>3

LEMMA SentOne ==
  ASSUME TxManagerAssumption, TypeOK, NEW a \in Attempts, NEW r, SendOne(a, r)
  PROVE  /\ r \in Answer(a)
         /\ mempool' \subseteq Attempts
         /\ \A b \in mempool' : b \in mempool \/ (b = a /\ Verdict(a) = "ok")
         /\ faults' \in 0 .. MaxFaults
<1>1. r.faulty \in 0 .. 1 /\ r \in Answer(a) /\ (r.taken => Verdict(a) = "ok")
  BY AnswerIs DEF SendOne
<1>2. faults' \in 0 .. MaxFaults
  BY <1>1 DEF SendOne, TypeOK, TxManagerAssumption
<1>3. QED
  BY <1>1, <1>2 DEF SendOne, TypeOK, Attempts

-----------------------------------------------------------------------------
(***************************************************************************)
(* The pipelines and the broadcaster.                                      *)
(***************************************************************************)
LEMMA CreateStep ==
  ASSUME TxManagerAssumption, Inv, NEW t \in Txs, CreateEthTransaction(t)
  PROVE  Inv'
<1> USE DEF Inv
<1>1. TypeOK'
  BY DEF CreateEthTransaction, TypeOK, head, env, EtxStates
<1>2. /\ etx' \in [Txs -> [state : EtxStates, nonce : Nat \cup {Null}]]
      /\ etx[t].state = "none" /\ etx'[t].state = "unstarted" /\ etx'[t].nonce = etx[t].nonce
      /\ \A u \in Txs \ {t} : etx'[u] = etx[u]
      /\ attempts' = attempts /\ UNCHANGED <<nextNonce, phase, todo, lag, common, mempool, mined>>
  <2>1. etx \in [Txs -> [state : EtxStates, nonce : Nat \cup {Null}]] /\ etx' \in [Txs -> [state : EtxStates, nonce : Nat \cup {Null}]]
    BY <1>1 DEF TypeOK
  <2>2. /\ etx[t].state = "none" /\ etx' = [etx EXCEPT ![t].state = "unstarted"]
        /\ attempts' = attempts /\ UNCHANGED <<nextNonce, phase, todo, lag, common, mempool, mined>>
    BY DEF CreateEthTransaction, head, env
  <2>3. QED
    BY <2>1, <2>2
<1>3. RowsInv'
  <2>1. RowOK(t)'
    BY <1>2 DEF RowsInv, RowOK, AttemptInProgress, Later
  <2>2. \A u \in Txs \ {t} : RowOK(u)'
    BY <1>2, RowKept DEF RowsInv
  <2>3. OneInProgress'
    BY <1>2 DEF RowsInv, OneInProgress
  <2>4. PhaseOK'
    <3>1. \A u \in Txs : etx'[u].state \in Later \cup {"unconfirmed"} => etx'[u] = etx[u]
      BY <1>2 DEF Later
    <3>2. todo \subseteq Txs /\ \A u \in todo : etx[u].state = "unconfirmed"
      BY DEF TypeOK, RowsInv, PhaseOK
    <3>3. \A u \in todo' : etx'[u].state = "unconfirmed"
      BY <1>2, <3>2
    <3>4. QED
      BY <1>2, <3>1, <3>3 DEF RowsInv, PhaseOK, AttemptInProgress
  <2>5. QED
    BY <2>1, <2>2, <2>3, <2>4 DEF RowsInv
<1>4. NoncesInv'
  <2>1. QueueOrder'
    <3>1. \A u \in Txs : u < t => etx[u].state # "none"
      BY DEF CreateEthTransaction, Txs
    <3>2. \A u \in Txs : /\ Started(u)' = Started(u)
                         /\ etx'[u].state = "none" <=> etx[u].state = "none" /\ u # t
      BY <1>2 DEF Started
    <3>3. QueueOrder /\ nextNonce' = nextNonce /\ \A u \in Txs : u \in Int
      BY <1>2 DEF NoncesInv, Txs
    <3>4. \A u, v \in Txs : etx'[u].state = "none" /\ u < v => etx'[v].state = "none"
      BY <3>1, <3>2, <3>3 DEF QueueOrder, Started
    <3>5. QED
      BY <3>2, <3>3, <3>4 DEF QueueOrder, Started
  <2>2. AddsNoClaim
    BY <1>2 DEF AddsNoClaim, Started, Claims
  <2>3. ClaimsInOrder'
    BY <1>2, <2>2, ClaimsKept DEF NoncesInv, TypeOK
  <2>4. QED
    BY <2>1, <2>3 DEF NoncesInv
<1>5. QED
  BY <1>1, <1>3, <1>4

LEMMA SaveInProgressStep ==
  ASSUME TxManagerAssumption, Inv, NEW t \in Txs, saveInProgressTransaction(t)
  PROVE  Inv'
<1> USE DEF Inv
<1>1. TypeOK'
  BY DEF saveInProgressTransaction, TypeOK, head, env, EtxStates, AttemptStates, Prices, TxManagerAssumption
<1>2. /\ etx[t].state = "unstarted" /\ \A s \in Txs : etx[s].state = "unstarted" => t <= s
      /\ \A s \in Txs : etx[s].state # "in_progress"
      /\ etx'[t] = [state |-> "in_progress", nonce |-> nextNonce]
      /\ \A u \in Txs \ {t} : etx'[u] = etx[u] /\ attempts'[u] = attempts[u]
      /\ 1 \in Prices /\ attempts'[t][1].state = "in_progress"
      /\ \A p \in Prices \ {1} : attempts'[t][p] = attempts[t][p]
      /\ UNCHANGED <<nextNonce, phase, todo, lag, common, mempool, mined>>
  BY DEF saveInProgressTransaction, findNextUnstartedTransaction, In, TypeOK, head, env, Prices, TxManagerAssumption
<1>3. nextNonce \in Nat
  BY DEF TypeOK
<1>4. RowsInv'
  <2>1. RowOK(t)'
    BY <1>2, <1>3 DEF RowsInv, RowOK, AttemptInProgress, Later, Null
  <2>2. \A u \in Txs \ {t} : RowOK(u)'
    BY <1>2, RowKept DEF RowsInv
  <2>3. OneInProgress'
    BY <1>2 DEF RowsInv, OneInProgress
  <2>4. PhaseOK'
    <3>1. todo \subseteq Txs /\ t \notin todo
      BY <1>2 DEF RowsInv, PhaseOK, TypeOK
    <3>2. \A u \in Txs, p \in Prices : etx'[u].state \in Later =>
            etx[u].state = etx'[u].state /\ attempts'[u][p] = attempts[u][p]
      BY <1>2 DEF Later
    <3>3. QED
      BY <1>2, <3>1, <3>2 DEF RowsInv, PhaseOK, AttemptInProgress
  <2>5. QED
    BY <2>1, <2>2, <2>3, <2>4 DEF RowsInv
<1>5. NoncesInv'
  <2>1. QueueOrder'
    BY <1>2 DEF NoncesInv, QueueOrder, Started, Txs
  <2>2. \A u \in Txs, n \in Nat : Claims(u, n)' <=> Claims(u, n) \/ (u = t /\ n = nextNonce)
    <3>1. etx[t].nonce \notin Nat
      BY <1>2 DEF NoncesInv, ClaimsInOrder, Started, Claims
    <3>2. QED
      BY <1>2, <1>3, <3>1 DEF Claims
  <2>3. \A u \in Txs, n \in Nat : Claims(u, n) => Started(u) /\ n <= nextNonce /\ n < u
    BY DEF NoncesInv, ClaimsInOrder
  <2>4. nextNonce < t /\ \A u \in Txs : Started(u) => u < t
    BY <1>2 DEF NoncesInv, QueueOrder, Started
  <2>5. \A u \in Txs : Started(u)' <=> Started(u) \/ u = t
    BY <1>2 DEF Started
  <2>6. ClaimsInOrder'
    BY <1>2, <1>3, <2>2, <2>3, <2>4, <2>5 DEF NoncesInv, ClaimsInOrder, Txs
  <2>7. QED
    BY <2>1, <2>6 DEF NoncesInv
<1>6. QED
  BY <1>1, <1>4, <1>5

(***************************************************************************)
(* What an answer to the in_progress transaction's attempt makes of its    *)
(* rows: given up, sent, tried at a dearer price, or left as it is.        *)
(***************************************************************************)
GivesUp(t) ==
  /\ etx'[t] = [state |-> "fatal_error", nonce |-> Null]
  /\ \A q \in Prices : attempts'[t][q] = NoAttempt
  /\ nextNonce' = nextNonce

Saves(t, p) ==
  /\ nextNonce = etx[t].nonce /\ nextNonce' = nextNonce + 1
  /\ etx'[t] = [state |-> "unconfirmed", nonce |-> etx[t].nonce]
  /\ attempts'[t][p].state = "broadcast"
  /\ \A q \in Prices \ {p} : attempts'[t][q] = attempts[t][q]

Bumps(t, p) ==
  /\ p + 1 \in Prices
  /\ attempts'[t][p + 1].state = "in_progress"
  /\ \A q \in Prices \ {p, p + 1} : attempts'[t][q] = attempts[t][q]
  /\ attempts'[t][p].state = "none" /\ attempts'[t][p].age = Null
  /\ etx' = etx /\ nextNonce' = nextNonce

Waits == UNCHANGED <<etx, attempts, nextNonce>>

LEMMA HandleInProgressEffect ==
  ASSUME TxManagerAssumption, Inv, NEW t \in Txs, handleInProgressEthTx(t)
  PROVE  /\ TypeOK'
         /\ etx[t].state = "in_progress"
         /\ \A u \in Txs \ {t} : etx'[u] = etx[u] /\ attempts'[u] = attempts[u]
         /\ UNCHANGED <<receipts, phase, todo, lag, common, mined, abandoned, world, reorgs>>
         /\ \/ GivesUp(t) /\ UNCHANGED mempool /\ "checker" \in world.kinds
            \/ \E p \in Prices : \E r \in Answer(Sent(t, p)) :
                 /\ SendOne(Sent(t, p), r) /\ AttemptInProgress(t, p)
                 /\ \/ r.err = "fatal" /\ GivesUp(t)
                    \/ r.err \in {"ok", "nonce_too_low"} /\ Saves(t, p)
                    \/ r.err = "underpriced" /\ (Bumps(t, p) \/ Waits)
                    \/ r.err \in {"unknown", "insufficient", "feecap"} /\ Waits
<1> USE DEF Inv
<1>1. etx[t].state = "in_progress" /\ etx[t].nonce # Null
  BY DEF handleInProgressEthTx, RowsInv, RowOK
<1>2. PICK p \in Prices : PricesOf(t) = {p} /\ AttemptInProgress(t, p)
  BY <1>1 DEF RowsInv, RowOK, AttemptInProgress, PricesOf, WithState, AttemptStates, TypeOK
<1>3. Highest(t) = p
  BY <1>2, HighestIs
<1>4. nextNonce \in Nat /\ (nextNonce = etx[t].nonce => nextNonce + 1 \in 0 .. NumTxs)
  BY DEF TypeOK, NoncesInv, ClaimsInOrder, Claims, Txs, TxManagerAssumption
<1>5. UNCHANGED <<receipts, phase, todo, lag, common, mined, abandoned, world, reorgs>>
  BY DEF handleInProgressEthTx, head
<1>6. ASSUME saveFatallyErroredTransaction(t)
      PROVE  /\ GivesUp(t) /\ \A u \in Txs \ {t} : etx'[u] = etx[u] /\ attempts'[u] = attempts[u]
             /\ etx' \in [Txs -> [state : EtxStates, nonce : Nat \cup {Null}]]
             /\ attempts' \in [Txs -> [Prices -> [state : AttemptStates, age : 0 .. OldAge \cup {Null}]]]
  BY <1>6 DEF saveFatallyErroredTransaction, GivesUp, TypeOK, NoAttempt, EtxStates, AttemptStates
<1>7. ASSUME saveAttempt(t, p)
      PROVE  /\ Saves(t, p) /\ \A u \in Txs \ {t} : etx'[u] = etx[u] /\ attempts'[u] = attempts[u]
             /\ etx' \in [Txs -> [state : EtxStates, nonce : Nat \cup {Null}]]
             /\ attempts' \in [Txs -> [Prices -> [state : AttemptStates, age : 0 .. OldAge \cup {Null}]]]
  <2>1. /\ nextNonce = etx[t].nonce /\ nextNonce' = nextNonce + 1
        /\ etx' = [etx EXCEPT ![t].state = "unconfirmed"]
        /\ attempts' = [attempts EXCEPT ![t][p].state = "broadcast"]
    BY <1>7 DEF saveAttempt
  <2>2. etx' \in [Txs -> [state : EtxStates, nonce : Nat \cup {Null}]]
        /\ etx'[t] = [state |-> "unconfirmed", nonce |-> etx[t].nonce]
    <3>1. etx[t] \in [state : EtxStates, nonce : Nat \cup {Null}] /\ t \in DOMAIN etx
      BY DEF TypeOK
    <3>2. etx'[t] = [etx[t] EXCEPT !.state = "unconfirmed"]
      BY <2>1, <3>1
    <3>3. etx'[t] = [state |-> "unconfirmed", nonce |-> etx[t].nonce]
      BY <3>1, <3>2
    <3>4. etx' \in [Txs -> [state : EtxStates, nonce : Nat \cup {Null}]]
      BY <2>1 DEF TypeOK, EtxStates
    <3>5. QED
      BY <3>3, <3>4
  <2>3. attempts' \in [Txs -> [Prices -> [state : AttemptStates, age : 0 .. OldAge \cup {Null}]]]
        /\ attempts'[t][p].state = "broadcast"
        /\ \A q \in Prices \ {p} : attempts'[t][q] = attempts[t][q]
    <3> DEFINE Att == [state : AttemptStates, age : 0 .. OldAge \cup {Null}]
               new == [attempts[t][p] EXCEPT !.state = "broadcast"]
    <3>1. attempts \in [Txs -> [Prices -> Att]]
      BY DEF TypeOK
    <3>2. new \in Att /\ new.state = "broadcast"
      BY <3>1 DEF AttemptStates
    <3>3. attempts' = [attempts EXCEPT ![t] = [attempts[t] EXCEPT ![p] = new]]
      BY <2>1
    <3> HIDE DEF Att, new
    <3>4. attempts' \in [Txs -> [Prices -> Att]]
      BY <3>1, <3>2, <3>3
    <3>5. attempts'[t][p] = new /\ \A q \in Prices \ {p} : attempts'[t][q] = attempts[t][q]
      BY <3>1, <3>2, <3>3
    <3>6. QED
      BY <3>2, <3>4, <3>5 DEF Att
  <2>4. \A u \in Txs \ {t} : etx'[u] = etx[u] /\ attempts'[u] = attempts[u]
    BY <2>1 DEF TypeOK
  <2>5. QED
    BY <2>1, <2>2, <2>3, <2>4 DEF Saves
<1>8. ASSUME tryAgainBumpingGas(t, p)
      PROVE  /\ Bumps(t, p) \/ Waits
             /\ \A u \in Txs \ {t} : etx'[u] = etx[u] /\ attempts'[u] = attempts[u]
             /\ etx' = etx
             /\ attempts' \in [Txs -> [Prices -> [state : AttemptStates, age : 0 .. OldAge \cup {Null}]]]
  <2>1. CASE p + 1 >= world.limit
    BY <1>8, <2>1 DEF tryAgainBumpingGas, Waits, TypeOK
  <2>2. CASE ~(p + 1 >= world.limit)
    <3>1. p \in Nat /\ p + 1 \in Prices
      BY <2>2, WorldTyped DEF Prices, TxManagerAssumption
    <3> DEFINE dropped == [attempts EXCEPT ![t][p] = NoAttempt]
    <3>2. dropped \in [Txs -> [Prices -> [state : AttemptStates, age : 0 .. OldAge \cup {Null}]]]
          /\ dropped[t][p] = NoAttempt /\ (\A q \in Prices \ {p} : dropped[t][q] = attempts[t][q])
          /\ \A u \in Txs \ {t} : dropped[u] = attempts[u]
      BY DEF TypeOK, NoAttempt, AttemptStates
    <3>3. attempts' = [dropped EXCEPT ![t][p + 1] = [state |-> "in_progress", age |-> Null]]
      BY <1>8, <2>2 DEF tryAgainBumpingGas
    <3> HIDE DEF dropped
    <3>4. attempts' \in [Txs -> [Prices -> [state : AttemptStates, age : 0 .. OldAge \cup {Null}]]]
      BY <3>1, <3>2, <3>3 DEF AttemptStates
    <3>5. Bumps(t, p)
      BY <1>8, <3>1, <3>2, <3>3 DEF Bumps, tryAgainBumpingGas, NoAttempt
    <3>6. QED
      BY <1>8, <3>2, <3>3, <3>4, <3>5 DEF tryAgainBumpingGas
  <2>3. QED
    BY <2>1, <2>2
<1>9. CASE Fault("checker") /\ saveFatallyErroredTransaction(t) /\ UNCHANGED mempool
  <2>1. faults' \in 0 .. MaxFaults /\ "checker" \in world.kinds
    BY <1>9 DEF Fault, TypeOK, TxManagerAssumption
  <2>2. TypeOK'
    BY <1>4, <1>5, <1>6, <1>9, <2>1 DEF TypeOK, GivesUp
  <2>3. QED
    BY <1>1, <1>5, <1>6, <1>9, <2>1, <2>2
<1>10. ASSUME NEW r \in Answer(Sent(t, p)), SendOne(Sent(t, p), r),
              \/ Fatal(r.err) /\ saveFatallyErroredTransaction(t)
              \/ r.err \in {"ok", "nonce_too_low"} /\ saveAttempt(t, p)
              \/ r.err = "underpriced" /\ tryAgainBumpingGas(t, p)
              \/ /\ r.err \in {"unknown", "insufficient", "feecap"} /\ ~Fatal(r.err)
                 /\ UNCHANGED <<etx, attempts, nextNonce>>
       PROVE  /\ TypeOK'
              /\ \A u \in Txs \ {t} : etx'[u] = etx[u] /\ attempts'[u] = attempts[u]
              /\ \/ r.err = "fatal" /\ GivesUp(t)
                 \/ r.err \in {"ok", "nonce_too_low"} /\ Saves(t, p)
                 \/ r.err = "underpriced" /\ (Bumps(t, p) \/ Waits)
                 \/ r.err \in {"unknown", "insufficient", "feecap"} /\ Waits
  <2>1. mempool' \subseteq Attempts /\ faults' \in 0 .. MaxFaults
    BY <1>1, <1>10, SentTyped, SentOne
  <2>2. CASE r.err = "fatal" /\ saveFatallyErroredTransaction(t)
    BY <1>4, <1>5, <1>6, <2>1, <2>2 DEF TypeOK, Attempts, GivesUp
  <2>3. CASE r.err \in {"ok", "nonce_too_low"} /\ saveAttempt(t, p)
    BY <1>4, <1>5, <1>7, <2>1, <2>3 DEF TypeOK, Attempts, Saves
  <2>4. CASE r.err = "underpriced" /\ tryAgainBumpingGas(t, p)
    <3>1. nextNonce' = nextNonce
      BY <2>4 DEF tryAgainBumpingGas
    <3>2. QED
      BY <1>4, <1>5, <1>8, <2>1, <2>4, <3>1 DEF TypeOK, Attempts
  <2>5. CASE r.err \in {"unknown", "insufficient", "feecap"} /\ UNCHANGED <<etx, attempts, nextNonce>>
    BY <1>4, <1>5, <2>1, <2>5 DEF TypeOK, Attempts, Waits
  <2>6. QED
    BY <1>10, <2>2, <2>3, <2>4, <2>5 DEF Fatal
<1>11. QED
  <2>1. \/ Fault("checker") /\ saveFatallyErroredTransaction(t) /\ UNCHANGED mempool
        \/ \E r \in Answer(Sent(t, p)) :
             /\ SendOne(Sent(t, p), r)
             /\ \/ Fatal(r.err) /\ saveFatallyErroredTransaction(t)
                \/ r.err \in {"ok", "nonce_too_low"} /\ saveAttempt(t, p)
                \/ r.err = "underpriced" /\ tryAgainBumpingGas(t, p)
                \/ /\ r.err \in {"unknown", "insufficient", "feecap"} /\ ~Fatal(r.err)
                   /\ UNCHANGED <<etx, attempts, nextNonce>>
    BY <1>3 DEF handleInProgressEthTx
  <2>2. QED
    BY <1>1, <1>2, <1>5, <1>9, <1>10, <2>1

LEMMA HandleInProgressStep ==
  ASSUME TxManagerAssumption, Inv, NEW t \in Txs, handleInProgressEthTx(t)
  PROVE  Inv'
<1> USE DEF Inv
<1>1. /\ TypeOK'
      /\ etx[t].state = "in_progress"
      /\ \A u \in Txs \ {t} : etx'[u] = etx[u] /\ attempts'[u] = attempts[u]
      /\ UNCHANGED <<phase, todo, lag, common, mined>>
      /\ GivesUp(t) \/ Waits \/ \E p \in Prices : AttemptInProgress(t, p) /\ (Saves(t, p) \/ Bumps(t, p))
  BY HandleInProgressEffect
<1>2. \A a \in mempool' : a \in mempool \/ etx[a.tx].nonce = a.nonce
  <2>1. etx[t].nonce # Null
    BY <1>1 DEF RowsInv, RowOK
  <2>2. CASE UNCHANGED mempool
    BY <2>2
  <2>3. ASSUME NEW p \in Prices, NEW r, SendOne(Sent(t, p), r)
        PROVE  \A a \in mempool' : a \in mempool \/ etx[a.tx].nonce = a.nonce
    BY <2>1, <2>3, SentTyped, SentOne
  <2>4. QED
    BY <2>2, <2>3, HandleInProgressEffect
<1>3. /\ etx'[t].state \in {"in_progress", "unconfirmed", "fatal_error"}
      /\ etx'[t].nonce \in {etx[t].nonce, Null}
  BY <1>1 DEF GivesUp, Waits, Saves, Bumps, TypeOK
<1>4. RowsInv'
  <2>1. RowOK(t)'
    <3>1. RowOK(t) /\ nextNonce # Null
      BY DEF RowsInv, TypeOK, Null
    <3>2. CASE Waits
      BY <3>1, <3>2 DEF RowOK, AttemptInProgress, Waits
    <3>3. CASE GivesUp(t)
      BY <3>3 DEF RowOK, AttemptInProgress, GivesUp, NoAttempt, Later
    <3>4. ASSUME NEW p \in Prices, AttemptInProgress(t, p), Saves(t, p) PROVE RowOK(t)'
      BY <1>1, <3>1, <3>4 DEF RowOK, AttemptInProgress, Saves, Later
    <3>5. ASSUME NEW p \in Prices, AttemptInProgress(t, p), Bumps(t, p) PROVE RowOK(t)'
      BY <1>1, <3>1, <3>5 DEF RowOK, AttemptInProgress, Bumps, Later
    <3>6. QED
      BY <1>1, <3>2, <3>3, <3>4, <3>5
  <2>2. \A u \in Txs \ {t} : RowOK(u)'
    BY <1>1, RowKept DEF RowsInv
  <2>3. OneInProgress'
    BY <1>1, <1>3 DEF RowsInv, OneInProgress
  <2>4. PhaseOK'
    <3>1. todo \subseteq Txs /\ t \notin todo
      BY <1>1 DEF RowsInv, PhaseOK, TypeOK
    <3>2. ASSUME etx'[t].state \in Later PROVE \A p \in Prices : ~AttemptInProgress(t, p)'
      <4>1. PICK p \in Prices : AttemptInProgress(t, p) /\ Saves(t, p)
        BY <1>1, <3>2 DEF GivesUp, Waits, Bumps, Later
      <4>2. QED
        BY <1>1, <4>1 DEF Saves, AttemptInProgress, RowsInv, RowOK
    <3>3. QED
      BY <1>1, <3>1, <3>2 DEF RowsInv, PhaseOK, AttemptInProgress
  <2>5. QED
    BY <2>1, <2>2, <2>3, <2>4 DEF RowsInv
<1>5. NoncesInv'
  <2>1. AddsNoClaim
    BY <1>1, <1>2, <1>3, SendsClaimed DEF AddsNoClaim, Started
  <2>2. nextNonce \in Nat /\ nextNonce' \in Nat /\ nextNonce <= nextNonce'
    BY <1>1 DEF TypeOK, GivesUp, Waits, Saves, Bumps
  <2>3. \A u \in Txs : ~Started(u) => nextNonce' < u
    <3>1. \A u \in Txs : ~Started(u) => t < u /\ nextNonce < u
      BY <1>1 DEF NoncesInv, QueueOrder, Started
    <3>2. CASE nextNonce' = nextNonce
      BY <3>1, <3>2
    <3>3. CASE nextNonce = etx[t].nonce /\ nextNonce' = nextNonce + 1
      <4>1. nextNonce < t
        BY <2>2, <3>3 DEF NoncesInv, ClaimsInOrder, Claims
      <4>2. QED
        BY <2>2, <3>1, <3>3, <4>1 DEF Txs
    <3>4. QED
      BY <1>1, <3>2, <3>3 DEF GivesUp, Waits, Saves, Bumps
  <2>4. QED
    BY <1>1, <1>3, <2>1, <2>2, <2>3, OrderKept
<1>6. QED
  BY <1>1, <1>4, <1>5

-----------------------------------------------------------------------------
(***************************************************************************)
(* The confirmer.  It changes rows of transactions that were sent, and     *)
(* sends attempts of theirs: the order of nonces does not depend on it.    *)
(***************************************************************************)
EtxType == [Txs -> [state : EtxStates, nonce : Nat \cup {Null}]]
AttemptsType == [Txs -> [Prices -> [state : AttemptStates, age : 0 .. OldAge \cup {Null}]]]

LEMMA ConfirmerOrder ==
  ASSUME Inv, UNCHANGED <<mined, nextNonce>>,
         \A a \in mempool' : a \in mempool \/ etx[a.tx].nonce = a.nonce,
         \A u \in Txs : \/ etx'[u] = etx[u]
                        \/ /\ etx[u].state \in Later /\ etx'[u].state \in Later \cup {"fatal_error", "reaped"}
                           /\ etx'[u].nonce \in {etx[u].nonce, Null}
  PROVE  NoncesInv'
<1>1. \A u \in Txs : /\ etx'[u].nonce \in {etx[u].nonce, Null} /\ Started(u)' = Started(u)
                     /\ (etx[u].state = "none")' = (etx[u].state = "none")
  BY DEF Started, Later
<1>2. AddsNoClaim
  BY <1>1, SendsClaimed DEF AddsNoClaim, Inv
<1>3. nextNonce \in Nat /\ \A u \in Txs : ~Started(u) => nextNonce' < u
  BY DEF Inv, TypeOK, NoncesInv, QueueOrder
<1>4. QED
  BY <1>1, <1>2, <1>3, OrderKept DEF Inv

(***************************************************************************)
(* A sent transaction's rows stay right while it stays sent or is given    *)
(* up, if its attempts do.                                                 *)
(***************************************************************************)
LEMMA SentRow ==
  ASSUME NEW u, RowOK(u), etx[u].state \in Later,
         etx'[u].state \in Later \cup {"fatal_error"},
         etx'[u].state \in Later => etx'[u].nonce = etx[u].nonce,
         \A p, q \in Prices : AttemptInProgress(u, p)' /\ AttemptInProgress(u, q)' => p = q
  PROVE  RowOK(u)'
  BY DEF RowOK, Later

LEMMA SameStates ==
  ASSUME NEW u, RowOK(u), etx'[u] = etx[u],
         \A p \in Prices : attempts'[u][p].state = attempts[u][p].state
  PROVE  RowOK(u)'
  BY DEF RowOK, AttemptInProgress

LEMMA NoneMore ==
  ASSUME OneInProgress, \A u \in Txs : etx'[u].state = "in_progress" => etx[u].state = "in_progress"
  PROVE  OneInProgress'
  BY DEF OneInProgress

LEMMA QuietPhase ==
  ASSUME TypeOK, PhaseOK, todo' = {}, phase' \notin {"rebroadcast", "reorgs"}, UNCHANGED <<lag, common>>
  PROVE  PhaseOK'
  BY DEF PhaseOK

LEMMA TakeHeadStep ==
  ASSUME TxManagerAssumption, Inv, TakeHead
  PROVE  Inv'
<1> USE DEF Inv
<1>1. TypeOK'
  <2>1. receipts' \subseteq [tx : Txs, price : Prices, age : 0 .. OldAge, chain : Chains]
    <3>1. ASSUME NEW r \in receipts
          PROVE  (IF r.chain = "head" THEN [r EXCEPT !.chain = "orphaned"] ELSE r)
                    \in [tx : Txs, price : Prices, age : 0 .. OldAge, chain : Chains]
      BY DEF TypeOK, Chains
    <3>2. QED
      BY <3>1 DEF TakeHead
  <2>2. /\ lag' \in 0 .. MaxLag /\ common' \in 0 .. MaxLag + ReorgDepth /\ phase' \in Phases
        /\ UNCHANGED <<etx, attempts, nextNonce, todo, mined, mempool, abandoned, world, faults, reorgs>>
    BY DEF TakeHead, Phases, TxManagerAssumption, env
  <2>3. QED
    BY <2>1, <2>2 DEF TypeOK
<1>2. UNCHANGED <<etx, attempts, nextNonce, mempool, mined>>
  BY DEF TakeHead, env
<1>3. RowsInv'
  <2>1. PhaseOK'
    BY <1>2 DEF TakeHead, RowsInv, PhaseOK, TxManagerAssumption
  <2>2. QED
    BY <1>2, <2>1, RowKept, NoneMore DEF RowsInv
<1>4. NoncesInv'
  BY <1>2, ConfirmerOrder
<1>5. QED
  BY <1>1, <1>3, <1>4

LEMMA SetBroadcastBeforeStep ==
  ASSUME TxManagerAssumption, Inv, SetBroadcastBeforeBlockNum
  PROVE  /\ Inv' /\ etx' = etx
         /\ \A t \in Txs, p \in Prices : attempts'[t][p].state = attempts[t][p].state
<1> USE DEF Inv
<1>1. attempts' \in AttemptsType /\ \A t \in Txs, p \in Prices : attempts'[t][p].state = attempts[t][p].state
  <2>1. lag \in 0 .. OldAge
    BY DEF TypeOK, OldAge, TxManagerAssumption
  <2>2. attempts' = [t \in Txs |-> [p \in Prices |->
          IF attempts[t][p] = [state |-> "broadcast", age |-> Null]
          THEN [attempts[t][p] EXCEPT !.age = lag] ELSE attempts[t][p]]]
    BY DEF SetBroadcastBeforeBlockNum
  <2>3. \A t \in Txs, p \in Prices : attempts[t][p] \in [state : AttemptStates, age : 0 .. OldAge \cup {Null}]
    BY DEF TypeOK
  <2>4. ASSUME NEW t \in Txs, NEW p \in Prices
        PROVE  /\ attempts'[t][p] \in [state : AttemptStates, age : 0 .. OldAge \cup {Null}]
               /\ attempts'[t][p].state = attempts[t][p].state
    BY <2>1, <2>2, <2>3
  <2>5. attempts' \in AttemptsType
    BY <2>2, <2>4 DEF AttemptsType
  <2>6. QED
    BY <2>4, <2>5
<1>2. UNCHANGED <<etx, receipts, nextNonce, lag, common, mempool, mined, abandoned, world, reorgs, faults>>
      /\ todo' = {} /\ phase' = "missing_receipt"
  BY DEF SetBroadcastBeforeBlockNum, Enter, head
<1>3. TypeOK'
  BY <1>1, <1>2 DEF TypeOK, AttemptsType, Phases
<1>4. RowsInv'
  <2>1. \A u \in Txs : RowOK(u)'
    BY <1>1, <1>2, SameStates DEF RowsInv
  <2>2. QED
    BY <1>2, <2>1, NoneMore, QuietPhase DEF RowsInv
<1>5. NoncesInv'
  BY <1>2, ConfirmerOrder
<1>6. QED
  BY <1>1, <1>2, <1>3, <1>4, <1>5

(***************************************************************************)
(* The attempts of the transactions without receipt that are sent again.   *)
(***************************************************************************)
LEMMA SendEffect ==
  ASSUME TxManagerAssumption, TypeOK, NEW S \in SUBSET Attempts, IsFiniteSet(S), NEW answer, Send(S, answer)
  PROVE  /\ mempool' \subseteq Attempts /\ faults' \in 0 .. MaxFaults
         /\ \A a \in mempool' : a \in mempool \/ (a \in S /\ Verdict(a) = "ok")
<1>1. \A a \in S : answer[a].taken => Verdict(a) = "ok"
  BY AnswerIs DEF Send
<1>2. Cardinality({a \in S : answer[a].faulty = 1}) \in Nat
  BY FS_Subset, FS_CardinalityType
<1>3. faults' \in 0 .. MaxFaults
  BY <1>2 DEF Send, TypeOK, TxManagerAssumption
<1>4. QED
  BY <1>1, <1>3 DEF Send, TypeOK, Attempts

\* the attempts that CheckConfirmedMissingReceipt sends
MissingAttempts ==
  {Sent(t, Highest(t)) : t \in {u \in In({"confirmed_missing_receipt"}) : PricesOf(u) # {}}}

LEMMA MissingSent ==
  ASSUME TxManagerAssumption, Inv
  PROVE  /\ MissingAttempts \in SUBSET Attempts /\ IsFiniteSet(MissingAttempts)
         /\ \A a \in MissingAttempts :
              /\ a.tx \in Txs /\ etx[a.tx].state = "confirmed_missing_receipt"
              /\ etx[a.tx].nonce = a.nonce /\ a.price \in PricesOf(a.tx)
         /\ \A t \in Txs : etx[t].state = "confirmed_missing_receipt" /\ PricesOf(t) # {} =>
              \E a \in MissingAttempts : a.tx = t
<1> USE DEF Inv
<1> DEFINE U == {u \in In({"confirmed_missing_receipt"}) : PricesOf(u) # {}}
           S == {Sent(t, Highest(t)) : t \in U}
<1>1. \A t \in U : /\ t \in Txs /\ etx[t].state = "confirmed_missing_receipt"
                   /\ Highest(t) \in PricesOf(t) /\ Highest(t) \in Prices /\ etx[t].nonce # Null
  BY HighestIs DEF In, RowsInv, RowOK, Later
<1>2. \A t \in U : /\ Sent(t, Highest(t)) \in Attempts /\ Sent(t, Highest(t)).tx = t
                   /\ Sent(t, Highest(t)).price = Highest(t) /\ Sent(t, Highest(t)).nonce = etx[t].nonce
  BY <1>1, SentTyped
<1>3. S \in SUBSET Attempts
  BY <1>2
<1>4. IsFiniteSet(S)
  <2>1. U \subseteq Txs /\ IsFiniteSet(Txs)
    BY <1>1, FS_Interval DEF Txs, TxManagerAssumption
  <2>2. IsFiniteSet(U)
    BY <2>1, FS_Subset
  <2> DEFINE f == [t \in U |-> Sent(t, Highest(t))]
  <2>3. f \in Surjection(U, S)
    BY DEF Surjection
  <2>4. QED
    BY <2>2, <2>3, FS_Surjection
<1>5. ASSUME NEW a \in S
      PROVE  /\ a.tx \in Txs /\ etx[a.tx].state = "confirmed_missing_receipt"
             /\ etx[a.tx].nonce = a.nonce /\ a.price \in PricesOf(a.tx)
  <2>1. PICK t \in U : a = Sent(t, Highest(t))
    OBVIOUS
  <2>2. QED
    BY <1>1, <1>2, <2>1
<1>6. ASSUME NEW t \in Txs, etx[t].state = "confirmed_missing_receipt", PricesOf(t) # {}
      PROVE  \E a \in S : a.tx = t
  <2>1. t \in U
    BY <1>6 DEF In
  <2>2. QED
    BY <1>2, <2>1
<1>7. S = MissingAttempts
  BY DEF MissingAttempts
<1> HIDE DEF S, U
<1>8. QED
  BY <1>3, <1>4, <1>5, <1>6, <1>7

LEMMA CheckMissingEffect ==
  ASSUME TxManagerAssumption, Inv, CheckConfirmedMissingReceipt
  PROVE  /\ TypeOK'
         /\ \A a \in mempool' : \/ a \in mempool
                                \/ /\ Verdict(a) = "ok" /\ etx[a.tx].nonce = a.nonce
                                   /\ a.tx \in Txs /\ a.price \in PricesOf(a.tx)
         /\ \A u \in Txs : \/ etx'[u] = etx[u]
                           \/ /\ etx[u].state = "confirmed_missing_receipt"
                              /\ etx'[u].state = "unconfirmed" /\ etx'[u].nonce = etx[u].nonce
         /\ UNCHANGED <<attempts, receipts, nextNonce, lag, common, mined, abandoned, world, reorgs>>
         /\ todo' = {} /\ phase' = "receipts" /\ phase = "missing_receipt"
<1> USE DEF Inv
<1> DEFINE S == MissingAttempts
<1>3. S \in SUBSET Attempts /\ IsFiniteSet(S)
  BY MissingSent
<1>4. \A a \in S : /\ a.tx \in Txs /\ etx[a.tx].state = "confirmed_missing_receipt"
                   /\ etx[a.tx].nonce = a.nonce /\ a.price \in PricesOf(a.tx)
  BY MissingSent
<1>5. /\ phase = "missing_receipt" /\ todo' = {} /\ phase' = "receipts"
      /\ UNCHANGED <<attempts, receipts, nextNonce, lag, common, mined, abandoned, world, reorgs>>
  BY DEF CheckConfirmedMissingReceipt, Enter, head
<1>6. PICK answer : /\ Send(S, answer)
                    /\ etx' = [t \in Txs |->
                         IF \E a \in S : a.tx = t /\ answer[a].err # "nonce_too_low"
                         THEN [etx[t] EXCEPT !.state = "unconfirmed"] ELSE etx[t]]
  BY DEF CheckConfirmedMissingReceipt, MissingAttempts
<1> HIDE DEF S
<1>8. /\ mempool' \subseteq Attempts /\ faults' \in 0 .. MaxFaults
      /\ \A a \in mempool' : a \in mempool \/ (a \in S /\ Verdict(a) = "ok")
  BY <1>3, <1>6, SendEffect
<1>9. ASSUME NEW u \in Txs
      PROVE  \/ etx'[u] = etx[u]
             \/ /\ etx[u].state = "confirmed_missing_receipt"
                /\ etx'[u].state = "unconfirmed" /\ etx'[u].nonce = etx[u].nonce
  <2>1. etx[u] \in [state : EtxStates, nonce : Nat \cup {Null}]
    BY DEF TypeOK
  <2>2. \/ etx'[u] = etx[u]
        \/ etx[u].state = "confirmed_missing_receipt" /\ etx'[u] = [etx[u] EXCEPT !.state = "unconfirmed"]
    BY <1>6, <1>4
  <2>3. QED
    BY <2>1, <2>2
<1>10. etx' \in EtxType
  <2>1. ASSUME NEW u \in Txs PROVE etx'[u] \in [state : EtxStates, nonce : Nat \cup {Null}]
    <3>1. etx[u] \in [state : EtxStates, nonce : Nat \cup {Null}]
      BY DEF TypeOK
    <3>2. etx'[u] = etx[u] \/ etx'[u] = [etx[u] EXCEPT !.state = "unconfirmed"]
      BY <1>6
    <3>3. QED
      BY <3>1, <3>2 DEF EtxStates
  <2>2. QED
    BY <1>6, <2>1 DEF EtxType
<1>11. TypeOK'
  BY <1>5, <1>8, <1>10 DEF TypeOK, EtxType, Attempts, Phases
<1>12. QED
  BY <1>5, <1>4, <1>8, <1>9, <1>11

LEMMA CheckMissingStep ==
  ASSUME TxManagerAssumption, Inv, CheckConfirmedMissingReceipt
  PROVE  Inv'
<1> USE DEF Inv
<1>1. /\ TypeOK'
      /\ \A a \in mempool' : a \in mempool \/ etx[a.tx].nonce = a.nonce
      /\ \A u \in Txs : \/ etx'[u] = etx[u]
                        \/ /\ etx[u].state = "confirmed_missing_receipt"
                           /\ etx'[u].state = "unconfirmed" /\ etx'[u].nonce = etx[u].nonce
      /\ UNCHANGED <<attempts, nextNonce, lag, common, mined>>
      /\ todo' = {} /\ phase' = "receipts"
  BY CheckMissingEffect
<1>2. \A u \in Txs : RowOK(u)'
  <2>1. SUFFICES ASSUME NEW u \in Txs PROVE RowOK(u)'
    OBVIOUS
  <2>2. CASE etx'[u] = etx[u]
    BY <1>1, <2>2, RowKept DEF RowsInv
  <2>3. CASE etx'[u] # etx[u]
    <3>1. /\ etx[u].state = "confirmed_missing_receipt" /\ RowOK(u)
          /\ etx'[u].state = "unconfirmed" /\ etx'[u].nonce = etx[u].nonce
      BY <1>1, <2>3 DEF RowsInv
    <3>2. QED
      BY <1>1, <3>1 DEF RowOK, AttemptInProgress, Later
  <2>4. QED
    BY <2>2, <2>3
<1>3. OneInProgress'
  BY <1>1, NoneMore DEF RowsInv
<1>4. PhaseOK'
  BY <1>1, QuietPhase DEF RowsInv
<1>5. NoncesInv'
  BY <1>1, ConfirmerOrder DEF Later
<1>6. QED
  BY <1>1, <1>2, <1>3, <1>4, <1>5 DEF RowsInv

(***************************************************************************)
(* The receipts that are found: for attempts of sent transactions only.    *)
(***************************************************************************)
LEMMA CheckReceiptsEffect ==
  ASSUME TxManagerAssumption, Inv, CheckForReceipts
  PROVE  /\ TypeOK'
         /\ \E got \in SUBSET RequiringReceiptFetch :
              /\ "noreceipt" \notin world.kinds => got = RequiringReceiptFetch
              /\ \A r \in receipts' : r \in receipts \/ \E n \in got : r.tx = mined[n].tx
              /\ \A n \in got : etx'[mined[n].tx].state = "confirmed"
              /\ \A u \in Txs : \/ etx'[u] = etx[u]
                                \/ /\ \E n \in got : mined[n].tx = u
                                   /\ etx'[u].state = "confirmed" /\ etx'[u].nonce = etx[u].nonce
         /\ \A n \in RequiringReceiptFetch :
              etx[mined[n].tx].state \in {"unconfirmed", "confirmed_missing_receipt"}
         /\ \A t \in Txs, p \in Prices :
              \/ attempts'[t][p] = attempts[t][p]
              \/ /\ attempts'[t][p].state = "broadcast"
                 /\ attempts[t][p].state \in {"in_progress", "broadcast"} /\ etx[t].state \in Later
         /\ UNCHANGED <<nextNonce, lag, common, mined, mempool, abandoned, world, reorgs>>
         /\ todo' = {} /\ phase' \in {"mark_missing", "in_progress"} /\ phase = "receipts"
<1> USE DEF Inv
<1> DEFINE Att == [state : AttemptStates, age : 0 .. OldAge \cup {Null}]
           found(g, t, p) == {n \in g : mined[n].tx = t /\ mined[n].price = p}
<1>1. PICK got \in SUBSET RequiringReceiptFetch :
        /\ IF got = RequiringReceiptFetch THEN UNCHANGED faults ELSE Fault("noreceipt")
        /\ saveFetchedReceipts(got)
  BY DEF CheckForReceipts
<1>2. /\ receipts' = receipts \cup
           {[tx |-> mined[n].tx, price |-> mined[n].price, age |-> mined[n].age,
             chain |-> "longest"] : n \in got}
      /\ attempts' = [t \in Txs |-> [p \in Prices |->
           IF found(got, t, p) = {} THEN attempts[t][p]
           ELSE [state |-> "broadcast",
                 age |-> IF attempts[t][p].age # Null THEN attempts[t][p].age
                         ELSE mined[CHOOSE n \in found(got, t, p) : TRUE].age]]]
      /\ etx' = [t \in Txs |-> IF \E p \in Prices : found(got, t, p) # {}
                               THEN [etx[t] EXCEPT !.state = "confirmed"] ELSE etx[t]]
  BY <1>1 DEF saveFetchedReceipts
<1>3. /\ phase = "receipts" /\ todo' = {} /\ phase' \in {"mark_missing", "in_progress"}
      /\ UNCHANGED <<nextNonce, lag, common, mined, mempool, abandoned, world, reorgs>>
  BY DEF CheckForReceipts, Enter, head
<1>4. \A n \in DOMAIN mined : mined[n] \in [tx : Txs, price : Prices, age : 0 .. OldAge]
  BY MinedTyped DEF Blocks
<1>5. ASSUME NEW n \in RequiringReceiptFetch
      PROVE  /\ n \in DOMAIN mined
             /\ etx[mined[n].tx].state \in {"unconfirmed", "confirmed_missing_receipt"}
             /\ attempts[mined[n].tx][mined[n].price].state \in {"in_progress", "broadcast"}
  BY DEF RequiringReceiptFetch
<1>6. receipts' \subseteq [tx : Txs, price : Prices, age : 0 .. OldAge, chain : Chains]
      /\ \A r \in receipts' : r \in receipts \/ \E n \in got : r.tx = mined[n].tx
  <2>1. \A n \in got : [tx |-> mined[n].tx, price |-> mined[n].price, age |-> mined[n].age, chain |-> "longest"]
                         \in [tx : Txs, price : Prices, age : 0 .. OldAge, chain : Chains]
    BY <1>4, <1>5 DEF Chains
  <2>2. receipts \subseteq [tx : Txs, price : Prices, age : 0 .. OldAge, chain : Chains]
    BY DEF TypeOK
  <2>3. QED
    BY <1>2, <2>1, <2>2
<1>7. ASSUME NEW t \in Txs, NEW p \in Prices
      PROVE  /\ attempts'[t][p] \in Att
             /\ \/ attempts'[t][p] = attempts[t][p]
                \/ /\ attempts'[t][p].state = "broadcast"
                   /\ attempts[t][p].state \in {"in_progress", "broadcast"} /\ etx[t].state \in Later
  <2>1. attempts[t][p] \in Att
    BY DEF TypeOK
  <2>2. CASE found(got, t, p) = {}
    BY <1>2, <2>1, <2>2
  <2>3. CASE found(got, t, p) # {}
    <3> DEFINE n == CHOOSE n \in found(got, t, p) : TRUE
    <3>1. n \in got /\ mined[n].tx = t /\ mined[n].price = p
      BY <2>3
    <3>2. mined[n].age \in 0 .. OldAge
      BY <1>4, <1>5, <3>1
    <3>3. attempts'[t][p] = [state |-> "broadcast",
            age |-> IF attempts[t][p].age # Null THEN attempts[t][p].age ELSE mined[n].age]
      BY <1>2, <2>3
    <3>4. attempts[t][p].state \in {"in_progress", "broadcast"} /\ etx[t].state \in Later
      BY <1>5, <3>1 DEF Later
    <3> HIDE DEF n, found
    <3>5. QED
      BY <2>1, <3>2, <3>3, <3>4 DEF AttemptStates
  <2>4. QED
    BY <2>2, <2>3
<1>8. attempts' \in AttemptsType
  <2> HIDE DEF found, Att
  <2>1. attempts' = [t \in Txs |-> [p \in Prices |-> attempts'[t][p]]]
    BY <1>2
  <2>2. attempts' \in [Txs -> [Prices -> Att]]
    BY <1>7, <2>1
  <2>3. QED
    BY <2>2 DEF AttemptsType, Att
<1>9. ASSUME NEW u \in Txs
      PROVE  /\ etx'[u] \in [state : EtxStates, nonce : Nat \cup {Null}]
             /\ \/ etx'[u] = etx[u]
                \/ /\ \E n \in got : mined[n].tx = u
                   /\ etx'[u].state = "confirmed" /\ etx'[u].nonce = etx[u].nonce
             /\ (\E n \in got : mined[n].tx = u) => etx'[u].state = "confirmed"
  <2>1. etx[u] \in [state : EtxStates, nonce : Nat \cup {Null}]
    BY DEF TypeOK
  <2>2. (\E p \in Prices : found(got, u, p) # {}) <=> \E n \in got : mined[n].tx = u
    BY <1>4, <1>5
  <2>3. etx'[u] = IF \E n \in got : mined[n].tx = u THEN [etx[u] EXCEPT !.state = "confirmed"] ELSE etx[u]
    BY <1>2, <2>2
  <2>4. QED
    BY <2>1, <2>3 DEF EtxStates
<1>10. etx' \in EtxType
  BY <1>2, <1>9 DEF EtxType
<1>11. faults' \in 0 .. MaxFaults /\ ("noreceipt" \notin world.kinds => got = RequiringReceiptFetch)
  BY <1>1 DEF Fault, TypeOK, TxManagerAssumption
<1>12. TypeOK'
  BY <1>3, <1>6, <1>8, <1>10, <1>11 DEF TypeOK, EtxType, AttemptsType, Phases
<1>13. \A n \in got : etx'[mined[n].tx].state = "confirmed"
  BY <1>4, <1>5, <1>9
<1>14. QED
  BY <1>3, <1>5, <1>6, <1>7, <1>9, <1>11, <1>12, <1>13

LEMMA CheckReceiptsStep ==
  ASSUME TxManagerAssumption, Inv, CheckForReceipts
  PROVE  Inv'
<1> USE DEF Inv
<1>1. /\ TypeOK'
      /\ \A u \in Txs : \/ etx'[u] = etx[u]
                        \/ /\ etx[u].state \in {"unconfirmed", "confirmed_missing_receipt"}
                           /\ etx'[u].state = "confirmed" /\ etx'[u].nonce = etx[u].nonce
      /\ \A t \in Txs, p \in Prices :
           \/ attempts'[t][p] = attempts[t][p]
           \/ attempts'[t][p].state = "broadcast" /\ etx[t].state \in Later
      /\ UNCHANGED <<nextNonce, lag, common, mined, mempool>>
      /\ todo' = {} /\ phase' \in {"mark_missing", "in_progress"}
  BY CheckReceiptsEffect
<1>2. \A u \in Txs : RowOK(u)'
  <2>1. SUFFICES ASSUME NEW u \in Txs PROVE RowOK(u)'
    OBVIOUS
  <2>2. CASE etx[u].state \in Later
    BY <1>1, <2>2, SentRow DEF RowsInv, RowOK, AttemptInProgress, Later
  <2>3. CASE etx[u].state \notin Later
    BY <1>1, <2>3, SameStates DEF RowsInv, Later
  <2>4. QED
    BY <2>2, <2>3
<1>3. OneInProgress' /\ PhaseOK'
  BY <1>1, NoneMore, QuietPhase DEF RowsInv
<1>4. NoncesInv'
  BY <1>1, ConfirmerOrder DEF Later
<1>5. QED
  BY <1>1, <1>2, <1>3, <1>4 DEF RowsInv

(***************************************************************************)
(* The two phases that mark transactions whose receipt is missing.         *)
(***************************************************************************)
LEMMA MarkEffect ==
  ASSUME TxManagerAssumption, Inv,
         markAllConfirmedMissingReceipt \/ markOldTxesMissingReceiptAsErrored
  PROVE  /\ TypeOK'
         /\ \A u \in Txs :
              \/ etx'[u] = etx[u]
              \/ /\ phase = "mark_missing" /\ etx[u].state = "unconfirmed"
                 /\ \E v \in Txs : etx[v].state = "confirmed" /\ etx[u].nonce < etx[v].nonce
                 /\ etx'[u].state = "confirmed_missing_receipt" /\ etx'[u].nonce = etx[u].nonce
              \/ /\ phase = "mark_old" /\ etx[u].state = "confirmed_missing_receipt"
                 /\ etx'[u].state = "fatal_error" /\ etx'[u].nonce = Null
         /\ UNCHANGED <<attempts, receipts, nextNonce, lag, common, mined, mempool, abandoned, world, reorgs>>
         /\ todo' = {}
         /\ \/ phase = "mark_missing" /\ phase' = "mark_old"
            \/ phase = "mark_old" /\ phase' = "in_progress"
<1> USE DEF Inv
<1>1. /\ UNCHANGED <<attempts, receipts, nextNonce, lag, common, mined, mempool, abandoned, world, reorgs, faults>>
      /\ todo' = {}
      /\ \/ phase = "mark_missing" /\ phase' = "mark_old"
         \/ phase = "mark_old" /\ phase' = "in_progress"
  BY DEF markAllConfirmedMissingReceipt, markOldTxesMissingReceiptAsErrored, Enter, head
<1>2. ASSUME NEW u \in Txs
      PROVE  /\ etx'[u] \in [state : EtxStates, nonce : Nat \cup {Null}]
             /\ \/ etx'[u] = etx[u]
                \/ /\ phase = "mark_missing" /\ etx[u].state = "unconfirmed"
                   /\ \E v \in Txs : etx[v].state = "confirmed" /\ etx[u].nonce < etx[v].nonce
                   /\ etx'[u].state = "confirmed_missing_receipt" /\ etx'[u].nonce = etx[u].nonce
                \/ /\ phase = "mark_old" /\ etx[u].state = "confirmed_missing_receipt"
                   /\ etx'[u].state = "fatal_error" /\ etx'[u].nonce = Null
  <2>1. etx[u] \in [state : EtxStates, nonce : Nat \cup {Null}]
    BY DEF TypeOK
  <2>2. CASE markAllConfirmedMissingReceipt
    <3>1. \/ etx'[u] = etx[u]
          \/ /\ phase = "mark_missing" /\ etx[u].state = "unconfirmed"
             /\ \E v \in Txs : etx[v].state = "confirmed" /\ etx[u].nonce < etx[v].nonce
             /\ etx'[u] = [etx[u] EXCEPT !.state = "confirmed_missing_receipt"]
      BY <2>2 DEF markAllConfirmedMissingReceipt, In
    <3>2. QED
      BY <2>1, <3>1 DEF EtxStates
  <2>3. CASE markOldTxesMissingReceiptAsErrored
    <3>1. \/ etx'[u] = etx[u]
          \/ /\ phase = "mark_old" /\ etx[u].state = "confirmed_missing_receipt"
             /\ etx'[u] = [state |-> "fatal_error", nonce |-> Null]
      BY <2>3 DEF markOldTxesMissingReceiptAsErrored
    <3>2. QED
      BY <2>1, <3>1 DEF EtxStates
  <2>4. QED
    BY <2>2, <2>3
<1>3. etx' \in EtxType
  <2>1. etx' = [u \in Txs |-> etx'[u]]
    BY DEF markAllConfirmedMissingReceipt, markOldTxesMissingReceiptAsErrored
  <2>2. QED
    BY <1>2, <2>1 DEF EtxType
<1>4. TypeOK'
  BY <1>1, <1>3 DEF TypeOK, EtxType, Phases
<1>5. QED
  BY <1>1, <1>2, <1>4

LEMMA MarkStep ==
  ASSUME TxManagerAssumption, Inv,
         markAllConfirmedMissingReceipt \/ markOldTxesMissingReceiptAsErrored
  PROVE  Inv'
<1> USE DEF Inv
<1>1. /\ TypeOK'
      /\ \A u \in Txs :
           \/ etx'[u] = etx[u]
           \/ /\ etx[u].state \in {"unconfirmed", "confirmed_missing_receipt"}
              /\ \/ etx'[u].state = "confirmed_missing_receipt" /\ etx'[u].nonce = etx[u].nonce
                 \/ etx'[u].state = "fatal_error" /\ etx'[u].nonce = Null
      /\ UNCHANGED <<attempts, nextNonce, lag, common, mined, mempool>>
      /\ todo' = {} /\ phase' \in {"mark_old", "in_progress"}
  BY MarkEffect
<1>2. \A u \in Txs : RowOK(u)'
  <2>1. SUFFICES ASSUME NEW u \in Txs PROVE RowOK(u)'
    OBVIOUS
  <2>2. CASE etx[u].state \in Later
    BY <1>1, <2>2, SentRow DEF RowsInv, RowOK, AttemptInProgress, Later
  <2>3. CASE etx[u].state \notin Later
    BY <1>1, <2>3, RowKept DEF RowsInv, Later
  <2>4. QED
    BY <2>2, <2>3
<1>3. OneInProgress' /\ PhaseOK'
  BY <1>1, NoneMore, QuietPhase DEF RowsInv
<1>4. NoncesInv'
  BY <1>1, ConfirmerOrder DEF Later
<1>5. QED
  BY <1>1, <1>2, <1>3, <1>4 DEF RowsInv

(***************************************************************************)
(* What an answer makes of the confirmer's attempt at price p of t.  No    *)
(* other attempt of t may be in progress.                                  *)
(***************************************************************************)
LEMMA HandleAttemptEffect ==
  ASSUME TxManagerAssumption, Inv, NEW t \in Txs, etx[t].state \in Later, NEW p \in Prices,
         NEW r \in Answer(Sent(t, p)), handleInProgressAttempt(t, p, r),
         \A q \in Prices \ {p} : ~AttemptInProgress(t, q)
  PROVE  /\ etx' \in EtxType /\ attempts' \in AttemptsType
         /\ mempool' \subseteq Attempts /\ faults' \in 0 .. MaxFaults /\ receipts' \subseteq receipts
         /\ \A a \in mempool' : \/ a \in mempool
                                \/ a = Sent(t, p) /\ Verdict(a) = "ok" /\ etx[a.tx].nonce = a.nonce
         /\ \A u \in Txs \ {t} : etx'[u] = etx[u] /\ attempts'[u] = attempts[u]
         /\ etx'[t].nonce = etx[t].nonce /\ etx'[t].state \in Later
         /\ etx'[t].state = etx[t].state \/ (r.err = "nonce_too_low" /\ etx'[t].state = "confirmed_missing_receipt")
         /\ \A q \in Prices \ {p} : attempts'[t][q] = attempts[t][q]
         /\ attempts'[t][p].state = "none" => r.err = "feecap"
         /\ attempts'[t][p].state = "in_progress" => r.err = "unknown"
         /\ attempts'[t][p].state = "insufficient_eth" => r.err = "insufficient"
         /\ RowOK(t)'
<1> USE DEF Inv
<1> DEFINE Att == [state : AttemptStates, age : 0 .. OldAge \cup {Null}]
<1>1. etx[t].nonce # Null /\ RowOK(t)
  BY DEF RowsInv, RowOK
<1>2. Sent(t, p) \in Attempts /\ Sent(t, p).tx = t /\ Sent(t, p).nonce = etx[t].nonce
  BY <1>1, SentTyped
<1>3. /\ mempool' \subseteq Attempts /\ faults' \in 0 .. MaxFaults
      /\ \A a \in mempool' : a \in mempool \/ (a = Sent(t, p) /\ Verdict(a) = "ok")
  BY <1>2, SentOne DEF handleInProgressAttempt
<1>4. /\ attempts \in [Txs -> [Prices -> Att]] /\ etx[t] \in [state : EtxStates, nonce : Nat \cup {Null}]
      /\ etx \in EtxType
  BY DEF TypeOK, EtxType
<1>5. \E new \in Att :
        /\ attempts' = [attempts EXCEPT ![t][p] = new]
        /\ new.state = "none" => r.err = "feecap"
        /\ new.state = "in_progress" => r.err = "unknown"
        /\ new.state = "insufficient_eth" => r.err = "insufficient"
  <2>1. \/ r.err \in {"ok", "nonce_too_low"} /\ attempts' = [attempts EXCEPT ![t][p] = [state |-> "broadcast", age |-> Null]]
        \/ r.err = "insufficient" /\ attempts' = [attempts EXCEPT ![t][p] = [state |-> "insufficient_eth", age |-> Null]]
        \/ r.err = "feecap" /\ attempts' = [attempts EXCEPT ![t][p] = NoAttempt]
        \/ r.err = "unknown" /\ attempts' = [attempts EXCEPT ![t][p] = [state |-> "in_progress", age |-> Null]]
    BY DEF handleInProgressAttempt
  <2>2. /\ [state |-> "broadcast", age |-> Null] \in Att /\ NoAttempt \in Att
        /\ [state |-> "insufficient_eth", age |-> Null] \in Att /\ [state |-> "in_progress", age |-> Null] \in Att
    BY DEF AttemptStates, NoAttempt
  <2>3. QED
    BY <2>1, <2>2 DEF NoAttempt
<1>6. /\ attempts' \in AttemptsType
      /\ \A u \in Txs \ {t} : attempts'[u] = attempts[u]
      /\ \A q \in Prices \ {p} : attempts'[t][q] = attempts[t][q]
      /\ attempts'[t][p].state = "none" => r.err = "feecap"
      /\ attempts'[t][p].state = "in_progress" => r.err = "unknown"
      /\ attempts'[t][p].state = "insufficient_eth" => r.err = "insufficient"
  <2>1. PICK new \in Att :
        /\ attempts' = [attempts EXCEPT ![t][p] = new]
        /\ new.state = "none" => r.err = "feecap"
        /\ new.state = "in_progress" => r.err = "unknown"
        /\ new.state = "insufficient_eth" => r.err = "insufficient"
    BY <1>5
  <2> HIDE DEF Att
  <2>2. /\ attempts' \in [Txs -> [Prices -> Att]] /\ attempts'[t][p] = new
        /\ \A u \in Txs \ {t} : attempts'[u] = attempts[u]
        /\ \A q \in Prices \ {p} : attempts'[t][q] = attempts[t][q]
    BY <1>4, <2>1
  <2>3. QED
    BY <2>1, <2>2 DEF AttemptsType, Att
<1>7. \/ etx' = etx
      \/ r.err = "nonce_too_low" /\ etx' = [etx EXCEPT ![t].state = "confirmed_missing_receipt"]
  BY DEF handleInProgressAttempt
<1>8. /\ \A u \in Txs \ {t} : etx'[u] = etx[u]
      /\ etx'[t].nonce = etx[t].nonce /\ etx'[t].state \in Later
      /\ etx'[t].state = etx[t].state \/ (r.err = "nonce_too_low" /\ etx'[t].state = "confirmed_missing_receipt")
  <2>1. CASE etx' = etx
    BY <2>1
  <2>2. CASE r.err = "nonce_too_low" /\ etx' = [etx EXCEPT ![t].state = "confirmed_missing_receipt"]
    <3>1. etx'[t] = [etx[t] EXCEPT !.state = "confirmed_missing_receipt"] /\ \A u \in Txs \ {t} : etx'[u] = etx[u]
      BY <1>4, <2>2 DEF EtxType
    <3>2. QED
      BY <1>4, <2>2, <3>1 DEF Later
  <2>3. QED
    BY <1>7, <2>1, <2>2
<1>9. etx' \in EtxType
  <2> DEFINE Row == [state : EtxStates, nonce : Nat \cup {Null}]
             row == [etx[t] EXCEPT !.state = "confirmed_missing_receipt"]
  <2>1. row \in Row /\ etx \in [Txs -> Row]
    BY <1>4 DEF EtxStates, EtxType
  <2>2. etx' = etx \/ etx' = [etx EXCEPT ![t] = row]
    BY <1>7
  <2> HIDE DEF Row, row
  <2>3. etx' \in [Txs -> Row]
    BY <2>1, <2>2
  <2>4. QED
    BY <2>3 DEF EtxType, Row
<1>10. receipts' \subseteq receipts
  BY DEF handleInProgressAttempt
<1>11. RowOK(t)'
  BY <1>1, <1>6, <1>8, SentRow DEF AttemptInProgress
<1>12. QED
  BY <1>2, <1>3, <1>6, <1>8, <1>9, <1>10, <1>11

LEMMA HandleAnyEffect ==
  ASSUME TxManagerAssumption, Inv, handleAnyInProgressAttempts
  PROVE  /\ todo' = {} /\ phase' \in {"in_progress", "last", "idle"}
         /\ phase \in {"in_progress", "last"}
         /\ UNCHANGED <<nextNonce, lag, common, mined, abandoned, world, reorgs>>
         /\ \E t \in Txs : \E p \in Prices : \E r \in Answer(Sent(t, p)) :
              /\ etx[t].state \in Later /\ AttemptInProgress(t, p)
              /\ handleInProgressAttempt(t, p, r)
              /\ \A q \in Prices \ {p} : ~AttemptInProgress(t, q)
<1>1. PICK t \in Txs : \E p \in WithState(t, {"in_progress"}) : \E r \in Answer(Sent(t, p)) :
        /\ HasInProgressAttempt(t) /\ handleInProgressAttempt(t, p, r)
        /\ Enter(NextPhase(r, phase)) /\ phase \in {"in_progress", "last"}
  BY DEF handleAnyInProgressAttempts
<1>0. PICK p \in WithState(t, {"in_progress"}) : \E r \in Answer(Sent(t, p)) :
        /\ HasInProgressAttempt(t) /\ handleInProgressAttempt(t, p, r)
        /\ Enter(NextPhase(r, phase)) /\ phase \in {"in_progress", "last"}
  BY <1>1
<1>2. PICK r \in Answer(Sent(t, p)) :
        /\ HasInProgressAttempt(t) /\ handleInProgressAttempt(t, p, r)
        /\ Enter(NextPhase(r, phase)) /\ phase \in {"in_progress", "last"}
  BY <1>0
<1>3. p \in Prices /\ AttemptInProgress(t, p) /\ etx[t].state \in Later
  BY <1>2 DEF WithState, AttemptInProgress, HasInProgressAttempt, Later
<1>4. \A q \in Prices \ {p} : ~AttemptInProgress(t, q)
  BY <1>3 DEF Inv, RowsInv, RowOK
<1>5. QED
  BY <1>2, <1>3, <1>4 DEF Enter, NextPhase, head

LEMMA HandleAnyStep ==
  ASSUME TxManagerAssumption, Inv, handleAnyInProgressAttempts
  PROVE  Inv'
<1> USE DEF Inv
<1>0. PICK t \in Txs, p \in Prices : \E r \in Answer(Sent(t, p)) :
        /\ etx[t].state \in Later /\ AttemptInProgress(t, p)
        /\ handleInProgressAttempt(t, p, r)
        /\ \A q \in Prices \ {p} : ~AttemptInProgress(t, q)
  BY HandleAnyEffect
<1>1. PICK r \in Answer(Sent(t, p)) :
        /\ etx[t].state \in Later /\ AttemptInProgress(t, p)
        /\ handleInProgressAttempt(t, p, r)
        /\ \A q \in Prices \ {p} : ~AttemptInProgress(t, q)
  BY <1>0
<1>2. /\ todo' = {} /\ phase' \in {"in_progress", "last", "idle"}
      /\ UNCHANGED <<nextNonce, lag, common, mined, abandoned, world, reorgs>>
  BY HandleAnyEffect
<1>3. /\ etx' \in EtxType /\ attempts' \in AttemptsType
      /\ mempool' \subseteq Attempts /\ faults' \in 0 .. MaxFaults /\ receipts' \subseteq receipts
      /\ \A a \in mempool' : a \in mempool \/ etx[a.tx].nonce = a.nonce
      /\ \A u \in Txs \ {t} : etx'[u] = etx[u] /\ attempts'[u] = attempts[u]
      /\ etx'[t].nonce = etx[t].nonce /\ etx'[t].state \in Later
      /\ RowOK(t)'
  BY <1>1, HandleAttemptEffect
<1>4. TypeOK'
  BY <1>2, <1>3 DEF TypeOK, EtxType, AttemptsType, Attempts, Phases
<1>5. \A u \in Txs : RowOK(u)'
  BY <1>3, RowKept DEF RowsInv
<1>6. OneInProgress'
  BY <1>1, <1>3, NoneMore DEF RowsInv, Later
<1>7. PhaseOK'
  BY <1>2, QuietPhase DEF RowsInv
<1>8. NoncesInv'
  BY <1>1, <1>2, <1>3, ConfirmerOrder
<1>9. QED
  BY <1>4, <1>5, <1>6, <1>7, <1>8 DEF RowsInv

LEMMA RebroadcastWhereStep ==
  ASSUME TxManagerAssumption, Inv, rebroadcastWhereNecessary
  PROVE  Inv'
<1> USE DEF Inv
<1>1. /\ UNCHANGED <<etx, attempts, receipts, nextNonce, lag, common, mined, mempool, abandoned, world, faults, reorgs>>
      /\ phase' \in {"reorgs", "rebroadcast"}
      /\ \A t \in Txs : ~HasInProgressAttempt(t)
  BY DEF rebroadcastWhereNecessary, db, head, env
<1>2. todo' \subseteq Txs /\ \A t \in todo' : etx[t].state = "unconfirmed"
  BY DEF rebroadcastWhereNecessary, FindEthTxsRequiringRebroadcast, FindEthTxsRequiringGasBump, Lowest, In
<1>3. TypeOK'
  BY <1>1, <1>2 DEF TypeOK, Phases
<1>4. \A t \in Txs, p \in Prices : etx[t].state \in Later => ~AttemptInProgress(t, p)
  BY <1>1 DEF HasInProgressAttempt, WithState, AttemptInProgress, Later
<1>5. RowsInv'
  <2>1. PhaseOK'
    BY <1>1, <1>2, <1>4 DEF RowsInv, PhaseOK, AttemptInProgress
  <2>2. QED
    BY <1>1, <2>1, RowKept, NoneMore DEF RowsInv
<1>6. NoncesInv'
  BY <1>1, ConfirmerOrder
<1>7. QED
  BY <1>3, <1>5, <1>6

LEMMA RebroadcastEffect ==
  ASSUME TxManagerAssumption, Inv, NEW t \in Txs, Rebroadcast(t), PricesOf(t) # {}
  PROVE  \E p \in Prices : \E r \in Answer(Sent(t, p)) :
           /\ handleInProgressAttempt(t, p, r)
           /\ \A q \in Prices \ {p} : ~AttemptInProgress(t, q)
           /\ todo' = IF r.err = "unknown" THEN {} ELSE todo \ {t}
           /\ phase' = IF todo' # {} THEN phase ELSE NextPhase(r, "reorgs")
<1> USE DEF Inv
<1>1. phase = "rebroadcast" /\ etx[t].state = "unconfirmed"
  BY DEF Rebroadcast, RowsInv, PhaseOK
<1>2. \A q \in Prices : ~AttemptInProgress(t, q)
  BY <1>1 DEF RowsInv, PhaseOK, Later
<1>3. attemptForRebroadcast(t) \in Prices
  <2>1. Highest(t) \in Prices /\ world.limit \in Prices
    BY HighestIs, WorldTyped
  <2>2. QED
    BY <2>1 DEF attemptForRebroadcast, Prices, TxManagerAssumption
<1>4. QED
  BY <1>2, <1>3 DEF Rebroadcast

LEMMA RebroadcastStep ==
  ASSUME TxManagerAssumption, Inv, NEW t \in Txs, Rebroadcast(t)
  PROVE  Inv'
<1> USE DEF Inv
<1>1. /\ phase = "rebroadcast" /\ t \in todo /\ etx[t].state = "unconfirmed"
      /\ UNCHANGED <<nextNonce, lag, common, mined, abandoned, world, reorgs>>
  BY DEF Rebroadcast, RowsInv, PhaseOK, head
<1>2. CASE PricesOf(t) = {}
  <2>1. phase' = "idle" /\ todo' = {} /\ UNCHANGED <<etx, attempts, receipts, mempool, faults>>
    BY <1>2 DEF Rebroadcast
  <2>2. TypeOK'
    BY <1>1, <2>1 DEF TypeOK, Phases
  <2>3. RowsInv'
    BY <1>1, <2>1, RowKept, NoneMore, QuietPhase DEF RowsInv
  <2>4. NoncesInv'
    BY <1>1, <2>1, ConfirmerOrder
  <2>5. QED
    BY <2>2, <2>3, <2>4
<1>3. CASE PricesOf(t) # {}
  <2>1. PICK p \in Prices : \E r \in Answer(Sent(t, p)) :
          /\ handleInProgressAttempt(t, p, r)
          /\ \A q \in Prices \ {p} : ~AttemptInProgress(t, q)
          /\ todo' = IF r.err = "unknown" THEN {} ELSE todo \ {t}
          /\ phase' = IF todo' # {} THEN phase ELSE NextPhase(r, "reorgs")
    BY <1>3, RebroadcastEffect
  <2>2. PICK r \in Answer(Sent(t, p)) :
          /\ handleInProgressAttempt(t, p, r)
          /\ \A q \in Prices \ {p} : ~AttemptInProgress(t, q)
          /\ todo' = IF r.err = "unknown" THEN {} ELSE todo \ {t}
          /\ phase' = IF todo' # {} THEN phase ELSE NextPhase(r, "reorgs")
    BY <2>1
  <2>3. /\ etx' \in EtxType /\ attempts' \in AttemptsType
        /\ mempool' \subseteq Attempts /\ faults' \in 0 .. MaxFaults /\ receipts' \subseteq receipts
        /\ \A a \in mempool' : a \in mempool \/ etx[a.tx].nonce = a.nonce
        /\ \A u \in Txs \ {t} : etx'[u] = etx[u] /\ attempts'[u] = attempts[u]
        /\ etx'[t].nonce = etx[t].nonce /\ etx'[t].state \in Later
        /\ \A q \in Prices \ {p} : attempts'[t][q] = attempts[t][q]
        /\ attempts'[t][p].state = "in_progress" => r.err = "unknown"
        /\ RowOK(t)'
    BY <1>1, <2>2, HandleAttemptEffect DEF Later
  <2>4. todo' \subseteq todo \ {t} /\ phase' \in {"idle", "rebroadcast", "reorgs"}
    BY <1>1, <2>2 DEF NextPhase
  <2>5. TypeOK'
    BY <1>1, <2>3, <2>4 DEF TypeOK, EtxType, AttemptsType, Attempts, Phases
  <2>6. \A u \in Txs : RowOK(u)'
    BY <2>3, RowKept DEF RowsInv
  <2>7. OneInProgress'
    BY <1>1, <2>3, NoneMore DEF RowsInv, Later
  <2>8. PhaseOK'
    <3>1. CASE r.err = "unknown"
      BY <1>1, <2>2, <3>1 DEF RowsInv, PhaseOK, NextPhase
    <3>2. CASE r.err # "unknown"
      <4>1. \A q \in Prices : ~AttemptInProgress(t, q)'
        BY <2>2, <2>3, <3>2 DEF AttemptInProgress
      <4>2. \A u \in Txs, q \in Prices : etx'[u].state \in Later => ~AttemptInProgress(u, q)'
        BY <1>1, <2>3, <4>1 DEF RowsInv, PhaseOK, AttemptInProgress
      <4>3. \A u \in todo' : etx'[u].state = "unconfirmed"
        BY <2>3, <2>4 DEF RowsInv, PhaseOK, TypeOK
      <4>4. QED
        BY <1>1, <4>2, <4>3 DEF RowsInv, PhaseOK, Later
    <3>3. QED
      BY <3>1, <3>2
  <2>9. NoncesInv'
    BY <1>1, <2>3, ConfirmerOrder DEF Later
  <2>10. QED
    BY <2>5, <2>6, <2>7, <2>8, <2>9 DEF RowsInv
<1>4. QED
  BY <1>2, <1>3

(***************************************************************************)
(* A transaction that was reorganised out is put back.                     *)
(***************************************************************************)
LEMMA MarkForRebroadcastEffect ==
  ASSUME TxManagerAssumption, Inv, NEW t \in Txs, markForRebroadcast(t)
  PROVE  /\ UNCHANGED <<nextNonce, todo, lag, common, mined, mempool, abandoned, world, faults, reorgs>>
         /\ phase = "reorgs" /\ receipts' \subseteq receipts
         /\ \/ phase' = "idle" /\ UNCHANGED <<etx, attempts>>
            \/ /\ phase' = "reorgs"
               /\ etx[t].state = "confirmed"
               /\ etx' \in EtxType /\ attempts' \in AttemptsType
               /\ etx'[t].state = "unconfirmed" /\ etx'[t].nonce = etx[t].nonce
               /\ \A u \in Txs \ {t} : etx'[u] = etx[u] /\ attempts'[u] = attempts[u]
               /\ \E p \in Prices : /\ attempts[t][p].state = "broadcast" /\ AttemptInProgress(t, p)'
                                    /\ \A q \in Prices \ {p} : attempts'[t][q] = attempts[t][q]
<1> USE DEF Inv
<1>1. /\ UNCHANGED <<nextNonce, todo, lag, common, mined, mempool, abandoned, world, faults, reorgs>>
      /\ phase = "reorgs" /\ receipts' \subseteq receipts
  BY DEF markForRebroadcast, head, env
<1>2. CASE phase' = "idle" /\ UNCHANGED <<etx, attempts, receipts>>
  BY <1>1, <1>2
<1>3. CASE /\ etx[t].state = "confirmed" /\ attempts[t][Highest(t)].state = "broadcast"
           /\ etx' = [etx EXCEPT ![t].state = "unconfirmed"]
           /\ attempts' = [attempts EXCEPT ![t][Highest(t)] = [state |-> "in_progress", age |-> Null]]
           /\ phase' = "reorgs"
  <2> DEFINE Row == [state : EtxStates, nonce : Nat \cup {Null}]
             Att == [state : AttemptStates, age : 0 .. OldAge \cup {Null}]
             row == [etx[t] EXCEPT !.state = "unconfirmed"]
             att == [state |-> "in_progress", age |-> Null]
  <2>1. Highest(t) \in Prices
    <3>1. PICK r \in receipts : r.tx = t /\ attempts[t][r.price].state = "broadcast"
      BY DEF markForRebroadcast, ReorgedOut
    <3>2. r.price \in PricesOf(t)
      BY <3>1 DEF PricesOf, WithState, AttemptStates, TypeOK
    <3>3. QED
      BY <3>2, HighestIs
  <2>2. /\ etx \in [Txs -> Row] /\ row \in Row /\ row.state = "unconfirmed" /\ row.nonce = etx[t].nonce
        /\ attempts \in [Txs -> [Prices -> Att]] /\ att \in Att /\ att.state = "in_progress"
    BY DEF TypeOK, EtxStates, AttemptStates
  <2>3. etx' = [etx EXCEPT ![t] = row] /\ attempts' = [attempts EXCEPT ![t][Highest(t)] = att]
    BY <1>3
  <2> HIDE DEF Row, Att, row, att
  <2>4. etx' \in [Txs -> Row] /\ attempts' \in [Txs -> [Prices -> Att]]
    BY <2>1, <2>2, <2>3
  <2>5. /\ etx'[t].state = "unconfirmed" /\ etx'[t].nonce = etx[t].nonce
        /\ \A u \in Txs \ {t} : etx'[u] = etx[u] /\ attempts'[u] = attempts[u]
        /\ attempts'[t][Highest(t)] = att
        /\ \A q \in Prices \ {Highest(t)} : attempts'[t][q] = attempts[t][q]
    BY <2>1, <2>2, <2>3
  <2>6. QED
    BY <1>1, <1>3, <2>1, <2>2, <2>4, <2>5 DEF EtxType, AttemptsType, Row, Att, AttemptInProgress
<1>4. QED
  BY <1>2, <1>3 DEF markForRebroadcast

LEMMA MarkForRebroadcastStep ==
  ASSUME TxManagerAssumption, Inv, NEW t \in Txs, markForRebroadcast(t)
  PROVE  Inv'
<1> USE DEF Inv
<1>1. /\ UNCHANGED <<nextNonce, todo, lag, common, mined, mempool, abandoned, world, faults, reorgs>>
      /\ phase = "reorgs" /\ receipts' \subseteq receipts
  BY MarkForRebroadcastEffect
<1>2. CASE phase' = "idle" /\ UNCHANGED <<etx, attempts>>
  <2>1. TypeOK'
    BY <1>1, <1>2 DEF TypeOK, Phases
  <2>2. PhaseOK'
    BY <1>1, <1>2 DEF RowsInv, PhaseOK
  <2>3. QED
    BY <1>1, <1>2, <2>1, <2>2, RowKept, NoneMore, ConfirmerOrder DEF RowsInv
<1>3. ASSUME /\ phase' = "reorgs"
             /\ etx[t].state = "confirmed"
             /\ etx' \in EtxType /\ attempts' \in AttemptsType
             /\ etx'[t].state = "unconfirmed" /\ etx'[t].nonce = etx[t].nonce
             /\ \A u \in Txs \ {t} : etx'[u] = etx[u] /\ attempts'[u] = attempts[u],
             NEW p \in Prices,
             attempts[t][p].state = "broadcast" /\ AttemptInProgress(t, p)',
             \A q \in Prices \ {p} : attempts'[t][q] = attempts[t][q]
      PROVE  Inv'
  <2>1. TypeOK'
    BY <1>1, <1>3 DEF TypeOK, EtxType, AttemptsType, Phases
  <2>2. \A q \in Prices : ~AttemptInProgress(t, q)
    BY <1>1, <1>3 DEF RowsInv, PhaseOK, Later
  <2>3. RowOK(t)'
    BY <1>3, <2>2, SentRow DEF RowsInv, AttemptInProgress, Later
  <2>4. \A u \in Txs \ {t} : RowOK(u)'
    BY <1>3, RowKept DEF RowsInv
  <2>5. OneInProgress'
    BY <1>3, NoneMore DEF RowsInv
  <2>6. PhaseOK'
    <3>1. t \notin todo /\ todo \subseteq Txs
      BY <1>3 DEF RowsInv, PhaseOK, TypeOK
    <3>2. QED
      BY <1>1, <1>3, <3>1 DEF RowsInv, PhaseOK, AttemptInProgress, Later
  <2>7. NoncesInv'
    BY <1>1, <1>3, ConfirmerOrder DEF Later
  <2>8. QED
    BY <2>1, <2>3, <2>4, <2>5, <2>6, <2>7 DEF RowsInv
<1>4. QED
  BY <1>2, <1>3, MarkForRebroadcastEffect

LEMMA PhaseEndsStep ==
  ASSUME TxManagerAssumption, Inv, EnsureConfirmedTransactionsInLongestChain \/ HeadDone
  PROVE  /\ Inv' /\ phase' \in {"last", "idle"}
         /\ UNCHANGED <<etx, attempts, receipts, nextNonce, mined, mempool, abandoned, world>>
<1> USE DEF Inv
<1>1. /\ UNCHANGED <<etx, attempts, receipts, nextNonce, lag, common, mined, mempool, abandoned, world, faults, reorgs>>
      /\ todo' = {} /\ phase' \in {"last", "idle"}
  BY DEF EnsureConfirmedTransactionsInLongestChain, HeadDone, Enter, head
<1>2. TypeOK'
  BY <1>1 DEF TypeOK, Phases
<1>3. QED
  BY <1>1, <1>2, RowKept, NoneMore, QuietPhase, ConfirmerOrder DEF RowsInv

-----------------------------------------------------------------------------
(***************************************************************************)
(* The resender, the reaper, a stop, and an eviction.                      *)
(***************************************************************************)
LEMMA ResendEffect ==
  ASSUME TxManagerAssumption, Inv, ResendUnconfirmed
  PROVE  /\ UNCHANGED <<etx, attempts, receipts, nextNonce, phase, todo, lag, common, mined, abandoned, world, faults, reorgs>>
         /\ mempool' \subseteq Attempts
         /\ \A a \in mempool' : \/ a \in mempool
                                \/ /\ Verdict(a) = "ok" /\ etx[a.tx].nonce = a.nonce
                                   /\ a.tx \in Txs /\ a.price \in PricesOf(a.tx)
<1> USE DEF Inv
<1> DEFINE last(t) == WithState(t, {"insufficient_eth", "broadcast"})
           due == Lowest(MaxInFlight, {t \in In({"unconfirmed", "confirmed_missing_receipt"}) : last(t) # {}})
<1>1. UNCHANGED <<etx, attempts, receipts, nextNonce, phase, todo, lag, common, mined, abandoned, world, faults, reorgs>>
  BY DEF ResendUnconfirmed, db, head
<1>2. mempool' = mempool \cup {a \in {Sent(t, Max(last(t))) : t \in due} : Verdict(a) = "ok"}
  BY DEF ResendUnconfirmed
<1>3. ASSUME NEW t \in due
      PROVE  /\ t \in Txs /\ Max(last(t)) \in PricesOf(t)
             /\ Sent(t, Max(last(t))) \in Attempts /\ Sent(t, Max(last(t))).tx = t
             /\ Sent(t, Max(last(t))).price = Max(last(t)) /\ Sent(t, Max(last(t))).nonce = etx[t].nonce
  <2>1. t \in Txs /\ etx[t].state \in Later /\ last(t) # {}
    BY DEF Lowest, In, Later
  <2>2. last(t) \subseteq PricesOf(t) /\ last(t) \subseteq Prices
    BY DEF WithState, PricesOf, AttemptStates
  <2>3. IsFiniteSet(last(t)) /\ last(t) \subseteq Int
    <3>1. IsFiniteSet(Prices) /\ Prices \subseteq Int
      BY FS_Interval DEF Prices, TxManagerAssumption
    <3> HIDE DEF last
    <3>2. QED
      BY <2>2, <3>1, FS_Subset
  <2>4. Max(last(t)) \in last(t)
    BY <2>1, <2>3, GreatestExists
  <2>5. etx[t].nonce # Null
    BY <2>1 DEF RowsInv, RowOK
  <2>6. QED
    BY <2>1, <2>2, <2>4, <2>5, SentTyped
<1> HIDE DEF due, last
<1>4. QED
  BY <1>1, <1>2, <1>3 DEF TypeOK, Attempts

LEMMA ResendStep ==
  ASSUME TxManagerAssumption, Inv, ResendUnconfirmed
  PROVE  Inv'
<1> USE DEF Inv
<1>1. /\ UNCHANGED <<etx, attempts, receipts, nextNonce, phase, todo, lag, common, mined, abandoned, world, faults, reorgs>>
      /\ mempool' \subseteq Attempts
      /\ \A a \in mempool' : a \in mempool \/ etx[a.tx].nonce = a.nonce
  BY ResendEffect
<1>2. TypeOK'
  BY <1>1 DEF TypeOK, Attempts
<1>3. PhaseOK'
  BY <1>1 DEF RowsInv, PhaseOK, AttemptInProgress
<1>4. QED
  BY <1>1, <1>2, <1>3, RowKept, NoneMore, ConfirmerOrder DEF RowsInv

LEMMA EvictStep ==
  ASSUME TxManagerAssumption, Inv, Evict
  PROVE  /\ Inv' /\ mempool' \subseteq mempool
         /\ UNCHANGED <<etx, attempts, receipts, nextNonce, phase, mined, abandoned, world>>
<1> USE DEF Inv
<1>1. /\ UNCHANGED <<etx, attempts, receipts, nextNonce, phase, todo, lag, common, mined, abandoned, world, reorgs>>
      /\ mempool' \subseteq mempool
  BY DEF Evict, db, head
<1>2. faults' \in 0 .. MaxFaults
  BY DEF Evict, Fault, TypeOK, TxManagerAssumption
<1>3. TypeOK'
  BY <1>1, <1>2 DEF TypeOK
<1>4. PhaseOK'
  BY <1>1 DEF RowsInv, PhaseOK, AttemptInProgress
<1>5. QED
  BY <1>1, <1>3, <1>4, RowKept, NoneMore, ConfirmerOrder DEF RowsInv

LEMMA ReapEffect ==
  ASSUME TxManagerAssumption, Inv, NEW t \in Txs, ReapEthTxes(t)
  PROVE  /\ TypeOK'
         /\ etx[t].state = "confirmed" /\ etx'[t].state = "reaped" /\ etx'[t].nonce = Null
         /\ \A p \in Prices : attempts'[t][p].state = "none"
         /\ \A u \in Txs \ {t} : etx'[u] = etx[u] /\ attempts'[u] = attempts[u]
         /\ receipts' \subseteq receipts /\ \E r \in receipts : r.tx = t
         /\ UNCHANGED <<nextNonce, phase, todo, lag, common, mined, mempool, abandoned, world>>
<1> USE DEF Inv
<1> DEFINE Row == [state : EtxStates, nonce : Nat \cup {Null}]
           Att == [state : AttemptStates, age : 0 .. OldAge \cup {Null}]
           row == [state |-> "reaped", nonce |-> Null]
           none == [p \in Prices |-> NoAttempt]
<1>1. /\ UNCHANGED <<nextNonce, phase, todo, lag, common, mined, mempool, abandoned, world, faults, reorgs>>
      /\ receipts' \subseteq receipts /\ (\E r \in receipts : r.tx = t) /\ etx[t].state = "confirmed"
      /\ etx' = [etx EXCEPT ![t] = row] /\ attempts' = [attempts EXCEPT ![t] = none]
  BY DEF ReapEthTxes, head, env
<1>2. /\ row \in Row /\ etx \in [Txs -> Row] /\ row.state = "reaped" /\ row.nonce = Null
      /\ none \in [Prices -> Att] /\ attempts \in [Txs -> [Prices -> Att]]
      /\ \A p \in Prices : none[p].state = "none"
  BY DEF TypeOK, EtxStates, AttemptStates, NoAttempt
<1> HIDE DEF Row, Att, row, none
<1>3. etx' \in [Txs -> Row] /\ attempts' \in [Txs -> [Prices -> Att]]
  BY <1>1, <1>2
<1>4. /\ etx'[t] = row /\ attempts'[t] = none
      /\ \A u \in Txs \ {t} : etx'[u] = etx[u] /\ attempts'[u] = attempts[u]
  BY <1>1, <1>2
<1>5. TypeOK'
  BY <1>1, <1>3 DEF TypeOK, Row, Att
<1>6. QED
  BY <1>1, <1>2, <1>4, <1>5

LEMMA ReapStep ==
  ASSUME TxManagerAssumption, Inv, NEW t \in Txs, ReapEthTxes(t)
  PROVE  Inv'
<1> USE DEF Inv
<1>1. /\ TypeOK'
      /\ etx[t].state = "confirmed" /\ etx'[t].state = "reaped" /\ etx'[t].nonce = Null
      /\ \A p \in Prices : attempts'[t][p].state = "none"
      /\ \A u \in Txs \ {t} : etx'[u] = etx[u] /\ attempts'[u] = attempts[u]
      /\ UNCHANGED <<nextNonce, phase, todo, lag, common, mined, mempool>>
  BY ReapEffect
<1>2. RowOK(t)'
  BY <1>1 DEF RowOK, AttemptInProgress, Later
<1>3. \A u \in Txs \ {t} : RowOK(u)'
  BY <1>1, RowKept DEF RowsInv
<1>4. OneInProgress'
  BY <1>1, NoneMore DEF RowsInv
<1>5. PhaseOK'
  <2>1. t \notin todo /\ todo \subseteq Txs
    BY <1>1 DEF RowsInv, PhaseOK, TypeOK
  <2>2. QED
    BY <1>1, <2>1 DEF RowsInv, PhaseOK, AttemptInProgress
<1>6. NoncesInv'
  BY <1>1, ConfirmerOrder DEF Later
<1>7. QED
  BY <1>1, <1>2, <1>3, <1>4, <1>5, <1>6 DEF RowsInv

(***************************************************************************)
(* No claim goes beyond the number of transactions, so the first nonce     *)
(* that neither the chain nor the mempool has exists, and the one before   *)
(* it is claimed by some transaction.                                      *)
(***************************************************************************)
LEMMA MinedBound ==
  ASSUME TxManagerAssumption, Inv
  PROVE  /\ \A n \in DOMAIN mined : n - 1 \in Nat /\ mined[n].tx \in Txs /\ Claims(mined[n].tx, n - 1)
         /\ Len(mined) \in 0 .. NumTxs
<1> USE DEF Inv
<1>1. ASSUME NEW n \in DOMAIN mined PROVE n - 1 \in Nat /\ mined[n].tx \in Txs /\ Claims(mined[n].tx, n - 1)
  <2>1. mined[n].tx \in Txs /\ n \in Nat /\ n >= 1
    BY MinedTyped DEF Blocks
  <2>2. n - 1 + 1 = n
    BY <2>1
  <2>3. QED
    BY <2>1, <2>2 DEF Claims
<1>2. Len(mined) \in Nat /\ (Len(mined) > 0 => Len(mined) \in DOMAIN mined)
  BY MinedTyped
<1>3. CASE Len(mined) > 0
  <2>1. Len(mined) - 1 < mined[Len(mined)].tx
    BY <1>1, <1>2, <1>3 DEF NoncesInv, ClaimsInOrder
  <2>2. QED
    BY <1>1, <1>2, <1>3, <2>1 DEF Txs, TxManagerAssumption
<1>4. QED
  BY <1>1, <1>2, <1>3 DEF TxManagerAssumption

LEMMA PendingClaimed ==
  ASSUME TxManagerAssumption, Inv
  PROVE  /\ PendingNonce \in Len(mined) .. NumTxs
         /\ \A n \in Len(mined) .. NumTxs : (\A a \in mempool : a.nonce # n) => PendingNonce <= n
         /\ PendingNonce > 0 => \E t \in Txs : Claims(t, PendingNonce - 1)
<1> USE DEF Inv
<1> DEFINE S == {n \in Len(mined) .. NumTxs : \A a \in mempool : a.nonce # n}
<1>1. Len(mined) \in 0 .. NumTxs /\ NumTxs \in Nat
  BY MinedBound DEF TxManagerAssumption
<1>2. NumTxs \in S
  <2>1. ASSUME NEW a \in mempool PROVE a.nonce < NumTxs
    <3>1. a.tx \in Txs /\ a.nonce \in Nat /\ Claims(a.tx, a.nonce)
      BY DEF TypeOK, Claims
    <3>2. QED
      BY <3>1 DEF NoncesInv, ClaimsInOrder, Txs, TxManagerAssumption
  <2>2. QED
    BY <1>1, <2>1
<1>3. S \subseteq Int /\ IsFiniteSet(S) /\ S # {}
  <2> DEFINE range == Len(mined) .. NumTxs
  <2>1. S \subseteq range /\ range \subseteq Int
    BY <1>1
  <2>2. IsFiniteSet(range)
    BY <1>1, FS_Interval
  <2> HIDE DEF S, range
  <2>3. QED
    BY <1>2, <2>1, <2>2, FS_Subset
<1>4. PendingNonce \in S /\ \A n \in S : PendingNonce =< n
  BY <1>3, LeastExists DEF PendingNonce
<1>5. ASSUME PendingNonce > 0 PROVE \E t \in Txs : Claims(t, PendingNonce - 1)
  <2>1. CASE PendingNonce = Len(mined)
    <3>1. Len(mined) \in DOMAIN mined
      BY <1>5, <2>1, MinedTyped
    <3>2. QED
      BY <2>1, <3>1, MinedBound
  <2>2. CASE PendingNonce # Len(mined)
    <3>1. PendingNonce - 1 \in Len(mined) .. NumTxs /\ PendingNonce - 1 \notin S
      BY <1>1, <1>4, <2>2
    <3>2. PICK a \in mempool : a.nonce = PendingNonce - 1
      BY <3>1
    <3>3. a.tx \in Txs /\ Claims(a.tx, PendingNonce - 1)
      BY <3>2 DEF TypeOK, Claims
    <3>4. QED
      BY <3>3
  <2>3. QED
    BY <2>1, <2>2
<1>6. QED
  BY <1>1, <1>4, <1>5

LEMMA StopStep ==
  ASSUME TxManagerAssumption, Inv, Stop
  PROVE  Inv'
<1> USE DEF Inv
<1> DEFINE ahead == IF In({"in_progress"}) # {} THEN 1 ELSE 0
<1>1. /\ UNCHANGED <<etx, attempts, receipts, lag, common, mined, mempool, abandoned, world, reorgs>>
      /\ phase' = "idle" /\ todo' = {}
      /\ nextNonce' = IF PendingNonce > nextNonce + ahead THEN PendingNonce - ahead ELSE nextNonce
  BY DEF Stop, head, env
<1>2. faults' \in 0 .. MaxFaults
  BY DEF Stop, Fault, TypeOK, TxManagerAssumption
<1>3. /\ nextNonce \in 0 .. NumTxs /\ ahead \in 0 .. 1 /\ NumTxs \in Nat
      /\ PendingNonce \in 0 .. NumTxs
  BY PendingClaimed, MinedBound DEF TypeOK, TxManagerAssumption
<1> HIDE DEF ahead
<1>4. nextNonce' \in 0 .. NumTxs /\ nextNonce <= nextNonce'
  BY <1>1, <1>3
<1>5. TypeOK'
  BY <1>1, <1>2, <1>4 DEF TypeOK, Phases
<1>6. RowsInv'
  BY <1>1, RowKept, NoneMore, QuietPhase DEF RowsInv
<1>7. ASSUME NEW u \in Txs, ~Started(u) PROVE nextNonce' < u
  <2>1. nextNonce < u
    BY <1>7 DEF NoncesInv, QueueOrder
  <2>2. CASE PendingNonce > nextNonce + ahead
    <3>1. PICK t \in Txs : Claims(t, PendingNonce - 1)
      BY <1>3, <2>2, PendingClaimed
    <3>2. PendingNonce - 1 \in Nat
      BY <1>3, <2>2
    <3>3. PendingNonce - 1 < t /\ Started(t)
      BY <3>1, <3>2 DEF NoncesInv, ClaimsInOrder
    <3>4. t < u
      BY <1>7, <3>3 DEF NoncesInv, QueueOrder
    <3>5. QED
      BY <1>1, <1>3, <2>2, <3>3, <3>4 DEF Txs
  <2>3. QED
    BY <1>1, <2>1, <2>2
<1>8. AddsNoClaim
  BY <1>1 DEF AddsNoClaim, Started, Claims
<1>9. NoncesInv'
  BY <1>1, <1>4, <1>7, <1>8, OrderKept
<1>10. QED
  BY <1>5, <1>6, <1>9

-----------------------------------------------------------------------------
(***************************************************************************)
(* The chain.  OnOldChain is what its blocks gave back if all were left.   *)
(***************************************************************************)
OnOldChain == {[nonce |-> n - 1, tx |-> mined[n].tx, price |-> mined[n].price] : n \in DOMAIN mined}

Numbers == [nonce : 0 .. NumTxs, tx : Txs, price : Prices]

LEMMA NumbersFinite ==
  ASSUME TxManagerAssumption
  PROVE  IsFiniteSet(Numbers)
<1> DEFINE N == 0 .. NumTxs
           f == [c \in (N \X Txs) \X Prices |-> [nonce |-> c[1][1], tx |-> c[1][2], price |-> c[2]]]
<1>1. IsFiniteSet(N) /\ IsFiniteSet(Txs) /\ IsFiniteSet(Prices)
  BY FS_Interval DEF Txs, Prices, TxManagerAssumption
<1>2. IsFiniteSet((N \X Txs) \X Prices)
  BY <1>1, FS_Product
<1>3. f \in Surjection((N \X Txs) \X Prices, Numbers)
  <2>1. \A c \in (N \X Txs) \X Prices : f[c] \in Numbers
    BY DEF Numbers
  <2>2. ASSUME NEW a \in Numbers PROVE \E c \in (N \X Txs) \X Prices : f[c] = a
    <3>1. <<<<a.nonce, a.tx>>, a.price>> \in (N \X Txs) \X Prices
      BY DEF Numbers
    <3>2. a = [nonce |-> a.nonce, tx |-> a.tx, price |-> a.price]
      BY DEF Numbers
    <3>3. f[<<<<a.nonce, a.tx>>, a.price>>] = a
      BY <3>1, <3>2
    <3>4. QED
      BY <3>1, <3>3
  <2>3. QED
    BY <2>1, <2>2 DEF Surjection
<1>4. QED
  BY <1>2, <1>3, FS_Surjection

LEMMA KnownAre ==
  ASSUME TxManagerAssumption, Inv, NEW a \in mempool \cup OnOldChain
  PROVE  a \in Numbers /\ Claims(a.tx, a.nonce)
<1> USE DEF Inv
<1>1. CASE a \in mempool
  <2>1. a \in Attempts /\ Claims(a.tx, a.nonce)
    BY <1>1 DEF TypeOK, Attempts, Claims
  <2>2. a.nonce < a.tx
    BY <2>1 DEF NoncesInv, ClaimsInOrder, Attempts
  <2>3. QED
    BY <2>1, <2>2 DEF Attempts, Numbers, Txs, TxManagerAssumption
<1>2. CASE a \in OnOldChain
  <2>1. PICK n \in DOMAIN mined : a = [nonce |-> n - 1, tx |-> mined[n].tx, price |-> mined[n].price]
    BY <1>2 DEF OnOldChain
  <2>2. n - 1 \in 0 .. NumTxs /\ mined[n] \in Blocks /\ Claims(mined[n].tx, n - 1)
    BY MinedBound, MinedTyped
  <2>3. QED
    BY <2>1, <2>2 DEF Numbers, Blocks
<1>3. QED
  BY <1>1, <1>2

LEMMA OlderTyped ==
  ASSUME TxManagerAssumption
  PROVE  /\ \A age \in 0 .. OldAge : Older(age) \in 0 .. OldAge
         /\ \A age \in 0 .. OldAge \cup {Null} : Older(age) \in 0 .. OldAge \cup {Null}
<1>1. OldAge \in Nat
  BY DEF OldAge, TxManagerAssumption
<1>2. ASSUME NEW age \in 0 .. OldAge PROVE Older(age) \in 0 .. OldAge
  <2>1. IsFiniteSet({age + 1, OldAge}) /\ {age + 1, OldAge} \subseteq Int /\ {age + 1, OldAge} # {}
    <3>1. IsFiniteSet({age + 1}) /\ IsFiniteSet({OldAge})
      BY FS_Singleton
    <3>2. IsFiniteSet({age + 1} \cup {OldAge})
      BY <3>1, FS_Union
    <3>3. {age + 1} \cup {OldAge} = {age + 1, OldAge}
      OBVIOUS
    <3>4. QED
      BY <1>1, <3>2, <3>3
  <2>2. Min({age + 1, OldAge}) \in {age + 1, OldAge} /\ Min({age + 1, OldAge}) <= OldAge
    BY <2>1, LeastExists
  <2>3. QED
    BY <1>1, <2>2 DEF Older, Null
<1>3. QED
  BY <1>2 DEF Older, Null

LEMMA MaxOfTwo ==
  ASSUME NEW m \in Int, NEW n \in Int
  PROVE  Max({m, n}) \in {m, n} /\ Max({m, n}) >= m /\ Max({m, n}) >= n
<1>1. IsFiniteSet({m}) /\ IsFiniteSet({n})
  BY FS_Singleton
<1>2. IsFiniteSet({m} \cup {n})
  BY <1>1, FS_Union
<1>3. {m} \cup {n} = {m, n}
  OBVIOUS
<1>4. QED
  BY <1>2, <1>3, GreatestExists

(***************************************************************************)
(* The blocks that stay are the first ones, and every block that joins     *)
(* carries out what some node had, or what the chain had before.  Without  *)
(* a reorganisation all blocks stay.                                       *)
(***************************************************************************)
LEMMA NewHeadChain ==
  ASSUME TxManagerAssumption, Inv, NEW depth \in Nat, NEW taken, NewHead(depth, taken)
  PROVE  /\ mined' \in Seq(Blocks)
         /\ mempool' \subseteq {a \in mempool \cup OnOldChain : a.nonce >= Len(mined')}
         /\ depth = 0 => mempool' \subseteq mempool
         /\ \E K \in 0 .. Len(mined) :
              /\ depth = 0 => K = Len(mined)
              /\ \A n \in DOMAIN mined : mined[n].age >= depth => n <= K
              /\ K <= Len(mined') /\ Len(mined') \in Nat
              /\ \A n \in 1 .. K : /\ mined'[n].tx = mined[n].tx /\ mined'[n].price = mined[n].price
                                   /\ mined'[n].age = Older(mined[n].age)
              /\ \A n \in K + 1 .. Len(mined') :
                   \E a \in mempool \cup (IF depth = 0 THEN {} ELSE OnOldChain) :
                     mined'[n].tx = a.tx /\ mined'[n].price = a.price /\ a.nonce = n - 1
<1> USE DEF Inv
<1> DEFINE stay == {0} \cup {n \in DOMAIN mined : mined[n].age >= depth}
<1>1. /\ mined \in Seq(Blocks) /\ Len(mined) \in Nat /\ DOMAIN mined = 1 .. Len(mined)
      /\ \A n \in DOMAIN mined : mined[n] \in Blocks
  BY MinedTyped
<1>2. PICK K \in 0 .. Len(mined) : /\ K = Max(stay) /\ (depth = 0 => K = Len(mined))
                                  /\ \A n \in DOMAIN mined : mined[n].age >= depth => n <= K
  <2>1. stay \subseteq 0 .. Len(mined) /\ stay # {} /\ 0 .. Len(mined) \subseteq Int
    BY <1>1
  <2>2. IsFiniteSet(stay)
    <3>1. IsFiniteSet(0 .. Len(mined))
      BY <1>1, FS_Interval
    <3> HIDE DEF stay
    <3>2. QED
      BY <2>1, <3>1, FS_Subset
  <2>3. Max(stay) \in stay /\ \A n \in stay : Max(stay) >= n
    <3> HIDE DEF stay
    <3>1. QED
      BY <2>1, <2>2, GreatestExists
  <2>4. depth = 0 => Len(mined) \in stay
    <3>1. CASE Len(mined) = 0
      BY <3>1
    <3>2. CASE Len(mined) > 0
      BY <1>1, <3>2 DEF Blocks
    <3>3. QED
      BY <1>1, <3>1, <3>2
  <2> HIDE DEF stay
  <2>5. PICK k \in 0 .. Len(mined) : k = Max(stay)
    BY <2>1, <2>3
  <2>6. depth = 0 => k >= Len(mined)
    BY <2>3, <2>4, <2>5
  <2>7. k \in Int /\ Len(mined) \in Int /\ k <= Len(mined)
    BY <1>1
  <2>8. depth = 0 => k = Len(mined)
    BY <2>6, <2>7
  <2>9. \A n \in DOMAIN mined : mined[n].age >= depth => n \in stay /\ n \in Int
    BY <1>1 DEF stay
  <2>10. QED
    BY <2>3, <2>5, <2>8, <2>9
<1> HIDE DEF stay
<1> DEFINE kept == SubSeq(mined, 1, K)
           lost == {[nonce |-> n - 1, tx |-> mined[n].tx, price |-> mined[n].price] :
                      n \in Len(kept) + 1 .. Len(mined)}
           length == Len(kept) + Cardinality(taken)
<1>3. kept \in Seq(Blocks) /\ Len(kept) = K /\ \A n \in 1 .. K : kept[n] = mined[n] /\ n \in DOMAIN mined
  <2>1. K \in Nat /\ K <= Len(mined)
    BY <1>1, <1>2
  <2>2. kept = [i \in 1 .. K |-> mined[i]]
    BY <1>1, <2>1
  <2>3. \A n \in 1 .. K : n \in DOMAIN mined /\ mined[n] \in Blocks
    BY <1>1, <2>1
  <2> HIDE DEF kept
  <2>4. kept \in Seq(Blocks) /\ Len(kept) = K
    BY <2>1, <2>2, <2>3
  <2>5. QED
    BY <2>2, <2>3, <2>4
<1>4. lost \subseteq OnOldChain /\ (depth = 0 => lost = {})
  <2> HIDE DEF kept
  <2>1. Len(kept) + 1 .. Len(mined) \subseteq DOMAIN mined
    BY <1>1, <1>2, <1>3
  <2>2. lost \subseteq OnOldChain
    BY <2>1 DEF OnOldChain
  <2>3. depth = 0 => Len(kept) + 1 .. Len(mined) = {}
    BY <1>1, <1>2, <1>3
  <2>4. QED
    BY <2>2, <2>3
<1>5. /\ taken \subseteq mempool \cup lost
      /\ {a.nonce : a \in taken} = Len(kept) .. length - 1
      /\ mined' = [n \in 1 .. length |->
           IF n <= Len(kept) THEN [kept[n] EXCEPT !.age = Older(@)]
           ELSE LET a == CHOOSE a \in taken : a.nonce = n - 1
                IN [tx |-> a.tx, price |-> a.price, age |-> 0]]
      /\ mempool' = {a \in mempool \cup lost : a.nonce >= length}
  BY <1>2 DEF NewHead, stay
<1> DEFINE block(n) == IF n <= Len(kept) THEN [kept[n] EXCEPT !.age = Older(@)]
                       ELSE LET a == CHOOSE a \in taken : a.nonce = n - 1
                            IN [tx |-> a.tx, price |-> a.price, age |-> 0]
<1>12. mined' = [n \in 1 .. length |-> block(n)]
  BY <1>5
<1> HIDE DEF kept, lost, block
<1>13. DOMAIN mined' = 1 .. length /\ \A n \in 1 .. length : mined'[n] = block(n)
  BY <1>12
<1>6. length \in Nat /\ K <= length
  <2>1. taken \subseteq Numbers
    BY <1>4, <1>5, KnownAre
  <2>2. Cardinality(taken) \in Nat
    BY <2>1, NumbersFinite, FS_Subset, FS_CardinalityType
  <2>3. QED
    BY <1>2, <1>3, <2>2
<1> HIDE DEF length
<1>7. ASSUME NEW n \in 1 .. K
      PROVE  /\ mined'[n] \in Blocks /\ mined'[n].tx = mined[n].tx /\ mined'[n].price = mined[n].price
             /\ mined'[n].age = Older(mined[n].age)
  <2>1. mined[n] \in Blocks /\ kept[n] = mined[n]
    BY <1>1, <1>3
  <2>2. n \in 1 .. length /\ n <= Len(kept)
    BY <1>2, <1>3, <1>6
  <2>4. mined'[n] = [kept[n] EXCEPT !.age = Older(@)]
    BY <1>13, <2>2 DEF block
  <2>5. PICK b \in Blocks : b = mined[n]
    BY <2>1
  <2>6. mined'[n] = [b EXCEPT !.age = Older(@)]
    BY <2>1, <2>4, <2>5
  <2>7. Older(b.age) \in 0 .. OldAge
    BY OlderTyped DEF Blocks
  <2>8. mined'[n] = [tx |-> b.tx, price |-> b.price, age |-> Older(b.age)]
    BY ONLY <2>6, b \in Blocks DEF Blocks
  <2>3. QED
    BY <2>5, <2>7, <2>8 DEF Blocks
<1>8. ASSUME NEW n \in K + 1 .. length
      PROVE  /\ mined'[n] \in Blocks
             /\ \E a \in taken : mined'[n].tx = a.tx /\ mined'[n].price = a.price /\ a.nonce = n - 1
  <2> DEFINE a == CHOOSE a \in taken : a.nonce = n - 1
  <2>1. n - 1 \in Len(kept) .. length - 1
    BY <1>2, <1>3, <1>6
  <2>2. a \in taken /\ a.nonce = n - 1
    BY <1>5, <2>1
  <2>7. n \in 1 .. length /\ ~(n <= Len(kept))
    BY <1>2, <1>3, <1>6
  <2>3. mined'[n] = [tx |-> a.tx, price |-> a.price, age |-> 0]
    BY <1>13, <2>7 DEF block
  <2>4. a \in Numbers
    BY <1>4, <1>5, <2>2, KnownAre
  <2>5. 0 \in 0 .. OldAge
    BY DEF OldAge, TxManagerAssumption
  <2> HIDE DEF a
  <2>6. QED
    BY <2>2, <2>3, <2>4, <2>5 DEF Blocks, Numbers
<1>9. mined' \in Seq(Blocks) /\ Len(mined') = length
  <2>1. mined' = [n \in 1 .. length |-> mined'[n]]
    BY <1>12, <1>13
  <2>2. \A n \in 1 .. length : mined'[n] \in Blocks
    BY <1>2, <1>6, <1>7, <1>8
  <2>3. mined' \in [1 .. length -> Blocks] /\ DOMAIN mined' = 1 .. length
    BY <2>1, <2>2, Zenon
  <2>4. mined' \in Seq(Blocks)
    BY <1>6, <2>3, SeqDef, Zenon
  <2>5. QED
    BY <1>6, <2>3, <2>4, LenProperties
<1>10. \A n \in K + 1 .. length :
         \E a \in mempool \cup (IF depth = 0 THEN {} ELSE OnOldChain) :
           mined'[n].tx = a.tx /\ mined'[n].price = a.price /\ a.nonce = n - 1
  BY <1>4, <1>5, <1>8
<1>14. /\ mempool' \subseteq {a \in mempool \cup OnOldChain : a.nonce >= Len(mined')}
       /\ depth = 0 => mempool' \subseteq mempool
  <2>1. mempool' = {a \in mempool \cup lost : a.nonce >= length}
    BY <1>5
  <2>2. QED
    BY ONLY <2>1, <1>4, <1>9
<1>15. \A n \in 1 .. K : /\ mined'[n].tx = mined[n].tx /\ mined'[n].price = mined[n].price
                         /\ mined'[n].age = Older(mined[n].age)
  BY <1>7
<1>16. K \in 0 .. Len(mined) /\ K <= Len(mined') /\ Len(mined') \in Nat
  BY <1>6, <1>9
<1>11. QED
  BY ONLY <1>2, <1>9, <1>10, <1>14, <1>15, <1>16, Zenon

(***************************************************************************)
(* The rest of what a head changes: ages, and how far the confirmer and    *)
(* the nodes are behind.                                                   *)
(***************************************************************************)
LEMMA NewHeadEffect ==
  ASSUME TxManagerAssumption, Inv, NEW depth \in 0 .. ReorgDepth, NEW taken, NewHead(depth, taken)
  PROVE  /\ TypeOK'
         /\ UNCHANGED <<etx, nextNonce, phase, todo, world>>
         /\ \A t \in Txs, p \in Prices : attempts'[t][p].state = attempts[t][p].state
         /\ \A r \in receipts' : \E q \in receipts : r.tx = q.tx
         /\ common' <= lag' + ReorgDepth
         /\ depth = 0 => abandoned' \in {0, abandoned}
         /\ depth > 0 => "reorg" \in world.kinds
<1> USE DEF Inv
<1>1. depth \in Nat /\ ReorgDepth \in Nat /\ MaxLag \in Nat /\ depth <= ReorgDepth
  BY DEF TxManagerAssumption
<1>2. /\ UNCHANGED <<etx, nextNonce, phase, todo, world, faults>>
      /\ lag < MaxLag /\ lag' = lag + 1
      /\ common' = IF phase = "idle" THEN 0 ELSE Max({common, depth}) + 1
      /\ reorgs' = reorgs + (IF depth > 0 THEN 1 ELSE 0)
      /\ depth = 0 \/ ("reorg" \in world.kinds /\ reorgs < MaxReorgs)
  BY DEF NewHead
<1>3. mined' \in Seq(Blocks) /\ mempool' \subseteq mempool \cup OnOldChain
  BY <1>1, NewHeadChain
<1>4. mempool' \subseteq Attempts
  <2>1. \A a \in mempool \cup OnOldChain : a \in Numbers
    BY KnownAre
  <2>2. Numbers \subseteq Attempts
    BY DEF Numbers, Attempts, TxManagerAssumption
  <2>3. QED
    BY <1>3, <2>1, <2>2
<1>5. attempts' \in AttemptsType /\ \A t \in Txs, p \in Prices : attempts'[t][p].state = attempts[t][p].state
  <2>1. attempts' = [t \in Txs |-> [p \in Prices |->
          [attempts[t][p] EXCEPT !.age = Older(attempts[t][p].age)]]]
    BY DEF NewHead
  <2>2. ASSUME NEW t \in Txs, NEW p \in Prices
        PROVE  /\ attempts'[t][p] \in [state : AttemptStates, age : 0 .. OldAge \cup {Null}]
               /\ attempts'[t][p].state = attempts[t][p].state
    <3>1. attempts[t][p] \in [state : AttemptStates, age : 0 .. OldAge \cup {Null}]
      BY DEF TypeOK
    <3>2. Older(attempts[t][p].age) \in 0 .. OldAge \cup {Null}
      BY <3>1, OlderTyped
    <3>3. attempts'[t][p] = [attempts[t][p] EXCEPT !.age = Older(attempts[t][p].age)]
      BY <2>1
    <3>4. QED
      BY <3>1, <3>2, <3>3
  <2>3. attempts' \in AttemptsType
    BY <2>1, <2>2 DEF AttemptsType
  <2>4. QED
    BY <2>2, <2>3
<1>6. /\ receipts' \subseteq [tx : Txs, price : Prices, age : 0 .. OldAge, chain : Chains]
      /\ \A r \in receipts' : \E q \in receipts : r.tx = q.tx
  <2> DEFINE Receipts == [tx : Txs, price : Prices, age : 0 .. OldAge, chain : Chains]
             link(r) == IF r.chain = "longest" /\ r.age < depth
                        THEN IF phase # "idle" /\ r.age >= common THEN "head" ELSE "orphaned"
                        ELSE r.chain
             next(r) == [r EXCEPT !.age = Older(r.age), !.chain = link(r)]
  <2>1. receipts' = {next(r) : r \in receipts}
    BY DEF NewHead
  <2>2. ASSUME NEW r \in receipts
        PROVE  r \in Receipts /\ Older(r.age) \in 0 .. OldAge /\ link(r) \in Chains
    BY OlderTyped DEF TypeOK, Chains
  <2> HIDE DEF link
  <2>3. ASSUME NEW r \in receipts
        PROVE  next(r) \in Receipts /\ next(r).tx = r.tx
    BY <2>2
  <2> HIDE DEF Receipts, next
  <2>4. \A r \in receipts' : r \in Receipts /\ \E q \in receipts : r.tx = q.tx
    BY <2>1, <2>3
  <2>5. QED
    BY <2>4 DEF Receipts
<1>7. common' \in 0 .. MaxLag + ReorgDepth /\ lag' \in 0 .. MaxLag /\ common' <= lag' + ReorgDepth
  <2>1. common \in Nat /\ lag \in Nat /\ common <= lag + ReorgDepth
    BY DEF TypeOK, RowsInv, PhaseOK, TxManagerAssumption
  <2>2. Max({common, depth}) \in {common, depth}
    <3>1. common \in Int /\ depth \in Int
      BY <1>1, <2>1
    <3>2. QED
      BY ONLY <3>1, MaxOfTwo
  <2>3. QED
    BY <1>1, <1>2, <2>1, <2>2
<1>8. /\ abandoned' \in 0 .. NumTxs
      /\ depth = 0 => abandoned' \in {0, abandoned}
  <2>1. Len(mined) \in 0 .. NumTxs /\ abandoned \in 0 .. NumTxs /\ 0 \in 0 .. NumTxs
    BY MinedBound DEF TypeOK, TxManagerAssumption
  <2>2. \/ abandoned' \in {0, abandoned}
        \/ depth > 0 /\ abandoned' = Len(mined)
    BY DEF NewHead
  <2>3. QED
    BY <1>1, <2>1, <2>2
<1>9. reorgs' \in 0 .. MaxReorgs /\ faults' \in 0 .. MaxFaults
  BY <1>1, <1>2 DEF TypeOK, TxManagerAssumption
<1>10. TypeOK'
  BY <1>2, <1>3, <1>4, <1>5, <1>6, <1>7, <1>8, <1>9 DEF TypeOK, AttemptsType, Attempts, Blocks
<1>11. QED
  BY <1>1, <1>2, <1>5, <1>6, <1>7, <1>8, <1>10

LEMMA NewHeadStep ==
  ASSUME TxManagerAssumption, Inv, NEW depth \in 0 .. ReorgDepth, NEW taken, NewHead(depth, taken)
  PROVE  Inv'
<1> USE DEF Inv
<1>1. /\ TypeOK'
      /\ UNCHANGED <<etx, nextNonce, phase, todo>>
      /\ \A t \in Txs, p \in Prices : attempts'[t][p].state = attempts[t][p].state
      /\ common' <= lag' + ReorgDepth
  BY NewHeadEffect
<1>2. RowsInv'
  <2>1. \A u \in Txs : RowOK(u)'
    BY <1>1, SameStates DEF RowsInv
  <2>2. OneInProgress'
    BY <1>1, NoneMore DEF RowsInv
  <2>3. PhaseOK'
    BY <1>1 DEF RowsInv, PhaseOK, AttemptInProgress
  <2>4. QED
    BY <2>1, <2>2, <2>3 DEF RowsInv
<1>3. NoncesInv'
  <2>1. depth \in Nat
    BY DEF TxManagerAssumption
  <2>2. \A a \in mempool' : a \in mempool \cup OnOldChain
    BY <2>1, NewHeadChain
  <2>3. PICK K \in 0 .. Len(mined) :
          /\ Len(mined') \in Nat
          /\ \A n \in 1 .. K : mined'[n].tx = mined[n].tx
          /\ \A n \in K + 1 .. Len(mined') :
               \E a \in mempool \cup OnOldChain : mined'[n].tx = a.tx /\ a.nonce = n - 1
    BY <2>1, NewHeadChain
  <2>4. \A a \in mempool \cup OnOldChain : Claims(a.tx, a.nonce)
    BY KnownAre
  <2>5. DOMAIN mined' = 1 .. Len(mined') /\ Len(mined) \in Nat /\ DOMAIN mined = 1 .. Len(mined)
    <3>1. mined' \in Seq(Blocks)
      BY <2>1, NewHeadChain
    <3>2. QED
      BY <3>1, MinedTyped
  <2>6. ASSUME NEW t \in Txs, NEW n \in Nat, Claims(t, n)' PROVE Claims(t, n)
    <3>1. CASE etx'[t].nonce = n
      BY <1>1, <3>1 DEF Claims
    <3>2. CASE \E a \in mempool' : a.tx = t /\ a.nonce = n
      BY <2>2, <2>4, <3>2
    <3>3. CASE n + 1 \in DOMAIN mined' /\ mined'[n + 1].tx = t
      <4>1. CASE n + 1 <= K
        BY <2>3, <2>5, <3>3, <4>1 DEF Claims
      <4>2. CASE ~(n + 1 <= K)
        <5>1. n + 1 \in K + 1 .. Len(mined')
          BY <2>3, <2>5, <3>3, <4>2
        <5>2. PICK a \in mempool \cup OnOldChain : mined'[n + 1].tx = a.tx /\ a.nonce = n + 1 - 1
          BY <2>3, <5>1
        <5>3. n + 1 - 1 = n
          OBVIOUS
        <5>4. QED
          BY <2>4, <3>3, <5>2, <5>3
      <4>3. QED
        BY <4>1, <4>2
    <3>4. QED
      BY <2>6, <3>1, <3>2, <3>3 DEF Claims
  <2>7. AddsNoClaim
    BY <1>1, <2>6 DEF AddsNoClaim, Started
  <2>8. nextNonce \in Nat /\ nextNonce' = nextNonce /\ \A u \in Txs : ~Started(u) => nextNonce' < u
    BY <1>1 DEF TypeOK, NoncesInv, QueueOrder
  <2>9. QED
    BY <1>1, <2>7, <2>8, OrderKept
<1>4. QED
  BY <1>1, <1>2, <1>3

LEMMA HeadStep ==
  ASSUME TxManagerAssumption, NewHead(0, {}) \/ Mine \/ Reorganise
  PROVE  \E depth \in 0 .. ReorgDepth : \E taken : NewHead(depth, taken)
<1>1. 0 \in 0 .. ReorgDepth /\ 1 .. ReorgDepth \subseteq 0 .. ReorgDepth
  BY DEF TxManagerAssumption
<1>2. QED
  BY <1>1 DEF Mine, Reorganise

-----------------------------------------------------------------------------
(***************************************************************************)
(* The invariant holds of every behaviour.                                 *)
(***************************************************************************)
LEMMA InitInv ==
  ASSUME TxManagerAssumption, Init
  PROVE  Inv
<1>1. TypeOK
  BY DEF TypeOK, Init, NoAttempt, EtxStates, AttemptStates, Phases, TxManagerAssumption
<1>2. \A t \in Txs : etx[t].state = "none" /\ etx[t].nonce = Null /\ \A p \in Prices : attempts[t][p].state = "none"
  BY DEF Init, NoAttempt
<1>3. RowsInv
  BY <1>2 DEF Init, RowsInv, RowOK, OneInProgress, PhaseOK, AttemptInProgress, Later, TxManagerAssumption
<1>4. \A t \in Txs, n \in Nat : ~Claims(t, n)
  BY <1>2 DEF Init, Claims, Null
<1>5. QED
  BY <1>1, <1>2, <1>3, <1>4 DEF Inv, Init, NoncesInv, QueueOrder, ClaimsInOrder, Started, Txs, TxManagerAssumption

LEMMA NextInv ==
  ASSUME TxManagerAssumption, Inv, [Next]_vars
  PROVE  Inv'
<1>1. ASSUME NEW t \in Txs, CreateEthTransaction(t) \/ ReapEthTxes(t) PROVE Inv'
  BY <1>1, CreateStep, ReapStep
<1>2. CASE Broadcaster
  BY <1>2, SaveInProgressStep, HandleInProgressStep DEF Broadcaster
<1>3. CASE ProcessHead
  BY <1>3, TakeHeadStep, SetBroadcastBeforeStep, CheckMissingStep, CheckReceiptsStep, MarkStep,
     HandleAnyStep, RebroadcastWhereStep, RebroadcastStep, MarkForRebroadcastStep, PhaseEndsStep
     DEF ProcessHead
<1>4. CASE ResendUnconfirmed
  BY <1>4, ResendStep
<1>5. CASE Stop
  BY <1>5, StopStep
<1>6. CASE NewHead(0, {}) \/ Mine \/ Reorganise
  BY <1>6, HeadStep, NewHeadStep
<1>7. CASE Evict
  BY <1>7, EvictStep
<1>8. CASE UNCHANGED vars
  BY <1>8 DEF vars, db, head, env, Inv, TypeOK, RowsInv, RowOK, OneInProgress, PhaseOK, NoncesInv,
              QueueOrder, ClaimsInOrder, Started, Claims, AttemptInProgress
<1>9. QED
  BY <1>1, <1>2, <1>3, <1>4, <1>5, <1>6, <1>7, <1>8 DEF Next

(***************************************************************************)
(* The queue, the confirmer, the resender, the reaper and the chain leave  *)
(* the database and the chain well formed: no nonce beyond the number of   *)
(* transactions, no age or lag beyond its bound, in every world.           *)
(***************************************************************************)
THEOREM TxManagerTyped == Spec => []TypeOK
<1>1. Init => Inv
  BY InitInv, TxManagerAssumption
<1>2. Inv /\ [Next]_vars => Inv'
  BY NextInv, TxManagerAssumption
<1>3. Inv => TypeOK
  BY DEF Inv
<1>4. QED
  BY <1>1, <1>2, <1>3, PTL DEF Spec

(***************************************************************************)
(* The account's transactions are carried out once each and in the order   *)
(* they were created in, through lost answers, stops at any step, nodes    *)
(* that lag, evictions and reorganisations, in any number.                 *)
(***************************************************************************)
THEOREM CarriedOutInOrder == Spec => []OnceInOrder
<1>1. Init => Inv
  BY InitInv, TxManagerAssumption
<1>2. Inv /\ [Next]_vars => Inv'
  BY NextInv, TxManagerAssumption
<1>3. Inv => OnceInOrder
  <2>1. SUFFICES ASSUME Inv, NEW m \in DOMAIN mined, NEW n \in DOMAIN mined, m < n
                 PROVE  mined[m].tx < mined[n].tx
    BY DEF OnceInOrder
  <2> DEFINE t == mined[m].tx
             u == mined[n].tx
  <2>2. /\ m - 1 \in Nat /\ n - 1 \in Nat /\ t \in Txs /\ u \in Txs /\ Claims(t, m - 1) /\ Claims(u, n - 1)
        /\ m \in Nat /\ n \in Nat
    BY <2>1, MinedBound, TxManagerAssumption, MinedTyped DEF Inv
  <2> HIDE DEF t, u
  <2>3. u <= t => n - 1 <= m - 1
    BY <2>1, <2>2 DEF Inv, NoncesInv, ClaimsInOrder
  <2>4. t < u
    BY <2>1, <2>2, <2>3 DEF Txs
  <2>5. QED
    BY <2>4 DEF t, u
<1>4. QED
  BY <1>1, <1>2, <1>3, PTL DEF Spec

-----------------------------------------------------------------------------
(***************************************************************************)
(* A transaction that was sent has an attempt to go on with.  Only a node  *)
(* that caps fees makes the confirmer delete one, so in any other world    *)
(* there is always one.                                                    *)
(***************************************************************************)
HasAttempt(t) == \E p \in Prices : attempts[t][p].state # "none"

Kept == "feecap" \notin world.kinds => \A t \in Txs : etx[t].state \in Later => HasAttempt(t)

LEMMA KeptIf ==
  ASSUME Kept, world' = world,
         \A t \in Txs : etx'[t].state \in Later =>
           \/ HasAttempt(t)'
           \/ /\ etx[t].state \in Later
              /\ \A p \in Prices : attempts'[t][p].state = "none" => attempts[t][p].state = "none"
  PROVE  Kept'
  BY DEF Kept, HasAttempt

\* the answers to the confirmer's attempts: deleted only for want of a lower cap
LEMMA HandledIsKept ==
  ASSUME TxManagerAssumption, Inv, Kept, world' = world, NEW t \in Txs, etx[t].state \in Later,
         NEW p \in Prices, NEW r \in Answer(Sent(t, p)), handleInProgressAttempt(t, p, r),
         \A q \in Prices \ {p} : ~AttemptInProgress(t, q)
  PROVE  Kept'
<1>1. Sent(t, p) \in Attempts
  BY SentTyped DEF Inv, RowsInv, RowOK
<1>2. r.err = "feecap" => "feecap" \in world.kinds
  BY <1>1, AnswerIs DEF Inv
<1>3. /\ \A u \in Txs \ {t} : etx'[u] = etx[u] /\ attempts'[u] = attempts[u]
      /\ attempts'[t][p].state = "none" => r.err = "feecap"
  BY HandleAttemptEffect
<1>4. "feecap" \notin world.kinds => HasAttempt(t)'
  BY <1>2, <1>3 DEF HasAttempt
<1>5. QED
  BY <1>3, <1>4, KeptIf DEF Kept

LEMMA KeptStep ==
  ASSUME TxManagerAssumption, Inv, Kept, [Next]_vars
  PROVE  Kept'
<1>1. ASSUME NEW t \in Txs, CreateEthTransaction(t) PROVE Kept'
  <2>1. /\ etx'[t].state = "unstarted" /\ \A u \in Txs \ {t} : etx'[u] = etx[u]
        /\ attempts' = attempts /\ world' = world
    BY <1>1 DEF CreateEthTransaction, Inv, TypeOK, env
  <2>2. QED
    BY <2>1, KeptIf DEF Later
<1>2. ASSUME NEW t \in Txs, saveInProgressTransaction(t) PROVE Kept'
  <2>1. /\ etx'[t].state = "in_progress" /\ \A u \in Txs \ {t} : etx'[u] = etx[u] /\ attempts'[u] = attempts[u]
        /\ world' = world
    BY <1>2 DEF saveInProgressTransaction, Inv, TypeOK, env
  <2>2. QED
    BY <2>1, KeptIf DEF Later
<1>3. ASSUME NEW t \in Txs, handleInProgressEthTx(t) PROVE Kept'
  <2>1. /\ \A u \in Txs \ {t} : etx'[u] = etx[u] /\ attempts'[u] = attempts[u]
        /\ world' = world /\ etx[t].state = "in_progress"
        /\ GivesUp(t) \/ Waits \/ \E p \in Prices : Saves(t, p) \/ Bumps(t, p)
    BY <1>3, HandleInProgressEffect
  <2>2. etx'[t].state \in Later => HasAttempt(t)'
    BY <2>1 DEF GivesUp, Waits, Saves, Bumps, Later, HasAttempt
  <2>3. QED
    BY <2>1, <2>2, KeptIf
<1>4. CASE \/ TakeHead \/ rebroadcastWhereNecessary \/ ResendUnconfirmed \/ Stop \/ Evict \/ UNCHANGED vars
           \/ EnsureConfirmedTransactionsInLongestChain \/ HeadDone
  <2>1. UNCHANGED <<etx, attempts, world>>
    BY <1>4 DEF TakeHead, rebroadcastWhereNecessary, ResendUnconfirmed, Stop, Evict, vars, db, env,
                EnsureConfirmedTransactionsInLongestChain, HeadDone, Enter
  <2>2. QED
    BY <2>1 DEF Kept, HasAttempt
<1>5. CASE SetBroadcastBeforeBlockNum
  <2>1. world' = world
    BY <1>5 DEF SetBroadcastBeforeBlockNum, Enter
  <2>2. QED
    BY <1>5, <2>1, SetBroadcastBeforeStep, KeptIf
<1>6. CASE CheckConfirmedMissingReceipt
  BY <1>6, CheckMissingEffect, KeptIf DEF Later
<1>7. CASE CheckForReceipts
  <2>1. /\ \A u \in Txs : \/ etx'[u] = etx[u]
                          \/ \E n \in RequiringReceiptFetch : mined[n].tx = u
        /\ \A n \in RequiringReceiptFetch : etx[mined[n].tx].state \in Later
        /\ \A t \in Txs, p \in Prices :
             attempts'[t][p] = attempts[t][p] \/ attempts'[t][p].state = "broadcast"
        /\ world' = world
    BY <1>7, CheckReceiptsEffect DEF Later
  <2>2. QED
    BY <2>1, KeptIf
<1>8. CASE markAllConfirmedMissingReceipt \/ markOldTxesMissingReceiptAsErrored
  BY <1>8, MarkEffect, KeptIf DEF Later
<1>9. CASE handleAnyInProgressAttempts
  BY <1>9, HandleAnyEffect, HandledIsKept
<1>10. ASSUME NEW t \in Txs, Rebroadcast(t) PROVE Kept'
  <2>1. world' = world /\ etx[t].state \in Later
    BY <1>10 DEF Rebroadcast, Inv, RowsInv, PhaseOK, Later
  <2>2. CASE PricesOf(t) = {}
    <3>1. UNCHANGED <<etx, attempts>>
      BY <1>10, <2>2 DEF Rebroadcast
    <3>2. QED
      BY <2>1, <3>1 DEF Kept, HasAttempt
  <2>3. CASE PricesOf(t) # {}
    BY <1>10, <2>1, <2>3, RebroadcastEffect, HandledIsKept
  <2>4. QED
    BY <2>2, <2>3
<1>11. ASSUME NEW t \in Txs, markForRebroadcast(t) PROVE Kept'
  <2>1. CASE UNCHANGED <<etx, attempts>>
    BY <1>11, <2>1, MarkForRebroadcastEffect DEF Kept, HasAttempt
  <2>2. CASE ~UNCHANGED <<etx, attempts>>
    <3>1. /\ \A u \in Txs \ {t} : etx'[u] = etx[u] /\ attempts'[u] = attempts[u]
          /\ \E p \in Prices : AttemptInProgress(t, p)'
          /\ world' = world
      BY <1>11, <2>2, MarkForRebroadcastEffect
    <3>2. HasAttempt(t)'
      BY <3>1 DEF AttemptInProgress, HasAttempt
    <3>3. QED
      BY <3>1, <3>2, KeptIf
  <2>3. QED
    BY <2>1, <2>2
<1>12. ASSUME NEW t \in Txs, ReapEthTxes(t) PROVE Kept'
  BY <1>12, ReapEffect, KeptIf DEF Later
<1>13. CASE NewHead(0, {}) \/ Mine \/ Reorganise
  BY <1>13, HeadStep, NewHeadEffect, KeptIf
<1>14. QED
  BY <1>1, <1>2, <1>3, <1>4, <1>5, <1>6, <1>7, <1>8, <1>9, <1>10, <1>11, <1>12, <1>13
     DEF Next, Broadcaster, ProcessHead

LEMMA AtMostOne ==
  ASSUME NEW S, \A x, y \in S : x = y
  PROVE  Cardinality(S) <= 1 /\ (S # {} => Cardinality(S) = 1)
<1>1. CASE S = {}
  BY <1>1, FS_EmptySet
<1>2. CASE S # {}
  <2>1. PICK x \in S : S = {x}
    BY <1>2
  <2>2. QED
    BY <2>1, FS_Singleton
<1>3. QED
  BY <1>1, <1>2

(***************************************************************************)
(* What the broadcaster and the confirmer rely on in the database holds    *)
(* whatever is lost, stopped, evicted or reorganised, and in any number:   *)
(* one transaction in progress with one attempt, and for every other that  *)
(* was sent an attempt to rebroadcast, of which one at most is in          *)
(* progress.  A node that caps fees is the exception: the confirmer        *)
(* deletes the attempt that is above the cap, were it the last one.        *)
(***************************************************************************)
THEOREM RowsStayConsistent == Spec => []("feecap" \notin world.kinds => RowsConsistent)
<1>1. Init => Inv /\ Kept
  <2>1. Init => Kept
    BY DEF Init, Kept, Later
  <2>2. QED
    BY <2>1, InitInv, TxManagerAssumption
<1>2. (Inv /\ Kept) /\ [Next]_vars => (Inv /\ Kept)'
  BY NextInv, KeptStep, TxManagerAssumption
<1>3. Inv /\ Kept => ("feecap" \notin world.kinds => RowsConsistent)
  <2>1. SUFFICES ASSUME Inv, Kept, "feecap" \notin world.kinds PROVE RowsConsistent
    OBVIOUS
  <2>2. Cardinality(In({"in_progress"})) <= 1
    <3>1. \A t, u \in In({"in_progress"}) : t = u
      BY <2>1 DEF Inv, RowsInv, OneInProgress, In
    <3>2. QED
      BY <3>1, AtMostOne
  <2>3. ASSUME NEW t \in Txs
        PROVE  /\ Cardinality(WithState(t, {"in_progress"})) <= 1
               /\ etx[t].state = "in_progress" =>
                    Cardinality(PricesOf(t)) = 1 /\ WithState(t, {"in_progress"}) # {}
               /\ etx[t].state \in {"unconfirmed", "confirmed", "confirmed_missing_receipt"} => PricesOf(t) # {}
               /\ etx[t].state \in {"none", "unstarted", "reaped"} => PricesOf(t) = {}
    <3>1. RowOK(t) /\ (etx[t].state \in Later => HasAttempt(t))
          /\ \A p \in Prices : attempts[t][p].state \in AttemptStates
      BY <2>1 DEF Inv, RowsInv, Kept, TypeOK
    <3>2. Cardinality(WithState(t, {"in_progress"})) <= 1
      <4>1. \A p, q \in WithState(t, {"in_progress"}) : p = q
        BY <3>1 DEF RowOK, AttemptInProgress, WithState
      <4>2. QED
        BY <4>1, AtMostOne
    <3>3. ASSUME etx[t].state = "in_progress"
          PROVE  Cardinality(PricesOf(t)) = 1 /\ WithState(t, {"in_progress"}) # {}
      <4>1. PICK p \in Prices : AttemptInProgress(t, p) /\ \A q \in Prices \ {p} : attempts[t][q].state = "none"
        BY <3>1, <3>3 DEF RowOK
      <4>2. p \in WithState(t, {"in_progress"}) /\ p \in PricesOf(t) /\ \A q \in PricesOf(t) : q = p
        BY <4>1 DEF AttemptInProgress, WithState, PricesOf, AttemptStates
      <4>3. QED
        BY <4>2, AtMostOne
    <3>4. etx[t].state \in Later => PricesOf(t) # {}
      BY <3>1 DEF HasAttempt, PricesOf, WithState
    <3>5. etx[t].state \in {"none", "unstarted", "reaped"} => PricesOf(t) = {}
      BY <3>1 DEF RowOK, PricesOf, WithState
    <3>6. QED
      BY <3>2, <3>3, <3>4, <3>5 DEF Later
  <2>4. QED
    BY <2>2, <2>3 DEF RowsConsistent
<1>4. QED
  BY <1>1, <1>2, <1>3, PTL DEF Spec

-----------------------------------------------------------------------------
(***************************************************************************)
(* What lost answers, stops, evictions and nodes that lag cannot disturb,  *)
(* in any number, while the chain is not reorganised, receipts are found,  *)
(* the wallet is not empty, no node caps fees and no transmit checker      *)
(* fails: whatever was sent is in the database, and a nonce that was given *)
(* out is on the chain or held by one transaction.                         *)
(***************************************************************************)
Steady == world.kinds \subseteq {"unknown", "stop", "evict", "stale"}

Saved(t, nonce, price) == etx[t].nonce = nonce /\ attempts[t][price].state # "none"
Takes(t, price) == t \notin world.bad /\ price >= world.floor

PoolSaved ==
  \A a \in mempool : Saved(a.tx, a.nonce, a.price) /\ Takes(a.tx, a.price) /\ a.nonce >= Len(mined)

ChainSaved ==
  \A n \in DOMAIN mined :
    /\ Saved(mined[n].tx, n - 1, mined[n].price) \/ etx[mined[n].tx].state = "reaped"
    /\ Takes(mined[n].tx, mined[n].price)

\* each nonce has one claimant, and the next one only the transaction in progress
OneClaimant ==
  /\ \A t, u \in Txs, n \in Nat : Claims(t, n) /\ Claims(u, n) => t = u
  /\ \A t \in Txs, n \in Nat : Claims(t, n) => n < nextNonce \/ etx[t].state = "in_progress"
  /\ \A t \in Txs : etx[t].state = "in_progress" => etx[t].nonce = nextNonce

NonceHeld == \A n \in Nat : n < nextNonce => n < Len(mined) \/ \E t \in Txs : etx[t].nonce = n

\* what the database says was carried out was
Recorded ==
  /\ \A r \in receipts : OnChain(r.tx)
  /\ \A t \in Txs : etx[t].state = "reaped" => OnChain(t)
  /\ \A t \in Txs : etx[t].state \in {"confirmed", "confirmed_missing_receipt"} => etx[t].nonce < Len(mined)

\* no answer but "unknown" leaves an attempt unsent, and no node is on an old fork
Answered ==
  /\ abandoned = 0
  /\ \A t \in Txs, p \in Prices : attempts[t][p].state # "insufficient_eth"

\* the receipts that were asked for last left nothing to mark
NoneToMark ==
  /\ phase \in {"mark_missing", "mark_old"} =>
       \A t \in Txs : etx[t].state # "confirmed_missing_receipt"
  /\ phase = "mark_missing" =>
       \A s, t \in Txs : etx[s].state = "confirmed" /\ etx[t].state = "unconfirmed" =>
         etx[s].nonce < etx[t].nonce

Core == PoolSaved /\ ChainSaved /\ OneClaimant /\ NonceHeld

Safe ==
  /\ Core
  /\ Recorded /\ Answered /\ NoneToMark

CrashSafe == Steady => Safe

LEMMA OkIsTaken ==
  ASSUME TxManagerAssumption, TypeOK, NEW a \in Attempts, Verdict(a) = "ok"
  PROVE  Takes(a.tx, a.price) /\ a.nonce >= Len(mined)
<1>1. Len(mined) \in Nat /\ a.nonce \in Nat /\ a.price \in Nat /\ world.floor \in Nat
  BY MinedTyped, WorldTyped DEF Attempts, Prices, TxManagerAssumption
<1>2. QED
  BY <1>1 DEF Verdict, Takes

(***************************************************************************)
(* A step of the confirmer or the resender, and one that sends nothing.    *)
(***************************************************************************)
LEMMA CoreIf ==
  ASSUME TxManagerAssumption, TypeOK, TypeOK', Core,
         UNCHANGED <<mined, nextNonce, world>>,
         \A u \in Txs : /\ etx'[u].nonce = etx[u].nonce
                        /\ \/ etx'[u].state = etx[u].state
                           \/ /\ etx[u].state \notin {"in_progress", "reaped"}
                              /\ etx'[u].state \notin {"in_progress", "reaped"},
         \A t \in Txs, p \in Prices : attempts[t][p].state # "none" => attempts'[t][p].state # "none",
         \A a \in mempool' : \/ a \in mempool
                             \/ /\ Verdict(a) = "ok" /\ etx[a.tx].nonce = a.nonce
                                /\ attempts'[a.tx][a.price].state # "none"
  PROVE  Core'
<1> USE DEF Core
<1>2. \A u \in Txs : /\ etx'[u].nonce = etx[u].nonce
                     /\ (etx[u].state = "reaped") => (etx'[u].state = "reaped")
                     /\ (etx'[u].state = "reaped") => (etx[u].state = "reaped")
                     /\ (etx[u].state = "in_progress") <=> (etx'[u].state = "in_progress")
  OBVIOUS
<1>3. mempool' \subseteq Attempts
  BY DEF TypeOK, Attempts
<1>4. \A n \in DOMAIN mined : mined[n] \in Blocks
  BY MinedTyped
<1>5. PoolSaved'
  <2>1. SUFFICES ASSUME NEW a \in mempool'
                 PROVE  /\ etx'[a.tx].nonce = a.nonce /\ attempts'[a.tx][a.price].state # "none"
                        /\ Takes(a.tx, a.price) /\ a.nonce >= Len(mined)
    BY DEF PoolSaved, Saved, Takes
  <2>2. a \in Attempts /\ a.tx \in Txs /\ a.price \in Prices
    BY <1>3 DEF Attempts
  <2>3. CASE a \in mempool
    BY <1>2, <2>2, <2>3 DEF PoolSaved, Saved
  <2>4. CASE a \notin mempool
    BY <1>2, <2>2, <2>4, OkIsTaken
  <2>5. QED
    BY <2>3, <2>4
<1>6. ChainSaved'
  <2>1. SUFFICES ASSUME NEW n \in DOMAIN mined
                 PROVE  /\ \/ etx'[mined[n].tx].nonce = n - 1 /\ attempts'[mined[n].tx][mined[n].price].state # "none"
                           \/ etx'[mined[n].tx].state = "reaped"
                        /\ Takes(mined[n].tx, mined[n].price)
    BY DEF ChainSaved, Saved, Takes
  <2>2. mined[n].tx \in Txs /\ mined[n].price \in Prices
    BY <1>4 DEF Blocks
  <2>3. QED
    BY <1>2, <2>2 DEF ChainSaved, Saved
<1>7. OneClaimant'
  <2>1. \A u \in Txs, n \in Nat : Claims(u, n)' => Claims(u, n)
    BY <1>2, SendsClaimed
  <2>2. QED
    BY <1>2, <2>1 DEF OneClaimant
<1>8. NonceHeld'
  BY <1>2 DEF NonceHeld
<1>9. QED
  BY <1>5, <1>6, <1>7, <1>8

LEMMA SafeIf ==
  ASSUME TxManagerAssumption, Inv, Inv', Safe,
         UNCHANGED <<mined, nextNonce, abandoned, world>>,
         \A u \in Txs : /\ etx'[u].nonce = etx[u].nonce
                        /\ \/ etx'[u].state = etx[u].state
                           \/ /\ etx[u].state \notin {"in_progress", "reaped"}
                              /\ etx'[u].state \notin {"in_progress", "reaped"},
         \A t \in Txs, p \in Prices :
           /\ attempts[t][p].state # "none" => attempts'[t][p].state # "none"
           /\ attempts'[t][p].state # "insufficient_eth",
         \A a \in mempool' : \/ a \in mempool
                             \/ /\ Verdict(a) = "ok" /\ etx[a.tx].nonce = a.nonce
                                /\ attempts'[a.tx][a.price].state # "none",
         \A r \in receipts' : OnChain(r.tx),
         \A u \in Txs : etx'[u].state \in {"confirmed", "confirmed_missing_receipt"} => etx[u].nonce < Len(mined),
         NoneToMark'
  PROVE  Safe'
<1>1. Core'
  BY CoreIf DEF Safe, Inv
<1>2. Recorded'
  BY DEF Safe, Recorded, OnChain
<1>3. Answered'
  BY DEF Safe, Answered
<1>4. QED
  BY <1>1, <1>2, <1>3 DEF Safe

(***************************************************************************)
(* Steps that change no row of a transaction.                              *)
(***************************************************************************)
LEMMA SafeQuiet ==
  ASSUME TxManagerAssumption, Inv, Inv', Safe,
         UNCHANGED <<etx, nextNonce, mined, abandoned, world>>,
         \A t \in Txs, p \in Prices : attempts'[t][p].state = attempts[t][p].state,
         \A r \in receipts' : \E q \in receipts : r.tx = q.tx,
         \A a \in mempool' : \/ a \in mempool
                             \/ /\ Verdict(a) = "ok" /\ etx[a.tx].nonce = a.nonce
                                /\ a.tx \in Txs /\ a.price \in PricesOf(a.tx),
         phase' \in {"mark_missing", "mark_old"} => phase' = phase
  PROVE  Safe'
<1>1. \A t \in Txs, p \in Prices :
        /\ attempts[t][p].state # "none" => attempts'[t][p].state # "none"
        /\ attempts'[t][p].state # "insufficient_eth"
  BY DEF Safe, Answered
<1>2. \A a \in mempool' : \/ a \in mempool
                          \/ /\ Verdict(a) = "ok" /\ etx[a.tx].nonce = a.nonce
                             /\ attempts'[a.tx][a.price].state # "none"
  BY DEF PricesOf, WithState
<1>3. \A r \in receipts' : OnChain(r.tx)
  BY DEF Safe, Recorded, OnChain
<1>4. NoneToMark'
  BY DEF Safe, NoneToMark
<1>5. \A u \in Txs : etx'[u].state \in {"confirmed", "confirmed_missing_receipt"} => etx[u].nonce < Len(mined)
  BY DEF Safe, Recorded
<1>6. QED
  BY <1>1, <1>2, <1>3, <1>4, <1>5, SafeIf

LEMMA SafeCreate ==
  ASSUME TxManagerAssumption, Inv, Inv', Safe, NEW t \in Txs, CreateEthTransaction(t)
  PROVE  Safe'
<1>1. /\ etx[t].state = "none" /\ etx'[t].state = "unstarted" /\ etx'[t].nonce = etx[t].nonce
      /\ \A u \in Txs \ {t} : etx'[u] = etx[u]
      /\ UNCHANGED <<attempts, receipts, nextNonce, phase, mined, mempool, abandoned, world>>
  BY DEF CreateEthTransaction, Inv, TypeOK, env
<1>2. \A u \in Txs : /\ etx'[u].nonce = etx[u].nonce
                     /\ \/ etx'[u].state = etx[u].state
                        \/ u = t /\ etx[u].state = "none" /\ etx'[u].state = "unstarted"
  BY <1>1
<1>3. NoneToMark'
  BY <1>1, <1>2 DEF Safe, NoneToMark
<1>4. \A u \in Txs : etx'[u].state \in {"confirmed", "confirmed_missing_receipt"} => etx[u].nonce < Len(mined)
  BY <1>2 DEF Safe, Recorded
<1>5. QED
  BY <1>1, <1>2, <1>3, <1>4, SafeIf DEF Safe, Recorded, Answered

LEMMA SafeCheckMissing ==
  ASSUME TxManagerAssumption, Inv, Inv', Safe, CheckConfirmedMissingReceipt
  PROVE  Safe'
<1>1. /\ \A a \in mempool' : \/ a \in mempool
                             \/ /\ Verdict(a) = "ok" /\ etx[a.tx].nonce = a.nonce
                                /\ a.tx \in Txs /\ a.price \in PricesOf(a.tx)
      /\ \A u \in Txs : \/ etx'[u] = etx[u]
                        \/ /\ etx[u].state = "confirmed_missing_receipt"
                           /\ etx'[u].state = "unconfirmed" /\ etx'[u].nonce = etx[u].nonce
      /\ UNCHANGED <<attempts, receipts, nextNonce, mined, abandoned, world>> /\ phase' = "receipts"
  BY CheckMissingEffect
<1>2. \A a \in mempool' : \/ a \in mempool
                          \/ /\ Verdict(a) = "ok" /\ etx[a.tx].nonce = a.nonce
                             /\ attempts'[a.tx][a.price].state # "none"
  BY <1>1 DEF PricesOf, WithState
<1>3. NoneToMark'
  BY <1>1 DEF NoneToMark
<1>4. \A u \in Txs : etx'[u].state \in {"confirmed", "confirmed_missing_receipt"} => etx[u].nonce < Len(mined)
  BY <1>1 DEF Safe, Recorded
<1>5. QED
  BY <1>1, <1>2, <1>3, <1>4, SafeIf DEF Safe, Recorded, Answered

\* the chain's attempt of a sent transaction is one whose receipt is asked for
LEMMA Fetched ==
  ASSUME TxManagerAssumption, Inv, Core, NEW t \in Txs,
         \A p \in Prices : attempts[t][p].state # "insufficient_eth",
         etx[t].state \in {"unconfirmed", "confirmed_missing_receipt"}, etx[t].nonce < Len(mined)
  PROVE  \E n \in RequiringReceiptFetch : mined[n].tx = t
<1> DEFINE n == etx[t].nonce + 1
<1>1. etx[t].nonce \in Nat /\ Len(mined) \in Nat /\ DOMAIN mined = 1 .. Len(mined)
  BY MinedTyped DEF Inv, TypeOK, RowsInv, RowOK, Later
<1>2. n \in DOMAIN mined /\ n - 1 = etx[t].nonce
  BY <1>1
<1>3. mined[n] \in Blocks /\ mined[n].tx \in Txs /\ mined[n].price \in Prices
  BY <1>2, MinedTyped DEF Inv, Blocks
<1>4. Claims(mined[n].tx, etx[t].nonce) /\ Claims(t, etx[t].nonce)
  BY <1>2 DEF Claims
<1>5. mined[n].tx = t
  BY <1>1, <1>3, <1>4 DEF Core, OneClaimant
<1>6. attempts[t][mined[n].price].state \notin {"none", "insufficient_eth"}
  BY <1>2, <1>3, <1>5 DEF Core, ChainSaved, Saved
<1>7. attempts[t][mined[n].price].state \in {"in_progress", "broadcast"}
  BY <1>3, <1>6 DEF Inv, TypeOK, AttemptStates
<1> HIDE DEF n
<1>8. n \in RequiringReceiptFetch
  BY <1>2, <1>5, <1>7 DEF RequiringReceiptFetch
<1>9. QED
  BY <1>5, <1>8

LEMMA SafeCheckReceipts ==
  ASSUME TxManagerAssumption, Inv, Inv', Safe, Steady, CheckForReceipts
  PROVE  Safe'
<1> DEFINE got == RequiringReceiptFetch
<1>1. /\ \A r \in receipts' : r \in receipts \/ \E n \in got : r.tx = mined[n].tx
      /\ \A n \in got : etx'[mined[n].tx].state = "confirmed"
      /\ \A u \in Txs : \/ etx'[u] = etx[u]
                        \/ /\ \E n \in got : mined[n].tx = u
                           /\ etx'[u].state = "confirmed" /\ etx'[u].nonce = etx[u].nonce
  BY CheckReceiptsEffect DEF Steady
<1>2. /\ \A n \in got : etx[mined[n].tx].state \in {"unconfirmed", "confirmed_missing_receipt"}
      /\ \A t \in Txs, p \in Prices :
           attempts'[t][p] = attempts[t][p] \/ attempts'[t][p].state = "broadcast"
      /\ UNCHANGED <<nextNonce, mined, mempool, abandoned, world>>
  BY CheckReceiptsEffect
<1>3. \A n \in got : n \in DOMAIN mined
  BY DEF RequiringReceiptFetch
<1>4. Len(mined) \in Nat /\ DOMAIN mined = 1 .. Len(mined) /\ \A n \in got : mined[n].tx \in Txs
  BY <1>3, MinedTyped DEF Inv, Blocks
<1>5. \A r \in receipts' : OnChain(r.tx)
  BY <1>1, <1>3 DEF Safe, Recorded, OnChain
<1> HIDE DEF got
<1>6. \A u \in Txs : etx'[u].state \in {"confirmed", "confirmed_missing_receipt"} => etx[u].nonce < Len(mined)
  <2>1. SUFFICES ASSUME NEW u \in Txs, etx'[u].state \in {"confirmed", "confirmed_missing_receipt"}
                 PROVE  etx[u].nonce < Len(mined)
    OBVIOUS
  <2>2. CASE etx'[u] = etx[u]
    BY <2>1, <2>2 DEF Safe, Recorded
  <2>3. CASE etx'[u] # etx[u]
    <3>1. PICK n \in got : mined[n].tx = u
      BY <1>1, <2>3
    <3>2. etx[u].nonce = n - 1
      BY <1>2, <1>3, <3>1 DEF Safe, Core, ChainSaved, Saved
    <3>3. QED
      BY <1>3, <1>4, <3>2
  <2>4. QED
    BY <2>2, <2>3
<1>7. \A u \in Txs : etx'[u].state \in {"unconfirmed", "confirmed_missing_receipt"} =>
        etx'[u] = etx[u] /\ ~(etx[u].nonce < Len(mined))
  <2>1. SUFFICES ASSUME NEW u \in Txs, etx'[u].state \in {"unconfirmed", "confirmed_missing_receipt"},
                        etx[u].nonce < Len(mined)
                 PROVE  FALSE
    BY <1>1
  <2>2. etx'[u] = etx[u]
    BY <1>1, <2>1
  <2>3. PICK n \in got : mined[n].tx = u
    BY <2>1, <2>2, Fetched DEF got, Safe, Answered
  <2>4. QED
    BY <1>1, <2>1, <2>2, <1>2, <2>3
<1>8. NoneToMark'
  <2>1. \A t \in Txs : etx'[t].state # "confirmed_missing_receipt"
    BY <1>6, <1>7
  <2>2. ASSUME NEW s \in Txs, NEW t \in Txs, etx'[s].state = "confirmed", etx'[t].state = "unconfirmed"
        PROVE  etx'[s].nonce < etx'[t].nonce
    <3>1. etx'[s].nonce < Len(mined) /\ ~(etx'[t].nonce < Len(mined))
      BY <1>1, <1>6, <1>7, <2>2
    <3>2. etx'[s].nonce \in Int /\ etx'[t].nonce \in Int
      BY DEF Inv, TypeOK, Null
    <3>3. QED
      BY <1>4, <3>1, <3>2
  <2>3. QED
    BY <2>1, <2>2 DEF NoneToMark
<1>9. \A u \in Txs : /\ etx'[u].nonce = etx[u].nonce
                     /\ \/ etx'[u].state = etx[u].state
                        \/ /\ etx[u].state \notin {"in_progress", "reaped"}
                           /\ etx'[u].state \notin {"in_progress", "reaped"}
  BY <1>1, <1>2
<1>10. \A t \in Txs, p \in Prices :
        /\ attempts[t][p].state # "none" => attempts'[t][p].state # "none"
        /\ attempts'[t][p].state # "insufficient_eth"
  BY <1>2 DEF Safe, Answered
<1>11. QED
  BY <1>2, <1>5, <1>6, <1>8, <1>9, <1>10, SafeIf

LEMMA SafeMark ==
  ASSUME TxManagerAssumption, Inv, Inv', Safe,
         markAllConfirmedMissingReceipt \/ markOldTxesMissingReceiptAsErrored
  PROVE  Safe'
<1>1. /\ \A u \in Txs :
           \/ etx'[u] = etx[u]
           \/ /\ phase = "mark_missing" /\ etx[u].state = "unconfirmed"
              /\ \E v \in Txs : etx[v].state = "confirmed" /\ etx[u].nonce < etx[v].nonce
           \/ phase = "mark_old" /\ etx[u].state = "confirmed_missing_receipt"
      /\ UNCHANGED <<attempts, receipts, nextNonce, mined, mempool, abandoned, world>>
      /\ \/ phase = "mark_missing" /\ phase' = "mark_old"
         \/ phase = "mark_old" /\ phase' = "in_progress"
  BY MarkEffect
<1>2. \A u \in Txs : etx[u].nonce \in Int
  BY DEF Inv, TypeOK, Null
<1>3. \A u \in Txs : etx'[u] = etx[u]
  BY <1>1, <1>2 DEF Safe, NoneToMark
<1>4. NoneToMark'
  BY <1>1, <1>3 DEF Safe, NoneToMark
<1>5. \A u \in Txs : etx'[u].state \in {"confirmed", "confirmed_missing_receipt"} => etx[u].nonce < Len(mined)
  BY <1>3 DEF Safe, Recorded
<1>6. QED
  BY <1>1, <1>3, <1>4, <1>5, SafeIf DEF Safe, Recorded, Answered

\* the answers to the confirmer's attempts
LEMMA SafeHandled ==
  ASSUME TxManagerAssumption, Inv, Inv', Safe, Steady, NEW t \in Txs, etx[t].state \in Later,
         NEW p \in Prices, NEW r \in Answer(Sent(t, p)), handleInProgressAttempt(t, p, r),
         \A q \in Prices \ {p} : ~AttemptInProgress(t, q),
         UNCHANGED <<nextNonce, mined, abandoned, world>>, phase' \notin {"mark_missing", "mark_old"}
  PROVE  Safe'
<1> DEFINE a == Sent(t, p)
<1>1. a \in Attempts /\ a.tx = t /\ a.price = p /\ a.nonce = etx[t].nonce
  BY SentTyped DEF Inv, RowsInv, RowOK
<1>2. /\ r.err \notin {"insufficient", "feecap"}
      /\ r.err = "nonce_too_low" => Verdict(a) = "nonce_too_low" \/ a.nonce < abandoned
  <2> HIDE DEF a
  <2>1. r \in Answer(a)
    BY DEF a
  <2>2. QED
    BY <1>1, <2>1, AnswerIs DEF Inv, Steady
<1>3. r.err = "nonce_too_low" => etx[t].nonce < Len(mined)
  <2>1. a.nonce \in Nat /\ abandoned = 0
    BY <1>1 DEF Attempts, Safe, Answered
  <2>2. Verdict(a) = "nonce_too_low" => a.nonce < Len(mined)
    BY DEF Verdict
  <2>3. QED
    BY <1>1, <1>2, <2>1, <2>2
<1>4. /\ \A b \in mempool' : \/ b \in mempool
                             \/ b = a /\ Verdict(b) = "ok" /\ etx[b.tx].nonce = b.nonce
      /\ \A u \in Txs \ {t} : etx'[u] = etx[u] /\ attempts'[u] = attempts[u]
      /\ etx'[t].nonce = etx[t].nonce /\ etx'[t].state \in Later
      /\ etx'[t].state = etx[t].state \/ (r.err = "nonce_too_low" /\ etx'[t].state = "confirmed_missing_receipt")
      /\ \A q \in Prices \ {p} : attempts'[t][q] = attempts[t][q]
      /\ attempts'[t][p].state = "none" => r.err = "feecap"
      /\ attempts'[t][p].state = "insufficient_eth" => r.err = "insufficient"
      /\ receipts' \subseteq receipts
  BY HandleAttemptEffect
<1> HIDE DEF a
<1>5. \A u \in Txs, q \in Prices :
        /\ attempts[u][q].state # "none" => attempts'[u][q].state # "none"
        /\ attempts'[u][q].state # "insufficient_eth"
  BY <1>2, <1>4 DEF Safe, Answered
<1>6. \A b \in mempool' : \/ b \in mempool
                          \/ /\ Verdict(b) = "ok" /\ etx[b.tx].nonce = b.nonce
                             /\ attempts'[b.tx][b.price].state # "none"
  BY <1>1, <1>2, <1>4
<1>7. \A u \in Txs : etx'[u].state \in {"confirmed", "confirmed_missing_receipt"} => etx[u].nonce < Len(mined)
  BY <1>3, <1>4 DEF Safe, Recorded
<1>8. \A u \in Txs : /\ etx'[u].nonce = etx[u].nonce
                     /\ \/ etx'[u].state = etx[u].state
                        \/ /\ etx[u].state \notin {"in_progress", "reaped"}
                           /\ etx'[u].state \notin {"in_progress", "reaped"}
  BY <1>4 DEF Later
<1>9. NoneToMark'
  BY DEF NoneToMark
<1>10. \A q \in receipts' : OnChain(q.tx)
  BY <1>4 DEF Safe, Recorded
<1>11. QED
  BY <1>5, <1>6, <1>7, <1>8, <1>9, <1>10, SafeIf

LEMMA SafeHandleAny ==
  ASSUME TxManagerAssumption, Inv, Inv', Safe, Steady, handleAnyInProgressAttempts
  PROVE  Safe'
  BY HandleAnyEffect, SafeHandled

LEMMA SafeRebroadcast ==
  ASSUME TxManagerAssumption, Inv, Inv', Safe, Steady, NEW t \in Txs, Rebroadcast(t)
  PROVE  Safe'
<1>1. /\ phase = "rebroadcast" /\ etx[t].state = "unconfirmed"
      /\ UNCHANGED <<nextNonce, mined, abandoned, world>>
  BY DEF Rebroadcast, Inv, RowsInv, PhaseOK
<1>2. CASE PricesOf(t) = {}
  <2>1. phase' = "idle" /\ UNCHANGED <<etx, attempts, receipts, mempool>>
    BY <1>2 DEF Rebroadcast
  <2>2. QED
    BY <1>1, <2>1, SafeQuiet
<1>3. CASE PricesOf(t) # {}
  <2>1. PICK p \in Prices : \E r \in Answer(Sent(t, p)) :
           /\ handleInProgressAttempt(t, p, r)
           /\ \A q \in Prices \ {p} : ~AttemptInProgress(t, q)
           /\ phase' = IF todo' # {} THEN phase ELSE NextPhase(r, "reorgs")
    BY <1>3, RebroadcastEffect
  <2>2. phase' \notin {"mark_missing", "mark_old"}
    BY <1>1, <2>1 DEF NextPhase
  <2>3. QED
    BY <1>1, <2>1, <2>2, SafeHandled DEF Later
<1>4. QED
  BY <1>2, <1>3

LEMMA SafeMarkForRebroadcast ==
  ASSUME TxManagerAssumption, Inv, Inv', Safe, NEW t \in Txs, markForRebroadcast(t)
  PROVE  Safe'
<1>1. /\ UNCHANGED <<nextNonce, mined, mempool, abandoned, world>>
      /\ receipts' \subseteq receipts /\ phase' \in {"idle", "reorgs"}
  BY MarkForRebroadcastEffect
<1>2. /\ \A u \in Txs : \/ etx'[u] = etx[u]
                        \/ /\ etx[u].state = "confirmed" /\ etx'[u].state = "unconfirmed"
                           /\ etx'[u].nonce = etx[u].nonce
      /\ \A u \in Txs, q \in Prices : attempts'[u][q] = attempts[u][q] \/ AttemptInProgress(u, q)'
  <2>1. CASE UNCHANGED <<etx, attempts>>
    BY <2>1
  <2>2. CASE ~UNCHANGED <<etx, attempts>>
    <3>1. /\ etx[t].state = "confirmed" /\ etx'[t].state = "unconfirmed" /\ etx'[t].nonce = etx[t].nonce
          /\ \A u \in Txs \ {t} : etx'[u] = etx[u] /\ attempts'[u] = attempts[u]
          /\ \E p \in Prices : /\ AttemptInProgress(t, p)'
                               /\ \A q \in Prices \ {p} : attempts'[t][q] = attempts[t][q]
      BY <2>2, MarkForRebroadcastEffect
    <3>2. QED
      BY <3>1
  <2>3. QED
    BY <2>1, <2>2
<1>3. \A u \in Txs, q \in Prices :
        /\ attempts[u][q].state # "none" => attempts'[u][q].state # "none"
        /\ attempts'[u][q].state # "insufficient_eth"
  BY <1>2 DEF Safe, Answered, AttemptInProgress
<1>4. \A u \in Txs : etx'[u].state \in {"confirmed", "confirmed_missing_receipt"} => etx[u].nonce < Len(mined)
  BY <1>2 DEF Safe, Recorded
<1>5. NoneToMark'
  BY <1>1 DEF NoneToMark
<1>6. \A q \in receipts' : OnChain(q.tx)
  BY <1>1 DEF Safe, Recorded
<1>7. QED
  BY <1>1, <1>2, <1>3, <1>4, <1>5, <1>6, SafeIf

LEMMA CoreSaveInProgress ==
  ASSUME TxManagerAssumption, Inv, Core, NEW t \in Txs, saveInProgressTransaction(t)
  PROVE  Core'
<1> USE DEF Core
<1>1. /\ etx[t].state = "unstarted" /\ ~Started(t)
      /\ \A u \in Txs : etx[u].state # "in_progress"
      /\ etx'[t].state = "in_progress" /\ etx'[t].nonce = nextNonce
      /\ \A u \in Txs \ {t} : etx'[u] = etx[u] /\ attempts'[u] = attempts[u]
      /\ \A p \in Prices : attempts'[t][p] = attempts[t][p] \/ attempts'[t][p].state = "in_progress"
      /\ UNCHANGED <<receipts, nextNonce, phase, mined, mempool, abandoned, world>>
  BY DEF saveInProgressTransaction, findNextUnstartedTransaction, In, Started, Inv, TypeOK, env
<1>2. \A n \in Nat : ~Claims(t, n)
  BY <1>1 DEF Inv, NoncesInv, ClaimsInOrder
<1>3. nextNonce \in Nat /\ etx[t].nonce \notin Nat
  BY <1>2 DEF Inv, TypeOK, Claims
<1>4. \A a \in mempool : a.tx \in Txs \ {t} /\ a.price \in Prices
  BY <1>2 DEF Inv, TypeOK, Claims
<1>5. \A n \in DOMAIN mined : mined[n].tx \in Txs \ {t} /\ mined[n].price \in Prices
  BY <1>2, MinedBound, MinedTyped DEF Inv, Blocks
<1>6. PoolSaved' /\ ChainSaved'
  BY <1>1, <1>4, <1>5 DEF PoolSaved, ChainSaved, Saved, Takes
<1>7. OneClaimant'
  <2>1. \A u \in Txs, n \in Nat : Claims(u, n)' => Claims(u, n) \/ (u = t /\ n = nextNonce)
    BY <1>1 DEF Claims
  <2>2. \A u \in Txs, n \in Nat : Claims(u, n) => n < nextNonce
    BY <1>1 DEF OneClaimant
  <2>3. QED
    BY <1>1, <1>2, <1>3, <2>1, <2>2 DEF OneClaimant
<1>8. NonceHeld'
  BY <1>1, <1>3 DEF NonceHeld
<1>9. QED
  BY <1>6, <1>7, <1>8

LEMMA SafeSaveInProgress ==
  ASSUME TxManagerAssumption, Inv, Safe, NEW t \in Txs, saveInProgressTransaction(t)
  PROVE  Safe'
<1>1. /\ etx'[t].state = "in_progress"
      /\ \A u \in Txs \ {t} : etx'[u] = etx[u] /\ attempts'[u] = attempts[u]
      /\ \A p \in Prices : attempts'[t][p] = attempts[t][p] \/ attempts'[t][p].state = "in_progress"
      /\ UNCHANGED <<receipts, phase, mined, abandoned>>
  BY DEF saveInProgressTransaction, Inv, TypeOK, env
<1>2. Core'
  BY CoreSaveInProgress DEF Safe
<1>3. Recorded' /\ Answered' /\ NoneToMark'
  BY <1>1 DEF Safe, Recorded, Answered, NoneToMark, OnChain
<1>4. QED
  BY <1>2, <1>3 DEF Safe

(***************************************************************************)
(* The answer to the transaction in progress.  A rejection means that no   *)
(* node ever took an attempt of it, and one of underpricing that no node   *)
(* took the attempt that is replaced.                                      *)
(***************************************************************************)
SentEarlier(t, p) ==
  \/ \E a \in mempool' : a.tx = t /\ a.price = p
  \/ \E n \in DOMAIN mined : mined[n].tx = t /\ mined[n].price = p

LEMMA InProgressAnswer ==
  ASSUME TxManagerAssumption, Inv, Core, "checker" \notin world.kinds, NEW t \in Txs, handleInProgressEthTx(t)
  PROVE  /\ \A a \in mempool' : /\ a.tx \in Txs /\ a.price \in Prices /\ a.nonce \in Nat
                                /\ Takes(a.tx, a.price) /\ a.nonce >= Len(mined)
                                /\ etx[a.tx].nonce = a.nonce
                                /\ a \in mempool \/ a.tx = t
         /\ \/ GivesUp(t) /\ \A p \in Prices : ~SentEarlier(t, p)
            \/ \E p \in Prices : /\ AttemptInProgress(t, p) /\ Saves(t, p)
            \/ \E p \in Prices : /\ AttemptInProgress(t, p) /\ Bumps(t, p) /\ ~SentEarlier(t, p)
            \/ Waits
         /\ \A a \in mempool' : a \in mempool \/ AttemptInProgress(t, a.price)
<1> USE DEF Inv, Core
<1>1. PICK p \in Prices : \E r \in Answer(Sent(t, p)) :
        /\ SendOne(Sent(t, p), r) /\ AttemptInProgress(t, p)
        /\ \/ r.err = "fatal" /\ GivesUp(t)
           \/ r.err \in {"ok", "nonce_too_low"} /\ Saves(t, p)
           \/ r.err = "underpriced" /\ (Bumps(t, p) \/ Waits)
           \/ r.err \in {"unknown", "insufficient", "feecap"} /\ Waits
  BY HandleInProgressEffect
<1>2. PICK r \in Answer(Sent(t, p)) :
        /\ SendOne(Sent(t, p), r) /\ AttemptInProgress(t, p)
        /\ \/ r.err = "fatal" /\ GivesUp(t)
           \/ r.err \in {"ok", "nonce_too_low"} /\ Saves(t, p)
           \/ r.err = "underpriced" /\ (Bumps(t, p) \/ Waits)
           \/ r.err \in {"unknown", "insufficient", "feecap"} /\ Waits
  BY <1>1
<1>3. etx[t].state = "in_progress" /\ etx[t].nonce # Null
  BY HandleInProgressEffect DEF RowsInv, RowOK
<1> DEFINE s == Sent(t, p)
<1>4. s \in Attempts /\ s.tx = t /\ s.price = p /\ s.nonce = etx[t].nonce
  BY <1>3, SentTyped
<1>5. r \in Answer(s) /\ SendOne(s, r)
  BY <1>2
<1> HIDE DEF s
<1>6. mempool' \subseteq Attempts /\ \A a \in mempool' : a \in mempool \/ (a = s /\ Verdict(a) = "ok")
  BY <1>4, <1>5, SentOne
<1>7. \A a \in mempool' : /\ a.tx \in Txs /\ a.price \in Prices /\ a.nonce \in Nat
                          /\ Takes(a.tx, a.price) /\ a.nonce >= Len(mined)
                          /\ etx[a.tx].nonce = a.nonce
                          /\ a \in mempool \/ (a.tx = t /\ a.price = p)
  BY <1>4, <1>6, OkIsTaken DEF PoolSaved, Saved, Attempts
<1>8. r.err \in {"fatal", "underpriced"} => Verdict(s) = r.err
  BY <1>4, <1>5, AnswerIs
<1>9. r.err = "fatal" => t \in world.bad
  BY <1>4, <1>8 DEF Verdict
<1>10. r.err = "underpriced" => p < world.floor
  BY <1>4, <1>8 DEF Verdict
<1>11. \A q \in Prices : SentEarlier(t, q) => Takes(t, q)
  BY <1>7 DEF SentEarlier, ChainSaved
<1>12. p \in Int /\ world.floor \in Int
  BY WorldTyped DEF Prices
<1>13. r.err = "fatal" => \A q \in Prices : ~SentEarlier(t, q)
  BY <1>9, <1>11 DEF Takes
<1>14. r.err = "underpriced" => ~SentEarlier(t, p)
  BY <1>10, <1>11, <1>12 DEF Takes
<1>15. \/ GivesUp(t) /\ \A q \in Prices : ~SentEarlier(t, q)
       \/ AttemptInProgress(t, p) /\ Saves(t, p)
       \/ AttemptInProgress(t, p) /\ Bumps(t, p) /\ ~SentEarlier(t, p)
       \/ Waits
  BY <1>2, <1>13, <1>14
<1>16. QED
  BY <1>2, <1>7, <1>15

LEMMA CoreHandleInProgress ==
  ASSUME TxManagerAssumption, Inv, Core, "checker" \notin world.kinds, NEW t \in Txs, handleInProgressEthTx(t)
  PROVE  Core'
<1> USE DEF Core
<1>1. /\ etx[t].state = "in_progress" /\ etx[t].nonce = nextNonce /\ nextNonce \in Nat
      /\ \A u \in Txs \ {t} : etx'[u] = etx[u] /\ attempts'[u] = attempts[u] /\ etx[u].state # "in_progress"
      /\ UNCHANGED <<receipts, phase, mined, abandoned, world>>
  BY HandleInProgressEffect DEF OneClaimant, Inv, RowsInv, OneInProgress, TypeOK
<1>2. \A a \in mempool' : /\ a.tx \in Txs /\ a.price \in Prices /\ a.nonce \in Nat
                          /\ Takes(a.tx, a.price) /\ a.nonce >= Len(mined)
                          /\ etx[a.tx].nonce = a.nonce
                          /\ attempts[a.tx][a.price].state # "none"
  BY InProgressAnswer DEF PoolSaved, Saved, AttemptInProgress
<1>3. \A n \in DOMAIN mined : mined[n].tx \in Txs /\ mined[n].price \in Prices
  BY MinedTyped DEF Inv, Blocks
<1>4. \A u \in Txs, p \in Prices : SentEarlier(u, p) => attempts[u][p].state # "none" \/ etx[u].state = "reaped"
  BY <1>2 DEF SentEarlier, ChainSaved, Saved
<1>5. \/ GivesUp(t) /\ \A p \in Prices : ~SentEarlier(t, p)
      \/ /\ etx'[t].nonce = etx[t].nonce
         /\ \/ etx'[t].state = "unconfirmed" /\ nextNonce' = nextNonce + 1
            \/ etx'[t].state = "in_progress" /\ nextNonce' = nextNonce
         /\ \A p \in Prices : SentEarlier(t, p) => attempts'[t][p].state # "none"
  <2>1. \A p \in Prices : SentEarlier(t, p) => attempts[t][p].state # "none"
    BY <1>1, <1>4
  <2>3. ASSUME NEW p \in Prices, AttemptInProgress(t, p), Saves(t, p)
        PROVE  /\ etx'[t].nonce = etx[t].nonce
               /\ etx'[t].state = "unconfirmed" /\ nextNonce' = nextNonce + 1
               /\ \A q \in Prices : SentEarlier(t, q) => attempts'[t][q].state # "none"
    BY <2>1, <2>3 DEF Saves
  <2>4. ASSUME NEW p \in Prices, AttemptInProgress(t, p), Bumps(t, p), ~SentEarlier(t, p)
        PROVE  /\ etx'[t].nonce = etx[t].nonce
               /\ etx'[t].state = "in_progress" /\ nextNonce' = nextNonce
               /\ \A q \in Prices : SentEarlier(t, q) => attempts'[t][q].state # "none"
    <3>1. \A q \in Prices : \/ q = p /\ attempts'[t][q].state = "none"
                            \/ attempts'[t][q].state = "in_progress"
                            \/ attempts'[t][q] = attempts[t][q]
      BY <2>4 DEF Bumps
    <3>2. QED
      BY <1>1, <2>1, <2>4, <3>1 DEF Bumps
  <2>5. CASE Waits
    BY <1>1, <2>1, <2>5 DEF Waits
  <2>6. QED
    BY <2>3, <2>4, <2>5, InProgressAnswer
<1>6. \A p \in Prices : SentEarlier(t, p) => etx'[t].nonce = etx[t].nonce /\ attempts'[t][p].state # "none"
  BY <1>5
<1>7. PoolSaved'
  <2>1. SUFFICES ASSUME NEW a \in mempool'
                 PROVE  /\ etx'[a.tx].nonce = a.nonce /\ attempts'[a.tx][a.price].state # "none"
                        /\ Takes(a.tx, a.price) /\ a.nonce >= Len(mined)
    BY <1>1 DEF PoolSaved, Saved, Takes
  <2>2. CASE a.tx = t
    BY <1>2, <1>6, <2>2 DEF SentEarlier
  <2>3. CASE a.tx # t
    BY <1>1, <1>2, <2>3
  <2>4. QED
    BY <2>2, <2>3
<1>8. ChainSaved'
  <2>1. SUFFICES ASSUME NEW n \in DOMAIN mined
                 PROVE  /\ \/ etx'[mined[n].tx].nonce = n - 1 /\ attempts'[mined[n].tx][mined[n].price].state # "none"
                           \/ etx'[mined[n].tx].state = "reaped"
                        /\ Takes(mined[n].tx, mined[n].price)
    BY <1>1 DEF ChainSaved, Saved, Takes
  <2>2. /\ mined[n].tx \in Txs /\ mined[n].price \in Prices
        /\ Saved(mined[n].tx, n - 1, mined[n].price) \/ etx[mined[n].tx].state = "reaped"
        /\ Takes(mined[n].tx, mined[n].price)
    BY <1>3 DEF ChainSaved
  <2>3. CASE mined[n].tx = t
    <3>1. SentEarlier(t, mined[n].price) /\ etx[t].nonce = n - 1
      BY <1>1, <2>2, <2>3 DEF SentEarlier, Saved
    <3>2. QED
      BY <1>6, <2>2, <2>3, <3>1
  <2>4. CASE mined[n].tx # t
    BY <1>1, <2>2, <2>4 DEF Saved
  <2>5. QED
    BY <2>3, <2>4
<1>9. nextNonce' \in Nat /\ nextNonce <= nextNonce'
  BY <1>1, <1>5 DEF GivesUp
<1>10. OneClaimant'
  <2>1. \A u \in Txs, n \in Nat : Claims(u, n)' => Claims(u, n)
    <3>1. \A a \in mempool' : a \in mempool \/ etx[a.tx].nonce = a.nonce
      BY <1>2
    <3>2. \A u \in Txs : etx'[u].nonce \in {etx[u].nonce, Null}
      BY <1>1, <1>5 DEF GivesUp
    <3>3. QED
      BY <1>1, <3>1, <3>2, SendsClaimed DEF Inv
  <2>2. ASSUME NEW n \in Nat, Claims(t, n)'
        PROVE  n < nextNonce' \/ etx'[t].state = "in_progress"
    <3>1. n <= nextNonce
      BY <2>1, <2>2 DEF Inv, NoncesInv, ClaimsInOrder
    <3>2. ~(GivesUp(t) /\ \A p \in Prices : ~SentEarlier(t, p))
      <4>1. SUFFICES ASSUME GivesUp(t), \A p \in Prices : ~SentEarlier(t, p) PROVE FALSE
        OBVIOUS
      <4>2. etx'[t].nonce # n
        BY <4>1 DEF GivesUp, Null
      <4>3. ~\E a \in mempool' : a.tx = t
        BY <1>2, <4>1 DEF SentEarlier
      <4>4. ~(n + 1 \in DOMAIN mined /\ mined[n + 1].tx = t)
        BY <1>3, <4>1 DEF SentEarlier
      <4>5. QED
        BY <1>1, <2>2, <4>2, <4>3, <4>4 DEF Claims
    <3>3. QED
      BY <1>1, <1>5, <3>1, <3>2
  <2>3. ASSUME NEW u \in Txs, NEW n \in Nat, Claims(u, n)', u # t PROVE n < nextNonce'
    <3>1. n < nextNonce
      BY <1>1, <2>1, <2>3 DEF OneClaimant
    <3>2. QED
      BY <1>1, <1>9, <3>1
  <2>4. \A u \in Txs : etx'[u].state = "in_progress" => etx'[u].nonce = nextNonce'
    BY <1>1, <1>5 DEF GivesUp
  <2>5. \A v, u \in Txs, n \in Nat : Claims(v, n)' /\ Claims(u, n)' => v = u
    BY <2>1 DEF OneClaimant
  <2>6. QED
    BY <2>2, <2>3, <2>4, <2>5 DEF OneClaimant
<1>11. NonceHeld'
  <2>1. SUFFICES ASSUME NEW n \in Nat, n < nextNonce', ~(n < Len(mined))
                 PROVE  \E u \in Txs : etx'[u].nonce = n
    BY <1>1 DEF NonceHeld
  <2>2. CASE n < nextNonce
    <3>1. PICK u \in Txs : etx[u].nonce = n
      BY <2>1, <2>2 DEF NonceHeld
    <3>2. u # t
      BY <1>1, <2>2, <3>1
    <3>3. QED
      BY <1>1, <3>1, <3>2
  <2>3. CASE ~(n < nextNonce)
    <3>1. nextNonce' = nextNonce + 1 /\ etx'[t].nonce = etx[t].nonce
      BY <1>1, <1>5, <2>1, <2>3 DEF GivesUp
    <3>2. n = nextNonce
      BY <1>1, <2>1, <2>3, <3>1
    <3>3. QED
      BY <1>1, <3>1, <3>2
  <2>4. QED
    BY <2>2, <2>3
<1>12. QED
  BY <1>7, <1>8, <1>10, <1>11

LEMMA SafeHandleInProgress ==
  ASSUME TxManagerAssumption, Inv, Safe, Steady, NEW t \in Txs, handleInProgressEthTx(t)
  PROVE  Safe'
<1> USE DEF Safe, Core
<1>1. /\ etx[t].state = "in_progress" /\ etx[t].nonce = nextNonce
      /\ \A u \in Txs \ {t} : etx'[u] = etx[u] /\ attempts'[u] = attempts[u]
      /\ UNCHANGED <<receipts, phase, mined, abandoned>>
  BY HandleInProgressEffect DEF OneClaimant
<1>2. /\ etx'[t].state \in {"fatal_error", "unconfirmed", "in_progress"}
      /\ etx'[t].state = "unconfirmed" => etx'[t].nonce = nextNonce
      /\ \A p \in Prices : attempts'[t][p].state # "insufficient_eth"
  <2>1. \A p \in Prices : attempts[t][p].state # "insufficient_eth"
    BY DEF Answered
  <2>2. ASSUME NEW p \in Prices, Bumps(t, p)
        PROVE  \A q \in Prices : attempts'[t][q].state # "insufficient_eth"
    <3>1. \A q \in Prices : \/ attempts'[t][q].state \in {"none", "in_progress"}
                            \/ attempts'[t][q] = attempts[t][q]
      BY <2>2 DEF Bumps
    <3>2. QED
      BY <2>1, <3>1
  <2>3. GivesUp(t) \/ (\E p \in Prices : Saves(t, p) \/ Bumps(t, p)) \/ Waits
    BY InProgressAnswer DEF Steady
  <2>4. CASE \E p \in Prices : Bumps(t, p)
    BY <1>1, <2>2, <2>4 DEF Bumps
  <2>5. CASE GivesUp(t) \/ Waits \/ \E p \in Prices : Saves(t, p)
    BY <1>1, <2>1, <2>5 DEF GivesUp, Waits, Saves, NoAttempt
  <2>6. QED
    BY <2>3, <2>4, <2>5
<1>3. Core'
  BY CoreHandleInProgress DEF Steady
<1>4. Recorded'
  BY <1>1, <1>2 DEF Recorded, OnChain
<1>5. Answered'
  BY <1>1, <1>2 DEF Answered
<1>6. NoneToMark'
  <2>1. phase' \in {"mark_missing", "mark_old"} => \A u \in Txs : etx'[u].state # "confirmed_missing_receipt"
    BY <1>1, <1>2 DEF NoneToMark
  <2>2. ASSUME phase' = "mark_missing", NEW s \in Txs, NEW u \in Txs,
               etx'[s].state = "confirmed", etx'[u].state = "unconfirmed"
        PROVE  etx'[s].nonce < etx'[u].nonce
    <3>1. s # t /\ etx'[s] = etx[s]
      BY <1>1, <1>2, <2>2
    <3>2. CASE u # t
      BY <1>1, <2>2, <3>1, <3>2 DEF NoneToMark
    <3>3. CASE u = t
      <4>1. etx[s].nonce \in Nat
        BY <2>2, <3>1 DEF Inv, TypeOK, RowsInv, RowOK, Later
      <4>2. Claims(s, etx[s].nonce)
        BY DEF Claims
      <4>3. etx[s].nonce < nextNonce
        BY <1>1, <2>2, <3>1, <4>1, <4>2 DEF OneClaimant
      <4>4. QED
        BY <1>2, <2>2, <3>1, <3>3, <4>3
    <3>4. QED
      BY <3>2, <3>3
  <2>3. QED
    BY <2>1, <2>2 DEF NoneToMark
<1>7. QED
  BY <1>3, <1>4, <1>5, <1>6

LEMMA CoreReap ==
  ASSUME TxManagerAssumption, Inv, Core, NEW t \in Txs, ReapEthTxes(t), etx[t].nonce < Len(mined)
  PROVE  Core'
<1> USE DEF Core
<1>1. /\ etx[t].state = "confirmed" /\ etx'[t].state = "reaped" /\ etx'[t].nonce = Null
      /\ \A p \in Prices : attempts'[t][p].state = "none"
      /\ \A u \in Txs \ {t} : etx'[u] = etx[u] /\ attempts'[u] = attempts[u]
      /\ UNCHANGED <<nextNonce, mined, mempool, world>>
  BY ReapEffect
<1>2. /\ \A a \in mempool : a.tx \in Txs /\ a.price \in Prices /\ a.nonce \in Nat
      /\ \A n \in DOMAIN mined : mined[n].tx \in Txs /\ mined[n].price \in Prices
      /\ Len(mined) \in Nat
  BY MinedTyped DEF Inv, TypeOK, Blocks
<1>4. \A a \in mempool : a.tx # t
  BY <1>2 DEF PoolSaved, Saved
<1>5. PoolSaved'
  BY <1>1, <1>2, <1>4 DEF PoolSaved, Saved, Takes
<1>6. ChainSaved'
  <2>1. SUFFICES ASSUME NEW n \in DOMAIN mined
                 PROVE  /\ \/ etx'[mined[n].tx].nonce = n - 1 /\ attempts'[mined[n].tx][mined[n].price].state # "none"
                           \/ etx'[mined[n].tx].state = "reaped"
                        /\ Takes(mined[n].tx, mined[n].price)
    BY <1>1 DEF ChainSaved, Saved, Takes
  <2>2. QED
    BY <1>1, <1>2 DEF ChainSaved, Saved
<1>7. OneClaimant'
  <2>1. \A u \in Txs : etx'[u].nonce \in {etx[u].nonce, Null} /\ (etx'[u].state = "in_progress" <=> etx[u].state = "in_progress")
    BY <1>1
  <2>2. \A u \in Txs, n \in Nat : Claims(u, n)' => Claims(u, n)
    BY <1>1, <2>1, SendsClaimed DEF Inv
  <2>3. \A u \in Txs : etx'[u].state = "in_progress" => etx'[u].nonce = nextNonce'
    BY <1>1 DEF OneClaimant
  <2>4. \A u \in Txs, n \in Nat : Claims(u, n)' => n < nextNonce' \/ etx'[u].state = "in_progress"
    BY <1>1, <2>1, <2>2 DEF OneClaimant
  <2>5. \A v, u \in Txs, n \in Nat : Claims(v, n)' /\ Claims(u, n)' => v = u
    BY <2>2 DEF OneClaimant
  <2>6. QED
    BY <2>3, <2>4, <2>5 DEF OneClaimant
<1>8. NonceHeld'
  <2>1. SUFFICES ASSUME NEW n \in Nat, n < nextNonce, ~(n < Len(mined))
                 PROVE  \E u \in Txs : etx'[u].nonce = n
    BY <1>1 DEF NonceHeld
  <2>2. PICK u \in Txs : etx[u].nonce = n
    BY <2>1 DEF NonceHeld
  <2>3. u # t
    BY <2>1, <2>2
  <2>4. QED
    BY <1>1, <2>2, <2>3
<1>9. QED
  BY <1>5, <1>6, <1>7, <1>8

LEMMA SafeReap ==
  ASSUME TxManagerAssumption, Inv, Safe, NEW t \in Txs, ReapEthTxes(t)
  PROVE  Safe'
<1>1. /\ etx[t].state = "confirmed" /\ etx'[t].state = "reaped"
      /\ \A p \in Prices : attempts'[t][p].state = "none"
      /\ \A u \in Txs \ {t} : etx'[u] = etx[u] /\ attempts'[u] = attempts[u]
      /\ receipts' \subseteq receipts /\ \E r \in receipts : r.tx = t
      /\ UNCHANGED <<phase, mined, abandoned>>
  BY ReapEffect
<1>2. etx[t].nonce < Len(mined) /\ OnChain(t)
  BY <1>1 DEF Safe, Recorded
<1>3. Core'
  BY <1>2, CoreReap DEF Safe
<1>4. Recorded' /\ Answered'
  BY <1>1, <1>2 DEF Safe, Recorded, Answered, OnChain
<1>5. NoneToMark'
  <2>1. \A u \in Txs : etx'[u].state # "reaped" => etx'[u] = etx[u]
    BY <1>1
  <2>2. QED
    BY <1>1, <2>1 DEF Safe, NoneToMark
<1>6. QED
  BY <1>3, <1>4, <1>5 DEF Safe

(***************************************************************************)
(* A stop does not move the next nonce: what the nodes and the chain have  *)
(* is no more than what the database has given out.                        *)
(***************************************************************************)
LEMMA SafeStop ==
  ASSUME TxManagerAssumption, Inv, Inv', Safe, Stop
  PROVE  Safe'
<1> DEFINE ahead == IF In({"in_progress"}) # {} THEN 1 ELSE 0
<1>1. /\ UNCHANGED <<etx, attempts, receipts, mined, mempool, abandoned, world>> /\ phase' = "idle"
      /\ nextNonce' = IF PendingNonce > nextNonce + ahead THEN PendingNonce - ahead ELSE nextNonce
  BY DEF Stop, env
<1>2. nextNonce \in Nat /\ PendingNonce \in Nat
  BY PendingClaimed, MinedBound DEF Inv, TypeOK, TxManagerAssumption
<1>3. ~(PendingNonce > nextNonce + ahead)
  <2>1. SUFFICES ASSUME PendingNonce > nextNonce + ahead PROVE FALSE
    OBVIOUS
  <2>2. ahead \in {0, 1}
    OBVIOUS
  <2> DEFINE n == PendingNonce - 1
  <2>3. PendingNonce > 0 /\ n \in Nat
    BY <1>2, <2>1, <2>2
  <2>4. PICK t \in Txs : Claims(t, n)
    BY <2>3, PendingClaimed
  <2> HIDE DEF n
  <2>5. n <= nextNonce
    BY <2>3, <2>4 DEF Inv, NoncesInv, ClaimsInOrder
  <2>6. n < nextNonce \/ In({"in_progress"}) # {}
    BY <2>3, <2>4 DEF Safe, Core, OneClaimant, In
  <2>7. ahead = 0 => n < nextNonce
    BY <2>6
  <2> HIDE DEF ahead
  <2>8. QED
    BY <1>2, <2>1, <2>2, <2>5, <2>7 DEF n
<1>4. nextNonce' = nextNonce
  BY <1>1, <1>3
<1>5. QED
  BY <1>1, <1>4, SafeQuiet

LEMMA CoreNewHead ==
  ASSUME TxManagerAssumption, Inv, Core, NEW depth \in 0 .. ReorgDepth, NEW taken, NewHead(depth, taken),
         \A n \in DOMAIN mined : etx[mined[n].tx].state = "reaped" => mined[n].age >= depth
  PROVE  Core'
<1> USE DEF Core
<1>1. /\ UNCHANGED <<etx, nextNonce, world>> /\ depth \in Nat
      /\ \A t \in Txs, p \in Prices : attempts'[t][p].state = attempts[t][p].state
  <2>1. depth \in Nat
    BY DEF TxManagerAssumption
  <2>2. QED
    BY <2>1, NewHeadEffect
<1>0. PICK K \in 0 .. Len(mined) :
        /\ depth = 0 => K = Len(mined)
        /\ \A n \in DOMAIN mined : mined[n].age >= depth => n <= K
        /\ K <= Len(mined') /\ Len(mined') \in Nat
        /\ \A n \in 1 .. K : /\ mined'[n].tx = mined[n].tx /\ mined'[n].price = mined[n].price
                             /\ mined'[n].age = Older(mined[n].age)
        /\ \A n \in K + 1 .. Len(mined') :
             \E a \in mempool \cup (IF depth = 0 THEN {} ELSE OnOldChain) :
               mined'[n].tx = a.tx /\ mined'[n].price = a.price /\ a.nonce = n - 1
  BY <1>1, NewHeadChain
<1>2. /\ \A n \in DOMAIN mined : mined[n].age >= depth => n <= K
      /\ K <= Len(mined') /\ Len(mined') \in Nat
      /\ \A n \in 1 .. K : mined'[n].tx = mined[n].tx /\ mined'[n].price = mined[n].price
      /\ \A n \in K + 1 .. Len(mined') :
           \E a \in mempool \cup OnOldChain :
             mined'[n].tx = a.tx /\ mined'[n].price = a.price /\ a.nonce = n - 1
  BY <1>0
<1>3. /\ Len(mined) \in Nat /\ DOMAIN mined = 1 .. Len(mined) /\ DOMAIN mined' = 1 .. Len(mined')
      /\ \A n \in DOMAIN mined : mined[n].tx \in Txs /\ mined[n].price \in Prices
  <2>1. mined' \in Seq(Blocks)
    BY <1>1, NewHeadChain
  <2>2. DOMAIN mined' = 1 .. Len(mined')
    BY <2>1
  <2>3. QED
    BY <2>2, MinedTyped DEF Inv, Blocks
<1>4. ASSUME NEW a \in mempool \cup OnOldChain, a.nonce >= K
      PROVE  /\ a.tx \in Txs /\ a.price \in Prices /\ Claims(a.tx, a.nonce) /\ a.nonce \in Nat
             /\ Saved(a.tx, a.nonce, a.price) /\ Takes(a.tx, a.price)
  <2>1. a \in Numbers /\ Claims(a.tx, a.nonce)
    BY KnownAre
  <2>2. CASE a \in mempool
    BY <2>1, <2>2 DEF Numbers, PoolSaved
  <2>3. CASE a \in OnOldChain
    <3>1. PICK n \in DOMAIN mined : a = [nonce |-> n - 1, tx |-> mined[n].tx, price |-> mined[n].price]
      BY <2>3 DEF OnOldChain
    <3>2. a.nonce = n - 1 /\ a.tx = mined[n].tx /\ a.price = mined[n].price
      BY <3>1
    <3>3. ~(n <= K)
      BY <1>3, <1>4, <3>2
    <3>4. etx[mined[n].tx].state # "reaped"
      BY <1>2, <3>3
    <3>5. Saved(mined[n].tx, n - 1, mined[n].price) /\ Takes(mined[n].tx, mined[n].price)
      BY <3>4 DEF ChainSaved
    <3>6. QED
      BY <2>1, <3>2, <3>5 DEF Numbers
  <2>4. QED
    BY <2>2, <2>3
<1>5. PoolSaved'
  <2>1. \A a \in mempool' : a \in mempool \cup OnOldChain /\ a.nonce >= Len(mined')
    BY <1>1, NewHeadChain
  <2>2. \A a \in mempool \cup OnOldChain : a.nonce \in Int
    BY KnownAre DEF Numbers
  <2>3. \A a \in mempool' : a.nonce >= K
    BY <1>2, <2>1, <2>2
  <2>4. QED
    BY <1>1, <1>4, <2>1, <2>3 DEF PoolSaved, Saved, Takes
<1>6. ASSUME NEW n \in K + 1 .. Len(mined')
      PROVE  /\ mined'[n].tx \in Txs /\ mined'[n].price \in Prices /\ Claims(mined'[n].tx, n - 1)
             /\ Saved(mined'[n].tx, n - 1, mined'[n].price) /\ Takes(mined'[n].tx, mined'[n].price)
  <2>1. PICK a \in mempool \cup OnOldChain :
          mined'[n].tx = a.tx /\ mined'[n].price = a.price /\ a.nonce = n - 1
    BY <1>2
  <2>2. a.nonce >= K
    BY <2>1
  <2>3. QED
    BY <1>4, <2>1, <2>2
<1>7. ChainSaved'
  <2>1. SUFFICES ASSUME NEW n \in 1 .. Len(mined')
                 PROVE  /\ \/ /\ etx[mined'[n].tx].nonce = n - 1
                              /\ attempts'[mined'[n].tx][mined'[n].price].state # "none"
                           \/ etx[mined'[n].tx].state = "reaped"
                        /\ Takes(mined'[n].tx, mined'[n].price)
    BY <1>1, <1>3 DEF ChainSaved, Saved, Takes
  <2>2. CASE n \in 1 .. K
    BY <1>1, <1>2, <1>3, <2>2 DEF ChainSaved, Saved
  <2>3. CASE n \notin 1 .. K
    <3>1. n \in K + 1 .. Len(mined')
      BY <1>2, <2>3
    <3>2. QED
      BY <1>1, <1>6, <3>1 DEF Saved
  <2>4. QED
    BY <2>2, <2>3
<1>8. OneClaimant'
  <2>1. ASSUME NEW t \in Txs, NEW n \in Nat, Claims(t, n)' PROVE Claims(t, n)
    <3>1. CASE etx'[t].nonce = n
      BY <1>1, <3>1 DEF Claims
    <3>2. CASE \E a \in mempool' : a.tx = t /\ a.nonce = n
      BY <1>1, <3>2, NewHeadChain, KnownAre
    <3>3. CASE n + 1 \in DOMAIN mined' /\ mined'[n + 1].tx = t
      <4>1. CASE n + 1 <= K
        BY <1>2, <1>3, <3>3, <4>1 DEF Claims
      <4>2. CASE ~(n + 1 <= K)
        <5>1. n + 1 \in K + 1 .. Len(mined') /\ n + 1 - 1 = n
          BY <1>2, <1>3, <3>3, <4>2
        <5>2. QED
          BY <1>6, <3>3, <5>1
      <4>3. QED
        BY <4>1, <4>2
    <3>4. QED
      BY <2>1, <3>1, <3>2, <3>3 DEF Claims
  <2>2. QED
    BY <1>1, <2>1 DEF OneClaimant
<1>9. NonceHeld'
  <2>1. SUFFICES ASSUME NEW n \in Nat, n < nextNonce, ~(n < Len(mined'))
                 PROVE  \E t \in Txs : etx[t].nonce = n
    BY <1>1 DEF NonceHeld
  <2>2. CASE n < Len(mined)
    <3>1. n + 1 \in DOMAIN mined /\ ~(n + 1 <= K) /\ n + 1 - 1 = n
      BY <1>2, <1>3, <2>1, <2>2
    <3>2. etx[mined[n + 1].tx].state # "reaped"
      BY <1>2, <3>1
    <3>3. etx[mined[n + 1].tx].nonce = n
      BY <3>1, <3>2 DEF ChainSaved, Saved
    <3>4. QED
      BY <1>3, <3>1, <3>3
  <2>3. CASE ~(n < Len(mined))
    BY <2>1, <2>3 DEF NonceHeld
  <2>4. QED
    BY <2>2, <2>3
<1>10. QED
  BY <1>5, <1>7, <1>8, <1>9

LEMMA SafeNewHead ==
  ASSUME TxManagerAssumption, Inv, Safe, NEW taken, NewHead(0, taken)
  PROVE  Safe'
<1>1. 0 \in 0 .. ReorgDepth /\ 0 \in Nat
  BY DEF TxManagerAssumption
<1>2. /\ UNCHANGED <<etx, nextNonce, phase, world>>
      /\ \A t \in Txs, p \in Prices : attempts'[t][p].state = attempts[t][p].state
      /\ \A r \in receipts' : \E q \in receipts : r.tx = q.tx
      /\ abandoned' = 0
  BY <1>1, NewHeadEffect DEF Safe, Answered
<1>3. /\ Len(mined) <= Len(mined') /\ Len(mined') \in Nat /\ Len(mined) \in Nat
      /\ DOMAIN mined' = 1 .. Len(mined') /\ DOMAIN mined = 1 .. Len(mined)
      /\ \A n \in 1 .. Len(mined) : mined'[n].tx = mined[n].tx
  <2>1. mined' \in Seq(Blocks)
    BY <1>1, NewHeadChain
  <2>2. Len(mined) <= Len(mined') /\ \A n \in 1 .. Len(mined) : mined'[n].tx = mined[n].tx
    <3>1. PICK K \in 0 .. Len(mined) :
            /\ K = Len(mined) /\ K <= Len(mined')
            /\ \A n \in 1 .. K : mined'[n].tx = mined[n].tx
      BY <1>1, NewHeadChain
    <3>2. QED
      BY <3>1
  <2>3. Len(mined') \in Nat /\ DOMAIN mined' = 1 .. Len(mined')
    BY <2>1
  <2>4. QED
    BY <2>2, <2>3, MinedTyped DEF Inv
<1>4. Core'
  <2>1. \A n \in DOMAIN mined : mined[n].age >= 0
    BY MinedTyped DEF Inv, Blocks
  <2>2. QED
    BY <1>1, <2>1, CoreNewHead DEF Safe
<1>5. Recorded'
  <2>1. \A t \in Txs : OnChain(t) => OnChain(t)'
    BY <1>3 DEF OnChain
  <2>2. \A r \in receipts : r.tx \in Txs
    BY DEF Inv, TypeOK
  <2>3. \A t \in Txs : etx[t].nonce \in Int
    BY DEF Inv, TypeOK, Null
  <2>4. \A r \in receipts' : OnChain(r.tx)'
    BY <1>2, <2>1, <2>2 DEF Safe, Recorded
  <2>5. \A t \in Txs : etx'[t].state \in {"confirmed", "confirmed_missing_receipt"} => etx'[t].nonce < Len(mined')
    BY <1>2, <1>3, <2>3 DEF Safe, Recorded
  <2>6. QED
    BY <1>2, <2>1, <2>4, <2>5 DEF Safe, Recorded
<1>6. Answered' /\ NoneToMark'
  BY <1>2 DEF Safe, Answered, NoneToMark
<1>7. QED
  BY <1>4, <1>5, <1>6 DEF Safe

LEMMA WorldStays ==
  ASSUME [Next]_vars
  PROVE  world' = world
<1>1. \A t \in Txs : CreateEthTransaction(t) => world' = world
  BY DEF CreateEthTransaction, env
<1>2. \A t \in Txs : ReapEthTxes(t) => world' = world
  BY DEF ReapEthTxes, env
<1>3. Broadcaster => world' = world
  BY DEF Broadcaster, saveInProgressTransaction, handleInProgressEthTx, env
<1>4. ProcessHead => world' = world
  BY DEF ProcessHead, TakeHead, SetBroadcastBeforeBlockNum, CheckConfirmedMissingReceipt, CheckForReceipts,
         markAllConfirmedMissingReceipt, markOldTxesMissingReceiptAsErrored, handleAnyInProgressAttempts,
         rebroadcastWhereNecessary, Rebroadcast, markForRebroadcast,
         EnsureConfirmedTransactionsInLongestChain, HeadDone, Enter, env
<1>5. ResendUnconfirmed \/ Stop \/ Evict \/ UNCHANGED vars => world' = world
  <2>1. ResendUnconfirmed => world' = world
    BY DEF ResendUnconfirmed, env
  <2>2. Stop => world' = world
    BY DEF Stop, env
  <2>3. Evict => world' = world
    BY DEF Evict
  <2>4. QED
    BY <2>1, <2>2, <2>3 DEF vars, env
<1>6. NewHead(0, {}) \/ Mine \/ Reorganise => world' = world
  <2>1. \A depth, taken : NewHead(depth, taken) => world' = world
    BY Zenon DEF NewHead
  <2>2. QED
    BY <2>1, Zenon DEF Mine, Reorganise
<1>7. QED
  BY <1>1, <1>2, <1>3, <1>4, <1>5, <1>6 DEF Next

LEMMA CrashSafeStep ==
  ASSUME TxManagerAssumption, Inv, Inv', CrashSafe, [Next]_vars
  PROVE  CrashSafe'
<1>1. world' = world
  BY WorldStays
<1>2. SUFFICES ASSUME Steady, Safe PROVE Safe'
  BY <1>1 DEF CrashSafe, Steady
<1>3. ASSUME NEW t \in Txs, CreateEthTransaction(t) \/ ReapEthTxes(t) PROVE Safe'
  BY <1>2, <1>3, SafeCreate, SafeReap
<1>4. CASE Broadcaster
  BY <1>2, <1>4, SafeSaveInProgress, SafeHandleInProgress DEF Broadcaster
<1>5. CASE TakeHead \/ rebroadcastWhereNecessary \/ UNCHANGED vars
  <2>1. /\ UNCHANGED <<etx, attempts, nextNonce, mined, mempool, abandoned, world>>
        /\ phase' \in {"mark_missing", "mark_old"} => phase' = phase
    BY <1>5 DEF TakeHead, rebroadcastWhereNecessary, vars, db, env
  <2>2. \A r \in receipts' : \E q \in receipts : r.tx = q.tx
    <3>1. CASE TakeHead
      <4>1. ASSUME NEW q \in receipts
            PROVE  (IF q.chain = "head" THEN [q EXCEPT !.chain = "orphaned"] ELSE q).tx = q.tx
        BY DEF Inv, TypeOK
      <4>2. QED
        BY <3>1, <4>1 DEF TakeHead
    <3>2. CASE rebroadcastWhereNecessary \/ UNCHANGED vars
      BY <3>2 DEF rebroadcastWhereNecessary, vars, db
    <3>3. QED
      BY <1>5, <3>1, <3>2
  <2>3. QED
    BY <1>2, <2>1, <2>2, SafeQuiet
<1>6. CASE SetBroadcastBeforeBlockNum
  <2>1. UNCHANGED <<receipts, nextNonce, mined, mempool, abandoned, world>> /\ phase' = "missing_receipt"
    BY <1>6 DEF SetBroadcastBeforeBlockNum, Enter
  <2>2. QED
    BY <1>2, <1>6, <2>1, SetBroadcastBeforeStep, SafeQuiet
<1>7. CASE \/ CheckConfirmedMissingReceipt \/ CheckForReceipts
           \/ markAllConfirmedMissingReceipt \/ markOldTxesMissingReceiptAsErrored \/ handleAnyInProgressAttempts
  BY <1>2, <1>7, SafeCheckMissing, SafeCheckReceipts, SafeMark, SafeHandleAny
<1>8. ASSUME NEW t \in Txs, Rebroadcast(t) \/ markForRebroadcast(t) PROVE Safe'
  BY <1>2, <1>8, SafeRebroadcast, SafeMarkForRebroadcast
<1>9. CASE EnsureConfirmedTransactionsInLongestChain \/ HeadDone
  BY <1>2, <1>9, PhaseEndsStep, SafeQuiet
<1>10. CASE ResendUnconfirmed
  BY <1>2, <1>10, ResendEffect, SafeQuiet
<1>11. CASE Stop
  BY <1>2, <1>11, SafeStop
<1>12. CASE Evict
  BY <1>2, <1>12, EvictStep, SafeQuiet
<1>13. CASE NewHead(0, {}) \/ Mine \/ Reorganise
  <2>1. PICK depth \in 0 .. ReorgDepth : \E taken : NewHead(depth, taken)
    BY <1>13, HeadStep
  <2>2. PICK taken : NewHead(depth, taken)
    BY <2>1
  <2>3. depth = 0
    BY <1>2, <2>2, NewHeadEffect DEF Steady, TxManagerAssumption
  <2>4. QED
    BY <1>2, <2>2, <2>3, SafeNewHead
<1>14. QED
  BY <1>3, <1>4, <1>5, <1>6, <1>7, <1>8, <1>9, <1>10, <1>11, <1>12, <1>13 DEF Next, ProcessHead

LEMMA CrashSafety == Spec => [](Inv /\ CrashSafe)
<1>1. Init => Inv /\ CrashSafe
  <2>1. SUFFICES ASSUME Init PROVE Inv /\ CrashSafe
    OBVIOUS
  <2>2. Inv
    BY <2>1, InitInv, TxManagerAssumption
  <2>3. \A t \in Txs : etx[t].state = "none" /\ etx[t].nonce = Null /\ \A p \in Prices : attempts[t][p].state = "none"
    BY <2>1 DEF Init, NoAttempt
  <2>4. \A t \in Txs, n \in Nat : ~Claims(t, n)
    BY <2>1, <2>3 DEF Init, Claims, Null
  <2>5. PoolSaved /\ ChainSaved /\ OneClaimant /\ NonceHeld /\ Recorded /\ Answered /\ NoneToMark
    BY <2>1, <2>3, <2>4 DEF Init, PoolSaved, ChainSaved, OneClaimant, NonceHeld, Recorded, Answered, NoneToMark
  <2>6. QED
    BY <2>2, <2>5 DEF CrashSafe, Safe, Core
<1>2. (Inv /\ CrashSafe) /\ [Next]_vars => (Inv /\ CrashSafe)'
  BY NextInv, CrashSafeStep, TxManagerAssumption
<1>3. QED
  BY <1>1, <1>2, PTL DEF Spec

\* what the database knows of the nodes and the chain says what SentIsSaved and NoNonceGap ask
LEMMA CoreSaves ==
  ASSUME Inv, Core
  PROVE  SentIsSaved
<1>1. \A t \in Txs, p \in Prices : attempts[t][p].state # "none" => p \in PricesOf(t)
  BY DEF Inv, TypeOK, PricesOf, WithState
<1>2. \A a \in mempool : a.tx \in Txs /\ a.price \in Prices
  BY DEF Inv, TypeOK
<1>3. \A n \in DOMAIN mined : mined[n].tx \in Txs /\ mined[n].price \in Prices
  BY MinedTyped DEF Inv, Blocks
<1>4. QED
  BY <1>1, <1>2, <1>3 DEF Core, PoolSaved, ChainSaved, Saved, SentIsSaved

LEMMA CoreLeavesNoGap ==
  ASSUME Inv, Core
  PROVE  NoNonceGap
<1>1. SUFFICES ASSUME NEW n \in Len(mined) .. nextNonce - 1
               PROVE  Cardinality({t \in Txs : etx[t].nonce = n /\ etx[t].state # "in_progress"}) = 1
  BY DEF NoNonceGap
<1> DEFINE S == {t \in Txs : etx[t].nonce = n /\ etx[t].state # "in_progress"}
<1>2. n \in Nat /\ n < nextNonce /\ ~(n < Len(mined)) /\ nextNonce \in Nat
  BY <1>1, MinedTyped DEF Inv, TypeOK
<1>3. PICK t \in Txs : etx[t].nonce = n
  BY <1>2 DEF Core, NonceHeld
<1>4. t \in S
  BY <1>2, <1>3 DEF Core, OneClaimant
<1>5. \A u, v \in S : u = v
  BY <1>2 DEF Core, OneClaimant, Claims
<1> HIDE DEF S
<1>6. Cardinality(S) = 1
  BY <1>4, <1>5, AtMostOne
<1>7. QED
  BY <1>6 DEF S

(***************************************************************************)
(* However many answers are lost, however often the process stops at any   *)
(* step, the mempool drops an attempt or a node lags: nothing that was     *)
(* sent is missing from the database, and no transaction it records as     *)
(* failed is carried out.                                                  *)
(***************************************************************************)
THEOREM WhatWasSentIsSaved == Spec => [](Steady => SentIsSaved)
<1>1. Inv /\ CrashSafe => (Steady => SentIsSaved)
  BY CoreSaves DEF CrashSafe, Safe
<1>2. QED
  BY <1>1, CrashSafety, PTL

(***************************************************************************)
(* In the same worlds every nonce that was given out is on the chain or    *)
(* held by exactly one transaction that the confirmer looks after.         *)
(***************************************************************************)
THEOREM NonceIsOnChainOrHeld == Spec => [](Steady => NoNonceGap)
<1>1. Inv /\ CrashSafe => (Steady => NoNonceGap)
  BY CoreLeavesNoGap DEF CrashSafe, Safe
<1>2. QED
  BY <1>1, CrashSafety, PTL

(***************************************************************************)
(* In the same worlds the reaper forgets only what was carried out.        *)
(***************************************************************************)
THEOREM ForgottenIsMined == Spec => [](Steady => ReapedIsMined)
<1>1. Inv /\ CrashSafe => (Steady => ReapedIsMined)
  BY DEF CrashSafe, Safe, Recorded, ReapedIsMined
<1>2. QED
  BY <1>1, CrashSafety, PTL

-----------------------------------------------------------------------------
(***************************************************************************)
(* Reorganisations, nodes that lag behind one, and evictions.  The node    *)
(* forgets a transaction in two ways: the reaper drops what has a receipt  *)
(* from before the final blocks, which may be a receipt of a block that    *)
(* the chain has left; and the confirmer gives up what it has not sent     *)
(* since the final blocks, which may be what a reorganisation has brought  *)
(* back.  Neither hits what is not on the chain as long as a fork and the  *)
(* heads the confirmer misses while it sees it are no more than the final  *)
(* blocks, and so are the heads it misses over all forks and faults.       *)
(***************************************************************************)
Forking == world.kinds \subseteq {"reorg", "stale", "evict"}

Margins ==
  /\ ReorgDepth - 1 + 2 * MaxLag <= FinalityDepth
  /\ MaxLag * (2 * (MaxReorgs + MaxFaults)) - MaxLag <= FinalityDepth

Events == reorgs + faults
Slack == MaxLag * (2 * Events)

\* the phases in which an attempt whose block is not known would be judged by the others
Judged == {"missing_receipt", "receipts", "mark_missing", "mark_old"}
Waiting == {"unconfirmed", "confirmed_missing_receipt"}

\* t has an attempt that was sent k blocks before the confirmer's head or later
Fresh(t, k) == \E p \in Prices :
  /\ attempts[t][p].state \in {"broadcast", "in_progress"}
  /\ IF attempts[t][p].age = Null THEN phase \notin Judged ELSE attempts[t][p].age - lag <= k

\* the receipts by which t would be marked as missing its own, and those of blocks that were left
Above(t) == {r \in receipts : etx[r.tx].nonce > etx[t].nonce}
Lost(t) == {r \in Above(t) : r.chain # "longest"}
Behind(t) ==
  etx[t].state = "confirmed_missing_receipt" \/ (etx[t].state = "unconfirmed" /\ Above(t) # {})

(***************************************************************************)
(* What a transaction that is behind has to its credit: it was brought     *)
(* there by an event, and the confirmer has not seen a head since; or it   *)
(* has seen one, and the receipts of blocks that were left are put back in *)
(* this round; or all are put back, and the receipt of t itself is found   *)
(* in this round.                                                          *)
(***************************************************************************)
Just(t) == Events >= 1 /\ Fresh(t, Slack - 2 * MaxLag)
Soon(t) ==
  /\ Fresh(t, Slack - MaxLag)
  /\ \A r \in Lost(t) : phase \notin {"idle", "last"} /\ r.chain = "orphaned" /\ r.age >= lag
Now(t) ==
  /\ phase \in {"broadcast_before", "missing_receipt", "receipts"}
  /\ Fresh(t, Slack) /\ Lost(t) = {}
  /\ (phase = "receipts" /\ etx[t].state = "confirmed_missing_receipt") => OnChain(t)
InTime(t) == Just(t) \/ Soon(t) \/ Now(t)

AllInTime == \A t \in Txs : Behind(t) => InTime(t)

\* a confirmed transaction has one receipt, of an attempt that was sent, and no other has any
ReceiptsHeld ==
  /\ \A r \in receipts : etx[r.tx].state = "confirmed" /\ attempts[r.tx][r.price].state = "broadcast"
  /\ \A r, q \in receipts : r.tx = q.tx => r = q
  /\ \A t \in Txs : etx[t].state = "confirmed" => \E r \in receipts : r.tx = t

\* only what a reorganisation brought back is in progress, and that until the end of the round
NoneLeftOver == \A t \in Txs, p \in Prices :
  /\ attempts[t][p].state # "insufficient_eth"
  /\ AttemptInProgress(t, p) =>
       etx[t].state = "in_progress" \/ (etx[t].state \in Waiting /\ phase \in {"reorgs", "last"})

\* a receipt of the longest chain is right, and one of a block that was left is young
BlocksKnown == \A r \in receipts :
  /\ r.chain = "longest" => \E n \in DOMAIN mined : mined[n].tx = r.tx /\ mined[n].age = r.age
  /\ r.chain = "head" => r.age <= ReorgDepth - 1 + lag
  /\ r.chain = "orphaned" =>
       r.age <= ReorgDepth - 1 + lag + (IF phase \in {"idle", "last"} THEN 0 ELSE MaxLag)
  /\ r.chain # "longest" => Events >= 1

\* what was reaped is on the chain in a block that no reorganisation reaches
ReapedIsDeep == \A t \in Txs :
  etx[t].state = "reaped" => \E n \in DOMAIN mined : mined[n].tx = t /\ mined[n].age > FinalityDepth

ForkInv == Core /\ Kept /\ ReceiptsHeld /\ NoneLeftOver /\ BlocksKnown /\ ReapedIsDeep /\ AllInTime

-----------------------------------------------------------------------------
LEMMA TimesMonotone ==
  ASSUME NEW m \in Nat, NEW a \in Nat, NEW b \in Nat, a <= b
  PROVE  m * a \in Nat /\ m * a <= m * b
<1>1. b - a \in Nat /\ b = a + (b - a)
  OBVIOUS
<1>2. m * (b - a) \in Nat /\ m * a \in Nat
  BY <1>1
<1>3. m * b = m * a + m * (b - a)
  BY <1>1
<1>4. QED
  BY <1>2, <1>3

LEMMA SlackIs ==
  ASSUME TxManagerAssumption, TypeOK
  PROVE  /\ Events \in Nat /\ Slack \in Nat /\ lag \in 0 .. MaxLag /\ MaxLag \in Nat \ {0}
         /\ Events >= 1 => Slack >= 2 * MaxLag
         /\ Events = 0 => Slack = 0
         /\ Margins => Slack - MaxLag <= FinalityDepth
<1>1. /\ Events \in Nat /\ lag \in 0 .. MaxLag /\ MaxLag \in Nat \ {0} /\ FinalityDepth \in Nat
      /\ Events <= MaxReorgs + MaxFaults /\ MaxReorgs + MaxFaults \in Nat
  BY DEF Events, TypeOK, TxManagerAssumption
<1> DEFINE e == 2 * Events
           b == 2 * (MaxReorgs + MaxFaults)
<1>2. e \in Nat /\ b \in Nat /\ e <= b /\ (Events >= 1 => 2 <= e) /\ (Events = 0 => e = 0)
  BY <1>1
<1>3. Slack = MaxLag * e /\ (Margins => MaxLag * b - MaxLag <= FinalityDepth)
  BY DEF Slack, Margins
<1> HIDE DEF e, b
<1>4. MaxLag * e \in Nat /\ MaxLag * e <= MaxLag * b /\ MaxLag * b \in Nat
  BY <1>1, <1>2, TimesMonotone
<1>5. Events >= 1 => MaxLag * 2 <= MaxLag * e
  BY <1>1, <1>2, TimesMonotone
<1>6. Events = 0 => MaxLag * e = 0
  BY <1>1, <1>2
<1>7. QED
  BY <1>1, <1>3, <1>4, <1>5, <1>6

LEMMA SlackGrows ==
  ASSUME TxManagerAssumption, TypeOK, TypeOK'
  PROVE  /\ Events' \in Nat /\ Slack' \in Nat
         /\ Events' > Events => Slack' >= Slack + 2 * MaxLag
         /\ Events' = Events => Slack' = Slack
<1>1. Events \in Nat /\ MaxLag \in Nat
  BY DEF Events, TypeOK, TxManagerAssumption
<1>2. Events' \in Nat
  <2>1. reorgs' \in 0 .. MaxReorgs /\ faults' \in 0 .. MaxFaults
    BY DEF TypeOK
  <2>2. MaxReorgs \in Nat /\ MaxFaults \in Nat
    BY DEF TxManagerAssumption
  <2>0. reorgs' \in Nat /\ faults' \in Nat
    BY <2>1, <2>2
  <2>3. reorgs' + faults' \in Nat
    <3>1. \A a, b \in Nat : a + b \in Nat
      OBVIOUS
    <3>2. QED
      BY <2>0, <3>1
  <2>4. Events' = reorgs' + faults'
    BY DEF Events
  <2>5. QED
    BY <2>3, <2>4
<1> DEFINE e == Events
           f == Events'
<1>3. ASSUME f > e PROVE MaxLag * (2 * f) >= MaxLag * (2 * e) + 2 * MaxLag
  <2> HIDE DEF e, f
  <2>0. e \in Nat /\ f \in Nat
    BY <1>1, <1>2 DEF e, f
  <2>1. 2 * e + 2 \in Nat /\ 2 * e \in Nat /\ 2 * f \in Nat /\ 2 * e + 2 <= 2 * f
    BY <1>3, <2>0
  <2>2. MaxLag * (2 * e + 2) <= MaxLag * (2 * f)
    BY <1>1, <2>1, TimesMonotone
  <2>3. MaxLag * (2 * e + 2) = MaxLag * (2 * e) + 2 * MaxLag
    BY <1>1, <2>1
  <2>4. MaxLag * (2 * e) \in Nat /\ MaxLag * (2 * f) \in Nat
    BY <1>1, <2>1, TimesMonotone
  <2>5. QED
    BY <1>1, <2>2, <2>3, <2>4
<1>4. Slack = MaxLag * (2 * e) /\ Slack' = MaxLag * (2 * f)
  BY DEF Slack
<1>5. f \in Nat
  BY <1>2
<1> HIDE DEF e, f
<1>6. 2 * f \in Nat /\ MaxLag * (2 * f) \in Nat
  BY <1>1, <1>5, TimesMonotone
<1>7. QED
  BY <1>2, <1>3, <1>4, <1>6 DEF e, f

LEMMA FreshMore ==
  ASSUME TxManagerAssumption, TypeOK, NEW t \in Txs, NEW j \in Int, NEW k \in Int, j <= k, Fresh(t, j)
  PROVE  Fresh(t, k)
<1>1. lag \in Int /\ \A p \in Prices : attempts[t][p].age \in Int
  BY DEF TypeOK, TxManagerAssumption, OldAge, Null
<1>2. QED
  BY <1>1 DEF Fresh

LEMMA InTimeIsFresh ==
  ASSUME TxManagerAssumption, TypeOK, NEW t \in Txs, InTime(t)
  PROVE  Fresh(t, Slack)
<1>1. Slack \in Int /\ MaxLag \in Nat
  BY SlackIs
<1>2. /\ Slack - 2 * MaxLag \in Int /\ Slack - 2 * MaxLag <= Slack
      /\ Slack - MaxLag \in Int /\ Slack - MaxLag <= Slack
  BY <1>1
<1>3. QED
  BY <1>1, <1>2, FreshMore DEF InTime, Just, Soon, Now

\* a further event makes up for all the heads that were missed
LEMMA InTimeAfterEvent ==
  ASSUME TxManagerAssumption, TypeOK, TypeOK', NEW t \in Txs, Events < Events', InTime(t),
         \A k \in Int : Fresh(t, k) => Fresh(t, k)'
  PROVE  InTime(t)'
<1>1. /\ Events \in Nat /\ Events' \in Nat /\ Slack \in Int /\ MaxLag \in Nat
      /\ Slack' >= Slack + 2 * MaxLag /\ Slack' \in Int
  BY SlackIs, SlackGrows
<1>2. PICK k \in Int : k = Slack' - 2 * MaxLag /\ Slack <= k
  <2>1. \A a, b, m \in Int : b >= a + 2 * m => b - 2 * m \in Int /\ a <= b - 2 * m
    OBVIOUS
  <2>2. MaxLag \in Int
    BY <1>1
  <2>3. Slack' - 2 * MaxLag \in Int /\ Slack <= Slack' - 2 * MaxLag
    BY ONLY <1>1, <2>1, <2>2, Zenon
  <2>4. QED
    BY ONLY <2>3, Zenon
<1>3. Fresh(t, Slack)
  BY InTimeIsFresh
<1>4. Fresh(t, k)
  BY <1>1, <1>2, <1>3, FreshMore
<1>5. Fresh(t, k)' /\ Events' >= 1
  BY <1>1, <1>4
<1>6. Just(t)'
  BY <1>2, <1>5 DEF Just, Fresh
<1>7. QED
  BY <1>6 DEF InTime

LEMMA EventsOnly ==
  ASSUME TxManagerAssumption, TypeOK, TypeOK', Events <= Events'
  PROVE  /\ Events' = Events \/ Events < Events'
         /\ Events >= 1 => Events' >= 1
<1>1. Events \in Nat /\ Events' \in Nat
  BY SlackIs, SlackGrows
<1>2. \A a, b \in Nat : a <= b => (b = a \/ a < b) /\ (a >= 1 => b >= 1)
  OBVIOUS
<1>3. QED
  BY ONLY <1>1, <1>2, Events <= Events', Zenon

LEMMA BlocksKnownKept ==
  ASSUME TxManagerAssumption, TypeOK, TypeOK', BlocksKnown, UNCHANGED <<mined, lag>>, Events <= Events',
         receipts' \subseteq receipts, phase' \in {"idle", "last"} => phase \in {"idle", "last"}
  PROVE  BlocksKnown'
<1>1. Events >= 1 => Events' >= 1
  BY EventsOnly
<1>2. ASSUME NEW r \in receipts, r.chain = "orphaned"
      PROVE  r.age <= ReorgDepth - 1 + lag + (IF phase' \in {"idle", "last"} THEN 0 ELSE MaxLag)
  <2>1. r.age \in Int /\ lag \in Int /\ ReorgDepth \in Int /\ MaxLag \in Nat
    BY DEF TypeOK, TxManagerAssumption, OldAge
  <2>2. r.age <= ReorgDepth - 1 + lag + (IF phase \in {"idle", "last"} THEN 0 ELSE MaxLag)
    BY <1>2 DEF BlocksKnown
  <2>3. QED
    BY <2>1, <2>2
<1>3. \A r \in receipts' : r \in receipts
  OBVIOUS
<1>4. QED
  BY <1>1, <1>2, <1>3 DEF BlocksKnown

\* a step elsewhere, while the phase stays, or goes on where no attempt is judged
LEMMA InTimeElsewhere ==
  ASSUME TxManagerAssumption, TypeOK, TypeOK', AllInTime, NEW t \in Txs, Behind(t)',
         etx'[t] = etx[t], attempts'[t] = attempts[t], UNCHANGED <<mined, lag>>, Events <= Events',
         \A r \in receipts' : r \in receipts /\ etx'[r.tx].nonce = etx[r.tx].nonce,
         phase' = phase \/ (phase \notin Judged \cup {"idle", "last", "broadcast_before"} /\
                            phase' \notin Judged \cup {"idle", "last", "broadcast_before"})
  PROVE  InTime(t)'
<1>1. Above(t)' \subseteq Above(t) /\ Lost(t)' \subseteq Lost(t)
  BY DEF Above, Lost
<1>2. InTime(t)
  BY <1>1 DEF Behind, AllInTime
<1>3. \A k \in Int : Fresh(t, k) => Fresh(t, k)'
  BY DEF Fresh
<1>4. CASE Events < Events'
  BY <1>2, <1>3, <1>4, InTimeAfterEvent
<1>5. CASE Events' = Events
  <2>1. Slack' = Slack
    BY <1>5, SlackGrows
  <2>2. CASE Just(t)
    BY <1>5, <2>1, <2>2 DEF Just, Fresh, InTime
  <2>3. CASE Soon(t)
    <3>1. Fresh(t, Slack - MaxLag)'
      BY <2>1, <2>3 DEF Soon, Fresh
    <3>2. Soon(t)'
      BY <1>1, <2>3, <3>1 DEF Soon
    <3>3. QED
      BY <3>2 DEF InTime
  <2>4. CASE Now(t)
    <3>1. phase' = phase
      BY <2>4 DEF Now, Judged
    <3>2. Fresh(t, Slack)'
      BY <2>1, <2>4 DEF Now, Fresh
    <3>3. Now(t)'
      BY <1>1, <2>4, <3>1, <3>2 DEF Now, OnChain
    <3>4. QED
      BY <3>3 DEF InTime
  <2>5. QED
    BY <1>2, <2>2, <2>3, <2>4 DEF InTime
<1>6. QED
  BY <1>4, <1>5, EventsOnly

\* a step whose sender has just sent an attempt in a phase that judges none
LEMMA InTimeWhenSent ==
  ASSUME TxManagerAssumption, TypeOK, TypeOK', BlocksKnown', NEW t \in Txs, NEW p \in Prices,
         attempts'[t][p].state \in {"broadcast", "in_progress"}, attempts'[t][p].age = Null,
         phase' \notin Judged
  PROVE  InTime(t)'
<1>1. Events' \in Nat
  BY SlackGrows
<1>2. CASE Events' >= 1
  BY <1>2 DEF Just, Fresh, InTime
<1>3. CASE ~(Events' >= 1)
  <2>1. Lost(t)' = {}
    BY <1>3 DEF Lost, Above, BlocksKnown
  <2>2. Soon(t)'
    BY <2>1 DEF Soon, Fresh
  <2>3. QED
    BY <2>2 DEF InTime
<1>4. QED
  BY <1>2, <1>3

(***************************************************************************)
(* A step that changes the rows of the transactions in S only, none of     *)
(* them confirmed.                                                         *)
(***************************************************************************)
LEMMA ForkKept ==
  ASSUME TxManagerAssumption, Inv, Inv', ForkInv, Core', Kept',
         UNCHANGED <<mined, lag, receipts>>, Events <= Events',
         \/ phase' = phase
         \/ /\ phase \notin Judged \cup {"idle", "last", "reorgs", "broadcast_before"}
            /\ phase' \notin Judged \cup {"idle", "last", "broadcast_before"},
         NEW S \in SUBSET Txs,
         \A u \in Txs \ S : etx'[u] = etx[u] /\ attempts'[u] = attempts[u],
         \A t \in S : /\ etx[t].state # "confirmed" /\ etx'[t].state \notin {"confirmed", "reaped"}
                      /\ Behind(t)' => InTime(t)',
         \A t \in S, p \in Prices :
           /\ attempts'[t][p].state # "insufficient_eth"
           /\ AttemptInProgress(t, p)' =>
                \/ etx'[t].state = "in_progress"
                \/ etx'[t].state \in Waiting /\ phase' \in {"reorgs", "last"}
  PROVE  ForkInv'
<1> USE DEF ForkInv, Inv
<1>1. \A r \in receipts : r.tx \in Txs \ S /\ etx'[r.tx] = etx[r.tx] /\ attempts'[r.tx] = attempts[r.tx]
  BY DEF ReceiptsHeld, TypeOK
<1>2. ReceiptsHeld'
  <2>1. ASSUME NEW t \in Txs, etx'[t].state = "confirmed" PROVE \E r \in receipts : r.tx = t
    BY <2>1 DEF ReceiptsHeld
  <2>2. QED
    BY <1>1, <2>1 DEF ReceiptsHeld
<1>3. NoneLeftOver'
  <2>1. ASSUME NEW t \in Txs \ S, NEW p \in Prices
        PROVE  /\ attempts'[t][p].state # "insufficient_eth"
               /\ AttemptInProgress(t, p)' =>
                    \/ etx'[t].state = "in_progress"
                    \/ etx'[t].state \in Waiting /\ phase' \in {"reorgs", "last"}
    BY <2>1 DEF NoneLeftOver, AttemptInProgress
  <2>2. QED
    BY <2>1 DEF NoneLeftOver
<1>4. BlocksKnown'
  BY BlocksKnownKept
<1>5. ReapedIsDeep'
  BY DEF ReapedIsDeep
<1>6. AllInTime'
  <2>1. ASSUME NEW t \in Txs \ S, Behind(t)' PROVE InTime(t)'
    BY <1>1, <2>1, InTimeElsewhere
  <2>2. QED
    BY <2>1 DEF AllInTime
<1>7. QED
  BY <1>2, <1>3, <1>4, <1>5, <1>6

LEMMA ForkKeptBut ==
  ASSUME TxManagerAssumption, Inv, Inv', ForkInv, Core', Kept',
         UNCHANGED <<mined, lag, receipts>>, Events <= Events',
         \/ phase' = phase
         \/ /\ phase \notin Judged \cup {"idle", "last", "reorgs", "broadcast_before"}
            /\ phase' \notin Judged \cup {"idle", "last", "broadcast_before"},
         NEW t \in Txs,
         \A u \in Txs \ {t} : etx'[u] = etx[u] /\ attempts'[u] = attempts[u],
         etx[t].state # "confirmed", etx'[t].state \notin {"confirmed", "reaped"},
         Behind(t)' => InTime(t)',
         \A p \in Prices :
           /\ attempts'[t][p].state # "insufficient_eth"
           /\ AttemptInProgress(t, p)' =>
                \/ etx'[t].state = "in_progress"
                \/ etx'[t].state \in Waiting /\ phase' \in {"reorgs", "last"}
  PROVE  ForkInv'
<1> DEFINE S == {t}
<1>1. S \in SUBSET Txs /\ \A u \in Txs \ S : etx'[u] = etx[u] /\ attempts'[u] = attempts[u]
  OBVIOUS
<1>2. \A u \in S : /\ etx[u].state # "confirmed" /\ etx'[u].state \notin {"confirmed", "reaped"}
                   /\ Behind(u)' => InTime(u)'
  OBVIOUS
<1>3. \A u \in S, p \in Prices :
           /\ attempts'[u][p].state # "insufficient_eth"
           /\ AttemptInProgress(u, p)' =>
                \/ etx'[u].state = "in_progress"
                \/ etx'[u].state \in Waiting /\ phase' \in {"reorgs", "last"}
  OBVIOUS
<1> HIDE DEF S
<1>4. QED
  BY <1>1, <1>2, <1>3, ForkKept

LEMMA ForkKeptAll ==
  ASSUME TxManagerAssumption, Inv, Inv', ForkInv, Core', Kept',
         UNCHANGED <<mined, lag, receipts, etx, attempts>>, Events <= Events',
         \/ phase' = phase
         \/ /\ phase \notin Judged \cup {"idle", "last", "reorgs", "broadcast_before"}
            /\ phase' \notin Judged \cup {"idle", "last", "broadcast_before"}
  PROVE  ForkInv'
<1> DEFINE S == {}
<1>1. S \in SUBSET Txs /\ \A u \in Txs \ S : etx'[u] = etx[u] /\ attempts'[u] = attempts[u]
  OBVIOUS
<1>2. \A u \in S : FALSE
  OBVIOUS
<1> HIDE DEF S
<1>4. QED
  BY <1>1, <1>2, ForkKept

LEMMA FaultsGrow ==
  ASSUME TxManagerAssumption, TypeOK, TypeOK', NEW a \in Attempts, NEW r \in Answer(a), SendOne(a, r)
  PROVE  faults <= faults'
<1>1. r.faulty \in 0 .. 1 /\ faults \in Nat
  BY AnswerIs DEF TypeOK, TxManagerAssumption
<1>2. faults' = faults + r.faulty
  BY DEF SendOne
<1>3. QED
  BY <1>1, <1>2

LEMMA EventsStay ==
  ASSUME TxManagerAssumption, TypeOK, TypeOK', reorgs' = reorgs, faults <= faults'
  PROVE  Events <= Events' /\ (faults' = faults => Events' = Events)
         /\ (faults' # faults => Events < Events')
<1>1. reorgs \in Nat /\ faults \in Nat /\ faults' \in Nat
  BY DEF TypeOK, TxManagerAssumption
<1>2. \A a, b, c \in Nat : b <= c => a + b <= a + c /\ (c # b => a + b < a + c)
  OBVIOUS
<1>3. Events = reorgs + faults /\ Events' = reorgs + faults'
  BY DEF Events
<1>4. QED
  BY ONLY <1>1, <1>2, <1>3, faults <= faults', Zenon

LEMMA ForkCreate ==
  ASSUME TxManagerAssumption, Inv, Inv', ForkInv, Kept', NEW t \in Txs, CreateEthTransaction(t)
  PROVE  ForkInv'
<1>1. /\ etx[t].state = "none" /\ etx'[t].state = "unstarted" /\ etx'[t].nonce = etx[t].nonce
      /\ \A u \in Txs \ {t} : etx'[u] = etx[u]
      /\ UNCHANGED <<attempts, receipts, nextNonce, phase, lag, mined, mempool, abandoned, world, faults, reorgs>>
  BY DEF CreateEthTransaction, Inv, TypeOK, env, head
<1>2. Core'
  BY <1>1, CoreIf DEF ForkInv, Inv
<1>3. Events <= Events'
  BY <1>1, EventsStay DEF Inv, TypeOK, TxManagerAssumption
<1>4. ~Behind(t)'
  BY <1>1 DEF Behind
<1>5. \A p \in Prices : attempts'[t][p].state \notin {"insufficient_eth", "in_progress"}
  BY <1>1 DEF Inv, RowsInv, RowOK
<1>6. QED
  BY <1>1, <1>2, <1>3, <1>4, <1>5, ForkKeptBut DEF AttemptInProgress

LEMMA ForkSaveInProgress ==
  ASSUME TxManagerAssumption, Inv, Inv', ForkInv, Kept', NEW t \in Txs, saveInProgressTransaction(t)
  PROVE  ForkInv'
<1>1. /\ etx[t].state = "unstarted" /\ etx'[t].state = "in_progress"
      /\ \A u \in Txs \ {t} : etx'[u] = etx[u] /\ attempts'[u] = attempts[u]
      /\ \A p \in Prices : attempts'[t][p] = attempts[t][p] \/ attempts'[t][p].state = "in_progress"
      /\ UNCHANGED <<receipts, phase, lag, mined, faults, reorgs>>
  BY DEF saveInProgressTransaction, findNextUnstartedTransaction, Inv, TypeOK, env, head
<1>2. Core'
  BY CoreSaveInProgress DEF ForkInv
<1>3. Events <= Events'
  BY <1>1, EventsStay DEF Inv, TypeOK, TxManagerAssumption
<1>4. ~Behind(t)'
  BY <1>1 DEF Behind
<1>5. \A p \in Prices : attempts'[t][p].state # "insufficient_eth"
  BY <1>1 DEF ForkInv, NoneLeftOver
<1>6. QED
  BY <1>1, <1>2, <1>3, <1>4, <1>5, ForkKeptBut

\* no receipt is above the nonce that is given out last
LEMMA ForkHandleInProgress ==
  ASSUME TxManagerAssumption, Inv, Inv', ForkInv, Kept', Forking, NEW t \in Txs, handleInProgressEthTx(t)
  PROVE  ForkInv'
<1> USE DEF ForkInv
<1>1. /\ etx[t].state = "in_progress" /\ etx[t].nonce = nextNonce /\ nextNonce \in Nat
      /\ \A u \in Txs \ {t} : etx'[u] = etx[u] /\ attempts'[u] = attempts[u] /\ etx[u].state # "in_progress"
      /\ UNCHANGED <<receipts, phase, lag, mined, abandoned, world, reorgs>>
  BY HandleInProgressEffect DEF Core, OneClaimant, Inv, RowsInv, OneInProgress, TypeOK, head, handleInProgressEthTx
<1>2. /\ etx'[t].state \in {"fatal_error", "unconfirmed", "in_progress"}
      /\ etx'[t].state = "unconfirmed" => etx'[t].nonce = nextNonce
      /\ \A p \in Prices : /\ attempts'[t][p].state # "insufficient_eth"
                           /\ AttemptInProgress(t, p)' => etx'[t].state = "in_progress"
  <2>1. \A p \in Prices : attempts[t][p].state # "insufficient_eth"
    BY DEF NoneLeftOver
  <2>2. ASSUME NEW p \in Prices, Bumps(t, p)
        PROVE  etx'[t].state = "in_progress" /\ \A q \in Prices : attempts'[t][q].state # "insufficient_eth"
    <3>1. \A q \in Prices : \/ attempts'[t][q].state \in {"none", "in_progress"}
                            \/ attempts'[t][q] = attempts[t][q]
      BY <2>2 DEF Bumps
    <3>2. QED
      BY <1>1, <2>1, <2>2, <3>1 DEF Bumps
  <2>3. ASSUME NEW p \in Prices, AttemptInProgress(t, p), Saves(t, p)
        PROVE  /\ etx'[t].state = "unconfirmed" /\ etx'[t].nonce = nextNonce
               /\ \A q \in Prices : attempts'[t][q].state \notin {"insufficient_eth", "in_progress"}
    <3>1. \A q \in Prices \ {p} : ~AttemptInProgress(t, q)
      BY <2>3 DEF Inv, RowsInv, RowOK
    <3>2. QED
      BY <1>1, <2>1, <2>3, <3>1 DEF Saves, AttemptInProgress
  <2>4. CASE GivesUp(t) \/ Waits
    BY <1>1, <2>1, <2>4 DEF GivesUp, Waits, NoAttempt, AttemptInProgress
  <2>5. QED
    BY <2>2, <2>3, <2>4, InProgressAnswer DEF Forking, AttemptInProgress
<1>3. Core'
  BY CoreHandleInProgress DEF Forking
<1>4. Events <= Events'
  <2>0. PICK p \in Prices : \E r \in Answer(Sent(t, p)) : SendOne(Sent(t, p), r)
    BY HandleInProgressEffect DEF Forking
  <2>1. faults <= faults'
    <3>1. Sent(t, p) \in Attempts
      BY <1>1, SentTyped DEF Inv, Null
    <3>2. QED
      BY <2>0, <3>1, FaultsGrow DEF Inv
  <2>2. QED
    BY <1>1, <2>1, EventsStay DEF Inv
<1>5. ~Behind(t)'
  <2>1. SUFFICES ASSUME etx'[t].state = "unconfirmed", NEW r \in receipts, etx'[r.tx].nonce > etx'[t].nonce
                 PROVE  FALSE
    BY <1>1, <1>2 DEF Behind, Above
  <2>2. r.tx \in Txs /\ etx[r.tx].state = "confirmed" /\ r.tx # t
    BY <1>1 DEF ReceiptsHeld, Inv, TypeOK
  <2>3. etx[r.tx].nonce \in Nat
    BY <2>2 DEF Inv, TypeOK, RowsInv, RowOK, Later
  <2>4. etx[r.tx].nonce < nextNonce
    BY <1>1, <2>2, <2>3 DEF Core, OneClaimant, Claims
  <2>5. QED
    BY <1>1, <1>2, <2>1, <2>2, <2>3, <2>4
<1>6. QED
  BY <1>1, <1>2, <1>3, <1>4, <1>5, ForkKeptBut

LEMMA ForkRebroadcastWhere ==
  ASSUME TxManagerAssumption, Inv, Inv', ForkInv, Kept', rebroadcastWhereNecessary
  PROVE  ForkInv'
<1>1. /\ UNCHANGED <<etx, attempts, receipts, nextNonce, lag, mined, mempool, world, faults, reorgs>>
      /\ phase = "in_progress" /\ phase' \in {"reorgs", "rebroadcast"}
  BY DEF rebroadcastWhereNecessary, db, head, env
<1>2. Core'
  BY <1>1, CoreIf DEF ForkInv, Inv
<1>3. Events <= Events'
  BY <1>1, EventsStay DEF Inv, TypeOK, TxManagerAssumption
<1>4. QED
  BY <1>1, <1>2, <1>3, ForkKeptAll DEF Judged

LEMMA ForkResend ==
  ASSUME TxManagerAssumption, Inv, Inv', ForkInv, Kept', ResendUnconfirmed
  PROVE  ForkInv'
<1>1. /\ UNCHANGED <<etx, attempts, receipts, nextNonce, phase, lag, mined, world, faults, reorgs>>
      /\ \A a \in mempool' : \/ a \in mempool
                             \/ /\ Verdict(a) = "ok" /\ etx[a.tx].nonce = a.nonce
                                /\ a.tx \in Txs /\ a.price \in PricesOf(a.tx)
  BY ResendEffect
<1>2. \A a \in mempool' : \/ a \in mempool
                          \/ /\ Verdict(a) = "ok" /\ etx[a.tx].nonce = a.nonce
                             /\ attempts'[a.tx][a.price].state # "none"
  BY <1>1 DEF PricesOf, WithState
<1>3. Core'
  BY <1>1, <1>2, CoreIf DEF ForkInv, Inv
<1>4. Events <= Events'
  BY <1>1, EventsStay DEF Inv, TypeOK, TxManagerAssumption
<1>5. QED
  BY <1>1, <1>3, <1>4, ForkKeptAll

LEMMA ForkEvict ==
  ASSUME TxManagerAssumption, Inv, Inv', ForkInv, Kept', Evict
  PROVE  ForkInv'
<1>1. /\ UNCHANGED <<etx, attempts, receipts, nextNonce, phase, mined, abandoned, world, lag, reorgs>>
      /\ mempool' \subseteq mempool
  BY EvictStep DEF Evict, head
<1>2. Core'
  BY <1>1, CoreIf DEF ForkInv, Inv
<1>3. faults <= faults'
  BY DEF Evict, Fault, Inv, TypeOK, TxManagerAssumption
<1>4. Events <= Events'
  BY <1>1, <1>3, EventsStay DEF Inv
<1>5. QED
  BY <1>1, <1>2, <1>4, ForkKeptAll

LEMMA ForkStutter ==
  ASSUME TxManagerAssumption, Inv, Inv', ForkInv, Kept', UNCHANGED vars
  PROVE  ForkInv'
<1>1. UNCHANGED <<etx, attempts, receipts, nextNonce, phase, mined, mempool, world, lag, reorgs, faults>>
  BY DEF vars, db, env, head
<1>2. Core'
  BY <1>1, CoreIf DEF ForkInv, Inv
<1>3. Events <= Events'
  BY <1>1, EventsStay DEF Inv, TypeOK, TxManagerAssumption
<1>4. QED
  BY <1>1, <1>2, <1>3, ForkKeptAll

(***************************************************************************)
(* An attempt of a transaction without receipt is sent and answered.       *)
(***************************************************************************)
LEMMA ForkHandled ==
  ASSUME TxManagerAssumption, Inv, Inv', ForkInv, Kept', Forking,
         NEW t \in Txs, etx[t].state \in Waiting, NEW p \in Prices, NEW r \in Answer(Sent(t, p)),
         handleInProgressAttempt(t, p, r), \A q \in Prices \ {p} : ~AttemptInProgress(t, q),
         UNCHANGED <<nextNonce, lag, mined, world, reorgs>>,
         \/ phase = "last" /\ phase' = "last"
         \/ phase = "rebroadcast" /\ phase' \in {"rebroadcast", "reorgs"}
  PROVE  ForkInv'
<1> USE DEF Inv, ForkInv
<1> DEFINE s == Sent(t, p)
<1>1. s \in Attempts /\ s.tx = t /\ s.price = p /\ r \in Answer(s) /\ SendOne(s, r)
  BY SentTyped DEF RowsInv, RowOK, Later, Waiting, handleInProgressAttempt
<1> HIDE DEF s
<1>2. r.err \notin {"unknown", "insufficient", "feecap"}
  BY <1>1, AnswerIs DEF Forking
<1>3. etx[t].state \in Later
  BY DEF Waiting, Later
<1>4. /\ \A a \in mempool' : a \in mempool \/ (a = s /\ Verdict(a) = "ok" /\ etx[a.tx].nonce = a.nonce)
      /\ \A u \in Txs \ {t} : etx'[u] = etx[u] /\ attempts'[u] = attempts[u]
      /\ etx'[t].nonce = etx[t].nonce /\ etx'[t].state \in Waiting
      /\ \A q \in Prices \ {p} : attempts'[t][q] = attempts[t][q]
  BY <1>3, HandleAttemptEffect DEF s, Waiting
<1>5. attempts'[t][p] = [state |-> "broadcast", age |-> Null]
  <2>1. attempts' = [attempts EXCEPT ![t][p] = [state |-> "broadcast", age |-> Null]]
    BY <1>2 DEF handleInProgressAttempt
  <2>2. QED
    BY <2>1 DEF TypeOK
<1>6. receipts' = receipts
  <2>1. \A q \in receipts : q.tx \in Txs \ {t} /\ attempts[q.tx][q.price].state = "broadcast"
    BY DEF ReceiptsHeld, Waiting, TypeOK
  <2>2. receipts' = {q \in receipts : attempts'[q.tx][q.price].state # "none"}
    BY DEF handleInProgressAttempt
  <2>3. QED
    BY <1>4, <2>1, <2>2
<1>7. Events <= Events'
  BY <1>1, FaultsGrow, EventsStay
<1>8. Core'
  <2>1. \A u \in Txs, q \in Prices : attempts[u][q].state # "none" => attempts'[u][q].state # "none"
    BY <1>4, <1>5
  <2>2. \A a \in mempool' : \/ a \in mempool
                            \/ /\ Verdict(a) = "ok" /\ etx[a.tx].nonce = a.nonce
                               /\ attempts'[a.tx][a.price].state # "none"
    BY <1>1, <1>4, <1>5
  <2>3. \A u \in Txs : /\ etx'[u].nonce = etx[u].nonce
                       /\ \/ etx'[u].state = etx[u].state
                          \/ /\ etx[u].state \notin {"in_progress", "reaped"}
                             /\ etx'[u].state \notin {"in_progress", "reaped"}
    BY <1>4 DEF Waiting
  <2>4. QED
    BY <2>1, <2>2, <2>3, CoreIf
<1>9. BlocksKnown'
  BY <1>6, <1>7, BlocksKnownKept
<1>10. InTime(t)'
  BY <1>5, <1>9, InTimeWhenSent DEF Judged
<1>11. \A q \in Prices : attempts'[t][q].state \notin {"insufficient_eth", "in_progress"}
  BY <1>4, <1>5 DEF NoneLeftOver, AttemptInProgress
<1>12. QED
  BY <1>4, <1>6, <1>7, <1>8, <1>10, <1>11, ForkKeptBut DEF Waiting, Judged, AttemptInProgress

LEMMA ForkHandleAny ==
  ASSUME TxManagerAssumption, Inv, Inv', ForkInv, Kept', Forking, handleAnyInProgressAttempts
  PROVE  ForkInv'
<1>1. PICK t \in Txs : \E p \in WithState(t, {"in_progress"}) : \E r \in Answer(Sent(t, p)) :
        /\ HasInProgressAttempt(t) /\ handleInProgressAttempt(t, p, r)
        /\ Enter(NextPhase(r, phase)) /\ phase \in {"in_progress", "last"}
  BY DEF handleAnyInProgressAttempts
<1>2. PICK p \in WithState(t, {"in_progress"}) : \E r \in Answer(Sent(t, p)) :
        /\ HasInProgressAttempt(t) /\ handleInProgressAttempt(t, p, r)
        /\ Enter(NextPhase(r, phase)) /\ phase \in {"in_progress", "last"}
  BY <1>1
<1>3. PICK r \in Answer(Sent(t, p)) :
        /\ HasInProgressAttempt(t) /\ handleInProgressAttempt(t, p, r)
        /\ Enter(NextPhase(r, phase)) /\ phase \in {"in_progress", "last"}
  BY <1>2
<1>4. p \in Prices /\ AttemptInProgress(t, p) /\ etx[t].state # "in_progress"
  BY <1>3 DEF WithState, AttemptInProgress, HasInProgressAttempt
<1>5. etx[t].state \in Waiting /\ phase = "last"
  BY <1>3, <1>4 DEF ForkInv, NoneLeftOver
<1>6. \A q \in Prices \ {p} : ~AttemptInProgress(t, q)
  BY <1>4 DEF Inv, RowsInv, RowOK
<1>7. r.err # "unknown"
  <2>1. Sent(t, p) \in Attempts
    BY <1>4, <1>5, SentTyped DEF Inv, RowsInv, RowOK, Later, Waiting
  <2>2. QED
    BY <2>1, AnswerIs DEF Forking, Inv
<1>8. UNCHANGED <<nextNonce, lag, mined, world, reorgs>> /\ phase' = "last"
  BY <1>3, <1>5, <1>7 DEF Enter, NextPhase, head
<1>9. QED
  BY <1>3, <1>4, <1>5, <1>6, <1>8, ForkHandled

LEMMA ForkRebroadcast ==
  ASSUME TxManagerAssumption, Inv, Inv', ForkInv, Kept', Forking, NEW t \in Txs, Rebroadcast(t)
  PROVE  ForkInv'
<1>1. /\ phase = "rebroadcast" /\ etx[t].state = "unconfirmed"
      /\ UNCHANGED <<nextNonce, lag, mined, world, reorgs>>
  BY DEF Rebroadcast, Inv, RowsInv, PhaseOK, head
<1>2. PricesOf(t) # {}
  <2>1. HasAttempt(t)
    BY <1>1 DEF ForkInv, Kept, Forking, Later
  <2>2. QED
    BY <2>1 DEF HasAttempt, PricesOf, WithState, Inv, TypeOK
<1>3. PICK p \in Prices : \E r \in Answer(Sent(t, p)) :
        /\ handleInProgressAttempt(t, p, r)
        /\ \A q \in Prices \ {p} : ~AttemptInProgress(t, q)
        /\ phase' = IF todo' # {} THEN phase ELSE NextPhase(r, "reorgs")
  BY <1>2, RebroadcastEffect
<1>4. PICK r \in Answer(Sent(t, p)) :
        /\ handleInProgressAttempt(t, p, r)
        /\ \A q \in Prices \ {p} : ~AttemptInProgress(t, q)
        /\ phase' = IF todo' # {} THEN phase ELSE NextPhase(r, "reorgs")
  BY <1>3
<1>5. r.err # "unknown"
  <2>1. Sent(t, p) \in Attempts
    BY <1>1, SentTyped DEF Inv, RowsInv, RowOK, Later
  <2>2. QED
    BY <2>1, AnswerIs DEF Forking, Inv
<1>6. phase' \in {"rebroadcast", "reorgs"}
  BY <1>1, <1>4, <1>5 DEF NextPhase
<1>7. QED
  BY <1>1, <1>4, <1>6, ForkHandled DEF Waiting

(***************************************************************************)
(* The confirmer takes the newest head: the receipts of the blocks that it *)
(* still had are of blocks that were left now.  What was behind for want   *)
(* of a head has one, and what had one before gets its receipt.            *)
(***************************************************************************)
LEMMA ForkTakeHead ==
  ASSUME TxManagerAssumption, Inv, Inv', ForkInv, Kept', TakeHead
  PROVE  ForkInv'
<1> USE DEF Inv, ForkInv
<1> DEFINE leave(r) == IF r.chain = "head" THEN [r EXCEPT !.chain = "orphaned"] ELSE r
<1>1. /\ UNCHANGED <<etx, attempts, nextNonce, mined, mempool, world, faults, reorgs>>
      /\ phase = "idle" /\ phase' = "broadcast_before" /\ lag' = 0
      /\ receipts' = {leave(r) : r \in receipts}
  BY DEF TakeHead, env
<1>2. \A r \in receipts : /\ leave(r).tx = r.tx /\ leave(r).price = r.price /\ leave(r).age = r.age
                          /\ leave(r).chain = IF r.chain = "head" THEN "orphaned" ELSE r.chain
  BY DEF TypeOK
<1> HIDE DEF leave
<1>3. /\ \A r \in receipts' : \E q \in receipts :
           r.tx = q.tx /\ r.price = q.price /\ r.age = q.age /\ r.chain = IF q.chain = "head" THEN "orphaned" ELSE q.chain
      /\ \A q \in receipts : \E r \in receipts' : r.tx = q.tx
  BY <1>1, <1>2
<1>4. lag \in 0 .. MaxLag /\ lag \in Int /\ MaxLag \in Nat /\ ReorgDepth \in Nat
  BY DEF TypeOK, TxManagerAssumption
<1>5. Core'
  BY <1>1, CoreIf
<1>6. ReceiptsHeld'
  <2>1. \A r, q \in receipts' : r.tx = q.tx => r = q
    <3>1. SUFFICES ASSUME NEW r \in receipts, NEW q \in receipts, leave(r).tx = leave(q).tx
                   PROVE  leave(r) = leave(q)
      BY <1>1
    <3>2. r = q
      BY <1>2, <3>1 DEF ReceiptsHeld
    <3>3. QED
      BY <3>2
  <2>2. \A r \in receipts' : etx[r.tx].state = "confirmed" /\ attempts[r.tx][r.price].state = "broadcast"
    BY <1>3 DEF ReceiptsHeld
  <2>3. \A t \in Txs : etx[t].state = "confirmed" => \E r \in receipts' : r.tx = t
    BY <1>3 DEF ReceiptsHeld
  <2>4. QED
    BY <1>1, <2>1, <2>2, <2>3 DEF ReceiptsHeld
<1>7. NoneLeftOver'
  BY <1>1 DEF NoneLeftOver, AttemptInProgress
<1>8. Events' = Events /\ Slack' = Slack
  BY <1>1 DEF Events, Slack
<1>9. BlocksKnown'
  <2>1. SUFFICES ASSUME NEW r \in receipts'
                 PROVE  /\ r.chain = "longest" => \E n \in DOMAIN mined : mined[n].tx = r.tx /\ mined[n].age = r.age
                        /\ r.chain # "head"
                        /\ r.chain = "orphaned" => r.age <= ReorgDepth - 1 + MaxLag
                        /\ r.chain # "longest" => Events >= 1
    BY <1>1, <1>4, <1>8 DEF BlocksKnown
  <2>2. PICK q \in receipts : /\ r.tx = q.tx /\ r.age = q.age
                              /\ r.chain = IF q.chain = "head" THEN "orphaned" ELSE q.chain
    BY <1>3
  <2>3. q.age \in Int /\ q.chain \in Chains
    BY DEF TypeOK
  <2>4. q.chain \in {"head", "orphaned"} => q.age <= ReorgDepth - 1 + lag
    BY <1>1, <1>4, <2>3 DEF BlocksKnown
  <2>5. QED
    BY <1>4, <2>2, <2>3, <2>4 DEF BlocksKnown, Chains
<1>10. ReapedIsDeep'
  BY <1>1 DEF ReapedIsDeep
<1>11. AllInTime'
  <2>1. SUFFICES ASSUME NEW t \in Txs, Behind(t)' PROVE InTime(t)'
    BY DEF AllInTime
  <2>2. Behind(t)
    BY <1>1, <1>3, <2>1 DEF Behind, Above
  <2>3. InTime(t)
    BY <2>2 DEF AllInTime
  <2>4. ASSUME NEW j \in Int, NEW k \in Int, j + MaxLag = k, Fresh(t, j) PROVE Fresh(t, k)'
    <3>1. PICK p \in Prices : /\ attempts[t][p].state \in {"broadcast", "in_progress"}
                              /\ attempts[t][p].age # Null => attempts[t][p].age - lag <= j
      BY <2>4 DEF Fresh
    <3>2. attempts[t][p].age \in Int
      BY DEF TypeOK, Null
    <3>3. attempts[t][p].age # Null => attempts[t][p].age - 0 <= k
      BY <1>4, <2>4, <3>1, <3>2
    <3>4. attempts'[t][p] = attempts[t][p]
      BY <1>1
    <3>5. QED
      BY <1>1, <3>1, <3>3, <3>4 DEF Fresh, Judged
  <2>5. Slack \in Int
    BY SlackIs
  <2>6. ASSUME NEW r \in Lost(t)' PROVE \E q \in Lost(t) : r.chain = "orphaned"
    <3>1. r \in receipts' /\ etx[r.tx].nonce > etx[t].nonce /\ r.chain # "longest"
      BY <1>1, <2>6 DEF Lost, Above
    <3>2. PICK q \in receipts : r.tx = q.tx /\ r.chain = IF q.chain = "head" THEN "orphaned" ELSE q.chain
      BY <1>3, <3>1
    <3>3. q.chain \in Chains
      BY DEF TypeOK
    <3>4. q \in Lost(t) /\ r.chain = "orphaned"
      BY <3>1, <3>2, <3>3 DEF Lost, Above, Chains
    <3>5. QED
      BY <3>4
  <2>7. CASE Just(t)
    <3>1. PICK k \in Int : k = Slack - MaxLag
      BY <1>4, <2>5
    <3>2. Fresh(t, k)'
      <4>1. Slack - 2 * MaxLag + MaxLag = Slack - MaxLag /\ Slack - 2 * MaxLag \in Int
        BY <1>4, <2>5
      <4>2. QED
        BY <2>4, <2>7, <3>1, <4>1 DEF Just
    <3>3. k = Slack' - MaxLag
      BY <1>8, <3>1
    <3>4. Fresh(t, Slack - MaxLag)'
      BY <3>2, <3>3 DEF Fresh
    <3>5. \A r \in Lost(t)' : r.age >= lag'
      <4>1. \A r \in receipts' : r.age \in Nat
        BY DEF TypeOK
      <4>2. QED
        BY <1>1, <4>1 DEF Lost, Above
    <3>6. Soon(t)'
      BY <1>1, <2>6, <3>4, <3>5 DEF Soon
    <3>7. QED
      BY <3>6 DEF InTime
  <2>8. CASE Soon(t)
    <3>1. Lost(t) = {}
      BY <1>1, <2>8 DEF Soon
    <3>2. Lost(t)' = {}
      BY <2>6, <3>1
    <3>3. PICK k \in Int : k = Slack
      BY <2>5
    <3>4. Fresh(t, k)'
      <4>1. Slack - MaxLag + MaxLag = Slack /\ Slack - MaxLag \in Int
        BY <1>4, <2>5
      <4>2. QED
        BY <2>4, <2>8, <3>3, <4>1 DEF Soon
    <3>5. Fresh(t, Slack)'
      BY <1>8, <3>3, <3>4 DEF Fresh
    <3>6. Now(t)'
      BY <1>1, <3>2, <3>5 DEF Now
    <3>7. QED
      BY <3>6 DEF InTime
  <2>9. CASE Now(t)
    BY <1>1, <2>9 DEF Now
  <2>10. QED
    BY <2>3, <2>7, <2>8, <2>9 DEF InTime
<1>12. QED
  BY <1>5, <1>6, <1>7, <1>9, <1>10, <1>11

\* what was sent since the last head was sent before the next one: fresh enough, by any measure
LEMMA ForkSetBroadcastBefore ==
  ASSUME TxManagerAssumption, Inv, Inv', ForkInv, Kept', SetBroadcastBeforeBlockNum
  PROVE  ForkInv'
<1> USE DEF Inv, ForkInv
<1>1. /\ UNCHANGED <<etx, receipts, nextNonce, mined, mempool, lag, world, faults, reorgs>>
      /\ phase = "broadcast_before" /\ phase' = "missing_receipt"
      /\ \A t \in Txs, p \in Prices : attempts'[t][p].state = attempts[t][p].state
  BY SetBroadcastBeforeStep DEF SetBroadcastBeforeBlockNum, Enter, head
<1>2. \A t \in Txs, p \in Prices :
        /\ attempts[t][p].state = "broadcast" /\ attempts[t][p].age = Null => attempts'[t][p].age = lag
        /\ attempts[t][p].age # Null => attempts'[t][p] = attempts[t][p]
  <2>1. \A t \in Txs, p \in Prices : attempts[t][p] \in [state : AttemptStates, age : 0 .. OldAge \cup {Null}]
    BY DEF TypeOK
  <2>2. \A t \in Txs, p \in Prices : attempts'[t][p] =
          IF attempts[t][p] = [state |-> "broadcast", age |-> Null]
          THEN [attempts[t][p] EXCEPT !.age = lag] ELSE attempts[t][p]
    BY DEF SetBroadcastBeforeBlockNum
  <2>3. SUFFICES ASSUME NEW t \in Txs, NEW p \in Prices
                 PROVE  /\ attempts[t][p].state = "broadcast" /\ attempts[t][p].age = Null => attempts'[t][p].age = lag
                        /\ attempts[t][p].age # Null => attempts'[t][p] = attempts[t][p]
    OBVIOUS
  <2>4. PICK a \in [state : AttemptStates, age : 0 .. OldAge \cup {Null}] :
          /\ a = attempts[t][p]
          /\ attempts'[t][p] = IF a = [state |-> "broadcast", age |-> Null] THEN [a EXCEPT !.age = lag] ELSE a
    BY <2>1, <2>2
  <2>5. a.state = "broadcast" /\ a.age = Null => a = [state |-> "broadcast", age |-> Null]
    OBVIOUS
  <2>6. a.age # Null => a # [state |-> "broadcast", age |-> Null]
    OBVIOUS
  <2>7. QED
    BY <2>4, <2>5, <2>6
<1>3. lag \in Nat /\ MaxLag \in Nat
  BY DEF TypeOK, TxManagerAssumption
<1>4. Core'
  BY <1>1, CoreIf
<1>5. Events' = Events /\ Slack' = Slack /\ Events <= Events'
  <2>1. Events' = Events /\ Slack' = Slack /\ Events \in Nat
    BY <1>1, SlackIs DEF Events, Slack
  <2>2. QED
    BY <2>1
<1>6. ReceiptsHeld'
  BY <1>1 DEF ReceiptsHeld, TypeOK
<1>7. NoneLeftOver'
  BY <1>1 DEF NoneLeftOver, AttemptInProgress
<1>8. BlocksKnown'
  BY <1>1, <1>5, BlocksKnownKept
<1>9. ReapedIsDeep'
  BY <1>1 DEF ReapedIsDeep
<1>10. AllInTime'
  <2>1. SUFFICES ASSUME NEW t \in Txs, Behind(t)' PROVE InTime(t)'
    BY DEF AllInTime
  <2>2. Behind(t) /\ etx[t].state \in Waiting
    BY <1>1, <2>1 DEF Behind, Above, Waiting
  <2>3. InTime(t)
    BY <2>2 DEF AllInTime
  <2>4. ASSUME NEW j \in Int, NEW k \in Nat, j <= k, Fresh(t, j) PROVE Fresh(t, k)'
    <3>1. PICK p \in Prices : /\ attempts[t][p].state \in {"broadcast", "in_progress"}
                              /\ attempts[t][p].age # Null => attempts[t][p].age - lag <= j
      BY <2>4 DEF Fresh
    <3>2. attempts[t][p].state = "broadcast"
      BY <1>1, <2>2, <3>1 DEF NoneLeftOver, AttemptInProgress, Waiting
    <3>3. attempts[t][p].age \in Int
      BY DEF TypeOK, Null
    <3>4. attempts'[t][p].age # Null /\ attempts'[t][p].age - lag <= k
      BY <1>2, <1>3, <2>4, <3>1, <3>2, <3>3 DEF Null
    <3>5. QED
      BY <1>1, <3>1, <3>4 DEF Fresh
  <2>5. /\ Slack \in Nat /\ Events \in Nat
        /\ Events >= 1 => Slack - 2 * MaxLag \in Nat /\ Slack - MaxLag \in Nat
        /\ Slack - MaxLag \in Int /\ Slack - MaxLag <= Slack
    BY <1>3, SlackIs
  <2>6. Lost(t)' = Lost(t)
    BY <1>1 DEF Lost, Above
  <2>7. CASE Just(t)
    <3>1. PICK k \in Nat : k = Slack - 2 * MaxLag
      BY <2>5, <2>7 DEF Just
    <3>2. Fresh(t, k)'
      BY <2>4, <2>7, <3>1 DEF Just
    <3>3. k = Slack' - 2 * MaxLag
      BY <1>5, <3>1
    <3>4. Fresh(t, Slack - 2 * MaxLag)'
      BY <3>2, <3>3 DEF Fresh
    <3>5. Just(t)'
      BY <1>5, <2>7, <3>4 DEF Just
    <3>6. QED
      BY <3>5 DEF InTime
  <2>8. CASE Soon(t) /\ Events >= 1
    <3>1. PICK k \in Nat : k = Slack - MaxLag
      BY <2>5, <2>8
    <3>2. Fresh(t, k)'
      BY <2>4, <2>8, <3>1 DEF Soon
    <3>3. k = Slack' - MaxLag
      BY <1>5, <3>1
    <3>4. Fresh(t, Slack - MaxLag)'
      BY <3>2, <3>3 DEF Fresh
    <3>5. Soon(t)'
      BY <1>1, <2>6, <2>8, <3>4 DEF Soon
    <3>6. QED
      BY <3>5 DEF InTime
  <2>9. CASE Now(t) \/ (Soon(t) /\ ~(Events >= 1))
    <3>1. Lost(t) = {}
      BY <2>9 DEF Now, Soon, Lost, Above, BlocksKnown
    <3>2. \E j \in Int : j <= Slack /\ Fresh(t, j)
      BY <2>5, <2>9 DEF Now, Soon
    <3>3. PICK k \in Nat : k = Slack
      BY <2>5
    <3>4. Fresh(t, k)'
      BY <2>4, <3>2, <3>3
    <3>5. Fresh(t, Slack)'
      BY <1>5, <3>3, <3>4 DEF Fresh
    <3>6. Now(t)'
      BY <1>1, <2>6, <3>1, <3>5 DEF Now
    <3>7. QED
      BY <3>6 DEF InTime
  <2>10. QED
    BY <2>3, <2>7, <2>8, <2>9 DEF InTime
<1>11. QED
  BY <1>4, <1>6, <1>7, <1>8, <1>9, <1>10

\* a transaction whose nonce is below the chain's length has been carried out
LEMMA BelowIsOnChain ==
  ASSUME TxManagerAssumption, Inv, Core, NEW t \in Txs, etx[t].nonce \in Nat, etx[t].nonce < Len(mined)
  PROVE  etx[t].nonce + 1 \in DOMAIN mined /\ mined[etx[t].nonce + 1].tx = t
<1> DEFINE n == etx[t].nonce + 1
<1>1. n \in DOMAIN mined /\ n - 1 = etx[t].nonce
  BY MinedTyped DEF Inv
<1>2. mined[n].tx \in Txs /\ Claims(mined[n].tx, n - 1) /\ Claims(t, n - 1)
  BY <1>1, MinedBound DEF Claims
<1> HIDE DEF n
<1>3. mined[n].tx = t
  BY <1>1, <1>2 DEF Core, OneClaimant
<1>4. QED
  BY <1>1, <1>3 DEF n

\* without a fault, what still misses its receipt after this phase is on the chain
LEMMA MissingAnswered ==
  ASSUME TxManagerAssumption, Inv, Inv', Core, CheckConfirmedMissingReceipt
  PROVE  /\ faults <= faults'
         /\ \A t \in Txs : etx'[t].state = "confirmed_missing_receipt" /\ PricesOf(t) # {} /\ faults' = faults
              => OnChain(t)
<1> DEFINE S == MissingAttempts
<1>1. PICK answer : /\ Send(S, answer)
                    /\ etx' = [t \in Txs |->
                         IF \E a \in S : a.tx = t /\ answer[a].err # "nonce_too_low"
                         THEN [etx[t] EXCEPT !.state = "unconfirmed"] ELSE etx[t]]
  BY DEF CheckConfirmedMissingReceipt, MissingAttempts
<1>2. /\ S \in SUBSET Attempts /\ IsFiniteSet(S)
      /\ \A a \in S : etx[a.tx].nonce = a.nonce
      /\ \A t \in Txs : etx[t].state = "confirmed_missing_receipt" /\ PricesOf(t) # {} => \E a \in S : a.tx = t
  BY MissingSent
<1> HIDE DEF S
<1> DEFINE wrong == {a \in S : answer[a].faulty = 1}
<1>3. /\ faults' = faults + Cardinality(wrong) /\ faults \in Nat
      /\ \A a \in S : answer[a] \in Answer(a)
  BY <1>1 DEF Send, Inv, TypeOK, TxManagerAssumption
<1>4. wrong \subseteq S
  OBVIOUS
<1>5. IsFiniteSet(wrong) /\ Cardinality(wrong) \in Nat
  <2>1. IsFiniteSet(wrong)
    BY <1>2, <1>4, FS_Subset
  <2> HIDE DEF wrong
  <2>2. QED
    BY <2>1, FS_CardinalityType
<1>6. ASSUME faults' = faults, NEW a \in S PROVE answer[a].err = Verdict(a)
  <2>1. wrong = {}
    <3> HIDE DEF wrong
    <3>1. Cardinality(wrong) = 0
      BY <1>3, <1>5, <1>6
    <3>2. QED
      BY <1>5, <3>1, FS_EmptySet
  <2>2. answer[a].faulty # 1 /\ answer[a] \in Answer(a)
    BY <1>3, <1>6, <2>1
  <2>3. answer[a] = [err |-> Verdict(a), taken |-> (Verdict(a) = "ok"), faulty |-> 0]
    BY <2>2 DEF Answer
  <2>4. QED
    BY <2>3
<1>7. ASSUME NEW t \in Txs, etx'[t].state = "confirmed_missing_receipt", PricesOf(t) # {}, faults' = faults
      PROVE  OnChain(t)
  <2>1. etx[t] \in [state : EtxStates, nonce : Nat \cup {Null}]
    BY DEF Inv, TypeOK
  <2>2. /\ etx'[t] = IF \E a \in S : a.tx = t /\ answer[a].err # "nonce_too_low"
                     THEN [etx[t] EXCEPT !.state = "unconfirmed"] ELSE etx[t]
    BY <1>1
  <2>3. etx[t].state = "confirmed_missing_receipt" /\ \A a \in S : a.tx = t => answer[a].err = "nonce_too_low"
    BY <1>7, <2>1, <2>2
  <2>4. PICK a \in S : a.tx = t
    BY <1>2, <1>7, <2>3
  <2>5. Verdict(a) = "nonce_too_low" /\ a.nonce = etx[t].nonce /\ a.nonce \in Nat
    BY <1>2, <1>6, <1>7, <2>3, <2>4 DEF Attempts
  <2>6. a.nonce < Len(mined)
    BY <2>5 DEF Verdict
  <2>7. QED
    BY <2>5, <2>6, BelowIsOnChain DEF OnChain
<1>8. QED
  <2> HIDE DEF wrong
  <2>1. faults <= faults'
    BY <1>3, <1>5
  <2>2. QED
    BY <1>7, <2>1

LEMMA ForkCheckMissing ==
  ASSUME TxManagerAssumption, Inv, Inv', ForkInv, Kept', CheckConfirmedMissingReceipt
  PROVE  ForkInv'
<1> USE DEF Inv, ForkInv
<1>1. /\ \A a \in mempool' : \/ a \in mempool
                             \/ /\ Verdict(a) = "ok" /\ etx[a.tx].nonce = a.nonce
                                /\ a.tx \in Txs /\ a.price \in PricesOf(a.tx)
      /\ \A u \in Txs : \/ etx'[u] = etx[u]
                        \/ /\ etx[u].state = "confirmed_missing_receipt"
                           /\ etx'[u].state = "unconfirmed" /\ etx'[u].nonce = etx[u].nonce
      /\ UNCHANGED <<attempts, receipts, nextNonce, lag, mined, world, reorgs>>
      /\ phase' = "receipts" /\ phase = "missing_receipt"
  BY CheckMissingEffect
<1>2. \A a \in mempool' : \/ a \in mempool
                          \/ /\ Verdict(a) = "ok" /\ etx[a.tx].nonce = a.nonce
                             /\ attempts'[a.tx][a.price].state # "none"
  BY <1>1 DEF PricesOf, WithState
<1>3. Core'
  BY <1>1, <1>2, CoreIf
<1>4. faults <= faults' /\ Events <= Events'
  BY <1>1, MissingAnswered, EventsStay
<1>5. ReceiptsHeld'
  BY <1>1 DEF ReceiptsHeld, TypeOK
<1>6. NoneLeftOver'
  BY <1>1 DEF NoneLeftOver, AttemptInProgress, Waiting
<1>7. BlocksKnown'
  BY <1>1, <1>4, BlocksKnownKept
<1>8. ReapedIsDeep'
  BY <1>1 DEF ReapedIsDeep
<1>9. AllInTime'
  <2>1. SUFFICES ASSUME NEW t \in Txs, Behind(t)' PROVE InTime(t)'
    BY DEF AllInTime
  <2>2. Above(t)' = Above(t) /\ Lost(t)' = Lost(t)
    <3>1. \A r \in receipts : etx'[r.tx].nonce = etx[r.tx].nonce
      BY <1>1 DEF TypeOK
    <3>2. QED
      BY <1>1, <3>1 DEF Above, Lost
  <2>3. Behind(t)
    BY <1>1, <2>1, <2>2 DEF Behind
  <2>4. InTime(t)
    BY <2>3 DEF AllInTime
  <2>5. \A k \in Int : Fresh(t, k) => Fresh(t, k)'
    BY <1>1 DEF Fresh, Judged
  <2>6. CASE faults' # faults
    BY <1>1, <1>4, <2>4, <2>5, <2>6, EventsStay, InTimeAfterEvent
  <2>7. CASE faults' = faults
    <3>1. Events' = Events /\ Slack' = Slack
      BY <1>1, <2>7 DEF Events, Slack
    <3>2. /\ Fresh(t, Slack - 2 * MaxLag) => Fresh(t, Slack - 2 * MaxLag)'
          /\ Fresh(t, Slack - MaxLag) => Fresh(t, Slack - MaxLag)'
          /\ Fresh(t, Slack) => Fresh(t, Slack)'
      BY <1>1, <3>1 DEF Fresh, Judged
    <3>3. CASE Just(t)
      BY <3>1, <3>2, <3>3 DEF Just, InTime
    <3>4. CASE Soon(t)
      BY <1>1, <2>2, <3>2, <3>4 DEF Soon, InTime
    <3>5. CASE Now(t)
      <4>1. etx'[t].state = "confirmed_missing_receipt" => OnChain(t)
        <5>1. PricesOf(t) # {}
          BY <3>5 DEF Now, Fresh, PricesOf, WithState, AttemptStates
        <5>2. QED
          BY <2>7, <5>1, MissingAnswered
      <4>2. Now(t)'
        BY <1>1, <2>2, <3>2, <3>5, <4>1 DEF Now, OnChain
      <4>3. QED
        BY <4>2 DEF InTime
    <3>6. QED
      BY <2>4, <3>3, <3>4, <3>5 DEF InTime
  <2>8. QED
    BY <2>6, <2>7
<1>10. QED
  BY <1>3, <1>5, <1>6, <1>7, <1>8, <1>9

\* the chain carries out each transaction once, with the nonce the database has for it
LEMMA MinedOnce ==
  ASSUME TxManagerAssumption, Inv, Core, NEW m \in DOMAIN mined
  PROVE  /\ m \in Nat /\ m <= Len(mined) /\ Len(mined) \in Nat /\ mined[m].tx \in Txs /\ mined[m].price \in Prices
         /\ etx[mined[m].tx].state # "reaped" => etx[mined[m].tx].nonce = m - 1
         /\ \A n \in DOMAIN mined : mined[n].tx = mined[m].tx => n = m
<1>1. /\ DOMAIN mined = 1 .. Len(mined) /\ Len(mined) \in Nat
      /\ \A n \in DOMAIN mined : n - 1 \in Nat /\ mined[n].tx \in Txs /\ Claims(mined[n].tx, n - 1)
      /\ mined[m].price \in Prices
  BY MinedTyped, MinedBound DEF Inv, Blocks
<1>2. ASSUME NEW n \in DOMAIN mined, mined[n].tx = mined[m].tx PROVE n = m
  <2> DEFINE t == mined[m].tx
             i == n - 1
             j == m - 1
  <2>1. t \in Txs /\ i \in Nat /\ j \in Nat /\ Claims(t, i) /\ Claims(t, j)
    BY <1>1, <1>2
  <2>2. t <= t
    BY <2>1 DEF Txs
  <2> HIDE DEF t, i, j
  <2>3. i <= j /\ j <= i
    BY <2>1, <2>2 DEF Inv, NoncesInv, ClaimsInOrder
  <2>4. i = j
    BY <2>1, <2>3
  <2>5. QED
    BY <1>1, <2>4 DEF i, j
<1>3. etx[mined[m].tx].state # "reaped" => etx[mined[m].tx].nonce = m - 1
  BY DEF Core, ChainSaved, Saved
<1>4. QED
  BY <1>1, <1>2, <1>3

\* where no node hides a receipt, all that are asked for are found
LEMMA ReceiptsSaved ==
  ASSUME TxManagerAssumption, Inv, CheckForReceipts, "noreceipt" \notin world.kinds
  PROVE  /\ faults' = faults
         /\ receipts' = receipts \cup
              {[tx |-> mined[n].tx, price |-> mined[n].price, age |-> mined[n].age, chain |-> "longest"] :
                 n \in RequiringReceiptFetch}
         /\ \A n \in RequiringReceiptFetch :
              etx'[mined[n].tx].state = "confirmed" /\ attempts'[mined[n].tx][mined[n].price].state = "broadcast"
         /\ \A u \in Txs : \/ etx'[u] = etx[u]
                           \/ /\ etx[u].state \in Waiting /\ etx'[u].state = "confirmed"
                              /\ etx'[u].nonce = etx[u].nonce
                              /\ \E n \in RequiringReceiptFetch : mined[n].tx = u
         /\ \A t \in Txs, p \in Prices :
              \/ attempts'[t][p] = attempts[t][p]
              \/ attempts'[t][p].state = "broadcast" /\ \E n \in RequiringReceiptFetch : mined[n].tx = t
<1> DEFINE Req == RequiringReceiptFetch
<1>1. /\ faults' = faults /\ saveFetchedReceipts(Req)
  BY DEF CheckForReceipts, Fault
<1>2. \A n \in Req : /\ n \in DOMAIN mined /\ mined[n].tx \in Txs /\ mined[n].price \in Prices
                     /\ etx[mined[n].tx].state \in Waiting
  BY MinedTyped DEF RequiringReceiptFetch, Waiting, Inv, Blocks
<1> HIDE DEF Req
<1> DEFINE found(t, p) == {n \in Req : mined[n].tx = t /\ mined[n].price = p}
<1>3. /\ receipts' = receipts \cup
           {[tx |-> mined[n].tx, price |-> mined[n].price, age |-> mined[n].age, chain |-> "longest"] : n \in Req}
      /\ attempts' = [t \in Txs |-> [p \in Prices |->
           IF found(t, p) = {} THEN attempts[t][p]
           ELSE [state |-> "broadcast",
                 age |-> IF attempts[t][p].age # Null THEN attempts[t][p].age
                         ELSE mined[CHOOSE n \in found(t, p) : TRUE].age]]]
      /\ etx' = [t \in Txs |-> IF \E p \in Prices : found(t, p) # {}
                               THEN [etx[t] EXCEPT !.state = "confirmed"] ELSE etx[t]]
  BY <1>1 DEF saveFetchedReceipts
<1>4. \A t \in Txs, p \in Prices :
        /\ found(t, p) = {} => attempts'[t][p] = attempts[t][p]
        /\ found(t, p) # {} => attempts'[t][p].state = "broadcast"
  <2> HIDE DEF found
  <2>1. QED
    BY <1>3
<1>5. ASSUME NEW u \in Txs
      PROVE  /\ (\E n \in Req : mined[n].tx = u) =>
                  etx'[u].state = "confirmed" /\ etx'[u].nonce = etx[u].nonce
             /\ (~\E n \in Req : mined[n].tx = u) => etx'[u] = etx[u]
  <2>1. etx[u] \in [state : EtxStates, nonce : Nat \cup {Null}]
    BY DEF Inv, TypeOK
  <2>2. (\E p \in Prices : found(u, p) # {}) <=> \E n \in Req : mined[n].tx = u
    BY <1>2
  <2>3. etx'[u] = IF \E n \in Req : mined[n].tx = u THEN [etx[u] EXCEPT !.state = "confirmed"] ELSE etx[u]
    BY <1>3, <2>2
  <2>4. QED
    BY <2>1, <2>3
<1>6. \A n \in Req : attempts'[mined[n].tx][mined[n].price].state = "broadcast"
  BY <1>2, <1>4
<1>7. \A t \in Txs, p \in Prices :
        \/ attempts'[t][p] = attempts[t][p]
        \/ attempts'[t][p].state = "broadcast" /\ \E n \in Req : mined[n].tx = t
  BY <1>4
<1>8. \A n \in Req : etx'[mined[n].tx].state = "confirmed"
  BY <1>2, <1>5
<1>9. \A u \in Txs : \/ etx'[u] = etx[u]
                     \/ /\ etx[u].state \in Waiting /\ etx'[u].state = "confirmed"
                        /\ etx'[u].nonce = etx[u].nonce
                        /\ \E n \in Req : mined[n].tx = u
  BY <1>2, <1>5
<1>10. receipts' = receipts \cup
         {[tx |-> mined[n].tx, price |-> mined[n].price, age |-> mined[n].age, chain |-> "longest"] : n \in Req}
  BY <1>3
<1> HIDE DEF found
<1>11. QED
  BY <1>1, <1>6, <1>7, <1>8, <1>9, <1>10 DEF Req

(***************************************************************************)
(* The receipts are fetched.  What is behind still has a nonce beyond the  *)
(* chain: so no receipt that is put back now is above it, and it was not   *)
(* promised one in this round.                                             *)
(***************************************************************************)
LEMMA ForkCheckReceipts ==
  ASSUME TxManagerAssumption, Inv, Inv', ForkInv, Kept', Forking, CheckForReceipts
  PROVE  ForkInv'
<1> USE DEF Inv, ForkInv
<1> DEFINE Req == RequiringReceiptFetch
           new(n) == [tx |-> mined[n].tx, price |-> mined[n].price, age |-> mined[n].age, chain |-> "longest"]
<1>1. /\ faults' = faults
      /\ receipts' = receipts \cup {new(n) : n \in Req}
      /\ \A n \in Req :
           etx'[mined[n].tx].state = "confirmed" /\ attempts'[mined[n].tx][mined[n].price].state = "broadcast"
      /\ \A u \in Txs : \/ etx'[u] = etx[u]
                        \/ /\ etx[u].state \in Waiting /\ etx'[u].state = "confirmed"
                           /\ etx'[u].nonce = etx[u].nonce
                           /\ \E n \in Req : mined[n].tx = u
      /\ \A t \in Txs, p \in Prices :
           \/ attempts'[t][p] = attempts[t][p]
           \/ attempts'[t][p].state = "broadcast" /\ \E n \in Req : mined[n].tx = t
  BY ReceiptsSaved DEF Forking
<1>2. /\ UNCHANGED <<nextNonce, lag, mined, mempool, world, reorgs>>
      /\ phase = "receipts" /\ phase' \in {"mark_missing", "in_progress"}
  BY CheckReceiptsEffect
<1>3. \A n \in Req : n \in DOMAIN mined /\ etx[mined[n].tx].state \in Waiting
  BY DEF RequiringReceiptFetch, Waiting
<1>4. \A n \in DOMAIN mined :
        /\ n \in Nat /\ n <= Len(mined) /\ Len(mined) \in Nat /\ mined[n].tx \in Txs
        /\ etx[mined[n].tx].state # "reaped" => etx[mined[n].tx].nonce = n - 1
        /\ \A m \in DOMAIN mined : mined[m].tx = mined[n].tx => m = n
  BY MinedOnce
<1> HIDE DEF Req
<1>5. \A r \in receipts' : r \in receipts \/ \E n \in Req : r = new(n)
  BY <1>1
<1>6. \A n \in Req : /\ new(n) \in receipts' /\ new(n).tx = mined[n].tx /\ new(n).price = mined[n].price
                     /\ new(n).age = mined[n].age /\ new(n).chain = "longest"
  BY <1>1
<1> HIDE DEF new
<1>7. \A r \in receipts : r \in receipts' /\ r.tx \in Txs /\ r.price \in Prices
  <2>1. \A r \in receipts : r \in receipts'
    BY <1>1
  <2>2. \A r \in receipts : r.tx \in Txs /\ r.price \in Prices
    BY DEF TypeOK
  <2>3. QED
    BY <2>1, <2>2
<1>8. Core'
  <2>1. \A u \in Txs : /\ etx'[u].nonce = etx[u].nonce
                       /\ \/ etx'[u].state = etx[u].state
                          \/ /\ etx[u].state \notin {"in_progress", "reaped"}
                             /\ etx'[u].state \notin {"in_progress", "reaped"}
    BY <1>1 DEF Waiting
  <2>2. \A t \in Txs, p \in Prices : attempts[t][p].state # "none" => attempts'[t][p].state # "none"
    BY <1>1
  <2>3. QED
    BY <1>2, <2>1, <2>2, CoreIf
<1>9. ReceiptsHeld'
  <2>1. \A r \in receipts' : etx'[r.tx].state = "confirmed" /\ attempts'[r.tx][r.price].state = "broadcast"
    <3>1. ASSUME NEW r \in receipts PROVE etx'[r.tx].state = "confirmed" /\ attempts'[r.tx][r.price].state = "broadcast"
      BY <1>1, <1>7 DEF ReceiptsHeld
    <3>2. QED
      BY <1>1, <1>5, <1>6, <3>1
  <2>2. \A r, q \in receipts' : r.tx = q.tx => r = q
    <3>1. SUFFICES ASSUME NEW r \in receipts', NEW q \in receipts', r.tx = q.tx PROVE r = q
      OBVIOUS
    <3>2. CASE r \in receipts /\ q \in receipts
      BY <3>1, <3>2 DEF ReceiptsHeld
    <3>3. ASSUME NEW m \in Req, NEW n \in Req, mined[m].tx = mined[n].tx PROVE m = n
      BY <1>3, <1>4, <3>3
    <3>4. ASSUME NEW n \in Req, NEW s \in receipts PROVE mined[n].tx # s.tx
      BY <1>3 DEF ReceiptsHeld, Waiting
    <3>5. QED
      BY <1>5, <1>6, <3>1, <3>2, <3>3, <3>4
  <2>3. ASSUME NEW t \in Txs, etx'[t].state = "confirmed" PROVE \E r \in receipts' : r.tx = t
    <3>1. CASE \E n \in Req : mined[n].tx = t
      BY <1>6, <3>1
    <3>2. CASE ~\E n \in Req : mined[n].tx = t
      BY <1>1, <1>7, <2>3, <3>2 DEF ReceiptsHeld
    <3>3. QED
      BY <3>1, <3>2
  <2>4. QED
    BY <2>1, <2>2, <2>3 DEF ReceiptsHeld
<1>10. NoneLeftOver'
  <2>1. ASSUME NEW t \in Txs, NEW p \in Prices
        PROVE  /\ attempts'[t][p].state # "insufficient_eth"
               /\ AttemptInProgress(t, p)' => etx'[t].state = "in_progress"
    <3>1. attempts[t][p].state # "insufficient_eth" /\ (AttemptInProgress(t, p) => etx[t].state = "in_progress")
      BY <1>2 DEF NoneLeftOver
    <3>2. QED
      BY <1>1, <3>1 DEF AttemptInProgress, Waiting
  <2>2. QED
    BY <2>1 DEF NoneLeftOver
<1>11. Events' = Events /\ Slack' = Slack
  BY <1>1, <1>2 DEF Events, Slack
<1>12. BlocksKnown'
  <2>1. SUFFICES ASSUME NEW r \in receipts'
                 PROVE  /\ r.chain = "longest" => \E n \in DOMAIN mined : mined[n].tx = r.tx /\ mined[n].age = r.age
                        /\ r.chain = "head" => r.age <= ReorgDepth - 1 + lag
                        /\ r.chain = "orphaned" => r.age <= ReorgDepth - 1 + lag + MaxLag
                        /\ r.chain # "longest" => Events >= 1
    BY <1>2, <1>11 DEF BlocksKnown
  <2>2. CASE r \in receipts
    BY <1>2, <2>2 DEF BlocksKnown
  <2>3. CASE r \notin receipts
    BY <1>3, <1>5, <1>6, <2>3
  <2>4. QED
    BY <2>2, <2>3
<1>13. ReapedIsDeep'
  BY <1>1, <1>2 DEF ReapedIsDeep
<1>14. AllInTime'
  <2>1. SUFFICES ASSUME NEW t \in Txs, Behind(t)' PROVE InTime(t)'
    BY DEF AllInTime
  <2>2. etx'[t].state \in Waiting
    BY <2>1 DEF Behind, Waiting
  <2>3. \A n \in Req : mined[n].tx # t
    BY <1>1, <2>2 DEF Waiting
  <2>4. etx'[t] = etx[t] /\ \A p \in Prices : attempts'[t][p] = attempts[t][p]
    BY <1>1, <2>3
  <2>5. etx[t].nonce \in Nat
    BY <2>2, <2>4 DEF TypeOK, RowsInv, RowOK, Later, Waiting
  <2>6. ~(etx[t].nonce < Len(mined))
    <3>1. \A p \in Prices : attempts[t][p].state # "insufficient_eth"
      BY DEF NoneLeftOver
    <3>2. QED
      BY <2>2, <2>3, <2>4, <3>1, Fetched DEF Req, Waiting
  <2>7. ASSUME NEW r \in Above(t)' PROVE r \in Above(t)
    <3>1. r \in receipts' /\ etx'[r.tx].nonce > etx[t].nonce
      BY <2>4 DEF Above
    <3>2. CASE r \in receipts
      BY <1>1, <1>7, <2>4, <3>1, <3>2 DEF Above
    <3>3. ASSUME NEW n \in Req, r = new(n) PROVE FALSE
      <4>1. n \in DOMAIN mined /\ etx[mined[n].tx].nonce = n - 1 /\ n <= Len(mined) /\ n \in Nat /\ Len(mined) \in Nat
        BY <1>3, <1>4, <3>3 DEF Waiting
      <4>2. etx'[mined[n].tx].nonce = n - 1
        BY <1>1, <1>4, <4>1
      <4>3. n - 1 > etx[t].nonce
        BY <1>6, <3>1, <3>3, <4>2
      <4>4. QED
        BY <2>5, <2>6, <4>1, <4>3
    <3>4. QED
      BY <1>5, <3>1, <3>2, <3>3
  <2>8. \A r \in Lost(t)' : r \in Lost(t)
    BY <2>7 DEF Lost
  <2>9. InTime(t)
    <3>1. Behind(t)
      BY <2>1, <2>4, <2>7 DEF Behind
    <3>2. QED
      BY <3>1 DEF AllInTime
  <2>10. /\ Fresh(t, Slack - 2 * MaxLag) => Fresh(t, Slack - 2 * MaxLag)'
         /\ Fresh(t, Slack - MaxLag) => Fresh(t, Slack - MaxLag)'
    BY <1>2, <1>11, <2>4 DEF Fresh, Judged
  <2>11. CASE Just(t)
    BY <1>11, <2>10, <2>11 DEF Just, InTime
  <2>12. CASE Soon(t)
    <3>1. Soon(t)'
      BY <1>2, <2>8, <2>10, <2>12 DEF Soon
    <3>2. QED
      BY <3>1 DEF InTime
  <2>13. CASE Now(t)
    <3>1. ~OnChain(t)
      <4>1. SUFFICES ASSUME NEW n \in DOMAIN mined, mined[n].tx = t PROVE FALSE
        BY DEF OnChain
      <4>2. etx[t].nonce = n - 1 /\ n <= Len(mined) /\ n \in Nat /\ Len(mined) \in Nat
        BY <1>4, <2>2, <2>4, <4>1 DEF Waiting
      <4>3. QED
        BY <2>6, <4>2
    <3>2. etx[t].state = "unconfirmed"
      BY <1>2, <2>2, <2>4, <2>13, <3>1 DEF Now, Waiting
    <3>3. PICK r \in Above(t) : TRUE
      BY <2>1, <2>4, <2>7, <3>2 DEF Behind
    <3>4. r.chain = "longest" /\ r \in receipts /\ etx[r.tx].nonce > etx[t].nonce
      BY <2>13, <3>3 DEF Now, Lost, Above
    <3>5. PICK n \in DOMAIN mined : mined[n].tx = r.tx
      BY <3>4 DEF BlocksKnown
    <3>6. etx[r.tx].nonce = n - 1 /\ n <= Len(mined) /\ n \in Nat /\ Len(mined) \in Nat
      BY <1>4, <3>4, <3>5 DEF ReceiptsHeld
    <3>7. QED
      BY <2>5, <2>6, <3>4, <3>6
  <2>14. QED
    BY <2>9, <2>11, <2>12, <2>13 DEF InTime
<1>15. QED
  BY <1>8, <1>9, <1>10, <1>12, <1>13, <1>14

\* what is marked as missing its receipt is below a receipt already
LEMMA ForkMarkMissing ==
  ASSUME TxManagerAssumption, Inv, Inv', ForkInv, Kept', markAllConfirmedMissingReceipt
  PROVE  ForkInv'
<1> USE DEF Inv, ForkInv
<1>1. /\ \A u \in Txs :
           \/ etx'[u] = etx[u]
           \/ /\ etx[u].state = "unconfirmed"
              /\ \E v \in Txs : etx[v].state = "confirmed" /\ etx[u].nonce < etx[v].nonce
              /\ etx'[u].state = "confirmed_missing_receipt" /\ etx'[u].nonce = etx[u].nonce
      /\ UNCHANGED <<attempts, receipts, nextNonce, lag, mined, mempool, world, faults, reorgs>>
      /\ phase = "mark_missing" /\ phase' = "mark_old"
  BY MarkEffect DEF markAllConfirmedMissingReceipt
<1>2. Core'
  BY <1>1, CoreIf
<1>3. Events' = Events /\ Slack' = Slack /\ Events <= Events'
  <2>1. Events' = Events /\ Slack' = Slack /\ Events \in Nat
    BY <1>1, SlackIs DEF Events, Slack
  <2>2. QED
    BY <2>1
<1>4. ReceiptsHeld'
  BY <1>1 DEF ReceiptsHeld, TypeOK
<1>5. NoneLeftOver'
  BY <1>1 DEF NoneLeftOver, AttemptInProgress, Waiting
<1>6. BlocksKnown'
  BY <1>1, <1>3, BlocksKnownKept
<1>7. ReapedIsDeep'
  BY <1>1 DEF ReapedIsDeep
<1>8. AllInTime'
  <2>1. SUFFICES ASSUME NEW t \in Txs, Behind(t)' PROVE InTime(t)'
    BY DEF AllInTime
  <2>2. Above(t)' = Above(t) /\ Lost(t)' = Lost(t)
    <3>1. \A r \in receipts : etx'[r.tx].nonce = etx[r.tx].nonce
      BY <1>1 DEF TypeOK
    <3>2. QED
      BY <1>1, <3>1 DEF Above, Lost
  <2>3. Behind(t)
    <3>1. CASE etx'[t] = etx[t]
      BY <2>1, <2>2, <3>1 DEF Behind
    <3>2. ASSUME etx[t].state = "unconfirmed", NEW v \in Txs,
                 etx[v].state = "confirmed" /\ etx[t].nonce < etx[v].nonce
          PROVE  Behind(t)
      <4>1. PICK r \in receipts : r.tx = v
        BY <3>2 DEF ReceiptsHeld
      <4>2. etx[v].nonce \in Int /\ etx[t].nonce \in Int
        BY DEF TypeOK, Null
      <4>3. r \in Above(t)
        BY <3>2, <4>1, <4>2 DEF Above
      <4>4. QED
        BY <3>2, <4>3 DEF Behind
    <3>3. QED
      BY <1>1, <3>1, <3>2
  <2>4. Just(t) \/ Soon(t)
    BY <1>1, <2>3 DEF AllInTime, InTime, Now
  <2>5. /\ Fresh(t, Slack - 2 * MaxLag) => Fresh(t, Slack - 2 * MaxLag)'
        /\ Fresh(t, Slack - MaxLag) => Fresh(t, Slack - MaxLag)'
    BY <1>1, <1>3 DEF Fresh, Judged
  <2>6. CASE Just(t)
    BY <1>3, <2>5, <2>6 DEF Just, InTime
  <2>7. CASE Soon(t)
    BY <1>1, <2>2, <2>5, <2>7 DEF Soon, InTime
  <2>8. QED
    BY <2>4, <2>6, <2>7
<1>9. QED
  BY <1>2, <1>4, <1>5, <1>6, <1>7, <1>8

\* nothing is given up: what misses its receipt was sent since the final blocks
LEMMA ForkMarkOld ==
  ASSUME TxManagerAssumption, Inv, Inv', ForkInv, Kept', Margins, markOldTxesMissingReceiptAsErrored
  PROVE  ForkInv'
<1> USE DEF Inv, ForkInv
<1>1. /\ UNCHANGED <<attempts, receipts, nextNonce, lag, mined, mempool, world, faults, reorgs>>
      /\ phase = "mark_old" /\ phase' = "in_progress"
      /\ \A t \in Txs : etx'[t] = IF etx[t].state = "confirmed_missing_receipt" /\ Expired(t)
                                  THEN [state |-> "fatal_error", nonce |-> Null] ELSE etx[t]
  BY MarkEffect DEF markOldTxesMissingReceiptAsErrored
<1>2. /\ Slack \in Nat /\ MaxLag \in Nat /\ lag \in Nat /\ FinalityDepth \in Nat
      /\ Slack - MaxLag <= FinalityDepth
  BY SlackIs DEF TxManagerAssumption
<1>3. ASSUME NEW t \in Txs, etx[t].state = "confirmed_missing_receipt" PROVE ~Expired(t)
  <2>1. Just(t) \/ Soon(t)
    BY <1>1, <1>3 DEF AllInTime, Behind, InTime, Now
  <2>2. Fresh(t, Slack - MaxLag)
    <3>1. Slack - 2 * MaxLag \in Int /\ Slack - MaxLag \in Int /\ Slack - 2 * MaxLag <= Slack - MaxLag
      BY <1>2
    <3>2. QED
      BY <2>1, <3>1, FreshMore DEF Just, Soon
  <2>3. PICK p \in Prices : attempts[t][p].age # Null /\ attempts[t][p].age - lag <= Slack - MaxLag
    BY <1>1, <2>2 DEF Fresh, Judged
  <2>4. attempts[t][p].age \in Int
    BY DEF TypeOK, Null
  <2>5. ~(attempts[t][p].age - lag > FinalityDepth)
    BY <1>2, <2>3, <2>4
  <2>6. QED
    BY <2>3, <2>5 DEF Expired
<1>4. \A t \in Txs : etx'[t] = etx[t]
  BY <1>1, <1>3
<1>5. Core'
  BY <1>1, <1>4, CoreIf
<1>6. Events' = Events /\ Slack' = Slack /\ Events <= Events'
  <2>1. Events' = Events /\ Slack' = Slack /\ Events \in Nat
    BY <1>1, SlackIs DEF Events, Slack
  <2>2. QED
    BY <2>1
<1>7. \A r \in receipts : r.tx \in Txs
  BY DEF TypeOK
<1>8. ReceiptsHeld'
  BY <1>1, <1>4, <1>7 DEF ReceiptsHeld
<1>9. NoneLeftOver'
  BY <1>1, <1>4 DEF NoneLeftOver, AttemptInProgress
<1>10. BlocksKnown'
  BY <1>1, <1>6, BlocksKnownKept
<1>11. ReapedIsDeep'
  BY <1>1, <1>4 DEF ReapedIsDeep
<1>12. AllInTime'
  <2>1. SUFFICES ASSUME NEW t \in Txs, Behind(t)' PROVE InTime(t)'
    BY DEF AllInTime
  <2>2. Above(t)' = Above(t) /\ Lost(t)' = Lost(t)
    BY <1>1, <1>4, <1>7 DEF Above, Lost
  <2>3. Just(t) \/ Soon(t)
    BY <1>1, <1>4, <2>1, <2>2 DEF Behind, AllInTime, InTime, Now
  <2>4. /\ Fresh(t, Slack - 2 * MaxLag) => Fresh(t, Slack - 2 * MaxLag)'
        /\ Fresh(t, Slack - MaxLag) => Fresh(t, Slack - MaxLag)'
    BY <1>1, <1>6 DEF Fresh, Judged
  <2>5. CASE Just(t)
    BY <1>6, <2>4, <2>5 DEF Just, InTime
  <2>6. CASE Soon(t)
    BY <1>1, <2>2, <2>4, <2>6 DEF Soon, InTime
  <2>7. QED
    BY <2>3, <2>5, <2>6
<1>13. QED
  BY <1>5, <1>8, <1>9, <1>10, <1>11, <1>12

(***************************************************************************)
(* What a reorganisation took off the chain goes back to the mempool: its  *)
(* receipt is dropped and its dearest attempt is sent again at the end of  *)
(* the round.                                                              *)
(***************************************************************************)
LEMMA ForkMarkForRebroadcast ==
  ASSUME TxManagerAssumption, Inv, Inv', ForkInv, Kept', NEW t \in Txs, markForRebroadcast(t)
  PROVE  ForkInv'
<1> USE DEF Inv, ForkInv
<1> DEFINE p == Highest(t)
<1>1. PICK r \in receipts : r.tx = t
  BY DEF markForRebroadcast, ReorgedOut
<1>2. etx[t].state = "confirmed" /\ attempts[t][p].state = "broadcast" /\ p \in Prices
  <2>1. etx[t].state = "confirmed" /\ attempts[t][r.price].state = "broadcast" /\ r.price \in Prices
    BY <1>1 DEF ReceiptsHeld, TypeOK
  <2>2. r.price \in PricesOf(t)
    BY <2>1 DEF PricesOf, WithState, AttemptStates
  <2>3. p \in PricesOf(t) /\ p \in Prices
    BY <2>2, HighestIs
  <2>4. attempts[t][p].state \in AttemptStates \ {"none"}
    BY <2>3 DEF PricesOf, WithState
  <2>5. attempts[t][p].state \notin {"insufficient_eth", "in_progress"}
    BY <2>1, <2>3 DEF NoneLeftOver, AttemptInProgress, Waiting
  <2>6. QED
    BY <2>1, <2>3, <2>4, <2>5 DEF AttemptStates
<1>3. /\ UNCHANGED <<nextNonce, lag, mined, mempool, world, faults, reorgs>>
      /\ phase = "reorgs" /\ phase' = "reorgs"
      /\ receipts' = {q \in receipts : q.tx # t}
      /\ etx' = [etx EXCEPT ![t].state = "unconfirmed"]
      /\ attempts' = [attempts EXCEPT ![t][p] = [state |-> "in_progress", age |-> Null]]
  BY <1>2 DEF markForRebroadcast, head, env
<1>4. /\ etx'[t].state = "unconfirmed" /\ etx'[t].nonce = etx[t].nonce
      /\ \A u \in Txs \ {t} : etx'[u] = etx[u] /\ attempts'[u] = attempts[u]
      /\ attempts'[t][p].state = "in_progress" /\ attempts'[t][p].age = Null
      /\ \A q \in Prices \ {p} : attempts'[t][q] = attempts[t][q]
  <2>1. /\ \A u \in Txs \ {t} : etx'[u] = etx[u] /\ attempts'[u] = attempts[u]
        /\ attempts'[t][p] = [state |-> "in_progress", age |-> Null]
        /\ \A q \in Prices \ {p} : attempts'[t][q] = attempts[t][q]
    <3> HIDE DEF p
    <3>1. QED
      BY <1>2, <1>3 DEF TypeOK
  <2>2. etx'[t].state = "unconfirmed" /\ etx'[t].nonce = etx[t].nonce
    BY <1>3 DEF TypeOK
  <2>3. QED
    BY <2>1, <2>2
<1> HIDE DEF p
<1>5. Core'
  <2>1. \A u \in Txs, q \in Prices : attempts[u][q].state # "none" => attempts'[u][q].state # "none"
    BY <1>2, <1>4
  <2>2. \A u \in Txs : /\ etx'[u].nonce = etx[u].nonce
                       /\ \/ etx'[u].state = etx[u].state
                          \/ /\ etx[u].state \notin {"in_progress", "reaped"}
                             /\ etx'[u].state \notin {"in_progress", "reaped"}
    BY <1>2, <1>4
  <2>3. QED
    BY <1>3, <2>1, <2>2, CoreIf
<1>6. Events <= Events'
  <2>1. Events' = Events /\ Events \in Nat
    BY <1>3, SlackIs DEF Events
  <2>2. QED
    BY <2>1
<1>7. \A q \in receipts' : q \in receipts /\ q.tx \in Txs \ {t} /\ etx'[q.tx] = etx[q.tx]
  BY <1>3, <1>4 DEF TypeOK
<1>8. ReceiptsHeld'
  <2>1. ASSUME NEW u \in Txs, etx'[u].state = "confirmed" PROVE \E q \in receipts' : q.tx = u
    <3>1. u # t /\ etx[u].state = "confirmed"
      BY <1>4, <2>1
    <3>2. PICK q \in receipts : q.tx = u
      BY <3>1 DEF ReceiptsHeld
    <3>3. QED
      BY <1>3, <3>1, <3>2
  <2>2. QED
    BY <1>4, <1>7, <2>1 DEF ReceiptsHeld
<1>9. NoneLeftOver'
  BY <1>3, <1>4 DEF NoneLeftOver, AttemptInProgress, Waiting
<1>10. BlocksKnown'
  <2>1. receipts' \subseteq receipts
    BY <1>7
  <2>2. QED
    BY <1>3, <1>6, <2>1, BlocksKnownKept
<1>11. ReapedIsDeep'
  BY <1>3, <1>4 DEF ReapedIsDeep
<1>12. AllInTime'
  <2>1. InTime(t)'
    BY <1>2, <1>3, <1>4, <1>10, InTimeWhenSent DEF Judged
  <2>2. ASSUME NEW u \in Txs \ {t}, Behind(u)' PROVE InTime(u)'
    <3>1. \A q \in receipts' : q \in receipts /\ etx'[q.tx].nonce = etx[q.tx].nonce
      BY <1>7
    <3>2. etx'[u] = etx[u] /\ attempts'[u] = attempts[u] /\ phase' = phase
      BY <1>3, <1>4
    <3>3. QED
      BY <1>3, <1>6, <2>2, <3>1, <3>2, InTimeElsewhere
  <2>3. QED
    BY <2>1, <2>2 DEF AllInTime
<1>13. QED
  BY <1>5, <1>8, <1>9, <1>10, <1>11, <1>12

(***************************************************************************)
(* The round ends.  A receipt of a block that was left would have been     *)
(* found if that block is no newer than the head, and is of a fork that    *)
(* the confirmer has not seen otherwise.                                   *)
(***************************************************************************)
LEMMA ForkEnsure ==
  ASSUME TxManagerAssumption, Inv, Inv', ForkInv, Kept', Margins, EnsureConfirmedTransactionsInLongestChain
  PROVE  ForkInv'
<1> USE DEF Inv, ForkInv
<1>1. /\ UNCHANGED <<etx, attempts, receipts, nextNonce, lag, mined, mempool, world, faults, reorgs>>
      /\ phase = "reorgs" /\ phase' \in {"idle", "last"}
      /\ \A t \in Txs : ~ReorgedOut(t)
      /\ phase' = "idle" => \A t \in Txs : ~HasInProgressAttempt(t)
  BY DEF EnsureConfirmedTransactionsInLongestChain, Enter, head
<1>2. /\ lag \in 0 .. MaxLag /\ MaxLag \in Nat \ {0} /\ ReorgDepth \in Nat
      /\ FinalityDepth \in Nat /\ HistoryDepth \in Nat /\ FinalityDepth <= HistoryDepth
      /\ ReorgDepth - 1 + 2 * MaxLag <= FinalityDepth
  BY DEF TypeOK, TxManagerAssumption, Margins
<1>3. Core'
  BY <1>1, CoreIf
<1>4. Events' = Events /\ Slack' = Slack
  BY <1>1 DEF Events, Slack
<1>5. ReceiptsHeld'
  BY <1>1 DEF ReceiptsHeld
<1>6. NoneLeftOver'
  <2>1. ASSUME NEW t \in Txs, NEW p \in Prices, AttemptInProgress(t, p), etx[t].state \in Waiting
        PROVE  phase' = "last"
    <3>1. HasInProgressAttempt(t)
      BY <2>1 DEF HasInProgressAttempt, WithState, AttemptInProgress, Waiting
    <3>2. QED
      BY <1>1, <3>1
  <2>2. \A t \in Txs, p \in Prices : AttemptInProgress(t, p) =>
          etx[t].state = "in_progress" \/ (etx[t].state \in Waiting /\ phase' = "last")
    BY <2>1 DEF NoneLeftOver
  <2>3. \A t \in Txs, p \in Prices : attempts[t][p].state # "insufficient_eth"
    BY DEF NoneLeftOver
  <2>4. QED
    BY <1>1, <2>2, <2>3 DEF NoneLeftOver, AttemptInProgress
\* it is the only receipt of its transaction, and would be one to go by
<1>7. ASSUME NEW r \in receipts, r.chain = "orphaned" PROVE r.age < lag
  <2>1. r.tx \in Txs /\ r.age \in Nat
    BY DEF TypeOK
  <2>2. etx[r.tx].state = "confirmed" /\ attempts[r.tx][r.price].state = "broadcast"
    BY DEF ReceiptsHeld
  <2>3. r.age <= ReorgDepth - 1 + lag + MaxLag
    BY <1>1, <1>7 DEF BlocksKnown
  <2>4. \A q \in receipts : q.tx = r.tx => q = r
    BY DEF ReceiptsHeld
  <2>5. ~InHead(r)
    BY <1>7 DEF InHead
  <2>6. ~(r.age - lag \in 0 .. HistoryDepth - 1)
    <3>1. ~ReorgedOut(r.tx)
      BY <1>1, <2>1
    <3>2. QED
      BY <2>2, <2>4, <2>5, <3>1 DEF ReorgedOut
  <2>7. QED
    BY <1>2, <2>1, <2>3, <2>6
<1>8. BlocksKnown'
  <2>1. SUFFICES ASSUME NEW r \in receipts
                 PROVE  /\ r.chain = "longest" => \E n \in DOMAIN mined : mined[n].tx = r.tx /\ mined[n].age = r.age
                        /\ r.chain = "head" => r.age <= ReorgDepth - 1 + lag
                        /\ r.chain = "orphaned" => r.age <= ReorgDepth - 1 + lag
                        /\ r.chain # "longest" => Events >= 1
    BY <1>1, <1>2, <1>4 DEF BlocksKnown
  <2>2. r.age \in Nat
    BY DEF TypeOK
  <2>3. r.chain = "orphaned" => r.age <= ReorgDepth - 1 + lag
    BY <1>2, <1>7, <2>2
  <2>4. QED
    BY <2>3 DEF BlocksKnown
<1>9. ReapedIsDeep'
  BY <1>1 DEF ReapedIsDeep

<1>10. AllInTime'
  <2>1. SUFFICES ASSUME NEW t \in Txs, Behind(t)' PROVE InTime(t)'
    BY DEF AllInTime
  <2>2. Above(t)' = Above(t) /\ Lost(t)' = Lost(t)
    BY <1>1 DEF Above, Lost
  <2>3. Just(t) \/ Soon(t)
    BY <1>1, <2>1, <2>2 DEF Behind, AllInTime, InTime, Now
  <2>4. /\ Fresh(t, Slack - 2 * MaxLag) => Fresh(t, Slack - 2 * MaxLag)'
        /\ Fresh(t, Slack - MaxLag) => Fresh(t, Slack - MaxLag)'
    BY <1>1, <1>4 DEF Fresh, Judged
  <2>5. CASE Just(t)
    BY <1>4, <2>4, <2>5 DEF Just, InTime
  <2>6. CASE Soon(t)
    <3>1. Lost(t) = {}
      <4>1. SUFFICES ASSUME NEW r \in Lost(t) PROVE FALSE
        OBVIOUS
      <4>2. r \in receipts /\ r.chain = "orphaned" /\ r.age >= lag /\ r.age \in Nat /\ lag \in Nat
        BY <1>2, <2>6 DEF Soon, Lost, Above, TypeOK
      <4>3. QED
        BY <1>7, <4>2
    <3>2. Soon(t)'
      BY <2>2, <2>4, <2>6, <3>1 DEF Soon
    <3>3. QED
      BY <3>2 DEF InTime
  <2>7. QED
    BY <2>3, <2>5, <2>6
<1>11. QED
  BY <1>3, <1>5, <1>6, <1>8, <1>9, <1>10

\* nothing is in progress any more
LEMMA ForkHeadDone ==
  ASSUME TxManagerAssumption, Inv, Inv', ForkInv, Kept', HeadDone
  PROVE  ForkInv'
<1> USE DEF Inv, ForkInv
<1>1. /\ UNCHANGED <<etx, attempts, receipts, nextNonce, lag, mined, mempool, world, faults, reorgs>>
      /\ phase = "last" /\ phase' = "idle" /\ \A t \in Txs : ~HasInProgressAttempt(t)
  BY DEF HeadDone, Enter, head
<1>2. Core'
  BY <1>1, CoreIf
<1>3. Events' = Events /\ Slack' = Slack /\ Events <= Events'
  <2>1. Events' = Events /\ Slack' = Slack /\ Events \in Nat
    BY <1>1, SlackIs DEF Events, Slack
  <2>2. QED
    BY <2>1
<1>4. ReceiptsHeld'
  BY <1>1 DEF ReceiptsHeld
<1>5. NoneLeftOver'
  <2>1. \A t \in Txs, p \in Prices : AttemptInProgress(t, p) => etx[t].state \notin Waiting
    BY <1>1 DEF HasInProgressAttempt, WithState, AttemptInProgress, Waiting
  <2>2. QED
    BY <1>1, <2>1 DEF NoneLeftOver, AttemptInProgress
<1>6. BlocksKnown'
  BY <1>1, <1>3, BlocksKnownKept
<1>7. ReapedIsDeep'
  BY <1>1 DEF ReapedIsDeep
<1>8. AllInTime'
  <2>1. SUFFICES ASSUME NEW t \in Txs, Behind(t)' PROVE InTime(t)'
    BY DEF AllInTime
  <2>2. Above(t)' = Above(t) /\ Lost(t)' = Lost(t)
    BY <1>1 DEF Above, Lost
  <2>3. Just(t) \/ Soon(t)
    BY <1>1, <2>1, <2>2 DEF Behind, AllInTime, InTime, Now
  <2>4. /\ Fresh(t, Slack - 2 * MaxLag) => Fresh(t, Slack - 2 * MaxLag)'
        /\ Fresh(t, Slack - MaxLag) => Fresh(t, Slack - MaxLag)'
    BY <1>1, <1>3 DEF Fresh, Judged
  <2>5. CASE Just(t)
    BY <1>3, <2>4, <2>5 DEF Just, InTime
  <2>6. CASE Soon(t)
    BY <1>1, <2>2, <2>4, <2>6 DEF Soon, InTime
  <2>7. QED
    BY <2>3, <2>5, <2>6
<1>9. QED
  BY <1>2, <1>4, <1>5, <1>6, <1>7, <1>8

(***************************************************************************)
(* A receipt from before the final blocks is of a block that is on the     *)
(* chain: those that were left are younger.                                *)
(***************************************************************************)
LEMMA FinalIsMined ==
  ASSUME TxManagerAssumption, TypeOK, BlocksKnown, Margins, NEW r \in receipts, Final(r)
  PROVE  r.chain = "longest" /\ \E n \in DOMAIN mined : mined[n].tx = r.tx /\ mined[n].age > FinalityDepth
<1>1. /\ lag \in 0 .. MaxLag /\ MaxLag \in Nat \ {0} /\ ReorgDepth \in Nat /\ FinalityDepth \in Nat
      /\ ReorgDepth - 1 + 2 * MaxLag <= FinalityDepth /\ r.age \in Nat /\ r.age > FinalityDepth
      /\ r.chain \in Chains
  BY DEF TypeOK, TxManagerAssumption, Margins, Final
<1>2. ~(r.age <= ReorgDepth - 1 + lag) /\ ~(r.age <= ReorgDepth - 1 + lag + MaxLag)
  BY <1>1
<1>3. r.chain # "head" /\ r.chain # "orphaned"
  BY <1>1, <1>2 DEF BlocksKnown
<1>4. QED
  BY <1>1, <1>3 DEF BlocksKnown, Chains

LEMMA ForkReap ==
  ASSUME TxManagerAssumption, Inv, Inv', ForkInv, Kept', Margins, NEW t \in Txs, ReapEthTxes(t)
  PROVE  ForkInv'
<1> USE DEF Inv, ForkInv
<1>1. /\ etx[t].state = "confirmed" /\ etx'[t].state = "reaped" /\ etx'[t].nonce = Null
      /\ \A p \in Prices : attempts'[t][p].state = "none"
      /\ \A u \in Txs \ {t} : etx'[u] = etx[u] /\ attempts'[u] = attempts[u]
      /\ UNCHANGED <<nextNonce, phase, lag, mined, mempool, world, faults, reorgs>>
      /\ receipts' = {r \in receipts : r.tx # t}
  <2>1. UNCHANGED <<faults, reorgs>> /\ receipts' = {r \in receipts : r.tx # t}
    BY DEF ReapEthTxes
  <2>2. QED
    BY <2>1, ReapEffect
<1>2. PICK r \in receipts : r.tx = t /\ Final(r)
  BY DEF ReapEthTxes
<1>3. PICK n \in DOMAIN mined : mined[n].tx = t /\ mined[n].age > FinalityDepth
  BY <1>2, FinalIsMined
<1>4. Core'
  <2>1. etx[t].nonce = n - 1 /\ n \in Nat /\ n <= Len(mined) /\ Len(mined) \in Nat
    BY <1>1, <1>3, MinedOnce
  <2>2. etx[t].nonce < Len(mined)
    BY <2>1
  <2>3. QED
    BY <2>2, CoreReap
<1>5. \A q \in receipts' : q \in receipts /\ q.tx \in Txs \ {t} /\ etx'[q.tx] = etx[q.tx] /\ attempts'[q.tx] = attempts[q.tx]
  BY <1>1 DEF TypeOK
<1>6. Events <= Events'
  <2>1. Events' = Events /\ Events \in Nat
    BY <1>1, SlackIs DEF Events
  <2>2. QED
    BY <2>1
<1>7. ReceiptsHeld'
  <2>1. ASSUME NEW u \in Txs, etx'[u].state = "confirmed" PROVE \E q \in receipts' : q.tx = u
    <3>1. u # t /\ etx[u].state = "confirmed"
      BY <1>1, <2>1
    <3>2. PICK q \in receipts : q.tx = u
      BY <3>1 DEF ReceiptsHeld
    <3>3. QED
      BY <1>1, <3>1, <3>2
  <2>2. QED
    BY <1>5, <2>1 DEF ReceiptsHeld
<1>8. NoneLeftOver'
  <2>1. \A u \in Txs \ {t}, p \in Prices :
          /\ attempts'[u][p].state # "insufficient_eth"
          /\ AttemptInProgress(u, p)' =>
               \/ etx'[u].state = "in_progress"
               \/ etx'[u].state \in Waiting /\ phase' \in {"reorgs", "last"}
    BY <1>1 DEF NoneLeftOver, AttemptInProgress
  <2>2. QED
    BY <1>1, <2>1 DEF NoneLeftOver, AttemptInProgress
<1>9. BlocksKnown'
  <2>1. receipts' \subseteq receipts
    BY <1>5
  <2>2. QED
    BY <1>1, <1>6, <2>1, BlocksKnownKept
<1>10. ReapedIsDeep'
  BY <1>1, <1>3 DEF ReapedIsDeep
<1>11. AllInTime'
  <2>1. ~Behind(t)'
    BY <1>1 DEF Behind
  <2>2. ASSUME NEW u \in Txs \ {t}, Behind(u)' PROVE InTime(u)'
    <3>1. \A q \in receipts' : q \in receipts /\ etx'[q.tx].nonce = etx[q.tx].nonce
      BY <1>5
    <3>2. etx'[u] = etx[u] /\ attempts'[u] = attempts[u] /\ phase' = phase
      BY <1>1
    <3>3. QED
      BY <1>1, <1>6, <2>2, <3>1, <3>2, InTimeElsewhere
  <2>3. QED
    BY <2>1, <2>2 DEF AllInTime
<1>12. QED
  BY <1>4, <1>7, <1>8, <1>9, <1>10, <1>11

(***************************************************************************)
(* A new head: everything is a block older, the confirmer one more head    *)
(* behind, so that no attempt is later by the confirmer's head; and what   *)
(* was in the blocks that were replaced is not on the chain by its         *)
(* receipt any more.                                                       *)
(***************************************************************************)
LEMMA OlderIs ==
  ASSUME TxManagerAssumption, NEW a \in 0 .. OldAge
  PROVE  /\ Older(a) \in Nat /\ a <= Older(a) /\ Older(a) <= a + 1
         /\ \A n \in Nat : n <= a /\ n < OldAge => n + 1 <= Older(a)
<1>1. OldAge \in Nat /\ a \in Nat /\ a <= OldAge
  BY DEF OldAge, TxManagerAssumption
<1>2. {a + 1, OldAge} \subseteq Int /\ {a + 1, OldAge} # {} /\ IsFiniteSet({a + 1, OldAge})
  <2>1. IsFiniteSet({a + 1}) /\ IsFiniteSet({OldAge})
    BY FS_Singleton
  <2>2. IsFiniteSet({a + 1} \cup {OldAge})
    BY <2>1, FS_Union
  <2>3. {a + 1} \cup {OldAge} = {a + 1, OldAge}
    OBVIOUS
  <2>4. QED
    BY <1>1, <2>2, <2>3
<1>3. Min({a + 1, OldAge}) \in {a + 1, OldAge} /\ Min({a + 1, OldAge}) <= a + 1 /\ Min({a + 1, OldAge}) <= OldAge
  BY <1>2, LeastExists
<1>4. Older(a) = Min({a + 1, OldAge})
  BY <1>1 DEF Older, Null
<1>5. Older(a) = a + 1 \/ (Older(a) = OldAge /\ OldAge <= a + 1)
  BY <1>3, <1>4
<1>6. QED
  BY ONLY <1>1, <1>5

LEMMA NewHeadRows ==
  ASSUME TxManagerAssumption, TypeOK, NEW depth \in Nat, NEW taken, NewHead(depth, taken)
  PROVE  /\ \A t \in Txs, p \in Prices :
              /\ attempts'[t][p].state = attempts[t][p].state
              /\ attempts[t][p].age = Null => attempts'[t][p].age = Null
              /\ attempts[t][p].age # Null =>
                   attempts'[t][p].age # Null /\ attempts'[t][p].age - (lag + 1) <= attempts[t][p].age - lag
         /\ \A r \in receipts' : \E q \in receipts :
              /\ r.tx = q.tx /\ r.price = q.price /\ r.age = Older(q.age)
              /\ \/ r.chain = q.chain /\ ~(q.chain = "longest" /\ q.age < depth)
                 \/ r.chain \in {"head", "orphaned"} /\ q.chain = "longest" /\ q.age < depth
         /\ \A q \in receipts : \E r \in receipts' : r.tx = q.tx
         /\ (\A r, q \in receipts : r.tx = q.tx => r = q) => (\A r, q \in receipts' : r.tx = q.tx => r = q)
<1> DEFINE link(r) == IF r.chain = "longest" /\ r.age < depth
                      THEN IF phase # "idle" /\ r.age >= common THEN "head" ELSE "orphaned"
                      ELSE r.chain
           next(r) == [r EXCEPT !.age = Older(r.age), !.chain = link(r)]
<1>1. /\ receipts' = {next(r) : r \in receipts}
      /\ attempts' = [t \in Txs |-> [p \in Prices |->
           [attempts[t][p] EXCEPT !.age = Older(attempts[t][p].age)]]]
  BY DEF NewHead
<1>2. ASSUME NEW t \in Txs, NEW p \in Prices
      PROVE  /\ attempts'[t][p].state = attempts[t][p].state
             /\ attempts[t][p].age = Null => attempts'[t][p].age = Null
             /\ attempts[t][p].age # Null =>
                  attempts'[t][p].age # Null /\ attempts'[t][p].age - (lag + 1) <= attempts[t][p].age - lag
  <2>1. attempts[t][p] \in [state : AttemptStates, age : 0 .. OldAge \cup {Null}] /\ lag \in Nat
    BY DEF TypeOK, TxManagerAssumption
  <2>2. attempts'[t][p] = [attempts[t][p] EXCEPT !.age = Older(attempts[t][p].age)]
    BY <1>1
  <2>3. attempts'[t][p].state = attempts[t][p].state /\ attempts'[t][p].age = Older(attempts[t][p].age)
    BY <2>1, <2>2
  <2>4. CASE attempts[t][p].age = Null
    BY <2>3, <2>4 DEF Older
  <2>5. CASE attempts[t][p].age # Null
    <3> DEFINE a == attempts[t][p].age
    <3>1. a \in 0 .. OldAge
      BY <2>1, <2>5
    <3> HIDE DEF a
    <3>2. Older(a) \in Nat /\ Older(a) <= a + 1 /\ a \in Nat
      BY <3>1, OlderIs DEF OldAge, TxManagerAssumption
    <3>3. Older(a) # Null /\ Older(a) - (lag + 1) <= a - lag
      BY <2>1, <3>2 DEF Null
    <3>4. QED
      BY <2>3, <2>5, <3>3 DEF a
  <2>6. QED
    BY <2>3, <2>4, <2>5
<1>3. ASSUME NEW q \in receipts
      PROVE  /\ next(q).tx = q.tx /\ next(q).price = q.price /\ next(q).age = Older(q.age)
             /\ \/ next(q).chain = q.chain /\ ~(q.chain = "longest" /\ q.age < depth)
                \/ next(q).chain \in {"head", "orphaned"} /\ q.chain = "longest" /\ q.age < depth
  <2>1. q \in [tx : Txs, price : Prices, age : 0 .. OldAge, chain : Chains]
    BY DEF TypeOK
  <2>2. /\ next(q).tx = q.tx /\ next(q).price = q.price /\ next(q).age = Older(q.age)
        /\ next(q).chain = link(q)
    <3> HIDE DEF link
    <3>1. QED
      BY <2>1
  <2>3. QED
    BY <2>2
<1> HIDE DEF next
<1>4. \A r \in receipts' : \E q \in receipts :
        /\ r.tx = q.tx /\ r.price = q.price /\ r.age = Older(q.age)
        /\ \/ r.chain = q.chain /\ ~(q.chain = "longest" /\ q.age < depth)
           \/ r.chain \in {"head", "orphaned"} /\ q.chain = "longest" /\ q.age < depth
  BY <1>1, <1>3
<1>5. \A q \in receipts : \E r \in receipts' : r.tx = q.tx
  BY <1>1, <1>3
<1>6. ASSUME \A r, q \in receipts : r.tx = q.tx => r = q, NEW r \in receipts', NEW q \in receipts', r.tx = q.tx
      PROVE  r = q
  <2>1. PICK r0 \in receipts : r = next(r0)
    BY <1>1
  <2>2. PICK q0 \in receipts : q = next(q0)
    BY <1>1
  <2>3. r0 = q0
    BY <1>3, <1>6, <2>1, <2>2
  <2>4. QED
    BY <2>1, <2>2, <2>3
<1>7. QED
  BY <1>2, <1>4, <1>5, <1>6

LEMMA ForkNewHead ==
  ASSUME TxManagerAssumption, Inv, Inv', ForkInv, Kept',
         NEW depth \in 0 .. ReorgDepth, NEW taken, NewHead(depth, taken)
  PROVE  ForkInv'
<1> USE DEF Inv, ForkInv
<1>1. /\ UNCHANGED <<etx, nextNonce, phase, world, faults>>
      /\ lag' = lag + 1 /\ lag < MaxLag /\ reorgs' = reorgs + (IF depth > 0 THEN 1 ELSE 0)
  BY DEF NewHead
<1>2. /\ depth \in Nat /\ depth <= ReorgDepth /\ ReorgDepth \in Nat /\ ReorgDepth <= FinalityDepth
      /\ FinalityDepth \in Nat /\ MaxLag \in Nat /\ lag \in Nat /\ HistoryDepth \in Nat
      /\ OldAge = HistoryDepth + MaxLag + 1
  BY DEF TxManagerAssumption, TypeOK, OldAge
<1>3. /\ \A t \in Txs, p \in Prices :
           /\ attempts'[t][p].state = attempts[t][p].state
           /\ attempts[t][p].age = Null => attempts'[t][p].age = Null
           /\ attempts[t][p].age # Null =>
                attempts'[t][p].age # Null /\ attempts'[t][p].age - (lag + 1) <= attempts[t][p].age - lag
      /\ \A r \in receipts' : \E q \in receipts :
           /\ r.tx = q.tx /\ r.price = q.price /\ r.age = Older(q.age)
           /\ \/ r.chain = q.chain /\ ~(q.chain = "longest" /\ q.age < depth)
              \/ r.chain \in {"head", "orphaned"} /\ q.chain = "longest" /\ q.age < depth
      /\ \A q \in receipts : \E r \in receipts' : r.tx = q.tx
      /\ (\A r, q \in receipts : r.tx = q.tx => r = q) => (\A r, q \in receipts' : r.tx = q.tx => r = q)
  BY <1>2, NewHeadRows
\* the blocks that stay
<1>4. PICK K \in 0 .. Len(mined) :
        /\ depth = 0 => K = Len(mined)
        /\ \A n \in DOMAIN mined : mined[n].age >= depth => n <= K
        /\ K <= Len(mined') /\ Len(mined') \in Nat
        /\ \A n \in 1 .. K : /\ mined'[n].tx = mined[n].tx /\ mined'[n].price = mined[n].price
                             /\ mined'[n].age = Older(mined[n].age)
  <2>1. depth \in Nat
    BY <1>2
  <2>2. QED
    BY ONLY TxManagerAssumption, Inv, NewHead(depth, taken), <2>1, NewHeadChain, Zenon
<1>5. /\ Len(mined) \in Nat /\ DOMAIN mined = 1 .. Len(mined) /\ DOMAIN mined' = 1 .. Len(mined')
      /\ \A n \in DOMAIN mined : mined[n].age \in 0 .. OldAge
  <2>1. mined' \in Seq(Blocks)
    BY <1>2, NewHeadChain
  <2>2. DOMAIN mined' = 1 .. Len(mined')
    BY ONLY <2>1, LenProperties, Zenon
  <2>3. QED
    BY <2>2, MinedTyped DEF Blocks
<1>6. ASSUME NEW n \in DOMAIN mined, mined[n].age >= depth \/ depth = 0
      PROVE  n \in DOMAIN mined' /\ mined'[n].tx = mined[n].tx /\ mined'[n].age = Older(mined[n].age)
  <2>0. PICK L \in Nat : L = Len(mined') /\ K <= L
    BY <1>4
  <2>1. n \in 1 .. K /\ n \in 1 .. Len(mined')
    <3>0. n \in 1 .. Len(mined)
      BY <1>5
    <3>1. n <= K
      <4>1. CASE mined[n].age >= depth
        BY <1>4, <4>1
      <4>2. CASE depth = 0
        <5>1. K = Len(mined)
          BY <1>4, <4>2
        <5>2. QED
          BY <3>0, <5>1
      <4>3. QED
        BY <1>6, <4>1, <4>2
    <3>2. n \in 1 .. K /\ n \in 1 .. L
      BY <1>5, <2>0, <3>0, <3>1
    <3>3. QED
      BY <2>0, <3>2
  <2>2. QED
    BY <1>4, <1>5, <2>1
<1>7. \A a \in 0 .. OldAge : /\ Older(a) \in Nat /\ a \in Nat /\ a <= Older(a) /\ Older(a) <= a + 1
                             /\ \A n \in Nat : n <= a /\ n < OldAge => n + 1 <= Older(a)
  BY <1>2, OlderIs
<1>8. /\ Events \in Nat /\ Events <= Events' /\ (depth > 0 => Events < Events') /\ Events' \in Nat
      /\ depth = 0 => Events' = Events
  <2>1. reorgs \in Nat /\ faults \in Nat
    BY DEF TypeOK, TxManagerAssumption
  <2>2. PICK e \in Nat : e = reorgs + faults + (IF depth > 0 THEN 1 ELSE 0)
    BY <2>1
  <2>3. e = Events'
    BY <1>1, <2>1, <2>2 DEF Events
  <2>4. Events = reorgs + faults
    BY DEF Events
  <2>5. e \in Nat /\ Events \in Nat /\ Events <= e /\ (depth > 0 => Events < e) /\ (depth = 0 => e = Events)
    BY <1>2, <2>1, <2>2, <2>4
  <2>6. QED
    BY <2>3, <2>5
<1>9. Core'
  <2>1. ASSUME NEW n \in DOMAIN mined, etx[mined[n].tx].state = "reaped" PROVE mined[n].age >= depth
    <3>1. mined[n].tx \in Txs
      BY MinedOnce
    <3>2. PICK m \in DOMAIN mined : mined[m].tx = mined[n].tx /\ mined[m].age > FinalityDepth
      BY <2>1, <3>1 DEF ReapedIsDeep
    <3>3. m = n
      BY <3>2, MinedOnce
    <3>4. mined[n].age \in Nat
      BY <1>5, <1>7
    <3>5. QED
      BY <1>2, <3>2, <3>3, <3>4
  <2>2. QED
    BY <2>1, CoreNewHead
<1>10. \A r \in receipts : r.tx \in Txs /\ r.price \in Prices /\ r.age \in 0 .. OldAge /\ r.chain \in Chains
  BY DEF TypeOK
<1>11. ReceiptsHeld'
  <2>1. \A r \in receipts' : etx'[r.tx].state = "confirmed" /\ attempts'[r.tx][r.price].state = "broadcast"
    BY <1>1, <1>3, <1>10 DEF ReceiptsHeld
  <2>2. \A r, q \in receipts' : r.tx = q.tx => r = q
    BY <1>3 DEF ReceiptsHeld
  <2>3. \A t \in Txs : etx'[t].state = "confirmed" => \E r \in receipts' : r.tx = t
    BY <1>1, <1>3 DEF ReceiptsHeld
  <2>4. QED
    BY <2>1, <2>2, <2>3 DEF ReceiptsHeld
<1>12. NoneLeftOver'
  BY <1>1, <1>3 DEF NoneLeftOver, AttemptInProgress
<1>13. BlocksKnown'
  <2>1. SUFFICES ASSUME NEW r \in receipts'
                 PROVE  /\ r.chain = "longest" =>
                             \E n \in DOMAIN mined' : mined'[n].tx = r.tx /\ mined'[n].age = r.age
                        /\ r.chain = "head" => r.age <= ReorgDepth - 1 + (lag + 1)
                        /\ r.chain = "orphaned" =>
                             r.age <= ReorgDepth - 1 + (lag + 1) + (IF phase \in {"idle", "last"} THEN 0 ELSE MaxLag)
                        /\ r.chain # "longest" => Events' >= 1
    BY <1>1 DEF BlocksKnown
  <2>2. PICK q \in receipts :
          /\ r.tx = q.tx /\ r.price = q.price /\ r.age = Older(q.age)
          /\ \/ r.chain = q.chain /\ ~(q.chain = "longest" /\ q.age < depth)
             \/ r.chain \in {"head", "orphaned"} /\ q.chain = "longest" /\ q.age < depth
    BY <1>3
  <2>3. q.age \in Nat /\ r.age \in Nat /\ r.age <= q.age + 1
    BY <1>7, <1>10, <2>2
  <2>4. CASE r.chain \in {"head", "orphaned"} /\ q.chain = "longest" /\ q.age < depth
    <3>1. r.age <= ReorgDepth
      BY <1>2, <2>3, <2>4
    <3>2. Events' >= 1
      BY <1>2, <1>8, <2>3, <2>4
    <3>3. QED
      BY <1>2, <2>3, <2>4, <3>1, <3>2
  <2>5. CASE r.chain = q.chain /\ ~(q.chain = "longest" /\ q.age < depth)
    <3>1. CASE q.chain = "longest"
      <4>1. PICK n \in DOMAIN mined : mined[n].tx = q.tx /\ mined[n].age = q.age
        BY <3>1 DEF BlocksKnown
      <4>2. mined[n].age >= depth
        BY <1>2, <2>3, <2>5, <3>1, <4>1
      <4>3. n \in DOMAIN mined' /\ mined'[n].tx = r.tx /\ mined'[n].age = r.age
        BY <1>6, <2>2, <4>1, <4>2
      <4>4. QED
        BY <2>5, <3>1, <4>3
    <3>2. CASE q.chain # "longest"
      <4>1. Events' >= 1
        BY <1>8, <3>2 DEF BlocksKnown
      <4>2. q.chain = "head" => q.age <= ReorgDepth - 1 + lag
        BY DEF BlocksKnown
      <4>3. q.chain = "orphaned" =>
              q.age <= ReorgDepth - 1 + lag + (IF phase \in {"idle", "last"} THEN 0 ELSE MaxLag)
        BY DEF BlocksKnown
      <4>4. QED
        BY <1>2, <2>3, <2>5, <3>2, <4>1, <4>2, <4>3
    <3>3. QED
      BY <3>1, <3>2
  <2>6. QED
    BY <2>2, <2>4, <2>5
<1>14. ReapedIsDeep'
  <2>1. SUFFICES ASSUME NEW t \in Txs, etx[t].state = "reaped"
                 PROVE  \E n \in DOMAIN mined' : mined'[n].tx = t /\ mined'[n].age > FinalityDepth
    BY <1>1 DEF ReapedIsDeep
  <2>2. PICK n \in DOMAIN mined : mined[n].tx = t /\ mined[n].age > FinalityDepth
    BY <2>1 DEF ReapedIsDeep
  <2>3. mined[n].age \in 0 .. OldAge
    BY <1>5
  <2>4. mined[n].age >= depth /\ Older(mined[n].age) > FinalityDepth
    <3>1. PICK a \in 0 .. OldAge : a = mined[n].age
      BY <2>3
    <3>2. a \in Nat /\ Older(a) \in Nat /\ a <= Older(a) /\ a > FinalityDepth
      BY <1>7, <2>2, <3>1
    <3>3. a >= depth /\ Older(a) > FinalityDepth
      BY <1>2, <3>2
    <3>4. QED
      BY <3>1, <3>3
  <2>5. QED
    BY <1>6, <2>2, <2>4
<1>15. AllInTime'
  <2>1. SUFFICES ASSUME NEW t \in Txs, Behind(t)' PROVE InTime(t)'
    BY DEF AllInTime
  <2>2. \A r \in Above(t)' : \E q \in Above(t) :
          /\ r.age = Older(q.age)
          /\ \/ r.chain = q.chain /\ ~(q.chain = "longest" /\ q.age < depth)
             \/ q.chain = "longest" /\ q.age < depth
    BY <1>1, <1>3 DEF Above
  <2>3. InTime(t)
    <3>1. Behind(t)
      BY <1>1, <2>1, <2>2 DEF Behind
    <3>2. QED
      BY <3>1 DEF AllInTime
  <2>4. ASSUME NEW k \in Int, Fresh(t, k) PROVE Fresh(t, k)'
    <3>1. PICK p \in Prices :
            /\ attempts[t][p].state \in {"broadcast", "in_progress"}
            /\ IF attempts[t][p].age = Null THEN phase \notin Judged ELSE attempts[t][p].age - lag <= k
      BY <2>4 DEF Fresh
    <3>2. attempts[t][p].age \in 0 .. OldAge \cup {Null} /\ attempts'[t][p].age \in 0 .. OldAge \cup {Null}
      BY DEF TypeOK
    <3>3. attempts[t][p].age \in Int /\ attempts'[t][p].age \in Int
      BY <1>2, <3>2 DEF Null
    <3>4. attempts[t][p].age # Null => attempts'[t][p].age - (lag + 1) <= k
      <4>1. PICK a \in Int : a = attempts'[t][p].age
        BY <3>3
      <4>2. attempts[t][p].age # Null => a - (lag + 1) <= attempts[t][p].age - lag /\ attempts[t][p].age - lag <= k
        BY <1>3, <3>1, <4>1
      <4>3. attempts[t][p].age # Null => a - (lag + 1) <= k
        BY <1>2, <3>3, <4>2
      <4>4. QED
        BY <4>1, <4>3
    <3>5. IF attempts'[t][p].age = Null THEN phase' \notin Judged ELSE attempts'[t][p].age - lag' <= k
      BY <1>1, <1>3, <3>1, <3>4
    <3>6. attempts'[t][p].state \in {"broadcast", "in_progress"}
      BY <1>3, <3>1
    <3>7. QED
      BY <3>5, <3>6 DEF Fresh
  <2>5. CASE depth > 0
    BY <1>8, <2>3, <2>4, <2>5, InTimeAfterEvent
  <2>6. CASE depth = 0
    <3>1. Events' = Events /\ Slack' = Slack
      <4>1. Events' = Events
        BY <1>8, <2>6
      <4>2. QED
        BY <4>1, SlackGrows
    <3>2. /\ Slack \in Int /\ Slack - 2 * MaxLag \in Int /\ Slack - MaxLag \in Int
      BY <1>2, SlackIs
    <3>3. /\ Fresh(t, Slack - 2 * MaxLag) => Fresh(t, Slack - 2 * MaxLag)'
          /\ Fresh(t, Slack - MaxLag) => Fresh(t, Slack - MaxLag)'
          /\ Fresh(t, Slack) => Fresh(t, Slack)'
      <4>1. \A j, k \in Int : j = k /\ Fresh(t, j) => Fresh(t, k)'
        BY <2>4
      <4>2. Slack' - 2 * MaxLag = Slack - 2 * MaxLag /\ Slack' - MaxLag = Slack - MaxLag
        BY <3>1
      <4>3. QED
        BY <3>1, <3>2, <4>1, <4>2 DEF Fresh
    <3>4. \A r \in Lost(t)' : \E q \in Lost(t) : r.age = Older(q.age) /\ r.chain = q.chain
      <4>1. SUFFICES ASSUME NEW r \in Lost(t)' PROVE \E q \in Lost(t) : r.age = Older(q.age) /\ r.chain = q.chain
        OBVIOUS
      <4>2. r \in Above(t)' /\ r.chain # "longest"
        BY DEF Lost
      <4>3. PICK q \in Above(t) : /\ r.age = Older(q.age)
                                  /\ r.chain = q.chain \/ (q.chain = "longest" /\ q.age < depth)
        BY <2>2, <4>2
      <4>4. q.age \in Nat
        BY <1>7, <1>10 DEF Above
      <4>5. QED
        BY <2>6, <4>2, <4>3, <4>4 DEF Lost
    <3>5. CASE Just(t)
      BY <3>1, <3>3, <3>5 DEF Just, InTime
    <3>6. CASE Soon(t)
      <4>1. ASSUME NEW r \in Lost(t)'
            PROVE  phase \notin {"idle", "last"} /\ r.chain = "orphaned" /\ r.age >= lag + 1
        <5>1. PICK q \in Lost(t) : r.age = Older(q.age) /\ r.chain = q.chain
          BY <3>4
        <5>2. q.age >= lag /\ q.chain = "orphaned" /\ phase \notin {"idle", "last"}
          BY <3>6 DEF Soon
        <5>3. q.age \in 0 .. OldAge
          BY <1>10 DEF Lost, Above
        <5>4. q.age \in Nat /\ Older(q.age) \in Nat /\ lag < OldAge
          <6>1. q.age \in Nat /\ lag < OldAge
            BY <1>1, <1>2, <1>7, <5>3
          <6>2. Older(q.age) \in Nat
            BY <1>2, <5>3, OlderTyped DEF OldAge
          <6>3. QED
            BY <6>1, <6>2
        <5>5. lag + 1 <= Older(q.age)
          BY <1>2, <1>7, <5>2, <5>3, <5>4
        <5>6. QED
          BY <1>2, <5>1, <5>2, <5>4, <5>5
      <4>2. Soon(t)'
        BY <1>1, <3>3, <3>6, <4>1 DEF Soon
      <4>3. QED
        BY <4>2 DEF InTime
    <3>7. CASE Now(t)
      <4>1. Lost(t)' = {}
        BY <3>4, <3>7 DEF Now
      <4>2. OnChain(t) => OnChain(t)'
        BY <1>6, <2>6 DEF OnChain
      <4>3. Now(t)'
        BY <1>1, <3>3, <3>7, <4>1, <4>2 DEF Now
      <4>4. QED
        BY <4>3 DEF InTime
    <3>8. QED
      BY <2>3, <3>5, <3>6, <3>7 DEF InTime
  <2>7. QED
    BY <1>2, <2>5, <2>6
<1>16. QED
  BY <1>9, <1>11, <1>12, <1>13, <1>14, <1>15

-----------------------------------------------------------------------------
ForkSafe == Forking /\ Margins => ForkInv

LEMMA ForkStep ==
  ASSUME TxManagerAssumption, Inv, Inv', ForkSafe, [Next]_vars
  PROVE  ForkSafe'
<1>1. world' = world
  BY WorldStays
<1>2. SUFFICES ASSUME Forking, Margins, ForkInv PROVE ForkInv'
  BY <1>1 DEF ForkSafe, Forking, Margins
<1>3. Kept'
  BY <1>2, KeptStep DEF ForkInv
<1>4. ASSUME NEW t \in Txs, CreateEthTransaction(t) \/ ReapEthTxes(t) PROVE ForkInv'
  BY <1>2, <1>3, <1>4, ForkCreate, ForkReap
<1>5. CASE Broadcaster
  BY <1>2, <1>3, <1>5, ForkSaveInProgress, ForkHandleInProgress DEF Broadcaster
<1>6. CASE TakeHead \/ SetBroadcastBeforeBlockNum \/ CheckConfirmedMissingReceipt \/ CheckForReceipts
  BY <1>2, <1>3, <1>6, ForkTakeHead, ForkSetBroadcastBefore, ForkCheckMissing, ForkCheckReceipts
<1>7. CASE \/ markAllConfirmedMissingReceipt \/ markOldTxesMissingReceiptAsErrored
           \/ handleAnyInProgressAttempts \/ rebroadcastWhereNecessary
  BY <1>2, <1>3, <1>7, ForkMarkMissing, ForkMarkOld, ForkHandleAny, ForkRebroadcastWhere
<1>8. ASSUME NEW t \in Txs, Rebroadcast(t) \/ markForRebroadcast(t) PROVE ForkInv'
  BY <1>2, <1>3, <1>8, ForkRebroadcast, ForkMarkForRebroadcast
<1>9. CASE EnsureConfirmedTransactionsInLongestChain \/ HeadDone
  BY <1>2, <1>3, <1>9, ForkEnsure, ForkHeadDone
<1>10. CASE ResendUnconfirmed \/ Evict \/ UNCHANGED vars
  BY <1>2, <1>3, <1>10, ForkResend, ForkEvict, ForkStutter
<1>11. CASE Stop
  BY <1>2, <1>11 DEF Stop, Fault, Forking
<1>12. CASE NewHead(0, {}) \/ Mine \/ Reorganise
  <2>1. PICK depth \in 0 .. ReorgDepth : \E taken : NewHead(depth, taken)
    BY <1>12, HeadStep
  <2>2. PICK taken : NewHead(depth, taken)
    BY <2>1
  <2>3. QED
    BY <1>2, <1>3, <2>2, ForkNewHead
<1>13. QED
  BY <1>4, <1>5, <1>6, <1>7, <1>8, <1>9, <1>10, <1>11, <1>12 DEF Next, ProcessHead

LEMMA ForkSafety == Spec => [](Inv /\ ForkSafe)
<1>1. Init => Inv /\ ForkSafe
  <2>1. SUFFICES ASSUME Init PROVE Inv /\ ForkInv
    BY DEF ForkSafe
  <2>2. Inv
    BY <2>1, InitInv, TxManagerAssumption
  <2>3. \A t \in Txs : etx[t].state = "none" /\ etx[t].nonce = Null /\ \A p \in Prices : attempts[t][p].state = "none"
    BY <2>1 DEF Init, NoAttempt
  <2>4. \A t \in Txs, n \in Nat : ~Claims(t, n)
    BY <2>1, <2>3 DEF Init, Claims, Null
  <2>5. Core /\ Kept
    BY <2>1, <2>3, <2>4 DEF Init, Core, PoolSaved, ChainSaved, OneClaimant, NonceHeld, Kept, Later
  <2>6. ReceiptsHeld /\ NoneLeftOver /\ BlocksKnown /\ ReapedIsDeep /\ AllInTime
    BY <2>1, <2>3 DEF Init, ReceiptsHeld, NoneLeftOver, AttemptInProgress, BlocksKnown, ReapedIsDeep, AllInTime, Behind
  <2>7. QED
    BY <2>2, <2>5, <2>6 DEF ForkInv
<1>2. (Inv /\ ForkSafe) /\ [Next]_vars => (Inv /\ ForkSafe)'
  BY NextInv, ForkStep, TxManagerAssumption
<1>3. QED
  BY <1>1, <1>2, PTL DEF Spec

(***************************************************************************)
(* However often the chain reorganises, whatever the mempool drops, and    *)
(* although nodes may answer "nonce too low" from the fork they are still  *)
(* on: while forks and lagging heads stay within the margins, no           *)
(* transaction that a node or the chain has is given up by the database    *)
(* (confirmed_missing_receipt becomes fatal_error) or forgotten off chain. *)
(***************************************************************************)
THEOREM ForkedWhatWasSentIsSaved == Spec => [](Forking /\ Margins => SentIsSaved)
<1>1. Inv /\ ForkSafe => (Forking /\ Margins => SentIsSaved)
  BY CoreSaves DEF ForkSafe, ForkInv
<1>2. QED
  BY <1>1, ForkSafety, PTL

(***************************************************************************)
(* In the same surroundings every nonce that was given out is on the chain *)
(* or held by exactly one transaction that the confirmer looks after, also *)
(* while a reorganisation takes nonces off the chain again.                *)
(***************************************************************************)
THEOREM ForkedNonceIsOnChainOrHeld == Spec => [](Forking /\ Margins => NoNonceGap)
<1>1. Inv /\ ForkSafe => (Forking /\ Margins => NoNonceGap)
  BY CoreLeavesNoGap DEF ForkSafe, ForkInv
<1>2. QED
  BY <1>1, ForkSafety, PTL

(***************************************************************************)
(* In the same surroundings what the reaper forgets is on the chain and    *)
(* stays there: no receipt it goes by is of a block that was left.         *)
(***************************************************************************)
THEOREM ForkedForgottenIsMined == Spec => [](Forking /\ Margins => ReapedIsMined)
<1>1. Inv /\ ForkSafe => (Forking /\ Margins => ReapedIsMined)
  BY DEF ForkSafe, ForkInv, ReapedIsDeep, ReapedIsMined, OnChain
<1>2. QED
  BY <1>1, ForkSafety, PTL

-----------------------------------------------------------------------------
(***************************************************************************)
(* What the confirmer gives up.  markOldTxesMissingReceiptAsErrored goes   *)
(* by the attempts whose block is known; a transaction whose dearest       *)
(* attempt was sent again, or was never sent, is given up by the age of    *)
(* its cheaper ones unless every attempt it has got a block in the same    *)
(* round.  That is so as long as no head is left half done, by a restart   *)
(* or an answer that is not understood, and no attempt is put off for want *)
(* of ether: whatever is marked for rebroadcast is sent before the head    *)
(* ends, and the next head begins by giving it a block.                    *)
(***************************************************************************)
RoundsEnd == world.kinds \cap {"stop", "unknown", "insufficient"} = {}

\* a row after its round: nothing is left in progress, and what has no attempt has no block
SentInRound(t) == \A p \in Prices :
  /\ attempts[t][p].state # "insufficient_eth"
  /\ attempts[t][p].state = "none" => attempts[t][p].age = Null
  /\ AttemptInProgress(t, p) =>
       etx[t].state = "in_progress" \/ (etx[t].state \in Waiting /\ phase \in {"reorgs", "last"})

\* while transactions are judged, the attempts of one have a block together
AgesTogether(t) == phase \in Judged /\ etx[t].state \in Waiting =>
  \A p, q \in PricesOf(t) : attempts[t][p].age = Null => attempts[t][q].age = Null

RoundInv ==
  /\ \A r \in receipts : etx[r.tx].state = "confirmed"
  /\ \A t \in Txs : SentInRound(t) /\ AgesTogether(t)

\* the rows of a transaction that a step leaves alone
LEMMA RoundKept ==
  ASSUME NEW t \in Txs, SentInRound(t), AgesTogether(t), etx'[t] = etx[t], attempts'[t] = attempts[t],
         phase' \in Judged => phase \in Judged,
         \/ phase \in {"reorgs", "last"} => phase' \in {"reorgs", "last"}
         \/ \A p \in Prices : AttemptInProgress(t, p) => etx[t].state = "in_progress"
  PROVE  SentInRound(t)' /\ AgesTogether(t)'
<1>1. SentInRound(t)'
  BY DEF SentInRound, AttemptInProgress
<1>2. AgesTogether(t)'
  BY DEF AgesTogether, PricesOf, WithState
<1>3. QED
  BY <1>1, <1>2

\* a transaction that no longer waits, or has a single attempt
LEMMA AlikeAlone ==
  ASSUME NEW t \in Txs, NEW p \in Prices, \A q \in Prices \ {p} : attempts[t][q].state = "none"
  PROVE  AgesTogether(t)
BY DEF AgesTogether, PricesOf, WithState

LEMMA RoundSame ==
  ASSUME RoundInv, UNCHANGED <<etx, attempts>>,
         \A r \in receipts' : \E q \in receipts : r.tx = q.tx,
         phase' \in Judged => phase \in Judged,
         \/ phase \in {"reorgs", "last"} => phase' \in {"reorgs", "last"}
         \/ \A t \in Txs, p \in Prices : AttemptInProgress(t, p) => etx[t].state = "in_progress"
  PROVE  RoundInv'
<1>1. \A t \in Txs : SentInRound(t)' /\ AgesTogether(t)'
  BY RoundKept DEF RoundInv
<1>2. \A r \in receipts' : etx'[r.tx].state = "confirmed"
  BY DEF RoundInv
<1>3. QED
  BY <1>1, <1>2 DEF RoundInv

LEMMA RoundCreate ==
  ASSUME TxManagerAssumption, Inv, RoundInv, NEW t \in Txs, CreateEthTransaction(t)
  PROVE  RoundInv'
<1>1. /\ etx[t].state = "none" /\ etx'[t].state = "unstarted"
      /\ \A u \in Txs \ {t} : etx'[u] = etx[u]
      /\ UNCHANGED <<attempts, receipts, phase>>
  BY DEF CreateEthTransaction, Inv, TypeOK
<1>2. \A p \in Prices : attempts[t][p].state = "none"
  BY <1>1 DEF Inv, RowsInv, RowOK
<1>3. SentInRound(t)' /\ AgesTogether(t)'
  BY <1>1, <1>2 DEF RoundInv, SentInRound, AgesTogether, AttemptInProgress, Waiting
<1>4. \A u \in Txs \ {t} : SentInRound(u)' /\ AgesTogether(u)'
  BY <1>1, RoundKept DEF RoundInv
<1>5. \A r \in receipts' : etx'[r.tx].state = "confirmed"
  BY <1>1 DEF RoundInv, Inv, TypeOK
<1>6. QED
  BY <1>3, <1>4, <1>5 DEF RoundInv

LEMMA RoundSaveInProgress ==
  ASSUME TxManagerAssumption, Inv, RoundInv, NEW t \in Txs, saveInProgressTransaction(t)
  PROVE  RoundInv'
<1>1. /\ etx[t].state = "unstarted" /\ etx'[t].state = "in_progress"
      /\ \A u \in Txs \ {t} : etx'[u] = etx[u] /\ attempts'[u] = attempts[u]
      /\ \A p \in Prices : attempts'[t][p] = attempts[t][p] \/ attempts'[t][p].state = "in_progress"
      /\ UNCHANGED <<receipts, phase>>
  BY DEF saveInProgressTransaction, findNextUnstartedTransaction, Inv, TypeOK
<1>2. SentInRound(t)' /\ AgesTogether(t)'
  BY <1>1 DEF RoundInv, SentInRound, AgesTogether, AttemptInProgress, Waiting
<1>3. \A u \in Txs \ {t} : SentInRound(u)' /\ AgesTogether(u)'
  BY <1>1, RoundKept DEF RoundInv
<1>4. \A r \in receipts' : etx'[r.tx].state = "confirmed"
  BY <1>1 DEF RoundInv, Inv, TypeOK
<1>5. QED
  BY <1>2, <1>3, <1>4 DEF RoundInv

\* the attempt of the transaction in progress is its only one
LEMMA RoundHandleInProgress ==
  ASSUME TxManagerAssumption, Inv, RoundInv, NEW t \in Txs, handleInProgressEthTx(t)
  PROVE  RoundInv'
<1>1. /\ etx[t].state = "in_progress"
      /\ \A u \in Txs \ {t} : etx'[u] = etx[u] /\ attempts'[u] = attempts[u]
      /\ UNCHANGED <<receipts, phase>>
      /\ GivesUp(t) \/ Waits \/ \E p \in Prices : AttemptInProgress(t, p) /\ (Saves(t, p) \/ Bumps(t, p))
  BY HandleInProgressEffect
<1>2. ASSUME NEW p \in Prices, AttemptInProgress(t, p), Saves(t, p)
      PROVE  SentInRound(t)' /\ AgesTogether(t)'
  <2>1. \A q \in Prices \ {p} : attempts[t][q].state = "none" /\ attempts'[t][q] = attempts[t][q]
    BY <1>1, <1>2 DEF Inv, RowsInv, RowOK, AttemptInProgress, Saves
  <2>2. SentInRound(t)'
    BY <1>2, <2>1 DEF RoundInv, SentInRound, AttemptInProgress, Saves
  <2>3. AgesTogether(t)'
    BY <2>1 DEF AgesTogether, PricesOf, WithState
  <2>4. QED
    BY <2>2, <2>3
<1>3. ASSUME NEW p \in Prices, Bumps(t, p)
      PROVE  SentInRound(t)' /\ AgesTogether(t)'
  <2>1. etx'[t].state = "in_progress"
    BY <1>1, <1>3 DEF Bumps
  <2>2. ASSUME NEW q \in Prices
        PROVE  /\ attempts'[t][q].state # "insufficient_eth"
               /\ attempts'[t][q].state = "none" => attempts'[t][q].age = Null
    <3>1. \/ attempts'[t][q] = attempts[t][q]
          \/ attempts'[t][q].state = "in_progress"
          \/ attempts'[t][q].state = "none" /\ attempts'[t][q].age = Null
      BY <1>3, <2>2 DEF Bumps
    <3>2. QED
      BY <3>1 DEF RoundInv, SentInRound
  <2>3. QED
    BY <2>1, <2>2 DEF SentInRound, AgesTogether, Waiting
<1>4. ASSUME GivesUp(t) PROVE SentInRound(t)' /\ AgesTogether(t)'
  <2>1. etx'[t].state = "fatal_error" /\ \A p \in Prices : attempts'[t][p].state = "none" /\ attempts'[t][p].age = Null
    BY <1>4 DEF GivesUp, NoAttempt
  <2>2. QED
    BY <2>1 DEF SentInRound, AgesTogether, AttemptInProgress, Waiting
<1>5. ASSUME Waits PROVE SentInRound(t)' /\ AgesTogether(t)'
  <2>1. SentInRound(t) /\ AgesTogether(t) /\ etx' = etx /\ attempts' = attempts /\ phase' = phase
    BY <1>1, <1>5 DEF Waits, RoundInv
  <2>2. QED
    BY <2>1, RoundKept
<1>6. SentInRound(t)' /\ AgesTogether(t)'
  <2>1. CASE \E p \in Prices : AttemptInProgress(t, p) /\ (Saves(t, p) \/ Bumps(t, p))
    <3>1. PICK p \in Prices : AttemptInProgress(t, p) /\ (Saves(t, p) \/ Bumps(t, p))
      BY <2>1
    <3>2. QED
      BY <1>2, <1>3, <3>1
  <2>2. QED
    BY <1>1, <1>4, <1>5, <2>1
<1>7. \A u \in Txs \ {t} : SentInRound(u)' /\ AgesTogether(u)'
  BY <1>1, RoundKept DEF RoundInv
<1>8. \A r \in receipts' : etx'[r.tx].state = "confirmed"
  BY <1>1 DEF RoundInv, Inv, TypeOK
<1>9. QED
  BY <1>6, <1>7, <1>8 DEF RoundInv

LEMMA RoundTakeHead ==
  ASSUME TxManagerAssumption, Inv, RoundInv, TakeHead
  PROVE  RoundInv'
<1>1. /\ UNCHANGED <<etx, attempts>> /\ phase = "idle" /\ phase' = "broadcast_before"
      /\ receipts' = {IF r.chain = "head" THEN [r EXCEPT !.chain = "orphaned"] ELSE r : r \in receipts}
  BY DEF TakeHead
<1>2. \A r \in receipts' : \E q \in receipts : r.tx = q.tx
  BY <1>1 DEF Inv, TypeOK
<1>3. QED
  BY <1>1, <1>2, RoundSame DEF Judged

\* the round begins by giving every attempt that was sent its block
LEMMA RoundSetBroadcastBefore ==
  ASSUME TxManagerAssumption, Inv, RoundInv, SetBroadcastBeforeBlockNum
  PROVE  RoundInv'
<1>1. /\ UNCHANGED <<etx, receipts>> /\ phase = "broadcast_before" /\ phase' = "missing_receipt"
      /\ \A t \in Txs, p \in Prices : attempts'[t][p].state = attempts[t][p].state
  BY SetBroadcastBeforeStep DEF SetBroadcastBeforeBlockNum, Enter
<1>2. ASSUME NEW t \in Txs, NEW p \in Prices
      PROVE  /\ attempts[t][p].state = "broadcast" => attempts'[t][p].age # Null
             /\ attempts[t][p].state = "none" => attempts'[t][p] = attempts[t][p]
  <2>1. PICK a \in [state : AttemptStates, age : 0 .. OldAge \cup {Null}] :
          /\ a = attempts[t][p]
          /\ attempts'[t][p] = IF a = [state |-> "broadcast", age |-> Null] THEN [a EXCEPT !.age = lag] ELSE a
    <3>1. attempts[t][p] \in [state : AttemptStates, age : 0 .. OldAge \cup {Null}]
      BY <1>2 DEF Inv, TypeOK
    <3>2. attempts'[t][p] = IF attempts[t][p] = [state |-> "broadcast", age |-> Null]
                            THEN [attempts[t][p] EXCEPT !.age = lag] ELSE attempts[t][p]
      BY <1>2, Zenon DEF SetBroadcastBeforeBlockNum
    <3>3. QED
      BY <3>1, <3>2
  <2>2. lag # Null
    BY DEF Inv, TypeOK, Null
  <2>3. a.state = "broadcast" /\ a.age = Null => a = [state |-> "broadcast", age |-> Null]
    OBVIOUS
  <2>4. QED
    BY <2>1, <2>2, <2>3
<1>3. ASSUME NEW t \in Txs PROVE SentInRound(t)' /\ AgesTogether(t)'
  <2>1. SentInRound(t)
    BY DEF RoundInv
  <2>2. SentInRound(t)'
    BY <1>1, <1>2, <2>1 DEF SentInRound, AttemptInProgress
  <2>3. ASSUME etx[t].state \in Waiting, NEW p \in PricesOf(t)' PROVE attempts'[t][p].age # Null
    <3>1. p \in Prices /\ attempts[t][p].state \in AttemptStates \ {"none"}
      BY <1>1, <2>3 DEF PricesOf, WithState
    <3>2. attempts[t][p].state = "broadcast"
      BY <1>1, <2>1, <2>3, <3>1 DEF SentInRound, AttemptInProgress, AttemptStates, Waiting
    <3>3. QED
      BY <1>2, <3>1, <3>2
  <2>4. AgesTogether(t)'
    BY <1>1, <2>3 DEF AgesTogether
  <2>5. QED
    BY <2>2, <2>4
<1>4. QED
  BY <1>1, <1>3 DEF RoundInv

LEMMA RoundCheckMissing ==
  ASSUME TxManagerAssumption, Inv, RoundInv, CheckConfirmedMissingReceipt
  PROVE  RoundInv'
<1>1. /\ UNCHANGED <<attempts, receipts>> /\ phase = "missing_receipt" /\ phase' = "receipts"
      /\ \A u \in Txs : \/ etx'[u] = etx[u]
                        \/ etx[u].state = "confirmed_missing_receipt" /\ etx'[u].state = "unconfirmed"
  BY CheckMissingEffect
<1>2. ASSUME NEW t \in Txs PROVE SentInRound(t)' /\ AgesTogether(t)'
  BY <1>1 DEF RoundInv, SentInRound, AgesTogether, AttemptInProgress, Waiting, Judged, PricesOf, WithState
<1>3. \A r \in receipts' : etx'[r.tx].state = "confirmed"
  BY <1>1 DEF RoundInv, Inv, TypeOK
<1>4. QED
  BY <1>2, <1>3, <1>1 DEF RoundInv

\* the receipts that are found, be they all or not, are of transactions that no longer wait
LEMMA RoundCheckReceipts ==
  ASSUME TxManagerAssumption, Inv, RoundInv, CheckForReceipts
  PROVE  RoundInv'
<1>1. PICK got \in SUBSET RequiringReceiptFetch : saveFetchedReceipts(got)
  BY DEF CheckForReceipts
<1>2. phase = "receipts" /\ phase' \in {"mark_missing", "in_progress"}
  BY CheckReceiptsEffect
<1>3. \A n \in got : /\ mined[n].tx \in Txs /\ mined[n].price \in Prices
                     /\ etx[mined[n].tx].state \in Waiting
  BY MinedTyped DEF RequiringReceiptFetch, Waiting, Inv, Blocks
<1> DEFINE found(t, p) == {n \in got : mined[n].tx = t /\ mined[n].price = p}
<1>4. /\ receipts' = receipts \cup
           {[tx |-> mined[n].tx, price |-> mined[n].price, age |-> mined[n].age, chain |-> "longest"] : n \in got}
      /\ attempts' = [t \in Txs |-> [p \in Prices |->
           IF found(t, p) = {} THEN attempts[t][p]
           ELSE [state |-> "broadcast",
                 age |-> IF attempts[t][p].age # Null THEN attempts[t][p].age
                         ELSE mined[CHOOSE n \in found(t, p) : TRUE].age]]]
      /\ etx' = [t \in Txs |-> IF \E p \in Prices : found(t, p) # {}
                               THEN [etx[t] EXCEPT !.state = "confirmed"] ELSE etx[t]]
  BY <1>1 DEF saveFetchedReceipts
<1>5. \A t \in Txs, p \in Prices :
        /\ found(t, p) = {} => attempts'[t][p] = attempts[t][p]
        /\ found(t, p) # {} => attempts'[t][p].state = "broadcast"
  <2> HIDE DEF found
  <2>1. QED
    BY <1>4
<1>6. \A t \in Txs : (\E p \in Prices : found(t, p) # {}) <=> \E n \in got : mined[n].tx = t
  BY <1>3
<1>7. ASSUME NEW t \in Txs
      PROVE  /\ (\E n \in got : mined[n].tx = t) => etx'[t].state = "confirmed"
             /\ (~\E n \in got : mined[n].tx = t) => etx'[t] = etx[t] /\ attempts'[t] = attempts[t]
  <2>1. etx'[t] = IF \E n \in got : mined[n].tx = t THEN [etx[t] EXCEPT !.state = "confirmed"] ELSE etx[t]
    BY <1>4, <1>6
  <2>2. etx[t] \in [state : EtxStates, nonce : Nat \cup {Null}]
    BY DEF Inv, TypeOK
  <2>3. (~\E n \in got : mined[n].tx = t) => attempts'[t] = attempts[t]
    <3>1. SUFFICES ASSUME ~\E n \in got : mined[n].tx = t PROVE attempts'[t] = attempts[t]
      OBVIOUS
    <3>2. \A p \in Prices : attempts'[t][p] = attempts[t][p]
      BY <1>5, <3>1
    <3>3. attempts' \in AttemptsType
      BY CheckReceiptsEffect DEF TypeOK, AttemptsType
    <3>4. QED
      BY <3>2, <3>3 DEF AttemptsType, Inv, TypeOK
  <2>4. QED
    BY <2>1, <2>2, <2>3
<1>8. ASSUME NEW t \in Txs PROVE SentInRound(t)' /\ AgesTogether(t)'
  <2>0. SentInRound(t) /\ AgesTogether(t) /\ \A p \in Prices : AttemptInProgress(t, p) => etx[t].state = "in_progress"
    BY <1>2 DEF RoundInv, SentInRound
  <2>1. CASE \E n \in got : mined[n].tx = t
    <3>1. etx[t].state \in Waiting /\ etx'[t].state = "confirmed"
      BY <1>3, <1>7, <2>1
    <3>2. \A p \in Prices : attempts'[t][p] = attempts[t][p] \/ attempts'[t][p].state = "broadcast"
      BY <1>5
    <3>3. SentInRound(t)'
      BY <2>0, <3>1, <3>2 DEF SentInRound, AttemptInProgress, Waiting
    <3>4. AgesTogether(t)'
      BY <3>1 DEF AgesTogether, Waiting
    <3>5. QED
      BY <3>3, <3>4
  <2>2. CASE ~\E n \in got : mined[n].tx = t
    BY <1>2, <1>7, <2>0, <2>2, RoundKept DEF Judged
  <2>3. QED
    BY <2>1, <2>2
<1>9. ASSUME NEW r \in receipts' PROVE etx'[r.tx].state = "confirmed"
  <2>1. CASE r \in receipts
    <3>1. r.tx \in Txs /\ etx[r.tx].state = "confirmed"
      BY <2>1 DEF RoundInv, Inv, TypeOK
    <3>2. QED
      BY <1>7, <3>1
  <2>2. CASE r \notin receipts
    <3>1. PICK n \in got : r.tx = mined[n].tx
      BY <1>4, <2>2
    <3>2. QED
      BY <1>3, <1>7, <3>1
  <2>3. QED
    BY <2>1, <2>2
<1>10. QED
  BY <1>8, <1>9 DEF RoundInv

LEMMA RoundMark ==
  ASSUME TxManagerAssumption, Inv, RoundInv,
         markAllConfirmedMissingReceipt \/ markOldTxesMissingReceiptAsErrored
  PROVE  RoundInv'
<1>1. /\ UNCHANGED <<attempts, receipts>>
      /\ phase \in {"mark_missing", "mark_old"} /\ phase' \in {"mark_old", "in_progress"}
      /\ \A u \in Txs : \/ etx'[u] = etx[u]
                        \/ etx[u].state = "unconfirmed" /\ etx'[u].state = "confirmed_missing_receipt"
                        \/ etx[u].state = "confirmed_missing_receipt" /\ etx'[u].state = "fatal_error"
  BY MarkEffect
<1>2. ASSUME NEW t \in Txs PROVE SentInRound(t)' /\ AgesTogether(t)'
  <2>1. SentInRound(t) /\ AgesTogether(t)
    BY DEF RoundInv
  <2>2. SentInRound(t)'
    BY <1>1, <2>1 DEF SentInRound, AttemptInProgress, Waiting
  <2>3. AgesTogether(t)'
    BY <1>1, <2>1 DEF AgesTogether, Waiting, Judged, PricesOf, WithState
  <2>4. QED
    BY <2>2, <2>3
<1>3. ASSUME NEW r \in receipts' PROVE etx'[r.tx].state = "confirmed"
  <2>1. r.tx \in Txs /\ etx[r.tx].state = "confirmed"
    BY <1>1, <1>3 DEF RoundInv, Inv, TypeOK
  <2>2. QED
    BY <1>1, <2>1
<1>4. QED
  BY <1>2, <1>3 DEF RoundInv

\* an attempt of a transaction that waits is answered: it is sent, refused for good, or deleted
LEMMA RoundHandled ==
  ASSUME TxManagerAssumption, Inv, RoundInv, RoundsEnd,
         NEW t \in Txs, etx[t].state \in Waiting, NEW p \in Prices, NEW r \in Answer(Sent(t, p)),
         handleInProgressAttempt(t, p, r), \A q \in Prices \ {p} : ~AttemptInProgress(t, q),
         \/ phase = "last" /\ phase' = "last"
         \/ phase = "rebroadcast" /\ phase' \in {"rebroadcast", "reorgs"}
  PROVE  RoundInv'
<1>1. Sent(t, p) \in Attempts
  BY SentTyped DEF Inv, RowsInv, RowOK, Later, Waiting
<1>2. r.err \notin {"unknown", "insufficient"}
  BY <1>1, AnswerIs DEF RoundsEnd, Inv
<1>3. /\ \A u \in Txs \ {t} : etx'[u] = etx[u] /\ attempts'[u] = attempts[u]
      /\ etx'[t].state \in Waiting
      /\ \A q \in Prices \ {p} : attempts'[t][q] = attempts[t][q]
      /\ receipts' \subseteq receipts
  BY HandleAttemptEffect DEF Waiting, Later
<1>4. attempts'[t][p] \in {[state |-> "broadcast", age |-> Null], NoAttempt}
  <2>1. \/ attempts' = [attempts EXCEPT ![t][p] = [state |-> "broadcast", age |-> Null]]
        \/ attempts' = [attempts EXCEPT ![t][p] = NoAttempt]
    BY <1>2 DEF handleInProgressAttempt
  <2>2. QED
    BY <2>1 DEF Inv, TypeOK
<1>5. SentInRound(t)'
  <2>1. /\ attempts'[t][p].state \in {"broadcast", "none"}
        /\ attempts'[t][p].age = Null
    BY <1>4 DEF NoAttempt
  <2>2. QED
    BY <1>3, <2>1 DEF RoundInv, SentInRound, AttemptInProgress
<1>6. AgesTogether(t)'
  BY DEF AgesTogether, Judged
<1>7. \A u \in Txs \ {t} : SentInRound(u)' /\ AgesTogether(u)'
  <2>1. /\ phase' \in Judged => phase \in Judged
        /\ phase \in {"reorgs", "last"} => phase' \in {"reorgs", "last"}
    BY DEF Judged
  <2>2. QED
    BY <1>3, <2>1, RoundKept DEF RoundInv
<1>8. ASSUME NEW q \in receipts' PROVE etx'[q.tx].state = "confirmed"
  <2>1. q.tx \in Txs /\ etx[q.tx].state = "confirmed"
    BY <1>3, <1>8 DEF RoundInv, Inv, TypeOK
  <2>2. QED
    BY <1>3, <2>1 DEF Waiting
<1>9. QED
  BY <1>5, <1>6, <1>7, <1>8 DEF RoundInv

LEMMA RoundHandleAny ==
  ASSUME TxManagerAssumption, Inv, RoundInv, RoundsEnd, handleAnyInProgressAttempts
  PROVE  RoundInv'
<1>1. PICK t \in Txs, p \in Prices : \E r \in Answer(Sent(t, p)) :
        /\ p \in WithState(t, {"in_progress"})
        /\ HasInProgressAttempt(t) /\ handleInProgressAttempt(t, p, r)
        /\ Enter(NextPhase(r, phase)) /\ phase \in {"in_progress", "last"}
  BY DEF handleAnyInProgressAttempts, WithState
<1>2. PICK r \in Answer(Sent(t, p)) :
        /\ p \in WithState(t, {"in_progress"})
        /\ HasInProgressAttempt(t) /\ handleInProgressAttempt(t, p, r)
        /\ Enter(NextPhase(r, phase)) /\ phase \in {"in_progress", "last"}
  BY <1>1
<1>3. AttemptInProgress(t, p) /\ etx[t].state # "in_progress"
  BY <1>2 DEF WithState, AttemptInProgress, HasInProgressAttempt
<1>4. etx[t].state \in Waiting /\ phase = "last"
  BY <1>2, <1>3 DEF RoundInv, SentInRound
<1>5. \A q \in Prices \ {p} : ~AttemptInProgress(t, q)
  BY <1>3 DEF Inv, RowsInv, RowOK
<1>6. r.err # "unknown"
  <2>1. Sent(t, p) \in Attempts
    BY <1>4, SentTyped DEF Inv, RowsInv, RowOK, Later, Waiting
  <2>2. QED
    BY <2>1, AnswerIs DEF RoundsEnd, Inv
<1>7. phase' = "last"
  BY <1>2, <1>4, <1>6 DEF Enter, NextPhase
<1>8. QED
  BY <1>2, <1>4, <1>5, <1>7, RoundHandled

LEMMA RoundRebroadcastWhere ==
  ASSUME TxManagerAssumption, Inv, RoundInv, rebroadcastWhereNecessary
  PROVE  RoundInv'
<1>1. UNCHANGED <<etx, attempts, receipts>> /\ phase = "in_progress" /\ phase' \in {"reorgs", "rebroadcast"}
  BY DEF rebroadcastWhereNecessary, db
<1>2. QED
  BY <1>1, RoundSame DEF Judged

LEMMA RoundRebroadcast ==
  ASSUME TxManagerAssumption, Inv, RoundInv, RoundsEnd, NEW t \in Txs, Rebroadcast(t)
  PROVE  RoundInv'
<1>1. phase = "rebroadcast" /\ etx[t].state = "unconfirmed"
  BY DEF Rebroadcast, Inv, RowsInv, PhaseOK
<1>2. CASE PricesOf(t) = {}
  <2>1. UNCHANGED <<etx, attempts, receipts>> /\ phase' = "idle"
    BY <1>2 DEF Rebroadcast
  <2>2. QED
    BY <1>1, <2>1, RoundSame DEF Judged
<1>3. CASE PricesOf(t) # {}
  <2>1. PICK p \in Prices : \E r \in Answer(Sent(t, p)) :
          /\ handleInProgressAttempt(t, p, r)
          /\ \A q \in Prices \ {p} : ~AttemptInProgress(t, q)
          /\ phase' = IF todo' # {} THEN phase ELSE NextPhase(r, "reorgs")
    BY <1>3, RebroadcastEffect
  <2>2. PICK r \in Answer(Sent(t, p)) :
          /\ handleInProgressAttempt(t, p, r)
          /\ \A q \in Prices \ {p} : ~AttemptInProgress(t, q)
          /\ phase' = IF todo' # {} THEN phase ELSE NextPhase(r, "reorgs")
    BY <2>1
  <2>3. r.err # "unknown"
    <3>1. Sent(t, p) \in Attempts
      BY <1>1, SentTyped DEF Inv, RowsInv, RowOK, Later
    <3>2. QED
      BY <3>1, AnswerIs DEF RoundsEnd, Inv
  <2>4. phase' \in {"rebroadcast", "reorgs"}
    BY <1>1, <2>2, <2>3 DEF NextPhase
  <2>5. QED
    BY <1>1, <2>2, <2>4, RoundHandled DEF Waiting
<1>4. QED
  BY <1>2, <1>3

\* what a receipt confirms has nothing in progress, so that marking it cannot fail
LEMMA RoundMarkForRebroadcast ==
  ASSUME TxManagerAssumption, Inv, RoundInv, NEW t \in Txs, markForRebroadcast(t)
  PROVE  RoundInv'
<1> DEFINE p == Highest(t)
<1>1. PICK r \in receipts : r.tx = t /\ attempts[t][r.price].state = "broadcast"
  BY DEF markForRebroadcast, ReorgedOut
<1>2. etx[t].state = "confirmed" /\ attempts[t][p].state = "broadcast" /\ p \in Prices
  <2>1. etx[t].state = "confirmed" /\ r.price \in Prices /\ SentInRound(t)
    BY <1>1 DEF RoundInv, Inv, TypeOK
  <2>2. r.price \in PricesOf(t)
    BY <1>1, <2>1 DEF PricesOf, WithState, AttemptStates
  <2>3. p \in PricesOf(t) /\ p \in Prices
    BY <2>2, HighestIs
  <2>4. attempts[t][p].state \in AttemptStates \ {"none"}
    BY <2>3 DEF PricesOf, WithState
  <2>5. attempts[t][p].state \notin {"insufficient_eth", "in_progress"}
    BY <2>1, <2>3 DEF SentInRound, AttemptInProgress, Waiting
  <2>6. QED
    BY <2>1, <2>3, <2>4, <2>5 DEF AttemptStates
<1>3. /\ phase = "reorgs" /\ phase' = "reorgs"
      /\ receipts' = {q \in receipts : q.tx # t}
      /\ etx' = [etx EXCEPT ![t].state = "unconfirmed"]
      /\ attempts' = [attempts EXCEPT ![t][p] = [state |-> "in_progress", age |-> Null]]
  BY <1>2 DEF markForRebroadcast
<1>4. /\ etx'[t].state = "unconfirmed"
      /\ \A u \in Txs \ {t} : etx'[u] = etx[u] /\ attempts'[u] = attempts[u]
  BY <1>3 DEF Inv, TypeOK
<1>5. \A q \in Prices : \/ attempts'[t][q] = attempts[t][q]
                        \/ attempts'[t][q] = [state |-> "in_progress", age |-> Null]
  <2> HIDE DEF p
  <2>1. QED
    BY <1>2, <1>3 DEF Inv, TypeOK
<1> HIDE DEF p
<1>6. SentInRound(t)' /\ AgesTogether(t)'
  <2>1. SentInRound(t)
    BY DEF RoundInv
  <2>2. \A q \in Prices : attempts'[t][q] = attempts[t][q] \/ attempts'[t][q].state = "in_progress"
    BY <1>5
  <2>3. SentInRound(t)'
    BY <1>3, <1>4, <2>1, <2>2 DEF SentInRound, Waiting
  <2>4. AgesTogether(t)'
    BY <1>3 DEF AgesTogether, Judged
  <2>5. QED
    BY <2>3, <2>4
<1>7. \A u \in Txs \ {t} : SentInRound(u)' /\ AgesTogether(u)'
  BY <1>3, <1>4, RoundKept DEF RoundInv, Judged
<1>8. ASSUME NEW q \in receipts' PROVE etx'[q.tx].state = "confirmed"
  <2>1. q.tx \in Txs \ {t} /\ etx[q.tx].state = "confirmed"
    BY <1>3, <1>8 DEF RoundInv, Inv, TypeOK
  <2>2. QED
    BY <1>4, <2>1
<1>9. QED
  BY <1>6, <1>7, <1>8 DEF RoundInv

LEMMA RoundPhaseEnds ==
  ASSUME TxManagerAssumption, Inv, RoundInv, EnsureConfirmedTransactionsInLongestChain \/ HeadDone
  PROVE  RoundInv'
<1>1. /\ UNCHANGED <<etx, attempts, receipts>> /\ phase' \in {"idle", "last"}
      /\ phase' = "idle" => \A t \in Txs : ~HasInProgressAttempt(t)
  BY DEF EnsureConfirmedTransactionsInLongestChain, HeadDone, Enter
<1>2. ASSUME phase' = "idle", NEW t \in Txs, NEW p \in Prices, AttemptInProgress(t, p)
      PROVE  etx[t].state = "in_progress"
  BY <1>1, <1>2 DEF RoundInv, SentInRound, HasInProgressAttempt, WithState, AttemptInProgress, Waiting
<1>3. QED
  BY <1>1, <1>2, RoundSame DEF Judged

LEMMA RoundReap ==
  ASSUME TxManagerAssumption, Inv, RoundInv, NEW t \in Txs, ReapEthTxes(t)
  PROVE  RoundInv'
<1>1. /\ etx'[t].state = "reaped" /\ phase' = phase
      /\ \A u \in Txs \ {t} : etx'[u] = etx[u] /\ attempts'[u] = attempts[u]
      /\ receipts' = {r \in receipts : r.tx # t}
  BY ReapEffect DEF ReapEthTxes
<1>2. \A p \in Prices : attempts'[t][p].state = "none" /\ attempts'[t][p].age = Null
  BY DEF ReapEthTxes, NoAttempt, Inv, TypeOK
<1>3. SentInRound(t)' /\ AgesTogether(t)'
  BY <1>1, <1>2 DEF SentInRound, AgesTogether, AttemptInProgress, Waiting
<1>4. \A u \in Txs \ {t} : SentInRound(u)' /\ AgesTogether(u)'
  BY <1>1, RoundKept DEF RoundInv
<1>5. \A r \in receipts' : etx'[r.tx].state = "confirmed"
  BY <1>1 DEF RoundInv, Inv, TypeOK
<1>6. QED
  BY <1>3, <1>4, <1>5 DEF RoundInv

LEMMA RoundNewHead ==
  ASSUME TxManagerAssumption, Inv, RoundInv, NEW depth \in 0 .. ReorgDepth, NEW taken, NewHead(depth, taken)
  PROVE  RoundInv'
<1>1. depth \in Nat
  BY DEF TxManagerAssumption
<1>2. /\ UNCHANGED <<etx, phase>>
      /\ \A t \in Txs, p \in Prices :
           /\ attempts'[t][p].state = attempts[t][p].state
           /\ attempts[t][p].age = Null <=> attempts'[t][p].age = Null
      /\ \A r \in receipts' : \E q \in receipts : r.tx = q.tx
  BY <1>1, NewHeadEffect, NewHeadRows DEF Inv
<1>3. ASSUME NEW t \in Txs PROVE SentInRound(t)' /\ AgesTogether(t)'
  <2>1. SentInRound(t) /\ AgesTogether(t)
    BY DEF RoundInv
  <2>2. SentInRound(t)'
    BY <1>2, <2>1 DEF SentInRound, AttemptInProgress
  <2>3. AgesTogether(t)'
    BY <1>2, <2>1 DEF AgesTogether, PricesOf, WithState
  <2>4. QED
    BY <2>2, <2>3
<1>4. \A r \in receipts' : etx'[r.tx].state = "confirmed"
  BY <1>2 DEF RoundInv
<1>5. QED
  BY <1>3, <1>4 DEF RoundInv

LEMMA RoundStep ==
  ASSUME TxManagerAssumption, Inv, RoundsEnd => RoundInv, [Next]_vars
  PROVE  (RoundsEnd => RoundInv)'
<1>1. world' = world
  BY WorldStays
<1>2. SUFFICES ASSUME RoundsEnd, RoundInv PROVE RoundInv'
  BY <1>1 DEF RoundsEnd
<1>3. ASSUME NEW t \in Txs, CreateEthTransaction(t) \/ ReapEthTxes(t) PROVE RoundInv'
  BY <1>2, <1>3, RoundCreate, RoundReap
<1>4. CASE Broadcaster
  BY <1>2, <1>4, RoundSaveInProgress, RoundHandleInProgress DEF Broadcaster
<1>5. CASE ProcessHead
  BY <1>2, <1>5, RoundTakeHead, RoundSetBroadcastBefore, RoundCheckMissing, RoundCheckReceipts, RoundMark,
     RoundHandleAny, RoundRebroadcastWhere, RoundRebroadcast, RoundMarkForRebroadcast, RoundPhaseEnds
     DEF ProcessHead
<1>6. CASE ResendUnconfirmed \/ Evict \/ UNCHANGED vars
  <2>1. UNCHANGED <<etx, attempts, receipts, phase>>
    BY <1>6 DEF ResendUnconfirmed, Evict, vars, db
  <2>2. QED
    BY <1>2, <2>1, RoundSame
<1>7. CASE Stop
  BY <1>2, <1>7 DEF Stop, Fault, RoundsEnd
<1>8. CASE NewHead(0, {}) \/ Mine \/ Reorganise
  <2>1. PICK depth \in 0 .. ReorgDepth : \E taken : NewHead(depth, taken)
    BY <1>8, HeadStep
  <2>2. PICK taken : NewHead(depth, taken)
    BY <2>1
  <2>3. QED
    BY <1>2, <2>2, RoundNewHead
<1>9. QED
  BY <1>3, <1>4, <1>5, <1>6, <1>7, <1>8 DEF Next

(***************************************************************************)
(* Only markOldTxesMissingReceiptAsErrored records what misses a receipt   *)
(* as failed.                                                              *)
(***************************************************************************)
LEMMA GivenUpByAge ==
  ASSUME TxManagerAssumption, Inv, [Next]_vars, NEW t \in Txs,
         etx[t].state = "confirmed_missing_receipt", etx'[t].state = "fatal_error"
  PROVE  phase = "mark_old" /\ Expired(t)
<1>1. ASSUME NEW u \in Txs, CreateEthTransaction(u) \/ ReapEthTxes(u) PROVE FALSE
  <2>1. CASE CreateEthTransaction(u)
    BY <2>1 DEF CreateEthTransaction, Inv, TypeOK
  <2>2. CASE ReapEthTxes(u)
    BY <2>2, ReapEffect
  <2>3. QED
    BY <1>1, <2>1, <2>2
<1>2. CASE Broadcaster
  <2>1. PICK u \in Txs : saveInProgressTransaction(u) \/ handleInProgressEthTx(u)
    BY <1>2 DEF Broadcaster
  <2>2. CASE saveInProgressTransaction(u)
    BY <2>2 DEF saveInProgressTransaction, Inv, TypeOK
  <2>3. CASE handleInProgressEthTx(u)
    BY <2>3, HandleInProgressEffect
  <2>4. QED
    BY <2>1, <2>2, <2>3
<1>3. CASE \/ TakeHead \/ SetBroadcastBeforeBlockNum \/ rebroadcastWhereNecessary \/ ResendUnconfirmed \/ Stop
           \/ Evict \/ UNCHANGED vars \/ EnsureConfirmedTransactionsInLongestChain \/ HeadDone
  BY <1>3 DEF TakeHead, SetBroadcastBeforeBlockNum, rebroadcastWhereNecessary, ResendUnconfirmed, Stop, Evict, vars, db,
              EnsureConfirmedTransactionsInLongestChain, HeadDone
<1>4. CASE CheckConfirmedMissingReceipt
  BY <1>4, CheckMissingEffect
<1>5. CASE CheckForReceipts
  BY <1>5, CheckReceiptsEffect
<1>6. CASE markAllConfirmedMissingReceipt
  BY <1>6, MarkEffect DEF markAllConfirmedMissingReceipt
<1>7. CASE markOldTxesMissingReceiptAsErrored
  BY <1>7 DEF markOldTxesMissingReceiptAsErrored
<1>8. CASE handleAnyInProgressAttempts
  <2>1. PICK u \in Txs, p \in Prices : \E r \in Answer(Sent(u, p)) :
          /\ etx[u].state \in Later /\ handleInProgressAttempt(u, p, r)
          /\ \A q \in Prices \ {p} : ~AttemptInProgress(u, q)
    BY <1>8, HandleAnyEffect
  <2>2. \A w \in Txs \ {u} : etx'[w] = etx[w]
    BY <2>1, HandleAttemptEffect
  <2>3. etx'[u].state \in Later
    BY <2>1, HandleAttemptEffect
  <2>4. QED
    BY <2>2, <2>3 DEF Later
<1>9. ASSUME NEW u \in Txs, Rebroadcast(u) PROVE FALSE
  <2>1. etx[u].state \in Later
    BY <1>9 DEF Rebroadcast, Inv, RowsInv, PhaseOK, Later
  <2>2. CASE PricesOf(u) = {}
    BY <1>9, <2>2 DEF Rebroadcast
  <2>3. CASE PricesOf(u) # {}
    <3>1. PICK p \in Prices : \E r \in Answer(Sent(u, p)) :
            /\ handleInProgressAttempt(u, p, r)
            /\ \A q \in Prices \ {p} : ~AttemptInProgress(u, q)
      BY <1>9, <2>3, RebroadcastEffect
    <3>2. \A w \in Txs \ {u} : etx'[w] = etx[w]
      BY <2>1, <3>1, HandleAttemptEffect
    <3>3. etx'[u].state \in Later
      BY <2>1, <3>1, HandleAttemptEffect
    <3>4. QED
      BY <3>2, <3>3 DEF Later
  <2>4. QED
    BY <2>2, <2>3
<1>10. ASSUME NEW u \in Txs, markForRebroadcast(u) PROVE FALSE
  BY <1>10, MarkForRebroadcastEffect
<1>11. CASE NewHead(0, {}) \/ Mine \/ Reorganise
  BY <1>11, HeadStep, NewHeadEffect
<1>12. QED
  BY <1>1, <1>2, <1>3, <1>4, <1>5, <1>6, <1>7, <1>8, <1>9, <1>10, <1>11 DEF Next, ProcessHead

LEMMA RoundSafety == Spec => []((RoundsEnd => RoundInv) /\ Inv)
<1>1. Init => (RoundsEnd => RoundInv) /\ Inv
  <2>1. SUFFICES ASSUME Init PROVE RoundInv
    BY InitInv, TxManagerAssumption
  <2>2. \A t \in Txs : etx[t].state = "none" /\ \A p \in Prices : attempts[t][p].state = "none" /\ attempts[t][p].age = Null
    BY <2>1 DEF Init, NoAttempt
  <2>3. QED
    BY <2>1, <2>2 DEF Init, RoundInv, SentInRound, AgesTogether, AttemptInProgress, Waiting
<1>2. ((RoundsEnd => RoundInv) /\ Inv) /\ [Next]_vars => ((RoundsEnd => RoundInv) /\ Inv)'
  BY NextInv, RoundStep, TxManagerAssumption
<1>3. QED
  BY <1>1, <1>2, PTL DEF Spec

(***************************************************************************)
(* Where every head is dealt with to its end and no attempt is put off for *)
(* want of ether, the confirmer gives a transaction up only when all of    *)
(* its attempts were sent before the final blocks: whatever the chain      *)
(* drops, the mempool evicts, a fee cap deletes or a receipt that is not   *)
(* found, any number of times and at any depth.                            *)
(***************************************************************************)
THEOREM GivenUpOnlyWhenOld == Spec /\ RoundsEnd => GivenUpIsOld
<1>1. RoundsEnd /\ [Next]_vars => RoundsEnd'
  BY WorldStays DEF RoundsEnd
<1>2. (RoundsEnd => RoundInv) /\ Inv /\ RoundsEnd /\ [Next]_vars =>
        [\A t \in Txs : etx[t].state = "confirmed_missing_receipt" /\ etx'[t].state = "fatal_error" =>
           \A p \in PricesOf(t) : attempts[t][p].age # Null /\ attempts[t][p].age - lag > FinalityDepth]_vars
  <2>1. SUFFICES ASSUME RoundInv, Inv, [Next]_vars, NEW t \in Txs,
                        etx[t].state = "confirmed_missing_receipt", etx'[t].state = "fatal_error",
                        NEW p \in PricesOf(t)
                 PROVE  attempts[t][p].age # Null /\ attempts[t][p].age - lag > FinalityDepth
    OBVIOUS
  <2>2. phase = "mark_old" /\ Expired(t)
    BY <2>1, GivenUpByAge, TxManagerAssumption
  <2>3. SentInRound(t) /\ AgesTogether(t)
    BY <2>1 DEF RoundInv
  <2>4. PICK q \in Prices : attempts[t][q].age # Null
    BY <2>2 DEF Expired
  <2>5. q \in PricesOf(t)
    BY <2>1, <2>3, <2>4 DEF SentInRound, PricesOf, WithState, Inv, TypeOK
  <2>6. attempts[t][p].age # Null
    BY <2>1, <2>2, <2>3, <2>4, <2>5 DEF AgesTogether, Judged, Waiting
  <2>7. p \in Prices
    BY <2>1 DEF PricesOf, WithState
  <2>8. QED
    BY <2>2, <2>6, <2>7 DEF Expired
<1>3. QED
  BY <1>1, <1>2, RoundSafety, PTL DEF Spec, GivenUpIsOld

=============================================================================
