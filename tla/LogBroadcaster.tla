---------------------------- MODULE LogBroadcaster ----------------------------
(***************************************************************************)
(* A keeper node's log broadcaster (core/chains/evm/log) with one listener *)
(* on one contract.  It subscribes to the contract's logs, backfills the   *)
(* ones it may have missed, keeps logs in a pool until enough blocks       *)
(* confirm them, and at every head sends what is confirmed and not yet     *)
(* consumed to the listener, whose mailbox (utils/mailbox.go) is bounded.  *)
(* Two tables let it recover: log_broadcasts has a row for every log sent, *)
(* consumed or not, log_broadcasts_pending the least block whose logs are  *)
(* still needed.                                                           *)
(*                                                                         *)
(* The event loop reads logs and heads from two channels, in any order.    *)
(* The chain grows and reorganises, connections break, the process stops.  *)
(***************************************************************************)
EXTENDS Integers, Sequences, FiniteSets, SequencesExt

CONSTANTS
  MaxBlock,          \* height at which the model's chain ends
  LastLogBlock,      \* logs are emitted in the blocks up to this one
  MaxPerBlock,       \* logs of a block
  Confirmations, FinalityDepth, BackfillDepth,
  Capacity,          \* of the listener's mailbox
  ReorgDepth,        \* bound on the depth of a reorganisation
  Worlds             \* what may happen: the logs the contract will emit, in this order,
                     \* and the faults, of which each occurs at most once

Null == -1

\* the process stops, once and again, a connection breaks, a backfill gives up after its
\* retries, a reorganisation, a call that the listener makes to the node fails
Stops == {"stop", "stop again"}
FaultKinds == Stops \cup {"error", "giveup", "reorg", "rpc"}

ASSUME LogBroadcasterAssumption ==
  /\ \A n \in {MaxBlock, LastLogBlock, MaxPerBlock, FinalityDepth, BackfillDepth, ReorgDepth} : n \in Nat
  /\ Confirmations \in Nat \ {0} /\ Capacity \in Nat \ {0}
  /\ ReorgDepth < Confirmations /\ ReorgDepth <= BackfillDepth /\ LastLogBlock <= MaxBlock
  /\ \A w \in Worlds : w.faults \subseteq FaultKinds /\ w.feed \in Seq(STRING \X Nat)

VARIABLES
  chain,         \* blocks: the fork a block is of and the logs it has, as positions in Feed
  phase,         \* where startResubscribeLoop is
  sub,           \* the subscription works
  missing,       \* least block whose logs the subscription will not bring, or Null
  raw,           \* chRawLogs: what is left of earlier subscriptions, and the backfill
  live,          \* logs of the current subscription that are not read
  backfillFrom,  \* backfillBlockNumber
  head,          \* newHeads: number of the latest head that is not read, or Null
  pool,          \* logPool.logsByBlockHash
  heap,          \* logPool.heap
  rows,          \* log_broadcasts: the rows there are
  consumed,      \* those of them that are consumed
  pendingMin,    \* log_broadcasts_pending
  savedHead,     \* the number of the last head saved, 0 before there is one
  inbox,         \* the listener's mailbox
  world, used    \* the logs and faults to come, and the faults there were

connection == <<phase, sub, missing, raw, live, backfillFrom, head>>
logs == <<pool, heap>>
db == <<rows, consumed, pendingMin, savedHead>>
broadcasterVars == <<chain, connection, logs, db, inbox, world, used>>

Height == Len(chain)
Feed == world.feed

\* A log is named by the block it is in and its position; two blocks of one number differ in fork.
Key == [number : 1 .. MaxBlock, fork : {0, 1}, log : DOMAIN Feed]
KeysOf(c, n) == {[number |-> n, fork |-> c[n].fork, log |-> l] : l \in c[n].logs}
KeysFrom(c, from) == UNION {KeysOf(c, n) : n \in {m \in DOMAIN c : m >= from}}
OnChain == KeysFrom(chain, 1)

BroadcasterTypeOK ==
  /\ chain \in Seq([fork : {0, 1}, logs : SUBSET DOMAIN Feed]) /\ Height <= MaxBlock
  /\ phase \in {"down", "subscribe", "backfill", "loop"} /\ sub \in BOOLEAN
  /\ missing \in Nat \cup {Null} /\ backfillFrom \in Nat \cup {Null}
  /\ raw \in Seq([removed : BOOLEAN, key : Key]) /\ live \in Seq([removed : BOOLEAN, key : Key])
  /\ head \in Nat \cup {Null}
  /\ pool \subseteq Key /\ heap \subseteq 1 .. MaxBlock /\ \A k \in pool : k.number \in heap
  /\ rows \subseteq Key /\ consumed \subseteq rows
  /\ pendingMin \in Nat \cup {Null} /\ savedHead \in Nat
  /\ inbox \in Seq(Key) /\ Len(inbox) <= Capacity
  /\ world \in Worlds /\ used \subseteq world.faults

\* the process was started on a new chain with an empty database
BroadcasterInit ==
  /\ chain = <<>> /\ phase = "subscribe" /\ sub = FALSE /\ missing = 1
  /\ raw = <<>> /\ live = <<>> /\ backfillFrom = 0 /\ head = Null
  /\ pool = {} /\ heap = {} /\ rows = {} /\ consumed = {}
  /\ pendingMin = Null /\ savedHead = 0 /\ inbox = <<>>
  /\ world \in Worlds /\ used = {}

Fault(kind) == kind \in world.faults \ used /\ used' = used \cup {kind}
NoFault == used' = used
AtLeast0(n) == IF n < 0 THEN 0 ELSE n
\* the lesser of two block numbers, either of which may be missing
Lesser(m, n) == IF m = Null THEN n ELSE IF n = Null THEN m ELSE Min({m, n})
LeastOf(numbers) == IF numbers = {} THEN Null ELSE Min(numbers)
Numbers(keys) == {k.number : k \in keys}

\* Faulty variant: the blocks come in any order.
InAnyOrder(keys) == SetToSeqs(keys)

\* every sequence of the keys in which a lower block comes first; a block's own logs, and
\* the blocks of one number, are kept in maps and come in any order
InBlockOrder(keys) ==
  {s \in SetToSeqs(keys) : \A i, j \in DOMAIN s : i < j => s[i].number <= s[j].number}
\* keys as the node lists them: by block, then by position
Before(j, k) == j.number < k.number \/ (j.number = k.number /\ j.log < k.log)
Listed(keys) == CHOOSE s \in SetToSeqs(keys) : \A i, j \in DOMAIN s : i < j => Before(s[i], s[j])
Events(isRemoved, keys) == [i \in 1 .. Cardinality(keys) |-> [removed |-> isRemoved, key |-> Listed(keys)[i]]]

-----------------------------------------------------------------------------
(***************************************************************************)
(* The chain and the node.  Bounds: the chain ends at MaxBlock, logs are   *)
(* in blocks up to LastLogBlock, it reorganises once.  It does not outrun  *)
(* the process: a log that a channel holds is read, and a subscription     *)
(* that broke is replaced, before the chain is more than BackfillDepth     *)
(* blocks further (10 in the code's configuration, some minutes).          *)
(***************************************************************************)
Unread ==
  {e.key.number : e \in {e \in ToSet(raw \o live) : ~e.removed}}
    \cup ({missing} \ {Null})
InTime == phase # "down" => \A n \in Unread : Height < n + BackfillDepth

Emitted(c) == UNION {c[n].logs : n \in DOMAIN c}
\* c with one more block, which carries on the feed
Extensions(c, fork) ==
  LET done == Cardinality(Emitted(c)) IN
  {Append(c, [fork |-> fork, logs |-> done + 1 .. done + k]) :
     k \in {k \in 0 .. MaxPerBlock : done + k <= Len(Feed) /\ (k > 0 => Len(c) < LastLogBlock)}}

\* the head tracker saves a head and hands it to the broadcaster, which keeps the latest
OnNewLongestChain(number) ==
  IF phase = "down" THEN UNCHANGED <<head, savedHead>> ELSE head' = number /\ savedHead' = number

NewBlock ==
  /\ Height < MaxBlock /\ InTime /\ NoFault
  /\ chain' \in Extensions(chain, IF "reorg" \in used THEN 1 ELSE 0)
  /\ live' = IF sub THEN live \o Events(FALSE, KeysFrom(chain', Height + 1)) ELSE live
  /\ OnNewLongestChain(Height + 1)
  /\ UNCHANGED <<phase, sub, missing, raw, backfillFrom, logs, rows, consumed, pendingMin, inbox, world>>

\* the chains with d + 1 blocks of the other fork in place of the last d
Forked(d) ==
  LET kept == SubSeq(chain, 1, Height - d) IN
  {c \in {kept \o new : new \in [1 .. d + 1 -> [fork : {1}, logs : SUBSET DOMAIN Feed]]} :
     \A n \in Len(kept) + 1 .. Len(c) : SubSeq(c, 1, n) \in Extensions(SubSeq(c, 1, n - 1), 1)}

\* d blocks give way to d + 1 others, which have the transactions of the former again
Reorganise(d) ==
  LET from == Height - d + 1 IN
  /\ d <= Height /\ Height < MaxBlock /\ InTime /\ Fault("reorg")
  /\ chain' \in {c \in Forked(d) : Emitted(chain) \subseteq Emitted(c)}
  /\ live' = IF sub THEN live \o Events(TRUE, KeysFrom(chain, from)) \o Events(FALSE, KeysFrom(chain', from))
             ELSE live
  /\ missing' = IF missing = Null THEN Null ELSE Min({missing, from})
  /\ OnNewLongestChain(Height + 1)
  /\ UNCHANGED <<phase, sub, raw, backfillFrom, logs, rows, consumed, pendingMin, inbox, world>>

\* the head at MaxBlock stands for the ones that follow it
LastHead ==
  /\ Height = MaxBlock /\ phase # "down" /\ head = Null /\ NoFault
  /\ OnNewLongestChain(Height)
  /\ UNCHANGED <<chain, phase, sub, missing, raw, live, backfillFrom, logs, rows, consumed, pendingMin, inbox, world>>

\* the connection breaks: what the client has not handed over is lost
Disconnect ==
  /\ phase = "loop" /\ sub /\ Fault("error")
  /\ sub' = FALSE
  /\ \E n \in 0 .. Len(live) :
       /\ live' = SubSeq(live, 1, n)
       /\ missing' = Min({Height + 1} \cup {live[i].key.number : i \in n + 1 .. Len(live)})
  /\ UNCHANGED <<chain, phase, raw, backfillFrom, head, logs, db, inbox, world>>

-----------------------------------------------------------------------------
(***************************************************************************)
(* startResubscribeLoop.  Starting removes the rows that are not consumed  *)
(* and backfills from the least block they and the pending minimum name,   *)
(* or from a margin behind the last head saved.                            *)
(***************************************************************************)
\* Faulty variant: the rows are removed, and the backfill does not go back for them.
ReinitializeForgetting ==
  /\ rows' = consumed
  /\ backfillFrom' = Lesser(pendingMin, AtLeast0(savedHead - Confirmations - BackfillDepth))
  /\ UNCHANGED <<consumed, pendingMin, savedHead>>

Reinitialize ==
  LET minUnconsumed == LeastOf(Numbers(rows \ consumed)) IN
  /\ pendingMin' = Lesser(pendingMin, minUnconsumed)
  /\ rows' = consumed
  /\ backfillFrom' = Lesser(pendingMin', AtLeast0(savedHead - Confirmations - BackfillDepth))
  /\ UNCHANGED <<consumed, savedHead>>

StartBroadcaster ==
  /\ phase = "down" /\ phase' = "subscribe" /\ NoFault
  /\ Reinitialize
  /\ missing' = Height + 1
  /\ UNCHANGED <<chain, sub, raw, live, head, logs, inbox, world>>

\* the process stops, and everything that is not in the database is lost
StopBroadcaster ==
  /\ phase # "down" /\ phase' = "down" /\ \E s \in Stops : Fault(s)
  /\ sub' = FALSE /\ missing' = Null /\ raw' = <<>> /\ live' = <<>> /\ backfillFrom' = Null /\ head' = Null
  /\ pool' = {} /\ heap' = {} /\ inbox' = <<>>
  /\ UNCHANGED <<chain, db, world>>

\* what is left of the last subscription stays to be read before anything of the new one
CreateSubscription ==
  /\ phase = "subscribe" /\ phase' = "backfill" /\ NoFault
  /\ sub' = TRUE /\ raw' = raw \o live /\ live' = <<>>
  /\ UNCHANGED <<chain, missing, backfillFrom, head, logs, db, inbox, world>>

\* a backfill that gives up forgets where it was to start, and the loop goes on without it
BackfillLogs ==
  LET from == IF backfillFrom # Null THEN backfillFrom ELSE AtLeast0(Height - BackfillDepth) IN
  /\ phase = "backfill" /\ phase' = "loop"
  /\ \/ raw' = raw \o Events(FALSE, KeysFrom(chain, from)) /\ NoFault
     \/ UNCHANGED raw /\ Fault("giveup")
  /\ backfillFrom' = Null /\ missing' = Null
  /\ UNCHANGED <<chain, sub, live, head, logs, db, inbox, world>>

\* the event loop learns of the broken connection; "removed" logs may be lost: the pool is dropped
SubscriptionError ==
  /\ phase = "loop" /\ ~sub /\ phase' = "subscribe" /\ NoFault
  /\ backfillFrom' = LeastOf(heap) /\ pool' = {} /\ heap' = {}
  /\ UNCHANGED <<chain, sub, missing, raw, live, head, db, inbox, world>>

-----------------------------------------------------------------------------
(***************************************************************************)
(* The event loop.  A log that is removed takes its whole block out of the *)
(* pool, the block's number stays in the heap; one that is the lowest of   *)
(* the heap is remembered as the pending minimum.                          *)
(***************************************************************************)
AddLog(key) ==
  /\ pool' = pool \cup {key} /\ heap' = heap \cup {key.number}
  /\ pendingMin' = IF \A n \in heap : key.number < n THEN key.number ELSE pendingMin

\* Faulty variant: the number of the block goes with it, though a block of the other fork may have it.
RemoveBlockAndNumber(key) ==
  /\ pool' = {k \in pool : k.number # key.number \/ k.fork # key.fork}
  /\ heap' = heap \ {key.number} /\ UNCHANGED pendingMin

RemoveBlock(key) ==
  /\ pool' = {k \in pool : k.number # key.number \/ k.fork # key.fork}
  /\ UNCHANGED <<heap, pendingMin>>

OnNewLog ==
  LET rawLog == Head(raw \o live) IN
  /\ phase = "loop" /\ raw \o live # <<>> /\ NoFault
  /\ IF raw # <<>> THEN raw' = Tail(raw) /\ UNCHANGED live ELSE live' = Tail(live) /\ UNCHANGED raw
  /\ IF rawLog.removed THEN RemoveBlock(rawLog.key) ELSE AddLog(rawLog.key)
  /\ UNCHANGED <<chain, phase, sub, missing, backfillFrom, head, rows, consumed, savedHead, inbox, world>>

\* the mailbox drops its oldest when it is full
Deliver(mailbox, items) ==
  LET all == mailbox \o items IN SubSeq(all, 1 + AtLeast0(Len(all) - Capacity), Len(all))

\* a log of the pool is sent at every head from its confirmation until it is consumed
LogsToSend ==
  {k \in pool : k.number <= head /\ Confirmations <= head /\ k.number + Confirmations - 1 <= head} \ consumed

\* Faulty variant: a row is only made when the log is consumed.
SendLogsUnrecorded ==
  /\ \E sent \in InBlockOrder(LogsToSend) : inbox' = Deliver(inbox, sent)
  /\ UNCHANGED rows

SendLogs ==
  /\ rows' = rows \cup LogsToSend
  /\ \E sent \in InBlockOrder(LogsToSend) : inbox' = Deliver(inbox, sent)

DeleteOlderLogs ==
  LET keptDepth == AtLeast0(head - Max({FinalityDepth, Confirmations})) IN
  /\ pool' = {k \in pool : k.number >= keptDepth}
  /\ heap' = {n \in heap : n >= keptDepth}
  /\ pendingMin' = LeastOf(heap')

OnNewHeads ==
  /\ phase = "loop" /\ head # Null /\ head' = Null /\ NoFault
  /\ SendLogs /\ DeleteOlderLogs
  /\ UNCHANGED <<chain, phase, sub, missing, raw, live, backfillFrom, consumed, savedHead, world>>

EventLoop == SubscriptionError \/ OnNewLog \/ OnNewHeads
Resubscribe == CreateSubscription \/ BackfillLogs
Environment == NewBlock \/ (\E d \in 1 .. ReorgDepth : Reorganise(d)) \/ LastHead \/ Disconnect
=============================================================================
