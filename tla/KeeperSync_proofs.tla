--------------------------- MODULE KeeperSync_proofs ---------------------------
(***************************************************************************)
(* What the database keeps of the logs, and how often a handler runs: for  *)
(* every chain, feed, set of faults and size of the mailbox.               *)
(***************************************************************************)
EXTENDS KeeperSync, FiniteSetTheorems, SequenceTheorems, TLAPS

-----------------------------------------------------------------------------
(***************************************************************************)
(* What is sent is a sequence of the logs to send.                         *)
(***************************************************************************)
LEMMA InBlockOrderIsSeq ==
  ASSUME NEW keys, IsFiniteSet(keys), NEW s \in InBlockOrder(keys)
  PROVE  s \in Seq(keys)
<1>1. Cardinality(keys) \in Nat
  BY FS_CardinalityType
<1>2. s \in [1 .. Cardinality(keys) -> keys]
  BY DEF InBlockOrder, SetToSeqs
<1>3. QED
  BY <1>1, <1>2

(***************************************************************************)
(* The mailbox holds nothing but what it held and what was delivered.      *)
(***************************************************************************)
LEMMA DeliverIsSeq ==
  ASSUME NEW S, NEW mailbox \in Seq(S), NEW items \in Seq(S)
  PROVE  Deliver(mailbox, items) \in Seq(S)
<1> DEFINE all == mailbox \o items
           from == 1 + AtLeast0(Len(all) - Capacity)
<1>1. all \in Seq(S) /\ Len(all) \in Nat
  BY ConcatProperties, LenProperties
<1>2. from \in Int /\ from >= 1
  BY <1>1, LogBroadcasterAssumption DEF AtLeast0
<1> HIDE DEF all, from
<1>3. \A i \in from .. Len(all) : all[i] \in S
  BY <1>1, <1>2, ElementOfSeq
<1>4. SubSeq(all, from, Len(all)) \in Seq(S)
  BY <1>1, <1>2, <1>3, SubSeqProperties
<1>5. QED
  BY <1>4 DEF Deliver, all, from

-----------------------------------------------------------------------------
(***************************************************************************)
(* The strengthening: what the listener holds are sequences of logs with a *)
(* row, and it holds nothing when the process is down, which is when rows  *)
(* are removed.  The pool has to be finite to be listed.                   *)
(***************************************************************************)
Held ==
  /\ IsFiniteSet(pool)
  /\ inbox \in Seq(rows) /\ batch \in Seq(rows)
  /\ phase = "down" => inbox = <<>> /\ batch = <<>>
  /\ step = "mark" => batch # <<>>

LEMMA HeldInit == Init => Held
  BY FS_EmptySet, EmptySeq DEF Init, BroadcasterInit, Held

LEMMA HeldStartStop ==
  ASSUME Held, Start \/ Stop
  PROVE  Held'
<1>1. CASE Start
  <2>1. inbox' = <<>> /\ batch' = <<>> /\ pool' = pool /\ step' = "full sync"
    BY <1>1 DEF Start, StartBroadcaster, logs, Held
  <2>2. inbox' \in Seq(rows') /\ batch' \in Seq(rows')
    BY <2>1, EmptySeq
  <2>3. QED
    BY <2>1, <2>2 DEF Held
<1>2. CASE Stop
  <2>1. inbox' = <<>> /\ batch' = <<>> /\ pool' = {} /\ step' = "down"
    BY <1>2 DEF Stop, StopBroadcaster
  <2>2. inbox' \in Seq(rows') /\ batch' \in Seq(rows')
    BY <2>1, EmptySeq
  <2>3. QED
    BY <2>1, <2>2, FS_EmptySet DEF Held
<1>3. QED
  BY <1>1, <1>2

LEMMA HeldBroadcaster ==
  ASSUME Held, Broadcaster
  PROVE  Held'
<1>1. batch' = batch /\ step' = step
  BY DEF Broadcaster, syncVars
<1>2. CASE OnNewHeads
  <2> DEFINE toSend == LogsToSend
  <2>1. IsFiniteSet(toSend) /\ IsFiniteSet(pool')
    BY <1>2, FS_Subset DEF OnNewHeads, DeleteOlderLogs, LogsToSend, Held
  <2>2. PICK sent \in InBlockOrder(toSend) : inbox' = Deliver(inbox, sent)
    BY <1>2 DEF OnNewHeads, SendLogs
  <2>3. rows' = rows \cup toSend /\ phase' # "down"
    BY <1>2 DEF OnNewHeads, SendLogs
  <2> HIDE DEF toSend
  <2>4. sent \in Seq(toSend)
    BY <2>1, InBlockOrderIsSeq
  <2>5. sent \in Seq(rows') /\ inbox \in Seq(rows') /\ batch \in Seq(rows')
    BY <2>3, <2>4, SeqMonotonic DEF Held
  <2>6. inbox' \in Seq(rows')
    BY <2>2, <2>5, DeliverIsSeq
  <2>7. QED
    BY <1>1, <2>1, <2>3, <2>5, <2>6 DEF Held
<1>3. CASE OnNewLog
  <2>1. IsFiniteSet(pool')
    <3> DEFINE key == Head(raw \o live).key
    <3>1. CASE RemoveBlock(key)
      BY <3>1, FS_Subset DEF RemoveBlock, Held
    <3>2. CASE AddLog(key)
      BY <3>2, FS_AddElement DEF AddLog, Held
    <3>3. QED
      BY <1>3, <3>1, <3>2 DEF OnNewLog
  <2>2. QED
    BY <1>1, <1>3, <2>1 DEF OnNewLog, Held
<1>4. CASE SubscriptionError
  BY <1>1, <1>4, FS_EmptySet DEF SubscriptionError, db, Held
<1>5. CASE Resubscribe
  BY <1>1, <1>5 DEF Resubscribe, CreateSubscription, BackfillLogs, logs, db, Held
<1>6. QED
  BY <1>2, <1>3, <1>4, <1>5 DEF Broadcaster, EventLoop

LEMMA HeldSynchronizer ==
  ASSUME Held, Synchronizer
  PROVE  Held'
<1>1. phase' = phase /\ pool' = pool
  BY DEF Synchronizer, connection, logs
<1>2. CASE FullSync
  BY <1>1, <1>2 DEF FullSync, SyncRegistry, FullSyncUpkeeps, Held
<1>3. CASE RetrieveAll
  BY <1>1, <1>3, EmptySeq DEF RetrieveAll, Held
<1>4. CASE Skip
  <2>1. batch' \in Seq(rows')
    BY <1>4, HeadTailProperties DEF Skip, Held
  <2>2. QED
    BY <1>1, <1>4, <2>1 DEF Skip, Held
<1>5. CASE Handle
  BY <1>1, <1>5 DEF Handle, Held
<1>6. CASE MarkConsumed
  <2>1. Head(batch) \in rows /\ Tail(batch) \in Seq(rows)
    BY <1>6, HeadTailProperties DEF MarkConsumed, Held
  <2>2. rows' = rows
    BY <1>6, <2>1 DEF MarkConsumed
  <2>3. QED
    BY <1>1, <1>6, <2>1, <2>2 DEF MarkConsumed, Held
<1>7. QED
  BY <1>2, <1>3, <1>4, <1>5, <1>6 DEF Synchronizer, ProcessLogs

LEMMA HeldSurroundings ==
  ASSUME Held, Surroundings
  PROVE  Held'
  BY DEF Surroundings, Environment, NewBlock, Reorganise, LastHead, Disconnect,
         syncVars, logs, db, Held

LEMMA HeldStep == Held /\ [Next]_vars => Held'
<1>1. ASSUME Held, UNCHANGED vars PROVE Held'
  BY <1>1 DEF Held, vars, broadcasterVars, connection, logs, db, syncVars
<1>2. QED
  BY <1>1, HeldStartStop, HeldBroadcaster, HeldSynchronizer, HeldSurroundings DEF Next

(***************************************************************************)
(* A log that has been handed to the listener has a row in the database    *)
(* until it is consumed, so a restart knows of it: whatever the mailbox    *)
(* drops, however often heads, reorganisations and restarts come.          *)
(***************************************************************************)
THEOREM NothingForgotten == Spec => []DeliveredHasRow
<1>1. Held => DeliveredHasRow
  <2> SUFFICES ASSUME Held PROVE DeliveredHasRow
    OBVIOUS
  <2>1. ToSet(inbox) \subseteq rows
    BY ElementOfSeq, LenProperties DEF Held, ToSet
  <2>2. ToSet(batch) \subseteq rows
    BY ElementOfSeq, LenProperties DEF Held, ToSet
  <2>3. QED
    BY <2>1, <2>2 DEF DeliveredHasRow
<1>2. QED
  BY <1>1, HeldInit, HeldStep, PTL DEF Spec

-----------------------------------------------------------------------------
(***************************************************************************)
(* Logs a handler has run for, that are not consumed and that no handler   *)
(* is at work on: a stop came between the handler and MarkConsumed.  Each  *)
(* stop makes at most one such log, and each repeat takes one.             *)
(***************************************************************************)
InHand == IF step = "mark" THEN {Head(batch)} ELSE {}
Lost == handled \ (consumed \cup InHand)
Stopped == used \cap Stops

LostCounted ==
  /\ IsFiniteSet(Lost) /\ repeats \in Nat
  /\ Cardinality(Lost) + repeats <= Cardinality(Stopped)

LEMMA StoppedFinite == IsFiniteSet(Stopped) /\ Cardinality(Stopped) \in Nat
<1>1. IsFiniteSet(Stops)
  <2>1. Stops = {"stop"} \cup {"stop again"}
    BY DEF Stops
  <2>2. QED
    BY <2>1, FS_Singleton, FS_Union
<1>2. QED
  BY <1>1, FS_Subset, FS_CardinalityType DEF Stopped

(***************************************************************************)
(* Only Stop uses up one of the stops.                                     *)
(***************************************************************************)
LEMMA StoppedStays ==
  ASSUME Next, ~Stop
  PROVE  Stopped' = Stopped
<1>1. "rpc" \notin Stops /\ "error" \notin Stops /\ "giveup" \notin Stops /\ "reorg" \notin Stops
  BY DEF Stops
<1>2. \A kind : (Fault(kind) /\ kind \notin Stops) => Stopped' = Stopped
  BY DEF Fault, Stopped
<1>3. NoFault => Stopped' = Stopped
  BY DEF NoFault, Stopped
<1>4. CASE Start
  BY <1>3, <1>4 DEF Start, StartBroadcaster
<1>5. CASE Broadcaster
  BY <1>1, <1>2, <1>3, <1>5 DEF Broadcaster, EventLoop, Resubscribe, SubscriptionError, OnNewLog,
     OnNewHeads, CreateSubscription, BackfillLogs
<1>6. CASE Synchronizer
  <2>1. CASE FullSync
    BY <1>1, <1>2, <1>3, <2>1 DEF FullSync, SyncRegistry, FullSyncUpkeeps
  <2>2. CASE ProcessLogs
    BY <1>1, <1>2, <1>3, <2>2 DEF ProcessLogs, RetrieveAll, Skip, Handle, Handler, MarkConsumed
  <2>3. QED
    BY <1>6, <2>1, <2>2 DEF Synchronizer
<1>7. CASE Surroundings
  BY <1>1, <1>2, <1>3, <1>7 DEF Surroundings, Environment, NewBlock, Reorganise, LastHead, Disconnect
<1>8. QED
  BY <1>4, <1>5, <1>6, <1>7 DEF Next

LEMMA LostInit == Init => LostCounted
<1> SUFFICES ASSUME Init PROVE LostCounted
  OBVIOUS
<1>1. Lost = {} /\ repeats = 0
  BY DEF Init, Lost
<1>2. QED
  BY <1>1, FS_EmptySet, StoppedFinite DEF LostCounted

(***************************************************************************)
(* Steps that neither handle a log, nor mark one, nor stop.                *)
(***************************************************************************)
LEMMA LostUntouched ==
  ASSUME LostCounted, Lost' = Lost, repeats' = repeats, Stopped' = Stopped
  PROVE  LostCounted'
  BY DEF LostCounted

LEMMA LostStop ==
  ASSUME LostCounted, Stop
  PROVE  LostCounted'
<1>1. PICK s \in Stops : Fault(s)
  BY DEF Stop, StopBroadcaster
<1>2. s \notin Stopped /\ Stopped' = Stopped \cup {s}
  BY <1>1 DEF Fault, Stopped
<1>3. Cardinality(Stopped') = Cardinality(Stopped) + 1
  BY <1>2, StoppedFinite, FS_AddElement
<1> DEFINE kept == Lost \cup {Head(batch)}
<1>4. Lost' \subseteq kept
  BY DEF Stop, StopBroadcaster, db, Lost, InHand
<1>5. IsFiniteSet(kept) /\ Cardinality(kept) <= Cardinality(Lost) + 1 /\ Cardinality(Lost) \in Nat
      /\ Cardinality(kept) \in Nat
  <2>1. IsFiniteSet(Lost)
    BY DEF LostCounted
  <2>2. Cardinality(Lost) \in Nat
    BY <2>1, FS_CardinalityType
  <2>3. /\ IsFiniteSet(kept)
        /\ Cardinality(kept) = IF Head(batch) \in Lost THEN Cardinality(Lost) ELSE Cardinality(Lost) + 1
    BY <2>1, FS_AddElement
  <2>4. QED
    BY <2>2, <2>3
<1> HIDE DEF kept
<1>6. IsFiniteSet(Lost') /\ Cardinality(Lost') <= Cardinality(kept) /\ Cardinality(Lost') \in Nat
  BY <1>4, <1>5, FS_Subset, FS_CardinalityType
<1>7. repeats' = repeats /\ repeats \in Nat /\ Cardinality(Lost) + repeats <= Cardinality(Stopped)
  BY DEF Stop, LostCounted
<1>8. QED
  BY <1>3, <1>5, <1>6, <1>7, StoppedFinite DEF LostCounted

LEMMA LostHandle ==
  ASSUME LostCounted, Handle, Stopped' = Stopped, consumed' = consumed
  PROVE  LostCounted'
<1> DEFINE key == Head(batch)
<1>1. key \notin consumed /\ step = "idle" /\ step' = "mark" /\ batch' = batch
  BY DEF Handle, WasAlreadyConsumed
<1>2. handled' = handled \cup {key} /\ repeats' = repeats + (IF key \in handled THEN 1 ELSE 0)
  BY DEF Handle
<1>3. Lost = handled \ consumed /\ Lost' = Lost \ {key}
  BY <1>1, <1>2 DEF Lost, InHand
<1>4. IsFiniteSet(Lost') /\ Cardinality(Lost) \in Nat
      /\ Cardinality(Lost') = IF key \in Lost THEN Cardinality(Lost) - 1 ELSE Cardinality(Lost)
  BY <1>3, FS_RemoveElement, FS_CardinalityType DEF LostCounted
<1>5. key \in handled <=> key \in Lost
  BY <1>1, <1>3
<1>6. repeats \in Nat /\ Cardinality(Lost) + repeats <= Cardinality(Stopped)
  BY DEF LostCounted
<1> HIDE DEF key
<1>7. repeats' \in Nat /\ Cardinality(Lost') + repeats' = Cardinality(Lost) + repeats
  BY <1>2, <1>4, <1>5, <1>6
<1>8. QED
  BY <1>4, <1>6, <1>7 DEF LostCounted

LEMMA LostStep == Held /\ LostCounted /\ [Next]_vars => LostCounted'
<1> SUFFICES ASSUME Held, LostCounted, [Next]_vars PROVE LostCounted'
  OBVIOUS
<1>1. CASE UNCHANGED vars
  BY <1>1 DEF vars, broadcasterVars, syncVars, db, LostCounted, Lost, InHand, Stopped
<1>2. CASE Start
  <2>1. step # "mark" /\ step' = "full sync" /\ consumed' = consumed
        /\ handled' = handled /\ repeats' = repeats
    BY <1>2 DEF Start, StartBroadcaster, Reinitialize, Held
  <2>2. Lost' = Lost
    BY <2>1 DEF Lost, InHand
  <2>3. Stopped' = Stopped
    BY <1>2 DEF Start, StartBroadcaster, NoFault, Stopped
  <2>4. QED
    BY <2>1, <2>2, <2>3, LostUntouched
<1>3. CASE Stop
  BY <1>3, LostStop
<1>4. CASE ~Stop /\ (Broadcaster \/ Surroundings)
  <2>1. consumed' = consumed
    BY <1>4 DEF Broadcaster, EventLoop, Resubscribe, SubscriptionError, OnNewLog, OnNewHeads,
       CreateSubscription, BackfillLogs, Surroundings, Environment, NewBlock, Reorganise, LastHead,
       Disconnect, db
  <2>2. UNCHANGED <<step, batch, handled, repeats>>
    BY <1>4 DEF Broadcaster, Surroundings, syncVars
  <2>3. Lost' = Lost
    BY <2>1, <2>2 DEF Lost, InHand
  <2>4. QED
    BY <1>4, <2>2, <2>3, StoppedStays, LostUntouched DEF Next
<1>5. CASE ~Stop /\ Synchronizer
  <2>1. Stopped' = Stopped
    BY <1>5, StoppedStays DEF Next
  <2>2. CASE FullSync
    <3>1. step # "mark" /\ step' # "mark" /\ UNCHANGED <<consumed, handled, repeats>>
      BY <2>2 DEF FullSync, SyncRegistry, FullSyncUpkeeps
    <3>2. QED
      BY <2>1, <3>1, LostUntouched DEF Lost, InHand
  <2>3. CASE RetrieveAll \/ Skip
    <3>1. step = "idle" /\ step' = "idle" /\ UNCHANGED <<consumed, handled, repeats>>
      BY <2>3 DEF RetrieveAll, Skip
    <3>2. QED
      BY <2>1, <3>1, LostUntouched DEF Lost, InHand
  <2>4. CASE Handle
    <3>1. consumed' = consumed
      BY <2>4 DEF Handle
    <3>2. QED
      BY <2>1, <2>4, <3>1, LostHandle
  <2>5. CASE MarkConsumed
    <3>1. step = "mark" /\ step' = "idle" /\ consumed' = consumed \cup {Head(batch)}
          /\ UNCHANGED <<handled, repeats>>
      BY <2>5 DEF MarkConsumed
    <3>2. Lost' = Lost
      BY <3>1 DEF Lost, InHand
    <3>3. QED
      BY <2>1, <3>1, <3>2, LostUntouched
  <2>6. QED
    BY <1>5, <2>2, <2>3, <2>4, <2>5 DEF Synchronizer, ProcessLogs
<1>6. QED
  BY <1>1, <1>2, <1>3, <1>4, <1>5 DEF Next

(***************************************************************************)
(* However often a log is sent, a handler runs for it again at most as     *)
(* many times as the process has stopped.                                  *)
(***************************************************************************)
THEOREM RepeatsBounded == Spec => []RepeatedOnlyAfterStop
<1>1. LostCounted => RepeatedOnlyAfterStop
  <2> SUFFICES ASSUME LostCounted PROVE RepeatedOnlyAfterStop
    OBVIOUS
  <2>1. Cardinality(Lost) \in Nat /\ repeats \in Nat
    BY FS_CardinalityType DEF LostCounted
  <2>2. QED
    BY <2>1, StoppedFinite DEF LostCounted, RepeatedOnlyAfterStop, Stopped
<1>2. QED
  BY <1>1, HeldInit, HeldStep, LostInit, LostStep, PTL DEF Spec

-----------------------------------------------------------------------------
(***************************************************************************)
(* Numbers of blocks, any of which may be missing.                         *)
(***************************************************************************)
Number == Nat \cup {Null}

LEMMA LeastNumber ==
  ASSUME NEW S \in SUBSET Nat, S # {}
  PROVE  Min(S) \in S /\ \A j \in S : Min(S) <= j
<1> DEFINE R == OpToRel(<, Nat)
<1>1. PICK x \in S : \A y \in S : ~ (<<y, x>> \in R)
  <2> HIDE DEF R
  <2>1. IsWellFoundedOn(R, Nat)
    BY NatLessThanWellFounded DEF R
  <2>2. QED
    BY <2>1, WFMin
<1>2. ASSUME NEW y \in S PROVE x <= y
  <2>1. ~ (y < x)
    BY <1>1 DEF OpToRel
  <2>2. QED
    BY <2>1
<1>3. QED
  BY <1>2 DEF Min

LEMMA NumbersTyped ==
  /\ \A S \in SUBSET Nat : LeastOf(S) \in Number
  /\ \A m, n \in Number : Lesser(m, n) \in Number
  /\ \A m, n \in Nat : Min({m, n}) \in Nat
  /\ \A n \in Int : AtLeast0(n) \in Nat
<1>1. \A S \in SUBSET Nat : LeastOf(S) \in Number
  BY LeastNumber DEF LeastOf, Number
<1>2. \A m, n \in Nat : Min({m, n}) \in Nat
  <2> TAKE m \in Nat, n \in Nat
  <2>1. {m, n} \in SUBSET Nat /\ {m, n} # {}
    OBVIOUS
  <2>2. QED
    BY <2>1, LeastNumber
<1>3. \A m, n \in Number : Lesser(m, n) \in Number
  BY <1>2 DEF Lesser, Number
<1>4. \A n \in Int : AtLeast0(n) \in Nat
  BY DEF AtLeast0
<1>5. QED
  BY <1>1, <1>2, <1>3, <1>4

(***************************************************************************)
(* The logs of one chain can be listed in order: no two of them have the   *)
(* same block and position.  The least counterexample has a first log, and *)
(* without it what is left is smaller.                                     *)
(***************************************************************************)
Distinguished(keys) ==
  /\ \A k \in keys : k.number \in Nat /\ k.log \in Nat
  /\ \A j, k \in keys : j # k => Before(j, k) \/ Before(k, j)

InOrder(s) == \A i, j \in DOMAIN s : i < j => Before(s[i], s[j])

LEMMA FirstLog ==
  ASSUME NEW keys, Distinguished(keys), keys # {}
  PROVE  \E m \in keys : \A k \in keys \ {m} : Before(m, k)
<1> DEFINE b == Min({k.number : k \in keys})
           positions == {k.log : k \in {k \in keys : k.number = b}}
           l == Min(positions)
<1>1. {k.number : k \in keys} \in SUBSET Nat /\ {k.number : k \in keys} # {}
  BY DEF Distinguished
<1>2. b \in {k.number : k \in keys} /\ \A k \in keys : b <= k.number
  BY <1>1, LeastNumber
<1> HIDE DEF b
<1>3. positions \in SUBSET Nat /\ positions # {}
  BY <1>2 DEF Distinguished
<1>4. l \in positions /\ \A n \in positions : l <= n
  <2> HIDE DEF positions
  <2>1. QED
    BY <1>3, LeastNumber
<1> HIDE DEF l
<1>5. PICK m \in keys : m.number = b /\ m.log = l
  BY <1>4
<1>6. ASSUME NEW k \in keys, k # m
      PROVE  Before(m, k)
  <2>1. k.number \in Nat /\ k.log \in Nat /\ m.number \in Nat /\ m.log \in Nat /\ b <= k.number
    BY <1>2 DEF Distinguished
  <2>2. k.number = b => l <= k.log
    BY <1>4
  <2>3. Before(m, k) \/ Before(k, m)
    BY <1>6 DEF Distinguished
  <2>4. QED
    BY <1>5, <2>1, <2>2, <2>3 DEF Before
<1>7. QED
  BY <1>5, <1>6

LEMMA PutFirst ==
  ASSUME NEW n \in Nat, NEW S, NEW m \in S, NEW t \in [1 .. n -> S \ {m}],
         \A i, j \in 1 .. n : i # j => t[i] # t[j], InOrder(t), \A k \in S \ {m} : Before(m, k)
  PROVE  \E s \in [1 .. n + 1 -> S] : (\A i, j \in 1 .. n + 1 : i # j => s[i] # s[j]) /\ InOrder(s)
<1> DEFINE s == [i \in 1 .. n + 1 |-> IF i = 1 THEN m ELSE t[i - 1]]
<1>1. \A i \in 1 .. n + 1 : i # 1 => i - 1 \in 1 .. n /\ s[i] = t[i - 1] /\ s[i] \in S \ {m}
  OBVIOUS
<1>2. s[1] = m /\ DOMAIN s = 1 .. n + 1 /\ s \in [1 .. n + 1 -> S]
  BY <1>1
<1> HIDE DEF s
<1>3. ASSUME NEW i \in 1 .. n + 1, NEW j \in 1 .. n + 1, i # j
      PROVE  s[i] # s[j]
  BY <1>1, <1>2, <1>3
<1>4. ASSUME NEW i \in 1 .. n + 1, NEW j \in 1 .. n + 1, i < j
      PROVE  Before(s[i], s[j])
  <2>1. j # 1 /\ j - 1 \in 1 .. n /\ s[j] = t[j - 1] /\ s[j] \in S \ {m}
    BY <1>1, <1>4
  <2>2. CASE i = 1
    BY <1>2, <2>1, <2>2
  <2>3. CASE i # 1
    <3>1. i - 1 \in 1 .. n /\ s[i] = t[i - 1] /\ i - 1 < j - 1
      BY <1>1, <1>4, <2>3
    <3>2. QED
      BY <2>1, <3>1 DEF InOrder
  <2>4. QED
    BY <2>2, <2>3
<1>5. QED
  BY <1>2, <1>3, <1>4 DEF InOrder

LEMMA CanBeListed ==
  ASSUME NEW keys, IsFiniteSet(keys), Distinguished(keys)
  PROVE  \E s \in SetToSeqs(keys) : InOrder(s)
<1> DEFINE Bad(S) == ~\E s \in SetToSeqs(S) : InOrder(s)
           sizes == {n \in Nat : \E S \in SUBSET keys : Cardinality(S) = n /\ Bad(S)}
<1>1. SUFFICES ASSUME Bad(keys) PROVE FALSE
  OBVIOUS
<1>2. sizes # {} /\ sizes \in SUBSET Nat
  BY <1>1, FS_CardinalityType
<1>3. PICK n \in sizes : \A j \in sizes : n <= j
  BY <1>2, LeastNumber
<1>4. PICK S \in SUBSET keys : Cardinality(S) = n /\ Bad(S)
  BY <1>3
<1>5. IsFiniteSet(S) /\ Distinguished(S)
  BY FS_Subset DEF Distinguished
<1>6. S # {}
  <2> SUFFICES ASSUME S = {} PROVE FALSE
    OBVIOUS
  <2>1. Cardinality(S) = 0
    BY FS_EmptySet
  <2>2. << >> \in SetToSeqs(S) /\ InOrder(<< >>)
    BY <2>1 DEF SetToSeqs, InOrder
  <2>3. QED
    BY <1>4, <2>2
<1>7. PICK m \in S : \A k \in S \ {m} : Before(m, k)
  BY <1>5, <1>6, FirstLog
<1>8. Cardinality(S \ {m}) = n - 1 /\ n - 1 \in Nat /\ S \ {m} \in SUBSET keys
  <2>1. IsFiniteSet(S \ {m}) /\ Cardinality(S \ {m}) = Cardinality(S) - 1
    BY <1>5, FS_RemoveElement
  <2>2. Cardinality(S \ {m}) \in Nat
    BY <2>1, FS_CardinalityType
  <2>3. QED
    BY <1>4, <2>1, <2>2
<1>9. ~Bad(S \ {m})
  BY <1>3, <1>8
<1>10. PICK t \in [1 .. n - 1 -> S \ {m}] : (\A i, j \in 1 .. n - 1 : i # j => t[i] # t[j]) /\ InOrder(t)
  BY <1>8, <1>9 DEF SetToSeqs
<1>11. (n - 1) + 1 = n
  BY <1>8, <1>2, <1>3
<1>12. \E s \in [1 .. n -> S] : (\A i, j \in 1 .. n : i # j => s[i] # s[j]) /\ InOrder(s)
  BY <1>7, <1>8, <1>10, <1>11, PutFirst
<1>13. QED
  BY <1>4, <1>12 DEF SetToSeqs

LEMMA ListedTyped ==
  ASSUME NEW keys, IsFiniteSet(keys), Distinguished(keys)
  PROVE  Listed(keys) \in [1 .. Cardinality(keys) -> keys] /\ Cardinality(keys) \in Nat
<1>1. \E s \in SetToSeqs(keys) : \A i, j \in DOMAIN s : i < j => Before(s[i], s[j])
  BY CanBeListed DEF InOrder
<1>2. Listed(keys) \in SetToSeqs(keys)
  BY <1>1 DEF Listed
<1>3. QED
  BY <1>2, FS_CardinalityType DEF SetToSeqs

-----------------------------------------------------------------------------
(***************************************************************************)
(* The logs of a chain are typed, finitely many, and can be listed.        *)
(***************************************************************************)
Block == [fork : {0, 1}, logs : SUBSET DOMAIN Feed]
Log == [removed : BOOLEAN, key : Key]
Chain(c) == c \in Seq(Block) /\ Len(c) <= MaxBlock

LEMMA FeedTyped ==
  ASSUME world \in Worlds
  PROVE  /\ Len(Feed) \in Nat /\ DOMAIN Feed = 1 .. Len(Feed)
         /\ \A l \in DOMAIN Feed : Feed[l] \in STRING \X Nat
<1>1. Feed \in Seq(STRING \X Nat)
  BY LogBroadcasterAssumption DEF Feed
<1>2. QED
  BY <1>1, LenProperties, ElementOfSeq

LEMMA KeyFinite ==
  ASSUME world \in Worlds
  PROVE  IsFiniteSet(Key)
<1> DEFINE triples == (1 .. MaxBlock) \X ({0, 1} \X DOMAIN Feed)
           key == [t \in triples |-> [number |-> t[1], fork |-> t[2][1], log |-> t[2][2]]]
<1>1. IsFiniteSet(triples)
  <2>1. IsFiniteSet(DOMAIN Feed) /\ IsFiniteSet(1 .. MaxBlock)
    BY FeedTyped, FS_Interval, LogBroadcasterAssumption
  <2>2. IsFiniteSet({0} \cup {1})
    BY FS_Singleton, FS_Union
  <2>3. {0} \cup {1} = {0, 1}
    OBVIOUS
  <2>4. IsFiniteSet({0, 1} \X DOMAIN Feed)
    BY <2>1, <2>2, <2>3, FS_Product
  <2>5. QED
    BY <2>1, <2>4, FS_Product
<1>2. key \in Surjection(triples, Key)
  <2>1. key \in [triples -> Key]
    BY DEF Key
  <2>2. ASSUME NEW k \in Key
        PROVE  \E t \in triples : key[t] = k
    <3> DEFINE t == <<k.number, <<k.fork, k.log>>>>
    <3>1. t \in triples
      BY DEF Key
    <3>2. key[t] = k
      BY <3>1 DEF Key
    <3>3. QED
      BY <3>1, <3>2
  <2>3. QED
    BY <2>1, <2>2 DEF Surjection
<1>3. QED
  BY <1>1, <1>2, FS_Surjection

LEMMA ChainKeys ==
  ASSUME world \in Worlds, NEW c, Chain(c), NEW from
  PROVE  /\ KeysFrom(c, from) \subseteq Key /\ IsFiniteSet(KeysFrom(c, from))
         /\ Distinguished(KeysFrom(c, from))
<1>1. Len(c) \in Nat /\ DOMAIN c = 1 .. Len(c) /\ \A n \in DOMAIN c : c[n] \in Block
  BY LenProperties, ElementOfSeq DEF Chain
<1>2. ASSUME NEW k \in KeysFrom(c, from)
      PROVE  /\ k.number \in DOMAIN c /\ k.fork = c[k.number].fork /\ k.log \in c[k.number].logs
             /\ k = [number |-> k.number, fork |-> k.fork, log |-> k.log]
  BY <1>2 DEF KeysFrom, KeysOf
<1>3. ASSUME NEW k \in KeysFrom(c, from)
      PROVE  k \in Key /\ k.number \in Nat /\ k.log \in Nat
  <2>1. k.number \in 1 .. MaxBlock /\ k.fork \in {0, 1} /\ k.log \in DOMAIN Feed
    BY <1>1, <1>2, LogBroadcasterAssumption DEF Block, Chain
  <2>2. k \in Key
    BY <1>2, <2>1 DEF Key
  <2>3. QED
    BY <2>1, <2>2, FeedTyped, LogBroadcasterAssumption
<1>4. IsFiniteSet(KeysFrom(c, from))
  BY <1>3, KeyFinite, FS_Subset
<1>5. ASSUME NEW j \in KeysFrom(c, from), NEW k \in KeysFrom(c, from), j # k
      PROVE  Before(j, k) \/ Before(k, j)
  <2>1. j.number # k.number \/ j.log # k.log
    BY <1>2, <1>5
  <2>2. QED
    BY <1>3, <2>1 DEF Before
<1>6. QED
  BY <1>3, <1>4, <1>5 DEF Distinguished

LEMMA EventsTyped ==
  ASSUME world \in Worlds, NEW c, Chain(c), NEW from, NEW removed \in BOOLEAN
  PROVE  Events(removed, KeysFrom(c, from)) \in Seq(Log)
<1> DEFINE keys == KeysFrom(c, from)
<1>1. keys \subseteq Key /\ IsFiniteSet(keys) /\ Distinguished(keys)
  BY ChainKeys
<1> HIDE DEF keys
<1>2. Listed(keys) \in [1 .. Cardinality(keys) -> keys] /\ Cardinality(keys) \in Nat
  BY <1>1, ListedTyped
<1>3. \A i \in 1 .. Cardinality(keys) : [removed |-> removed, key |-> Listed(keys)[i]] \in Log
  BY <1>1, <1>2 DEF Log
<1>4. Events(removed, keys) \in Seq(Log)
  BY <1>2, <1>3 DEF Events
<1>5. QED
  BY <1>4 DEF keys

(***************************************************************************)
(* A block more carries on the feed.                                       *)
(***************************************************************************)
LEMMA EmittedTyped ==
  ASSUME world \in Worlds, NEW c, Chain(c)
  PROVE  Emitted(c) \subseteq DOMAIN Feed /\ Cardinality(Emitted(c)) \in Nat
<1>1. \A n \in DOMAIN c : c[n] \in Block
  BY LenProperties, ElementOfSeq DEF Chain
<1>2. Emitted(c) \subseteq DOMAIN Feed
  BY <1>1 DEF Emitted, Block
<1>3. IsFiniteSet(DOMAIN Feed)
  BY FeedTyped, FS_Interval
<1>4. QED
  BY <1>2, <1>3, FS_Subset, FS_CardinalityType

LEMMA ExtensionTyped ==
  ASSUME world \in Worlds, NEW c, Chain(c), Len(c) < MaxBlock, NEW fork \in {0, 1},
         NEW d \in Extensions(c, fork)
  PROVE  Chain(d)
<1> DEFINE done == Cardinality(Emitted(c))
<1>1. done \in Nat
  BY EmittedTyped
<1> HIDE DEF done
<1>2. PICK k \in 0 .. MaxPerBlock : done + k <= Len(Feed) /\ d = Append(c, [fork |-> fork, logs |-> done + 1 .. done + k])
  BY DEF Extensions, done
<1>3. done + 1 .. done + k \subseteq DOMAIN Feed
  BY <1>1, <1>2, FeedTyped, LogBroadcasterAssumption
<1>4. [fork |-> fork, logs |-> done + 1 .. done + k] \in Block
  BY <1>3 DEF Block
<1>5. d \in Seq(Block) /\ Len(d) = Len(c) + 1
  BY <1>2, <1>4, AppendProperties DEF Chain
<1>6. QED
  BY <1>5, LenProperties, LogBroadcasterAssumption DEF Chain

LEMMA ForkedTyped ==
  ASSUME world \in Worlds, Chain(chain), Height < MaxBlock, NEW d \in Nat, d <= Height,
         NEW c \in Forked(d)
  PROVE  Chain(c)
<1> DEFINE kept == SubSeq(chain, 1, Height - d)
<1>1. Height \in Nat /\ \A n \in 1 .. Height - d : chain[n] \in Block
  BY LenProperties, ElementOfSeq DEF Chain, Height
<1>2. kept \in Seq(Block) /\ Len(kept) = Height - d
  BY <1>1, SubSeqProperties
<1> HIDE DEF kept
<1>3. PICK new \in [1 .. d + 1 -> [fork : {1}, logs : SUBSET DOMAIN Feed]] : c = kept \o new
  BY DEF Forked, kept
<1>4. new \in Seq(Block) /\ Len(new) = d + 1
  <2>1. \A n \in 1 .. d + 1 : new[n] \in Block
    BY DEF Block
  <2>2. new = [n \in 1 .. d + 1 |-> new[n]]
    OBVIOUS
  <2>3. QED
    BY <2>1, <2>2
<1>5. c \in Seq(Block) /\ Len(c) = Height + 1
  <2>1. c \in Seq(Block) /\ Len(c) = Len(kept) + Len(new)
    BY <1>2, <1>3, <1>4, ConcatProperties
  <2>2. (Height - d) + (d + 1) = Height + 1
    BY <1>1
  <2>3. QED
    BY <1>2, <1>4, <2>1, <2>2
<1>6. QED
  BY <1>1, <1>5, LogBroadcasterAssumption DEF Chain

-----------------------------------------------------------------------------
(***************************************************************************)
(* The type invariant in parts: the chain, what is on its way to the event *)
(* loop, the pool, the database and the mailbox, and the synchronizer.     *)
(***************************************************************************)
ChainTyped == Chain(chain)
WireTyped ==
  /\ phase \in {"down", "subscribe", "backfill", "loop"} /\ sub \in BOOLEAN
  /\ missing \in Number /\ backfillFrom \in Number /\ head \in Number
  /\ raw \in Seq(Log) /\ live \in Seq(Log)
PoolTyped ==
  /\ pool \subseteq Key /\ heap \subseteq 1 .. MaxBlock /\ (\A k \in pool : k.number \in heap)
  /\ pendingMin \in Number
StoreTyped ==
  /\ rows \subseteq Key /\ consumed \subseteq rows /\ savedHead \in Nat
  /\ inbox \in Seq(Key) /\ Len(inbox) <= Capacity
WorldTyped == world \in Worlds /\ used \subseteq world.faults
ListenerTyped ==
  /\ registry \in BOOLEAN /\ table \subseteq Upkeeps /\ active \subseteq Upkeeps
  /\ step \in {"down", "full sync", "upkeeps", "idle", "mark"}
  /\ batch \in Seq(Key) /\ (step = "mark" => batch # <<>>)
  /\ handled \subseteq Key /\ repeats \in Nat

LEMMA TypeParts ==
  SyncTypeOK <=> ChainTyped /\ WireTyped /\ PoolTyped /\ StoreTyped /\ WorldTyped /\ ListenerTyped
  BY DEF SyncTypeOK, BroadcasterTypeOK, ChainTyped, WireTyped, PoolTyped, StoreTyped, WorldTyped,
     ListenerTyped, Chain, Block, Log, Number, Height

(***************************************************************************)
(* The feed and the faults to come are settled at the start.               *)
(***************************************************************************)
SameFeed == world' = world /\ Feed' = Feed /\ Key' = Key /\ Block' = Block /\ Log' = Log /\ Upkeeps' = Upkeeps

LEMMA WorldStays ==
  ASSUME [Next]_vars
  PROVE  SameFeed
<1>1. world' = world
  BY DEF Next, vars, broadcasterVars, Start, Stop, Broadcaster, Synchronizer, Surroundings, EventLoop,
     Resubscribe, Environment, StartBroadcaster, StopBroadcaster, CreateSubscription, BackfillLogs,
     SubscriptionError, OnNewLog, OnNewHeads, NewBlock, Reorganise, LastHead, Disconnect
<1>2. Feed' = Feed
  BY <1>1 DEF Feed
<1>3. Key' = Key /\ Block' = Block /\ Upkeeps' = Upkeeps
  BY <1>2 DEF Key, Block, Upkeeps
<1>4. Log' = Log
  BY <1>3 DEF Log
<1>5. QED
  BY <1>1, <1>2, <1>3, <1>4 DEF SameFeed

LEMMA UsedTyped ==
  ASSUME WorldTyped, world' = world, NoFault \/ \E kind : Fault(kind)
  PROVE  WorldTyped'
  BY DEF WorldTyped, NoFault, Fault

(***************************************************************************)
(* A part whose variables stay.                                            *)
(***************************************************************************)
LEMMA PartsKept ==
  ASSUME SameFeed
  PROVE  /\ ChainTyped /\ UNCHANGED chain => ChainTyped'
         /\ WireTyped /\ UNCHANGED connection => WireTyped'
         /\ PoolTyped /\ UNCHANGED <<logs, pendingMin>> => PoolTyped'
         /\ StoreTyped /\ UNCHANGED <<rows, consumed, savedHead, inbox>> => StoreTyped'
         /\ ListenerTyped /\ UNCHANGED syncVars => ListenerTyped'
<1>1. ChainTyped /\ UNCHANGED chain => ChainTyped'
  BY DEF SameFeed, ChainTyped, Chain
<1>2. WireTyped /\ UNCHANGED connection => WireTyped'
  BY DEF SameFeed, WireTyped, connection
<1>3. PoolTyped /\ UNCHANGED <<logs, pendingMin>> => PoolTyped'
  BY DEF SameFeed, PoolTyped, logs
<1>4. StoreTyped /\ UNCHANGED <<rows, consumed, savedHead, inbox>> => StoreTyped'
  BY DEF SameFeed, StoreTyped
<1>5. ListenerTyped /\ UNCHANGED syncVars => ListenerTyped'
  BY DEF SameFeed, ListenerTyped, syncVars
<1>6. QED
  BY <1>1, <1>2, <1>3, <1>4, <1>5

LEMMA TypedInit == Init => SyncTypeOK
<1> SUFFICES ASSUME Init PROVE SyncTypeOK
  OBVIOUS
<1>0. 0 <= MaxBlock /\ 0 <= Capacity /\ 0 \in Nat /\ \A S : << >> \in Seq(S) /\ Len(<< >>) = 0
  BY EmptySeq, LogBroadcasterAssumption
<1>1. ChainTyped
  BY <1>0, Zenon DEF Init, BroadcasterInit, ChainTyped, Chain
<1>2. WireTyped
  BY <1>0 DEF Init, BroadcasterInit, WireTyped, Number, Null
<1>3. PoolTyped
  BY DEF Init, BroadcasterInit, PoolTyped, Number
<1>4. StoreTyped
  BY <1>0, Zenon DEF Init, BroadcasterInit, StoreTyped
<1>5. WorldTyped
  BY DEF Init, BroadcasterInit, WorldTyped
<1>6. ListenerTyped
  BY <1>0 DEF Init, BroadcasterInit, ListenerTyped
<1>7. QED
  BY <1>1, <1>2, <1>3, <1>4, <1>5, <1>6, TypeParts

-----------------------------------------------------------------------------
(***************************************************************************)
(* The chain and the node.                                                 *)
(***************************************************************************)
Typed == ChainTyped /\ WireTyped /\ PoolTyped /\ StoreTyped /\ WorldTyped /\ ListenerTyped

LEMMA HeightTyped ==
  ASSUME ChainTyped
  PROVE  Height \in Nat /\ Height <= MaxBlock
  BY LenProperties DEF ChainTyped, Chain, Height

LEMMA HeadTyped ==
  ASSUME WireTyped, StoreTyped, NEW n \in Nat, OnNewLongestChain(n)
  PROVE  head' \in Number /\ savedHead' \in Nat
  BY DEF WireTyped, StoreTyped, OnNewLongestChain, Number

LEMMA GrowthTyped ==
  ASSUME Typed, SameFeed, NewBlock \/ \E d \in 1 .. ReorgDepth : Reorganise(d)
  PROVE  ChainTyped' /\ WireTyped' /\ StoreTyped'
<1>1. Height \in Nat /\ world \in Worlds /\ MaxBlock \in Nat
  BY HeightTyped, LogBroadcasterAssumption DEF Typed, WorldTyped
<1>2. OnNewLongestChain(Height + 1)
  BY DEF NewBlock, Reorganise
<1>3. head' \in Number /\ savedHead' \in Nat
  BY <1>1, <1>2, HeadTyped DEF Typed
<1>4. Chain(chain')
  <2>1. CASE NewBlock
    <3>1. PICK fork \in {0, 1} : chain' \in Extensions(chain, fork)
      BY <2>1 DEF NewBlock
    <3>2. Len(chain) < MaxBlock
      BY <2>1 DEF NewBlock, Height
    <3>3. QED
      BY <1>1, <3>1, <3>2, ExtensionTyped DEF Typed, ChainTyped
  <2>2. ASSUME NEW d \in 1 .. ReorgDepth, Reorganise(d)
        PROVE  Chain(chain')
    <3>1. d \in Nat /\ d <= Height /\ Height < MaxBlock /\ chain' \in Forked(d)
      BY <2>2, LogBroadcasterAssumption DEF Reorganise
    <3>2. QED
      BY <1>1, <3>1, ForkedTyped DEF Typed, ChainTyped
  <2>3. QED
    BY <2>1, <2>2
<1>5. live' \in Seq(Log)
  <2>1. live \in Seq(Log)
    BY DEF Typed, WireTyped
  <2>2. \A from : /\ Events(FALSE, KeysFrom(chain', from)) \in Seq(Log)
                  /\ Events(TRUE, KeysFrom(chain, from)) \in Seq(Log)
    BY <1>1, <1>4, EventsTyped DEF Typed, ChainTyped
  <2>3. CASE NewBlock
    BY <2>1, <2>2, <2>3, ConcatProperties DEF NewBlock
  <2>4. ASSUME NEW d \in 1 .. ReorgDepth, Reorganise(d)
        PROVE  live' \in Seq(Log)
    <3> DEFINE from == Height - d + 1
               gone == Events(TRUE, KeysFrom(chain, from))
               new == Events(FALSE, KeysFrom(chain', from))
    <3>1. gone \in Seq(Log) /\ new \in Seq(Log) /\ live' \in {live, live \o gone \o new}
      BY <2>2, <2>4 DEF Reorganise
    <3> HIDE DEF gone, new
    <3>2. live \o gone \in Seq(Log)
      BY <2>1, <3>1, ConcatProperties
    <3>3. live \o gone \o new \in Seq(Log)
      BY <3>1, <3>2, ConcatProperties
    <3>4. QED
      BY <2>1, <3>1, <3>3
  <2>5. QED
    BY <2>3, <2>4
<1>6. missing' \in Number
  <2>1. CASE NewBlock
    BY <2>1 DEF NewBlock, Typed, WireTyped
  <2>2. ASSUME NEW d \in 1 .. ReorgDepth, Reorganise(d)
        PROVE  missing' \in Number
    <3>1. d \in Nat /\ d <= Height
      BY <2>2, LogBroadcasterAssumption DEF Reorganise
    <3>2. Height - d + 1 \in Nat
      BY <1>1, <3>1
    <3>3. missing' = IF missing = Null THEN Null ELSE Min({missing, Height - d + 1})
      BY <2>2 DEF Reorganise
    <3>4. missing \in Number
      BY DEF Typed, WireTyped
    <3>5. QED
      BY <3>2, <3>3, <3>4, NumbersTyped DEF Number
  <2>3. QED
    BY <2>1, <2>2
<1>7. ChainTyped'
  BY <1>4 DEF ChainTyped, Chain, SameFeed
<1>8. WireTyped'
  <2>1. UNCHANGED <<phase, sub, raw, backfillFrom>>
    BY DEF NewBlock, Reorganise
  <2>2. QED
    BY <1>3, <1>5, <1>6, <2>1 DEF SameFeed, Typed, WireTyped
<1>9. StoreTyped'
  <2>1. UNCHANGED <<rows, consumed, inbox>>
    BY DEF NewBlock, Reorganise
  <2>2. QED
    BY <1>3, <2>1 DEF SameFeed, Typed, StoreTyped
<1>10. QED
  BY <1>7, <1>8, <1>9

LEMMA DisconnectTyped ==
  ASSUME Typed, SameFeed, Disconnect
  PROVE  WireTyped'
<1>1. Height \in Nat /\ live \in Seq(Log) /\ Len(live) \in Nat
  BY HeightTyped, LenProperties DEF Typed, WireTyped
<1>2. PICK n \in 0 .. Len(live) :
        /\ live' = SubSeq(live, 1, n)
        /\ missing' = Min({Height + 1} \cup {live[i].key.number : i \in n + 1 .. Len(live)})
  BY DEF Disconnect
<1>3. \A i \in 1 .. Len(live) : live[i] \in Log /\ live[i].key.number \in Nat
  <2>1. \A i \in 1 .. Len(live) : live[i] \in Log
    BY <1>1, ElementOfSeq
  <2>2. QED
    BY <2>1, LogBroadcasterAssumption DEF Log, Key
<1>4. live' \in Seq(Log)
  BY <1>1, <1>2, <1>3, SubSeqProperties
<1>5. missing' \in Nat
  <2> DEFINE lost == {Height + 1} \cup {live[i].key.number : i \in n + 1 .. Len(live)}
  <2>1. lost \in SUBSET Nat /\ lost # {}
    BY <1>1, <1>3
  <2>2. QED
    <3> HIDE DEF lost
    <3>1. Min(lost) \in Nat
      BY <2>1, LeastNumber
    <3>2. QED
      BY <1>2, <3>1 DEF lost
<1>6. QED
  BY <1>4, <1>5 DEF Disconnect, SameFeed, Typed, WireTyped, Number

LEMMA SurroundingsTyped ==
  ASSUME Typed, SameFeed, Surroundings
  PROVE  Typed'
<1>1. WorldTyped'
  <2>1. NoFault \/ \E kind : Fault(kind)
    BY DEF Surroundings, Environment, NewBlock, Reorganise, LastHead, Disconnect
  <2>2. QED
    BY <2>1, UsedTyped DEF SameFeed, Typed
<1>2. ListenerTyped' /\ PoolTyped'
  BY PartsKept DEF Surroundings, Environment, NewBlock, Reorganise, LastHead, Disconnect, db, Typed
<1>3. CASE NewBlock \/ \E d \in 1 .. ReorgDepth : Reorganise(d)
  BY <1>1, <1>2, <1>3, GrowthTyped DEF Typed
<1>4. CASE LastHead
  <2>1. head' \in Number /\ savedHead' \in Nat
    BY <1>4, HeightTyped, HeadTyped DEF LastHead, Typed
  <2>2. WireTyped' /\ StoreTyped'
    BY <1>4, <2>1 DEF LastHead, SameFeed, Typed, WireTyped, StoreTyped
  <2>3. ChainTyped'
    BY <1>4, PartsKept DEF LastHead, Typed
  <2>4. QED
    BY <1>1, <1>2, <2>2, <2>3 DEF Typed
<1>5. CASE Disconnect
  <2>1. ChainTyped' /\ StoreTyped'
    BY <1>5, PartsKept DEF Disconnect, db, Typed
  <2>2. QED
    BY <1>1, <1>2, <1>5, <2>1, DisconnectTyped DEF Typed
<1>6. QED
  BY <1>3, <1>4, <1>5 DEF Surroundings, Environment

-----------------------------------------------------------------------------
(***************************************************************************)
(* The process starts and stops.                                           *)
(***************************************************************************)
LEMMA StartTyped ==
  ASSUME Typed, SameFeed, Start
  PROVE  Typed'
<1>1. WorldTyped'
  BY UsedTyped DEF Start, StartBroadcaster, SameFeed, Typed
<1>2. ChainTyped'
  BY PartsKept DEF Start, StartBroadcaster, Typed
<1>3. pendingMin' \in Number /\ backfillFrom' \in Number
  <2> DEFINE unconsumed == Numbers(rows \ consumed)
             margin == AtLeast0(savedHead - Confirmations - BackfillDepth)
  <2>1. unconsumed \in SUBSET Nat
    BY LogBroadcasterAssumption DEF Typed, StoreTyped, Numbers, Key
  <2>2. margin \in Nat
    <3>1. savedHead \in Nat /\ Confirmations \in Nat /\ BackfillDepth \in Nat
      BY LogBroadcasterAssumption DEF Typed, StoreTyped
    <3>2. savedHead - Confirmations - BackfillDepth \in Int
      BY <3>1
    <3>3. QED
      BY <3>2, NumbersTyped
  <2>3. pendingMin' = Lesser(pendingMin, LeastOf(unconsumed)) /\ backfillFrom' = Lesser(pendingMin', margin)
    BY DEF Start, StartBroadcaster, Reinitialize
  <2> HIDE DEF unconsumed, margin
  <2>4. pendingMin \in Number /\ margin \in Number
    BY <2>2 DEF Typed, PoolTyped, Number
  <2>5. QED
    BY <2>1, <2>3, <2>4, NumbersTyped
<1>4. WireTyped'
  <2>1. Height + 1 \in Number
    BY HeightTyped DEF Typed, Number
  <2>2. QED
    BY <1>3, <2>1 DEF Start, StartBroadcaster, SameFeed, Typed, WireTyped
<1>5. PoolTyped'
  BY <1>3 DEF Start, StartBroadcaster, logs, SameFeed, Typed, PoolTyped
<1>6. StoreTyped'
  BY DEF Start, StartBroadcaster, Reinitialize, SameFeed, Typed, StoreTyped
<1>7. ListenerTyped'
  BY DEF Start, SameFeed, Typed, ListenerTyped
<1>8. QED
  BY <1>1, <1>2, <1>4, <1>5, <1>6, <1>7 DEF Typed

LEMMA StopTyped ==
  ASSUME Typed, SameFeed, Stop
  PROVE  Typed'
<1> USE DEF Stop, StopBroadcaster
<1>0. Capacity \in Nat /\ \A S : << >> \in Seq(S) /\ Len(<< >>) = 0
  BY EmptySeq, LogBroadcasterAssumption
<1>1. WorldTyped'
  BY UsedTyped DEF SameFeed, Typed
<1>2. ChainTyped'
  BY PartsKept DEF Typed
<1>3. WireTyped'
  BY <1>0 DEF SameFeed, Typed, WireTyped, Number
<1>4. PoolTyped'
  BY DEF db, SameFeed, Typed, PoolTyped
<1>5. StoreTyped'
  BY <1>0 DEF db, SameFeed, Typed, StoreTyped
<1>6. ListenerTyped'
  BY <1>0 DEF SameFeed, Typed, ListenerTyped
<1>7. QED
  BY <1>1, <1>2, <1>3, <1>4, <1>5, <1>6 DEF Typed

-----------------------------------------------------------------------------
(***************************************************************************)
(* The broadcaster.                                                        *)
(***************************************************************************)
LEMMA SubscriptionTyped ==
  ASSUME Typed, SameFeed, Resubscribe \/ SubscriptionError
  PROVE  WireTyped' /\ PoolTyped'
<1>1. raw \in Seq(Log) /\ live \in Seq(Log) /\ << >> \in Seq(Log)
  BY EmptySeq DEF Typed, WireTyped
<1>2. CASE CreateSubscription
  <2>1. raw \o live \in Seq(Log)
    BY <1>1, ConcatProperties
  <2>2. WireTyped'
    BY <1>1, <1>2, <2>1 DEF CreateSubscription, SameFeed, Typed, WireTyped
  <2>3. QED
    BY <1>2, <2>2, PartsKept DEF CreateSubscription, db, Typed
<1>3. CASE BackfillLogs
  <2>1. \A from : Events(FALSE, KeysFrom(chain, from)) \in Seq(Log)
    BY EventsTyped DEF Typed, WorldTyped, ChainTyped
  <2>2. PICK from : raw' \in {raw, raw \o Events(FALSE, KeysFrom(chain, from))}
    BY <1>3 DEF BackfillLogs
  <2>3. raw \o Events(FALSE, KeysFrom(chain, from)) \in Seq(Log)
    BY <1>1, <2>1, ConcatProperties
  <2>4. raw' \in Seq(Log)
    BY <1>1, <2>2, <2>3
  <2>5. WireTyped'
    BY <1>3, <2>4 DEF BackfillLogs, SameFeed, Typed, WireTyped, Number
  <2>6. QED
    BY <1>3, <2>5, PartsKept DEF BackfillLogs, db, Typed
<1>4. CASE SubscriptionError
  <2>1. heap \in SUBSET Nat
    BY LogBroadcasterAssumption DEF Typed, PoolTyped
  <2>2. LeastOf(heap) \in Number
    BY <2>1, NumbersTyped
  <2>3. WireTyped'
    BY <1>4, <2>2 DEF SubscriptionError, SameFeed, Typed, WireTyped
  <2>4. PoolTyped'
    BY <1>4 DEF SubscriptionError, db, SameFeed, Typed, PoolTyped
  <2>5. QED
    BY <2>3, <2>4
<1>5. QED
  BY <1>2, <1>3, <1>4 DEF Resubscribe

LEMMA LogTyped ==
  ASSUME Typed, SameFeed, OnNewLog
  PROVE  WireTyped' /\ PoolTyped'
<1> DEFINE rawLog == Head(raw \o live)
<1>1. raw \in Seq(Log) /\ live \in Seq(Log) /\ raw \o live # << >>
  BY DEF OnNewLog, Typed, WireTyped
<1>2. rawLog \in Log
  <2>1. raw \o live \in Seq(Log)
    BY <1>1, ConcatProperties
  <2>2. QED
    BY <1>1, <2>1, HeadTailProperties
<1>3. rawLog.key \in Key /\ rawLog.key.number \in 1 .. MaxBlock
  BY <1>2 DEF Log, Key
<1>4. RemoveBlock(rawLog.key) \/ AddLog(rawLog.key)
  BY DEF OnNewLog
<1>5. raw' \in Seq(Log) /\ live' \in Seq(Log)
  <2>1. CASE raw # << >>
    BY <1>1, <2>1, HeadTailProperties DEF OnNewLog
  <2>2. CASE raw = << >>
    <3>1. live # << >>
      BY <1>1, <2>2, ConcatEmptySeq
    <3>2. QED
      BY <1>1, <2>2, <3>1, HeadTailProperties DEF OnNewLog
  <2>3. QED
    BY <2>1, <2>2
<1>6. WireTyped'
  BY <1>5 DEF OnNewLog, SameFeed, Typed, WireTyped
<1> HIDE DEF rawLog
<1>7. CASE RemoveBlock(rawLog.key)
  BY <1>6, <1>7 DEF RemoveBlock, SameFeed, Typed, PoolTyped
<1>8. CASE AddLog(rawLog.key)
  <2>1. pendingMin' \in Number
    BY <1>3, <1>8, LogBroadcasterAssumption DEF AddLog, Typed, PoolTyped, Number
  <2>2. PoolTyped'
    BY <1>3, <1>8, <2>1 DEF AddLog, SameFeed, Typed, PoolTyped
  <2>3. QED
    BY <1>6, <2>2
<1>9. QED
  BY <1>4, <1>7, <1>8

(***************************************************************************)
(* The mailbox never holds more than its capacity.                         *)
(***************************************************************************)
LEMMA DeliverFits ==
  ASSUME NEW S, NEW mailbox \in Seq(S), NEW items \in Seq(S)
  PROVE  Len(Deliver(mailbox, items)) <= Capacity
<1> DEFINE all == mailbox \o items
           n == Len(all)
           from == 1 + AtLeast0(n - Capacity)
<1>1. all \in Seq(S) /\ n \in Nat /\ Capacity \in Nat \ {0}
  BY ConcatProperties, LenProperties, LogBroadcasterAssumption
<1>2. from \in Int /\ from >= 1 /\ n - from + 1 <= Capacity
  BY <1>1 DEF AtLeast0
<1>3. \A i \in from .. n : all[i] \in S
  BY <1>1, <1>2, ElementOfSeq
<1> HIDE DEF all, n, from
<1>4. Len(SubSeq(all, from, n)) = IF from <= n THEN n - from + 1 ELSE 0
  BY <1>1, <1>2, <1>3, SubSeqProperties
<1>5. Len(SubSeq(all, from, n)) <= Capacity
  BY <1>1, <1>2, <1>4
<1>6. QED
  BY <1>5 DEF Deliver, all, n, from

LEMMA HeadsTyped ==
  ASSUME Typed, Held, SameFeed, OnNewHeads
  PROVE  WireTyped' /\ PoolTyped' /\ StoreTyped'
<1> DEFINE toSend == LogsToSend
<1>1. head \in Nat
  BY DEF OnNewHeads, Typed, WireTyped, Number
<1>2. toSend \subseteq Key /\ IsFiniteSet(toSend)
  BY FS_Subset DEF LogsToSend, Held, Typed, PoolTyped
<1>3. PICK sent \in InBlockOrder(toSend) : inbox' = Deliver(inbox, sent)
  BY DEF OnNewHeads, SendLogs
<1>4. rows' = rows \cup toSend /\ UNCHANGED <<consumed, savedHead>>
  BY DEF OnNewHeads, SendLogs
<1> HIDE DEF toSend
<1>5. sent \in Seq(Key) /\ inbox \in Seq(Key)
  BY <1>2, InBlockOrderIsSeq, SeqMonotonic DEF Typed, StoreTyped
<1>6. inbox' \in Seq(Key) /\ Len(inbox') <= Capacity
  BY <1>3, <1>5, DeliverIsSeq, DeliverFits
<1>7. StoreTyped'
  BY <1>2, <1>4, <1>6 DEF SameFeed, Typed, StoreTyped
<1>8. WireTyped'
  BY DEF OnNewHeads, SameFeed, Typed, WireTyped, Number
<1>9. PoolTyped'
  <2>1. PICK keptDepth : /\ pool' = {k \in pool : k.number >= keptDepth}
                         /\ heap' = {n \in heap : n >= keptDepth}
    BY DEF OnNewHeads, DeleteOlderLogs
  <2>2. heap' \subseteq 1 .. MaxBlock /\ heap' \in SUBSET Nat
    <3>1. heap \subseteq 1 .. MaxBlock
      BY DEF Typed, PoolTyped
    <3>2. heap' \subseteq heap
      BY <2>1
    <3>3. QED
      BY <3>1, <3>2, LogBroadcasterAssumption
  <2>3. pendingMin' \in Number
    BY <2>2, NumbersTyped DEF OnNewHeads, DeleteOlderLogs
  <2>4. QED
    BY <2>1, <2>2, <2>3 DEF SameFeed, Typed, PoolTyped
<1>10. QED
  BY <1>7, <1>8, <1>9

LEMMA BroadcasterTyped ==
  ASSUME Typed, Held, SameFeed, Broadcaster
  PROVE  Typed'
<1>1. WorldTyped'
  <2>1. NoFault \/ \E kind : Fault(kind)
    BY DEF Broadcaster, EventLoop, Resubscribe, SubscriptionError, OnNewLog, OnNewHeads,
           CreateSubscription, BackfillLogs
  <2>2. QED
    BY <2>1, UsedTyped DEF SameFeed, Typed
<1>2. ListenerTyped' /\ ChainTyped'
  BY PartsKept DEF Broadcaster, EventLoop, Resubscribe, SubscriptionError, OnNewLog, OnNewHeads,
     CreateSubscription, BackfillLogs, Typed
<1>3. CASE OnNewHeads
  BY <1>1, <1>2, <1>3, HeadsTyped DEF Typed
<1>4. CASE OnNewLog
  <2>1. StoreTyped'
    BY <1>4, PartsKept DEF OnNewLog, Typed
  <2>2. QED
    BY <1>1, <1>2, <1>4, <2>1, LogTyped DEF Typed
<1>5. CASE Resubscribe \/ SubscriptionError
  <2>1. StoreTyped'
    BY <1>5, PartsKept DEF Resubscribe, CreateSubscription, BackfillLogs, SubscriptionError, db, Typed
  <2>2. QED
    BY <1>1, <1>2, <1>5, <2>1, SubscriptionTyped DEF Typed
<1>6. QED
  BY <1>3, <1>4, <1>5 DEF Broadcaster, EventLoop

-----------------------------------------------------------------------------
(***************************************************************************)
(* The synchronizer.                                                       *)
(***************************************************************************)
LEMMA UpkeepsTyped ==
  ASSUME Typed
  PROVE  Registered(chain) \subseteq Upkeeps /\ Active(chain) \subseteq Upkeeps
<1>1. Emitted(chain) \subseteq DOMAIN Feed
  BY EmittedTyped DEF Typed, WorldTyped, ChainTyped
<1>2. Registered(chain) \subseteq Upkeeps
  BY <1>1 DEF Registered, Upkeeps
<1>3. QED
  BY <1>2 DEF Active

LEMMA FullSyncTyped ==
  ASSUME Typed, SameFeed, FullSync
  PROVE  ListenerTyped'
<1>1. CASE SyncRegistry
  BY <1>1, UpkeepsTyped DEF SyncRegistry, SameFeed, Typed, ListenerTyped
<1>2. CASE FullSyncUpkeeps
  <2>1. table' \subseteq active
    BY <1>2 DEF FullSyncUpkeeps
  <2>2. QED
    BY <1>2, <2>1 DEF FullSyncUpkeeps, SameFeed, Typed, ListenerTyped
<1>3. QED
  BY <1>1, <1>2 DEF FullSync

LEMMA HandleTyped ==
  ASSUME Typed, SameFeed, Handle
  PROVE  ListenerTyped'
<1> DEFINE key == Head(batch)
<1>1. batch \in Seq(Key) /\ batch # << >> /\ key \in Key
  BY HeadTailProperties DEF Handle, Typed, ListenerTyped
<1>2. Handler(Feed[key.log][1], Feed[key.log][2])
  BY DEF Handle
<1> HIDE DEF key
<1>3. registry' \in BOOLEAN /\ table' \subseteq Upkeeps
  BY <1>2, UpkeepsTyped DEF Handler, Synced, Typed, ListenerTyped
<1>4. handled' \subseteq Key /\ repeats' \in Nat
  BY <1>1 DEF Handle, Typed, ListenerTyped, key
<1>5. QED
  BY <1>1, <1>3, <1>4 DEF Handle, SameFeed, Typed, ListenerTyped

LEMMA MailboxTyped ==
  ASSUME Typed, Held, SameFeed, Synchronizer, RetrieveAll \/ Skip \/ MarkConsumed
  PROVE  ListenerTyped' /\ StoreTyped'
<1>0. Capacity \in Nat /\ UNCHANGED savedHead /\ \A S : << >> \in Seq(S) /\ Len(<< >>) = 0
  BY EmptySeq, LogBroadcasterAssumption DEF Synchronizer
<1>1. CASE RetrieveAll
  <2>1. inbox' \in Seq(Key) /\ Len(inbox') <= Capacity
    BY <1>0, <1>1 DEF RetrieveAll
  <2>2. StoreTyped'
    BY <1>0, <1>1, <2>1 DEF RetrieveAll, SameFeed, Typed, StoreTyped
  <2>3. ListenerTyped'
    BY <1>1 DEF RetrieveAll, SameFeed, Typed, StoreTyped, ListenerTyped
  <2>4. QED
    BY <2>2, <2>3
<1>2. CASE Skip \/ MarkConsumed
  <2>1. batch \in Seq(rows) /\ batch \in Seq(Key) /\ batch # << >>
    BY <1>2 DEF Skip, MarkConsumed, Held, Typed, ListenerTyped
  <2>2. Tail(batch) \in Seq(Key) /\ Head(batch) \in rows
    BY <2>1, HeadTailProperties
  <2>3. batch' \in Seq(Key) /\ step' = "idle" /\ UNCHANGED <<registry, table, active, handled, repeats>>
    BY <1>2, <2>2 DEF Skip, MarkConsumed
  <2>4. ListenerTyped'
    BY <2>3 DEF SameFeed, Typed, ListenerTyped
  <2>5. UNCHANGED inbox /\ rows' = rows /\ consumed' \subseteq rows
    BY <1>2, <2>2 DEF Skip, MarkConsumed, Typed, StoreTyped
  <2>6. StoreTyped'
    BY <1>0, <2>5 DEF SameFeed, Typed, StoreTyped
  <2>7. QED
    BY <2>4, <2>6
<1>3. QED
  BY <1>1, <1>2

LEMMA SynchronizerTyped ==
  ASSUME Typed, Held, SameFeed, Synchronizer
  PROVE  Typed'
<1>1. WorldTyped'
  <2>1. NoFault \/ \E kind : Fault(kind)
    BY DEF Synchronizer, FullSync, ProcessLogs, SyncRegistry, FullSyncUpkeeps, RetrieveAll, Skip,
           Handle, Handler, MarkConsumed
  <2>2. QED
    BY <2>1, UsedTyped DEF SameFeed, Typed
<1>2. ChainTyped' /\ WireTyped' /\ PoolTyped'
  BY PartsKept DEF Synchronizer, Typed
<1>3. CASE FullSync \/ Handle
  <2>1. UNCHANGED <<rows, consumed, savedHead, inbox>>
    BY <1>3 DEF Synchronizer, FullSync, Handle
  <2>2. StoreTyped'
    BY <2>1, PartsKept DEF Typed
  <2>3. QED
    BY <1>1, <1>2, <1>3, <2>2, FullSyncTyped, HandleTyped DEF Typed
<1>4. CASE RetrieveAll \/ Skip \/ MarkConsumed
  BY <1>1, <1>2, <1>4, MailboxTyped DEF Typed
<1>5. QED
  BY <1>3, <1>4 DEF Synchronizer, ProcessLogs

LEMMA TypedStep == Typed /\ Held /\ [Next]_vars => Typed'
<1> SUFFICES ASSUME Typed, Held, [Next]_vars PROVE Typed'
  OBVIOUS
<1>1. SameFeed
  BY WorldStays
<1>2. CASE UNCHANGED vars
  <2>1. ChainTyped' /\ WireTyped' /\ PoolTyped' /\ StoreTyped' /\ ListenerTyped'
    BY <1>1, <1>2, PartsKept DEF Typed, vars, broadcasterVars, db
  <2>2. WorldTyped'
    BY <1>2 DEF Typed, WorldTyped, vars, broadcasterVars
  <2>3. QED
    BY <2>1, <2>2 DEF Typed
<1>3. CASE Next
  BY <1>1, <1>3, StartTyped, StopTyped, BroadcasterTyped, SynchronizerTyped, SurroundingsTyped DEF Next
<1>4. QED
  BY <1>2, <1>3

(***************************************************************************)
(* Chain, channels, pool, tables and mailbox stay what they are said to    *)
(* be: every log in them is one of the feed in a block that can be, every  *)
(* block of the pool is in the heap that is asked where to backfill from,  *)
(* and the mailbox is never over its capacity.                             *)
(***************************************************************************)
THEOREM SyncTyped == Spec => []SyncTypeOK
<1>1. SyncTypeOK <=> Typed
  BY TypeParts DEF Typed
<1>2. QED
  BY <1>1, TypedInit, TypedStep, HeldInit, HeldStep, PTL DEF Spec
================================================================================
