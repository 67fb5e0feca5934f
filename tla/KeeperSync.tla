------------------------------ MODULE KeeperSync ------------------------------
(***************************************************************************)
(* A keeper node's registry synchronizer (core/services/keeper), listener  *)
(* of the log broadcaster: it keeps the table of the upkeeps that the      *)
(* executer will check.  When it starts it reads the registry's active     *)
(* upkeeps; afterwards it follows the registry's logs, one at a time,      *)
(* asking the node for each upkeep as it is now.                           *)
(*                                                                         *)
(* A feed entry is <<"registered", u>> for the logs after which an upkeep  *)
(* is read again (registered, received, unpaused, its gas limit or check   *)
(* data set), <<"canceled", u>> for those after which it is deleted        *)
(* (cancelled, migrated, paused), and <<"config", 0>> for the ones after   *)
(* which the registry is.                                                  *)
(***************************************************************************)
EXTENDS LogBroadcaster

VARIABLES
  registry,   \* keeper_registries has the registry
  table,      \* upkeep_registrations
  step,       \* where the synchronizer's goroutine is
  active,     \* the active upkeeps that the full sync read
  batch,      \* logs that processLogs took from the mailbox
  handled,    \* the logs a handler has run for (history)
  repeats     \* how often one has run for a log again (history)

syncVars == <<registry, table, step, active, batch, handled, repeats>>
vars == <<broadcasterVars, syncVars>>

Upkeeps == {Feed[l][2] : l \in {l \in DOMAIN Feed : Feed[l][1] # "config"}}

\* the registry, as its logs tell
Registered(c) == {Feed[l][2] : l \in {l \in Emitted(c) : Feed[l][1] = "registered"}}
Active(c) ==
  {u \in Registered(c) :
     \A l \in Emitted(c) : Feed[l] = <<"canceled", u>> =>
       \E m \in Emitted(c) : m > l /\ Feed[m] = <<"registered", u>>}

SyncTypeOK ==
  /\ BroadcasterTypeOK
  /\ registry \in BOOLEAN /\ table \subseteq Upkeeps /\ active \subseteq Upkeeps
  /\ step \in {"down", "full sync", "upkeeps", "idle", "mark"}
  /\ batch \in Seq(Key) /\ (step = "mark" => batch # <<>>)
  /\ handled \subseteq Key /\ repeats \in Nat

Init ==
  /\ BroadcasterInit
  /\ registry = FALSE /\ table = {} /\ step = "full sync" /\ active = {} /\ batch = <<>>
  /\ handled = {} /\ repeats = 0

-----------------------------------------------------------------------------
Start ==
  /\ StartBroadcaster
  /\ step' = "full sync" /\ UNCHANGED <<registry, table, active, batch, handled, repeats>>

Stop ==
  /\ StopBroadcaster
  /\ step' = "down" /\ active' = {} /\ batch' = <<>> /\ UNCHANGED <<registry, table, handled, repeats>>

\* The first half of fullSync: the registry and the list of its active upkeeps are read from
\* the newest block.  When a call fails the synchronizer goes on without; the ticker that is
\* to repeat the full sync is only armed by its own tick.
SyncRegistry ==
  /\ step = "full sync"
  /\ \/ registry' = TRUE /\ active' = Active(chain) /\ step' = "upkeeps" /\ NoFault
     \/ Fault("rpc") /\ registry' \in {registry, TRUE} /\ step' = "idle" /\ UNCHANGED active
  /\ UNCHANGED <<table, batch, handled, repeats>>

\* syncUpkeep reads an upkeep as it is now: a cancelled one is still there to be read
Synced(u) == registry /\ u \in Registered(chain)

\* The second half: every active upkeep is synced, on failure skipped, and the others are deleted.
FullSyncUpkeeps ==
  /\ step = "upkeeps" /\ step' = "idle"
  /\ \E failing \in SUBSET active :
       /\ IF failing = {} THEN NoFault ELSE Fault("rpc")
       /\ table' = {u \in active : u \in table \/ (Synced(u) /\ u \notin failing)}
  /\ UNCHANGED <<registry, active, batch, handled, repeats>>

\* processLogs takes everything the mailbox has and goes through it
RetrieveAll ==
  /\ step = "idle" /\ batch = <<>> /\ inbox # <<>> /\ NoFault
  /\ batch' = inbox /\ inbox' = <<>>
  /\ UNCHANGED <<registry, table, step, active, handled, repeats, rows, consumed>>

\* Faulty variant: the listener trusts the broadcaster to send a log once.
NeverConsumed(key) == FALSE

WasAlreadyConsumed(key) == key \in consumed

Skip ==
  /\ step = "idle" /\ batch # <<>> /\ WasAlreadyConsumed(Head(batch)) /\ NoFault
  /\ batch' = Tail(batch)
  /\ UNCHANGED <<registry, table, step, active, handled, repeats, inbox, rows, consumed>>

\* A handler's error is logged, and the log is marked as consumed all the same.
Handler(kind, upkeep) ==
  \/ kind = "config" /\ registry' = TRUE /\ UNCHANGED table /\ NoFault
  \/ /\ kind = "registered" /\ UNCHANGED registry /\ NoFault
     /\ table' = IF Synced(upkeep) THEN table \cup {upkeep} ELSE table
  \/ kind = "canceled" /\ table' = table \ {upkeep} /\ UNCHANGED registry /\ NoFault
  \/ kind # "canceled" /\ UNCHANGED <<registry, table>> /\ Fault("rpc")

Handle ==
  LET key == Head(batch) IN
  /\ step = "idle" /\ step' = "mark" /\ batch # <<>> /\ ~WasAlreadyConsumed(key)
  /\ Handler(Feed[key.log][1], Feed[key.log][2])
  /\ handled' = handled \cup {key}
  /\ repeats' = repeats + (IF key \in handled THEN 1 ELSE 0)
  /\ UNCHANGED <<active, batch, inbox, rows, consumed>>

\* the process may stop between the handler and this: the log is handled again then
MarkConsumed ==
  /\ step = "mark" /\ step' = "idle" /\ NoFault
  /\ rows' = rows \cup {Head(batch)} /\ consumed' = consumed \cup {Head(batch)}
  /\ batch' = Tail(batch)
  /\ UNCHANGED <<registry, table, active, handled, repeats, inbox>>

FullSync == (SyncRegistry \/ FullSyncUpkeeps) /\ UNCHANGED <<inbox, rows, consumed>>
ProcessLogs == RetrieveAll \/ Skip \/ Handle \/ MarkConsumed
Synchronizer ==
  /\ FullSync \/ ProcessLogs
  /\ UNCHANGED <<chain, connection, logs, pendingMin, savedHead, world>>

Broadcaster == (EventLoop \/ Resubscribe) /\ UNCHANGED syncVars
Surroundings == Environment /\ UNCHANGED syncVars

Next == Start \/ Stop \/ Broadcaster \/ Synchronizer \/ Surroundings

(***************************************************************************)
(* Fairness: the process is started again, its goroutines run, heads keep  *)
(* coming.  The event loop's select chooses among the ready channels at    *)
(* random, so each of them is read.  No fault has to happen.               *)
(***************************************************************************)
Fairness ==
  /\ WF_vars(Start)
  /\ WF_vars(Resubscribe /\ UNCHANGED syncVars)
  /\ WF_vars(SubscriptionError /\ UNCHANGED syncVars)
  /\ WF_vars(OnNewLog /\ UNCHANGED syncVars)
  /\ WF_vars(OnNewHeads /\ UNCHANGED syncVars)
  /\ WF_vars(Synchronizer)
  /\ WF_vars((NewBlock \/ LastHead) /\ UNCHANGED syncVars)

Spec == Init /\ [][Next]_vars /\ Fairness

-----------------------------------------------------------------------------
(***************************************************************************)
(* A log that has been handed to the listener is never forgotten: until it *)
(* is consumed there is a row of it in the database, which is all that is  *)
(* left of it when the process stops.                                      *)
(***************************************************************************)
DeliveredHasRow == ToSet(inbox) \cup ToSet(batch) \subseteq rows

(***************************************************************************)
(* "It is the responsibility of subscribers to account for" duplicates     *)
(* (broadcaster.go:360): logs are backfilled and sent again and again, but *)
(* a handler runs twice for one only when the process stopped between the  *)
(* handler and MarkConsumed.                                               *)
(***************************************************************************)
RepeatedOnlyAfterStop == repeats <= Cardinality(used \cap Stops)

(***************************************************************************)
(* Every log of the chain is consumed in the end, whatever broke or        *)
(* stopped on the way, unless a backfill gave up.                          *)
(***************************************************************************)
EachConsumed == <>[]("giveup" \in used \/ OnChain \subseteq consumed)

(***************************************************************************)
(* The executer's table ends up with exactly the registry's active         *)
(* upkeeps, unless a backfill gave up or a call of the synchronizer        *)
(* failed.                                                                 *)
(***************************************************************************)
TableSettles == <>[](used \cap {"giveup", "rpc", "error"} # {} \/ table = Active(chain))

(***************************************************************************)
(* "KeeperRegistrySyncInterval is the interval in which the                *)
(* RegistrySynchronizer performs a full sync of the keeper registry        *)
(* contract it is tracking *after* the most recent update triggered by an  *)
(* on-chain log" (core/config/general_config.go:962): a call that failed   *)
(* is made good by the next one.                                           *)
(***************************************************************************)
FullSyncRepairs == <>[]("giveup" \in used \/ table = Active(chain))
=============================================================================
