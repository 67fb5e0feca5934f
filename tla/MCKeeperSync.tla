----------------------------- MODULE MCKeeperSync -----------------------------
(***************************************************************************)
(* An upkeep that is registered and cancelled, while the chain reorganises *)
(* and the process stops or its connection breaks; and one that is         *)
(* registered after the registry's configuration was set, while the first  *)
(* backfill or a call of the synchronizer may fail.                        *)
(***************************************************************************)
EXTENDS KeeperSync

OneUpkeep == << <<"registered", 1>>, <<"canceled", 1>> >>
NewRegistry == << <<"config", 0>>, <<"registered", 1>> >>

MCWorlds ==
  { [faults |-> {"stop", "reorg"}, feed |-> OneUpkeep],
    [faults |-> {"error", "reorg"}, feed |-> OneUpkeep],
    [faults |-> {"giveup", "rpc"}, feed |-> NewRegistry] }

MCFailing == {[faults |-> {"rpc"}, feed |-> OneUpkeep]}
=============================================================================
