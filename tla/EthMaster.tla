------------------------------ MODULE EthMaster ------------------------------
(***************************************************************************)
(* The factory EthMaster (BscMaster is the same code): one vault for every *)
(* address that asks, found again through allVaults.  Of a vault only      *)
(* whether it has employees is kept here; what it does is in EthVault.     *)
(***************************************************************************)
CONSTANTS
  Users,   \* addresses that may create a vault
  Vaults,  \* addresses of the contracts they deploy
  Zero     \* address(0)

ASSUME MasterAssumption == Zero \notin Users \cup Vaults

VARIABLES
  allVaults,   \* mapping(address => address)
  staffed      \* vaults with employees

masterVars == <<allVaults, staffed>>

MasterTypeOK ==
  /\ allVaults \in [Users -> Vaults \cup {Zero}]
  /\ staffed \subseteq Vaults

MasterInit ==
  /\ allVaults = [u \in Users |-> Zero]
  /\ staffed = {}

\* the address of a new contract is that of no earlier one
createVault(caller) ==
  /\ allVaults[caller] = Zero
  /\ \E v \in Vaults :
       /\ \A u \in Users : allVaults[u] # v
       /\ allVaults' = [allVaults EXCEPT ![caller] = v]
  /\ UNCHANGED staffed

\* onlyOwner of the vault, which its creator is
addEmployees(caller, v) ==
  /\ allVaults[caller] = v
  /\ staffed' = staffed \cup {v}
  /\ UNCHANGED allVaults
==============================================================================
