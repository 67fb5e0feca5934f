-------------------------------- MODULE Home --------------------------------
(***************************************************************************)
(* The home page (Home.js): for the connected address it asks the factory  *)
(* two questions, whether the address has a vault and which, shows the     *)
(* Dashboard or the create button by the answers, and asks again on every  *)
(* VaultCreated event, whoever created the vault.  The two questions are   *)
(* asynchronous calls of one getter; each is read by a node some time      *)
(* after it was asked and answered some time after that.  The page keeps   *)
(* one listener for every address it was rendered with, because none is    *)
(* ever taken off.  Identical listeners are one here.                      *)
(*                                                                         *)
(* The Dashboard loads employees and LINK when it is mounted, if the       *)
(* contract is known by then (Dashboard.js:34-44); the load itself is in   *)
(* Dashboard.tla.                                                          *)
(***************************************************************************)
EXTENDS EthMaster, Naturals, Sequences, SequencesExt

CONSTANTS
  Undefined,    \* JavaScript's
  InOrder,      \* TRUE: answers arrive in the order of the questions
  MaxCalls,     \* bound on the questions under way
  MaxReloads,   \* bound on reloads of the page
  MaxSwitches,  \* bound on changes of the connected account
  MaxErrors     \* bound on questions that fail

ASSUME HomeAssumption ==
  /\ Undefined \notin Vaults \cup {Zero}
  /\ InOrder \in BOOLEAN
  /\ MaxCalls \in Nat /\ MaxSwitches \in Nat /\ MaxReloads \in Nat /\ MaxErrors \in Nat

VARIABLES
  address,        \* the connected account
  vaultContract, isExists, vaultLoading,
  shown,          \* the vault whose employees the mounted Dashboard has loaded
  calls,          \* questions under way, in the order they were asked
  listeners,      \* addresses the listeners were created with
  events,         \* VaultCreated events on their way to the page
  switches, reloads, errors

pageVars == <<address, vaultContract, isExists, vaultLoading, shown, calls, listeners,
              events, switches, reloads, errors>>
homeVars == <<masterVars, pageVars>>

\* answer is Undefined until a node has read allVaults(of)
Call == [asks : {"exists", "vault"}, of : Users, answer : Vaults \cup {Zero, Undefined}]

HomeTypeOK ==
  /\ MasterTypeOK
  /\ address \in Users
  /\ vaultContract \in Vaults \cup {Undefined}
  /\ isExists \in BOOLEAN /\ vaultLoading \in BOOLEAN
  /\ shown \in Vaults \cup {Undefined}
  /\ calls \in Seq(Call)
  /\ listeners \subseteq Users
  /\ events \in Nat
  /\ switches \in 0 .. MaxSwitches /\ reloads \in 0 .. MaxReloads /\ errors \in 0 .. MaxErrors

Ask(question, a) == [asks |-> question, of |-> a, answer |-> Undefined]

Mounted == isExists /\ ~vaultLoading

\* the Dashboard's effects run when it is mounted, and not when its props change
DashboardEffects ==
  shown' = IF ~Mounted' THEN Undefined ELSE IF Mounted THEN shown ELSE vaultContract'

\* Faulty variant: the two questions the other way round.
LoadExistsFirst(a) == <<Ask("exists", a), Ask("vault", a)>>

\* the effects of a new contract object, at the start and after a change of account
LoadFor(a) == <<Ask("vault", a), Ask("exists", a)>>

HomeInit ==
  /\ MasterInit
  /\ address \in Users
  /\ vaultContract = Undefined /\ isExists = FALSE
  /\ vaultLoading = TRUE
  /\ shown = Undefined
  /\ calls = LoadFor(address)
  /\ listeners = {address}
  /\ events = 0
  /\ switches = 0 /\ reloads = 0 /\ errors = 0

-----------------------------------------------------------------------------
\* the browser loads the page anew
Reload ==
  /\ reloads < MaxReloads
  /\ vaultContract' = Undefined /\ isExists' = FALSE
  /\ vaultLoading' = TRUE
  /\ shown' = Undefined
  /\ calls' = LoadFor(address)
  /\ listeners' = {address}
  /\ events' = 0
  /\ reloads' = reloads + 1
  /\ UNCHANGED <<masterVars, address, switches, errors>>

SwitchAccount(a) ==
  /\ switches < MaxSwitches /\ Len(calls) + 2 <= MaxCalls
  /\ a # address
  /\ address' = a
  /\ calls' = calls \o LoadFor(a)
  /\ vaultLoading' = TRUE
  /\ listeners' = listeners \cup {a}
  /\ switches' = switches + 1
  /\ UNCHANGED <<masterVars, vaultContract, isExists, events, reloads, errors>>
  /\ DashboardEffects

\* a node reads allVaults for one of the calls
Read(i) ==
  /\ calls[i].answer = Undefined
  /\ calls' = [calls EXCEPT ![i].answer = allVaults[calls[i].of]]
  /\ UNCHANGED <<masterVars, address, vaultContract, isExists, vaultLoading, shown, listeners,
                 events, switches, reloads, errors>>

MayReturn(i) == i = 1 \/ ~InOrder

\* Faulty variant: a failed question leaves the page loading.
FailedCheckForgotten(c) == UNCHANGED vaultLoading

\* the catch blocks of the two questions
FailedCheck(c) == vaultLoading' = (vaultLoading /\ c.asks = "vault")

\* Faulty variant: an address without a vault is not looked out for.
VaultUnchecked(c) == c.answer

\* the contract loadVaultContract leaves the page with
VaultAnswered(c) == IF c.answer # Zero THEN c.answer ELSE vaultContract

Return(i) ==
  /\ MayReturn(i)
  /\ calls[i].answer # Undefined
  /\ calls' = RemoveAt(calls, i)
  /\ \/ /\ calls[i].asks = "vault"
        /\ vaultContract' = VaultAnswered(calls[i])
        /\ UNCHANGED <<isExists, vaultLoading>>
     \/ /\ calls[i].asks = "exists"
        /\ isExists' = (calls[i].answer # Zero)
        /\ vaultLoading' = FALSE
        /\ UNCHANGED vaultContract
  /\ UNCHANGED <<masterVars, address, listeners, events, switches, reloads, errors>>
  /\ DashboardEffects

Fail(i) ==
  /\ errors < MaxErrors
  /\ MayReturn(i)
  /\ calls' = RemoveAt(calls, i)
  /\ FailedCheck(calls[i])
  /\ errors' = errors + 1
  /\ UNCHANGED <<masterVars, address, vaultContract, isExists, listeners, events, switches, reloads>>
  /\ DashboardEffects

\* Faulty variant: the listener only asks whether there is a vault.
ChecksOnly(a) == <<Ask("exists", a)>>

\* what one listener asks
ListenerAsks(a) == <<Ask("exists", a), Ask("vault", a)>>

\* a VaultCreated event reaches the page and every listener asks
VaultCreated ==
  /\ events > 0
  /\ events' = events - 1
  /\ Len(calls) + 2 * Len(SetToSeq(listeners)) <= MaxCalls
  /\ \E order \in SetToSeqs(listeners) :
       calls' = calls \o FlattenSeq([i \in 1 .. Len(order) |-> ListenerAsks(order[i])])
  /\ vaultLoading' = TRUE
  /\ UNCHANGED <<masterVars, address, vaultContract, isExists, listeners, switches, reloads, errors>>
  /\ DashboardEffects

-----------------------------------------------------------------------------
\* the page's button, and other people's pages
CreateVault(u) ==
  /\ u = address => ~vaultLoading /\ ~isExists
  /\ createVault(u)
  /\ events' = events + 1
  /\ UNCHANGED <<address, vaultContract, isExists, vaultLoading, shown, calls, listeners,
                 switches, reloads, errors>>

\* adding an employee on the Dashboard loads the table of the contract it has
AddEmployee ==
  /\ Mounted /\ vaultContract # Undefined
  /\ addEmployees(address, vaultContract)
  /\ shown' = vaultContract
  /\ UNCHANGED <<address, vaultContract, isExists, vaultLoading, calls, listeners, events,
                 switches, reloads, errors>>

\* other owners act on their vaults
Elsewhere ==
  /\ \E u \in Users \ {address}, v \in Vaults : addEmployees(u, v)
  /\ UNCHANGED pageVars

HomeNext ==
  \/ \E a \in Users : SwitchAccount(a) \/ CreateVault(a)
  \/ \E i \in DOMAIN calls : Read(i) \/ Return(i) \/ Fail(i)
  \/ VaultCreated
  \/ AddEmployee
  \/ Elsewhere
  \/ Reload

\* the network answers or fails, and events arrive
HomeFairness ==
  /\ WF_homeVars(\E i \in DOMAIN calls : Read(i) \/ Return(i))
  /\ WF_homeVars(VaultCreated)

HomeSpec == HomeInit /\ [][HomeNext]_homeVars /\ HomeFairness

-----------------------------------------------------------------------------
Quiet == calls = << >> /\ events = 0

(***************************************************************************)
(* The page settles on the truth: when nothing is under way it shows the   *)
(* Dashboard exactly if the connected account has a vault, and with that   *)
(* vault, whatever events and answers came in between, as long as no       *)
(* question failed and no listener of another account is left over.        *)
(***************************************************************************)
OwnListeners == listeners = {address}

Settled ==
  Quiet /\ errors = 0 /\ OwnListeners =>
    /\ Mounted <=> allVaults[address] # Zero
    /\ Mounted => vaultContract = allVaults[address]

(***************************************************************************)
(* The spinner ends: whatever fails, the page does not stay loading.       *)
(***************************************************************************)
SpinnerEnds == vaultLoading ~> ~vaultLoading

(***************************************************************************)
(* "No Employees Added.", says a Dashboard that has loaded nothing, of a   *)
(* vault without employees only (Dashboard.js:368), with the same proviso. *)
(***************************************************************************)
NoEmployeesIsTrue ==
  Quiet /\ errors = 0 /\ OwnListeners /\ Mounted /\ shown = Undefined => vaultContract \notin staffed
==============================================================================
