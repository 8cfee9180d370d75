----------------------------- MODULE Lifecycle -----------------------------
(***************************************************************************)
(* Installing and upgrading the minter: the hooks of lib.rs over the       *)
(* stable memory of Persistence.tla, and the scripts that choose the       *)
(* argument of a deployment (build.minter.args.sh, which asks              *)
(* check.canister.installed.sh).                                           *)
(*                                                                         *)
(* `dfx deploy' runs the script first and installs or upgrades later; the  *)
(* canister is used, and others deploy, in between.  A hook that traps     *)
(* rolls the whole deployment back: the old module and state keep running. *)
(***************************************************************************)
EXTENDS Persistence

CONSTANTS
    Deployers,    \* people or pipelines that deploy
    Fresh,        \* the default state with the ledger of Arg::Init
    Incidents     \* which of DeploymentIncidents may happen in this model

DeploymentIncidents ==
    {"placeholder", "outage", "reinstall", "forced_upgrade", "exhaustion"}

ASSUME FreshAssumption == Fresh \in States
ASSUME IncidentsAssumption == Incidents \subseteq DeploymentIncidents

VARIABLES
    module,        \* what is installed in the canister
    state,         \* the heap of the minter, or None
    stable,        \* its stable memory
    timer_armed,   \* whether the rebalance timer is set
    arg,           \* the argument file each deployer has written, or None
    outcome        \* how the latest deployment ended

canister == <<module, state, stable, timer_armed>>
vars == <<canister, arg, outcome>>

Modules == {"none", "placeholder", "minter"}
Args == {"Init", "Upgrade"}

LifecycleTypeOK ==
    /\ module \in Modules
    /\ state \in IF module = "minter" THEN States ELSE {None}
    /\ IsStableMemory(stable)
    /\ timer_armed \in BOOLEAN
    /\ arg \in [Deployers -> Args \cup {None}]
    /\ outcome \in {"ok", "trapped", "exhausted"}

Init ==
    /\ module = "none"
    /\ state = None
    /\ stable = EmptyMemory
    /\ timer_armed = FALSE
    /\ arg = [d \in Deployers |-> None]
    /\ outcome = "ok"

-----------------------------------------------------------------------------
(* The argument of a deployment. *)

Prepare(d, variant) ==
    /\ arg[d] = None
    /\ arg' = [arg EXCEPT ![d] = variant]
    /\ UNCHANGED <<canister, outcome>>

Installed == module # "none"

Variant_Swapped == IF Installed THEN "Init" ELSE "Upgrade"
Variant == IF Installed THEN "Upgrade" ELSE "Init"

(* build.minter.args.sh auto: any module hash counts as installed. *)
BuildArgs(d) == Prepare(d, Variant)

(* A canister whose status cannot be read counts as not installed. *)
BuildArgsUnreachable(d) == "outage" \in Incidents /\ Prepare(d, "Init")

(* build.minter.args.sh upgrade, whatever is installed. *)
BuildUpgradeArgs(d) == "forced_upgrade" \in Incidents /\ Prepare(d, "Upgrade")

-----------------------------------------------------------------------------
(* The hooks.  Each says what it leaves behind, or traps. *)

Trapped ==
    /\ outcome' = "trapped"
    /\ UNCHANGED canister

(* The minter runs, its timer is started by either hook. *)
Running(s, memory) ==
    /\ outcome' = "ok"
    /\ module' = "minter"
    /\ state' = s
    /\ stable' = memory
    /\ timer_armed' = TRUE

(* init *)
Install(variant) ==
    /\ module = "none"
    /\ \/ variant = "Upgrade" /\ Trapped
       \/ variant = "Init" /\ Running(Fresh, stable)

PostUpgrade_Unchecked(variant, memory) ==
    \/ variant = "Upgrade" /\ Running(try_restore_state(memory), memory)
    \/ variant = "Init" /\ Running(Fresh, memory)

(* post_upgrade, over the memory pre_upgrade left. *)
PostUpgrade(variant, memory) ==
    LET restored == try_restore_state(memory)
    IN  \/ variant = "Upgrade" /\ restored = None /\ Trapped
        \/ variant = "Upgrade" /\ restored # None /\ Running(restored, memory)
        \/ variant = "Init" /\ Running(Fresh, memory)

(* A placeholder has no state and no pre_upgrade hook. *)
UpgradePlaceholder(variant) ==
    /\ module = "placeholder"
    /\ PostUpgrade(variant, stable)

(* The hooks clone, encode and decode the whole state in one message: the  *)
(* heap or the instructions that the system grants it may run out.         *)
Exhausted ==
    /\ "exhaustion" \in Incidents
    /\ outcome' = "exhausted"
    /\ UNCHANGED canister

UpgradeMinter(variant) ==
    /\ module = "minter"
    /\ \/ Exhausted
       \/ LET saved == save_state(stable, state)
          IN  \/ saved = None /\ Trapped
              \/ saved # None /\ PostUpgrade(variant, saved)

(* The argument is built anew for every deployment. *)
Deploy(d) ==
    /\ arg[d] # None
    /\ Install(arg[d]) \/ UpgradePlaceholder(arg[d]) \/ UpgradeMinter(arg[d])
    /\ arg' = [arg EXCEPT ![d] = None]

(* npm run reinstall:minter:prod: Arg::Init over wiped memory. *)
Reinstall ==
    /\ "reinstall" \in Incidents
    /\ module = "minter"
    /\ Running(Fresh, EmptyMemory)
    /\ UNCHANGED arg

(* Somebody installs a module that keeps nothing, to get a canister id. *)
InstallPlaceholder ==
    /\ "placeholder" \in Incidents
    /\ module = "none"
    /\ module' = "placeholder"
    /\ UNCHANGED <<state, stable, timer_armed, arg, outcome>>

(* Administrators and the timer take the minter from any state to another. *)
Work ==
    /\ module = "minter"
    /\ \E s \in States \ {state} : state' = s
    /\ UNCHANGED <<module, stable, timer_armed, arg, outcome>>

Next ==
    \/ \E d \in Deployers :
           BuildArgs(d) \/ BuildArgsUnreachable(d) \/ BuildUpgradeArgs(d) \/ Deploy(d)
    \/ Reinstall
    \/ InstallPlaceholder
    \/ Work

Spec == Init /\ [][Next]_vars

-----------------------------------------------------------------------------
Deploys(d) == arg[d] # None /\ arg'[d] = None

(* An upgrade that asks for the old state leaves the minter with it, both  *)
(* where it succeeds, from whatever was saved there before, longer or      *)
(* shorter, and where a hook traps: a partial save harms nothing.          *)
UpgradeKeepsState ==
    [][\A d \in Deployers :
           Deploys(d) /\ module = "minter" /\ arg[d] = "Upgrade" => state' = state]_vars

(* It is refused only by a limit of the system: the state does not fit the *)
(* stable memory there is, or copying it takes more than a message may.    *)
(* A minter that has grown beyond either can no longer be upgraded with    *)
(* its state.                                                              *)
UpgradeFailsOnlyWhenFull ==
    [][\A d \in Deployers :
           Deploys(d) /\ module = "minter" /\ arg[d] = "Upgrade" =>
               \/ outcome' \in {"ok", "exhausted"}
               \/ Length[state] + PREFIX > MaxPages * PAGE]_vars

(* build.minter.args.sh: stable state is preserved when the WASM is        *)
(* replaced.  No deployment over a running minter changes its state,       *)
(* whichever argument the script has chosen for it.                        *)
StateSurvives ==
    [][\A d \in Deployers : Deploys(d) /\ module = "minter" => state' = state]_vars
=============================================================================
