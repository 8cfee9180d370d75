------------------------------ MODULE Reserve ------------------------------
(***************************************************************************)
(* The pure business logic of the minter (services/reserve.rs) and the     *)
(* data types it works on (model.rs): which configurations are accepted,   *)
(* how much a rebalance mints, and what the sliding-window rate limits     *)
(* leave.  Nothing here reads or writes canister state.                    *)
(*                                                                         *)
(* Amounts are candid::Nat, which is unbounded: natural numbers.  Time is  *)
(* counted in hours instead of nanoseconds.  Labels, purposes and error    *)
(* texts are left out; every label is taken to be non-empty.               *)
(***************************************************************************)
EXTENDS Integers, Sequences, FiniteSetsExt

CONSTANTS
    Accounts,   \* the ICRC-1 accounts that may be registered as reserves
    HOURS,      \* durations of the rate-limit windows, smallest first
    MaxTime,    \* bound of this model: the last instant of the clock
    None        \* Rust's Option::None

Instants == 0..MaxTime
Windows == DOMAIN HOURS
Optional(S) == S \cup {None}

(* A limit per window, or None where the window is not configured. *)
RateLimits == [Windows -> Optional(Nat)]

(* The amount minted at each instant.  The code keeps a list of            *)
(* (timestamp, amount) pairs, and reads it only to add up amounts by time. *)
MintEvents == [Instants -> Nat]
NoEvents == [i \in Instants |-> 0]

ReserveConfig ==
    [account : Accounts,
     min_balance : Nat,
     target_balance : Nat,
     max_balance : Optional(Nat),
     max_topup_per_rebalance : Optional(Nat),
     lifetime_received_minimum : Optional(Nat),
     lifetime_received_maximum : Optional(Nat),
     rate_limits : Optional(RateLimits),
     enabled : BOOLEAN,
     allow_manual_topup : BOOLEAN,
     allow_auto_rebalance : BOOLEAN]

ReserveRecord ==
    [config : ReserveConfig, lifetime_minted : Nat, mint_events : MintEvents]

GlobalPolicy ==
    [minting_enabled : BOOLEAN, max_mint_per_operation : Optional(Nat)]

ASSUME HoursAssumption ==
    /\ HOURS \in Seq(Nat \ {0})
    /\ HOURS # <<>>
    /\ \A v, w \in DOMAIN HOURS : v < w => HOURS[v] < HOURS[w]
ASSUME MaxTimeAssumption == MaxTime \in Nat
ASSUME NoneAssumption == None \notin Nat \cup RateLimits

-----------------------------------------------------------------------------
(* Validation of a configuration. *)

Configured(limits) ==
    IF limits = None THEN {} ELSE {w \in Windows : limits[w] # None}

(* Two configured windows are adjacent if no configured one lies between. *)
Adjacent_Next(limits, small, large) == large = small + 1
Adjacent(limits, small, large) ==
    /\ small < large
    /\ \A w \in Configured(limits) : w <= small \/ large <= w

validate_rate_limits(limits) ==
    \A small, large \in Configured(limits) :
        Adjacent(limits, small, large) =>
            limits[large] * HOURS[small] < limits[small] * HOURS[large]

validate_balance_invariants(config) ==
    /\ config.min_balance <= config.target_balance
    /\ config.max_balance # None => config.target_balance <= config.max_balance
    /\ None \notin {config.lifetime_received_minimum, config.lifetime_received_maximum} =>
           config.lifetime_received_minimum <= config.lifetime_received_maximum

validate_reserve_config(config) ==
    /\ validate_balance_invariants(config)
    /\ validate_rate_limits(config.rate_limits)

-----------------------------------------------------------------------------
(* Sliding-window rate limits. *)

saturating_sub(a, b) == IF a > b THEN a - b ELSE 0

usage_in_window(events, now, window) ==
    SumFunctionOnSet(events, {i \in Instants : i >= saturating_sub(now, window)})

(* What is left in the tightest window; None if no window is configured. *)
available_mint_budget(limits, events, now) ==
    IF Configured(limits) = {}
    THEN None
    ELSE Min({saturating_sub(limits[w], usage_in_window(events, now, HOURS[w])) :
                 w \in Configured(limits)})

check_rate_limits_Before(limits, events, amount, now) ==
    \A w \in Configured(limits) : usage_in_window(events, now, HOURS[w]) < limits[w]
check_rate_limits(limits, events, amount, now) ==
    \A w \in Configured(limits) :
        usage_in_window(events, now, HOURS[w]) + amount <= limits[w]

(* Forgets what lies before the largest window. *)
prune_old_events_Early(events, now) ==
    LET cutoff == saturating_sub(now, HOURS[Len(HOURS)])
    IN  [i \in Instants |-> IF i > cutoff THEN events[i] ELSE 0]
prune_old_events(events, now) ==
    LET cutoff == saturating_sub(now, HOURS[Len(HOURS)])
    IN  [i \in Instants |-> IF i >= cutoff THEN events[i] ELSE 0]

-----------------------------------------------------------------------------
(* How much a rebalance mints, before rate limits. *)

Cap(amount, cap) == IF cap # None /\ cap < amount THEN cap ELSE amount

(* What is left under an optional ceiling of which used is taken. *)
Room_Whole(ceiling, used) == ceiling
Room(ceiling, used) ==
    IF ceiling = None THEN None ELSE saturating_sub(ceiling, used)

cyclical_deficit(config, current_balance) ==
    saturating_sub(config.target_balance, current_balance)

lifetime_deficit(config, lifetime_minted) ==
    IF config.lifetime_received_minimum = None
    THEN 0
    ELSE saturating_sub(config.lifetime_received_minimum, lifetime_minted)

LargerDeficit(config, current_balance, lifetime_minted) ==
    LET cyclical == cyclical_deficit(config, current_balance)
        lifetime == lifetime_deficit(config, lifetime_minted)
    IN  IF lifetime > cyclical THEN lifetime ELSE cyclical

(* A reserve at max_balance or at its lifetime maximum has no room left,   *)
(* so its amount is capped to zero: the code returns early, also Skipped.  *)
CappedAmount(config, current_balance, lifetime_minted, policy) ==
    LET raw == LargerDeficit(config, current_balance, lifetime_minted)
        below_topup == Cap(raw, config.max_topup_per_rebalance)
        below_balance == Cap(below_topup, Room(config.max_balance, current_balance))
        below_lifetime ==
            Cap(below_balance, Room(config.lifetime_received_maximum, lifetime_minted))
    IN  Cap(below_lifetime, policy.max_mint_per_operation)

compute_rebalance(config, current_balance, lifetime_minted, policy) ==
    LET capped == CappedAmount(config, current_balance, lifetime_minted, policy)
        action ==
            IF ~policy.minting_enabled THEN "MintingDisabled"
            ELSE IF ~(config.enabled /\ config.allow_auto_rebalance) THEN "Skipped"
            ELSE IF LargerDeficit(config, current_balance, lifetime_minted) = 0
                THEN "AlreadyFunded"
            ELSE IF capped = 0 THEN "Skipped"
            ELSE "Minted"
    IN  [action |-> action, mint_amount |-> IF action = "Minted" THEN capped ELSE 0]
=============================================================================
