--------------------------- MODULE ReserveChecks ---------------------------
(***************************************************************************)
(* The functions of Reserve.tla against reference definitions: a call is a *)
(* choice of arguments, from all of a bounded set, and one step that       *)
(* computes the answer.                                                    *)
(***************************************************************************)
EXTENDS Reserve

CONSTANTS
    MaxAmount,   \* bound of this model: amounts given to compute_rebalance
    MaxLimit,    \* bound of this model: rate limits
    Histories    \* bound of this model: the mints a reserve may have behind it

ASSUME AmountsAssumption == MaxAmount \in Nat /\ MaxLimit \in Nat
ASSUME HistoriesAssumption == Histories \subseteq MintEvents

VARIABLES
    arguments,   \* of the call: arguments.of names the function
    answer       \* None until it is computed

check_vars == <<arguments, answer>>

Amounts == 0..MaxAmount
Limits == Optional(0..MaxLimit)

(* The fields compute_rebalance never reads have one value. *)
RebalanceArguments ==
    [of : {"compute_rebalance"}, target_balance : Amounts,
     max_balance : Optional(Amounts), max_topup_per_rebalance : Optional(Amounts),
     lifetime_received_minimum : Optional(Amounts),
     lifetime_received_maximum : Optional(Amounts), auto : BOOLEAN,
     current_balance : Amounts, lifetime_minted : Amounts,
     max_mint_per_operation : Optional(Amounts)]

LimitArguments ==
    [of : {"available_mint_budget"}, limits : [Windows -> Limits],
     events : Histories, now : Instants]

ConfigOf(a) ==
    [min_balance |-> 0, target_balance |-> a.target_balance,
     max_balance |-> a.max_balance,
     max_topup_per_rebalance |-> a.max_topup_per_rebalance,
     lifetime_received_minimum |-> a.lifetime_received_minimum,
     lifetime_received_maximum |-> a.lifetime_received_maximum,
     rate_limits |-> None, enabled |-> TRUE, allow_auto_rebalance |-> a.auto]

PolicyOf(a) ==
    [minting_enabled |-> TRUE, max_mint_per_operation |-> a.max_mint_per_operation]

Init ==
    /\ arguments \in RebalanceArguments \/ arguments \in LimitArguments
    /\ answer = None

ComputeRebalance ==
    /\ answer = None
    /\ arguments.of = "compute_rebalance"
    /\ answer' = compute_rebalance(ConfigOf(arguments), arguments.current_balance,
                                   arguments.lifetime_minted, PolicyOf(arguments))
    /\ UNCHANGED arguments

AvailableMintBudget ==
    /\ answer = None
    /\ arguments.of = "available_mint_budget"
    /\ answer' = [valid |-> validate_rate_limits(arguments.limits),
                  budget |-> available_mint_budget(arguments.limits, arguments.events,
                                                   arguments.now)]
    /\ UNCHANGED arguments

Next == ComputeRebalance \/ AvailableMintBudget

Spec == Init /\ [][Next]_check_vars

Answered(function) == answer # None /\ arguments.of = function

-----------------------------------------------------------------------------
(* A mint the limits of the reserve and the policy allow, and that one of  *)
(* its deficits asks for.                                                  *)
Allowed(a, amount) ==
    /\ \/ a.current_balance + amount <= a.target_balance
       \/ /\ a.lifetime_received_minimum # None
          /\ a.lifetime_minted + amount <= a.lifetime_received_minimum
    /\ a.max_balance # None => a.current_balance + amount <= a.max_balance
    /\ a.lifetime_received_maximum # None =>
           a.lifetime_minted + amount <= a.lifetime_received_maximum
    /\ \A cap \in {a.max_topup_per_rebalance, a.max_mint_per_operation} :
           cap # None => amount <= cap

(* compute_rebalance: the caps, applied one after the other, each with its *)
(* early return, leave the largest mint that is allowed; and it answers    *)
(* Minted exactly if that is more than nothing.                            *)
MintIsLargestAllowed ==
    Answered("compute_rebalance") =>
        LET allowed == {n \in Amounts \ {0} : arguments.auto /\ Allowed(arguments, n)}
        IN  /\ answer.mint_amount = IF allowed = {} THEN 0 ELSE Max(allowed)
            /\ answer.action = "Minted" <=> allowed # {}

(* A top-up asks check_rate_limits whether its amount fits, a rebalance    *)
(* asks available_mint_budget how much does.  The two, written apart, give *)
(* every reserve the same limits, whatever it has minted before: what fits *)
(* is what is within the budget.                                           *)
BudgetIsLargestAccepted ==
    Answered("available_mint_budget") =>
        \A n \in 1..(MaxLimit + 1) :
            check_rate_limits(arguments.limits, arguments.events, n, arguments.now)
                <=> (answer.budget # None => n <= answer.budget)

(* validate_rate_limits compares neighbouring windows only, and passes     *)
(* over those that are not configured.  What it accepts is nevertheless    *)
(* stricter in every larger window than in every smaller one.              *)
LargerWindowsAreStricter ==
    Answered("available_mint_budget") /\ answer.valid =>
        \A v, w \in Windows :
            v < w /\ None \notin {arguments.limits[v], arguments.limits[w]} =>
                arguments.limits[w] * HOURS[v] < arguments.limits[v] * HOURS[w]
=============================================================================
