---------------------------- MODULE InitReserves ----------------------------
(***************************************************************************)
(* The script that registers the reserves (scripts/init.reserves.sh), run  *)
(* by operators against the minter.  It commits a fixed total: the sum of  *)
(* the lifetime maxima of its buckets.                                     *)
(*                                                                         *)
(* The script calls add_reserve once per bucket.  It stops when `dfx'      *)
(* fails, which may be before or after the minter executed the call, but   *)
(* goes on when the minter answers an error: for dfx that is an answer.    *)
(* Nothing keeps two operators from running it at once, or again.          *)
(***************************************************************************)
EXTENDS MinterProperties

CONSTANTS
    Operators,    \* who runs the script
    Buckets,      \* its buckets in order: [cap, daily], daily None if manual
    Principals    \* the accounts each operator has put in the environment

Positions == DOMAIN Buckets

TOTAL_CAP == SumFunction([i \in Positions |-> Buckets[i].cap])

ASSUME BucketsAssumption ==
    Buckets \in Seq([cap : Nat, daily : Optional(Nat)]) /\ Buckets # <<>>
ASSUME PrincipalsAssumption == Principals \in [Operators -> [Positions -> Accounts]]

VARIABLES
    script,    \* the bucket each operator's run has reached
    removed    \* history: accounts whose reserve was removed

init_vars == <<vars, script, removed>>

NotRunning == 0
Done == Len(Buckets) + 1

ScriptInit ==
    /\ Init
    /\ script = [o \in Operators |-> NotRunning]
    /\ removed = {}

-----------------------------------------------------------------------------
(* call_add_manual_reserve *)
ManualReserve_BalanceOnly(account, cap) ==
    [account |-> account, min_balance |-> 0, target_balance |-> 0,
     max_balance |-> cap, max_topup_per_rebalance |-> None,
     lifetime_received_minimum |-> None, lifetime_received_maximum |-> None,
     rate_limits |-> None, enabled |-> TRUE, allow_manual_topup |-> TRUE,
     allow_auto_rebalance |-> FALSE]
ManualReserve(account, cap) ==
    [account |-> account, min_balance |-> 0, target_balance |-> 0,
     max_balance |-> cap, max_topup_per_rebalance |-> None,
     lifetime_received_minimum |-> None, lifetime_received_maximum |-> cap,
     rate_limits |-> None, enabled |-> TRUE, allow_manual_topup |-> TRUE,
     allow_auto_rebalance |-> FALSE]

(* call_add_auto_reserve.  Window 1 is the day and the last one the year.  *)
AutoReserve(account, cap, daily) ==
    [ManualReserve(account, cap) EXCEPT
        !.min_balance = 2 * daily,
        !.target_balance = 7 * daily,
        !.max_topup_per_rebalance = 7 * daily,
        !.rate_limits = [w \in Windows |-> IF w = 1 THEN 2 * daily
                                           ELSE IF w = Len(HOURS) THEN 365 * daily
                                           ELSE None],
        !.allow_auto_rebalance = TRUE]

Config(o, i) ==
    LET account == Principals[o][i]
    IN  IF Buckets[i].daily = None
        THEN ManualReserve(account, Buckets[i].cap)
        ELSE AutoReserve(account, Buckets[i].cap, Buckets[i].daily)

(* What the script may give to add_reserve. *)
ScriptedConfigs == {Config(o, i) : o \in Operators, i \in Positions}

(* The duplicate check over the environment variables. *)
DistinctPrincipals(o) ==
    \A i, j \in Positions : Principals[o][i] = Principals[o][j] => i = j

RunScript(o) ==
    /\ script[o] \in {NotRunning, Done}
    /\ DistinctPrincipals(o)
    /\ script' = [script EXCEPT ![o] = 1]
    /\ UNCHANGED <<vars, removed>>

Running(o) == script[o] \in Positions

(* What one add_reserve call of the script does to the minter. *)
CallAddReserve(o) ==
    LET config == Config(o, script[o])
    IN  \/ AddReserve(config)
        \/ ~validate_reserve_config(config) /\ UNCHANGED vars
        \/ AccountTaken(config.account) /\ UNCHANGED vars

GoOn_UnlessRefused(o) ==
    script' = [script EXCEPT ![o] =
        IF AccountTaken(Config(o, @).account) THEN Done ELSE @ + 1]
GoOn(o) == script' = [script EXCEPT ![o] = @ + 1]

RegisterBucket(o) ==
    /\ Running(o)
    /\ CallAddReserve(o)
    /\ GoOn(o)
    /\ UNCHANGED removed

(* dfx fails and `set -e' ends the run: the call was executed or not. *)
DfxFails(o) ==
    /\ Running(o)
    /\ CallAddReserve(o) \/ UNCHANGED vars
    /\ script' = [script EXCEPT ![o] = NotRunning]
    /\ UNCHANGED removed

MinterStep ==
    /\ Next
    /\ removed' = removed \cup {reserves[id].config.account :
                                   id \in DOMAIN reserves \ DOMAIN reserves'}
    /\ UNCHANGED script

ScriptNext ==
    \/ \E o \in Operators : RunScript(o) \/ RegisterBucket(o) \/ DfxFails(o)
    \/ MinterStep

ScriptSpec == ScriptInit /\ [][ScriptNext]_init_vars

-----------------------------------------------------------------------------
RegisteredCap(id) == reserves[id].config.lifetime_received_maximum

(* The registered lifetime maxima never add up to more than the total, no  *)
(* matter how many operators run the script, and how often.                *)
CommitmentKept ==
    SumFunction([id \in DOMAIN reserves |-> RegisteredCap(id)]) <= TOTAL_CAP

(* When a run of the script ends with "Done", every bucket is registered   *)
(* with its cap: an error the script ignored was that it already was.      *)
DoneMeansRegistered ==
    \A o \in Operators : script[o] = Done =>
        \A i \in Positions : Principals[o][i] \notin removed =>
            \E id \in DOMAIN reserves : reserves[id].config = Config(o, i)

(* What the ledger has minted to an account under one registration of it.  *)
MintedUnder(id, account) ==
    SumFunctionOnSet(MintedAmounts, {i \in BlocksOf(id) : blocks[i].to = account})

(* Removing a reserve and adding its account again starts the counters     *)
(* from zero: the account of a bucket may be minted the bucket's cap once  *)
(* more, but under no registration, those that are removed included, is it *)
(* minted more than that.                                                  *)
MintedWithinCaps ==
    \A o \in Operators : \A i \in Positions : \A id \in 0..(next_reserve_id - 1) :
        MintedUnder(id, Principals[o][i]) <= Buckets[i].cap
=============================================================================
