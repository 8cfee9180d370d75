------------------------------- MODULE Minter -------------------------------
(***************************************************************************)
(* The minter canister: its persistent state (state.rs), the admin methods *)
(* that change it (api/admin/api.rs), the rebalance logic and its timer    *)
(* (services/rebalance.rs, services/timer.rs) and the upgrade hooks        *)
(* (lib.rs), running against the ledger of Ledger.tla.                     *)
(*                                                                         *)
(* A canister runs one message at a time, so the code between two awaits   *)
(* is one action.  A handler that awaits a ledger call is suspended in a   *)
(* context; `handler' keeps the locals it will need when it resumes.       *)
(* Calls that the code refuses before changing anything are stutters.      *)
(***************************************************************************)
EXTENDS Ledger

CONSTANTS
    Timer,         \* the context of the hourly timer; the others run admin calls
    Keep,          \* "leave this field as it is" in an update
    AddArgs,       \* configurations given to add_reserve
    UpdateArgs,    \* changes given to update_reserve
    Policies,      \* values given to set_global_policy
    TopupAmounts,  \* amounts given to manual_topup_reserve
    MaxReserves,   \* bound of this model: calls of add_reserve
    MaxBlocks      \* bound of this model: with this many blocks, no admin call
                   \* starts a mint and no account is paid from or into

(* The arguments of update_reserve: every field a new value or Keep, the   *)
(* optional fields also None for "clear".                                  *)
UpdateReserveArg ==
    [min_balance : Nat \cup {Keep},
     target_balance : Nat \cup {Keep},
     max_balance : Optional(Nat) \cup {Keep},
     max_topup_per_rebalance : Optional(Nat) \cup {Keep},
     lifetime_received_minimum : Nat \cup {Keep},
     lifetime_received_maximum : Optional(Nat) \cup {Keep},
     rate_limits : Optional(RateLimits) \cup {Keep},
     enabled : BOOLEAN \cup {Keep},
     allow_manual_topup : BOOLEAN \cup {Keep},
     allow_auto_rebalance : BOOLEAN \cup {Keep}]

ASSUME ArgumentsAssumption ==
    /\ Timer \in Contexts
    /\ AddArgs \subseteq ReserveConfig
    /\ UpdateArgs \subseteq UpdateReserveArg
    /\ Policies \subseteq GlobalPolicy
    /\ TopupAmounts \subseteq Nat
ASSUME KeepAssumption == Keep \notin Optional(Nat)
ASSUME BoundsAssumption == MaxReserves \in Nat /\ MaxBlocks \in Nat

VARIABLES
    reserves,                \* the registered reserves, by id
    next_reserve_id,         \* the next id add_reserve assigns
    global_policy,           \* master switch and cap per operation
    idempotency,             \* what is known of each top-up key
    reserve_mint_inflight,   \* ids locked by a mint in progress
    timer_armed,             \* whether the rebalance timer is set
    handler,                 \* what each context is doing
    clock,                   \* the time the system returns, in hours
    loosest                  \* history: the loosest caps each reserve ever had

minter_vars == <<reserves, next_reserve_id, global_policy, idempotency,
                 reserve_mint_inflight, timer_armed, handler, loosest>>
vars == <<minter_vars, ledger_vars, clock>>

Pending(id) == [status |-> "pending", reserve_id |-> id]
Completed(id, amount, block, now) ==
    [status |-> "completed", reserve_id |-> id, minted_amount |-> amount,
     ledger_block_index |-> block, executed_at |-> now]

IdempotencyRecord ==
    [status : {"pending"}, reserve_id : Nat]
    \cup [status : {"completed"}, reserve_id : Nat, minted_amount : Nat,
          ledger_block_index : Nat, executed_at : Instants]

ASSUME NoEntryAssumption == None \notin IdempotencyRecord

Idle == [at |-> "idle"]

(* A handler waits for a balance, holding the copies rebalance_one took    *)
(* when it locked the reserve, or waits for a transfer.  `rest' is what    *)
(* the loop of rebalance_all has still to visit.                           *)
Handler ==
    {Idle}
    \cup [at : {"balance"}, id : Nat, rest : SUBSET Nat, record : ReserveRecord,
          policy : GlobalPolicy]
    \cup [at : {"transfer"}, origin : {"rebalance", "topup"}, id : Nat,
          key : Optional(Keys), rest : SUBSET Nat, amount : Nat, now : Instants]

(* The loosest value of each limit a reserve was ever configured with.     *)
Caps == [max_balance : Optional(Nat), lifetime : Optional(Nat), rate_limits : RateLimits]

TypeOK ==
    /\ LedgerTypeOK
    /\ next_reserve_id \in Nat
    /\ DOMAIN reserves \subseteq 0..(next_reserve_id - 1)
    /\ reserves \in [DOMAIN reserves -> ReserveRecord]
    /\ global_policy \in GlobalPolicy
    /\ idempotency \in [Keys -> Optional(IdempotencyRecord)]
    /\ reserve_mint_inflight \subseteq Nat
    /\ timer_armed \in BOOLEAN
    /\ handler \in [Contexts -> Handler]
    /\ clock \in Instants
    /\ loosest \in [DOMAIN reserves -> Caps]

(* lib.rs init: default state, timer started. *)
Init ==
    /\ LedgerInit
    /\ reserves = [id \in {} |-> NoEvents]
    /\ next_reserve_id = 0
    /\ global_policy = [minting_enabled |-> TRUE, max_mint_per_operation |-> None]
    /\ idempotency = [k \in Keys |-> None]
    /\ reserve_mint_inflight = {}
    /\ timer_armed = TRUE
    /\ handler = [c \in Contexts |-> Idle]
    /\ clock = 0
    /\ loosest = [id \in {} |-> NoEvents]

-----------------------------------------------------------------------------
(* Reserve administration.                                                 *)
(*                                                                         *)
(* An operator named F_Variant, here and below, is a faulty form of F.  It *)
(* is used by no action; README.md says which property it breaks.          *)

(* None is no limit at all, so it is looser than any number. *)
Looser(a, b) == IF None \in {a, b} THEN None ELSE IF a > b THEN a ELSE b

LimitOf(limits, w) == IF limits = None THEN None ELSE limits[w]

CapsOf(config) ==
    [max_balance |-> config.max_balance,
     lifetime |-> config.lifetime_received_maximum,
     rate_limits |-> [w \in Windows |-> LimitOf(config.rate_limits, w)]]

Relax(caps, config) ==
    [max_balance |-> Looser(caps.max_balance, config.max_balance),
     lifetime |-> Looser(caps.lifetime, config.lifetime_received_maximum),
     rate_limits |-> [w \in Windows |->
                         Looser(caps.rate_limits[w], LimitOf(config.rate_limits, w))]]

AccountTaken_Never(account) == FALSE
AccountTaken(account) ==
    \E id \in DOMAIN reserves : reserves[id].config.account = account

NewRecord(config) ==
    [config |-> config, lifetime_minted |-> 0, mint_events |-> NoEvents]

(* add_reserve *)
AddReserve(config) ==
    /\ next_reserve_id < MaxReserves
    /\ validate_reserve_config(config)
    /\ ~AccountTaken(config.account)
    /\ LET id == next_reserve_id
           ids == DOMAIN reserves \cup {id}
       IN  /\ reserves' =
                [r \in ids |-> IF r = id THEN NewRecord(config) ELSE reserves[r]]
           /\ loosest' = [r \in ids |-> IF r = id THEN CapsOf(config) ELSE loosest[r]]
           /\ next_reserve_id' = id + 1
    /\ UNCHANGED <<global_policy, idempotency, reserve_mint_inflight, timer_armed,
                   handler, ledger_vars, clock>>

Given(new, old) == IF new = Keep THEN old ELSE new

Updated(config, arg) ==
    [account |-> config.account,
     min_balance |-> Given(arg.min_balance, config.min_balance),
     target_balance |-> Given(arg.target_balance, config.target_balance),
     max_balance |-> Given(arg.max_balance, config.max_balance),
     max_topup_per_rebalance |->
         Given(arg.max_topup_per_rebalance, config.max_topup_per_rebalance),
     lifetime_received_minimum |->
         Given(arg.lifetime_received_minimum, config.lifetime_received_minimum),
     lifetime_received_maximum |->
         Given(arg.lifetime_received_maximum, config.lifetime_received_maximum),
     rate_limits |-> Given(arg.rate_limits, config.rate_limits),
     enabled |-> Given(arg.enabled, config.enabled),
     allow_manual_topup |-> Given(arg.allow_manual_topup, config.allow_manual_topup),
     allow_auto_rebalance |->
         Given(arg.allow_auto_rebalance, config.allow_auto_rebalance)]

LowersGuarantee(config, arg) ==
    /\ arg.lifetime_received_minimum # Keep
    /\ config.lifetime_received_minimum # None
    /\ arg.lifetime_received_minimum < config.lifetime_received_minimum

(* The counters of the record are carried over. *)
WithConfig_Fresh(record, config) == NewRecord(config)
WithConfig(record, config) == [record EXCEPT !.config = config]

(* update_reserve *)
UpdateReserve(id, arg) ==
    /\ id \in DOMAIN reserves
    /\ ~LowersGuarantee(reserves[id].config, arg)
    /\ LET updated == Updated(reserves[id].config, arg)
       IN  /\ validate_reserve_config(updated)
           /\ reserves' = [reserves EXCEPT ![id] = WithConfig(@, updated)]
           /\ loosest' = [loosest EXCEPT ![id] = Relax(@, updated)]
    /\ UNCHANGED <<next_reserve_id, global_policy, idempotency, reserve_mint_inflight,
                   timer_armed, handler, ledger_vars, clock>>

PendingFor(id) == {k \in Keys : idempotency[k] = Pending(id)}

Removable_Locked(id) == PendingFor(id) = {}
Removable(id) == id \notin reserve_mint_inflight /\ PendingFor(id) = {}

(* remove_reserve: its counters and mint events go with it. *)
RemoveReserve(id) ==
    /\ id \in DOMAIN reserves
    /\ Removable(id)
    /\ reserves' = [r \in DOMAIN reserves \ {id} |-> reserves[r]]
    /\ loosest' = [r \in DOMAIN reserves \ {id} |-> loosest[r]]
    /\ UNCHANGED <<next_reserve_id, global_policy, idempotency, reserve_mint_inflight,
                   timer_armed, handler, ledger_vars, clock>>

(* set_global_policy *)
SetGlobalPolicy(policy) ==
    /\ global_policy' = policy
    /\ UNCHANGED <<reserves, next_reserve_id, idempotency, reserve_mint_inflight,
                   timer_armed, handler, loosest, ledger_vars, clock>>

-----------------------------------------------------------------------------
(* Mint locks. *)

Live(c) == handler[c].at # "idle"

(* The reserves a context is minting to: its handler's, and that of a      *)
(* transfer the ledger may still execute although its handler is lost.     *)
Claims(c) ==
    (IF Live(c) THEN {handler[c].id} ELSE {})
    \cup (IF call[c].status = "transfer" THEN {call[c].tx.memo.id} ELSE {})

Busy(id) == \E c \in Contexts : id \in Claims(c)

DropPending_Forgotten(id, key) == UNCHANGED idempotency
DropPending_Completed(id, key) ==
    idempotency' = [k \in Keys |-> IF k = key THEN None ELSE idempotency[k]]
DropPending(id, key) ==
    idempotency' = [k \in Keys |->
        IF k = key /\ idempotency[k] = Pending(id) THEN None ELSE idempotency[k]]

(* release_stuck_mint_state: the lock is removed even where the call then  *)
(* answers that the key is pending for another reserve.  The operator is   *)
(* meant to call it for a mint that is dead; "live_release" lets it happen *)
(* at any time.                                                            *)
ReleaseStuckMintState(id, key) ==
    /\ "live_release" \in Environment \/ ~Busy(id)
    /\ reserve_mint_inflight' = reserve_mint_inflight \ {id}
    /\ DropPending(id, key)
    /\ UNCHANGED <<reserves, next_reserve_id, global_policy, timer_armed, handler,
                   loosest, ledger_vars, clock>>

-----------------------------------------------------------------------------
(* Rebalance.  rebalance_all visits the ids it found at its start in       *)
(* ascending order; one whose reserve is gone or locked fails at once.     *)

Free(c) == ~Live(c) /\ call[c] = NoCall

AdminMayMint(c) == c # Timer /\ Free(c) /\ Len(blocks) < MaxBlocks

Lockable_Twice(id, locked) == id \in DOMAIN reserves
Lockable(id, locked) == id \in DOMAIN reserves /\ id \notin locked

Startable(queue, locked) == {id \in queue : Lockable(id, locked)}

(* Locks the reserve, copies its record and the policy, asks the balance. *)
BeginRebalance(c, id, queue, locked) ==
    /\ reserve_mint_inflight' = locked \cup {id}
    /\ handler' = [handler EXCEPT ![c] =
          [at |-> "balance", id |-> id, rest |-> {r \in queue : r > id},
           record |-> reserves'[id], policy |-> global_policy]]
    /\ call' = [call EXCEPT ![c] = get_balance(reserves'[id].config.account)]

(* The loop goes on to the first reserve it can lock, or the handler ends. *)
ContinueWith(c, queue, locked) ==
    \/ /\ Startable(queue, locked) = {}
       /\ reserve_mint_inflight' = locked
       /\ handler' = [handler EXCEPT ![c] = Idle]
       /\ call' = [call EXCEPT ![c] = NoCall]
    \/ \E id \in Startable(queue, locked) :
           /\ \A other \in Startable(queue, locked) : id <= other
           /\ BeginRebalance(c, id, queue, locked)

(* The end of one iteration: the lock is released. *)
FinishWith_KeepsLock(c) ==
    /\ ContinueWith(c, handler[c].rest, reserve_mint_inflight)
    /\ UNCHANGED <<next_reserve_id, global_policy, timer_armed, loosest,
                   balance, blocks, clock>>
FinishWith(c) ==
    /\ ContinueWith(c, handler[c].rest, reserve_mint_inflight \ {handler[c].id})
    /\ UNCHANGED <<next_reserve_id, global_policy, timer_armed, loosest,
                   balance, blocks, clock>>

StartRebalance(c, queue) ==
    /\ Free(c)
    /\ Startable(queue, reserve_mint_inflight) # {}
    /\ UNCHANGED reserves
    /\ ContinueWith(c, queue, reserve_mint_inflight)
    /\ UNCHANGED <<next_reserve_id, global_policy, idempotency, timer_armed, loosest,
                   balance, blocks, clock>>

RebalanceReserve(c, id) == AdminMayMint(c) /\ StartRebalance(c, {id})

RebalanceAllReserves(c) == AdminMayMint(c) /\ StartRebalance(c, DOMAIN reserves)

(* The interval timer is serial: no tick while a cycle is still running. *)
TimerTick == timer_armed /\ StartRebalance(Timer, DOMAIN reserves)

AwaitsBalance(c) == handler[c].at = "balance"

BalanceFailed_EndsCycle(c) ==
    /\ AwaitsBalance(c)
    /\ call[c] = Failed
    /\ ContinueWith(c, {}, reserve_mint_inflight \ {handler[c].id})
    /\ UNCHANGED <<reserves, next_reserve_id, global_policy, idempotency, timer_armed,
                   loosest, balance, blocks, clock>>
BalanceFailed(c) ==
    /\ AwaitsBalance(c)
    /\ call[c] = Failed
    /\ UNCHANGED <<reserves, idempotency>>
    /\ FinishWith(c)

(* What the copies taken at the start and the balance answered call for. *)
Computed(c) ==
    compute_rebalance(handler[c].record.config, call[c].value,
                      handler[c].record.lifetime_minted, handler[c].policy)

Budget(c) ==
    available_mint_budget(handler[c].record.config.rate_limits,
                          handler[c].record.mint_events, clock)

NothingToMint(c) ==
    /\ AwaitsBalance(c)
    /\ call[c].status = "ok"
    /\ Computed(c).action # "Minted" \/ Budget(c) = 0
    /\ UNCHANGED <<reserves, idempotency>>
    /\ FinishWith(c)

(* Every handler that sends a transfer waits for it with these locals. *)
AwaitTransfer(c, origin, id, key, rest, amount) ==
    handler' = [handler EXCEPT ![c] =
        [at |-> "transfer", origin |-> origin, id |-> id, key |-> key, rest |-> rest,
         amount |-> amount, now |-> clock]]

SendMint(c) ==
    /\ AwaitsBalance(c)
    /\ call[c].status = "ok"
    /\ Computed(c).action = "Minted"
    /\ LET id == handler[c].id
           account == handler[c].record.config.account
           memo == [origin |-> "rebalance", id |-> id, key |-> None]
       IN  \E amount \in 1..Computed(c).mint_amount :
               /\ amount = Cap(Computed(c).mint_amount, Budget(c))
               /\ AwaitTransfer(c, "rebalance", id, None, handler[c].rest, amount)
               /\ call' = [call EXCEPT ![c] = mint_to(account, amount, memo, clock)]
    /\ UNCHANGED <<reserves, next_reserve_id, global_policy, idempotency,
                   reserve_mint_inflight, timer_armed, loosest, balance, blocks, clock>>

AwaitsTransfer(c, origin) == handler[c].at = "transfer" /\ handler[c].origin = origin

WithMint_LastOnly(record, amount, now) ==
    LET events == [record.mint_events EXCEPT ![now] = @ + amount]
    IN  [record EXCEPT !.lifetime_minted = amount,
                       !.mint_events = prune_old_events(events, now)]
WithMint(record, amount, now) ==
    LET events == [record.mint_events EXCEPT ![now] = @ + amount]
    IN  [record EXCEPT !.lifetime_minted = @ + amount,
                       !.mint_events = prune_old_events(events, now)]

(* A reserve that is gone has nowhere to record the mint. *)
RecordMint(id, amount, now) ==
    reserves' = [r \in DOMAIN reserves |->
        IF r = id THEN WithMint(reserves[r], amount, now) ELSE reserves[r]]

RebalanceMinted(c) ==
    /\ AwaitsTransfer(c, "rebalance")
    /\ Succeeded(call[c])
    /\ RecordMint(handler[c].id, handler[c].amount, handler[c].now)
    /\ UNCHANGED idempotency
    /\ FinishWith(c)

RebalanceMintFailed(c) ==
    /\ AwaitsTransfer(c, "rebalance")
    /\ call[c] = Failed
    /\ UNCHANGED <<reserves, idempotency>>
    /\ FinishWith(c)

-----------------------------------------------------------------------------
(* Manual top-up. *)

validate_manual_topup_inputs(id, amount) ==
    LET record == reserves[id]
        config == record.config
    IN  /\ global_policy.minting_enabled
        /\ config.enabled /\ config.allow_manual_topup
        /\ global_policy.max_mint_per_operation # None =>
               amount <= global_policy.max_mint_per_operation
        /\ config.lifetime_received_maximum # None =>
               record.lifetime_minted + amount <= config.lifetime_received_maximum
        /\ check_rate_limits(config.rate_limits, record.mint_events, amount, clock)

ReserveKey_Default(key, id) ==
    idempotency' = [k \in Keys \cup {key} |->
        IF k = key THEN Pending(id) ELSE idempotency[k]]
ReserveKey(key, id) ==
    idempotency' = [k \in Keys |-> IF k = key THEN Pending(id) ELSE idempotency[k]]

Unused_Completed(key) ==
    key # None => (idempotency[key] # None => idempotency[key].status = "completed")
Unused(key) == key # None => idempotency[key] = None

(* Locks and reserves the key, validates, and sends the transfer, all      *)
(* before the first await.  A refusal rolls back: no change.  So does a    *)
(* completed key, whose stored answer is returned.                         *)
ManualTopup(c, id, amount, key) ==
    /\ AdminMayMint(c)
    /\ Unused(key)
    /\ Lockable(id, reserve_mint_inflight)
    /\ validate_manual_topup_inputs(id, amount)
    /\ reserve_mint_inflight' = reserve_mint_inflight \cup {id}
    /\ ReserveKey(key, id)
    /\ AwaitTransfer(c, "topup", id, key, {}, amount)
    /\ LET memo == [origin |-> "topup", id |-> id, key |-> key]
       IN  call' = [call EXCEPT ![c] =
                       mint_to(reserves[id].config.account, amount, memo, clock)]
    /\ UNCHANGED <<reserves, next_reserve_id, global_policy, timer_armed, loosest,
                   balance, blocks, clock>>

CompleteKey_LastBlock(key, id, amount, block, now) ==
    idempotency' = [k \in Keys |->
        IF k = key /\ id \in DOMAIN reserves
        THEN Completed(id, amount, Len(blocks), now)
        ELSE idempotency[k]]
CompleteKey(key, id, amount, block, now) ==
    idempotency' = [k \in Keys |->
        IF k = key /\ id \in DOMAIN reserves
        THEN Completed(id, amount, block, now)
        ELSE idempotency[k]]

TopupMinted(c) ==
    /\ AwaitsTransfer(c, "topup")
    /\ Succeeded(call[c])
    /\ RecordMint(handler[c].id, handler[c].amount, handler[c].now)
    /\ CompleteKey(handler[c].key, handler[c].id, handler[c].amount, call[c].value,
                   handler[c].now)
    /\ FinishWith(c)

(* rollback_manual_mint_begin *)
TopupMintFailed(c) ==
    /\ AwaitsTransfer(c, "topup")
    /\ call[c] = Failed
    /\ UNCHANGED reserves
    /\ DropPending(handler[c].id, handler[c].key)
    /\ FinishWith(c)

-----------------------------------------------------------------------------
(* Traps, upgrades and time. *)

(* A continuation that traps loses its own changes and its context; what   *)
(* earlier segments did, the lock and the pending key included, stays.     *)
Trap(c) ==
    /\ "trap" \in Environment
    /\ Live(c) /\ Replied(c)
    /\ handler' = [handler EXCEPT ![c] = Idle]
    /\ call' = [call EXCEPT ![c] = NoCall]
    /\ UNCHANGED <<reserves, next_reserve_id, global_policy, idempotency,
                   reserve_mint_inflight, timer_armed, loosest, balance, blocks, clock>>

Upgrade_Unlocks ==
    /\ "live_upgrade" \in Environment \/ \A c \in Contexts : ~Live(c)
    /\ timer_armed' = TRUE
    /\ handler' = [c \in Contexts |-> Idle]
    /\ reserve_mint_inflight' = {}
    /\ UNCHANGED <<reserves, next_reserve_id, global_policy, idempotency, loosest,
                   ledger_vars, clock>>
Upgrade_NoTimer ==
    /\ "live_upgrade" \in Environment \/ \A c \in Contexts : ~Live(c)
    /\ timer_armed' = FALSE
    /\ handler' = [c \in Contexts |-> Idle]
    /\ UNCHANGED <<reserves, next_reserve_id, global_policy, idempotency,
                   reserve_mint_inflight, loosest, ledger_vars, clock>>

(* pre_upgrade saves the state, post_upgrade restores it and starts the    *)
(* timer, which the upgrade cleared.  An upgrade of a canister that was    *)
(* not stopped first loses its suspended handlers.                         *)
Upgrade ==
    /\ "live_upgrade" \in Environment \/ \A c \in Contexts : ~Live(c)
    /\ timer_armed' = TRUE
    /\ handler' = [c \in Contexts |-> Idle]
    /\ UNCHANGED <<reserves, next_reserve_id, global_policy, idempotency,
                   reserve_mint_inflight, loosest, ledger_vars, clock>>

(* The reply of a call whose handler is lost reaches nobody. *)
DropOrphanReply(c) ==
    /\ ~Live(c) /\ Replied(c)
    /\ call' = [call EXCEPT ![c] = NoCall]
    /\ UNCHANGED <<minter_vars, balance, blocks, clock>>

Tick ==
    /\ clock < MaxTime
    /\ clock' = clock + 1
    /\ UNCHANGED <<minter_vars, ledger_vars>>

-----------------------------------------------------------------------------
Admin ==
    \/ \E config \in AddArgs : AddReserve(config)
    \/ \E id \in DOMAIN reserves : \E arg \in UpdateArgs : UpdateReserve(id, arg)
    \/ \E id \in DOMAIN reserves : RemoveReserve(id)
    \/ \E policy \in Policies : SetGlobalPolicy(policy)
    \/ \E id \in 0..(next_reserve_id - 1) : \E key \in Optional(Keys) :
           ReleaseStuckMintState(id, key)

Begin(c) ==
    \/ \E id \in DOMAIN reserves : RebalanceReserve(c, id)
    \/ RebalanceAllReserves(c)
    \/ \E id \in DOMAIN reserves : \E amount \in TopupAmounts : \E key \in Optional(Keys) :
           ManualTopup(c, id, amount, key)

(* The continuation of the handler in context c. *)
Resume(c) ==
    \/ BalanceFailed(c)
    \/ NothingToMint(c)
    \/ SendMint(c)
    \/ RebalanceMinted(c)
    \/ RebalanceMintFailed(c)
    \/ TopupMinted(c)
    \/ TopupMintFailed(c)

LedgerStep ==
    /\ \/ \E c \in Contexts : LedgerAnswer(c) \/ LedgerFault(c)
       \/ Len(blocks) < MaxBlocks /\ LedgerUser
    /\ UNCHANGED <<minter_vars, clock>>

Next ==
    \/ Admin
    \/ \E c \in Contexts : Begin(c) \/ Resume(c)
    \/ TimerTick
    \/ LedgerStep
    \/ \E c \in Contexts : Trap(c) \/ DropOrphanReply(c)
    \/ Upgrade
    \/ Tick

Spec == Init /\ [][Next]_vars
=============================================================================
