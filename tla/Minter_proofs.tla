---------------------------- MODULE Minter_proofs ----------------------------
(***************************************************************************)
(* Proofs about Minter.tla for every value of its constants: its types,    *)
(* the locks and the copies of the handlers, the lifetime limit, what a    *)
(* completed key promises, that a key mints once, and that no lock and no  *)
(* pending key is left behind.                                             *)
(***************************************************************************)
EXTENDS MinterProperties, FiniteSetTheorems, TLAPS

-----------------------------------------------------------------------------
(* Lemmas on the operators of Reserve.tla.                                 *)

(* Cap yields an amount that exceeds neither argument. *)
LEMMA CapBounds ==
    ASSUME NEW amount \in Nat, NEW cap \in Optional(Nat)
    PROVE  /\ Cap(amount, cap) \in Nat
           /\ Cap(amount, cap) <= amount
           /\ cap # None => Cap(amount, cap) <= cap
  BY NoneAssumption DEF Cap, Optional

(* Room is what a ceiling leaves, and zero once it is used up. *)
LEMMA RoomBounds ==
    ASSUME NEW ceiling \in Optional(Nat), NEW used \in Nat
    PROVE  /\ Room(ceiling, used) \in Optional(Nat)
           /\ ceiling # None =>
                  /\ Room(ceiling, used) \in Nat
                  /\ Room(ceiling, used) = 0 \/ used + Room(ceiling, used) <= ceiling
  BY NoneAssumption DEF Room, saturating_sub, Optional

(* The larger deficit is a natural number. *)
LEMMA DeficitType ==
    ASSUME NEW config \in ReserveConfig, NEW current \in Nat, NEW minted \in Nat
    PROVE  LargerDeficit(config, current, minted) \in Nat
  <1>1. config.target_balance \in Nat
        /\ config.lifetime_received_minimum \in Optional(Nat)
    BY DEF ReserveConfig
  <1>2. cyclical_deficit(config, current) \in Nat
    BY <1>1 DEF cyclical_deficit, saturating_sub
  <1>3. lifetime_deficit(config, minted) \in Nat
    BY <1>1, NoneAssumption DEF lifetime_deficit, saturating_sub, Optional
  <1> QED
    BY <1>2, <1>3 DEF LargerDeficit

(* What compute_rebalance asks to mint is a natural number, and with a     *)
(* lifetime maximum it is zero or stays within it.                         *)
LEMMA ComputeBounds ==
    ASSUME NEW config \in ReserveConfig, NEW current \in Nat, NEW minted \in Nat,
           NEW policy \in GlobalPolicy
    PROVE  LET amount == compute_rebalance(config, current, minted, policy).mint_amount
           IN  /\ amount \in Nat
               /\ config.lifetime_received_maximum # None =>
                      amount = 0 \/ minted + amount <= config.lifetime_received_maximum
  <1> DEFINE raw == LargerDeficit(config, current, minted)
             topup == Cap(raw, config.max_topup_per_rebalance)
             room == Room(config.max_balance, current)
             below == Cap(topup, room)
             rest == Room(config.lifetime_received_maximum, minted)
             lifetime == Cap(below, rest)
             capped == CappedAmount(config, current, minted, policy)
  <1>1. /\ config.max_topup_per_rebalance \in Optional(Nat)
        /\ config.max_balance \in Optional(Nat)
        /\ config.lifetime_received_maximum \in Optional(Nat)
        /\ policy.max_mint_per_operation \in Optional(Nat)
    BY DEF ReserveConfig, GlobalPolicy
  <1>2. raw \in Nat
    BY DeficitType
  <1>3. topup \in Nat
    BY <1>1, <1>2, CapBounds
  <1>4. below \in Nat
    <2>1. room \in Optional(Nat)
      BY <1>1, RoomBounds
    <2> HIDE DEF topup, room
    <2> QED
      BY <2>1, <1>3, CapBounds
  <1>5. rest \in Optional(Nat)
    BY <1>1, RoomBounds
  <1>6. lifetime \in Nat /\ (rest # None => lifetime <= rest)
    <2> HIDE DEF below, rest
    <2> QED
      BY <1>4, <1>5, CapBounds
  <1>7. capped = Cap(lifetime, policy.max_mint_per_operation)
    BY DEF CappedAmount
  <1>8. capped \in Nat /\ capped <= lifetime
    <2> HIDE DEF lifetime, capped
    <2> QED
      BY <1>1, <1>6, <1>7, CapBounds
  <1>9. config.lifetime_received_maximum # None =>
            capped = 0 \/ minted + capped <= config.lifetime_received_maximum
    <2>1. config.lifetime_received_maximum # None =>
              /\ rest \in Nat
              /\ rest = 0 \/ minted + rest <= config.lifetime_received_maximum
      BY <1>1, RoomBounds
    <2> HIDE DEF lifetime, capped, rest
    <2> QED
      BY <2>1, <1>1, <1>6, <1>8, NoneAssumption DEF Optional
  <1>10. compute_rebalance(config, current, minted, policy).mint_amount \in {0, capped}
    <2> HIDE DEF capped
    <2> QED
      BY DEF compute_rebalance, capped
  <1> QED
    BY <1>8, <1>9, <1>10

-----------------------------------------------------------------------------
(* Type correctness.                                                       *)

(* A field of an update is the new value or the old one. *)
LEMMA GivenType ==
    ASSUME NEW S, NEW old \in S, NEW new \in S \cup {Keep}
    PROVE  Given(new, old) \in S
  BY DEF Given

(* What an update leaves is a configuration. *)
LEMMA UpdatedType ==
    ASSUME NEW config \in ReserveConfig, NEW arg \in UpdateReserveArg
    PROVE  Updated(config, arg) \in ReserveConfig
  <1>1. /\ config.account \in Accounts
        /\ Given(arg.min_balance, config.min_balance) \in Nat
        /\ Given(arg.target_balance, config.target_balance) \in Nat
    BY GivenType DEF ReserveConfig, UpdateReserveArg
  <1>2. /\ Given(arg.max_balance, config.max_balance) \in Optional(Nat)
        /\ Given(arg.max_topup_per_rebalance, config.max_topup_per_rebalance)
               \in Optional(Nat)
        /\ Given(arg.lifetime_received_maximum, config.lifetime_received_maximum)
               \in Optional(Nat)
    BY GivenType DEF ReserveConfig, UpdateReserveArg
  <1>3. Given(arg.lifetime_received_minimum, config.lifetime_received_minimum)
            \in Optional(Nat)
    <2>1. /\ config.lifetime_received_minimum \in Optional(Nat)
          /\ arg.lifetime_received_minimum \in Optional(Nat) \cup {Keep}
      BY DEF ReserveConfig, UpdateReserveArg, Optional
    <2> QED
      BY <2>1, GivenType
  <1>4. Given(arg.rate_limits, config.rate_limits) \in Optional(RateLimits)
    BY GivenType DEF ReserveConfig, UpdateReserveArg
  <1>5. /\ Given(arg.enabled, config.enabled) \in BOOLEAN
        /\ Given(arg.allow_manual_topup, config.allow_manual_topup) \in BOOLEAN
        /\ Given(arg.allow_auto_rebalance, config.allow_auto_rebalance) \in BOOLEAN
    BY GivenType DEF ReserveConfig, UpdateReserveArg
  <1> QED
    BY <1>1, <1>2, <1>3, <1>4, <1>5 DEF Updated, ReserveConfig

(* The limit a configuration sets for a window. *)
LEMMA LimitOfType ==
    ASSUME NEW config \in ReserveConfig, NEW w \in Windows
    PROVE  LimitOf(config.rate_limits, w) \in Optional(Nat)
  BY DEF LimitOf, ReserveConfig, RateLimits, Optional

(* The looser of two limits is one of them. *)
LEMMA LooserType ==
    ASSUME NEW a \in Optional(Nat), NEW b \in Optional(Nat)
    PROVE  Looser(a, b) \in Optional(Nat)
  BY DEF Looser, Optional

(* The caps of the history variable keep their type. *)
LEMMA CapsType ==
    ASSUME NEW config \in ReserveConfig
    PROVE  /\ CapsOf(config) \in Caps
           /\ \A caps \in Caps : Relax(caps, config) \in Caps
  <1>1. config.max_balance \in Optional(Nat)
        /\ config.lifetime_received_maximum \in Optional(Nat)
    BY DEF ReserveConfig
  <1>2. CapsOf(config) \in Caps
    BY <1>1, LimitOfType DEF CapsOf, Caps, RateLimits
  <1>3. ASSUME NEW caps \in Caps
        PROVE  Relax(caps, config) \in Caps
    <2>1. /\ caps.max_balance \in Optional(Nat)
          /\ caps.lifetime \in Optional(Nat)
          /\ \A w \in Windows : caps.rate_limits[w] \in Optional(Nat)
      BY DEF Caps, RateLimits
    <2>2. \A w \in Windows :
              Looser(caps.rate_limits[w], LimitOf(config.rate_limits, w)) \in Optional(Nat)
      BY <2>1, LimitOfType, LooserType
    <2>3. /\ Looser(caps.max_balance, config.max_balance) \in Optional(Nat)
          /\ Looser(caps.lifetime, config.lifetime_received_maximum) \in Optional(Nat)
      BY <1>1, <2>1, LooserType
    <2> QED
      BY <2>2, <2>3 DEF Relax, Caps, RateLimits
  <1> QED
    BY <1>2, <1>3

(* The loop of rebalance_all keeps locks, handlers and calls well-formed.   *)
LEMMA ContinueType ==
    ASSUME TypeOK,
           reserves' \in [DOMAIN reserves -> ReserveRecord],
           NEW c \in Contexts, NEW queue \in SUBSET Nat, NEW locked \in SUBSET Nat,
           ContinueWith(c, queue, locked)
    PROVE  /\ reserve_mint_inflight' \subseteq Nat
           /\ handler' \in [Contexts -> Handler]
           /\ call' \in [Contexts -> Calls]
  <1>1. CASE Startable(queue, locked) = {}
    <2>1. /\ reserve_mint_inflight' = locked
          /\ handler' = [handler EXCEPT ![c] = Idle]
          /\ call' = [call EXCEPT ![c] = NoCall]
      BY <1>1 DEF ContinueWith
    <2> QED
      BY <2>1 DEF TypeOK, LedgerTypeOK, Handler, Calls
  <1>2. ASSUME NEW id \in Startable(queue, locked), BeginRebalance(c, id, queue, locked)
        PROVE  /\ reserve_mint_inflight' \subseteq Nat
               /\ handler' \in [Contexts -> Handler]
               /\ call' \in [Contexts -> Calls]
    <2>1. id \in Nat /\ id \in DOMAIN reserves
      BY DEF Startable, Lockable
    <2>2. reserves'[id] \in ReserveRecord /\ reserves'[id].config.account \in Accounts
      BY <2>1 DEF ReserveRecord, ReserveConfig
    <2>3. reserve_mint_inflight' \subseteq Nat
      BY <1>2, <2>1 DEF BeginRebalance
    <2>4. [at |-> "balance", id |-> id, rest |-> {r \in queue : r > id},
           record |-> reserves'[id], policy |-> global_policy] \in Handler
      BY <2>1, <2>2 DEF Handler, TypeOK
    <2>5. handler' \in [Contexts -> Handler]
      BY <1>2, <2>4 DEF BeginRebalance, TypeOK
    <2>6. get_balance(reserves'[id].config.account) \in Calls
      BY <2>2 DEF get_balance, Calls
    <2>7. call' \in [Contexts -> Calls]
      BY <1>2, <2>6 DEF BeginRebalance, TypeOK, LedgerTypeOK
    <2> QED
      BY <2>3, <2>5, <2>7
  <1> QED
    BY <1>1, <1>2 DEF ContinueWith

(* The administrative methods preserve the types. *)
LEMMA AdminTypeOK ==
    ASSUME TypeOK, Admin
    PROVE  TypeOK'
  <1> USE DEF ledger_vars
  <1>1. ASSUME NEW config \in AddArgs, AddReserve(config)
        PROVE  TypeOK'
    <2> DEFINE ids == DOMAIN reserves \cup {next_reserve_id}
    <2>1. /\ config \in ReserveConfig
          /\ CapsOf(config) \in Caps
      BY ArgumentsAssumption, CapsType
    <2>2. NewRecord(config) \in ReserveRecord
      BY <2>1 DEF NewRecord, ReserveRecord, MintEvents, NoEvents
    <2>3. /\ reserves' = [r \in ids |-> IF r = next_reserve_id THEN NewRecord(config)
                                                              ELSE reserves[r]]
          /\ loosest' = [r \in ids |-> IF r = next_reserve_id THEN CapsOf(config)
                                                             ELSE loosest[r]]
          /\ next_reserve_id' = next_reserve_id + 1
      BY <1>1 DEF AddReserve
    <2>4. /\ next_reserve_id' \in Nat
          /\ ids \subseteq 0..(next_reserve_id' - 1)
      BY <2>3 DEF TypeOK
    <2>5. reserves' \in [ids -> ReserveRecord] /\ loosest' \in [ids -> Caps]
      BY <2>1, <2>2, <2>3 DEF TypeOK
    <2>6. DOMAIN reserves' = ids
      BY <2>3
    <2> HIDE DEF ids
    <2> QED
      BY <1>1, <2>4, <2>5, <2>6 DEF AddReserve, TypeOK, LedgerTypeOK
  <1>2. ASSUME NEW id \in DOMAIN reserves, NEW arg \in UpdateArgs, UpdateReserve(id, arg)
        PROVE  TypeOK'
    <2> DEFINE updated == Updated(reserves[id].config, arg)
    <2>1. reserves[id] \in ReserveRecord /\ reserves[id].config \in ReserveConfig
      BY DEF TypeOK, ReserveRecord
    <2>2. updated \in ReserveConfig
      BY <2>1, ArgumentsAssumption, UpdatedType
    <2>3. /\ reserves' = [reserves EXCEPT ![id] = WithConfig(@, updated)]
          /\ loosest' = [loosest EXCEPT ![id] = Relax(@, updated)]
      BY <1>2 DEF UpdateReserve
    <2> HIDE DEF updated
    <2>4. WithConfig(reserves[id], updated) \in ReserveRecord
      BY <2>1, <2>2 DEF WithConfig, ReserveRecord
    <2>5. Relax(loosest[id], updated) \in Caps
      BY <2>2, CapsType DEF TypeOK
    <2>6. /\ reserves' \in [DOMAIN reserves -> ReserveRecord]
          /\ loosest' \in [DOMAIN reserves -> Caps]
      BY <2>3, <2>4, <2>5 DEF TypeOK
    <2> QED
      BY <1>2, <2>6 DEF UpdateReserve, TypeOK, LedgerTypeOK
  <1>3. ASSUME NEW id \in DOMAIN reserves, RemoveReserve(id)
        PROVE  TypeOK'
    BY <1>3 DEF RemoveReserve, TypeOK, LedgerTypeOK
  <1>4. ASSUME NEW policy \in Policies, SetGlobalPolicy(policy)
        PROVE  TypeOK'
    BY <1>4, ArgumentsAssumption DEF SetGlobalPolicy, TypeOK, LedgerTypeOK
  <1>5. ASSUME NEW id \in 0..(next_reserve_id - 1), NEW key \in Optional(Keys),
               ReleaseStuckMintState(id, key)
        PROVE  TypeOK'
    <2>1. idempotency' \in [Keys -> Optional(IdempotencyRecord)]
      BY <1>5 DEF ReleaseStuckMintState, DropPending, TypeOK, Optional
    <2> QED
      BY <1>5, <2>1 DEF ReleaseStuckMintState, TypeOK, LedgerTypeOK
  <1> QED
    BY <1>1, <1>2, <1>3, <1>4, <1>5 DEF Admin

(* A handler that ends an iteration of its loop preserves the types, given *)
(* those of the records and keys it leaves.                                *)
LEMMA FinishTypeOK ==
    ASSUME TypeOK, NEW c \in Contexts, Live(c),
           reserves' \in [DOMAIN reserves -> ReserveRecord],
           idempotency' \in [Keys -> Optional(IdempotencyRecord)],
           FinishWith(c)
    PROVE  TypeOK'
  <1>1. handler[c].rest \in SUBSET Nat
    BY DEF TypeOK, Handler, Live, Idle
  <1>2. ContinueWith(c, handler[c].rest, reserve_mint_inflight \ {handler[c].id})
    BY DEF FinishWith
  <1>3. reserve_mint_inflight \ {handler[c].id} \in SUBSET Nat
    BY DEF TypeOK
  <1>4. /\ reserve_mint_inflight' \subseteq Nat
        /\ handler' \in [Contexts -> Handler]
        /\ call' \in [Contexts -> Calls]
    BY <1>1, <1>2, <1>3, ContinueType
  <1> QED
    BY <1>4 DEF FinishWith, TypeOK, LedgerTypeOK

(* A rebalance that starts preserves the types.                            *)
LEMMA StartTypeOK ==
    ASSUME TypeOK, NEW c \in Contexts, NEW queue \in SUBSET Nat, StartRebalance(c, queue)
    PROVE  TypeOK'
  <1>1. ContinueWith(c, queue, reserve_mint_inflight) /\ reserves' = reserves
    BY DEF StartRebalance
  <1>2. /\ reserve_mint_inflight' \subseteq Nat
        /\ handler' \in [Contexts -> Handler]
        /\ call' \in [Contexts -> Calls]
    BY <1>1, ContinueType DEF TypeOK
  <1> QED
    BY <1>2 DEF StartRebalance, TypeOK, LedgerTypeOK

(* Adding a mint to a record adds its amount and keeps the configuration. *)
LEMMA WithMintType ==
    ASSUME NEW record \in ReserveRecord, NEW amount \in Nat, NEW now \in Instants
    PROVE  /\ WithMint(record, amount, now) \in ReserveRecord
           /\ WithMint(record, amount, now).config = record.config
           /\ WithMint(record, amount, now).lifetime_minted = record.lifetime_minted + amount
  <1> DEFINE events == [record.mint_events EXCEPT ![now] = @ + amount]
             pruned == prune_old_events(events, now)
  <1>1. events \in MintEvents
    BY DEF ReserveRecord, MintEvents
  <1>2. pruned \in MintEvents
    BY <1>1 DEF prune_old_events, MintEvents
  <1>3. /\ record = [config |-> record.config, lifetime_minted |-> record.lifetime_minted,
                      mint_events |-> record.mint_events]
        /\ record.config \in ReserveConfig
        /\ record.lifetime_minted + amount \in Nat
    BY DEF ReserveRecord
  <1>4. WithMint(record, amount, now) =
            [record EXCEPT !.lifetime_minted = record.lifetime_minted + amount,
                           !.mint_events = pruned]
    BY DEF WithMint
  <1>5. WithMint(record, amount, now) =
            [config |-> record.config, lifetime_minted |-> record.lifetime_minted + amount,
             mint_events |-> pruned]
    <2> HIDE DEF events, pruned
    <2> QED
      BY <1>3, <1>4
  <1> HIDE DEF events, pruned
  <1> QED
    BY <1>2, <1>3, <1>5 DEF ReserveRecord

(* Recording a mint keeps the records well-formed. *)
LEMMA RecordMintType ==
    ASSUME TypeOK, NEW id \in Nat, NEW amount \in Nat, NEW now \in Instants,
           RecordMint(id, amount, now)
    PROVE  reserves' \in [DOMAIN reserves -> ReserveRecord]
  <1>1. \A r \in DOMAIN reserves :
            /\ reserves[r] \in ReserveRecord
            /\ WithMint(reserves[r], amount, now) \in ReserveRecord
    BY WithMintType DEF TypeOK
  <1> QED
    BY <1>1 DEF RecordMint

(* The locals of a handler that waits for a transfer. *)
LEMMA TransferHandlerType ==
    ASSUME TypeOK, NEW c \in Contexts, handler[c].at = "transfer"
    PROVE  /\ handler[c].id \in Nat
           /\ handler[c].amount \in Nat
           /\ handler[c].now \in Instants
           /\ handler[c].key \in Optional(Keys)
           /\ handler[c].rest \in SUBSET Nat
  BY DEF TypeOK, Handler, Idle

(* The locals of a handler that waits for a balance. *)
LEMMA BalanceHandlerType ==
    ASSUME TypeOK, NEW c \in Contexts, AwaitsBalance(c)
    PROVE  /\ handler[c].id \in Nat
           /\ handler[c].rest \in SUBSET Nat
           /\ handler[c].record \in ReserveRecord
           /\ handler[c].record.config \in ReserveConfig
           /\ handler[c].record.config.account \in Accounts
           /\ handler[c].record.lifetime_minted \in Nat
           /\ handler[c].policy \in GlobalPolicy
  <1>1. handler[c] \in [at : {"balance"}, id : Nat, rest : SUBSET Nat,
                         record : ReserveRecord, policy : GlobalPolicy]
    BY DEF TypeOK, Handler, Idle, AwaitsBalance
  <1> QED
    BY <1>1 DEF ReserveRecord, ReserveConfig

(* An answer carries a natural number: a balance or a block index. *)
LEMMA ReplyType ==
    ASSUME TypeOK, NEW c \in Contexts, Succeeded(call[c])
    PROVE  call[c].value \in Nat
  BY DEF TypeOK, LedgerTypeOK, Calls, NoCall, Failed, Succeeded

(* A transfer the ledger is asked for is a well-formed call. *)
LEMMA MintToType ==
    ASSUME NEW account \in Accounts, NEW amount \in Nat, NEW memo \in Memo,
           NEW now \in Instants
    PROVE  mint_to(account, amount, memo, now) \in Calls
  <1>1. memo.key \in Optional(Keys)
    BY DEF Memo
  <1>2. Truncated(memo.key) \in Optional(Keys)
    BY <1>1, KeyPrefixAssumption DEF Truncated, Optional
  <1>3. [memo EXCEPT !.key = Truncated(memo.key)] \in Memo
    BY <1>2 DEF Memo
  <1> QED
    BY <1>3 DEF mint_to, Calls, Transfer

(* What SendMint sends, and what it remembers of it. *)
LEMMA SendMintFacts ==
    ASSUME TypeOK, NEW c \in Contexts, SendMint(c)
    PROVE  \E amount \in Nat :
               LET record == handler[c].record
                   maximum == record.config.lifetime_received_maximum
                   memo == [origin |-> "rebalance", id |-> handler[c].id, key |-> None]
               IN  /\ AwaitTransfer(c, "rebalance", handler[c].id, None, handler[c].rest, amount)
                   /\ call' = [call EXCEPT
                         ![c] = mint_to(record.config.account, amount, memo, clock)]
                   /\ maximum # None => record.lifetime_minted + amount <= maximum
  <1> DEFINE mint_amount == Computed(c).mint_amount
             maximum == handler[c].record.config.lifetime_received_maximum
             minted == handler[c].record.lifetime_minted
  <1>1. AwaitsBalance(c) /\ call[c].status = "ok"
    BY DEF SendMint
  <1>2. /\ mint_amount \in Nat
        /\ maximum # None => mint_amount = 0 \/ minted + mint_amount <= maximum
    <2>1. call[c].value \in Nat
      BY <1>1, ReplyType DEF Succeeded
    <2> QED
      BY <1>1, <2>1, BalanceHandlerType, ComputeBounds DEF Computed
  <1>3. maximum \in Optional(Nat) /\ minted \in Nat
    BY <1>1, BalanceHandlerType DEF ReserveConfig
  <1>4. PICK amount \in 1..mint_amount :
            /\ AwaitTransfer(c, "rebalance", handler[c].id, None, handler[c].rest, amount)
            /\ call' = [call EXCEPT
                  ![c] = mint_to(handler[c].record.config.account, amount,
                                 [origin |-> "rebalance", id |-> handler[c].id, key |-> None],
                                 clock)]
    BY DEF SendMint
  <1>5. amount \in Nat /\ (maximum # None => minted + amount <= maximum)
    <2> HIDE DEF mint_amount, maximum, minted
    <2> QED
      BY <1>2, <1>3 DEF Optional
  <1> QED
    BY <1>4, <1>5

(* A handler awaiting a transfer it just sent is well-formed. *)
LEMMA AwaitTransferType ==
    ASSUME TypeOK, NEW c \in Contexts, NEW origin \in {"rebalance", "topup"},
           NEW id \in Nat, NEW key \in Optional(Keys), NEW rest \in SUBSET Nat,
           NEW amount \in Nat, AwaitTransfer(c, origin, id, key, rest, amount)
    PROVE  handler' \in [Contexts -> Handler]
  BY DEF AwaitTransfer, Handler, TypeOK

(* Starting a rebalance, an hourly cycle or a top-up preserves the types.  *)
LEMMA BeginTypeOK ==
    ASSUME TypeOK, NEW c \in Contexts, Begin(c) \/ (c = Timer /\ TimerTick)
    PROVE  TypeOK'
  <1>0. DOMAIN reserves \in SUBSET Nat
    BY DEF TypeOK
  <1>1. ASSUME NEW id \in DOMAIN reserves, RebalanceReserve(c, id)
        PROVE  TypeOK'
    <2>1. {id} \in SUBSET Nat
      BY <1>0
    <2> QED
      BY <1>1, <2>1, StartTypeOK DEF RebalanceReserve
  <1>2. ASSUME RebalanceAllReserves(c) \/ (c = Timer /\ TimerTick)
        PROVE  TypeOK'
    BY <1>0, <1>2, StartTypeOK DEF RebalanceAllReserves, TimerTick
  <1>3. ASSUME NEW id \in DOMAIN reserves, NEW amount \in TopupAmounts,
               NEW key \in Optional(Keys), ManualTopup(c, id, amount, key)
        PROVE  TypeOK'
    <2>1. id \in Nat /\ amount \in Nat /\ clock \in Instants
      BY <1>0, ArgumentsAssumption DEF TypeOK
    <2>2. reserves[id].config.account \in Accounts
      BY DEF TypeOK, ReserveRecord, ReserveConfig
    <2>3. [origin |-> "topup", id |-> id, key |-> key] \in Memo
      BY <2>1 DEF Memo
    <2>4. call' \in [Contexts -> Calls]
      BY <1>3, <2>1, <2>2, <2>3, MintToType DEF ManualTopup, TypeOK, LedgerTypeOK
    <2>5. handler' \in [Contexts -> Handler]
      BY <1>3, <2>1, AwaitTransferType DEF ManualTopup
    <2>6. idempotency' \in [Keys -> Optional(IdempotencyRecord)]
      BY <1>3, <2>1
      DEF ManualTopup, ReserveKey, Pending, IdempotencyRecord, TypeOK, Optional
    <2>7. reserve_mint_inflight' \subseteq Nat
      BY <1>3, <2>1 DEF ManualTopup, TypeOK
    <2> QED
      BY <1>3, <2>4, <2>5, <2>6, <2>7 DEF ManualTopup, TypeOK, LedgerTypeOK
  <1> QED
    BY <1>1, <1>2, <1>3 DEF Begin

(* Every continuation of a handler preserves the types.                    *)
LEMMA ResumeTypeOK ==
    ASSUME TypeOK, NEW c \in Contexts, Resume(c)
    PROVE  TypeOK'
  <1> USE DEF AwaitsTransfer
  <1>1. ASSUME BalanceFailed(c) \/ NothingToMint(c) \/ RebalanceMintFailed(c)
        PROVE  TypeOK'
    <2>1. Live(c) /\ FinishWith(c) /\ UNCHANGED <<reserves, idempotency>>
      BY <1>1 DEF BalanceFailed, NothingToMint, RebalanceMintFailed, AwaitsBalance, Live
    <2> QED
      BY <2>1, FinishTypeOK DEF TypeOK
  <1>2. ASSUME SendMint(c)
        PROVE  TypeOK'
    <2>1. PICK amount \in Nat :
              LET memo == [origin |-> "rebalance", id |-> handler[c].id, key |-> None]
              IN  /\ AwaitTransfer(c, "rebalance", handler[c].id, None, handler[c].rest, amount)
                  /\ call' = [call EXCEPT
                        ![c] = mint_to(handler[c].record.config.account, amount, memo, clock)]
      BY <1>2, SendMintFacts
    <2>2. /\ handler[c].id \in Nat
          /\ handler[c].rest \in SUBSET Nat
          /\ handler[c].record.config.account \in Accounts
          /\ None \in Optional(Keys)
          /\ clock \in Instants
      BY <1>2, BalanceHandlerType DEF SendMint, TypeOK, Optional
    <2>3. [origin |-> "rebalance", id |-> handler[c].id, key |-> None] \in Memo
      BY <2>2 DEF Memo
    <2>4. call' \in [Contexts -> Calls]
      BY <2>1, <2>2, <2>3, MintToType DEF TypeOK, LedgerTypeOK
    <2>5. handler' \in [Contexts -> Handler]
      BY <2>1, <2>2, AwaitTransferType
    <2> QED
      BY <1>2, <2>4, <2>5 DEF SendMint, TypeOK, LedgerTypeOK
  <1>3. ASSUME RebalanceMinted(c)
        PROVE  TypeOK'
    <2>1. handler[c].at = "transfer" /\ Live(c)
      BY <1>3 DEF RebalanceMinted, Live
    <2>2. reserves' \in [DOMAIN reserves -> ReserveRecord]
      BY <1>3, <2>1, TransferHandlerType, RecordMintType DEF RebalanceMinted
    <2>3. idempotency' \in [Keys -> Optional(IdempotencyRecord)]
      BY <1>3 DEF RebalanceMinted, TypeOK
    <2> QED
      BY <1>3, <2>1, <2>2, <2>3, FinishTypeOK DEF RebalanceMinted
  <1>4. ASSUME TopupMinted(c)
        PROVE  TypeOK'
    <2>1. handler[c].at = "transfer" /\ Live(c)
      BY <1>4 DEF TopupMinted, Live
    <2>2. reserves' \in [DOMAIN reserves -> ReserveRecord]
      BY <1>4, <2>1, TransferHandlerType, RecordMintType DEF TopupMinted
    <2>3. Completed(handler[c].id, handler[c].amount, call[c].value, handler[c].now)
              \in IdempotencyRecord
      BY <1>4, <2>1, TransferHandlerType, ReplyType
      DEF TopupMinted, Completed, IdempotencyRecord
    <2>4. idempotency' \in [Keys -> Optional(IdempotencyRecord)]
      BY <1>4, <2>3 DEF TopupMinted, CompleteKey, TypeOK, Optional
    <2> QED
      BY <1>4, <2>1, <2>2, <2>4, FinishTypeOK DEF TopupMinted
  <1>5. ASSUME TopupMintFailed(c)
        PROVE  TypeOK'
    <2>1. Live(c) /\ FinishWith(c) /\ UNCHANGED reserves
      BY <1>5 DEF TopupMintFailed, Live
    <2>2. idempotency' \in [Keys -> Optional(IdempotencyRecord)]
      BY <1>5 DEF TopupMintFailed, DropPending, TypeOK, Optional
    <2> QED
      BY <2>1, <2>2, FinishTypeOK DEF TypeOK
  <1> QED
    BY <1>1, <1>2, <1>3, <1>4, <1>5 DEF Resume

(* A pending call carries what its status says. *)
LEMMA CallType ==
    ASSUME TypeOK, NEW c \in Contexts
    PROVE  /\ call[c].status = "balance_of" => call[c].account \in Accounts
           /\ call[c].status = "transfer" => call[c].tx \in Transfer
  <1>1. call[c] \in Calls
    BY DEF TypeOK, LedgerTypeOK
  <1>2. CASE call[c] \in {NoCall, Failed}
    BY <1>2 DEF NoCall, Failed
  <1>3. CASE call[c] \in [status : {"balance_of"}, account : Accounts]
    BY <1>3
  <1>4. CASE call[c] \in [status : {"transfer"}, tx : Transfer]
    BY <1>4
  <1>5. CASE call[c] \in [status : {"ok", "duplicate"}, value : Nat]
    BY <1>5
  <1> QED
    BY <1>1, <1>2, <1>3, <1>4, <1>5 DEF Calls

(* The ledger's answers and faults, and its users, preserve the types.     *)
LEMMA LedgerStepTypeOK ==
    ASSUME TypeOK, LedgerStep
    PROVE  TypeOK'
  <1>1. ASSUME NEW c \in Contexts, ServeBalance(c)
        PROVE  LedgerTypeOK'
    <2>1. call[c].account \in Accounts
      BY <1>1, CallType DEF ServeBalance
    <2>2. [status |-> "ok", value |-> balance[call[c].account]] \in Calls
      BY <2>1 DEF TypeOK, LedgerTypeOK, Calls
    <2> QED
      BY <1>1, <2>2 DEF ServeBalance, Reply, TypeOK, LedgerTypeOK
  <1>2. ASSUME NEW c \in Contexts, ExecuteTransfer(c)
        PROVE  LedgerTypeOK'
    <2>1. call[c].tx \in Transfer
      BY <1>2, CallType DEF ExecuteTransfer
    <2>2. call[c].tx.to \in Accounts /\ call[c].tx.amount \in Nat
      BY <2>1 DEF Transfer
    <2>3. blocks' \in Seq(Transfer) /\ Len(blocks) + 1 \in Nat
      BY <1>2, <2>1 DEF ExecuteTransfer, TypeOK, LedgerTypeOK
    <2>4. [status |-> "ok", value |-> Len(blocks) + 1] \in Calls
      BY <2>3 DEF Calls
    <2>5. call' \in [Contexts -> Calls]
      BY <1>2, <2>4 DEF ExecuteTransfer, Reply, TypeOK, LedgerTypeOK
    <2>6. balance' \in [Accounts -> Nat]
      BY <1>2, <2>2 DEF ExecuteTransfer, TypeOK, LedgerTypeOK
    <2> QED
      BY <2>3, <2>5, <2>6 DEF LedgerTypeOK
  <1>3. ASSUME NEW c \in Contexts, RefuseDuplicate(c)
        PROVE  LedgerTypeOK'
    <2>1. PICK i \in DOMAIN blocks : Reply(c, "duplicate", i)
      BY <1>3 DEF RefuseDuplicate
    <2>2. [status |-> "duplicate", value |-> i] \in Calls
      BY DEF TypeOK, LedgerTypeOK, Calls
    <2> QED
      BY <1>3, <2>1, <2>2 DEF RefuseDuplicate, Reply, TypeOK, LedgerTypeOK
  <1>4. ASSUME NEW c \in Contexts, Reject(c) \/ LoseReply(c)
        PROVE  LedgerTypeOK'
    BY <1>4 DEF Reject, LoseReply, TypeOK, LedgerTypeOK, Calls
  <1>5. ASSUME NEW a \in Accounts, Spend(a) \/ Deposit(a)
        PROVE  LedgerTypeOK'
    <2>1. CASE Spend(a)
      BY <2>1 DEF Spend, TypeOK, LedgerTypeOK
    <2>2. CASE Deposit(a)
      <3>1. PICK amount \in 1..(TotalMinted - TotalHeld) :
                balance' = [balance EXCEPT ![a] = @ + amount]
        BY <2>2 DEF Deposit
      <3>2. amount \in Nat
        OBVIOUS
      <3> QED
        BY <2>2, <3>1, <3>2 DEF Deposit, TypeOK, LedgerTypeOK
    <2> QED
      BY <1>5, <2>1, <2>2
  <1>6. LedgerTypeOK'
    BY <1>1, <1>2, <1>3, <1>4, <1>5
    DEF LedgerStep, LedgerAnswer, LedgerFault, LedgerUser
  <1> QED
    BY <1>6 DEF LedgerStep, minter_vars, TypeOK

(* Traps, lost replies, upgrades and the clock preserve the types. *)
LEMMA EnvironmentTypeOK ==
    ASSUME TypeOK,
           Upgrade \/ Tick \/ \E c \in Contexts : Trap(c) \/ DropOrphanReply(c)
    PROVE  TypeOK'
  <1> USE DEF minter_vars, ledger_vars, TypeOK, LedgerTypeOK
  <1>1. ASSUME NEW c \in Contexts, Trap(c) \/ DropOrphanReply(c)
        PROVE  TypeOK'
    BY <1>1 DEF Trap, DropOrphanReply, Calls, Handler
  <1>2. CASE Upgrade
    BY <1>2 DEF Upgrade, Handler
  <1>3. CASE Tick
    BY <1>3, MaxTimeAssumption DEF Tick, Instants
  <1> QED
    BY <1>1, <1>2, <1>3

(* Every reachable state is well-formed, whatever the environment does:    *)
(* lost replies, traps, upgrades of a running canister and locks released  *)
(* under a live mint included.                                             *)
THEOREM TypeCorrect == Spec => []TypeOK
  <1>1. Init => TypeOK
    BY MaxTimeAssumption
    DEF Init, LedgerInit, TypeOK, LedgerTypeOK, GlobalPolicy, Optional, Handler, Calls, Instants
  <1>2. TypeOK /\ [Next]_vars => TypeOK'
    <2> SUFFICES ASSUME TypeOK, [Next]_vars
                 PROVE  TypeOK'
      OBVIOUS
    <2>1. CASE Admin
      BY <2>1, AdminTypeOK
    <2>2. ASSUME NEW c \in Contexts, Begin(c) \/ Resume(c)
          PROVE  TypeOK'
      BY <2>2, BeginTypeOK, ResumeTypeOK
    <2>3. CASE TimerTick
      BY <2>3, ArgumentsAssumption, BeginTypeOK
    <2>4. CASE LedgerStep
      BY <2>4, LedgerStepTypeOK
    <2>5. CASE Upgrade \/ Tick \/ \E c \in Contexts : Trap(c) \/ DropOrphanReply(c)
      BY <2>5, EnvironmentTypeOK
    <2>6. CASE UNCHANGED vars
      BY <2>6 DEF vars, minter_vars, ledger_vars, TypeOK, LedgerTypeOK
    <2> QED
      BY <2>1, <2>2, <2>3, <2>4, <2>5, <2>6 DEF Next
  <1> QED
    BY <1>1, <1>2, PTL DEF Spec

-----------------------------------------------------------------------------
(* Mint exclusion and the lifetime ceiling.  MintInv is inductive as long  *)
(* as locks are only released for mints that are dead.                     *)

(* Steps that start no mint and leave the records alone: the ledger's, the *)
(* clock's, a trap, an upgrade, a release of a dead mint's lock.           *)
LEMMA NoNewClaims ==
    ASSUME MintInv,
           UNCHANGED <<reserves, loosest>>,
           \A c \in Contexts : handler'[c] = handler[c] \/ handler'[c] = Idle,
           \A c \in Contexts : Claims(c)' \subseteq Claims(c),
           \A c \in Contexts : Claims(c)' \subseteq reserve_mint_inflight'
    PROVE  MintInv'
  <1>1. MintExclusion'
    BY DEF MintInv, MintExclusion
  <1>2. ASSUME NEW c \in Contexts, Live(c)'
        PROVE  handler'[c] = handler[c] /\ Live(c)
    BY <1>2 DEF Live, Idle
  <1>3. HandlerReserveExists'
    BY <1>2 DEF MintInv, HandlerReserveExists
  <1>4. ASSUME NEW c \in Contexts, handler'[c].at \in {"balance", "transfer"}
        PROVE  handler'[c] = handler[c]
    BY <1>4 DEF Idle
  <1>5. SnapshotIsCurrent'
    BY <1>4 DEF MintInv, SnapshotIsCurrent, AwaitsBalance
  <1>6. CeilingCovers'
    BY <1>4 DEF MintInv, CeilingCovers, AwaitsBalance
  <1>7. LifetimeCeiling'
    BY <1>4 DEF MintInv, LifetimeCeiling
  <1> QED
    BY <1>1, <1>3, <1>5, <1>6, <1>7 DEF MintInv

(* A step of the loop of rebalance_all, after c has let go of its reserve: *)
(* what the other contexts claim is locked and untouched.                  *)
LEMMA ContinueInv ==
    ASSUME TypeOK, MintInv,
           NEW c \in Contexts, NEW queue, NEW locked,
           ContinueWith(c, queue, locked),
           loosest' = loosest,
           DOMAIN reserves' = DOMAIN reserves,
           \A d \in Contexts \ {c} : \A id \in Claims(d) :
               id \in locked /\ (id \in DOMAIN reserves => reserves'[id] = reserves[id]),
           \A id \in DOMAIN reserves :
               /\ reserves'[id].config = reserves[id].config
               /\ Within(reserves'[id].lifetime_minted, loosest[id].lifetime)
    PROVE  MintInv'
  <1>1. \A d \in Contexts \ {c} : handler'[d] = handler[d] /\ call'[d] = call[d]
    BY DEF ContinueWith, BeginRebalance, TypeOK, LedgerTypeOK
  <1>2. \A d \in Contexts \ {c} : Claims(d)' = Claims(d)
    BY <1>1 DEF Claims, Live
  <1>3. \/ /\ handler'[c] = Idle /\ call'[c] = NoCall
           /\ reserve_mint_inflight' = locked
        \/ \E id \in DOMAIN reserves :
               /\ id \notin locked
               /\ reserve_mint_inflight' = locked \cup {id}
               /\ handler'[c].at = "balance" /\ handler'[c].id = id
               /\ handler'[c].record = reserves'[id]
               /\ call'[c].status = "balance_of"
    BY DEF ContinueWith, BeginRebalance, Startable, Lockable, get_balance,
           TypeOK, LedgerTypeOK
  <1>4. handler'[c].at # "transfer"
    BY <1>3 DEF Idle
  <1>5. Claims(c)' \subseteq reserve_mint_inflight' \ locked
    BY <1>3 DEF Claims, Live, Idle, NoCall
  <1>6. locked \subseteq reserve_mint_inflight'
    BY <1>3
  <1>7. MintExclusion'
    <2> SUFFICES ASSUME NEW a \in Contexts, NEW b \in Contexts, NEW id \in Claims(a)'
                 PROVE  id \in reserve_mint_inflight' /\ (id \in Claims(b)' => a = b)
      BY DEF MintExclusion
    <2>1. CASE a = c
      BY <2>1, <1>2, <1>5
    <2>2. CASE a # c /\ b = c
      BY <2>2, <1>2, <1>5, <1>6
    <2>3. CASE a # c /\ b # c
      BY <2>3, <1>2, <1>6 DEF MintInv, MintExclusion
    <2> QED
      BY <2>1, <2>2, <2>3
  <1>8. HandlerReserveExists'
    <2> SUFFICES ASSUME NEW d \in Contexts, Live(d)'
                 PROVE  handler'[d].id \in DOMAIN reserves
      BY DEF HandlerReserveExists
    <2>1. CASE d = c
      BY <2>1, <1>3 DEF Live, Idle
    <2>2. CASE d # c
      BY <2>2, <1>1 DEF MintInv, HandlerReserveExists, Live
    <2> QED
      BY <2>1, <2>2
  <1>9. ASSUME NEW d \in Contexts \ {c}, handler[d].at \in {"balance", "transfer"}
        PROVE  /\ handler[d].id \in DOMAIN reserves
               /\ reserves'[handler[d].id] = reserves[handler[d].id]
    <2>1. Live(d) /\ handler[d].id \in Claims(d)
      BY <1>9 DEF Live, Claims
    <2> QED
      BY <2>1 DEF MintInv, HandlerReserveExists
  <1>10. SnapshotIsCurrent'
    <2> SUFFICES ASSUME NEW d \in Contexts, AwaitsBalance(d)'
                 PROVE  LET record == reserves'[handler'[d].id]
                        IN  /\ handler'[d].record.lifetime_minted = record.lifetime_minted
                            /\ handler'[d].record.mint_events = record.mint_events
      BY DEF SnapshotIsCurrent
    <2>1. CASE d = c
      BY <2>1, <1>3 DEF AwaitsBalance, Idle
    <2>2. CASE d # c
      BY <2>2, <1>1, <1>9 DEF MintInv, SnapshotIsCurrent, AwaitsBalance
    <2> QED
      BY <2>1, <2>2
  <1>11. CeilingCovers'
    <2>1. \A id \in DOMAIN reserves' :
              Covers(loosest[id].lifetime, reserves'[id].config.lifetime_received_maximum)
      BY DEF MintInv, CeilingCovers
    <2>2. ASSUME NEW d \in Contexts, AwaitsBalance(d)'
          PROVE  Covers(loosest[handler'[d].id].lifetime,
                        handler'[d].record.config.lifetime_received_maximum)
      <3>1. CASE d = c
        BY <3>1, <2>1, <2>2, <1>3 DEF AwaitsBalance, Idle
      <3>2. CASE d # c
        BY <3>2, <2>2, <1>1 DEF MintInv, CeilingCovers, AwaitsBalance
      <3> QED
        BY <3>1, <3>2
    <2> QED
      BY <2>1, <2>2 DEF CeilingCovers
  <1>12. LifetimeCeiling'
    <2>1. ASSUME NEW id \in DOMAIN reserves, NEW d \in Contexts,
                 handler'[d].at = "transfer", handler'[d].id = id
          PROVE  Within(reserves'[id].lifetime_minted + handler'[d].amount,
                        loosest[id].lifetime)
      <3>1. d # c
        BY <2>1, <1>4
      <3> QED
        BY <3>1, <2>1, <1>1, <1>9 DEF MintInv, LifetimeCeiling
    <2> QED
      BY <2>1 DEF LifetimeCeiling
  <1> QED
    BY <1>7, <1>8, <1>10, <1>11, <1>12 DEF MintInv

(* The end of an iteration whose mint, if any, is in the records. *)
LEMMA FinishInv ==
    ASSUME TypeOK, MintInv,
           NEW c \in Contexts, Live(c), FinishWith(c),
           \/ UNCHANGED reserves
           \/ /\ handler[c].at = "transfer"
              /\ RecordMint(handler[c].id, handler[c].amount, handler[c].now)
    PROVE  MintInv'
  <1> DEFINE id == handler[c].id
             locked == reserve_mint_inflight \ {id}
  <1>1. ContinueWith(c, handler[c].rest, locked) /\ loosest' = loosest
    BY DEF FinishWith
  <1>2. id \in Claims(c)
    BY DEF Claims
  <1>3. \A d \in Contexts \ {c} : \A other \in Claims(d) :
            other \in locked /\ other # id
    BY <1>2 DEF MintInv, MintExclusion
  <1>4. CASE UNCHANGED reserves
    <2>1. \A r \in DOMAIN reserves :
              Within(reserves'[r].lifetime_minted, loosest[r].lifetime)
      BY <1>4 DEF MintInv, LifetimeCeiling
    <2> HIDE DEF id, locked
    <2> QED
      BY <1>1, <1>3, <1>4, <2>1, ContinueInv
  <1>5. CASE /\ handler[c].at = "transfer"
             /\ RecordMint(id, handler[c].amount, handler[c].now)
    <2>1. /\ handler[c].amount \in Nat /\ handler[c].now \in Instants
          /\ \A r \in DOMAIN reserves : reserves[r] \in ReserveRecord
      BY <1>5, TransferHandlerType DEF TypeOK
    <2>2. /\ DOMAIN reserves' = DOMAIN reserves
          /\ \A r \in DOMAIN reserves :
                 reserves'[r] = IF r = id
                                THEN WithMint(reserves[r], handler[c].amount, handler[c].now)
                                ELSE reserves[r]
      BY <1>5 DEF RecordMint
    <2>3. id \in DOMAIN reserves
      BY DEF MintInv, HandlerReserveExists
    <2>4. ASSUME NEW r \in DOMAIN reserves
          PROVE  /\ reserves'[r].config = reserves[r].config
                 /\ Within(reserves'[r].lifetime_minted, loosest[r].lifetime)
      <3>1. CASE r # id
        BY <3>1, <2>2 DEF MintInv, LifetimeCeiling
      <3>2. CASE r = id
        <4>1. /\ reserves'[r].config = reserves[r].config
              /\ reserves'[r].lifetime_minted = reserves[r].lifetime_minted + handler[c].amount
          BY <3>2, <2>1, <2>2, WithMintType
        <4> QED
          BY <4>1, <3>2, <1>5 DEF MintInv, LifetimeCeiling
      <3> QED
        BY <3>1, <3>2
    <2>5. \A d \in Contexts \ {c} : \A other \in Claims(d) :
              /\ other \in locked
              /\ other \in DOMAIN reserves => reserves'[other] = reserves[other]
      BY <1>3, <2>2
    <2> HIDE DEF id, locked
    <2> QED
      BY <1>1, <2>2, <2>4, <2>5, ContinueInv
  <1> QED
    BY <1>4, <1>5

(* A cycle that starts has nothing to let go of. *)
LEMMA StartInv ==
    ASSUME TypeOK, MintInv, NEW c \in Contexts, NEW queue, StartRebalance(c, queue)
    PROVE  MintInv'
  <1>1. /\ ContinueWith(c, queue, reserve_mint_inflight)
        /\ loosest' = loosest /\ reserves' = reserves
    BY DEF StartRebalance
  <1>2. \A d \in Contexts : \A id \in Claims(d) : id \in reserve_mint_inflight
    BY DEF MintInv, MintExclusion
  <1>3. \A id \in DOMAIN reserves :
            Within(reserves[id].lifetime_minted, loosest[id].lifetime)
    BY DEF MintInv, LifetimeCeiling
  <1> QED
    BY <1>1, <1>2, <1>3, ContinueInv

(* A handler of c that starts waiting for a transfer to a reserve that it  *)
(* alone holds, of an amount its ceiling has room for.                     *)
LEMMA SendInv ==
    ASSUME TypeOK, MintInv,
           NEW c \in Contexts, NEW id \in DOMAIN reserves,
           UNCHANGED <<reserves, loosest>>,
           \A d \in Contexts \ {c} : handler'[d] = handler[d] /\ call'[d] = call[d],
           handler'[c].at = "transfer", handler'[c].id = id,
           call'[c].status = "transfer", call'[c].tx.memo.id = id,
           reserve_mint_inflight' = reserve_mint_inflight \cup {id},
           \A d \in Contexts \ {c} : id \notin Claims(d),
           Within(reserves[id].lifetime_minted + handler'[c].amount, loosest[id].lifetime)
    PROVE  MintInv'
  <1>1. Claims(c)' = {id}
    BY DEF Claims, Live
  <1>2. \A d \in Contexts \ {c} : Claims(d)' = Claims(d)
    BY DEF Claims, Live
  <1>3. MintExclusion'
    <2> SUFFICES ASSUME NEW a \in Contexts, NEW b \in Contexts, NEW r \in Claims(a)'
                 PROVE  r \in reserve_mint_inflight' /\ (r \in Claims(b)' => a = b)
      BY DEF MintExclusion
    <2>1. CASE a = c
      BY <2>1, <1>1, <1>2
    <2>2. CASE a # c
      BY <2>2, <1>1, <1>2 DEF MintInv, MintExclusion
    <2> QED
      BY <2>1, <2>2
  <1>4. HandlerReserveExists'
    <2> SUFFICES ASSUME NEW d \in Contexts, Live(d)'
                 PROVE  handler'[d].id \in DOMAIN reserves
      BY DEF HandlerReserveExists
    <2>1. CASE d # c
      BY <2>1 DEF MintInv, HandlerReserveExists, Live
    <2> QED
      BY <2>1
  <1>5. ASSUME NEW d \in Contexts, AwaitsBalance(d)'
        PROVE  d # c /\ handler'[d] = handler[d] /\ AwaitsBalance(d)
    BY <1>5 DEF AwaitsBalance
  <1>6. SnapshotIsCurrent'
    BY <1>5 DEF MintInv, SnapshotIsCurrent
  <1>7. CeilingCovers'
    BY <1>5 DEF MintInv, CeilingCovers
  <1>8. LifetimeCeiling'
    <2>1. ASSUME NEW r \in DOMAIN reserves, NEW d \in Contexts,
                 handler'[d].at = "transfer", handler'[d].id = r
          PROVE  Within(reserves[r].lifetime_minted + handler'[d].amount, loosest[r].lifetime)
      <3>1. CASE d = c
        BY <3>1, <2>1
      <3>2. CASE d # c
        BY <3>2, <2>1 DEF MintInv, LifetimeCeiling
      <3> QED
        BY <3>1, <3>2
    <2> QED
      BY <2>1 DEF MintInv, LifetimeCeiling
  <1> QED
    BY <1>3, <1>4, <1>6, <1>7, <1>8 DEF MintInv

(* Changing the reserves keeps the invariant. *)
LEMMA AdminInv ==
    ASSUME TypeOK, MintInv, Admin, "live_release" \notin Environment
    PROVE  MintInv'
  <1> USE DEF ledger_vars
  <1>1. ASSUME NEW config \in AddArgs, AddReserve(config)
        PROVE  MintInv'
    <2> DEFINE new == next_reserve_id
    <2>1. /\ DOMAIN reserves' = DOMAIN reserves \cup {new}
          /\ reserves'[new] = NewRecord(config)
          /\ loosest'[new] = CapsOf(config)
          /\ \A id \in DOMAIN reserves : id # new => /\ reserves'[id] = reserves[id]
                                                    /\ loosest'[id] = loosest[id]
          /\ UNCHANGED <<handler, call, reserve_mint_inflight>>
      BY <1>1 DEF AddReserve
    <2>2. new \notin DOMAIN reserves
      BY DEF TypeOK
    <2>3. \A c \in Contexts : Claims(c)' = Claims(c) /\ Live(c)' = Live(c)
      BY <2>1 DEF Claims, Live
    <2>4. MintExclusion' /\ HandlerReserveExists'
      BY <2>1, <2>3 DEF MintInv, MintExclusion, HandlerReserveExists
    <2>5. \A c \in Contexts : handler[c].at # "idle" =>
              handler[c].id \in DOMAIN reserves /\ handler[c].id # new
      BY <2>2 DEF MintInv, HandlerReserveExists, Live
    <2>6. SnapshotIsCurrent'
      BY <2>1, <2>5 DEF MintInv, SnapshotIsCurrent, AwaitsBalance
    <2>7. Covers(CapsOf(config).lifetime, config.lifetime_received_maximum)
      <3>1. config.lifetime_received_maximum \in Optional(Nat)
        BY ArgumentsAssumption DEF ReserveConfig
      <3> QED
        BY <3>1 DEF Covers, CapsOf, Optional
    <2>8. CeilingCovers'
      BY <2>1, <2>2, <2>5, <2>7 DEF MintInv, CeilingCovers, AwaitsBalance, NewRecord
    <2>9. Within(0, CapsOf(config).lifetime)
      <3>1. CapsOf(config).lifetime \in Optional(Nat)
        BY ArgumentsAssumption DEF ReserveConfig, CapsOf
      <3> QED
        BY <3>1 DEF Within, Optional
    <2>10. LifetimeCeiling'
      BY <2>1, <2>2, <2>5, <2>9 DEF MintInv, LifetimeCeiling, NewRecord
    <2> QED
      BY <2>4, <2>6, <2>8, <2>10 DEF MintInv
  <1>2. ASSUME NEW id \in DOMAIN reserves, NEW arg \in UpdateArgs, UpdateReserve(id, arg)
        PROVE  MintInv'
    <2> DEFINE updated == Updated(reserves[id].config, arg)
    <2>1. /\ reserves' = [reserves EXCEPT ![id] = WithConfig(@, updated)]
          /\ loosest' = [loosest EXCEPT ![id] = Relax(@, updated)]
          /\ UNCHANGED <<handler, call, reserve_mint_inflight>>
      BY <1>2 DEF UpdateReserve
    <2>2. /\ reserves[id] \in ReserveRecord
          /\ updated \in ReserveConfig
          /\ \A r \in DOMAIN reserves : /\ reserves[r].lifetime_minted \in Nat
                                       /\ loosest[r].lifetime \in Optional(Nat)
      BY ArgumentsAssumption, UpdatedType DEF TypeOK, ReserveRecord, Caps
    <2> HIDE DEF updated
    <2>3. /\ WithConfig(reserves[id], updated).config = updated
          /\ WithConfig(reserves[id], updated).lifetime_minted = reserves[id].lifetime_minted
          /\ WithConfig(reserves[id], updated).mint_events = reserves[id].mint_events
      BY <2>2 DEF WithConfig, ReserveRecord
    <2>4. updated.lifetime_received_maximum \in Optional(Nat)
      BY <2>2 DEF ReserveConfig
    <2>5. Relax(loosest[id], updated).lifetime =
              Looser(loosest[id].lifetime, updated.lifetime_received_maximum)
      BY DEF Relax
    <2>6. /\ Covers(Relax(loosest[id], updated).lifetime, updated.lifetime_received_maximum)
          /\ \A maximum \in Optional(Nat) : Covers(loosest[id].lifetime, maximum) =>
                 Covers(Relax(loosest[id], updated).lifetime, maximum)
          /\ \A amount \in Nat : Within(amount, loosest[id].lifetime) =>
                 Within(amount, Relax(loosest[id], updated).lifetime)
      BY <2>2, <2>4, <2>5, NoneAssumption DEF Looser, Covers, Within, Optional
    <2>7. /\ DOMAIN reserves' = DOMAIN reserves
          /\ \A r \in DOMAIN reserves :
                 /\ reserves'[r].lifetime_minted = reserves[r].lifetime_minted
                 /\ reserves'[r].mint_events = reserves[r].mint_events
                 /\ r # id => reserves'[r] = reserves[r] /\ loosest'[r] = loosest[r]
          /\ reserves'[id].config = updated
          /\ loosest'[id] = Relax(loosest[id], updated)
      BY <2>1, <2>3 DEF TypeOK
    <2>8. \A c \in Contexts : Claims(c)' = Claims(c) /\ Live(c)' = Live(c)
      BY <2>1 DEF Claims, Live
    <2>9. MintExclusion' /\ HandlerReserveExists'
      BY <2>1, <2>7, <2>8 DEF MintInv, MintExclusion, HandlerReserveExists
    <2>10. \A c \in Contexts : Live(c) => handler[c].id \in DOMAIN reserves
      BY DEF MintInv, HandlerReserveExists
    <2>11. SnapshotIsCurrent'
      BY <2>1, <2>7, <2>10 DEF MintInv, SnapshotIsCurrent, AwaitsBalance, Live
    <2>12. CeilingCovers'
      <3>1. ASSUME NEW c \in Contexts, AwaitsBalance(c)
            PROVE  Covers(loosest'[handler[c].id].lifetime,
                          handler[c].record.config.lifetime_received_maximum)
        <4>1. handler[c].record.config.lifetime_received_maximum \in Optional(Nat)
          BY <3>1, BalanceHandlerType DEF ReserveConfig
        <4>2. handler[c].id \in DOMAIN reserves
          BY <3>1, <2>10 DEF AwaitsBalance, Live
        <4> QED
          BY <3>1, <4>1, <4>2, <2>6, <2>7 DEF MintInv, CeilingCovers
      <3>2. \A r \in DOMAIN reserves :
                Covers(loosest'[r].lifetime, reserves'[r].config.lifetime_received_maximum)
        BY <2>6, <2>7 DEF MintInv, CeilingCovers
      <3> QED
        BY <3>1, <3>2, <2>1, <2>7 DEF CeilingCovers, AwaitsBalance
    <2>13. LifetimeCeiling'
      <3>1. ASSUME NEW r \in DOMAIN reserves, NEW c \in Contexts,
                   handler[c].at = "transfer", handler[c].id = r
            PROVE  Within(reserves[r].lifetime_minted + handler[c].amount, loosest'[r].lifetime)
        <4>1. reserves[r].lifetime_minted + handler[c].amount \in Nat
          BY <3>1, <2>2, TransferHandlerType
        <4> QED
          BY <3>1, <4>1, <2>6, <2>7 DEF MintInv, LifetimeCeiling
      <3>2. \A r \in DOMAIN reserves : Within(reserves[r].lifetime_minted, loosest'[r].lifetime)
        BY <2>2, <2>6, <2>7 DEF MintInv, LifetimeCeiling
      <3> QED
        BY <3>1, <3>2, <2>1, <2>7 DEF LifetimeCeiling
    <2> QED
      BY <2>9, <2>11, <2>12, <2>13 DEF MintInv
  <1>3. ASSUME NEW id \in DOMAIN reserves, RemoveReserve(id)
        PROVE  MintInv'
    <2>1. /\ reserves' = [r \in DOMAIN reserves \ {id} |-> reserves[r]]
          /\ loosest' = [r \in DOMAIN reserves \ {id} |-> loosest[r]]
          /\ id \notin reserve_mint_inflight
          /\ UNCHANGED <<handler, call, reserve_mint_inflight>>
      BY <1>3 DEF RemoveReserve, Removable
    <2>2. \A c \in Contexts : Claims(c)' = Claims(c) /\ Live(c)' = Live(c)
      BY <2>1 DEF Claims, Live
    <2>3. \A c \in Contexts : Live(c) =>
              handler[c].id \in DOMAIN reserves /\ handler[c].id # id
      <3> SUFFICES ASSUME NEW c \in Contexts, Live(c)
                   PROVE  handler[c].id \in DOMAIN reserves /\ handler[c].id # id
        OBVIOUS
      <3>1. handler[c].id \in Claims(c)
        BY DEF Claims
      <3> QED
        BY <3>1, <2>1 DEF MintInv, MintExclusion, HandlerReserveExists
    <2>4. MintExclusion' /\ HandlerReserveExists'
      BY <2>1, <2>2, <2>3 DEF MintInv, MintExclusion, HandlerReserveExists
    <2>5. SnapshotIsCurrent'
      BY <2>1, <2>3 DEF MintInv, SnapshotIsCurrent, AwaitsBalance, Live
    <2>6. CeilingCovers'
      BY <2>1, <2>3 DEF MintInv, CeilingCovers, AwaitsBalance, Live
    <2>7. LifetimeCeiling'
      BY <2>1 DEF MintInv, LifetimeCeiling
    <2> QED
      BY <2>4, <2>5, <2>6, <2>7 DEF MintInv
  <1>4. ASSUME NEW policy \in Policies, SetGlobalPolicy(policy)
        PROVE  MintInv'
    <2>1. UNCHANGED <<reserves, loosest, handler, call, reserve_mint_inflight>>
      BY <1>4 DEF SetGlobalPolicy
    <2>2. \A c \in Contexts : Claims(c)' = Claims(c)
      BY <2>1 DEF Claims, Live
    <2> QED
      BY <2>1, <2>2, NoNewClaims DEF MintInv, MintExclusion
  <1>5. ASSUME NEW id \in 0..(next_reserve_id - 1), NEW key \in Optional(Keys),
               ReleaseStuckMintState(id, key)
        PROVE  MintInv'
    <2>1. /\ UNCHANGED <<reserves, loosest, handler, call>>
          /\ reserve_mint_inflight' = reserve_mint_inflight \ {id}
          /\ \A c \in Contexts : id \notin Claims(c)
      BY <1>5 DEF ReleaseStuckMintState, Busy
    <2>2. \A c \in Contexts : Claims(c)' = Claims(c)
      BY <2>1 DEF Claims, Live
    <2>3. \A c \in Contexts : Claims(c)' \subseteq reserve_mint_inflight'
      BY <2>1, <2>2 DEF MintInv, MintExclusion
    <2> QED
      BY <2>1, <2>2, <2>3, NoNewClaims
  <1> QED
    BY <1>1, <1>2, <1>3, <1>4, <1>5 DEF Admin

(* A rebalance or a top-up that starts locks a reserve nobody else has.    *)
LEMMA BeginInv ==
    ASSUME TypeOK, MintInv, NEW c \in Contexts, Begin(c) \/ (c = Timer /\ TimerTick)
    PROVE  MintInv'
  <1>1. ASSUME NEW id \in DOMAIN reserves, RebalanceReserve(c, id)
        PROVE  MintInv'
    BY <1>1, StartInv DEF RebalanceReserve
  <1>2. ASSUME RebalanceAllReserves(c) \/ (c = Timer /\ TimerTick)
        PROVE  MintInv'
    BY <1>2, StartInv DEF RebalanceAllReserves, TimerTick
  <1>3. ASSUME NEW id \in DOMAIN reserves, NEW amount \in TopupAmounts,
               NEW key \in Optional(Keys), ManualTopup(c, id, amount, key)
        PROVE  MintInv'
    <2> DEFINE memo == [origin |-> "topup", id |-> id, key |-> key]
               maximum == reserves[id].config.lifetime_received_maximum
    <2>1. /\ UNCHANGED <<reserves, loosest>>
          /\ id \notin reserve_mint_inflight
          /\ reserve_mint_inflight' = reserve_mint_inflight \cup {id}
          /\ AwaitTransfer(c, "topup", id, key, {}, amount)
          /\ call' = [call EXCEPT
                ![c] = mint_to(reserves[id].config.account, amount, memo, clock)]
          /\ validate_manual_topup_inputs(id, amount)
      BY <1>3 DEF ManualTopup, Lockable
    <2>2. /\ handler'[c].at = "transfer"
          /\ handler'[c].id = id
          /\ handler'[c].amount = amount
          /\ call'[c].status = "transfer"
          /\ call'[c].tx.memo.id = id
          /\ \A d \in Contexts \ {c} : handler'[d] = handler[d] /\ call'[d] = call[d]
      BY <2>1 DEF AwaitTransfer, mint_to, TypeOK, LedgerTypeOK
    <2>3. \A d \in Contexts : id \notin Claims(d)
      BY <2>1 DEF MintInv, MintExclusion
    <2>4. maximum # None => reserves[id].lifetime_minted + amount <= maximum
      BY <2>1 DEF validate_manual_topup_inputs
    <2>5. Within(reserves[id].lifetime_minted + amount, loosest[id].lifetime)
      <3>1. /\ reserves[id].lifetime_minted + amount \in Nat
            /\ maximum \in Optional(Nat)
            /\ loosest[id].lifetime \in Optional(Nat)
        BY ArgumentsAssumption DEF TypeOK, ReserveRecord, ReserveConfig, Caps
      <3>2. Covers(loosest[id].lifetime, maximum)
        BY DEF MintInv, CeilingCovers
      <3> QED
        BY <2>4, <3>1, <3>2 DEF Covers, Within, Optional
    <2> HIDE DEF memo, maximum
    <2> QED
      BY <2>1, <2>2, <2>3, <2>5, SendInv
  <1> QED
    BY <1>1, <1>2, <1>3 DEF Begin

(* A continuation sends a mint its ceiling has room for, or ends its       *)
(* iteration, with the mint recorded if there was one.                     *)
LEMMA ResumeInv ==
    ASSUME TypeOK, MintInv, NEW c \in Contexts, Resume(c)
    PROVE  MintInv'
  <1> USE DEF AwaitsTransfer
  <1>1. ASSUME BalanceFailed(c) \/ NothingToMint(c) \/ RebalanceMintFailed(c)
               \/ TopupMintFailed(c)
        PROVE  MintInv'
    <2>1. Live(c) /\ FinishWith(c) /\ UNCHANGED reserves
      BY <1>1 DEF BalanceFailed, NothingToMint, RebalanceMintFailed, TopupMintFailed,
                  AwaitsBalance, Live
    <2> QED
      BY <2>1, FinishInv
  <1>2. ASSUME RebalanceMinted(c) \/ TopupMinted(c)
        PROVE  MintInv'
    <2>1. /\ handler[c].at = "transfer" /\ Live(c)
          /\ RecordMint(handler[c].id, handler[c].amount, handler[c].now)
          /\ FinishWith(c)
      BY <1>2 DEF RebalanceMinted, TopupMinted, Live
    <2> QED
      BY <2>1, FinishInv
  <1>3. ASSUME SendMint(c)
        PROVE  MintInv'
    <2> DEFINE id == handler[c].id
               record == handler[c].record
               maximum == record.config.lifetime_received_maximum
               memo == [origin |-> "rebalance", id |-> id, key |-> None]
    <2>1. PICK amount \in Nat :
              /\ AwaitTransfer(c, "rebalance", id, None, handler[c].rest, amount)
              /\ call' = [call EXCEPT
                    ![c] = mint_to(record.config.account, amount, memo, clock)]
              /\ maximum # None => record.lifetime_minted + amount <= maximum
      BY <1>3, SendMintFacts
    <2>2. /\ UNCHANGED <<reserves, loosest, reserve_mint_inflight>>
          /\ AwaitsBalance(c)
      BY <1>3 DEF SendMint
    <2>3. /\ handler'[c].at = "transfer"
          /\ handler'[c].id = id
          /\ handler'[c].amount = amount
          /\ call'[c].status = "transfer"
          /\ call'[c].tx.memo.id = id
          /\ \A d \in Contexts \ {c} : handler'[d] = handler[d] /\ call'[d] = call[d]
      BY <2>1 DEF AwaitTransfer, mint_to, TypeOK, LedgerTypeOK
    <2>4. id \in Claims(c) /\ id \in DOMAIN reserves
      BY <2>2 DEF AwaitsBalance, Live, Claims, MintInv, HandlerReserveExists
    <2>5. /\ reserve_mint_inflight' = reserve_mint_inflight \cup {id}
          /\ \A d \in Contexts \ {c} : id \notin Claims(d)
      BY <2>2, <2>4 DEF MintInv, MintExclusion
    <2>6. Within(reserves[id].lifetime_minted + amount, loosest[id].lifetime)
      <3>1. /\ reserves[id].lifetime_minted + amount \in Nat
            /\ loosest[id].lifetime \in Optional(Nat)
        BY <2>4 DEF TypeOK, ReserveRecord, Caps
      <3>2. maximum \in Optional(Nat)
        BY <2>2, BalanceHandlerType DEF ReserveConfig
      <3>3. /\ Covers(loosest[id].lifetime, maximum)
            /\ record.lifetime_minted = reserves[id].lifetime_minted
        BY <2>2 DEF MintInv, CeilingCovers, SnapshotIsCurrent
      <3> QED
        BY <2>1, <3>1, <3>2, <3>3 DEF Covers, Within, Optional
    <2> HIDE DEF id, record, maximum, memo
    <2> QED
      BY <2>2, <2>3, <2>4, <2>5, <2>6, SendInv
  <1> QED
    BY <1>1, <1>2, <1>3 DEF Resume

(* The ledger, its users, traps, upgrades and time start no mint.          *)
LEMMA EnvironmentInv ==
    ASSUME TypeOK, MintInv,
           \/ LedgerStep \/ Upgrade \/ Tick
           \/ \E c \in Contexts : Trap(c) \/ DropOrphanReply(c)
    PROVE  MintInv'
  <1> USE DEF minter_vars, ledger_vars
  <1>1. UNCHANGED <<reserves, loosest, reserve_mint_inflight>>
    BY DEF LedgerStep, Upgrade, Tick, Trap, DropOrphanReply
  <1>2. \A c \in Contexts : handler'[c] = handler[c] \/ handler'[c] = Idle
    BY DEF LedgerStep, Upgrade, Tick, Trap, DropOrphanReply, TypeOK
  <1>3. \A c \in Contexts : call'[c] = call[c] \/ call'[c].status # "transfer"
    <2>1. CASE LedgerStep
      <3>1. ASSUME NEW c \in Contexts, LedgerAnswer(c) \/ LedgerFault(c)
            PROVE  \E reply : /\ reply.status # "transfer"
                              /\ call' = [call EXCEPT ![c] = reply]
        BY <3>1 DEF LedgerAnswer, LedgerFault, ServeBalance, ExecuteTransfer, Reply,
                    RefuseDuplicate, Reject, LoseReply, Failed
      <3>2. ASSUME LedgerUser
            PROVE  call' = call
        BY <3>2 DEF LedgerUser, Spend, Deposit
      <3> QED
        BY <2>1, <3>1, <3>2 DEF LedgerStep, TypeOK, LedgerTypeOK
    <2>2. CASE Upgrade \/ Tick
      BY <2>2 DEF Upgrade, Tick
    <2>3. CASE \E c \in Contexts : Trap(c) \/ DropOrphanReply(c)
      BY <2>3 DEF Trap, DropOrphanReply, NoCall, TypeOK, LedgerTypeOK
    <2> QED
      BY <2>1, <2>2, <2>3
  <1>4. \A c \in Contexts : Claims(c)' \subseteq Claims(c)
    BY <1>2, <1>3 DEF Claims, Live, Idle
  <1>5. \A c \in Contexts : Claims(c)' \subseteq reserve_mint_inflight'
    BY <1>1, <1>4 DEF MintInv, MintExclusion
  <1> QED
    BY <1>1, <1>2, <1>4, <1>5, NoNewClaims

(* Every mint path holds the lock of its reserve from its first await on,  *)
(* works on current counters and stays within the loosest lifetime         *)
(* maximum, under lost replies, duplicates, traps and upgrades, as long as *)
(* release_stuck_mint_state is only called for mints that are dead and the *)
(* ledger does not serve a request whose caller was told that it failed.   *)
THEOREM MintSafety ==
    ASSUME "live_release" \notin Environment
    PROVE  Spec => []MintInv
  <1>1. Init => MintInv
    BY DEF Init, LedgerInit, MintInv, MintExclusion, HandlerReserveExists,
           SnapshotIsCurrent, CeilingCovers, LifetimeCeiling, Claims, Live,
           AwaitsBalance, Idle, NoCall
  <1>2. TypeOK /\ MintInv /\ [Next]_vars => MintInv'
    <2> SUFFICES ASSUME TypeOK, MintInv, [Next]_vars
                 PROVE  MintInv'
      OBVIOUS
    <2>1. CASE Admin
      BY <2>1, AdminInv
    <2>2. CASE TimerTick
      BY <2>2, BeginInv, ArgumentsAssumption
    <2>3. ASSUME NEW c \in Contexts, Begin(c)
          PROVE  MintInv'
      BY <2>3, BeginInv
    <2>4. ASSUME NEW c \in Contexts, Resume(c)
          PROVE  MintInv'
      BY <2>4, ResumeInv
    <2>5. CASE \/ LedgerStep \/ Upgrade \/ Tick
               \/ \E c \in Contexts : Trap(c) \/ DropOrphanReply(c)
      BY <2>5, EnvironmentInv
    <2>6. CASE UNCHANGED vars
      <3>1. /\ UNCHANGED <<reserves, loosest, reserve_mint_inflight, handler, call>>
            /\ \A c \in Contexts : Claims(c)' = Claims(c)
        BY <2>6 DEF vars, minter_vars, ledger_vars, Claims, Live
      <3>2. \A c \in Contexts : Claims(c)' \subseteq reserve_mint_inflight'
        BY <3>1 DEF MintInv, MintExclusion
      <3> QED
        BY <3>1, <3>2, NoNewClaims
    <2> QED
      BY <2>1, <2>2, <2>3, <2>4, <2>5, <2>6 DEF Next
  <1> QED
    BY <1>1, <1>2, TypeCorrect, PTL DEF Spec

(* No two mints to one reserve overlap, not even across a lost handler:    *)
(* what reserve_mint_inflight is there for.  A bounded wait that ends too  *)
(* early gives the lock back, so this rests on the ledger not serving the  *)
(* request of such a wait later, as Reject and LoseReply of Ledger have it.*)
THEOREM NoDoubleMint ==
    ASSUME "live_release" \notin Environment
    PROVE  Spec => []MintExclusion
  <1>1. MintInv => MintExclusion
    BY DEF MintInv
  <1> QED
    BY <1>1, MintSafety, PTL

(* "reserve missing after successful ledger mint" is unreachable:          *)
(* remove_reserve cannot take away the reserve of a running handler.       *)
THEOREM NoMissingReserve ==
    ASSUME "live_release" \notin Environment
    PROVE  Spec => []HandlerReserveExists
  <1>1. MintInv => HandlerReserveExists
    BY DEF MintInv
  <1> QED
    BY <1>1, MintSafety, PTL

(* The counters rebalance_one copied before it asked for the balance are   *)
(* still current when the answer is there.                                 *)
THEOREM NoStaleCounters ==
    ASSUME "live_release" \notin Environment
    PROVE  Spec => []SnapshotIsCurrent
  <1>1. MintInv => SnapshotIsCurrent
    BY DEF MintInv
  <1> QED
    BY <1>1, MintSafety, PTL

(* The recorded lifetime_minted never exceeds the loosest                  *)
(* lifetime_received_maximum the reserve has had.                          *)
THEOREM LifetimeBound ==
    ASSUME "live_release" \notin Environment
    PROVE  Spec => []LifetimeCeiling
  <1>1. MintInv => LifetimeCeiling
    BY DEF MintInv
  <1> QED
    BY <1>1, MintSafety, PTL

-----------------------------------------------------------------------------
(* What a step may do to one context, to one key and to the log.           *)

(* tx is the transfer that the handler with locals h sends, as the ledger  *)
(* sees it.                                                                *)
Sends(h, tx) ==
    /\ tx.memo = [origin |-> h.origin, id |-> h.id, key |-> Truncated(h.key)]
    /\ tx.amount = h.amount
    /\ tx.created_at_time = h.now

(* The step of a handler that starts, or goes on with, a loop over reserves *)
(* ends the handler or makes it ask for the balance of another one.        *)
LEMMA ContinueFacts ==
    ASSUME TypeOK, NEW c \in Contexts, NEW queue, NEW locked,
           ContinueWith(c, queue, locked)
    PROVE  /\ \A d \in Contexts \ {c} : handler'[d] = handler[d] /\ call'[d] = call[d]
           /\ \/ /\ handler'[c] = Idle /\ call'[c] = NoCall
                 /\ reserve_mint_inflight' = locked
              \/ /\ handler'[c].at = "balance"
                 /\ handler'[c].id \in DOMAIN reserves \ locked
                 /\ handler'[c].record = reserves'[handler'[c].id]
                 /\ call'[c].status = "balance_of"
                 /\ call'[c].account = handler'[c].record.config.account
                 /\ reserve_mint_inflight' = locked \cup {handler'[c].id}
  BY DEF ContinueWith, BeginRebalance, Startable, Lockable, get_balance, TypeOK,
         LedgerTypeOK

(* What happens to a context: it rests, its handler ends, asks for a       *)
(* balance or sends a transfer, or the ledger acts on its call.            *)
Rests(c) == handler'[c] = handler[c] /\ call'[c] = call[c]
Ends(c) == handler'[c] = Idle /\ call'[c] \in {NoCall, call[c]}
Asks(c) ==
    /\ handler'[c].at = "balance" /\ handler'[c].id \in DOMAIN reserves
    /\ handler'[c].record = reserves'[handler'[c].id]
    /\ call'[c].status = "balance_of"
    /\ call'[c].account = handler'[c].record.config.account
StartsTransfer(c) ==
    /\ handler'[c].at = "transfer" /\ handler'[c].origin \in {"rebalance", "topup"}
    /\ handler'[c].origin = "rebalance" => handler'[c].key = None
    /\ call'[c].status = "transfer"
    /\ Sends(handler'[c], call'[c].tx)
TopsUp(c) ==
    \E id \in DOMAIN reserves : \E amount \in TopupAmounts : \E key \in Optional(Keys) :
        /\ ManualTopup(c, id, amount, key)
        /\ handler'[c].id = id /\ handler'[c].amount = amount /\ handler'[c].key = key
StartsMint(c) ==
    /\ StartsTransfer(c)
    /\ blocks' = blocks
    /\ \/ handler'[c].origin = "rebalance" /\ SendMint(c)
       \/ handler'[c].origin = "topup" /\ TopsUp(c)
Served(c) ==
    /\ handler'[c] = handler[c]
    /\ \/ ServeBalance(c)
       \/ ExecuteTransfer(c)
       \/ RefuseDuplicate(c)
       \/ Reject(c)
       \/ LoseReply(c)

(* A manual top-up sends its transfer with its key. *)
LEMMA TopupSends ==
    ASSUME TypeOK, NEW c \in Contexts, NEW id \in DOMAIN reserves, NEW amount \in TopupAmounts,
           NEW key \in Optional(Keys), ManualTopup(c, id, amount, key)
    PROVE  /\ \A d \in Contexts \ {c} : handler'[d] = handler[d] /\ call'[d] = call[d]
           /\ StartsMint(c)
  <1>1. /\ handler' = [handler EXCEPT ![c] =
               [at |-> "transfer", origin |-> "topup", id |-> id, key |-> key, rest |-> {},
                amount |-> amount, now |-> clock]]
        /\ call' = [call EXCEPT ![c] =
               mint_to(reserves[id].config.account, amount,
                       [origin |-> "topup", id |-> id, key |-> key], clock)]
        /\ blocks' = blocks
    BY DEF ManualTopup, AwaitTransfer
  <1>2. \A d \in Contexts \ {c} : handler'[d] = handler[d] /\ call'[d] = call[d]
    BY <1>1 DEF TypeOK, LedgerTypeOK
  <1>3. /\ handler'[c].at = "transfer" /\ handler'[c].origin = "topup"
        /\ handler'[c].id = id /\ handler'[c].key = key
        /\ handler'[c].amount = amount /\ handler'[c].now = clock
    BY <1>1 DEF TypeOK
  <1>4. /\ call'[c].status = "transfer"
        /\ call'[c].tx = [to |-> reserves[id].config.account, amount |-> amount,
                          memo |-> [origin |-> "topup", id |-> id, key |-> Truncated(key)],
                          created_at_time |-> clock]
    <2>1. call'[c] = mint_to(reserves[id].config.account, amount,
                             [origin |-> "topup", id |-> id, key |-> key], clock)
      BY <1>1 DEF TypeOK, LedgerTypeOK
    <2> QED
      BY <2>1 DEF mint_to
  <1>5. Sends(handler'[c], call'[c].tx)
    BY <1>3, <1>4 DEF Sends
  <1>6. TopsUp(c)
    BY <1>3 DEF TopsUp
  <1> QED
    BY <1>1, <1>2, <1>3, <1>4, <1>5, <1>6 DEF StartsMint, StartsTransfer

(* A rebalance sends its transfer without a key. *)
LEMMA RebalanceSends ==
    ASSUME TypeOK, NEW c \in Contexts, SendMint(c)
    PROVE  /\ \A d \in Contexts \ {c} : handler'[d] = handler[d] /\ call'[d] = call[d]
           /\ StartsMint(c)
           /\ handler'[c].id = handler[c].id
           /\ call'[c].tx.to = handler[c].record.config.account
  <1>1. PICK amount :
            /\ handler' = [handler EXCEPT ![c] =
                   [at |-> "transfer", origin |-> "rebalance", id |-> handler[c].id,
                    key |-> None, rest |-> handler[c].rest, amount |-> amount, now |-> clock]]
            /\ call' = [call EXCEPT ![c] =
                   mint_to(handler[c].record.config.account, amount,
                           [origin |-> "rebalance", id |-> handler[c].id, key |-> None],
                           clock)]
    BY DEF SendMint, AwaitTransfer
  <1>2. \A d \in Contexts \ {c} : handler'[d] = handler[d] /\ call'[d] = call[d]
    BY <1>1 DEF TypeOK, LedgerTypeOK
  <1>3. /\ handler'[c].at = "transfer" /\ handler'[c].origin = "rebalance"
        /\ handler'[c].id = handler[c].id /\ handler'[c].key = None
        /\ handler'[c].amount = amount /\ handler'[c].now = clock
    BY <1>1 DEF TypeOK
  <1>4. /\ call'[c].status = "transfer"
        /\ call'[c].tx = [to |-> handler[c].record.config.account, amount |-> amount,
                          memo |-> [origin |-> "rebalance", id |-> handler[c].id,
                                    key |-> Truncated(None)],
                          created_at_time |-> clock]
    <2>1. call'[c] = mint_to(handler[c].record.config.account, amount,
                             [origin |-> "rebalance", id |-> handler[c].id, key |-> None],
                             clock)
      BY <1>1 DEF TypeOK, LedgerTypeOK
    <2> QED
      BY <2>1 DEF mint_to
  <1>5. Sends(handler'[c], call'[c].tx)
    BY <1>3, <1>4 DEF Sends
  <1>6. blocks' = blocks
    BY DEF SendMint
  <1>7. call'[c].tx.to = handler[c].record.config.account
    BY <1>4
  <1> QED
    BY <1>2, <1>3, <1>4, <1>5, <1>6, <1>7 DEF StartsMint, StartsTransfer

(* One of these happens to every context in every step. *)
LEMMA ContextSteps ==
    ASSUME TypeOK, [Next]_vars, NEW c \in Contexts
    PROVE  \/ Rests(c)
           \/ Ends(c) /\ blocks' = blocks
           \/ Asks(c) /\ blocks' = blocks
           \/ StartsMint(c)
           \/ Served(c)
  <1> USE DEF Rests, Ends, Asks, Served, minter_vars, ledger_vars
  <1>1. ASSUME Admin
        PROVE  Rests(c)
    BY <1>1 DEF Admin, AddReserve, UpdateReserve, RemoveReserve, SetGlobalPolicy,
                ReleaseStuckMintState
  <1>2. ASSUME NEW d \in Contexts, NEW queue, NEW locked, ContinueWith(d, queue, locked),
               blocks' = blocks
        PROVE  \/ Rests(c)
               \/ Ends(c) /\ blocks' = blocks
               \/ Asks(c) /\ blocks' = blocks
    <2>1. CASE c = d
      BY <1>2, <2>1, ContinueFacts
    <2>2. CASE c # d
      BY <1>2, <2>2, ContinueFacts
    <2> QED
      BY <2>1, <2>2
  <1>3. ASSUME NEW d \in Contexts, Begin(d) \/ (d = Timer /\ TimerTick)
        PROVE  \/ Rests(c)
               \/ Ends(c) /\ blocks' = blocks
               \/ Asks(c) /\ blocks' = blocks
               \/ StartsMint(c)
    <2>1. ASSUME NEW queue, StartRebalance(d, queue)
          PROVE  \/ Rests(c)
                 \/ Ends(c) /\ blocks' = blocks
                 \/ Asks(c) /\ blocks' = blocks
      BY <2>1, <1>2 DEF StartRebalance
    <2>2. ASSUME NEW id \in DOMAIN reserves, NEW amount \in TopupAmounts,
                 NEW key \in Optional(Keys), ManualTopup(d, id, amount, key)
          PROVE  Rests(c) \/ (StartsMint(c))
      BY <2>2, TopupSends
    <2> QED
      BY <1>3, <2>1, <2>2
      DEF Begin, RebalanceReserve, RebalanceAllReserves, TimerTick
  <1>4. ASSUME NEW d \in Contexts, Resume(d)
        PROVE  \/ Rests(c)
               \/ Ends(c) /\ blocks' = blocks
               \/ Asks(c) /\ blocks' = blocks
               \/ StartsMint(c)
    <2>1. ASSUME FinishWith(d)
          PROVE  \/ Rests(c)
                 \/ Ends(c) /\ blocks' = blocks
                 \/ Asks(c) /\ blocks' = blocks
      BY <2>1, <1>2 DEF FinishWith
    <2>2. ASSUME SendMint(d)
          PROVE  Rests(c) \/ (StartsMint(c))
      BY <2>2, RebalanceSends
    <2> QED
      BY <1>4, <2>1, <2>2
      DEF Resume, BalanceFailed, NothingToMint, RebalanceMinted, RebalanceMintFailed,
          TopupMinted, TopupMintFailed
  <1>5. CASE LedgerStep
    <2>1. handler' = handler
      BY <1>5 DEF LedgerStep
    <2>2. ASSUME NEW d \in Contexts, LedgerAnswer(d) \/ LedgerFault(d)
          PROVE  Rests(c) \/ Served(c)
      <3>1. CASE d = c
        BY <2>1, <2>2, <3>1 DEF LedgerAnswer, LedgerFault
      <3>2. CASE d # c
        BY <2>1, <2>2, <3>2
        DEF LedgerAnswer, LedgerFault, ServeBalance, ExecuteTransfer, RefuseDuplicate,
            Reject, LoseReply, Reply, TypeOK, LedgerTypeOK
      <3> QED
        BY <3>1, <3>2
    <2>3. ASSUME LedgerUser
          PROVE  Rests(c)
      BY <2>1, <2>3 DEF LedgerUser, Spend, Deposit
    <2> QED
      BY <1>5, <2>2, <2>3 DEF LedgerStep
  <1>6. CASE Upgrade \/ Tick \/ \E d \in Contexts : Trap(d) \/ DropOrphanReply(d)
    <2>1. CASE Upgrade \/ Tick
      BY <2>1 DEF Upgrade, Tick
    <2>2. ASSUME NEW d \in Contexts, Trap(d)
          PROVE  Rests(c) \/ (Ends(c) /\ blocks' = blocks)
      BY <2>2 DEF Trap, TypeOK, LedgerTypeOK
    <2>3. ASSUME NEW d \in Contexts, DropOrphanReply(d)
          PROVE  Rests(c) \/ (Ends(c) /\ blocks' = blocks)
      <3>1. handler[d] = Idle
        BY <2>3 DEF DropOrphanReply, Live, TypeOK, Handler
      <3> QED
        BY <2>3, <3>1 DEF DropOrphanReply, TypeOK, LedgerTypeOK
    <2> QED
      BY <1>6, <2>1, <2>2, <2>3
  <1>7. CASE UNCHANGED vars
    BY <1>7 DEF vars
  <1> QED
    BY <1>1, <1>3, <1>4, <1>5, <1>6, <1>7, ArgumentsAssumption DEF Next

(* Only its own messages change the handler of a context: a call or a tick *)
(* that starts it, a continuation, a trap; or an upgrade.                  *)
LEMMA HandlerSteps ==
    ASSUME TypeOK, [Next]_vars, NEW c \in Contexts
    PROVE  \/ handler'[c] = handler[c]
           \/ Begin(c) \/ (c = Timer /\ TimerTick) \/ Resume(c) \/ Trap(c) \/ Upgrade
  <1> USE DEF minter_vars, ledger_vars
  <1>1. ASSUME NEW d \in Contexts, d # c, Begin(d) \/ (d = Timer /\ TimerTick)
        PROVE  handler'[c] = handler[c]
    <2>1. ASSUME NEW queue, StartRebalance(d, queue)
          PROVE  handler'[c] = handler[c]
      BY <1>1, <2>1, ContinueFacts DEF StartRebalance
    <2> QED
      BY <1>1, <2>1, TopupSends
      DEF Begin, RebalanceReserve, RebalanceAllReserves, TimerTick
  <1>2. ASSUME NEW d \in Contexts, d # c, Resume(d)
        PROVE  handler'[c] = handler[c]
    <2>1. ASSUME FinishWith(d)
          PROVE  handler'[c] = handler[c]
      BY <1>2, <2>1, ContinueFacts DEF FinishWith
    <2> QED
      BY <1>2, <2>1, RebalanceSends
      DEF Resume, BalanceFailed, NothingToMint, RebalanceMinted, RebalanceMintFailed,
          TopupMinted, TopupMintFailed
  <1>3. ASSUME \/ Admin \/ LedgerStep \/ Tick \/ UNCHANGED vars
               \/ \E d \in Contexts : DropOrphanReply(d)
        PROVE  handler'[c] = handler[c]
    BY <1>3 DEF Admin, AddReserve, UpdateReserve, RemoveReserve, SetGlobalPolicy,
                ReleaseStuckMintState, LedgerStep, Tick, DropOrphanReply, vars
  <1>4. ASSUME NEW d \in Contexts, d # c, Trap(d)
        PROVE  handler'[c] = handler[c]
    BY <1>4 DEF Trap, TypeOK
  <1> QED
    BY <1>1, <1>2, <1>3, <1>4, ArgumentsAssumption DEF Next

(* A top-up that waits for its transfer goes on waiting, or ends with the  *)
(* continuation of the answer, a trap or an upgrade.                       *)
LEMMA TopupSteps ==
    ASSUME TypeOK, [Next]_vars, NEW c \in Contexts, AwaitsTransfer(c, "topup")
    PROVE  \/ handler'[c] = handler[c]
           \/ TopupMinted(c) \/ TopupMintFailed(c) \/ Trap(c) \/ Upgrade
  <1>1. Live(c) /\ ~AwaitsBalance(c) /\ ~AwaitsTransfer(c, "rebalance")
    BY DEF AwaitsTransfer, AwaitsBalance, Live
  <1>2. ~Begin(c) /\ ~(c = Timer /\ TimerTick)
    BY <1>1 DEF Begin, RebalanceReserve, RebalanceAllReserves, StartRebalance, ManualTopup,
                AdminMayMint, TimerTick, Free
  <1>3. Resume(c) => TopupMinted(c) \/ TopupMintFailed(c)
    BY <1>1 DEF Resume, BalanceFailed, NothingToMint, SendMint, RebalanceMinted,
                RebalanceMintFailed
  <1> QED
    BY <1>2, <1>3, HandlerSteps

(* A reserve goes only by remove_reserve. *)
LEMMA ReserveSteps ==
    ASSUME TypeOK, [Next]_vars, NEW id \in DOMAIN reserves
    PROVE  id \in DOMAIN reserves' \/ RemoveReserve(id)
  <1> USE DEF minter_vars
  <1>1. ASSUME NEW r, NEW amount, NEW now, RecordMint(r, amount, now)
        PROVE  DOMAIN reserves' = DOMAIN reserves
    BY <1>1 DEF RecordMint
  <1>2. ASSUME Admin
        PROVE  id \in DOMAIN reserves' \/ RemoveReserve(id)
    BY <1>2 DEF Admin, AddReserve, UpdateReserve, RemoveReserve, SetGlobalPolicy,
                ReleaseStuckMintState
  <1>3. ASSUME NEW c \in Contexts, Begin(c) \/ TimerTick
        PROVE  reserves' = reserves
    BY <1>3 DEF Begin, RebalanceReserve, RebalanceAllReserves, StartRebalance, ManualTopup,
                TimerTick
  <1>4. ASSUME NEW c \in Contexts, Resume(c)
        PROVE  DOMAIN reserves' = DOMAIN reserves
    BY <1>1, <1>4 DEF Resume, BalanceFailed, NothingToMint, SendMint, RebalanceMinted,
                      RebalanceMintFailed, TopupMinted, TopupMintFailed
  <1>5. ASSUME \/ LedgerStep \/ Upgrade \/ Tick \/ UNCHANGED vars
               \/ \E c \in Contexts : Trap(c) \/ DropOrphanReply(c)
        PROVE  reserves' = reserves
    BY <1>5 DEF LedgerStep, Upgrade, Tick, vars, Trap, DropOrphanReply
  <1> QED
    BY <1>2, <1>3, <1>4, <1>5, ArgumentsAssumption DEF Next

(* What happens to a key: a step drops it while it is pending, takes it    *)
(* for a new top-up, or settles it with the block of its mint.             *)
Drops(k) ==
    \E id \in Nat :
        /\ idempotency[k] = Pending(id)
        /\ idempotency'[k] = None
        /\ \/ ReleaseStuckMintState(id, k)
           \/ \E c \in Contexts : /\ TopupMintFailed(c)
                                 /\ handler[c].id = id /\ handler[c].key = k
Takes(k) ==
    \E c \in Contexts : \E id \in DOMAIN reserves : \E amount \in TopupAmounts :
        /\ ManualTopup(c, id, amount, k)
        /\ idempotency[k] = None
        /\ idempotency'[k] = Pending(id)
Settles(k) ==
    \E c \in Contexts :
        /\ TopupMinted(c)
        /\ handler[c].key = k
        /\ handler[c].id \in DOMAIN reserves
        /\ idempotency'[k] =
               Completed(handler[c].id, handler[c].amount, call[c].value, handler[c].now)

(* Otherwise the key is left alone. *)
LEMMA KeySteps ==
    ASSUME TypeOK, [Next]_vars, NEW k \in Keys
    PROVE  idempotency'[k] = idempotency[k] \/ Drops(k) \/ Takes(k) \/ Settles(k)
  <1> USE DEF minter_vars, ledger_vars
  <1>1. ASSUME NEW id \in 0..(next_reserve_id - 1), NEW key \in Optional(Keys),
               ReleaseStuckMintState(id, key)
        PROVE  idempotency'[k] = idempotency[k] \/ Drops(k)
    <2>1. idempotency'[k] = IF k = key /\ idempotency[k] = Pending(id) THEN None
                            ELSE idempotency[k]
      BY <1>1 DEF ReleaseStuckMintState, DropPending
    <2>2. id \in Nat
      BY DEF TypeOK
    <2> QED
      BY <1>1, <2>1, <2>2 DEF Drops
  <1>2. ASSUME Admin
        PROVE  idempotency'[k] = idempotency[k] \/ Drops(k)
    BY <1>1, <1>2 DEF Admin, AddReserve, UpdateReserve, RemoveReserve, SetGlobalPolicy
  <1>3. ASSUME NEW c \in Contexts, NEW queue, StartRebalance(c, queue)
        PROVE  idempotency' = idempotency
    BY <1>3 DEF StartRebalance
  <1>4. ASSUME NEW c \in Contexts, NEW id \in DOMAIN reserves, NEW amount \in TopupAmounts,
               NEW key \in Optional(Keys), ManualTopup(c, id, amount, key)
        PROVE  idempotency'[k] = idempotency[k] \/ Takes(k)
    <2>1. idempotency'[k] = IF k = key THEN Pending(id) ELSE idempotency[k]
      BY <1>4 DEF ManualTopup, ReserveKey
    <2>2. ASSUME k = key
          PROVE  idempotency[k] = None
      BY <2>2, <1>4, KeysAssumption DEF ManualTopup, Unused
    <2> QED
      BY <1>4, <2>1, <2>2 DEF Takes
  <1>5. ASSUME NEW c \in Contexts, TopupMinted(c)
        PROVE  idempotency'[k] = idempotency[k] \/ Settles(k)
    <2>1. idempotency'[k] =
              IF k = handler[c].key /\ handler[c].id \in DOMAIN reserves
              THEN Completed(handler[c].id, handler[c].amount, call[c].value, handler[c].now)
              ELSE idempotency[k]
      BY <1>5 DEF TopupMinted, CompleteKey
    <2> QED
      BY <1>5, <2>1 DEF Settles
  <1>6. ASSUME NEW c \in Contexts, TopupMintFailed(c)
        PROVE  idempotency'[k] = idempotency[k] \/ Drops(k)
    <2>1. idempotency'[k] =
              IF k = handler[c].key /\ idempotency[k] = Pending(handler[c].id) THEN None
              ELSE idempotency[k]
      BY <1>6 DEF TopupMintFailed, DropPending
    <2>2. handler[c].id \in Nat
      BY <1>6, TransferHandlerType DEF TopupMintFailed, AwaitsTransfer
    <2> QED
      BY <1>6, <2>1, <2>2 DEF Drops
  <1>7. ASSUME NEW c \in Contexts,
               \/ BalanceFailed(c) \/ NothingToMint(c) \/ SendMint(c)
               \/ RebalanceMinted(c) \/ RebalanceMintFailed(c)
        PROVE  idempotency' = idempotency
    BY <1>7 DEF BalanceFailed, NothingToMint, SendMint, RebalanceMinted, RebalanceMintFailed
  <1>8. ASSUME \/ LedgerStep \/ Upgrade \/ Tick \/ UNCHANGED vars
               \/ \E c \in Contexts : Trap(c) \/ DropOrphanReply(c)
        PROVE  idempotency' = idempotency
    BY <1>8 DEF LedgerStep, Upgrade, Tick, vars, Trap, DropOrphanReply
  <1>9. ASSUME NEW c \in Contexts, Begin(c) \/ (c = Timer /\ TimerTick)
        PROVE  idempotency'[k] = idempotency[k] \/ Takes(k)
    BY <1>3, <1>4, <1>9 DEF Begin, RebalanceReserve, RebalanceAllReserves, TimerTick
  <1>10. ASSUME NEW c \in Contexts, Resume(c)
         PROVE  idempotency'[k] = idempotency[k] \/ Drops(k) \/ Settles(k)
    BY <1>5, <1>6, <1>7, <1>10 DEF Resume
  <1> QED
    BY <1>2, <1>8, <1>9, <1>10, ArgumentsAssumption DEF Next

(* The log only grows, by at most the transfer of one context. *)
LEMMA LogSteps ==
    ASSUME TypeOK, [Next]_vars
    PROVE  /\ \/ blocks' = blocks
              \/ \E c \in Contexts : ExecuteTransfer(c)
           /\ \A i \in DOMAIN blocks : i \in DOMAIN blocks' /\ blocks'[i] = blocks[i]
  <1>1. \/ blocks' = blocks
        \/ \E c \in Contexts : ExecuteTransfer(c)
    BY DEF Next, vars, minter_vars, ledger_vars, Admin, AddReserve, UpdateReserve,
           RemoveReserve, SetGlobalPolicy, ReleaseStuckMintState, Begin, TimerTick,
           RebalanceReserve, RebalanceAllReserves, StartRebalance, ManualTopup, Resume,
           BalanceFailed, NothingToMint, SendMint, RebalanceMinted, RebalanceMintFailed,
           TopupMinted, TopupMintFailed, FinishWith, LedgerStep, LedgerAnswer, LedgerFault,
           LedgerUser, ServeBalance, RefuseDuplicate, Reject, LoseReply, Spend, Deposit,
           Trap, DropOrphanReply, Upgrade, Tick
  <1>2. ASSUME NEW c \in Contexts, ExecuteTransfer(c)
        PROVE  \A i \in DOMAIN blocks : i \in DOMAIN blocks' /\ blocks'[i] = blocks[i]
    <2>1. call[c].tx \in Transfer /\ blocks \in Seq(Transfer)
      BY <1>2, CallType DEF ExecuteTransfer, TypeOK, LedgerTypeOK
    <2> QED
      BY <1>2, <2>1 DEF ExecuteTransfer
  <1> QED
    BY <1>1, <1>2

-----------------------------------------------------------------------------
(* What a completed key says.                                              *)

(* The transfer a handler waits for is the one it sent, and so is the      *)
(* block that a reply to it names.                                         *)
CallMatches ==
    \A c \in Contexts : handler[c].at = "transfer" =>
        /\ call[c].status \in {"transfer", "ok", "duplicate", "error"}
        /\ handler[c].origin \in {"rebalance", "topup"}
        /\ handler[c].origin = "rebalance" => handler[c].key = None
        /\ call[c].status = "transfer" => Sends(handler[c], call[c].tx)
        /\ Succeeded(call[c]) =>
               call[c].value \in DOMAIN blocks /\ Sends(handler[c], blocks[call[c].value])

(* Every step keeps a handler and its transfer together. *)
LEMMA CallMatchesStep ==
    ASSUME TypeOK, CallMatches, [Next]_vars
    PROVE  CallMatches'
  <1> SUFFICES ASSUME NEW c \in Contexts, handler'[c].at = "transfer"
               PROVE  /\ call'[c].status \in {"transfer", "ok", "duplicate", "error"}
                      /\ handler'[c].origin \in {"rebalance", "topup"}
                      /\ handler'[c].origin = "rebalance" => handler'[c].key = None
                      /\ call'[c].status = "transfer" => Sends(handler'[c], call'[c].tx)
                      /\ Succeeded(call'[c]) =>
                             /\ call'[c].value \in DOMAIN blocks'
                             /\ Sends(handler'[c], blocks'[call'[c].value])
    BY DEF CallMatches
  <1>1. \A i \in DOMAIN blocks : i \in DOMAIN blocks' /\ blocks'[i] = blocks[i]
    BY LogSteps
  <1>2. CASE Rests(c)
    BY <1>1, <1>2 DEF CallMatches, Rests
  <1>3. CASE Ends(c) \/ Asks(c)
    BY <1>3 DEF Ends, Asks, Idle
  <1>4. CASE StartsMint(c)
    BY <1>4 DEF StartsMint, StartsTransfer, Succeeded
  <1>5. CASE Served(c)
    <2>1. handler'[c] = handler[c]
      BY <1>5 DEF Served
    <2>2. /\ call[c].status \in {"transfer", "ok", "duplicate", "error"}
          /\ handler[c].origin \in {"rebalance", "topup"}
          /\ handler[c].origin = "rebalance" => handler[c].key = None
          /\ call[c].status = "transfer" => Sends(handler[c], call[c].tx)
          /\ Succeeded(call[c]) =>
                 call[c].value \in DOMAIN blocks /\ Sends(handler[c], blocks[call[c].value])
      BY <2>1 DEF CallMatches
    <2>3. ~ServeBalance(c)
      BY <2>2 DEF ServeBalance
    <2>4. ASSUME ExecuteTransfer(c)
          PROVE  /\ call'[c].status = "ok" /\ call'[c].value \in DOMAIN blocks'
                 /\ blocks'[call'[c].value] = call[c].tx
                 /\ call[c].status = "transfer"
      <3>1. call[c].tx \in Transfer /\ blocks \in Seq(Transfer)
        BY <2>4, CallType DEF ExecuteTransfer, TypeOK, LedgerTypeOK
      <3> QED
        BY <2>4, <3>1 DEF ExecuteTransfer, Reply, TypeOK, LedgerTypeOK
    <2>5. ASSUME RefuseDuplicate(c)
          PROVE  /\ call'[c].status = "duplicate" /\ call'[c].value \in DOMAIN blocks'
                 /\ blocks'[call'[c].value] = call[c].tx
                 /\ call[c].status = "transfer"
      BY <2>5 DEF RefuseDuplicate, Reply, TypeOK, LedgerTypeOK
    <2>6. ASSUME Reject(c) \/ LoseReply(c)
          PROVE  call'[c].status = "error"
      BY <2>6 DEF Reject, LoseReply, Failed, TypeOK, LedgerTypeOK
    <2> QED
      BY <1>5, <2>1, <2>2, <2>3, <2>4, <2>5, <2>6 DEF Served, Succeeded
  <1> QED
    BY <1>2, <1>3, <1>4, <1>5, ContextSteps

(* A key that is completed with another answer than before was settled by  *)
(* a top-up whose reply names the block.                                   *)
LEMMA CompletedStep ==
    ASSUME TypeOK, CallMatches, CompletedPointsAtBlock, [Next]_vars
    PROVE  CompletedPointsAtBlock'
  <1> DEFINE Answers(k, entry, log) ==
          /\ entry.ledger_block_index \in DOMAIN log
          /\ LET tx == log[entry.ledger_block_index]
             IN  /\ tx.memo = [origin |-> "topup", id |-> entry.reserve_id,
                               key |-> Truncated(k)]
                 /\ tx.amount = entry.minted_amount
                 /\ tx.created_at_time = entry.executed_at
  <1> SUFFICES ASSUME NEW k \in Keys, IsCompleted(k)'
               PROVE  Answers(k, idempotency'[k], blocks')
    BY DEF CompletedPointsAtBlock
  <1>1. \A i \in DOMAIN blocks : i \in DOMAIN blocks' /\ blocks'[i] = blocks[i]
    BY LogSteps
  <1>2. CASE idempotency'[k] = idempotency[k]
    <2>1. IsCompleted(k)
      BY <1>2 DEF IsCompleted
    <2>2. Answers(k, idempotency[k], blocks)
      BY <2>1 DEF CompletedPointsAtBlock
    <2> QED
      BY <1>1, <1>2, <2>2
  <1>3. CASE Drops(k)
    BY <1>3 DEF Drops, IsCompleted
  <1>4. CASE Takes(k)
    BY <1>4 DEF Takes, Pending, IsCompleted
  <1>5. CASE Settles(k)
    <2>1. PICK c \in Contexts :
              /\ TopupMinted(c)
              /\ handler[c].key = k
              /\ idempotency'[k] =
                     Completed(handler[c].id, handler[c].amount, call[c].value, handler[c].now)
      BY <1>5 DEF Settles
    <2>2. /\ handler[c].at = "transfer" /\ handler[c].origin = "topup"
          /\ Succeeded(call[c])
      BY <2>1 DEF TopupMinted, AwaitsTransfer
    <2>3. call[c].value \in DOMAIN blocks /\ Sends(handler[c], blocks[call[c].value])
      BY <2>2 DEF CallMatches
    <2>4. /\ call[c].value \in DOMAIN blocks'
          /\ blocks'[call[c].value] = blocks[call[c].value]
      BY <1>1, <2>3
    <2>5. /\ idempotency'[k].ledger_block_index = call[c].value
          /\ idempotency'[k].reserve_id = handler[c].id
          /\ idempotency'[k].minted_amount = handler[c].amount
          /\ idempotency'[k].executed_at = handler[c].now
      BY <2>1 DEF Completed
    <2> QED
      BY <2>1, <2>2, <2>3, <2>4, <2>5 DEF Sends
  <1> QED
    BY <1>2, <1>3, <1>4, <1>5, KeySteps

(* The answer stored for a key names a block in which the ledger minted    *)
(* that amount to that reserve under that key, whatever the environment    *)
(* does: no fault makes the canister answer a retry with a made-up block.  *)
THEOREM CompletedKeysNameTheirBlock == Spec => []CompletedPointsAtBlock
  <1>1. Init => CallMatches /\ CompletedPointsAtBlock
    BY DEF Init, CallMatches, CompletedPointsAtBlock, IsCompleted, Idle
  <1>2. TypeOK /\ CallMatches /\ CompletedPointsAtBlock /\ [Next]_vars
            => CallMatches' /\ CompletedPointsAtBlock'
    BY CallMatchesStep, CompletedStep
  <1> QED
    BY <1>1, <1>2, TypeCorrect, PTL DEF Spec

-----------------------------------------------------------------------------
(* A key belongs to its top-up until the top-up ends.                      *)

(* The key of a running top-up is pending for its reserve. *)
KeyHeld ==
    \A c \in Contexts : AwaitsTransfer(c, "topup") /\ handler[c].key # None =>
        idempotency[handler[c].key] = Pending(handler[c].id)

(* Two handlers of one reserve are one. *)
LEMMA OneHandler ==
    ASSUME MintInv, NEW c \in Contexts, NEW d \in Contexts, Live(c), Live(d),
           handler[c].id = handler[d].id
    PROVE  c = d
  BY DEF MintInv, MintExclusion, Claims

(* A top-up that ends waits for its transfer no more. *)
LEMMA TopupEnds ==
    ASSUME TypeOK, NEW c \in Contexts, TopupMinted(c) \/ TopupMintFailed(c)
    PROVE  /\ handler[c].at = "transfer" /\ handler[c].origin = "topup" /\ Live(c)
           /\ handler'[c].at # "transfer"
  <1>1. /\ handler[c].at = "transfer" /\ handler[c].origin = "topup" /\ FinishWith(c)
    BY DEF TopupMinted, TopupMintFailed, AwaitsTransfer
  <1>2. handler'[c].at # "transfer"
    BY <1>1, ContinueFacts DEF FinishWith, Idle
  <1> QED
    BY <1>1, <1>2 DEF Live

(* Nobody but the top-up itself lets go of its key. *)
LEMMA KeyHeldStep ==
    ASSUME TypeOK, TypeOK', MintInv, KeyHeld, [Next]_vars, "live_release" \notin Environment
    PROVE  KeyHeld'
  <1> SUFFICES ASSUME NEW c \in Contexts, handler'[c].at = "transfer",
                      handler'[c].origin = "topup", handler'[c].key # None
               PROVE  idempotency'[handler'[c].key] = Pending(handler'[c].id)
    BY DEF KeyHeld, AwaitsTransfer
  <1>1. handler'[c].key \in Keys
    BY DEF TypeOK, Handler, Idle, Optional
  <1>2. CASE Ends(c) \/ Asks(c)
    BY <1>2 DEF Ends, Asks, Idle
  <1>3. CASE StartsMint(c)
    <2>1. PICK id \in DOMAIN reserves, amount \in TopupAmounts, key \in Optional(Keys) :
              /\ ManualTopup(c, id, amount, key)
              /\ handler'[c].id = id /\ handler'[c].key = key
      BY <1>3 DEF StartsMint, TopsUp
    <2> QED
      BY <1>1, <2>1 DEF ManualTopup, ReserveKey
  <1>4. CASE Rests(c) \/ Served(c)
    <2> DEFINE k == handler[c].key
               id == handler[c].id
    <2>1. handler'[c] = handler[c]
      BY <1>4 DEF Rests, Served
    <2>2. /\ handler[c].at = "transfer" /\ k \in Keys /\ Live(c) /\ id \in Claims(c)
          /\ idempotency[k] = Pending(id)
      BY <1>1, <2>1 DEF KeyHeld, AwaitsTransfer, Live, Claims
    <2>3. ~Drops(k)
      <3> SUFFICES ASSUME Drops(k)
                   PROVE  FALSE
        OBVIOUS
      <3>1. PICK other \in Nat :
                /\ idempotency[k] = Pending(other)
                /\ \/ ReleaseStuckMintState(other, k)
                   \/ \E d \in Contexts : TopupMintFailed(d) /\ handler[d].id = other
        BY DEF Drops
      <3>2. other = id
        BY <2>2, <3>1 DEF Pending
      <3>3. CASE ReleaseStuckMintState(id, k)
        BY <2>2, <3>3 DEF ReleaseStuckMintState, Busy
      <3>4. ASSUME NEW d \in Contexts, TopupMintFailed(d), handler[d].id = id
            PROVE  FALSE
        <4>1. d = c
          BY <2>2, <3>4, TopupEnds, OneHandler
        <4> QED
          BY <3>4, <4>1, TopupEnds
      <3> QED
        BY <3>1, <3>2, <3>3, <3>4
    <2>4. ~Takes(k)
      <3>1. id \in Nat
        BY <2>2, TransferHandlerType
      <3>2. Pending(id) # None
        BY <3>1, NoEntryAssumption DEF Pending, IdempotencyRecord
      <3> QED
        BY <2>2, <3>2 DEF Takes
    <2>5. ~Settles(k)
      <3> SUFFICES ASSUME NEW d \in Contexts, TopupMinted(d), handler[d].key = k
                   PROVE  FALSE
        BY DEF Settles
      <3>1. idempotency[k] = Pending(handler[d].id)
        BY <2>2, TopupEnds, KeysAssumption DEF KeyHeld, AwaitsTransfer
      <3>2. handler[d].id = id
        BY <2>2, <3>1 DEF Pending
      <3>3. d = c
        BY <2>2, <3>2, TopupEnds, OneHandler
      <3> QED
        BY <3>3, TopupEnds
    <2>6. idempotency'[k] = idempotency[k]
      BY <2>2, <2>3, <2>4, <2>5, KeySteps
    <2> QED
      BY <2>1, <2>2, <2>6
  <1> QED
    BY <1>2, <1>3, <1>4, ContextSteps

(* A key that is completed is not pending for any handler. *)
LEMMA CompletedStays ==
    ASSUME TypeOK, KeyHeld, [Next]_vars, NEW k \in Keys, IsCompleted(k)
    PROVE  idempotency'[k] = idempotency[k]
  <1>1. \A id : idempotency[k] # Pending(id)
    BY DEF IsCompleted, Pending
  <1>2. ~Drops(k)
    BY <1>1 DEF Drops
  <1>3. ~Takes(k)
    BY DEF Takes, IsCompleted
  <1>4. ~Settles(k)
    <2> SUFFICES ASSUME NEW c \in Contexts, TopupMinted(c), handler[c].key = k
                 PROVE  FALSE
      BY DEF Settles
    <2> QED
      BY <1>1, TopupEnds, KeysAssumption DEF KeyHeld, AwaitsTransfer
  <1> QED
    BY <1>2, <1>3, <1>4, KeySteps

(* A completed key keeps its answer: nothing short of a lock released      *)
(* under a live mint makes a retry of a top-up see another answer.         *)
THEOREM CompletedKeysAreFinal ==
    ASSUME "live_release" \notin Environment
    PROVE  Spec => CompletedIsFinal
  <1>1. Init => KeyHeld
    BY DEF Init, KeyHeld, AwaitsTransfer, Idle
  <1>2. TypeOK /\ TypeOK' /\ MintInv /\ KeyHeld /\ [Next]_vars => KeyHeld'
    BY KeyHeldStep
  <1>3. TypeOK /\ KeyHeld /\ [Next]_vars =>
            [\A k \in Keys : IsCompleted(k) => idempotency'[k] = idempotency[k]]_vars
    BY CompletedStays
  <1> QED
    BY <1>1, <1>2, <1>3, TypeCorrect, MintSafety, PTL DEF Spec, CompletedIsFinal

-----------------------------------------------------------------------------
(* Nothing is left behind where handlers run to their end.                 *)

(* NothingLeaks, with the reserve of a pending key still registered: then  *)
(* the top-up that holds the key can settle it.                            *)
LocksHeld ==
    \A id \in reserve_mint_inflight : \E c \in Contexts : Live(c) /\ handler[c].id = id

HeldBy(k, id) ==
    \E c \in Contexts :
        AwaitsTransfer(c, "topup") /\ handler[c].id = id /\ handler[c].key = k

PendingHeld ==
    \A k \in Keys : \A id \in Nat :
        idempotency[k] = Pending(id) => id \in DOMAIN reserves /\ HeldBy(k, id)

(* A lock that is held stays so while the handlers that run stay. *)
LEMMA LocksHeldStep ==
    ASSUME TypeOK, LocksHeld, [Next]_vars, Environment \cap {"trap", "live_upgrade"} = {}
    PROVE  LocksHeld'
  <1> USE DEF minter_vars, ledger_vars
  <1>1. ASSUME handler' = handler, reserve_mint_inflight' \subseteq reserve_mint_inflight
        PROVE  LocksHeld'
    BY <1>1 DEF LocksHeld, Live
  <1>2. ASSUME NEW c \in Contexts, NEW queue, NEW locked, ContinueWith(c, queue, locked),
               \A id \in locked : \E d \in Contexts \ {c} : Live(d) /\ handler[d].id = id
        PROVE  LocksHeld'
    <2>1. \A d \in Contexts \ {c} : handler'[d] = handler[d]
      BY <1>2, ContinueFacts
    <2>2. \A id \in reserve_mint_inflight' :
              id \in locked \/ (handler'[c].at = "balance" /\ handler'[c].id = id)
      BY <1>2, ContinueFacts
    <2> QED
      BY <1>2, <2>1, <2>2 DEF LocksHeld, Live
  <1>3. ASSUME NEW c \in Contexts, NEW queue, StartRebalance(c, queue)
        PROVE  LocksHeld'
    <2>1. ContinueWith(c, queue, reserve_mint_inflight) /\ ~Live(c)
      BY <1>3 DEF StartRebalance, Free
    <2>2. \A id \in reserve_mint_inflight :
              \E d \in Contexts \ {c} : Live(d) /\ handler[d].id = id
      BY <2>1 DEF LocksHeld
    <2> QED
      BY <1>2, <2>1, <2>2
  <1>4. ASSUME NEW c \in Contexts, NEW id \in DOMAIN reserves, NEW amount \in TopupAmounts,
               NEW key \in Optional(Keys), ManualTopup(c, id, amount, key)
        PROVE  LocksHeld'
    <2>1. /\ reserve_mint_inflight' = reserve_mint_inflight \cup {id} /\ ~Live(c)
          /\ handler' = [handler EXCEPT ![c] =
                 [at |-> "transfer", origin |-> "topup", id |-> id, key |-> key,
                  rest |-> {}, amount |-> amount, now |-> clock]]
      BY <1>4 DEF ManualTopup, AwaitTransfer, AdminMayMint, Free
    <2>2. /\ handler'[c].at = "transfer" /\ handler'[c].id = id
          /\ \A d \in Contexts \ {c} : handler'[d] = handler[d]
      BY <2>1 DEF TypeOK
    <2> QED
      BY <2>1, <2>2 DEF LocksHeld, Live
  <1>5. ASSUME NEW c \in Contexts, Resume(c)
        PROVE  LocksHeld'
    <2>1. ASSUME FinishWith(c), Live(c)
          PROVE  LocksHeld'
      <3> DEFINE locked == reserve_mint_inflight \ {handler[c].id}
      <3>1. ContinueWith(c, handler[c].rest, locked)
        BY <2>1 DEF FinishWith
      <3>2. \A id \in locked : \E d \in Contexts \ {c} : Live(d) /\ handler[d].id = id
        BY DEF LocksHeld
      <3> HIDE DEF locked
      <3> QED
        BY <1>2, <3>1, <3>2
    <2>2. ASSUME SendMint(c)
          PROVE  LocksHeld'
      <3>1. /\ \A d \in Contexts \ {c} : handler'[d] = handler[d]
            /\ handler'[c].at = "transfer" /\ handler'[c].id = handler[c].id
        BY <2>2, RebalanceSends DEF StartsMint, StartsTransfer
      <3>2. reserve_mint_inflight' = reserve_mint_inflight
        BY <2>2 DEF SendMint
      <3> QED
        BY <3>1, <3>2 DEF LocksHeld, Live
    <2> QED
      BY <1>5, <2>1, <2>2
      DEF Resume, BalanceFailed, NothingToMint, RebalanceMinted, RebalanceMintFailed,
          TopupMinted, TopupMintFailed, AwaitsBalance, AwaitsTransfer, Live
  <1>6. CASE Admin
    BY <1>1, <1>6 DEF Admin, AddReserve, UpdateReserve, RemoveReserve, SetGlobalPolicy,
                      ReleaseStuckMintState
  <1>7. CASE LedgerStep \/ Tick \/ UNCHANGED vars \/ \E c \in Contexts : DropOrphanReply(c)
    BY <1>1, <1>7 DEF LedgerStep, Tick, DropOrphanReply, vars
  <1>8. CASE Upgrade
    <2>1. (\A c \in Contexts : ~Live(c)) /\ reserve_mint_inflight' = reserve_mint_inflight
      BY <1>8 DEF Upgrade
    <2> QED
      BY <2>1 DEF LocksHeld
  <1>9. \A c \in Contexts : ~Trap(c)
    BY DEF Trap
  <1>10. ASSUME NEW c \in Contexts, Begin(c) \/ (c = Timer /\ TimerTick)
         PROVE  LocksHeld'
    BY <1>3, <1>4, <1>10 DEF Begin, RebalanceReserve, RebalanceAllReserves, TimerTick
  <1> QED
    BY <1>5, <1>6, <1>7, <1>8, <1>9, <1>10, ArgumentsAssumption DEF Next

(* The top-up that holds a pending key stays until it drops or settles it. *)
LEMMA PendingHeldStep ==
    ASSUME TypeOK, PendingHeld, [Next]_vars, Environment \cap {"trap", "live_upgrade"} = {}
    PROVE  PendingHeld'
  <1> SUFFICES ASSUME NEW k \in Keys, NEW id \in Nat, idempotency'[k] = Pending(id)
               PROVE  id \in DOMAIN reserves' /\ HeldBy(k, id)'
    BY DEF PendingHeld
  <1>1. Pending(id) # None
    BY NoEntryAssumption DEF Pending, IdempotencyRecord
  <1>2. CASE idempotency'[k] = idempotency[k]
    <2>1. id \in DOMAIN reserves /\ HeldBy(k, id)
      BY <1>2 DEF PendingHeld
    <2>2. ~RemoveReserve(id)
      BY <1>2 DEF RemoveReserve, Removable, PendingFor
    <2>3. PICK c \in Contexts :
              AwaitsTransfer(c, "topup") /\ handler[c].id = id /\ handler[c].key = k
      BY <2>1 DEF HeldBy
    <2>4. ~TopupMinted(c)
      <3> SUFFICES ASSUME TopupMinted(c)
                   PROVE  FALSE
        OBVIOUS
      <3>1. idempotency'[k] = Completed(id, handler[c].amount, call[c].value, handler[c].now)
        BY <2>1, <2>3 DEF TopupMinted, CompleteKey
      <3> QED
        BY <3>1 DEF Pending, Completed
    <2>5. ~TopupMintFailed(c)
      <3> SUFFICES ASSUME TopupMintFailed(c)
                   PROVE  FALSE
        OBVIOUS
      <3>1. idempotency'[k] = None
        BY <1>2, <2>3 DEF TopupMintFailed, DropPending
      <3> QED
        BY <1>1, <3>1
    <2>6. ~Trap(c) /\ ~Upgrade
      BY <2>3 DEF Trap, Upgrade, AwaitsTransfer, Live
    <2>7. handler'[c] = handler[c]
      BY <2>3, <2>4, <2>5, <2>6, TopupSteps
    <2> QED
      BY <2>1, <2>2, <2>3, <2>7, ReserveSteps DEF HeldBy, AwaitsTransfer
  <1>3. CASE Drops(k)
    BY <1>1, <1>3 DEF Drops
  <1>4. CASE Takes(k)
    <2>1. PICK c \in Contexts, r \in DOMAIN reserves, amount \in TopupAmounts :
              ManualTopup(c, r, amount, k) /\ idempotency'[k] = Pending(r)
      BY <1>4 DEF Takes
    <2>2. r = id /\ reserves' = reserves
      BY <2>1 DEF Pending, ManualTopup
    <2>3. /\ handler'[c].at = "transfer" /\ handler'[c].origin = "topup"
          /\ handler'[c].id = r /\ handler'[c].key = k
      BY <2>1 DEF ManualTopup, AwaitTransfer, TypeOK
    <2> QED
      BY <2>2, <2>3 DEF HeldBy, AwaitsTransfer
  <1>5. CASE Settles(k)
    BY <1>5 DEF Settles, Pending, Completed
  <1> QED
    BY <1>2, <1>3, <1>4, <1>5, KeySteps

(* Every path out of a handler gives back its lock and settles or drops    *)
(* its key, errors and rejected calls included, even where the operator    *)
(* releases locks of live mints; only a handler that is lost leaves them.  *)
THEOREM LocksAndKeysAreGivenBack ==
    ASSUME Environment \cap {"trap", "live_upgrade"} = {}
    PROVE  Spec => []NothingLeaks
  <1>1. Init => LocksHeld /\ PendingHeld
    BY NoEntryAssumption DEF Init, LocksHeld, PendingHeld, Pending, IdempotencyRecord
  <1>2. TypeOK /\ LocksHeld /\ PendingHeld /\ [Next]_vars => LocksHeld' /\ PendingHeld'
    BY LocksHeldStep, PendingHeldStep
  <1>3. TypeOK /\ LocksHeld /\ PendingHeld => NothingLeaks
    <2> SUFFICES ASSUME TypeOK, LocksHeld, PendingHeld
                 PROVE  NothingLeaks
      OBVIOUS
    <2>1. AssignedIds \subseteq Nat
      BY DEF AssignedIds, TypeOK
    <2> QED
      BY <2>1 DEF NothingLeaks, LocksHeld, PendingHeld, HeldBy
  <1> QED
    BY <1>1, <1>2, <1>3, TypeCorrect, PTL DEF Spec

-----------------------------------------------------------------------------
(* A key mints once.                                                       *)

(* Both handlers of a key would hold it pending, so they are one. *)
LEMMA OneTopup ==
    ASSUME TypeOK, MintInv, KeyHeld, NEW c \in Contexts, NEW d \in Contexts,
           AwaitsTransfer(c, "topup"), AwaitsTransfer(d, "topup"),
           handler[c].key # None, handler[c].key = handler[d].key
    PROVE  c = d
  <1>1. Pending(handler[c].id) = Pending(handler[d].id)
    BY DEF KeyHeld
  <1>2. handler[c].id = handler[d].id
    BY <1>1 DEF Pending
  <1> QED
    BY <1>2, OneHandler DEF AwaitsTransfer, Live

(* The top-up with key k whose mint is executed and not yet recorded. *)
MintedFor(k) ==
    \E c \in Contexts : /\ AwaitsTransfer(c, "topup") /\ handler[c].key = k
                        /\ Succeeded(call[c])

(* A key has one block at most, and one only if it is settled or about to  *)
(* be; until its transfer is executed there is none.  No transfer is under *)
(* way without its handler.                                                *)
KeyOnce ==
    /\ \A k \in Keys : \A i, j \in BlocksOfKey(k) : i = j
    /\ \A k \in Keys : BlocksOfKey(k) # {} => IsCompleted(k) \/ MintedFor(k)
    /\ \A k \in Keys : \A c \in Contexts :
           /\ AwaitsTransfer(c, "topup") /\ handler[c].key = k
           /\ call[c].status \in {"transfer", "error"}
           => BlocksOfKey(k) = {}
    /\ \A c \in Contexts : call[c].status = "transfer" => handler[c].at = "transfer"

NothingLost == Environment \cap {"lost_reply", "trap", "live_upgrade", "live_release"} = {}

(* The memo tells any two keys apart. *)
MemoTellsKeysApart == \A k, l \in Keys : KeyPrefix[k] = KeyPrefix[l] => k = l

(* No transfer loses its handler. *)
LEMMA NoOrphanStep ==
    ASSUME TypeOK, KeyOnce, [Next]_vars, NothingLost, NEW c \in Contexts,
           call'[c].status = "transfer"
    PROVE  handler'[c].at = "transfer"
  <1>1. ASSUME handler'[c] = handler[c], call'[c] = call[c]
        PROVE  handler'[c].at = "transfer"
    BY <1>1 DEF KeyOnce
  <1>2. CASE Ends(c)
    <2>1. call'[c] = call[c] /\ handler'[c] = Idle
      BY <1>2 DEF Ends, NoCall
    <2>2. handler[c].at = "transfer" /\ Live(c) /\ handler'[c] # handler[c]
      BY <2>1 DEF KeyOnce, Live, Idle
    <2>3. ~Begin(c) /\ ~(c = Timer /\ TimerTick)
      BY <2>2 DEF Begin, RebalanceReserve, RebalanceAllReserves, StartRebalance, ManualTopup,
                  AdminMayMint, TimerTick, Free
    <2>4. ~Resume(c)
      BY <2>1 DEF Resume, BalanceFailed, NothingToMint, SendMint, RebalanceMinted,
                  RebalanceMintFailed, TopupMinted, TopupMintFailed, Succeeded, Failed
    <2>5. ~Trap(c) /\ ~Upgrade
      BY <2>2 DEF Trap, Upgrade, NothingLost
    <2> QED
      BY <2>2, <2>3, <2>4, <2>5, HandlerSteps
  <1>3. CASE Served(c)
    <2>1. ~(\/ ServeBalance(c) \/ ExecuteTransfer(c) \/ RefuseDuplicate(c)
            \/ Reject(c) \/ LoseReply(c))
      BY DEF ServeBalance, ExecuteTransfer, RefuseDuplicate, Reject, LoseReply, Reply,
             Failed, TypeOK, LedgerTypeOK
    <2> QED
      BY <1>3, <2>1 DEF Served
  <1> QED
    BY <1>1, <1>2, <1>3, ContextSteps DEF Rests, Asks, StartsMint, StartsTransfer

(* A key has its block settled, or the reply that will settle it. *)
LEMMA MintedStaysSettled ==
    ASSUME TypeOK, MintInv, CallMatches, KeyHeld, [Next]_vars, NothingLost,
           NEW k \in Keys, IsCompleted(k) \/ MintedFor(k)
    PROVE  IsCompleted(k)' \/ MintedFor(k)'
  <1>1. CASE IsCompleted(k)
    <2>1. idempotency'[k] = idempotency[k]
      BY <1>1, CompletedStays
    <2> QED
      BY <1>1, <2>1 DEF IsCompleted
  <1>2. CASE MintedFor(k)
    <2>1. PICK c \in Contexts :
              AwaitsTransfer(c, "topup") /\ handler[c].key = k /\ Succeeded(call[c])
      BY <1>2 DEF MintedFor
    <2>2. CASE handler'[c] = handler[c]
      <3>1. ~Ends(c) /\ ~Asks(c)
        BY <2>1, <2>2 DEF Ends, Asks, Idle, AwaitsTransfer
      <3>2. ~StartsMint(c)
        BY <2>1 DEF StartsMint, SendMint, TopsUp, ManualTopup, AdminMayMint, Free, Live,
                    AwaitsTransfer, AwaitsBalance
      <3>3. ~Served(c)
        BY <2>1 DEF Served, ServeBalance, ExecuteTransfer, RefuseDuplicate, Reject,
                    LoseReply, Succeeded, NothingLost
      <3>4. call'[c] = call[c]
        BY <3>1, <3>2, <3>3, ContextSteps DEF Rests
      <3> QED
        BY <2>1, <2>2, <3>4 DEF MintedFor, AwaitsTransfer
    <2>3. CASE TopupMinted(c)
      <3>1. handler[c].id \in DOMAIN reserves
        BY <2>1 DEF MintInv, HandlerReserveExists, Live, AwaitsTransfer
      <3>2. idempotency'[k] = Completed(handler[c].id, handler[c].amount, call[c].value,
                                        handler[c].now)
        BY <2>1, <2>3, <3>1 DEF TopupMinted, CompleteKey
      <3>3. Completed(handler[c].id, handler[c].amount, call[c].value, handler[c].now)
                \in IdempotencyRecord
        BY <2>1, TransferHandlerType, ReplyType
        DEF AwaitsTransfer, Completed, IdempotencyRecord
      <3>4. idempotency'[k] # None
        BY <3>2, <3>3, NoEntryAssumption
      <3> QED
        BY <3>2, <3>4 DEF IsCompleted, Completed
    <2>4. ~TopupMintFailed(c)
      BY <2>1 DEF TopupMintFailed, Succeeded, Failed
    <2>5. ~Trap(c) /\ ~Upgrade
      BY <2>1 DEF Trap, Upgrade, NothingLost, AwaitsTransfer, Live
    <2> QED
      BY <2>1, <2>2, <2>3, <2>4, <2>5, TopupSteps
  <1> QED
    BY <1>1, <1>2

(* A transfer that is executed adds its block to those of its key. *)
LEMMA BlocksOfKeySteps ==
    ASSUME TypeOK, [Next]_vars, NEW k \in Keys
    PROVE  \/ BlocksOfKey(k)' = BlocksOfKey(k)
           \/ \E c \in Contexts :
                  /\ ExecuteTransfer(c)
                  /\ call[c].tx.memo.key = Truncated(k)
                  /\ BlocksOfKey(k)' = BlocksOfKey(k) \cup {Len(blocks) + 1}
  <1>1. CASE blocks' = blocks
    BY <1>1 DEF BlocksOfKey
  <1>2. ASSUME NEW c \in Contexts, ExecuteTransfer(c)
        PROVE  BlocksOfKey(k)' = BlocksOfKey(k)
                   \cup (IF call[c].tx.memo.key = Truncated(k) THEN {Len(blocks) + 1} ELSE {})
    <2>1. call[c].tx \in Transfer /\ blocks \in Seq(Transfer)
      BY <1>2, CallType DEF ExecuteTransfer, TypeOK, LedgerTypeOK
    <2>2. /\ DOMAIN blocks' = DOMAIN blocks \cup {Len(blocks) + 1}
          /\ \A i \in DOMAIN blocks : blocks'[i] = blocks[i]
          /\ blocks'[Len(blocks) + 1] = call[c].tx
      BY <1>2, <2>1 DEF ExecuteTransfer
    <2>3. Len(blocks) + 1 \notin DOMAIN blocks
      BY <2>1
    <2>4. Truncated(k)' = Truncated(k)
      BY DEF Truncated
    <2> QED
      BY <2>2, <2>3, <2>4 DEF BlocksOfKey
  <1> QED
    BY <1>1, <1>2, LogSteps

(* The key of a top-up whose transfer is yet to be executed is unused.     *)
LEMMA UnusedUntilExecuted ==
    ASSUME TypeOK, TypeOK', CallMatches, KeyHeld, KeyOnce, [Next]_vars, NothingLost,
           NEW k \in Keys, NEW c \in Contexts, AwaitsTransfer(c, "topup")',
           handler'[c].key = k, call'[c].status \in {"transfer", "error"}
    PROVE  /\ BlocksOfKey(k) = {}
           /\ ~ExecuteTransfer(c)
  <1>1. handler'[c].at = "transfer" /\ handler'[c].origin = "topup"
    BY DEF AwaitsTransfer
  <1>2. ~Ends(c) /\ ~Asks(c)
    BY <1>1 DEF Ends, Asks, Idle
  <1>3. ~ExecuteTransfer(c)
    BY DEF ExecuteTransfer, Reply, TypeOK, LedgerTypeOK
  <1>4. CASE Rests(c)
    <2>1. handler'[c] = handler[c] /\ call'[c] = call[c]
      BY <1>4 DEF Rests
    <2> QED
      BY <1>1, <1>3, <2>1 DEF KeyOnce, AwaitsTransfer
  <1>5. CASE Served(c)
    <2>1. handler'[c] = handler[c]
      BY <1>5 DEF Served
    <2>2. call[c].status = "transfer"
      <3>1. call[c].status \in {"transfer", "ok", "duplicate", "error"}
        BY <1>1, <2>1 DEF CallMatches
      <3>2. ~ServeBalance(c) /\ ~RefuseDuplicate(c) /\ ~LoseReply(c)
        BY DEF ServeBalance, RefuseDuplicate, LoseReply, Reply, NothingLost, TypeOK,
               LedgerTypeOK
      <3> QED
        BY <1>3, <1>5, <3>1, <3>2 DEF Served, Reject
    <2> QED
      BY <1>1, <1>3, <2>1, <2>2 DEF KeyOnce, AwaitsTransfer
  <1>6. CASE StartsMint(c)
    <2>1. PICK id \in DOMAIN reserves, amount \in TopupAmounts, key \in Optional(Keys) :
              ManualTopup(c, id, amount, key) /\ key = k
      BY <1>1, <1>6 DEF StartsMint, TopsUp
    <2>2. idempotency[k] = None
      BY <2>1, KeysAssumption DEF ManualTopup, Unused
    <2>3. ~IsCompleted(k)
      BY <2>2 DEF IsCompleted
    <2>4. ~MintedFor(k)
      <3> SUFFICES ASSUME NEW d \in Contexts, AwaitsTransfer(d, "topup"), handler[d].key = k
                   PROVE  FALSE
        BY DEF MintedFor
      <3>1. idempotency[k] = Pending(handler[d].id)
        BY KeysAssumption DEF KeyHeld
      <3>2. Pending(handler[d].id) # None
        BY TransferHandlerType, NoEntryAssumption DEF AwaitsTransfer, Pending, IdempotencyRecord
      <3> QED
        BY <2>2, <3>1, <3>2
    <2> QED
      BY <1>3, <2>1, <2>2, <2>3, <2>4 DEF KeyOnce
  <1> QED
    BY <1>2, <1>4, <1>5, <1>6, ContextSteps

(* At most one block per key, whatever is retried. *)
LEMMA KeyOnceStep ==
    ASSUME TypeOK, TypeOK', MintInv, CallMatches, KeyHeld, KeyHeld', MintInv', KeyOnce,
           [Next]_vars, NothingLost, MemoTellsKeysApart
    PROVE  KeyOnce'
  <1>1. ASSUME NEW k \in Keys, NEW c \in Contexts, ExecuteTransfer(c),
               call[c].tx.memo.key = Truncated(k)
        PROVE  /\ AwaitsTransfer(c, "topup") /\ handler[c].key = k
               /\ BlocksOfKey(k) = {}
               /\ handler'[c] = handler[c] /\ Succeeded(call'[c])
    <2>1. call[c].status = "transfer" /\ handler[c].at = "transfer"
      BY <1>1 DEF ExecuteTransfer, KeyOnce
    <2>2. /\ Sends(handler[c], call[c].tx)
          /\ handler[c].origin \in {"rebalance", "topup"}
          /\ handler[c].origin = "rebalance" => handler[c].key = None
      BY <2>1 DEF CallMatches
    <2>3. Truncated(handler[c].key) = KeyPrefix[k] /\ KeyPrefix[k] \in Keys
      BY <1>1, <2>2, KeysAssumption, KeyPrefixAssumption DEF Sends, Truncated
    <2>4. handler[c].key \in Optional(Keys)
      BY <2>1, TransferHandlerType
    <2>5. handler[c].key = k
      BY <2>3, <2>4, KeysAssumption DEF Truncated, Optional, MemoTellsKeysApart
    <2>6. AwaitsTransfer(c, "topup")
      BY <2>1, <2>2, <2>5, KeysAssumption DEF AwaitsTransfer
    <2>7. BlocksOfKey(k) = {}
      BY <2>1, <2>5, <2>6, KeysAssumption DEF KeyOnce
    <2>8. Succeeded(call'[c])
      BY <1>1 DEF ExecuteTransfer, Reply, Succeeded, TypeOK, LedgerTypeOK
    <2>9. handler'[c] = handler[c]
      <3>1. ~Rests(c)
        BY <2>1, <2>8 DEF Rests, Succeeded
      <3>2. ~Ends(c) /\ ~Asks(c) /\ ~StartsMint(c)
        BY <2>1, <2>8 DEF Ends, Asks, StartsMint, StartsTransfer, Succeeded, NoCall
      <3> QED
        BY <3>1, <3>2, ContextSteps DEF Served
    <2> QED
      BY <2>5, <2>6, <2>7, <2>8, <2>9
  <1>2. \A k \in Keys : \A i, j \in BlocksOfKey(k)' : i = j
    <2> SUFFICES ASSUME NEW k \in Keys
                 PROVE  \A i, j \in BlocksOfKey(k)' : i = j
      OBVIOUS
    <2>1. CASE BlocksOfKey(k)' = BlocksOfKey(k)
      BY <2>1 DEF KeyOnce
    <2>2. ASSUME NEW c \in Contexts, ExecuteTransfer(c),
                 call[c].tx.memo.key = Truncated(k),
                 BlocksOfKey(k)' = BlocksOfKey(k) \cup {Len(blocks) + 1}
          PROVE  \A i, j \in BlocksOfKey(k)' : i = j
      <3>1. BlocksOfKey(k) = {}
        BY <1>1, <2>2
      <3> QED
        BY <2>2, <3>1
    <2> QED
      BY <2>1, <2>2, BlocksOfKeySteps
  <1>3. ASSUME NEW k \in Keys, BlocksOfKey(k)' # {}
        PROVE  IsCompleted(k)' \/ MintedFor(k)'
    <2>1. CASE BlocksOfKey(k)' = BlocksOfKey(k)
      BY <1>3, <2>1, MintedStaysSettled DEF KeyOnce
    <2>2. ASSUME NEW c \in Contexts, ExecuteTransfer(c),
                 call[c].tx.memo.key = Truncated(k)
          PROVE  MintedFor(k)'
      BY <1>1, <2>2 DEF MintedFor, AwaitsTransfer
    <2> QED
      BY <2>1, <2>2, BlocksOfKeySteps
  <1>4. ASSUME NEW k \in Keys, NEW c \in Contexts, AwaitsTransfer(c, "topup")',
               handler'[c].key = k, call'[c].status \in {"transfer", "error"}
        PROVE  BlocksOfKey(k)' = {}
    <2>1. BlocksOfKey(k) = {} /\ ~ExecuteTransfer(c)
      BY <1>4, UnusedUntilExecuted
    <2>2. ASSUME NEW d \in Contexts, ExecuteTransfer(d),
                 call[d].tx.memo.key = Truncated(k)
          PROVE  FALSE
      <3>1. /\ AwaitsTransfer(d, "topup") /\ handler'[d] = handler[d]
            /\ handler[d].key = k
        BY <1>1, <2>2
      <3>2. /\ handler'[c].at = "transfer" /\ handler'[c].origin = "topup"
            /\ handler'[d].at = "transfer" /\ handler'[d].origin = "topup"
            /\ handler'[d].key = k
        BY <1>4, <3>1 DEF AwaitsTransfer
      <3>3. /\ idempotency'[k] = Pending(handler'[c].id)
            /\ idempotency'[k] = Pending(handler'[d].id)
        BY <1>4, <3>2, KeysAssumption DEF KeyHeld, AwaitsTransfer
      <3>4. handler'[c].id = handler'[d].id
        BY <3>3 DEF Pending
      <3>5. c = d
        BY <3>2, <3>4 DEF MintInv, MintExclusion, Claims, Live
      <3> QED
        BY <2>1, <2>2, <3>5
    <2>3. BlocksOfKey(k)' = BlocksOfKey(k)
      BY <2>2, BlocksOfKeySteps
    <2> QED
      BY <2>1, <2>3
  <1>5. \A c \in Contexts : call'[c].status = "transfer" => handler'[c].at = "transfer"
    BY NoOrphanStep
  <1> QED
    BY <1>2, <1>3, <1>4, <1>5 DEF KeyOnce

(* However often a top-up is retried with its key, its mint is executed at *)
(* most once, where no reply is lost, no handler dies, locks of live mints *)
(* are left alone and the memo tells the keys apart.  Rejected calls,      *)
(* duplicates, removals and updates in between change nothing.             *)
THEOREM KeysMintAtMostOnce ==
    ASSUME NothingLost, MemoTellsKeysApart
    PROVE  Spec => []KeyMintedOnce
  <1>1. Init => CallMatches /\ KeyHeld /\ KeyOnce
    BY DEF Init, LedgerInit, CallMatches, KeyHeld, KeyOnce, BlocksOfKey, AwaitsTransfer,
           Idle, NoCall
  <1>2. "live_release" \notin Environment
    BY DEF NothingLost
  <1>3. TypeOK /\ TypeOK' /\ MintInv /\ MintInv' /\ CallMatches /\ KeyHeld /\ KeyOnce /\ [Next]_vars
            => CallMatches' /\ KeyHeld' /\ KeyOnce'
    BY <1>2, CallMatchesStep, KeyHeldStep, KeyOnceStep
  <1>4. KeyOnce => KeyMintedOnce
    <2> SUFFICES ASSUME KeyOnce, NEW k \in Keys
                 PROVE  Cardinality(BlocksOfKey(k)) <= 1
      BY DEF KeyMintedOnce
    <2>1. CASE BlocksOfKey(k) = {}
      BY <2>1, FS_EmptySet
    <2>2. ASSUME NEW i \in BlocksOfKey(k)
          PROVE  Cardinality(BlocksOfKey(k)) <= 1
      <3>1. BlocksOfKey(k) = {i}
        BY DEF KeyOnce
      <3> QED
        BY <3>1, FS_Singleton
    <2> QED
      BY <2>1, <2>2
  <1>5. Spec => []MintInv
    BY <1>2, MintSafety
  <1> QED
    BY <1>1, <1>3, <1>4, <1>5, TypeCorrect, PTL DEF Spec
=============================================================================
