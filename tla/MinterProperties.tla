-------------------------- MODULE MinterProperties --------------------------
(***************************************************************************)
(* What the minter promises, stated over the state of Minter.tla.  Which   *)
(* of these hold under which faults of the environment is the subject of   *)
(* the runs; see README.md.                                                *)
(***************************************************************************)
EXTENDS Minter

AssignedIds == 0..(next_reserve_id - 1)

Within(amount, cap) == cap # None => amount <= cap

-----------------------------------------------------------------------------
(* Mint locks. *)

(* No two mints to one reserve overlap, from the first await of one to its *)
(* end, and a reserve that is being minted to is locked, even where the    *)
(* handler was lost and its transfer may still be executed.  Everything    *)
(* the handlers compute from their copies relies on it.                    *)
MintExclusion ==
    \A c, d \in Contexts : \A id \in Claims(c) :
        id \in reserve_mint_inflight /\ (id \in Claims(d) => c = d)

(* The reserve a handler works on is not removed under it, so that a mint  *)
(* the ledger executed can always be recorded: the code's "reserve missing *)
(* after successful ledger mint" is unreachable.                           *)
HandlerReserveExists ==
    \A c \in Contexts : Live(c) => handler[c].id \in DOMAIN reserves

(* Every path out of a handler gives back what it took: a lock and a       *)
(* pending key always belong to a handler that is still running.           *)
NothingLeaks ==
    /\ \A id \in reserve_mint_inflight : \E c \in Contexts : Live(c) /\ handler[c].id = id
    /\ \A k \in Keys : \A id \in AssignedIds :
           idempotency[k] = Pending(id) =>
               \E c \in Contexts :
                   /\ AwaitsTransfer(c, "topup")
                   /\ handler[c].id = id /\ handler[c].key = k

(* While rebalance_one waits for the balance, the counters it copied       *)
(* before the await are still those of the reserve.                        *)
SnapshotIsCurrent ==
    \A c \in Contexts : AwaitsBalance(c) =>
        LET record == reserves[handler[c].id]
        IN  /\ handler[c].record.lifetime_minted = record.lifetime_minted
            /\ handler[c].record.mint_events = record.mint_events

-----------------------------------------------------------------------------
(* Accounting against the ledger. *)

BlocksOf(id) == {i \in DOMAIN blocks : blocks[i].memo.id = id}

MintedSince(id, since) ==
    SumFunctionOnSet(MintedAmounts,
                     {i \in BlocksOf(id) : blocks[i].created_at_time >= since})

(* Contexts whose mint the ledger has executed and the minter not recorded. *)
Unrecorded(id) ==
    {c \in Contexts : /\ handler[c].at = "transfer" /\ handler[c].id = id
                      /\ call[c].status = "ok"}

(* lifetime_minted is what the ledger has minted to the reserve, but for   *)
(* the mints whose replies are under way.                                  *)
LedgerAgreement ==
    \A id \in DOMAIN reserves :
        reserves[id].lifetime_minted
            + SumFunction([c \in Unrecorded(id) |-> handler[c].amount])
        = MintedSince(id, 0)

(* What was recorded for a reserve, and would be with the mint under way,  *)
(* never exceeds the loosest lifetime_received_maximum it has had, although *)
(* the maximum may change while a handler holds a copy of the old one.     *)
LifetimeCeiling ==
    \A id \in DOMAIN reserves :
        /\ Within(reserves[id].lifetime_minted, loosest[id].lifetime)
        /\ \A c \in Contexts :
               handler[c].at = "transfer" /\ handler[c].id = id =>
                   Within(reserves[id].lifetime_minted + handler[c].amount,
                          loosest[id].lifetime)

(* In no window does the ledger hold more mints to a reserve, by their     *)
(* creation times, than the loosest limit it has had for that window.      *)
WindowCeiling ==
    \A id \in DOMAIN reserves : \A w \in Windows :
        Within(MintedSince(id, saturating_sub(clock, HOURS[w])),
               loosest[id].rate_limits[w])

(* Between mints, the usage the rate limiter sees in every window is what  *)
(* the ledger minted in it: pruning never forgets a mint that still counts. *)
RateUsageIsExact ==
    \A id \in DOMAIN reserves : id \notin reserve_mint_inflight =>
        \A w \in Windows :
            usage_in_window(reserves[id].mint_events, clock, HOURS[w])
                = MintedSince(id, saturating_sub(clock, HOURS[w]))

(* Executing the transfer of c leaves its account within the loosest       *)
(* max_balance of the reserve.                                             *)
LeavesWithinMax(c) ==
    LET tx == call[c].tx
    IN  tx.memo.id \in DOMAIN reserves =>
            Within(balance'[tx.to], loosest[tx.memo.id].max_balance)

(* A rebalance never pushes an account above the loosest max_balance of    *)
(* its reserve, although the balance was read before another await.        *)
RebalanceWithinMax ==
    [][\A c \in Contexts :
           ExecuteTransfer(c) /\ call[c].tx.memo.origin = "rebalance"
               => LeavesWithinMax(c)]_vars

(* A ceiling that is at least as loose as a configured maximum.            *)
Covers(ceiling, maximum) == ceiling # None => maximum # None /\ maximum <= ceiling

(* The ceiling of a reserve covers the maximum it has now and the one its  *)
(* handler copied.                                                         *)
CeilingCovers ==
    /\ \A id \in DOMAIN reserves :
           Covers(loosest[id].lifetime, reserves[id].config.lifetime_received_maximum)
    /\ \A c \in Contexts : AwaitsBalance(c) =>
           Covers(loosest[handler[c].id].lifetime,
                  handler[c].record.config.lifetime_received_maximum)

(* The inductive invariant behind MintExclusion and LifetimeCeiling.       *)
MintInv ==
    /\ MintExclusion
    /\ HandlerReserveExists
    /\ SnapshotIsCurrent
    /\ CeilingCovers
    /\ LifetimeCeiling

-----------------------------------------------------------------------------
(* Idempotency of manual top-ups. *)

BlocksOfKey(k) == {i \in DOMAIN blocks : blocks[i].memo.key = Truncated(k)}

(* However often a key is used, its mint is executed at most once. *)
KeyMintedOnce == \A k \in Keys : Cardinality(BlocksOfKey(k)) <= 1

IsCompleted(k) == idempotency[k] # None /\ idempotency[k].status = "completed"

(* A completed key stays completed with the answer it has. *)
CompletedIsFinal ==
    [][\A k \in Keys : IsCompleted(k) => idempotency'[k] = idempotency[k]]_vars

(* The answer stored for a key names the block in which the ledger minted  *)
(* that amount to that reserve under that key.                             *)
CompletedPointsAtBlock ==
    \A k \in Keys : IsCompleted(k) =>
        LET entry == idempotency[k]
        IN  /\ entry.ledger_block_index \in DOMAIN blocks
            /\ LET tx == blocks[entry.ledger_block_index]
               IN  /\ tx.memo = [origin |-> "topup", id |-> entry.reserve_id,
                                 key |-> Truncated(k)]
                   /\ tx.amount = entry.minted_amount
                   /\ tx.created_at_time = entry.executed_at

-----------------------------------------------------------------------------
(* What the documentation says of the code and the code does not do.  TLC  *)
(* finds this violated, and KeyMintedOnce when replies may be lost.        *)

(* model.rs: while the master switch is off, all minting is rejected.  No  *)
(* transfer is sent while minting_enabled is FALSE.                        *)
NoMintWhileDisabled ==
    [][\A c \in Contexts :
           call'[c] # call[c] /\ call'[c].status = "transfer"
               => global_policy.minting_enabled]_vars

-----------------------------------------------------------------------------
(* Progress.  Continuations run once their reply is there, every call is   *)
(* answered or fails, and the timer fires again and again.                 *)

Fairness ==
    /\ \A c \in Contexts :
           /\ WF_vars(Resume(c))
           /\ WF_vars((LedgerAnswer(c) \/ Reject(c)) /\ UNCHANGED <<minter_vars, clock>>)
    /\ WF_vars(TimerTick)

FairSpec == Spec /\ Fairness

(* A lock taken is eventually released: no handler keeps a reserve for     *)
(* good, and the loop of rebalance_all comes to its end.                   *)
LocksAreReleased ==
    \A id \in 0..(MaxReserves - 1) :
        id \in reserve_mint_inflight ~> id \notin reserve_mint_inflight

(* A reserve open to rebalancing that is below its target or has received  *)
(* less than its lifetime guarantee.                                       *)
Short(id) ==
    /\ id \in DOMAIN reserves
    /\ global_policy.minting_enabled
    /\ LET config == reserves[id].config
       IN  /\ config.enabled /\ config.allow_auto_rebalance
           /\ LargerDeficit(config, balance[config.account], reserves[id].lifetime_minted) > 0

(* Calls for reserve id that the ledger may go on refusing for ever.       *)
AnswersBalance(id) ==
    \E c \in Contexts : /\ Live(c) /\ handler[c].id = id
                        /\ ServeBalance(c) /\ UNCHANGED <<minter_vars, clock>>
AnswersTransfer(id) ==
    \E c \in Contexts : /\ Live(c) /\ handler[c].id = id
                        /\ ExecuteTransfer(c) /\ UNCHANGED <<minter_vars, clock>>

(* The ledger refuses calls for reserve id now and then, but not always.   *)
LedgerServes(id) == SF_vars(AnswersBalance(id)) /\ SF_vars(AnswersTransfer(id))

(* The heartbeat: a short reserve without ceilings is refilled, in several *)
(* cycles if need be, or an administrator changes what it is entitled to.  *)
(* It is enough that the ledger serves this reserve: another one whose     *)
(* calls fail in every cycle does not keep the timer from reaching it.     *)
ReserveRefilled ==
    \A id \in 0..(MaxReserves - 1) : LedgerServes(id) => (Short(id) ~> ~Short(id))
=============================================================================
