--------------------------- MODULE Accounting_proofs ---------------------------
(***************************************************************************)
(* Proofs about amounts: what the minter has counted for a reserve is what *)
(* the ledger has minted to it, over its lifetime and in every window, and *)
(* no window is minted more than its limit.  All of that assumes that the *)
(* environment loses and confuses nothing; where replies are lost, that    *)
(* the counters still invent nothing.  Last, that rebalances keep the      *)
(* balances within their maxima.                                           *)
(***************************************************************************)
EXTENDS Refinement_proofs, Reserve_proofs

Faultless == Environment \subseteq {"reject", "spend", "deposit"}

(* Every reply is that of the caller's own request and reaches it, although *)
(* locks may be released under a mint.                                     *)
Answered == Environment \subseteq {"reject", "spend", "deposit", "live_release"}

-----------------------------------------------------------------------------
(* The steps of the accounts.                                              *)

(* The mint of c is executed and the minter has not seen the reply. *)
Unread(c) == handler[c].at = "transfer" /\ call[c].status = "ok"

Records(c) == RebalanceMinted(c) \/ TopupMinted(c)

NoDuplicates == \A c \in Contexts : call[c].status # "duplicate"

LEMMA NoDuplicatesStep ==
    ASSUME TypeOK, "same_instant" \notin Environment, NoDuplicates, [Next]_vars
    PROVE  NoDuplicates'
  <1> SUFFICES ASSUME NEW c \in Contexts
               PROVE  call'[c].status # "duplicate"
    BY DEF NoDuplicates
  <1>1. CASE Served(c)
    <2>1. ~RefuseDuplicate(c)
      BY DEF RefuseDuplicate
    <2> QED
      BY <1>1, <2>1 DEF Served, ServeBalance, ExecuteTransfer, Reject, LoseReply, Reply,
                        Failed, TypeOK, LedgerTypeOK
  <1> QED
    BY <1>1, ContextSteps
    DEF Rests, Ends, Asks, StartsMint, StartsTransfer, NoCall, NoDuplicates

(* A continuation that records a mint ends it, and nothing else happens. *)
LEMMA RecordingStep ==
    ASSUME TypeOK, NoDuplicates, NEW c \in Contexts, Records(c)
    PROVE  /\ Unread(c) /\ handler'[c].at # "transfer"
           /\ RecordMint(handler[c].id, handler[c].amount, handler[c].now)
           /\ \A d \in Contexts \ {c} : handler'[d] = handler[d] /\ call'[d] = call[d]
           /\ UNCHANGED <<blocks, clock, loosest, balance>>
  <1>1. /\ handler[c].at = "transfer" /\ Succeeded(call[c])
        /\ RecordMint(handler[c].id, handler[c].amount, handler[c].now)
        /\ FinishWith(c)
    BY DEF Records, RebalanceMinted, TopupMinted, AwaitsTransfer
  <1>2. /\ handler'[c].at # "transfer"
        /\ \A d \in Contexts \ {c} : handler'[d] = handler[d] /\ call'[d] = call[d]
    BY <1>1, ContinueFacts DEF FinishWith, Idle
  <1>3. Unread(c)
    BY <1>1 DEF Unread, Succeeded, NoDuplicates
  <1> QED
    BY <1>1, <1>2, <1>3 DEF FinishWith

(* The log grows only in a step of the ledger. *)
LEMMA LogGrows ==
    ASSUME TypeOK, [Next]_vars, blocks' # blocks
    PROVE  \E c \in Contexts : ExecuteTransfer(c) /\ UNCHANGED <<minter_vars, clock>>
  <1>1. LedgerStep
    BY DEF Next, vars, minter_vars, ledger_vars, Admin, AddReserve, UpdateReserve,
           RemoveReserve, SetGlobalPolicy, ReleaseStuckMintState, Begin, TimerTick,
           RebalanceReserve, RebalanceAllReserves, StartRebalance, ManualTopup, Resume,
           BalanceFailed, NothingToMint, SendMint, RebalanceMinted, RebalanceMintFailed,
           TopupMinted, TopupMintFailed, FinishWith, Trap, DropOrphanReply, Upgrade, Tick
  <1> QED
    BY <1>1 DEF LedgerStep, LedgerAnswer, LedgerFault, LedgerUser, ServeBalance,
                RefuseDuplicate, Reject, LoseReply, Spend, Deposit

(* The mints whose replies are under way, in a step that neither executes  *)
(* nor records one.                                                        *)
KeepsReply(c) ==
    /\ Unread(c)' <=> Unread(c)
    /\ Unread(c) => handler'[c] = handler[c]

(* Without an answer of the ledger there is no new one, *)
LEMMA NoNewReplies ==
    ASSUME TypeOK, CallMatches, [Next]_vars, "same_instant" \notin Environment,
           NEW c \in Contexts, Unread(c)', blocks' = blocks
    PROVE  Unread(c) /\ handler'[c] = handler[c]
  <1> USE DEF Unread
  <1>1. CASE Rests(c)
    BY <1>1 DEF Rests
  <1>2. ~Ends(c) /\ ~Asks(c) /\ ~StartsMint(c)
    BY DEF Ends, Asks, StartsMint, StartsTransfer, Idle
  <1>3. CASE Served(c)
    <2>1. handler'[c] = handler[c]
      BY <1>3 DEF Served
    <2>2. ~RefuseDuplicate(c) /\ ~Reject(c) /\ ~LoseReply(c)
      BY DEF RefuseDuplicate, Reject, LoseReply, Failed, TypeOK, LedgerTypeOK
    <2>3. ~ServeBalance(c)
      BY <2>1 DEF ServeBalance, CallMatches
    <2>4. ~ExecuteTransfer(c)
      <3> SUFFICES ASSUME ExecuteTransfer(c)
                   PROVE  blocks' # blocks
        OBVIOUS
      <3>1. call[c].tx \in Transfer /\ blocks \in Seq(Transfer)
        BY CallType DEF ExecuteTransfer, TypeOK, LedgerTypeOK
      <3>2. blocks' = Append(blocks, call[c].tx)
        BY DEF ExecuteTransfer
      <3> QED
        BY <3>1, <3>2
    <2> QED
      BY <1>3, <2>2, <2>3, <2>4 DEF Served
  <1> QED
    BY <1>1, <1>2, <1>3, ContextSteps

(* and where nothing is lost the present ones stay.                        *)
LEMMA RepliesKept ==
    ASSUME TypeOK, CallMatches, Answered, [Next]_vars, NEW c \in Contexts,
           ~Records(c), blocks' = blocks
    PROVE  KeepsReply(c)
  <1> USE DEF KeepsReply, Unread
  <1>1. CASE Rests(c)
    BY <1>1 DEF Rests
  <1>2. CASE Ends(c) \/ Asks(c)
    <2>1. ~Unread(c)'
      BY <1>2 DEF Ends, Asks, Idle
    <2>2. ASSUME Unread(c)
          PROVE  FALSE
      <3>1. Live(c) /\ handler'[c] # handler[c]
        BY <1>2, <2>2 DEF Live, Ends, Asks, Idle
      <3>2. ~Begin(c) /\ ~(c = Timer /\ TimerTick)
        BY <3>1 DEF Begin, RebalanceReserve, RebalanceAllReserves, StartRebalance,
                    ManualTopup, AdminMayMint, TimerTick, Free
      <3>3. ~Resume(c)
        BY <2>2 DEF Resume, BalanceFailed, NothingToMint, SendMint, AwaitsBalance,
                    RebalanceMintFailed, TopupMintFailed, Records, Failed
      <3>4. ~Trap(c) /\ ~Upgrade
        BY <3>1 DEF Trap, Upgrade, Answered
      <3> QED
        BY <3>1, <3>2, <3>3, <3>4, HandlerSteps
    <2> QED
      BY <2>1, <2>2
  <1>3. CASE StartsMint(c)
    <2>1. ~Unread(c)'
      BY <1>3 DEF StartsMint, StartsTransfer
    <2>2. ~Unread(c)
      BY <1>3 DEF StartsMint, SendMint, AwaitsBalance, TopsUp, ManualTopup, AdminMayMint,
                  Free, Live
    <2> QED
      BY <2>1, <2>2
  <1>4. CASE Served(c)
    <2>1. ~RefuseDuplicate(c) /\ ~LoseReply(c)
      BY DEF RefuseDuplicate, LoseReply, Answered
    <2>2. ~ExecuteTransfer(c)
      <3>1. ASSUME ExecuteTransfer(c)
            PROVE  blocks' # blocks
        <4>1. call[c].tx \in Transfer /\ blocks \in Seq(Transfer)
          BY <3>1, CallType DEF ExecuteTransfer, TypeOK, LedgerTypeOK
        <4>2. blocks' = Append(blocks, call[c].tx)
          BY <3>1 DEF ExecuteTransfer
        <4> QED
          BY <4>1, <4>2
      <3> QED
        BY <3>1
    <2>3. CASE ServeBalance(c)
      <3>1. handler[c].at # "transfer"
        BY <2>3 DEF ServeBalance, CallMatches
      <3> QED
        BY <1>4, <3>1 DEF Served
    <2>4. CASE Reject(c)
      BY <2>4 DEF Reject, Failed, TypeOK, LedgerTypeOK
    <2> QED
      BY <1>4, <2>1, <2>2, <2>3, <2>4 DEF Served
  <1> QED
    BY <1>1, <1>2, <1>3, <1>4, ContextSteps

(* The counters of a reserve stay, start at nothing, or take in a mint. *)
SameCounters(id) ==
    /\ id \in DOMAIN reserves
    /\ reserves'[id].lifetime_minted = reserves[id].lifetime_minted
    /\ reserves'[id].mint_events = reserves[id].mint_events

NoCounters(id) ==
    /\ id \notin DOMAIN reserves
    /\ reserves'[id].lifetime_minted = 0
    /\ reserves'[id].mint_events = NoEvents

LEMMA CounterSteps ==
    ASSUME TypeOK, [Next]_vars, NEW id \in DOMAIN reserves',
           \A c \in Contexts : ~Records(c)
    PROVE  /\ SameCounters(id) \/ NoCounters(id)
           /\ NoCounters(id) => id = next_reserve_id
  <1> USE DEF SameCounters, NoCounters, minter_vars
  <1>1. ASSUME NEW config \in AddArgs, AddReserve(config)
        PROVE  /\ SameCounters(id) \/ NoCounters(id)
               /\ NoCounters(id) => id = next_reserve_id
    BY <1>1 DEF AddReserve, NewRecord, TypeOK
  <1>2. ASSUME NEW r \in DOMAIN reserves, NEW arg \in UpdateArgs, UpdateReserve(r, arg)
        PROVE  SameCounters(id)
    <2>1. /\ reserves' = [reserves EXCEPT ![r] = WithConfig(@, Updated(reserves[r].config, arg))]
          /\ id \in DOMAIN reserves /\ reserves[id] \in ReserveRecord
      BY <1>2 DEF UpdateReserve, TypeOK
    <2> QED
      BY <2>1 DEF WithConfig, ReserveRecord
  <1>3. ASSUME \E r \in DOMAIN reserves : RemoveReserve(r)
        PROVE  SameCounters(id)
    BY <1>3 DEF RemoveReserve
  <1>4. ASSUME reserves' = reserves
        PROVE  SameCounters(id)
    BY <1>4
  <1>5. Admin => \/ reserves' = reserves
                 \/ \E config \in AddArgs : AddReserve(config)
                 \/ \E r \in DOMAIN reserves : \E arg \in UpdateArgs : UpdateReserve(r, arg)
                 \/ \E r \in DOMAIN reserves : RemoveReserve(r)
    BY DEF Admin, SetGlobalPolicy, ReleaseStuckMintState
  <1>6. Admin \/ reserves' = reserves
    BY DEF Next, vars, Begin, TimerTick, RebalanceReserve, RebalanceAllReserves,
           StartRebalance, ManualTopup, Resume, BalanceFailed, NothingToMint, SendMint,
           RebalanceMintFailed, TopupMintFailed, Records, LedgerStep, Trap,
           DropOrphanReply, Upgrade, Tick
  <1> QED
    BY <1>1, <1>2, <1>3, <1>4, <1>5, <1>6

-----------------------------------------------------------------------------
(* What happens to the account of a reserve in a step.                     *)

SameMinted(id) == \A since \in Instants : MintedSince(id, since)' = MintedSince(id, since)

(* What the mint of c adds since an instant. *)
Owed(c, since) == IF handler[c].now >= since THEN handler[c].amount ELSE 0

Kept(id) ==
    /\ SameCounters(id)
    /\ SameMinted(id)
    /\ Unrecorded(id)' = Unrecorded(id)
    /\ \A c \in Unrecorded(id) : handler'[c] = handler[c]

Opened(id) ==
    /\ NoCounters(id)
    /\ \A since \in Instants : MintedSince(id, since)' = 0
    /\ Unrecorded(id)' = {}

Minted(c, id) ==
    /\ SameCounters(id)
    /\ \A since \in Instants :
           MintedSince(id, since)' = MintedSince(id, since) + Owed(c, since)
    /\ Unrecorded(id) = {} /\ Unrecorded(id)' = {c}
    /\ handler'[c] = handler[c]
    /\ call[c].status = "transfer" /\ handler[c].at = "transfer" /\ handler[c].id = id

Recorded(c, id) ==
    /\ id \in DOMAIN reserves
    /\ reserves'[id] = WithMint(reserves[id], handler[c].amount, handler[c].now)
    /\ SameMinted(id)
    /\ Unrecorded(id) = {c} /\ Unrecorded(id)' = {}
    /\ handler[c].at = "transfer"

(* Sums over the log. *)
LEMMA BlocksAreFinite ==
    ASSUME TypeOK
    PROVE  /\ IsFiniteSet(DOMAIN blocks)
           /\ \A i \in DOMAIN blocks : blocks[i] \in Transfer /\ MintedAmounts[i] \in Nat
  <1>1. blocks \in Seq(Transfer)
    BY DEF TypeOK, LedgerTypeOK
  <1>2. DOMAIN blocks = 1..Len(blocks) /\ Len(blocks) \in Nat
    BY <1>1
  <1>3. IsFiniteSet(1..Len(blocks))
    BY <1>2, FS_Interval
  <1>4. \A i \in DOMAIN blocks : blocks[i] \in Transfer
    BY <1>1
  <1> QED
    BY <1>2, <1>3, <1>4 DEF MintedAmounts, Transfer

LEMMA MintedSinceType ==
    ASSUME TypeOK, NEW id, NEW since
    PROVE  MintedSince(id, since) \in Nat
  <1> DEFINE S == {i \in BlocksOf(id) : blocks[i].created_at_time >= since}
  <1>1. S \subseteq DOMAIN blocks
    BY DEF BlocksOf
  <1>2. IsFiniteSet(S) /\ \A i \in S : MintedAmounts[i] \in Nat
    BY <1>1, BlocksAreFinite, FS_Subset
  <1>3. SumFunctionOnSet(MintedAmounts, S) \in Nat
    <2> HIDE DEF S
    <2> QED
      BY <1>2, SumType
  <1> QED
    BY <1>3 DEF MintedSince

LEMMA MintedGrows ==
    ASSUME TypeOK, NEW c \in Contexts, ExecuteTransfer(c), NEW id, NEW since
    PROVE  MintedSince(id, since)' =
               MintedSince(id, since)
                   + IF call[c].tx.memo.id = id /\ call[c].tx.created_at_time >= since
                     THEN call[c].tx.amount ELSE 0
  <1> DEFINE tx == call[c].tx
             n == Len(blocks) + 1
             log == Append(blocks, tx)
             f == [i \in DOMAIN blocks |-> blocks[i].amount]
             g == [i \in DOMAIN log |-> log[i].amount]
             S == {i \in DOMAIN blocks : blocks[i].memo.id = id
                                            /\ blocks[i].created_at_time >= since}
             T == {i \in DOMAIN log : log[i].memo.id = id
                                            /\ log[i].created_at_time >= since}
  <1>1. tx \in Transfer /\ blocks \in Seq(Transfer) /\ blocks' = log
    BY CallType DEF ExecuteTransfer, TypeOK, LedgerTypeOK
  <1>2. /\ n \notin DOMAIN blocks
        /\ DOMAIN log = DOMAIN blocks \cup {n}
        /\ \A i \in DOMAIN blocks : log[i] = blocks[i]
        /\ log[n] = tx
    BY <1>1
  <1>3. /\ MintedSince(id, since) = SumFunctionOnSet(f, S)
        /\ MintedSince(id, since)' = SumFunctionOnSet(g, T)
    <2>1. {i \in BlocksOf(id) : blocks[i].created_at_time >= since} = S
      BY DEF BlocksOf
    <2>2. {i \in BlocksOf(id) : blocks[i].created_at_time >= since}' = T
      BY <1>1 DEF BlocksOf
    <2>3. MintedAmounts = f /\ MintedAmounts' = g
      BY <1>1 DEF MintedAmounts
    <2> HIDE DEF S, T, f, g
    <2> QED
      BY <2>1, <2>2, <2>3 DEF MintedSince
  <1>4. IsFiniteSet(S) /\ n \notin S
    BY <1>2, BlocksAreFinite, FS_Subset
  <1>5. \A i \in S : f[i] = g[i] /\ g[i] \in Nat
    BY <1>2, BlocksAreFinite DEF MintedAmounts
  <1>6. g[n] = tx.amount /\ tx.amount \in Nat
    BY <1>1, <1>2 DEF Transfer
  <1>7. /\ tx.memo.id = id /\ tx.created_at_time >= since => T = S \cup {n}
        /\ ~(tx.memo.id = id /\ tx.created_at_time >= since) => T = S
    BY <1>2
  <1>8. SumFunctionOnSet(f, S) = SumFunctionOnSet(g, S) /\ SumFunctionOnSet(g, S) \in Nat
    <2> HIDE DEF f, g, S
    <2> QED
      BY <1>4, <1>5, SumSame, SumType
  <1>9. SumFunctionOnSet(g, S \cup {n}) = SumFunctionOnSet(g, S) + g[n]
    <2> HIDE DEF f, g, S, n
    <2> QED
      BY <1>4, <1>5, <1>6, SumAdds
  <1>10. CASE tx.memo.id = id /\ tx.created_at_time >= since
    <2>1. MintedSince(id, since)' = MintedSince(id, since) + tx.amount
      BY <1>3, <1>6, <1>7, <1>8, <1>9, <1>10
    <2> QED
      BY <1>10, <2>1
  <1>11. CASE ~(tx.memo.id = id /\ tx.created_at_time >= since)
    <2> DEFINE sum == SumFunctionOnSet(g, S)
    <2>1. MintedSince(id, since)' = sum /\ MintedSince(id, since) = sum /\ sum \in Nat
      <3> HIDE DEF f, g, S, T
      <3> QED
        BY <1>3, <1>7, <1>8, <1>11
    <2> HIDE DEF sum
    <2> QED
      BY <1>11, <2>1
  <1> QED
    BY <1>10, <1>11

LEMMA SameLog ==
    ASSUME blocks' = blocks, NEW id
    PROVE  SameMinted(id)
  BY DEF SameMinted, MintedSince, BlocksOf, MintedAmounts

(* A step that neither executes nor records a mint. *)
LEMMA QuietSteps ==
    ASSUME RefinementInv, Faultless, [Next]_vars, NEW id \in DOMAIN reserves',
           blocks' = blocks, \A c \in Contexts : ~Records(c)
    PROVE  Kept(id) \/ Opened(id)
  <1>1. \A c \in Contexts : KeepsReply(c)
    BY RepliesKept DEF RefinementInv, Faultless, Answered
  <1>2. /\ Unrecorded(id)' = Unrecorded(id)
        /\ \A c \in Unrecorded(id) : handler'[c] = handler[c]
    BY <1>1 DEF KeepsReply, Unread, Unrecorded
  <1>3. CASE SameCounters(id)
    BY <1>2, <1>3, SameLog DEF Kept
  <1>4. CASE NoCounters(id)
    <2>1. id = next_reserve_id
      BY <1>4, CounterSteps DEF RefinementInv
    <2>2. \A i \in DOMAIN blocks : blocks[i].memo.id # id
      BY <2>1 DEF RefinementInv, TypeOK, BlocksHaveIds, AssignedIds
    <2>3. \A since : {i \in BlocksOf(id) : blocks[i].created_at_time >= since} = {}
      BY <2>2 DEF BlocksOf
    <2>4. \A since : MintedSince(id, since) = 0
      BY <2>3, SumOfNothing DEF MintedSince
    <2>5. \A since \in Instants : MintedSince(id, since)' = 0
      BY <2>4, SameLog DEF SameMinted
    <2>6. Unrecorded(id) = {}
      BY <1>4 DEF NoCounters, Unrecorded, RefinementInv, MintInv, HandlerReserveExists, Live
    <2> QED
      BY <1>2, <1>4, <2>5, <2>6 DEF Opened
  <1> QED
    BY <1>3, <1>4, CounterSteps DEF RefinementInv

(* A step that records the mint of c. *)
LEMMA RecordingSteps ==
    ASSUME RefinementInv, Faultless, NoDuplicates, [Next]_vars, NEW id \in DOMAIN reserves',
           NEW c \in Contexts, Records(c)
    PROVE  Kept(id) \/ Recorded(c, id)
  <1>1. /\ Unread(c) /\ handler'[c].at # "transfer"
        /\ RecordMint(handler[c].id, handler[c].amount, handler[c].now)
        /\ \A d \in Contexts \ {c} : handler'[d] = handler[d] /\ call'[d] = call[d]
        /\ blocks' = blocks
    BY RecordingStep DEF RefinementInv
  <1>2. SameMinted(id)
    BY <1>1, SameLog
  <1>3. \A d \in Contexts : Unread(d) => Live(d)
    BY DEF Unread, Live
  <1>4. /\ id \in DOMAIN reserves
        /\ reserves'[id] = IF id = handler[c].id
                           THEN WithMint(reserves[id], handler[c].amount, handler[c].now)
                           ELSE reserves[id]
    BY <1>1 DEF RecordMint
  <1>5. CASE id = handler[c].id
    <2>1. Unrecorded(id) = {c}
      <3>1. c \in Unrecorded(id)
        BY <1>1, <1>5 DEF Unread, Unrecorded
      <3>2. \A d \in Unrecorded(id) : d = c
        BY <1>1, <1>3, <1>5, OneHandler DEF Unread, Unrecorded, RefinementInv
      <3> QED
        BY <3>1, <3>2
    <2>2. Unrecorded(id)' = {}
      <3> SUFFICES ASSUME NEW d \in Contexts, handler'[d].at = "transfer",
                          handler'[d].id = id, call'[d].status = "ok"
                   PROVE  FALSE
        BY DEF Unrecorded
      <3>1. d # c
        BY <1>1
      <3>2. d \in Unrecorded(id)
        BY <1>1, <3>1 DEF Unrecorded
      <3> QED
        BY <2>1, <3>1, <3>2
    <2>3. handler[c].at = "transfer"
      BY <1>1 DEF Unread
    <2> QED
      BY <1>2, <1>4, <1>5, <2>1, <2>2, <2>3 DEF Recorded
  <1>6. CASE id # handler[c].id
    <2>1. SameCounters(id)
      BY <1>4, <1>6 DEF SameCounters
    <2>2. \A d \in Contexts \ {c} : d \in Unrecorded(id)' <=> d \in Unrecorded(id)
      BY <1>1 DEF Unrecorded
    <2>3. c \notin Unrecorded(id) /\ c \notin Unrecorded(id)'
      BY <1>1, <1>6 DEF Unrecorded
    <2>4. Unrecorded(id) \subseteq Contexts /\ Unrecorded(id)' \subseteq Contexts
      BY DEF Unrecorded
    <2>5. Unrecorded(id)' = Unrecorded(id)
      BY <2>2, <2>3, <2>4
    <2> QED
      BY <1>1, <1>2, <2>1, <2>3, <2>4, <2>5 DEF Kept
  <1> QED
    BY <1>5, <1>6

(* A step that executes the mint of c. *)
LEMMA MintingSteps ==
    ASSUME RefinementInv, Faultless, [Next]_vars, NEW id \in DOMAIN reserves',
           NEW c \in Contexts, ExecuteTransfer(c), UNCHANGED <<minter_vars, clock>>
    PROVE  Kept(id) \/ Minted(c, id)
  <1>1. /\ call[c].status = "transfer" /\ handler' = handler /\ reserves' = reserves
        /\ call'[c].status = "ok"
        /\ \A d \in Contexts \ {c} : call'[d] = call[d]
    BY DEF ExecuteTransfer, Reply, minter_vars, RefinementInv, TypeOK, LedgerTypeOK
  <1>2. handler[c].at = "transfer"
    BY <1>1 DEF RefinementInv, TransfersHaveHandlers, Lossy, Losses, Faultless
  <1>3. Sends(handler[c], call[c].tx)
    BY <1>1, <1>2 DEF RefinementInv, CallMatches
  <1>4. /\ call[c].tx.memo.id = handler[c].id
        /\ call[c].tx.amount = handler[c].amount
        /\ call[c].tx.created_at_time = handler[c].now
    BY <1>3 DEF Sends
  <1>5. SameCounters(id)
    BY <1>1 DEF SameCounters
  <1>6. \A since : MintedSince(id, since)' =
            MintedSince(id, since)
                + IF handler[c].id = id THEN Owed(c, since) ELSE 0
    BY <1>4, MintedGrows DEF RefinementInv, Owed
  <1>7. \A d \in Contexts \ {c} : d \in Unrecorded(id)' <=> d \in Unrecorded(id)
    BY <1>1 DEF Unrecorded
  <1>8. c \notin Unrecorded(id) /\ (c \in Unrecorded(id)' <=> handler[c].id = id)
    BY <1>1, <1>2 DEF Unrecorded
  <1>9. Unrecorded(id) \subseteq Contexts /\ Unrecorded(id)' \subseteq Contexts
    BY DEF Unrecorded
  <1>10. CASE handler[c].id = id
    <2>1. Unrecorded(id) = {}
      <3>1. ASSUME NEW d \in Unrecorded(id)
            PROVE  d = c
        BY <1>2, <1>10, OneHandler DEF Unrecorded, Live, RefinementInv
      <3> QED
        BY <1>8, <3>1
    <2>2. Unrecorded(id)' = {c}
      BY <1>7, <1>8, <1>9, <1>10, <2>1
    <2>3. \A since : MintedSince(id, since)' = MintedSince(id, since) + Owed(c, since)
      BY <1>6, <1>10
    <2> QED
      BY <1>1, <1>2, <1>5, <1>10, <2>1, <2>2, <2>3 DEF Minted
  <1>11. CASE handler[c].id # id
    <2>1. Unrecorded(id)' = Unrecorded(id)
      BY <1>7, <1>8, <1>9, <1>11
    <2>2. SameMinted(id)
      BY <1>6, <1>11, MintedSinceType DEF SameMinted, RefinementInv
    <2> QED
      BY <1>1, <1>5, <2>1, <2>2 DEF Kept
  <1> QED
    BY <1>10, <1>11

LEMMA AccountSteps ==
    ASSUME RefinementInv, Faultless, NoDuplicates, [Next]_vars, NEW id \in DOMAIN reserves'
    PROVE  \/ Kept(id) \/ Opened(id)
           \/ \E c \in Contexts : Minted(c, id) \/ Recorded(c, id)
  <1>1. ASSUME NEW c \in Contexts, Records(c)
        PROVE  Kept(id) \/ Recorded(c, id)
    BY <1>1, RecordingSteps
  <1>2. ASSUME blocks' # blocks
        PROVE  \E c \in Contexts : Kept(id) \/ Minted(c, id)
    <2>1. PICK c \in Contexts : ExecuteTransfer(c) /\ UNCHANGED <<minter_vars, clock>>
      BY <1>2, LogGrows DEF RefinementInv
    <2> QED
      BY <2>1, MintingSteps
  <1>3. ASSUME blocks' = blocks, \A c \in Contexts : ~Records(c)
        PROVE  Kept(id) \/ Opened(id)
    BY <1>3, QuietSteps
  <1> QED
    BY <1>1, <1>2, <1>3

-----------------------------------------------------------------------------
(* The lifetime counters.  Nothing here relies on the locks: mints may     *)
(* overlap, and every continuation adds to the counter it finds.           *)

HandlersHaveIds == \A c \in Contexts : Live(c) => handler[c].id \in AssignedIds

FewHandlers == IsFiniteSet({c \in Contexts : Live(c)})

LEMMA HandlersHaveIdsStep ==
    ASSUME TypeOK, HandlersHaveIds, [Next]_vars
    PROVE  HandlersHaveIds'
  <1> SUFFICES ASSUME NEW c \in Contexts, handler'[c].at # "idle"
               PROVE  handler'[c].id \in AssignedIds'
    BY DEF HandlersHaveIds, Live
  <1>1. AssignedIds \subseteq AssignedIds'
    BY IdsGrow DEF AssignedIds, TypeOK
  <1>2. CASE handler'[c] = handler[c]
    BY <1>1, <1>2 DEF HandlersHaveIds, Live
  <1>3. DOMAIN reserves \subseteq AssignedIds
    BY DEF TypeOK, AssignedIds
  <1>4. CASE Asks(c)
    BY <1>1, <1>3, <1>4 DEF Asks
  <1>5. ASSUME SendMint(c)
        PROVE  handler'[c].id \in AssignedIds
    <2>1. handler'[c].id = handler[c].id /\ Live(c)
      BY <1>5, RebalanceSends DEF SendMint, AwaitsBalance, Live
    <2> QED
      BY <2>1 DEF HandlersHaveIds
  <1>6. ASSUME TopsUp(c)
        PROVE  handler'[c].id \in AssignedIds
    BY <1>3, <1>6 DEF TopsUp
  <1>7. CASE StartsMint(c)
    BY <1>1, <1>5, <1>6, <1>7 DEF StartsMint
  <1> QED
    BY <1>2, <1>4, <1>7, ContextSteps DEF Rests, Ends, Served, Idle

LEMMA TransfersHaveIdsStep ==
    ASSUME TypeOK, TransfersHaveIds, HandlersHaveIds', [Next]_vars
    PROVE  TransfersHaveIds'
  <1> SUFFICES ASSUME NEW c \in Contexts, call'[c].status = "transfer"
               PROVE  call'[c].tx.memo.id \in AssignedIds'
    BY DEF TransfersHaveIds
  <1>1. AssignedIds \subseteq AssignedIds'
    BY IdsGrow DEF AssignedIds, TypeOK
  <1>2. CASE call'[c] = call[c]
    BY <1>1, <1>2 DEF TransfersHaveIds
  <1>3. CASE StartsMint(c)
    <2>1. Sends(handler'[c], call'[c].tx) /\ handler'[c].at = "transfer"
      BY <1>3 DEF StartsMint, StartsTransfer
    <2>2. handler'[c].id \in AssignedIds'
      BY <2>1 DEF HandlersHaveIds, Live
    <2> QED
      BY <2>1, <2>2 DEF Sends
  <1>4. CASE Served(c)
    <2>1. ~(\/ ServeBalance(c) \/ ExecuteTransfer(c) \/ RefuseDuplicate(c)
            \/ Reject(c) \/ LoseReply(c))
      BY DEF ServeBalance, ExecuteTransfer, RefuseDuplicate, Reject, LoseReply, Reply,
             Failed, TypeOK, LedgerTypeOK
    <2> QED
      BY <1>4, <2>1 DEF Served
  <1> QED
    BY <1>2, <1>3, <1>4, ContextSteps DEF Rests, Ends, Asks, NoCall

(* A step starts one handler at most. *)
LEMMA FewHandlersStep ==
    ASSUME TypeOK, FewHandlers, [Next]_vars
    PROVE  FewHandlers'
  <1> DEFINE before == {c \in Contexts : handler[c].at # "idle"}
             after == {c \in Contexts : handler'[c].at # "idle"}
  <1>1. IsFiniteSet(before)
    BY DEF FewHandlers, Live
  <1>2. CASE after \subseteq before
    BY <1>1, <1>2, FS_Subset DEF FewHandlers, Live
  <1>3. ASSUME NEW d \in Contexts, d \in after, d \notin before
        PROVE  IsFiniteSet(after)
    <2>1. handler'[d] # handler[d] /\ ~Live(d)
      BY <1>3 DEF Live
    <2>2. ~Resume(d) /\ ~Trap(d) /\ ~Upgrade
      <3>1. handler'[d] # Idle
        BY <1>3 DEF Idle
      <3>2. Resume(d) => Live(d)
        BY DEF Resume, BalanceFailed, NothingToMint, SendMint, RebalanceMinted,
               RebalanceMintFailed, TopupMinted, TopupMintFailed, AwaitsBalance,
               AwaitsTransfer, Live
      <3> QED
        BY <2>1, <3>1, <3>2 DEF Trap, Upgrade, TypeOK
    <2>3. Begin(d) \/ (d = Timer /\ TimerTick)
      BY <2>1, <2>2, HandlerSteps
    <2>4. \A c \in Contexts \ {d} : handler'[c] = handler[c]
      <3>1. ASSUME NEW queue, StartRebalance(d, queue)
            PROVE  \A c \in Contexts \ {d} : handler'[c] = handler[c]
        BY <3>1, ContinueFacts DEF StartRebalance
      <3> QED
        BY <2>3, <3>1, TopupSends
        DEF Begin, RebalanceReserve, RebalanceAllReserves, TimerTick
    <2>5. after \subseteq before \cup {d}
      BY <2>4
    <2>6. IsFiniteSet(before \cup {d})
      BY <1>1, FS_AddElement
    <2> HIDE DEF before, after
    <2> QED
      BY <2>5, <2>6, FS_Subset
  <1>4. IsFiniteSet(after)
    BY <1>2, <1>3 DEF FewHandlers, Live
  <1> QED
    BY <1>4 DEF FewHandlers, Live

(* What the minter has counted for a reserve, and what it has still to.    *)
AmountOf == [c \in Contexts |-> handler[c].amount]

Outstanding(id) == SumFunctionOnSet(AmountOf, Unrecorded(id))

TotalInv ==
    /\ TypeOK
    /\ CallMatches
    /\ TransfersHaveHandlers
    /\ HandlersHaveIds
    /\ TransfersHaveIds
    /\ BlocksHaveIds
    /\ FewHandlers
    /\ NoDuplicates

LEMMA RepliesAreFinite ==
    ASSUME TypeOK, FewHandlers, NEW id
    PROVE  /\ IsFiniteSet(Unrecorded(id))
           /\ \A c \in Unrecorded(id) : AmountOf[c] \in Nat /\ c \in Contexts
           /\ Outstanding(id) \in Nat
  <1>1. Unrecorded(id) \subseteq {c \in Contexts : Live(c)}
    BY DEF Unrecorded, Live
  <1>2. IsFiniteSet(Unrecorded(id))
    BY <1>1, FS_Subset DEF FewHandlers
  <1>3. \A c \in Unrecorded(id) : AmountOf[c] \in Nat /\ c \in Contexts
    BY TransferHandlerType DEF Unrecorded, AmountOf
  <1>4. Outstanding(id) \in Nat
    BY <1>2, <1>3, SumType DEF Outstanding
  <1> QED
    BY <1>2, <1>3, <1>4

LEMMA OutstandingSum ==
    ASSUME TypeOK, FewHandlers, NEW id
    PROVE  SumFunction([c \in Unrecorded(id) |-> handler[c].amount]) = Outstanding(id)
  <1> DEFINE amounts == [c \in Unrecorded(id) |-> handler[c].amount]
  <1>1. SumFunction(amounts) = SumFunctionOnSet(amounts, Unrecorded(id))
    BY DEF SumFunction
  <1>2. \A c \in Unrecorded(id) : amounts[c] = AmountOf[c]
    BY DEF AmountOf, Unrecorded
  <1>3. IsFiniteSet(Unrecorded(id))
    BY RepliesAreFinite
  <1> HIDE DEF amounts
  <1>4. SumFunctionOnSet(amounts, Unrecorded(id)) = SumFunctionOnSet(AmountOf, Unrecorded(id))
    BY <1>2, <1>3, SumSame
  <1> QED
    BY <1>1, <1>4 DEF amounts, Outstanding

(* Replies that stay owe what they owed. *)
LEMMA SameOutstanding ==
    ASSUME TypeOK, FewHandlers, NEW id, Unrecorded(id)' = Unrecorded(id),
           \A c \in Unrecorded(id) : handler'[c] = handler[c]
    PROVE  Outstanding(id)' = Outstanding(id)
  <1> DEFINE after == [c \in Contexts |-> handler'[c].amount]
  <1>1. \A c \in Unrecorded(id) : after[c] = AmountOf[c]
    BY RepliesAreFinite DEF AmountOf
  <1>2. Outstanding(id)' = SumFunctionOnSet(after, Unrecorded(id))
    BY DEF Outstanding, AmountOf
  <1> HIDE DEF after
  <1> QED
    BY <1>1, <1>2, RepliesAreFinite, SumSame DEF Outstanding

(* What the minter has counted for a reserve, and will when the replies    *)
(* under way arrive.                                                       *)
Booked(id) == reserves[id].lifetime_minted + Outstanding(id)

LEMMA BookedType ==
    ASSUME TypeOK, FewHandlers, NEW id \in DOMAIN reserves
    PROVE  /\ reserves[id].lifetime_minted \in Nat /\ Outstanding(id) \in Nat
           /\ Booked(id) \in Nat /\ MintedSince(id, 0) \in Nat
  <1>1. reserves[id].lifetime_minted \in Nat
    BY DEF TypeOK, ReserveRecord
  <1> QED
    BY <1>1, RepliesAreFinite, MintedSinceType DEF Booked

(* A continuation moves the amount of its mint into the counter. *)
LEMMA RecordingBooks ==
    ASSUME TotalInv, [Next]_vars, NEW c \in Contexts, Records(c), NEW id \in DOMAIN reserves'
    PROVE  /\ id \in DOMAIN reserves
           /\ Booked(id)' = Booked(id) /\ MintedSince(id, 0)' = MintedSince(id, 0)
  <1> USE DEF TotalInv
  <1>1. /\ Unread(c) /\ handler'[c].at # "transfer"
        /\ RecordMint(handler[c].id, handler[c].amount, handler[c].now)
        /\ \A d \in Contexts \ {c} : handler'[d] = handler[d] /\ call'[d] = call[d]
        /\ blocks' = blocks
    BY RecordingStep
  <1>2. MintedSince(id, 0)' = MintedSince(id, 0)
    BY <1>1, SameLog, MaxTimeAssumption DEF SameMinted, Instants
  <1>3. /\ id \in DOMAIN reserves
        /\ reserves'[id] = IF id = handler[c].id
                           THEN WithMint(reserves[id], handler[c].amount, handler[c].now)
                           ELSE reserves[id]
    BY <1>1 DEF RecordMint
  <1>4. reserves[id].lifetime_minted \in Nat /\ reserves[id] \in ReserveRecord
    BY <1>3, BookedType DEF TypeOK
  <1>5. Unrecorded(id) \subseteq Contexts /\ Unrecorded(id)' \subseteq Contexts
    BY DEF Unrecorded
  <1>6. \A d \in Contexts \ {c} : d \in Unrecorded(id)' <=> d \in Unrecorded(id)
    BY <1>1 DEF Unrecorded
  <1>7. c \notin Unrecorded(id)' /\ (c \in Unrecorded(id) <=> handler[c].id = id)
    BY <1>1 DEF Unrecorded, Unread
  <1>8. CASE id # handler[c].id
    <2>1. Unrecorded(id)' = Unrecorded(id)
      BY <1>5, <1>6, <1>7, <1>8
    <2>2. Outstanding(id)' = Outstanding(id)
      BY <1>1, <1>5, <1>7, <1>8, <2>1, SameOutstanding
    <2> QED
      BY <1>2, <1>3, <1>8, <2>2 DEF Booked
  <1>9. CASE id = handler[c].id
    <2> DEFINE before == Unrecorded(id)
               rest == before \ {c}
               after == [d \in Contexts |-> handler'[d].amount]
    <2>1. Unrecorded(id)' = rest /\ c \in before
      BY <1>5, <1>6, <1>7, <1>9
    <2>2. IsFiniteSet(before) /\ \A d \in before : AmountOf[d] \in Nat
      BY RepliesAreFinite
    <2>3. \A d \in rest : after[d] = AmountOf[d]
      BY <1>1, <1>5 DEF AmountOf
    <2>4. Outstanding(id)' = SumFunctionOnSet(after, rest)
      BY <2>1 DEF Outstanding, AmountOf
    <2>5. /\ handler[c].amount \in Nat /\ handler[c].now \in Instants
          /\ AmountOf[c] = handler[c].amount
      BY <1>1, TransferHandlerType DEF Unread, AmountOf
    <2>6. reserves'[id].lifetime_minted = reserves[id].lifetime_minted + handler[c].amount
      <3>1. reserves'[id] = WithMint(reserves[id], handler[c].amount, handler[c].now)
        BY <1>3, <1>9
      <3> QED
        BY <1>4, <2>5, <3>1, WithMintType
    <2> HIDE DEF before, rest, after
    <2>7. IsFiniteSet(rest) /\ \A d \in rest : AmountOf[d] \in Nat
      BY <2>2, FS_RemoveElement DEF rest
    <2>8. Outstanding(id)' = SumFunctionOnSet(AmountOf, rest)
      BY <2>3, <2>4, <2>7, SumSame
    <2>9. SumFunctionOnSet(AmountOf, before) = AmountOf[c] + SumFunctionOnSet(AmountOf, rest)
      BY <2>1, <2>2, SumTakes DEF rest
    <2>10. SumFunctionOnSet(AmountOf, rest) \in Nat
      BY <2>7, SumType
    <2> DEFINE remaining == SumFunctionOnSet(AmountOf, rest)
    <2>11. Outstanding(id) = handler[c].amount + remaining
      BY <2>5, <2>9 DEF Outstanding, before
    <2> HIDE DEF remaining
    <2>12. Outstanding(id)' = remaining /\ remaining \in Nat
      BY <2>8, <2>10 DEF remaining
    <2>13. Booked(id)' = Booked(id)
      BY <1>4, <2>5, <2>6, <2>11, <2>12 DEF Booked
    <2> QED
      BY <1>2, <1>3, <2>13
  <1> QED
    BY <1>8, <1>9

(* The ledger's mint is outstanding until its continuation runs, unless    *)
(* its handler is lost already.                                            *)
LEMMA MintingBooks ==
    ASSUME TotalInv, [Next]_vars, NEW c \in Contexts, NEW id \in DOMAIN reserves',
           ExecuteTransfer(c), UNCHANGED <<minter_vars, clock>>
    PROVE  /\ id \in DOMAIN reserves
           /\ \E amount, lost \in Nat :
                  /\ Booked(id)' = Booked(id) + amount
                  /\ MintedSince(id, 0)' = MintedSince(id, 0) + amount + lost
                  /\ lost # 0 => Lossy
  <1> USE DEF TotalInv
  <1>1. /\ call[c].status = "transfer" /\ handler' = handler /\ reserves' = reserves
        /\ call'[c].status = "ok" /\ id \in DOMAIN reserves
        /\ \A d \in Contexts \ {c} : call'[d] = call[d]
    BY DEF ExecuteTransfer, Reply, minter_vars, TypeOK, LedgerTypeOK
  <1>2. Booked(id) \in Nat /\ MintedSince(id, 0) \in Nat
    BY <1>1, BookedType
  <1>3. /\ reserves[id].lifetime_minted \in Nat /\ Outstanding(id) \in Nat
        /\ reserves'[id].lifetime_minted = reserves[id].lifetime_minted
    BY <1>1, BookedType
  <1>4. Unrecorded(id) \subseteq Contexts /\ Unrecorded(id)' \subseteq Contexts
    BY DEF Unrecorded
  <1>5. \A d \in Contexts \ {c} : d \in Unrecorded(id)' <=> d \in Unrecorded(id)
    BY <1>1 DEF Unrecorded
  <1>6. /\ c \notin Unrecorded(id)
        /\ c \in Unrecorded(id)' <=> handler[c].at = "transfer" /\ handler[c].id = id
    BY <1>1 DEF Unrecorded
  <1>7. PICK amount \in Nat :
            /\ MintedSince(id, 0)' = MintedSince(id, 0) + amount
            /\ amount = IF call[c].tx.memo.id = id THEN call[c].tx.amount ELSE 0
    <2>1. call[c].tx \in Transfer
      BY <1>1, CallType DEF TypeOK, LedgerTypeOK
    <2>2. call[c].tx.amount \in Nat /\ call[c].tx.created_at_time >= 0
      BY <2>1, MaxTimeAssumption DEF Transfer, Instants
    <2> QED
      BY <2>2, MintedGrows
  <1>8. CASE c \notin Unrecorded(id)'
    <2>1. Unrecorded(id)' = Unrecorded(id)
      BY <1>4, <1>5, <1>6, <1>8
    <2>2. Outstanding(id)' = Outstanding(id)
      BY <1>1, <2>1, SameOutstanding
    <2>3. Booked(id)' = Booked(id) + 0
      BY <1>2, <1>3, <2>2 DEF Booked
    <2>4. amount # 0 => Lossy
      <3> SUFFICES ASSUME call[c].tx.memo.id = id, ~Lossy
                   PROVE  FALSE
        BY <1>7
      <3>1. handler[c].at = "transfer"
        BY <1>1 DEF TransfersHaveHandlers
      <3>2. Sends(handler[c], call[c].tx)
        BY <1>1, <3>1 DEF CallMatches
      <3> QED
        BY <1>6, <1>8, <3>1, <3>2 DEF Sends
    <2>5. MintedSince(id, 0)' = MintedSince(id, 0) + 0 + amount
      BY <1>2, <1>7
    <2> QED
      BY <1>1, <2>3, <2>4, <2>5
  <1>9. CASE c \in Unrecorded(id)'
    <2> DEFINE before == Unrecorded(id)
    <2>1. handler[c].at = "transfer" /\ handler[c].id = id
      BY <1>6, <1>9
    <2>2. Sends(handler[c], call[c].tx)
      BY <1>1, <2>1 DEF CallMatches
    <2>3. amount = handler[c].amount
      BY <1>7, <2>1, <2>2 DEF Sends
    <2>4. Unrecorded(id)' = before \cup {c} /\ c \notin before
      BY <1>4, <1>5, <1>6, <1>9
    <2>5. Outstanding(id)' = SumFunctionOnSet(AmountOf, before \cup {c})
      BY <1>1, <2>4 DEF Outstanding, AmountOf
    <2>6. IsFiniteSet(before) /\ \A d \in before : AmountOf[d] \in Nat
      BY RepliesAreFinite
    <2>7. AmountOf[c] = amount
      BY <2>3 DEF AmountOf
    <2> HIDE DEF before
    <2>8. Outstanding(id)' = SumFunctionOnSet(AmountOf, before) + AmountOf[c]
      BY <2>4, <2>5, <2>6, <2>7, SumAdds
    <2>9. Outstanding(id)' = Outstanding(id) + amount
      BY <2>7, <2>8 DEF Outstanding, before
    <2>10. Booked(id)' = Booked(id) + amount
      BY <1>3, <2>9 DEF Booked
    <2>11. MintedSince(id, 0)' = MintedSince(id, 0) + amount + 0
      BY <1>2, <1>7
    <2> QED
      BY <1>1, <2>10, <2>11
  <1> QED
    BY <1>8, <1>9

(* Any other step moves nothing, loses replies, or registers a reserve     *)
(* nobody minted to.                                                       *)
LEMMA QuietBooks ==
    ASSUME TotalInv, [Next]_vars, "same_instant" \notin Environment, blocks' = blocks,
           \A c \in Contexts : ~Records(c), NEW id \in DOMAIN reserves'
    PROVE  /\ MintedSince(id, 0)' = MintedSince(id, 0)
           /\ \/ /\ id \in DOMAIN reserves
                 /\ Booked(id)' \in Nat /\ Booked(id)' <= Booked(id)
                 /\ Answered => Booked(id)' = Booked(id)
              \/ Booked(id)' = 0 /\ MintedSince(id, 0) = 0
  <1> USE DEF TotalInv
  <1> DEFINE before == Unrecorded(id)
             kept == {c \in Contexts : handler'[c].at = "transfer" /\ handler'[c].id = id
                                           /\ call'[c].status = "ok"}
             after == [c \in Contexts |-> handler'[c].amount]
  <1>1. kept \subseteq before /\ \A c \in kept : after[c] = AmountOf[c]
    BY NoNewReplies DEF Unread, Unrecorded, AmountOf
  <1>2. Answered => kept = before
    <2> SUFFICES ASSUME Answered
                 PROVE  before \subseteq kept
      BY <1>1
    <2>1. \A c \in Contexts : KeepsReply(c)
      BY RepliesKept
    <2> QED
      BY <2>1 DEF KeepsReply, Unread, Unrecorded
  <1>3. Outstanding(id)' = SumFunctionOnSet(after, kept)
    BY DEF Outstanding, AmountOf, Unrecorded
  <1>4. /\ IsFiniteSet(before) /\ Outstanding(id) \in Nat
        /\ \A c \in before : AmountOf[c] \in Nat
    BY RepliesAreFinite
  <1>5. Outstanding(id) = SumFunctionOnSet(AmountOf, before)
    BY DEF Outstanding
  <1> HIDE DEF before, kept, after
  <1>6. IsFiniteSet(kept) /\ \A c \in kept : AmountOf[c] \in Nat
    BY <1>1, <1>4, FS_Subset
  <1>7. Outstanding(id)' = SumFunctionOnSet(AmountOf, kept)
    BY <1>1, <1>3, <1>6, SumSame
  <1>8. Outstanding(id)' \in Nat /\ Outstanding(id)' <= Outstanding(id)
    BY <1>1, <1>4, <1>5, <1>6, <1>7, SumOfPart, SumType
  <1>9. Answered => Outstanding(id)' = Outstanding(id)
    BY <1>2, <1>5, <1>7
  <1>10. MintedSince(id, 0)' = MintedSince(id, 0)
    BY SameLog, MaxTimeAssumption DEF SameMinted, Instants
  <1>11. CASE SameCounters(id)
    <2>1. /\ reserves'[id].lifetime_minted = reserves[id].lifetime_minted
          /\ id \in DOMAIN reserves
      BY <1>11 DEF SameCounters
    <2>2. reserves[id].lifetime_minted \in Nat
      BY <2>1, BookedType
    <2> QED
      BY <1>4, <1>8, <1>9, <1>10, <2>1, <2>2 DEF Booked
  <1>12. CASE NoCounters(id)
    <2>1. id \notin AssignedIds
      BY <1>12, CounterSteps DEF TypeOK, AssignedIds
    <2>2. {i \in BlocksOf(id) : blocks[i].created_at_time >= 0} = {} /\ before = {}
      BY <2>1 DEF BlocksHaveIds, BlocksOf, HandlersHaveIds, Unrecorded, Live, before
    <2>3. MintedSince(id, 0) = 0 /\ Outstanding(id) = 0
      BY <1>5, <2>2, SumOfNothing DEF MintedSince
    <2>4. reserves'[id].lifetime_minted = 0 /\ Outstanding(id)' = 0
      BY <1>8, <1>12, <2>3 DEF NoCounters
    <2> QED
      BY <1>10, <2>3, <2>4 DEF Booked
  <1> QED
    BY <1>11, <1>12, CounterSteps

LEMMA TotalInvStep ==
    ASSUME TotalInv, TypeOK', "same_instant" \notin Environment, [Next]_vars
    PROVE  TotalInv'
  <1> USE DEF TotalInv
  <1>1. CallMatches' /\ TransfersHaveHandlers' /\ HandlersHaveIds'
    BY CallMatchesStep, TransfersHaveHandlersStep, HandlersHaveIdsStep
  <1>2. TransfersHaveIds' /\ BlocksHaveIds' /\ FewHandlers' /\ NoDuplicates'
    BY <1>1, TransfersHaveIdsStep, BlocksHaveIdsStep, FewHandlersStep, NoDuplicatesStep
  <1> QED
    BY <1>1, <1>2

LEMMA TotalInvariant ==
    ASSUME "same_instant" \notin Environment
    PROVE  Spec => []TotalInv
  <1> DEFINE J == /\ CallMatches /\ TransfersHaveHandlers /\ HandlersHaveIds
                  /\ TransfersHaveIds /\ BlocksHaveIds /\ FewHandlers /\ NoDuplicates
  <1>1. Init => J
    <2> SUFFICES ASSUME Init
                 PROVE  J
      OBVIOUS
    <2>1. {c \in Contexts : Live(c)} = {}
      BY DEF Init, Live, Idle
    <2>2. FewHandlers
      BY <2>1, FS_EmptySet DEF FewHandlers
    <2> QED
      BY <2>2 DEF Init, LedgerInit, CallMatches, TransfersHaveHandlers, HandlersHaveIds,
                  TransfersHaveIds, BlocksHaveIds, NoDuplicates, Live, Idle, NoCall
  <1>2. TypeOK /\ J <=> TotalInv
    BY DEF TotalInv
  <1>3. TotalInv /\ TypeOK' /\ [Next]_vars => TotalInv'
    BY TotalInvStep
  <1> HIDE DEF J
  <1> QED
    BY <1>1, <1>2, <1>3, TypeCorrect, PTL DEF Spec

(* The counter of a reserve and the replies under way to it are never more *)
(* than the ledger minted to it: RecordMint runs once for each mint and    *)
(* with its amount,                                                        *)
CountedWasMinted == \A id \in DOMAIN reserves : Booked(id) <= MintedSince(id, 0)

(* and they are all of it where every reply reaches its handler.           *)
MintedIsCounted == \A id \in DOMAIN reserves : Booked(id) = MintedSince(id, 0)

LEMMA BooksStep ==
    ASSUME TotalInv, TypeOK', FewHandlers', "same_instant" \notin Environment, [Next]_vars
    PROVE  /\ CountedWasMinted => CountedWasMinted'
           /\ Answered /\ MintedIsCounted => MintedIsCounted'
  <1> SUFFICES ASSUME NEW id \in DOMAIN reserves'
               PROVE  /\ (id \in DOMAIN reserves => Booked(id) <= MintedSince(id, 0))
                             => Booked(id)' <= MintedSince(id, 0)'
                      /\ Answered /\ (id \in DOMAIN reserves => Booked(id) = MintedSince(id, 0))
                             => Booked(id)' = MintedSince(id, 0)'
    BY DEF CountedWasMinted, MintedIsCounted
  <1>1. id \in DOMAIN reserves => Booked(id) \in Nat /\ MintedSince(id, 0) \in Nat
    BY BookedType DEF TotalInv
  <1>2. ASSUME NEW c \in Contexts, Records(c)
        PROVE  /\ id \in DOMAIN reserves
               /\ Booked(id)' = Booked(id) /\ MintedSince(id, 0)' = MintedSince(id, 0)
    BY <1>2, RecordingBooks
  <1>3. ASSUME blocks' # blocks
        PROVE  /\ id \in DOMAIN reserves
               /\ \E amount, lost \in Nat :
                      /\ Booked(id)' = Booked(id) + amount
                      /\ MintedSince(id, 0)' = MintedSince(id, 0) + amount + lost
                      /\ lost # 0 => Lossy
    <2>1. PICK c \in Contexts : ExecuteTransfer(c) /\ UNCHANGED <<minter_vars, clock>>
      BY <1>3, LogGrows DEF TotalInv
    <2> QED
      BY <2>1, MintingBooks
  <1>4. Answered => ~Lossy
    BY DEF Answered, Lossy, Losses
  <1>5. CASE \E c \in Contexts : Records(c)
    BY <1>2, <1>5
  <1>6. CASE blocks' # blocks
    <2>1. PICK amount \in Nat, lost \in Nat :
              /\ Booked(id)' = Booked(id) + amount
              /\ MintedSince(id, 0)' = MintedSince(id, 0) + amount + lost
              /\ lost # 0 => Lossy
      BY <1>3, <1>6
    <2>2. id \in DOMAIN reserves
      BY <1>3, <1>6
    <2> DEFINE booked == Booked(id)
               minted == MintedSince(id, 0)
    <2>3. booked \in Nat /\ minted \in Nat
      BY <1>1, <2>2
    <2> HIDE DEF booked, minted
    <2>4. booked <= minted => booked + amount <= minted + amount + lost
      BY <2>3
    <2>5. Answered /\ booked = minted => booked + amount = minted + amount + lost
      BY <1>4, <2>1, <2>3
    <2> QED
      BY <2>1, <2>2, <2>4, <2>5 DEF booked, minted
  <1>7. CASE blocks' = blocks /\ \A c \in Contexts : ~Records(c)
    <2>1. /\ MintedSince(id, 0)' = MintedSince(id, 0)
          /\ \/ /\ id \in DOMAIN reserves
                /\ Booked(id)' \in Nat /\ Booked(id)' <= Booked(id)
                /\ Answered => Booked(id)' = Booked(id)
             \/ Booked(id)' = 0 /\ MintedSince(id, 0) = 0
      BY <1>7, QuietBooks
    <2> QED
      BY <1>1, <2>1
  <1> QED
    BY <1>5, <1>6, <1>7

(* Nothing is counted that was not minted: the counters and the replies    *)
(* under way never exceed the log, whatever is lost, trapped or released   *)
(* by hand.  Only a duplicate answer of the ledger, which two calls of one *)
(* instant can get, makes the minter count a mint twice.                   *)
THEOREM NothingIsInvented ==
    ASSUME "same_instant" \notin Environment
    PROVE  Spec => []CountedWasMinted
  <1>1. Init => CountedWasMinted
    BY DEF Init, CountedWasMinted
  <1>2. TotalInv /\ TotalInv' /\ CountedWasMinted /\ [Next]_vars => CountedWasMinted'
    BY BooksStep DEF TotalInv
  <1> QED
    BY <1>1, <1>2, TotalInvariant, PTL DEF Spec

(* Where every reply reaches its caller, lifetime_minted is what the ledger *)
(* minted to the reserve but for the mints whose replies are under way,    *)
(* even where a lock was released under a mint and mints overlap.          *)
THEOREM LifetimeIsMinted ==
    ASSUME Answered
    PROVE  Spec => []LedgerAgreement
  <1>1. "same_instant" \notin Environment
    BY DEF Answered
  <1>2. Init => MintedIsCounted
    BY DEF Init, MintedIsCounted
  <1>3. TotalInv /\ TotalInv' /\ MintedIsCounted /\ [Next]_vars => MintedIsCounted'
    BY <1>1, BooksStep DEF TotalInv
  <1>4. TotalInv /\ MintedIsCounted => LedgerAgreement
    BY OutstandingSum DEF TotalInv, MintedIsCounted, Booked, LedgerAgreement
  <1>5. Spec => []TotalInv
    BY <1>1, TotalInvariant
  <1> QED
    BY <1>2, <1>3, <1>4, <1>5, PTL DEF Spec

(* Under a lock one mint at most is outstanding. *)
LEMMA OneOutstanding ==
    ASSUME RefinementInv, LedgerAgreement, NEW id \in DOMAIN reserves
    PROVE  /\ Unrecorded(id) = {} => MintedSince(id, 0) = reserves[id].lifetime_minted
           /\ \A c \in Unrecorded(id) :
                  MintedSince(id, 0) = reserves[id].lifetime_minted + handler[c].amount
  <1>1. reserves[id].lifetime_minted \in Nat
    BY DEF RefinementInv, TypeOK, ReserveRecord
  <1>2. \A c, d \in Unrecorded(id) : c = d
    BY OneHandler DEF Unrecorded, RefinementInv, Live
  <1> DEFINE amounts == [c \in Unrecorded(id) |-> handler[c].amount]
  <1>3. SumFunctionOnSet(amounts, Unrecorded(id)) + reserves[id].lifetime_minted
            = MintedSince(id, 0)
    <2>1. reserves[id].lifetime_minted + SumFunctionOnSet(amounts, Unrecorded(id))
              = MintedSince(id, 0)
      BY DEF LedgerAgreement, SumFunction
    <2>2. SumFunctionOnSet(amounts, Unrecorded(id)) \in Nat
      <3>1. IsFiniteSet(Unrecorded(id))
        <4>1. Unrecorded(id) = {} \/ \E c : Unrecorded(id) = {c}
          BY <1>2
        <4>2. \A c : IsFiniteSet({c})
          BY FS_Singleton
        <4> QED
          BY <4>1, <4>2, FS_EmptySet
      <3>2. \A c \in Unrecorded(id) : amounts[c] \in Nat
        BY TransferHandlerType DEF Unrecorded, RefinementInv
      <3> HIDE DEF amounts
      <3> QED
        BY <3>1, <3>2, SumType
    <2> HIDE DEF amounts
    <2> QED
      BY <1>1, <2>1, <2>2
  <1>4. CASE Unrecorded(id) = {}
    BY <1>1, <1>3, <1>4, SumOfNothing
  <1>5. ASSUME NEW c \in Unrecorded(id)
        PROVE  MintedSince(id, 0) = reserves[id].lifetime_minted + handler[c].amount
    <2>1. Unrecorded(id) = {c} /\ Unrecorded(id) \ {c} = {}
      BY <1>2
    <2>2. amounts[c] = handler[c].amount /\ handler[c].amount \in Nat
      BY TransferHandlerType DEF Unrecorded, RefinementInv
    <2>3. \A d \in {c} : amounts[d] \in Nat
      BY <2>2
    <2> HIDE DEF amounts
    <2>4. SumFunctionOnSet(amounts, {c}) = amounts[c] + SumFunctionOnSet(amounts, {})
      <3>1. IsFiniteSet({c}) /\ {c} \ {c} = {}
        BY FS_Singleton
      <3> QED
        BY <2>3, <3>1, SumTakes
    <2>5. SumFunctionOnSet(amounts, Unrecorded(id)) = handler[c].amount
      BY <2>1, <2>2, <2>4, SumOfNothing
    <2> QED
      BY <1>1, <1>3, <2>2, <2>5
  <1> QED
    BY <1>4, <1>5

-----------------------------------------------------------------------------
(* The rate limiter's record of mints.                                     *)

(* A mint that is recorded counts in the windows its time lies in, and     *)
(* pruning takes nothing out of them.                                      *)
LEMMA WithMintEvents ==
    ASSUME NEW record \in ReserveRecord, NEW amount \in Nat, NEW now \in Instants,
           NEW start \in Instants, start >= saturating_sub(now, LargestWindow)
    PROVE  EventSum(WithMint(record, amount, now).mint_events, start) =
               EventSum(record.mint_events, start) + IF now >= start THEN amount ELSE 0
  <1> DEFINE events == record.mint_events
             added == [events EXCEPT ![now] = @ + amount]
             pruned == prune_old_events(added, now)
             S == Since(start)
  <1>1. /\ events \in [Instants -> Nat] /\ added \in [Instants -> Nat]
        /\ added[now] = events[now] + amount
        /\ \A i \in Instants \ {now} : added[i] = events[i]
    BY DEF ReserveRecord, MintEvents
  <1>2. WithMint(record, amount, now).mint_events = pruned
    BY DEF WithMint, ReserveRecord
  <1>3. \A i \in S : pruned[i] = added[i]
    <2>1. now \in Nat /\ start \in Nat /\ LargestWindow \in Nat /\ Instants \subseteq Nat
      BY WindowTypes, MaxTimeAssumption DEF Instants
    <2>2. saturating_sub(now, LargestWindow) \in Nat
      BY <2>1 DEF saturating_sub
    <2>3. \A i \in S : i \in Instants /\ i >= saturating_sub(now, LargestWindow)
      BY <2>1, <2>2 DEF Since
    <2> HIDE DEF added, S
    <2> QED
      BY <2>3 DEF prune_old_events, LargestWindow
  <1>4. IsFiniteSet(S) /\ S \subseteq Instants
    BY InstantsAreFinite DEF Since
  <1>5. EventSum(pruned, start) = SumFunctionOnSet(added, S)
    <2> HIDE DEF pruned, added
    <2> QED
      BY <1>3, <1>4, SumSame DEF EventSum
  <1>6. CASE now >= start
    <2>1. now \in S
      BY <1>6 DEF Since
    <2> DEFINE rest == S \ {now}
    <2>2. IsFiniteSet(rest) /\ \A i \in rest : added[i] = events[i]
      BY <1>1, <1>4, FS_Subset
    <2>3. SumFunctionOnSet(added, rest) = SumFunctionOnSet(events, rest)
      <3> HIDE DEF added, rest, events
      <3> QED
        BY <2>2, SumSame
    <2>4. SumFunctionOnSet(added, S) = added[now] + SumFunctionOnSet(added, rest)
      <3>1. \A i \in S : added[i] \in Nat
        BY <1>1, <1>4
      <3> HIDE DEF added, S
      <3> QED
        BY <1>4, <2>1, <3>1, SumTakes
    <2>5. SumFunctionOnSet(events, S) = events[now] + SumFunctionOnSet(events, rest)
      <3>1. \A i \in S : events[i] \in Nat
        BY <1>1, <1>4
      <3> HIDE DEF events, S
      <3> QED
        BY <1>4, <2>1, <3>1, SumTakes
    <2>6. SumFunctionOnSet(events, rest) \in Nat
      <3>1. \A i \in rest : events[i] \in Nat
        BY <1>1, <1>4
      <3> HIDE DEF events, rest
      <3> QED
        BY <2>2, <3>1, SumType
    <2>7. events[now] \in Nat
      BY <1>1
    <2>8. SumFunctionOnSet(added, S) = SumFunctionOnSet(events, S) + amount
      <3> HIDE DEF added, S, events, rest
      <3> QED
        BY <1>1, <2>3, <2>4, <2>5, <2>6, <2>7
    <2>9. EventSum(pruned, start) = EventSum(events, start) + amount
      BY <1>5, <2>8 DEF EventSum
    <2> HIDE DEF pruned, events
    <2> QED
      BY <1>2, <1>6, <2>9 DEF events
  <1>7. CASE ~(now >= start)
    <2>1. \A i \in S : added[i] = events[i]
      BY <1>1, <1>7 DEF Since
    <2>2. SumFunctionOnSet(added, S) = SumFunctionOnSet(events, S)
      <3> HIDE DEF added, events, S
      <3> QED
        BY <1>4, <2>1, SumSame
    <2>3. EventSum(pruned, start) = EventSum(events, start)
      BY <1>5, <2>2 DEF EventSum
    <2>4. EventSum(events, start) \in Nat
      BY <1>1, EventSumType DEF MintEvents
    <2> HIDE DEF pruned, events
    <2> QED
      BY <1>2, <1>7, <2>3, <2>4 DEF events
  <1> QED
    BY <1>6, <1>7

(* Time goes on, and a mint is dated when it is sent. *)
LEMMA TimeGoesOn ==
    ASSUME TypeOK, [Next]_vars
    PROVE  clock' >= clock /\ clock' \in Nat /\ clock \in Nat
  <1>1. clock \in Nat
    BY MaxTimeAssumption DEF TypeOK, Instants
  <1>2. clock' = clock \/ Tick
    BY DEF Next, vars, ledger_vars, minter_vars, Admin, AddReserve, UpdateReserve,
           RemoveReserve, SetGlobalPolicy, ReleaseStuckMintState, Begin, TimerTick,
           RebalanceReserve, RebalanceAllReserves, StartRebalance, ManualTopup, Resume,
           BalanceFailed, NothingToMint, SendMint, RebalanceMinted, RebalanceMintFailed,
           TopupMinted, TopupMintFailed, FinishWith, LedgerStep, Trap, DropOrphanReply,
           Upgrade
  <1> QED
    BY <1>1, <1>2 DEF Tick

InThePast == \A c \in Contexts : handler[c].at = "transfer" => handler[c].now <= clock

LEMMA InThePastStep ==
    ASSUME TypeOK, InThePast, [Next]_vars
    PROVE  InThePast'
  <1> SUFFICES ASSUME NEW c \in Contexts, handler'[c].at = "transfer"
               PROVE  handler'[c].now <= clock'
    BY DEF InThePast
  <1>1. clock' >= clock /\ clock' \in Nat /\ clock \in Nat
    BY TimeGoesOn
  <1>2. CASE handler'[c] = handler[c]
    <2>1. handler[c].now \in Nat
      BY <1>2, TransferHandlerType, MaxTimeAssumption DEF Instants
    <2> QED
      BY <1>1, <1>2, <2>1 DEF InThePast
  <1>3. CASE StartsMint(c)
    <2>1. ASSUME SendMint(c)
          PROVE  handler'[c].now = clock
      BY <2>1 DEF SendMint, AwaitTransfer, TypeOK
    <2>2. ASSUME TopsUp(c)
          PROVE  handler'[c].now = clock
      BY <2>2 DEF TopsUp, ManualTopup, AwaitTransfer, TypeOK
    <2> QED
      BY <1>1, <1>3, <2>1, <2>2 DEF StartsMint
  <1> QED
    BY <1>2, <1>3, ContextSteps DEF Rests, Ends, Asks, Served, Idle

(* The mints a reserve remembers, the one under way included, are those of *)
(* the ledger, from any instant in the largest window on.                  *)
EventsAgree ==
    \A id \in DOMAIN reserves : \A start \in Instants :
        start >= saturating_sub(clock, LargestWindow) =>
            /\ Unrecorded(id) = {} =>
                   MintedSince(id, start) = EventSum(reserves[id].mint_events, start)
            /\ \A c \in Unrecorded(id) :
                   MintedSince(id, start) =
                       EventSum(reserves[id].mint_events, start) + Owed(c, start)

LEMMA EventsAgreeStep ==
    ASSUME RefinementInv, Faultless, NoDuplicates, InThePast, EventsAgree, [Next]_vars
    PROVE  EventsAgree'
  <1> DEFINE Agrees(events, minted, unrecorded, of, start) ==
          /\ unrecorded = {} => minted = EventSum(events, start)
          /\ \A c \in unrecorded :
                 minted = EventSum(events, start)
                              + IF of[c].now >= start THEN of[c].amount ELSE 0
  <1> SUFFICES ASSUME NEW id \in DOMAIN reserves', NEW start \in Instants,
                      start >= saturating_sub(clock', LargestWindow)
               PROVE  Agrees(reserves'[id].mint_events, MintedSince(id, start)',
                             Unrecorded(id)', handler', start)
    BY DEF EventsAgree, EventSum, Since, Owed
  <1>1. /\ start >= saturating_sub(clock, LargestWindow)
        /\ \A now \in Nat : now <= clock => start >= saturating_sub(now, LargestWindow)
    <2>1. clock' >= clock /\ clock' \in Nat /\ clock \in Nat
      BY TimeGoesOn DEF RefinementInv
    <2>2. LargestWindow \in Nat /\ start \in Nat
      BY WindowTypes, MaxTimeAssumption DEF Instants
    <2>3. \A a, b \in Nat : a <= b =>
              /\ saturating_sub(a, LargestWindow) <= saturating_sub(b, LargestWindow)
              /\ saturating_sub(a, LargestWindow) \in Nat
              /\ saturating_sub(b, LargestWindow) \in Nat
      BY <2>2 DEF saturating_sub
    <2>4. \A now \in Nat : now <= clock' => start >= saturating_sub(now, LargestWindow)
      BY <2>1, <2>2, <2>3
    <2> QED
      BY <2>1, <2>4
  <1>2. id \in DOMAIN reserves =>
            Agrees(reserves[id].mint_events, MintedSince(id, start), Unrecorded(id),
                   handler, start)
    BY <1>1 DEF EventsAgree, Owed
  <1>3. CASE Kept(id)
    BY <1>2, <1>3 DEF Kept, SameCounters, SameMinted
  <1>4. CASE Opened(id)
    BY <1>4, NoEventsSum DEF Opened, NoCounters
  <1>5. ASSUME NEW c \in Contexts, Minted(c, id)
        PROVE  Agrees(reserves'[id].mint_events, MintedSince(id, start)', Unrecorded(id)',
                      handler', start)
    <2>1. /\ MintedSince(id, start)' = MintedSince(id, start) + Owed(c, start)
          /\ Unrecorded(id) = {} /\ Unrecorded(id)' = {c} /\ handler'[c] = handler[c]
          /\ id \in DOMAIN reserves
          /\ reserves'[id].mint_events = reserves[id].mint_events
      BY <1>5 DEF Minted, SameCounters
    <2>2. MintedSince(id, start) = EventSum(reserves[id].mint_events, start)
      BY <1>2, <2>1
    <2> QED
      BY <2>1, <2>2 DEF Owed
  <1>6. ASSUME NEW c \in Contexts, Recorded(c, id)
        PROVE  Agrees(reserves'[id].mint_events, MintedSince(id, start)', Unrecorded(id)',
                      handler', start)
    <2>1. /\ handler[c].amount \in Nat /\ handler[c].now \in Instants
          /\ reserves[id] \in ReserveRecord
      BY <1>6, TransferHandlerType DEF Recorded, RefinementInv, TypeOK
    <2>2. start >= saturating_sub(handler[c].now, LargestWindow)
      BY <1>1, <1>6, <2>1, MaxTimeAssumption DEF Recorded, InThePast, Instants
    <2>3. /\ MintedSince(id, start)' = MintedSince(id, start)
          /\ Unrecorded(id) = {c} /\ Unrecorded(id)' = {}
          /\ id \in DOMAIN reserves
          /\ reserves'[id] = WithMint(reserves[id], handler[c].amount, handler[c].now)
      BY <1>6 DEF Recorded, SameMinted
    <2>4. EventSum(reserves'[id].mint_events, start) =
              EventSum(reserves[id].mint_events, start)
                  + IF handler[c].now >= start THEN handler[c].amount ELSE 0
      BY <2>1, <2>2, <2>3, WithMintEvents
    <2> QED
      BY <1>2, <2>3, <2>4
  <1> QED
    BY <1>3, <1>4, <1>5, <1>6, AccountSteps

(* What the rate limiter counts of a reserve that is not being minted to.  *)
LEMMA UsageIsMinted ==
    ASSUME TypeOK, EventsAgree, NEW id \in DOMAIN reserves, Unrecorded(id) = {},
           NEW w \in Windows
    PROVE  usage_in_window(reserves[id].mint_events, clock, HOURS[w]) =
               MintedSince(id, saturating_sub(clock, HOURS[w]))
  <1> DEFINE start == saturating_sub(clock, HOURS[w])
  <1>1. /\ LargestWindow \in Nat /\ HOURS[w] \in Nat /\ HOURS[w] <= LargestWindow
        /\ clock \in Nat /\ MaxTime \in Nat /\ clock <= MaxTime
    BY WindowTypes, MaxTimeAssumption DEF TypeOK, Instants
  <1>2. start \in Instants /\ start >= saturating_sub(clock, LargestWindow)
    BY <1>1 DEF saturating_sub, Instants
  <1>3. MintedSince(id, start) = EventSum(reserves[id].mint_events, start)
    BY <1>2 DEF EventsAgree
  <1> QED
    BY <1>3 DEF usage_in_window, EventSum, Since

LEMMA EventsAgreeSuffices ==
    RefinementInv /\ EventsAgree => RateUsageIsExact
  <1> SUFFICES ASSUME RefinementInv, EventsAgree, NEW id \in DOMAIN reserves,
                      id \notin reserve_mint_inflight, NEW w \in Windows
               PROVE  usage_in_window(reserves[id].mint_events, clock, HOURS[w]) =
                          MintedSince(id, saturating_sub(clock, HOURS[w]))
    BY DEF RateUsageIsExact
  <1>1. Unrecorded(id) = {}
    BY DEF Unrecorded, RefinementInv, MintInv, MintExclusion, Claims, Live
  <1> QED
    BY <1>1, UsageIsMinted DEF RefinementInv

-----------------------------------------------------------------------------
(* The ceilings of a reserve cover what it is configured with.             *)

CapsCover(caps, config) ==
    /\ Covers(caps.max_balance, config.max_balance)
    /\ \A w \in Windows : Covers(caps.rate_limits[w], LimitOf(config.rate_limits, w))

CapsCoverConfigs ==
    /\ \A id \in DOMAIN reserves : CapsCover(loosest[id], reserves[id].config)
    /\ \A c \in Contexts : AwaitsBalance(c) =>
           CapsCover(loosest[handler[c].id], handler[c].record.config)

LEMMA CoversTransitive ==
    ASSUME NEW a \in Optional(Nat), NEW b \in Optional(Nat), NEW m \in Optional(Nat),
           Covers(b, m)
    PROVE  Covers(Looser(a, b), m) /\ Covers(Looser(b, a), m)
  BY NoneAssumption DEF Covers, Looser, Optional

LEMMA CoversItself == ASSUME NEW a \in Optional(Nat) PROVE Covers(a, a)
  BY NoneAssumption DEF Covers, Optional

LEMMA CapsOfCovers ==
    ASSUME NEW config \in ReserveConfig
    PROVE  CapsCover(CapsOf(config), config)
  <1>1. config.max_balance \in Optional(Nat)
    BY DEF ReserveConfig
  <1>2. \A w \in Windows : LimitOf(config.rate_limits, w) \in Optional(Nat)
    BY LimitOfType
  <1> QED
    BY <1>1, <1>2, CoversItself DEF CapsCover, CapsOf

LEMMA RelaxCovers ==
    ASSUME NEW caps \in Caps, NEW config \in ReserveConfig
    PROVE  /\ CapsCover(Relax(caps, config), config)
           /\ \A old \in ReserveConfig :
                  CapsCover(caps, old) => CapsCover(Relax(caps, config), old)
  <1>1. /\ config.max_balance \in Optional(Nat) /\ caps.max_balance \in Optional(Nat)
        /\ \A w \in Windows : /\ LimitOf(config.rate_limits, w) \in Optional(Nat)
                             /\ caps.rate_limits[w] \in Optional(Nat)
    BY LimitOfType DEF ReserveConfig, Caps, RateLimits
  <1>2. /\ Relax(caps, config).max_balance = Looser(caps.max_balance, config.max_balance)
        /\ \A w \in Windows : Relax(caps, config).rate_limits[w] =
               Looser(caps.rate_limits[w], LimitOf(config.rate_limits, w))
    BY DEF Relax
  <1>3. CapsCover(Relax(caps, config), config)
    BY <1>1, <1>2, CoversItself, CoversTransitive DEF CapsCover
  <1>4. ASSUME NEW old \in ReserveConfig, CapsCover(caps, old)
        PROVE  CapsCover(Relax(caps, config), old)
    <2>1. /\ old.max_balance \in Optional(Nat)
          /\ \A w \in Windows : LimitOf(old.rate_limits, w) \in Optional(Nat)
      BY LimitOfType DEF ReserveConfig
    <2> QED
      BY <1>1, <1>2, <1>4, <2>1, CoversTransitive DEF CapsCover
  <1> QED
    BY <1>3, <1>4

(* A reserve keeps its configuration and its ceilings, or gets a new       *)
(* configuration that its ceilings are loosened to.                        *)
LEMMA ConfigSteps ==
    ASSUME TypeOK, TypeOK', [Next]_vars, NEW id \in DOMAIN reserves'
    PROVE  \/ /\ id \in DOMAIN reserves
              /\ reserves'[id].config = reserves[id].config
              /\ loosest'[id] = loosest[id]
           \/ /\ id \notin DOMAIN reserves /\ id = next_reserve_id
              /\ reserves'[id].config \in AddArgs
              /\ loosest'[id] = CapsOf(reserves'[id].config)
              /\ ~AccountTaken(reserves'[id].config.account)
           \/ /\ id \in DOMAIN reserves /\ UpdateArgs # {}
              /\ reserves'[id].config.account = reserves[id].config.account
              /\ loosest'[id] = Relax(loosest[id], reserves'[id].config)
  <1> DEFINE Same == /\ id \in DOMAIN reserves
                     /\ reserves'[id].config = reserves[id].config
                     /\ loosest'[id] = loosest[id]
  <1> USE DEF minter_vars
  <1>1. ASSUME NEW config \in AddArgs, AddReserve(config)
        PROVE  \/ Same
               \/ /\ id \notin DOMAIN reserves /\ id = next_reserve_id
                  /\ reserves'[id].config \in AddArgs
                  /\ loosest'[id] = CapsOf(reserves'[id].config)
                  /\ ~AccountTaken(reserves'[id].config.account)
    BY <1>1 DEF AddReserve, NewRecord, TypeOK
  <1>2. ASSUME NEW r \in DOMAIN reserves, NEW arg \in UpdateArgs, UpdateReserve(r, arg)
        PROVE  \/ Same
               \/ /\ id \in DOMAIN reserves
                  /\ reserves'[id].config.account = reserves[id].config.account
                  /\ loosest'[id] = Relax(loosest[id], reserves'[id].config)
    <2> DEFINE updated == Updated(reserves[r].config, arg)
    <2>1. /\ reserves' = [reserves EXCEPT ![r] = WithConfig(@, updated)]
          /\ loosest' = [loosest EXCEPT ![r] = Relax(@, updated)]
          /\ id \in DOMAIN reserves /\ reserves[id] \in ReserveRecord
          /\ DOMAIN loosest = DOMAIN reserves
      BY <1>2 DEF UpdateReserve, TypeOK
    <2>2. updated.account = reserves[r].config.account
      BY DEF Updated
    <2> HIDE DEF updated
    <2> QED
      BY <2>1, <2>2 DEF WithConfig, ReserveRecord
  <1>3. ASSUME \E r \in DOMAIN reserves : RemoveReserve(r)
        PROVE  Same
    BY <1>3 DEF RemoveReserve
  <1>4. ASSUME NEW c \in Contexts, RebalanceMinted(c) \/ TopupMinted(c)
        PROVE  Same
    <2>1. /\ handler[c].at = "transfer" /\ loosest' = loosest
          /\ RecordMint(handler[c].id, handler[c].amount, handler[c].now)
      BY <1>4 DEF RebalanceMinted, TopupMinted, AwaitsTransfer, FinishWith
    <2>2. handler[c].amount \in Nat /\ handler[c].now \in Instants
      BY <2>1, TransferHandlerType
    <2>3. id \in DOMAIN reserves /\ reserves[id] \in ReserveRecord
      BY <2>1 DEF RecordMint, TypeOK
    <2> DEFINE updated == WithMint(reserves[id], handler[c].amount, handler[c].now)
    <2>4. updated.config = reserves[id].config
      BY <2>2, <2>3, WithMintType
    <2>5. reserves'[id] = reserves[id] \/ reserves'[id] = updated
      BY <2>1, <2>3 DEF RecordMint
    <2> HIDE DEF updated
    <2> QED
      BY <2>1, <2>3, <2>4, <2>5
  <1>5. ASSUME reserves' = reserves, loosest' = loosest
        PROVE  Same
    BY <1>5
  <1>6. Admin => \/ reserves' = reserves /\ loosest' = loosest
                 \/ \E config \in AddArgs : AddReserve(config)
                 \/ \E r \in DOMAIN reserves : \E arg \in UpdateArgs : UpdateReserve(r, arg)
                 \/ \E r \in DOMAIN reserves : RemoveReserve(r)
    BY DEF Admin, SetGlobalPolicy, ReleaseStuckMintState
  <1>7. ASSUME NEW c \in Contexts, Begin(c) \/ Resume(c) \/ TimerTick
        PROVE  \/ RebalanceMinted(c) \/ TopupMinted(c)
               \/ reserves' = reserves /\ loosest' = loosest
    BY <1>7 DEF Begin, TimerTick, RebalanceReserve, RebalanceAllReserves, StartRebalance,
                ManualTopup, Resume, BalanceFailed, NothingToMint, SendMint,
                RebalanceMintFailed, TopupMintFailed, FinishWith
  <1>8. ASSUME \/ LedgerStep \/ Upgrade \/ Tick \/ UNCHANGED vars
               \/ \E c \in Contexts : Trap(c) \/ DropOrphanReply(c)
        PROVE  reserves' = reserves /\ loosest' = loosest
    BY <1>8 DEF vars, LedgerStep, Trap, DropOrphanReply, Upgrade, Tick
  <1>9. \/ Admin
        \/ \E c \in Contexts : RebalanceMinted(c) \/ TopupMinted(c)
        \/ reserves' = reserves /\ loosest' = loosest
    BY <1>7, <1>8, ArgumentsAssumption DEF Next
  <1> QED
    BY <1>1, <1>2, <1>3, <1>4, <1>5, <1>6, <1>9

LEMMA CapsCoverConfigsStep ==
    ASSUME RefinementInv, RefinementInv', CapsCoverConfigs, [Next]_vars
    PROVE  CapsCoverConfigs'
  <1> USE DEF RefinementInv
  <1>1. ASSUME NEW id \in DOMAIN reserves'
        PROVE  CapsCover(loosest'[id], reserves'[id].config)
    <2>1. reserves'[id].config \in ReserveConfig
      BY DEF TypeOK, ReserveRecord
    <2>2. ASSUME id \in DOMAIN reserves
          PROVE  loosest[id] \in Caps /\ CapsCover(loosest[id], reserves[id].config)
      BY <2>2 DEF TypeOK, CapsCoverConfigs
    <2> QED
      BY <2>1, <2>2, ConfigSteps, CapsOfCovers, RelaxCovers
  <1>2. ASSUME NEW c \in Contexts, handler'[c].at = "balance"
        PROVE  CapsCover(loosest'[handler'[c].id], handler'[c].record.config)
    <2>1. handler'[c].id \in DOMAIN reserves'
      BY <1>2 DEF MintInv, HandlerReserveExists, Live
    <2>2. CASE handler'[c] = handler[c]
      <3> DEFINE id == handler[c].id
                 old == handler[c].record.config
      <3>1. id \in DOMAIN reserves /\ id \in DOMAIN reserves'
        BY <1>2, <2>1, <2>2 DEF MintInv, HandlerReserveExists, Live
      <3>2. /\ old \in ReserveConfig /\ loosest[id] \in Caps
            /\ CapsCover(loosest[id], old)
        BY <1>2, <2>2, <3>1, BalanceHandlerType DEF AwaitsBalance, CapsCoverConfigs, TypeOK
      <3>3. reserves'[id].config \in ReserveConfig
        BY <3>1 DEF TypeOK, ReserveRecord
      <3>4. loosest'[id] = loosest[id] \/ loosest'[id] = Relax(loosest[id], reserves'[id].config)
        BY <3>1, ConfigSteps
      <3>5. CapsCover(loosest'[id], old)
        <4> HIDE DEF id, old
        <4> QED
          BY <3>2, <3>3, <3>4, RelaxCovers
      <3> QED
        BY <2>2, <3>5
    <2>3. CASE Asks(c)
      BY <1>1, <2>1, <2>3 DEF Asks
    <2> QED
      BY <1>2, <2>2, <2>3, ContextSteps
      DEF Rests, Ends, Idle, StartsMint, StartsTransfer, Served
  <1> QED
    BY <1>1, <1>2 DEF CapsCoverConfigs, AwaitsBalance

-----------------------------------------------------------------------------
(* The rate limits.                                                        *)

InWindow(id, w) == MintedSince(id, saturating_sub(clock, HOURS[w]))

(* A mint of amount would stay within the ceiling of the window. *)
Fits(id, w, amount) == Within(InWindow(id, w) + amount, loosest[id].rate_limits[w])

Sent(c, id) ==
    call[c].status = "transfer" /\ handler[c].at = "transfer" /\ handler[c].id = id

WindowsFit ==
    \A id \in DOMAIN reserves : \A w \in Windows :
        /\ Fits(id, w, 0)
        /\ \A c \in Contexts : Sent(c, id) => Fits(id, w, handler[c].amount)

LEMMA WindowStart ==
    ASSUME NEW now \in Instants, NEW w \in Windows
    PROVE  saturating_sub(now, HOURS[w]) \in Instants
  <1>1. now \in Nat /\ MaxTime \in Nat /\ now <= MaxTime /\ HOURS[w] \in Nat
    BY WindowTypes, MaxTimeAssumption DEF Instants
  <1> QED
    BY <1>1 DEF saturating_sub, Instants

(* A later start leaves fewer mints. *)
LEMMA LaterIsLess ==
    ASSUME TypeOK, NEW id, NEW early \in Instants, NEW late \in Instants, early <= late
    PROVE  MintedSince(id, late) <= MintedSince(id, early)
  <1> DEFINE S == {i \in BlocksOf(id) : blocks[i].created_at_time >= early}
             T == {i \in BlocksOf(id) : blocks[i].created_at_time >= late}
  <1>1. \A i \in BlocksOf(id) : i \in DOMAIN blocks /\ blocks[i].created_at_time \in Nat
    BY BlocksAreFinite, MaxTimeAssumption DEF BlocksOf, Transfer, Instants
  <1>2. early \in Nat /\ late \in Nat
    BY MaxTimeAssumption DEF Instants
  <1>3. T \in SUBSET S
    BY <1>1, <1>2
  <1>4. IsFiniteSet(S) /\ \A i \in S : MintedAmounts[i] \in Nat
    BY <1>1, BlocksAreFinite, FS_Subset
  <1>5. SumFunctionOnSet(MintedAmounts, T) <= SumFunctionOnSet(MintedAmounts, S)
    <2> HIDE DEF S, T
    <2> QED
      BY <1>3, <1>4, SumOfPart
  <1> QED
    BY <1>5 DEF MintedSince

(* Nothing enters a window but by a mint. *)
LEMMA WindowsMove ==
    ASSUME TypeOK, TypeOK', [Next]_vars, NEW id, NEW w \in Windows
    PROVE  \E start \in Instants :
               /\ InWindow(id, w)' = MintedSince(id, start)'
               /\ MintedSince(id, start) <= InWindow(id, w)
               /\ MintedSince(id, start) \in Nat /\ InWindow(id, w) \in Nat
               /\ clock' = clock => MintedSince(id, start) = InWindow(id, w)
  <1> DEFINE start == saturating_sub(clock, HOURS[w])
             later == saturating_sub(clock', HOURS[w])
  <1>1. start \in Instants /\ later \in Instants
    BY WindowStart DEF TypeOK
  <1>2. start <= later
    <2>1. clock' >= clock /\ clock' \in Nat /\ clock \in Nat /\ HOURS[w] \in Nat
      BY TimeGoesOn, WindowTypes
    <2> QED
      BY <2>1 DEF saturating_sub
  <1>3. MintedSince(id, later) <= MintedSince(id, start)
    <2> HIDE DEF start, later
    <2> QED
      BY <1>1, <1>2, LaterIsLess
  <1>4. MintedSince(id, later) \in Nat /\ MintedSince(id, start) \in Nat
    BY MintedSinceType
  <1>5. InWindow(id, w) = MintedSince(id, start)
    BY DEF InWindow
  <1>6. \E s \in Instants : s = later /\ InWindow(id, w)' = MintedSince(id, s)'
    BY <1>1 DEF InWindow
  <1> QED
    BY <1>3, <1>4, <1>5, <1>6

(* What is within the ceiling of a window stays there. *)
LEMMA LimitsLoosen ==
    ASSUME TypeOK, TypeOK', [Next]_vars, NEW id \in DOMAIN reserves, id \in DOMAIN reserves',
           NEW w \in Windows, NEW amount \in Nat, Within(amount, loosest[id].rate_limits[w]),
           NEW less \in Nat, less <= amount
    PROVE  Within(less, loosest'[id].rate_limits[w])
  <1>1. loosest[id].rate_limits[w] \in Optional(Nat)
    BY DEF TypeOK, Caps, RateLimits
  <1>2. CASE loosest'[id] = loosest[id]
    BY <1>1, <1>2 DEF Within, Optional
  <1>3. CASE loosest'[id] = Relax(loosest[id], reserves'[id].config)
    <2> DEFINE new == LimitOf(reserves'[id].config.rate_limits, w)
    <2>1. new \in Optional(Nat)
      BY LimitOfType DEF TypeOK, ReserveRecord
    <2>2. loosest'[id].rate_limits[w] = Looser(loosest[id].rate_limits[w], new)
      BY <1>3 DEF Relax
    <2> HIDE DEF new
    <2> QED
      BY <1>1, <2>1, <2>2 DEF Looser, Within, Optional
  <1> QED
    BY <1>2, <1>3, ConfigSteps

(* An amount that the rate limiter lets through fits. *)
LEMMA AllowedFits ==
    ASSUME TypeOK, EventsAgree, NEW id \in DOMAIN reserves, Unrecorded(id) = {},
           NEW limits \in Optional(RateLimits), NEW amount \in Nat,
           check_rate_limits(limits, reserves[id].mint_events, amount, clock),
           NEW w \in Windows, Covers(loosest[id].rate_limits[w], LimitOf(limits, w))
    PROVE  Fits(id, w, amount)
  <1> DEFINE ceiling == loosest[id].rate_limits[w]
  <1>1. usage_in_window(reserves[id].mint_events, clock, HOURS[w]) = InWindow(id, w)
    BY UsageIsMinted DEF InWindow
  <1>2. ceiling \in Optional(Nat) /\ InWindow(id, w) \in Nat
    BY MintedSinceType DEF InWindow, TypeOK, Caps, RateLimits
  <1>3. CASE ceiling = None
    BY <1>3 DEF Fits, Within
  <1>4. CASE ceiling # None
    <2>1. LimitOf(limits, w) # None /\ LimitOf(limits, w) <= ceiling
      BY <1>4 DEF Covers
    <2>2. limits # None /\ limits[w] \in Nat /\ limits[w] # None /\ limits[w] <= ceiling
      BY <2>1 DEF LimitOf, RateLimits, Optional
    <2>3. InWindow(id, w) + amount <= limits[w]
      BY <1>1, <2>2 DEF check_rate_limits, Configured
    <2> QED
      BY <1>2, <1>4, <2>2, <2>3 DEF Fits, Within, Optional
  <1> QED
    BY <1>3, <1>4

(* A mint that is sent has passed the rate limiter. *)
LEMMA SentIsAllowed ==
    ASSUME RefinementInv, EventsAgree, CapsCoverConfigs, NEW c \in Contexts, StartsMint(c),
           NEW w \in Windows
    PROVE  LET id == handler'[c].id
           IN  /\ id \in DOMAIN reserves
               /\ handler'[c].amount \in Nat
               /\ Fits(id, w, handler'[c].amount)
               /\ UNCHANGED <<reserves, loosest, blocks, clock>>
  <1> USE DEF RefinementInv
  <1>1. ASSUME SendMint(c)
        PROVE  LET id == handler'[c].id
               IN  /\ id \in DOMAIN reserves
                   /\ handler'[c].amount \in Nat
                   /\ Fits(id, w, handler'[c].amount)
                   /\ UNCHANGED <<reserves, loosest, blocks, clock>>
    <2> DEFINE id == handler[c].id
               record == handler[c].record
               limits == record.config.rate_limits
               asked == Computed(c).mint_amount
    <2>1. /\ AwaitsBalance(c) /\ call[c].status = "ok"
          /\ UNCHANGED <<reserves, loosest, blocks, clock>>
      BY <1>1 DEF SendMint
    <2>2. PICK amount \in 1..asked :
              /\ amount = Cap(asked, Budget(c))
              /\ AwaitTransfer(c, "rebalance", id, None, handler[c].rest, amount)
      BY <1>1 DEF SendMint
    <2>3. handler'[c].id = id /\ handler'[c].amount = amount
      BY <2>2 DEF AwaitTransfer, TypeOK
    <2>4. id \in DOMAIN reserves /\ record.mint_events = reserves[id].mint_events
      BY <2>1 DEF MintInv, HandlerReserveExists, SnapshotIsCurrent, AwaitsBalance, Live
    <2>5. Unrecorded(id) = {}
      <3>1. ASSUME NEW d \in Unrecorded(id)
            PROVE  FALSE
        <4>1. handler[d].at = "transfer" /\ handler[d].id = id /\ d \in Contexts
          BY <3>1 DEF Unrecorded
        <4>2. d = c
          BY <2>1, <4>1, OneHandler DEF Live, AwaitsBalance
        <4> QED
          BY <2>1, <4>1, <4>2 DEF AwaitsBalance
      <3> QED
        BY <3>1
    <2>6. /\ limits \in Optional(RateLimits) /\ record.mint_events \in MintEvents
          /\ asked \in Nat
      <3>1. call[c].value \in Nat
        BY <2>1, ReplyType DEF Succeeded
      <3>2. asked \in Nat
        BY <2>1, <3>1, BalanceHandlerType, ComputeBounds DEF Computed
      <3>3. record \in ReserveRecord
        BY <2>1, BalanceHandlerType
      <3> QED
        BY <3>2, <3>3 DEF ReserveRecord, ReserveConfig
    <2>7. amount \in Nat \ {0} /\ Budget(c) \in Optional(Nat)
      <3> HIDE DEF asked
      <3> QED
        BY <2>6, BudgetIsWhatFits DEF Budget
    <2>8. Budget(c) # None => amount <= Budget(c)
      <3> HIDE DEF asked
      <3> QED
        BY <2>2, <2>6, <2>7, CapBounds
    <2>9. check_rate_limits(limits, reserves[id].mint_events, amount, clock)
      BY <2>4, <2>6, <2>7, <2>8, BudgetIsWhatFits DEF Budget
    <2>10. Covers(loosest[id].rate_limits[w], LimitOf(limits, w))
      BY <2>1 DEF CapsCoverConfigs, CapsCover
    <2>11. Fits(id, w, amount)
      <3> HIDE DEF id, limits
      <3> QED
        BY <2>4, <2>5, <2>6, <2>7, <2>9, <2>10, AllowedFits
    <2> QED
      BY <2>1, <2>3, <2>4, <2>7, <2>11
  <1>2. ASSUME TopsUp(c)
        PROVE  LET id == handler'[c].id
               IN  /\ id \in DOMAIN reserves
                   /\ handler'[c].amount \in Nat
                   /\ Fits(id, w, handler'[c].amount)
                   /\ UNCHANGED <<reserves, loosest, blocks, clock>>
    <2>1. PICK id \in DOMAIN reserves, amount \in TopupAmounts, key \in Optional(Keys) :
              /\ ManualTopup(c, id, amount, key)
              /\ handler'[c].id = id /\ handler'[c].amount = amount
      BY <1>2 DEF TopsUp
    <2> DEFINE limits == reserves[id].config.rate_limits
    <2>2. /\ check_rate_limits(limits, reserves[id].mint_events, amount, clock)
          /\ id \notin reserve_mint_inflight
          /\ UNCHANGED <<reserves, loosest, blocks, clock>>
      BY <2>1 DEF ManualTopup, Lockable, validate_manual_topup_inputs
    <2>3. Unrecorded(id) = {}
      BY <2>2 DEF Unrecorded, MintInv, MintExclusion, Claims, Live
    <2>4. limits \in Optional(RateLimits) /\ amount \in Nat
      BY ArgumentsAssumption DEF TypeOK, ReserveRecord, ReserveConfig
    <2>5. Covers(loosest[id].rate_limits[w], LimitOf(limits, w))
      BY DEF CapsCoverConfigs, CapsCover
    <2>6. Fits(id, w, amount)
      <3> HIDE DEF limits
      <3> QED
        BY <2>2, <2>3, <2>4, <2>5, AllowedFits
    <2> QED
      BY <2>1, <2>2, <2>4, <2>6
  <1> QED
    BY <1>1, <1>2 DEF StartsMint

(* No step takes what is executed or sent out of the windows. *)
LEMMA WindowsFitStep ==
    ASSUME RefinementInv, RefinementInv', Faultless, NoDuplicates, EventsAgree,
           CapsCoverConfigs, WindowsFit, [Next]_vars
    PROVE  WindowsFit'
  <1> USE DEF RefinementInv
  <1> SUFFICES ASSUME NEW id \in DOMAIN reserves', NEW w \in Windows
               PROVE  /\ Fits(id, w, 0)'
                      /\ \A c \in Contexts : Sent(c, id)' => Fits(id, w, handler[c].amount)'
    BY DEF WindowsFit
  <1> DEFINE before == InWindow(id, w)
             after == InWindow(id, w)'
  <1>1. PICK start \in Instants :
            /\ after = MintedSince(id, start)'
            /\ MintedSince(id, start) <= before
            /\ MintedSince(id, start) \in Nat /\ before \in Nat
            /\ clock' = clock => MintedSince(id, start) = before
    BY WindowsMove
  <1>2. ASSUME NEW amount \in Nat, id \in DOMAIN reserves, Fits(id, w, amount),
               NEW less \in Nat, less <= before + amount
        PROVE  Within(less, loosest'[id].rate_limits[w])
    <2>1. before + amount \in Nat
      BY <1>1
    <2> HIDE DEF before
    <2>2. Within(before + amount, loosest[id].rate_limits[w])
      BY <1>2 DEF Fits, before
    <2> QED
      BY <1>2, <2>1, <2>2, LimitsLoosen
  <1>3. ASSUME id \in DOMAIN reserves, SameMinted(id)
        PROVE  after <= before /\ after \in Nat
    BY <1>1, <1>3 DEF SameMinted
  <1>4. \A c \in Contexts : Minted(c, id) => after <= before + handler[c].amount /\ after \in Nat
    <2> SUFFICES ASSUME NEW c \in Contexts, Minted(c, id)
                 PROVE  after <= before + handler[c].amount /\ after \in Nat
      OBVIOUS
    <2>1. after = MintedSince(id, start) + Owed(c, start)
      BY <1>1 DEF Minted
    <2>2. handler[c].amount \in Nat
      BY TransferHandlerType DEF Minted
    <2>3. Owed(c, start) \in Nat /\ Owed(c, start) <= handler[c].amount
      BY <2>2 DEF Owed
    <2> HIDE DEF before, after
    <2> QED
      BY <1>1, <2>1, <2>2, <2>3
  <1>5. Fits(id, w, 0)'
    <2>1. SUFFICES Within(after, loosest'[id].rate_limits[w]) /\ after \in Nat
      BY <2>1 DEF Fits
    <2>2. CASE Kept(id) \/ \E c \in Contexts : Recorded(c, id)
      <3>1. id \in DOMAIN reserves /\ SameMinted(id)
        BY <2>2 DEF Kept, Recorded, SameCounters
      <3>2. Fits(id, w, 0)
        BY <3>1 DEF WindowsFit
      <3>3. after <= before + 0 /\ after \in Nat
        BY <1>1, <1>3, <3>1
      <3> HIDE DEF before, after
      <3> QED
        BY <1>2, <3>1, <3>2, <3>3
    <2>3. CASE Opened(id)
      <3>1. after = 0
        BY <1>1, <2>3 DEF Opened
      <3>2. loosest'[id].rate_limits[w] \in Optional(Nat)
        BY DEF TypeOK, Caps, RateLimits
      <3> QED
        BY <3>1, <3>2 DEF Within, Optional
    <2>4. ASSUME NEW c \in Contexts, Minted(c, id)
          PROVE  Within(after, loosest'[id].rate_limits[w]) /\ after \in Nat
      <3>1. id \in DOMAIN reserves /\ Sent(c, id) /\ handler[c].amount \in Nat
        BY <2>4, TransferHandlerType DEF Minted, SameCounters, Sent
      <3>2. Fits(id, w, handler[c].amount)
        BY <3>1 DEF WindowsFit
      <3>3. after <= before + handler[c].amount /\ after \in Nat
        BY <1>4, <2>4
      <3> HIDE DEF before, after
      <3> QED
        BY <1>2, <3>1, <3>2, <3>3
    <2> QED
      BY <2>2, <2>3, <2>4, AccountSteps
  <1>6. ASSUME NEW c \in Contexts, Sent(c, id)'
        PROVE  Fits(id, w, handler[c].amount)'
    <2>1. CASE Rests(c)
      <3>1. Sent(c, id) /\ handler'[c] = handler[c] /\ call'[c].status # "ok"
        BY <1>6, <2>1 DEF Rests, Sent
      <3>2. handler[c].amount \in Nat
        BY <3>1, TransferHandlerType DEF Sent
      <3>3. id \in DOMAIN reserves /\ Fits(id, w, handler[c].amount)
        BY <3>1 DEF Sent, WindowsFit, MintInv, HandlerReserveExists, Live
      <3>4. \A d \in Contexts : ~Minted(d, id)
        BY <3>1, OneHandler DEF Minted, Sent, Live, Unrecorded
      <3>5. SameMinted(id)
        BY <3>3, <3>4, AccountSteps DEF Kept, Recorded, Opened, NoCounters
      <3>6. after <= before /\ after \in Nat /\ before \in Nat
        BY <1>1, <1>3, <3>3, <3>5
      <3>7. after + handler[c].amount <= before + handler[c].amount
        <4> HIDE DEF before, after
        <4> QED
          BY <3>6, <3>2
      <3>8. Within(after + handler[c].amount, loosest'[id].rate_limits[w])
        <4> HIDE DEF before, after
        <4> QED
          BY <1>2, <3>3, <3>6, <3>7, <3>2
      <3> QED
        BY <3>1, <3>8 DEF Fits
    <2>2. CASE StartsMint(c)
      <3>1. /\ id \in DOMAIN reserves /\ Fits(id, w, handler'[c].amount)
            /\ UNCHANGED <<reserves, loosest, blocks, clock>>
        BY <1>6, <2>2, SentIsAllowed DEF Sent
      <3>2. SameMinted(id)
        BY <3>1, SameLog
      <3>3. after = before
        BY <1>1, <3>1, <3>2 DEF SameMinted
      <3>4. Within(after + handler'[c].amount, loosest'[id].rate_limits[w])
        BY <3>1, <3>3 DEF Fits
      <3> QED
        BY <3>4 DEF Fits
    <2>3. ~Served(c)
      BY <1>6 DEF Sent, Served, ServeBalance, ExecuteTransfer, RefuseDuplicate, Reject,
                  LoseReply, Reply, Failed, TypeOK, LedgerTypeOK
    <2> QED
      BY <1>6, <2>1, <2>2, <2>3, ContextSteps DEF Sent, Ends, Asks, Idle
  <1> QED
    BY <1>5, <1>6

-----------------------------------------------------------------------------
(* What the accounts promise.                                              *)

(* Ceilings cover configurations whatever the environment loses. *)
LEMMA CapsCoverInvariant ==
    ASSUME "live_release" \notin Environment
    PROVE  Spec => []CapsCoverConfigs
  <1>1. Init => CapsCoverConfigs
    BY DEF Init, CapsCoverConfigs, AwaitsBalance, Idle
  <1>2. RefinementInv /\ RefinementInv' /\ CapsCoverConfigs /\ [Next]_vars => CapsCoverConfigs'
    BY CapsCoverConfigsStep
  <1> QED
    BY <1>1, <1>2, RefinementInvariant, PTL DEF Spec

AccountInv ==
    /\ RefinementInv
    /\ NoDuplicates
    /\ InThePast
    /\ LedgerAgreement
    /\ EventsAgree
    /\ CapsCoverConfigs
    /\ WindowsFit

LEMMA AccountInvariant ==
    ASSUME Faultless
    PROVE  Spec => []AccountInv
  <1> DEFINE J == NoDuplicates /\ InThePast /\ EventsAgree /\ WindowsFit
  <1>1. Init => J
    BY DEF Init, LedgerInit, NoDuplicates, InThePast, EventsAgree, WindowsFit,
           Idle, NoCall
  <1>2. /\ RefinementInv /\ RefinementInv' /\ CapsCoverConfigs /\ J /\ [Next]_vars
        => J'
    <2> SUFFICES ASSUME RefinementInv, RefinementInv', CapsCoverConfigs, J, [Next]_vars
                 PROVE  J'
      OBVIOUS
    <2>1. NoDuplicates' /\ InThePast'
      BY NoDuplicatesStep, InThePastStep DEF RefinementInv, Faultless
    <2>2. EventsAgree'
      BY EventsAgreeStep
    <2>3. WindowsFit'
      BY WindowsFitStep
    <2> QED
      BY <2>1, <2>2, <2>3
  <1>3. "live_release" \notin Environment
    BY DEF Faultless
  <1>4. RefinementInv /\ LedgerAgreement /\ CapsCoverConfigs /\ J <=> AccountInv
    BY DEF AccountInv
  <1>5. Answered
    BY DEF Faultless, Answered
  <1> QED
    BY <1>1, <1>2, <1>3, <1>4, <1>5, LifetimeIsMinted, RefinementInvariant, CapsCoverInvariant, PTL DEF Spec

(* Between mints, usage_in_window of a reserve is what the ledger minted   *)
(* to it in every window: prune_old_events drops nothing that counts.      *)
THEOREM PruningLosesNothing ==
    ASSUME Faultless
    PROVE  Spec => []RateUsageIsExact
  <1>1. AccountInv => RateUsageIsExact
    BY EventsAgreeSuffices DEF AccountInv
  <1> QED
    BY <1>1, AccountInvariant, PTL

(* The limits that check_rate_limits and available_mint_budget enforce on  *)
(* the minter's own record bound what the ledger holds in every window.    *)
THEOREM WindowLimits ==
    ASSUME Faultless
    PROVE  Spec => []WindowCeiling
  <1>1. AccountInv => WindowCeiling
    <2> SUFFICES ASSUME AccountInv, NEW id \in DOMAIN reserves, NEW w \in Windows
                 PROVE  Within(InWindow(id, w), loosest[id].rate_limits[w])
      BY DEF WindowCeiling, InWindow
    <2>1. Within(InWindow(id, w) + 0, loosest[id].rate_limits[w])
      BY DEF AccountInv, WindowsFit, Fits
    <2>2. InWindow(id, w) \in Nat
      BY MintedSinceType DEF AccountInv, RefinementInv, InWindow
    <2> QED
      BY <2>1, <2>2
  <1> QED
    BY <1>1, AccountInvariant, PTL

-----------------------------------------------------------------------------
(* The balances of the reserves.                                           *)

AccountOf(id) == reserves[id].config.account

AccountsDiffer == \A r, s \in DOMAIN reserves : AccountOf(r) = AccountOf(s) => r = s

(* A handler's copy and its transfer name the account of the reserve.      *)
PaysReserve ==
    \A c \in Contexts :
        /\ AwaitsBalance(c) => handler[c].record.config.account = AccountOf(handler[c].id)
        /\ call[c].status = "transfer" => call[c].tx.to = AccountOf(call[c].tx.memo.id)

PayeeInv == RefinementInv /\ AccountsDiffer /\ PaysReserve

(* While no deposit can come in between, the balance a handler was         *)
(* answered is an upper bound of the one its reserve has.                  *)
BalanceKnown ==
    \A c \in Contexts : AwaitsBalance(c) =>
        LET account == AccountOf(handler[c].id)
        IN  /\ call[c].status = "balance_of" => call[c].account = account
            /\ call[c].status = "ok" => balance[account] <= call[c].value

RoomLeft ==
    \A c \in Contexts : call[c].status = "transfer" =>
        LET tx == call[c].tx
        IN  tx.memo.origin = "rebalance" =>
                Within(balance[tx.to] + tx.amount, loosest[tx.memo.id].max_balance)

BalanceInv == PayeeInv /\ CapsCoverConfigs /\ BalanceKnown

LEMMA AccountsDifferStep ==
    ASSUME TypeOK, TypeOK', AccountsDiffer, [Next]_vars
    PROVE  AccountsDiffer'
  <1> SUFFICES ASSUME NEW r \in DOMAIN reserves', NEW s \in DOMAIN reserves',
                      AccountOf(r)' = AccountOf(s)'
               PROVE  r = s
    BY DEF AccountsDiffer
  <1>1. ASSUME NEW id \in DOMAIN reserves'
        PROVE  \/ id \in DOMAIN reserves /\ AccountOf(id)' = AccountOf(id)
               \/ id = next_reserve_id /\ ~AccountTaken(AccountOf(id)')
    BY ConfigSteps DEF AccountOf
  <1>2. ASSUME NEW id \in DOMAIN reserves, NEW new \in DOMAIN reserves',
               ~AccountTaken(AccountOf(new)')
        PROVE  AccountOf(id) # AccountOf(new)'
    BY <1>2 DEF AccountTaken, AccountOf
  <1> QED
    BY <1>1, <1>2 DEF AccountsDiffer

(* The account of a registered reserve never changes. *)
LEMMA AccountKept ==
    ASSUME TypeOK, TypeOK', [Next]_vars, NEW id \in DOMAIN reserves, id \in DOMAIN reserves'
    PROVE  AccountOf(id)' = AccountOf(id)
  <1>1. id # next_reserve_id
    BY DEF TypeOK
  <1> QED
    BY <1>1, ConfigSteps DEF AccountOf

(* What a mint that is sent asks the ledger for. *)
LEMMA SentTo ==
    ASSUME PayeeInv, NEW c \in Contexts, StartsMint(c)
    PROVE  LET tx == call'[c].tx
           IN  /\ UNCHANGED <<reserves, loosest, balance>>
               /\ tx.memo.id \in DOMAIN reserves
               /\ tx.to = AccountOf(tx.memo.id)
  <1> USE DEF PayeeInv, RefinementInv
  <1>1. call'[c].tx.memo.id = handler'[c].id
    BY DEF StartsMint, StartsTransfer, Sends
  <1>2. CASE SendMint(c)
    <2>1. /\ AwaitsBalance(c) /\ UNCHANGED <<reserves, loosest, balance>>
          /\ handler'[c].id = handler[c].id
          /\ call'[c].tx.to = handler[c].record.config.account
      BY <1>2, RebalanceSends DEF SendMint
    <2>2. handler[c].id \in DOMAIN reserves
      BY <2>1 DEF MintInv, HandlerReserveExists, AwaitsBalance, Live
    <2>3. handler[c].record.config.account = AccountOf(handler[c].id)
      BY <2>1 DEF PaysReserve
    <2> QED
      BY <1>1, <2>1, <2>2, <2>3
  <1>3. CASE TopsUp(c)
    <2>1. PICK id \in DOMAIN reserves, amount \in TopupAmounts, key \in Optional(Keys) :
              ManualTopup(c, id, amount, key) /\ handler'[c].id = id
      BY <1>3 DEF TopsUp
    <2>2. /\ UNCHANGED <<reserves, loosest, balance>>
          /\ call'[c] = mint_to(AccountOf(id), amount,
                                [origin |-> "topup", id |-> id, key |-> key], clock)
      BY <2>1 DEF ManualTopup, AccountOf, TypeOK, LedgerTypeOK
    <2>3. call'[c].tx.to = AccountOf(id)
      BY <2>2 DEF mint_to
    <2> QED
      BY <1>1, <2>1, <2>2, <2>3
  <1> QED
    BY <1>2, <1>3 DEF StartsMint

LEMMA PaysReserveStep ==
    ASSUME PayeeInv, RefinementInv', [Next]_vars
    PROVE  PaysReserve'
  <1> USE DEF PayeeInv, RefinementInv
  <1> SUFFICES ASSUME NEW c \in Contexts
               PROVE  /\ handler'[c].at = "balance" =>
                             handler'[c].record.config.account = AccountOf(handler[c].id)'
                      /\ call'[c].status = "transfer" =>
                             call'[c].tx.to = AccountOf(call[c].tx.memo.id)'
    BY DEF PaysReserve, AwaitsBalance
  <1>1. ASSUME handler'[c].at = "balance", handler'[c] = handler[c]
        PROVE  handler'[c].record.config.account = AccountOf(handler[c].id)'
    <2>1. /\ AwaitsBalance(c) /\ handler[c].id \in DOMAIN reserves
          /\ handler[c].id \in DOMAIN reserves'
      BY <1>1 DEF AwaitsBalance, MintInv, HandlerReserveExists, Live
    <2> QED
      BY <1>1, <2>1, AccountKept DEF PaysReserve, AccountOf
  <1>2. ASSUME call'[c].status = "transfer", call'[c] = call[c]
        PROVE  call'[c].tx.to = AccountOf(call[c].tx.memo.id)'
    <2>1. call[c].tx.memo.id \in DOMAIN reserves /\ call[c].tx.memo.id \in DOMAIN reserves'
      BY <1>2 DEF TransfersHaveReserves
    <2> QED
      BY <1>2, <2>1, AccountKept DEF PaysReserve
  <1>3. CASE StartsMint(c)
    <2>1. handler'[c].at = "transfer"
      BY <1>3 DEF StartsMint, StartsTransfer
    <2> QED
      BY <1>3, <2>1, SentTo DEF AccountOf
  <1>4. CASE Asks(c)
    BY <1>4 DEF Asks, AccountOf
  <1>5. Served(c) => call'[c].status # "transfer" /\ handler'[c] = handler[c]
    BY DEF Served, ServeBalance, ExecuteTransfer, RefuseDuplicate, Reject, LoseReply, Reply,
           Failed, TypeOK, LedgerTypeOK
  <1> QED
    BY <1>1, <1>2, <1>3, <1>4, <1>5, ContextSteps DEF Rests, Ends, Idle, NoCall

LEMMA PayeeInvariant ==
    ASSUME "live_release" \notin Environment
    PROVE  Spec => []PayeeInv
  <1> DEFINE J == AccountsDiffer /\ PaysReserve
  <1>1. Init => J
    BY DEF Init, LedgerInit, AccountsDiffer, PaysReserve, AwaitsBalance, Idle, NoCall
  <1>2. RefinementInv /\ RefinementInv' /\ J /\ [Next]_vars => J'
    <2> SUFFICES ASSUME RefinementInv, RefinementInv', J, [Next]_vars
                 PROVE  J'
      OBVIOUS
    <2>1. PayeeInv
      BY DEF PayeeInv
    <2> QED
      BY <2>1, AccountsDifferStep, PaysReserveStep DEF RefinementInv
  <1>3. RefinementInv /\ J <=> PayeeInv
    BY DEF PayeeInv
  <1> QED
    BY <1>1, <1>2, <1>3, RefinementInvariant, PTL DEF Spec

(* Without deposits a balance grows only by a mint to its account. *)
LEMMA BalanceSteps ==
    ASSUME TypeOK, [Next]_vars, "deposit" \notin Environment, NEW a \in Accounts
    PROVE  \/ balance'[a] <= balance[a]
           \/ \E c \in Contexts : ExecuteTransfer(c) /\ call[c].tx.to = a
  <1>1. balance[a] \in Nat
    BY DEF TypeOK, LedgerTypeOK
  <1>2. CASE LedgerStep
    <2>1. ASSUME NEW c \in Contexts, ExecuteTransfer(c), call[c].tx.to # a
          PROVE  balance'[a] = balance[a]
      BY <2>1 DEF ExecuteTransfer, TypeOK, LedgerTypeOK
    <2>2. ASSUME NEW b \in Accounts, Spend(b)
          PROVE  balance'[a] <= balance[a]
      BY <1>1, <2>2 DEF Spend, TypeOK, LedgerTypeOK
    <2>3. \A b \in Accounts : ~Deposit(b)
      BY DEF Deposit
    <2>4. CASE balance' = balance
      BY <1>1, <2>4
    <2>5. \/ balance' = balance
          \/ \E c \in Contexts : ExecuteTransfer(c)
          \/ \E b \in Accounts : Spend(b)
      BY <1>2, <2>3 DEF LedgerStep, LedgerAnswer, LedgerFault, LedgerUser, ServeBalance,
                        RefuseDuplicate, Reject, LoseReply
    <2> QED
      BY <1>1, <2>1, <2>2, <2>4, <2>5
  <1>3. LedgerStep \/ balance' = balance
    BY DEF Next, vars, ledger_vars, Admin, AddReserve, UpdateReserve, RemoveReserve,
           SetGlobalPolicy, ReleaseStuckMintState, Begin, TimerTick, RebalanceReserve,
           RebalanceAllReserves, StartRebalance, ManualTopup, Resume, BalanceFailed,
           NothingToMint, SendMint, RebalanceMinted, RebalanceMintFailed, TopupMinted,
           TopupMintFailed, FinishWith, Trap, DropOrphanReply, Upgrade, Tick
  <1> QED
    BY <1>1, <1>2, <1>3

(* Nobody else mints to the account of a reserve that is being minted to. *)
LEMMA OnlyItsMint ==
    ASSUME BalanceInv, NEW c \in Contexts, NEW id \in Claims(c), id \in DOMAIN reserves,
           NEW d \in Contexts, ExecuteTransfer(d), call[d].tx.to = AccountOf(id)
    PROVE  d = c
  <1> USE DEF BalanceInv, PayeeInv, RefinementInv
  <1>1. call[d].status = "transfer"
    BY DEF ExecuteTransfer
  <1>2. /\ call[d].tx.memo.id \in DOMAIN reserves
        /\ AccountOf(call[d].tx.memo.id) = AccountOf(id)
        /\ call[d].tx.memo.id \in Claims(d)
    BY <1>1 DEF TransfersHaveReserves, PaysReserve, Claims
  <1>3. call[d].tx.memo.id = id
    BY <1>2 DEF AccountsDiffer
  <1> QED
    BY <1>2, <1>3 DEF MintInv, MintExclusion

LEMMA BalanceKnownStep ==
    ASSUME BalanceInv, RefinementInv', "deposit" \notin Environment, [Next]_vars
    PROVE  BalanceKnown'
  <1> USE DEF BalanceInv, PayeeInv, RefinementInv
  <1> SUFFICES ASSUME NEW c \in Contexts, handler'[c].at = "balance"
               PROVE  LET account == AccountOf(handler[c].id)'
                      IN  /\ call'[c].status = "balance_of" => call'[c].account = account
                          /\ call'[c].status = "ok" => balance'[account] <= call'[c].value
    BY DEF BalanceKnown, AwaitsBalance
  <1>1. CASE Asks(c)
    BY <1>1 DEF Asks, AccountOf
  <1>2. CASE handler'[c] = handler[c]
    <2> DEFINE id == handler[c].id
               account == AccountOf(id)
    <2>1. /\ AwaitsBalance(c) /\ id \in DOMAIN reserves /\ id \in DOMAIN reserves'
          /\ id \in Claims(c)
      BY <1>2 DEF AwaitsBalance, MintInv, HandlerReserveExists, Live, Claims
    <2>2. AccountOf(handler[c].id)' = account
      BY <1>2, <2>1, AccountKept DEF AccountOf
    <2>3. /\ call[c].status = "balance_of" => call[c].account = account
          /\ call[c].status = "ok" => balance[account] <= call[c].value
          /\ call[c].status # "transfer"
      BY <2>1 DEF BalanceKnown, TransfersHaveHandlers, AwaitsBalance, Live
    <2>4. account \in Accounts /\ balance[account] \in Nat /\ balance'[account] \in Nat
      BY <2>1 DEF AccountOf, TypeOK, LedgerTypeOK, ReserveRecord, ReserveConfig
    <2>5. balance'[account] <= balance[account]
      <3>1. ASSUME NEW d \in Contexts, ExecuteTransfer(d), call[d].tx.to = account
            PROVE  FALSE
        <4>1. d = c
          BY <2>1, <3>1, OnlyItsMint
        <4> QED
          BY <2>3, <3>1, <4>1 DEF ExecuteTransfer
      <3> QED
        BY <2>4, <3>1, BalanceSteps
    <2>6. CASE call'[c] = call[c]
      <3>1. call[c].status = "ok" => call[c].value \in Nat
        BY ReplyType DEF Succeeded
      <3> HIDE DEF account
      <3> QED
        BY <1>2, <2>2, <2>3, <2>4, <2>5, <2>6, <3>1
    <2>7. CASE Served(c)
      <3>1. CASE ServeBalance(c)
        <4>1. /\ call'[c] = [status |-> "ok", value |-> balance[account]]
              /\ balance' = balance
          BY <2>3, <3>1 DEF ServeBalance, Reply, TypeOK, LedgerTypeOK
        <4> HIDE DEF account
        <4> QED
          BY <1>2, <2>2, <2>3, <2>4, <4>1
      <3>2. CASE Reject(c) \/ LoseReply(c)
        <4>1. call'[c].status = "error"
          BY <3>2 DEF Reject, LoseReply, Failed, TypeOK, LedgerTypeOK
        <4> QED
          BY <1>2, <2>2, <2>3, <4>1
      <3> QED
        BY <2>3, <2>7, <3>1, <3>2 DEF Served, ExecuteTransfer, RefuseDuplicate
    <2> QED
      BY <1>1, <1>2, <2>1, <2>6, <2>7, ContextSteps
      DEF Rests, Ends, Idle, StartsMint, StartsTransfer, AwaitsBalance
  <1> QED
    BY <1>1, <1>2, ContextSteps DEF Rests, Ends, Idle, StartsMint, StartsTransfer, Served

(* What compute_rebalance asks to mint is zero or within the room that     *)
(* max_balance leaves.                                                     *)
LEMMA ComputeFits ==
    ASSUME NEW config \in ReserveConfig, NEW current \in Nat, NEW minted \in Nat,
           NEW policy \in GlobalPolicy
    PROVE  LET amount == compute_rebalance(config, current, minted, policy).mint_amount
           IN  config.max_balance # None =>
                   amount = 0 \/ current + amount <= config.max_balance
  <1> DEFINE raw == LargerDeficit(config, current, minted)
             topup == Cap(raw, config.max_topup_per_rebalance)
             room == Room(config.max_balance, current)
             below == Cap(topup, room)
             rest == Room(config.lifetime_received_maximum, minted)
             lifetime == Cap(below, rest)
             capped == CappedAmount(config, current, minted, policy)
  <1>1. /\ config.max_topup_per_rebalance \in Optional(Nat)
        /\ config.max_balance \in Optional(Nat)
        /\ config.lifetime_received_maximum \in Optional(Nat)
        /\ policy.max_mint_per_operation \in Optional(Nat)
    BY DEF ReserveConfig, GlobalPolicy
  <1>2. topup \in Nat
    <2>1. raw \in Nat
      BY DeficitType
    <2> HIDE DEF raw
    <2> QED
      BY <1>1, <2>1, CapBounds
  <1>3. room \in Optional(Nat) /\ rest \in Optional(Nat)
    BY <1>1, RoomBounds
  <1>4. below \in Nat /\ (room # None => below <= room)
    <2> HIDE DEF topup, room
    <2> QED
      BY <1>2, <1>3, CapBounds
  <1>5. lifetime \in Nat /\ lifetime <= below
    <2> HIDE DEF below, rest
    <2> QED
      BY <1>3, <1>4, CapBounds
  <1>6. capped = Cap(lifetime, policy.max_mint_per_operation)
    BY DEF CappedAmount
  <1>7. capped \in Nat /\ capped <= lifetime
    <2> HIDE DEF lifetime, capped
    <2> QED
      BY <1>1, <1>5, <1>6, CapBounds
  <1>8. config.max_balance # None =>
            capped = 0 \/ current + capped <= config.max_balance
    <2>1. config.max_balance # None =>
              /\ config.max_balance \in Nat
              /\ room \in Nat /\ room # None
              /\ room = 0 \/ current + room <= config.max_balance
      BY <1>1, RoomBounds, NoneAssumption DEF Optional
    <2> HIDE DEF lifetime, capped, room, below
    <2> QED
      BY <2>1, <1>4, <1>5, <1>7
  <1>9. compute_rebalance(config, current, minted, policy).mint_amount \in {0, capped}
    <2> HIDE DEF capped
    <2> QED
      BY DEF compute_rebalance, capped
  <1> QED
    BY <1>8, <1>9

(* What is within the max_balance of a reserve stays there. *)
LEMMA MaxLoosens ==
    ASSUME TypeOK, TypeOK', [Next]_vars, NEW id \in DOMAIN reserves, id \in DOMAIN reserves',
           NEW amount \in Nat, Within(amount, loosest[id].max_balance),
           NEW less \in Nat, less <= amount
    PROVE  Within(less, loosest'[id].max_balance)
  <1>1. loosest[id].max_balance \in Optional(Nat)
    BY DEF TypeOK, Caps
  <1>2. CASE loosest'[id] = loosest[id]
    BY <1>1, <1>2 DEF Within, Optional
  <1>3. CASE loosest'[id] = Relax(loosest[id], reserves'[id].config)
    <2> DEFINE new == reserves'[id].config.max_balance
    <2>1. new \in Optional(Nat)
      BY DEF TypeOK, ReserveRecord, ReserveConfig
    <2>2. loosest'[id].max_balance = Looser(loosest[id].max_balance, new)
      BY <1>3 DEF Relax
    <2> HIDE DEF new
    <2> QED
      BY <1>1, <2>1, <2>2 DEF Looser, Within, Optional
  <1>4. id # next_reserve_id
    BY DEF TypeOK
  <1> QED
    BY <1>2, <1>3, <1>4, ConfigSteps

(* A rebalance sends no more than its reserve has room for. *)
LEMMA SentHasRoom ==
    ASSUME BalanceInv, NEW c \in Contexts, SendMint(c)
    PROVE  LET tx == call'[c].tx
           IN  Within(balance[tx.to] + tx.amount, loosest[tx.memo.id].max_balance)
  <1> USE DEF BalanceInv, PayeeInv, RefinementInv
  <1> DEFINE id == handler[c].id
             config == handler[c].record.config
             asked == Computed(c).mint_amount
             current == call[c].value
             account == AccountOf(id)
  <1>1. PICK amount \in 1..asked :
            /\ amount = Cap(asked, Budget(c))
            /\ AwaitTransfer(c, "rebalance", id, None, handler[c].rest, amount)
    BY DEF SendMint
  <1>2. AwaitsBalance(c) /\ call[c].status = "ok" /\ StartsMint(c)
    BY RebalanceSends DEF SendMint
  <1>3. call'[c].tx.to = account /\ call'[c].tx.memo.id = id /\ call'[c].tx.amount = amount
    <2>1. handler'[c].id = id /\ handler'[c].amount = amount
      BY <1>1 DEF AwaitTransfer, TypeOK
    <2>2. call'[c].tx.memo.id = id /\ call'[c].tx.amount = amount
      BY <1>2, <2>1 DEF StartsMint, StartsTransfer, Sends
    <2> QED
      BY <1>2, <2>2, SentTo
  <1>4. /\ current \in Nat /\ config \in ReserveConfig
        /\ asked \in Nat
        /\ config.max_balance # None => asked = 0 \/ current + asked <= config.max_balance
    <2>1. current \in Nat
      BY <1>2, ReplyType DEF Succeeded
    <2>2. /\ config \in ReserveConfig /\ handler[c].record.lifetime_minted \in Nat
          /\ handler[c].policy \in GlobalPolicy
      BY <1>2, BalanceHandlerType
    <2>3. asked = compute_rebalance(config, current, handler[c].record.lifetime_minted,
                                    handler[c].policy).mint_amount
      BY DEF Computed
    <2> HIDE DEF asked, current, config
    <2> QED
      BY <2>1, <2>2, <2>3, ComputeBounds, ComputeFits
  <1>5. id \in DOMAIN reserves
    BY <1>2 DEF MintInv, HandlerReserveExists, AwaitsBalance, Live
  <1>6. /\ Covers(loosest[id].max_balance, config.max_balance)
        /\ balance[account] <= current
    BY <1>2 DEF CapsCoverConfigs, CapsCover, BalanceKnown
  <1>7. /\ loosest[id].max_balance \in Optional(Nat) /\ config.max_balance \in Optional(Nat)
        /\ balance[account] \in Nat
    BY <1>4, <1>5 DEF TypeOK, LedgerTypeOK, Caps, AccountOf, ReserveRecord, ReserveConfig
  <1>8. Within(balance[account] + amount, loosest[id].max_balance)
    <2>1. amount \in Nat /\ amount <= asked /\ asked # 0
      <3> HIDE DEF asked
      <3> QED
        BY <1>4
    <2> HIDE DEF asked, current, account
    <2> QED
      BY <1>4, <1>6, <1>7, <2>1 DEF Within, Covers, Optional
  <1> QED
    BY <1>3, <1>8

LEMMA RoomLeftStep ==
    ASSUME BalanceInv, RefinementInv', RoomLeft, "deposit" \notin Environment, [Next]_vars
    PROVE  RoomLeft'
  <1> USE DEF BalanceInv, PayeeInv, RefinementInv
  <1> SUFFICES ASSUME NEW c \in Contexts, call'[c].status = "transfer",
                      call'[c].tx.memo.origin = "rebalance"
               PROVE  LET tx == call'[c].tx
                      IN  Within(balance'[tx.to] + tx.amount, loosest'[tx.memo.id].max_balance)
    BY DEF RoomLeft
  <1>1. CASE call'[c] = call[c]
    <2> DEFINE tx == call[c].tx
               id == tx.memo.id
    <2>1. /\ id \in DOMAIN reserves /\ id \in DOMAIN reserves' /\ id \in Claims(c)
          /\ tx.to = AccountOf(id)
      BY <1>1 DEF TransfersHaveReserves, Claims, PaysReserve
    <2>2. /\ tx.to \in Accounts /\ tx.amount \in Nat
          /\ balance[tx.to] \in Nat /\ balance'[tx.to] \in Nat
      BY <1>1, CallType DEF Transfer, TypeOK, LedgerTypeOK
    <2>3. balance'[tx.to] <= balance[tx.to]
      <3>1. ASSUME NEW d \in Contexts, ExecuteTransfer(d), call[d].tx.to = AccountOf(id)
            PROVE  FALSE
        <4>1. d = c
          BY <2>1, <3>1, OnlyItsMint
        <4>2. call'[c].status = "ok"
          BY <3>1, <4>1 DEF ExecuteTransfer, Reply, TypeOK, LedgerTypeOK
        <4> QED
          BY <4>2
      <3> QED
        BY <2>1, <2>2, <3>1, BalanceSteps
    <2>4. Within(balance[tx.to] + tx.amount, loosest[id].max_balance)
      BY <1>1 DEF RoomLeft
    <2> DEFINE before == balance[tx.to] + tx.amount
               after == balance'[tx.to] + tx.amount
    <2>5. before \in Nat /\ after \in Nat /\ after <= before
      BY <2>2, <2>3
    <2>6. Within(after, loosest'[id].max_balance)
      <3> HIDE DEF id, before, after
      <3>1. Within(before, loosest[id].max_balance)
        BY <2>4 DEF before
      <3> QED
        BY <2>1, <2>5, <3>1, MaxLoosens
    <2> QED
      BY <1>1, <2>6
  <1>2. CASE StartsMint(c)
    <2>1. SendMint(c)
      BY <1>2 DEF StartsMint, StartsTransfer, Sends
    <2> QED
      BY <1>2, <2>1, SentTo, SentHasRoom
  <1>3. ~Served(c)
    BY DEF Served, ServeBalance, ExecuteTransfer, RefuseDuplicate, Reject, LoseReply, Reply,
           Failed, TypeOK, LedgerTypeOK
  <1> QED
    BY <1>1, <1>2, <1>3, ContextSteps DEF Rests, Ends, Asks, NoCall

(* A rebalance never pushes an account above the loosest max_balance of    *)
(* its reserve, whatever is lost on the way, as long as nobody pays into   *)
(* the account between the answer of the balance and the mint.             *)
THEOREM RebalancesFit ==
    ASSUME "live_release" \notin Environment, "deposit" \notin Environment
    PROVE  Spec => RebalanceWithinMax
  <1> DEFINE J == BalanceKnown /\ RoomLeft
             Fit == \A c \in Contexts :
                        ExecuteTransfer(c) /\ call[c].tx.memo.origin = "rebalance"
                            => LeavesWithinMax(c)
  <1>1. Init => J
    BY DEF Init, LedgerInit, BalanceKnown, RoomLeft, AwaitsBalance, Idle, NoCall
  <1>2. PayeeInv /\ PayeeInv' /\ CapsCoverConfigs /\ J /\ [Next]_vars => J'
    <2> SUFFICES ASSUME PayeeInv, PayeeInv', CapsCoverConfigs, J, [Next]_vars
                 PROVE  J'
      OBVIOUS
    <2>1. BalanceInv /\ RefinementInv'
      BY DEF BalanceInv, PayeeInv
    <2> QED
      BY <2>1, BalanceKnownStep, RoomLeftStep
  <1>3. PayeeInv /\ J => Fit
    <2> SUFFICES ASSUME PayeeInv, RoomLeft, NEW c \in Contexts, ExecuteTransfer(c),
                        call[c].tx.memo.origin = "rebalance",
                        call[c].tx.memo.id \in DOMAIN reserves
                 PROVE  Within(balance'[call[c].tx.to],
                               loosest[call[c].tx.memo.id].max_balance)
      BY DEF LeavesWithinMax
    <2>1. call[c].status = "transfer" /\ call[c].tx.to \in Accounts
      BY CallType DEF ExecuteTransfer, Transfer, PayeeInv, RefinementInv
    <2>2. balance'[call[c].tx.to] = balance[call[c].tx.to] + call[c].tx.amount
      BY <2>1 DEF ExecuteTransfer, PayeeInv, RefinementInv, TypeOK, LedgerTypeOK
    <2> QED
      BY <2>1, <2>2 DEF RoomLeft
  <1>4. Fit => [Fit]_vars
    OBVIOUS
  <1> HIDE DEF Fit, J
  <1>5. Spec => [][Fit]_vars
    BY <1>1, <1>2, <1>3, <1>4, PayeeInvariant, CapsCoverInvariant, PTL DEF Spec
  <1> QED
    BY <1>5 DEF RebalanceWithinMax, Fit

=============================================================================
