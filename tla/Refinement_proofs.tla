--------------------------- MODULE Refinement_proofs ---------------------------
(***************************************************************************)
(* The minter implements AtomicMint.tla: every step of Minter.tla is, under *)
(* the mapping of MinterRefinement.tla, a step of the abstract             *)
(* specification or leaves its state alone.                                *)
(***************************************************************************)
EXTENDS Minter_proofs, MinterRefinement

-----------------------------------------------------------------------------
(* The invariant of the refinement.                                        *)

Lossy == Environment \cap Losses # {}

(* The reserve of a transfer under way is registered, and blocks belong to *)
(* reserves that were registered once. Only a loss leaves a transfer       *)
(* without its handler.                                                    *)
TransfersHaveReserves ==
    \A c \in Contexts : call[c].status = "transfer" => call[c].tx.memo.id \in DOMAIN reserves

BlocksHaveIds == \A i \in DOMAIN blocks : blocks[i].memo.id \in AssignedIds

TransfersHaveHandlers ==
    \A c \in Contexts : call[c].status = "transfer" =>
        handler[c].at = "transfer" \/ (Lossy /\ ~Live(c))

RefinementInv ==
    /\ TypeOK
    /\ MintInv
    /\ CallMatches
    /\ KeyHeld
    /\ TransfersHaveReserves
    /\ BlocksHaveIds
    /\ TransfersHaveHandlers

(* A reserve keeps its place while a transfer to it is under way. *)
LEMMA TransfersHaveReservesStep ==
    ASSUME TypeOK, MintInv, MintInv', TransfersHaveReserves, [Next]_vars
    PROVE  TransfersHaveReserves'
  <1> SUFFICES ASSUME NEW c \in Contexts, call'[c].status = "transfer"
               PROVE  call'[c].tx.memo.id \in DOMAIN reserves'
    BY DEF TransfersHaveReserves
  <1>1. CASE call'[c] = call[c]
    <2>1. call[c].tx.memo.id \in DOMAIN reserves /\ call[c].tx.memo.id \in Claims(c)
      BY <1>1 DEF TransfersHaveReserves, Claims
    <2>2. ~RemoveReserve(call[c].tx.memo.id)
      BY <2>1 DEF MintInv, MintExclusion, RemoveReserve, Removable
    <2> QED
      BY <1>1, <2>1, <2>2, ReserveSteps
  <1>2. CASE StartsMint(c)
    <2>1. call'[c].tx.memo.id = handler'[c].id /\ handler'[c].at = "transfer"
      BY <1>2 DEF StartsMint, StartsTransfer, Sends
    <2> QED
      BY <2>1 DEF MintInv, HandlerReserveExists, Live
  <1>3. ~(\/ ServeBalance(c) \/ ExecuteTransfer(c) \/ RefuseDuplicate(c)
          \/ Reject(c) \/ LoseReply(c))
    BY DEF ServeBalance, ExecuteTransfer, RefuseDuplicate, Reject, LoseReply, Reply,
           Failed, TypeOK, LedgerTypeOK
  <1> QED
    BY <1>1, <1>2, <1>3, ContextSteps DEF Rests, Ends, Asks, Served, NoCall

(* Ids are never taken back. *)
LEMMA IdsGrow ==
    ASSUME TypeOK, [Next]_vars
    PROVE  next_reserve_id' \in Nat /\ next_reserve_id' >= next_reserve_id
  <1>1. ASSUME Admin
        PROVE  next_reserve_id' \in {next_reserve_id, next_reserve_id + 1}
    BY <1>1 DEF Admin, AddReserve, UpdateReserve, RemoveReserve, SetGlobalPolicy,
                ReleaseStuckMintState
  <1>2. Admin \/ next_reserve_id' = next_reserve_id
    BY DEF Next, vars, minter_vars, Begin, TimerTick,
           RebalanceReserve, RebalanceAllReserves, StartRebalance, ManualTopup, Resume,
           BalanceFailed, NothingToMint, SendMint, RebalanceMinted, RebalanceMintFailed,
           TopupMinted, TopupMintFailed, FinishWith, LedgerStep, Trap, DropOrphanReply,
           Upgrade, Tick
  <1> QED
    BY <1>1, <1>2 DEF TypeOK

TransfersHaveIds ==
    \A c \in Contexts : call[c].status = "transfer" => call[c].tx.memo.id \in AssignedIds

LEMMA BlocksHaveIdsStep ==
    ASSUME TypeOK, TransfersHaveIds, BlocksHaveIds, [Next]_vars
    PROVE  BlocksHaveIds'
  <1>1. AssignedIds \subseteq AssignedIds'
    BY IdsGrow DEF AssignedIds, TypeOK
  <1>2. CASE blocks' = blocks
    BY <1>1, <1>2 DEF BlocksHaveIds
  <1>3. ASSUME NEW c \in Contexts, ExecuteTransfer(c)
        PROVE  BlocksHaveIds'
    <2>1. call[c].tx \in Transfer /\ blocks \in Seq(Transfer)
      BY <1>3, CallType DEF ExecuteTransfer, TypeOK, LedgerTypeOK
    <2>2. /\ DOMAIN blocks' = DOMAIN blocks \cup {Len(blocks) + 1}
          /\ \A i \in DOMAIN blocks : blocks'[i] = blocks[i]
          /\ blocks'[Len(blocks) + 1] = call[c].tx
      BY <1>3, <2>1 DEF ExecuteTransfer
    <2>3. call[c].tx.memo.id \in AssignedIds
      BY <1>3 DEF ExecuteTransfer, TransfersHaveIds
    <2> QED
      BY <1>1, <2>2, <2>3 DEF BlocksHaveIds
  <1> QED
    BY <1>2, <1>3, LogSteps

(* A transfer loses its handler only to a trap or an upgrade. *)
LEMMA TransfersHaveHandlersStep ==
    ASSUME TypeOK, TransfersHaveHandlers, [Next]_vars
    PROVE  TransfersHaveHandlers'
  <1> SUFFICES ASSUME NEW c \in Contexts, call'[c].status = "transfer"
               PROVE  handler'[c].at = "transfer" \/ (Lossy /\ ~Live(c)')
    BY DEF TransfersHaveHandlers, Lossy
  <1>1. CASE handler'[c] = handler[c] /\ call'[c] = call[c]
    BY <1>1 DEF TransfersHaveHandlers, Live
  <1>2. CASE Ends(c) /\ handler'[c] # handler[c]
    <2>1. call'[c] = call[c] /\ handler'[c] = Idle /\ ~Live(c)'
      BY <1>2 DEF Ends, NoCall, Live, Idle
    <2>2. ~Begin(c) /\ ~(c = Timer /\ TimerTick)
      <3>1. ~Free(c)
        BY <2>1 DEF Free, NoCall
      <3> QED
        BY <3>1 DEF Begin, RebalanceReserve, RebalanceAllReserves, StartRebalance,
                    ManualTopup, AdminMayMint, TimerTick
    <2>3. ~Resume(c)
      BY <2>1 DEF Resume, BalanceFailed, NothingToMint, SendMint, RebalanceMinted,
                  RebalanceMintFailed, TopupMinted, TopupMintFailed, Succeeded, Failed
    <2>4. CASE Trap(c)
      <3>1. "trap" \in Environment
        BY <2>4 DEF Trap
      <3> QED
        BY <2>1, <3>1 DEF Lossy, Losses
    <2>5. CASE Upgrade
      <3>1. "live_upgrade" \in Environment \/ ~Live(c)
        BY <2>5 DEF Upgrade
      <3>2. handler[c] # Idle => Live(c)
        BY DEF Live, TypeOK, Handler
      <3> QED
        BY <1>2, <2>1, <3>1, <3>2 DEF Lossy, Losses
    <2> QED
      BY <1>2, <2>2, <2>3, <2>4, <2>5, HandlerSteps
  <1>3. CASE Served(c)
    <2>1. ~(\/ ServeBalance(c) \/ ExecuteTransfer(c) \/ RefuseDuplicate(c)
            \/ Reject(c) \/ LoseReply(c))
      BY DEF ServeBalance, ExecuteTransfer, RefuseDuplicate, Reject, LoseReply, Reply,
             Failed, TypeOK, LedgerTypeOK
    <2> QED
      BY <1>3, <2>1 DEF Served
  <1>4. CASE Ends(c) /\ handler'[c] = handler[c]
    BY <1>1, <1>4 DEF Ends, NoCall
  <1> QED
    BY <1>1, <1>2, <1>3, <1>4, ContextSteps DEF Rests, Asks, StartsMint, StartsTransfer

LEMMA RefinementInvariant ==
    ASSUME "live_release" \notin Environment
    PROVE  Spec => []RefinementInv
  <1> DEFINE J == CallMatches /\ KeyHeld /\ TransfersHaveReserves /\ BlocksHaveIds
                  /\ TransfersHaveHandlers
  <1>1. Init => J
    BY DEF Init, LedgerInit, CallMatches, KeyHeld, TransfersHaveReserves, BlocksHaveIds,
           TransfersHaveHandlers, AwaitsTransfer, Idle, NoCall
  <1>2. TypeOK /\ TypeOK' /\ MintInv /\ MintInv' /\ J /\ [Next]_vars => J'
    <2>1. TypeOK /\ TransfersHaveReserves => TransfersHaveIds
      BY DEF TypeOK, TransfersHaveReserves, TransfersHaveIds, AssignedIds
    <2> QED
      BY <2>1, CallMatchesStep, KeyHeldStep, TransfersHaveReservesStep,
         BlocksHaveIdsStep, TransfersHaveHandlersStep
  <1>3. TypeOK /\ MintInv /\ J <=> RefinementInv
    BY DEF RefinementInv
  <1> QED
    BY <1>1, <1>2, <1>3, TypeCorrect, MintSafety, PTL DEF Spec

-----------------------------------------------------------------------------
(* The abstract state, point by point.                                     *)

MapFacts ==
    /\ OpenMint = [id \in DOMAIN reserves |-> OpenMint[id]]
    /\ Counted = [id \in DOMAIN reserves |-> Counted[id]]
    /\ Answer = [k \in Keys |-> Answer[k]]
    /\ \A id \in DOMAIN reserves : ~Executing(id) =>
           OpenMint[id] = None /\ Counted[id] = reserves[id].lifetime_minted
    /\ \A c \in Contexts : Executed(c) =>
           /\ OpenMint[handler[c].id] = [block |-> call[c].value, key |-> handler[c].key]
           /\ OpenMint[handler[c].id] # None
           /\ Counted[handler[c].id] =
                  reserves[handler[c].id].lifetime_minted + handler[c].amount
    /\ \A k \in Keys : IsCompleted(k) =>
           Answer[k] = AnswerOf(idempotency[k].reserve_id, idempotency[k].minted_amount,
                                idempotency[k].ledger_block_index)
    /\ \A k \in Keys : \A c \in Contexts : Settling(k, c) =>
           /\ ~IsCompleted(k)
           /\ Answer[k] = AnswerOf(handler[c].id, handler[c].amount, call[c].value)
    /\ \A k \in Keys : ~IsCompleted(k) /\ (\A c \in Contexts : ~Settling(k, c)) =>
           Answer[k] = None

(* At most one handler of a reserve has its mint executed, and at most one *)
(* of a key, so the choices of the mapping are determined.                 *)
LEMMA Mapping == RefinementInv => MapFacts
  <1> SUFFICES ASSUME RefinementInv
               PROVE  MapFacts
    OBVIOUS
  <1> USE DEF RefinementInv
  <1>1. ASSUME NEW c \in Contexts, Executed(c)
        PROVE  /\ handler[c].id \in DOMAIN reserves
               /\ MinterOf(handler[c].id) = c /\ Executing(handler[c].id)
               /\ [block |-> call[c].value, key |-> handler[c].key] # None
    <2>1. Live(c)
      BY <1>1 DEF Executed, Live
    <2>2. handler[c].id \in DOMAIN reserves
      BY <2>1 DEF MintInv, HandlerReserveExists
    <2>3. ASSUME NEW d \in Contexts, Executed(d) /\ handler[d].id = handler[c].id
          PROVE  d = c
      BY <2>1, <2>3, OneHandler DEF Executed, Live
    <2>4. MinterOf(handler[c].id) = c
      BY <1>1, <2>3 DEF MinterOf
    <2>5. call[c].value \in Nat /\ handler[c].key \in Optional(Keys)
      BY <1>1, ReplyType, TransferHandlerType DEF Executed
    <2>6. [block |-> call[c].value, key |-> handler[c].key] # None
      BY <2>5, NoMintAssumption
    <2> QED
      BY <1>1, <2>2, <2>4, <2>6 DEF Executing
  <1>2. ASSUME NEW k \in Keys, NEW c \in Contexts, Settling(k, c)
        PROVE  /\ ~IsCompleted(k)
               /\ (CHOOSE d \in Contexts : Settling(k, d)) = c
    <2>1. ASSUME NEW d \in Contexts, Settling(k, d)
          PROVE  AwaitsTransfer(d, "topup") /\ handler[d].key = k /\ k # None
      BY <2>1, KeysAssumption DEF Settling, Executed, CallMatches, AwaitsTransfer
    <2>2. idempotency[k] = Pending(handler[c].id)
      BY <1>2, <2>1 DEF KeyHeld
    <2>3. ~IsCompleted(k)
      BY <2>2 DEF IsCompleted, Pending
    <2>4. \A d \in Contexts : Settling(k, d) => d = c
      BY <1>2, <2>1, OneTopup
    <2> QED
      BY <1>2, <2>3, <2>4
  <1>3. /\ OpenMint = [id \in DOMAIN reserves |-> OpenMint[id]]
        /\ Counted = [id \in DOMAIN reserves |-> Counted[id]]
        /\ Answer = [k \in Keys |-> Answer[k]]
    BY DEF OpenMint, Counted, Answer
  <1>4. ASSUME NEW id \in DOMAIN reserves, ~Executing(id)
        PROVE  OpenMint[id] = None /\ Counted[id] = reserves[id].lifetime_minted
    <2>1. reserves[id].lifetime_minted \in Nat
      BY DEF TypeOK, ReserveRecord
    <2> QED
      BY <1>4, <2>1 DEF OpenMint, Counted
  <1>5. ASSUME NEW c \in Contexts, Executed(c)
        PROVE  /\ OpenMint[handler[c].id] = [block |-> call[c].value, key |-> handler[c].key]
               /\ OpenMint[handler[c].id] # None
               /\ Counted[handler[c].id] =
                      reserves[handler[c].id].lifetime_minted + handler[c].amount
    BY <1>1, <1>5 DEF OpenMint, Counted
  <1>6. ASSUME NEW k \in Keys, IsCompleted(k)
        PROVE  Answer[k] = AnswerOf(idempotency[k].reserve_id, idempotency[k].minted_amount,
                                    idempotency[k].ledger_block_index)
    BY <1>6 DEF Answer
  <1>7. ASSUME NEW k \in Keys, NEW c \in Contexts, Settling(k, c)
        PROVE  Answer[k] = AnswerOf(handler[c].id, handler[c].amount, call[c].value)
    BY <1>2, <1>7 DEF Answer
  <1>8. ASSUME NEW k \in Keys, ~IsCompleted(k), \A c \in Contexts : ~Settling(k, c)
        PROVE  Answer[k] = None
    BY <1>8 DEF Answer
  <1> QED
    BY <1>2, <1>3, <1>4, <1>5, <1>6, <1>7, <1>8 DEF MapFacts

-----------------------------------------------------------------------------
(* What a step leaves alone of the abstract state.                         *)

AbstractVars == <<Ceiling, Counted, OpenMint, Answer, blocks>>

KeepsMint(c) ==
    /\ Executed(c)' <=> Executed(c)
    /\ Executed(c) => handler'[c] = handler[c] /\ call'[c] = call[c]

(* A reserve keeps its open mint and what is counted for it where no       *)
(* handler gets its answer or loses it.                                    *)
LEMMA ReserveKept ==
    ASSUME MapFacts, MapFacts', NEW id \in DOMAIN reserves, id \in DOMAIN reserves',
           reserves'[id].lifetime_minted = reserves[id].lifetime_minted,
           \A c \in Contexts : KeepsMint(c)
    PROVE  OpenMint'[id] = OpenMint[id] /\ Counted'[id] = Counted[id]
  <1>1. ASSUME NEW c \in Contexts, Executed(c), handler[c].id = id
        PROVE  OpenMint'[id] = OpenMint[id] /\ Counted'[id] = Counted[id]
    <2>1. Executed(c)' /\ handler'[c] = handler[c] /\ call'[c] = call[c]
      BY <1>1 DEF KeepsMint
    <2>2. /\ OpenMint[id] = [block |-> call[c].value, key |-> handler[c].key]
          /\ Counted[id] = reserves[id].lifetime_minted + handler[c].amount
      BY <1>1 DEF MapFacts
    <2>3. /\ OpenMint'[handler'[c].id] = [block |-> call'[c].value, key |-> handler'[c].key]
          /\ Counted'[handler'[c].id] =
                 reserves'[handler'[c].id].lifetime_minted + handler'[c].amount
      BY <2>1 DEF MapFacts
    <2> QED
      BY <1>1, <2>1, <2>2, <2>3
  <1>2. CASE ~Executing(id)
    <2>1. ~Executing(id)'
      BY <1>2 DEF Executing, KeepsMint
    <2> QED
      BY <1>2, <2>1 DEF MapFacts
  <1> QED
    BY <1>1, <1>2 DEF Executing

(* A key that is not settled by the step stays completed or not. *)
LEMMA KeyKept ==
    ASSUME TypeOK, [Next]_vars, NEW k \in Keys, ~Settles(k)
    PROVE  /\ IsCompleted(k)' <=> IsCompleted(k)
           /\ IsCompleted(k) => idempotency'[k] = idempotency[k]
  <1>1. CASE idempotency'[k] = idempotency[k]
    BY <1>1 DEF IsCompleted
  <1>2. CASE Drops(k)
    BY <1>2 DEF Drops, IsCompleted, Pending
  <1>3. CASE Takes(k)
    BY <1>3 DEF Takes, IsCompleted, Pending
  <1> QED
    BY <1>1, <1>2, <1>3, KeySteps

LEMMA AnswersKept ==
    ASSUME TypeOK, MapFacts, MapFacts', [Next]_vars, \A c \in Contexts : KeepsMint(c)
    PROVE  Answer' = Answer
  <1>1. ASSUME NEW k \in Keys
        PROVE  Answer'[k] = Answer[k]
    <2>1. ~Settles(k)
      <3> SUFFICES ASSUME NEW c \in Contexts, TopupMinted(c)
                   PROVE  FALSE
        BY DEF Settles
      <3>1. Executed(c) /\ handler'[c] # handler[c]
        BY TopupEnds DEF TopupMinted, Executed
      <3> QED
        BY <3>1 DEF KeepsMint
    <2>2. /\ IsCompleted(k)' <=> IsCompleted(k)
          /\ IsCompleted(k) => idempotency'[k] = idempotency[k]
      BY <2>1, KeyKept
    <2>3. CASE IsCompleted(k)
      BY <2>2, <2>3 DEF MapFacts
    <2>4. ASSUME NEW c \in Contexts, Settling(k, c)
          PROVE  Answer'[k] = Answer[k]
      <3>1. Executed(c) /\ handler[c].key = k
        BY <2>4 DEF Settling
      <3>2. Executed(c)' /\ handler'[c] = handler[c] /\ call'[c] = call[c]
        BY <3>1 DEF KeepsMint
      <3>3. Settling(k, c)'
        BY <3>1, <3>2 DEF Settling
      <3> QED
        BY <2>4, <3>2, <3>3 DEF MapFacts
    <2>5. CASE ~IsCompleted(k) /\ \A c \in Contexts : ~Settling(k, c)
      <3>1. \A c \in Contexts : ~Settling(k, c)'
        BY <2>5 DEF Settling, KeepsMint
      <3> QED
        BY <2>2, <2>5, <3>1 DEF MapFacts
    <2> QED
      BY <2>3, <2>4, <2>5
  <1> QED
    BY <1>1 DEF MapFacts

(* So a step that touches neither a reserve nor an executed mint is no     *)
(* step of the abstract specification.                                     *)
LEMMA Unseen ==
    ASSUME TypeOK, MapFacts, MapFacts', [Next]_vars, \A c \in Contexts : KeepsMint(c),
           blocks' = blocks, loosest' = loosest, reserves' = reserves
    PROVE  UNCHANGED AbstractVars
  <1>1. \A id \in DOMAIN reserves : OpenMint'[id] = OpenMint[id] /\ Counted'[id] = Counted[id]
    BY ReserveKept
  <1>2. OpenMint' = OpenMint /\ Counted' = Counted
    BY <1>1 DEF MapFacts
  <1>3. Answer' = Answer
    BY AnswersKept
  <1>4. Ceiling' = Ceiling
    BY DEF Ceiling
  <1> QED
    BY <1>2, <1>3, <1>4 DEF AbstractVars

(* A handler that goes on in its loop loses no mint but the one it had.    *)
LEMMA ContinueKeeps ==
    ASSUME TypeOK, NEW c \in Contexts, NEW queue, NEW locked, ContinueWith(c, queue, locked)
    PROVE  /\ \A d \in Contexts \ {c} : KeepsMint(d)
           /\ ~Executed(c)'
           /\ ~Executed(c) => KeepsMint(c)
  <1>1. \A d \in Contexts \ {c} : handler'[d] = handler[d] /\ call'[d] = call[d]
    BY ContinueFacts
  <1>2. handler'[c].at # "transfer"
    BY ContinueFacts DEF Idle
  <1>3. ~Executed(c)'
    BY <1>2 DEF Executed
  <1>4. \A d \in Contexts \ {c} : KeepsMint(d)
    BY <1>1 DEF KeepsMint, Executed, Succeeded
  <1> QED
    BY <1>3, <1>4 DEF KeepsMint

(* Beginning, asking for a balance, sending a transfer and learning of its *)
(* failure are not seen.                                                   *)
LEMMA HandlersUnseen ==
    ASSUME TypeOK, MapFacts, MapFacts', [Next]_vars, NEW c \in Contexts,
           Begin(c) \/ (c = Timer /\ TimerTick) \/ Resume(c),
           ~RebalanceMinted(c), ~TopupMinted(c)
    PROVE  UNCHANGED AbstractVars
  <1>1. ASSUME NEW queue, StartRebalance(c, queue)
        PROVE  UNCHANGED AbstractVars
    <2>1. ContinueWith(c, queue, reserve_mint_inflight) /\ ~Executed(c)
      BY <1>1 DEF StartRebalance, Free, Live, Executed
    <2>2. \A d \in Contexts : KeepsMint(d)
      BY <2>1, ContinueKeeps
    <2> QED
      BY <1>1, <2>2, Unseen DEF StartRebalance
  <1>2. ASSUME StartsMint(c), ~Executed(c),
               \A d \in Contexts \ {c} : handler'[d] = handler[d] /\ call'[d] = call[d]
        PROVE  \A d \in Contexts : KeepsMint(d)
    <2>1. ~Executed(c)'
      BY <1>2 DEF StartsMint, StartsTransfer, Executed, Succeeded
    <2> QED
      BY <1>2, <2>1 DEF KeepsMint, Executed, Succeeded
  <1>3. ASSUME NEW id \in DOMAIN reserves, NEW amount \in TopupAmounts,
               NEW key \in Optional(Keys), ManualTopup(c, id, amount, key)
        PROVE  UNCHANGED AbstractVars
    <2>1. ~Executed(c)
      BY <1>3 DEF ManualTopup, AdminMayMint, Free, Live, Executed
    <2>2. \A d \in Contexts : KeepsMint(d)
      BY <1>2, <1>3, <2>1, TopupSends
    <2> QED
      BY <1>3, <2>2, Unseen DEF ManualTopup
  <1>4. ASSUME SendMint(c)
        PROVE  UNCHANGED AbstractVars
    <2>1. ~Executed(c)
      BY <1>4 DEF SendMint, AwaitsBalance, Executed
    <2>2. \A d \in Contexts : KeepsMint(d)
      BY <1>2, <1>4, <2>1, RebalanceSends
    <2> QED
      BY <1>4, <2>2, Unseen DEF SendMint
  <1>5. ASSUME BalanceFailed(c) \/ NothingToMint(c) \/ RebalanceMintFailed(c) \/ TopupMintFailed(c)
        PROVE  UNCHANGED AbstractVars
    <2>1. ~Executed(c) /\ FinishWith(c) /\ reserves' = reserves
      BY <1>5 DEF BalanceFailed, NothingToMint, RebalanceMintFailed, TopupMintFailed,
                  AwaitsBalance, AwaitsTransfer, Executed, Succeeded, Failed
    <2>2. \A d \in Contexts : KeepsMint(d)
      BY <2>1, ContinueKeeps DEF FinishWith
    <2> QED
      BY <2>1, <2>2, Unseen DEF FinishWith
  <1> QED
    BY <1>1, <1>3, <1>4, <1>5
    DEF Begin, RebalanceReserve, RebalanceAllReserves, TimerTick, Resume

(* Nor are balances, rejections, replies to nobody, users and time. *)
LEMMA EnvironmentUnseen ==
    ASSUME TypeOK, MapFacts, MapFacts', [Next]_vars,
           handler' = handler, blocks' = blocks, loosest' = loosest, reserves' = reserves,
           \/ UNCHANGED call
           \/ \E c \in Contexts :
                  \/ ServeBalance(c) /\ ~Executed(c)'
                  \/ Reject(c) \/ DropOrphanReply(c)
                  \/ ~Live(c) /\ (RefuseDuplicate(c) \/ LoseReply(c))
    PROVE  UNCHANGED AbstractVars
  <1>1. CASE UNCHANGED call
    <2>1. \A d \in Contexts : KeepsMint(d)
      BY <1>1 DEF KeepsMint, Executed, Succeeded
    <2> QED
      BY <2>1, Unseen
  <1>2. ASSUME NEW c \in Contexts,
               \/ ServeBalance(c) /\ ~Executed(c)'
               \/ Reject(c) \/ DropOrphanReply(c)
               \/ ~Live(c) /\ (RefuseDuplicate(c) \/ LoseReply(c))
        PROVE  UNCHANGED AbstractVars
    <2>1. \A d \in Contexts \ {c} : call'[d] = call[d]
      BY <1>2 DEF ServeBalance, Reject, DropOrphanReply, RefuseDuplicate, LoseReply, Reply,
                  TypeOK, LedgerTypeOK
    <2>2. ~Executed(c) /\ ~Executed(c)'
      <3>1. CASE ServeBalance(c) /\ ~Executed(c)'
        BY <3>1 DEF ServeBalance, Executed, Succeeded
      <3>2. CASE Reject(c)
        BY <3>2 DEF Reject, Executed, Succeeded, Failed, TypeOK, LedgerTypeOK
      <3>3. CASE ~Live(c)
        BY <3>3 DEF Live, Executed
      <3> QED
        BY <1>2, <3>1, <3>2, <3>3 DEF DropOrphanReply
    <2>3. \A d \in Contexts : KeepsMint(d)
      BY <2>1, <2>2 DEF KeepsMint, Executed, Succeeded
    <2> QED
      BY <2>3, Unseen
  <1> QED
    BY <1>1, <1>2

-----------------------------------------------------------------------------
(* The steps of the abstract specification.                                *)

(* Registering a reserve. *)
LEMMA RegisterStep ==
    ASSUME RefinementInv, MapFacts, MapFacts', [Next]_vars, NEW config \in AddArgs,
           AddReserve(config)
    PROVE  Atomic!Register
  <1>0. PICK id : id = next_reserve_id
    OBVIOUS
  <1>1. /\ id \in Nat /\ id \notin DOMAIN reserves
        /\ DOMAIN reserves' = DOMAIN reserves \cup {id}
        /\ reserves'[id] = NewRecord(config)
        /\ \A r \in DOMAIN reserves : /\ reserves'[r] = reserves[r]
                                      /\ loosest'[r] = loosest[r]
        /\ UNCHANGED <<handler, call, blocks>>
    BY <1>0 DEF AddReserve, ledger_vars, RefinementInv, TypeOK
  <1>2. \A c \in Contexts : KeepsMint(c)
    BY <1>1 DEF KeepsMint, Executed, Succeeded
  <1>3. Answer' = Answer
    BY <1>2, AnswersKept DEF RefinementInv
  <1>4. \A r \in DOMAIN reserves : OpenMint'[r] = OpenMint[r] /\ Counted'[r] = Counted[r]
    BY <1>1, <1>2, ReserveKept
  <1>5. ~Executing(id)'
    <2> SUFFICES ASSUME NEW c \in Contexts, Executed(c)', handler'[c].id = id
                 PROVE  FALSE
      BY DEF Executing
    <2>1. Executed(c) /\ handler[c].id = id
      BY <1>2 DEF KeepsMint
    <2>2. Live(c)
      BY <2>1 DEF Live, Executed
    <2> QED
      BY <1>1, <2>1, <2>2 DEF RefinementInv, MintInv, HandlerReserveExists
  <1>6. OpenMint'[id] = None /\ Counted'[id] = 0
    BY <1>1, <1>5 DEF MapFacts, NewRecord
  <1>7. \A i \in DOMAIN blocks : blocks[i].memo.id # id
    BY <1>0, <1>1 DEF RefinementInv, TypeOK, BlocksHaveIds, AssignedIds
  <1>8. DOMAIN Ceiling = DOMAIN reserves /\ DOMAIN Ceiling' = DOMAIN reserves'
    BY DEF Ceiling
  <1>9. Ceiling' = [r \in DOMAIN reserves \cup {id} |->
                        IF r = id THEN Ceiling'[id] ELSE Ceiling[r]]
    BY <1>1 DEF Ceiling
  <1>10. Counted' = [r \in DOMAIN reserves \cup {id} |-> IF r = id THEN 0 ELSE Counted[r]]
    BY <1>1, <1>4, <1>6 DEF MapFacts
  <1>11. OpenMint' = [r \in DOMAIN reserves \cup {id} |-> IF r = id THEN None ELSE OpenMint[r]]
    BY <1>1, <1>4, <1>6 DEF MapFacts
  <1> QED
    BY <1>1, <1>3, <1>7, <1>8, <1>9, <1>10, <1>11
    DEF Atomic!Register, Atomic!Registered

(* The looser of two limits covers the first. *)
LEMMA LooserCovers ==
    ASSUME NEW a \in Optional(Nat), NEW b \in Optional(Nat)
    PROVE  Looser(a, b) # None => a # None /\ a <= Looser(a, b)
  BY NoneAssumption DEF Looser, Optional

(* An update loosens the ceiling of its reserve, or leaves it. *)
LEMMA LoosenStep ==
    ASSUME RefinementInv, MapFacts, MapFacts', [Next]_vars, NEW id \in DOMAIN reserves,
           NEW arg \in UpdateArgs, UpdateReserve(id, arg)
    PROVE  Atomic!Loosen
  <1> DEFINE updated == Updated(reserves[id].config, arg)
  <1>1. /\ reserves' = [reserves EXCEPT ![id] = WithConfig(@, updated)]
        /\ loosest' = [loosest EXCEPT ![id] = Relax(@, updated)]
        /\ UNCHANGED <<handler, call, blocks>>
    BY DEF UpdateReserve, ledger_vars
  <1>2. updated \in ReserveConfig
    BY ArgumentsAssumption, UpdatedType DEF RefinementInv, TypeOK, ReserveRecord
  <1>3. \A c \in Contexts : KeepsMint(c)
    BY <1>1 DEF KeepsMint, Executed, Succeeded
  <1>4. Answer' = Answer
    BY <1>3, AnswersKept DEF RefinementInv
  <1>5. DOMAIN reserves' = DOMAIN reserves
    BY <1>1
  <1>6. ASSUME NEW r \in DOMAIN reserves
        PROVE  reserves'[r].lifetime_minted = reserves[r].lifetime_minted
    <2>1. reserves[r] \in ReserveRecord
      BY DEF RefinementInv, TypeOK
    <2>2. r \in DOMAIN reserves /\ reserves = [x \in DOMAIN reserves |-> reserves[x]]
      BY DEF RefinementInv, TypeOK
    <2> QED
      BY <1>1, <2>1, <2>2 DEF WithConfig, ReserveRecord
  <1>7. OpenMint' = OpenMint /\ Counted' = Counted
    BY <1>3, <1>5, <1>6, ReserveKept DEF MapFacts
  <1>8. /\ loosest[id] \in Caps /\ loosest = [r \in DOMAIN reserves |-> loosest[r]]
        /\ loosest'[id] = Relax(loosest[id], updated)
        /\ \A r \in DOMAIN reserves : r # id => loosest'[r] = loosest[r]
    BY <1>1 DEF RefinementInv, TypeOK
  <1>9. /\ loosest[id].lifetime \in Optional(Nat)
        /\ loosest'[id].lifetime =
               Looser(loosest[id].lifetime, updated.lifetime_received_maximum)
        /\ updated.lifetime_received_maximum \in Optional(Nat)
    BY <1>2, <1>8 DEF Caps, Relax, ReserveConfig
  <1>10. /\ Ceiling[id] = loosest[id].lifetime /\ Ceiling'[id] = loosest'[id].lifetime
         /\ DOMAIN Ceiling = DOMAIN reserves /\ DOMAIN Ceiling' = DOMAIN reserves
         /\ Ceiling' = [Ceiling EXCEPT ![id] = Ceiling'[id]]
    BY <1>5, <1>8 DEF Ceiling
  <1>11. Ceiling'[id] # None => Ceiling[id] # None /\ Ceiling[id] <= Ceiling'[id]
    BY <1>9, <1>10, LooserCovers
  <1> QED
    BY <1>1, <1>4, <1>7, <1>10, <1>11 DEF Atomic!Loosen, Atomic!Registered

(* A reserve with an open mint is locked, so a removed one has none. *)
LEMMA RemoveStep ==
    ASSUME RefinementInv, MapFacts, MapFacts', [Next]_vars, NEW id \in DOMAIN reserves,
           RemoveReserve(id)
    PROVE  Atomic!Remove
  <1>1. /\ DOMAIN reserves' = DOMAIN reserves \ {id}
        /\ \A r \in DOMAIN reserves \ {id} : /\ reserves'[r] = reserves[r]
                                            /\ loosest'[r] = loosest[r]
        /\ UNCHANGED <<handler, call, blocks>>
    BY DEF RemoveReserve, ledger_vars
  <1>2. \A c \in Contexts : KeepsMint(c)
    BY <1>1 DEF KeepsMint, Executed, Succeeded
  <1>3. Answer' = Answer
    BY <1>2, AnswersKept DEF RefinementInv
  <1>4. \A r \in DOMAIN reserves \ {id} :
            OpenMint'[r] = OpenMint[r] /\ Counted'[r] = Counted[r]
    BY <1>1, <1>2, ReserveKept
  <1>5. OpenMint[id] = None
    <2>1. ~Executing(id)
      BY DEF RemoveReserve, Removable, RefinementInv, MintInv, MintExclusion, Claims, Live,
             Executing, Executed
    <2> QED
      BY <2>1 DEF MapFacts
  <1>6. /\ DOMAIN Ceiling = DOMAIN reserves
        /\ Ceiling' = [r \in DOMAIN reserves \ {id} |-> Ceiling[r]]
    BY <1>1 DEF Ceiling
  <1>7. /\ Counted' = [r \in DOMAIN reserves \ {id} |-> Counted[r]]
        /\ OpenMint' = [r \in DOMAIN reserves \ {id} |-> OpenMint[r]]
    BY <1>1, <1>4 DEF MapFacts
  <1> QED
    BY <1>1, <1>3, <1>5, <1>6, <1>7 DEF Atomic!Remove, Atomic!Registered

(* The ledger answers the transfer of c, which a handler waits for, with   *)
(* block i: its mint is counted.                                           *)
LEMMA AnsweredTransfer ==
    ASSUME RefinementInv, RefinementInv', MapFacts, MapFacts', NEW c \in Contexts,
           call[c].status = "transfer", handler[c].at = "transfer",
           Executed(c)', handler' = handler,
           \A d \in Contexts \ {c} : call'[d] = call[d],
           reserves' = reserves, loosest' = loosest, idempotency' = idempotency
    PROVE  \E key \in Keys \cup {None} :
               Atomic!CountBlock(call'[c].value, call[c].tx, key)
  <1> DEFINE id == handler[c].id
             key == handler[c].key
             tx == call[c].tx
  <1>1. /\ tx.memo.id = id /\ tx.memo.key = Truncated(key) /\ tx.amount = handler[c].amount
        /\ handler[c].origin \in {"rebalance", "topup"}
        /\ handler[c].origin = "rebalance" => key = None
    <2>1. /\ Sends(handler[c], call[c].tx)
          /\ handler[c].origin \in {"rebalance", "topup"}
          /\ handler[c].origin = "rebalance" => handler[c].key = None
      BY DEF RefinementInv, CallMatches
    <2> QED
      BY <2>1 DEF Sends
  <1>2. Live(c) /\ id \in Claims(c) /\ id \in DOMAIN reserves /\ ~Executed(c)
    BY DEF Live, Claims, RefinementInv, MintInv, HandlerReserveExists, Executed, Succeeded
  <1>3. \A d \in Contexts \ {c} :
            /\ Executed(d)' <=> Executed(d)
            /\ Executed(d) => handler[d].id # id
    BY <1>2, OneHandler DEF RefinementInv, Executed, Succeeded, Live
  <1>4. /\ ~Executing(id) /\ Executing(id)'
        /\ \A r \in DOMAIN reserves \ {id} : Executing(r)' <=> Executing(r)
    BY <1>2, <1>3 DEF Executing
  <1>5. OpenMint[id] = None /\ Counted[id] = reserves[id].lifetime_minted
    BY <1>2, <1>4 DEF MapFacts
  <1>6. /\ OpenMint'[id] = [block |-> call'[c].value, key |-> key]
        /\ Counted'[id] = reserves[id].lifetime_minted + handler[c].amount
    BY DEF MapFacts
  <1>7. ASSUME NEW r \in DOMAIN reserves \ {id}
        PROVE  OpenMint'[r] = OpenMint[r] /\ Counted'[r] = Counted[r]
    <2>1. ASSUME NEW d \in Contexts, Executed(d), handler[d].id = r
          PROVE  OpenMint'[r] = OpenMint[r] /\ Counted'[r] = Counted[r]
      <3>1. d # c /\ Executed(d)' /\ call'[d] = call[d] /\ handler'[d] = handler[d]
        BY <1>2, <1>3, <2>1
      <3>2. /\ OpenMint[r] = [block |-> call[d].value, key |-> handler[d].key]
            /\ Counted[r] = reserves[r].lifetime_minted + handler[d].amount
        BY <2>1 DEF MapFacts
      <3>3. /\ OpenMint'[handler'[d].id] =
                   [block |-> call'[d].value, key |-> handler'[d].key]
            /\ Counted'[handler'[d].id] =
                   reserves'[handler'[d].id].lifetime_minted + handler'[d].amount
        BY <3>1 DEF MapFacts
      <3> QED
        BY <2>1, <3>1, <3>2, <3>3
    <2>2. CASE ~Executing(r)
      BY <1>4, <2>2 DEF MapFacts
    <2> QED
      BY <2>1, <2>2 DEF Executing
  <1>8. /\ Counted' = [Counted EXCEPT ![id] = @ + tx.amount]
        /\ OpenMint' = [OpenMint EXCEPT ![id] = [block |-> call'[c].value, key |-> key]]
    BY <1>1, <1>2, <1>5, <1>6, <1>7 DEF MapFacts
  <1>9. Ceiling[id] # None => Counted[id] + tx.amount <= Ceiling[id]
    <2>1. Within(reserves[id].lifetime_minted + handler[c].amount, loosest[id].lifetime)
      BY <1>2 DEF RefinementInv, MintInv, LifetimeCeiling
    <2>2. Ceiling[id] = loosest[id].lifetime
      BY <1>2 DEF Ceiling
    <2> QED
      BY <1>1, <1>5, <2>1, <2>2 DEF Within
  <1>10. key \in Keys \cup {None}
    BY TransferHandlerType DEF RefinementInv, Optional
  <1>11. ASSUME NEW k \in Keys, NEW d \in Contexts, Settling(k, d), d # c
         PROVE  k # key
    <2>1. AwaitsTransfer(d, "topup") /\ handler[d].key = k
      BY <1>11, KeysAssumption DEF Settling, Executed, RefinementInv, CallMatches,
                                   AwaitsTransfer
    <2>2. k = key => AwaitsTransfer(c, "topup")
      BY <1>1, KeysAssumption DEF AwaitsTransfer
    <2> QED
      BY <1>11, <2>1, <2>2, KeysAssumption, OneTopup DEF RefinementInv
  <1>12. ASSUME key \in Keys
         PROVE  ~IsCompleted(key) /\ Answer[key] = None
    <2>1. AwaitsTransfer(c, "topup")
      BY <1>1, <1>12, KeysAssumption DEF AwaitsTransfer
    <2>2. idempotency[key] = Pending(id)
      BY <1>12, <2>1, KeysAssumption DEF RefinementInv, KeyHeld
    <2>3. ~IsCompleted(key)
      BY <2>2 DEF IsCompleted, Pending
    <2>4. \A d \in Contexts : ~Settling(key, d)
      BY <1>2, <1>11, <1>12 DEF Settling
    <2> QED
      BY <1>12, <2>3, <2>4 DEF MapFacts
  <1>13. ASSUME NEW k \in Keys, k # key
         PROVE  Answer'[k] = Answer[k]
    <2>1. IsCompleted(k)' <=> IsCompleted(k)
      BY DEF IsCompleted
    <2>2. CASE IsCompleted(k)
      BY <2>1, <2>2 DEF MapFacts
    <2>3. ASSUME NEW d \in Contexts, Settling(k, d)
          PROVE  Answer'[k] = Answer[k]
      <3>1. d # c /\ Settling(k, d)'
        BY <1>3, <1>13, <2>3 DEF Settling
      <3> QED
        BY <2>3, <3>1 DEF MapFacts
    <2>4. CASE ~IsCompleted(k) /\ \A d \in Contexts : ~Settling(k, d)
      <3>1. \A d \in Contexts : ~Settling(k, d)'
        BY <1>3, <1>13, <2>4 DEF Settling
      <3> QED
        BY <2>1, <2>4, <3>1 DEF MapFacts
    <2> QED
      BY <2>2, <2>3, <2>4
  <1>14. key \in Keys => Answer'[key] = AnswerOf(id, handler[c].amount, call'[c].value)
    <2>1. Settling(key, c)'
      BY DEF Settling
    <2> QED
      BY <2>1 DEF MapFacts
  <1>15. Answer' = [k \in Keys |-> IF k = key
              THEN [reserve_id |-> id, minted_amount |-> tx.amount,
                    ledger_block_index |-> call'[c].value]
              ELSE Answer[k]]
    BY <1>1, <1>13, <1>14 DEF MapFacts, AnswerOf
  <1>16. IF key = None THEN tx.memo.key = None
         ELSE KeyPrefix[key] = tx.memo.key /\ Answer[key] = None
    BY <1>1, <1>10, <1>12 DEF Truncated
  <1>17. id \in DOMAIN Ceiling
    BY <1>2 DEF Ceiling
  <1> HIDE DEF key, tx
  <1> SUFFICES Atomic!CountBlock(call'[c].value, tx, key)
    BY <1>10 DEF key, tx
  <1> QED
    BY <1>1, <1>5, <1>8, <1>9, <1>15, <1>16, <1>17
    DEF Atomic!CountBlock, Atomic!Registered

(* The ledger executes the transfer that a handler waits for. *)
LEMMA MintStep ==
    ASSUME RefinementInv, RefinementInv', MapFacts, MapFacts', NEW c \in Contexts,
           ExecuteTransfer(c), handler[c].at = "transfer",
           UNCHANGED <<minter_vars, clock>>
    PROVE  Atomic!Mint
  <1>1. call[c].tx \in Transfer /\ blocks \in Seq(Transfer) /\ call[c].status = "transfer"
    BY CallType DEF ExecuteTransfer, RefinementInv, TypeOK, LedgerTypeOK
  <1>2. /\ blocks' = Append(blocks, call[c].tx)
        /\ call'[c].status = "ok" /\ call'[c].value = Len(blocks) + 1
        /\ \A d \in Contexts \ {c} : call'[d] = call[d]
        /\ UNCHANGED <<handler, reserves, loosest, idempotency>>
    BY DEF ExecuteTransfer, Reply, minter_vars, RefinementInv, TypeOK, LedgerTypeOK
  <1>3. /\ Len(blocks') = Len(blocks) + 1 /\ blocks'[Len(blocks')] = call[c].tx
    BY <1>1, <1>2
  <1>4. Executed(c)'
    BY <1>2 DEF Executed, Succeeded
  <1>5. \E key \in Keys \cup {None} : Atomic!CountBlock(call'[c].value, call[c].tx, key)
    BY <1>1, <1>2, <1>4, AnsweredTransfer
  <1>6. Ceiling' = Ceiling
    BY <1>2 DEF Ceiling
  <1> QED
    BY <1>2, <1>3, <1>5, <1>6 DEF Atomic!Mint, Atomic!IsNewBlock, Atomic!Created

(* The ledger takes the transfer that a handler waits for for an earlier   *)
(* one.                                                                    *)
LEMMA RecountStep ==
    ASSUME RefinementInv, RefinementInv', MapFacts, MapFacts', NEW c \in Contexts,
           RefuseDuplicate(c), handler[c].at = "transfer",
           UNCHANGED <<minter_vars, clock>>
    PROVE  Atomic!Recount
  <1>1. PICK i \in DOMAIN blocks : blocks[i] = call[c].tx /\ Reply(c, "duplicate", i)
    BY DEF RefuseDuplicate
  <1>2. /\ call'[c].status = "duplicate" /\ call'[c].value = i
        /\ \A d \in Contexts \ {c} : call'[d] = call[d]
        /\ UNCHANGED <<handler, reserves, loosest, idempotency>>
    BY <1>1 DEF Reply, minter_vars, RefinementInv, TypeOK, LedgerTypeOK
  <1>3. Executed(c)'
    BY <1>2 DEF Executed, Succeeded
  <1>4. \E key \in Keys \cup {None} : Atomic!CountBlock(call'[c].value, call[c].tx, key)
    BY <1>2, <1>3, AnsweredTransfer DEF RefuseDuplicate
  <1>5. Ceiling' = Ceiling
    BY <1>2 DEF Ceiling
  <1> QED
    BY <1>1, <1>2, <1>4, <1>5 DEF Atomic!Recount, RefuseDuplicate

(* The ledger executes a transfer whose handler is gone. *)
LEMMA UnseenMintStep ==
    ASSUME RefinementInv, RefinementInv', MapFacts, MapFacts', [Next]_vars,
           NEW c \in Contexts, ExecuteTransfer(c), handler[c].at # "transfer",
           UNCHANGED <<minter_vars, clock>>
    PROVE  Atomic!MintUnseen
  <1>1. call[c].tx \in Transfer /\ blocks \in Seq(Transfer) /\ call[c].status = "transfer"
    BY CallType DEF ExecuteTransfer, RefinementInv, TypeOK, LedgerTypeOK
  <1>2. /\ blocks' = Append(blocks, call[c].tx)
        /\ \A d \in Contexts \ {c} : call'[d] = call[d]
        /\ UNCHANGED <<handler, reserves, loosest, idempotency>>
    BY DEF ExecuteTransfer, Reply, minter_vars, RefinementInv, TypeOK, LedgerTypeOK
  <1>3. Len(blocks') = Len(blocks) + 1 /\ blocks'[Len(blocks')] = call[c].tx
    BY <1>1, <1>2
  <1>4. Lossy
    BY <1>1 DEF RefinementInv, TransfersHaveHandlers
  <1>5. \A d \in Contexts : KeepsMint(d)
    BY <1>2 DEF KeepsMint, Executed, Succeeded
  <1>6. \A id \in DOMAIN reserves : OpenMint'[id] = OpenMint[id] /\ Counted'[id] = Counted[id]
    BY <1>2, <1>5, ReserveKept
  <1>7. OpenMint' = OpenMint /\ Counted' = Counted
    BY <1>2, <1>6 DEF MapFacts
  <1>8. Answer' = Answer
    BY <1>5, AnswersKept DEF RefinementInv
  <1>9. Ceiling' = Ceiling /\ DOMAIN Ceiling = DOMAIN reserves
    BY <1>2 DEF Ceiling
  <1>10. call[c].tx.memo.id \in DOMAIN reserves /\ call[c].tx.memo.id \in Claims(c)
    BY <1>1 DEF RefinementInv, TransfersHaveReserves, Claims
  <1>11. OpenMint[call[c].tx.memo.id] = None
    <2>1. ASSUME NEW d \in Contexts, Executed(d), handler[d].id = call[c].tx.memo.id
          PROVE  FALSE
      <3>1. call[c].tx.memo.id \in Claims(d) /\ d # c
        BY <1>1, <2>1 DEF Claims, Live, Executed, Succeeded
      <3> QED
        BY <1>10, <3>1 DEF RefinementInv, MintInv, MintExclusion
    <2> QED
      BY <1>10, <2>1 DEF MapFacts, Executing
  <1> QED
    BY <1>2, <1>3, <1>4, <1>7, <1>8, <1>9, <1>10, <1>11
    DEF Atomic!MintUnseen, Atomic!IsNewBlock, Atomic!Created, Atomic!Registered, Lossy

(* The continuation of an executed mint records and confirms it. *)
LEMMA ConfirmStep ==
    ASSUME RefinementInv, RefinementInv', MapFacts, MapFacts', [Next]_vars,
           NEW c \in Contexts, RebalanceMinted(c) \/ TopupMinted(c)
    PROVE  Atomic!Confirm
  <1>0. PICK id, amount, now :
            id = handler[c].id /\ amount = handler[c].amount /\ now = handler[c].now
    OBVIOUS
  <1>1. /\ handler[c].at = "transfer" /\ Succeeded(call[c]) /\ Executed(c)
        /\ RecordMint(id, amount, now) /\ FinishWith(c)
        /\ blocks' = blocks /\ loosest' = loosest
    BY <1>0 DEF RebalanceMinted, TopupMinted, AwaitsTransfer, Executed, FinishWith
  <1>2. id \in DOMAIN reserves /\ amount \in Nat /\ now \in Instants
    BY <1>0, <1>1, TransferHandlerType
    DEF RefinementInv, MintInv, HandlerReserveExists, Live
  <1>3. /\ \A d \in Contexts \ {c} : KeepsMint(d)
        /\ ~Executed(c)'
    BY <1>1, ContinueKeeps DEF FinishWith, RefinementInv
  <1>4. \A d \in Contexts \ {c} : Executed(d) => handler[d].id # id
    BY <1>0, <1>1, OneHandler DEF RefinementInv, Executed, Live
  <1>5. DOMAIN reserves' = DOMAIN reserves
    BY <1>1 DEF RecordMint
  <1>6. /\ \A r \in DOMAIN reserves \ {id} : reserves'[r] = reserves[r]
        /\ reserves'[id].lifetime_minted = reserves[id].lifetime_minted + amount
    BY <1>1, <1>2, WithMintType DEF RecordMint, RefinementInv, TypeOK
  <1>7. ~Executing(id)'
    BY <1>3, <1>4 DEF Executing, KeepsMint
  <1>8. /\ OpenMint[id] # None /\ OpenMint'[id] = None
        /\ Counted'[id] = Counted[id]
    <2>1. /\ OpenMint[handler[c].id] # None
          /\ Counted[handler[c].id] =
                 reserves[handler[c].id].lifetime_minted + handler[c].amount
      BY <1>1 DEF MapFacts
    <2>2. OpenMint'[id] = None /\ Counted'[id] = reserves'[id].lifetime_minted
      BY <1>2, <1>5, <1>7 DEF MapFacts
    <2> QED
      BY <1>0, <1>6, <2>1, <2>2
  <1>9. ASSUME NEW r \in DOMAIN reserves \ {id}
        PROVE  OpenMint'[r] = OpenMint[r] /\ Counted'[r] = Counted[r]
    <2>1. ASSUME NEW d \in Contexts, Executed(d), handler[d].id = r
          PROVE  OpenMint'[r] = OpenMint[r] /\ Counted'[r] = Counted[r]
      <3>1. Executed(d)' /\ call'[d] = call[d] /\ handler'[d] = handler[d]
        BY <1>0, <1>3, <2>1 DEF KeepsMint
      <3>2. /\ OpenMint[r] = [block |-> call[d].value, key |-> handler[d].key]
            /\ Counted[r] = reserves[r].lifetime_minted + handler[d].amount
        BY <2>1 DEF MapFacts
      <3>3. /\ OpenMint'[handler'[d].id] =
                   [block |-> call'[d].value, key |-> handler'[d].key]
            /\ Counted'[handler'[d].id] =
                   reserves'[handler'[d].id].lifetime_minted + handler'[d].amount
        BY <3>1 DEF MapFacts
      <3> QED
        BY <1>6, <2>1, <3>1, <3>2, <3>3
    <2>2. CASE ~Executing(r)
      <3>1. ~Executing(r)'
        BY <1>3, <2>2 DEF Executing, KeepsMint
      <3> QED
        BY <1>5, <1>6, <2>2, <3>1 DEF MapFacts
    <2> QED
      BY <2>1, <2>2 DEF Executing
  <1>10. Counted' = Counted /\ OpenMint' = [OpenMint EXCEPT ![id] = None]
    BY <1>2, <1>5, <1>8, <1>9 DEF MapFacts
  <1>11. ASSUME NEW k \in Keys
         PROVE  Answer'[k] = Answer[k]
    <2>1. CASE handler[c].key = k
      <3>1. /\ Settling(k, c) /\ ~IsCompleted(k)
            /\ Answer[k] = AnswerOf(id, amount, call[c].value)
        BY <1>0, <1>1, <2>1 DEF Settling, MapFacts
      <3>2. handler[c].origin = "topup"
        BY <1>1, <2>1, KeysAssumption DEF RefinementInv, CallMatches
      <3>3. TopupMinted(c)
        BY <3>2 DEF RebalanceMinted, AwaitsTransfer
      <3>4. idempotency'[k] = Completed(id, amount, call[c].value, now)
        BY <1>0, <1>2, <2>1, <3>3 DEF TopupMinted, CompleteKey
      <3>5. Completed(id, amount, call[c].value, now) \in IdempotencyRecord
        BY <1>0, <1>1, <1>2, TransferHandlerType, ReplyType
        DEF RefinementInv, Completed, IdempotencyRecord
      <3>6. IsCompleted(k)'
        BY <3>4, <3>5, NoEntryAssumption DEF IsCompleted, Completed
      <3>7. Answer'[k] = AnswerOf(idempotency'[k].reserve_id, idempotency'[k].minted_amount,
                                  idempotency'[k].ledger_block_index)
        BY <3>6 DEF MapFacts
      <3> QED
        BY <3>1, <3>4, <3>7 DEF Completed
    <2>2. CASE handler[c].key # k
      <3>1. ~Settles(k)
        <4> SUFFICES ASSUME NEW d \in Contexts, TopupMinted(d), handler[d].key = k
                     PROVE  FALSE
          BY DEF Settles
        <4>1. Executed(d) /\ handler'[d] # handler[d] /\ d # c
          BY <2>2, TopupEnds DEF TopupMinted, Executed, RefinementInv
        <4> QED
          BY <1>3, <4>1 DEF KeepsMint
      <3>2. /\ IsCompleted(k)' <=> IsCompleted(k)
            /\ IsCompleted(k) => idempotency'[k] = idempotency[k]
        BY <3>1, KeyKept DEF RefinementInv
      <3>3. CASE IsCompleted(k)
        BY <3>2, <3>3 DEF MapFacts
      <3>4. ASSUME NEW d \in Contexts, Settling(k, d)
            PROVE  Answer'[k] = Answer[k]
        <4>1. Executed(d) /\ d # c /\ handler[d].key = k
          BY <2>2, <3>4 DEF Settling
        <4>2. Executed(d)' /\ handler'[d] = handler[d] /\ call'[d] = call[d]
          BY <1>3, <4>1 DEF KeepsMint
        <4>3. Settling(k, d)'
          BY <4>1, <4>2 DEF Settling
        <4> QED
          BY <3>4, <4>2, <4>3 DEF MapFacts
      <3>5. CASE ~IsCompleted(k) /\ \A d \in Contexts : ~Settling(k, d)
        <4>1. \A d \in Contexts : ~Settling(k, d)'
          BY <1>3, <3>5 DEF Settling, KeepsMint
        <4> QED
          BY <3>2, <3>5, <4>1 DEF MapFacts
      <3> QED
        BY <3>3, <3>4, <3>5
    <2> QED
      BY <2>1, <2>2
  <1>12. Answer' = Answer
    BY <1>11 DEF MapFacts
  <1>13. Ceiling' = Ceiling /\ id \in DOMAIN Ceiling
    BY <1>1, <1>2, <1>5 DEF Ceiling
  <1> QED
    BY <1>1, <1>8, <1>10, <1>12, <1>13 DEF Atomic!Confirm, Atomic!Registered

(* Where replies or handlers are lost, so are the mints they would have    *)
(* confirmed, with their keys.                                             *)
LEMMA ForgetStep ==
    ASSUME RefinementInv, RefinementInv', MapFacts, MapFacts', Lossy,
           UNCHANGED <<reserves, loosest, blocks, idempotency>>,
           \A c \in Contexts : Executed(c)' =>
               Executed(c) /\ handler'[c] = handler[c] /\ call'[c] = call[c]
    PROVE  Atomic!Forget
  <1>0. PICK lost \in SUBSET DOMAIN reserves : \A id \in DOMAIN reserves :
            id \in lost <=> \E c \in Contexts :
                                Executed(c) /\ ~Executed(c)' /\ handler[c].id = id
    <2> WITNESS {id \in DOMAIN reserves : \E c \in Contexts :
                     Executed(c) /\ ~Executed(c)' /\ handler[c].id = id}
                    \in SUBSET DOMAIN reserves
    <2> QED
      OBVIOUS
  <1>1. ASSUME NEW c \in Contexts, NEW d \in Contexts, Executed(c), Executed(d),
               handler[c].id = handler[d].id
        PROVE  c = d
    BY <1>1, OneHandler DEF RefinementInv, Executed, Live
  <1>2. \A c \in Contexts : Executed(c) => handler[c].id \in DOMAIN reserves
    <2> SUFFICES ASSUME NEW c \in Contexts, Executed(c)
                 PROVE  handler[c].id \in DOMAIN reserves
      OBVIOUS
    <2>1. Live(c)
      BY DEF Executed, Live
    <2> QED
      BY <2>1 DEF RefinementInv, MintInv, HandlerReserveExists
  <1>3. ASSUME NEW id \in lost
        PROVE  /\ OpenMint[id] # None /\ OpenMint'[id] = None
               /\ Counted'[id] = Counted[id] - blocks[OpenMint[id].block].amount
    <2>1. PICK c \in Contexts : Executed(c) /\ ~Executed(c)' /\ handler[c].id = id
      BY <1>0
    <2>2. ~Executing(id)'
      <3> SUFFICES ASSUME NEW d \in Contexts, Executed(d)', handler'[d].id = id
                   PROVE  FALSE
        BY DEF Executing
      <3>1. Executed(d) /\ handler[d].id = id
        OBVIOUS
      <3> QED
        BY <1>1, <2>1, <3>1
    <2>3. /\ OpenMint[id] = [block |-> call[c].value, key |-> handler[c].key]
          /\ OpenMint[id] # None
          /\ Counted[id] = reserves[id].lifetime_minted + handler[c].amount
      BY <2>1 DEF MapFacts
    <2>4. OpenMint'[id] = None /\ Counted'[id] = reserves[id].lifetime_minted
      BY <2>2 DEF MapFacts
    <2>5. blocks[call[c].value].amount = handler[c].amount
      BY <2>1 DEF Executed, RefinementInv, CallMatches, Sends
    <2>6. handler[c].amount \in Nat /\ reserves[id].lifetime_minted \in Nat
      BY <2>1, TransferHandlerType DEF Executed, RefinementInv, TypeOK, ReserveRecord
    <2> QED
      BY <2>3, <2>4, <2>5, <2>6
  <1>4. ASSUME NEW id \in DOMAIN reserves \ lost
        PROVE  OpenMint'[id] = OpenMint[id] /\ Counted'[id] = Counted[id]
    <2>1. ASSUME NEW d \in Contexts, Executed(d), handler[d].id = id
          PROVE  OpenMint'[id] = OpenMint[id] /\ Counted'[id] = Counted[id]
      <3>1. Executed(d)' /\ call'[d] = call[d] /\ handler'[d] = handler[d]
        BY <1>0, <2>1
      <3>2. /\ OpenMint[id] = [block |-> call[d].value, key |-> handler[d].key]
            /\ Counted[id] = reserves[id].lifetime_minted + handler[d].amount
        BY <2>1 DEF MapFacts
      <3>3. /\ OpenMint'[handler'[d].id] =
                   [block |-> call'[d].value, key |-> handler'[d].key]
            /\ Counted'[handler'[d].id] =
                   reserves'[handler'[d].id].lifetime_minted + handler'[d].amount
        BY <3>1 DEF MapFacts
      <3> QED
        BY <2>1, <3>1, <3>2, <3>3
    <2>2. CASE ~Executing(id)
      <3>1. ~Executing(id)'
        BY <2>2 DEF Executing
      <3> QED
        BY <2>2, <3>1 DEF MapFacts
    <2> QED
      BY <2>1, <2>2 DEF Executing
  <1>5. ASSUME NEW k \in Keys
        PROVE  Answer'[k] = IF \E id \in lost : OpenMint[id].key = k THEN None ELSE Answer[k]
    <2>1. IsCompleted(k)' <=> IsCompleted(k)
      BY DEF IsCompleted
    <2>2. ASSUME NEW c \in Contexts, Executed(c)
          PROVE  OpenMint[handler[c].id].key = handler[c].key
      <3>1. OpenMint[handler[c].id] = [block |-> call[c].value, key |-> handler[c].key]
        BY <2>2 DEF MapFacts
      <3> QED
        BY <3>1
    <2>3. ASSUME NEW id \in lost, OpenMint[id].key = k
          PROVE  Answer'[k] = None
      <3>1. PICK c \in Contexts : Executed(c) /\ ~Executed(c)' /\ handler[c].id = id
        BY <1>0
      <3>2. Settling(k, c) /\ ~IsCompleted(k)
        BY <2>2, <2>3, <3>1 DEF Settling, MapFacts
      <3>3. ASSUME NEW d \in Contexts, Settling(k, d)
            PROVE  d = c
        <4>1. \A e \in Contexts : Settling(k, e) => AwaitsTransfer(e, "topup") /\ handler[e].key = k
          BY KeysAssumption DEF Settling, Executed, RefinementInv, CallMatches, AwaitsTransfer
        <4> QED
          BY <3>2, <3>3, <4>1, KeysAssumption, OneTopup DEF RefinementInv
      <3>4. \A d \in Contexts : ~Settling(k, d)'
        <4> SUFFICES ASSUME NEW d \in Contexts, Settling(k, d)'
                     PROVE  FALSE
          OBVIOUS
        <4>1. Executed(d)' /\ Settling(k, d)
          BY DEF Settling
        <4> QED
          BY <3>1, <3>3, <4>1
      <3> QED
        BY <2>1, <3>2, <3>4 DEF MapFacts
    <2>4. ASSUME \A id \in lost : OpenMint[id].key # k
          PROVE  Answer'[k] = Answer[k]
      <3>1. CASE IsCompleted(k)
        BY <2>1, <3>1 DEF MapFacts
      <3>2. ASSUME NEW c \in Contexts, Settling(k, c)
            PROVE  Answer'[k] = Answer[k]
        <4>1. Executed(c) /\ handler[c].key = k /\ OpenMint[handler[c].id].key = k
          BY <2>2, <3>2 DEF Settling
        <4>2. Executed(c)'
          BY <1>0, <1>2, <2>4, <4>1
        <4>3. Settling(k, c)' /\ handler'[c] = handler[c] /\ call'[c] = call[c]
          BY <4>1, <4>2 DEF Settling
        <4> QED
          BY <3>2, <4>3 DEF MapFacts
      <3>3. CASE ~IsCompleted(k) /\ \A d \in Contexts : ~Settling(k, d)
        <4>1. \A d \in Contexts : ~Settling(k, d)'
          BY <3>3 DEF Settling
        <4> QED
          BY <2>1, <3>3, <4>1 DEF MapFacts
      <3> QED
        BY <3>1, <3>2, <3>3
    <2> QED
      BY <2>3, <2>4
  <1>6. OpenMint' = [r \in DOMAIN reserves |-> IF r \in lost THEN None ELSE OpenMint[r]]
    BY <1>3, <1>4 DEF MapFacts
  <1>7. Counted' = [r \in DOMAIN reserves |->
            IF r \in lost THEN Counted[r] - blocks[OpenMint[r].block].amount ELSE Counted[r]]
    BY <1>3, <1>4 DEF MapFacts
  <1>8. Answer' = [k \in Keys |->
            IF \E r \in lost : OpenMint[r].key = k THEN None ELSE Answer[k]]
    BY <1>5 DEF MapFacts
  <1>9. Ceiling' = Ceiling /\ DOMAIN Ceiling = DOMAIN reserves
    BY DEF Ceiling
  <1>10. lost \in SUBSET {id \in DOMAIN Ceiling : OpenMint[id] # None}
    BY <1>3, <1>9
  <1> QED
    BY <1>6, <1>7, <1>8, <1>9, <1>10 DEF Atomic!Forget, Atomic!Registered, Lossy

-----------------------------------------------------------------------------
(* Every step is one of these.                                             *)

Implemented == Atomic!Next \/ UNCHANGED AbstractVars

LEMMA AdminImplements ==
    ASSUME RefinementInv, MapFacts, MapFacts', [Next]_vars, Admin
    PROVE  Implemented
  <1>1. ASSUME NEW config \in AddArgs, AddReserve(config)
        PROVE  Implemented
    BY <1>1, RegisterStep DEF Implemented, Atomic!Next
  <1>2. ASSUME NEW id \in DOMAIN reserves, NEW arg \in UpdateArgs, UpdateReserve(id, arg)
        PROVE  Implemented
    BY <1>2, LoosenStep DEF Implemented, Atomic!Next
  <1>3. ASSUME NEW id \in DOMAIN reserves, RemoveReserve(id)
        PROVE  Implemented
    BY <1>3, RemoveStep DEF Implemented, Atomic!Next
  <1>4. ASSUME \/ \E policy \in Policies : SetGlobalPolicy(policy)
               \/ \E id, key : ReleaseStuckMintState(id, key)
        PROVE  Implemented
    <2>1. UNCHANGED <<handler, call, blocks, reserves, loosest>>
      BY <1>4 DEF SetGlobalPolicy, ReleaseStuckMintState, ledger_vars
    <2> QED
      BY <2>1, EnvironmentUnseen DEF Implemented, RefinementInv
  <1> QED
    BY <1>1, <1>2, <1>3, <1>4 DEF Admin

LEMMA HandlersImplement ==
    ASSUME RefinementInv, RefinementInv', MapFacts, MapFacts', [Next]_vars, NEW c \in Contexts,
           Begin(c) \/ (c = Timer /\ TimerTick) \/ Resume(c)
    PROVE  Implemented
  BY HandlersUnseen, ConfirmStep DEF Implemented, Atomic!Next, RefinementInv

LEMMA LedgerImplements ==
    ASSUME RefinementInv, RefinementInv', MapFacts, MapFacts', [Next]_vars, LedgerStep
    PROVE  Implemented
  <1>1. UNCHANGED <<minter_vars, clock>>
        /\ UNCHANGED <<handler, reserves, loosest, idempotency>>
    BY DEF LedgerStep, minter_vars
  <1>2. ASSUME NEW c \in Contexts, ServeBalance(c)
        PROVE  Implemented
    <2>1. handler[c].at # "transfer"
      BY <1>2 DEF ServeBalance, RefinementInv, CallMatches
    <2>2. ~Executed(c)' /\ blocks' = blocks
      BY <1>1, <1>2, <2>1 DEF Executed, ServeBalance
    <2> QED
      BY <1>1, <1>2, <2>2, EnvironmentUnseen DEF Implemented, RefinementInv
  <1>3. ASSUME NEW c \in Contexts, ExecuteTransfer(c)
        PROVE  Implemented
    BY <1>1, <1>3, MintStep, UnseenMintStep DEF Implemented, Atomic!Next
  <1>4. ASSUME NEW c \in Contexts, RefuseDuplicate(c)
        PROVE  Implemented
    <2>1. CASE handler[c].at = "transfer"
      BY <1>1, <1>4, <2>1, RecountStep DEF Implemented, Atomic!Next
    <2>2. CASE handler[c].at # "transfer"
      <3>1. ~Live(c) /\ blocks' = blocks
        BY <1>4, <2>2 DEF RefuseDuplicate, RefinementInv, TransfersHaveHandlers
      <3> QED
        BY <1>1, <1>4, <3>1, EnvironmentUnseen DEF Implemented, RefinementInv
    <2> QED
      BY <2>1, <2>2
  <1>5. ASSUME NEW c \in Contexts, Reject(c)
        PROVE  Implemented
    <2>1. blocks' = blocks
      BY <1>5 DEF Reject
    <2> QED
      BY <1>1, <1>5, <2>1, EnvironmentUnseen DEF Implemented, RefinementInv
  <1>6. ASSUME NEW c \in Contexts, LoseReply(c)
        PROVE  Implemented
    <2>1. Lossy /\ blocks' = blocks
      BY <1>6 DEF LoseReply, Lossy, Losses
    <2>2. \A d \in Contexts : Executed(d)' =>
              Executed(d) /\ handler'[d] = handler[d] /\ call'[d] = call[d]
      <3>1. /\ \A d \in Contexts \ {c} : call'[d] = call[d]
            /\ call'[c].status = "error"
        BY <1>6 DEF LoseReply, Failed, RefinementInv, TypeOK, LedgerTypeOK
      <3> QED
        BY <1>1, <3>1 DEF Executed, Succeeded
    <2> QED
      BY <1>1, <2>1, <2>2, ForgetStep DEF Implemented, Atomic!Next
  <1>7. ASSUME LedgerUser
        PROVE  Implemented
    <2>1. UNCHANGED <<call, blocks>>
      BY <1>7 DEF LedgerUser, Spend, Deposit
    <2> QED
      BY <1>1, <2>1, EnvironmentUnseen DEF Implemented, RefinementInv
  <1> QED
    BY <1>2, <1>3, <1>4, <1>5, <1>6, <1>7 DEF LedgerStep, LedgerAnswer, LedgerFault

LEMMA IncidentsImplement ==
    ASSUME RefinementInv, RefinementInv', MapFacts, MapFacts', [Next]_vars,
           \/ Upgrade \/ Tick
           \/ \E c \in Contexts : Trap(c) \/ DropOrphanReply(c)
    PROVE  Implemented
  <1>1. ASSUME NEW c \in Contexts, Trap(c)
        PROVE  Implemented
    <2>1. Lossy /\ UNCHANGED <<reserves, loosest, blocks, idempotency>>
      BY <1>1 DEF Trap, Lossy, Losses
    <2>2. /\ \A d \in Contexts \ {c} : handler'[d] = handler[d] /\ call'[d] = call[d]
          /\ handler'[c] = Idle
      BY <1>1 DEF Trap, RefinementInv, TypeOK, LedgerTypeOK
    <2>3. \A d \in Contexts : Executed(d)' =>
              Executed(d) /\ handler'[d] = handler[d] /\ call'[d] = call[d]
      BY <2>2 DEF Executed, Succeeded, Idle
    <2> QED
      BY <2>1, <2>3, ForgetStep DEF Implemented, Atomic!Next
  <1>2. CASE Upgrade
    <2>1. /\ UNCHANGED <<reserves, loosest, blocks, idempotency, call>>
          /\ \A d \in Contexts : ~Executed(d)'
      BY <1>2 DEF Upgrade, ledger_vars, Executed, Idle
    <2>2. CASE Lossy
      BY <2>1, <2>2, ForgetStep DEF Implemented, Atomic!Next
    <2>3. CASE ~Lossy
      <3>1. \A d \in Contexts : ~Live(d)
        BY <1>2, <2>3 DEF Upgrade, Lossy, Losses
      <3>2. \A d \in Contexts : KeepsMint(d)
        BY <2>1, <3>1 DEF KeepsMint, Executed, Live
      <3> QED
        BY <2>1, <3>2, Unseen DEF Implemented, RefinementInv
    <2> QED
      BY <2>2, <2>3
  <1>3. CASE Tick
    <2>1. UNCHANGED <<handler, call, blocks, reserves, loosest>>
      BY <1>3 DEF Tick, minter_vars, ledger_vars
    <2> QED
      BY <2>1, EnvironmentUnseen DEF Implemented, RefinementInv
  <1>4. ASSUME NEW c \in Contexts, DropOrphanReply(c)
        PROVE  Implemented
    <2>1. UNCHANGED <<handler, blocks, reserves, loosest>>
      BY <1>4 DEF DropOrphanReply, minter_vars
    <2> QED
      BY <1>4, <2>1, EnvironmentUnseen DEF Implemented, RefinementInv
  <1> QED
    BY <1>1, <1>2, <1>3, <1>4

LEMMA NextImplements ==
    ASSUME RefinementInv, RefinementInv', MapFacts, MapFacts', [Next]_vars
    PROVE  [Atomic!Next]_(Atomic!vars)
  <1>1. Implemented
    <2>1. CASE UNCHANGED vars
      <3>1. UNCHANGED <<handler, call, blocks, reserves, loosest>>
        BY <2>1 DEF vars, minter_vars, ledger_vars
      <3> QED
        BY <3>1, EnvironmentUnseen DEF Implemented, RefinementInv
    <2>2. CASE Next
      BY <2>2, AdminImplements, HandlersImplement, LedgerImplements, IncidentsImplement,
         ArgumentsAssumption DEF Next
    <2> QED
      BY <2>1, <2>2
  <1> QED
    BY <1>1 DEF Implemented, AbstractVars, Atomic!vars

(* Whatever the interleaving of handlers, ledger, administrators and       *)
(* incidents, mints behave as single steps: counted once, within the       *)
(* ceiling, once per key, one at a time per reserve, and forgotten only by *)
(* a loss before they are confirmed.  Only locks of live mints must not be *)
(* released.                                                               *)
THEOREM MintsAreAtomic ==
    ASSUME "live_release" \notin Environment
    PROVE  Spec => ImplementsAtomicMint
  <1>1. Init => Atomic!Init
    BY DEF Init, LedgerInit, Atomic!Init, Ceiling, Counted, OpenMint, Answer, IsCompleted,
           Settling, Executed, Idle
  <1>2. RefinementInv /\ RefinementInv' /\ MapFacts /\ MapFacts' /\ [Next]_vars
            => [Atomic!Next]_(Atomic!vars)
    BY NextImplements
  <1> QED
    BY <1>1, <1>2, RefinementInvariant, Mapping, PTL
    DEF Spec, ImplementsAtomicMint, Atomic!Spec
=============================================================================
