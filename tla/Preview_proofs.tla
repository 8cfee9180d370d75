---------------------------- MODULE Preview_proofs ----------------------------
(***************************************************************************)
(* Proofs about previews: what a preview answers has its type; as long as  *)
(* nothing it depends on changes, the rebalance that follows mints what    *)
(* was announced; and an answer from counters that are out of date is off  *)
(* by no more than the mints it does not know of.                          *)
(***************************************************************************)
EXTENDS Preview, Accounting_proofs

(* For the minter a preview is no step at all. *)
LEMMA PreviewSteps ==
    ASSUME [PreviewNext]_preview_vars
    PROVE  /\ [Next]_vars
           /\ \/ MinterStep
              \/ UNCHANGED preview_vars
              \/ UNCHANGED vars /\ \E p \in Previewers : PreviewStep(p)
  BY DEF PreviewNext, PreviewStep, MinterStep, PreviewReserve, PreviewAllReserves, StartPreview,
         ServePreview, FailPreview, AnswerPreview, PreviewAnswered, preview_vars

LEMMA PreviewRefinesSpec == PreviewSpec => Spec
  <1>1. PreviewInit => Init
    BY DEF PreviewInit
  <1>2. [PreviewNext]_preview_vars => [Next]_vars
    BY PreviewSteps
  <1> QED
    BY <1>1, <1>2, PTL DEF PreviewSpec, Spec

-----------------------------------------------------------------------------
(* What a preview holds and answers.                                       *)

LedgerReplies == {None, Failed} \cup [status : {"ok"}, value : Nat]

RepliesKnown == \A p \in Previewers : Awaiting(p) => preview[p].reply \in LedgerReplies

LEMMA PreviewLocals ==
    ASSUME PreviewTypeOK, NEW p \in Previewers, Awaiting(p)
    PROVE  /\ preview[p].id \in Nat /\ preview[p].rest \subseteq Nat
           /\ preview[p].record \in ReserveRecord
           /\ preview[p].record.config \in ReserveConfig
           /\ preview[p].record.config.account \in Accounts
           /\ preview[p].policy \in GlobalPolicy
           /\ preview[p] \in PreviewHandler
  <1>1. preview[p] \in PreviewHandler /\ preview[p].at = "balance"
    BY DEF PreviewTypeOK, Awaiting
  <1>2. preview[p] \in [at : {"balance"}, id : Nat, rest : SUBSET Nat, record : ReserveRecord,
                        policy : GlobalPolicy, reply : Optional(Calls)]
    BY <1>1 DEF PreviewHandler, NotPreviewing
  <1>3. preview[p].record \in ReserveRecord
    BY <1>2
  <1> QED
    BY <1>1, <1>2, <1>3 DEF ReserveRecord, ReserveConfig

LEMMA ResponseType ==
    ASSUME NEW record \in ReserveRecord, NEW current \in Nat, NEW policy \in GlobalPolicy, NEW now,
           ResponseTo(record, current, policy, now).action # "MintingDisabled"
    PROVE  ResponseTo(record, current, policy, now) \in Response
  <1> DEFINE computed == compute_rebalance(record.config, current, record.lifetime_minted, policy)
             budget == available_mint_budget(record.config.rate_limits, record.mint_events, now)
  <1>1. /\ record.config \in ReserveConfig /\ record.lifetime_minted \in Nat
        /\ record.config.rate_limits \in Optional(RateLimits) /\ record.mint_events \in MintEvents
    BY DEF ReserveRecord, ReserveConfig
  <1>2. computed.mint_amount \in Nat
    BY <1>1, ComputeBounds
  <1>3. computed.action \in {"MintingDisabled", "Skipped", "AlreadyFunded", "Minted"}
    BY DEF compute_rebalance
  <1>4. budget \in Optional(Nat)
    BY <1>1, BudgetIsWhatFits
  <1> HIDE DEF computed, budget
  <1>5. WouldMint(computed, budget) \in Nat
    BY <1>2, <1>4, CapBounds DEF WouldMint
  <1>6. ResponseTo(record, current, policy, now)
            = [action |-> computed.action, would_mint |-> WouldMint(computed, budget)]
    BY DEF ResponseTo, computed, budget
  <1> QED
    BY <1>3, <1>5, <1>6 DEF Response

(* A preview goes on with other locals. *)
LEMMA LocalsReplaced ==
    ASSUME PreviewTypeOK, RepliesKnown, NEW p \in Previewers, NEW h \in PreviewHandler,
           h.at = "balance" => h.reply \in LedgerReplies,
           preview' = [preview EXCEPT ![p] = h]
    PROVE  preview' \in [Previewers -> PreviewHandler] /\ RepliesKnown'
  <1>1. preview \in [Previewers -> PreviewHandler]
    BY DEF PreviewTypeOK
  <1> QED
    BY <1>1 DEF RepliesKnown, Awaiting

LEMMA PreviewGoesOn ==
    ASSUME TypeOK, PreviewTypeOK, RepliesKnown, NEW p \in Previewers, NEW queue \in SUBSET Nat,
           PreviewWith(p, queue)
    PROVE  preview' \in [Previewers -> PreviewHandler] /\ RepliesKnown'
  <1>1. CASE preview' = [preview EXCEPT ![p] = NotPreviewing]
    BY <1>1, LocalsReplaced DEF PreviewHandler, NotPreviewing
  <1>2. ASSUME NEW id \in queue \cap DOMAIN reserves,
               preview' = [preview EXCEPT ![p] =
                     [at |-> "balance", id |-> id, rest |-> {r \in queue : r > id},
                      record |-> reserves[id], policy |-> global_policy,
                      reply |-> None]]
        PROVE  preview' \in [Previewers -> PreviewHandler] /\ RepliesKnown'
    <2> DEFINE h == [at |-> "balance", id |-> id, rest |-> {r \in queue : r > id},
                     record |-> reserves[id], policy |-> global_policy, reply |-> None]
    <2>1. reserves[id] \in ReserveRecord /\ global_policy \in GlobalPolicy
      BY DEF TypeOK
    <2>2. h \in PreviewHandler
      BY <2>1 DEF PreviewHandler, Optional
    <2>3. h.reply \in LedgerReplies
      BY DEF LedgerReplies
    <2> HIDE DEF h
    <2> QED
      BY <1>2, <2>2, <2>3, LocalsReplaced DEF h
  <1> QED
    BY <1>1, <1>2 DEF PreviewWith

LEMMA PreviewAnswerType ==
    ASSUME PreviewTypeOK, RepliesKnown, NEW p \in Previewers, PreviewAnswered(p)
    PROVE  announced' \in [0..(MaxReserves - 1) -> Optional(Response)]
  <1> DEFINE answer == IF preview[p].reply = Failed THEN None ELSE PreviewResponse(p)
  <1>1. /\ Awaiting(p) /\ preview[p].reply # None
        /\ announced' = [announced EXCEPT ![preview[p].id] =
              IF answer # None /\ answer.action # "MintingDisabled" /\ PreviewIsCurrent(p)
              THEN answer ELSE @]
    BY DEF PreviewAnswered
  <1>2. ASSUME preview[p].reply # Failed, PreviewResponse(p).action # "MintingDisabled"
        PROVE  PreviewResponse(p) \in Response
    <2>1. preview[p].reply.value \in Nat
      BY <1>1, <1>2 DEF RepliesKnown, LedgerReplies
    <2>2. PreviewResponse(p) =
              ResponseTo(preview[p].record, preview[p].reply.value, preview[p].policy, clock)
      BY DEF PreviewResponse, ResponseTo
    <2> QED
      BY <1>1, <1>2, <2>1, <2>2, PreviewLocals, ResponseType
  <1>3. answer # None /\ answer.action # "MintingDisabled" => answer \in Response
    BY <1>2
  <1>4. announced \in [0..(MaxReserves - 1) -> Optional(Response)]
    BY DEF PreviewTypeOK
  <1> HIDE DEF answer
  <1> QED
    BY <1>1, <1>3, <1>4 DEF Optional

LEMMA PreviewTypeStep ==
    ASSUME TypeOK, PreviewTypeOK, RepliesKnown, [PreviewNext]_preview_vars
    PROVE  PreviewTypeOK' /\ RepliesKnown'
  <1>1. CASE MinterStep
    <2>1. /\ preview' = preview
          /\ announced' = [id \in DOMAIN announced |->
                               IF StillTrue(id) THEN announced[id] ELSE None]
      BY <1>1 DEF MinterStep
    <2> QED
      BY <2>1 DEF PreviewTypeOK, RepliesKnown, Awaiting, Optional
  <1>2. CASE UNCHANGED preview_vars
    BY <1>2 DEF preview_vars, PreviewTypeOK, RepliesKnown, Awaiting
  <1>3. ASSUME NEW p \in Previewers, NEW queue \in SUBSET DOMAIN reserves, StartPreview(p, queue)
        PROVE  PreviewTypeOK' /\ RepliesKnown'
    <2>1. queue \in SUBSET Nat
      BY DEF TypeOK
    <2> QED
      BY <1>3, <2>1, PreviewGoesOn DEF StartPreview, PreviewTypeOK
  <1>4. ASSUME NEW p \in Previewers, NEW reply \in {Failed} \cup [status : {"ok"}, value : Nat],
               AnswerPreview(p, reply)
        PROVE  PreviewTypeOK' /\ RepliesKnown'
    <2> DEFINE h == [preview[p] EXCEPT !.reply = reply]
    <2>1. Awaiting(p) /\ announced' = announced
      BY <1>4 DEF AnswerPreview
    <2>2. preview' = [preview EXCEPT ![p] = h]
      BY <1>4 DEF AnswerPreview
    <2>3. reply \in Calls /\ reply \in LedgerReplies
      BY DEF Calls, LedgerReplies
    <2>4. preview[p] \in [at : {"balance"}, id : Nat, rest : SUBSET Nat, record : ReserveRecord,
                          policy : GlobalPolicy, reply : Optional(Calls)]
      BY <2>1, PreviewLocals DEF PreviewHandler, NotPreviewing, Awaiting
    <2>5. h \in [at : {"balance"}, id : Nat, rest : SUBSET Nat, record : ReserveRecord,
                 policy : GlobalPolicy, reply : Optional(Calls)]
      BY <2>3, <2>4 DEF Optional
    <2>6. h \in PreviewHandler /\ h.reply = reply
      BY <2>4, <2>5 DEF PreviewHandler
    <2> HIDE DEF h
    <2> QED
      BY <2>1, <2>2, <2>3, <2>6, LocalsReplaced DEF PreviewTypeOK
  <1>5. ASSUME NEW p \in Previewers, PreviewAnswered(p)
        PROVE  PreviewTypeOK' /\ RepliesKnown'
    <2>1. Awaiting(p) /\ PreviewWith(p, preview[p].rest)
      BY <1>5 DEF PreviewAnswered
    <2>2. preview' \in [Previewers -> PreviewHandler] /\ RepliesKnown'
      BY <2>1, PreviewLocals, PreviewGoesOn
    <2> QED
      BY <1>5, <2>2, PreviewAnswerType DEF PreviewTypeOK
  <1>6. ASSUME NEW p \in Previewers, PreviewStep(p)
        PROVE  PreviewTypeOK' /\ RepliesKnown'
    <2>1. CASE PreviewReserve(p) \/ PreviewAllReserves(p)
      BY <1>3, <2>1 DEF PreviewReserve, PreviewAllReserves
    <2>2. CASE ServePreview(p)
      <3>1. /\ Awaiting(p)
            /\ AnswerPreview(p, [status |-> "ok",
                                 value |-> balance[preview[p].record.config.account]])
        BY <2>2 DEF ServePreview
      <3>2. balance[preview[p].record.config.account] \in Nat
        BY <3>1, PreviewLocals DEF TypeOK, LedgerTypeOK
      <3> QED
        BY <1>4, <3>1, <3>2
    <2>3. CASE FailPreview(p)
      BY <1>4, <2>3 DEF FailPreview
    <2> QED
      BY <1>5, <1>6, <2>1, <2>2, <2>3 DEF PreviewStep
  <1> QED
    BY <1>1, <1>2, <1>6, PreviewSteps

LEMMA PreviewTypes == PreviewSpec => [](TypeOK /\ PreviewTypeOK /\ RepliesKnown)
  <1>1. PreviewInit => PreviewTypeOK /\ RepliesKnown
    BY DEF PreviewInit, PreviewTypeOK, RepliesKnown, PreviewHandler, NotPreviewing, Awaiting,
           Optional
  <1>2. TypeOK /\ PreviewTypeOK /\ RepliesKnown /\ [PreviewNext]_preview_vars
            => PreviewTypeOK' /\ RepliesKnown'
    BY PreviewTypeStep
  <1> QED
    BY <1>1, <1>2, PreviewRefinesSpec, TypeCorrect, PTL DEF PreviewSpec

(* A preview that is not refused answers one of three actions and an       *)
(* amount, also where no rate limit is configured.                         *)
THEOREM PreviewTypeCorrect == PreviewSpec => []PreviewTypeOK
  BY PreviewTypes, PTL

-----------------------------------------------------------------------------
(* What was announced.                                                     *)

IdsAreBounded == next_reserve_id <= MaxReserves

LEMMA IdsAreBoundedStep ==
    ASSUME TypeOK, IdsAreBounded, [Next]_vars
    PROVE  IdsAreBounded'
  <1> USE DEF IdsAreBounded, minter_vars
  <1>1. ASSUME NEW config, AddReserve(config)
        PROVE  next_reserve_id' <= MaxReserves
    BY <1>1, BoundsAssumption DEF AddReserve, TypeOK
  <1>2. ASSUME Admin
        PROVE  next_reserve_id' <= MaxReserves
    BY <1>1, <1>2 DEF Admin, UpdateReserve, RemoveReserve, SetGlobalPolicy,
                      ReleaseStuckMintState
  <1>3. ASSUME NEW c \in Contexts, Begin(c) \/ Resume(c) \/ TimerTick
        PROVE  next_reserve_id' = next_reserve_id
    BY <1>3 DEF Begin, TimerTick, RebalanceReserve, RebalanceAllReserves, StartRebalance,
                ManualTopup, Resume, BalanceFailed, NothingToMint, SendMint, RebalanceMinted,
                RebalanceMintFailed, TopupMinted, TopupMintFailed, FinishWith
  <1>4. ASSUME \/ LedgerStep \/ Upgrade \/ Tick \/ UNCHANGED vars
               \/ \E c \in Contexts : Trap(c) \/ DropOrphanReply(c)
        PROVE  next_reserve_id' = next_reserve_id
    BY <1>4 DEF vars, LedgerStep, Trap, DropOrphanReply, Upgrade, Tick
  <1> QED
    BY <1>2, <1>3, <1>4, ArgumentsAssumption DEF Next

(* What the present state calls for. *)
CurrentResponse(id) ==
    ResponseTo(reserves[id], balance[reserves[id].config.account], global_policy, clock)

(* An announcement that stands is the answer the present state would give. *)
AnnouncedIsCurrent ==
    \A id \in DOMAIN announced : announced[id] # None =>
        id \in DOMAIN reserves /\ announced[id] = CurrentResponse(id)

LEMMA AnnouncedIsCurrentStep ==
    ASSUME AnnouncedIsCurrent, [PreviewNext]_preview_vars
    PROVE  AnnouncedIsCurrent'
  <1>1. CASE MinterStep
    <2>1. announced' = [id \in DOMAIN announced |->
                            IF StillTrue(id) THEN announced[id] ELSE None]
      BY <1>1 DEF MinterStep
    <2>2. ASSUME NEW id \in DOMAIN announced, announced[id] # None, StillTrue(id)
          PROVE  id \in DOMAIN reserves' /\ announced[id] = CurrentResponse(id)'
      <3>1. /\ id \in DOMAIN reserves' /\ reserves'[id] = reserves[id]
            /\ balance'[reserves'[id].config.account] = balance[reserves[id].config.account]
            /\ global_policy' = global_policy /\ clock' = clock
        BY <2>2 DEF StillTrue
      <3>2. announced[id] = CurrentResponse(id)
        BY <2>2 DEF AnnouncedIsCurrent
      <3> QED
        BY <3>1, <3>2 DEF CurrentResponse
    <2> QED
      BY <2>1, <2>2 DEF AnnouncedIsCurrent
  <1>2. ASSUME UNCHANGED vars, NEW id \in DOMAIN announced, announced[id] # None
        PROVE  id \in DOMAIN reserves' /\ announced[id] = CurrentResponse(id)'
    BY <1>2 DEF AnnouncedIsCurrent, CurrentResponse, vars, minter_vars, ledger_vars
  <1>3. ASSUME UNCHANGED <<vars, announced>>
        PROVE  AnnouncedIsCurrent'
    BY <1>2, <1>3 DEF AnnouncedIsCurrent
  <1>4. ASSUME NEW p \in Previewers, PreviewAnswered(p)
        PROVE  AnnouncedIsCurrent'
    <2> DEFINE answer == IF preview[p].reply = Failed THEN None ELSE PreviewResponse(p)
               gives == answer # None /\ answer.action # "MintingDisabled" /\ PreviewIsCurrent(p)
    <2>1. /\ UNCHANGED vars
          /\ announced' = [announced EXCEPT ![preview[p].id] = IF gives THEN answer ELSE @]
      BY <1>4 DEF PreviewAnswered
    <2>2. ASSUME gives
          PROVE  /\ preview[p].id \in DOMAIN reserves'
                 /\ answer = CurrentResponse(preview[p].id)
      <3>1. /\ answer = PreviewResponse(p) /\ PreviewIsCurrent(p)
            /\ reserves' = reserves
        BY <2>1, <2>2 DEF vars, minter_vars
      <3> QED
        BY <3>1 DEF PreviewIsCurrent, PreviewResponse, CurrentResponse, ResponseTo
    <2>3. \A id : CurrentResponse(id)' = CurrentResponse(id)
      BY <2>1 DEF CurrentResponse, vars, minter_vars, ledger_vars
    <2>4. ASSUME NEW id \in DOMAIN announced', announced'[id] # None
          PROVE  id \in DOMAIN reserves' /\ announced'[id] = CurrentResponse(id)
      <3>1. id \in DOMAIN announced
        BY <2>1, <2>4
      <3>2. CASE id = preview[p].id /\ gives
        <4>1. announced'[id] = answer
          BY <2>1, <3>1, <3>2
        <4> QED
          BY <2>2, <3>2, <4>1
      <3>3. CASE ~(id = preview[p].id /\ gives)
        <4>1. announced'[id] = announced[id]
          BY <2>1, <3>1, <3>3
        <4> QED
          BY <1>2, <2>1, <2>3, <2>4, <3>1, <4>1
      <3> QED
        BY <3>2, <3>3
    <2> QED
      BY <2>3, <2>4 DEF AnnouncedIsCurrent
  <1>5. ASSUME NEW p \in Previewers, PreviewStep(p)
        PROVE  PreviewAnswered(p) \/ UNCHANGED <<vars, announced>>
    BY <1>5 DEF PreviewStep, PreviewReserve, PreviewAllReserves, StartPreview, ServePreview,
                FailPreview, AnswerPreview
  <1> QED
    BY <1>1, <1>3, <1>4, <1>5, PreviewSteps DEF preview_vars

(* rebalance_one decides by the answer a preview would give now: it mints  *)
(* that amount, or finds nothing to mint where the amount is zero.         *)
LEMMA DecidesByResponse ==
    ASSUME TypeOK, NEW c \in Contexts, DecidesFresh(c)
    PROVE  LET amount == CurrentResponse(handler[c].id).would_mint
           IN  /\ SendMint(c) => amount = handler'[c].amount
               /\ NothingToMint(c) => amount = 0
  <1> DEFINE computed == Computed(c)
             budget == Budget(c)
  <1>1. AwaitsBalance(c) /\ call[c].status = "ok"
    BY DEF DecidesFresh
  <1>2. /\ CurrentResponse(handler[c].id) =
               ResponseTo(handler[c].record, call[c].value, handler[c].policy, clock)
    BY DEF DecidesFresh, CurrentResponse
  <1>3. CurrentResponse(handler[c].id).would_mint = Cap(computed.mint_amount, budget)
    BY <1>2 DEF ResponseTo, Computed, Budget, WouldMint
  <1>4. ASSUME SendMint(c)
        PROVE  handler'[c].amount = Cap(computed.mint_amount, budget)
    <2>1. PICK amount \in 1..computed.mint_amount :
              /\ amount = Cap(computed.mint_amount, budget)
              /\ AwaitTransfer(c, "rebalance", handler[c].id, None, handler[c].rest, amount)
      BY <1>4 DEF SendMint
    <2>2. handler'[c].amount = amount
      BY <2>1 DEF AwaitTransfer, TypeOK
    <2> QED
      BY <2>1, <2>2
  <1>5. ASSUME NothingToMint(c)
        PROVE  Cap(computed.mint_amount, budget) = 0
    <2>1. /\ handler[c].record \in ReserveRecord /\ handler[c].policy \in GlobalPolicy
          /\ handler[c].record.config \in ReserveConfig /\ handler[c].record.lifetime_minted \in Nat
          /\ handler[c].record.config.rate_limits \in Optional(RateLimits)
          /\ handler[c].record.mint_events \in MintEvents
      BY <1>1, BalanceHandlerType DEF ReserveRecord, ReserveConfig
    <2>2. call[c].value \in Nat
      BY <1>1, ReplyType DEF Succeeded
    <2>3. computed.mint_amount \in Nat
      BY <2>1, <2>2, ComputeBounds DEF Computed
    <2>4. computed.action # "Minted" => computed.mint_amount = 0
      BY DEF Computed, compute_rebalance
    <2>5. budget \in Optional(Nat)
      <3>1. budget = available_mint_budget(handler[c].record.config.rate_limits,
                                           handler[c].record.mint_events, clock)
        BY DEF Budget
      <3> HIDE DEF budget
      <3> QED
        BY <2>1, <3>1, BudgetIsWhatFits
    <2>6. computed.action # "Minted" \/ budget = 0
      BY <1>5 DEF NothingToMint
    <2> HIDE DEF computed, budget
    <2> QED
      BY <2>3, <2>4, <2>5, <2>6, NoneAssumption DEF Cap, Optional
  <1> QED
    BY <1>3, <1>4, <1>5

(* What a preview announces for a reserve is what the next rebalance mints *)
(* to it, as long as nothing it depends on changes.                        *)
THEOREM PreviewsTellTheTruth ==
    ASSUME "live_release" \notin Environment
    PROVE  PreviewSpec => AnnouncedIsMinted
  <1> DEFINE Stands == \A c \in Contexts :
                           DecidesFresh(c) /\ announced[handler[c].id] # None =>
                               LET amount == announced[handler[c].id].would_mint
                               IN  /\ SendMint(c) => amount = handler'[c].amount
                                   /\ NothingToMint(c) => amount = 0
             J == PreviewTypeOK /\ IdsAreBounded /\ AnnouncedIsCurrent
  <1>1. PreviewInit => IdsAreBounded /\ AnnouncedIsCurrent
    BY BoundsAssumption DEF PreviewInit, Init, IdsAreBounded, AnnouncedIsCurrent
  <1>2. TypeOK /\ IdsAreBounded /\ AnnouncedIsCurrent /\ [PreviewNext]_preview_vars
            => IdsAreBounded' /\ AnnouncedIsCurrent'
    BY PreviewSteps, IdsAreBoundedStep, AnnouncedIsCurrentStep
  <1>3. TypeOK /\ MintInv /\ J => Stands
    <2> SUFFICES ASSUME TypeOK, MintInv, J, NEW c \in Contexts, DecidesFresh(c),
                        announced[handler[c].id] # None
                 PROVE  LET amount == announced[handler[c].id].would_mint
                        IN  /\ SendMint(c) => amount = handler'[c].amount
                            /\ NothingToMint(c) => amount = 0
      OBVIOUS
    <2>1. handler[c].id \in DOMAIN reserves
      BY DEF MintInv, HandlerReserveExists, DecidesFresh, AwaitsBalance, Live
    <2>2. handler[c].id \in DOMAIN announced
      BY <2>1, BoundsAssumption DEF TypeOK, PreviewTypeOK, IdsAreBounded
    <2>3. announced[handler[c].id] = CurrentResponse(handler[c].id)
      BY <2>2 DEF AnnouncedIsCurrent
    <2> QED
      BY <2>3, DecidesByResponse
  <1>4. Stands => [Stands]_preview_vars
    OBVIOUS
  <1>5. J <=> PreviewTypeOK /\ IdsAreBounded /\ AnnouncedIsCurrent
    OBVIOUS
  <1> HIDE DEF Stands, J
  <1>6. PreviewSpec => [][Stands]_preview_vars
    BY <1>1, <1>2, <1>3, <1>4, <1>5, PreviewTypes, PreviewRefinesSpec, TypeCorrect, MintSafety, PTL
    DEF PreviewSpec
  <1> QED
    BY <1>6 DEF AnnouncedIsMinted, Stands

-----------------------------------------------------------------------------
(* How far the answer of a stale copy is off.                              *)

(* Where more was minted less is due, and no less than that.               *)
Close(due, told, gap) == due <= told /\ told <= due + gap

LEMMA CapClose ==
    ASSUME NEW gap \in Nat, NEW due \in Nat, NEW told \in Nat,
           Close(due, told, gap),
           NEW low \in Optional(Nat), NEW high \in Optional(Nat),
           low = None <=> high = None,
           low # None => Close(low, high, gap)
    PROVE  Close(Cap(due, low), Cap(told, high), gap)
  <1>1. CASE low = None
    BY <1>1 DEF Cap
  <1>2. CASE low # None
    <2>1. low \in Nat /\ high \in Nat /\ high # None
      BY <1>2 DEF Optional
    <2>2. Cap(due, low) = (IF low < due THEN low ELSE due)
      BY <1>2 DEF Cap
    <2>3. Cap(told, high) = (IF high < told THEN high ELSE told)
      BY <2>1 DEF Cap
    <2> QED
      BY <1>2, <2>1, <2>2, <2>3 DEF Close
  <1> QED
    BY <1>1, <1>2

LEMMA LeftClose ==
    ASSUME NEW gap \in Nat, NEW ceiling \in Nat, NEW less \in Nat, NEW more \in Nat,
           Close(less, more, gap)
    PROVE  /\ saturating_sub(ceiling, less) \in Nat /\ saturating_sub(ceiling, more) \in Nat
           /\ Close(saturating_sub(ceiling, more), saturating_sub(ceiling, less), gap)
  BY DEF saturating_sub, Close

LEMMA DeficitClose ==
    ASSUME NEW config \in ReserveConfig, NEW current \in Nat, NEW minted \in Nat, NEW gap \in Nat
    PROVE  Close(LargerDeficit(config, current, minted + gap),
                 LargerDeficit(config, current, minted), gap)
  <1> DEFINE floor == config.lifetime_received_minimum
             cyclical == cyclical_deficit(config, current)
  <1>1. floor \in Optional(Nat) /\ cyclical \in Nat
    BY DEF ReserveConfig, cyclical_deficit, saturating_sub
  <1>2. /\ lifetime_deficit(config, minted) \in Nat
        /\ lifetime_deficit(config, minted + gap) \in Nat
        /\ Close(lifetime_deficit(config, minted + gap), lifetime_deficit(config, minted), gap)
    <2>1. CASE floor = None
      BY <2>1 DEF lifetime_deficit, Close
    <2>2. CASE floor # None
      <3>1. floor \in Nat
        BY <1>1, <2>2 DEF Optional
      <3>2. Close(minted, minted + gap, gap) /\ minted + gap \in Nat
        BY DEF Close
      <3>3. /\ saturating_sub(floor, minted) \in Nat /\ saturating_sub(floor, minted + gap) \in Nat
            /\ Close(saturating_sub(floor, minted + gap), saturating_sub(floor, minted), gap)
        <4> HIDE DEF floor
        <4> QED
          BY <3>1, <3>2, LeftClose
      <3>4. \A n : lifetime_deficit(config, n) = saturating_sub(floor, n)
        BY <2>2 DEF lifetime_deficit
      <3> HIDE DEF floor
      <3> QED
        BY <3>3, <3>4
    <2> QED
      BY <2>1, <2>2
  <1> DEFINE before == lifetime_deficit(config, minted)
             after == lifetime_deficit(config, minted + gap)
  <1>3. /\ LargerDeficit(config, current, minted) = IF before > cyclical THEN before ELSE cyclical
        /\ LargerDeficit(config, current, minted + gap) =
               IF after > cyclical THEN after ELSE cyclical
    BY DEF LargerDeficit
  <1> HIDE DEF before, after, cyclical
  <1> QED
    BY <1>1, <1>2, <1>3 DEF Close, before, after

LEMMA ComputeClose ==
    ASSUME NEW config \in ReserveConfig, NEW current \in Nat, NEW minted \in Nat,
           NEW gap \in Nat, NEW policy \in GlobalPolicy
    PROVE  Close(compute_rebalance(config, current, minted + gap, policy).mint_amount,
                 compute_rebalance(config, current, minted, policy).mint_amount, gap)
  <1> DEFINE raw(n) == LargerDeficit(config, current, n)
             topup(n) == Cap(raw(n), config.max_topup_per_rebalance)
             room == Room(config.max_balance, current)
             below(n) == Cap(topup(n), room)
             rest(n) == Room(config.lifetime_received_maximum, n)
             lifetime(n) == Cap(below(n), rest(n))
             capped(n) == CappedAmount(config, current, n, policy)
             after == minted + gap
  <1>1. /\ config.max_topup_per_rebalance \in Optional(Nat)
        /\ config.max_balance \in Optional(Nat)
        /\ config.lifetime_received_maximum \in Optional(Nat)
        /\ policy.max_mint_per_operation \in Optional(Nat)
        /\ room \in Optional(Nat) /\ after \in Nat
    BY RoomBounds DEF ReserveConfig, GlobalPolicy
  <1>2. \A n \in Nat : raw(n) \in Nat
    BY DeficitType
  <1>3. Close(raw(after), raw(minted), gap)
    BY DeficitClose
  <1>4. \A cap \in Optional(Nat) : cap # None => Close(cap, cap, gap)
    BY DEF Close, Optional
  <1> HIDE DEF room, after
  <1>5. (\A n \in Nat : topup(n) \in Nat) /\ Close(topup(after), topup(minted), gap)
    <2> HIDE DEF raw
    <2> QED
      BY <1>1, <1>2, <1>3, <1>4, CapBounds, CapClose
  <1>6. (\A n \in Nat : below(n) \in Nat) /\ Close(below(after), below(minted), gap)
    <2> HIDE DEF topup
    <2> QED
      BY <1>1, <1>4, <1>5, CapBounds, CapClose
  <1>7. /\ \A n \in Nat : rest(n) \in Optional(Nat)
        /\ rest(after) = None <=> rest(minted) = None
        /\ rest(after) # None => Close(rest(after), rest(minted), gap)
    <2>1. \A n \in Nat : rest(n) \in Optional(Nat)
      BY <1>1, RoomBounds
    <2>2. CASE config.lifetime_received_maximum = None
      BY <2>1, <2>2 DEF Room
    <2>3. CASE config.lifetime_received_maximum # None
      <3>1. config.lifetime_received_maximum \in Nat
        BY <1>1, <2>3 DEF Optional
      <3>2. Close(minted, after, gap)
        BY DEF after, Close
      <3>3. \A n : rest(n) = saturating_sub(config.lifetime_received_maximum, n)
        BY <2>3 DEF Room
      <3>4. /\ saturating_sub(config.lifetime_received_maximum, minted) \in Nat
            /\ saturating_sub(config.lifetime_received_maximum, after) \in Nat
            /\ Close(saturating_sub(config.lifetime_received_maximum, after),
                     saturating_sub(config.lifetime_received_maximum, minted), gap)
        BY <1>1, <3>1, <3>2, LeftClose
      <3> HIDE DEF rest
      <3> QED
        BY <2>1, <3>3, <3>4, NoneAssumption
    <2> QED
      BY <2>2, <2>3
  <1>8. (\A n \in Nat : lifetime(n) \in Nat) /\ Close(lifetime(after), lifetime(minted), gap)
    <2> HIDE DEF below, rest
    <2> QED
      BY <1>1, <1>6, <1>7, CapBounds, CapClose
  <1>9. \A n : capped(n) = Cap(lifetime(n), policy.max_mint_per_operation)
    BY DEF CappedAmount, room
  <1>10. (\A n \in Nat : capped(n) \in Nat) /\ Close(capped(after), capped(minted), gap)
    <2> HIDE DEF lifetime, capped
    <2> QED
      BY <1>1, <1>4, <1>8, <1>9, CapBounds, CapClose
  <1>11. \A n \in Nat : raw(n) = 0 => capped(n) = 0
    <2>1. \A n \in Nat : topup(n) <= raw(n)
      <3> HIDE DEF raw
      <3> QED
        BY <1>1, <1>2, CapBounds
    <2>2. \A n \in Nat : below(n) <= topup(n)
      <3> HIDE DEF topup
      <3> QED
        BY <1>1, <1>5, CapBounds
    <2>3. \A n \in Nat : lifetime(n) <= below(n)
      <3> HIDE DEF below, rest
      <3> QED
        BY <1>6, <1>7, CapBounds
    <2>4. \A n \in Nat : capped(n) <= lifetime(n)
      <3> HIDE DEF lifetime, capped
      <3> QED
        BY <1>1, <1>8, <1>9, CapBounds
    <2> HIDE DEF raw, topup, below, lifetime, capped
    <2> QED
      BY <1>2, <1>5, <1>6, <1>8, <1>10, <2>1, <2>2, <2>3, <2>4
  <1> DEFINE allowed == policy.minting_enabled /\ config.enabled /\ config.allow_auto_rebalance
             amount(n) == compute_rebalance(config, current, n, policy).mint_amount
  <1>12. \A n \in Nat : amount(n) = IF allowed THEN capped(n) ELSE 0
    <2>1. \A n \in Nat :
              amount(n) = IF allowed /\ raw(n) # 0 /\ capped(n) # 0 THEN capped(n) ELSE 0
      <3> HIDE DEF capped, raw
      <3> QED
        BY DEF compute_rebalance, capped, raw
    <2> HIDE DEF amount, allowed, capped, raw
    <2> QED
      BY <1>11, <2>1
  <1>13. Close(amount(after), amount(minted), gap)
    <2>1. amount(after) = (IF allowed THEN capped(after) ELSE 0)
          /\ amount(minted) = (IF allowed THEN capped(minted) ELSE 0)
      BY <1>1, <1>12
    <2> HIDE DEF amount, allowed, capped
    <2> QED
      BY <1>10, <2>1 DEF Close
  <1> QED
    BY <1>13 DEF after

LEMMA BudgetClose ==
    ASSUME NEW limits \in Optional(RateLimits), NEW before \in MintEvents,
           NEW after \in MintEvents, NEW now, NEW gap \in Nat,
           \A w \in Windows : Close(usage_in_window(before, now, HOURS[w]),
                                   usage_in_window(after, now, HOURS[w]), gap)
    PROVE  LET due == available_mint_budget(limits, after, now)
               told == available_mint_budget(limits, before, now)
           IN  /\ due \in Optional(Nat) /\ told \in Optional(Nat)
               /\ due = None <=> told = None
               /\ due # None => Close(due, told, gap)
  <1> DEFINE due == available_mint_budget(limits, after, now)
             told == available_mint_budget(limits, before, now)
             low(w) == saturating_sub(limits[w], usage_in_window(after, now, HOURS[w]))
             high(w) == saturating_sub(limits[w], usage_in_window(before, now, HOURS[w]))
  <1>1. CASE Configured(limits) = {}
    BY <1>1 DEF available_mint_budget, Optional
  <1>2. CASE Configured(limits) # {}
    <2>1. /\ due \in Nat
          /\ \E w \in Configured(limits) : due = low(w)
          /\ \A w \in Configured(limits) : low(w) \in Nat /\ due <= low(w)
      BY <1>2, BudgetIsLeast
    <2>2. /\ told \in Nat
          /\ \E w \in Configured(limits) : told = high(w)
          /\ \A w \in Configured(limits) : high(w) \in Nat /\ told <= high(w)
      BY <1>2, BudgetIsLeast
    <2>3. \A w \in Configured(limits) : Close(low(w), high(w), gap)
      <3> SUFFICES ASSUME NEW w \in Configured(limits)
                   PROVE  Close(low(w), high(w), gap)
        OBVIOUS
      <3>1. limits[w] \in Nat /\ w \in Windows
        BY DEF Configured, RateLimits, Optional
      <3>2. \A events \in MintEvents : usage_in_window(events, now, HOURS[w]) \in Nat
        BY EventSumType DEF usage_in_window, EventSum, Since
      <3> QED
        BY <3>1, <3>2, LeftClose
    <2> HIDE DEF due, told, low, high
    <2>4. Close(due, told, gap)
      BY <2>1, <2>2, <2>3 DEF Close
    <2>5. due # None /\ told # None
      BY <2>1, <2>2, NoneAssumption
    <2> QED
      BY <2>1, <2>2, <2>4, <2>5 DEF Optional, due, told
  <1> QED
    BY <1>1, <1>2

(* The record has taken in no less than the copy, and since any instant    *)
(* that the rate limiter looks at no more than over its lifetime.          *)
Lags(copy, record, now) ==
    /\ copy.lifetime_minted <= record.lifetime_minted
    /\ \A start \in Instants : start >= saturating_sub(now, LargestWindow) =>
           Close(EventSum(copy.mint_events, start), EventSum(record.mint_events, start),
                 record.lifetime_minted - copy.lifetime_minted)

LEMMA ResponseClose ==
    ASSUME NEW copy \in ReserveRecord, NEW record \in ReserveRecord, copy.config = record.config,
           NEW current \in Nat, NEW policy \in GlobalPolicy, NEW now \in Instants,
           Lags(copy, record, now)
    PROVE  Close(ResponseTo(record, current, policy, now).would_mint,
                 ResponseTo(copy, current, policy, now).would_mint,
                 record.lifetime_minted - copy.lifetime_minted)
  <1> DEFINE config == copy.config
             gap == record.lifetime_minted - copy.lifetime_minted
             amount(minted) == compute_rebalance(config, current, minted, policy).mint_amount
             low == available_mint_budget(config.rate_limits, record.mint_events, now)
             high == available_mint_budget(config.rate_limits, copy.mint_events, now)
  <1>1. /\ config \in ReserveConfig /\ config.rate_limits \in Optional(RateLimits)
        /\ copy.lifetime_minted \in Nat /\ record.lifetime_minted \in Nat
        /\ copy.mint_events \in MintEvents /\ record.mint_events \in MintEvents
    BY DEF ReserveRecord, ReserveConfig
  <1>2. gap \in Nat /\ record.lifetime_minted = copy.lifetime_minted + gap
    BY <1>1 DEF Lags
  <1>3. Close(amount(record.lifetime_minted), amount(copy.lifetime_minted), gap)
    <2> HIDE DEF config, gap
    <2> QED
      BY <1>1, <1>2, ComputeClose
  <1>4. amount(record.lifetime_minted) \in Nat /\ amount(copy.lifetime_minted) \in Nat
    <2> HIDE DEF config
    <2> QED
      BY <1>1, ComputeBounds
  <1>5. \A w \in Windows : Close(usage_in_window(copy.mint_events, now, HOURS[w]),
                                usage_in_window(record.mint_events, now, HOURS[w]), gap)
    <2> SUFFICES ASSUME NEW w \in Windows
                 PROVE  Close(usage_in_window(copy.mint_events, now, HOURS[w]),
                              usage_in_window(record.mint_events, now, HOURS[w]), gap)
      OBVIOUS
    <2> DEFINE start == saturating_sub(now, HOURS[w])
    <2>1. start \in Instants
      BY WindowStart
    <2>2. start >= saturating_sub(now, LargestWindow)
      <3>1. now \in Nat /\ HOURS[w] \in Nat /\ LargestWindow \in Nat /\ HOURS[w] <= LargestWindow
        BY WindowTypes, MaxTimeAssumption DEF Instants
      <3> QED
        BY <3>1 DEF saturating_sub
    <2>3. \A events : usage_in_window(events, now, HOURS[w]) = EventSum(events, start)
      BY DEF usage_in_window, EventSum, Since
    <2> HIDE DEF start
    <2> QED
      BY <2>1, <2>2, <2>3 DEF Lags
  <1>6. /\ low \in Optional(Nat) /\ high \in Optional(Nat)
        /\ low = None <=> high = None
        /\ low # None => Close(low, high, gap)
    <2> HIDE DEF config, gap
    <2> QED
      BY <1>1, <1>2, <1>5, BudgetClose
  <1>7. Close(Cap(amount(record.lifetime_minted), low), Cap(amount(copy.lifetime_minted), high), gap)
    <2> HIDE DEF config, gap, amount, low, high
    <2> QED
      BY <1>2, <1>3, <1>4, <1>6, CapClose
  <1>8. /\ ResponseTo(record, current, policy, now).would_mint
               = Cap(amount(record.lifetime_minted), low)
        /\ ResponseTo(copy, current, policy, now).would_mint
               = Cap(amount(copy.lifetime_minted), high)
    BY DEF ResponseTo, WouldMint
  <1> QED
    BY <1>7, <1>8

-----------------------------------------------------------------------------
(* How far behind a copy is.                                               *)

(* A step takes no mint out of a record, nor out of its windows.           *)
LEMMA CountersGrow ==
    ASSUME TypeOK, InThePast, [Next]_vars, NEW id \in DOMAIN reserves', id < next_reserve_id
    PROVE  /\ id \in DOMAIN reserves
           /\ \E amount \in Nat :
                  /\ reserves'[id].lifetime_minted = reserves[id].lifetime_minted + amount
                  /\ \A start \in Instants : start >= saturating_sub(clock, LargestWindow) =>
                         \E part \in {0, amount} :
                             EventSum(reserves'[id].mint_events, start)
                                 = EventSum(reserves[id].mint_events, start) + part
  <1> DEFINE Grow ==
               /\ id \in DOMAIN reserves
               /\ \E amount \in Nat :
                      /\ reserves'[id].lifetime_minted = reserves[id].lifetime_minted + amount
                      /\ \A start \in Instants : start >= saturating_sub(clock, LargestWindow) =>
                             \E part \in {0, amount} :
                                 EventSum(reserves'[id].mint_events, start)
                                     = EventSum(reserves[id].mint_events, start) + part
  <1>1. ASSUME SameCounters(id)
        PROVE  Grow
    <2>1. reserves[id].lifetime_minted \in Nat /\ reserves[id].mint_events \in MintEvents
      BY <1>1 DEF SameCounters, TypeOK, ReserveRecord
    <2>2. \A start : EventSum(reserves[id].mint_events, start) \in Nat
      BY <2>1, EventSumType
    <2>3. /\ reserves'[id].lifetime_minted = reserves[id].lifetime_minted + 0
          /\ \A start : EventSum(reserves'[id].mint_events, start)
                           = EventSum(reserves[id].mint_events, start) + 0
      BY <1>1, <2>1, <2>2 DEF SameCounters
    <2> QED
      BY <1>1, <2>3 DEF SameCounters
  <1>2. CASE \A c \in Contexts : ~Records(c)
    <2>1. next_reserve_id \in Nat /\ id # next_reserve_id
      BY DEF TypeOK
    <2>2. SameCounters(id)
      BY <1>2, <2>1, CounterSteps
    <2> QED
      BY <1>1, <2>2
  <1>3. ASSUME NEW c \in Contexts, Records(c)
        PROVE  Grow
    <2>1. /\ handler[c].at = "transfer"
          /\ RecordMint(handler[c].id, handler[c].amount, handler[c].now)
      BY <1>3 DEF Records, RebalanceMinted, TopupMinted, AwaitsTransfer
    <2>2. handler[c].amount \in Nat /\ handler[c].now \in Instants /\ handler[c].now <= clock
      BY <2>1, TransferHandlerType DEF InThePast
    <2>3. id \in DOMAIN reserves /\ reserves[id] \in ReserveRecord
      BY <2>1 DEF RecordMint, TypeOK
    <2>4. CASE id # handler[c].id
      BY <1>1, <2>1, <2>3, <2>4 DEF RecordMint, SameCounters
    <2>5. CASE id = handler[c].id
      <3> DEFINE amount == handler[c].amount
                 now == handler[c].now
                 old == reserves[id]
                 new == WithMint(old, amount, now)
      <3>1. reserves'[id] = new
        BY <2>1, <2>3, <2>5 DEF RecordMint
      <3>2. new.lifetime_minted = old.lifetime_minted + amount
        BY <2>2, <2>3, WithMintType
      <3>3. ASSUME NEW start \in Instants, start >= saturating_sub(clock, LargestWindow)
            PROVE  \E part \in {0, amount} :
                       EventSum(new.mint_events, start) = EventSum(old.mint_events, start) + part
        <4>1. start >= saturating_sub(now, LargestWindow)
          <5>1. /\ now \in Nat /\ clock \in Nat /\ start \in Nat /\ LargestWindow \in Nat
                /\ now <= clock
            BY <2>2, WindowTypes, MaxTimeAssumption DEF TypeOK, Instants
          <5> HIDE DEF now
          <5> QED
            BY <3>3, <5>1 DEF saturating_sub
        <4>2. EventSum(new.mint_events, start) =
                  EventSum(old.mint_events, start) + IF now >= start THEN amount ELSE 0
          BY <2>2, <2>3, <3>3, <4>1, WithMintEvents
        <4> HIDE DEF new, old, now, amount
        <4> QED
          BY <4>2
      <3> HIDE DEF new
      <3> QED
        BY <2>2, <2>3, <3>1, <3>2, <3>3
    <2> QED
      BY <2>4, <2>5
  <1> QED
    BY <1>2, <1>3

LEMMA CutoffMoves ==
    ASSUME NEW early \in Nat, NEW late \in Nat, early <= late, NEW window \in Nat
    PROVE  /\ saturating_sub(early, window) \in Nat /\ saturating_sub(late, window) \in Nat
           /\ saturating_sub(early, window) <= saturating_sub(late, window)
  BY DEF saturating_sub

LEMMA LagGrows ==
    ASSUME TypeOK, InThePast, [Next]_vars, NEW copy \in ReserveRecord,
           NEW id \in DOMAIN reserves', id < next_reserve_id,
           id \in DOMAIN reserves => Lags(copy, reserves[id], clock)
    PROVE  Lags(copy, reserves'[id], clock')
  <1>1. id \in DOMAIN reserves /\ reserves[id] \in ReserveRecord
    BY CountersGrow DEF TypeOK
  <1> DEFINE old == reserves[id]
             new == reserves'[id]
  <1>2. PICK amount \in Nat :
            /\ new.lifetime_minted = old.lifetime_minted + amount
            /\ \A start \in Instants : start >= saturating_sub(clock, LargestWindow) =>
                   \E part \in {0, amount} :
                       EventSum(new.mint_events, start) = EventSum(old.mint_events, start) + part
    BY CountersGrow
  <1>3. Lags(copy, old, clock)
    BY <1>1
  <1>4. /\ copy.lifetime_minted \in Nat /\ old.lifetime_minted \in Nat
        /\ copy.mint_events \in MintEvents /\ old.mint_events \in MintEvents
    BY <1>1 DEF ReserveRecord
  <1>5. copy.lifetime_minted <= old.lifetime_minted
    BY <1>3 DEF Lags
  <1>6. ASSUME NEW start \in Instants, start >= saturating_sub(clock', LargestWindow)
        PROVE  Close(EventSum(copy.mint_events, start), EventSum(new.mint_events, start),
                     new.lifetime_minted - copy.lifetime_minted)
    <2>1. start >= saturating_sub(clock, LargestWindow)
      <3>1. /\ start \in Nat /\ clock \in Nat /\ clock' \in Nat /\ clock' >= clock
            /\ LargestWindow \in Nat
        BY TimeGoesOn, WindowTypes, MaxTimeAssumption DEF Instants
      <3>2. /\ saturating_sub(clock, LargestWindow) \in Nat
            /\ saturating_sub(clock', LargestWindow) \in Nat
            /\ saturating_sub(clock, LargestWindow) <= saturating_sub(clock', LargestWindow)
        BY <3>1, CutoffMoves
      <3> QED
        BY <1>6, <3>1, <3>2
    <2>2. PICK part \in {0, amount} :
              EventSum(new.mint_events, start) = EventSum(old.mint_events, start) + part
      BY <1>2, <1>6, <2>1
    <2>3. Close(EventSum(copy.mint_events, start), EventSum(old.mint_events, start),
                old.lifetime_minted - copy.lifetime_minted)
      BY <1>3, <1>6, <2>1 DEF Lags
    <2>4. EventSum(copy.mint_events, start) \in Nat /\ EventSum(old.mint_events, start) \in Nat
      BY <1>4, EventSumType
    <2> DEFINE was == EventSum(copy.mint_events, start)
               is == EventSum(old.mint_events, start)
               will == EventSum(new.mint_events, start)
    <2> HIDE DEF was, is, will, old, new
    <2>5. was <= is /\ is <= was + (old.lifetime_minted - copy.lifetime_minted)
      BY <2>3 DEF Close, was, is
    <2>6. will = is + part /\ was \in Nat /\ is \in Nat /\ part \in Nat /\ part <= amount
      BY <1>2, <2>2, <2>4 DEF was, is, will
    <2>7. was <= will /\ will <= was + (new.lifetime_minted - copy.lifetime_minted)
      BY <1>2, <1>4, <1>5, <2>5, <2>6
    <2> QED
      BY <2>7 DEF Close, was, will
  <1>7. copy.lifetime_minted <= new.lifetime_minted
    <2> HIDE DEF old, new
    <2> QED
      BY <1>2, <1>4, <1>5
  <1> QED
    BY <1>6, <1>7 DEF Lags

(* The copy of a preview lags behind the record, if the reserve is there   *)
(* still: its id is not given to another.                                  *)
CopiesLag ==
    \A p \in Previewers : Awaiting(p) =>
        /\ preview[p].id < next_reserve_id
        /\ preview[p].id \in DOMAIN reserves =>
               Lags(preview[p].record, reserves[preview[p].id], clock)

LEMMA FreshCopy ==
    ASSUME NEW record \in ReserveRecord, NEW now
    PROVE  Lags(record, record, now)
  <1>1. record.lifetime_minted \in Nat /\ record.mint_events \in MintEvents
    BY DEF ReserveRecord
  <1>2. \A start : EventSum(record.mint_events, start) \in Nat
    BY <1>1, EventSumType
  <1> QED
    BY <1>1, <1>2 DEF Lags, Close

LEMMA CopiesLagStep ==
    ASSUME TypeOK, PreviewTypeOK, InThePast, CopiesLag, [PreviewNext]_preview_vars
    PROVE  CopiesLag'
  <1>1. CASE MinterStep \/ UNCHANGED preview_vars
    <2>1. preview' = preview /\ [Next]_vars
      BY <1>1, PreviewSteps DEF MinterStep, preview_vars
    <2> SUFFICES ASSUME NEW p \in Previewers, Awaiting(p)
                 PROVE  /\ preview[p].id < next_reserve_id'
                        /\ preview[p].id \in DOMAIN reserves' =>
                               Lags(preview[p].record, reserves'[preview[p].id], clock')
      BY <2>1 DEF CopiesLag, Awaiting
    <2>2. preview[p].id < next_reserve_id /\ preview[p].id \in Nat
      BY PreviewLocals DEF CopiesLag
    <2>3. next_reserve_id <= next_reserve_id' /\ next_reserve_id' \in Nat
      BY <2>1, IdsGrow
    <2>4. next_reserve_id \in Nat
      BY DEF TypeOK
    <2>5. preview[p].id < next_reserve_id'
      BY <2>2, <2>3, <2>4
    <2>6. preview[p].record \in ReserveRecord
      BY PreviewLocals
    <2>7. preview[p].id \in DOMAIN reserves => Lags(preview[p].record, reserves[preview[p].id], clock)
      BY DEF CopiesLag
    <2> QED
      BY <2>1, <2>2, <2>5, <2>6, <2>7, LagGrows
  <1>2. ASSUME UNCHANGED vars, NEW q \in Previewers, PreviewStep(q)
        PROVE  CopiesLag'
    <2>1. /\ reserves' = reserves /\ next_reserve_id' = next_reserve_id /\ clock' = clock
      BY <1>2 DEF vars, minter_vars
    <2>2. preview \in [Previewers -> PreviewHandler]
      BY DEF PreviewTypeOK
    <2>3. ASSUME NEW queue, PreviewWith(q, queue)
          PROVE  CopiesLag'
      <3>1. CASE preview' = [preview EXCEPT ![q] = NotPreviewing]
        BY <2>1, <2>2, <3>1 DEF CopiesLag, Awaiting, NotPreviewing
      <3>2. ASSUME NEW id \in DOMAIN reserves, NEW rest,
                   preview' = [preview EXCEPT ![q] =
                       [at |-> "balance", id |-> id, rest |-> rest, record |-> reserves[id],
                        policy |-> global_policy, reply |-> None]]
            PROVE  CopiesLag'
        <4>1. Lags(reserves[id], reserves[id], clock)
          BY FreshCopy DEF TypeOK
        <4>2. id < next_reserve_id
          BY DEF TypeOK
        <4>3. /\ preview'[q].id = id /\ preview'[q].record = reserves[id]
              /\ \A p \in Previewers \ {q} : preview'[p] = preview[p]
          BY <2>2, <3>2
        <4> QED
          BY <2>1, <4>1, <4>2, <4>3 DEF CopiesLag, Awaiting
      <3> QED
        BY <2>3, <3>1, <3>2 DEF PreviewWith
    <2>4. ASSUME NEW reply, AnswerPreview(q, reply)
          PROVE  CopiesLag'
      <3>1. /\ Awaiting(q)
            /\ preview'[q].id = preview[q].id /\ preview'[q].record = preview[q].record
            /\ \A p \in Previewers \ {q} : preview'[p] = preview[p]
        <4>1. preview' = [preview EXCEPT ![q] = [preview[q] EXCEPT !.reply = reply]]
          BY <2>4 DEF AnswerPreview
        <4>2. Awaiting(q)
          BY <2>4 DEF AnswerPreview
        <4>3. preview[q] \in [at : {"balance"}, id : Nat, rest : SUBSET Nat, record : ReserveRecord,
                              policy : GlobalPolicy, reply : Optional(Calls)]
          BY <2>2, <4>2 DEF PreviewHandler, NotPreviewing, Awaiting
        <4> QED
          BY <2>2, <4>1, <4>2, <4>3
      <3> QED
        BY <2>1, <3>1 DEF CopiesLag, Awaiting
    <2> QED
      BY <1>2, <2>3, <2>4 DEF PreviewStep, PreviewReserve, PreviewAllReserves, StartPreview,
                              ServePreview, FailPreview, PreviewAnswered
  <1> QED
    BY <1>1, <1>2, PreviewSteps

LEMMA LagSuffices ==
    ASSUME TypeOK, PreviewTypeOK, RepliesKnown, CopiesLag
    PROVE  OverstatesByMintsOnly
  <1> SUFFICES ASSUME NEW p \in Previewers, OnlyCountersStale(p)
               PROVE  LET copy == preview[p].record
                          record == reserves[preview[p].id]
                          announces == PreviewResponse(p).would_mint
                          due == ResponseTo(record, preview[p].reply.value, preview[p].policy,
                                            clock).would_mint
                      IN  /\ due <= announces
                          /\ announces <= due + (record.lifetime_minted - copy.lifetime_minted)
    BY DEF OverstatesByMintsOnly
  <1>1. /\ Awaiting(p) /\ preview[p].id \in DOMAIN reserves
        /\ preview[p].record.config = reserves[preview[p].id].config
        /\ preview[p].reply \notin {None, Failed}
    BY DEF OnlyCountersStale
  <1>2. /\ preview[p].record \in ReserveRecord /\ reserves[preview[p].id] \in ReserveRecord
        /\ preview[p].policy \in GlobalPolicy /\ clock \in Instants
    BY <1>1, PreviewLocals DEF TypeOK
  <1>3. preview[p].reply.value \in Nat
    <2>1. preview[p].reply \in [status : {"ok"}, value : Nat]
      BY <1>1 DEF RepliesKnown, LedgerReplies
    <2> QED
      BY <2>1
  <1>4. Lags(preview[p].record, reserves[preview[p].id], clock)
    BY <1>1 DEF CopiesLag
  <1> QED
    BY <1>1, <1>2, <1>3, <1>4, ResponseClose DEF Close, PreviewResponse

(* A preview that answers from counters of before a mint overstates what   *)
(* is due by no more than what was recorded in the meantime.               *)
THEOREM StalePreviewsOverstateMintsOnly == PreviewSpec => []OverstatesByMintsOnly
  <1>1. PreviewInit => InThePast /\ CopiesLag
    BY DEF PreviewInit, Init, InThePast, Idle, CopiesLag, Awaiting, NotPreviewing
  <1>2. TypeOK /\ PreviewTypeOK /\ InThePast /\ CopiesLag /\ [PreviewNext]_preview_vars
            => InThePast' /\ CopiesLag'
    BY PreviewSteps, InThePastStep, CopiesLagStep
  <1>3. TypeOK /\ PreviewTypeOK /\ RepliesKnown /\ CopiesLag => OverstatesByMintsOnly
    BY LagSuffices
  <1> QED
    BY <1>1, <1>2, <1>3, PreviewTypes, PTL DEF PreviewSpec
=============================================================================
