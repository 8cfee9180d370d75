------------------------------ MODULE Preview ------------------------------
(***************************************************************************)
(* The dry run of a rebalance (preview_inner, preview_rebalance_reserve    *)
(* and preview_rebalance_all_reserves in api/admin/api.rs), interleaved    *)
(* with everything the minter does.                                        *)
(*                                                                         *)
(* A preview takes no lock and changes nothing.  Like rebalance_one it     *)
(* copies the reserve, awaits the balance and computes; the two methods do *)
(* so in code of their own, and this module compares what they answer.     *)
(***************************************************************************)
EXTENDS MinterProperties

CONSTANT Previewers    \* contexts that run previews, at most one call each

ASSUME PreviewersAssumption == Previewers \cap Contexts = {}

VARIABLES
    preview,    \* what each previewer waits for
    announced   \* history: the last answer for each reserve, as long as
                \* nothing it was computed from has changed

preview_vars == <<vars, preview, announced>>

NotPreviewing == [at |-> "idle"]

(* `reply' is None until the ledger answers. *)
PreviewHandler ==
    {NotPreviewing}
    \cup [at : {"balance"}, id : Nat, rest : SUBSET Nat, record : ReserveRecord,
          policy : GlobalPolicy, reply : Optional(Calls)]

Response == [action : {"Minted", "Skipped", "AlreadyFunded"}, would_mint : Nat]

PreviewTypeOK ==
    /\ preview \in [Previewers -> PreviewHandler]
    /\ announced \in [0..(MaxReserves - 1) -> Optional(Response)]

PreviewInit ==
    /\ Init
    /\ preview = [p \in Previewers |-> NotPreviewing]
    /\ announced = [id \in 0..(MaxReserves - 1) |-> None]

-----------------------------------------------------------------------------
(* The loop goes on to the first reserve that still exists, and copies it. *)
PreviewWith(p, queue) ==
    LET present == queue \cap DOMAIN reserves
    IN  \/ present = {} /\ preview' = [preview EXCEPT ![p] = NotPreviewing]
        \/ \E id \in present :
               /\ \A other \in present : id <= other
               /\ preview' = [preview EXCEPT ![p] =
                     [at |-> "balance", id |-> id, rest |-> {r \in queue : r > id},
                      record |-> reserves[id], policy |-> global_policy,
                      reply |-> None]]

StartPreview(p, queue) ==
    /\ preview[p] = NotPreviewing
    /\ queue \cap DOMAIN reserves # {}
    /\ PreviewWith(p, queue)
    /\ UNCHANGED <<vars, announced>>

PreviewReserve(p) == \E id \in DOMAIN reserves : StartPreview(p, {id})
PreviewAllReserves(p) == StartPreview(p, DOMAIN reserves)

Awaiting(p) == preview[p].at = "balance"

(* The ledger answers icrc1_balance_of, or the call fails. *)
AnswerPreview(p, reply) ==
    /\ Awaiting(p)
    /\ preview[p].reply = None
    /\ preview' = [preview EXCEPT ![p].reply = reply]
    /\ UNCHANGED <<vars, announced>>

ServePreview(p) ==
    /\ Awaiting(p)
    /\ AnswerPreview(p, [status |-> "ok",
                         value |-> balance[preview[p].record.config.account]])

FailPreview(p) == "reject" \in Environment /\ AnswerPreview(p, Failed)

WouldMint_Budget(computed, budget) == budget
WouldMint_PerOperation(computed, budget) == computed.mint_amount
WouldMint(computed, budget) == Cap(computed.mint_amount, budget)

(* What preview_inner answers from a record, a balance and a policy. *)
ResponseTo(record, current_balance, policy, now) ==
    LET computed ==
            compute_rebalance(record.config, current_balance, record.lifetime_minted, policy)
        budget == available_mint_budget(record.config.rate_limits, record.mint_events, now)
    IN  [action |-> computed.action, would_mint |-> WouldMint(computed, budget)]

PreviewResponse(p) ==
    ResponseTo(preview[p].record, preview[p].reply.value, preview[p].policy, clock)

(* The copies of a preview are those of the state it answers in. *)
PreviewIsCurrent(p) ==
    /\ preview[p].id \in DOMAIN reserves
    /\ preview[p].record = reserves[preview[p].id]
    /\ preview[p].policy = global_policy
    /\ preview[p].reply.value = balance[preview[p].record.config.account]

PreviewAnswered(p) ==
    /\ Awaiting(p)
    /\ preview[p].reply # None
    /\ LET answer == IF preview[p].reply = Failed THEN None ELSE PreviewResponse(p)
       IN  announced' = [announced EXCEPT ![preview[p].id] =
              IF answer # None /\ answer.action # "MintingDisabled" /\ PreviewIsCurrent(p)
              THEN answer ELSE @]
    /\ PreviewWith(p, preview[p].rest)
    /\ UNCHANGED vars

-----------------------------------------------------------------------------
(* An answer for a reserve is about its record, the policy, the balance of *)
(* its account and the time.                                               *)
StillTrue(id) ==
    /\ id \in DOMAIN reserves /\ id \in DOMAIN reserves'
    /\ reserves'[id] = reserves[id]
    /\ balance'[reserves[id].config.account] = balance[reserves[id].config.account]
    /\ UNCHANGED <<global_policy, clock>>

MinterStep ==
    /\ Next
    /\ UNCHANGED preview
    /\ announced' = [id \in DOMAIN announced |->
                        IF StillTrue(id) THEN announced[id] ELSE None]

PreviewStep(p) ==
    PreviewReserve(p) \/ PreviewAllReserves(p) \/ ServePreview(p) \/ FailPreview(p)
    \/ PreviewAnswered(p)

PreviewNext == MinterStep \/ \E p \in Previewers : PreviewStep(p)

PreviewSpec == PreviewInit /\ [][PreviewNext]_preview_vars

-----------------------------------------------------------------------------
(* The rebalance of c decides from the state there is: what it copied and  *)
(* was told is still so.                                                   *)
DecidesFresh(c) ==
    /\ AwaitsBalance(c)
    /\ call[c].status = "ok"
    /\ handler[c].record = reserves[handler[c].id]
    /\ handler[c].policy = global_policy
    /\ call[c].value = balance[handler[c].record.config.account]

(* Nothing it depends on having changed since, the answer of a preview is  *)
(* the amount the next rebalance sends to the ledger: never another, and   *)
(* nothing is minted where zero was announced.                             *)
AnnouncedIsMinted ==
    [][\A c \in Contexts :
           DecidesFresh(c) /\ announced[handler[c].id] # None =>
               LET amount == announced[handler[c].id].would_mint
               IN  /\ SendMint(c) => amount = handler'[c].amount
                   /\ NothingToMint(c) => amount = 0]_preview_vars

(* Preview p has its balance, and its reserve is configured as it was when *)
(* it copied the record.                                                   *)
OnlyCountersStale(p) ==
    /\ Awaiting(p)
    /\ preview[p].reply \notin {None, Failed}
    /\ preview[p].id \in DOMAIN reserves
    /\ reserves[preview[p].id].config = preview[p].record.config

(* A preview takes no lock, so it may answer from counters of before and a *)
(* balance of after a mint.  It then overstates the amount that is due by  *)
(* no more than what was recorded for the reserve in the meantime, and it  *)
(* never understates it: as mints come in, less is due and less allowed.   *)
OverstatesByMintsOnly ==
    \A p \in Previewers : OnlyCountersStale(p) =>
        LET copy == preview[p].record
            record == reserves[preview[p].id]
            announces == PreviewResponse(p).would_mint
            due == ResponseTo(record, preview[p].reply.value, preview[p].policy,
                              clock).would_mint
        IN  /\ due <= announces
            /\ announces <= due + (record.lifetime_minted - copy.lifetime_minted)
=============================================================================
