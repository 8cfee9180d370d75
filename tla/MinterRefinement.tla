-------------------------- MODULE MinterRefinement --------------------------
(***************************************************************************)
(* The minter implements AtomicMint.tla.  A mint happens, in the abstract, *)
(* when the ledger executes its transfer: from then on it is counted and   *)
(* its key is settled, although the reply is still under way and the       *)
(* continuation that records both has not run.                             *)
(***************************************************************************)
EXTENDS MinterProperties

(* The transfer of context c is executed, or refused as a duplicate, and   *)
(* its reply has not arrived.                                              *)
Executed(c) == handler[c].at = "transfer" /\ Succeeded(call[c])

MinterOf(id) == CHOOSE c \in Contexts : Executed(c) /\ handler[c].id = id

Executing(id) == \E c \in Contexts : Executed(c) /\ handler[c].id = id

OpenMint == [id \in DOMAIN reserves |->
    IF Executing(id)
    THEN [block |-> call[MinterOf(id)].value, key |-> handler[MinterOf(id)].key]
    ELSE None]

Counted == [id \in DOMAIN reserves |->
    reserves[id].lifetime_minted + IF Executing(id) THEN handler[MinterOf(id)].amount ELSE 0]

ASSUME NoMintAssumption == None \notin [block : Nat, key : Optional(Keys)]

Ceiling == [id \in DOMAIN reserves |-> loosest[id].lifetime]

AnswerOf(id, amount, block) ==
    [reserve_id |-> id, minted_amount |-> amount, ledger_block_index |-> block]

Settling(k, c) == Executed(c) /\ handler[c].key = k

(* A completed key, or one whose mint is executed. *)
Answer ==
    [k \in Keys |->
        IF IsCompleted(k)
        THEN AnswerOf(idempotency[k].reserve_id, idempotency[k].minted_amount,
                      idempotency[k].ledger_block_index)
        ELSE IF \E c \in Contexts : Settling(k, c)
        THEN LET c == CHOOSE c \in Contexts : Settling(k, c)
             IN  AnswerOf(handler[c].id, handler[c].amount, call[c].value)
        ELSE None]

Losses == {"lost_reply", "trap", "live_upgrade"}

Atomic == INSTANCE AtomicMint WITH
    ceiling <- Ceiling,
    counted <- Counted,
    open <- OpenMint,
    answer <- Answer,
    Lossy <- Environment \cap Losses # {},
    Ambiguous <- "same_instant" \in Environment

(* Whatever the interleaving of handlers, ledger and administrators, mints *)
(* behave as single steps: counted once, within the ceiling, once per key, *)
(* one at a time per reserve, and forgotten only by a loss before they are *)
(* confirmed.                                                              *)
ImplementsAtomicMint == Atomic!Spec
=============================================================================
