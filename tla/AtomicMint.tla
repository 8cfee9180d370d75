----------------------------- MODULE AtomicMint -----------------------------
(***************************************************************************)
(* What the minter promises about minting, without locks, awaits, copies   *)
(* or calls: a mint to a reserve is one step that creates the block, adds  *)
(* its amount to the counter of the reserve, within its ceiling, and       *)
(* settles its key.  Minter.tla implements it; see MinterRefinement.tla.   *)
(*                                                                         *)
(* Where messages or handlers may be lost (Lossy), the minter may forget a *)
(* mint again, but only the latest of a reserve and only until it has been *)
(* confirmed to whoever asked for it.  Where the ledger cannot tell two    *)
(* mints apart (Ambiguous), the minter may count one of its blocks again.  *)
(***************************************************************************)
EXTENDS Integers, Sequences

CONSTANTS None, Keys, KeyPrefix, Lossy, Ambiguous

VARIABLES
    ceiling,   \* the lifetime ceiling of each registered reserve, or None
    counted,   \* what each registered reserve has received
    open,      \* the block and key of its latest mint, None once confirmed
    answer,    \* what each key has minted, or None
    blocks     \* all mints there ever were

vars == <<ceiling, counted, open, answer, blocks>>

Registered == DOMAIN ceiling

Init ==
    /\ ceiling = [id \in {} |-> None]
    /\ counted = [id \in {} |-> 0]
    /\ open = [id \in {} |-> None]
    /\ answer = [k \in Keys |-> None]
    /\ blocks = <<>>

(* A new reserve has received nothing, by its counter and by the blocks. *)
Register ==
    \E id \in DOMAIN ceiling' \ Registered :
        /\ \A i \in DOMAIN blocks : blocks[i].memo.id # id
        /\ ceiling' = [r \in Registered \cup {id} |->
                          IF r = id THEN ceiling'[id] ELSE ceiling[r]]
        /\ counted' = [r \in Registered \cup {id} |-> IF r = id THEN 0 ELSE counted[r]]
        /\ open' = [r \in Registered \cup {id} |-> IF r = id THEN None ELSE open[r]]
        /\ UNCHANGED <<answer, blocks>>

(* A ceiling only ever gets looser. *)
Loosen ==
    \E id \in Registered :
        /\ id \in DOMAIN ceiling'
        /\ ceiling' = [ceiling EXCEPT ![id] = ceiling'[id]]
        /\ ceiling'[id] # None => ceiling[id] # None /\ ceiling[id] <= ceiling'[id]
        /\ UNCHANGED <<counted, open, answer, blocks>>

Remove ==
    \E id \in Registered :
        /\ open[id] = None
        /\ ceiling' = [r \in Registered \ {id} |-> ceiling[r]]
        /\ counted' = [r \in Registered \ {id} |-> counted[r]]
        /\ open' = [r \in Registered \ {id} |-> open[r]]
        /\ UNCHANGED <<answer, blocks>>

(* A mint to a reserve is counted within its ceiling, one at a time, and   *)
(* settles the key it may have, whose answer names its block.              *)
CountBlock(i, tx, key) ==
    LET id == tx.memo.id
    IN  /\ id \in Registered
        /\ open[id] = None
        /\ ceiling[id] # None => counted[id] + tx.amount <= ceiling[id]
        /\ counted' = [counted EXCEPT ![id] = @ + tx.amount]
        /\ open' = [open EXCEPT ![id] = [block |-> i, key |-> key]]
        /\ IF key = None THEN tx.memo.key = None
           ELSE KeyPrefix[key] = tx.memo.key /\ answer[key] = None
        /\ answer' = [k \in Keys |->
              IF k = key THEN [reserve_id |-> id, minted_amount |-> tx.amount,
                               ledger_block_index |-> i]
              ELSE answer[k]]

(* The block a step creates. *)
Created == blocks'[Len(blocks')]
IsNewBlock ==
    /\ Len(blocks') = Len(blocks) + 1
    /\ blocks' = Append(blocks, Created)

Mint ==
    /\ IsNewBlock
    /\ \E key \in Keys \cup {None} : CountBlock(Len(blocks'), Created, key)
    /\ UNCHANGED ceiling

(* A mint the ledger takes for one it has executed before. *)
Recount ==
    /\ Ambiguous
    /\ \E i \in DOMAIN blocks : \E key \in Keys \cup {None} :
           CountBlock(i, blocks[i], key)
    /\ UNCHANGED <<ceiling, blocks>>

Confirm ==
    \E id \in Registered :
        /\ open[id] # None
        /\ open' = [open EXCEPT ![id] = None]
        /\ UNCHANGED <<ceiling, counted, answer, blocks>>

(* The minter forgets the open mints of some reserves, and their keys. *)
Forget ==
    /\ Lossy
    /\ \E lost \in SUBSET {id \in Registered : open[id] # None} :
           /\ open' = [r \in Registered |-> IF r \in lost THEN None ELSE open[r]]
           /\ counted' = [r \in Registered |->
                 IF r \in lost THEN counted[r] - blocks[open[r].block].amount
                 ELSE counted[r]]
           /\ answer' = [k \in Keys |->
                 IF \E r \in lost : open[r].key = k THEN None ELSE answer[k]]
    /\ UNCHANGED <<ceiling, blocks>>

(* A mint that was already forgotten when it was executed. *)
MintUnseen ==
    /\ Lossy
    /\ IsNewBlock
    /\ Created.memo.id \in Registered
    /\ open[Created.memo.id] = None
    /\ UNCHANGED <<ceiling, counted, open, answer>>

Next ==
    Register \/ Loosen \/ Remove \/ Mint \/ Recount \/ Confirm \/ Forget \/ MintUnseen

Spec == Init /\ [][Next]_vars
=============================================================================
