------------------------------- MODULE Ledger -------------------------------
(***************************************************************************)
(* The ICRC-1 ledger canister as the minter's client (services/ledger.rs)  *)
(* uses it, and the inter-canister calls between the two.  The ledger is   *)
(* not part of the repository; this is the environment of Minter.tla.      *)
(*                                                                         *)
(* Each execution context of the minter has at most one call outstanding,  *)
(* because every handler awaits one call at a time.  A call is a           *)
(* bounded-wait call: its reply may be lost after the ledger has served    *)
(* the request, and then the caller sees an error.                         *)
(*                                                                         *)
(* Assumed of such calls: a request that was not served when the wait of   *)
(* its caller ended is not served later.  The system drops an undelivered  *)
(* bounded-wait request at its deadline.                                   *)
(***************************************************************************)
EXTENDS Reserve

CONSTANTS
    Contexts,      \* execution contexts of the minter that may call
    Keys,          \* idempotency keys of manual top-ups
    KeyPrefix,     \* what is left of a key in a memo cut to 32 bytes
    Environment    \* which of EnvironmentEvents may happen in this model

EnvironmentEvents ==
    {"spend", "deposit", "reject", "lost_reply", "same_instant",
     "trap", "live_upgrade", "live_release"}

ASSUME EnvironmentAssumption == Environment \subseteq EnvironmentEvents
ASSUME KeyPrefixAssumption == KeyPrefix \in [Keys -> Keys]
ASSUME KeysAssumption == None \notin Keys

VARIABLES
    balance,   \* tokens held by each account
    blocks,    \* the ledger's log: one block per executed mint
    call       \* the outstanding call of each context, or its reply

ledger_vars == <<balance, blocks, call>>

(* "rebalance:id", "topup:id" or "topup:id:key" *)
Memo == [origin : {"rebalance", "topup"}, id : Nat, key : Optional(Keys)]

(* The arguments of icrc1_transfer. *)
Transfer == [to : Accounts, amount : Nat, memo : Memo, created_at_time : Instants]

NoCall == [status |-> "none"]
Failed == [status |-> "error"]

(* The client side, services/ledger.rs. *)
get_balance(account) == [status |-> "balance_of", account |-> account]

Truncated(key) == IF key = None THEN None ELSE KeyPrefix[key]

mint_to_NoKey(account, amount, memo, now) ==
    [status |-> "transfer",
     tx |-> [to |-> account, amount |-> amount, memo |-> [memo EXCEPT !.key = None],
             created_at_time |-> now]]
mint_to(account, amount, memo, now) ==
    [status |-> "transfer",
     tx |-> [to |-> account,
             amount |-> amount,
             memo |-> [memo EXCEPT !.key = Truncated(memo.key)],
             created_at_time |-> now]]

(* TransferError::Duplicate is taken for a success. *)
Succeeded(reply) == reply.status \in {"ok", "duplicate"}

Calls ==
    {NoCall, Failed}
    \cup [status : {"balance_of"}, account : Accounts]
    \cup [status : {"transfer"}, tx : Transfer]
    \cup [status : {"ok", "duplicate"}, value : Nat]

Replied(c) == call[c].status \in {"ok", "duplicate", "error"}

LedgerTypeOK ==
    /\ balance \in [Accounts -> Nat]
    /\ blocks \in Seq(Transfer)
    /\ call \in [Contexts -> Calls]

LedgerInit ==
    /\ balance = [a \in Accounts |-> 0]
    /\ blocks = <<>>
    /\ call = [c \in Contexts |-> NoCall]

Reply(c, status, value) ==
    call' = [call EXCEPT ![c] = [status |-> status, value |-> value]]

ServeBalance(c) ==
    /\ call[c].status = "balance_of"
    /\ Reply(c, "ok", balance[call[c].account])
    /\ UNCHANGED <<balance, blocks>>

(* The caller is the minting account, so a transfer creates tokens. *)
ExecuteTransfer(c) ==
    /\ call[c].status = "transfer"
    /\ LET tx == call[c].tx
       IN  /\ balance' = [balance EXCEPT ![tx.to] = @ + tx.amount]
           /\ blocks' = Append(blocks, tx)
           /\ Reply(c, "ok", Len(blocks) + 1)

(* Deduplication: a transfer equal to an earlier one in every field, its   *)
(* creation time included, is refused with the index of the earlier block. *)
(* Instants are hours here: two transfers of the same hour may or may not  *)
(* have the same nanosecond, so this competes with ExecuteTransfer.        *)
RefuseDuplicate(c) ==
    /\ "same_instant" \in Environment
    /\ call[c].status = "transfer"
    /\ \E i \in DOMAIN blocks : blocks[i] = call[c].tx /\ Reply(c, "duplicate", i)
    /\ UNCHANGED <<balance, blocks>>

(* The request fails without effect: not delivered, or answered with an    *)
(* error by the ledger.                                                    *)
Reject(c) ==
    /\ "reject" \in Environment
    /\ call[c].status \in {"balance_of", "transfer"}
    /\ call' = [call EXCEPT ![c] = Failed]
    /\ UNCHANGED <<balance, blocks>>

(* The wait of a bounded-wait call ends after the ledger served the        *)
(* request, a duplicate included, and before the answer arrives.  A wait   *)
(* that ends before that is Reject: the request is not served any more.    *)
LoseReply(c) ==
    /\ "lost_reply" \in Environment
    /\ Succeeded(call[c])
    /\ call' = [call EXCEPT ![c] = Failed]
    /\ UNCHANGED <<balance, blocks>>

(* The holder of an account (the app backend) pays tokens out. *)
Spend(a) ==
    /\ "spend" \in Environment
    /\ \E left \in 0..balance[a] : left < balance[a] /\ balance' = [balance EXCEPT ![a] = left]
    /\ UNCHANGED <<blocks, call>>

MintedAmounts == [i \in DOMAIN blocks |-> blocks[i].amount]

TotalMinted == SumFunction(MintedAmounts)
TotalHeld == SumFunction(balance)

(* A user sends tokens that were paid out earlier back to a reserve. *)
Deposit(a) ==
    /\ "deposit" \in Environment
    /\ \E amount \in 1..(TotalMinted - TotalHeld) :
           balance' = [balance EXCEPT ![a] = @ + amount]
    /\ UNCHANGED <<blocks, call>>

LedgerAnswer(c) == ServeBalance(c) \/ ExecuteTransfer(c)
LedgerFault(c) == RefuseDuplicate(c) \/ Reject(c) \/ LoseReply(c)
LedgerUser == \E a \in Accounts : Spend(a) \/ Deposit(a)
=============================================================================
