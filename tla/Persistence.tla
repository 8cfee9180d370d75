---------------------------- MODULE Persistence ----------------------------
(***************************************************************************)
(* The stable memory of the minter and the two functions of state.rs that  *)
(* use it: save_state, called by pre_upgrade, and try_restore_state,       *)
(* called by post_upgrade.                                                 *)
(*                                                                         *)
(* Stable memory is a number of pages, which only ever grows.  Its first   *)
(* PREFIX bytes hold the length of the payload that follows.  The encoding *)
(* of a state is a row of bytes that no other state shares; what Candid    *)
(* does inside it is left out.  An encoding lies in the 4 GiB heap of a    *)
(* 32-bit canister first, so its length always fits the 32-bit prefix.     *)
(***************************************************************************)
EXTENDS Integers

CONSTANTS
    States,     \* the states the canister can be in
    Length,     \* bytes of the encoding of each
    PAGE,       \* bytes of a page of stable memory (65536)
    MaxPages,   \* pages the system grants at most
    None        \* Rust's None, or a trap

PREFIX == 4

ASSUME LengthAssumption == Length \in [States -> Nat \ {0}]
ASSUME PageAssumption == PAGE \in Nat /\ PAGE > PREFIX
ASSUME MaxPagesAssumption == MaxPages \in Nat
ASSUME NoneIsNoState == None \notin States

(* Bytes are told apart by the state and the position they encode. *)
Zero == <<>>
Byte == {Zero} \cup (States \X Nat)

(* What fits behind the prefix. *)
Room(pages) == IF pages = 0 THEN 0 ELSE pages * PAGE - PREFIX

IsStableMemory(m) ==
    /\ m = [pages |-> m.pages, length |-> m.length, payload |-> m.payload]
    /\ m.pages \in Nat
    /\ m.length \in Nat
    /\ m.payload \in [1..Room(m.pages) -> Byte]

ASSUME NoneIsNoMemory ==
    \A pages \in 0..MaxPages :
        None \notin [pages : {pages}, length : Nat, payload : [1..Room(pages) -> Byte]]

EmptyMemory == [pages |-> 0, length |-> 0, payload |-> [i \in 1..0 |-> Zero]]

encode_one(s) == [i \in 1..Length[s] |-> <<s, i>>]

(* Bytes that encode no state are a decoding error. *)
decode_one(bytes) ==
    IF \E s \in States : bytes = encode_one(s)
    THEN CHOOSE s \in States : bytes = encode_one(s)
    ELSE None

div_ceil(a, b) == (a + b - 1) \div b

needed_pages_Payload(s) == div_ceil(Length[s], PAGE)
needed_pages(s) == div_ceil(Length[s] + PREFIX, PAGE)

(* The pages after growing, if the system grants them. *)
Grown(m, s) == IF needed_pages(s) > m.pages THEN needed_pages(s) ELSE m.pages

(* The memory after a write, which leaves what lies behind it as it was. *)
Write(m, pages, s) ==
    [pages |-> pages,
     length |-> Length[s],
     payload |-> [i \in 1..Room(pages) |->
                     IF i <= Length[s] THEN encode_one(s)[i]
                     ELSE IF i <= Room(m.pages) THEN m.payload[i] ELSE Zero]]

(* None is a trap: stable memory cannot grow, or a write is out of bounds. *)
save_state_OnGrowth(m, s) ==
    IF needed_pages(s) <= m.pages THEN m
    ELSE IF needed_pages(s) > MaxPages THEN None
    ELSE Write(m, Grown(m, s), s)
save_state(m, s) ==
    IF needed_pages(s) > m.pages /\ needed_pages(s) > MaxPages THEN None
    ELSE IF Length[s] > Room(Grown(m, s)) THEN None
    ELSE Write(m, Grown(m, s), s)

try_restore_state(m) ==
    IF m.pages = 0 \/ m.length = 0 \/ m.length > Room(m.pages)
    THEN None
    ELSE decode_one([i \in 1..m.length |-> m.payload[i]])
=============================================================================
