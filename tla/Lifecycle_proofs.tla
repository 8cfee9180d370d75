-------------------------- MODULE Lifecycle_proofs --------------------------
(***************************************************************************)
(* Proofs about Persistence.tla and Lifecycle.tla, for every set of        *)
(* states, every length of their encodings, every size of a page and every *)
(* number of pages the system grants.                                      *)
(***************************************************************************)
EXTENDS Lifecycle, TLAPS

-----------------------------------------------------------------------------
(* Arithmetic of pages. *)

LEMMA DivisionBounds ==
    ASSUME NEW a \in Nat, NEW b \in Nat \ {0}
    PROVE  /\ a \div b \in Nat
           /\ (a \div b) * b <= a
           /\ a < (a \div b) * b + b
  <1>1. a = b * (a \div b) + (a % b)
    OBVIOUS
  <1>2. a % b \in 0..(b - 1)
    OBVIOUS
  <1>3. a \div b \in Nat
    OBVIOUS
  <1> QED
    BY <1>1, <1>2, <1>3

LEMMA TimesIsMonotonic ==
    ASSUME NEW p \in Nat, NEW q \in Nat, NEW r \in Nat, p <= q
    PROVE  p * r <= q * r
  <1>1. PICK d \in Nat : q = p + d
    <2>1. q - p \in Nat /\ q = p + (q - p)
      OBVIOUS
    <2> QED
      BY <2>1
  <1>2. q * r = p * r + d * r
    BY <1>1
  <1>3. d * r \in Nat /\ p * r \in Nat
    BY <1>1
  <1> QED
    BY <1>2, <1>3

(* The pages save_state asks for hold the prefix and the payload, and no   *)
(* smaller number of pages does.                                           *)
LEMMA NeededPagesSuffice ==
    ASSUME NEW s \in States
    PROVE  /\ needed_pages(s) \in Nat \ {0}
           /\ Length[s] + PREFIX <= needed_pages(s) * PAGE
           /\ \A n \in Nat : n < needed_pages(s) => n * PAGE < Length[s] + PREFIX
  <1> DEFINE size == Length[s] + PREFIX
             n == needed_pages(s)
  <1>1. Length[s] \in Nat \ {0} /\ size \in Nat /\ size > PREFIX
    BY LengthAssumption DEF PREFIX
  <1>2. PAGE \in Nat \ {0} /\ size + PAGE - 1 \in Nat
    BY <1>1, PageAssumption DEF PREFIX
  <1>3. n = (size + PAGE - 1) \div PAGE
    BY DEF needed_pages, div_ceil
  <1>4. n \in Nat /\ n * PAGE <= size + PAGE - 1 /\ size + PAGE - 1 < n * PAGE + PAGE
    BY <1>2, <1>3, DivisionBounds
  <1> HIDE DEF n
  <1>5. n * PAGE \in Nat /\ size <= n * PAGE
    BY <1>1, <1>2, <1>4
  <1>6. n # 0
    BY <1>1, <1>2, <1>5 DEF PREFIX
  <1>7. ASSUME NEW m \in Nat, m < n
        PROVE  m * PAGE < size
    <2>1. (m + 1) * PAGE <= n * PAGE
      BY <1>2, <1>4, <1>7, TimesIsMonotonic
    <2>2. (m + 1) * PAGE = m * PAGE + PAGE /\ m * PAGE \in Nat
      BY <1>2
    <2> QED
      BY <1>1, <1>2, <1>4, <1>5, <2>1, <2>2
  <1> QED
    BY <1>4, <1>5, <1>6, <1>7 DEF n

-----------------------------------------------------------------------------
(* Saving and restoring. *)

(* No two states have the same encoding.                                   *)
LEMMA EncodingIsUnique ==
    ASSUME NEW s \in States, NEW t \in States, encode_one(s) = encode_one(t)
    PROVE  s = t
  <1>1. 1 \in 1..Length[s] /\ 1 \in 1..Length[t]
    BY LengthAssumption
  <1>2. encode_one(s)[1] = <<s, 1>> /\ encode_one(t)[1] = <<t, 1>>
    BY <1>1 DEF encode_one
  <1> QED
    BY <1>2

LEMMA DecodeInvertsEncode ==
    ASSUME NEW s \in States
    PROVE  decode_one(encode_one(s)) = s
  <1>1. \E t \in States : encode_one(s) = encode_one(t)
    OBVIOUS
  <1>2. (CHOOSE t \in States : encode_one(s) = encode_one(t)) = s
    BY <1>1, EncodingIsUnique
  <1> QED
    BY <1>1, <1>2 DEF decode_one

(* The memory of a minter that never held more than the system grants.     *)
Granted(m) == IsStableMemory(m) /\ m.pages <= MaxPages

LEMMA RoomIsNatural ==
    ASSUME NEW pages \in Nat
    PROVE  Room(pages) \in Nat
  <1>1. CASE pages = 0
    BY <1>1 DEF Room
  <1>2. CASE pages # 0
    <2>1. 1 * PAGE <= pages * PAGE
      BY <1>2, PageAssumption, TimesIsMonotonic
    <2>2. pages * PAGE \in Nat
      BY PageAssumption
    <2> QED
      BY <1>2, <2>1, <2>2, PageAssumption DEF Room, PREFIX
  <1> QED
    BY <1>1, <1>2

(* If the system grants the pages, save_state writes and never traps in    *)
(* the write itself: the memory it grows to has room for the encoding.     *)
LEMMA SaveWrites ==
    ASSUME NEW m, Granted(m), NEW s \in States, needed_pages(s) <= MaxPages
    PROVE  /\ Grown(m, s) \in Nat \ {0}
           /\ Grown(m, s) <= MaxPages
           /\ Length[s] <= Room(Grown(m, s))
           /\ save_state(m, s) = Write(m, Grown(m, s), s)
  <1> DEFINE grown == Grown(m, s)
  <1>1. m.pages \in Nat /\ m.pages <= MaxPages
    BY DEF Granted, IsStableMemory
  <1>2. needed_pages(s) \in Nat \ {0}
    BY NeededPagesSuffice
  <1>3. grown \in Nat \ {0} /\ needed_pages(s) <= grown /\ grown <= MaxPages
    BY <1>1, <1>2, MaxPagesAssumption DEF Grown
  <1>4. Length[s] \in Nat /\ PAGE \in Nat
    BY LengthAssumption, PageAssumption
  <1>5. Length[s] + PREFIX <= grown * PAGE
    <2> HIDE DEF grown
    <2>1. needed_pages(s) * PAGE <= grown * PAGE
      BY <1>2, <1>3, <1>4, TimesIsMonotonic
    <2>2. needed_pages(s) * PAGE \in Nat /\ grown * PAGE \in Nat
      BY <1>2, <1>3, <1>4
    <2> QED
      BY <1>4, <2>1, <2>2, NeededPagesSuffice DEF PREFIX
  <1>6. Length[s] <= Room(grown)
    <2> HIDE DEF grown
    <2>1. grown * PAGE \in Nat
      BY <1>3, <1>4
    <2> QED
      BY <1>3, <1>4, <1>5, <2>1 DEF Room, PREFIX
  <1>7. save_state(m, s) = Write(m, grown, s)
    <2>1. ~(needed_pages(s) > MaxPages)
      BY <1>2, MaxPagesAssumption
    <2>2. ~(Length[s] > Room(grown))
      <3> HIDE DEF grown
      <3> QED
        BY <1>3, <1>4, <1>6, RoomIsNatural
    <2> QED
      BY <2>1, <2>2 DEF save_state
  <1> QED
    BY <1>3, <1>6, <1>7

(* A write leaves granted memory.                                          *)
LEMMA WriteIsGranted ==
    ASSUME NEW m, Granted(m), NEW s \in States, NEW pages \in Nat,
           pages <= MaxPages
    PROVE  Granted(Write(m, pages, s))
  <1> DEFINE w == Write(m, pages, s)
  <1>1. Room(pages) \in Nat /\ Length[s] \in Nat
    BY RoomIsNatural, LengthAssumption
  <1>2. ASSUME NEW i \in 1..Room(pages)
        PROVE  w.payload[i] \in Byte
    <2>1. CASE i <= Length[s]
      BY <1>1, <2>1 DEF Write, encode_one, Byte
    <2>2. CASE ~(i <= Length[s]) /\ i <= Room(m.pages)
      <3>1. m.payload \in [1..Room(m.pages) -> Byte]
        BY DEF Granted, IsStableMemory
      <3>2. Room(m.pages) \in Nat
        BY RoomIsNatural DEF Granted, IsStableMemory
      <3>3. i \in 1..Room(m.pages)
        BY <1>1, <2>2, <3>2
      <3> QED
        BY <2>2, <3>1, <3>3 DEF Write
    <2>3. CASE ~(i <= Length[s]) /\ ~(i <= Room(m.pages))
      BY <2>3 DEF Write, Byte
    <2> QED
      BY <2>1, <2>2, <2>3
  <1>3. w.payload \in [1..Room(pages) -> Byte]
    BY <1>2 DEF Write
  <1> QED
    BY <1>1, <1>3 DEF Granted, IsStableMemory, Write

(* save_state then try_restore_state: whatever the memory held before,     *)
(* the state comes back.                                                   *)
THEOREM SavedStateIsRestored ==
    ASSUME NEW m, Granted(m), NEW s \in States, needed_pages(s) <= MaxPages
    PROVE  try_restore_state(save_state(m, s)) = s
  <1> DEFINE grown == Grown(m, s)
             w == Write(m, grown, s)
  <1>1. grown \in Nat \ {0} /\ Length[s] <= Room(grown) /\ save_state(m, s) = w
    BY SaveWrites
  <1>2. Length[s] \in Nat \ {0} /\ Room(grown) \in Nat
    BY <1>1, LengthAssumption, RoomIsNatural
  <1>3. w.pages = grown /\ w.length = Length[s]
    BY DEF Write
  <1>4. [i \in 1..w.length |-> w.payload[i]] = encode_one(s)
    <2> HIDE DEF grown
    <2>1. \A i \in 1..Length[s] : i \in 1..Room(grown) /\ i <= Length[s]
      BY <1>1, <1>2
    <2>2. \A i \in 1..Length[s] : w.payload[i] = encode_one(s)[i]
      BY <2>1 DEF Write
    <2>3. \A i \in 1..Length[s] : encode_one(s)[i] = <<s, i>>
      BY DEF encode_one
    <2> QED
      BY <2>2, <2>3, <1>3 DEF encode_one
  <1>5. try_restore_state(w) = decode_one([i \in 1..w.length |-> w.payload[i]])
    <2>1. ~(w.pages = 0 \/ w.length = 0 \/ w.length > Room(w.pages))
      <3> HIDE DEF grown, w
      <3> QED
        BY <1>1, <1>2, <1>3
    <2> QED
      BY <2>1 DEF try_restore_state
  <1> QED
    BY <1>1, <1>4, <1>5, DecodeInvertsEncode

(* save_state traps exactly if the system does not grant the pages.        *)
LEMMA SaveTrapsWhenFull ==
    ASSUME NEW m, Granted(m), NEW s \in States
    PROVE  save_state(m, s) = None <=> needed_pages(s) > MaxPages
  <1>1. m.pages \in Nat /\ m.pages <= MaxPages /\ needed_pages(s) \in Nat
    BY NeededPagesSuffice DEF Granted, IsStableMemory
  <1>2. ASSUME needed_pages(s) > MaxPages
        PROVE  save_state(m, s) = None
    <2>1. needed_pages(s) > m.pages
      BY <1>1, <1>2, MaxPagesAssumption
    <2> QED
      BY <1>2, <2>1 DEF save_state
  <1>3. ASSUME ~(needed_pages(s) > MaxPages)
        PROVE  save_state(m, s) # None
    <2> DEFINE grown == Grown(m, s)
               w == Write(m, grown, s)
    <2>1. needed_pages(s) <= MaxPages
      BY <1>1, <1>3, MaxPagesAssumption
    <2>2. grown \in 0..MaxPages /\ save_state(m, s) = w
      BY <2>1, SaveWrites, MaxPagesAssumption
    <2>3. Granted(w)
      <3> HIDE DEF grown
      <3> QED
        BY <2>2, WriteIsGranted, MaxPagesAssumption
    <2>4. w \in [pages : {grown}, length : Nat, payload : [1..Room(grown) -> Byte]]
      <3> HIDE DEF grown
      <3>1. w.pages = grown
        BY DEF Write
      <3>2. /\ w.payload \in [1..Room(grown) -> Byte]
            /\ w.length \in Nat
            /\ w = [pages |-> w.pages, length |-> w.length, payload |-> w.payload]
        BY <2>3, <3>1 DEF Granted, IsStableMemory
      <3> QED
        BY <3>1, <3>2
    <2> HIDE DEF w, grown
    <2> QED
      BY <2>2, <2>4, NoneIsNoMemory
  <1> QED
    BY <1>2, <1>3

-----------------------------------------------------------------------------
(* The life cycle. *)

LInv == LifecycleTypeOK /\ Granted(stable)

LEMMA EmptyIsGranted == Granted(EmptyMemory)
  BY MaxPagesAssumption DEF Granted, IsStableMemory, EmptyMemory, Room

LEMMA RestoreIsTyped ==
    ASSUME NEW m
    PROVE  try_restore_state(m) \in States \cup {None}
  <1>1. \A bytes : decode_one(bytes) \in States \cup {None}
    BY DEF decode_one
  <1> QED
    BY <1>1 DEF try_restore_state

(* save_state traps or leaves granted memory.                              *)
LEMMA SaveIsGranted ==
    ASSUME NEW m, Granted(m), NEW s \in States, save_state(m, s) # None
    PROVE  Granted(save_state(m, s))
  <1>1. Grown(m, s) \in Nat /\ Grown(m, s) <= MaxPages
    <2>1. m.pages \in Nat /\ m.pages <= MaxPages /\ needed_pages(s) \in Nat
      BY NeededPagesSuffice DEF Granted, IsStableMemory
    <2>2. ~(needed_pages(s) > m.pages /\ needed_pages(s) > MaxPages)
      BY DEF save_state
    <2> QED
      BY <2>1, <2>2, MaxPagesAssumption DEF Grown
  <1>2. save_state(m, s) = Write(m, Grown(m, s), s)
    BY DEF save_state
  <1> QED
    BY <1>1, <1>2, WriteIsGranted

LEMMA RunningKeepsLInv ==
    ASSUME NEW s \in States, NEW m, Granted(m), Running(s, m)
    PROVE  /\ module' = "minter" /\ state' \in States /\ Granted(stable')
           /\ timer_armed' \in BOOLEAN /\ outcome' = "ok"
  BY DEF Running

LEMMA PostUpgradeKeepsLInv ==
    ASSUME LInv, NEW variant, NEW m, Granted(m), PostUpgrade(variant, m)
    PROVE  \/ UNCHANGED canister /\ outcome' = "trapped"
           \/ /\ module' = "minter" /\ state' \in States /\ Granted(stable')
              /\ timer_armed' \in BOOLEAN /\ outcome' = "ok"
  <1> DEFINE restored == try_restore_state(m)
  <1>1. restored \in States \cup {None}
    BY RestoreIsTyped
  <1> HIDE DEF restored
  <1>2. CASE variant = "Upgrade" /\ restored = None /\ Trapped
    BY <1>2 DEF Trapped
  <1>3. CASE variant = "Upgrade" /\ restored # None /\ Running(restored, m)
    BY <1>1, <1>3, RunningKeepsLInv
  <1>4. CASE variant = "Init" /\ Running(Fresh, m)
    BY <1>4, FreshAssumption, RunningKeepsLInv
  <1> QED
    BY <1>2, <1>3, <1>4 DEF PostUpgrade, restored

(* What a deployment may do to the canister, whichever argument it has.    *)
LEMMA DeployKeepsLInv ==
    ASSUME LInv, NEW d \in Deployers, Deploy(d)
    PROVE  \/ UNCHANGED canister /\ outcome' \in {"trapped", "exhausted"}
           \/ /\ module' = "minter" /\ state' \in States /\ Granted(stable')
              /\ timer_armed' \in BOOLEAN /\ outcome' = "ok"
  <1>1. CASE Install(arg[d])
    BY <1>1, FreshAssumption, RunningKeepsLInv DEF Install, Trapped, LInv
  <1>2. CASE UpgradePlaceholder(arg[d])
    BY <1>2, PostUpgradeKeepsLInv DEF UpgradePlaceholder, LInv
  <1>3. CASE UpgradeMinter(arg[d])
    <2> DEFINE saved == save_state(stable, state)
    <2>1. module = "minter" /\ state \in States /\ Granted(stable)
      BY <1>3 DEF UpgradeMinter, LInv, LifecycleTypeOK
    <2>2. saved # None => Granted(saved)
      BY <2>1, SaveIsGranted
    <2> HIDE DEF saved
    <2>3. CASE saved = None /\ Trapped
      BY <2>3 DEF Trapped
    <2>4. CASE saved # None /\ PostUpgrade(arg[d], saved)
      BY <2>2, <2>4, PostUpgradeKeepsLInv
    <2>5. CASE Exhausted
      BY <2>5 DEF Exhausted
    <2> QED
      BY <1>3, <2>3, <2>4, <2>5 DEF UpgradeMinter, saved
  <1> QED
    BY <1>1, <1>2, <1>3 DEF Deploy

LEMMA InitEstablishesLInv == Init => LInv
  BY EmptyIsGranted DEF Init, LInv, LifecycleTypeOK, Granted, Modules, Args

LEMMA NextKeepsLInv == LInv /\ [Next]_vars => LInv'
  <1> SUFFICES ASSUME LInv, [Next]_vars PROVE LInv'
    OBVIOUS
  <1>1. /\ module \in Modules /\ arg \in [Deployers -> Args \cup {None}]
        /\ state \in IF module = "minter" THEN States ELSE {None}
        /\ timer_armed \in BOOLEAN /\ outcome \in {"ok", "trapped", "exhausted"}
        /\ Granted(stable)
    BY DEF LInv, LifecycleTypeOK
  <1>2. ASSUME NEW d \in Deployers, NEW variant \in Args, Prepare(d, variant)
        PROVE  LInv'
    BY <1>1, <1>2 DEF Prepare, canister, LInv, LifecycleTypeOK, Granted
  <1>3. ASSUME NEW d \in Deployers, Deploy(d)
        PROVE  LInv'
    <2>1. arg' \in [Deployers -> Args \cup {None}]
      BY <1>1, <1>3 DEF Deploy
    <2>2. \/ UNCHANGED canister /\ outcome' \in {"trapped", "exhausted"}
          \/ /\ module' = "minter" /\ state' \in States /\ Granted(stable')
             /\ timer_armed' \in BOOLEAN /\ outcome' = "ok"
      BY <1>3, DeployKeepsLInv
    <2>3. CASE UNCHANGED canister /\ outcome' \in {"trapped", "exhausted"}
      BY <1>1, <2>1, <2>3 DEF canister, LInv, LifecycleTypeOK, Granted
    <2>4. CASE /\ module' = "minter" /\ state' \in States /\ Granted(stable')
               /\ timer_armed' \in BOOLEAN /\ outcome' = "ok"
      BY <1>1, <2>1, <2>4 DEF LInv, LifecycleTypeOK, Modules, Granted
    <2> QED
      BY <2>2, <2>3, <2>4
  <1>4. CASE Reinstall
    BY <1>1, <1>4, FreshAssumption, EmptyIsGranted
       DEF Reinstall, Running, LInv, LifecycleTypeOK, Modules, Granted
  <1>5. CASE InstallPlaceholder
    BY <1>1, <1>5 DEF InstallPlaceholder, LInv, LifecycleTypeOK, Modules, Granted
  <1>6. CASE Work
    BY <1>1, <1>6 DEF Work, LInv, LifecycleTypeOK, Modules, Granted
  <1>7. CASE UNCHANGED vars
    BY <1>1, <1>7 DEF vars, canister, LInv, LifecycleTypeOK, Granted
  <1>8. ASSUME NEW d \in Deployers,
               BuildArgs(d) \/ BuildArgsUnreachable(d) \/ BuildUpgradeArgs(d)
        PROVE  LInv'
    <2>1. PICK variant \in Args : Prepare(d, variant)
      BY <1>8 DEF BuildArgs, BuildArgsUnreachable, BuildUpgradeArgs, Variant, Args
    <2> QED
      BY <1>2, <2>1
  <1> QED
    BY <1>3, <1>4, <1>5, <1>6, <1>7, <1>8 DEF Next

(* The variables keep their types, and the stable memory never holds more  *)
(* pages than the system grants.                                           *)
THEOREM LifecycleTypeCorrect == Spec => []LifecycleTypeOK
  <1>1. LInv => LifecycleTypeOK
    BY DEF LInv
  <1> QED
    BY <1>1, InitEstablishesLInv, NextKeepsLInv, PTL DEF Spec

-----------------------------------------------------------------------------
(* Upgrades. *)

(* A deployment over a running minter is an upgrade: no other step of the  *)
(* canister takes the argument a deployer has prepared.                    *)
LEMMA DeployOverMinter ==
    ASSUME LInv, [Next]_vars, NEW d \in Deployers, Deploys(d), module = "minter"
    PROVE  UpgradeMinter(arg[d])
  <1>1. arg[d] # None /\ arg'[d] = None /\ arg \in [Deployers -> Args \cup {None}]
    BY DEF Deploys, LInv, LifecycleTypeOK
  <1>2. ASSUME NEW e \in Deployers, NEW variant, Prepare(e, variant)
        PROVE  FALSE
    <2>1. d # e
      BY <1>1, <1>2 DEF Prepare
    <2> QED
      BY <1>1, <1>2, <2>1 DEF Prepare
  <1>3. ~(Reinstall \/ InstallPlaceholder \/ Work \/ UNCHANGED vars)
    BY <1>1 DEF Reinstall, InstallPlaceholder, Work, vars
  <1>4. PICK e \in Deployers : Deploy(e)
    BY <1>2, <1>3 DEF Next, BuildArgs, BuildArgsUnreachable, BuildUpgradeArgs
  <1>5. d = e
    BY <1>1, <1>4 DEF Deploy
  <1> QED
    BY <1>4, <1>5 DEF Deploy, Install, UpgradePlaceholder

(* An upgrade that asks for the old state succeeds and has it, or traps    *)
(* and changes nothing; unless the hooks run out of heap or instructions   *)
(* it traps only if the state needs more pages than the system grants.     *)
LEMMA UpgradeOutcome ==
    ASSUME LInv, [Next]_vars, NEW d \in Deployers, Deploys(d),
           module = "minter", arg[d] = "Upgrade"
    PROVE  /\ state' = state
           /\ outcome' \in {"ok", "exhausted"} \/ needed_pages(state) > MaxPages
  <1> DEFINE saved == save_state(stable, state)
             restored == try_restore_state(saved)
  <1>1. UpgradeMinter("Upgrade")
    BY DeployOverMinter
  <1>0. CASE Exhausted
    BY <1>0 DEF Exhausted, canister
  <1> SUFFICES ASSUME ~Exhausted
               PROVE  state' = state /\ (outcome' = "ok" \/ needed_pages(state) > MaxPages)
    BY <1>0
  <1>2. state \in States /\ Granted(stable) /\ needed_pages(state) \in Nat
    BY NeededPagesSuffice DEF LInv, LifecycleTypeOK
  <1>3. CASE needed_pages(state) > MaxPages
    <2>1. saved = None
      BY <1>2, <1>3, SaveTrapsWhenFull
    <2> QED
      BY <1>1, <1>3, <2>1 DEF UpgradeMinter, Trapped, canister
  <1>4. CASE needed_pages(state) <= MaxPages
    <2>1. restored = state /\ state # None
      BY <1>2, <1>4, SavedStateIsRestored, NoneIsNoState
    <2>2. saved # None
      BY <1>2, <1>4, SaveTrapsWhenFull, MaxPagesAssumption
    <2>3. PostUpgrade("Upgrade", saved)
      BY <1>1, <2>2 DEF UpgradeMinter
    <2>4. Running(restored, saved)
      BY <2>1, <2>3 DEF PostUpgrade
    <2> QED
      BY <2>1, <2>4 DEF Running
  <1> QED
    BY <1>2, <1>3, <1>4, MaxPagesAssumption

(* post_upgrade with Arg::Upgrade after pre_upgrade: the minter has the    *)
(* state it had before, whether the upgrade succeeds, over whatever an     *)
(* earlier save left in stable memory, or a hook traps.                    *)
THEOREM UpgradesKeepState == Spec => UpgradeKeepsState
  <1>1. LInv /\ [Next]_vars =>
            [\A d \in Deployers :
                Deploys(d) /\ module = "minter" /\ arg[d] = "Upgrade" =>
                    state' = state]_vars
    BY UpgradeOutcome
  <1> QED
    BY <1>1, InitEstablishesLInv, NextKeepsLInv, PTL DEF Spec, UpgradeKeepsState

(* Such an upgrade traps only if the hooks run out of heap or instructions *)
(* or the state and its prefix do not fit the pages the system grants: the *)
(* pages save_state computes are enough, and no fewer would be.            *)
THEOREM UpgradesFailOnlyWhenFull == Spec => UpgradeFailsOnlyWhenFull
  <1>1. ASSUME LInv, needed_pages(state) > MaxPages, module = "minter"
        PROVE  Length[state] + PREFIX > MaxPages * PAGE
    <2>1. state \in States
      BY <1>1 DEF LInv, LifecycleTypeOK
    <2>2. MaxPages \in Nat /\ needed_pages(state) \in Nat
      BY <2>1, MaxPagesAssumption, NeededPagesSuffice
    <2>3. MaxPages * PAGE < Length[state] + PREFIX
      BY <1>1, <2>1, <2>2, NeededPagesSuffice
    <2>4. MaxPages * PAGE \in Nat /\ Length[state] + PREFIX \in Nat
      BY <2>1, <2>2, LengthAssumption, PageAssumption DEF PREFIX
    <2> QED
      BY <2>3, <2>4
  <1>2. LInv /\ [Next]_vars =>
            [\A d \in Deployers :
                Deploys(d) /\ module = "minter" /\ arg[d] = "Upgrade" =>
                    \/ outcome' \in {"ok", "exhausted"}
                    \/ Length[state] + PREFIX > MaxPages * PAGE]_vars
    BY <1>1, UpgradeOutcome
  <1> QED
    BY <1>2, InitEstablishesLInv, NextKeepsLInv, PTL DEF Spec, UpgradeFailsOnlyWhenFull
=============================================================================
