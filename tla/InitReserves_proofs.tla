-------------------------- MODULE InitReserves_proofs --------------------------
(***************************************************************************)
(* Proofs about the script that registers the reserves: what it does is    *)
(* administration, so that everything proved of the minter holds while it  *)
(* runs, and what it commits to is kept by whoever runs it.                *)
(***************************************************************************)
EXTENDS InitReserves, Accounting_proofs

(* All operators have the same accounts in their environment, a different  *)
(* one for each bucket.                                                    *)
OneEnvironment ==
    \A o, p \in Operators : \A i, j \in Positions :
        Principals[o][i] = Principals[p][j] <=> i = j

(* Nothing is registered but what the script may register, by the script   *)
(* or by hand, and no reserve is given another configuration.              *)
OnlyScripted == AddArgs = ScriptedConfigs /\ UpdateArgs = {}

-----------------------------------------------------------------------------
(* The script as administration.                                           *)

LEMMA CallSteps ==
    ASSUME ScriptedConfigs \subseteq AddArgs, NEW o \in Operators, Running(o),
           CallAddReserve(o)
    PROVE  Next \/ UNCHANGED vars
  <1>1. Config(o, script[o]) \in AddArgs
    BY DEF ScriptedConfigs, Running
  <1> QED
    BY <1>1 DEF CallAddReserve, Next, Admin

LEMMA ScriptSteps ==
    ASSUME ScriptedConfigs \subseteq AddArgs, [ScriptNext]_init_vars
    PROVE  [Next]_vars
  <1>1. ASSUME NEW o \in Operators, RunScript(o) \/ RegisterBucket(o) \/ DfxFails(o)
        PROVE  Next \/ UNCHANGED vars
    BY <1>1, CallSteps DEF RunScript, RegisterBucket, DfxFails
  <1>2. MinterStep => Next
    BY DEF MinterStep
  <1>3. UNCHANGED init_vars => UNCHANGED vars
    BY DEF init_vars
  <1> QED
    BY <1>1, <1>2, <1>3 DEF ScriptNext

(* Whatever operators do with the script, at once and again, the minter    *)
(* sees calls of add_reserve it could see anyway.                          *)
THEOREM ScriptIsAdministration ==
    ASSUME ScriptedConfigs \subseteq AddArgs
    PROVE  ScriptSpec => Spec
  <1>1. ScriptInit => Init
    BY DEF ScriptInit
  <1>2. [ScriptNext]_init_vars => [Next]_vars
    BY ScriptSteps
  <1> QED
    BY <1>1, <1>2, PTL DEF ScriptSpec, Spec

-----------------------------------------------------------------------------
(* What is registered.                                                     *)

LEMMA BucketTypes ==
    /\ IsFiniteSet(Positions)
    /\ \A i \in Positions : Buckets[i].cap \in Nat /\ Buckets[i].daily \in Optional(Nat)
    /\ Len(Buckets) \in Nat \ {0} /\ Positions = 1..Len(Buckets)
  <1>1. Len(Buckets) \in Nat \ {0} /\ Positions = 1..Len(Buckets)
    BY BucketsAssumption DEF Positions
  <1>2. IsFiniteSet(1..Len(Buckets))
    BY <1>1, FS_Interval
  <1>3. \A i \in Positions : Buckets[i] \in [cap : Nat, daily : Optional(Nat)]
    <2> DEFINE Bucket == [cap : Nat, daily : Optional(Nat)]
    <2>1. Buckets \in Seq(Bucket)
      BY BucketsAssumption
    <2> HIDE DEF Bucket
    <2>2. \A i \in 1..Len(Buckets) : Buckets[i] \in Bucket
      BY <2>1
    <2> QED
      BY <1>1, <2>2 DEF Bucket
  <1>4. \A i \in Positions : Buckets[i].cap \in Nat /\ Buckets[i].daily \in Optional(Nat)
    BY <1>3
  <1>5. IsFiniteSet(Positions)
    BY <1>1, <1>2
  <1> QED
    BY <1>1, <1>4, <1>5

(* Of a bucket's configuration the properties read the account and the cap. *)
LEMMA ConfigFields ==
    ASSUME NEW o \in Operators, NEW i \in Positions
    PROVE  /\ Config(o, i).account = Principals[o][i]
           /\ Config(o, i).lifetime_received_maximum = Buckets[i].cap
  BY DEF Config, ManualReserve, AutoReserve

(* Operators with one environment mean the same reserve by a bucket. *)
LEMMA SameConfig ==
    ASSUME OneEnvironment, NEW o \in Operators, NEW p \in Operators, NEW i \in Positions
    PROVE  Config(o, i) = Config(p, i)
  BY DEF OneEnvironment, Config

Scripted == \A id \in DOMAIN reserves : reserves[id].config \in ScriptedConfigs

(* The ceiling of a reserve is the maximum it is registered with. *)
CeilingIsCap == \A id \in DOMAIN reserves : loosest[id].lifetime = RegisteredCap(id)

(* Where nobody updates reserves, one stays as it was registered. *)
LEMMA RegisteredSteps ==
    ASSUME TypeOK, TypeOK', OnlyScripted, [Next]_vars, NEW id \in DOMAIN reserves'
    PROVE  \/ /\ id \in DOMAIN reserves
              /\ reserves'[id].config = reserves[id].config /\ loosest'[id] = loosest[id]
           \/ /\ id \notin DOMAIN reserves /\ id = next_reserve_id
              /\ reserves'[id].config \in ScriptedConfigs
              /\ loosest'[id] = CapsOf(reserves'[id].config)
  BY ConfigSteps DEF OnlyScripted

LEMMA RegisteredStep ==
    ASSUME TypeOK, TypeOK', OnlyScripted, Scripted, CeilingIsCap, [Next]_vars
    PROVE  Scripted' /\ CeilingIsCap'
  <1> SUFFICES ASSUME NEW id \in DOMAIN reserves'
               PROVE  /\ reserves'[id].config \in ScriptedConfigs
                      /\ loosest'[id].lifetime = reserves'[id].config.lifetime_received_maximum
    BY DEF Scripted, CeilingIsCap, RegisteredCap
  <1>1. \A config : CapsOf(config).lifetime = config.lifetime_received_maximum
    BY DEF CapsOf
  <1> QED
    BY <1>1, RegisteredSteps DEF Scripted, CeilingIsCap, RegisteredCap

(* The account tells the bucket. *)
LEMMA AccountTellsBucket ==
    ASSUME OneEnvironment, Scripted, NEW id \in DOMAIN reserves,
           NEW o \in Operators, NEW i \in Positions, AccountOf(id) = Principals[o][i]
    PROVE  reserves[id].config = Config(o, i)
  <1>1. PICK p \in Operators, j \in Positions : reserves[id].config = Config(p, j)
    BY DEF Scripted, ScriptedConfigs
  <1>2. Principals[p][j] = Principals[o][i]
    BY <1>1, ConfigFields DEF AccountOf
  <1>3. j = i
    BY <1>2 DEF OneEnvironment
  <1> QED
    BY <1>1, <1>3, SameConfig

RegisteredInv == TypeOK /\ AccountsDiffer /\ Scripted /\ CeilingIsCap

LEMMA RegisteredInvariant ==
    ASSUME OnlyScripted
    PROVE  Spec => []RegisteredInv
  <1> DEFINE J == AccountsDiffer /\ Scripted /\ CeilingIsCap
  <1>1. Init => J
    BY DEF Init, AccountsDiffer, Scripted, CeilingIsCap
  <1>2. TypeOK /\ TypeOK' /\ J /\ [Next]_vars => J'
    BY AccountsDifferStep, RegisteredStep
  <1>3. TypeOK /\ J <=> RegisteredInv
    BY DEF RegisteredInv
  <1> HIDE DEF J
  <1> QED
    BY <1>1, <1>2, <1>3, TypeCorrect, PTL DEF Spec

-----------------------------------------------------------------------------
(* The total.                                                              *)

LEMMA ReservesAreFinite ==
    ASSUME TypeOK
    PROVE  IsFiniteSet(DOMAIN reserves)
  <1>1. next_reserve_id \in Nat /\ DOMAIN reserves \subseteq 0..(next_reserve_id - 1)
    BY DEF TypeOK
  <1>2. IsFiniteSet(0..(next_reserve_id - 1))
    BY <1>1, FS_Interval
  <1> QED
    BY <1>1, <1>2, FS_Subset

(* Each reserve is one bucket, and no two are the same one, so that their  *)
(* caps are caps of different buckets.                                     *)
LEMMA CapsAddUp ==
    ASSUME OneEnvironment, RegisteredInv
    PROVE  CommitmentKept
  <1> USE DEF RegisteredInv
  <1> DEFINE ids == DOMAIN reserves
             cap == [id \in ids |-> RegisteredCap(id)]
             caps == [i \in Positions |-> Buckets[i].cap]
             Is(id, i) == \E o \in Operators : reserves[id].config = Config(o, i)
             bucket == [id \in ids |-> CHOOSE i \in Positions : Is(id, i)]
  <1>1. \A id \in ids : bucket[id] \in Positions /\ Is(id, bucket[id])
    <2>1. \A id \in ids : \E i \in Positions : Is(id, i)
      BY DEF Scripted, ScriptedConfigs
    <2> HIDE DEF Is
    <2> QED
      BY <2>1
  <1>2. \A id \in ids : cap[id] = caps[bucket[id]] /\ cap[id] \in Nat
    <2> SUFFICES ASSUME NEW id \in ids
                 PROVE  cap[id] = caps[bucket[id]] /\ cap[id] \in Nat
      OBVIOUS
    <2>1. PICK o \in Operators : reserves[id].config = Config(o, bucket[id])
      BY <1>1
    <2>2. cap[id] = Buckets[bucket[id]].cap
      BY <1>1, <2>1, ConfigFields DEF RegisteredCap
    <2> QED
      BY <1>1, <2>2, BucketTypes
  <1>3. \A r, s \in ids : bucket[r] = bucket[s] => r = s
    <2> SUFFICES ASSUME NEW r \in ids, NEW s \in ids, bucket[r] = bucket[s]
                 PROVE  r = s
      OBVIOUS
    <2>1. PICK o \in Operators, p \in Operators :
              reserves[r].config = Config(o, bucket[r]) /\ reserves[s].config = Config(p, bucket[s])
      BY <1>1
    <2>2. AccountOf(r) = AccountOf(s)
      BY <1>1, <2>1, SameConfig DEF AccountOf
    <2> QED
      BY <2>2 DEF AccountsDiffer
  <1>4. {bucket[id] : id \in ids} \subseteq Positions
    BY <1>1
  <1> HIDE DEF cap, bucket
  <1>5. SumFunctionOnSet(cap, ids) = SumFunctionOnSet(caps, {bucket[id] : id \in ids})
    <2>1. IsFiniteSet(ids)
      BY ReservesAreFinite
    <2> HIDE DEF ids, caps
    <2> QED
      BY <1>2, <1>3, <2>1, SumOfImage
  <1>6. SumFunctionOnSet(caps, {bucket[id] : id \in ids}) <= SumFunctionOnSet(caps, Positions)
    <2>1. \A i \in Positions : caps[i] \in Nat
      BY BucketTypes
    <2> HIDE DEF caps
    <2> QED
      BY <1>4, <2>1, BucketTypes, SumOfPart
  <1> QED
    BY <1>5, <1>6 DEF CommitmentKept, TOTAL_CAP, SumFunction, cap

(* However many operators run the script, and however often, the caps that *)
(* are registered never add up to more than the total it commits to.       *)
THEOREM TotalIsKept ==
    ASSUME OneEnvironment, OnlyScripted
    PROVE  ScriptSpec => []CommitmentKept
  <1>1. RegisteredInv => CommitmentKept
    BY CapsAddUp
  <1>2. ScriptSpec => Spec
    BY ScriptIsAdministration DEF OnlyScripted
  <1> QED
    BY <1>1, <1>2, RegisteredInvariant, PTL

-----------------------------------------------------------------------------
(* The end of a run.                                                       *)

(* A bucket is registered as the script gives it. *)
IsRegistered(o, i) == \E id \in DOMAIN reserves : reserves[id].config = Config(o, i)

(* A run has dealt with the buckets before the one it has reached. *)
Reached ==
    /\ script \in [Operators -> 0..Done]
    /\ \A o \in Operators : \A i \in Positions :
           i < script[o] /\ Principals[o][i] \notin removed => IsRegistered(o, i)

(* The script gives nothing that the minter finds invalid. *)
BucketsAreValid == \A config \in ScriptedConfigs : validate_reserve_config(config)

(* A registered bucket stays until its reserve is removed. *)
LEMMA RegisteredStays ==
    ASSUME TypeOK, TypeOK', OnlyScripted, [Next]_vars,
           NEW o \in Operators, NEW i \in Positions, IsRegistered(o, i)
    PROVE  \/ IsRegistered(o, i)'
           \/ \E id \in DOMAIN reserves \ DOMAIN reserves' :
                  reserves[id].config.account = Principals[o][i]
  <1>1. PICK id \in DOMAIN reserves : reserves[id].config = Config(o, i)
    BY DEF IsRegistered
  <1>2. id # next_reserve_id
    BY DEF TypeOK
  <1>3. CASE id \in DOMAIN reserves'
    <2>1. reserves'[id].config = Config(o, i)
      BY <1>1, <1>2, <1>3, RegisteredSteps
    <2> QED
      BY <1>3, <2>1 DEF IsRegistered
  <1>4. CASE id \notin DOMAIN reserves'
    BY <1>1, <1>4, ConfigFields
  <1> QED
    BY <1>3, <1>4

(* A call of the script removes nothing, and an answer of the minter, an   *)
(* error or not, means that the bucket is registered.                      *)
LEMMA CallRegisters ==
    ASSUME OneEnvironment, BucketsAreValid, TypeOK, Scripted, NEW o \in Operators,
           NEW i \in Positions, script[o] = i, CallAddReserve(o)
    PROVE  DOMAIN reserves \subseteq DOMAIN reserves' /\ IsRegistered(o, i)'
  <1> DEFINE config == Config(o, i)
  <1>1. config \in ScriptedConfigs /\ config.account = Principals[o][i]
    BY ConfigFields DEF ScriptedConfigs
  <1>2. validate_reserve_config(config)
    BY <1>1 DEF BucketsAreValid
  <1>3. AddReserve(config) \/ (AccountTaken(config.account) /\ UNCHANGED vars)
    BY <1>2 DEF CallAddReserve
  <1>4. CASE AddReserve(config)
    <2>1. /\ next_reserve_id \in DOMAIN reserves'
          /\ DOMAIN reserves \subseteq DOMAIN reserves'
          /\ reserves'[next_reserve_id].config = config
      BY <1>4 DEF AddReserve, NewRecord
    <2> QED
      BY <2>1 DEF IsRegistered
  <1>5. CASE AccountTaken(config.account) /\ UNCHANGED vars
    <2>1. PICK id \in DOMAIN reserves : AccountOf(id) = Principals[o][i]
      BY <1>1, <1>5 DEF AccountTaken, AccountOf
    <2>2. reserves[id].config = config
      BY <2>1, AccountTellsBucket
    <2>3. reserves' = reserves
      BY <1>5 DEF vars, minter_vars
    <2> QED
      BY <2>2, <2>3 DEF IsRegistered
  <1> QED
    BY <1>3, <1>4, <1>5

LEMMA ReachedStep ==
    ASSUME OneEnvironment, OnlyScripted, BucketsAreValid, TypeOK, TypeOK', Scripted, Reached,
           [ScriptNext]_init_vars
    PROVE  Reached'
  <1> DEFINE Dealt(o, i) == Principals[o][i] \in removed \/ IsRegistered(o, i)
  <1>0. Done = Len(Buckets) + 1 /\ Len(Buckets) \in Nat /\ Positions = 1..Len(Buckets)
    BY BucketTypes DEF Done
  <1>1. [Next]_vars
    BY ScriptSteps DEF OnlyScripted
  (* A step of the script only goes on with one run of it. *)
  <1>2. ASSUME NEW o \in Operators, NEW at \in 0..Done, script' = [script EXCEPT ![o] = at],
               UNCHANGED removed, DOMAIN reserves \subseteq DOMAIN reserves',
               \A i \in Positions : i < at => i < script[o] \/ IsRegistered(o, i)'
        PROVE  Reached'
    <2>1. \A p \in Operators : \A i \in Positions : IsRegistered(p, i) => IsRegistered(p, i)'
      BY <1>1, <1>2, RegisteredStays
    <2> QED
      BY <1>2, <2>1 DEF Reached
  <1>3. ASSUME NEW o \in Operators, RunScript(o)
        PROVE  Reached'
    <2>1. /\ script' = [script EXCEPT ![o] = 1] /\ UNCHANGED <<reserves, removed>>
          /\ 1 \in 0..Done /\ \A i \in Positions : ~(i < 1)
      BY <1>0, <1>3 DEF RunScript, vars, minter_vars
    <2> QED
      BY <1>2, <2>1
  <1>4. ASSUME NEW o \in Operators, RegisterBucket(o)
        PROVE  Reached'
    <2>1. PICK i \in Positions :
              script[o] = i /\ UNCHANGED removed /\ script' = [script EXCEPT ![o] = i + 1]
      BY <1>4 DEF RegisterBucket, Running, GoOn
    <2>2. DOMAIN reserves \subseteq DOMAIN reserves' /\ IsRegistered(o, i)'
      BY <1>4, <2>1, CallRegisters DEF RegisterBucket
    <2>3. /\ i + 1 \in 0..Done
          /\ \A j \in Positions : j < i + 1 => j < script[o] \/ j = i
      BY <1>0, <2>1
    <2> QED
      BY <1>2, <2>1, <2>2, <2>3
  <1>5. ASSUME NEW o \in Operators, DfxFails(o)
        PROVE  Reached'
    <2>1. /\ script[o] \in Positions /\ UNCHANGED removed
          /\ script' = [script EXCEPT ![o] = 0]
          /\ CallAddReserve(o) \/ UNCHANGED vars
      BY <1>5 DEF DfxFails, Running, NotRunning
    <2>2. DOMAIN reserves \subseteq DOMAIN reserves'
      BY <2>1, CallRegisters DEF vars, minter_vars
    <2>3. 0 \in 0..Done /\ \A i \in Positions : ~(i < 0)
      BY <1>0
    <2> QED
      BY <1>2, <2>1, <2>2, <2>3
  <1>6. CASE MinterStep
    <2>1. /\ UNCHANGED script
          /\ removed' = removed \cup {reserves[id].config.account :
                                          id \in DOMAIN reserves \ DOMAIN reserves'}
      BY <1>6 DEF MinterStep
    <2>2. ASSUME NEW o \in Operators, NEW i \in Positions, IsRegistered(o, i),
                 Principals[o][i] \notin removed'
          PROVE  IsRegistered(o, i)'
      BY <1>1, <2>1, <2>2, RegisteredStays
    <2> QED
      BY <2>1, <2>2 DEF Reached
  <1>7. CASE UNCHANGED init_vars
    BY <1>7 DEF init_vars, vars, minter_vars, Reached, IsRegistered
  <1> QED
    BY <1>3, <1>4, <1>5, <1>6, <1>7 DEF ScriptNext

(* When a run of the script ends with "Done", every bucket is registered   *)
(* as it was meant to be, but for those whose reserve was removed: an      *)
(* error the script ignored was that the bucket was registered before.     *)
THEOREM DoneMeansDone ==
    ASSUME OneEnvironment, OnlyScripted, BucketsAreValid
    PROVE  ScriptSpec => []DoneMeansRegistered
  <1>1. ScriptInit => Reached
    BY BucketTypes DEF ScriptInit, Reached, NotRunning, Done
  <1>2. RegisteredInv /\ RegisteredInv' /\ Reached /\ [ScriptNext]_init_vars => Reached'
    BY ReachedStep DEF RegisteredInv
  <1>3. Reached => DoneMeansRegistered
    BY BucketTypes DEF Reached, DoneMeansRegistered, IsRegistered, Done
  <1>4. ScriptSpec => Spec
    BY ScriptIsAdministration DEF OnlyScripted
  <1> QED
    BY <1>1, <1>2, <1>3, <1>4, RegisteredInvariant, PTL DEF ScriptSpec

(* The script's own numbers are valid: its longest window is a year of its *)
(* first one, a bucket that is refilled holds a week's budget, and the     *)
(* daily limit is two days' budget where the yearly one is 365.            *)
LEMMA ScriptIsValid ==
    ASSUME HOURS[Len(HOURS)] = 365 * HOURS[1],
           \A i \in Positions : Buckets[i].daily # None =>
               Buckets[i].daily > 0 /\ 7 * Buckets[i].daily <= Buckets[i].cap
    PROVE  BucketsAreValid
  <1> SUFFICES ASSUME NEW o \in Operators, NEW i \in Positions
               PROVE  validate_reserve_config(Config(o, i))
    BY DEF BucketsAreValid, ScriptedConfigs
  <1> DEFINE account == Principals[o][i]
             cap == Buckets[i].cap
             daily == Buckets[i].daily
  <1>1. cap \in Nat /\ daily \in Optional(Nat)
    BY BucketTypes
  <1>2. CASE daily = None
    <2>1. /\ Config(o, i).min_balance = 0 /\ Config(o, i).target_balance = 0
          /\ Config(o, i).max_balance = cap /\ Config(o, i).rate_limits = None
          /\ Config(o, i).lifetime_received_minimum = None
      BY <1>2 DEF Config, ManualReserve
    <2> QED
      BY <1>1, <2>1 DEF validate_reserve_config, validate_balance_invariants,
                        validate_rate_limits, Configured
  <1>3. CASE daily # None
    <2> DEFINE limits == [w \in Windows |-> IF w = 1 THEN 2 * daily
                                            ELSE IF w = Len(HOURS) THEN 365 * daily
                                            ELSE None]
    <2>1. /\ Config(o, i).min_balance = 2 * daily /\ Config(o, i).target_balance = 7 * daily
          /\ Config(o, i).max_balance = cap /\ Config(o, i).rate_limits = limits
          /\ Config(o, i).lifetime_received_minimum = None
      BY <1>3 DEF Config, AutoReserve, ManualReserve
    <2>2. daily \in Nat /\ daily > 0 /\ 7 * daily <= cap
      BY <1>1, <1>3 DEF Optional
    <2>3. validate_balance_invariants(Config(o, i))
      BY <1>1, <2>1, <2>2 DEF validate_balance_invariants
    <2>4. ASSUME NEW small \in Configured(limits), NEW large \in Configured(limits),
                 small < large
          PROVE  limits[large] * HOURS[small] < limits[small] * HOURS[large]
      <3> DEFINE hours == HOURS[1]
      <3>1. hours \in Nat /\ hours > 0 /\ Windows = 1..Len(HOURS)
        BY HoursAssumption DEF Windows
      <3>2. limits # None
        BY <2>2, NoneAssumption DEF RateLimits, Optional
      <3>3. \A w \in Configured(limits) : w \in Windows /\ (w = 1 \/ w = Len(HOURS))
        BY <3>2 DEF Configured
      <3>4. small = 1 /\ large = Len(HOURS) /\ large # 1 /\ small \in Windows /\ large \in Windows
        BY <2>4, <3>1, <3>3
      <3>5. limits[small] = 2 * daily /\ limits[large] = 365 * daily
        BY <3>4
      <3>6. HOURS[small] = hours /\ HOURS[large] = 365 * hours
        BY <3>4
      <3>7. (365 * daily) * hours < (2 * daily) * (365 * hours)
        <4> DEFINE both == daily * hours
        <4>1. both \in Nat /\ both > 0
          BY <2>2, <3>1
        <4>2. (365 * daily) * hours = 365 * both /\ (2 * daily) * (365 * hours) = 730 * both
          BY <2>2, <3>1
        <4> HIDE DEF both
        <4> QED
          BY <4>1, <4>2
      <3> QED
        BY <3>5, <3>6, <3>7
    <2>5. validate_rate_limits(limits)
      BY <2>4 DEF validate_rate_limits, Adjacent
    <2> QED
      BY <2>1, <2>3, <2>5 DEF validate_reserve_config
  <1> QED
    BY <1>2, <1>3

-----------------------------------------------------------------------------
(* The caps.                                                               *)

(* The blocks minted for a reserve are in its account. *)
BlocksPay ==
    \A i \in DOMAIN blocks : blocks[i].memo.id \in DOMAIN reserves =>
        blocks[i].to = AccountOf(blocks[i].memo.id)

LEMMA BlocksPayStep ==
    ASSUME PayeeInv, PayeeInv', BlocksPay, [Next]_vars
    PROVE  BlocksPay'
  <1> USE DEF PayeeInv, RefinementInv
  <1> DEFINE Pays(tx) == tx.memo.id \in DOMAIN reserves' =>
                             tx.to = reserves'[tx.memo.id].config.account
  <1> SUFFICES ASSUME NEW i \in DOMAIN blocks'
               PROVE  Pays(blocks'[i])
    BY DEF BlocksPay, AccountOf
  <1>1. ASSUME i \in DOMAIN blocks, blocks'[i] = blocks[i]
        PROVE  Pays(blocks'[i])
    <2>1. PICK id : id = blocks[i].memo.id
      OBVIOUS
    <2>2. SUFFICES ASSUME id \in DOMAIN reserves'
                   PROVE  blocks[i].to = AccountOf(id)'
      BY <1>1, <2>1 DEF AccountOf
    <2>3. id # next_reserve_id
      BY <1>1, <2>1 DEF BlocksHaveIds, AssignedIds, TypeOK
    <2>4. id \in DOMAIN reserves
      BY <2>2, <2>3, ConfigSteps
    <2>5. AccountOf(id)' = AccountOf(id)
      BY <2>2, <2>4, AccountKept
    <2> QED
      BY <1>1, <2>1, <2>4, <2>5 DEF BlocksPay
  <1>2. CASE blocks' = blocks
    BY <1>1, <1>2
  <1>3. CASE blocks' # blocks
    <2>1. PICK c \in Contexts : ExecuteTransfer(c) /\ UNCHANGED <<minter_vars, clock>>
      BY <1>3, LogGrows
    <2>2. /\ call[c].status = "transfer" /\ blocks' = Append(blocks, call[c].tx)
          /\ reserves' = reserves /\ blocks \in Seq(Transfer)
      BY <2>1 DEF ExecuteTransfer, minter_vars, TypeOK, LedgerTypeOK
    <2>3. \/ i \in DOMAIN blocks /\ blocks'[i] = blocks[i]
          \/ blocks'[i] = call[c].tx
      BY <2>2
    <2>4. Pays(call[c].tx)
      BY <2>2 DEF PaysReserve, AccountOf
    <2> QED
      BY <1>1, <2>3, <2>4
  <1> QED
    BY <1>2, <1>3

CapsInv == RegisteredInv /\ AccountInv /\ BlocksPay

(* What the ledger minted to a reserve is what the minter recorded and     *)
(* would record, and that is within the maximum.                           *)
LEMMA MintedWithinCap ==
    ASSUME CapsInv, NEW id \in DOMAIN reserves, RegisteredCap(id) \in Nat
    PROVE  MintedSince(id, 0) <= RegisteredCap(id)
  <1> USE DEF CapsInv, AccountInv, RefinementInv
  <1> DEFINE minted == reserves[id].lifetime_minted
             cap == RegisteredCap(id)
  <1>1. loosest[id].lifetime = cap /\ cap # None
    BY NoneAssumption DEF RegisteredInv, CeilingIsCap
  <1>2. /\ minted <= cap
        /\ \A c \in Contexts : handler[c].at = "transfer" /\ handler[c].id = id =>
               minted + handler[c].amount <= cap
    BY <1>1 DEF MintInv, LifetimeCeiling, Within
  <1>3. CASE Unrecorded(id) = {}
    BY <1>2, <1>3, OneOutstanding
  <1>4. ASSUME NEW c \in Unrecorded(id)
        PROVE  MintedSince(id, 0) <= cap
    BY <1>2, OneOutstanding DEF Unrecorded
  <1> QED
    BY <1>3, <1>4

(* A reserve that is there is registered for one bucket. *)
LEMMA PresentWithinCap ==
    ASSUME OneEnvironment, CapsInv, NEW o \in Operators, NEW i \in Positions,
           NEW id \in DOMAIN reserves
    PROVE  MintedUnder(id, Principals[o][i]) <= Buckets[i].cap
  <1> USE DEF CapsInv, AccountInv, RefinementInv, RegisteredInv
  <1> DEFINE account == Principals[o][i]
             payments == {b \in BlocksOf(id) : blocks[b].to = account}
  <1>1. MintedUnder(id, account) = SumFunctionOnSet(MintedAmounts, payments)
    BY DEF MintedUnder
  <1>2. Buckets[i].cap \in Nat
    BY BucketTypes
  <1>3. CASE AccountOf(id) # account
    <2>1. payments = {}
      BY <1>3 DEF BlocksPay, BlocksOf
    <2>2. SumFunctionOnSet(MintedAmounts, {}) = 0
      BY SumOfNothing
    <2>3. MintedUnder(id, account) = 0
      BY ONLY <1>1, <2>1, <2>2
    <2>4. \A n \in Nat : 0 <= n
      OBVIOUS
    <2> HIDE DEF payments, CapsInv, AccountInv, RefinementInv, RegisteredInv
    <2> QED
      BY <1>2, <2>3, <2>4
  <1>4. CASE AccountOf(id) = account
    <2>1. RegisteredCap(id) = Buckets[i].cap
      BY <1>4, AccountTellsBucket, ConfigFields DEF RegisteredCap
    <2>2. payments = {b \in BlocksOf(id) : blocks[b].created_at_time >= 0}
      <3>1. \A b \in DOMAIN blocks : blocks[b].created_at_time >= 0
        BY BlocksAreFinite, MaxTimeAssumption DEF Transfer, Instants
      <3>2. \A b \in BlocksOf(id) : b \in DOMAIN blocks /\ blocks[b].to = account
        BY <1>4 DEF BlocksPay, BlocksOf
      <3> QED
        BY <3>1, <3>2
    <2>3. MintedUnder(id, account) = MintedSince(id, 0)
      BY <1>1, <2>2 DEF MintedSince
    <2> QED
      BY <1>2, <2>1, <2>3, MintedWithinCap
  <1> QED
    BY <1>3, <1>4

(* Nothing is minted under a registration once its reserve is removed, nor *)
(* in the step that removes it.                                            *)
LEMMA NothingMintedAfter ==
    ASSUME TypeOK, TransfersHaveReserves, [Next]_vars, NEW id, id \notin DOMAIN reserves',
           NEW account
    PROVE  MintedUnder(id, account)' = MintedUnder(id, account)
  <1> DEFINE payments == {b \in BlocksOf(id) : blocks[b].to = account}
  <1>1. blocks \in Seq(Transfer)
    BY DEF TypeOK, LedgerTypeOK
  <1>2. \A b \in DOMAIN blocks : b \in DOMAIN blocks' /\ blocks'[b] = blocks[b]
    BY <1>1, LogSteps
  <1>3. \A b \in DOMAIN blocks' : blocks'[b].memo.id = id => b \in DOMAIN blocks
    <2>1. CASE blocks' = blocks
      BY <2>1
    <2>2. CASE blocks' # blocks
      <3>1. PICK c \in Contexts : ExecuteTransfer(c) /\ UNCHANGED <<minter_vars, clock>>
        BY <2>2, LogGrows
      <3>2. /\ call[c].status = "transfer" /\ blocks' = Append(blocks, call[c].tx)
            /\ reserves' = reserves
        BY <3>1 DEF ExecuteTransfer, minter_vars
      <3>3. call[c].tx.memo.id # id
        BY <3>2 DEF TransfersHaveReserves
      <3> QED
        BY <1>1, <3>2, <3>3
    <2> QED
      BY <2>1, <2>2
  <1>4. {b \in DOMAIN blocks' : blocks'[b].memo.id = id /\ blocks'[b].to = account} = payments
    BY <1>2, <1>3 DEF BlocksOf
  <1>5. IsFiniteSet(payments)
    BY BlocksAreFinite, FS_Subset DEF BlocksOf
  <1>6. \A b \in payments : MintedAmounts'[b] = MintedAmounts[b]
    BY <1>2 DEF MintedAmounts, BlocksOf
  <1>7. SumFunctionOnSet(MintedAmounts', payments) = SumFunctionOnSet(MintedAmounts, payments)
    <2> HIDE DEF payments
    <2> QED
      BY <1>5, <1>6, SumSame
  <1> QED
    BY <1>4, <1>7 DEF MintedUnder, BlocksOf

(* A new id is that of a reserve. *)
LEMMA NewIdsAreReserves ==
    ASSUME TypeOK, [Next]_vars, NEW id \in 0..(next_reserve_id' - 1), id \notin DOMAIN reserves'
    PROVE  id \in 0..(next_reserve_id - 1)
  <1>1. ASSUME NEW config, AddReserve(config)
        PROVE  id \in 0..(next_reserve_id - 1)
    <2>1. next_reserve_id' = next_reserve_id + 1 /\ next_reserve_id \in DOMAIN reserves'
      BY <1>1 DEF AddReserve
    <2>2. next_reserve_id \in Nat /\ id # next_reserve_id
      BY <2>1 DEF TypeOK
    <2> QED
      BY <2>1, <2>2
  <1>2. \/ next_reserve_id' = next_reserve_id
        \/ \E config \in AddArgs : AddReserve(config)
    BY DEF Next, vars, minter_vars, Admin, UpdateReserve, RemoveReserve, SetGlobalPolicy,
           ReleaseStuckMintState, Begin, TimerTick, RebalanceReserve, RebalanceAllReserves,
           StartRebalance, ManualTopup, Resume, BalanceFailed, NothingToMint, SendMint,
           RebalanceMinted, RebalanceMintFailed, TopupMinted, TopupMintFailed, FinishWith,
           LedgerStep, Trap, DropOrphanReply, Upgrade, Tick
  <1> QED
    BY <1>1, <1>2

(* The property, for the registrations that were removed. *)
RemovedWithinCaps ==
    \A o \in Operators : \A i \in Positions :
        \A id \in 0..(next_reserve_id - 1) : id \notin DOMAIN reserves =>
            MintedUnder(id, Principals[o][i]) <= Buckets[i].cap

LEMMA RemovedWithinCapsStep ==
    ASSUME OneEnvironment, CapsInv, RemovedWithinCaps, [Next]_vars
    PROVE  RemovedWithinCaps'
  <1> SUFFICES ASSUME NEW o \in Operators, NEW i \in Positions,
                      NEW id \in 0..(next_reserve_id' - 1), id \notin DOMAIN reserves'
               PROVE  MintedUnder(id, Principals[o][i])' <= Buckets[i].cap
    BY DEF RemovedWithinCaps, MintedUnder
  <1>1. TypeOK /\ TransfersHaveReserves
    BY DEF CapsInv, AccountInv, RefinementInv
  <1>2. id \in 0..(next_reserve_id - 1)
    BY <1>1, NewIdsAreReserves
  <1>3. MintedUnder(id, Principals[o][i])' = MintedUnder(id, Principals[o][i])
    BY <1>1, NothingMintedAfter
  <1>4. MintedUnder(id, Principals[o][i]) <= Buckets[i].cap
    BY <1>2, PresentWithinCap DEF RemovedWithinCaps
  <1> QED
    BY <1>3, <1>4

(* Under no registration does the ledger mint more to the account of a     *)
(* bucket than the bucket's cap, whoever registered it, also not after the *)
(* reserve was removed and the minter has forgotten what it received.      *)
THEOREM CapsAreKept ==
    ASSUME OneEnvironment, OnlyScripted, Faultless
    PROVE  ScriptSpec => []MintedWithinCaps
  <1>1. Init => BlocksPay /\ RemovedWithinCaps
    BY DEF Init, LedgerInit, BlocksPay, RemovedWithinCaps
  <1>2. PayeeInv /\ PayeeInv' /\ BlocksPay /\ [Next]_vars => BlocksPay'
    BY BlocksPayStep
  <1>3. CapsInv /\ RemovedWithinCaps /\ [Next]_vars => RemovedWithinCaps'
    BY RemovedWithinCapsStep
  <1>4. CapsInv /\ RemovedWithinCaps => MintedWithinCaps
    BY PresentWithinCap DEF RemovedWithinCaps, MintedWithinCaps
  <1>5. CapsInv <=> RegisteredInv /\ AccountInv /\ BlocksPay
    BY DEF CapsInv
  <1>6. ScriptSpec => Spec
    BY ScriptIsAdministration DEF OnlyScripted
  <1>7. "live_release" \notin Environment
    BY DEF Faultless
  <1> HIDE DEF CapsInv
  <1> QED
    BY <1>1, <1>2, <1>3, <1>4, <1>5, <1>6, <1>7, PayeeInvariant, RegisteredInvariant,
       AccountInvariant, PTL
    DEF Spec
=============================================================================
