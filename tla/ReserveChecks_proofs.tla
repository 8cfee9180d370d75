------------------------ MODULE ReserveChecks_proofs ------------------------
(***************************************************************************)
(* Proofs about the functions of Reserve.tla, for every bound of the       *)
(* amounts, of the limits and of the clock, and every row of windows.      *)
(***************************************************************************)
EXTENDS ReserveChecks, Reserve_proofs

-----------------------------------------------------------------------------
(* Arithmetic. *)

(* Multiplication keeps and reflects a strict order.                       *)
LEMMA TimesKeepsOrder ==
    ASSUME NEW p \in Nat, NEW q \in Nat, NEW r \in Nat \ {0}
    PROVE  p < q <=> p * r < q * r
  <1>1. ASSUME p < q PROVE p * r < q * r
    <2>1. PICK d \in Nat \ {0} : q = p + d
      <3>1. q - p \in Nat \ {0} /\ q = p + (q - p)
        BY <1>1
      <3> QED
        BY <3>1
    <2>2. q * r = p * r + d * r
      BY <2>1
    <2>3. d * r > 0
      BY <2>1
    <2> QED
      BY <2>2, <2>3
  <1>2. ASSUME ~(p < q) PROVE ~(p * r < q * r)
    <2>1. PICK d \in Nat : p = q + d
      <3>1. p - q \in Nat /\ p = q + (p - q)
        BY <1>2
      <3> QED
        BY <3>1
    <2>2. p * r = q * r + d * r
      BY <2>1
    <2>3. d * r \in Nat
      BY <2>1
    <2>4. p * r \in Int /\ q * r \in Int
      OBVIOUS
    <2> QED
      BY <2>2, <2>3, <2>4
  <1> QED
    BY <1>1, <1>2

(* A limit c for z hours that is stricter than b for y, which is stricter  *)
(* than a for x, is stricter than that one.                                *)
LEMMA StricterIsTransitive ==
    ASSUME NEW a \in Nat, NEW b \in Nat, NEW c \in Nat,
           NEW x \in Nat \ {0}, NEW y \in Nat \ {0}, NEW z \in Nat \ {0},
           b * x < a * y, c * y < b * z
    PROVE  c * x < a * z
  <1>1. (b * x) * z < (a * y) * z
    <2>1. b * x \in Nat /\ a * y \in Nat
      OBVIOUS
    <2> QED
      BY <2>1, TimesKeepsOrder
  <1>2. (c * y) * x < (b * z) * x
    <2>1. c * y \in Nat /\ b * z \in Nat
      OBVIOUS
    <2> QED
      BY <2>1, TimesKeepsOrder
  <1>3. (c * x) * y < (a * z) * y
    <2>1. /\ (b * x) * z = (b * z) * x
          /\ (a * y) * z = (a * z) * y
          /\ (c * y) * x = (c * x) * y
      OBVIOUS
    <2>2. /\ (c * x) * y \in Nat
          /\ (b * z) * x \in Nat
          /\ (a * z) * y \in Nat
      OBVIOUS
    <2> QED
      BY <1>1, <1>2, <2>1, <2>2
  <1> QED
    <2>1. c * x \in Nat /\ a * z \in Nat
      OBVIOUS
    <2> QED
      BY <1>3, <2>1, TimesKeepsOrder

-----------------------------------------------------------------------------
(* Rate limits. *)

Stricter(limits, v, w) == limits[w] * HOURS[v] < limits[v] * HOURS[w]

(* validate_rate_limits compares adjacent windows only.  What it accepts   *)
(* is stricter in every larger configured window than in every smaller.    *)
THEOREM LimitsAreProgressive ==
    ASSUME NEW limits \in Optional(RateLimits), validate_rate_limits(limits)
    PROVE  \A v, w \in Configured(limits) : v < w => Stricter(limits, v, w)
  <1> DEFINE Bad(v, w) == v < w /\ ~Stricter(limits, v, w)
             BadGaps == {n \in Nat : \E v, w \in Configured(limits) :
                                         Bad(v, w) /\ n = w - v}
  <1>1. \A v \in Configured(limits) :
           v \in Windows /\ v \in Nat /\ limits[v] \in Nat /\ HOURS[v] \in Nat \ {0}
    <2>1. SUFFICES ASSUME NEW v \in Configured(limits)
                   PROVE  v \in Windows /\ v \in Nat /\ limits[v] \in Nat
                          /\ HOURS[v] \in Nat \ {0}
      OBVIOUS
    <2>2. limits # None /\ v \in Windows /\ limits[v] # None
      BY DEF Configured
    <2>3. limits \in RateLimits
      BY <2>2 DEF Optional
    <2>4. limits[v] \in Nat
      BY <2>2, <2>3 DEF RateLimits, Optional
    <2>5. v \in Nat /\ HOURS[v] \in Nat \ {0}
      BY <2>2, HoursAssumption DEF Windows
    <2> QED
      BY <2>2, <2>4, <2>5
  <1>2. SUFFICES ASSUME BadGaps # {} PROVE FALSE
    <2>1. ASSUME NEW v \in Configured(limits), NEW w \in Configured(limits), Bad(v, w)
          PROVE  w - v \in BadGaps
      BY <1>1, <2>1
    <2> QED
      BY <2>1
  <1>3. PICK n \in BadGaps : \A m \in BadGaps : n <= m
    <2>1. BadGaps \in SUBSET Nat
      OBVIOUS
    <2> QED
      BY <1>2, <2>1, LeastElement
  <1>4. PICK v \in Configured(limits), w \in Configured(limits) : Bad(v, w) /\ n = w - v
    BY <1>3
  <1>5. ~Adjacent(limits, v, w)
    BY <1>4 DEF validate_rate_limits, Stricter
  <1>6. PICK u \in Configured(limits) : v < u /\ u < w
    BY <1>1, <1>4, <1>5 DEF Adjacent
  <1>7. ~Bad(v, u)
    <2>1. Bad(v, u) => u - v \in BadGaps
      BY <1>1
    <2> QED
      BY <1>1, <1>3, <1>4, <1>6, <2>1
  <1>8. ~Bad(u, w)
    <2>1. Bad(u, w) => w - u \in BadGaps
      BY <1>1
    <2> QED
      BY <1>1, <1>3, <1>4, <1>6, <2>1
  <1>9. Stricter(limits, v, w)
    <2>1. /\ limits[u] * HOURS[v] < limits[v] * HOURS[u]
          /\ limits[w] * HOURS[u] < limits[u] * HOURS[w]
      BY <1>6, <1>7, <1>8 DEF Stricter
    <2> QED
      BY <1>1, <2>1, StricterIsTransitive DEF Stricter
  <1> QED
    BY <1>4, <1>9

-----------------------------------------------------------------------------
(* The checks. *)

IInv ==
    /\ arguments \in RebalanceArguments \cup LimitArguments
    /\ arguments \in RebalanceArguments =>
           \/ answer = None
           \/ answer = compute_rebalance(ConfigOf(arguments), arguments.current_balance,
                                         arguments.lifetime_minted, PolicyOf(arguments))
    /\ arguments \in LimitArguments =>
           \/ answer = None
           \/ /\ answer.valid = validate_rate_limits(arguments.limits)
              /\ answer.budget = available_mint_budget(arguments.limits, arguments.events,
                                                       arguments.now)

LEMMA KindsOfArguments ==
    /\ \A a \in RebalanceArguments : a.of = "compute_rebalance"
    /\ \A a \in LimitArguments : a.of = "available_mint_budget"
  BY DEF RebalanceArguments, LimitArguments

LEMMA IInvHolds == Spec => []IInv
  <1>1. Init => IInv
    BY DEF Init, IInv
  <1>2. IInv /\ [Next]_check_vars => IInv'
    <2> SUFFICES ASSUME IInv, [Next]_check_vars PROVE IInv'
      OBVIOUS
    <2>1. CASE ComputeRebalance
      BY <2>1, KindsOfArguments DEF ComputeRebalance, IInv
    <2>2. CASE AvailableMintBudget
      BY <2>2, KindsOfArguments DEF AvailableMintBudget, IInv
    <2>3. CASE UNCHANGED check_vars
      BY <2>3 DEF check_vars, IInv
    <2> QED
      BY <2>1, <2>2, <2>3 DEF Next
  <1> QED
    BY <1>1, <1>2, PTL DEF Spec

(* check_rate_limits, which top-ups are subject to, accepts exactly the    *)
(* amounts within available_mint_budget, which rebalances are cut to, in   *)
(* whatever set of histories the reserve's own is.                         *)
THEOREM BudgetIsTheLargestAccepted == Spec => []BudgetIsLargestAccepted
  <1>1. IInv => BudgetIsLargestAccepted
    <2> SUFFICES ASSUME IInv, Answered("available_mint_budget"), NEW n \in 1..(MaxLimit + 1)
                 PROVE  check_rate_limits(arguments.limits, arguments.events, n,
                                          arguments.now)
                            <=> (answer.budget # None => n <= answer.budget)
      BY DEF BudgetIsLargestAccepted
    <2>1. arguments \in LimitArguments /\ answer # None
      BY KindsOfArguments DEF IInv, Answered
    <2>2. answer.budget = available_mint_budget(arguments.limits, arguments.events,
                                                arguments.now)
      BY <2>1 DEF IInv
    <2>3. n \in Nat \ {0}
      BY AmountsAssumption
    <2>4. arguments.limits \in Optional(RateLimits)
      <3>1. Limits \subseteq Optional(Nat)
        BY DEF Limits, Optional
      <3>2. arguments.limits \in [Windows -> Limits]
        BY <2>1 DEF LimitArguments
      <3> QED
        BY <3>1, <3>2 DEF RateLimits, Optional
    <2>5. arguments.events \in MintEvents
      BY <2>1, HistoriesAssumption DEF LimitArguments
    <2> QED
      BY <2>2, <2>3, <2>4, <2>5, BudgetIsWhatFits
  <1> QED
    BY <1>1, IInvHolds, PTL

(* What validate_rate_limits accepts, by comparing neighbouring windows,   *)
(* is stricter in every larger configured window than in every smaller.    *)
THEOREM LimitsGetStricter == Spec => []LargerWindowsAreStricter
  <1>1. IInv => LargerWindowsAreStricter
    <2> SUFFICES ASSUME IInv, Answered("available_mint_budget"), answer.valid,
                        NEW v \in Windows, NEW w \in Windows, v < w,
                        None \notin {arguments.limits[v], arguments.limits[w]}
                 PROVE  arguments.limits[w] * HOURS[v] < arguments.limits[v] * HOURS[w]
      BY DEF LargerWindowsAreStricter
    <2> DEFINE limits == arguments.limits
    <2>1. arguments \in LimitArguments /\ answer # None
      BY KindsOfArguments DEF IInv, Answered
    <2>2. validate_rate_limits(limits)
      BY <2>1 DEF IInv
    <2>3. limits \in [Windows -> Limits]
      BY <2>1 DEF LimitArguments
    <2>4. limits \in RateLimits
      <3>1. Limits \subseteq Optional(Nat)
        BY DEF Limits, Optional
      <3> QED
        BY <2>3, <3>1 DEF RateLimits
    <2>5. v \in Configured(limits) /\ w \in Configured(limits)
      BY <2>4, NoneAssumption DEF Configured
    <2> QED
      BY <2>2, <2>4, <2>5, LimitsAreProgressive DEF Stricter, Optional
  <1> QED
    BY <1>1, IInvHolds, PTL

-----------------------------------------------------------------------------
(* How much a rebalance mints. *)

OptionalAmount(v) == v = None \/ v \in Nat

LEMMA ArgumentTypes ==
    ASSUME NEW a \in RebalanceArguments
    PROVE  /\ a.target_balance \in 0..MaxAmount
           /\ a.current_balance \in Nat
           /\ a.lifetime_minted \in Nat
           /\ a.lifetime_received_minimum \in Optional(0..MaxAmount)
           /\ OptionalAmount(a.max_balance)
           /\ OptionalAmount(a.max_topup_per_rebalance)
           /\ OptionalAmount(a.lifetime_received_maximum)
           /\ OptionalAmount(a.max_mint_per_operation)
           /\ a.auto \in BOOLEAN
  BY AmountsAssumption DEF RebalanceArguments, Optional, OptionalAmount, Amounts

LEMMA CapTakesTheSmaller ==
    ASSUME NEW amount \in Nat, NEW cap, OptionalAmount(cap), NEW n \in Nat
    PROVE  /\ Cap(amount, cap) \in Nat
           /\ n <= Cap(amount, cap) <=> n <= amount /\ (cap # None => n <= cap)
  BY NoneAssumption DEF Cap, OptionalAmount

(* What fits below a ceiling, next to what is used, fits in the room.      *)
LEMMA RoomIsWhatFits ==
    ASSUME NEW ceiling, OptionalAmount(ceiling), NEW used \in Nat, NEW n \in Nat \ {0}
    PROVE  /\ OptionalAmount(Room(ceiling, used))
           /\ (Room(ceiling, used) # None => n <= Room(ceiling, used))
                  <=> (ceiling # None => used + n <= ceiling)
  BY NoneAssumption DEF Room, OptionalAmount, saturating_sub

(* The larger deficit is the most that one of the two deficits asks for.   *)
LEMMA DeficitIsWhatIsAskedFor ==
    ASSUME NEW a \in RebalanceArguments, NEW n \in Nat \ {0}
    PROVE  LET raw == LargerDeficit(ConfigOf(a), a.current_balance, a.lifetime_minted)
           IN  /\ raw \in 0..MaxAmount
               /\ n <= raw <=>
                      \/ a.current_balance + n <= a.target_balance
                      \/ /\ a.lifetime_received_minimum # None
                         /\ a.lifetime_minted + n <= a.lifetime_received_minimum
  <1> DEFINE config == ConfigOf(a)
             cyclical == cyclical_deficit(config, a.current_balance)
             lifetime == lifetime_deficit(config, a.lifetime_minted)
  <1>1. /\ config.target_balance = a.target_balance
        /\ config.lifetime_received_minimum = a.lifetime_received_minimum
    BY DEF ConfigOf
  <1>2. /\ cyclical \in 0..MaxAmount
        /\ n <= cyclical <=> a.current_balance + n <= a.target_balance
    BY <1>1, ArgumentTypes, AmountsAssumption DEF cyclical_deficit, saturating_sub
  <1>3. /\ lifetime \in 0..MaxAmount
        /\ n <= lifetime <=>
               /\ a.lifetime_received_minimum # None
               /\ a.lifetime_minted + n <= a.lifetime_received_minimum
    BY <1>1, ArgumentTypes, AmountsAssumption, NoneAssumption
       DEF lifetime_deficit, saturating_sub, Optional
  <1> HIDE DEF cyclical, lifetime
  <1> QED
    BY <1>2, <1>3, AmountsAssumption DEF LargerDeficit, cyclical, lifetime

(* The chain of caps leaves what every limit allows, and no less.          *)
LEMMA CappedIsWhatIsAllowed ==
    ASSUME NEW a \in RebalanceArguments, NEW n \in Nat \ {0}
    PROVE  LET capped == CappedAmount(ConfigOf(a), a.current_balance,
                                      a.lifetime_minted, PolicyOf(a))
           IN  /\ capped \in Nat
               /\ n <= capped <=> Allowed(a, n)
  <1> DEFINE config == ConfigOf(a)
             policy == PolicyOf(a)
             raw == LargerDeficit(config, a.current_balance, a.lifetime_minted)
             below_topup == Cap(raw, config.max_topup_per_rebalance)
             room == Room(config.max_balance, a.current_balance)
             below_balance == Cap(below_topup, room)
             left == Room(config.lifetime_received_maximum, a.lifetime_minted)
             below_lifetime == Cap(below_balance, left)
             capped == Cap(below_lifetime, policy.max_mint_per_operation)
  <1>1. /\ config.max_topup_per_rebalance = a.max_topup_per_rebalance
        /\ config.max_balance = a.max_balance
        /\ config.lifetime_received_maximum = a.lifetime_received_maximum
        /\ policy.max_mint_per_operation = a.max_mint_per_operation
    BY DEF ConfigOf, PolicyOf
  <1>2. CappedAmount(config, a.current_balance, a.lifetime_minted, policy) = capped
    BY DEF CappedAmount
  <1>3. raw \in Nat
    BY DeficitIsWhatIsAskedFor, AmountsAssumption
  <1>4. /\ OptionalAmount(room)
        /\ (room # None => n <= room)
               <=> (a.max_balance # None => a.current_balance + n <= a.max_balance)
    BY <1>1, ArgumentTypes, RoomIsWhatFits
  <1>5. /\ OptionalAmount(left)
        /\ (left # None => n <= left)
               <=> (a.lifetime_received_maximum # None =>
                        a.lifetime_minted + n <= a.lifetime_received_maximum)
    BY <1>1, ArgumentTypes, RoomIsWhatFits
  <1> HIDE DEF raw, room, left
  <1>6. /\ below_topup \in Nat
        /\ n <= below_topup <=>
               /\ n <= raw
               /\ a.max_topup_per_rebalance # None => n <= a.max_topup_per_rebalance
    BY <1>1, <1>3, ArgumentTypes, CapTakesTheSmaller
  <1> HIDE DEF below_topup
  <1>7. /\ below_balance \in Nat
        /\ n <= below_balance <=> n <= below_topup /\ (room # None => n <= room)
    BY <1>4, <1>6, CapTakesTheSmaller
  <1> HIDE DEF below_balance
  <1>8. /\ below_lifetime \in Nat
        /\ n <= below_lifetime <=> n <= below_balance /\ (left # None => n <= left)
    BY <1>5, <1>7, CapTakesTheSmaller
  <1> HIDE DEF below_lifetime
  <1>9. /\ capped \in Nat
        /\ n <= capped <=>
               /\ n <= below_lifetime
               /\ a.max_mint_per_operation # None => n <= a.max_mint_per_operation
    BY <1>1, <1>8, ArgumentTypes, CapTakesTheSmaller
  <1> HIDE DEF capped
  <1>10. n <= raw <=>
             \/ a.current_balance + n <= a.target_balance
             \/ /\ a.lifetime_received_minimum # None
                /\ a.lifetime_minted + n <= a.lifetime_received_minimum
    BY DeficitIsWhatIsAskedFor DEF raw
  <1> QED
    BY <1>2, <1>4, <1>5, <1>6, <1>7, <1>8, <1>9, <1>10 DEF Allowed

(* The amount compute_rebalance mints is the largest that a deficit asks   *)
(* for and every limit allows; it answers Minted exactly if there is one.  *)
THEOREM MintsTheLargestAllowed == Spec => []MintIsLargestAllowed
  <1>1. IInv => MintIsLargestAllowed
    <2> SUFFICES ASSUME IInv, Answered("compute_rebalance")
                 PROVE  LET allowed == {n \in Amounts \ {0} :
                                           arguments.auto /\ Allowed(arguments, n)}
                        IN  /\ answer.mint_amount =
                                   IF allowed = {} THEN 0 ELSE Max(allowed)
                            /\ answer.action = "Minted" <=> allowed # {}
      BY DEF MintIsLargestAllowed
    <2> DEFINE config == ConfigOf(arguments)
               policy == PolicyOf(arguments)
               raw == LargerDeficit(config, arguments.current_balance,
                                    arguments.lifetime_minted)
               capped == CappedAmount(config, arguments.current_balance,
                                      arguments.lifetime_minted, policy)
               allowed == {n \in Amounts \ {0} :
                              arguments.auto /\ Allowed(arguments, n)}
    <2>1. arguments \in RebalanceArguments
      BY KindsOfArguments DEF IInv, Answered
    <2>2. answer = compute_rebalance(config, arguments.current_balance,
                                     arguments.lifetime_minted, policy)
      BY <2>1 DEF IInv, Answered
    <2>3. raw \in 0..MaxAmount /\ capped \in Nat
      <3>1. 1 \in Nat \ {0}
        OBVIOUS
      <3> QED
        BY <2>1, <3>1, DeficitIsWhatIsAskedFor, CappedIsWhatIsAllowed
    <2>4. \A n \in Nat \ {0} : n <= capped <=> Allowed(arguments, n)
      BY <2>1, CappedIsWhatIsAllowed
    <2>5. \A n \in Nat \ {0} : Allowed(arguments, n) => n <= raw
      BY <2>1, DeficitIsWhatIsAskedFor DEF Allowed
    <2>6. /\ policy.minting_enabled
          /\ config.enabled
          /\ config.allow_auto_rebalance = arguments.auto
      BY DEF ConfigOf, PolicyOf
    <2>7. arguments.auto \in BOOLEAN
      BY <2>1, ArgumentTypes
    <2> HIDE DEF raw, capped
    <2>8. capped <= raw
      BY <2>3, <2>4, <2>5, AmountsAssumption
    <2>9. /\ answer.action = "Minted" <=> arguments.auto /\ capped # 0
          /\ answer.mint_amount = IF arguments.auto /\ capped # 0 THEN capped ELSE 0
      <3> HIDE DEF config, policy
      <3>1. raw = 0 => capped = 0
        BY <2>3, <2>8, AmountsAssumption
      <3> QED
        BY <2>2, <2>6, <2>7, <3>1 DEF compute_rebalance, raw, capped
    <2>10. \A n : n \in allowed <=> n \in Nat \ {0} /\ arguments.auto /\ n <= capped
      BY <2>3, <2>4, <2>8, AmountsAssumption DEF Amounts
    <2> HIDE DEF allowed
    <2>11. CASE arguments.auto /\ capped # 0
      <3>1. capped \in allowed /\ \A n \in allowed : n \in Nat /\ capped >= n
        BY <2>3, <2>10, <2>11
      <3>2. \A m \in allowed : (\A n \in allowed : m >= n) => m = capped
        BY <2>3, <3>1
      <3>3. (CHOOSE m \in allowed : \A n \in allowed : m >= n) = capped
        BY <3>1, <3>2
      <3>4. Max(allowed) = capped
        BY <3>3 DEF Max
      <3> QED
        BY <2>9, <2>11, <3>1, <3>4 DEF allowed
    <2>12. CASE ~(arguments.auto /\ capped # 0)
      <3>1. allowed = {}
        BY <2>3, <2>10, <2>12
      <3> QED
        BY <2>9, <2>12, <3>1 DEF allowed
    <2> QED
      BY <2>11, <2>12
  <1> QED
    BY <1>1, IInvHolds, PTL
=============================================================================
