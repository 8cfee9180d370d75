---------------------------- MODULE Reserve_proofs ----------------------------
(***************************************************************************)
(* Lemmas about sums of amounts, and about the functions of Reserve.tla    *)
(* that count mints by time: what the rate limiter's record adds up to,    *)
(* and that its two forms, a check and a budget, agree.                    *)
(***************************************************************************)
EXTENDS Reserve, FiniteSetTheorems, TLAPS

-----------------------------------------------------------------------------
(* Sums.  SumFunctionOnSet is a recursive function that takes the elements *)
(* of a set in an order of its choice.  Every finite set has a sum, and the *)
(* order does not matter; each lemma looks at a smallest subset without    *)
(* the property.                                                           *)


(* Among some subsets of a finite set there is a smallest one. *)
LEMMA SmallestSubset ==
    ASSUME NEW S, IsFiniteSet(S), NEW Some \in SUBSET SUBSET S, Some # {}
    PROVE  \E T \in Some : \A U \in Some : U \subseteq T => U = T
  <1> DEFINE R == StrictSubsetOrdering(S)
  <1>1. IsWellFoundedOn(R, FiniteSubsetsOf(S)) /\ FiniteSubsetsOf(S) = SUBSET S
    BY FS_StrictSubsetOrderingWellFounded, FS_FiniteSubsetsOfFinite
  <1>2. PICK T \in Some : \A U \in Some : ~(<<U, T>> \in R)
    <2> HIDE DEF R
    <2> QED
      BY <1>1, WFMin
  <1>3. \A U \in Some : U \subseteq T => U = T
    BY <1>2 DEF StrictSubsetOrdering
  <1> QED
    BY <1>3

(* The recursion of the definition. *)
Chosen(s) == CHOOSE x \in s : TRUE

Summing(f, iter, s) == IF s = {} THEN 0 ELSE f[Chosen(s)] + iter[s \ {Chosen(s)}]

SumsUp(f, S, iter) == iter = [s \in SUBSET S |-> Summing(f, iter, s)]

LEMMA ChosenIsElement == ASSUME NEW s, s # {} PROVE Chosen(s) \in s
  BY DEF Chosen

(* Two functions that sum up agree where both are defined. *)
LEMMA SumsAgree ==
    ASSUME NEW f, NEW S, NEW R, NEW g, NEW h, SumsUp(f, S, g), SumsUp(f, R, h),
           NEW T, IsFiniteSet(T), T \subseteq S, T \subseteq R
    PROVE  g[T] = h[T]
  <1> DEFINE Bad == {s \in SUBSET T : g[s] # h[s]}
  <1> SUFFICES ASSUME Bad # {}
               PROVE  FALSE
    OBVIOUS
  <1>1. PICK s \in Bad : \A U \in Bad : U \subseteq s => U = s
    <2>1. Bad \in SUBSET SUBSET T /\ Bad # {}
      OBVIOUS
    <2> HIDE DEF Bad
    <2> QED
      BY <2>1, SmallestSubset
  <1>2. g[s] = Summing(f, g, s) /\ h[s] = Summing(f, h, s)
    BY DEF SumsUp
  <1>3. s # {}
    BY <1>2 DEF Summing
  <1>4. s \ {Chosen(s)} \in SUBSET T /\ s \ {Chosen(s)} # s
    BY <1>3, ChosenIsElement
  <1>5. g[s \ {Chosen(s)}] = h[s \ {Chosen(s)}]
    BY <1>1, <1>4
  <1> QED
    BY <1>1, <1>2, <1>3, <1>5 DEF Summing

(* Every finite set has a function that sums up its subsets. *)
LEMMA SumsExist ==
    ASSUME NEW f, NEW S, IsFiniteSet(S)
    PROVE  \E g : SumsUp(f, S, g)
  <1> DEFINE Bad == {s \in SUBSET S : ~\E g : SumsUp(f, s, g)}
  <1> SUFFICES ASSUME Bad # {}
               PROVE  FALSE
    OBVIOUS
  <1>1. PICK T \in Bad : \A U \in Bad : U \subseteq T => U = T
    <2>1. Bad \in SUBSET SUBSET S /\ Bad # {}
      OBVIOUS
    <2> HIDE DEF Bad
    <2> QED
      BY <2>1, SmallestSubset
  <1> DEFINE Part(s) == CHOOSE g : SumsUp(f, s, g)
  <1>2. ASSUME NEW s \in SUBSET T, s # T
        PROVE  SumsUp(f, s, Part(s)) /\ IsFiniteSet(s)
    <2>1. \E g : SumsUp(f, s, g)
      BY <1>1, <1>2
    <2>2. IsFiniteSet(s)
      BY FS_Subset
    <2> QED
      BY <2>1, <2>2
  <1> DEFINE Value(s) == IF s # T THEN Part(s)[s]
                         ELSE IF T = {} THEN 0
                         ELSE f[Chosen(T)] + Part(T \ {Chosen(T)})[T \ {Chosen(T)}]
             whole == [s \in SUBSET T |-> Value(s)]
  <1>3. ASSUME NEW s \in SUBSET T
        PROVE  Value(s) = Summing(f, whole, s)
    <2>1. CASE s = {}
      <3>1. CASE s = T
        BY <2>1, <3>1 DEF Summing
      <3>2. CASE s # T
        <4>1. Part(s)[s] = Summing(f, Part(s), s)
          <5>1. SumsUp(f, s, Part(s))
            BY <1>2, <3>2
          <5> HIDE DEF Part
          <5> QED
            BY <5>1 DEF SumsUp
        <4> QED
          BY <2>1, <3>2, <4>1 DEF Summing
      <3> QED
        BY <3>1, <3>2
    <2>2. CASE s # {}
      <3> DEFINE rest == s \ {Chosen(s)}
      <3>1. rest \in SUBSET T /\ rest # T /\ rest \subseteq s /\ Chosen(s) \in s
        BY <2>2, ChosenIsElement
      <3>2. whole[rest] = Part(rest)[rest]
        BY <3>1
      <3>3. Summing(f, whole, s) = f[Chosen(s)] + Part(rest)[rest]
        BY <2>2, <3>2 DEF Summing
      <3>4. CASE s = T
        BY <2>2, <3>3, <3>4
      <3>5. CASE s # T
        <4>1. Part(s)[s] = Summing(f, Part(s), s)
          <5>1. SumsUp(f, s, Part(s))
            BY <1>2, <3>5
          <5> HIDE DEF Part
          <5> QED
            BY <5>1 DEF SumsUp
        <4>2. SumsUp(f, s, Part(s)) /\ SumsUp(f, rest, Part(rest)) /\ IsFiniteSet(rest)
          BY <1>2, <3>1, <3>5
        <4>3. Part(s)[rest] = Part(rest)[rest]
          <5> HIDE DEF Part, rest
          <5> QED
            BY <3>1, <4>2, SumsAgree
        <4> QED
          BY <2>2, <3>3, <3>5, <4>1, <4>3 DEF Summing
      <3> QED
        BY <3>4, <3>5
    <2> QED
      BY <2>1, <2>2
  <1>4. SumsUp(f, T, whole)
    <2> HIDE DEF Value
    <2>1. whole = [s \in SUBSET T |-> Summing(f, whole, s)]
      BY <1>3
    <2> QED
      BY <2>1 DEF SumsUp
  <1> QED
    BY <1>1, <1>4

(* SumFunctionOnSet is the value of that function. *)
LEMMA SumIsValue ==
    ASSUME NEW f, NEW S, IsFiniteSet(S), NEW g, SumsUp(f, S, g)
    PROVE  SumFunctionOnSet(f, S) = g[S]
  <1>1. ASSUME NEW h, SumsUp(f, S, h)
        PROVE  h = g
    <2>1. \A s \in SUBSET S : IsFiniteSet(s)
      BY FS_Subset
    <2>2. \A s \in SUBSET S : h[s] = g[s]
      BY <1>1, <2>1, SumsAgree
    <2>3. /\ h = [s \in SUBSET S |-> h[s]]
          /\ g = [s \in SUBSET S |-> g[s]]
      BY <1>1 DEF SumsUp
    <2> QED
      BY <2>2, <2>3
  <1>2. \A h : h = [s \in SUBSET S |->
                        IF s = {} THEN 0
                        ELSE f[CHOOSE x \in s : TRUE] + h[s \ {CHOOSE x \in s : TRUE}]]
                <=> h = g
    BY <1>1 DEF SumsUp, Summing, Chosen
  <1> QED
    BY <1>2 DEF SumFunctionOnSet, FoldFunctionOnSet, MapThenFoldSet

LEMMA SumOfSubset ==
    ASSUME NEW f, NEW S, IsFiniteSet(S), NEW g, SumsUp(f, S, g), NEW T \in SUBSET S
    PROVE  SumFunctionOnSet(f, T) = g[T]
  <1>1. IsFiniteSet(T)
    BY FS_Subset
  <1>2. PICK h : SumsUp(f, T, h)
    BY <1>1, SumsExist
  <1>3. SumFunctionOnSet(f, T) = h[T] /\ h[T] = g[T]
    BY <1>1, <1>2, SumIsValue, SumsAgree
  <1> QED
    BY <1>3

-----------------------------------------------------------------------------

LEMMA SumOfNothing == \A f : SumFunctionOnSet(f, {}) = 0
  <1> SUFFICES ASSUME NEW f
               PROVE  SumFunctionOnSet(f, {}) = 0
    OBVIOUS
  <1>1. IsFiniteSet({})
    BY FS_EmptySet
  <1>2. PICK g : SumsUp(f, {}, g)
    BY <1>1, SumsExist
  <1>3. g[{}] = 0
    BY <1>2 DEF SumsUp, Summing
  <1> QED
    BY <1>1, <1>2, <1>3, SumIsValue

LEMMA SumTakesChosen ==
    ASSUME NEW f, NEW S, IsFiniteSet(S), S # {}
    PROVE  /\ Chosen(S) \in S
           /\ SumFunctionOnSet(f, S) = f[Chosen(S)] + SumFunctionOnSet(f, S \ {Chosen(S)})
  <1>1. PICK g : SumsUp(f, S, g)
    BY SumsExist
  <1>2. Chosen(S) \in S
    BY ChosenIsElement
  <1>3. g[S] = f[Chosen(S)] + g[S \ {Chosen(S)}]
    BY <1>1 DEF SumsUp, Summing
  <1>4. /\ SumFunctionOnSet(f, S) = g[S]
        /\ SumFunctionOnSet(f, S \ {Chosen(S)}) = g[S \ {Chosen(S)}]
    BY <1>1, SumOfSubset
  <1> QED
    BY <1>2, <1>3, <1>4

(* A sum of natural numbers is one. *)
LEMMA SumType ==
    ASSUME NEW f, NEW S, IsFiniteSet(S), \A x \in S : f[x] \in Nat
    PROVE  SumFunctionOnSet(f, S) \in Nat
  <1> DEFINE Bad == {s \in SUBSET S : SumFunctionOnSet(f, s) \notin Nat}
  <1> SUFFICES ASSUME Bad # {}
               PROVE  FALSE
    OBVIOUS
  <1>1. PICK T \in Bad : \A U \in Bad : U \subseteq T => U = T
    <2>1. Bad \in SUBSET SUBSET S /\ Bad # {}
      OBVIOUS
    <2> HIDE DEF Bad
    <2> QED
      BY <2>1, SmallestSubset
  <1>2. T # {} /\ IsFiniteSet(T)
    <2>1. SumFunctionOnSet(f, {}) = 0 /\ 0 \in Nat
      BY SumOfNothing
    <2>2. IsFiniteSet(T)
      BY FS_Subset
    <2> QED
      BY <2>1, <2>2
  <1>3. /\ Chosen(T) \in T
        /\ SumFunctionOnSet(f, T) = f[Chosen(T)] + SumFunctionOnSet(f, T \ {Chosen(T)})
    BY <1>2, SumTakesChosen
  <1>4. SumFunctionOnSet(f, T \ {Chosen(T)}) \in Nat /\ f[Chosen(T)] \in Nat
    BY <1>1, <1>3
  <1> QED
    BY <1>1, <1>3, <1>4

(* Any element may be taken first. *)
LEMMA SumTakes ==
    ASSUME NEW f, NEW S, IsFiniteSet(S), \A x \in S : f[x] \in Nat, NEW x \in S
    PROVE  SumFunctionOnSet(f, S) = f[x] + SumFunctionOnSet(f, S \ {x})
  <1> DEFINE Sum(s) == SumFunctionOnSet(f, s)
             Bad == {s \in SUBSET S : \E y \in s : Sum(s) # f[y] + Sum(s \ {y})}
  <1> HIDE DEF Sum
  <1> SUFFICES ASSUME Bad # {}
               PROVE  FALSE
    BY DEF Sum
  <1>1. PICK T \in Bad : \A U \in Bad : U \subseteq T => U = T
    <2>1. Bad \in SUBSET SUBSET S /\ Bad # {}
      OBVIOUS
    <2> HIDE DEF Bad
    <2> QED
      BY <2>1, SmallestSubset
  <1>2. PICK y \in T : Sum(T) # f[y] + Sum(T \ {y})
    BY <1>1
  <1> DEFINE z == Chosen(T)
  <1> HIDE DEF z
  <1>3. \A s \in SUBSET S : IsFiniteSet(s) /\ Sum(s) \in Nat
    BY FS_Subset, SumType DEF Sum
  <1>4. z \in T /\ Sum(T) = f[z] + Sum(T \ {z})
    BY <1>3, SumTakesChosen DEF Sum, z
  <1>5. y # z
    BY <1>2, <1>4
  <1>6. Sum(T \ {z}) = f[y] + Sum((T \ {z}) \ {y})
    <2>1. T \ {z} \notin Bad
      BY <1>1, <1>4
    <2> QED
      BY <1>5, <2>1
  <1>7. Sum(T \ {y}) = f[z] + Sum((T \ {y}) \ {z})
    <2>1. T \ {y} \notin Bad
      BY <1>1
    <2> QED
      BY <1>4, <1>5, <2>1
  <1>8. (T \ {z}) \ {y} = (T \ {y}) \ {z}
    OBVIOUS
  <1>9. Sum((T \ {y}) \ {z}) \in Nat /\ f[y] \in Nat /\ f[z] \in Nat
    BY <1>3, <1>4
  <1> QED
    <2>1. \A p, q, r \in Nat : p + (q + r) = q + (p + r)
      OBVIOUS
    <2>2. Sum(T) = f[z] + (f[y] + Sum((T \ {y}) \ {z}))
      BY <1>4, <1>6, <1>8
    <2>3. f[y] + Sum(T \ {y}) = f[y] + (f[z] + Sum((T \ {y}) \ {z}))
      BY <1>7
    <2> QED
      BY <1>2, <1>9, <2>1, <2>2, <2>3

(* A sum depends on what is added up only. *)
LEMMA SumSame ==
    ASSUME NEW f, NEW g, NEW S, IsFiniteSet(S), \A x \in S : f[x] = g[x]
    PROVE  SumFunctionOnSet(f, S) = SumFunctionOnSet(g, S)
  <1> DEFINE Bad == {s \in SUBSET S : SumFunctionOnSet(f, s) # SumFunctionOnSet(g, s)}
  <1> SUFFICES ASSUME Bad # {}
               PROVE  FALSE
    OBVIOUS
  <1>1. PICK T \in Bad : \A U \in Bad : U \subseteq T => U = T
    <2>1. Bad \in SUBSET SUBSET S /\ Bad # {}
      OBVIOUS
    <2> HIDE DEF Bad
    <2> QED
      BY <2>1, SmallestSubset
  <1>2. T # {} /\ IsFiniteSet(T)
    BY SumOfNothing, FS_Subset
  <1>3. /\ Chosen(T) \in T
        /\ SumFunctionOnSet(f, T) = f[Chosen(T)] + SumFunctionOnSet(f, T \ {Chosen(T)})
        /\ SumFunctionOnSet(g, T) = g[Chosen(T)] + SumFunctionOnSet(g, T \ {Chosen(T)})
    BY <1>2, SumTakesChosen
  <1>4. SumFunctionOnSet(f, T \ {Chosen(T)}) = SumFunctionOnSet(g, T \ {Chosen(T)})
    BY <1>1, <1>3
  <1> QED
    BY <1>1, <1>3, <1>4

(* One more element adds its value. *)
LEMMA SumAdds ==
    ASSUME NEW f, NEW S, IsFiniteSet(S), \A x \in S : f[x] \in Nat,
           NEW y, y \notin S, f[y] \in Nat
    PROVE  SumFunctionOnSet(f, S \cup {y}) = SumFunctionOnSet(f, S) + f[y]
  <1>1. IsFiniteSet(S \cup {y}) /\ (S \cup {y}) \ {y} = S
    BY FS_AddElement
  <1>2. SumFunctionOnSet(f, S \cup {y}) =
            f[y] + SumFunctionOnSet(f, (S \cup {y}) \ {y})
    BY <1>1, SumTakes
  <1>3. SumFunctionOnSet(f, S) \in Nat
    BY SumType
  <1> QED
    <2>1. f[y] \in Nat
      OBVIOUS
    <2>2. SumFunctionOnSet(f, S \cup {y}) = f[y] + SumFunctionOnSet(f, S)
      BY <1>1, <1>2
    <2>3. \A p, q \in Nat : p + q = q + p
      OBVIOUS
    <2> QED
      BY <1>3, <2>1, <2>2, <2>3

(* Elements that add nothing may be left out, and leaving out any adds     *)
(* nothing.                                                                *)
LEMMA SumOfPart ==
    ASSUME NEW f, NEW S, IsFiniteSet(S), \A x \in S : f[x] \in Nat, NEW T \in SUBSET S
    PROVE  /\ SumFunctionOnSet(f, T) <= SumFunctionOnSet(f, S)
           /\ (\A x \in S \ T : f[x] = 0)
                  => SumFunctionOnSet(f, T) = SumFunctionOnSet(f, S)
  <1> DEFINE Sum(s) == SumFunctionOnSet(f, s)
             Fits(s) == /\ Sum(T) <= Sum(s)
                        /\ (\A x \in s \ T : f[x] = 0) => Sum(T) = Sum(s)
             Bad == {s \in SUBSET S : T \subseteq s /\ ~Fits(s)}
  <1>1. \A s \in SUBSET S : IsFiniteSet(s) /\ Sum(s) \in Nat
    BY FS_Subset, SumType
  <1> SUFFICES ASSUME Bad # {}
               PROVE  FALSE
    OBVIOUS
  <1>2. PICK s \in Bad : \A U \in Bad : U \subseteq s => U = s
    <2>1. Bad \in SUBSET SUBSET S /\ Bad # {}
      OBVIOUS
    <2> HIDE DEF Bad
    <2> QED
      BY <2>1, SmallestSubset
  <1>3. s # T /\ T \subseteq s
    BY <1>1, <1>2
  <1>4. PICK y : y \in s \ T
    BY <1>3
  <1>5. Sum(s) = f[y] + Sum(s \ {y})
    BY <1>1, <1>4, SumTakes
  <1>6. Fits(s \ {y})
    BY <1>2, <1>3, <1>4
  <1>7. f[y] \in Nat /\ Sum(s \ {y}) \in Nat /\ Sum(T) \in Nat
    BY <1>1, <1>4
  <1> HIDE DEF Sum
  <1>8. Fits(s)
    BY <1>4, <1>5, <1>6, <1>7
  <1> QED
    BY <1>2, <1>8

(* Summing up over the values of a one-to-one function instead.            *)
LEMMA SumOfImage ==
    ASSUME NEW S, IsFiniteSet(S), NEW f, NEW g, NEW h,
           \A x, y \in S : g[x] = g[y] => x = y,
           \A x \in S : f[x] \in Nat /\ f[x] = h[g[x]]
    PROVE  SumFunctionOnSet(f, S) = SumFunctionOnSet(h, {g[x] : x \in S})
  <1> DEFINE Image(s) == {g[x] : x \in s}
             Bad == {s \in SUBSET S : SumFunctionOnSet(f, s) # SumFunctionOnSet(h, Image(s))}
  <1> SUFFICES ASSUME Bad # {}
               PROVE  FALSE
    OBVIOUS
  <1>1. PICK T \in Bad : \A U \in Bad : U \subseteq T => U = T
    <2>1. Bad \in SUBSET SUBSET S /\ Bad # {}
      OBVIOUS
    <2> HIDE DEF Bad
    <2> QED
      BY <2>1, SmallestSubset
  <1>2. PICK x : x \in T
    <2>1. Image({}) = {}
      OBVIOUS
    <2> QED
      BY <2>1, <1>1, SumOfNothing
  <1>3. SumFunctionOnSet(f, T \ {x}) = SumFunctionOnSet(h, Image(T \ {x}))
    BY <1>1, <1>2
  <1>4. SumFunctionOnSet(f, T) = f[x] + SumFunctionOnSet(f, T \ {x})
    <2>1. IsFiniteSet(T) /\ \A y \in T : f[y] \in Nat
      BY FS_Subset
    <2> QED
      BY <1>2, <2>1, SumTakes
  <1>5. SumFunctionOnSet(h, Image(T)) = h[g[x]] + SumFunctionOnSet(h, Image(T) \ {g[x]})
    <2>1. IsFiniteSet(Image(T))
      <3>1. IsFiniteSet(T)
        BY FS_Subset
      <3> DEFINE onto == [y \in T |-> g[y]]
      <3>2. onto \in Surjection(T, Image(T))
        BY DEF Surjection
      <3> HIDE DEF onto, Image
      <3> QED
        BY <3>1, <3>2, FS_Surjection
    <2>2. \A y \in Image(T) : h[y] \in Nat
      OBVIOUS
    <2>3. g[x] \in Image(T)
      BY <1>2
    <2> HIDE DEF Image
    <2> QED
      BY <2>1, <2>2, <2>3, SumTakes
  <1>6. Image(T) \ {g[x]} = Image(T \ {x}) /\ f[x] = h[g[x]]
    BY <1>2
  <1> QED
    BY <1>1, <1>3, <1>4, <1>5, <1>6

-----------------------------------------------------------------------------
(* The rate limiter's record of mints.                                     *)

Since(start) == {i \in Instants : i >= start}

EventSum(events, start) == SumFunctionOnSet(events, Since(start))

LargestWindow == HOURS[Len(HOURS)]

LEMMA WindowTypes ==
    /\ LargestWindow \in Nat
    /\ \A w \in Windows : HOURS[w] \in Nat /\ HOURS[w] <= LargestWindow
  <1>1. /\ HOURS \in Seq(Nat \ {0}) /\ Len(HOURS) \in DOMAIN HOURS
        /\ \A w \in DOMAIN HOURS : w <= Len(HOURS)
    BY HoursAssumption
  <1>2. \A w \in DOMAIN HOURS : HOURS[w] \in Nat /\ HOURS[w] <= HOURS[Len(HOURS)]
    BY <1>1, HoursAssumption
  <1> QED
    BY <1>1, <1>2 DEF Windows, LargestWindow

LEMMA InstantsAreFinite ==
    ASSUME NEW start
    PROVE  IsFiniteSet(Since(start))
  <1>1. IsFiniteSet(0..MaxTime)
    BY FS_Interval, MaxTimeAssumption
  <1> QED
    BY <1>1, FS_Subset DEF Since, Instants

LEMMA EventSumType ==
    ASSUME NEW events \in MintEvents, NEW start
    PROVE  EventSum(events, start) \in Nat
  <1>1. \A i \in Since(start) : events[i] \in Nat
    BY DEF Since, MintEvents
  <1> QED
    BY <1>1, InstantsAreFinite, SumType DEF EventSum

LEMMA NoEventsSum == \A start : EventSum(NoEvents, start) = 0
  <1> SUFFICES ASSUME NEW start
               PROVE  EventSum(NoEvents, start) = 0
    OBVIOUS
  <1>1. IsFiniteSet(Since(start)) /\ {} \in SUBSET Since(start)
    BY InstantsAreFinite
  <1>2. \A i \in Since(start) : NoEvents[i] \in Nat
    BY DEF Since, NoEvents
  <1>3. \A i \in Since(start) \ {} : NoEvents[i] = 0
    BY DEF Since, NoEvents
  <1>4. SumFunctionOnSet(NoEvents, {}) = SumFunctionOnSet(NoEvents, Since(start))
    BY <1>1, <1>2, <1>3, SumOfPart
  <1> QED
    BY <1>4, SumOfNothing DEF EventSum

-----------------------------------------------------------------------------
(* Its limits.                                                             *)

(* A set of natural numbers that is not empty has a least element.         *)
LEMMA LeastElement ==
    ASSUME NEW T \in SUBSET Nat, T # {}
    PROVE  \E n \in T : \A m \in T : n <= m
  <1> DEFINE R == OpToRel(<, Nat)
  <1>1. IsWellFoundedOn(R, Nat)
    BY NatLessThanWellFounded
  <1>2. PICK n \in T : \A m \in T : <<m, n>> \notin R
    <2> HIDE DEF R
    <2> QED
      BY <1>1, WFMin
  <1>3. \A m \in T : ~(m < n)
    BY <1>2 DEF OpToRel
  <1> QED
    BY <1>3

(* The budget is what is left in the tightest of the configured windows.   *)
LEMMA BudgetIsLeast ==
    ASSUME NEW limits \in Optional(RateLimits), NEW events \in MintEvents, NEW now,
           Configured(limits) # {}
    PROVE  LET budget == available_mint_budget(limits, events, now)
               room(w) == saturating_sub(limits[w], usage_in_window(events, now, HOURS[w]))
           IN  /\ budget \in Nat
               /\ \E w \in Configured(limits) : budget = room(w)
               /\ \A w \in Configured(limits) : room(w) \in Nat /\ budget <= room(w)
  <1> DEFINE used(w) == usage_in_window(events, now, HOURS[w])
             room(w) == saturating_sub(limits[w], used(w))
             rooms == {room(w) : w \in Configured(limits)}
  <1>1. \A w \in Configured(limits) : limits[w] \in Nat /\ used(w) \in Nat
    <2>1. \A w : used(w) \in Nat
      BY EventSumType DEF usage_in_window, EventSum, Since
    <2>2. \A w \in Configured(limits) : limits[w] \in Nat
      BY DEF Configured, RateLimits, Optional
    <2> QED
      BY <2>1, <2>2
  <1>2. \A w \in Configured(limits) : room(w) \in Nat
    <2> HIDE DEF used
    <2> QED
      BY <1>1 DEF saturating_sub
  <1>3. available_mint_budget(limits, events, now) = Min(rooms)
    BY DEF available_mint_budget
  <1> HIDE DEF room
  <1>4. rooms \in SUBSET Nat /\ rooms # {}
    BY <1>2
  <1>5. Min(rooms) \in rooms /\ \A n \in rooms : Min(rooms) <= n
    <2> HIDE DEF rooms
    <2>1. PICK n \in rooms : \A m \in rooms : n <= m
      BY <1>4, LeastElement
    <2> QED
      BY <2>1 DEF Min
  <1>6. \A w \in Configured(limits) : Min(rooms) <= room(w)
    BY <1>5
  <1>7. \E w \in Configured(limits) : Min(rooms) = room(w)
    BY <1>5
  <1> QED
    BY <1>2, <1>3, <1>4, <1>5, <1>6, <1>7 DEF room

(* A top-up asks check_rate_limits whether its amount fits, a rebalance    *)
(* asks available_mint_budget how much does: the same amounts.             *)
THEOREM BudgetIsWhatFits ==
    ASSUME NEW limits \in Optional(RateLimits), NEW events \in MintEvents, NEW now,
           NEW amount \in Nat \ {0}
    PROVE  LET budget == available_mint_budget(limits, events, now)
           IN  /\ budget \in Optional(Nat)
               /\ check_rate_limits(limits, events, amount, now)
                      <=> (budget # None => amount <= budget)
  <1> DEFINE used(w) == usage_in_window(events, now, HOURS[w])
             room(w) == saturating_sub(limits[w], used(w))
             budget == available_mint_budget(limits, events, now)
  <1>1. check_rate_limits(limits, events, amount, now) <=>
            \A w \in Configured(limits) : used(w) + amount <= limits[w]
    BY DEF check_rate_limits
  <1>2. ASSUME NEW w \in Configured(limits)
        PROVE  used(w) + amount <= limits[w] <=> amount <= room(w)
    <2>1. used(w) \in Nat
      BY EventSumType DEF usage_in_window, EventSum, Since
    <2>2. limits[w] \in Nat
      BY DEF Configured, RateLimits, Optional
    <2> HIDE DEF used
    <2> QED
      BY <2>1, <2>2 DEF saturating_sub
  <1>3. CASE Configured(limits) = {}
    BY <1>1, <1>3 DEF available_mint_budget, Optional
  <1>4. CASE Configured(limits) # {}
    <2>1. /\ budget \in Nat
          /\ \E w \in Configured(limits) : budget = room(w)
          /\ \A w \in Configured(limits) : room(w) \in Nat /\ budget <= room(w)
      BY <1>4, BudgetIsLeast
    <2> HIDE DEF budget, room
    <2>2. amount <= budget <=> \A w \in Configured(limits) : amount <= room(w)
      BY <2>1
    <2>3. budget # None
      BY <2>1, NoneAssumption
    <2> QED
      BY <1>1, <1>2, <2>1, <2>2, <2>3 DEF Optional, budget
  <1> QED
    BY <1>3, <1>4
=============================================================================
