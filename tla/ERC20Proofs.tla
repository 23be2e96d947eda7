----------------------------- MODULE ERC20Proofs -----------------------------
(***************************************************************************)
(* Sums of tables, and what the operators of the ERC20 ledger do to a      *)
(* table of words and to its total.                                        *)
(*                                                                         *)
(* The contracts keep a word per account (balances, deposits, debts);      *)
(* every conservation law about them is a statement about SumFunction of   *)
(* the community module Functions.  What those laws need: the recursion    *)
(* behind the sum is well defined on a finite set, one element can be      *)
(* taken out of a sum, and an update at one element changes the sum by the *)
(* difference.  Every induction is a minimal counterexample on the subsets *)
(* of a finite set.                                                        *)
(*                                                                         *)
(* The tokens leave the addition to the receiver's balance unchecked; the  *)
(* lemmas about the ledger say why it cannot overflow: no entry exceeds    *)
(* the total, and the total is a word.                                     *)
(***************************************************************************)
EXTENDS ERC20, FiniteSetTheorems, TLAPS

First(T) == CHOOSE x \in T : TRUE

\* g satisfies, on every subset of V, the recursion SumFunctionOnSet(f, V) unfolds.
IsPartialSum(g, f, V) ==
  g = [T \in SUBSET V |->
         IF T = {} THEN 0 ELSE f[First(T)] + g[T \ {First(T)}]]

PartialSum(f, V) == CHOOSE g : IsPartialSum(g, f, V)

-----------------------------------------------------------------------------

\* Strict inclusion has minimal elements in every non-empty family of subsets of a finite set.
LEMMA SubsetMinimum ==
  ASSUME NEW S, IsFiniteSet(S), NEW Bad \in SUBSET (SUBSET S), Bad # {}
  PROVE  \E T \in Bad : \A U \in Bad : ~ (U \subseteq T /\ U # T)
<1>1. FiniteSubsetsOf(S) = SUBSET S
  BY FS_FiniteSubsetsOfFinite
<1>2. IsWellFoundedOn(StrictSubsetOrdering(S), SUBSET S)
  BY <1>1, FS_StrictSubsetOrderingWellFounded
<1>3. PICK T \in Bad : \A U \in Bad : <<U, T>> \notin StrictSubsetOrdering(S)
  BY <1>2, WFMin
<1>4. QED
  BY <1>3 DEF StrictSubsetOrdering

\* The sum of the community module is the partial sum at the whole set.
LEMMA SumIsPartialSum ==
  ASSUME NEW f, NEW S
  PROVE  SumFunctionOnSet(f, S) = PartialSum(f, S)[S]
  BY DEF SumFunctionOnSet, FoldFunctionOnSet, MapThenFoldSet, PartialSum,
         IsPartialSum, First

\* A non-empty set loses its first element and stays within the family.
LEMMA FirstIn ==
  ASSUME NEW T, T # {}
  PROVE  First(T) \in T /\ T \ {First(T)} \subseteq T /\ T \ {First(T)} # T
<1>1. First(T) \in T
  BY DEF First
<1>2. QED
  BY <1>1

\* Two solutions of the recursion agree where both are defined.
LEMMA PartialSumsAgree ==
  ASSUME NEW S, IsFiniteSet(S), NEW f, NEW V \in SUBSET S, NEW W \in SUBSET S,
         NEW g, NEW h, IsPartialSum(g, f, V), IsPartialSum(h, f, W),
         NEW T \in SUBSET (V \cap W)
  PROVE  g[T] = h[T]
<1> DEFINE Bad == {U \in SUBSET (V \cap W) : g[U] # h[U]}
<1>1. SUFFICES ASSUME Bad # {} PROVE FALSE
  OBVIOUS
<1>2. Bad \in SUBSET (SUBSET S)
  OBVIOUS
<1>3. PICK U \in Bad : \A X \in Bad : ~ (X \subseteq U /\ X # U)
  <2> HIDE DEF Bad
  <2>1. QED
    BY <1>1, <1>2, SubsetMinimum
<1>4. U \in SUBSET V /\ U \in SUBSET W
  OBVIOUS
<1>5. /\ g[U] = IF U = {} THEN 0 ELSE f[First(U)] + g[U \ {First(U)}]
      /\ h[U] = IF U = {} THEN 0 ELSE f[First(U)] + h[U \ {First(U)}]
  BY <1>4 DEF IsPartialSum
<1>6. CASE U = {}
  BY <1>3, <1>5, <1>6
<1>7. CASE U # {}
  <2>1. g[U \ {First(U)}] = h[U \ {First(U)}]
    BY <1>3, <1>7, FirstIn
  <2>2. QED
    BY <1>3, <1>5, <1>7, <2>1
<1>8. QED
  BY <1>6, <1>7

\* On a finite set the recursion has a solution.
LEMMA PartialSumExists ==
  ASSUME NEW S, IsFiniteSet(S), NEW f, NEW W \in SUBSET S
  PROVE  IsPartialSum(PartialSum(f, W), f, W)
<1> DEFINE Bad == {U \in SUBSET S : ~ \E g : IsPartialSum(g, f, U)}
<1>1. SUFFICES ASSUME Bad # {} PROVE FALSE
  BY DEF PartialSum
<1>0. Bad \in SUBSET (SUBSET S)
  OBVIOUS
<1>2. PICK V \in Bad : \A X \in Bad : ~ (X \subseteq V /\ X # V)
  <2> HIDE DEF Bad
  <2>1. QED
    BY <1>0, <1>1, SubsetMinimum
<1> DEFINE Rest(T) == T \ {First(T)}
           g == [T \in SUBSET V |->
                   IF T = {} THEN 0 ELSE f[First(T)] + PartialSum(f, Rest(T))[Rest(T)]]
<1>3. \A U \in SUBSET V : U # V => IsPartialSum(PartialSum(f, U), f, U)
  BY <1>2 DEF PartialSum
<1>4. ASSUME NEW T \in SUBSET V, T # {}
      PROVE  g[Rest(T)] = PartialSum(f, Rest(T))[Rest(T)]
  <2>1. Rest(T) \in SUBSET V /\ Rest(T) # V
    BY <1>4, FirstIn
  <2>2. IsPartialSum(PartialSum(f, Rest(T)), f, Rest(T))
    BY <1>3, <2>1
  <2>3. PartialSum(f, Rest(T))[Rest(T)] =
          IF Rest(T) = {} THEN 0
          ELSE f[First(Rest(T))] + PartialSum(f, Rest(T))[Rest(Rest(T))]
    BY <2>2 DEF IsPartialSum
  <2>4. CASE Rest(T) = {}
    BY <2>1, <2>3, <2>4
  <2>5. CASE Rest(T) # {}
    <3>1. Rest(Rest(T)) \in SUBSET V /\ Rest(Rest(T)) # V
      BY <2>1, <2>5, FirstIn
    <3>2. IsPartialSum(PartialSum(f, Rest(Rest(T))), f, Rest(Rest(T)))
      BY <1>3, <3>1
    <3>3. PartialSum(f, Rest(T))[Rest(Rest(T))]
            = PartialSum(f, Rest(Rest(T)))[Rest(Rest(T))]
      BY <2>1, <2>2, <3>1, <3>2, PartialSumsAgree
    <3>4. QED
      BY <2>1, <2>3, <2>5, <3>3
  <2>6. QED
    BY <2>4, <2>5
<1>5. IsPartialSum(g, f, V)
  BY <1>4 DEF IsPartialSum
<1>6. QED
  BY <1>2, <1>5

-----------------------------------------------------------------------------

\* The recursion, as an equation about the sum itself.
LEMMA SumRecursion ==
  ASSUME NEW S, IsFiniteSet(S), NEW f
  PROVE  SumFunctionOnSet(f, S) =
           IF S = {} THEN 0
           ELSE f[First(S)] + SumFunctionOnSet(f, S \ {First(S)})
<1>1. IsPartialSum(PartialSum(f, S), f, S)
  BY PartialSumExists
<1>2. CASE S = {}
  BY <1>1, <1>2, SumIsPartialSum DEF IsPartialSum
<1>3. CASE S # {}
  <2> DEFINE R == S \ {First(S)}
  <2>1. R \in SUBSET S
    OBVIOUS
  <2>2. IsPartialSum(PartialSum(f, R), f, R)
    BY <2>1, PartialSumExists
  <2>3. PartialSum(f, S)[R] = PartialSum(f, R)[R]
    BY <1>1, <2>1, <2>2, PartialSumsAgree
  <2>4. PartialSum(f, S)[S] = f[First(S)] + PartialSum(f, S)[R]
    BY <1>1, <1>3 DEF IsPartialSum
  <2>5. QED
    BY <1>3, <2>3, <2>4, SumIsPartialSum
<1>4. QED
  BY <1>2, <1>3

\* A sum of natural numbers is a natural number.
LEMMA SumOnSetType ==
  ASSUME NEW S, IsFiniteSet(S), NEW f, NEW T \in SUBSET S, \A x \in S : f[x] \in Nat
  PROVE  SumFunctionOnSet(f, T) \in Nat
<1> DEFINE Bad == {U \in SUBSET S : SumFunctionOnSet(f, U) \notin Nat}
<1>1. SUFFICES ASSUME Bad # {} PROVE FALSE
  OBVIOUS
<1>2. Bad \in SUBSET (SUBSET S)
  OBVIOUS
<1>3. PICK U \in Bad : \A X \in Bad : ~ (X \subseteq U /\ X # U)
  <2> HIDE DEF Bad
  <2>1. QED
    BY <1>1, <1>2, SubsetMinimum
<1>4. IsFiniteSet(U)
  BY FS_Subset
<1>5. SumFunctionOnSet(f, U) =
        IF U = {} THEN 0 ELSE f[First(U)] + SumFunctionOnSet(f, U \ {First(U)})
  BY <1>4, SumRecursion
<1>6. CASE U = {}
  BY <1>3, <1>5, <1>6
<1>7. CASE U # {}
  <2>1. SumFunctionOnSet(f, U \ {First(U)}) \in Nat /\ f[First(U)] \in Nat
    BY <1>3, <1>7, FirstIn
  <2>2. QED
    BY <1>3, <1>5, <1>7, <2>1
<1>8. QED
  BY <1>6, <1>7

\* Any element, not only the one the recursion picks, can be taken out of a sum.
LEMMA SumTakeOut ==
  ASSUME NEW S, IsFiniteSet(S), NEW f, \A x \in S : f[x] \in Nat,
         NEW T \in SUBSET S, NEW a \in T
  PROVE  SumFunctionOnSet(f, T) = f[a] + SumFunctionOnSet(f, T \ {a})
<1> DEFINE P(U, x) == SumFunctionOnSet(f, U) = f[x] + SumFunctionOnSet(f, U \ {x})
           Bad == {U \in SUBSET S : \E x \in U : ~ P(U, x)}
<1>1. SUFFICES ASSUME Bad # {} PROVE FALSE
  OBVIOUS
<1>2. Bad \in SUBSET (SUBSET S)
  OBVIOUS
<1>3. PICK U \in Bad : \A X \in Bad : ~ (X \subseteq U /\ X # U)
  <2> HIDE DEF Bad
  <2>1. QED
    BY <1>1, <1>2, SubsetMinimum
<1>4. PICK x \in U : ~ P(U, x)
  OBVIOUS
<1> DEFINE c == First(U)
<1>5. U # {} /\ c \in U /\ U \in SUBSET S
  BY <1>4, FirstIn
<1>6. IsFiniteSet(U)
  BY FS_Subset
<1>7. P(U, c)
  BY <1>5, <1>6, SumRecursion
<1>8. x # c
  BY <1>4, <1>7
<1>9. P(U \ {c}, x) /\ P(U \ {x}, c)
  <2>1. U \ {c} \notin Bad /\ U \ {x} \notin Bad
    BY <1>3, <1>5
  <2>2. U \ {c} \in SUBSET S /\ U \ {x} \in SUBSET S
    BY <1>5
  <2>3. QED
    BY <1>5, <1>8, <2>1, <2>2
<1>10. (U \ {c}) \ {x} = (U \ {x}) \ {c}
  OBVIOUS
<1>11. /\ SumFunctionOnSet(f, (U \ {c}) \ {x}) \in Nat
       /\ f[x] \in Nat /\ f[c] \in Nat
  <2>1. (U \ {c}) \ {x} \in SUBSET S
    BY <1>5
  <2>2. QED
    BY <1>5, <2>1, SumOnSetType
<1> HIDE DEF c
<1>12. QED
  BY <1>4, <1>7, <1>9, <1>10, <1>11

\* The sum depends on f only through its values on the set.
LEMMA SumCongruence ==
  ASSUME NEW S, IsFiniteSet(S), NEW f, NEW g, NEW W \in SUBSET S,
         \A x \in W : f[x] = g[x]
  PROVE  SumFunctionOnSet(f, W) = SumFunctionOnSet(g, W)
<1> DEFINE Bad == {U \in SUBSET W : SumFunctionOnSet(f, U) # SumFunctionOnSet(g, U)}
<1>1. SUFFICES ASSUME Bad # {} PROVE FALSE
  OBVIOUS
<1>2. Bad \in SUBSET (SUBSET S)
  OBVIOUS
<1>3. PICK U \in Bad : \A X \in Bad : ~ (X \subseteq U /\ X # U)
  <2> HIDE DEF Bad
  <2>1. QED
    BY <1>1, <1>2, SubsetMinimum
<1>4. IsFiniteSet(U)
  BY FS_Subset
<1>5. /\ SumFunctionOnSet(f, U) =
           IF U = {} THEN 0 ELSE f[First(U)] + SumFunctionOnSet(f, U \ {First(U)})
      /\ SumFunctionOnSet(g, U) =
           IF U = {} THEN 0 ELSE g[First(U)] + SumFunctionOnSet(g, U \ {First(U)})
  BY <1>4, SumRecursion
<1>6. CASE U = {}
  BY <1>3, <1>5, <1>6
<1>7. CASE U # {}
  <2>1. SumFunctionOnSet(f, U \ {First(U)}) = SumFunctionOnSet(g, U \ {First(U)})
    BY <1>3, <1>7, FirstIn
  <2>2. f[First(U)] = g[First(U)]
    BY <1>3, <1>7, FirstIn
  <2>3. QED
    BY <1>3, <1>5, <1>7, <2>1, <2>2
<1>8. QED
  BY <1>6, <1>7

\* Where two functions add up to at most a third one, so do their sums.
LEMMA SumOnSetSuperadditive ==
  ASSUME NEW S, IsFiniteSet(S), NEW f, NEW g, NEW h,
         \A x \in S : f[x] \in Nat /\ g[x] \in Nat /\ h[x] \in Nat /\ f[x] + g[x] <= h[x],
         NEW W \in SUBSET S
  PROVE  SumFunctionOnSet(f, W) + SumFunctionOnSet(g, W) <= SumFunctionOnSet(h, W)
<1> DEFINE P(U) == SumFunctionOnSet(f, U) + SumFunctionOnSet(g, U) <= SumFunctionOnSet(h, U)
           Bad == {U \in SUBSET S : ~ P(U)}
<1>1. SUFFICES ASSUME Bad # {} PROVE FALSE
  OBVIOUS
<1>2. Bad \in SUBSET (SUBSET S)
  OBVIOUS
<1>3. PICK U \in Bad : \A X \in Bad : ~ (X \subseteq U /\ X # U)
  <2> HIDE DEF Bad
  <2>1. QED
    BY <1>1, <1>2, SubsetMinimum
<1> DEFINE R == U \ {First(U)}
<1>4. IsFiniteSet(U)
  BY FS_Subset
<1>5. CASE U = {}
  <2>1. /\ SumFunctionOnSet(f, U) = 0 /\ SumFunctionOnSet(g, U) = 0
        /\ SumFunctionOnSet(h, U) = 0
    BY <1>4, <1>5, SumRecursion
  <2>2. QED
    BY <1>3, <2>1
<1>6. CASE U # {}
  <2>1. /\ SumFunctionOnSet(f, U) = f[First(U)] + SumFunctionOnSet(f, R)
        /\ SumFunctionOnSet(g, U) = g[First(U)] + SumFunctionOnSet(g, R)
        /\ SumFunctionOnSet(h, U) = h[First(U)] + SumFunctionOnSet(h, R)
    BY <1>4, <1>6, SumRecursion
  <2>2. First(U) \in U /\ First(U) \in S /\ R \in SUBSET S /\ R # U /\ R \subseteq U
    BY <1>3, <1>6, FirstIn
  <2>3. P(R)
    BY <1>3, <2>2
  <2>4. /\ SumFunctionOnSet(f, R) \in Nat /\ SumFunctionOnSet(g, R) \in Nat
        /\ SumFunctionOnSet(h, R) \in Nat
    BY <2>2, SumOnSetType
  <2>5. /\ f[First(U)] \in Nat /\ g[First(U)] \in Nat /\ h[First(U)] \in Nat
        /\ f[First(U)] + g[First(U)] <= h[First(U)]
    BY <2>2
  <2>6. P(U)
    BY <2>1, <2>3, <2>4, <2>5
  <2>7. QED
    BY <1>3, <2>6
<1>7. QED
  BY <1>5, <1>6

-----------------------------------------------------------------------------

\* The total of a table of naturals is a natural.
THEOREM SumType ==
  ASSUME NEW S, IsFiniteSet(S), NEW f \in [S -> Nat]
  PROVE  SumFunction(f) \in Nat
  BY SumOnSetType DEF SumFunction

\* No entry of a table exceeds the total.
THEOREM SumBoundsEntry ==
  ASSUME NEW S, IsFiniteSet(S), NEW f \in [S -> Nat], NEW a \in S
  PROVE  f[a] <= SumFunction(f)
<1>1. SumFunctionOnSet(f, S) = f[a] + SumFunctionOnSet(f, S \ {a})
  BY SumTakeOut
<1>2. SumFunctionOnSet(f, S \ {a}) \in Nat
  BY SumOnSetType
<1>3. QED
  BY <1>1, <1>2 DEF SumFunction

\* Overwriting one entry changes the total by the difference of the two entries.
LEMMA SumUpdate ==
  ASSUME NEW S, IsFiniteSet(S), NEW f \in [S -> Nat], NEW a \in S, NEW v \in Nat
  PROVE  SumFunction([f EXCEPT ![a] = v]) = SumFunction(f) - f[a] + v
<1> DEFINE g == [f EXCEPT ![a] = v]
<1>1. /\ g \in [S -> Nat] /\ g[a] = v
      /\ \A x \in S \ {a} : f[x] = g[x]
  OBVIOUS
<1>2. /\ SumFunctionOnSet(f, S) = f[a] + SumFunctionOnSet(f, S \ {a})
      /\ SumFunctionOnSet(g, S) = v + SumFunctionOnSet(g, S \ {a})
  <2> HIDE DEF g
  <2>1. QED
    BY <1>1, SumTakeOut
<1>3. SumFunctionOnSet(f, S \ {a}) = SumFunctionOnSet(g, S \ {a})
  <2> HIDE DEF g
  <2>1. QED
    BY <1>1, SumCongruence
<1>4. SumFunctionOnSet(f, S \ {a}) \in Nat
  BY SumOnSetType
<1>5. QED
  BY <1>1, <1>2, <1>3, <1>4 DEF SumFunction

\* The total of an all-zero table is zero.
THEOREM SumZero ==
  ASSUME NEW S, IsFiniteSet(S), NEW f \in [S -> Nat], \A x \in S : f[x] = 0
  PROVE  SumFunction(f) = 0
<1> DEFINE Bad == {U \in SUBSET S : SumFunctionOnSet(f, U) # 0}
<1>1. SUFFICES ASSUME Bad # {} PROVE FALSE
  BY DEF SumFunction
<1>2. Bad \in SUBSET (SUBSET S)
  OBVIOUS
<1>3. PICK U \in Bad : \A X \in Bad : ~ (X \subseteq U /\ X # U)
  <2> HIDE DEF Bad
  <2>1. QED
    BY <1>1, <1>2, SubsetMinimum
<1>4. IsFiniteSet(U)
  BY FS_Subset
<1>5. SumFunctionOnSet(f, U) =
        IF U = {} THEN 0 ELSE f[First(U)] + SumFunctionOnSet(f, U \ {First(U)})
  BY <1>4, SumRecursion
<1>6. CASE U = {}
  BY <1>3, <1>5, <1>6
<1>7. CASE U # {}
  <2>1. SumFunctionOnSet(f, U \ {First(U)}) = 0 /\ f[First(U)] = 0
    BY <1>3, <1>7, FirstIn
  <2>2. QED
    BY <1>3, <1>5, <1>7, <2>1
<1>8. QED
  BY <1>6, <1>7

\* A table that is nowhere below the sum of two others has a total not below theirs.
THEOREM SumSuperadditive ==
  ASSUME NEW S, IsFiniteSet(S), NEW f \in [S -> Nat], NEW g \in [S -> Nat],
         NEW h \in [S -> Nat], \A x \in S : f[x] + g[x] <= h[x]
  PROVE  SumFunction(f) + SumFunction(g) <= SumFunction(h)
<1>1. SumFunctionOnSet(f, S) + SumFunctionOnSet(g, S) <= SumFunctionOnSet(h, S)
  BY SumOnSetSuperadditive
<1>2. QED
  BY <1>1 DEF SumFunction

\* A table that is nowhere below another one has a total not below its total.
THEOREM SumMonotone ==
  ASSUME NEW S, IsFiniteSet(S), NEW f \in [S -> Nat], NEW g \in [S -> Nat],
         \A x \in S : f[x] <= g[x]
  PROVE  SumFunction(f) <= SumFunction(g)
<1> DEFINE z == [x \in S |-> 0]
<1>1. z \in [S -> Nat] /\ \A x \in S : z[x] = 0
  OBVIOUS
<1>2. \A x \in S : f[x] + z[x] <= g[x]
  BY <1>1
<1> HIDE DEF z
<1>3. SumFunction(z) = 0 /\ SumFunction(f) \in Nat
  BY <1>1, SumZero, SumType
<1>4. SumFunction(f) + SumFunction(z) <= SumFunction(g)
  BY <1>1, <1>2, SumSuperadditive
<1>5. QED
  BY <1>3, <1>4

-----------------------------------------------------------------------------
(* The ERC20 ledger *)

\* A table of words is a table of natural numbers.
LEMMA WordTable ==
  ASSUME NEW A, NEW b \in [A -> Word]
  PROVE  b \in [A -> Nat] /\ \A a \in A : b[a] \in Nat
  BY MaxUintAssumption DEF Word

\* A debit that the holder can afford leaves words, and lowers the total.
LEMMA DebitedLedger ==
  ASSUME NEW A, IsFiniteSet(A), NEW b \in [A -> Word],
         NEW a \in A, NEW n \in Nat, b[a] >= n
  PROVE  /\ Debited(b, a, n) \in [A -> Word]
         /\ SumFunction(Debited(b, a, n)) = SumFunction(b) - n
<1>1. b \in [A -> Nat] /\ b[a] \in Nat /\ b[a] <= MaxUint /\ MaxUint \in Nat
  BY MaxUintAssumption DEF Word
<1>2. b[a] - n \in Nat /\ b[a] - n \in Word
  BY <1>1 DEF Word
<1>3. Debited(b, a, n) = [b EXCEPT ![a] = b[a] - n]
  BY DEF Debited
<1>4. SumFunction(Debited(b, a, n)) = SumFunction(b) - b[a] + (b[a] - n)
  <2> DEFINE v == b[a] - n
  <2>1. v \in Nat
    BY <1>2
  <2> HIDE DEF v
  <2>2. SumFunction([b EXCEPT ![a] = v]) = SumFunction(b) - b[a] + v
    BY <1>1, <2>1, SumUpdate
  <2>3. QED
    BY <1>3, <2>2 DEF v
<1>5. SumFunction(b) \in Nat
  BY <1>1, SumType
<1>6. QED
  BY <1>1, <1>2, <1>3, <1>4, <1>5

\* A credit that keeps the total a word leaves words, and raises the total.
LEMMA CreditedLedger ==
  ASSUME NEW A, IsFiniteSet(A), NEW b \in [A -> Word],
         NEW a \in A, NEW n \in Nat, SumFunction(b) + n <= MaxUint
  PROVE  /\ Credited(b, a, n) \in [A -> Word]
         /\ SumFunction(Credited(b, a, n)) = SumFunction(b) + n
<1>1. b \in [A -> Nat] /\ b[a] \in Nat /\ MaxUint \in Nat
  BY MaxUintAssumption DEF Word
<1>2. SumFunction(b) \in Nat /\ b[a] <= SumFunction(b)
  BY <1>1, SumType, SumBoundsEntry
<1>3. b[a] + n \in Nat /\ b[a] + n \in Word
  BY <1>1, <1>2 DEF Word
<1>4. Credited(b, a, n) = [b EXCEPT ![a] = b[a] + n]
  BY DEF Credited
<1>5. SumFunction(Credited(b, a, n)) = SumFunction(b) - b[a] + (b[a] + n)
  <2> DEFINE v == b[a] + n
  <2>1. v \in Nat
    BY <1>3
  <2> HIDE DEF v
  <2>2. SumFunction([b EXCEPT ![a] = v]) = SumFunction(b) - b[a] + v
    BY <1>1, <2>1, SumUpdate
  <2>3. QED
    BY <1>4, <2>2 DEF v
<1>6. QED
  BY <1>1, <1>2, <1>3, <1>4, <1>5

\* A transfer, also one to oneself, moves words and keeps the total: the addition
\* that _transfer leaves unchecked never wraps as long as the total is a word.
THEOREM TransferredLedger ==
  ASSUME NEW A, IsFiniteSet(A), NEW b \in [A -> Word], SumFunction(b) \in Word,
         NEW from \in A, NEW to \in A, NEW n \in Nat, CanTransfer(b, from, n)
  PROVE  /\ Transferred(b, from, to, n) \in [A -> Word]
         /\ SumFunction(Transferred(b, from, to, n)) = SumFunction(b)
<1> DEFINE d == Debited(b, from, n)
<1>1. d \in [A -> Word] /\ SumFunction(d) = SumFunction(b) - n
  BY DebitedLedger DEF CanTransfer
<1>2. SumFunction(b) \in Nat /\ SumFunction(b) <= MaxUint
  BY MaxUintAssumption DEF Word
<1> HIDE DEF d
<1>3. SumFunction(d) + n <= MaxUint
  BY <1>1, <1>2
<1>4. /\ Credited(d, to, n) \in [A -> Word]
      /\ SumFunction(Credited(d, to, n)) = SumFunction(d) + n
  BY <1>1, <1>3, CreditedLedger
<1>5. QED
  BY <1>1, <1>2, <1>4 DEF Transferred, d

\* Spending from an allowance and approving one leave words.
LEMMA AllowanceTables ==
  ASSUME NEW H, NEW S, NEW w \in [H -> [S -> Word]],
         NEW holder \in H, NEW spender \in S, NEW n \in Nat
  PROVE  /\ CanSpend(w, holder, spender, n)
              => Spent(w, holder, spender, n) \in [H -> [S -> Word]]
         /\ n \in Word => Approved(w, holder, spender, n) \in [H -> [S -> Word]]
<1>1. w[holder][spender] \in Nat /\ w[holder][spender] <= MaxUint
  BY MaxUintAssumption DEF Word
<1>2. CanSpend(w, holder, spender, n) => w[holder][spender] - n \in Word
  BY <1>1, MaxUintAssumption DEF CanSpend, Word
<1>3. QED
  BY <1>2 DEF Spent, Approved
=============================================================================
