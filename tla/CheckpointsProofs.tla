--------------------------- MODULE CheckpointsProofs ---------------------------
(***************************************************************************)
(* A checked cast returns the number it was given, for integers of any     *)
(* width; the checkpoints of a history fit their types and have growing    *)
(* keys; and on such a list, of any length, the searches by halving find   *)
(* what they should, so that the lookups show the history of a value.      *)
(*                                                                         *)
(* The searches are recursive functions.  What is proved about them is     *)
(* proved from a smallest counterexample, not by induction.                *)
(***************************************************************************)
EXTENDS Checkpoints, WellFoundedInduction, TLAPS

\* A number that is small enough is its own remainder.
LEMMA SmallRemainder ==
  ASSUME NEW b \in Nat \ {0}, NEW a \in 0 .. b - 1
  PROVE  a % b = a
  OBVIOUS

\* A remainder is smaller than the divisor.
LEMMA RemainderRange ==
  ASSUME NEW b \in Nat \ {0}, NEW a \in Int
  PROVE  a % b \in 0 .. b - 1
  OBVIOUS

\* Every function of SafeCast reverts exactly for the numbers that the type it
\* casts to does not have, and changes none of the others - the cast of an int to
\* a shorter one, which is checked after the fact, included.
THEOREM CastsAreExact ==
  ASSUME NEW max \in Nat
  PROVE  /\ \A v \in Nat :
              /\ toUintDownCastReturns(v, max) <=> v \in 0 .. max
              /\ toUintDownCastReturns(v, max) => toUintDownCast(v, max) = v
         /\ \A v \in Int :
              /\ toIntDownCastReturns(v, max) <=> v \in -max - 1 .. max
              /\ toIntDownCastReturns(v, max) => toIntDownCast(v, max) = v
         /\ \A v \in Nat :
              /\ toIntReturns(v, max) <=> v \in -max - 1 .. max
              /\ toIntReturns(v, max) => toInt(v, max) = v
         /\ \A v \in -max - 1 .. max :
              /\ toUintReturns(v) <=> v \in 0 .. 2 * max + 1
              /\ toUintReturns(v) => toUint(v, max) = v
<1>1. ASSUME NEW v \in Nat, v <= max PROVE uint(v, max) = v
  <2>1. max + 1 \in Nat \ {0} /\ v \in 0 .. (max + 1) - 1
    BY <1>1
  <2>2. QED
    BY <2>1, SmallRemainder DEF uint
<1>2. ASSUME NEW v \in -max - 1 .. max PROVE int(v, max) = v
  <2>1. 2 * max + 2 \in Nat \ {0} /\ v + max + 1 \in 0 .. (2 * max + 2) - 1
    BY <1>2
  <2>2. (v + max + 1) % (2 * max + 2) = v + max + 1
    BY <2>1, SmallRemainder
  <2>3. QED
    BY <2>2 DEF int
<1>3. ASSUME NEW v \in Int PROVE int(v, max) \in -max - 1 .. max
  <2>1. 2 * max + 2 \in Nat \ {0} /\ v + max + 1 \in Int
    OBVIOUS
  <2>2. (v + max + 1) % (2 * max + 2) \in 0 .. (2 * max + 2) - 1
    BY <2>1, RemainderRange
  <2>3. QED
    BY <2>2 DEF int
<1>4. \A v \in Nat : /\ toUintDownCastReturns(v, max) <=> v \in 0 .. max
                     /\ toUintDownCastReturns(v, max) => toUintDownCast(v, max) = v
  BY <1>1 DEF toUintDownCastReturns, toUintDownCast
<1>5. \A v \in Int : /\ toIntDownCastReturns(v, max) <=> v \in -max - 1 .. max
                     /\ toIntDownCastReturns(v, max) => toIntDownCast(v, max) = v
  BY <1>2, <1>3 DEF toIntDownCastReturns, toIntDownCast
<1>6. \A v \in Nat : /\ toIntReturns(v, max) <=> v \in -max - 1 .. max
                     /\ toIntReturns(v, max) => toInt(v, max) = v
  BY <1>2 DEF toIntReturns, toInt
<1>7. ASSUME NEW v \in -max - 1 .. max
      PROVE  /\ toUintReturns(v) <=> v \in 0 .. 2 * max + 1
             /\ toUintReturns(v) => toUint(v, max) = v
  <2>1. toUintReturns(v) <=> v \in 0 .. 2 * max + 1
    BY <1>7 DEF toUintReturns
  <2>2. ASSUME toUintReturns(v) PROVE toUint(v, max) = v
    <3>1. /\ (2 * max + 1) + 1 \in Nat \ {0}
          /\ v \in 0 .. ((2 * max + 1) + 1) - 1
      BY <2>1, <2>2
    <3>2. v % ((2 * max + 1) + 1) = v
      BY <3>1, SmallRemainder
    <3>3. QED
      BY <3>2 DEF toUint, uint
  <2>3. QED
    BY <2>1, <2>2
<1>8. QED
  BY <1>4, <1>5, <1>6, <1>7

-----------------------------------------------------------------------------

IInv == TypeOK /\ KeysIncrease

\* The invariant holds at first.
LEMMA InitIInv == Init => IInv
  BY DEF Init, IInv, TypeOK, KeysIncrease, len

\* Whoever inserts a checkpoint that fits, with a key no smaller than the last,
\* keeps the list in order.
LEMMA InsertKeepsOrder ==
  ASSUME IInv, NEW key \in 0 .. MaxKey[historyType], NEW value \in 0 .. MaxValue[historyType],
         _insert(key, value)
  PROVE  /\ _checkpoints' \in Seq(Checkpoint)
         /\ \A i, j \in 1 .. len' : i < j => _checkpoints'[i]._key < _checkpoints'[j]._key
         /\ \A i \in 1 .. len' : \/ i \in 1 .. len /\ _checkpoints'[i]._key = _checkpoints[i]._key
                                 \/ _checkpoints'[i]._key = key
<1> DEFINE n == Len(_checkpoints)
           ckpt == [_key |-> key, _value |-> value]
<1>1. /\ _checkpoints \in Seq(Checkpoint) /\ n \in Nat
      /\ MaxKey[historyType] \in Nat
      /\ \A i \in 1 .. n : _checkpoints[i] \in Checkpoint
      /\ \A i, j \in 1 .. n : i < j => _checkpoints[i]._key < _checkpoints[j]._key
  <2>1. _checkpoints \in Seq(Checkpoint) /\ historyType \in HistoryTypes
    BY DEF IInv, TypeOK
  <2>2. n \in Nat /\ \A i \in 1 .. n : _checkpoints[i] \in Checkpoint
    BY <2>1
  <2>3. MaxKey[historyType] \in Nat
    BY <2>1, OptionsAssumption
  <2>4. \A i, j \in 1 .. n : i < j => _checkpoints[i]._key < _checkpoints[j]._key
    BY DEF IInv, KeysIncrease, len
  <2>5. QED
    BY <2>1, <2>2, <2>3, <2>4
<1>2. ckpt \in Checkpoint /\ ckpt._key = key
  BY DEF Checkpoint
<1>3. \A i \in 1 .. n : _checkpoints[i]._key \in Nat
  BY <1>1 DEF Checkpoint
<1>4. n > 0 => _checkpoints[n]._key <= key
  BY <1>1 DEF _insert, len, _unsafeAccess
<1>5. \/ n > 0 /\ _checkpoints[n]._key = key /\ _checkpoints' = [_checkpoints EXCEPT ![n] = ckpt]
      \/ ~ (n > 0 /\ _checkpoints[n]._key = key) /\ _checkpoints' = Append(_checkpoints, ckpt)
  BY <1>1 DEF _insert, len, _unsafeAccess
<1>6. len = n /\ len' = Len(_checkpoints')
  BY DEF len
<1> HIDE DEF ckpt
<1>7. CASE n > 0 /\ _checkpoints[n]._key = key /\ _checkpoints' = [_checkpoints EXCEPT ![n] = ckpt]
  <2>1. _checkpoints' \in Seq(Checkpoint) /\ Len(_checkpoints') = n
    BY <1>1, <1>2, <1>7
  <2>2. \A i \in 1 .. n : _checkpoints'[i]._key = _checkpoints[i]._key
    BY <1>1, <1>2, <1>7
  <2>3. QED
    BY <1>1, <1>6, <2>1, <2>2
<1>8. CASE /\ ~ (n > 0 /\ _checkpoints[n]._key = key)
           /\ _checkpoints' = Append(_checkpoints, ckpt)
  <2>1. _checkpoints' \in Seq(Checkpoint) /\ Len(_checkpoints') = n + 1
    BY <1>1, <1>2, <1>8
  <2>2. /\ \A i \in 1 .. n : _checkpoints'[i] = _checkpoints[i]
        /\ _checkpoints'[n + 1] = ckpt
    BY <1>1, <1>8
  <2>3. \A i \in 1 .. n : _checkpoints[i]._key < key
    <3>1. SUFFICES ASSUME NEW i \in 1 .. n PROVE _checkpoints[i]._key < key
      OBVIOUS
    <3>2. n \in 1 .. n /\ n > 0
      BY <1>1
    <3>3. _checkpoints[n]._key < key
      BY <1>3, <1>4, <1>8, <3>2
    <3>4. i = n \/ _checkpoints[i]._key < _checkpoints[n]._key
      BY <1>1, <3>2
    <3>5. QED
      BY <1>3, <3>2, <3>3, <3>4
  <2>4. ASSUME NEW i \in 1 .. n + 1, NEW j \in 1 .. n + 1, i < j
        PROVE  _checkpoints'[i]._key < _checkpoints'[j]._key
    <3>1. i \in 1 .. n
      BY <1>1, <2>4
    <3>2. CASE j = n + 1
      BY <1>2, <2>2, <2>3, <3>1, <3>2
    <3>3. CASE j # n + 1
      <4>1. j \in 1 .. n
        BY <1>1, <3>3
      <4>2. QED
        BY <1>1, <2>2, <2>4, <3>1, <4>1
    <3>4. QED
      BY <3>2, <3>3
  <2>5. ASSUME NEW i \in 1 .. n + 1
        PROVE  \/ i \in 1 .. n /\ _checkpoints'[i]._key = _checkpoints[i]._key
               \/ _checkpoints'[i]._key = key
    <3>1. CASE i = n + 1
      BY <1>2, <2>2, <3>1
    <3>2. CASE i # n + 1
      <4>1. i \in 1 .. n
        BY <1>1, <3>2
      <4>2. QED
        BY <2>2, <4>1
    <3>3. QED
      BY <3>1, <3>2
  <2>6. QED
    BY <1>6, <2>1, <2>4, <2>5
<1>9. QED
  BY <1>5, <1>7, <1>8

\* push of a History inserts at the block's own number.
LEMMA PushKeepsOrder ==
  ASSUME IInv, NEW value \in Nat, push(value)
  PROVE  IInv'
<1>1. /\ historyType = "History" /\ historyType' = historyType
      /\ blockNumber' = blockNumber /\ blockNumber \in Nat
      /\ MaxKey["History"] \in Nat /\ MaxValue["History"] \in Nat
  BY OptionsAssumption DEF push, _insert, IInv, TypeOK, HistoryTypes
<1>2. /\ blockNumber \in 0 .. MaxKey["History"] /\ value \in 0 .. MaxValue["History"]
      /\ toUintDownCast(blockNumber, MaxKey["History"]) = blockNumber
      /\ toUintDownCast(value, MaxValue["History"]) = value
  BY <1>1, CastsAreExact DEF push
<1>3. _insert(blockNumber, value)
  BY <1>2 DEF push
<1>4. /\ _checkpoints' \in Seq(Checkpoint)
      /\ \A i, j \in 1 .. len' : i < j => _checkpoints'[i]._key < _checkpoints'[j]._key
      /\ \A i \in 1 .. len' : \/ i \in 1 .. len /\ _checkpoints'[i]._key = _checkpoints[i]._key
                              \/ _checkpoints'[i]._key = blockNumber
  BY <1>1, <1>2, <1>3, InsertKeepsOrder
<1>5. \A i \in 1 .. len : _checkpoints[i]._key <= blockNumber
  BY <1>1 DEF IInv, KeysIncrease
<1>6. Checkpoint' = Checkpoint
  BY <1>1 DEF Checkpoint
<1>7. QED
  BY <1>1, <1>4, <1>5, <1>6 DEF IInv, TypeOK, KeysIncrease

\* Every step keeps it.
LEMMA NextIInv == IInv /\ [Next]_vars => IInv'
<1>1. SUFFICES ASSUME IInv, [Next]_vars PROVE IInv'
  OBVIOUS
<1>2. historyType \in HistoryTypes /\ blockNumber \in Nat
  BY <1>1 DEF IInv, TypeOK
<1>3. \A v \in Values[historyType] : v \in Nat
  BY <1>2, OptionsAssumption, MaxUintAssumption DEF Word
<1>4. ASSUME NEW value \in Values[historyType], NEW key \in Keys, Push(key, value)
      PROVE  IInv'
  <2>1. /\ key \in 0 .. MaxKey[historyType] /\ value \in 0 .. MaxValue[historyType]
        /\ historyType # "History" /\ historyType' = historyType
        /\ blockNumber' = blockNumber /\ _insert(key, value)
    BY <1>2, <1>3, <1>4, OptionsAssumption DEF Push, _insert
  <2>2. /\ _checkpoints' \in Seq(Checkpoint)
        /\ \A i, j \in 1 .. len' : i < j => _checkpoints'[i]._key < _checkpoints'[j]._key
    BY <1>1, <2>1, InsertKeepsOrder
  <2>3. Checkpoint' = Checkpoint
    BY <2>1 DEF Checkpoint
  <2>4. QED
    BY <1>2, <2>1, <2>2, <2>3 DEF IInv, TypeOK, KeysIncrease
<1>5. ASSUME NEW value \in Values[historyType], PushValue(value)
      PROVE  IInv'
  BY <1>1, <1>3, <1>5, PushKeepsOrder DEF PushValue
<1>6. ASSUME NEW value \in Values[historyType], PushOp(value)
      PROVE  IInv'
  BY <1>1, <1>6, MaxUintAssumption, PushKeepsOrder DEF PushOp, Fits, Word
<1>7. CASE Mine
  <2>1. /\ historyType = "History" /\ historyType' = historyType
        /\ _checkpoints' = _checkpoints /\ len' = len /\ Checkpoint' = Checkpoint
        /\ blockNumber' = IF blockNumber < MaxBlock THEN blockNumber + 1 ELSE MaxBlock
    BY <1>7 DEF Mine, len, Checkpoint
  <2>2. blockNumber' \in Nat /\ (blockNumber' >= blockNumber \/ blockNumber' = MaxBlock)
    BY <1>2, <2>1, OptionsAssumption, MaxUintAssumption DEF Word
  <2>3. \A i \in 1 .. len : _checkpoints[i]._key \in Nat /\ _checkpoints[i]._key <= blockNumber'
    <3>1. SUFFICES ASSUME NEW i \in 1 .. len
                   PROVE  _checkpoints[i]._key \in Nat /\ _checkpoints[i]._key <= blockNumber'
      OBVIOUS
    <3>2. MaxBlock = MaxKey["History"] + 1 /\ MaxKey["History"] \in Nat
      BY OptionsAssumption DEF HistoryTypes
    <3>3. _checkpoints[i] \in Checkpoint
      BY <1>1 DEF IInv, TypeOK, len
    <3>4. _checkpoints[i]._key \in 0 .. MaxKey["History"]
      BY <2>1, <3>3 DEF Checkpoint
    <3>5. _checkpoints[i]._key <= blockNumber
      BY <1>1, <2>1 DEF IInv, KeysIncrease
    <3>6. QED
      BY <1>2, <2>2, <3>2, <3>4, <3>5
  <2>4. QED
    BY <1>1, <2>1, <2>2, <2>3 DEF IInv, TypeOK, KeysIncrease
<1>8. CASE UNCHANGED vars
  <2>1. /\ historyType' = historyType /\ _checkpoints' = _checkpoints
        /\ blockNumber' = blockNumber /\ len' = len /\ Checkpoint' = Checkpoint
    BY <1>8 DEF vars, len, Checkpoint
  <2>2. QED
    BY <1>1, <2>1 DEF IInv, TypeOK, KeysIncrease
<1>9. QED
  BY <1>1, <1>4, <1>5, <1>6, <1>7, <1>8 DEF Next

\* It always holds.
LEMMA Invariance == Spec => []IInv
  BY InitIInv, NextIInv, PTL DEF Spec

\* Every checkpoint has a key and a value of its type.
THEOREM CheckpointsFit == Spec => []TypeOK
<1>1. IInv => TypeOK
  BY DEF IInv
<1>2. QED
  BY <1>1, Invariance, PTL

\* The keys of every history grow, whatever is pushed.
THEOREM KeysAlwaysIncrease == Spec => []KeysIncrease
<1>1. IInv => KeysIncrease
  BY DEF IInv
<1>2. QED
  BY <1>1, Invariance, PTL
-----------------------------------------------------------------------------
(* The search by halving *)

\* A set of natural numbers that is not empty has a smallest member.
LEMMA NaturalMinimum ==
  ASSUME NEW Bad \in SUBSET Nat, Bad # {}
  PROVE  \E n \in Bad : \A m \in Bad : n <= m
<1>1. IsWellFoundedOn(OpToRel(<, Nat), Nat)
  BY NatLessThanWellFounded
<1> DEFINE R == {ss \in Nat \X Nat : ss[1] < ss[2]}
<1>2. OpToRel(<, Nat) = R
  BY DEF OpToRel
<1>3. IsWellFoundedOn(R, Nat)
  BY <1>1, <1>2
<1> HIDE DEF R
<1>4. PICK n \in Bad : \A m \in Bad : <<m, n>> \notin R
  BY <1>3, WFMin
<1>5. \A m \in Bad : m \in Nat /\ n \in Nat /\ (<<m, n>> \in R <=> m < n)
  BY DEF R
<1>6. \A m \in Bad : n <= m
  <2> SUFFICES ASSUME NEW m \in Bad PROVE n <= m
    OBVIOUS
  <2>1. m \in Nat /\ n \in Nat /\ ~ (m < n)
    BY <1>4, <1>5
  <2>2. QED
    BY <2>1
<1>7. QED
  BY <1>6

\* What the search does with one range, given what it does with shorter ones, and a
\* table of all ranges that agrees with it.
SearchStep(f, beyond, l, h) ==
  LET mid == (l + h) \div 2
  IN  IF l >= h THEN h
      ELSE IF mid \in beyond THEN f[<<l, mid>>] ELSE f[<<mid + 1, h>>]

IsSearch(f, beyond, low, high) ==
  f = [range \in (low .. high) \X (low .. high) |->
         SearchStep(f, beyond, range[1], range[2])]

\* The search is an entry of such a table.
LEMMA FirstBeyondIsSearch == 
  ASSUME NEW beyond, NEW low, NEW high
  PROVE firstBeyond(beyond, low, high) = (CHOOSE f : IsSearch(f, beyond, low, high))[<<low, high>>]
  BY DEF firstBeyond, IsSearch, SearchStep

\* The positions from m on, and no others, are beyond.
Splits(beyond, low, high, m) ==
  /\ m \in low .. high
  /\ \A p \in low .. m - 1 : p \notin beyond
  /\ \A p \in m .. high - 1 : p \in beyond

\* The table of the split point clamped to the range is one that agrees, and the
\* only one: a shortest range on which another one differs would be halved into two
\* on which it does not.
LEMMA SearchFindsSplit ==
  ASSUME NEW beyond, NEW low \in Nat, NEW high \in Nat, low <= high,
         NEW m, Splits(beyond, low, high, m)
  PROVE firstBeyond(beyond, low, high) = m
<1> DEFINE D == low .. high
           clamp(l, h) == IF l >= h THEN h ELSE IF m <= l THEN l ELSE IF m <= h THEN m ELSE h
           g == [r \in D \X D |-> clamp(r[1], r[2])]
<1>0. D \subseteq Nat /\ m \in Nat
  BY DEF Splits
<1>1. ASSUME NEW l \in D, NEW h \in D, NEW mid, mid = (l + h) \div 2, l < h
      PROVE  /\ mid \in D /\ mid + 1 \in D
             /\ l <= mid /\ mid < h
             /\ mid \in beyond <=> mid >= m
    BY <1>1 DEF Splits
<1>2. \E f : IsSearch(f, beyond, low, high)
  <2>1. ASSUME NEW l \in D, NEW h \in D
        PROVE  g[<<l, h>>] = SearchStep(g, beyond, l, h)
    <3> DEFINE mid == (l + h) \div 2
    <3>1. CASE l >= h
      BY <3>1 DEF SearchStep
    <3>2. CASE l < h
      <4>1. /\ mid \in D /\ mid + 1 \in D /\ l <= mid /\ mid < h
            /\ mid \in beyond <=> mid >= m
        BY <1>1, <3>2
      <4>2. mid \in Nat /\ l \in Nat /\ h \in Nat
        BY <1>0, <4>1
      <4> HIDE DEF D, mid
      <4>3. /\ g[<<l, mid>>] = clamp(l, mid) /\ g[<<mid + 1, h>>] = clamp(mid + 1, h)
            /\ g[<<l, h>>] = clamp(l, h)
        BY <4>1
      <4> HIDE DEF g
      <4>4. QED
        BY <1>0, <3>2, <4>1, <4>2, <4>3 DEF SearchStep, mid
    <3>3. QED
      BY <1>0, <3>1, <3>2
  <2>2. g = [r \in D \X D |-> SearchStep(g, beyond, r[1], r[2])]
    <3> HIDE DEF clamp, D
    <3>1. ASSUME NEW r \in D \X D
          PROVE g[r] = SearchStep(g, beyond, r[1], r[2])
      <4>1. r[1] \in D /\ r[2] \in D /\ r = <<r[1], r[2]>>
        OBVIOUS
      <4> HIDE DEF g
      <4>2. g[<<r[1], r[2]>>] = SearchStep(g, beyond, r[1], r[2])
        BY <2>1, <4>1
      <4>3. QED
        BY <4>1, <4>2
    <3>2. QED
      BY <3>1
  <2>3. IsSearch(g, beyond, low, high)
    <3> HIDE DEF g
    <3>1. QED
      BY <2>2 DEF IsSearch
  <2>4. QED
    BY <2>3
<1> DEFINE f == CHOOSE f : IsSearch(f, beyond, low, high)
<1>3. IsSearch(f, beyond, low, high)
  BY <1>2
<1> HIDE DEF f
<1> DEFINE Bad == {n \in Nat : \E l, h \in D : n = h - l /\ f[<<l, h>>] # clamp(l, h)}
<1>4. Bad = {}
  <2> SUFFICES ASSUME Bad # {} PROVE FALSE
    OBVIOUS
  <2>1. PICK n \in Bad : \A k \in Bad : n <= k
    <3> HIDE DEF Bad
    <3>1. Bad \in SUBSET Nat
      BY DEF Bad
    <3>2. QED
      BY <3>1, NaturalMinimum
  <2>2. PICK l \in D, h \in D : n = h - l /\ f[<<l, h>>] # clamp(l, h)
    OBVIOUS
  <2> DEFINE mid == (l + h) \div 2
  <2>3. f[<<l, h>>] = IF l >= h THEN h
                      ELSE IF mid \in beyond THEN f[<<l, mid>>] ELSE f[<<mid + 1, h>>]
    <3>1. <<l, h>> \in D \X D
      OBVIOUS
    <3>2. f[<<l, h>>] = SearchStep(f, beyond, l, h)
      BY <1>3, <3>1 DEF IsSearch
    <3>3. QED
      BY <3>2 DEF SearchStep
  <2>4. l < h
    BY <1>0, <2>2, <2>3
  <2>5. /\ mid \in D /\ mid + 1 \in D /\ l <= mid /\ mid < h
        /\ mid \in beyond <=> mid >= m
    <3>1. mid = (l + h) \div 2
      OBVIOUS
    <3> HIDE DEF mid, D
    <3>2. QED
      BY <1>1, <2>4, <3>1
  <2> HIDE DEF mid
  <2>6. l \in Nat /\ h \in Nat /\ mid \in Nat
    BY <1>0, <2>5
  <2>7. f[<<l, mid>>] = clamp(l, mid) /\ f[<<mid + 1, h>>] = clamp(mid + 1, h)
    <3>1. mid - l \in Nat /\ mid - l < n /\ h - (mid + 1) \in Nat /\ h - (mid + 1) < n
      BY <2>2, <2>5, <2>6
    <3>2. mid - l \notin Bad /\ h - (mid + 1) \notin Bad
      <4> HIDE DEF Bad
      <4>1. n \in Nat
        BY DEF Bad
      <4>2. QED
        BY <2>1, <3>1, <4>1
    <3> HIDE DEF D, clamp
    <3>3. QED
      BY <2>5, <3>1, <3>2
  <2>8. QED
    BY <1>0, <2>2, <2>3, <2>4, <2>5, <2>6, <2>7
<1>5. f[<<low, high>>] = clamp(low, high)
  <2>1. low \in D /\ high \in D /\ high - low \in Nat
    OBVIOUS
  <2> HIDE DEF D, clamp
  <2>2. QED
    BY <1>4, <2>1
<1>6. clamp(low, high) = m
  BY DEF Splits
<1> QED
  BY <1>5, <1>6, FirstBeyondIsSearch DEF f

\* A set of positions that keeps every later one has a split point.
LEMMA SearchSplits ==
  ASSUME NEW beyond, NEW low \in Nat, NEW high \in Nat, low <= high,
         \A p, q \in low .. high - 1 : p <= q /\ p \in beyond => q \in beyond
  PROVE  Splits(beyond, low, high, firstBeyond(beyond, low, high))
<1> DEFINE Found == {p \in low .. high - 1 : p \in beyond}
<1>1. \E m : Splits(beyond, low, high, m)
  <2>1. CASE Found = {}
    <3>1. Splits(beyond, low, high, high)
      BY <2>1 DEF Splits
    <3>2. QED
      BY <3>1
  <2>2. CASE Found # {}
    <3>1. Found \in SUBSET Nat
      OBVIOUS
    <3>2. PICK m \in Found : \A p \in Found : m <= p
      <4> HIDE DEF Found
      <4>1. QED
        BY <2>2, <3>1, NaturalMinimum
    <3>3. m \in low .. high - 1 /\ m \in beyond
      OBVIOUS
    <3>4. \A p \in low .. m - 1 : p \notin beyond
      <4> SUFFICES ASSUME NEW p \in low .. m - 1, p \in beyond PROVE FALSE
        OBVIOUS
      <4>1. p \in low .. high - 1 /\ p < m
        BY <3>3
      <4>2. QED
        BY <3>2, <3>3, <4>1
    <3>5. \A p \in m .. high - 1 : p \in beyond
      BY <3>3
    <3>6. Splits(beyond, low, high, m)
      BY <3>3, <3>4, <3>5 DEF Splits
    <3>7. QED
      BY <3>6
  <2>3. QED
    BY <2>1, <2>2
<1>2. PICK m : Splits(beyond, low, high, m)
  BY <1>1
<1>3. firstBeyond(beyond, low, high) = m
  BY <1>2, SearchFindsSplit
<1>4. QED
  BY <1>2, <1>3

-----------------------------------------------------------------------------
(* The lookups *)

\* What the invariant says of single checkpoints.
LEMMA Ordered ==
  ASSUME IInv
  PROVE  /\ len \in Nat /\ historyType \in HistoryTypes
         /\ \A i \in 1 .. len : /\ _checkpoints[i]._key \in Nat
                                /\ _checkpoints[i]._value \in Nat
                                /\ _checkpoints[i] \in Checkpoint
         /\ \A i, j \in 1 .. len : i <= j => _checkpoints[i]._key <= _checkpoints[j]._key
<1>1. /\ len \in Nat /\ historyType \in HistoryTypes
      /\ MaxKey[historyType] \in Nat /\ MaxValue[historyType] \in Nat
      /\ \A i \in 1 .. len : _checkpoints[i] \in Checkpoint
  <2>1. _checkpoints \in Seq(Checkpoint) /\ historyType \in HistoryTypes
    BY DEF IInv, TypeOK
  <2>2. len \in Nat /\ \A i \in 1 .. len : _checkpoints[i] \in Checkpoint
    BY <2>1 DEF len
  <2>3. QED
    BY <2>1, <2>2, OptionsAssumption
<1>2. ASSUME NEW i \in 1 .. len
      PROVE  /\ _checkpoints[i]._key \in Nat /\ _checkpoints[i]._value \in Nat
             /\ _checkpoints[i] \in Checkpoint
  BY <1>1 DEF Checkpoint
<1>3. ASSUME NEW i \in 1 .. len, NEW j \in 1 .. len, i <= j
      PROVE  _checkpoints[i]._key <= _checkpoints[j]._key
  <2>1. CASE i = j
    BY <1>2, <2>1
  <2>2. CASE i # j
    <3>1. i < j
      BY <1>3, <2>2
    <3>2. _checkpoints[i]._key < _checkpoints[j]._key
      BY <3>1 DEF IInv, KeysIncrease
    <3>3. QED
      BY <1>2, <3>2
  <2>3. QED
    BY <2>1, <2>2
<1>4. QED
  BY <1>1, <1>2, <1>3

\* The first m checkpoints, and no others, are at the key or before it.
upTo(checkpoints, key, m) ==
  /\ m \in 0 .. Len(checkpoints)
  /\ \A i \in 1 .. m : checkpoints[i]._key <= key
  /\ \A i \in m + 1 .. Len(checkpoints) : checkpoints[i]._key > key

\* There is one such m only.
LEMMA UpToIsUnique ==
  ASSUME IInv, NEW key \in Nat, NEW m, NEW n,
         upTo(_checkpoints, key, m), upTo(_checkpoints, key, n)
  PROVE  m = n
<1>1. /\ m \in 0 .. len /\ n \in 0 .. len /\ len \in Nat
      /\ \A i \in 1 .. len : _checkpoints[i]._key \in Nat
  BY Ordered DEF upTo, len
<1>2. ASSUME m < n PROVE FALSE
  <2>1. n \in m + 1 .. len /\ n \in 1 .. n /\ n \in 1 .. len
    BY <1>1, <1>2
  <2>2. _checkpoints[n]._key > key /\ _checkpoints[n]._key <= key
    BY <2>1 DEF upTo, len
  <2>3. QED
    BY <1>1, <2>1, <2>2
<1>3. ASSUME n < m PROVE FALSE
  <2>1. m \in n + 1 .. len /\ m \in 1 .. m /\ m \in 1 .. len
    BY <1>1, <1>3
  <2>2. _checkpoints[m]._key > key /\ _checkpoints[m]._key <= key
    BY <2>1 DEF upTo, len
  <2>3. QED
    BY <1>1, <2>1, <2>2
<1>4. QED
  BY <1>1, <1>2, <1>3

\* The search within a part of the list, when what is left out before the part is
\* not after the key and what is left out behind it is.
LEMMA UpperSearch ==
  ASSUME IInv, NEW key \in Nat, NEW low \in 0 .. len, NEW high \in 0 .. len, low <= high,
         \A i \in 1 .. low : _checkpoints[i]._key <= key,
         \A i \in high + 1 .. len : _checkpoints[i]._key > key
  PROVE  upTo(_checkpoints, key, _upperBinaryLookup(key, low, high))
<1> DEFINE beyond == {pos \in low .. high - 1 : _unsafeAccess(pos)._key > key}
           m == firstBeyond(beyond, low, high)
<1>1. /\ len \in Nat /\ low \in Nat /\ high \in Nat
      /\ \A i \in 1 .. len : _checkpoints[i]._key \in Nat
      /\ \A i, j \in 1 .. len : i <= j => _checkpoints[i]._key <= _checkpoints[j]._key
  BY Ordered
<1>2. ASSUME NEW p \in low .. high - 1, NEW q \in low .. high - 1, p <= q, p \in beyond
      PROVE  q \in beyond
  <2>1. p + 1 \in 1 .. len /\ q + 1 \in 1 .. len /\ p + 1 <= q + 1
    BY <1>1, <1>2
  <2>2. _checkpoints[p + 1]._key > key
    BY <1>2 DEF _unsafeAccess
  <2>3. _checkpoints[q + 1]._key > key
    BY <1>1, <2>1, <2>2
  <2>4. QED
    BY <2>3 DEF _unsafeAccess
<1>3. Splits(beyond, low, high, m)
  <2> HIDE DEF beyond
  <2>1. QED
    BY <1>1, <1>2, SearchSplits
<1>4. m \in low .. high /\ m \in Nat
  BY <1>1, <1>3 DEF Splits
<1>5. /\ \A p \in low .. m - 1 : p \notin beyond
      /\ \A p \in m .. high - 1 : p \in beyond
  BY <1>3 DEF Splits
<1>6. m = _upperBinaryLookup(key, low, high)
  BY DEF _upperBinaryLookup
<1> HIDE DEF m
<1>7. ASSUME NEW i \in 1 .. m PROVE _checkpoints[i]._key <= key
  <2>1. CASE i \in 1 .. low
    BY <2>1
  <2>2. CASE i \notin 1 .. low
    <3>1. i - 1 \in low .. m - 1 /\ i - 1 \in low .. high - 1 /\ i \in 1 .. len
      BY <1>1, <1>4, <2>2
    <3>2. ~ (_checkpoints[(i - 1) + 1]._key > key)
      BY <1>5, <3>1 DEF _unsafeAccess
    <3>3. (i - 1) + 1 = i
      BY <3>1
    <3>4. QED
      BY <1>1, <3>1, <3>2, <3>3
  <2>3. QED
    BY <2>1, <2>2
<1>8. ASSUME NEW i \in m + 1 .. len PROVE _checkpoints[i]._key > key
  <2>1. CASE i \in high + 1 .. len
    BY <2>1
  <2>2. CASE i \notin high + 1 .. len
    <3>1. i - 1 \in m .. high - 1 /\ (i - 1) + 1 = i
      BY <1>1, <1>4, <2>2
    <3>2. _checkpoints[(i - 1) + 1]._key > key
      BY <1>5, <3>1 DEF _unsafeAccess
    <3>3. QED
      BY <3>1, <3>2
  <2>3. QED
    BY <2>1, <2>2
<1>9. QED
  BY <1>1, <1>4, <1>6, <1>7, <1>8 DEF upTo, len

\* The search of the whole list finds the last checkpoint at the key or before it.
LEMMA UpperLookupSplits ==
  IInv => \A key \in Nat : upTo(_checkpoints, key, _upperBinaryLookup(key, 0, len))
<1> SUFFICES ASSUME IInv, NEW key \in Nat
             PROVE  upTo(_checkpoints, key, _upperBinaryLookup(key, 0, len))
  OBVIOUS
<1>1. len \in Nat
  BY Ordered
<1>2. /\ 0 \in 0 .. len /\ len \in 0 .. len /\ 0 <= len
      /\ 1 .. 0 = {} /\ len + 1 .. len = {}
  BY <1>1
<1>3. QED
  BY <1>2, UpperSearch

\* lowerLookup finds the first checkpoint at the key or after it.
LEMMA LowerLookupIsNext ==
  ASSUME IInv, NEW key \in Nat
  PROVE  LET later == {i \in 1 .. len : _checkpoints[i]._key >= key}
         IN  \/ later = {} /\ lowerLookup(key) = 0
             \/ \E i \in later : /\ \A j \in later : i <= j
                                 /\ lowerLookup(key) = _checkpoints[i]._value
<1> DEFINE beyond == {pos \in 0 .. len - 1 : ~ (_unsafeAccess(pos)._key < key)}
           later == {i \in 1 .. len : _checkpoints[i]._key >= key}
           m == firstBeyond(beyond, 0, len)
<1>1. /\ len \in Nat
      /\ \A i \in 1 .. len : _checkpoints[i]._key \in Nat
      /\ \A i, j \in 1 .. len : i <= j => _checkpoints[i]._key <= _checkpoints[j]._key
  BY Ordered
<1>2. ASSUME NEW p \in 0 .. len - 1, NEW q \in 0 .. len - 1, p <= q, p \in beyond
      PROVE  q \in beyond
  <2>1. p + 1 \in 1 .. len /\ q + 1 \in 1 .. len /\ p + 1 <= q + 1
    BY <1>1, <1>2
  <2>2. ~ (_checkpoints[p + 1]._key < key)
    BY <1>2 DEF _unsafeAccess
  <2>3. ~ (_checkpoints[q + 1]._key < key)
    BY <1>1, <2>1, <2>2
  <2>4. QED
    BY <2>3 DEF _unsafeAccess
<1>3. Splits(beyond, 0, len, m)
  <2> HIDE DEF beyond
  <2>1. QED
    BY <1>1, <1>2, SearchSplits
<1>4. /\ m \in 0 .. len
      /\ \A p \in 0 .. m - 1 : p \notin beyond
      /\ \A p \in m .. len - 1 : p \in beyond
  BY <1>3 DEF Splits
<1>5. m = _lowerBinaryLookup(key, 0, len)
  BY DEF _lowerBinaryLookup
<1> HIDE DEF m
<1>6. ASSUME NEW j \in later PROVE m + 1 <= j
  <2>1. j \in 1 .. len /\ ~ (_checkpoints[j]._key < key)
    BY <1>1
  <2>2. j - 1 \in 0 .. len - 1 /\ (j - 1) + 1 = j
    BY <1>1, <2>1
  <2>3. j - 1 \in beyond
    BY <2>1, <2>2 DEF _unsafeAccess
  <2>4. ~ (j - 1 \in 0 .. m - 1)
    BY <1>4, <2>3
  <2>5. QED
    BY <1>1, <1>4, <2>1, <2>4
<1>7. CASE m = len
  <2>1. later = {}
    BY <1>1, <1>6, <1>7
  <2>2. lowerLookup(key) = 0
    BY <1>5, <1>7 DEF lowerLookup
  <2>3. QED
    BY <2>1, <2>2
<1>8. CASE m # len
  <2>1. m \in m .. len - 1 /\ m + 1 \in 1 .. len
    BY <1>1, <1>4, <1>8
  <2>2. ~ (_checkpoints[m + 1]._key < key)
    BY <1>4, <2>1 DEF _unsafeAccess
  <2>3. m + 1 \in later
    BY <1>1, <2>1, <2>2
  <2>4. lowerLookup(key) = _checkpoints[m + 1]._value
    BY <1>5, <1>8 DEF lowerLookup, _unsafeAccess
  <2> HIDE DEF later
  <2>5. QED
    BY <1>6, <2>3, <2>4 DEF later
<1>9. QED
  BY <1>7, <1>8

\* lowerLookup finds the next checkpoint, for every key and every list.
THEOREM LowerLookupAlwaysFindsNext == Spec => []LowerLookupFindsNext
<1>1. IInv => LowerLookupFindsNext
  <2> SUFFICES ASSUME IInv PROVE LowerLookupFindsNext
    OBVIOUS
  <2>1. \A key \in 0 .. MaxKey[historyType] : key \in Nat
    OBVIOUS
  <2>2. QED
    BY <2>1, LowerLookupIsNext DEF LowerLookupFindsNext
<1>2. QED
  BY <1>1, Invariance, PTL

\* The root of a number from one on is at least one and at most the number.
LEMMA RootRange ==
  ASSUME NEW n \in Nat \ {0}
  PROVE  sqrt(n) \in 1 .. n
<1> DEFINE Above == {r \in Nat : n < (r + 1) * (r + 1)}
<1>1. n \in Above
  <2>1. (n + 1) * (n + 1) = n * n + 2 * n + 1 /\ n * n \in Nat
    OBVIOUS
  <2>2. n < (n + 1) * (n + 1)
    BY <2>1
  <2>3. QED
    BY <2>2
<1>2. PICK r \in Above : \A q \in Above : r <= q
  <2>1. Above \in SUBSET Nat /\ Above # {}
    BY <1>1
  <2> HIDE DEF Above
  <2>2. QED
    BY <2>1, NaturalMinimum
<1>3. r \in Nat /\ n < (r + 1) * (r + 1) /\ r <= n
  BY <1>1, <1>2
<1>4. r # 0
  BY <1>3
<1>5. r * r <= n
  <2>1. r - 1 \in Nat /\ r - 1 \notin Above
    BY <1>2, <1>3, <1>4
  <2>2. ~ (n < ((r - 1) + 1) * ((r - 1) + 1))
    BY <2>1
  <2>3. (r - 1) + 1 = r /\ r * r \in Nat
    BY <1>3
  <2>4. QED
    BY <2>2, <2>3
<1>6. \E q \in 0 .. n : q * q <= n /\ n < (q + 1) * (q + 1)
  BY <1>3, <1>5
<1>7. sqrt(n) \in 0 .. n /\ n < (sqrt(n) + 1) * (sqrt(n) + 1)
  BY <1>6 DEF sqrt
<1>8. sqrt(n) # 0
  BY <1>7
<1>9. QED
  BY <1>7, <1>8

\* Wherever the search of the recent part cuts the list, it finds the same.
LEMMA RecentSearchAgrees ==
  ASSUME IInv, NEW number \in Nat, number <= MaxKey["History"]
  PROVE  getAtProbablyRecentBlock(number) = getAtBlock(number)
<1> DEFINE mid == len - sqrt(len)
           m == _upperBinaryLookup(number, 0, len)
<1>1. /\ len \in Nat /\ \A i \in 1 .. len : _checkpoints[i]._key \in Nat
      /\ \A i, j \in 1 .. len : i <= j => _checkpoints[i]._key <= _checkpoints[j]._key
  BY Ordered
<1>2. toUintDownCast(number, MaxKey["History"]) = number
  BY CastsAreExact, OptionsAssumption DEF toUintDownCastReturns, HistoryTypes
<1>3. upTo(_checkpoints, number, m)
  BY UpperLookupSplits
<1>4. getAtBlock(number) = valueBefore(m)
  BY <1>2 DEF getAtBlock, upperLookup
<1> HIDE DEF m
<1>5. CASE len <= 5
  <2>1. ~ (len > 5)
    BY <1>1, <1>5
  <2>2. getAtProbablyRecentBlock(number) = valueBefore(_upperBinaryLookup(number, 0, len))
    BY <1>2, <2>1 DEF getAtProbablyRecentBlock
  <2>3. QED
    BY <1>4, <2>2 DEF m
<1>6. CASE len > 5
  <2>1. mid \in 0 .. len - 1 /\ mid + 1 \in 1 .. len
    <3>1. len \in Nat \ {0}
      BY <1>1, <1>6
    <3>2. sqrt(len) \in 1 .. len
      BY <3>1, RootRange
    <3>3. QED
      BY <1>1, <3>2
  <2>2. getAtProbablyRecentBlock(number)
          = valueBefore(IF number < _checkpoints[mid + 1]._key
                        THEN _upperBinaryLookup(number, 0, mid)
                        ELSE _upperBinaryLookup(number, mid + 1, len))
    BY <1>2, <1>6 DEF getAtProbablyRecentBlock, _unsafeAccess
  <2> HIDE DEF mid
  <2>3. CASE number < _checkpoints[mid + 1]._key
    <3>1. \A i \in mid + 1 .. len : _checkpoints[i]._key > number
      <4> SUFFICES ASSUME NEW i \in mid + 1 .. len PROVE _checkpoints[i]._key > number
        OBVIOUS
      <4>1. i \in 1 .. len /\ mid + 1 <= i
        BY <1>1, <2>1
      <4>2. _checkpoints[mid + 1]._key <= _checkpoints[i]._key
        BY <1>1, <2>1, <4>1
      <4>3. QED
        BY <1>1, <2>1, <2>3, <4>1, <4>2
    <3>2. 0 \in 0 .. len /\ mid \in 0 .. len /\ 0 <= mid /\ 1 .. 0 = {}
      BY <1>1, <2>1
    <3>3. upTo(_checkpoints, number, _upperBinaryLookup(number, 0, mid))
      BY <3>1, <3>2, UpperSearch
    <3>4. QED
      BY <1>3, <1>4, <2>2, <2>3, <3>3, UpToIsUnique
  <2>4. CASE ~ (number < _checkpoints[mid + 1]._key)
    <3>1. \A i \in 1 .. mid + 1 : _checkpoints[i]._key <= number
      <4> SUFFICES ASSUME NEW i \in 1 .. mid + 1 PROVE _checkpoints[i]._key <= number
        OBVIOUS
      <4>1. i \in 1 .. len /\ i <= mid + 1
        BY <1>1, <2>1
      <4>2. _checkpoints[i]._key <= _checkpoints[mid + 1]._key
        BY <1>1, <2>1, <4>1
      <4>3. QED
        BY <1>1, <2>1, <2>4, <4>1, <4>2
    <3>2. mid + 1 \in 0 .. len /\ len \in 0 .. len /\ mid + 1 <= len /\ len + 1 .. len = {}
      BY <1>1, <2>1
    <3>3. upTo(_checkpoints, number, _upperBinaryLookup(number, mid + 1, len))
      BY <3>1, <3>2, UpperSearch
    <3>4. QED
      BY <1>3, <1>4, <2>2, <2>4, <3>3, UpToIsUnique
  <2>5. QED
    BY <2>3, <2>4
<1>7. QED
  BY <1>1, <1>5, <1>6

\* The search that starts with recent checkpoints finds what the plain one does,
\* for lists of any length.
THEOREM RecentLookupAlwaysAgrees == Spec => []RecentLookupAgrees
<1>1. IInv => RecentLookupAgrees
  <2> SUFFICES ASSUME IInv, NEW number \in 0 .. MaxBlock, getAtBlockReturns(number)
               PROVE  getAtProbablyRecentBlock(number) = getAtBlock(number)
    BY DEF RecentLookupAgrees
  <2>1. number \in Nat /\ number <= MaxKey["History"]
    BY DEF getAtBlockReturns, toUintDownCastReturns
  <2>2. QED
    BY <2>1, RecentSearchAgrees
<1>2. QED
  BY <1>1, Invariance, PTL

-----------------------------------------------------------------------------
(* What a push changes *)

\* After an insertion the new checkpoint is the last one; those before it are the
\* old ones with smaller keys, and what it replaces, if anything, had its key.
LEMMA InsertShape ==
  ASSUME IInv, NEW key \in Nat, NEW value, _insert(key, value)
  PROVE  /\ len' \in Nat \ {0}
         /\ _checkpoints'[len'] = [_key |-> key, _value |-> value]
         /\ \A i \in 1 .. len' - 1 : /\ i \in 1 .. len
                                     /\ _checkpoints'[i] = _checkpoints[i]
                                     /\ _checkpoints[i]._key < key
         /\ \A i \in len' .. len : _checkpoints[i]._key = key
<1> DEFINE n == Len(_checkpoints)
           ckpt == [_key |-> key, _value |-> value]
<1>1. /\ n \in Nat /\ n = len /\ len' = Len(_checkpoints')
      /\ _checkpoints \in Seq(Checkpoint)
      /\ \A i \in 1 .. n : _checkpoints[i]._key \in Nat
      /\ \A i, j \in 1 .. n : i < j => _checkpoints[i]._key < _checkpoints[j]._key
      /\ n > 0 => _checkpoints[n]._key <= key
  <2>1. n > 0 => _checkpoints[n]._key <= key
    <3>1. n \in Nat
      BY Ordered DEF len
    <3>2. QED
      BY <3>1 DEF _insert, len, _unsafeAccess
  <2>2. QED
    BY <2>1, Ordered DEF len, IInv, TypeOK, KeysIncrease
<1>2. \/ n > 0 /\ _checkpoints[n]._key = key /\ _checkpoints' = [_checkpoints EXCEPT ![n] = ckpt]
      \/ ~ (n > 0 /\ _checkpoints[n]._key = key) /\ _checkpoints' = Append(_checkpoints, ckpt)
  BY <1>1 DEF _insert, len, _unsafeAccess
<1> HIDE DEF ckpt, n
<1>3. CASE n > 0 /\ _checkpoints[n]._key = key /\ _checkpoints' = [_checkpoints EXCEPT ![n] = ckpt]
  <2>1. /\ Len(_checkpoints') = n /\ _checkpoints'[n] = ckpt
        /\ \A i \in 1 .. n - 1 : _checkpoints'[i] = _checkpoints[i]
    BY <1>1, <1>3 DEF n
  <2>2. QED
    BY <1>1, <1>3, <2>1 DEF ckpt
<1>4. CASE /\ ~ (n > 0 /\ _checkpoints[n]._key = key)
           /\ _checkpoints' = Append(_checkpoints, ckpt)
  <2>1. /\ Len(_checkpoints') = n + 1 /\ _checkpoints'[n + 1] = ckpt
        /\ \A i \in 1 .. n : _checkpoints'[i] = _checkpoints[i]
    BY <1>1, <1>4 DEF n
  <2>2. ASSUME NEW i \in 1 .. n PROVE _checkpoints[i]._key < key
    <3>1. n > 0 /\ n \in 1 .. n /\ _checkpoints[n]._key < key
      BY <1>1, <1>4
    <3>2. i = n \/ _checkpoints[i]._key < _checkpoints[n]._key
      BY <1>1, <3>1
    <3>3. QED
      BY <1>1, <3>1, <3>2
  <2>3. QED
    BY <1>1, <2>1, <2>2 DEF ckpt
<1>5. QED
  BY <1>2, <1>3, <1>4

\* What upperLookup answers: the value of the last checkpoint at the key or before.
LEMMA UpperLookupIs ==
  IInv => \A k \in Nat, m \in Nat :
            upTo(_checkpoints, k, m) =>
              upperLookup(k) = IF m = 0 THEN 0 ELSE _checkpoints[m]._value
<1> SUFFICES ASSUME IInv, NEW key \in Nat, NEW m \in Nat, upTo(_checkpoints, key, m)
             PROVE  upperLookup(key) = IF m = 0 THEN 0 ELSE _checkpoints[m]._value
  OBVIOUS
<1>1. _upperBinaryLookup(key, 0, len) = m
  BY UpperLookupSplits, UpToIsUnique
<1>2. m # 0 => (m - 1) + 1 = m
  OBVIOUS
<1>3. QED
  BY <1>1, <1>2 DEF upperLookup, valueBefore, _unsafeAccess

\* An insertion is what the lookups show from its key on, and leaves them as they
\* were before it.  What was latest is what they showed at the key.
LEMMA InsertIsShown ==
  ASSUME IInv, IInv', NEW key \in Nat, NEW value, _insert(key, value)
  PROVE  /\ \A k \in Nat : upperLookup(k)' = IF k >= key THEN value ELSE upperLookup(k)
         /\ latest = upperLookup(key)
         /\ latestCheckpoint' = <<TRUE, key, value>>
<1> DEFINE n == len'
<1>1. /\ n \in Nat \ {0}
      /\ _checkpoints'[n] = [_key |-> key, _value |-> value]
      /\ \A i \in 1 .. n - 1 : /\ i \in 1 .. len
                               /\ _checkpoints'[i] = _checkpoints[i]
                               /\ _checkpoints[i]._key < key
      /\ \A i \in n .. len : _checkpoints[i]._key = key
  BY InsertShape
<1>2. len \in Nat /\ len = Len(_checkpoints) /\ n = Len(_checkpoints')
      /\ \A i \in 1 .. len : _checkpoints[i]._key \in Nat
  BY Ordered DEF len
<1>3. \A k, m \in Nat :
        upTo(_checkpoints', k, m) =>
          upperLookup(k)' = IF m = 0 THEN 0 ELSE _checkpoints'[m]._value
  <2>1. (IInv => \A k \in Nat, m \in Nat :
                   upTo(_checkpoints, k, m) =>
                     upperLookup(k) = IF m = 0 THEN 0 ELSE _checkpoints[m]._value)'
    BY UpperLookupIs, PTL
  <2>2. QED
    BY <2>1
<1>4. latestCheckpoint' = <<TRUE, key, value>>
  <2>1. (n - 1) + 1 = n /\ n # 0
    <3>1. n \in Nat \ {0}
      BY <1>1
    <3> HIDE DEF n
    <3>2. QED
      BY <3>1
  <2>2. latestCheckpoint'
          = <<TRUE, _unsafeAccess(len - 1)'._key, _unsafeAccess(len - 1)'._value>>
    BY <2>1 DEF latestCheckpoint
  <2>3. _unsafeAccess(len - 1)' = _checkpoints'[n]
    BY <2>1 DEF _unsafeAccess
  <2> HIDE DEF n
  <2>4. _checkpoints'[n]._key = key /\ _checkpoints'[n]._value = value
    BY <1>1
  <2>5. QED
    BY <2>2, <2>3, <2>4
<1>5. latest = upperLookup(key)
  <2>1. \A i \in 1 .. len : _checkpoints[i]._key <= key
    BY <1>1, <1>2
  <2>2. upTo(_checkpoints, key, len)
    BY <1>2, <2>1 DEF upTo
  <2>3. upperLookup(key) = IF len = 0 THEN 0 ELSE _checkpoints[len]._value
    BY <1>2, <2>2, UpperLookupIs
  <2>4. len # 0 => (len - 1) + 1 = len
    BY <1>2
  <2>5. QED
    BY <2>3, <2>4 DEF latest, valueBefore, _unsafeAccess
<1> HIDE DEF n
<1>6. ASSUME NEW k \in Nat, k >= key PROVE upperLookup(k)' = value
  <2>1. \A i \in 1 .. n : _checkpoints'[i]._key <= k
    <3> SUFFICES ASSUME NEW i \in 1 .. n PROVE _checkpoints'[i]._key <= k
      OBVIOUS
    <3>1. CASE i = n
      BY <1>1, <1>6, <3>1
    <3>2. CASE i # n
      <4>1. i \in 1 .. n - 1
        BY <1>1, <3>2
      <4>2. _checkpoints'[i]._key \in Nat /\ _checkpoints'[i]._key < key
        BY <1>1, <1>2, <4>1
      <4>3. QED
        BY <1>6, <4>2
    <3>3. QED
      BY <3>1, <3>2
  <2>2. n \in Nat /\ upTo(_checkpoints', k, n)
    BY <1>1, <1>2, <2>1 DEF upTo
  <2>3. QED
    BY <1>1, <1>3, <2>2
<1>7. ASSUME NEW k \in Nat, ~ (k >= key) PROVE upperLookup(k)' = upperLookup(k)
  <2>1. PICK m \in 0 .. len : upTo(_checkpoints, k, m)
    BY <1>2, UpperLookupSplits DEF upTo
  <2>2. m \in Nat /\ m < n
    <3> SUFFICES ASSUME m >= n PROVE FALSE
      BY <1>1, <1>2, <2>1
    <3>1. m \in n .. len /\ m \in 1 .. m
      BY <1>1, <1>2, <2>1
    <3>2. _checkpoints[m]._key = key /\ _checkpoints[m]._key <= k
      BY <1>1, <2>1, <3>1 DEF upTo
    <3>3. QED
      BY <1>7, <3>2
  <2>3. upTo(_checkpoints', k, m)
    <3>1. \A i \in 1 .. m : _checkpoints'[i]._key <= k
      <4> SUFFICES ASSUME NEW i \in 1 .. m PROVE _checkpoints'[i]._key <= k
        OBVIOUS
      <4>1. i \in 1 .. n - 1
        BY <1>1, <2>2
      <4>2. QED
        BY <1>1, <2>1, <4>1 DEF upTo
    <3>2. \A i \in m + 1 .. n : _checkpoints'[i]._key > k
      <4> SUFFICES ASSUME NEW i \in m + 1 .. n PROVE _checkpoints'[i]._key > k
        OBVIOUS
      <4>1. CASE i = n
        BY <1>1, <1>7, <4>1
      <4>2. CASE i # n
        <5>1. i \in 1 .. n - 1
          BY <1>1, <2>2, <4>2
        <5>2. i \in m + 1 .. len /\ _checkpoints'[i] = _checkpoints[i]
          BY <1>1, <1>2, <2>2, <5>1
        <5>3. QED
          BY <1>2, <2>1, <5>2 DEF upTo
      <4>3. QED
        BY <4>1, <4>2
    <3>3. QED
      BY <1>1, <1>2, <2>2, <3>1, <3>2 DEF upTo
  <2>4. upperLookup(k)' = IF m = 0 THEN 0 ELSE _checkpoints'[m]._value
    BY <1>3, <2>2, <2>3
  <2>5. upperLookup(k) = IF m = 0 THEN 0 ELSE _checkpoints[m]._value
    BY <2>1, <2>2, UpperLookupIs
  <2>6. m # 0 => _checkpoints'[m] = _checkpoints[m]
    BY <1>1, <2>2
  <2>7. QED
    BY <2>4, <2>5, <2>6
<1>8. QED
  BY <1>4, <1>5, <1>6, <1>7

\* Every step inserts a value, in a History at the current block, or lets blocks pass.
LEMMA StepInserts ==
  ASSUME IInv, Next
  PROVE  \/ \E key \in Keys \cup 0 .. MaxBlock, value \in Word :
              /\ key \in Nat /\ _insert(key, value)
              /\ historyType = "History" => key = blockNumber
              /\ blockNumber' = blockNumber
         \/ Mine
<1>1. /\ Values[historyType] \subseteq Word /\ Keys \subseteq Nat
      /\ historyType \in HistoryTypes /\ blockNumber \in Nat /\ MaxBlock \in Nat
      /\ MaxKey["History"] \in Nat /\ MaxValue["History"] \in Nat
      /\ MaxBlock = MaxKey["History"] + 1
  BY SMTT(30), OptionsAssumption DEF IInv, TypeOK, HistoryTypes
<1>2. ASSUME NEW value \in Values[historyType], NEW key \in Keys, Push(key, value)
      PROVE  \E k \in Keys \cup 0 .. MaxBlock, v \in Word :
               /\ k \in Nat /\ _insert(k, v)
               /\ historyType = "History" => k = blockNumber
               /\ blockNumber' = blockNumber
  <2>1. /\ key \in Nat /\ value \in Word /\ key \in Keys \cup 0 .. MaxBlock
        /\ historyType # "History" /\ _insert(key, value) /\ blockNumber' = blockNumber
    BY <1>1, <1>2 DEF Push
  <2>2. QED
    BY <2>1
<1>3. ASSUME NEW value \in Word, push(value)
      PROVE  \E k \in Keys \cup 0 .. MaxBlock, v \in Word :
               /\ k \in Nat /\ _insert(k, v)
               /\ historyType = "History" => k = blockNumber
               /\ blockNumber' = blockNumber
  <2>1. value \in Nat
    BY MaxUintAssumption DEF Word
  <2>2. /\ blockNumber \in 0 .. MaxKey["History"]
        /\ toUintDownCast(blockNumber, MaxKey["History"]) = blockNumber
        /\ toUintDownCast(value, MaxValue["History"]) = value
    BY <1>1, <1>3, <2>1, CastsAreExact DEF push
  <2>3. _insert(blockNumber, value) /\ blockNumber' = blockNumber
    BY <1>3, <2>2 DEF push
  <2>4. blockNumber \in Keys \cup 0 .. MaxBlock
    BY <1>1, <2>2
  <2>5. QED
    BY <1>1, <2>3, <2>4
<1>4. ASSUME NEW value \in Values[historyType], PushOp(value)
      PROVE  \E v \in Word : push(v)
  BY <1>4 DEF PushOp, Fits
<1>5. QED
  BY <1>1, <1>2, <1>3, <1>4 DEF Next, PushValue

\* As long as blocks pass, and in steps that change nothing, the lookups show the same.
LEMMA SameLookups ==
  ASSUME _checkpoints' = _checkpoints
  PROVE  /\ \A k : upperLookup(k)' = upperLookup(k)
         /\ latestCheckpoint' = latestCheckpoint
<1>1. len' = len
  BY DEF len
<1>2. \A pos : _unsafeAccess(pos)' = _unsafeAccess(pos)
  BY DEF _unsafeAccess
<1>3. \A k : _upperBinaryLookup(k, 0, len)' = _upperBinaryLookup(k, 0, len)
  BY <1>1 DEF _upperBinaryLookup, _unsafeAccess
<1>4. QED
  BY <1>1, <1>2, <1>3 DEF upperLookup, valueBefore, _unsafeAccess, latestCheckpoint

\* What getAtBlock has answered it answers for ever: a push is at the current block,
\* and what is asked for is before it.
THEOREM MinedBlocksStayFinal == Spec => MinedBlocksAreFinal
<1>1. ASSUME IInv, IInv', Next, historyType = "History",
             NEW number \in 0 .. MaxBlock, getAtBlockReturns(number)
      PROVE  /\ getAtBlockReturns(number)'
             /\ getAtBlock(number)' = getAtBlock(number)
  <2>1. /\ number \in Nat /\ number < blockNumber /\ number <= MaxKey["History"]
        /\ blockNumber \in Nat /\ MaxKey["History"] \in Nat
        /\ MaxBlock = MaxKey["History"] + 1
    BY <1>1, OptionsAssumption, MaxUintAssumption
       DEF getAtBlockReturns, toUintDownCastReturns, IInv, TypeOK, HistoryTypes, Word
  <2>2. toUintDownCast(number, MaxKey["History"]) = number
    BY <2>1, CastsAreExact DEF toUintDownCastReturns
  <2>3. /\ getAtBlock(number) = upperLookup(number)
        /\ getAtBlock(number)' = upperLookup(number)'
    BY <2>2 DEF getAtBlock
  <2>4. CASE Mine
    <3>1. number < blockNumber'
      BY <2>1, <2>4 DEF Mine
    <3>2. upperLookup(number)' = upperLookup(number)
      BY <2>4, SameLookups DEF Mine
    <3>3. QED
      BY <2>1, <2>3, <3>1, <3>2 DEF getAtBlockReturns, toUintDownCastReturns
  <2>5. CASE ~ Mine
    <3>1. PICK key \in Nat, value \in Word :
            _insert(key, value) /\ key = blockNumber /\ blockNumber' = blockNumber
      BY <1>1, <2>5, StepInserts
    <3>2. upperLookup(number)' = upperLookup(number)
      <4>1. ~ (number >= key)
        BY <2>1, <3>1
      <4>2. QED
        BY <1>1, <2>1, <3>1, <4>1, InsertIsShown
    <3>3. QED
      BY <2>1, <2>3, <3>1, <3>2 DEF getAtBlockReturns, toUintDownCastReturns
  <2>6. QED
    BY <2>4, <2>5
<1> DEFINE A == historyType = "History" =>
                  \A number \in 0 .. MaxBlock :
                    getAtBlockReturns(number) =>
                      /\ getAtBlockReturns(number)'
                      /\ getAtBlock(number)' = getAtBlock(number)
<1>2. IInv /\ IInv' /\ [Next]_vars => [A]_vars
  BY <1>1
<1>3. Spec => [][A]_vars
  <2> HIDE DEF A
  <2>1. QED
    BY <1>2, Invariance, PTL DEF Spec
<1>4. QED
  BY <1>3 DEF MinedBlocksAreFinal

\* Checkpoints implements ValueHistory, whatever is pushed: the empty list shows a
\* value that never was anything but 0, and an insertion shows as one write.
THEOREM CheckpointsAreValueHistory == Spec => IsValueHistory
<1>1. Init => History!Init
  <2> SUFFICES ASSUME Init PROVE History!Init
    OBVIOUS
  <2>1. IInv /\ len = 0 /\ returned = <<0, 0>> /\ len = Len(_checkpoints)
    BY InitIInv DEF Init, len
  <2>2. ASSUME NEW k \in Keys \cup 0 .. MaxBlock PROVE upperLookup(k) = 0
    <3>1. k \in Nat /\ 0 \in Nat /\ upTo(_checkpoints, k, 0)
      BY SMTT(30), <2>1, OptionsAssumption DEF upTo
    <3>2. QED
      BY <2>1, <3>1, UpperLookupIs
  <2>3. latestCheckpoint = <<FALSE, 0, 0>>
    BY <2>1 DEF latestCheckpoint
  <2>4. QED
    BY <2>1, <2>2, <2>3 DEF History!Init
<1>2. ASSUME IInv, IInv', [Next]_vars PROVE [History!Next]_(History!vars)
  <2> DEFINE Key == Keys \cup 0 .. MaxBlock
             valueAt == [k \in Key |-> upperLookup(k)]
             latestKey == IF latestCheckpoint[1] THEN latestCheckpoint[2] ELSE -1
  <2>0. Key \subseteq Nat
    <3>1. Keys \subseteq Nat
      BY OptionsAssumption
    <3>2. 0 .. MaxBlock \subseteq Nat
      OBVIOUS
    <3>3. QED
      BY <3>1, <3>2
  <2>1. CASE UNCHANGED <<_checkpoints, returned>>
    <3>1. valueAt' = valueAt /\ latestKey' = latestKey /\ returned' = returned
      BY <2>1, SameLookups
    <3>2. QED
      BY <3>1 DEF History!vars
  <2>2. CASE ~ UNCHANGED <<_checkpoints, returned>>
    <3>1. Next /\ ~ Mine
      BY <1>2, <2>2 DEF vars, Mine
    <3>2. PICK key \in Key, value \in Word : key \in Nat /\ _insert(key, value)
      BY <1>2, <3>1, StepInserts
    <3>3. /\ \A k \in Nat : upperLookup(k)' = IF k >= key THEN value ELSE upperLookup(k)
          /\ latest = upperLookup(key)
          /\ latestCheckpoint' = <<TRUE, key, value>>
      BY <1>2, <3>2, InsertIsShown
    <3>4. key >= latestKey
      <4>1. CASE len = 0
        BY <3>2, <4>1 DEF latestCheckpoint
      <4>2. CASE len # 0
        <5>1. len \in Nat /\ len > 0
          BY <1>2, <4>2, Ordered
        <5>2. latestKey = _unsafeAccess(len - 1)._key /\ _unsafeAccess(len - 1)._key <= key
          BY <3>2, <4>2, <5>1 DEF latestCheckpoint, _insert
        <5>3. (len - 1) + 1 = len /\ len \in 1 .. len
          BY <5>1
        <5>4. _unsafeAccess(len - 1)._key \in Nat
          BY <1>2, <5>3, Ordered DEF _unsafeAccess
        <5>5. QED
          BY <3>2, <5>2, <5>4
      <4>3. QED
        BY <4>1, <4>2
    <3>5. latestKey' = key
      BY <3>3
    <3>6. valueAt' = [k \in Key |-> IF k >= key THEN value ELSE valueAt[k]]
      BY <2>0, <3>3
    <3>7. returned' = <<valueAt[key], value>>
      BY <3>2, <3>3 DEF _insert
    <3> HIDE DEF valueAt, latestKey
    <3>8. History!Push(key, value)
      BY <3>4, <3>5, <3>6, <3>7 DEF History!Push, valueAt, latestKey
    <3>9. QED
      BY <3>2, <3>8 DEF History!Next
  <2>3. QED
    BY <2>1, <2>2
<1>3. QED
  BY <1>1, <1>2, Invariance, PTL DEF Spec, IsValueHistory, History!Spec

=============================================================================
