-------------------------- MODULE EnumerableMapProofs --------------------------
(***************************************************************************)
(* The set behind EnumerableMap stays consistent, for words and addresses  *)
(* of any width: its array and its mapping are inverse to each other, and  *)
(* a key that is not in the set has no value.                              *)
(*                                                                         *)
(* The one delicate step is the removal, which moves the last value into   *)
(* the gap: RemoveKeepsConsistent goes through the places of the array and *)
(* the words of the mapping case by case.  From it follows that the        *)
(* enumeration is complete and that the map implements KeyValueStore.      *)
(***************************************************************************)
EXTENDS EnumerableMap, SequenceTheorems, TLAPS

SetRecord == [_values : Seq(Bytes32), _indexes : [Bytes32 -> Nat]]

Consistent(set) ==
  /\ \A v \in Bytes32 : contains(set, v) =>
       /\ set._indexes[v] \in 1 .. length(set)
       /\ set._values[set._indexes[v]] = v
  /\ \A i \in 1 .. length(set) :
       /\ set._values[i] \in Bytes32
       /\ set._indexes[set._values[i]] = i

IInv ==
  /\ _keys \in SetRecord
  /\ _values \in [Bytes32 -> Bytes32]
  /\ Consistent(_keys)
  /\ \A v \in Bytes32 : ~ contains(_keys, v) \/ type \notin MapTypes => _values[v] = 0

-----------------------------------------------------------------------------

\* A value that is added gets the last place.
LEMMA AddKeepsConsistent ==
  ASSUME NEW set \in SetRecord, Consistent(set), NEW value \in Bytes32
  PROVE  /\ add(set, value) \in SetRecord
         /\ Consistent(add(set, value))
         /\ \A v \in Bytes32 : contains(add(set, value), v) <=> contains(set, v) \/ v = value
<1> DEFINE n == Len(set._values)
           new == add(set, value)
<1>1. /\ set._values \in Seq(Bytes32) /\ set._indexes \in [Bytes32 -> Nat]
      /\ n \in Nat
  BY DEF SetRecord
<1>2. CASE contains(set, value)
  BY <1>2 DEF add
<1>3. CASE ~ contains(set, value)
  <2>1. /\ new._values = Append(set._values, value)
        /\ new._indexes = [set._indexes EXCEPT ![value] = n + 1]
        /\ new = [_values |-> new._values, _indexes |-> new._indexes]
    BY <1>1, <1>3 DEF add
  <2>2. /\ new._values \in Seq(Bytes32) /\ Len(new._values) = n + 1
        /\ new._values[n + 1] = value
        /\ \A i \in 1 .. n : new._values[i] = set._values[i]
    BY <1>1, <2>1
  <2>3. /\ new._indexes \in [Bytes32 -> Nat]
        /\ new._indexes[value] = n + 1
        /\ \A v \in Bytes32 \ {value} : new._indexes[v] = set._indexes[v]
    BY <1>1, <2>1
  <2>4. new \in SetRecord
    BY <2>1, <2>2, <2>3 DEF SetRecord
  <2>5. \A v \in Bytes32 : contains(new, v) <=> contains(set, v) \/ v = value
    BY <1>1, <2>3 DEF contains
  <2>6. ASSUME NEW v \in Bytes32, contains(new, v)
        PROVE  /\ new._indexes[v] \in 1 .. length(new)
               /\ new._values[new._indexes[v]] = v
    <3>1. CASE v = value
      BY <1>1, <2>2, <2>3, <3>1 DEF length
    <3>2. CASE v # value
      <4>1. /\ new._indexes[v] = set._indexes[v]
            /\ set._indexes[v] \in 1 .. n /\ set._values[set._indexes[v]] = v
        BY <2>3, <2>5, <2>6, <3>2 DEF length, Consistent
      <4>2. new._values[set._indexes[v]] = set._values[set._indexes[v]]
        BY <2>2, <4>1
      <4>3. QED
        BY <1>1, <2>2, <4>1, <4>2 DEF length
    <3>3. QED
      BY <3>1, <3>2
  <2>7. ASSUME NEW i \in 1 .. length(new)
        PROVE  /\ new._values[i] \in Bytes32
               /\ new._indexes[new._values[i]] = i
    <3>1. CASE i = n + 1
      BY <1>1, <2>2, <2>3, <3>1
    <3>2. CASE i # n + 1
      <4>1. /\ i \in 1 .. n /\ set._values[i] \in Bytes32
            /\ set._indexes[set._values[i]] = i
        BY <1>1, <2>2, <3>2 DEF length, Consistent
      <4>2. set._values[i] # value
        BY <1>1, <1>3, <4>1 DEF contains
      <4>3. QED
        BY <2>2, <2>3, <4>1, <4>2
    <3>3. QED
      BY <3>1, <3>2
  <2>8. QED
    BY <2>4, <2>5, <2>6, <2>7 DEF Consistent
<1>4. QED
  BY <1>2, <1>3

\* The last value takes the place of the removed one, and the array ends before.
LEMMA RemoveKeepsConsistent ==
  ASSUME NEW set \in SetRecord, Consistent(set), NEW value \in Bytes32
  PROVE  /\ remove(set, value) \in SetRecord
         /\ Consistent(remove(set, value))
         /\ \A v \in Bytes32 : contains(remove(set, value), v) <=> contains(set, v) /\ v # value
<1> DEFINE n == Len(set._values)
           gone == set._indexes[value]
           last == set._values[n]
           new == remove(set, value)
<1>1. /\ set._values \in Seq(Bytes32) /\ set._indexes \in [Bytes32 -> Nat]
      /\ n \in Nat
  BY DEF SetRecord
<1>2. CASE ~ contains(set, value)
  BY <1>2 DEF remove
<1>3. CASE contains(set, value)
  <2>1. /\ gone \in 1 .. n /\ set._values[gone] = value
        /\ last \in Bytes32 /\ set._indexes[last] = n
        /\ n - 1 \in Nat
    BY <1>1, <1>3 DEF Consistent, length
  <2>2. gone = n <=> last = value
    BY <1>1, <2>1
  <2> DEFINE moved == lastMoved(set, gone)
  <2>3. /\ moved._values \in Seq(Bytes32) /\ Len(moved._values) = n
        /\ moved._values[gone] = last
        /\ \A i \in 1 .. n : i # gone => moved._values[i] = set._values[i]
        /\ moved._indexes \in [Bytes32 -> Nat]
        /\ moved._indexes[last] = gone
        /\ \A v \in Bytes32 \ {last} : moved._indexes[v] = set._indexes[v]
    <3>1. CASE gone = n
      BY <1>1, <2>1, <2>2, <3>1 DEF lastMoved, length
    <3>2. CASE gone # n
      BY <1>1, <2>1, <3>2 DEF lastMoved, length
    <3>3. QED
      BY <3>1, <3>2
  <2>4. /\ new._values = SubSeq(moved._values, 1, n - 1)
        /\ new._indexes = [moved._indexes EXCEPT ![value] = 0]
        /\ new = [_values |-> new._values, _indexes |-> new._indexes]
    BY <1>3 DEF remove, length
  <2> HIDE DEF moved, new, last, gone, n
  <2>5. /\ new._values \in Seq(Bytes32) /\ Len(new._values) = n - 1
        /\ \A i \in 1 .. n - 1 : new._values[i] = moved._values[i]
    <3> DEFINE m == moved._values
    <3>1. m \in Seq(Bytes32) /\ Len(m) = n /\ n - 1 \in 0 .. n
      BY <1>1, <2>1, <2>3
    <3>2. new._values = SubSeq(m, 1, n - 1)
      BY <2>4
    <3> HIDE DEF m
    <3>3. /\ SubSeq(m, 1, n - 1) \in Seq(Bytes32)
          /\ Len(SubSeq(m, 1, n - 1)) = n - 1
          /\ \A i \in 1 .. n - 1 : SubSeq(m, 1, n - 1)[i] = m[i]
      BY <1>1, <3>1
    <3>4. QED
      BY <3>2, <3>3 DEF m
  <2>6. /\ new._indexes \in [Bytes32 -> Nat]
        /\ new._indexes[value] = 0
        /\ \A v \in Bytes32 \ {value} : new._indexes[v] = moved._indexes[v]
    BY <2>3, <2>4
  <2>7. new \in SetRecord
    BY <2>4, <2>5, <2>6 DEF SetRecord
  <2>8. \A v \in Bytes32 : contains(new, v) <=> contains(set, v) /\ v # value
    <3>1. ASSUME NEW v \in Bytes32, v # value
          PROVE  new._indexes[v] # 0 <=> set._indexes[v] # 0
      <4>1. CASE v = last
        BY <1>1, <2>1, <2>3, <2>6, <3>1, <4>1
      <4>2. CASE v # last
        BY <2>3, <2>6, <3>1, <4>2
      <4>3. QED
        BY <4>1, <4>2
    <3>2. QED
      BY <2>6, <3>1 DEF contains
  <2>9. ASSUME NEW v \in Bytes32, contains(new, v)
        PROVE  /\ new._indexes[v] \in 1 .. length(new)
               /\ new._values[new._indexes[v]] = v
    <3>1. v # value /\ contains(set, v)
      BY <2>8, <2>9
    <3>2. set._indexes[v] \in 1 .. n /\ set._values[set._indexes[v]] = v
      BY <3>1 DEF Consistent, length, n
    <3>3. CASE v = last
      <4>1. new._indexes[v] = gone /\ gone \in 1 .. n - 1
        BY <1>1, <2>1, <2>2, <2>3, <2>6, <3>1, <3>3
      <4>2. QED
        BY <2>3, <2>5, <3>3, <4>1 DEF length
    <3>4. CASE v # last
      <4>1. new._indexes[v] = set._indexes[v]
        BY <2>3, <2>6, <3>1, <3>4
      <4>2. set._indexes[v] # n /\ set._indexes[v] # gone
        BY <2>1, <3>1, <3>2, <3>4 DEF last
      <4>3. set._indexes[v] \in 1 .. n - 1
        BY <1>1, <3>2, <4>2
      <4>4. QED
        BY <2>3, <2>5, <3>2, <4>1, <4>2, <4>3 DEF length
    <3>5. QED
      BY <3>3, <3>4
  <2>10. ASSUME NEW i \in 1 .. length(new)
         PROVE  /\ new._values[i] \in Bytes32
                /\ new._indexes[new._values[i]] = i
    <3>1. i \in 1 .. n - 1 /\ i \in 1 .. n /\ i # n
      BY <1>1, <2>5 DEF length
    <3>2. new._values[i] = moved._values[i]
      BY <2>5, <3>1
    <3>3. CASE i = gone
      <4>1. new._values[i] = last /\ last # value
        BY <2>2, <2>3, <3>1, <3>2, <3>3
      <4>2. QED
        BY <2>1, <2>3, <2>6, <3>3, <4>1
    <3>4. CASE i # gone
      <4>1. /\ new._values[i] = set._values[i]
            /\ set._values[i] \in Bytes32 /\ set._indexes[set._values[i]] = i
        BY <2>3, <3>1, <3>2, <3>4 DEF Consistent, length, n
      <4>2. set._values[i] # value /\ set._values[i] # last
        BY <2>1, <3>1, <3>4, <4>1 DEF gone
      <4>3. QED
        BY <2>3, <2>6, <4>1, <4>2
    <3>5. QED
      BY <3>3, <3>4
  <2>11. QED
    BY <2>7, <2>8, <2>9, <2>10 DEF Consistent, new
<1>4. QED
  BY <1>2, <1>3

-----------------------------------------------------------------------------

\* The invariant holds at first.
LEMMA InitIInv == Init => IInv
<1>1. SUFFICES ASSUME Init PROVE IInv
  OBVIOUS
<1>2. /\ _keys._values = <<>> /\ _keys._indexes = [v \in Bytes32 |-> 0]
      /\ _keys = [_values |-> _keys._values, _indexes |-> _keys._indexes]
      /\ _values = [k \in Bytes32 |-> 0]
  BY <1>1 DEF Init, EmptySet
<1>3. 0 \in Bytes32
  BY WidthAssumption DEF Bytes32
<1>4. _keys \in SetRecord /\ length(_keys) = 0
  <2>1. _keys._indexes \in [Bytes32 -> Nat]
    BY <1>2
  <2>2. _keys._values \in Seq(Bytes32) /\ Len(_keys._values) = 0
    BY <1>2
  <2>3. QED
    BY <1>2, <2>1, <2>2 DEF SetRecord, length
<1>5. QED
  BY <1>2, <1>3, <1>4 DEF IInv, Consistent, contains

\* Every step keeps it.
LEMMA NextIInv == IInv /\ [Next]_vars => IInv'
<1>1. SUFFICES ASSUME IInv, [Next]_vars PROVE IInv'
  OBVIOUS
<1>2. 0 \in Bytes32
  BY WidthAssumption DEF Bytes32
<1>3. ASSUME NEW key \in Keys, Add(key) \/ RemoveValue(key), type \in SetTypes
      PROVE  IInv'
  <2>1. /\ key \in Bytes32 /\ _values' = _values /\ type' = type
        /\ _keys' = add(_keys, key) \/ _keys' = remove(_keys, key)
    BY <1>3, MapAssumption DEF Keys, Add, RemoveValue, toBytes32
  <2>2. type \notin MapTypes
    BY <1>3 DEF SetTypes, MapTypes
  <2>3. _keys' \in SetRecord /\ Consistent(_keys')
    BY <1>1, <2>1, AddKeepsConsistent, RemoveKeepsConsistent DEF IInv
  <2>4. QED
    BY <1>1, <2>1, <2>2, <2>3 DEF IInv
<1>4. ASSUME NEW key \in Keys, NEW value \in Value \cap ValuesOf(type.valueType),
             Set(key, value), type \in MapTypes
      PROVE  IInv'
  <2>1. /\ key \in Bytes32 /\ value \in Bytes32
        /\ _keys' = add(_keys, key)
        /\ type \in MapTypes /\ type' = type
        /\ _values' = [_values EXCEPT ![key] = value]
    BY <1>4, MapAssumption DEF Keys, Set, setWord, toBytes32
  <2>2. _values' \in [Bytes32 -> Bytes32]
    BY <1>1, <2>1 DEF IInv
  <2>3. \A v \in Bytes32 \ {key} : _values'[v] = _values[v]
    BY <1>1, <2>1 DEF IInv
  <2>4. /\ _keys' \in SetRecord /\ Consistent(_keys')
        /\ \A v \in Bytes32 : contains(_keys', v) <=> contains(_keys, v) \/ v = key
    BY <1>1, <2>1, AddKeepsConsistent DEF IInv
  <2>5. \A v \in Bytes32 : ~ contains(_keys', v) => _values'[v] = 0
    BY <1>1, <2>3, <2>4 DEF IInv
  <2>6. QED
    BY <2>1, <2>2, <2>4, <2>5 DEF IInv
<1>5. ASSUME NEW key \in Keys, Remove(key), type \in MapTypes
      PROVE  IInv'
  <2>1. /\ key \in Bytes32 /\ _keys' = remove(_keys, key)
        /\ type' = type
        /\ _values' = [_values EXCEPT ![key] = 0]
    BY <1>5, MapAssumption DEF Keys, Remove, removeWord, toBytes32
  <2>2. /\ _values' \in [Bytes32 -> Bytes32]
        /\ \A v \in Bytes32 \ {key} : _values'[v] = _values[v]
        /\ _values'[key] = 0
    BY <1>1, <1>2, <2>1 DEF IInv
  <2>3. /\ _keys' \in SetRecord /\ Consistent(_keys')
        /\ \A v \in Bytes32 : contains(_keys', v) <=> contains(_keys, v) /\ v # key
    BY <1>1, <2>1, RemoveKeepsConsistent DEF IInv
  <2>4. \A v \in Bytes32 :
          ~ contains(_keys', v) \/ type' \notin MapTypes => _values'[v] = 0
    BY <1>1, <1>5, <2>1, <2>2, <2>3 DEF IInv
  <2>5. QED
    BY <2>2, <2>3, <2>4 DEF IInv
<1>6. CASE UNCHANGED vars
  BY <1>1, <1>6 DEF vars, IInv, Consistent, contains, length
<1>7. QED
  BY <1>1, <1>3, <1>4, <1>5, <1>6 DEF Next, SetStep, MapStep

\* It always holds.
LEMMA Invariance == Spec => []IInv
  BY InitIInv, NextIInv, PTL DEF Spec

\* The array of keys, the mapping of their places and the mapping of values agree
\* after any writes, however many keys there are and however wide a word is.
THEOREM EnumerationStaysConsistent == Spec => []IndexesInvertValues
<1>1. IInv => IndexesInvertValues
  BY DEF IInv, Consistent, IndexesInvertValues
<1>2. QED
  BY <1>1, Invariance, PTL

\* contains, get and tryGet never disagree about a key, so a removed one is gone
\* for all of them.
THEOREM ReadsAlwaysAgree == Spec => []ReadsAgree
<1>1. ASSUME IInv PROVE ReadsAgree
  <2>1. SUFFICES ASSUME NEW k \in Keys
                 PROVE  /\ getReturns(k) <=> containsKey(k)
                        /\ tryGet(k) = <<containsKey(k), IF containsKey(k) THEN get(k) ELSE 0>>
    BY DEF ReadsAgree
  <2>2. k \in Bytes32
    BY MapAssumption DEF Keys
  <2>3. ~ containsKey(k) => _values[k] = 0
    BY <1>1, <2>2 DEF IInv, containsKey, toBytes32
  <2>4. fromBytes32(type.valueType, 0) = 0
    <3>1. MaxAddress + 1 \in Nat \ {0}
      BY WidthAssumption
    <3>2. 0 % (MaxAddress + 1) = 0
      BY <3>1
    <3>3. QED
      BY <3>2 DEF fromBytes32
  <2>5. containsKey(k) \in BOOLEAN
    BY DEF containsKey, contains
  <2>6. QED
    BY <2>3, <2>4, <2>5
    DEF getReturns, getWordReturns, tryGet, tryGetWord, get, containsKey, toBytes32
<1>2. IInv => ReadsAgree
  BY <1>1
<1>3. QED
  BY <1>2, Invariance, PTL

-----------------------------------------------------------------------------
(* The enumeration lists keys: no word is wider than the type of the keys.   *)

OnlyKeys == \A v \in Bytes32 : contains(_keys, v) => v \in Keys

\* Nothing is lost when a key is read back.
LEMMA KeyReadsBack ==
  ASSUME NEW key \in Keys
  PROVE  fromBytes32(type.keyType, key) = key
<1>1. key \in ValuesOf(type.keyType) /\ MaxAddress \in Nat
  BY WidthAssumption DEF Keys
<1>2. CASE type.keyType = "address"
  <2>1. key \in 0 .. MaxAddress
    BY <1>1, <1>2 DEF ValuesOf
  <2>2. key % (MaxAddress + 1) = key
    BY <1>1, <2>1
  <2>3. QED
    BY <1>2, <2>2 DEF fromBytes32
<1>3. CASE type.keyType # "address"
  BY <1>3 DEF fromBytes32
<1>4. QED
  BY <1>2, <1>3

\* An empty set has no wide words.
LEMMA InitOnlyKeys == Init => OnlyKeys
  BY DEF Init, OnlyKeys, EmptySet, contains

\* What is added is a key.
LEMMA NextOnlyKeys == IInv /\ OnlyKeys /\ [Next]_vars => OnlyKeys'
<1>1. SUFFICES ASSUME IInv, OnlyKeys, [Next]_vars PROVE OnlyKeys'
  OBVIOUS
<1>2. CASE Next
  <2>1. /\ type' = type
        /\ \E key \in Keys : _keys' = add(_keys, key) \/ _keys' = remove(_keys, key)
    BY <1>2
    DEF Next, SetStep, MapStep, Add, RemoveValue, Set, Remove, setWord, removeWord, toBytes32
  <2>2. PICK key \in Keys : _keys' = add(_keys, key) \/ _keys' = remove(_keys, key)
    BY <2>1
  <2>3. key \in Bytes32
    BY MapAssumption DEF Keys
  <2>4. \A v \in Bytes32 : contains(_keys', v) => contains(_keys, v) \/ v = key
    BY <1>1, <2>2, <2>3, AddKeepsConsistent, RemoveKeepsConsistent DEF IInv
  <2>5. Keys' = Keys
    BY <2>1 DEF Keys
  <2>6. SUFFICES ASSUME NEW v \in Bytes32, contains(_keys', v)
                 PROVE  v \in Keys
    BY <2>5 DEF OnlyKeys, contains
  <2>7. QED
    BY <1>1, <2>4, <2>6 DEF OnlyKeys
<1>3. CASE UNCHANGED vars
  BY <1>1, <1>3 DEF vars, OnlyKeys, contains, Keys
<1>4. QED
  BY <1>1, <1>2, <1>3

\* Going through the places of the array finds every key once, with its value, and
\* the list of all values is the same enumeration, for any type and any writes.
THEOREM EnumerationStaysComplete == Spec => []EnumerationIsComplete
<1>1. ASSUME IInv, OnlyKeys
      PROVE  EnumerationIsComplete
  <2> DEFINE n == length(_keys)
  <2>1. n \in Nat
    BY <1>1 DEF IInv, SetRecord, length
  <2>2. ASSUME NEW i \in 0 .. n - 1
        PROVE  /\ at(_keys, i) \in Keys /\ contains(_keys, at(_keys, i))
               /\ _keys._indexes[at(_keys, i)] = i + 1
               /\ entryAt(i) = <<at(_keys, i), fromBytes32(type.valueType, _values[at(_keys, i)])>>
    <3>1. i + 1 \in 1 .. n /\ i + 1 # 0
      BY <2>1
    <3>2. at(_keys, i) \in Bytes32 /\ _keys._indexes[at(_keys, i)] = i + 1
      BY <1>1, <3>1 DEF IInv, Consistent, at
    <3>3. contains(_keys, at(_keys, i))
      BY <3>1, <3>2 DEF contains
    <3>4. at(_keys, i) \in Keys
      BY <1>1, <3>2, <3>3 DEF OnlyKeys
    <3>5. fromBytes32(type.keyType, at(_keys, i)) = at(_keys, i)
      BY <3>4, KeyReadsBack
    <3>6. QED
      BY <3>2, <3>3, <3>4, <3>5 DEF entryAt, wordsAt
  <2>3. ASSUME NEW k \in Keys, containsKey(k)
        PROVE  \E i \in 0 .. n - 1 : entryAt(i)[1] = k
    <3>1. k \in Bytes32 /\ contains(_keys, k)
      BY <2>3, MapAssumption DEF Keys, containsKey, toBytes32
    <3>2. _keys._indexes[k] \in 1 .. n /\ _keys._values[_keys._indexes[k]] = k
      BY <1>1, <3>1 DEF IInv, Consistent
    <3>3. _keys._indexes[k] - 1 \in 0 .. n - 1
      BY <2>1, <3>2
    <3>4. at(_keys, _keys._indexes[k] - 1) = k
      BY <2>1, <3>2 DEF at
    <3>5. QED
      BY <2>2, <3>3, <3>4
  <2>4. {entryAt(i)[1] : i \in 0 .. n - 1} = {k \in Keys : containsKey(k)}
    <3>1. ASSUME NEW i \in 0 .. n - 1
          PROVE  entryAt(i)[1] \in Keys /\ containsKey(entryAt(i)[1])
      BY <2>2 DEF containsKey, toBytes32
    <3>2. QED
      BY <2>3, <3>1
  <2>5. ASSUME NEW i \in 0 .. n - 1, NEW j \in 0 .. n - 1, entryAt(i)[1] = entryAt(j)[1]
        PROVE  i = j
    <3>1. i + 1 = j + 1
      BY <2>2, <2>5
    <3>2. QED
      BY <2>1, <3>1
  <2>6. ASSUME NEW i \in 0 .. n - 1
        PROVE  /\ entryAt(i)[2] = get(entryAt(i)[1])
               /\ entryAt(i)[1] = values(_keys)[i + 1]
    BY <2>2 DEF get, at, values, toBytes32
  <2>7. QED
    BY <2>4, <2>5, <2>6 DEF EnumerationIsComplete
<1>2. IInv /\ OnlyKeys => EnumerationIsComplete
  BY <1>1
<1>3. Spec => [](IInv /\ OnlyKeys)
  BY Invariance, InitOnlyKeys, NextOnlyKeys, PTL DEF Spec
<1>4. QED
  BY <1>2, <1>3, PTL

-----------------------------------------------------------------------------
(* The map implements KeyValueStore.                                         *)

present == {k \in Keys : containsKey(k)}

storeOf == [k \in present |-> get(k)]

\* A value survives its conversion to a word and back.
LEMMA ValueReadsBack ==
  ASSUME NEW value \in ValuesOf(type.valueType)
  PROVE  fromBytes32(type.valueType, value) = value
<1>1. CASE type.valueType = "address"
  <2>1. value \in 0 .. MaxAddress /\ MaxAddress \in Nat
    BY <1>1, WidthAssumption DEF ValuesOf
  <2>2. value % (MaxAddress + 1) = value
    BY <2>1
  <2>3. QED
    BY <1>1, <2>2 DEF fromBytes32
<1>2. CASE type.valueType # "address"
  BY <1>2 DEF fromBytes32
<1>3. QED
  BY <1>1, <1>2

\* A write of one key changes the store as a write of the abstract store does.
LEMMA WriteIsSet ==
  ASSUME IInv, NEW key \in Keys, NEW value,
         type' = type,
         _keys' = add(_keys, key),
         \A v \in Bytes32 \ {key} : _values'[v] = _values[v],
         fromBytes32(type.valueType, _values'[key]) = value
  PROVE  storeOf' = [k \in DOMAIN storeOf \cup {key} |->
                       IF k = key THEN value ELSE storeOf[k]]
<1>1. key \in Bytes32 /\ Keys \subseteq Bytes32 /\ Keys' = Keys
  BY MapAssumption DEF Keys
<1>2. \A v \in Bytes32 : contains(_keys', v) <=> contains(_keys, v) \/ v = key
  BY <1>1, AddKeepsConsistent DEF IInv
<1>3. present' = {key} \cup present
  BY <1>1, <1>2 DEF present, containsKey, contains, toBytes32
<1>4. \A k \in present' : get(k)' = IF k = key THEN value ELSE get(k)
  BY <1>1, <1>3 DEF present, get, toBytes32, fromBytes32
<1>5. QED
  BY <1>3, <1>4 DEF storeOf

\* remove takes one key out of the store and leaves the others.
LEMMA RemoveIsRemove ==
  ASSUME IInv, NEW key \in Keys,
         type' = type,
         _keys' = remove(_keys, key),
         \A v \in Bytes32 \ {key} : _values'[v] = _values[v]
  PROVE  storeOf' = [k \in DOMAIN storeOf \ {key} |-> storeOf[k]]
<1>1. key \in Bytes32 /\ Keys \subseteq Bytes32 /\ Keys' = Keys
  BY MapAssumption DEF Keys
<1>2. \A v \in Bytes32 : contains(_keys', v) <=> contains(_keys, v) /\ v # key
  BY <1>1, RemoveKeepsConsistent DEF IInv
<1>3. present' = present \ {key}
  BY <1>1, <1>2 DEF present, containsKey, contains, toBytes32
<1>4. \A k \in present' : get(k)' = get(k)
  BY <1>1, <1>3 DEF present, get, toBytes32, fromBytes32
<1>5. QED
  BY <1>3, <1>4 DEF storeOf

\* An empty map is an empty store.
LEMMA InitStore == Init => Store!Init
<1>1. SUFFICES ASSUME Init PROVE Store!Init
  OBVIOUS
<1>2. present = {}
  <2>1. /\ \A v \in Bytes32 : ~ contains(_keys, v)
        /\ Keys \subseteq Bytes32
    BY <1>1, MapAssumption DEF Init, EmptySet, contains, Keys
  <2>2. QED
    BY <2>1 DEF present, containsKey, toBytes32
<1>3. storeOf = <<>>
  BY <1>2 DEF storeOf
<1>4. QED
  BY <1>1, <1>3 DEF Init, Store!Init, storeOf, present

\* Every step maps to one of the store or a stutter.
LEMMA NextStore == IInv /\ [Next]_vars => [Store!Next]_(Store!vars)
<1>1. SUFFICES ASSUME IInv, [Next]_vars PROVE [Store!Next]_(Store!vars)
  OBVIOUS
<1>2. Keys \subseteq Bytes32 /\ Keys \subseteq Key /\ 0 \in Bytes32
  BY MapAssumption, WidthAssumption DEF Keys, Bytes32
<1>3. \A key \in Keys : key \in DOMAIN storeOf <=> contains(_keys, key)
  BY DEF storeOf, present, containsKey, toBytes32
<1>4. ASSUME NEW key \in Keys, Add(key), type \in SetTypes
      PROVE  Store!Set(key, 0)
  <2>1. /\ type' = type /\ _keys' = add(_keys, key) /\ _values' = _values
        /\ call' = <<"set", key, 0, ~ contains(_keys, key)>>
    BY <1>4 DEF Add, containsKey, toBytes32
  <2>2. fromBytes32(type.valueType, _values'[key]) = 0
    <3>1. type \notin MapTypes /\ type.valueType # "address"
      BY <1>4 DEF SetTypes, MapTypes
    <3>2. QED
      BY <1>1, <1>2, <2>1, <3>1 DEF IInv, fromBytes32
  <2>3. storeOf' = [k \in DOMAIN storeOf \cup {key} |-> IF k = key THEN 0 ELSE storeOf[k]]
    BY <1>1, <2>1, <2>2, WriteIsSet
  <2>4. QED
    BY <1>3, <2>1, <2>3 DEF Store!Set, storeOf, present
<1>5. ASSUME NEW key \in Keys, NEW value \in Value \cap ValuesOf(type.valueType),
             Set(key, value)
      PROVE  Store!Set(key, value)
  <2>1. /\ type' = type /\ _keys' = add(_keys, key)
        /\ _values' = [_values EXCEPT ![key] = value]
        /\ call' = <<"set", key, value, ~ contains(_keys, key)>>
    BY <1>5 DEF Set, setWord, containsKey, toBytes32
  <2>2. /\ _values'[key] = value
        /\ \A v \in Bytes32 \ {key} : _values'[v] = _values[v]
    BY <1>1, <1>2, <2>1 DEF IInv
  <2>3. fromBytes32(type.valueType, _values'[key]) = value
    BY <2>2, ValueReadsBack
  <2>4. storeOf' = [k \in DOMAIN storeOf \cup {key} |-> IF k = key THEN value ELSE storeOf[k]]
    BY <1>1, <2>1, <2>2, <2>3, WriteIsSet
  <2>5. QED
    BY <1>3, <2>1, <2>4 DEF Store!Set, storeOf, present
<1>6. ASSUME NEW key \in Keys, RemoveValue(key) \/ Remove(key)
      PROVE  Store!Remove(key)
  <2>1. /\ type' = type /\ _keys' = remove(_keys, key)
        /\ _values' = _values \/ _values' = [_values EXCEPT ![key] = 0]
        /\ call' = <<"remove", key, contains(_keys, key)>>
    BY <1>6 DEF RemoveValue, Remove, removeWord, containsKey, toBytes32
  <2>2. \A v \in Bytes32 \ {key} : _values'[v] = _values[v]
    BY <1>1, <1>2, <2>1 DEF IInv
  <2>3. storeOf' = [k \in DOMAIN storeOf \ {key} |-> storeOf[k]]
    BY <1>1, <2>1, <2>2, RemoveIsRemove
  <2>4. call' = <<"remove", key, key \in DOMAIN storeOf>>
    <3>1. contains(_keys, key) = (key \in DOMAIN storeOf)
      BY <1>3 DEF contains
    <3>2. QED
      BY <2>1, <3>1
  <2>5. QED
    BY <2>3, <2>4 DEF Store!Remove, storeOf, present
<1>7. CASE Next
  <2>1. \E key \in Key :
          (\E value \in Value \cup {0} : Store!Set(key, value)) \/ Store!Remove(key)
    BY <1>2, <1>4, <1>5, <1>6, <1>7 DEF Next, SetStep, MapStep
  <2>2. QED
    BY <2>1 DEF Store!Next
<1>8. CASE UNCHANGED vars
  <2>1. storeOf' = storeOf /\ call' = call
    BY <1>8 DEF vars, storeOf, present, containsKey, contains, get, Keys
  <2>2. QED
    BY <2>1 DEF Store!vars, storeOf, present
<1>9. QED
  BY <1>1, <1>7, <1>8

\* Every set and every map, of any type, with words of any width and any number of
\* keys, is the store of values its documentation promises: what is read was
\* written last, and every write says whether the key came or went.
THEOREM MapIsAKeyValueStore == Spec => IsKeyValueStore
  BY Invariance, InitStore, NextStore, PTL DEF Spec, IsKeyValueStore, Store!Spec
=============================================================================
