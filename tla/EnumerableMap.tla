----------------------------- MODULE EnumerableMap -----------------------------
(***************************************************************************)
(* EnumerableMap of OpenZeppelin, an EnumerableSet of keys with a mapping  *)
(* from keys to values beside it, and the contracts that keep one map or   *)
(* one set each.  A key that is not in the set may not have a value left   *)
(* in the mapping: the reads take a value that is not zero for a key that  *)
(* is there.                                                               *)
(***************************************************************************)
EXTENDS EnumerableSet

CONSTANTS
  Types,      \* the contracts to choose from
  Key,        \* what is used as key or as value of a set
  Value       \* what is used as value

VARIABLES
  type,       \* which contract this is
  _keys,      \* the set, or the keys of the map
  _values,    \* key -> value of the map
  call        \* the last transaction, with its OperationResult

vars == <<type, _keys, _values, call>>

SetTypes == {[keyType |-> t, valueType |-> "none"] : t \in {"bytes32", "address", "uint256"}}

MapTypes == {[keyType |-> "uint256", valueType |-> "uint256"],
             [keyType |-> "uint256", valueType |-> "address"],
             [keyType |-> "address", valueType |-> "uint256"],
             [keyType |-> "bytes32", valueType |-> "uint256"],
             [keyType |-> "bytes32", valueType |-> "bytes32"]}

ASSUME MapAssumption ==
  /\ Types \subseteq SetTypes \cup MapTypes
  /\ Key \cup Value \subseteq Bytes32

Keys == Key \cap ValuesOf(type.keyType)

Init ==
  /\ type \in Types
  /\ _keys = EmptySet
  /\ _values = [k \in Bytes32 |-> 0]
  /\ call = <<>>

-----------------------------------------------------------------------------
(* The map of words that is behind every map *)

\* A key and its value by their place in the enumeration.
wordsAt(index) == <<at(_keys, index), _values[at(_keys, index)]>>

tryGetWord(word) ==
  IF _values[word] = 0 THEN <<contains(_keys, word), 0>> ELSE <<TRUE, _values[word]>>

\* Whether get does not revert.
getWordReturns(word) == _values[word] # 0 \/ contains(_keys, word)

setWord(word, value) ==
  /\ _values' = [_values EXCEPT ![word] = value]
  /\ _keys' = add(_keys, word)

\* Mutant: the value of a removed key stays in the mapping.
removeKeyOnly(word) ==
  /\ UNCHANGED _values
  /\ _keys' = remove(_keys, word)

removeWord(word) ==
  /\ _values' = [_values EXCEPT ![word] = 0]
  /\ _keys' = remove(_keys, word)

-----------------------------------------------------------------------------
(* The reads *)

containsKey(key) == contains(_keys, toBytes32(type.keyType, key))

entryAt(index) ==
  <<fromBytes32(type.keyType, wordsAt(index)[1]), fromBytes32(type.valueType, wordsAt(index)[2])>>

tryGet(key) ==
  LET found == tryGetWord(toBytes32(type.keyType, key))
  IN  <<found[1], fromBytes32(type.valueType, found[2])>>

getReturns(key) == getWordReturns(toBytes32(type.keyType, key))

get(key) == fromBytes32(type.valueType, _values[toBytes32(type.keyType, key)])

-----------------------------------------------------------------------------
(* The transactions *)

Add(value) ==
  /\ _keys' = add(_keys, toBytes32(type.keyType, value))
  /\ call' = <<"set", value, 0, ~ containsKey(value)>>
  /\ UNCHANGED <<type, _values>>

RemoveValue(value) ==
  /\ _keys' = remove(_keys, toBytes32(type.keyType, value))
  /\ call' = <<"remove", value, containsKey(value)>>
  /\ UNCHANGED <<type, _values>>

\* The transactions of a set.
SetStep ==
  /\ type \in SetTypes
  /\ \E value \in Keys : Add(value) \/ RemoveValue(value)

Set(key, value) ==
  /\ setWord(toBytes32(type.keyType, key), toBytes32(type.valueType, value))
  /\ call' = <<"set", key, value, ~ containsKey(key)>>
  /\ UNCHANGED type

Remove(key) ==
  /\ removeWord(toBytes32(type.keyType, key))
  /\ call' = <<"remove", key, containsKey(key)>>
  /\ UNCHANGED type

\* The transactions of a map.
MapStep ==
  /\ type \in MapTypes
  /\ \E key \in Keys :
       \/ \E value \in Value \cap ValuesOf(type.valueType) : Set(key, value)
       \/ Remove(key)

Next == SetStep \/ MapStep

Spec == Init /\ [][Next]_vars

-----------------------------------------------------------------------------
(* Properties *)

\* The array and the mapping of the set say the same, whatever was added and
\* removed in which order, and no value waits in the mapping for its key to come
\* back.  Every read and every removal relies on it.
IndexesInvertValues ==
  /\ \A v \in Bytes32 : contains(_keys, v) =>
       /\ _keys._indexes[v] \in 1 .. length(_keys)
       /\ _keys._values[_keys._indexes[v]] = v
  /\ \A i \in 1 .. length(_keys) :
       /\ _keys._values[i] \in Bytes32
       /\ _keys._indexes[_keys._values[i]] = i
  /\ \A v \in Bytes32 : ~ contains(_keys, v) => _values[v] = 0

\* Going through the enumeration by index meets every key exactly once, with the
\* value that get returns for it, although removals reorder it.  The list of all
\* values is the same enumeration, although nothing is converted in it.
EnumerationIsComplete ==
  /\ {entryAt(i)[1] : i \in 0 .. length(_keys) - 1} = {k \in Keys : containsKey(k)}
  /\ \A i, j \in 0 .. length(_keys) - 1 : entryAt(i)[1] = entryAt(j)[1] => i = j
  /\ \A i \in 0 .. length(_keys) - 1 :
       /\ entryAt(i)[2] = get(entryAt(i)[1])
       /\ entryAt(i)[1] = values(_keys)[i + 1]

\* The three ways to ask for a key agree: tryGet and get find what contains does,
\* also a value of zero, and a removed key is found by none of them.
ReadsAgree ==
  \A k \in Keys :
    /\ getReturns(k) <=> containsKey(k)
    /\ tryGet(k) = <<containsKey(k), IF containsKey(k) THEN get(k) ELSE 0>>

\* A map is a store of values by key, and a set one in which they do not matter.
Store == INSTANCE KeyValueStore WITH
  Value <- Value \cup {0},
  store <- [k \in {k \in Keys : containsKey(k)} |-> get(k)]

\* No order of writes makes a map return anything but the last value of a key.
IsKeyValueStore == Store!Spec
=============================================================================
