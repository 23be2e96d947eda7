----------------------------- MODULE EnumerableSet -----------------------------
(***************************************************************************)
(* EnumerableSet of OpenZeppelin: a set that can be listed.  Its values    *)
(* are kept in an array, and a mapping gives the place of each of them,    *)
(* counted from one so that zero says that a value is not in the set.      *)
(*                                                                         *)
(* A word of storage is a number, and so is an address: the conversions    *)
(* between them widen and narrow it.                                       *)
(***************************************************************************)
EXTENDS Integers, Sequences

CONSTANTS
  MaxBytes32,   \* the largest word
  MaxAddress    \* the largest address

ASSUME WidthAssumption ==
  /\ MaxBytes32 \in Nat
  /\ MaxAddress \in 0 .. MaxBytes32

Bytes32 == 0 .. MaxBytes32

ValuesOf(type) == IF type = "address" THEN 0 .. MaxAddress ELSE Bytes32

\* An address becomes a word by zeros in front of it ...
toBytes32(type, value) == value

\* Mutant: every type is read back as an address.
fromBytes32Narrowed(type, word) == word % (MaxAddress + 1)

\* ... and a word an address by dropping what is in front.
fromBytes32(type, word) == IF type = "address" THEN word % (MaxAddress + 1) ELSE word

-----------------------------------------------------------------------------
(* The set.  The array is counted from one here and from zero in the code.   *)

EmptySet == [_values |-> <<>>, _indexes |-> [v \in Bytes32 |-> 0]]

length(set) == Len(set._values)

contains(set, value) == set._indexes[value] # 0

at(set, index) == set._values[index + 1]

\* All of them; of a set of addresses, the words are taken for addresses as they
\* are.
values(set) == set._values

\* Mutant: a value is pushed whether or not it is there.
addAgain(set, value) ==
  LET pushed == Append(set._values, value)
  IN  [_values |-> pushed,
       _indexes |-> [set._indexes EXCEPT ![value] = Len(pushed)]]

add(set, value) ==
  IF contains(set, value) THEN set
  ELSE LET pushed == Append(set._values, value)
       IN  [_values |-> pushed,
            _indexes |-> [set._indexes EXCEPT ![value] = Len(pushed)]]

\* The last value takes the place of the removed one.
lastMoved(set, valueIndex) ==
  LET lastValue == set._values[length(set)]
  IN  IF valueIndex = length(set) THEN set
      ELSE [_values |-> [set._values EXCEPT ![valueIndex] = lastValue],
            _indexes |-> [set._indexes EXCEPT ![lastValue] = valueIndex]]

\* Mutant: the moved value keeps its old index.
removeWithoutReindex(set, value) ==
  LET moved == [lastMoved(set, set._indexes[value]) EXCEPT !._indexes = set._indexes]
  IN  IF ~ contains(set, value) THEN set
      ELSE [_values |-> SubSeq(moved._values, 1, length(set) - 1),
            _indexes |-> [moved._indexes EXCEPT ![value] = 0]]

remove(set, value) ==
  LET moved == lastMoved(set, set._indexes[value])
  IN  IF ~ contains(set, value) THEN set
      ELSE [_values |-> SubSeq(moved._values, 1, length(set) - 1),
            _indexes |-> [moved._indexes EXCEPT ![value] = 0]]
=============================================================================
