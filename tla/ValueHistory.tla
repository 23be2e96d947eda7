----------------------------- MODULE ValueHistory -----------------------------
(***************************************************************************)
(* A value that changes over time and remembers what it was: at each key,  *)
(* and from there on until told otherwise.  What it was before the last    *)
(* key it was written at is final.                                         *)
(***************************************************************************)
EXTENDS Integers

CONSTANTS
  Key,        \* the points in time, natural numbers
  Value       \* what it can be, 0 at first

VARIABLES
  valueAt,    \* key -> value
  latestKey,  \* the last key written at, -1 before the first
  returned    \* what the last write returned: the value before it and after it

vars == <<valueAt, latestKey, returned>>

Init ==
  /\ valueAt = [k \in Key |-> 0]
  /\ latestKey = -1
  /\ returned = <<0, 0>>

Push(key, value) ==
  /\ key >= latestKey
  /\ latestKey' = key
  /\ valueAt' = [k \in Key |-> IF k >= key THEN value ELSE valueAt[k]]
  /\ returned' = <<valueAt[key], value>>

Next == \E key \in Key, value \in Value : Push(key, value)

Spec == Init /\ [][Next]_vars
=============================================================================
