----------------------------- MODULE KeyValueStore -----------------------------
(***************************************************************************)
(* What an enumerable map promises: it stores the last value set for every *)
(* key that was not removed since, and says of every write whether the key *)
(* came or went.  Nothing in it is ordered.                                *)
(***************************************************************************)
CONSTANTS Key, Value

VARIABLES
  store,      \* key -> value, for the keys that are there
  call        \* the last write, with its answer

vars == <<store, call>>

Init == store = <<>> /\ call = <<>>

Set(key, value) ==
  /\ store' = [k \in DOMAIN store \cup {key} |-> IF k = key THEN value ELSE store[k]]
  /\ call' = <<"set", key, value, key \notin DOMAIN store>>

Remove(key) ==
  /\ store' = [k \in DOMAIN store \ {key} |-> store[k]]
  /\ call' = <<"remove", key, key \in DOMAIN store>>

Next == \E key \in Key : (\E value \in Value : Set(key, value)) \/ Remove(key)

Spec == Init /\ [][Next]_vars
=============================================================================
