------------------------------- MODULE Uint256 -------------------------------
(***************************************************************************)
(* Solidity's uint256 with checked arithmetic (pragma 0.8.18): an addition *)
(* or a multiplication whose result is not a word, a subtraction below     *)
(* zero and a division by zero revert the transaction.  A type conversion  *)
(* is not checked, it wraps.  The largest word is a parameter, so that TLC *)
(* can reach the overflows.                                                *)
(***************************************************************************)
EXTENDS Integers

CONSTANT MaxUint        \* type(uint256).max

ASSUME MaxUintAssumption == MaxUint \in Nat \ {0}

Word == 0 .. MaxUint

\* A checked uint256 operation reverts when its result is not a word.
Fits(x) == x \in Word

\* uint256(x) of an int256: two's complement, so a negative number is huge.
AsUint(x) == x % (MaxUint + 1)
=============================================================================
