------------------------------- MODULE SafeCast -------------------------------
(***************************************************************************)
(* SafeCast of OpenZeppelin: the conversions between integer types that    *)
(* revert where Solidity's own would wrap.  A type is given by the largest *)
(* number it holds, its lowest is then 0 or -max - 1.                      *)
(***************************************************************************)
EXTENDS Integers

\* uintN(value): the upper bits are dropped.
uint(value, max) == value % (max + 1)

\* intN(value): the upper bits are dropped, and the first of the rest is the sign.
int(value, max) == ((value + max + 1) % (2 * max + 2)) - max - 1

toUintDownCastReturns(value, max) == value <= max
toUintDownCast(value, max) == uint(value, max)

toIntDownCastReturns(value, max) == int(value, max) = value
toIntDownCast(value, max) == int(value, max)

\* Of a uint to the int of the same length, whose largest number is max.
toIntReturns(value, max) == value <= max
toInt(value, max) == int(value, max)

\* Of an int to the uint of the same length, whose largest number is 2 * max + 1.
toUintReturns(value) == value >= 0
toUint(value, max) == uint(value, 2 * max + 1)
=============================================================================
