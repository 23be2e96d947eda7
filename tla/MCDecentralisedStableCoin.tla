--------------------- MODULE MCDecentralisedStableCoin ----------------------
(* The DSC token with two accounts and two-bit words: every amount that    *)
(* overflows, underflows or is the unlimited allowance is within reach.    *)
EXTENDS DecentralisedStableCoin

MCAmounts == Word
=============================================================================
