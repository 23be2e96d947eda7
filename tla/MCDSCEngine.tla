---------------------------- MODULE MCDSCEngine ------------------------------
(* Small instances of DSCEngine.  With PRECISION = 10 and                  *)
(* ADDITIONAL_FEED_PRECISION = 5 a dollar is an answer of 2, and a uint256 *)
(* ends at 9999.                                                           *)
EXTENDS DSCEngineAvailability, TLC

CONSTANTS weth, wbtc, doge, InitialWallet

OneToken == <<weth>>
TwoTokens == <<weth, wbtc>>

\* A negative answer, no price, one and a half and two dollars.
ExtremeAnswers == {-1, 0, 3, 4}

Wallets ==
  [t \in Token |-> [h \in Holder |-> IF h \in User THEN InitialWallet ELSE 0]]

Symmetry == Permutations(User)
=============================================================================
