--------------------------- MODULE DSCEngineClaims ---------------------------
(***************************************************************************)
(* What the comments and the tests of the repository say of DSCEngine and  *)
(* the code does not do.  Each claim is refuted by a run of its own.       *)
(***************************************************************************)
EXTENDS MCDSCEngine

\* "You can partially liquidate a user" (DSCEngine.sol:200): whenever
\* another account can cover the whole debt out of one token, it can also cover
\* some part of it.
PartialLiquidationPossible ==
  \A user, liquidator \in User, token \in Collateral :
    /\ liquidator # user
    /\ ENABLED Liquidate(liquidator, token, user, s_DscMinted[user])
    => \E part \in 1 .. s_DscMinted[user] - 1 :
         ENABLED Liquidate(liquidator, token, user, part)

\* "A known bug would be if the protocol were 100% or less collateralized"
\* (DSCEngine.sol:203): above that a liquidator with the DSC, and without a debt
\* of its own, can liquidate an account that is below the minimum.
LiquidatableAbove100Percent ==
  \A user, liquidator \in User, token \in Collateral :
    /\ healthFactorReturns(user)
    /\ healthFactor(user) < MIN_HEALTH_FACTOR
    /\ getAccountCollateralValue(user) > s_DscMinted[user]
    /\ hasOnly(user, token)
    /\ s_DscMinted[liquidator] = 0
    /\ dscBalances[liquidator] >= s_DscMinted[user]
    => ENABLED Liquidate(liquidator, token, user, s_DscMinted[user])
=============================================================================
