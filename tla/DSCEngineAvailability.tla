------------------------ MODULE DSCEngineAvailability -------------------------
(***************************************************************************)
(* What the engine must let its accounts do: transactions that go through  *)
(* in every state, whatever happened before.                               *)
(***************************************************************************)
EXTENDS DSCEngineProperties

\* Whoever has no debt, or has the DSC to pay it, gets each of its deposits out
\* in full, whatever its health factor and whatever others did - also a deposit
\* whose value overflows, because the value is only computed afterwards.
PositionCanBeClosed ==
  \A u \in User, t \in Collateral \ TransferFails :
    LET deposit == s_collateralDeposited[u][t]
        debt == s_DscMinted[u]
    IN  /\ deposit > 0
        /\ restIsReadable(u, t)
        => /\ debt = 0 => ENABLED RedeemCollateral(u, t, deposit)
           /\ /\ debt > 0
              /\ dscBalances[u] >= debt
              /\ dscAllowances[u][Engine] >= debt
              => ENABLED RedeemCollateralForDsc(u, t, deposit, debt)

\* An account below the minimum can be liquidated as long as one of its deposits
\* is worth 110 percent of its debt: the roundings of the share, the payment of
\* the rest to the pool and the checks at the end never stand in the way of a
\* liquidator who has the DSC and no debt.
LiquidatableFrom110Percent ==
  \A user, liquidator \in User, token \in Collateral \ TransferFails :
    LET debt == s_DscMinted[user]
    IN  /\ healthFactorReturns(user)
        /\ healthFactor(user) < MIN_HEALTH_FACTOR
        /\ 100 * getUsdValue(token, s_collateralDeposited[user][token]) >= 110 * debt
        /\ s_DscMinted[liquidator] = 0
        /\ getAccountCollateralValueReturns(liquidator)
        /\ dscBalances[liquidator] >= debt
        /\ dscAllowances[liquidator][Engine] >= debt
        => ENABLED Liquidate(liquidator, token, user, debt)
=============================================================================
