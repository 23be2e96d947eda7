------------------------- MODULE DSCEngineProperties -------------------------
(***************************************************************************)
(* What makes DSCEngine correct: the books agree with the tokens, DSC is   *)
(* backed by debt and the debt by collateral, risk is only taken by        *)
(* healthy accounts at good prices, and liquidations take what they may.   *)
(***************************************************************************)
EXTENDS DSCEngine

totalDeposited(token) ==
  SumFunction([u \in User |-> s_collateralDeposited[u][token]])

totalDebt == SumFunction(s_DscMinted)

surplus(token) == collateralBalances[token][Engine] - totalDeposited(token)

engineCollateralValue ==
  SumFunction([i \in DOMAIN s_collateralTokens |->
     getUsdValue(s_collateralTokens[i],
                 collateralBalances[s_collateralTokens[i]][Engine])])

pricesAreReadable == \A u \in User : getAccountCollateralValueReturns(u)

\* The engine can read the prices, and value what the user has besides this token.
restIsReadable(user, token) ==
  /\ \A t \in Collateral :
       getUsdValueReturns(t, IF t = token THEN 0 ELSE s_collateralDeposited[user][t])
  /\ Fits(getAccountCollateralValue(user)
            - getUsdValue(token, s_collateralDeposited[user][token]))

\* The health factor as a reader of the documentation understands it: the
\* collateral is worth at least twice the debt.
isHealthy(user) == 2 * s_DscMinted[user] <= getAccountCollateralValue(user)

\* The other collateral of a user, besides this token, is nothing.
hasOnly(user, token) ==
  \A t \in Collateral \ {token} : s_collateralDeposited[user][t] = 0

\* This step is a liquidation.
isLiquidated(user, liquidator, token) ==
  /\ s_DscMinted'[user] < s_DscMinted[user]
  /\ Liquidate(liquidator, token, user, s_DscMinted[user] - s_DscMinted'[user])

-----------------------------------------------------------------------------

\* The engine holds at least the collateral its accounts add up to, for every
\* token: no sequence of deposits, redemptions and liquidations (which pay the
\* liquidator and the pool out of one deposit) pays the same token out twice.
CollateralBacked == \A t \in Token : totalDeposited(t) <= collateralBalances[t][Engine]

\* Every DSC in circulation is some account's debt: mint and burn go through
\* the engine, and what else can burn (burnFrom) only takes away.
DscBackedByDebt == dscTotalSupply <= totalDebt

\* As long as nobody can be liquidated, the collateral in the engine, valued the
\* way getUsdValue rounds it, is worth twice the DSC in circulation.
SolventWhileHealthy ==
  (\A u \in User : s_DscMinted[u] = 0 \/ healthFactorIsFine(u))
    => engineCollateralValue >= 2 * dscTotalSupply

\* A transaction that raises a debt or lowers a deposit leaves the account
\* healthy - unless it liquidates it, and then its health factor has risen.
RiskIncreaseEndsHealthy ==
  [][\A u \in User :
       \/ s_DscMinted'[u] > s_DscMinted[u]
       \/ \E t \in Token : s_collateralDeposited'[u][t] < s_collateralDeposited[u][t]
       => \/ healthFactorIsFine(u)'
          \/ /\ ~isHealthy(u)
             /\ s_DscMinted'[u] < s_DscMinted[u]
             /\ healthFactor(u)' > healthFactor(u)]_vars

\* No transaction, of whatever account, makes a healthy account unhealthy: only
\* the feeds do.
OnlyPricesBreakHealth ==
  [][\A u \in User : isHealthy(u) /\ UNCHANGED answer => isHealthy(u)']_vars

\* While an account is healthy nobody else gets its collateral: what leaves its
\* deposit arrives in its own wallet.
HealthyKeepsCollateral ==
  [][\A u \in User, t \in Token :
       /\ isHealthy(u)
       /\ s_collateralDeposited'[u][t] < s_collateralDeposited[u][t]
       => collateralBalances'[t][u] - collateralBalances[t][u]
            = s_collateralDeposited[u][t] - s_collateralDeposited'[u][t]]_vars

\* The engine keeps to its books: its holding of a token moves with the deposits,
\* and only a transfer that passes the engine by leaves a surplus behind.
SurplusOnlyFromDonation ==
  [][\A t \in Token :
       /\ surplus(t)' >= surplus(t)
       /\ surplus(t)' # surplus(t) => UNCHANGED engineVars]_vars

\* Debt that no DSC stands against any more appears only through burnFrom, which
\* the engine does not see; the engine never changes one without the other.
DebtGapOnlyFromBurnFrom ==
  [][LET gap == totalDebt - dscTotalSupply
     IN  /\ gap' >= gap
         /\ gap' # gap => UNCHANGED engineVars]_vars

\* A price that is older than TIMEOUT, comes from the future or is negative (its
\* conversion to uint256 overflows) stops, on any listed feed, every transaction
\* that could make an account riskier - also that of an account that has none of
\* the token, or no debt.
RiskNeedsGoodPrices ==
  [][(\/ \E u \in User : s_DscMinted'[u] > s_DscMinted[u]
      \/ \E u \in User, t \in Token :
           s_collateralDeposited'[u][t] < s_collateralDeposited[u][t])
     => \A t \in Collateral :
          /\ now - updatedAt[t] \in 0 .. TIMEOUT
          /\ answer[t] >= 0]_vars

\* What is left of the seized deposit goes to the pool, so a user with a single
\* kind of collateral has none afterwards: the liquidation goes through only if
\* it covers the whole debt.
SingleCollateralLiquidationIsFull ==
  [][\A u, l \in User, t \in Collateral :
       isLiquidated(u, l, t) /\ hasOnly(u, t) => s_DscMinted'[u] = 0]_vars

\* A liquidator never gets more than the debt it covers and the ten percent on
\* top, at the price of the feed, all roundings included.
LiquidatorPaidAtMostTheBonus ==
  [][\A u, l \in User, t \in Collateral :
       isLiquidated(u, l, t) /\ l # u
         => 100 * (collateralBalances'[t][l] - collateralBalances[t][l])
                * scaledPrice(answer[t])
            <= 110 * (s_DscMinted[u] - s_DscMinted'[u]) * PRECISION]_vars

-----------------------------------------------------------------------------

\* The engine seen as accounts with collateral and debt.
Promise == INSTANCE CollateralisedDebt WITH
  Account <- User,
  deposit <- s_collateralDeposited,
  debt <- s_DscMinted,
  vault <- [t \in Token |-> collateralBalances[t][Engine]],
  issued <- dscTotalSupply,
  healthy <- {u \in User : healthFactorIsFine(u)}

\* The engine implements CollateralisedDebt: whatever is called, in any order and
\* at any price, an account only gets riskier if it passes the health check in
\* the end or is liquidated, and the tokens stay ahead of the books.
KeepsPromise == Promise!Spec
=============================================================================
