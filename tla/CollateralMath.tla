--------------------------- MODULE CollateralMath ----------------------------
(***************************************************************************)
(* The arithmetic of DSCEngine: dollar values of collateral, collateral    *)
(* worth a number of dollars, the health factor and the liquidation bonus. *)
(* Every computation f comes with fReturns: whether its checked arithmetic *)
(* lets it return at all.                                                  *)
(*                                                                         *)
(* PRECISION and ADDITIONAL_FEED_PRECISION are 1e18 and 1e10 in the code;  *)
(* they are parameters here, and a price of one dollar is the answer       *)
(* PRECISION \div ADDITIONAL_FEED_PRECISION.  All divisions round down.    *)
(***************************************************************************)
EXTENDS Uint256

CONSTANTS
  PRECISION,
  ADDITIONAL_FEED_PRECISION

ASSUME PrecisionAssumption ==
  /\ PRECISION \in Nat \ {0}
  /\ ADDITIONAL_FEED_PRECISION \in Nat \ {0}

LIQUIDATION_THRESHOLD == 50
LIQUIDATION_PRECISION == 100
LIQUIDATION_BONUS == 10
MIN_HEALTH_FACTOR == PRECISION

-----------------------------------------------------------------------------

\* The price of one token in dollars with 18 decimals.  The answer of a feed
\* is an int256: a negative one wraps around before it is multiplied.
scaledPrice(answer) == AsUint(answer) * ADDITIONAL_FEED_PRECISION

\* getUsdValue, once the feed has answered.
usdValue(answer, amount) == (scaledPrice(answer) * amount) \div PRECISION

usdValueReturns(answer, amount) ==
  /\ Fits(scaledPrice(answer))
  /\ Fits(scaledPrice(answer) * amount)

\* getTokenAmountFromUsd, once the feed has answered.
tokenAmountFromUsd(answer, usdAmountInWei) ==
  (usdAmountInWei * PRECISION) \div scaledPrice(answer)

tokenAmountFromUsdReturns(answer, usdAmountInWei) ==
  /\ Fits(usdAmountInWei * PRECISION)
  /\ Fits(scaledPrice(answer))
  /\ scaledPrice(answer) # 0

-----------------------------------------------------------------------------

collateralAdjustedForThreshold(collateralValueInUsd) ==
  (collateralValueInUsd * LIQUIDATION_THRESHOLD) \div LIQUIDATION_PRECISION

calculateHealthFactor(totalDscMinted, collateralValueInUsd) ==
  (collateralAdjustedForThreshold(collateralValueInUsd) * PRECISION)
    \div totalDscMinted

calculateHealthFactorReturns(totalDscMinted, collateralValueInUsd) ==
  /\ Fits(collateralValueInUsd * LIQUIDATION_THRESHOLD)
  /\ Fits(collateralAdjustedForThreshold(collateralValueInUsd) * PRECISION)
  /\ totalDscMinted # 0

-----------------------------------------------------------------------------

\* Mutant: the bonus is the threshold.
bonusCollateralOfThreshold(tokenAmount) ==
  (tokenAmount * LIQUIDATION_THRESHOLD) \div LIQUIDATION_PRECISION

bonusCollateral(tokenAmount) ==
  (tokenAmount * LIQUIDATION_BONUS) \div LIQUIDATION_PRECISION

\* What a liquidator gets out of the collateral for covering a debt.
totalCollateralToRedeem(answer, debtToCover) ==
  LET tokenAmount == tokenAmountFromUsd(answer, debtToCover)
  IN  tokenAmount + bonusCollateral(tokenAmount)

totalCollateralToRedeemReturns(answer, debtToCover) ==
  /\ tokenAmountFromUsdReturns(answer, debtToCover)
  /\ Fits(tokenAmountFromUsd(answer, debtToCover) * LIQUIDATION_BONUS)
  /\ Fits(totalCollateralToRedeem(answer, debtToCover))
=============================================================================
