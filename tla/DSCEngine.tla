------------------------------ MODULE DSCEngine ------------------------------
(***************************************************************************)
(* DSCEngine together with everything its transactions read and write: the *)
(* collateral tokens, the DSC token it owns and the price feeds.  An       *)
(* action is one transaction: it takes the whole effect of the call, or    *)
(* the call reverts and the action is not enabled.  The functions that     *)
(* other functions call are conjunctions with a lower-case name; they say  *)
(* what they change and leave the rest to their caller.                    *)
(*                                                                         *)
(* The collateral tokens are ERC20s without callbacks (WETH, WBTC, the     *)
(* mocks), so no other call gets between the steps of a transaction.  Only *)
(* their allowances to the engine are kept.                                *)
(***************************************************************************)
EXTENDS CollateralMath, ERC20, OracleLib, Sequences, FiniteSets

CONSTANTS
  User,                   \* the accounts that use the engine
  Engine,                 \* the address of the contract
  Pool,                   \* i_poolAddress, the DSCPool
  ZeroAddress,
  Token,                  \* the collateral tokens, and tokens that are none
  s_collateralTokens,     \* the tokens the engine was deployed with
  TransferFails,          \* tokens whose transfer returns false
  TransferFromFails,      \* tokens whose transferFrom returns false
  CollateralAmounts,      \* the amounts users pass to the engine
  DscAmounts,
  TransferAmounts,        \* and to the tokens
  ApprovalAmounts,
  DscSpenders,            \* the accounts that get approved for DSC
  InitialCollateral,      \* what each account owns of each token at first
  InitialAllowance        \* what each user has approved to the engine at first

Holder == User \cup {Engine, Pool}

Collateral == Range(s_collateralTokens)

ASSUME EngineAssumption ==
  /\ IsFiniteSet(User)
  /\ Engine \notin User \cup {Pool}
  /\ Pool \notin User
  /\ ZeroAddress \notin Holder
  /\ s_collateralTokens \in Seq(Token)
  /\ Feed = Collateral
  /\ TransferFails \cup TransferFromFails \subseteq Token
  /\ CollateralAmounts \cup DscAmounts \subseteq Word
  /\ TransferAmounts \cup ApprovalAmounts \subseteq Word
  /\ DscSpenders \subseteq Holder
  /\ InitialAllowance \in Word

ASSUME CollateralAssumption ==
  /\ InitialCollateral \in [Token -> [Holder -> Word]]
  /\ \A t \in Token : SumFunction(InitialCollateral[t]) \in Word

VARIABLES
  s_collateralDeposited,  \* user -> token -> amount
  s_DscMinted,            \* user -> debt
  collateralBalances,     \* token -> holder -> amount
  collateralAllowances,   \* token -> user -> Engine -> amount
  dscBalances,
  dscAllowances,
  dscTotalSupply,
  dscOwner

engineVars == <<s_collateralDeposited, s_DscMinted>>
collateralVars == <<collateralBalances, collateralAllowances>>
dscVars == <<dscBalances, dscAllowances, dscTotalSupply, dscOwner>>
vars == <<engineVars, collateralVars, dscVars, oracleVars>>

DSC == INSTANCE DecentralisedStableCoin WITH
         Account <- Holder, Deployer <- Engine, Amounts <- TransferAmounts,
         Spenders <- DscSpenders, balances <- dscBalances,
         allowances <- dscAllowances, totalSupply <- dscTotalSupply,
         owner <- dscOwner

\* The state the deployment leaves behind: the engine owns the DSC token.
Init ==
  /\ s_collateralDeposited = [u \in User |-> [t \in Token |-> 0]]
  /\ s_DscMinted = [u \in User |-> 0]
  /\ collateralBalances = InitialCollateral
  /\ collateralAllowances =
       [t \in Token |-> [u \in User |-> [s \in {Engine} |-> InitialAllowance]]]
  /\ dscBalances = [h \in Holder |-> 0]
  /\ dscAllowances =
       [h \in Holder |-> [s \in Holder |->
          IF h \in User /\ s = Engine THEN InitialAllowance ELSE 0]]
  /\ dscTotalSupply = 0
  /\ dscOwner = Engine
  /\ answer \in [Feed -> Answers]
  /\ updatedAt = [t \in Feed |-> 0]
  /\ now = 0

-----------------------------------------------------------------------------
(* What an account is worth, and its health factor. *)

getUsdValue(token, amount) == usdValue(answer[token], amount)

\* Mutant: the price is read with latestRoundData.
getStaleUsdValueReturns(token, amount) == usdValueReturns(answer[token], amount)

getUsdValueReturns(token, amount) ==
  /\ stalePriceCheckReturns(token)
  /\ usdValueReturns(answer[token], amount)

\* The loop over s_collateralTokens: a token that is listed twice counts twice,
\* and a feed is read whether or not the user has anything of its token.
depositValues(user) ==
  [i \in DOMAIN s_collateralTokens |->
     getUsdValue(s_collateralTokens[i],
                 s_collateralDeposited[user][s_collateralTokens[i]])]

getAccountCollateralValue(user) == SumFunction(depositValues(user))

getAccountCollateralValueReturns(user) ==
  /\ \A t \in Collateral : getUsdValueReturns(t, s_collateralDeposited[user][t])
  /\ Fits(getAccountCollateralValue(user))

healthFactor(user) ==
  IF s_DscMinted[user] = 0
  THEN MaxUint
  ELSE calculateHealthFactor(s_DscMinted[user], getAccountCollateralValue(user))

\* Mutant: an account without debt is no case of its own.
healthFactorDividesByDebt(user) ==
  /\ getAccountCollateralValueReturns(user)
  /\ calculateHealthFactorReturns(s_DscMinted[user], getAccountCollateralValue(user))

healthFactorReturns(user) ==
  /\ getAccountCollateralValueReturns(user)
  /\ \/ s_DscMinted[user] = 0
     \/ calculateHealthFactorReturns(s_DscMinted[user],
                                     getAccountCollateralValue(user))

\* _revertIfHealthFactorIsBroken does not revert.
healthFactorIsFine(user) ==
  /\ healthFactorReturns(user)
  /\ healthFactor(user) >= MIN_HEALTH_FACTOR

-----------------------------------------------------------------------------
(* The functions the transactions are made of.  A health factor that is    *)
(* checked after a change is the health factor of the next state.          *)

depositCollateral(sender, token, amount) ==
  /\ amount > 0
  /\ token \in Collateral
  /\ Fits(s_collateralDeposited[sender][token] + amount)
  /\ token \notin TransferFromFails
  /\ CanSpend(collateralAllowances[token], sender, Engine, amount)
  /\ CanTransfer(collateralBalances[token], sender, amount)
  /\ s_collateralDeposited' =
       [s_collateralDeposited EXCEPT ![sender][token] = @ + amount]
  /\ collateralAllowances' =
       [collateralAllowances EXCEPT ![token] = Spent(@, sender, Engine, amount)]
  /\ collateralBalances' =
       [collateralBalances EXCEPT ![token] = Transferred(@, sender, Engine, amount)]

\* Mutant: the health factor is checked before the debt is recorded.
mintDscCheckedBefore(sender, amount) ==
  /\ healthFactorIsFine(sender)
  /\ amount > 0
  /\ s_DscMinted' = [s_DscMinted EXCEPT ![sender] = @ + amount]
  /\ DSC!Mint(Engine, sender, amount)

\* Mutant: the debt is overwritten.
mintDscOverwrites(sender, amount) ==
  /\ amount > 0
  /\ s_DscMinted' = [s_DscMinted EXCEPT ![sender] = amount]
  /\ healthFactorIsFine(sender)'
  /\ DSC!Mint(Engine, sender, amount)

mintDsc(sender, amount) ==
  /\ amount > 0
  /\ Fits(s_DscMinted[sender] + amount)
  /\ s_DscMinted' = [s_DscMinted EXCEPT ![sender] = @ + amount]
  /\ healthFactorIsFine(sender)'
  /\ DSC!Mint(Engine, sender, amount)

\* Mutant: the engine keeps the tokens it has pulled in.
keepTokens(dscFrom, amount) == DSC!TransferFrom(Engine, dscFrom, Engine, amount)

\* The token calls of _burnDsc: transferFrom to the engine, then burn.
burnTokens(dscFrom, amount) ==
  /\ CanSpend(dscAllowances, dscFrom, Engine, amount)
  /\ CanTransfer(dscBalances, dscFrom, amount)
  /\ dscOwner = Engine
  /\ dscAllowances' = Spent(dscAllowances, dscFrom, Engine, amount)
  /\ dscBalances' =
       Debited(Transferred(dscBalances, dscFrom, Engine, amount), Engine, amount)
  /\ dscTotalSupply' = dscTotalSupply - amount
  /\ UNCHANGED dscOwner

\* Mutant: the debt is not compared with the amount.
burnDscUnchecked(onBehalfOf, dscFrom, amount) ==
  /\ amount > 0
  /\ s_DscMinted' = [s_DscMinted EXCEPT ![onBehalfOf] = @ - amount]
  /\ burnTokens(dscFrom, amount)

\* Mutant: any payment clears the debt.
burnDscClearsDebt(onBehalfOf, dscFrom, amount) ==
  /\ amount > 0
  /\ s_DscMinted[onBehalfOf] >= amount
  /\ s_DscMinted' = [s_DscMinted EXCEPT ![onBehalfOf] = 0]
  /\ burnTokens(dscFrom, amount)

\* _burnDsc
burnDsc(onBehalfOf, dscFrom, amount) ==
  /\ amount > 0
  /\ s_DscMinted[onBehalfOf] >= amount
  /\ s_DscMinted' = [s_DscMinted EXCEPT ![onBehalfOf] = @ - amount]
  /\ burnTokens(dscFrom, amount)

\* A token that is not listed needs no check here: nobody has a deposit of it.
redeemCollateral(from, to, token, amount) ==
  /\ s_collateralDeposited[from][token] >= amount
  /\ token \notin TransferFails
  /\ CanTransfer(collateralBalances[token], Engine, amount)
  /\ s_collateralDeposited' =
       [s_collateralDeposited EXCEPT ![from][token] = @ - amount]
  /\ collateralBalances' =
       [collateralBalances EXCEPT ![token] = Transferred(@, Engine, to, amount)]

\* Two transfers out of the engine, and what they leave of the deposit.
payOut(user, liquidator, token, toLiquidator, toPool, left) ==
  LET paid == Transferred(collateralBalances[token], Engine, liquidator, toLiquidator)
  IN  /\ token \notin TransferFails
      /\ CanTransfer(collateralBalances[token], Engine, toLiquidator)
      /\ CanTransfer(paid, Engine, toPool)
      /\ s_collateralDeposited' =
           [s_collateralDeposited EXCEPT ![user][token] = left]
      /\ collateralBalances' =
           [collateralBalances EXCEPT ![token] = Transferred(paid, Engine, Pool, toPool)]

\* Mutants: the rest stays with the user, it is sent and stays as well, it is not
\* sent, and the pool receives the deposit as it was before the first transfer.
seizeWithoutSweep(user, liquidator, token, amount) ==
  /\ s_collateralDeposited[user][token] >= amount
  /\ payOut(user, liquidator, token, amount, 0,
            s_collateralDeposited[user][token] - amount)

seizeKeepsDeposit(user, liquidator, token, amount) ==
  LET rest == s_collateralDeposited[user][token] - amount
  IN  rest >= 0 /\ payOut(user, liquidator, token, amount, rest, rest)

seizeLosesRest(user, liquidator, token, amount) ==
  /\ s_collateralDeposited[user][token] >= amount
  /\ payOut(user, liquidator, token, amount, 0, 0)

seizeWithStaleDeposit(user, liquidator, token, amount) ==
  LET deposit == s_collateralDeposited[user][token]
  IN  deposit >= amount /\ payOut(user, liquidator, token, amount, deposit, 0)

\* _redeemCollateral to the liquidator and then _sentAmountLeftToDscPool, which
\* sends the pool all that is left of the user's deposit of this token.
seizeCollateral(user, liquidator, token, amount) ==
  LET rest == s_collateralDeposited[user][token] - amount
  IN  rest >= 0 /\ payOut(user, liquidator, token, amount, rest, 0)

-----------------------------------------------------------------------------
(* The transactions *)

DepositCollateral(sender, token, amount) ==
  /\ depositCollateral(sender, token, amount)
  /\ UNCHANGED <<s_DscMinted, dscVars, oracleVars>>

MintDsc(sender, amount) ==
  /\ UNCHANGED <<s_collateralDeposited, collateralVars, oracleVars>>
  /\ mintDsc(sender, amount)

DepositCollateralAndMintDsc(sender, token, amountCollateral, amountDscToMint) ==
  /\ depositCollateral(sender, token, amountCollateral)
  /\ UNCHANGED oracleVars
  /\ mintDsc(sender, amountDscToMint)

BurnDsc(sender, amount) ==
  /\ burnDsc(sender, sender, amount)
  /\ UNCHANGED <<s_collateralDeposited, collateralVars, oracleVars>>

RedeemCollateral(sender, token, amount) ==
  /\ amount > 0
  /\ redeemCollateral(sender, sender, token, amount)
  /\ UNCHANGED <<s_DscMinted, collateralAllowances, dscVars, oracleVars>>
  /\ healthFactorIsFine(sender)'

RedeemCollateralForDsc(sender, token, amountCollateral, amountDscToBurn) ==
  /\ burnDsc(sender, sender, amountDscToBurn)
  /\ amountCollateral > 0
  /\ redeemCollateral(sender, sender, token, amountCollateral)
  /\ UNCHANGED <<collateralAllowances, oracleVars>>
  /\ healthFactorIsFine(sender)'

\* The two changes of a liquidation.  The price that fixes the liquidator's share
\* is read without the stale check.
coverDebt(liquidator, token, user, debtToCover) ==
  /\ debtToCover > 0
  /\ token \in Collateral
  /\ totalCollateralToRedeemReturns(answer[token], debtToCover)
  /\ seizeCollateral(user, liquidator, token,
                     totalCollateralToRedeem(answer[token], debtToCover))
  /\ burnDsc(user, liquidator, debtToCover)
  /\ UNCHANGED <<collateralAllowances, oracleVars>>

\* Mutants: an account at exactly MIN_HEALTH_FACTOR can be liquidated, and the
\* health factor of the user is not compared afterwards.
LiquidateAtMinimum(liquidator, token, user, debtToCover) ==
  /\ healthFactorReturns(user)
  /\ healthFactor(user) <= MIN_HEALTH_FACTOR
  /\ coverDebt(liquidator, token, user, debtToCover)
  /\ healthFactor(user)' > healthFactor(user)
  /\ healthFactorIsFine(liquidator)'

LiquidateWithoutImprovement(liquidator, token, user, debtToCover) ==
  /\ healthFactorReturns(user)
  /\ healthFactor(user) < MIN_HEALTH_FACTOR
  /\ coverDebt(liquidator, token, user, debtToCover)
  /\ healthFactorIsFine(liquidator)'

Liquidate(liquidator, token, user, debtToCover) ==
  /\ healthFactorReturns(user)
  /\ healthFactor(user) < MIN_HEALTH_FACTOR
  /\ coverDebt(liquidator, token, user, debtToCover)
  /\ healthFactorReturns(user)'
  /\ healthFactor(user)' > healthFactor(user)
  /\ healthFactorIsFine(liquidator)'

-----------------------------------------------------------------------------
(* What else happens to the tokens: their holders use them.  An approval   *)
(* also stands for increaseAllowance and decreaseAllowance.                *)

ApproveCollateral(sender, token, amount) ==
  /\ collateralAllowances' =
       [collateralAllowances EXCEPT ![token] = Approved(@, sender, Engine, amount)]
  /\ UNCHANGED <<engineVars, collateralBalances, dscVars, oracleVars>>

TransferCollateral(sender, to, token, amount) ==
  /\ token \notin TransferFails
  /\ CanTransfer(collateralBalances[token], sender, amount)
  /\ collateralBalances' =
       [collateralBalances EXCEPT ![token] = Transferred(@, sender, to, amount)]
  /\ UNCHANGED <<engineVars, collateralAllowances, dscVars, oracleVars>>

UseDsc(sender) ==
  /\ \E to \in Holder :
       \/ \E amount \in TransferAmounts :
            \/ DSC!Transfer(sender, to, amount)
            \/ \E from \in User : DSC!TransferFrom(sender, from, to, amount)
            \/ to \in User /\ DSC!BurnFrom(sender, to, amount)
       \/ \E amount \in ApprovalAmounts :
            to \in DscSpenders /\ DSC!Approve(sender, to, amount)
  /\ UNCHANGED <<engineVars, collateralVars, oracleVars>>

EngineStep(sender) ==
  \/ \E token \in Token, amount \in CollateralAmounts :
       \/ DepositCollateral(sender, token, amount)
       \/ RedeemCollateral(sender, token, amount)
       \/ \E dsc \in DscAmounts :
            \/ DepositCollateralAndMintDsc(sender, token, amount, dsc)
            \/ RedeemCollateralForDsc(sender, token, amount, dsc)
  \/ \E dsc \in DscAmounts :
       \/ MintDsc(sender, dsc)
       \/ BurnDsc(sender, dsc)
       \/ \E token \in Token, user \in User : Liquidate(sender, token, user, dsc)

TokenStep(sender) ==
  \/ \E token \in Token :
       \/ \E amount \in ApprovalAmounts : ApproveCollateral(sender, token, amount)
       \/ \E to \in Holder, amount \in TransferAmounts :
            TransferCollateral(sender, to, token, amount)
  \/ UseDsc(sender)

FeedStep ==
  /\ OracleStep
  /\ UNCHANGED <<engineVars, collateralVars, dscVars>>

Next ==
  \/ \E sender \in User : EngineStep(sender) \/ TokenStep(sender)
  \/ FeedStep

Spec == Init /\ [][Next]_vars

-----------------------------------------------------------------------------

\* Every mapping of the engine and every table entry of the tokens is a
\* uint256, the subtractions the tokens leave unchecked included.
TypeOK ==
  /\ s_collateralDeposited \in [User -> [Token -> Word]]
  /\ s_DscMinted \in [User -> Word]
  /\ collateralBalances \in [Token -> [Holder -> Word]]
  /\ collateralAllowances \in [Token -> [User -> [{Engine} -> Word]]]
  /\ DSC!TypeOK
  /\ OracleTypeOK
=============================================================================
