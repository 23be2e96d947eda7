--------------------------- MODULE DSCEngineProofs ----------------------------
(***************************************************************************)
(* The engine keeps its books and the health of its accounts, for any      *)
(* number of users and tokens, any amounts, prices, precisions and word    *)
(* size: first the books, then the health, and last the transactions that  *)
(* always go through.                                                      *)
(*                                                                         *)
(* The state falls into a collateral half and a DSC half, and so does      *)
(* every transaction: it changes one deposit together with one token, one  *)
(* debt together with the DSC ledger, or both.  Each half has an invariant *)
(* that is inductive for its own changes.  CollateralBacked and            *)
(* DscBackedByDebt are not inductive alone: that a payment out of the      *)
(* engine lowers the engine's balance by exactly what it lowers the        *)
(* deposit needs the types, the types need the totals to be words, and the *)
(* debt only covers the supply because no one but the engine mints.        *)
(***************************************************************************)
EXTENDS DSCEngineProperties, ERC20Proofs

(* The rounding arithmetic, for every precision, price and amount. *)

\* A quotient is a natural number, and at least q when the dividend is at least
\* q times the divisor: how a comparison of health factors becomes one of values.
LEMMA QuotientAtLeast ==
  ASSUME NEW a \in Nat, NEW b \in Nat \ {0}, NEW q \in Nat
  PROVE  /\ a \div b \in Nat
         /\ a \div b >= q <=> a >= q * b
<1> DEFINE d == a \div b
<1>1. d \in Int /\ a = b * d + (a % b) /\ a % b \in 0 .. b - 1
  OBVIOUS
<1>2. d >= 0
  <2>1. SUFFICES ASSUME d <= -1 PROVE FALSE
    BY <1>1
  <2>2. b * d <= b * (-1)
    BY <1>1, <2>1
  <2>3. QED
    BY <1>1, <2>2
<1>3. ASSUME d >= q PROVE a >= q * b
  <2>1. b * d >= b * q
    BY <1>1, <1>3
  <2>2. QED
    BY <1>1, <2>1
<1>4. ASSUME a >= q * b, d <= q - 1 PROVE FALSE
  <2>1. b * d <= b * (q - 1)
    BY <1>1, <1>4
  <2>2. b * (q - 1) = q * b - b
    OBVIOUS
  <2>3. QED
    BY <1>1, <1>4, <2>1, <2>2
<1>5. QED
  BY <1>1, <1>2, <1>3, <1>4

\* A quotient times its divisor does not exceed the dividend.
LEMMA QuotientTimesDivisor ==
  ASSUME NEW a \in Nat, NEW b \in Nat \ {0}
  PROVE  (a \div b) * b <= a
<1>1. a \div b \in Nat
  BY QuotientAtLeast, 0 \in Nat
<1>2. QED
  BY <1>1, QuotientAtLeast

\* The health factor is at least MIN_HEALTH_FACTOR exactly when the collateral is
\* worth twice the debt: neither of the two divisions loses a healthy account or
\* lets an unhealthy one pass (DSCEngine._calculateHealthFactor).
THEOREM HealthyIsTwiceTheDebt ==
  ASSUME NEW debt \in Nat \ {0}, NEW value \in Nat
  PROVE  calculateHealthFactor(debt, value) >= MIN_HEALTH_FACTOR
           <=> value >= 2 * debt
<1> DEFINE adjusted == collateralAdjustedForThreshold(value)
<1>1. /\ adjusted \in Nat
      /\ adjusted >= debt <=> value >= 2 * debt
  <2>1. value * 50 \in Nat /\ 100 \in Nat \ {0}
    OBVIOUS
  <2>2. adjusted = (value * 50) \div 100
    BY DEF collateralAdjustedForThreshold, LIQUIDATION_THRESHOLD, LIQUIDATION_PRECISION
  <2>3. adjusted \in Nat /\ (adjusted >= debt <=> value * 50 >= debt * 100)
    BY <2>1, <2>2, QuotientAtLeast
  <2>4. QED
    BY <2>3
<1> HIDE DEF adjusted
<1>2. PRECISION \in Nat \ {0}
  BY PrecisionAssumption
<1>3. adjusted * PRECISION \in Nat
  BY <1>1, <1>2
<1>4. calculateHealthFactor(debt, value) = (adjusted * PRECISION) \div debt
  BY DEF calculateHealthFactor, adjusted
<1>5. calculateHealthFactor(debt, value) >= PRECISION
        <=> adjusted * PRECISION >= PRECISION * debt
  BY <1>2, <1>3, <1>4, QuotientAtLeast
<1>6. adjusted * PRECISION >= PRECISION * debt <=> adjusted >= debt
  <2>1. ASSUME adjusted >= debt PROVE adjusted * PRECISION >= PRECISION * debt
    BY <1>1, <1>2, <2>1
  <2>2. ASSUME adjusted + 1 <= debt PROVE adjusted * PRECISION < PRECISION * debt
    <3>1. PRECISION * (adjusted + 1) <= PRECISION * debt
      BY <1>1, <1>2, <2>2
    <3>2. PRECISION * (adjusted + 1) = adjusted * PRECISION + PRECISION
      BY <1>1, <1>2
    <3>3. QED
      BY <1>1, <1>2, <1>3, <3>1, <3>2
  <2>3. QED
    BY <1>1, <1>2, <1>3, <2>1, <2>2
<1>7. QED
  BY <1>1, <1>5, <1>6 DEF MIN_HEALTH_FACTOR

-----------------------------------------------------------------------------

\* The conversion of an answer is a natural number, whatever the feed answered.
LEMMA ScaledPriceType ==
  ASSUME NEW price \in Int
  PROVE  scaledPrice(price) \in Nat
<1>1. MaxUint + 1 \in Nat \ {0} /\ ADDITIONAL_FEED_PRECISION \in Nat
  BY MaxUintAssumption, PrecisionAssumption
<1>2. price % (MaxUint + 1) \in Nat
  BY <1>1
<1>3. QED
  BY <1>1, <1>2 DEF scaledPrice, AsUint

\* Dollars turned into collateral and back are not more dollars: the two
\* roundings of getTokenAmountFromUsd and getUsdValue both favour the protocol.
THEOREM RoundTripNeverGains ==
  ASSUME NEW price \in Int, NEW usd \in Nat, scaledPrice(price) # 0
  PROVE  usdValue(price, tokenAmountFromUsd(price, usd)) <= usd
<1> DEFINE s == scaledPrice(price)
           t == tokenAmountFromUsd(price, usd)
<1>1. s \in Nat \ {0} /\ PRECISION \in Nat \ {0}
  BY ScaledPriceType, PrecisionAssumption
<1>2. t \in Nat /\ t * s <= usd * PRECISION
  BY <1>1, QuotientAtLeast, QuotientTimesDivisor, usd * PRECISION \in Nat, 0 \in Nat
     DEF tokenAmountFromUsd
<1> HIDE DEF s, t
<1>3. s * t \in Nat /\ s * t <= usd * PRECISION
  BY <1>1, <1>2
<1> DEFINE v == (s * t) \div PRECISION
<1>4. v \in Nat /\ v * PRECISION <= s * t
  BY <1>1, <1>3, QuotientAtLeast, QuotientTimesDivisor, 0 \in Nat
<1>5. ASSUME v >= usd + 1 PROVE FALSE
  <2>1. s * t >= (usd + 1) * PRECISION
    BY <1>1, <1>3, <1>5, QuotientAtLeast, usd + 1 \in Nat
  <2>2. (usd + 1) * PRECISION = usd * PRECISION + PRECISION
    BY <1>1
  <2>3. QED
    BY <1>1, <1>3, <2>1, <2>2
<1>6. usdValue(price, tokenAmountFromUsd(price, usd)) = v
  BY DEF usdValue, s, t
<1>7. QED
  BY <1>4, <1>5, <1>6

\* What a liquidator receives is worth, before rounding, at most the debt it
\* covers and ten percent (the first half of DSCEngine.liquidate).
THEOREM BonusIsAtMostTenPercent ==
  ASSUME NEW price \in Int, NEW debt \in Nat, scaledPrice(price) # 0
  PROVE  /\ totalCollateralToRedeem(price, debt) \in Nat
         /\ 100 * totalCollateralToRedeem(price, debt) * scaledPrice(price)
              <= 110 * debt * PRECISION
<1> DEFINE s == scaledPrice(price)
           t == tokenAmountFromUsd(price, debt)
           b == bonusCollateral(t)
<1>1. s \in Nat \ {0} /\ PRECISION \in Nat \ {0}
  BY ScaledPriceType, PrecisionAssumption
<1>2. t \in Nat /\ t * s <= debt * PRECISION
  BY <1>1, QuotientAtLeast, QuotientTimesDivisor, debt * PRECISION \in Nat, 0 \in Nat
     DEF tokenAmountFromUsd
<1> HIDE DEF s, t
<1>3. b = (t * 10) \div 100 /\ t * 10 \in Nat
  BY <1>2 DEF bonusCollateral, LIQUIDATION_BONUS, LIQUIDATION_PRECISION
<1>4. b \in Nat /\ b * 100 <= t * 10
  BY <1>3, QuotientAtLeast, QuotientTimesDivisor, 0 \in Nat, 100 \in Nat \ {0}
<1> HIDE DEF b
<1>5. 100 * (t + b) <= 110 * t
  BY <1>2, <1>4
<1>6. 100 * (t + b) * s <= 110 * t * s
  BY <1>1, <1>2, <1>4, <1>5
<1>7. 110 * t * s <= 110 * debt * PRECISION
  BY <1>1, <1>2
<1>8. totalCollateralToRedeem(price, debt) = t + b
  BY DEF totalCollateralToRedeem, t, b
<1>9. 110 * t * s \in Nat /\ 110 * debt * PRECISION \in Nat /\ 100 * (t + b) * s \in Nat
  BY <1>1, <1>2, <1>4
<1>10. QED
  BY <1>2, <1>4, <1>6, <1>7, <1>8, <1>9 DEF s

\* A deposit worth 110 percent of a debt is enough to pay the liquidator that
\* covers it all: only below that does liquidate run out of collateral.
THEOREM CoverableAt110Percent ==
  ASSUME NEW price \in Int, NEW debt \in Nat, NEW deposit \in Nat,
         scaledPrice(price) # 0,
         100 * usdValue(price, deposit) >= 110 * debt
  PROVE  totalCollateralToRedeem(price, debt) <= deposit
<1> DEFINE s == scaledPrice(price)
           r == totalCollateralToRedeem(price, debt)
           v == usdValue(price, deposit)
<1>1. s \in Nat \ {0} /\ PRECISION \in Nat \ {0}
  BY ScaledPriceType, PrecisionAssumption
<1>2. r \in Nat /\ 100 * r * s <= 110 * debt * PRECISION
  BY BonusIsAtMostTenPercent
<1>3. v \in Nat /\ v * PRECISION <= s * deposit
  BY <1>1, QuotientAtLeast, QuotientTimesDivisor, s * deposit \in Nat, 0 \in Nat
     DEF usdValue
<1> HIDE DEF s, r, v
<1>4. 110 * debt * PRECISION <= 100 * v * PRECISION
  BY <1>1, <1>3 DEF v
<1>5. 100 * v * PRECISION <= 100 * (s * deposit)
  <2>1. v * PRECISION \in Nat /\ s * deposit \in Nat
    BY <1>1, <1>3
  <2>2. 100 * v * PRECISION = 100 * (v * PRECISION)
    BY <1>1, <1>3
  <2>3. QED
    BY <1>3, <2>1, <2>2
<1>6. ASSUME r >= deposit + 1 PROVE FALSE
  <2>1. s * r >= s * (deposit + 1)
    BY <1>1, <1>2, <1>6
  <2>2. s * (deposit + 1) = s * deposit + s /\ 100 * r * s = 100 * (s * r)
    BY <1>1, <1>2
  <2>3. /\ s * r \in Nat /\ s * deposit \in Nat
        /\ 110 * debt * PRECISION \in Nat /\ 100 * v * PRECISION \in Nat
    BY <1>1, <1>2, <1>3
  <2>4. QED
    BY <1>1, <1>2, <1>4, <1>5, <2>1, <2>2, <2>3
<1>7. QED
  BY <1>2, <1>6 DEF r

-----------------------------------------------------------------------------

\* The dollar value of an amount (DSCEngine.getUsdValue) is a natural number, and
\* nothing is worth nothing.
LEMMA UsdValueType ==
  ASSUME NEW price \in Int, NEW amount \in Nat
  PROVE  usdValue(price, amount) \in Nat /\ usdValue(price, 0) = 0
<1> DEFINE s == scaledPrice(price)
<1>1. s \in Nat /\ PRECISION \in Nat \ {0}
  BY ScaledPriceType, PrecisionAssumption
<1> HIDE DEF s
<1>2. s * amount \in Nat /\ s * 0 = 0
  BY <1>1
<1>3. (s * amount) \div PRECISION \in Nat
  BY <1>1, <1>2, QuotientAtLeast, 0 \in Nat
<1>4. 0 \div PRECISION = 0
  BY <1>1
<1>5. QED
  BY <1>2, <1>3, <1>4 DEF usdValue, s

\* Two amounts valued together are worth at least what they are worth apart: an
\* engine that holds all deposits never values them below what it owes.
LEMMA UsdValueSuperadditive ==
  ASSUME NEW price \in Int, NEW m \in Nat, NEW n \in Nat
  PROVE  usdValue(price, m) + usdValue(price, n) <= usdValue(price, m + n)
<1> DEFINE s == scaledPrice(price)
           p == (s * m) \div PRECISION
           q == (s * n) \div PRECISION
           r == (s * (m + n)) \div PRECISION
<1>1. s \in Nat /\ PRECISION \in Nat \ {0}
  BY ScaledPriceType, PrecisionAssumption
<1> HIDE DEF s
<1>2. /\ s * m \in Nat /\ s * n \in Nat /\ s * (m + n) \in Nat
      /\ s * (m + n) = s * m + s * n
  BY <1>1
<1>3. p \in Nat /\ p * PRECISION <= s * m
  BY <1>1, <1>2, QuotientAtLeast, QuotientTimesDivisor, 0 \in Nat
<1>4. q \in Nat /\ q * PRECISION <= s * n
  BY <1>1, <1>2, QuotientAtLeast, QuotientTimesDivisor, 0 \in Nat
<1>5. s * (m + n) >= (p + q) * PRECISION
  <2> HIDE DEF p, q
  <2>1. (p + q) * PRECISION = p * PRECISION + q * PRECISION
    BY <1>1, <1>3, <1>4
  <2>2. p * PRECISION \in Nat /\ q * PRECISION \in Nat
    BY <1>1, <1>3, <1>4
  <2>3. QED
    BY <1>2, <1>3, <1>4, <2>1, <2>2
<1>6. r >= p + q
  <2>1. p + q \in Nat
    BY <1>3, <1>4
  <2> HIDE DEF p, q
  <2>2. QED
    BY <1>1, <1>2, <1>5, <2>1, QuotientAtLeast
<1>7. r \in Nat
  BY <1>1, <1>2, QuotientAtLeast, 0 \in Nat
<1>8. /\ usdValue(price, m) = p /\ usdValue(price, n) = q
      /\ usdValue(price, m + n) = r
  BY DEF usdValue, s
<1> HIDE DEF p, q, r
<1>9. QED
  BY <1>3, <1>4, <1>6, <1>7, <1>8

\* More of a token is not worth less.
LEMMA UsdValueMonotone ==
  ASSUME NEW price \in Int, NEW m \in Nat, NEW n \in Nat, m <= n
  PROVE  usdValue(price, m) <= usdValue(price, n)
<1> DEFINE d == n - m
<1>1. d \in Nat /\ n = m + d
  OBVIOUS
<1> HIDE DEF d
<1>2. usdValue(price, m) + usdValue(price, d) <= usdValue(price, m + d)
  BY <1>1, UsdValueSuperadditive
<1>3. /\ usdValue(price, m) \in Nat /\ usdValue(price, d) \in Nat
      /\ usdValue(price, m + d) \in Nat
  BY <1>1, UsdValueType
<1>4. QED
  BY <1>1, <1>2, <1>3

-----------------------------------------------------------------------------
(* The invariant *)

\* The debt that no DSC stands for.
gap == totalDebt - dscTotalSupply

\* Deposits and collateral tokens.
CollateralBooks ==
  /\ s_collateralDeposited \in [User -> [Token -> Word]]
  /\ collateralBalances \in [Token -> [Holder -> Word]]
  /\ collateralAllowances \in [Token -> [User -> [{Engine} -> Word]]]
  /\ \A t \in Token : SumFunction(collateralBalances[t]) \in Word
  /\ CollateralBacked

\* Debts and DSC.
DscBooks ==
  /\ s_DscMinted \in [User -> Word]
  /\ dscBalances \in [Holder -> Word]
  /\ dscAllowances \in [Holder -> [Holder -> Word]]
  /\ dscTotalSupply \in Word
  /\ dscTotalSupply = SumFunction(dscBalances)
  /\ dscOwner = Engine
  /\ DscBackedByDebt

\* The inductive invariant.
IInv == CollateralBooks /\ DscBooks /\ OracleTypeOK

-----------------------------------------------------------------------------
(* Accounts, words and sums *)

\* The accounts: finitely many users, the engine and the pool, all different.
LEMMA Accounts ==
  /\ IsFiniteSet(User) /\ IsFiniteSet(Holder)
  /\ User \subseteq Holder /\ Engine \in Holder /\ Pool \in Holder
  /\ Engine \notin User /\ Pool # Engine
<1>1. /\ IsFiniteSet(User) /\ Engine \notin User /\ Pool # Engine
  BY EngineAssumption
<1>2. IsFiniteSet({Engine, Pool})
  <2>1. IsFiniteSet({Engine}) /\ IsFiniteSet({Pool})
    BY FS_Singleton
  <2>2. {Engine, Pool} = {Engine} \cup {Pool}
    OBVIOUS
  <2>3. QED
    BY <2>1, <2>2, FS_Union
<1>3. IsFiniteSet(Holder)
  BY <1>1, <1>2, FS_Union DEF Holder
<1>4. QED
  BY <1>1, <1>3 DEF Holder

\* A uint256 is a natural number up to MaxUint.
LEMMA WordsAreNaturals ==
  /\ \A n \in Word : n \in Nat /\ n <= MaxUint
  /\ \A n \in Nat : n <= MaxUint => n \in Word
  /\ 0 \in Word
  BY MaxUintAssumption DEF Word

\* The arguments of the transactions are words.
LEMMA AmountsAreWords ==
  /\ CollateralAmounts \cup DscAmounts \cup TransferAmounts \cup ApprovalAmounts \subseteq Word
  /\ DscSpenders \subseteq Holder
  BY EngineAssumption

\* The total of one token's column of the deposits.
columnTotal(d, t) == SumFunction([u \in User |-> d[u][t]])

\* The total of a column is a natural number.
LEMMA ColumnTotalType ==
  ASSUME NEW d \in [User -> [Token -> Word]], NEW t \in Token
  PROVE  columnTotal(d, t) \in Nat
<1> DEFINE c == [u \in User |-> d[u][t]]
<1>1. c \in [User -> Nat] /\ IsFiniteSet(User)
  BY WordsAreNaturals, Accounts
<1> HIDE DEF c
<1>2. SumFunction(c) \in Nat
  BY <1>1, SumType
<1>3. QED
  BY <1>2 DEF columnTotal, c

\* The deposits with one entry overwritten.
withDeposit(d, user, token, v) == [d EXCEPT ![user][token] = v]

\* Overwriting one deposit changes the total of its own column only.
LEMMA ColumnUpdate ==
  ASSUME NEW d \in [User -> [Token -> Word]],
         NEW user \in User, NEW token \in Token, NEW v \in Word,
         NEW e, e = withDeposit(d, user, token, v)
  PROVE  /\ e \in [User -> [Token -> Word]]
         /\ columnTotal(e, token) = columnTotal(d, token) - d[user][token] + v
         /\ \A t \in Token \ {token} : columnTotal(e, t) = columnTotal(d, t)
<1> DEFINE c == [u \in User |-> d[u][token]]
<1> USE DEF withDeposit
<1>1. /\ c \in [User -> Nat] /\ c[user] = d[user][token] /\ v \in Nat
      /\ IsFiniteSet(User)
  BY WordsAreNaturals, Accounts
<1>2. [u \in User |-> e[u][token]] = [c EXCEPT ![user] = v]
  OBVIOUS
<1> HIDE DEF c
<1>3. SumFunction([c EXCEPT ![user] = v]) = SumFunction(c) - c[user] + v
  BY <1>1, SumUpdate
<1>4. columnTotal(e, token) = columnTotal(d, token) - d[user][token] + v
  BY <1>1, <1>2, <1>3 DEF columnTotal, c
<1>5. ASSUME NEW t \in Token \ {token} PROVE columnTotal(e, t) = columnTotal(d, t)
  <2>1. [u \in User |-> e[u][t]] = [u \in User |-> d[u][t]]
    OBVIOUS
  <2>2. QED
    BY <2>1 DEF columnTotal
<1>6. QED
  BY <1>4, <1>5

\* The engine's deposits of a token are a column, before and after a step.
LEMMA DepositsAreColumns ==
  \A t \in Token : /\ totalDeposited(t) = columnTotal(s_collateralDeposited, t)
                   /\ totalDeposited(t)' = columnTotal(s_collateralDeposited', t)
  BY DEF totalDeposited, columnTotal

-----------------------------------------------------------------------------
(* The collateral half *)

\* What the collateral half says of single entries.
LEMMA CollateralTables ==
  ASSUME CollateralBooks
  PROVE  /\ \A u \in User, t \in Token :
              /\ s_collateralDeposited[u][t] \in Word
              /\ s_collateralDeposited[u][t] \in Nat
              /\ s_collateralDeposited[u][t] <= MaxUint
         /\ \A t \in Token :
              /\ collateralBalances[t] \in [Holder -> Word]
              /\ SumFunction(collateralBalances[t]) \in Word
              /\ \A h \in Holder : collateralBalances[t][h] \in Nat
<1>1. /\ s_collateralDeposited \in [User -> [Token -> Word]]
      /\ collateralBalances \in [Token -> [Holder -> Word]]
      /\ \A t \in Token : SumFunction(collateralBalances[t]) \in Word
  BY DEF CollateralBooks
<1>2. \A u \in User, t \in Token : s_collateralDeposited[u][t] \in Word
  BY <1>1
<1>3. \A t \in Token, h \in Holder : collateralBalances[t][h] \in Word
  BY <1>1
<1>4. QED
  BY <1>1, <1>2, <1>3, WordsAreNaturals

\* A step that changes one deposit to v and the balances of one token to c.
collateralMoves(user, token, v, c) ==
  /\ s_collateralDeposited' = [s_collateralDeposited EXCEPT ![user][token] = v]
  /\ collateralBalances' = [collateralBalances EXCEPT ![token] = c]
  /\ collateralAllowances' \in [Token -> [User -> [{Engine} -> Word]]]

\* A change of one deposit that moves the engine's holding of the token along.
LEMMA CollateralStep ==
  ASSUME CollateralBooks,
         NEW user \in User, NEW token \in Token, NEW v \in Word,
         NEW c \in [Holder -> Word],
         SumFunction(c) = SumFunction(collateralBalances[token]),
         c[Engine] - collateralBalances[token][Engine]
           = v - s_collateralDeposited[user][token],
         collateralMoves(user, token, v, c)
  PROVE  /\ CollateralBooks'
         /\ \A t \in Token : surplus(t)' = surplus(t)
<1>1. /\ s_collateralDeposited \in [User -> [Token -> Word]]
      /\ collateralBalances \in [Token -> [Holder -> Word]]
      /\ \A t \in Token : SumFunction(collateralBalances[t]) \in Word
      /\ \A t \in Token : totalDeposited(t) <= collateralBalances[t][Engine]
  BY DEF CollateralBooks, CollateralBacked
<1>2. /\ s_collateralDeposited' \in [User -> [Token -> Word]]
      /\ \A t \in Token : totalDeposited(t) \in Nat /\ totalDeposited(t)' \in Nat
      /\ totalDeposited(token)'
           = totalDeposited(token) - s_collateralDeposited[user][token] + v
      /\ \A t \in Token \ {token} : totalDeposited(t)' = totalDeposited(t)
  <2>1. /\ s_collateralDeposited' \in [User -> [Token -> Word]]
        /\ columnTotal(s_collateralDeposited', token)
             = columnTotal(s_collateralDeposited, token)
                 - s_collateralDeposited[user][token] + v
        /\ \A t \in Token \ {token} :
             columnTotal(s_collateralDeposited', t) = columnTotal(s_collateralDeposited, t)
    <3> DEFINE d == s_collateralDeposited
               e == s_collateralDeposited'
    <3>1. d \in [User -> [Token -> Word]] /\ e = withDeposit(d, user, token, v)
      BY <1>1 DEF withDeposit, collateralMoves
    <3> HIDE DEF d, e
    <3>2. /\ e \in [User -> [Token -> Word]]
          /\ columnTotal(e, token) = columnTotal(d, token) - d[user][token] + v
          /\ \A t \in Token \ {token} : columnTotal(e, t) = columnTotal(d, t)
      BY <3>1, ColumnUpdate
    <3>3. QED
      BY <3>2 DEF d, e
  <2>2. \A t \in Token : /\ columnTotal(s_collateralDeposited, t) \in Nat
                         /\ columnTotal(s_collateralDeposited', t) \in Nat
    BY <1>1, <2>1, ColumnTotalType
  <2>3. QED
    BY <2>1, <2>2, DepositsAreColumns
<1>3. /\ collateralBalances' \in [Token -> [Holder -> Word]]
      /\ \A t \in Token \ {token} : collateralBalances'[t] = collateralBalances[t]
      /\ collateralBalances'[token] = c
      /\ \A t \in Token : SumFunction(collateralBalances'[t]) \in Word
  BY <1>1 DEF collateralMoves
<1>4. /\ s_collateralDeposited[user][token] \in Nat /\ v \in Nat
      /\ \A t \in Token : collateralBalances[t][Engine] \in Nat
      /\ c[Engine] \in Nat
  BY <1>1, Accounts, WordsAreNaturals
<1>5. \A t \in Token : surplus(t)' = surplus(t)
  <2> SUFFICES ASSUME NEW t \in Token PROVE surplus(t)' = surplus(t)
    OBVIOUS
  <2>1. CASE t = token
    <3>1. surplus(t)' = c[Engine] - totalDeposited(token)'
      BY <1>3, <2>1 DEF surplus
    <3>2. surplus(t) = collateralBalances[token][Engine] - totalDeposited(token)
      BY <2>1 DEF surplus
    <3>3. /\ totalDeposited(token) \in Nat /\ collateralBalances[token][Engine] \in Nat
          /\ c[Engine] \in Nat /\ v \in Nat /\ s_collateralDeposited[user][token] \in Nat
          /\ c[Engine] - collateralBalances[token][Engine]
               = v - s_collateralDeposited[user][token]
          /\ totalDeposited(token)'
               = totalDeposited(token) - s_collateralDeposited[user][token] + v
      BY <1>2, <1>4
    <3>4. c[Engine] - totalDeposited(token)'
            = collateralBalances[token][Engine] - totalDeposited(token)
      BY <3>3
    <3>5. QED
      BY <3>1, <3>2, <3>4
  <2>2. CASE t # token
    BY <1>2, <1>3, <2>2 DEF surplus
  <2>3. QED
    BY <2>1, <2>2
<1>6. CollateralBacked'
  <2> SUFFICES ASSUME NEW t \in Token
               PROVE  totalDeposited(t)' <= collateralBalances'[t][Engine]
    BY DEF CollateralBacked
  <2>1. totalDeposited(t) \in Nat /\ totalDeposited(t)' \in Nat
    BY <1>2
  <2>2. collateralBalances[t][Engine] \in Nat /\ collateralBalances'[t][Engine] \in Nat
    BY <1>3, <1>4
  <2>3. surplus(t)' = surplus(t) /\ totalDeposited(t) <= collateralBalances[t][Engine]
    BY <1>1, <1>5
  <2>4. QED
    BY <2>1, <2>2, <2>3 DEF surplus
<1>7. QED
  BY <1>2, <1>3, <1>5, <1>6 DEF CollateralBooks, collateralMoves

\* A transfer into or out of the engine moves its holding by the amount.
LEMMA EngineHolding ==
  ASSUME NEW b \in [Holder -> Word], SumFunction(b) \in Word,
         NEW from \in Holder, NEW to \in Holder, NEW n \in Nat,
         CanTransfer(b, from, n)
  PROVE  LET c == Transferred(b, from, to, n)
         IN  /\ c \in [Holder -> Word]
             /\ SumFunction(c) = SumFunction(b)
             /\ from # Engine /\ to = Engine => c[Engine] = b[Engine] + n
             /\ from # Engine /\ to # Engine => c[Engine] = b[Engine]
             /\ from = Engine /\ to # Engine => c[Engine] = b[Engine] - n
             /\ from # to => c[to] = b[to] + n
             /\ \A h \in Holder \ {from, to} : c[h] = b[h]
<1>1. /\ Transferred(b, from, to, n) \in [Holder -> Word]
      /\ SumFunction(Transferred(b, from, to, n)) = SumFunction(b)
  BY Accounts, TransferredLedger
<1>2. \A h \in Holder : b[h] \in Nat
  BY WordsAreNaturals
<1>3. QED
  BY <1>1, <1>2, Accounts DEF Transferred, Debited, Credited

\* depositCollateral
LEMMA DepositBooks ==
  ASSUME CollateralBooks, NEW sender \in User, NEW token \in Token,
         NEW amount \in Word, depositCollateral(sender, token, amount)
  PROVE  /\ CollateralBooks'
         /\ \A t \in Token : surplus(t)' = surplus(t)
<1> DEFINE b == collateralBalances[token]
           c == Transferred(b, sender, Engine, amount)
           v == s_collateralDeposited[sender][token] + amount
<1>1. b \in [Holder -> Word] /\ SumFunction(b) \in Word /\ amount \in Nat
  BY WordsAreNaturals DEF CollateralBooks
<1>2. CanTransfer(b, sender, amount) /\ v \in Word
  BY DEF depositCollateral, Fits
<1>3. /\ c \in [Holder -> Word] /\ SumFunction(c) = SumFunction(b)
      /\ c[Engine] = b[Engine] + amount
  BY <1>1, <1>2, Accounts, EngineHolding
<1>4. collateralAllowances' \in [Token -> [User -> [{Engine} -> Word]]]
  <2>1. /\ collateralAllowances[token] \in [User -> [{Engine} -> Word]]
        /\ CanSpend(collateralAllowances[token], sender, Engine, amount)
    BY DEF CollateralBooks, depositCollateral
  <2>2. Spent(collateralAllowances[token], sender, Engine, amount)
          \in [User -> [{Engine} -> Word]]
    BY <1>1, <2>1, AllowanceTables
  <2>3. QED
    BY <2>2 DEF CollateralBooks, depositCollateral
<1>5. b[Engine] \in Nat /\ s_collateralDeposited[sender][token] \in Nat
  BY Accounts, CollateralTables
<1>6. c[Engine] - b[Engine] = v - s_collateralDeposited[sender][token]
  BY <1>1, <1>3, <1>5
<1>7. collateralMoves(sender, token, v, c)
  BY <1>4 DEF depositCollateral, CollateralBooks, collateralMoves
<1> HIDE DEF c, v
<1>8. QED
  BY <1>2, <1>3, <1>6, <1>7, CollateralStep

\* _redeemCollateral, to the account's owner.
LEMMA RedeemBooks ==
  ASSUME CollateralBooks, NEW user \in User, NEW token \in Token,
         NEW amount \in Word, redeemCollateral(user, user, token, amount),
         UNCHANGED collateralAllowances
  PROVE  /\ CollateralBooks'
         /\ \A t \in Token : surplus(t)' = surplus(t)
<1> DEFINE b == collateralBalances[token]
           c == Transferred(b, Engine, user, amount)
           v == s_collateralDeposited[user][token] - amount
<1>1. b \in [Holder -> Word] /\ SumFunction(b) \in Word /\ amount \in Nat
  BY WordsAreNaturals DEF CollateralBooks
<1>2. /\ b[Engine] \in Nat
      /\ s_collateralDeposited[user][token] \in Nat
      /\ s_collateralDeposited[user][token] <= MaxUint
  BY Accounts, CollateralTables
<1>3. CanTransfer(b, Engine, amount) /\ v \in Word
  <2>1. s_collateralDeposited[user][token] >= amount
    BY DEF redeemCollateral
  <2>2. v \in Nat /\ v <= MaxUint
    BY <1>1, <1>2, <2>1, MaxUintAssumption
  <2>3. QED
    BY <2>2, WordsAreNaturals DEF redeemCollateral
<1>4. /\ c \in [Holder -> Word] /\ SumFunction(c) = SumFunction(b)
      /\ c[Engine] = b[Engine] - amount
  <2>1. user \in Holder /\ user # Engine /\ Engine \in Holder
    BY Accounts
  <2>2. QED
    BY <1>1, <1>3, <2>1, EngineHolding
<1>5. c[Engine] - b[Engine] = v - s_collateralDeposited[user][token]
  BY <1>1, <1>2, <1>4
<1>6. collateralMoves(user, token, v, c)
  BY DEF redeemCollateral, CollateralBooks, collateralMoves
<1> HIDE DEF c, v
<1>7. QED
  BY <1>3, <1>4, <1>5, <1>6, CollateralStep

\* _redeemCollateral to the liquidator and _sentAmountLeftToDscPool: the two
\* payments add up to the deposit they clear.
LEMMA SeizeBooks ==
  ASSUME CollateralBooks, NEW user \in User, NEW liquidator \in User,
         NEW token \in Token, NEW amount \in Nat,
         seizeCollateral(user, liquidator, token, amount),
         UNCHANGED collateralAllowances
  PROVE  /\ CollateralBooks'
         /\ \A t \in Token : surplus(t)' = surplus(t)
         /\ collateralBalances'[token][liquidator]
              = collateralBalances[token][liquidator] + amount
<1> DEFINE b == collateralBalances[token]
           deposit == s_collateralDeposited[user][token]
           rest == deposit - amount
           paid == Transferred(b, Engine, liquidator, amount)
           c == Transferred(paid, Engine, Pool, rest)
<1>1. /\ b \in [Holder -> Word] /\ SumFunction(b) \in Word
      /\ b[Engine] \in Nat /\ deposit \in Nat /\ b[liquidator] \in Nat
  BY Accounts, CollateralTables
<1>2. rest \in Int /\ rest >= 0
  BY <1>1 DEF seizeCollateral
<1>3. rest \in Nat
  BY <1>2
<1>4. /\ CanTransfer(b, Engine, amount)
      /\ CanTransfer(paid, Engine, rest)
      /\ collateralMoves(user, token, 0, c)
  BY DEF seizeCollateral, payOut, collateralMoves, CollateralBooks
<1>5. /\ liquidator \in Holder /\ liquidator # Engine /\ Engine \in Holder
      /\ Pool \in Holder /\ Pool # Engine /\ liquidator # Pool
  BY Accounts, EngineAssumption
<1> HIDE DEF b, rest, deposit
<1>6. /\ paid \in [Holder -> Word] /\ SumFunction(paid) = SumFunction(b)
      /\ paid[Engine] = b[Engine] - amount
      /\ paid[liquidator] = b[liquidator] + amount
  BY <1>1, <1>4, <1>5, EngineHolding
<1> HIDE DEF paid
<1>7. /\ c \in [Holder -> Word] /\ SumFunction(c) = SumFunction(paid)
      /\ c[Engine] = paid[Engine] - rest
      /\ c[liquidator] = paid[liquidator]
  BY <1>1, <1>3, <1>4, <1>5, <1>6, EngineHolding
<1> HIDE DEF c
<1>8. c[Engine] - b[Engine] = 0 - deposit
  BY <1>1, <1>3, <1>6, <1>7 DEF rest
<1>9. /\ CollateralBooks'
      /\ \A t \in Token : surplus(t)' = surplus(t)
  <2>1. /\ SumFunction(c) = SumFunction(collateralBalances[token])
        /\ c[Engine] - collateralBalances[token][Engine]
             = 0 - s_collateralDeposited[user][token]
    BY <1>6, <1>7, <1>8 DEF b, deposit
  <2>2. QED
    BY <1>4, <1>7, <2>1, CollateralStep, WordsAreNaturals
<1>10. collateralBalances'[token][liquidator] = c[liquidator]
  BY <1>4 DEF collateralMoves, CollateralBooks
<1>11. QED
  BY <1>6, <1>7, <1>9, <1>10 DEF b

\* A transfer that passes the engine by can only raise what it holds.
LEMMA TransferBooks ==
  ASSUME CollateralBooks, NEW sender \in User, NEW to \in Holder,
         NEW token \in Token, NEW amount \in Word,
         TransferCollateral(sender, to, token, amount)
  PROVE  /\ CollateralBooks'
         /\ \A t \in Token : surplus(t)' >= surplus(t)
<1> DEFINE b == collateralBalances[token]
           c == Transferred(b, sender, to, amount)
<1>1. b \in [Holder -> Word] /\ SumFunction(b) \in Word /\ b[Engine] \in Nat
  BY Accounts, CollateralTables
<1>2. CanTransfer(b, sender, amount) /\ amount \in Nat
  BY WordsAreNaturals DEF TransferCollateral
<1>3. sender \in Holder /\ sender # Engine
  BY Accounts
<1> HIDE DEF b
<1>4. /\ c \in [Holder -> Word] /\ SumFunction(c) = SumFunction(b)
      /\ c[Engine] = b[Engine] + amount \/ c[Engine] = b[Engine]
  BY <1>1, <1>2, <1>3, EngineHolding
<1> HIDE DEF c
<1>5. c[Engine] \in Nat /\ c[Engine] >= b[Engine]
  BY <1>1, <1>2, <1>4
<1>6. /\ collateralBalances' = [collateralBalances EXCEPT ![token] = c]
      /\ UNCHANGED <<s_collateralDeposited, collateralAllowances>>
  BY DEF TransferCollateral, engineVars, b, c
<1>7. /\ collateralBalances' \in [Token -> [Holder -> Word]]
      /\ \A t \in Token : SumFunction(collateralBalances'[t]) \in Word
      /\ \A t \in Token : collateralBalances'[t][Engine] >= collateralBalances[t][Engine]
  <2>1. /\ collateralBalances \in [Token -> [Holder -> Word]]
        /\ \A t \in Token : /\ SumFunction(collateralBalances[t]) \in Word
                            /\ collateralBalances[t][Engine] \in Nat
        /\ SumFunction(c) \in Word
    BY <1>1, <1>4, Accounts, CollateralTables DEF CollateralBooks
  <2>2. QED
    BY <1>4, <1>5, <1>6, <2>1 DEF b
<1>8. ASSUME NEW t \in Token
      PROVE  /\ surplus(t)' >= surplus(t)
             /\ totalDeposited(t)' <= collateralBalances'[t][Engine]
  <2>1. totalDeposited(t)' = totalDeposited(t) /\ totalDeposited(t) \in Nat
    BY <1>6, ColumnTotalType, DepositsAreColumns DEF CollateralBooks
  <2>2. collateralBalances[t][Engine] \in Nat /\ collateralBalances'[t][Engine] \in Nat
    BY <1>7, Accounts, CollateralTables, WordsAreNaturals
  <2>3. /\ collateralBalances'[t][Engine] >= collateralBalances[t][Engine]
        /\ totalDeposited(t) <= collateralBalances[t][Engine]
    BY <1>7 DEF CollateralBooks, CollateralBacked
  <2>4. QED
    BY <2>1, <2>2, <2>3 DEF surplus
<1>9. QED
  BY <1>6, <1>7, <1>8 DEF CollateralBooks, CollateralBacked

\* An approval is not in the books.
LEMMA ApproveBooks ==
  ASSUME CollateralBooks, NEW sender \in User, NEW token \in Token,
         NEW amount \in Word, ApproveCollateral(sender, token, amount)
  PROVE  /\ CollateralBooks'
         /\ \A t \in Token : surplus(t)' = surplus(t)
<1>1. /\ collateralAllowances[token] \in [User -> [{Engine} -> Word]]
      /\ amount \in Nat
  BY WordsAreNaturals DEF CollateralBooks
<1>2. Approved(collateralAllowances[token], sender, Engine, amount)
        \in [User -> [{Engine} -> Word]]
  BY <1>1, AllowanceTables
<1>3. /\ collateralAllowances' \in [Token -> [User -> [{Engine} -> Word]]]
      /\ UNCHANGED <<s_collateralDeposited, collateralBalances>>
  BY <1>2 DEF ApproveCollateral, CollateralBooks, engineVars
<1>4. QED
  BY <1>3 DEF CollateralBooks, CollateralBacked, surplus, totalDeposited

-----------------------------------------------------------------------------
(* The DSC half *)

\* What the DSC half says of single entries; nobody holds more than the supply.
LEMMA DscTables ==
  ASSUME DscBooks
  PROVE  /\ \A u \in User : /\ s_DscMinted[u] \in Word /\ s_DscMinted[u] \in Nat
                            /\ s_DscMinted[u] <= MaxUint
         /\ \A h \in Holder : dscBalances[h] \in Nat /\ dscBalances[h] <= dscTotalSupply
         /\ dscTotalSupply \in Nat /\ dscTotalSupply <= MaxUint
         /\ totalDebt \in Nat /\ dscTotalSupply <= totalDebt
<1>1. \A u \in User : s_DscMinted[u] \in Word
  BY DEF DscBooks
<1>2. \A h \in Holder : dscBalances[h] \in Word
  BY DEF DscBooks
<1>3. s_DscMinted \in [User -> Nat] /\ dscBalances \in [Holder -> Nat]
  BY WordsAreNaturals DEF DscBooks
<1>4. totalDebt \in Nat /\ \A h \in Holder : dscBalances[h] <= dscTotalSupply
  BY <1>3, Accounts, SumType, SumBoundsEntry DEF totalDebt, DscBooks
<1>5. dscTotalSupply \in Word /\ dscTotalSupply <= totalDebt
  BY DEF DscBooks, DscBackedByDebt
<1>6. QED
  BY <1>1, <1>2, <1>4, <1>5, WordsAreNaturals

\* A step that changes one debt to v and the ledger of DSC to balances that add
\* up to the new supply.
dscMoves(user, v) ==
  /\ s_DscMinted' = [s_DscMinted EXCEPT ![user] = v]
  /\ dscBalances' \in [Holder -> Word]
  /\ dscAllowances' \in [Holder -> [Holder -> Word]]
  /\ dscTotalSupply' \in Word
  /\ dscTotalSupply' = SumFunction(dscBalances')
  /\ UNCHANGED dscOwner

\* A change of one debt that moves the supply along.
LEMMA DscStep ==
  ASSUME DscBooks, NEW user \in User, NEW v \in Word, dscMoves(user, v),
         dscTotalSupply' - dscTotalSupply = v - s_DscMinted[user]
  PROVE  DscBooks' /\ gap' = gap
<1>1. /\ s_DscMinted[user] \in Nat /\ v \in Nat
      /\ dscTotalSupply \in Nat /\ dscTotalSupply' \in Nat
      /\ totalDebt \in Nat /\ dscTotalSupply <= totalDebt
  BY DscTables, WordsAreNaturals DEF dscMoves
<1>2. totalDebt' = totalDebt - s_DscMinted[user] + v
  <2> DEFINE d == s_DscMinted
  <2>1. d \in [User -> Nat] /\ IsFiniteSet(User)
    BY Accounts, WordsAreNaturals DEF DscBooks
  <2>2. totalDebt' = SumFunction([d EXCEPT ![user] = v])
    BY DEF totalDebt, dscMoves
  <2> HIDE DEF d
  <2>3. SumFunction([d EXCEPT ![user] = v]) = SumFunction(d) - d[user] + v
    BY <1>1, <2>1, SumUpdate
  <2>4. QED
    BY <2>2, <2>3 DEF totalDebt, d
<1>3. gap' = gap /\ dscTotalSupply' <= totalDebt'
  BY <1>1, <1>2 DEF gap
<1>4. s_DscMinted' \in [User -> Word]
  BY DEF dscMoves, DscBooks
<1>5. QED
  BY <1>3, <1>4 DEF dscMoves, DscBooks, DscBackedByDebt

\* mintDsc
LEMMA MintBooks ==
  ASSUME DscBooks, NEW sender \in User, NEW amount \in Word, mintDsc(sender, amount)
  PROVE  DscBooks' /\ gap' = gap
<1> DEFINE v == s_DscMinted[sender] + amount
<1>1. /\ amount \in Nat /\ s_DscMinted[sender] \in Nat /\ dscTotalSupply \in Nat
      /\ sender \in Holder /\ IsFiniteSet(Holder)
      /\ dscBalances \in [Holder -> Word] /\ SumFunction(dscBalances) = dscTotalSupply
  BY Accounts, DscTables, WordsAreNaturals DEF DscBooks
<1>2. /\ v \in Word
      /\ s_DscMinted' = [s_DscMinted EXCEPT ![sender] = v]
      /\ dscTotalSupply + amount \in Word
      /\ dscTotalSupply' = dscTotalSupply + amount
      /\ dscBalances' = Credited(dscBalances, sender, amount)
      /\ UNCHANGED <<dscAllowances, dscOwner>>
  BY DEF mintDsc, DscBooks, DSC!Mint, DSC!Fits, DSC!Word, Fits, Word, DSC!Credited, Credited
<1>3. /\ Credited(dscBalances, sender, amount) \in [Holder -> Word]
      /\ SumFunction(Credited(dscBalances, sender, amount)) = dscTotalSupply + amount
  BY <1>1, <1>2, CreditedLedger, WordsAreNaturals
<1>4. dscMoves(sender, v)
  BY <1>2, <1>3 DEF dscMoves, DscBooks
<1>5. dscTotalSupply' - dscTotalSupply = v - s_DscMinted[sender]
  BY <1>1, <1>2
<1> HIDE DEF v
<1>6. QED
  BY <1>2, <1>4, <1>5, DscStep

\* _burnDsc: transferFrom into the engine and burn out of it.
LEMMA BurnBooks ==
  ASSUME DscBooks, NEW onBehalfOf \in User, NEW dscFrom \in User,
         NEW amount \in Word, burnDsc(onBehalfOf, dscFrom, amount)
  PROVE  /\ DscBooks' /\ gap' = gap
         /\ s_DscMinted'[onBehalfOf] = s_DscMinted[onBehalfOf] - amount
<1> DEFINE v == s_DscMinted[onBehalfOf] - amount
           moved == Transferred(dscBalances, dscFrom, Engine, amount)
           left == Debited(moved, Engine, amount)
<1>1. /\ amount \in Nat /\ s_DscMinted[onBehalfOf] \in Nat
      /\ s_DscMinted[onBehalfOf] <= MaxUint
      /\ dscTotalSupply \in Nat /\ dscTotalSupply <= MaxUint
      /\ dscFrom \in Holder /\ dscFrom # Engine /\ Engine \in Holder
      /\ IsFiniteSet(Holder)
      /\ dscBalances \in [Holder -> Word] /\ SumFunction(dscBalances) = dscTotalSupply
      /\ dscBalances[Engine] \in Nat
      /\ dscBalances[dscFrom] \in Nat /\ dscBalances[dscFrom] <= dscTotalSupply
      /\ SumFunction(dscBalances) \in Word
  BY Accounts, DscTables, WordsAreNaturals DEF DscBooks
<1>2. /\ s_DscMinted[onBehalfOf] >= amount
      /\ s_DscMinted' = [s_DscMinted EXCEPT ![onBehalfOf] = v]
      /\ CanSpend(dscAllowances, dscFrom, Engine, amount)
      /\ CanTransfer(dscBalances, dscFrom, amount)
      /\ dscAllowances' = Spent(dscAllowances, dscFrom, Engine, amount)
      /\ dscBalances' = left
      /\ dscTotalSupply' = dscTotalSupply - amount
      /\ UNCHANGED dscOwner
  BY DEF burnDsc, burnTokens
<1>3. v \in Nat /\ v \in Word
  BY <1>1, <1>2, MaxUintAssumption, WordsAreNaturals
<1>4. dscTotalSupply - amount \in Word
  <2>1. dscTotalSupply - amount \in Nat /\ dscTotalSupply - amount <= MaxUint
    BY <1>1, <1>2, MaxUintAssumption DEF CanTransfer
  <2>2. QED
    BY <2>1, WordsAreNaturals
<1>5. /\ moved \in [Holder -> Word] /\ SumFunction(moved) = dscTotalSupply
      /\ moved[Engine] = dscBalances[Engine] + amount
  BY <1>1, <1>2, EngineHolding
<1> HIDE DEF moved
<1>6. /\ left \in [Holder -> Word]
      /\ SumFunction(left) = dscTotalSupply - amount
  BY <1>1, <1>5, DebitedLedger
<1> HIDE DEF left
<1>7. dscAllowances' \in [Holder -> [Holder -> Word]]
  BY <1>1, <1>2, AllowanceTables DEF DscBooks
<1>8. dscMoves(onBehalfOf, v)
  BY <1>2, <1>4, <1>6, <1>7 DEF dscMoves
<1>9. dscTotalSupply' - dscTotalSupply = v - s_DscMinted[onBehalfOf]
  BY <1>1, <1>2
<1>10. s_DscMinted'[onBehalfOf] = v
  BY <1>2 DEF DscBooks
<1>11. v = s_DscMinted[onBehalfOf] - amount
  OBVIOUS
<1> HIDE DEF v
<1>12. QED
  BY <1>3, <1>8, <1>9, <1>10, <1>11, DscStep

\* What the holders of DSC do among themselves: only burnFrom changes the supply,
\* and lowers it.
LEMMA UseDscBooks ==
  ASSUME DscBooks, NEW sender \in User, UseDsc(sender)
  PROVE  /\ DscBooks'
         /\ UNCHANGED s_DscMinted
         /\ gap' >= gap
<1> DEFINE Unaltered == /\ dscBalances' \in [Holder -> Word]
                        /\ SumFunction(dscBalances') = dscTotalSupply'
                        /\ dscAllowances' \in [Holder -> [Holder -> Word]]
                        /\ dscTotalSupply' \in Word /\ dscTotalSupply' <= dscTotalSupply
                        /\ UNCHANGED dscOwner
<1>1. /\ sender \in Holder /\ IsFiniteSet(Holder)
      /\ dscBalances \in [Holder -> Word] /\ SumFunction(dscBalances) = dscTotalSupply
      /\ SumFunction(dscBalances) \in Word
      /\ dscAllowances \in [Holder -> [Holder -> Word]]
      /\ dscTotalSupply \in Word /\ dscTotalSupply \in Nat /\ dscTotalSupply <= MaxUint
      /\ \A h \in Holder : dscBalances[h] \in Nat /\ dscBalances[h] <= dscTotalSupply
  BY Accounts, DscTables DEF DscBooks
<1>2. \A n \in TransferAmounts \cup ApprovalAmounts : n \in Word /\ n \in Nat
  BY AmountsAreWords, WordsAreNaturals
<1>3. PICK to \in Holder :
        \/ \E amount \in TransferAmounts :
             \/ DSC!Transfer(sender, to, amount)
             \/ \E from \in User : DSC!TransferFrom(sender, from, to, amount)
             \/ to \in User /\ DSC!BurnFrom(sender, to, amount)
        \/ \E amount \in ApprovalAmounts :
             to \in DscSpenders /\ DSC!Approve(sender, to, amount)
  BY DEF UseDsc
<1>4. ASSUME NEW amount \in TransferAmounts, DSC!Transfer(sender, to, amount)
      PROVE  Unaltered
  <2>1. /\ CanTransfer(dscBalances, sender, amount)
        /\ dscBalances' = Transferred(dscBalances, sender, to, amount)
        /\ UNCHANGED <<dscAllowances, dscTotalSupply, dscOwner>>
    BY <1>4 DEF DSC!Transfer, DSC!CanTransfer, CanTransfer, DSC!Transferred, Transferred,
                DSC!Debited, Debited, DSC!Credited, Credited
  <2>2. /\ Transferred(dscBalances, sender, to, amount) \in [Holder -> Word]
        /\ SumFunction(Transferred(dscBalances, sender, to, amount)) = dscTotalSupply
    BY <1>1, <1>2, <2>1, TransferredLedger
  <2>3. QED
    BY <1>1, <2>1, <2>2
<1>5. ASSUME NEW amount \in TransferAmounts, NEW from \in User,
             DSC!TransferFrom(sender, from, to, amount)
      PROVE  Unaltered
  <2>1. /\ CanSpend(dscAllowances, from, sender, amount)
        /\ CanTransfer(dscBalances, from, amount)
        /\ dscAllowances' = Spent(dscAllowances, from, sender, amount)
        /\ dscBalances' = Transferred(dscBalances, from, to, amount)
        /\ UNCHANGED <<dscTotalSupply, dscOwner>>
    BY <1>5 DEF DSC!TransferFrom, DSC!CanSpend, CanSpend, DSC!Spent, Spent,
                DSC!CanTransfer, CanTransfer, DSC!Transferred, Transferred,
                DSC!Debited, Debited, DSC!Credited, Credited
  <2>2. from \in Holder
    BY Accounts
  <2>3. /\ Transferred(dscBalances, from, to, amount) \in [Holder -> Word]
        /\ SumFunction(Transferred(dscBalances, from, to, amount)) = dscTotalSupply
    BY <1>1, <1>2, <2>1, <2>2, TransferredLedger
  <2>4. Spent(dscAllowances, from, sender, amount) \in [Holder -> [Holder -> Word]]
    BY <1>1, <1>2, <2>1, <2>2, AllowanceTables
  <2>5. QED
    BY <1>1, <2>1, <2>3, <2>4
<1>6. ASSUME NEW amount \in TransferAmounts, DSC!BurnFrom(sender, to, amount)
      PROVE  Unaltered
  <2>1. /\ CanSpend(dscAllowances, to, sender, amount)
        /\ dscBalances[to] >= amount
        /\ dscAllowances' = Spent(dscAllowances, to, sender, amount)
        /\ dscBalances' = Debited(dscBalances, to, amount)
        /\ dscTotalSupply' = dscTotalSupply - amount
        /\ UNCHANGED dscOwner
    BY <1>6 DEF DSC!BurnFrom, DSC!CanSpend, CanSpend, DSC!Spent, Spent,
                DSC!CanTransfer, DSC!Debited, Debited
  <2>2. /\ Debited(dscBalances, to, amount) \in [Holder -> Word]
        /\ SumFunction(Debited(dscBalances, to, amount)) = dscTotalSupply - amount
    BY <1>1, <1>2, <2>1, DebitedLedger
  <2>3. Spent(dscAllowances, to, sender, amount) \in [Holder -> [Holder -> Word]]
    BY <1>1, <1>2, <2>1, AllowanceTables
  <2>4. dscTotalSupply - amount \in Nat /\ dscTotalSupply - amount <= MaxUint
    BY <1>1, <1>2, <2>1, MaxUintAssumption
  <2>5. dscTotalSupply' \in Word /\ dscTotalSupply' <= dscTotalSupply
    BY <1>1, <1>2, <2>1, <2>4, WordsAreNaturals
  <2>6. QED
    BY <2>1, <2>2, <2>3, <2>5
<1>7. ASSUME NEW amount \in ApprovalAmounts, DSC!Approve(sender, to, amount)
      PROVE  Unaltered
  <2>1. /\ dscAllowances' = Approved(dscAllowances, sender, to, amount)
        /\ UNCHANGED <<dscBalances, dscTotalSupply, dscOwner>>
    BY <1>7 DEF DSC!Approve, DSC!Approved, Approved
  <2>2. Approved(dscAllowances, sender, to, amount) \in [Holder -> [Holder -> Word]]
    BY <1>1, <1>2, AllowanceTables
  <2>3. QED
    BY <1>1, <2>1, <2>2
<1>8. Unaltered
  BY <1>3, <1>4, <1>5, <1>6, <1>7
<1>9. UNCHANGED s_DscMinted /\ totalDebt' = totalDebt
  BY DEF UseDsc, engineVars, totalDebt
<1>10. /\ totalDebt \in Nat /\ dscTotalSupply \in Nat /\ dscTotalSupply <= totalDebt
       /\ dscTotalSupply' \in Nat /\ dscTotalSupply' <= dscTotalSupply
  BY <1>8, DscTables, WordsAreNaturals
<1> HIDE DEF Unaltered
<1>11. gap' >= gap /\ dscTotalSupply' <= totalDebt'
  <2> DEFINE d == totalDebt
             m == dscTotalSupply
             n == dscTotalSupply'
  <2>1. d \in Nat /\ m \in Nat /\ n \in Nat /\ m <= d /\ n <= m
    BY <1>10
  <2>2. gap' = d - n /\ gap = d - m /\ totalDebt' = d
    BY <1>9 DEF gap
  <2> HIDE DEF d, m, n
  <2>3. n <= d /\ d - n >= d - m
    BY <2>1
  <2>4. gap' >= gap /\ n <= totalDebt'
    BY <2>2, <2>3
  <2>5. QED
    BY <2>4 DEF n
<1>12. QED
  BY <1>8, <1>9, <1>11 DEF Unaltered, DscBooks, DscBackedByDebt

-----------------------------------------------------------------------------
(* The transactions *)

\* A half that a transaction does not touch.
LEMMA CollateralUntouched ==
  ASSUME CollateralBooks, UNCHANGED <<s_collateralDeposited, collateralVars>>
  PROVE  /\ CollateralBooks'
         /\ \A t \in Token : surplus(t)' = surplus(t)
  BY DEF CollateralBooks, CollateralBacked, surplus, totalDeposited, collateralVars

\* The DSC half, by a transaction that does not touch it.
LEMMA DscUntouched ==
  ASSUME DscBooks, UNCHANGED <<s_DscMinted, dscVars>>
  PROVE  DscBooks' /\ gap' = gap
  BY DEF DscBooks, DscBackedByDebt, gap, totalDebt, dscVars

\* The feeds, by a transaction that does not touch them.
LEMMA OracleUntouched ==
  ASSUME OracleTypeOK, UNCHANGED oracleVars
  PROVE  OracleTypeOK'
  BY DEF OracleTypeOK, oracleVars

\* What a step of the engine leaves as it was.
BooksKept ==
  /\ IInv'
  /\ \A t \in Token : surplus(t)' = surplus(t)
  /\ gap' = gap

\* A liquidation, with what the liquidator receives and what the debt loses.
LEMMA LiquidateBooks ==
  ASSUME IInv, NEW liquidator \in User, NEW token \in Token, NEW user \in User,
         NEW debtToCover \in Word, coverDebt(liquidator, token, user, debtToCover)
  PROVE  /\ BooksKept
         /\ s_DscMinted'[user] = s_DscMinted[user] - debtToCover
         /\ collateralBalances'[token][liquidator]
              = collateralBalances[token][liquidator]
                  + totalCollateralToRedeem(answer[token], debtToCover)
         /\ 100 * totalCollateralToRedeem(answer[token], debtToCover)
                * scaledPrice(answer[token])
              <= 110 * debtToCover * PRECISION
<1> DEFINE paid == totalCollateralToRedeem(answer[token], debtToCover)
<1>1. /\ token \in Collateral
      /\ totalCollateralToRedeemReturns(answer[token], debtToCover)
      /\ seizeCollateral(user, liquidator, token, paid)
      /\ burnDsc(user, liquidator, debtToCover)
      /\ UNCHANGED <<collateralAllowances, oracleVars>>
  BY DEF coverDebt
<1>2. answer[token] \in Int
  BY <1>1, EngineAssumption DEF IInv, OracleTypeOK
<1>3. scaledPrice(answer[token]) # 0
  BY <1>1 DEF totalCollateralToRedeemReturns, tokenAmountFromUsdReturns
<1>4. /\ paid \in Nat
      /\ 100 * paid * scaledPrice(answer[token]) <= 110 * debtToCover * PRECISION
  BY <1>2, <1>3, BonusIsAtMostTenPercent, WordsAreNaturals
<1> HIDE DEF paid
<1>5. /\ CollateralBooks'
      /\ \A t \in Token : surplus(t)' = surplus(t)
      /\ collateralBalances'[token][liquidator]
           = collateralBalances[token][liquidator] + paid
  BY <1>1, <1>4, SeizeBooks DEF IInv
<1>6. /\ DscBooks' /\ gap' = gap
      /\ s_DscMinted'[user] = s_DscMinted[user] - debtToCover
  BY <1>1, BurnBooks DEF IInv
<1>7. OracleTypeOK'
  BY <1>1, OracleUntouched DEF IInv
<1>8. QED
  BY <1>4, <1>5, <1>6, <1>7 DEF BooksKept, IInv, paid

\* Every transaction of the engine.
LEMMA EngineStepBooks ==
  ASSUME IInv, NEW sender \in User, EngineStep(sender)
  PROVE  BooksKept
<1> USE DEF BooksKept
<1>0. /\ CollateralBooks /\ DscBooks /\ OracleTypeOK
      /\ \A amount \in CollateralAmounts : amount \in Word
      /\ \A dsc \in DscAmounts : dsc \in Word
  BY AmountsAreWords DEF IInv
<1>1. ASSUME NEW token \in Token, NEW amount \in CollateralAmounts,
             DepositCollateral(sender, token, amount)
      PROVE  BooksKept
  <2>1. /\ depositCollateral(sender, token, amount)
        /\ UNCHANGED <<s_DscMinted, dscVars>> /\ UNCHANGED oracleVars
    BY <1>1 DEF DepositCollateral
  <2>2. QED
    BY <1>0, <2>1, DepositBooks, DscUntouched, OracleUntouched DEF IInv
<1>2. ASSUME NEW token \in Token, NEW amount \in CollateralAmounts,
             RedeemCollateral(sender, token, amount)
      PROVE  BooksKept
  <2>1. /\ redeemCollateral(sender, sender, token, amount)
        /\ UNCHANGED collateralAllowances
        /\ UNCHANGED <<s_DscMinted, dscVars>> /\ UNCHANGED oracleVars
    BY <1>2 DEF RedeemCollateral
  <2>2. QED
    BY <1>0, <2>1, RedeemBooks, DscUntouched, OracleUntouched DEF IInv
<1>3. ASSUME NEW token \in Token, NEW amount \in CollateralAmounts, NEW dsc \in DscAmounts,
             DepositCollateralAndMintDsc(sender, token, amount, dsc)
      PROVE  BooksKept
  <2>1. /\ depositCollateral(sender, token, amount)
        /\ mintDsc(sender, dsc) /\ UNCHANGED oracleVars
    BY <1>3 DEF DepositCollateralAndMintDsc
  <2>2. QED
    BY <1>0, <2>1, DepositBooks, MintBooks, OracleUntouched DEF IInv
<1>4. ASSUME NEW token \in Token, NEW amount \in CollateralAmounts, NEW dsc \in DscAmounts,
             RedeemCollateralForDsc(sender, token, amount, dsc)
      PROVE  BooksKept
  <2>1. /\ redeemCollateral(sender, sender, token, amount)
        /\ UNCHANGED collateralAllowances
        /\ burnDsc(sender, sender, dsc) /\ UNCHANGED oracleVars
    BY <1>4 DEF RedeemCollateralForDsc
  <2>2. QED
    BY <1>0, <2>1, RedeemBooks, BurnBooks, OracleUntouched DEF IInv
<1>5. ASSUME NEW dsc \in DscAmounts, MintDsc(sender, dsc)
      PROVE  BooksKept
  <2>1. /\ mintDsc(sender, dsc)
        /\ UNCHANGED <<s_collateralDeposited, collateralVars>> /\ UNCHANGED oracleVars
    BY <1>5 DEF MintDsc
  <2>2. QED
    BY <1>0, <2>1, MintBooks, CollateralUntouched, OracleUntouched DEF IInv
<1>6. ASSUME NEW dsc \in DscAmounts, BurnDsc(sender, dsc)
      PROVE  BooksKept
  <2>1. /\ burnDsc(sender, sender, dsc)
        /\ UNCHANGED <<s_collateralDeposited, collateralVars>> /\ UNCHANGED oracleVars
    BY <1>6 DEF BurnDsc
  <2>2. QED
    BY <1>0, <2>1, BurnBooks, CollateralUntouched, OracleUntouched DEF IInv
<1>7. ASSUME NEW dsc \in DscAmounts, NEW token \in Token, NEW user \in User,
             Liquidate(sender, token, user, dsc)
      PROVE  BooksKept
  <2>1. coverDebt(sender, token, user, dsc)
    BY <1>7 DEF Liquidate
  <2>2. QED
    BY <1>0, <2>1, LiquidateBooks
<1> HIDE DEF BooksKept
<1>8. QED
  BY <1>1, <1>2, <1>3, <1>4, <1>5, <1>6, <1>7 DEF EngineStep

\* Every call on the tokens: the accounts stay as they are, and the engine can
\* only gain collateral, and the supply only shrink.
LEMMA TokenStepBooks ==
  ASSUME IInv, NEW sender \in User, TokenStep(sender)
  PROVE  /\ IInv' /\ UNCHANGED engineVars
         /\ \A t \in Token : surplus(t)' >= surplus(t)
         /\ gap' >= gap
<1>0. /\ CollateralBooks /\ DscBooks /\ OracleTypeOK
      /\ \A amount \in TransferAmounts \cup ApprovalAmounts : amount \in Word
      /\ gap \in Int
      /\ \A t \in Token : surplus(t) \in Int
  <2>1. \A t \in Token : totalDeposited(t) \in Nat /\ collateralBalances[t][Engine] \in Nat
    <3>1. \A t \in Token : totalDeposited(t) \in Nat
      BY ColumnTotalType, DepositsAreColumns DEF IInv, CollateralBooks
    <3>2. \A t \in Token : collateralBalances[t][Engine] \in Nat
      BY CollateralTables, Accounts DEF IInv
    <3>3. QED
      BY <3>1, <3>2
  <2>2. gap \in Int
    BY DscTables DEF gap, IInv
  <2>3. QED
    BY <2>1, <2>2, AmountsAreWords DEF IInv, surplus
<1>1. ASSUME NEW token \in Token, NEW amount \in ApprovalAmounts,
             ApproveCollateral(sender, token, amount)
      PROVE  /\ IInv' /\ UNCHANGED engineVars
             /\ \A t \in Token : surplus(t)' = surplus(t)
             /\ gap' = gap
  <2>1. UNCHANGED <<s_DscMinted, dscVars>> /\ UNCHANGED oracleVars /\ UNCHANGED engineVars
    BY <1>1 DEF ApproveCollateral, engineVars
  <2>2. QED
    BY <1>0, <1>1, <2>1, ApproveBooks, DscUntouched, OracleUntouched DEF IInv
<1>2. ASSUME NEW token \in Token, NEW to \in Holder, NEW amount \in TransferAmounts,
             TransferCollateral(sender, to, token, amount)
      PROVE  /\ IInv' /\ UNCHANGED engineVars
             /\ \A t \in Token : surplus(t)' >= surplus(t)
             /\ gap' = gap
  <2>1. UNCHANGED <<s_DscMinted, dscVars>> /\ UNCHANGED oracleVars /\ UNCHANGED engineVars
    BY <1>2 DEF TransferCollateral, engineVars
  <2>2. QED
    BY <1>0, <1>2, <2>1, TransferBooks, DscUntouched, OracleUntouched DEF IInv
<1>3. ASSUME UseDsc(sender)
      PROVE  /\ IInv' /\ UNCHANGED engineVars
             /\ \A t \in Token : surplus(t)' = surplus(t)
             /\ gap' >= gap
  <2>1. /\ UNCHANGED <<s_collateralDeposited, collateralVars>> /\ UNCHANGED oracleVars
        /\ UNCHANGED engineVars
    BY <1>3 DEF UseDsc, engineVars
  <2>2. QED
    BY <1>0, <1>3, <2>1, UseDscBooks, CollateralUntouched, OracleUntouched DEF IInv
<1>4. QED
  BY <1>0, <1>1, <1>2, <1>3 DEF TokenStep

\* What the feeds publish is a number with a time.
LEMMA FeedStepTypes ==
  ASSUME OracleTypeOK, FeedStep
  PROVE  OracleTypeOK'
<1>1. /\ answer \in [Feed -> Int] /\ updatedAt \in [Feed -> Nat]
      /\ now \in Nat /\ now <= MaxTime /\ MaxTime \in Nat
  BY OracleAssumption DEF OracleTypeOK
<1>2. ASSUME NEW feed \in Feed, NEW newAnswer \in Answers, UpdateAnswer(feed, newAnswer)
      PROVE  OracleTypeOK'
  BY <1>1, <1>2, OracleAssumption DEF UpdateAnswer, OracleTypeOK
<1>3. ASSUME NEW feed \in Feed, NEW newAnswer \in Answers, NEW timestamp \in RoundTimes,
             UpdateRoundData(feed, newAnswer, timestamp)
      PROVE  OracleTypeOK'
  BY <1>1, <1>3, OracleAssumption DEF UpdateRoundData, OracleTypeOK
<1>4. ASSUME Tick PROVE OracleTypeOK'
  BY <1>1, <1>4 DEF Tick, OracleTypeOK
<1>5. QED
  BY <1>2, <1>3, <1>4 DEF FeedStep, OracleStep

\* The feeds are not in the books.
LEMMA FeedStepBooks ==
  ASSUME IInv, FeedStep
  PROVE  BooksKept /\ UNCHANGED engineVars
<1>1. /\ UNCHANGED <<s_collateralDeposited, collateralVars>>
      /\ UNCHANGED <<s_DscMinted, dscVars>>
      /\ UNCHANGED engineVars
  BY DEF FeedStep, engineVars
<1>2. QED
  BY <1>1, FeedStepTypes, CollateralUntouched, DscUntouched DEF IInv, BooksKept

-----------------------------------------------------------------------------
(* The invariant *)

\* The state the deployment leaves satisfies the invariant.
LEMMA InitIInv == Init => IInv
<1>1. SUFFICES ASSUME Init PROVE IInv
  OBVIOUS
<1>2. CollateralBooks
  <2>1. /\ s_collateralDeposited \in [User -> [Token -> Word]]
        /\ collateralBalances \in [Token -> [Holder -> Word]]
        /\ collateralAllowances \in [Token -> [User -> [{Engine} -> Word]]]
        /\ \A t \in Token : SumFunction(collateralBalances[t]) \in Word
    BY <1>1, WordsAreNaturals, EngineAssumption, CollateralAssumption DEF Init
  <2>2. ASSUME NEW t \in Token PROVE totalDeposited(t) <= collateralBalances[t][Engine]
    <3> DEFINE c == [u \in User |-> s_collateralDeposited[u][t]]
    <3>1. c \in [User -> Nat] /\ (\A u \in User : c[u] = 0) /\ IsFiniteSet(User)
      BY <1>1, Accounts DEF Init
    <3> HIDE DEF c
    <3>2. SumFunction(c) = 0
      BY <3>1, SumZero
    <3>3. collateralBalances[t][Engine] \in Nat
      BY <2>1, Accounts, WordsAreNaturals
    <3>4. QED
      BY <3>2, <3>3 DEF totalDeposited, c
  <2>3. QED
    BY <2>1, <2>2 DEF CollateralBooks, CollateralBacked
<1>3. DscBooks
  <2>1. /\ s_DscMinted \in [User -> Nat] /\ (\A u \in User : s_DscMinted[u] = 0)
        /\ dscBalances \in [Holder -> Nat] /\ (\A h \in Holder : dscBalances[h] = 0)
        /\ IsFiniteSet(User) /\ IsFiniteSet(Holder)
    BY <1>1, Accounts DEF Init
  <2>2. SumFunction(s_DscMinted) = 0 /\ SumFunction(dscBalances) = 0
    BY <2>1, SumZero
  <2>3. /\ s_DscMinted \in [User -> Word] /\ dscBalances \in [Holder -> Word]
        /\ dscAllowances \in [Holder -> [Holder -> Word]]
        /\ dscTotalSupply = 0 /\ dscTotalSupply \in Word /\ dscOwner = Engine
    BY <1>1, WordsAreNaturals, EngineAssumption DEF Init
  <2>4. QED
    BY <2>2, <2>3 DEF DscBooks, DscBackedByDebt, totalDebt
<1>4. OracleTypeOK
  <2>1. answer \in [Feed -> Answers] /\ updatedAt = [t \in Feed |-> 0] /\ now = 0
    BY <1>1 DEF Init
  <2>2. answer \in [Feed -> Int] /\ updatedAt \in [Feed -> Nat] /\ now \in 0 .. MaxTime
    <3>1. Answers \subseteq Int /\ MaxTime \in Nat
      BY OracleAssumption
    <3>2. answer \in [Feed -> Int]
      BY <2>1, <3>1
    <3>3. updatedAt \in [Feed -> Nat]
      BY <2>1
    <3>4. now \in 0 .. MaxTime
      BY <2>1, <3>1
    <3>5. QED
      BY <3>2, <3>3, <3>4
  <2>3. QED
    BY <2>2 DEF OracleTypeOK
<1>5. QED
  BY <1>2, <1>3, <1>4 DEF IInv

\* A step of the specification is one of the engine, of the tokens or of the
\* feeds, or leaves everything as it is.
LEMMA NextBooks ==
  ASSUME IInv, [Next]_vars
  PROVE  /\ IInv'
         /\ BooksKept \/ /\ UNCHANGED engineVars
                         /\ \A t \in Token : surplus(t)' >= surplus(t)
                         /\ gap' >= gap
<1>1. CASE Next
  <2>1. CASE FeedStep
    BY <2>1, FeedStepBooks DEF BooksKept
  <2>2. ASSUME NEW sender \in User, EngineStep(sender)
        PROVE  BooksKept
    BY <2>2, EngineStepBooks
  <2>3. ASSUME NEW sender \in User, TokenStep(sender)
        PROVE  /\ IInv' /\ UNCHANGED engineVars
               /\ \A t \in Token : surplus(t)' >= surplus(t)
               /\ gap' >= gap
    BY <2>3, TokenStepBooks
  <2>4. QED
    BY <1>1, <2>1, <2>2, <2>3 DEF Next, BooksKept
<1>2. CASE UNCHANGED vars
  <2>1. /\ UNCHANGED <<s_collateralDeposited, collateralVars>>
        /\ UNCHANGED <<s_DscMinted, dscVars>>
        /\ UNCHANGED oracleVars
    BY <1>2 DEF vars, engineVars
  <2>2. QED
    BY <2>1, CollateralUntouched, DscUntouched, OracleUntouched DEF IInv, BooksKept
<1>3. QED
  BY <1>1, <1>2

\* The invariant holds in every reachable state.
LEMMA Invariance == Spec => []IInv
<1>1. IInv /\ [Next]_vars => IInv'
  BY NextBooks
<1>2. QED
  BY <1>1, InitIInv, PTL DEF Spec

\* Every mapping and every table entry is a uint256 in every reachable state,
\* although _mint, _burn and _transfer of the tokens do not check.
THEOREM TypeInvariant == Spec => []TypeOK
<1>1. IInv => TypeOK
  BY DEF IInv, CollateralBooks, DscBooks, TypeOK, DSC!TypeOK, DSC!Word, Word, Holder
<1>2. QED
  BY <1>1, Invariance, PTL

\* The engine holds what its accounts add up to, for every token.
THEOREM CollateralIsBacked == Spec => []CollateralBacked
<1>1. IInv => CollateralBacked
  BY DEF IInv, CollateralBooks
<1>2. QED
  BY <1>1, Invariance, PTL

\* Every DSC in circulation is some account's debt.
THEOREM DscIsBackedByDebt == Spec => []DscBackedByDebt
<1>1. IInv => DscBackedByDebt
  BY DEF IInv, DscBooks
<1>2. QED
  BY <1>1, Invariance, PTL

-----------------------------------------------------------------------------
(* Action properties *)

\* What the engine does never moves its holding of a token away from its books.
THEOREM SurplusComesFromDonations == Spec => SurplusOnlyFromDonation
<1>1. IInv /\ [Next]_vars
        => [\A t \in Token :
              /\ surplus(t)' >= surplus(t)
              /\ surplus(t)' # surplus(t) => UNCHANGED engineVars]_vars
  <2>1. SUFFICES ASSUME IInv, [Next]_vars, NEW t \in Token
                 PROVE  /\ surplus(t)' >= surplus(t)
                        /\ surplus(t)' # surplus(t) => UNCHANGED engineVars
    OBVIOUS
  <2>2. surplus(t) \in Int
    <3>1. totalDeposited(t) \in Nat
      BY <2>1, ColumnTotalType, DepositsAreColumns DEF IInv, CollateralBooks
    <3>2. collateralBalances[t][Engine] \in Nat
      BY <2>1, CollateralTables, Accounts DEF IInv
    <3>3. QED
      BY <3>1, <3>2 DEF surplus
  <2>3. CASE BooksKept
    <3>1. surplus(t)' = surplus(t)
      BY <2>3 DEF BooksKept
    <3>2. QED
      BY <2>2, <3>1
  <2>4. QED
    BY <2>1, <2>3, NextBooks
<1>2. QED
  BY <1>1, Invariance, PTL DEF Spec, SurplusOnlyFromDonation

\* The engine never changes a debt without the supply; only burnFrom does.
THEOREM DebtGapComesFromBurnFrom == Spec => DebtGapOnlyFromBurnFrom
<1>1. IInv /\ [Next]_vars
        => [/\ gap' >= gap
            /\ gap' # gap => UNCHANGED engineVars]_vars
  <2>1. SUFFICES ASSUME IInv, [Next]_vars
                 PROVE  gap' >= gap /\ (gap' # gap => UNCHANGED engineVars)
    OBVIOUS
  <2>2. gap \in Int
    BY <2>1, DscTables DEF IInv, gap
  <2>3. CASE BooksKept
    BY <2>2, <2>3 DEF BooksKept
  <2>4. QED
    BY <2>1, <2>3, NextBooks
<1>2. Spec => [][/\ gap' >= gap
                 /\ gap' # gap => UNCHANGED engineVars]_vars
  BY <1>1, Invariance, PTL DEF Spec
<1>3. QED
  BY <1>2 DEF DebtGapOnlyFromBurnFrom, gap

\* Whatever the roundings, a liquidator gets at most 110 percent of what it pays.
THEOREM LiquidatorIsPaidAtMostTheBonus == Spec => LiquidatorPaidAtMostTheBonus
<1> DEFINE Paid(u, l, t) ==
             100 * (collateralBalances'[t][l] - collateralBalances[t][l])
                 * scaledPrice(answer[t])
               <= 110 * (s_DscMinted[u] - s_DscMinted'[u]) * PRECISION
<1>1. ASSUME IInv, [Next]_vars,
             NEW u \in User, NEW l \in User, NEW t \in Collateral, isLiquidated(u, l, t)
      PROVE  Paid(u, l, t)
  <2> DEFINE covered == s_DscMinted[u] - s_DscMinted'[u]
             redeemed == totalCollateralToRedeem(answer[t], covered)
  <2>1. /\ s_DscMinted'[u] < s_DscMinted[u]
        /\ coverDebt(l, t, u, covered)
    BY <1>1 DEF isLiquidated, Liquidate
  <2>2. covered \in Word
    <3>1. /\ s_DscMinted[u] \in Nat /\ s_DscMinted[u] <= MaxUint
          /\ s_DscMinted'[u] \in Nat
      BY <1>1, NextBooks, DscTables, WordsAreNaturals DEF IInv, DscBooks
    <3>2. covered \in Nat /\ covered <= MaxUint
      BY <2>1, <3>1, MaxUintAssumption
    <3>3. QED
      BY <3>2, WordsAreNaturals
  <2>3. t \in Token
    BY EngineAssumption DEF Collateral, Range
  <2> HIDE DEF covered
  <2>4. /\ collateralBalances'[t][l] = collateralBalances[t][l] + redeemed
        /\ 100 * redeemed * scaledPrice(answer[t]) <= 110 * covered * PRECISION
    BY <1>1, <2>1, <2>2, <2>3, LiquidateBooks
  <2>5. collateralBalances[t][l] \in Nat /\ redeemed \in Int
    <3>1. collateralBalances[t][l] \in Nat
      BY <1>1, <2>3, Accounts, CollateralTables DEF IInv
    <3>2. answer[t] \in Int /\ scaledPrice(answer[t]) # 0
      BY <1>1, <2>1, EngineAssumption
         DEF IInv, OracleTypeOK, coverDebt, totalCollateralToRedeemReturns,
             tokenAmountFromUsdReturns
    <3>3. redeemed \in Nat
      BY <2>2, <3>2, BonusIsAtMostTenPercent, WordsAreNaturals
    <3>4. QED
      BY <3>1, <3>3
  <2> HIDE DEF redeemed
  <2>6. collateralBalances'[t][l] - collateralBalances[t][l] = redeemed
    BY <2>4, <2>5
  <2>7. QED
    BY <2>4, <2>6 DEF covered
<1> HIDE DEF Paid
<1>2. IInv /\ [Next]_vars
        => [\A u, l \in User, t \in Collateral :
              isLiquidated(u, l, t) /\ l # u => Paid(u, l, t)]_vars
  BY <1>1
<1>3. Spec => [][\A u, l \in User, t \in Collateral :
                   isLiquidated(u, l, t) /\ l # u => Paid(u, l, t)]_vars
  BY <1>2, Invariance, PTL DEF Spec
<1>4. QED
  BY <1>3 DEF LiquidatorPaidAtMostTheBonus, Paid

-----------------------------------------------------------------------------
(***************************************************************************)
(* The health of accounts.                                                 *)
(*                                                                         *)
(* The value of a set of deposits is a function of the prices and the      *)
(* amounts; it is proved to be monotone and superadditive in the amounts.  *)
(* A step then does one of three things to an account: nothing that could  *)
(* make it riskier, something its owner does that ends with the health     *)
(* factor checked, or a liquidation of an account that is not healthy.     *)
(* Together with the books this is all CollateralisedDebt asks for.        *)
(***************************************************************************)

\* The positions of the list the engine sums over.
Index == DOMAIN s_collateralTokens

\* The dollar value of the amounts d at the prices a, listed token by token.
valueOf(a, d) ==
  SumFunction([i \in Index |->
                 usdValue(a[s_collateralTokens[i]], d[s_collateralTokens[i]])])

\* The health factor of a debt against a value.
healthOf(debt, value) ==
  IF debt = 0 THEN MaxUint ELSE calculateHealthFactor(debt, value)

\* Every listed collateral is a token with a feed of its own, and the list is finite.
LEMMA Listed ==
  /\ IsFiniteSet(Index)
  /\ \A i \in Index : s_collateralTokens[i] \in Collateral
  /\ Collateral \subseteq Token
  /\ Feed = Collateral
<1>1. s_collateralTokens \in Seq(Token) /\ Feed = Collateral
  BY EngineAssumption
<1>2. Len(s_collateralTokens) \in Nat /\ Index = 1 .. Len(s_collateralTokens)
  BY <1>1 DEF Index
<1>3. IsFiniteSet(1 .. Len(s_collateralTokens))
  BY <1>2, FS_Interval
<1>4. \A i \in Index : s_collateralTokens[i] \in Collateral /\ s_collateralTokens[i] \in Token
  BY <1>1 DEF Index, Collateral, Range
<1>5. Collateral \subseteq Token
  BY <1>4 DEF Collateral, Range, Index
<1>6. QED
  BY <1>1, <1>2, <1>3, <1>4, <1>5

\* A table of values.
LEMMA ValuesType ==
  ASSUME NEW a \in [Feed -> Int], NEW d \in [Token -> Nat]
  PROVE  /\ [i \in Index |-> usdValue(a[s_collateralTokens[i]], d[s_collateralTokens[i]])]
              \in [Index -> Nat]
         /\ valueOf(a, d) \in Nat
<1>1. \A i \in Index : /\ a[s_collateralTokens[i]] \in Int
                       /\ d[s_collateralTokens[i]] \in Nat
  BY Listed
<1>2. \A i \in Index :
        usdValue(a[s_collateralTokens[i]], d[s_collateralTokens[i]]) \in Nat
  BY <1>1, UsdValueType
<1> DEFINE v == [i \in Index |->
                   usdValue(a[s_collateralTokens[i]], d[s_collateralTokens[i]])]
<1>3. v \in [Index -> Nat]
  BY <1>2
<1> HIDE DEF v
<1>4. SumFunction(v) \in Nat
  BY <1>3, Listed, SumType
<1>5. QED
  BY <1>3, <1>4 DEF v, valueOf

\* What two sets of deposits are worth apart is not more than they are worth together.
LEMMA ValueSuperadditive ==
  ASSUME NEW a \in [Feed -> Int], NEW d \in [Token -> Nat], NEW e \in [Token -> Nat],
         NEW f \in [Token -> Nat], \A t \in Token : f[t] = d[t] + e[t]
  PROVE  valueOf(a, d) + valueOf(a, e) <= valueOf(a, f)
<1> DEFINE v(x) == [i \in Index |->
                      usdValue(a[s_collateralTokens[i]], x[s_collateralTokens[i]])]
           p == v(d)
           q == v(e)
           r == v(f)
<1>1. p \in [Index -> Nat] /\ q \in [Index -> Nat] /\ r \in [Index -> Nat]
  BY ValuesType
<1>2. \A i \in Index : p[i] + q[i] <= r[i]
  <2> SUFFICES ASSUME NEW i \in Index PROVE p[i] + q[i] <= r[i]
    OBVIOUS
  <2> DEFINE t == s_collateralTokens[i]
  <2>1. a[t] \in Int /\ d[t] \in Nat /\ e[t] \in Nat /\ f[t] = d[t] + e[t]
    BY Listed
  <2>2. p[i] = usdValue(a[t], d[t]) /\ q[i] = usdValue(a[t], e[t]) /\ r[i] = usdValue(a[t], f[t])
    OBVIOUS
  <2> HIDE DEF t, p, q, r
  <2>3. usdValue(a[t], d[t]) + usdValue(a[t], e[t]) <= usdValue(a[t], d[t] + e[t])
    BY <2>1, UsdValueSuperadditive
  <2>4. QED
    BY <2>1, <2>2, <2>3
<1> HIDE DEF p, q, r
<1>3. SumFunction(p) + SumFunction(q) <= SumFunction(r)
  BY <1>1, <1>2, Listed, SumSuperadditive
<1>4. QED
  BY <1>3 DEF p, q, r, valueOf

\* More deposits are not worth less.
LEMMA ValueMonotone ==
  ASSUME NEW a \in [Feed -> Int], NEW d \in [Token -> Nat], NEW e \in [Token -> Nat],
         \A t \in Collateral : d[t] <= e[t]
  PROVE  valueOf(a, d) <= valueOf(a, e)
<1> DEFINE v(x) == [i \in Index |->
                      usdValue(a[s_collateralTokens[i]], x[s_collateralTokens[i]])]
           p == v(d)
           q == v(e)
<1>1. p \in [Index -> Nat] /\ q \in [Index -> Nat]
  BY ValuesType
<1>2. \A i \in Index : p[i] <= q[i]
  <2> SUFFICES ASSUME NEW i \in Index PROVE p[i] <= q[i]
    OBVIOUS
  <2> DEFINE t == s_collateralTokens[i]
  <2>1. a[t] \in Int /\ d[t] \in Nat /\ e[t] \in Nat /\ d[t] <= e[t]
    BY Listed
  <2>2. p[i] = usdValue(a[t], d[t]) /\ q[i] = usdValue(a[t], e[t])
    OBVIOUS
  <2> HIDE DEF t, p, q
  <2>3. QED
    BY <2>1, <2>2, UsdValueMonotone
<1> HIDE DEF p, q
<1>3. SumFunction(p) <= SumFunction(q)
  BY <1>1, <1>2, Listed, SumMonotone
<1>4. QED
  BY <1>3 DEF p, q, valueOf

\* No deposits are worth nothing.
LEMMA NothingIsWorthNothing ==
  ASSUME NEW a \in [Feed -> Int], NEW d \in [Token -> Nat],
         \A t \in Collateral : d[t] = 0
  PROVE  valueOf(a, d) = 0
<1> DEFINE p == [i \in Index |->
                   usdValue(a[s_collateralTokens[i]], d[s_collateralTokens[i]])]
<1>1. p \in [Index -> Nat]
  BY ValuesType
<1>2. \A i \in Index : p[i] = 0
  <2> SUFFICES ASSUME NEW i \in Index PROVE p[i] = 0
    OBVIOUS
  <2>1. a[s_collateralTokens[i]] \in Int /\ d[s_collateralTokens[i]] = 0
    BY Listed
  <2>2. usdValue(a[s_collateralTokens[i]], 0) = 0
    BY <2>1, UsdValueType, 0 \in Nat
  <2>3. QED
    BY <2>1, <2>2
<1> HIDE DEF p
<1>3. SumFunction(p) = 0
  BY <1>1, <1>2, Listed, SumZero
<1>4. QED
  BY <1>3 DEF p, valueOf

-----------------------------------------------------------------------------

\* The account of a user in this state and in the next one.
LEMMA AccountValue ==
  ASSUME NEW u \in User
  PROVE  /\ getAccountCollateralValue(u) = valueOf(answer, s_collateralDeposited[u])
         /\ getAccountCollateralValue(u)' = valueOf(answer', s_collateralDeposited'[u])
         /\ healthFactor(u) = healthOf(s_DscMinted[u], getAccountCollateralValue(u))
         /\ healthFactor(u)' = healthOf(s_DscMinted'[u], getAccountCollateralValue(u)')
  BY DEF getAccountCollateralValue, depositValues, getUsdValue, valueOf, Index,
         healthFactor, healthOf

\* Where the health factor passes the comparison, the collateral is worth twice
\* the debt, and where it does not pass, and there is a debt, it is not.
LEMMA HealthOfAccount ==
  ASSUME NEW debt \in Nat, NEW value \in Nat
  PROVE  /\ debt = 0 \/ healthOf(debt, value) >= MIN_HEALTH_FACTOR => 2 * debt <= value
         /\ debt # 0 /\ healthOf(debt, value) < MIN_HEALTH_FACTOR => ~ (2 * debt <= value)
         /\ debt # 0 => healthOf(debt, value) \in Nat /\ healthOf(debt, 0) = 0
<1>1. CASE debt = 0
  BY <1>1
<1>2. CASE debt # 0
  <2> DEFINE h == calculateHealthFactor(debt, value)
  <2>1. debt \in Nat \ {0} /\ healthOf(debt, value) = h
        /\ healthOf(debt, 0) = calculateHealthFactor(debt, 0)
    BY <1>2 DEF healthOf
  <2>2. h >= MIN_HEALTH_FACTOR <=> value >= 2 * debt
    BY <2>1, HealthyIsTwiceTheDebt
  <2>3. PRECISION \in Nat \ {0} /\ MIN_HEALTH_FACTOR \in Nat
    BY PrecisionAssumption DEF MIN_HEALTH_FACTOR
  <2>4. \A v \in Nat : calculateHealthFactor(debt, v) \in Nat
    <3> SUFFICES ASSUME NEW v \in Nat PROVE calculateHealthFactor(debt, v) \in Nat
      OBVIOUS
    <3>1. (v * 50) \div 100 \in Nat
      BY QuotientAtLeast, v * 50 \in Nat, 100 \in Nat \ {0}, 0 \in Nat
    <3>2. ((v * 50) \div 100) * PRECISION \in Nat
      BY <2>3, <3>1
    <3>3. (((v * 50) \div 100) * PRECISION) \div debt \in Nat
      BY <2>1, <3>2, QuotientAtLeast, 0 \in Nat
    <3>4. QED
      BY <3>3 DEF calculateHealthFactor, collateralAdjustedForThreshold,
                  LIQUIDATION_THRESHOLD, LIQUIDATION_PRECISION
  <2>5. calculateHealthFactor(debt, 0) = 0
    <3>1. (0 * 50) \div 100 = 0 /\ 0 * PRECISION = 0 /\ 0 \div debt = 0
      BY <2>1, <2>3
    <3>2. QED
      BY <3>1 DEF calculateHealthFactor, collateralAdjustedForThreshold,
                  LIQUIDATION_THRESHOLD, LIQUIDATION_PRECISION
  <2>6. h \in Nat
    BY <2>4
  <2> HIDE DEF h
  <2>7. QED
    BY <1>2, <2>1, <2>2, <2>3, <2>5, <2>6
<1>3. QED
  BY <1>1, <1>2

-----------------------------------------------------------------------------
(* What a step does to an account *)

\* Nothing that makes it riskier.
safer(u) ==
  /\ s_DscMinted'[u] <= s_DscMinted[u]
  /\ \A t \in Token : s_collateralDeposited'[u][t] >= s_collateralDeposited[u][t]

\* Something that ends with its health factor checked and pays only its owner.
checked(u) ==
  /\ healthFactorIsFine(u)'
  /\ \A t \in Token :
       s_collateralDeposited'[u][t] < s_collateralDeposited[u][t]
         => collateralBalances'[t][u] - collateralBalances[t][u]
              = s_collateralDeposited[u][t] - s_collateralDeposited'[u][t]

\* A liquidation.
liquidated(u) ==
  /\ healthFactor(u) < MIN_HEALTH_FACTOR
  /\ s_DscMinted[u] # 0
  /\ s_DscMinted'[u] < s_DscMinted[u]
  /\ healthFactor(u)' > healthFactor(u)

\* Its deposits stay.
depositsKept(u) == \A t \in Token : s_collateralDeposited'[u][t] = s_collateralDeposited[u][t]

\* depositCollateral lowers no deposit.
LEMMA DepositEffect ==
  ASSUME IInv, NEW sender \in User, NEW token \in Token, NEW amount \in Word,
         depositCollateral(sender, token, amount)
  PROVE  \A u \in User, t \in Token :
           s_collateralDeposited'[u][t] >= s_collateralDeposited[u][t]
<1>1. /\ s_collateralDeposited \in [User -> [Token -> Word]]
      /\ \A u \in User, t \in Token : s_collateralDeposited[u][t] \in Nat
      /\ amount \in Nat
  BY CollateralTables, WordsAreNaturals DEF IInv, CollateralBooks
<1>2. s_collateralDeposited'
        = [s_collateralDeposited EXCEPT
             ![sender][token] = s_collateralDeposited[sender][token] + amount]
  BY DEF depositCollateral
<1>3. SUFFICES ASSUME NEW u \in User, NEW t \in Token
               PROVE  s_collateralDeposited'[u][t] >= s_collateralDeposited[u][t]
  OBVIOUS
<1>4. \/ s_collateralDeposited'[u][t] = s_collateralDeposited[u][t] + amount
      \/ s_collateralDeposited'[u][t] = s_collateralDeposited[u][t]
  BY <1>1, <1>2
<1>5. s_collateralDeposited[u][t] \in Nat
  BY <1>1
<1>6. QED
  BY <1>1, <1>4, <1>5

\* mintDsc ends with the health factor checked and changes no other debt.
LEMMA MintEffect ==
  ASSUME IInv, NEW sender \in User, NEW amount \in Word, mintDsc(sender, amount)
  PROVE  /\ healthFactorIsFine(sender)'
         /\ \A u \in User \ {sender} : s_DscMinted'[u] = s_DscMinted[u]
  BY DEF mintDsc, IInv, DscBooks

\* _burnDsc lowers the debt of one user, who had one.
LEMMA BurnEffect ==
  ASSUME IInv, NEW onBehalfOf \in User, NEW dscFrom \in User, NEW amount \in Word,
         burnDsc(onBehalfOf, dscFrom, amount)
  PROVE  /\ s_DscMinted[onBehalfOf] # 0
         /\ s_DscMinted'[onBehalfOf] < s_DscMinted[onBehalfOf]
         /\ \A u \in User \ {onBehalfOf} : s_DscMinted'[u] = s_DscMinted[u]
<1>1. s_DscMinted[onBehalfOf] \in Nat /\ amount \in Nat
  BY DscTables, WordsAreNaturals DEF IInv
<1>2. /\ amount > 0 /\ s_DscMinted[onBehalfOf] >= amount
      /\ s_DscMinted' = [s_DscMinted EXCEPT ![onBehalfOf] = s_DscMinted[onBehalfOf] - amount]
      /\ s_DscMinted \in [User -> Word]
  BY DEF burnDsc, IInv, DscBooks
<1>3. s_DscMinted'[onBehalfOf] = s_DscMinted[onBehalfOf] - amount
  BY <1>2
<1>4. QED
  BY <1>1, <1>2, <1>3

\* _redeemCollateral pays what it takes from the user's deposit to the same user.
LEMMA RedeemEffect ==
  ASSUME IInv, NEW user \in User, NEW token \in Token, NEW amount \in Word,
         redeemCollateral(user, user, token, amount)
  PROVE  /\ \A u \in User \ {user} : depositsKept(u)
         /\ \A t \in Token :
              s_collateralDeposited'[user][t] < s_collateralDeposited[user][t]
                => collateralBalances'[t][user] - collateralBalances[t][user]
                     = s_collateralDeposited[user][t] - s_collateralDeposited'[user][t]
<1> DEFINE b == collateralBalances[token]
           c == Transferred(b, Engine, user, amount)
<1>1. /\ b \in [Holder -> Word] /\ SumFunction(b) \in Word /\ amount \in Nat
      /\ user \in Holder /\ Engine \in Holder /\ user # Engine
      /\ CanTransfer(b, Engine, amount)
  BY Accounts, CollateralTables, WordsAreNaturals DEF IInv, redeemCollateral
<1> HIDE DEF b
<1>2. c[user] = b[user] + amount
  BY <1>1, EngineHolding
<1>3. b[user] \in Nat
  BY <1>1, WordsAreNaturals
<1> HIDE DEF c
<1>4. /\ s_collateralDeposited'
           = [s_collateralDeposited EXCEPT
                ![user][token] = s_collateralDeposited[user][token] - amount]
      /\ collateralBalances' = [collateralBalances EXCEPT ![token] = c]
      /\ s_collateralDeposited \in [User -> [Token -> Word]]
      /\ collateralBalances \in [Token -> [Holder -> Word]]
  BY DEF redeemCollateral, IInv, CollateralBooks, b, c
<1>5. /\ \A u \in User \ {user} : depositsKept(u)
      /\ \A t \in Token \ {token} :
           s_collateralDeposited'[user][t] = s_collateralDeposited[user][t]
      /\ s_collateralDeposited'[user][token] = s_collateralDeposited[user][token] - amount
      /\ collateralBalances'[token][user] = c[user]
  BY <1>4 DEF depositsKept
<1>6. \A t \in Token : s_collateralDeposited[user][t] \in Nat
  BY CollateralTables DEF IInv
<1>7. collateralBalances'[token][user] - collateralBalances[token][user]
        = s_collateralDeposited[user][token] - s_collateralDeposited'[user][token]
  <2>1. collateralBalances'[token][user] - collateralBalances[token][user] = amount
    BY <1>1, <1>2, <1>3, <1>5 DEF b
  <2>2. s_collateralDeposited[user][token] - s_collateralDeposited'[user][token] = amount
    <3>1. s_collateralDeposited[user][token] \in Nat
      BY <1>6
    <3>2. QED
      BY <1>1, <1>5, <3>1
  <2>3. QED
    BY <2>1, <2>2
<1>8. QED
  BY <1>5, <1>6, <1>7

\* A liquidation empties one deposit of one user.
LEMMA SeizeEffect ==
  ASSUME IInv, NEW user \in User, NEW liquidator \in User, NEW token \in Token,
         NEW amount, seizeCollateral(user, liquidator, token, amount)
  PROVE  /\ \A u \in User \ {user} : depositsKept(u)
         /\ s_collateralDeposited'[user][token] = 0
         /\ \A t \in Token \ {token} :
              s_collateralDeposited'[user][t] = s_collateralDeposited[user][t]
<1>1. /\ s_collateralDeposited' = [s_collateralDeposited EXCEPT ![user][token] = 0]
      /\ s_collateralDeposited \in [User -> [Token -> Word]]
  BY DEF seizeCollateral, payOut, IInv, CollateralBooks
<1>2. QED
  BY <1>1 DEF depositsKept

\* An account whose debt does not rise and whose deposits stay is not riskier.
LEMMA KeptIsSafer ==
  ASSUME IInv, NEW u \in User, depositsKept(u), s_DscMinted'[u] \in Nat,
         s_DscMinted'[u] = s_DscMinted[u] \/ s_DscMinted'[u] < s_DscMinted[u]
  PROVE  safer(u)
<1>1. s_DscMinted[u] \in Nat /\ \A t \in Token : s_collateralDeposited[u][t] \in Nat
  BY CollateralTables, DscTables DEF IInv
<1>2. s_DscMinted'[u] <= s_DscMinted[u]
  BY <1>1
<1>3. \A t \in Token : s_collateralDeposited'[u][t] >= s_collateralDeposited[u][t]
  BY <1>1 DEF depositsKept
<1>4. QED
  BY <1>2, <1>3 DEF safer

\* No deposit of the account falls: its owner has nothing to receive.
LEMMA GrownIsChecked ==
  ASSUME IInv, NEW u \in User, healthFactorIsFine(u)',
         \A t \in Token : s_collateralDeposited'[u][t] >= s_collateralDeposited[u][t],
         \A t \in Token : s_collateralDeposited'[u][t] \in Nat
  PROVE  checked(u)
<1>1. \A t \in Token : s_collateralDeposited[u][t] \in Nat
  BY CollateralTables DEF IInv
<1>2. \A t \in Token : ~ (s_collateralDeposited'[u][t] < s_collateralDeposited[u][t])
  BY <1>1
<1>3. QED
  BY <1>2 DEF checked

\* Every transaction of the engine does one of the three things to every account.
LEMMA EngineStepAccounts ==
  ASSUME IInv, NEW sender \in User, EngineStep(sender), NEW u \in User
  PROVE  safer(u) \/ checked(u) \/ liquidated(u)
<1> DEFINE Goal == safer(u) \/ checked(u) \/ liquidated(u)
<1>0. /\ \A amount \in CollateralAmounts : amount \in Word
      /\ \A dsc \in DscAmounts : dsc \in Word
      /\ s_DscMinted[u] \in Nat /\ s_DscMinted'[u] \in Nat
      /\ \A t \in Token : s_collateralDeposited[u][t] \in Nat
      /\ \A t \in Token : s_collateralDeposited'[u][t] \in Nat
  <2>1. s_collateralDeposited' \in [User -> [Token -> Word]]
    BY EngineStepBooks DEF BooksKept, IInv, CollateralBooks
  <2>2. \A t \in Token : s_collateralDeposited'[u][t] \in Nat
    BY <2>1, WordsAreNaturals
  <2>3. s_DscMinted'[u] \in Nat
    BY EngineStepBooks, WordsAreNaturals DEF BooksKept, IInv, DscBooks
  <2>4. QED
    BY <2>2, <2>3, AmountsAreWords, CollateralTables, DscTables DEF IInv
<1>1. ASSUME NEW token \in Token, NEW amount \in CollateralAmounts,
             DepositCollateral(sender, token, amount)
      PROVE  Goal
  <2>1. depositCollateral(sender, token, amount) /\ UNCHANGED s_DscMinted
    BY <1>1 DEF DepositCollateral
  <2>2. \A t \in Token : s_collateralDeposited'[u][t] >= s_collateralDeposited[u][t]
    BY <1>0, <2>1, DepositEffect
  <2>3. s_DscMinted'[u] <= s_DscMinted[u]
    BY <1>0, <2>1
  <2>4. QED
    BY <2>2, <2>3 DEF safer
<1>2. ASSUME NEW token \in Token, NEW amount \in CollateralAmounts,
             RedeemCollateral(sender, token, amount)
      PROVE  Goal
  <2>1. /\ redeemCollateral(sender, sender, token, amount)
        /\ UNCHANGED s_DscMinted
        /\ healthFactorIsFine(sender)'
    BY <1>2 DEF RedeemCollateral
  <2>2. CASE u = sender
    BY <1>0, <2>1, <2>2, RedeemEffect DEF checked
  <2>3. CASE u # sender
    BY <1>0, <2>1, <2>3, RedeemEffect, KeptIsSafer
  <2>4. QED
    BY <2>2, <2>3
<1>3. ASSUME NEW token \in Token, NEW amount \in CollateralAmounts, NEW dsc \in DscAmounts,
             DepositCollateralAndMintDsc(sender, token, amount, dsc)
      PROVE  Goal
  <2>1. depositCollateral(sender, token, amount) /\ mintDsc(sender, dsc)
    BY <1>3 DEF DepositCollateralAndMintDsc
  <2>2. \A t \in Token : s_collateralDeposited'[u][t] >= s_collateralDeposited[u][t]
    BY <1>0, <2>1, DepositEffect
  <2>3. CASE u = sender
    BY <1>0, <2>1, <2>2, <2>3, MintEffect, GrownIsChecked
  <2>4. CASE u # sender
    <3>1. s_DscMinted'[u] = s_DscMinted[u]
      BY <1>0, <2>1, <2>4, MintEffect
    <3>2. QED
      BY <1>0, <2>2, <3>1 DEF safer
  <2>5. QED
    BY <2>3, <2>4
<1>4. ASSUME NEW token \in Token, NEW amount \in CollateralAmounts, NEW dsc \in DscAmounts,
             RedeemCollateralForDsc(sender, token, amount, dsc)
      PROVE  Goal
  <2>1. /\ redeemCollateral(sender, sender, token, amount)
        /\ burnDsc(sender, sender, dsc)
        /\ healthFactorIsFine(sender)'
    BY <1>4 DEF RedeemCollateralForDsc
  <2>2. CASE u = sender
    BY <1>0, <2>1, <2>2, RedeemEffect DEF checked
  <2>3. CASE u # sender
    BY <1>0, <2>1, <2>3, RedeemEffect, BurnEffect, KeptIsSafer
  <2>4. QED
    BY <2>2, <2>3
<1>5. ASSUME NEW dsc \in DscAmounts, MintDsc(sender, dsc)
      PROVE  Goal
  <2>1. mintDsc(sender, dsc) /\ UNCHANGED s_collateralDeposited
    BY <1>5 DEF MintDsc
  <2>2. depositsKept(u)
    BY <2>1 DEF depositsKept
  <2>3. CASE u = sender
    <3>1. \A t \in Token : s_collateralDeposited'[u][t] >= s_collateralDeposited[u][t]
      BY <1>0, <2>2 DEF depositsKept
    <3>2. QED
      BY <1>0, <2>1, <2>3, <3>1, MintEffect, GrownIsChecked
  <2>4. CASE u # sender
    BY <1>0, <2>1, <2>2, <2>4, MintEffect, KeptIsSafer
  <2>5. QED
    BY <2>3, <2>4
<1>6. ASSUME NEW dsc \in DscAmounts, BurnDsc(sender, dsc)
      PROVE  Goal
  <2>1. burnDsc(sender, sender, dsc) /\ UNCHANGED s_collateralDeposited
    BY <1>6 DEF BurnDsc
  <2>2. depositsKept(u)
    BY <2>1 DEF depositsKept
  <2>3. QED
    BY <1>0, <2>1, <2>2, BurnEffect, KeptIsSafer
<1>7. ASSUME NEW dsc \in DscAmounts, NEW token \in Token, NEW user \in User,
             Liquidate(sender, token, user, dsc)
      PROVE  Goal
  <2>1. /\ healthFactor(user) < MIN_HEALTH_FACTOR
        /\ seizeCollateral(user, sender, token,
                           totalCollateralToRedeem(answer[token], dsc))
        /\ burnDsc(user, sender, dsc)
        /\ healthFactor(user)' > healthFactor(user)
    BY <1>7 DEF Liquidate, coverDebt
  <2>2. CASE u = user
    BY <1>0, <2>1, <2>2, BurnEffect DEF liquidated
  <2>3. CASE u # user
    <3>1. depositsKept(u) /\ s_DscMinted'[u] = s_DscMinted[u]
      BY <1>0, <2>1, <2>3, SeizeEffect, BurnEffect
    <3>2. QED
      BY <1>0, <3>1, KeptIsSafer
  <2>4. QED
    BY <2>2, <2>3
<1>8. QED
  BY <1>1, <1>2, <1>3, <1>4, <1>5, <1>6, <1>7 DEF EngineStep

\* So does every step of the system.
LEMMA AccountStep ==
  ASSUME IInv, [Next]_vars, NEW u \in User
  PROVE  safer(u) \/ checked(u) \/ liquidated(u)
<1>1. CASE UNCHANGED engineVars
  <2>1. depositsKept(u) /\ s_DscMinted'[u] = s_DscMinted[u]
    BY <1>1 DEF engineVars, depositsKept
  <2>2. s_DscMinted'[u] \in Nat
    BY <2>1, DscTables DEF IInv
  <2>3. QED
    BY <2>1, <2>2, KeptIsSafer
<1>2. ASSUME NEW sender \in User, EngineStep(sender)
      PROVE  safer(u) \/ checked(u) \/ liquidated(u)
  BY <1>2, EngineStepAccounts
<1>3. ASSUME NEW sender \in User, TokenStep(sender)
      PROVE  UNCHANGED engineVars
  BY <1>3, TokenStepBooks
<1>4. CASE FeedStep
  BY <1>1, <1>4, FeedStepBooks
<1>5. CASE UNCHANGED vars
  BY <1>1, <1>5 DEF vars
<1>6. QED
  BY <1>1, <1>2, <1>3, <1>4, <1>5 DEF Next

-----------------------------------------------------------------------------
(* The properties *)

\* The types of an account.
LEMMA AccountTypes ==
  ASSUME IInv, NEW u \in User
  PROVE  /\ answer \in [Feed -> Int]
         /\ s_collateralDeposited[u] \in [Token -> Nat]
         /\ s_DscMinted[u] \in Nat
         /\ getAccountCollateralValue(u) \in Nat
<1>1. answer \in [Feed -> Int] /\ s_DscMinted[u] \in Nat
  BY DscTables DEF IInv, OracleTypeOK
<1>2. s_collateralDeposited[u] \in [Token -> Nat]
  BY WordsAreNaturals DEF IInv, CollateralBooks
<1>3. getAccountCollateralValue(u) \in Nat
  BY <1>1, <1>2, AccountValue, ValuesType
<1>4. QED
  BY <1>1, <1>2, <1>3

\* The types of an account in the next state.
LEMMA AccountTypesNext ==
  ASSUME IInv', NEW u \in User
  PROVE  /\ answer' \in [Feed -> Int]
         /\ s_collateralDeposited'[u] \in [Token -> Nat]
         /\ s_DscMinted'[u] \in Nat
         /\ getAccountCollateralValue(u)' \in Nat
<1>1. answer' \in [Feed -> Int] /\ s_DscMinted' \in [User -> Word]
  BY DEF IInv, OracleTypeOK, DscBooks
<1>2. s_collateralDeposited'[u] \in [Token -> Nat] /\ s_DscMinted'[u] \in Nat
  BY <1>1, WordsAreNaturals DEF IInv, CollateralBooks
<1>3. getAccountCollateralValue(u)' \in Nat
  BY <1>1, <1>2, AccountValue, ValuesType
<1>4. QED
  BY <1>1, <1>2, <1>3

\* A health factor that was compared means collateral worth twice the debt.
LEMMA FineIsHealthy ==
  ASSUME IInv, NEW u \in User
  PROVE  /\ healthFactorIsFine(u) => isHealthy(u)
         /\ s_DscMinted[u] # 0 /\ healthFactor(u) < MIN_HEALTH_FACTOR => ~ isHealthy(u)
  BY AccountTypes, AccountValue, HealthOfAccount DEF healthFactorIsFine, isHealthy

\* The same of the health factor a transaction ends with.
LEMMA FineIsHealthyNext ==
  ASSUME IInv', NEW u \in User, healthFactorIsFine(u)'
  PROVE  isHealthy(u)'
<1>1. healthFactor(u)' >= MIN_HEALTH_FACTOR
  BY DEF healthFactorIsFine, MIN_HEALTH_FACTOR
<1>2. isHealthy(u)' <=> 2 * s_DscMinted'[u] <= getAccountCollateralValue(u)'
  BY DEF isHealthy
<1>3. QED
  BY <1>1, <1>2, AccountTypesNext, AccountValue, HealthOfAccount

\* No transaction of anyone makes a healthy account unhealthy.
THEOREM HealthIsOnlyLostToPrices == Spec => OnlyPricesBreakHealth
<1>1. ASSUME IInv, [Next]_vars, NEW u \in User, isHealthy(u), UNCHANGED answer
      PROVE  isHealthy(u)'
  <2>1. IInv'
    BY <1>1, NextBooks
  <2>2. CASE safer(u)
    <3> DEFINE d == s_collateralDeposited[u]
               e == s_collateralDeposited'[u]
    <3>1. /\ answer \in [Feed -> Int] /\ d \in [Token -> Nat] /\ e \in [Token -> Nat]
          /\ s_DscMinted[u] \in Nat /\ s_DscMinted'[u] \in Nat
          /\ s_DscMinted'[u] <= s_DscMinted[u]
      BY <1>1, <2>1, <2>2, AccountTypes, AccountTypesNext DEF safer
    <3>2. \A t \in Token : d[t] <= e[t]
      BY <2>2, <3>1 DEF safer
    <3>3. /\ 2 * s_DscMinted[u] <= valueOf(answer, d)
          /\ isHealthy(u)' <=> 2 * s_DscMinted'[u] <= valueOf(answer, e)
      BY <1>1, AccountValue DEF isHealthy
    <3> HIDE DEF d, e
    <3>4. \A t \in Collateral : d[t] <= e[t]
      BY <3>2, Listed
    <3>5. /\ valueOf(answer, d) <= valueOf(answer, e)
          /\ valueOf(answer, d) \in Nat /\ valueOf(answer, e) \in Nat
      BY <3>1, <3>4, ValueMonotone, ValuesType
    <3>6. QED
      BY <3>1, <3>3, <3>5
  <2>3. CASE checked(u)
    BY <2>1, <2>3, FineIsHealthyNext DEF checked
  <2>4. CASE liquidated(u)
    BY <1>1, <2>4, FineIsHealthy DEF liquidated
  <2>5. QED
    BY <1>1, <2>2, <2>3, <2>4, AccountStep
<1>2. IInv /\ [Next]_vars
        => [\A u \in User : isHealthy(u) /\ UNCHANGED answer => isHealthy(u)']_vars
  BY <1>1
<1>3. QED
  BY <1>2, Invariance, PTL DEF Spec, OnlyPricesBreakHealth

\* While an account is healthy what leaves its deposits arrives in its wallet.
THEOREM HealthyAccountsKeepTheirCollateral == Spec => HealthyKeepsCollateral
<1> DEFINE Kept(u, t) ==
             s_collateralDeposited'[u][t] < s_collateralDeposited[u][t]
               => collateralBalances'[t][u] - collateralBalances[t][u]
                    = s_collateralDeposited[u][t] - s_collateralDeposited'[u][t]
<1>1. ASSUME IInv, [Next]_vars, NEW u \in User, NEW t \in Token, isHealthy(u)
      PROVE  Kept(u, t)
  <2>1. CASE safer(u)
    <3>1. s_collateralDeposited'[u][t] \in Nat /\ s_collateralDeposited[u][t] \in Nat
      BY <1>1, NextBooks, AccountTypes, AccountTypesNext
    <3>2. QED
      BY <2>1, <3>1 DEF safer
  <2>2. CASE checked(u)
    BY <2>2 DEF checked
  <2>3. CASE liquidated(u)
    BY <1>1, <2>3, FineIsHealthy DEF liquidated
  <2>4. QED
    BY <1>1, <2>1, <2>2, <2>3, AccountStep
<1>2. IInv /\ [Next]_vars
        => [\A u \in User, t \in Token :
              /\ isHealthy(u)
              /\ s_collateralDeposited'[u][t] < s_collateralDeposited[u][t]
              => collateralBalances'[t][u] - collateralBalances[t][u]
                   = s_collateralDeposited[u][t] - s_collateralDeposited'[u][t]]_vars
  BY <1>1
<1>3. QED
  BY <1>2, Invariance, PTL DEF Spec, HealthyKeepsCollateral

\* Risk is only taken by accounts that end healthy, or taken away from unhealthy
\* ones whose health factor rises.
THEOREM RiskIsTakenHealthy == Spec => RiskIncreaseEndsHealthy
<1> DEFINE Riskier(u) ==
             \/ s_DscMinted'[u] > s_DscMinted[u]
             \/ \E t \in Token : s_collateralDeposited'[u][t] < s_collateralDeposited[u][t]
           Allowed(u) ==
             \/ healthFactorIsFine(u)'
             \/ /\ ~isHealthy(u)
                /\ s_DscMinted'[u] < s_DscMinted[u]
                /\ healthFactor(u)' > healthFactor(u)
<1>1. ASSUME IInv, [Next]_vars, NEW u \in User, Riskier(u)
      PROVE  Allowed(u)
  <2>1. CASE safer(u)
    <3>1. /\ \A t \in Token : /\ s_collateralDeposited'[u][t] \in Nat
                              /\ s_collateralDeposited[u][t] \in Nat
          /\ s_DscMinted'[u] \in Nat /\ s_DscMinted[u] \in Nat
      BY <1>1, NextBooks, AccountTypes, AccountTypesNext
    <3>2. ~ (s_DscMinted'[u] > s_DscMinted[u])
      BY <2>1, <3>1 DEF safer
    <3>3. \A t \in Token : ~ (s_collateralDeposited'[u][t] < s_collateralDeposited[u][t])
      BY <2>1, <3>1 DEF safer
    <3>4. QED
      BY <1>1, <3>2, <3>3
  <2>2. CASE checked(u)
    BY <2>2 DEF checked
  <2>3. CASE liquidated(u)
    BY <1>1, <2>3, FineIsHealthy DEF liquidated
  <2>4. QED
    BY <1>1, <2>1, <2>2, <2>3, AccountStep
<1> HIDE DEF Riskier, Allowed
<1>2. IInv /\ [Next]_vars => [\A u \in User : Riskier(u) => Allowed(u)]_vars
  BY <1>1
<1>3. Spec => [][\A u \in User : Riskier(u) => Allowed(u)]_vars
  BY <1>2, Invariance, PTL DEF Spec
<1>4. QED
  BY <1>3 DEF RiskIncreaseEndsHealthy, Riskier, Allowed

\* An int256 is half as wide as a uint256 in either direction.
AnswersAreInt256 == \A a \in Answers : -(MaxUint + 1) <= 2 * a

\* The answers of the feeds are among those they publish.
answersArePublished == \A t \in Feed : answer[t] \in Answers

\* A negative answer wraps around to at least half of the words, and does not fit
\* any more once it is scaled.
LEMMA NegativePricesOverflow ==
  ASSUME ADDITIONAL_FEED_PRECISION >= 2, NEW a \in Int, -(MaxUint + 1) <= 2 * a,
         Fits(scaledPrice(a))
  PROVE  a >= 0
<1>1. /\ MaxUint \in Nat /\ ADDITIONAL_FEED_PRECISION \in Nat
  BY MaxUintAssumption, PrecisionAssumption
<1>2. SUFFICES ASSUME a < 0 PROVE FALSE
  BY <1>1
<1>3. 0 <= a + (MaxUint + 1) /\ a + (MaxUint + 1) < MaxUint + 1
  BY <1>1, <1>2
<1>4. AsUint(a) = a + (MaxUint + 1)
  BY <1>1, <1>3 DEF AsUint
<1>5. PICK w \in Nat : w = a + (MaxUint + 1)
  BY <1>1, <1>3
<1>6. 2 * w >= MaxUint + 1
  BY <1>1, <1>5
<1>7. w * ADDITIONAL_FEED_PRECISION >= w * 2
  BY <1>1, <1>5
<1>8. w * ADDITIONAL_FEED_PRECISION \in Nat
  BY <1>1, <1>5
<1>9. w * ADDITIONAL_FEED_PRECISION <= MaxUint
  BY <1>1, <1>4, <1>5, <1>8 DEF Fits, Word, scaledPrice
<1>10. QED
  BY <1>1, <1>5, <1>6, <1>7, <1>8, <1>9

\* A health factor that was compared was computed from fresh prices that fit.
LEMMA FineReadsGoodPrices ==
  ASSUME NEW u \in User, healthFactorIsFine(u)', UNCHANGED oracleVars,
         NEW t \in Collateral
  PROVE  stalePriceCheckReturns(t) /\ Fits(scaledPrice(answer[t]))
<1>1. getUsdValueReturns(t, s_collateralDeposited[u][t])'
  BY DEF healthFactorIsFine, healthFactorReturns, getAccountCollateralValueReturns
<1>2. answer' = answer /\ updatedAt' = updatedAt /\ now' = now
  BY DEF oracleVars
<1>3. QED
  BY <1>1, <1>2 DEF getUsdValueReturns, stalePriceCheckReturns, usdValueReturns

\* A transaction of the engine leaves the feeds alone, and one that adds to some
\* debt or takes from some deposit compares a health factor at its end.
LEMMA RiskIsChecked ==
  ASSUME IInv, NEW sender \in User, EngineStep(sender)
  PROVE  /\ UNCHANGED oracleVars
         /\ \/ healthFactorIsFine(sender)'
            \/ \A u \in User : safer(u)
<1>0. CollateralAmounts \subseteq Word /\ DscAmounts \subseteq Word
  BY EngineAssumption
<1>1. ASSUME NEW token \in Token, NEW amount \in CollateralAmounts,
             DepositCollateral(sender, token, amount)
      PROVE  UNCHANGED oracleVars /\ \A u \in User : safer(u)
  <2>1. /\ depositCollateral(sender, token, amount)
        /\ UNCHANGED s_DscMinted /\ UNCHANGED oracleVars
    BY <1>1 DEF DepositCollateral
  <2>2. \A u \in User : s_DscMinted'[u] <= s_DscMinted[u]
    BY <2>1, DscTables DEF IInv
  <2>3. QED
    BY <1>0, <2>1, <2>2, DepositEffect DEF safer
<1>2. ASSUME NEW token \in Token, NEW amount \in CollateralAmounts,
             RedeemCollateral(sender, token, amount)
      PROVE  UNCHANGED oracleVars /\ healthFactorIsFine(sender)'
  BY <1>2 DEF RedeemCollateral
<1>3. ASSUME NEW token \in Token, NEW amount \in CollateralAmounts, NEW dsc \in DscAmounts,
             DepositCollateralAndMintDsc(sender, token, amount, dsc)
      PROVE  UNCHANGED oracleVars /\ healthFactorIsFine(sender)'
  BY <1>3 DEF DepositCollateralAndMintDsc, mintDsc
<1>4. ASSUME NEW token \in Token, NEW amount \in CollateralAmounts, NEW dsc \in DscAmounts,
             RedeemCollateralForDsc(sender, token, amount, dsc)
      PROVE  UNCHANGED oracleVars /\ healthFactorIsFine(sender)'
  BY <1>4 DEF RedeemCollateralForDsc
<1>5. ASSUME NEW dsc \in DscAmounts, MintDsc(sender, dsc)
      PROVE  UNCHANGED oracleVars /\ healthFactorIsFine(sender)'
  BY <1>5 DEF MintDsc, mintDsc
<1>6. ASSUME NEW dsc \in DscAmounts, BurnDsc(sender, dsc)
      PROVE  UNCHANGED oracleVars /\ \A u \in User : safer(u)
  <2>1. /\ burnDsc(sender, sender, dsc)
        /\ UNCHANGED s_collateralDeposited /\ UNCHANGED oracleVars
    BY <1>6 DEF BurnDsc
  <2>2. ASSUME NEW u \in User
        PROVE  safer(u)
    <3>1. depositsKept(u)
      BY <2>1 DEF depositsKept
    <3>2. s_DscMinted'[u] \in Nat
      BY EngineStepBooks, WordsAreNaturals DEF BooksKept, IInv, DscBooks
    <3>3. QED
      BY <1>0, <2>1, <3>1, <3>2, BurnEffect, KeptIsSafer
  <2>3. QED
    BY <2>1, <2>2
<1>7. ASSUME NEW dsc \in DscAmounts, NEW token \in Token, NEW user \in User,
             Liquidate(sender, token, user, dsc)
      PROVE  UNCHANGED oracleVars /\ healthFactorIsFine(sender)'
  BY <1>7 DEF Liquidate, coverDebt
<1>8. QED
  BY <1>1, <1>2, <1>3, <1>4, <1>5, <1>6, <1>7 DEF EngineStep

\* Nothing but the feeds changes an answer.
LEMMA AnswersStayPublished == Spec => []answersArePublished
<1>1. Init => answersArePublished
  BY DEF Init, answersArePublished
<1>2. ASSUME IInv, answersArePublished, [Next]_vars
      PROVE  answersArePublished'
  <2>1. CASE UNCHANGED oracleVars
    BY <1>2, <2>1 DEF answersArePublished, oracleVars
  <2>2. ASSUME NEW sender \in User, EngineStep(sender)
        PROVE  UNCHANGED oracleVars
    BY <1>2, <2>2, RiskIsChecked
  <2>3. ASSUME NEW sender \in User, TokenStep(sender)
        PROVE  UNCHANGED oracleVars
    BY <2>3 DEF TokenStep, ApproveCollateral, TransferCollateral, UseDsc
  <2>4. CASE FeedStep
    BY <1>2, <2>4 DEF FeedStep, OracleStep, UpdateAnswer, UpdateRoundData, Tick,
                      answersArePublished, IInv, OracleTypeOK
  <2>5. CASE UNCHANGED vars
    BY <2>1, <2>5 DEF vars
  <2>6. QED
    BY <1>2, <2>1, <2>2, <2>3, <2>4, <2>5 DEF Next
<1>3. QED
  BY <1>1, <1>2, Invariance, PTL DEF Spec

\* A debt grows or a deposit shrinks only while the price of every listed token is
\* fresh and not negative: the conversion to uint256 is not checked, but what a
\* negative answer becomes overflows as soon as it is scaled by two or more (the
\* code scales by 1e10).
THEOREM RiskIsTakenAtGoodPrices ==
  ASSUME ADDITIONAL_FEED_PRECISION >= 2, AnswersAreInt256
  PROVE  Spec => RiskNeedsGoodPrices
<1> DEFINE Risk == \/ \E u \in User : s_DscMinted'[u] > s_DscMinted[u]
                   \/ \E u \in User, t \in Token :
                        s_collateralDeposited'[u][t] < s_collateralDeposited[u][t]
           GoodPrices == \A t \in Collateral :
                           /\ now - updatedAt[t] \in 0 .. TIMEOUT
                           /\ answer[t] >= 0
<1>1. ASSUME IInv, answersArePublished, [Next]_vars, Risk
      PROVE  GoodPrices
  <2>1. ASSUME \A u \in User : safer(u)
        PROVE  FALSE
    <3>1. \A u \in User : /\ \A t \in Token : /\ s_collateralDeposited'[u][t] \in Nat
                                              /\ s_collateralDeposited[u][t] \in Nat
                          /\ s_DscMinted'[u] \in Nat /\ s_DscMinted[u] \in Nat
      BY <1>1, NextBooks, AccountTypes, AccountTypesNext
    <3>2. \A u \in User : ~ (s_DscMinted'[u] > s_DscMinted[u])
      BY <2>1, <3>1 DEF safer
    <3>3. \A u \in User, t \in Token :
            ~ (s_collateralDeposited'[u][t] < s_collateralDeposited[u][t])
      BY <2>1, <3>1 DEF safer
    <3>4. QED
      BY <1>1, <3>2, <3>3
  <2>2. ASSUME UNCHANGED engineVars
        PROVE  \A u \in User : safer(u)
    <3>1. SUFFICES ASSUME NEW u \in User PROVE safer(u)
      OBVIOUS
    <3>2. depositsKept(u) /\ s_DscMinted'[u] = s_DscMinted[u]
      BY <2>2 DEF engineVars, depositsKept
    <3>3. s_DscMinted'[u] \in Nat
      BY <1>1, <3>2, DscTables DEF IInv
    <3>4. QED
      BY <1>1, <3>2, <3>3, KeptIsSafer
  <2>3. PICK sender \in User : EngineStep(sender)
    <3>1. ASSUME NEW sender \in User, TokenStep(sender)
          PROVE  UNCHANGED engineVars
      BY <1>1, <3>1, TokenStepBooks
    <3>2. FeedStep => UNCHANGED engineVars
      BY <1>1, FeedStepBooks
    <3>3. UNCHANGED vars => UNCHANGED engineVars
      BY DEF vars
    <3>4. QED
      BY <1>1, <2>1, <2>2, <3>1, <3>2, <3>3 DEF Next
  <2>4. UNCHANGED oracleVars /\ healthFactorIsFine(sender)'
    BY <1>1, <2>1, <2>3, RiskIsChecked
  <2>5. SUFFICES ASSUME NEW t \in Collateral
                 PROVE  now - updatedAt[t] \in 0 .. TIMEOUT /\ answer[t] >= 0
    OBVIOUS
  <2>6. stalePriceCheckReturns(t) /\ Fits(scaledPrice(answer[t]))
    BY <2>4, FineReadsGoodPrices
  <2>7. /\ answer[t] \in Int /\ -(MaxUint + 1) <= 2 * answer[t]
        /\ now \in Nat /\ updatedAt[t] \in Nat /\ TIMEOUT \in Nat
    BY <1>1, EngineAssumption, OracleAssumption
       DEF IInv, OracleTypeOK, answersArePublished, AnswersAreInt256
  <2>8. answer[t] >= 0
    BY <2>6, <2>7, NegativePricesOverflow
  <2>9. now - updatedAt[t] \in 0 .. TIMEOUT
    BY <2>6, <2>7 DEF stalePriceCheckReturns
  <2>10. QED
    BY <2>8, <2>9
<1> HIDE DEF Risk, GoodPrices
<1>2. IInv /\ answersArePublished /\ [Next]_vars => [Risk => GoodPrices]_vars
  BY <1>1
<1>3. Spec => [][Risk => GoodPrices]_vars
  BY <1>2, Invariance, AnswersStayPublished, PTL DEF Spec
<1>4. QED
  BY <1>3 DEF RiskNeedsGoodPrices, Risk, GoodPrices

\* A liquidation of an account with a single kind of collateral pays its debt in
\* full: with any debt left its health factor would fall to zero, and not rise.
THEOREM SingleCollateralIsLiquidatedInFull == Spec => SingleCollateralLiquidationIsFull
<1>1. ASSUME IInv, [Next]_vars, NEW u \in User, NEW l \in User, NEW t \in Collateral,
             isLiquidated(u, l, t), hasOnly(u, t)
      PROVE  s_DscMinted'[u] = 0
  <2> DEFINE covered == s_DscMinted[u] - s_DscMinted'[u]
             d == s_collateralDeposited'[u]
  <2>1. /\ s_DscMinted'[u] < s_DscMinted[u]
        /\ seizeCollateral(u, l, t, totalCollateralToRedeem(answer[t], covered))
        /\ healthFactor(u)' > healthFactor(u)
    BY <1>1 DEF isLiquidated, Liquidate, coverDebt
  <2>2. t \in Token
    BY Listed
  <2>3. IInv'
    BY <1>1, NextBooks
  <2>4. /\ answer' \in [Feed -> Int] /\ d \in [Token -> Nat]
        /\ s_DscMinted'[u] \in Nat /\ s_DscMinted[u] \in Nat
        /\ getAccountCollateralValue(u) \in Nat
    BY <1>1, <2>3, AccountTypes, AccountTypesNext
  <2>5. \A s \in Collateral : d[s] = 0
    <3>1. d[t] = 0 /\ \A s \in Token \ {t} : d[s] = s_collateralDeposited[u][s]
      BY <1>1, <2>1, <2>2, SeizeEffect
    <3>2. \A s \in Collateral \ {t} : s_collateralDeposited[u][s] = 0
      BY <1>1 DEF hasOnly
    <3>3. QED
      BY <3>1, <3>2, Listed
  <2>6. getAccountCollateralValue(u)' = valueOf(answer', d)
    BY AccountValue
  <2> HIDE DEF d
  <2>7. getAccountCollateralValue(u)' = 0
    BY <2>4, <2>5, <2>6, NothingIsWorthNothing
  <2>8. ASSUME s_DscMinted'[u] # 0 PROVE FALSE
    <3>1. healthFactor(u)' = 0
      BY <2>4, <2>7, <2>8, AccountValue, HealthOfAccount
    <3>2. s_DscMinted[u] # 0
      BY <2>1, <2>4
    <3>3. healthFactor(u) \in Nat
      BY <2>4, <3>2, AccountValue, HealthOfAccount
    <3>4. QED
      BY <2>1, <3>1, <3>3
  <2>9. QED
    BY <2>8
<1>2. IInv /\ [Next]_vars
        => [\A u, l \in User, t \in Collateral :
              isLiquidated(u, l, t) /\ hasOnly(u, t) => s_DscMinted'[u] = 0]_vars
  BY <1>1
<1>3. QED
  BY <1>2, Invariance, PTL DEF Spec, SingleCollateralLiquidationIsFull

-----------------------------------------------------------------------------
(* Solvency *)

\* What the accounts are worth one by one is at most what all deposits are worth.
LEMMA AccountsAreWorthLess ==
  ASSUME IInv
  PROVE  SumFunction([u \in User |-> getAccountCollateralValue(u)])
           <= valueOf(answer, [t \in Token |-> totalDeposited(t)])
<1> DEFINE value == [u \in User |-> getAccountCollateralValue(u)]
           column(t) == [u \in User |-> s_collateralDeposited[u][t]]
           total(U) == [t \in Token |-> SumFunctionOnSet(column(t), U)]
           P(U) == SumFunctionOnSet(value, U) <= valueOf(answer, total(U))
           Bad == {U \in SUBSET User : ~ P(U)}
<1>1. answer \in [Feed -> Int] /\ IsFiniteSet(User)
  BY Accounts DEF IInv, OracleTypeOK
<1>2. \A u \in User : /\ s_collateralDeposited[u] \in [Token -> Nat]
                      /\ value[u] \in Nat
                      /\ value[u] = valueOf(answer, s_collateralDeposited[u])
  BY AccountTypes, AccountValue
<1>3. ASSUME NEW U \in SUBSET User
      PROVE  /\ total(U) \in [Token -> Nat]
             /\ SumFunctionOnSet(value, U) \in Nat
  <2>1. ASSUME NEW t \in Token PROVE SumFunctionOnSet(column(t), U) \in Nat
    <3> DEFINE c == column(t)
    <3>1. \A u \in User : c[u] \in Nat
      BY <1>2
    <3> HIDE DEF c
    <3>2. SumFunctionOnSet(c, U) \in Nat
      BY <1>1, <3>1, SumOnSetType
    <3>3. QED
      BY <3>2 DEF c
  <2> HIDE DEF value
  <2>2. SumFunctionOnSet(value, U) \in Nat
    BY <1>1, <1>2, SumOnSetType
  <2>3. QED
    BY <2>1, <2>2
<1>4. ASSUME Bad # {} PROVE FALSE
  <2>1. PICK U \in Bad : \A X \in Bad : ~ (X \subseteq U /\ X # U)
    <3>1. Bad \in SUBSET (SUBSET User)
      OBVIOUS
    <3> HIDE DEF Bad
    <3>2. QED
      BY <1>1, <1>4, <3>1, SubsetMinimum
  <2>2. U \in SUBSET User /\ ~ P(U) /\ IsFiniteSet(U)
    BY <1>1, <2>1, FS_Subset
  <2>3. CASE U = {}
    <3> HIDE DEF value
    <3>1. SumFunctionOnSet(value, U) = 0
      BY <2>2, <2>3, SumRecursion
    <3> DEFINE e == total(U)
    <3>2. e \in [Token -> Nat]
      BY <1>3, <2>2
    <3> HIDE DEF e
    <3>3. valueOf(answer, e) \in Nat
      BY <1>1, <3>2, ValuesType
    <3>4. QED
      BY <2>2, <3>1, <3>3 DEF e
  <2>4. CASE U # {}
    <3> DEFINE a == First(U)
               R == U \ {a}
               d == s_collateralDeposited[a]
               e == total(R)
               f == total(U)
    <3>1. a \in User /\ R \in SUBSET User /\ R \subseteq U /\ R # U
      BY <2>2, <2>4, FirstIn
    <3>2. P(R)
      BY <2>1, <3>1
    <3>3. SumFunctionOnSet(value, U) = value[a] + SumFunctionOnSet(value, R)
      <4> HIDE DEF value
      <4>1. QED
        BY <2>2, <2>4, SumRecursion
    <3>4. \A t \in Token : f[t] = d[t] + e[t]
      <4> SUFFICES ASSUME NEW t \in Token PROVE f[t] = d[t] + e[t]
        OBVIOUS
      <4> DEFINE c == column(t)
      <4>1. c[a] = d[t]
        BY <3>1
      <4>2. f[t] = SumFunctionOnSet(c, U) /\ e[t] = SumFunctionOnSet(c, R)
        OBVIOUS
      <4> HIDE DEF c, d, e, f
      <4>3. SumFunctionOnSet(c, U) = c[a] + SumFunctionOnSet(c, R)
        BY <2>2, <2>4, SumRecursion
      <4>4. QED
        BY <4>1, <4>2, <4>3
    <3>5. d \in [Token -> Nat] /\ e \in [Token -> Nat] /\ f \in [Token -> Nat]
      BY <1>2, <1>3, <2>2, <3>1
    <3>6. /\ value[a] = valueOf(answer, d) /\ value[a] \in Nat
          /\ SumFunctionOnSet(value, R) <= valueOf(answer, e)
          /\ SumFunctionOnSet(value, R) \in Nat
      BY <1>2, <1>3, <3>1, <3>2
    <3>7. ~ (SumFunctionOnSet(value, U) <= valueOf(answer, f))
      BY <2>2
    <3> HIDE DEF value, d, e, f, a, R
    <3>8. /\ valueOf(answer, d) + valueOf(answer, e) <= valueOf(answer, f)
          /\ valueOf(answer, d) \in Nat /\ valueOf(answer, e) \in Nat
          /\ valueOf(answer, f) \in Nat
      BY <1>1, <3>4, <3>5, ValueSuperadditive, ValuesType
    <3>9. QED
      BY <3>3, <3>6, <3>7, <3>8
  <2>5. QED
    BY <2>3, <2>4
<1>5. P(User)
  BY <1>4
<1>6. total(User) = [t \in Token |-> totalDeposited(t)]
  BY DEF totalDeposited, SumFunction
<1>7. SumFunction(value) = SumFunctionOnSet(value, User)
  BY DEF SumFunction
<1>8. QED
  BY <1>5, <1>6, <1>7

\* While nobody can be liquidated the engine's collateral is worth twice the DSC
\* in circulation, for any number of accounts and tokens.
THEOREM SolventWhileAccountsAreHealthy == Spec => []SolventWhileHealthy
<1>1. ASSUME IInv, \A u \in User : s_DscMinted[u] = 0 \/ healthFactorIsFine(u)
      PROVE  engineCollateralValue >= 2 * dscTotalSupply
  <2> DEFINE value == [u \in User |-> getAccountCollateralValue(u)]
             deposited == [t \in Token |-> totalDeposited(t)]
             held == [t \in Token |-> collateralBalances[t][Engine]]
  <2>1. /\ value \in [User -> Nat] /\ s_DscMinted \in [User -> Nat]
        /\ IsFiniteSet(User)
    BY <1>1, AccountTypes, Accounts, WordsAreNaturals DEF IInv, DscBooks
  <2>2. \A u \in User : s_DscMinted[u] + s_DscMinted[u] <= value[u]
    <3> SUFFICES ASSUME NEW u \in User
                 PROVE  s_DscMinted[u] + s_DscMinted[u] <= getAccountCollateralValue(u)
      OBVIOUS
    <3>1. s_DscMinted[u] \in Nat /\ getAccountCollateralValue(u) \in Nat
      BY <1>1, AccountTypes
    <3>2. CASE s_DscMinted[u] = 0
      BY <3>1, <3>2
    <3>3. CASE healthFactorIsFine(u)
      BY <1>1, <3>1, <3>3, FineIsHealthy DEF isHealthy
    <3>4. QED
      BY <1>1, <3>2, <3>3
  <2>3. totalDebt + totalDebt <= SumFunction(value)
    <3> HIDE DEF value
    <3>1. QED
      BY <2>1, <2>2, SumSuperadditive DEF totalDebt
  <2>4. SumFunction(value) <= valueOf(answer, deposited)
    BY <1>1, AccountsAreWorthLess
  <2>5. /\ answer \in [Feed -> Int]
        /\ deposited \in [Token -> Nat] /\ held \in [Token -> Nat]
        /\ \A t \in Collateral : deposited[t] <= held[t]
    <3>1. \A t \in Token : totalDeposited(t) \in Nat
      BY <1>1, ColumnTotalType, DepositsAreColumns DEF IInv, CollateralBooks
    <3>2. \A t \in Token : collateralBalances[t][Engine] \in Nat
      BY <1>1, CollateralTables, Accounts DEF IInv
    <3>3. \A t \in Token : totalDeposited(t) <= collateralBalances[t][Engine]
      BY <1>1 DEF IInv, CollateralBooks, CollateralBacked
    <3>4. answer \in [Feed -> Int]
      BY <1>1 DEF IInv, OracleTypeOK
    <3>5. QED
      BY <3>1, <3>2, <3>3, <3>4, Listed
  <2>6. engineCollateralValue = valueOf(answer, held)
    <3>1. \A i \in Index : held[s_collateralTokens[i]]
                             = collateralBalances[s_collateralTokens[i]][Engine]
      BY Listed
    <3>2. QED
      BY <3>1 DEF engineCollateralValue, getUsdValue, valueOf, Index
  <2>7. SumFunction(value) \in Nat
    <3> HIDE DEF value
    <3>1. QED
      BY <2>1, SumType
  <2> HIDE DEF value, deposited, held
  <2>8. /\ valueOf(answer, deposited) <= valueOf(answer, held)
        /\ valueOf(answer, deposited) \in Nat /\ valueOf(answer, held) \in Nat
    BY <2>5, ValueMonotone, ValuesType
  <2>9. totalDebt \in Nat /\ dscTotalSupply \in Nat /\ dscTotalSupply <= totalDebt
    BY <1>1, DscTables DEF IInv
  <2>10. QED
    BY <2>3, <2>4, <2>6, <2>7, <2>8, <2>9
<1>2. IInv => SolventWhileHealthy
  BY <1>1 DEF SolventWhileHealthy
<1>3. QED
  BY <1>2, Invariance, PTL

-----------------------------------------------------------------------------
(* The promise: the engine implements CollateralisedDebt.  What a step does  *)
(* to an account (AccountStep) is one of the three things the abstract       *)
(* specification allows; what it does to the sums over the accounts          *)
(* (NextBooks) leaves the tokens ahead of the books.                         *)


vault == [t \in Token |-> collateralBalances[t][Engine]]

\* Its sums are the engine's: the same fold over the same set.
LEMMA SameSums == ASSUME NEW f PROVE Promise!SumFunction(f) = SumFunction(f)
<1>1. Promise!SumFunction(f) = PartialSum(f, DOMAIN f)[DOMAIN f]
  BY DEF Promise!SumFunction, Promise!SumFunctionOnSet, Promise!FoldFunctionOnSet,
         Promise!MapThenFoldSet, PartialSum, IsPartialSum, First
<1>2. QED
  BY <1>1, SumIsPartialSum DEF SumFunction

\* The abstract specification counts what the engine's books count.
LEMMA SameCounts ==
  /\ \A t \in Token : Promise!surplus(t) = surplus(t)
  /\ Promise!unissued = gap
<1>1. \A t \in Token : Promise!surplus(t) = surplus(t)
  <2> SUFFICES ASSUME NEW t \in Token PROVE Promise!surplus(t) = surplus(t)
    OBVIOUS
  <2> DEFINE deposits == [u \in User |-> s_collateralDeposited[u][t]]
  <2>1. Promise!SumFunction(deposits) = SumFunction(deposits)
    <3> HIDE DEF deposits
    <3>1. QED
      BY SameSums
  <2>2. QED
    BY <2>1 DEF Promise!surplus, surplus, totalDeposited
<1>2. Promise!unissued = gap
  BY SameSums DEF Promise!unissued, gap, totalDebt
<1>3. QED
  BY <1>1, <1>2

\* The state after the deployment is one the abstract specification starts in.
LEMMA InitPromise == Init => Promise!Init
<1>1. SUFFICES ASSUME Init PROVE Promise!Init
  OBVIOUS
<1>2. IInv
  BY <1>1, InitIInv
<1>3. \A t \in Token : vault[t] >= 0
  BY <1>2, CollateralTables, Accounts DEF IInv, vault
<1>4. QED
  BY <1>1, <1>3 DEF Promise!Init, Init, vault

\* A step of the engine, its tokens or its feeds is one the abstract
\* specification takes, too.
LEMMA NextPromise == IInv /\ [Next]_vars => Promise!Next
<1>1. SUFFICES ASSUME IInv, [Next]_vars PROVE Promise!Next
  OBVIOUS
<1>2. ASSUME NEW u \in User
      PROVE  Promise!Safer(u) \/ Promise!EndsHealthy(u) \/ Promise!Liquidated(u)
  <2>1. CASE safer(u)
    BY <2>1 DEF safer, Promise!Safer
  <2>2. CASE checked(u)
    BY <2>2 DEF checked, Promise!EndsHealthy
  <2>3. CASE liquidated(u)
    BY <1>1, <2>3, FineIsHealthy DEF liquidated, Promise!Liquidated
  <2>4. QED
    BY <1>1, <2>1, <2>2, <2>3, AccountStep
<1>3. /\ \A t \in Token : Promise!surplus(t) = surplus(t)
      /\ \A t \in Token : Promise!surplus(t)' = surplus(t)'
      /\ Promise!unissued = gap /\ Promise!unissued' = gap'
  <2>1. (/\ \A t \in Token : Promise!surplus(t) = surplus(t)
         /\ Promise!unissued = gap)'
    BY SameCounts, PTL
  <2>2. QED
    BY <2>1, SameCounts
<1>4. (\A t \in Token : surplus(t)' >= surplus(t)) /\ gap' >= gap
  <2>1. gap \in Int /\ \A t \in Token : surplus(t) \in Int
    <3>1. \A t \in Token : totalDeposited(t) \in Nat
      BY <1>1, ColumnTotalType, DepositsAreColumns DEF IInv, CollateralBooks
    <3>2. \A t \in Token : collateralBalances[t][Engine] \in Nat
      BY <1>1, CollateralTables, Accounts DEF IInv
    <3>3. gap \in Int
      BY <1>1, DscTables DEF IInv, gap
    <3>4. QED
      BY <3>1, <3>2, <3>3 DEF surplus
  <2>2. CASE BooksKept
    BY <2>1, <2>2 DEF BooksKept
  <2>3. QED
    BY <1>1, <2>2, NextBooks
<1>5. QED
  BY <1>2, <1>3, <1>4 DEF Promise!Next

\* Whatever is called, in any order and at any price, an account only gets
\* riskier if it passes the health check in the end or is liquidated, and the
\* tokens stay ahead of the books.
THEOREM EngineKeepsItsPromise == Spec => KeepsPromise
<1>1. IInv /\ [Next]_vars => [Promise!Next]_(Promise!vars)
  BY NextPromise
<1>2. QED
  BY <1>1, InitPromise, Invariance, PTL DEF Spec, KeepsPromise, Promise!Spec

-----------------------------------------------------------------------------
(* Transactions that go through.  That an action is possible is beyond the   *)
(* provers; what they can show is that the changes it makes, which nothing   *)
(* stands in the way of, are a step of it: all its conditions hold, those on *)
(* the state after it included.                                              *)

\* What redeemCollateral and _burnDsc write.
writesRedemption(user, token, amount) ==
  /\ s_collateralDeposited' = [s_collateralDeposited EXCEPT ![user][token] = @ - amount]
  /\ collateralBalances' =
       [collateralBalances EXCEPT ![token] = Transferred(@, Engine, user, amount)]
  /\ UNCHANGED <<collateralAllowances, oracleVars>>

writesRepayment(onBehalfOf, dscFrom, amount) ==
  /\ s_DscMinted' = [s_DscMinted EXCEPT ![onBehalfOf] = @ - amount]
  /\ dscAllowances' = Spent(dscAllowances, dscFrom, Engine, amount)
  /\ dscBalances' =
       Debited(Transferred(dscBalances, dscFrom, Engine, amount), Engine, amount)
  /\ dscTotalSupply' = dscTotalSupply - amount
  /\ UNCHANGED dscOwner

\* The two payments of a liquidation that covers a whole debt.
writesSeizure(user, liquidator, token, amount) ==
  LET paid == Transferred(collateralBalances[token], Engine, liquidator, amount)
      rest == s_collateralDeposited[user][token] - amount
  IN  /\ s_collateralDeposited' = [s_collateralDeposited EXCEPT ![user][token] = 0]
      /\ collateralBalances' =
           [collateralBalances EXCEPT ![token] = Transferred(paid, Engine, Pool, rest)]
      /\ UNCHANGED <<collateralAllowances, oracleVars>>

\* The engine can pay out every deposit.
LEMMA DepositsCanBePaid ==
  ASSUME IInv, NEW u \in User, NEW t \in Token
  PROVE  /\ s_collateralDeposited[u][t] \in Nat /\ collateralBalances[t][Engine] \in Nat
         /\ s_collateralDeposited[u][t] <= collateralBalances[t][Engine]
<1> DEFINE c == [v \in User |-> s_collateralDeposited[v][t]]
<1>1. /\ c \in [User -> Nat] /\ c[u] = s_collateralDeposited[u][t]
      /\ collateralBalances[t][Engine] \in Nat
  BY CollateralTables, Accounts DEF IInv
<1>2. SumFunction(c) <= collateralBalances[t][Engine]
  BY DEF IInv, CollateralBooks, CollateralBacked, totalDeposited
<1> HIDE DEF c
<1>3. c[u] <= SumFunction(c) /\ SumFunction(c) \in Nat
  BY <1>1, Accounts, SumBoundsEntry, SumType
<1>4. QED
  BY <1>1, <1>2, <1>3

\* A listed token is part of what its owner has.
LEMMA ValueOfOne ==
  ASSUME NEW a \in [Feed -> Int], NEW d \in [Token -> Nat], NEW t \in Collateral
  PROVE  usdValue(a[t], d[t]) <= valueOf(a, d)
<1> DEFINE p == [i \in Index |-> usdValue(a[s_collateralTokens[i]], d[s_collateralTokens[i]])]
<1>1. p \in [Index -> Nat]
  BY ValuesType
<1>2. PICK i \in Index : s_collateralTokens[i] = t
  BY DEF Collateral, Range, Index
<1>3. p[i] = usdValue(a[t], d[t])
  BY <1>2
<1> HIDE DEF p
<1>4. p[i] <= SumFunction(p)
  BY <1>1, <1>2, Listed, SumBoundsEntry
<1>5. QED
  BY <1>3, <1>4 DEF valueOf, p

\* What is left of a value when one deposit is gone.
LEMMA ValueOfRest ==
  ASSUME NEW a \in [Feed -> Int], NEW f \in [Token -> Nat], NEW t \in Collateral,
         NEW d, d = [f EXCEPT ![t] = 0]
  PROVE  /\ d \in [Token -> Nat] /\ valueOf(a, d) \in Nat
         /\ valueOf(a, d) <= valueOf(a, f) - usdValue(a[t], f[t])
         /\ valueOf(a, d) <= valueOf(a, f)
<1> DEFINE e == [r \in Token |-> IF r = t THEN f[t] ELSE 0]
<1>1. /\ t \in Token /\ a[t] \in Int /\ f[t] \in Nat /\ d \in [Token -> Nat]
      /\ e \in [Token -> Nat] /\ e[t] = f[t] /\ \A r \in Token : f[r] = d[r] + e[r]
  BY Listed
<1> HIDE DEF e
<1>2. valueOf(a, d) + valueOf(a, e) <= valueOf(a, f)
  BY <1>1, ValueSuperadditive
<1>3. usdValue(a[t], f[t]) <= valueOf(a, e)
  BY <1>1, ValueOfOne
<1>4. /\ valueOf(a, d) \in Nat /\ valueOf(a, e) \in Nat /\ valueOf(a, f) \in Nat
      /\ usdValue(a[t], f[t]) \in Nat
  BY <1>1, ValuesType, UsdValueType
<1>5. QED
  BY <1>1, <1>2, <1>3, <1>4

\* The scales of the code: 1e18 is a word, and an answer has decimals enough for
\* the bonus not to overflow.
ScalesFit == PRECISION <= MaxUint /\ LIQUIDATION_BONUS <= ADDITIONAL_FEED_PRECISION

\* Without a debt the check of the health factor passes if the prices are readable.
LEMMA NoDebtIsFine ==
  ASSUME NEW u \in User, PRECISION <= MaxUint,
         s_DscMinted'[u] = 0, getAccountCollateralValueReturns(u)'
  PROVE  healthFactorIsFine(u)' /\ healthFactor(u)' = MaxUint
<1>1. healthFactor(u)' = MaxUint
  BY DEF healthFactor
<1>2. healthFactorReturns(u)'
  BY DEF healthFactorReturns
<1>3. MIN_HEALTH_FACTOR' = PRECISION
  BY DEF MIN_HEALTH_FACTOR
<1>4. MaxUint \in Nat /\ PRECISION \in Nat
  BY MaxUintAssumption, PrecisionAssumption
<1>5. healthFactor(u)' >= MIN_HEALTH_FACTOR'
  BY <1>1, <1>3, <1>4
<1>6. QED
  BY <1>1, <1>2, <1>5 DEF healthFactorIsFine

\* Once a deposit is gone the engine can value its owner's account if it could
\* value the rest of it before.
LEMMA RestStaysReadable ==
  ASSUME IInv, NEW u \in User, NEW t \in Collateral, restIsReadable(u, t),
         s_collateralDeposited' = [s_collateralDeposited EXCEPT ![u][t] = 0],
         UNCHANGED oracleVars
  PROVE  getAccountCollateralValueReturns(u)'
<1> DEFINE f == s_collateralDeposited[u]
           d == s_collateralDeposited'[u]
<1>1. /\ answer' = answer /\ updatedAt' = updatedAt /\ now' = now
      /\ t \in Token
  BY Listed DEF oracleVars
<1>2. d = [f EXCEPT ![t] = 0] /\ f \in [Token -> Nat]
  <2>1. s_collateralDeposited \in [User -> [Token -> Word]]
    BY DEF IInv, CollateralBooks
  <2>2. d = [f EXCEPT ![t] = 0]
    BY <2>1
  <2>3. QED
    BY <2>2, AccountTypes
<1>3. ASSUME NEW c \in Collateral
      PROVE  getUsdValueReturns(c, s_collateralDeposited[u][c])'
  <2>1. s_collateralDeposited'[u][c] = IF c = t THEN 0 ELSE s_collateralDeposited[u][c]
    BY <1>2, Listed
  <2>2. getUsdValueReturns(c, IF c = t THEN 0 ELSE s_collateralDeposited[u][c])
    BY DEF restIsReadable
  <2>3. QED
    BY <1>1, <2>1, <2>2 DEF getUsdValueReturns, stalePriceCheckReturns
<1>4. Fits(getAccountCollateralValue(u)')
  <2> DEFINE before == getAccountCollateralValue(u)
             gone == usdValue(answer[t], f[t])
             after == valueOf(answer, d)
  <2>1. /\ before = valueOf(answer, f) /\ before \in Nat
        /\ getAccountCollateralValue(u)' = after
    BY <1>1, AccountValue, AccountTypes
  <2>2. before - gone \in Word
    BY DEF restIsReadable, getUsdValue, Fits
  <2>3. after \in Nat /\ after <= valueOf(answer, f) - gone
    <3> HIDE DEF f, d
    <3>1. QED
      BY <1>2, AccountTypes, ValueOfRest
  <2> HIDE DEF before, gone, after
  <2>4. after \in Nat /\ after <= before - gone /\ before - gone \in Nat
        /\ before - gone <= MaxUint
    BY <2>1, <2>2, <2>3, WordsAreNaturals
  <2>5. after <= MaxUint
    BY <2>4, MaxUintAssumption
  <2>6. QED
    BY <2>1, <2>4, <2>5, WordsAreNaturals DEF Fits
<1>5. QED
  BY <1>3, <1>4 DEF getAccountCollateralValueReturns, Fits

\* The rest of an account the engine can value is readable, too.
LEMMA ReadableRest ==
  ASSUME IInv, NEW u \in User, NEW t \in Collateral, getAccountCollateralValueReturns(u)
  PROVE  restIsReadable(u, t)
<1> DEFINE f == s_collateralDeposited[u]
           gone == usdValue(answer[t], f[t])
           all == getAccountCollateralValue(u)
<1>1. f \in [Token -> Nat] /\ answer \in [Feed -> Int] /\ t \in Token
      /\ answer[t] \in Int /\ f[t] \in Nat
  BY AccountTypes, Listed
<1>2. gone \in Nat /\ gone <= valueOf(answer, f) /\ all = valueOf(answer, f)
  <2>1. gone <= valueOf(answer, f) /\ all = valueOf(answer, f)
    BY <1>1, ValueOfOne, AccountValue
  <2>2. gone \in Nat
    BY <1>1, UsdValueType
  <2>3. QED
    BY <2>1, <2>2
<1>3. all \in Word
  BY DEF getAccountCollateralValueReturns, Fits
<1>4. all - gone \in Word
  <2> HIDE DEF all, gone
  <2>1. all \in Nat /\ all <= MaxUint /\ MaxUint \in Nat
    BY <1>3, WordsAreNaturals, MaxUintAssumption
  <2>2. all - gone \in Nat /\ all - gone <= MaxUint
    BY <1>2, <2>1
  <2>3. QED
    BY <2>2, WordsAreNaturals
<1>5. ASSUME NEW c \in Collateral
      PROVE  getUsdValueReturns(c, IF c = t THEN 0 ELSE s_collateralDeposited[u][c])
  <2>1. getUsdValueReturns(c, s_collateralDeposited[u][c])
    BY DEF getAccountCollateralValueReturns
  <2>2. scaledPrice(answer[c]) \in Nat
    BY <1>1, Listed, ScaledPriceType
  <2>3. Fits(scaledPrice(answer[c]) * 0)
    BY <2>2, WordsAreNaturals DEF Fits
  <2>4. QED
    BY <2>1, <2>3 DEF getUsdValueReturns, usdValueReturns
<1>6. QED
  BY <1>4, <1>5 DEF restIsReadable, getUsdValue, Fits

\* _burnDsc goes through for a debtor and a payer who has the DSC.
LEMMA RepaymentBurns ==
  ASSUME IInv, NEW onBehalfOf \in User, NEW dscFrom \in User,
         s_DscMinted[onBehalfOf] > 0,
         dscBalances[dscFrom] >= s_DscMinted[onBehalfOf],
         dscAllowances[dscFrom][Engine] >= s_DscMinted[onBehalfOf],
         writesRepayment(onBehalfOf, dscFrom, s_DscMinted[onBehalfOf])
  PROVE  burnDsc(onBehalfOf, dscFrom, s_DscMinted[onBehalfOf])
<1>1. s_DscMinted[onBehalfOf] \in Nat /\ dscOwner = Engine
  BY DscTables DEF IInv, DscBooks
<1>2. QED
  BY <1>1 DEF burnDsc, burnTokens, writesRepayment, CanSpend, CanTransfer

\* An account closes its position whatever its health factor is: the engine has
\* the deposit, the check at the end passes because no debt is left, and a deposit
\* whose value overflows is no obstacle.  The changes of redeemCollateral, or of
\* redeemCollateralForDsc for an account with the DSC, are a step of the engine.
THEOREM ClosingGoesThrough ==
  ASSUME IInv, ScalesFit, NEW u \in User, NEW t \in Collateral \ TransferFails,
         s_collateralDeposited[u][t] > 0, restIsReadable(u, t),
         writesRedemption(u, t, s_collateralDeposited[u][t])
  PROVE  /\ /\ s_DscMinted[u] = 0
            /\ UNCHANGED <<s_DscMinted, dscVars>>
            => RedeemCollateral(u, t, s_collateralDeposited[u][t])
         /\ /\ s_DscMinted[u] > 0
            /\ dscBalances[u] >= s_DscMinted[u]
            /\ dscAllowances[u][Engine] >= s_DscMinted[u]
            /\ writesRepayment(u, u, s_DscMinted[u])
            => RedeemCollateralForDsc(u, t, s_collateralDeposited[u][t], s_DscMinted[u])
<1> DEFINE deposit == s_collateralDeposited[u][t]
           debt == s_DscMinted[u]
<1>1. /\ t \in Token /\ deposit \in Nat /\ deposit <= collateralBalances[t][Engine]
      /\ debt \in Nat /\ s_DscMinted \in [User -> Word]
  BY Listed, DepositsCanBePaid, DscTables DEF IInv, DscBooks
<1>2. redeemCollateral(u, u, t, deposit)
  BY <1>1 DEF redeemCollateral, writesRedemption, CanTransfer
<1>3. getAccountCollateralValueReturns(u)'
  <2>1. s_collateralDeposited' = [s_collateralDeposited EXCEPT ![u][t] = 0]
    <3>1. s_collateralDeposited' = [s_collateralDeposited EXCEPT ![u][t] = @ - deposit]
      BY DEF writesRedemption
    <3>2. deposit - deposit = 0
      BY <1>1
    <3>3. s_collateralDeposited \in [User -> [Token -> Word]]
      BY DEF IInv, CollateralBooks
    <3> HIDE DEF deposit
    <3>4. s_collateralDeposited[u][t] - deposit = 0
      BY <3>2 DEF deposit
    <3>5. QED
      BY <1>1, <3>1, <3>3, <3>4
  <2>2. UNCHANGED oracleVars
    BY DEF writesRedemption
  <2>3. QED
    BY <2>1, <2>2, RestStaysReadable
<1>4. ASSUME s_DscMinted'[u] = 0 PROVE healthFactorIsFine(u)'
  BY <1>3, <1>4, NoDebtIsFine DEF ScalesFit
<1>5. UNCHANGED <<collateralAllowances, oracleVars>>
  BY DEF writesRedemption
<1>6. ASSUME debt = 0, UNCHANGED <<s_DscMinted, dscVars>>
      PROVE  RedeemCollateral(u, t, deposit)
  <2>1. healthFactorIsFine(u)'
    BY <1>4, <1>6
  <2>2. QED
    BY <1>2, <1>5, <1>6, <2>1 DEF RedeemCollateral
<1>7. ASSUME debt > 0, dscBalances[u] >= debt, dscAllowances[u][Engine] >= debt,
             writesRepayment(u, u, debt)
      PROVE  RedeemCollateralForDsc(u, t, deposit, debt)
  <2>1. burnDsc(u, u, debt)
    BY <1>1, <1>7, RepaymentBurns
  <2>2. s_DscMinted'[u] = 0
    BY <1>1, <1>7 DEF writesRepayment
  <2>3. healthFactorIsFine(u)'
    BY <1>4, <2>2
  <2>4. QED
    BY <1>2, <1>5, <2>1, <2>3 DEF RedeemCollateralForDsc
<1>8. QED
  BY <1>6, <1>7

\* At 110 percent the computation of the liquidator's share returns, and the
\* deposit covers it.
LEMMA ShareIsComputed ==
  ASSUME ScalesFit, NEW price \in Int, NEW debt \in Nat \ {0}, NEW deposit \in Nat,
         usdValueReturns(price, deposit),
         100 * usdValue(price, deposit) >= 110 * debt
  PROVE  /\ totalCollateralToRedeemReturns(price, debt)
         /\ totalCollateralToRedeem(price, debt) \in Nat
         /\ totalCollateralToRedeem(price, debt) <= deposit
<1> DEFINE s == scaledPrice(price)
           v == usdValue(price, deposit)
           n == tokenAmountFromUsd(price, debt)
           r == totalCollateralToRedeem(price, debt)
<1>1. s \in Nat /\ PRECISION \in Nat \ {0} /\ MaxUint \in Nat
      /\ ADDITIONAL_FEED_PRECISION \in Nat \ {0}
  BY ScaledPriceType, PrecisionAssumption, MaxUintAssumption
<1>2. /\ s \in Word /\ s * deposit \in Word /\ s * deposit <= MaxUint
      /\ v \in Nat /\ v * PRECISION <= s * deposit
  <2>1. s \in Word /\ s * deposit \in Word
    BY DEF usdValueReturns, Fits
  <2>2. v \in Nat
    BY UsdValueType
  <2>3. v * PRECISION <= s * deposit
    BY <1>1, QuotientTimesDivisor, s * deposit \in Nat DEF usdValue
  <2>4. QED
    BY <2>1, <2>2, <2>3, WordsAreNaturals
<1>3. debt <= v /\ v > 0
  BY <1>2
<1>4. s # 0
  <2>1. SUFFICES ASSUME s = 0 PROVE FALSE
    OBVIOUS
  <2>2. v * PRECISION <= 0
    BY <1>2, <2>1
  <2> HIDE DEF v
  <2>3. v * PRECISION >= 1
    BY <1>1, <1>2, <1>3
  <2>4. QED
    BY <1>1, <1>2, <2>2, <2>3
<1>5. r \in Nat /\ r <= deposit
  BY <1>4, BonusIsAtMostTenPercent, CoverableAt110Percent
<1>6. debt * PRECISION \in Nat /\ debt * PRECISION <= MaxUint
  <2> HIDE DEF v
  <2>1. debt * PRECISION <= v * PRECISION
    BY <1>1, <1>2, <1>3
  <2>2. QED
    BY <1>1, <1>2, <2>1
<1>7. n \in Nat /\ n * s <= MaxUint
  <2>1. n \in Nat /\ n * s <= debt * PRECISION
    BY <1>1, <1>4, <1>6, QuotientAtLeast, QuotientTimesDivisor, 0 \in Nat
       DEF tokenAmountFromUsd
  <2> HIDE DEF n, s
  <2>2. n * s \in Nat
    BY <1>1, <2>1
  <2>3. QED
    BY <1>1, <1>6, <2>1, <2>2
<1>8. s >= 10
  <2>1. price % (MaxUint + 1) \in Nat
    BY <1>1
  <2>2. /\ s = (price % (MaxUint + 1)) * ADDITIONAL_FEED_PRECISION
        /\ 10 <= ADDITIONAL_FEED_PRECISION
    BY DEF scaledPrice, AsUint, ScalesFit, LIQUIDATION_BONUS
  <2> DEFINE p == price % (MaxUint + 1)
  <2> HIDE DEF p, s
  <2>3. p \in Nat /\ s = p * ADDITIONAL_FEED_PRECISION
    BY <2>1, <2>2 DEF p
  <2>4. p # 0
    BY <1>1, <1>4, <2>3
  <2>5. p * ADDITIONAL_FEED_PRECISION >= 1 * ADDITIONAL_FEED_PRECISION
    BY <1>1, <2>3, <2>4
  <2>6. QED
    BY <1>1, <2>2, <2>3, <2>5
<1>9. n * 10 \in Word
  <2> HIDE DEF n, s
  <2>1. n * 10 <= n * s
    BY <1>1, <1>7, <1>8
  <2>2. n * s \in Nat /\ n * 10 \in Nat
    BY <1>1, <1>7
  <2>3. QED
    BY <1>1, <1>7, <2>1, <2>2, WordsAreNaturals
<1>10. r <= MaxUint
  <2> HIDE DEF r, s
  <2>1. deposit <= s * deposit
    BY <1>1, <1>4
  <2>2. QED
    BY <1>1, <1>2, <1>5, <2>1
<1>11. r \in Word /\ debt * PRECISION \in Word
  BY <1>5, <1>6, <1>10, WordsAreNaturals
<1>12. QED
  BY <1>2, <1>4, <1>5, <1>9, <1>11
     DEF totalCollateralToRedeemReturns, tokenAmountFromUsdReturns, Fits, LIQUIDATION_BONUS

\* A liquidation that covers the whole debt pays the liquidator its share and the
\* pool the rest.
LEMMA SeizureSeizes ==
  ASSUME IInv, NEW user \in User, NEW liquidator \in User,
         NEW token \in Token \ TransferFails, NEW amount \in Nat,
         amount <= s_collateralDeposited[user][token],
         writesSeizure(user, liquidator, token, amount)
  PROVE  seizeCollateral(user, liquidator, token, amount)
<1> DEFINE b == collateralBalances[token]
           paid == Transferred(b, Engine, liquidator, amount)
           rest == s_collateralDeposited[user][token] - amount
<1>1. /\ b \in [Holder -> Word] /\ SumFunction(b) \in Word /\ b[Engine] \in Nat
      /\ s_collateralDeposited[user][token] \in Nat
      /\ s_collateralDeposited[user][token] <= b[Engine]
  BY CollateralTables, DepositsCanBePaid DEF IInv
<1>2. rest \in Nat /\ CanTransfer(b, Engine, amount)
  BY <1>1 DEF CanTransfer
<1>3. paid[Engine] = b[Engine] - amount
  <2>1. liquidator \in Holder /\ Engine \in Holder /\ liquidator # Engine
    BY Accounts
  <2> HIDE DEF b
  <2>2. QED
    BY <1>1, <1>2, <2>1, EngineHolding
<1>4. CanTransfer(paid, Engine, rest)
  BY <1>1, <1>3 DEF CanTransfer
<1>5. QED
  BY <1>2, <1>4 DEF seizeCollateral, payOut, writesSeizure

\* An account below the minimum can be liquidated as long as one of its deposits
\* is worth 110 percent of its debt: no rounding, no overflow, no payment and none
\* of the checks at the end stands in the way of a liquidator with the DSC and no
\* debt of its own.
THEOREM LiquidationGoesThrough ==
  ASSUME IInv, ScalesFit, NEW user \in User, NEW liquidator \in User,
         NEW token \in Collateral \ TransferFails,
         healthFactorReturns(user), healthFactor(user) < MIN_HEALTH_FACTOR,
         100 * getUsdValue(token, s_collateralDeposited[user][token])
           >= 110 * s_DscMinted[user],
         s_DscMinted[liquidator] = 0, getAccountCollateralValueReturns(liquidator),
         dscBalances[liquidator] >= s_DscMinted[user],
         dscAllowances[liquidator][Engine] >= s_DscMinted[user],
         writesSeizure(user, liquidator, token,
                       totalCollateralToRedeem(answer[token], s_DscMinted[user])),
         writesRepayment(user, liquidator, s_DscMinted[user])
  PROVE  Liquidate(liquidator, token, user, s_DscMinted[user])
<1> DEFINE debt == s_DscMinted[user]
           deposit == s_collateralDeposited[user][token]
           share == totalCollateralToRedeem(answer[token], debt)
<1>1. /\ PRECISION \in Nat /\ MaxUint \in Nat /\ PRECISION <= MaxUint
      /\ MIN_HEALTH_FACTOR = PRECISION
  BY PrecisionAssumption, MaxUintAssumption DEF ScalesFit, MIN_HEALTH_FACTOR
<1>2. debt \in Nat \ {0} /\ user # liquidator
  <2>1. debt \in Nat
    BY DscTables DEF IInv
  <2>2. debt # 0
    BY <1>1 DEF healthFactor
  <2>3. QED
    BY <2>1, <2>2
<1>3. /\ token \in Token /\ deposit \in Nat /\ answer[token] \in Int
      /\ s_DscMinted \in [User -> Word]
      /\ s_collateralDeposited \in [User -> [Token -> Word]]
  BY AccountTypes, Listed DEF IInv, DscBooks, CollateralBooks
<1>4. /\ totalCollateralToRedeemReturns(answer[token], debt)
      /\ share \in Nat /\ share <= deposit
  <2>1. usdValueReturns(answer[token], deposit)
    BY DEF healthFactorReturns, getAccountCollateralValueReturns, getUsdValueReturns
  <2>2. 100 * usdValue(answer[token], deposit) >= 110 * debt
    BY DEF getUsdValue
  <2> HIDE DEF debt, deposit, share
  <2>3. QED
    BY <1>2, <1>3, <2>1, <2>2, ShareIsComputed DEF share
<1>5. coverDebt(liquidator, token, user, debt)
  <2>1. seizeCollateral(user, liquidator, token, share)
    BY <1>3, <1>4, SeizureSeizes
  <2>2. burnDsc(user, liquidator, debt)
    BY <1>2, RepaymentBurns
  <2>3. UNCHANGED <<collateralAllowances, oracleVars>>
    BY DEF writesSeizure
  <2>4. QED
    BY <1>2, <1>4, <2>1, <2>2, <2>3 DEF coverDebt
<1>6. /\ s_collateralDeposited' = [s_collateralDeposited EXCEPT ![user][token] = 0]
      /\ UNCHANGED oracleVars
  BY DEF writesSeizure
<1>7. healthFactorIsFine(user)' /\ healthFactor(user)' = MaxUint
  <2>1. s_DscMinted'[user] = 0
    BY <1>2, <1>3 DEF writesRepayment
  <2>2. restIsReadable(user, token)
    BY ReadableRest DEF healthFactorReturns
  <2>3. getAccountCollateralValueReturns(user)'
    BY <1>6, <2>2, RestStaysReadable
  <2>4. QED
    BY <1>1, <2>1, <2>3, NoDebtIsFine
<1>8. healthFactor(user)' > healthFactor(user)
  <2>1. healthFactor(user) \in Nat
    BY <1>2, AccountTypes, AccountValue, HealthOfAccount
  <2>2. QED
    BY <1>1, <1>7, <2>1
<1>9. healthFactorIsFine(liquidator)'
  <2>1. s_DscMinted'[liquidator] = 0
    BY <1>2, <1>3 DEF writesRepayment
  <2>2. s_collateralDeposited'[liquidator] = s_collateralDeposited[liquidator]
    BY <1>2, <1>3, <1>6
  <2>3. answer' = answer /\ updatedAt' = updatedAt /\ now' = now
    BY <1>6 DEF oracleVars
  <2>4. getAccountCollateralValueReturns(liquidator)'
    BY <2>2, <2>3
       DEF getAccountCollateralValueReturns, getAccountCollateralValue, depositValues,
           getUsdValue, getUsdValueReturns, stalePriceCheckReturns
  <2>5. QED
    BY <1>1, <2>1, <2>4, NoDebtIsFine
<1>10. QED
  BY <1>5, <1>7, <1>8, <1>9 DEF Liquidate, healthFactorIsFine
=============================================================================
