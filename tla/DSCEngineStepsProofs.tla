------------------------- MODULE DSCEngineStepsProofs --------------------------
(***************************************************************************)
(* With tokens that do what they should - they do not call back and do not *)
(* fail - the steps of every transaction amount to one atomic action of    *)
(* DSCEngine, or to nothing if it reverts.                                 *)
(*                                                                         *)
(* The invariant keeps the history of the running transaction: the list of *)
(* its steps, the ones that are done and the ones to come, and the storage *)
(* after each that is done.  The list is that of a call; that of liquidate *)
(* grows when seize and sweep are replaced by the steps they stand for.    *)
(* When nothing is left to do, the history is read as a whole: what every  *)
(* step has found and changed is what the atomic action asks and does.     *)
(***************************************************************************)
EXTENDS DSCEngineCallsProofs

\* Neither callbacks nor failures.
TokensBehave ==
  /\ CallbackTokens = {} /\ FaultSets \subseteq {{}}
  /\ TransferFails = {} /\ TransferFromFails = {}

-----------------------------------------------------------------------------
(* What a step does *)

\* healthFactorReturns of a storage.
returnsAt(c, s, u) ==
  LET value == valueOf(s.answer, s.deposited[u])
  IN  /\ \A t \in Collateral : /\ c.updatedAt[t] <= c.now
                               /\ c.now - c.updatedAt[t] <= TIMEOUT
                               /\ usdValueReturns(s.answer[t], s.deposited[u][t])
      /\ Fits(value)
      /\ s.minted[u] = 0 \/ calculateHealthFactorReturns(s.minted[u], value)

\* What a step h asks of the storage s.
Asked(c, s, h) ==
  /\ h.op = "moreThanZero" => h.amount > 0
  /\ h.op = "isAllowedToken" => h.token \in Collateral
  /\ h.op = "recordDeposit" => Fits(s.deposited[h.user][h.token] + h.amount)
  /\ h.op = "eraseDeposit" => Fits(s.deposited[h.user][h.token] - h.amount)
  /\ h.op = "recordDebt" => Fits(s.minted[h.user] + h.amount)
  /\ h.op = "eraseDebt" => Fits(s.minted[h.user] - h.amount)
  /\ h.op = "transferFrom" => /\ CanSpend(s.allowances[h.token], h.user, Engine, h.amount)
                              /\ CanTransfer(s.balances[h.token], h.user, h.amount)
  /\ h.op = "transfer" => CanTransfer(s.balances[h.token], Engine, h.amount)
  /\ h.op = "mint" => Fits(s.dsc[3] + h.amount)
  /\ h.op = "pullDsc" => /\ CanSpend(s.dsc[2], h.user, Engine, h.amount)
                         /\ CanTransfer(s.dsc[1], h.user, h.amount)
  /\ h.op = "checkHealth" => fineAt(c, s, h.user)
  /\ h.op = "checkImproved" => returnsAt(c, s, h.user) /\ healthAt(s, h.user) > h.amount
  /\ h.op = "seize" => /\ returnsAt(c, s, h.user)
                       /\ healthAt(s, h.user) < MIN_HEALTH_FACTOR
                       /\ h.token \in Collateral
                       /\ totalCollateralToRedeemReturns(s.answer[h.token], h.amount)

\* The storage r in which it leaves the tables: what it does not change stays.
Changed(s, r, h) ==
  /\ r.deposited = IF h.op = "recordDeposit"
                   THEN [s.deposited EXCEPT ![h.user][h.token] = @ + h.amount]
                   ELSE IF h.op = "eraseDeposit"
                   THEN [s.deposited EXCEPT ![h.user][h.token] = @ - h.amount]
                   ELSE s.deposited
  /\ r.minted = IF h.op = "recordDebt" THEN [s.minted EXCEPT ![h.user] = @ + h.amount]
                ELSE IF h.op = "eraseDebt" THEN [s.minted EXCEPT ![h.user] = @ - h.amount]
                ELSE s.minted
  /\ r.allowances = IF h.op = "transferFrom"
                    THEN [s.allowances EXCEPT ![h.token] = Spent(@, h.user, Engine, h.amount)]
                    ELSE s.allowances
  /\ r.balances = IF h.op = "transferFrom"
                  THEN [s.balances EXCEPT ![h.token] = Transferred(@, h.user, Engine, h.amount)]
                  ELSE IF h.op = "transfer"
                  THEN [s.balances EXCEPT ![h.token] = Transferred(@, Engine, h.user, h.amount)]
                  ELSE s.balances
  /\ r.dsc[1] = IF h.op = "mint" THEN Credited(s.dsc[1], h.user, h.amount)
                ELSE IF h.op = "pullDsc" THEN Transferred(s.dsc[1], h.user, Engine, h.amount)
                ELSE IF h.op = "burn" THEN Debited(s.dsc[1], Engine, h.amount)
                ELSE s.dsc[1]
  /\ r.dsc[2] = IF h.op = "pullDsc" THEN Spent(s.dsc[2], h.user, Engine, h.amount) ELSE s.dsc[2]
  /\ r.dsc[3] = IF h.op = "mint" THEN s.dsc[3] + h.amount
                ELSE IF h.op = "burn" THEN s.dsc[3] - h.amount
                ELSE s.dsc[3]
  /\ r.answer = s.answer

Taken(c, s, r, h) == Asked(c, s, h) /\ Changed(s, r, h)

\* Whether the health factor can be computed now, as a question about the storage.
LEMMA ReturnsNow ==
  ASSUME NEW u \in User
  PROVE  healthFactorReturns(u) <=> returnsAt(context, storage, u)
<1>1. getAccountCollateralValue(u) = valueOf(answer, s_collateralDeposited[u])
  BY AccountValue
<1>2. /\ storage.answer = answer /\ storage.deposited = s_collateralDeposited
      /\ storage.minted = s_DscMinted
      /\ context.updatedAt = updatedAt /\ context.now = now
  BY StorageFields DEF context
<1>3. QED
  BY <1>1, <1>2 DEF healthFactorReturns, getAccountCollateralValueReturns,
                    getUsdValueReturns, stalePriceCheckReturns, returnsAt

\* A step that only asks.
LEMMA AskedIsTaken ==
  ASSUME NEW h, Asked(context, storage, h),
         h.op \notin {"recordDeposit", "eraseDeposit", "recordDebt", "eraseDebt",
                      "transferFrom", "transfer", "mint", "pullDsc", "burn"},
         UNCHANGED <<engineVars, collateralVars, dscLedger, answer>>
  PROVE  Taken(context, storage, storage', h)
<1>1. /\ s_collateralDeposited' = s_collateralDeposited /\ s_DscMinted' = s_DscMinted
      /\ collateralBalances' = collateralBalances /\ collateralAllowances' = collateralAllowances
      /\ dscBalances' = dscBalances /\ dscAllowances' = dscAllowances
      /\ dscTotalSupply' = dscTotalSupply /\ answer' = answer
  BY DEF engineVars, collateralVars, dscLedger
<1>2. /\ storage'.deposited = storage.deposited /\ storage'.minted = storage.minted
      /\ storage'.balances = storage.balances /\ storage'.allowances = storage.allowances
      /\ storage'.dsc[1] = storage.dsc[1] /\ storage'.dsc[2] = storage.dsc[2]
      /\ storage'.dsc[3] = storage.dsc[3] /\ storage'.answer = storage.answer
  BY <1>1, StorageFields
<1>3. Changed(storage, storage', h)
  BY <1>2 DEF Changed
<1>4. QED
  BY <1>3 DEF Taken

\* The check of the health factors, the modifiers and the tests of what a token
\* returned.
LEMMA CheckIsTaken ==
  ASSUME CallsIInv, Check
  PROVE  Taken(context, storage, storage', step) /\ Continue(<<>>)
<1>1. Continue(<<>>) /\ UNCHANGED <<engineVars, collateralVars, dscLedger, answer>>
  BY DEF Check
<1>2. Asked(context, storage, step)
      /\ step.op \in {"moreThanZero", "isAllowedToken", "checkHealth", "checkImproved",
                      "transferFromReturned", "transferReturned", "mintReturned"}
  <2>1. CASE AtStep("moreThanZero") /\ step.amount > 0
    BY <2>1 DEF AtStep, Asked
  <2>2. CASE AtStep("isAllowedToken") /\ step.token \in Collateral
    BY <2>2 DEF AtStep, Asked
  <2>3. CASE AtStep("checkHealth") /\ healthFactorIsFine(step.user)
    <3>1. step \in TodoStep /\ step.op = "checkHealth"
      BY <2>3, NextStep
    <3>2. step.user \in User
      BY <3>1 DEF TodoStep
    <3>3. fineAt(context, storage, step.user)
      BY <2>3, <3>2, FineNow
    <3>4. QED
      BY <3>1, <3>3 DEF Asked
  <2>4. CASE /\ AtStep("checkImproved") /\ healthFactorReturns(step.user)
             /\ healthFactor(step.user) > step.amount
    <3>1. step \in TodoStep /\ step.op = "checkImproved"
      BY <2>4, NextStep
    <3>2. step.user \in User
      BY <3>1 DEF TodoStep
    <3>3. returnsAt(context, storage, step.user) /\ healthAt(storage, step.user) > step.amount
      BY <2>4, <3>2, ReturnsNow, HealthNow
    <3>4. QED
      BY <3>1, <3>3 DEF Asked
  <2>5. CASE succeeds
    BY <2>5 DEF succeeds, AtStep, Asked
  <2>6. QED
    BY <2>1, <2>2, <2>3, <2>4, <2>5 DEF Check, passes, modifierPasses
<1>3. QED
  BY <1>1, <1>2, AskedIsTaken

\* The guard changes none of the tables.
LEMMA GuardIsTaken ==
  ASSUME Enter \/ Leave
  PROVE  Taken(context, storage, storage', step) /\ Continue(<<>>)
<1>1. /\ step.op \in {"enter", "leave"} /\ Continue(<<>>)
      /\ UNCHANGED <<engineVars, collateralVars, dscLedger, answer>>
  BY DEF Enter, Leave, AtStep
<1>2. Asked(context, storage, step)
  BY <1>1 DEF Asked
<1>3. QED
  BY <1>1, <1>2, AskedIsTaken

\* A deposit is recorded or erased in the books.
LEMMA DepositIsTaken ==
  ASSUME CallsIInv, ChangeDeposit
  PROVE  Taken(context, storage, storage', step) /\ Continue(<<>>)
<1>1. PICK change \in {-1, 1} :
        /\ AtStep(IF change = 1 THEN "recordDeposit" ELSE "eraseDeposit")
        /\ Fits(s_collateralDeposited[step.user][step.token] + change * step.amount)
        /\ s_collateralDeposited' =
             [s_collateralDeposited EXCEPT ![step.user][step.token] =
                s_collateralDeposited[step.user][step.token] + change * step.amount]
        /\ Continue(<<>>)
        /\ UNCHANGED <<s_DscMinted, collateralVars, dscLedger, answer, _status>>
  BY DEF ChangeDeposit
<1> DEFINE v == s_collateralDeposited[step.user][step.token] + change * step.amount
           op == IF change = 1 THEN "recordDeposit" ELSE "eraseDeposit"
<1>2. /\ step \in TodoStep /\ step.op = op /\ TablesOK(storage)
      /\ step.user \in User /\ step.token \in Token /\ step.amount \in Nat
  <2>1. step \in TodoStep /\ step.op = op /\ TablesOK(storage)
    BY <1>1, NextStep
  <2>2. QED
    BY <2>1 DEF TodoStep, CollateralOps
<1>3. \/ step.op = "recordDeposit" /\ v = storage.deposited[step.user][step.token] + step.amount
      \/ step.op = "eraseDeposit" /\ v = storage.deposited[step.user][step.token] - step.amount
  <2>1. s_collateralDeposited[step.user][step.token] \in Word
    BY <1>2, StorageIsTyped
  <2>2. s_collateralDeposited[step.user][step.token] \in Nat
    BY <2>1, WordsAreNaturals
  <2>3. QED
    BY <1>2, <2>2, StorageFields
<1>4. /\ Fits(v)
      /\ s_collateralDeposited' = [s_collateralDeposited EXCEPT ![step.user][step.token] = v]
      /\ s_DscMinted' = s_DscMinted
      /\ collateralBalances' = collateralBalances /\ collateralAllowances' = collateralAllowances
      /\ dscBalances' = dscBalances /\ dscAllowances' = dscAllowances
      /\ dscTotalSupply' = dscTotalSupply /\ answer' = answer
  BY <1>1 DEF collateralVars, dscLedger
<1> HIDE DEF v
<1>5. /\ storage'.deposited = [storage.deposited EXCEPT ![step.user][step.token] = v]
      /\ storage'.minted = storage.minted
      /\ storage'.balances = storage.balances /\ storage'.allowances = storage.allowances
      /\ storage'.dsc[1] = storage.dsc[1] /\ storage'.dsc[2] = storage.dsc[2]
      /\ storage'.dsc[3] = storage.dsc[3] /\ storage'.answer = storage.answer
  BY <1>4, StorageFields
<1>6. Asked(context, storage, step)
  BY <1>3, <1>4 DEF Asked
<1>7. Changed(storage, storage', step)
  BY <1>3, <1>5 DEF Changed
<1>8. QED
  BY <1>1, <1>6, <1>7 DEF Taken

\* A debt is recorded or erased in the books.
LEMMA DebtIsTaken ==
  ASSUME CallsIInv, ChangeDebt
  PROVE  Taken(context, storage, storage', step) /\ Continue(<<>>)
<1>1. PICK change \in {-1, 1} :
        /\ AtStep(IF change = 1 THEN "recordDebt" ELSE "eraseDebt")
        /\ Fits(s_DscMinted[step.user] + change * step.amount)
        /\ s_DscMinted' = [s_DscMinted EXCEPT ![step.user] =
             s_DscMinted[step.user] + change * step.amount]
        /\ Continue(<<>>)
        /\ UNCHANGED <<s_collateralDeposited, collateralVars, dscLedger, answer, _status>>
  BY DEF ChangeDebt
<1> DEFINE v == s_DscMinted[step.user] + change * step.amount
           op == IF change = 1 THEN "recordDebt" ELSE "eraseDebt"
<1>2. /\ step \in TodoStep /\ step.op = op /\ TablesOK(storage)
      /\ step.user \in User /\ step.amount \in Nat
  <2>1. step \in TodoStep /\ step.op = op /\ TablesOK(storage)
    BY <1>1, NextStep
  <2>2. QED
    BY <2>1 DEF TodoStep
<1>3. \/ step.op = "recordDebt" /\ v = storage.minted[step.user] + step.amount
      \/ step.op = "eraseDebt" /\ v = storage.minted[step.user] - step.amount
  <2>1. s_DscMinted[step.user] \in Word
    BY <1>2, StorageIsTyped
  <2>2. s_DscMinted[step.user] \in Nat
    BY <2>1, WordsAreNaturals
  <2>3. QED
    BY <1>2, <2>2, StorageFields
<1>4. /\ Fits(v) /\ s_DscMinted' = [s_DscMinted EXCEPT ![step.user] = v]
      /\ s_collateralDeposited' = s_collateralDeposited
      /\ collateralBalances' = collateralBalances /\ collateralAllowances' = collateralAllowances
      /\ dscBalances' = dscBalances /\ dscAllowances' = dscAllowances
      /\ dscTotalSupply' = dscTotalSupply /\ answer' = answer
  BY <1>1 DEF collateralVars, dscLedger
<1> HIDE DEF v
<1>5. /\ storage'.minted = [storage.minted EXCEPT ![step.user] = v]
      /\ storage'.deposited = storage.deposited
      /\ storage'.balances = storage.balances /\ storage'.allowances = storage.allowances
      /\ storage'.dsc[1] = storage.dsc[1] /\ storage'.dsc[2] = storage.dsc[2]
      /\ storage'.dsc[3] = storage.dsc[3] /\ storage'.answer = storage.answer
  BY <1>4, StorageFields
<1>6. Asked(context, storage, step)
  BY <1>3, <1>4 DEF Asked
<1>7. Changed(storage, storage', step)
  BY <1>3, <1>5 DEF Changed
<1>8. QED
  BY <1>1, <1>6, <1>7 DEF Taken

\* Without faults a payment in collateral moves what it says.
LEMMA CollateralIsTaken ==
  ASSUME faults = {}, PullCollateral \/ PushCollateral
  PROVE  Taken(context, storage, storage', step) /\ Continue(<<>>)
<1>1. CASE PullCollateral
  <2>1. /\ step.op = "transferFrom" /\ Continue(<<>>)
        /\ CanSpend(collateralAllowances[step.token], step.user, Engine, step.amount)
        /\ CanTransfer(collateralBalances[step.token], step.user, step.amount)
        /\ collateralAllowances' = [collateralAllowances EXCEPT ![step.token] =
             Spent(collateralAllowances[step.token], step.user, Engine, step.amount)]
        /\ collateralBalances' = [collateralBalances EXCEPT ![step.token] =
             Transferred(collateralBalances[step.token], step.user, Engine, step.amount)]
        /\ s_collateralDeposited' = s_collateralDeposited /\ s_DscMinted' = s_DscMinted
        /\ dscBalances' = dscBalances /\ dscAllowances' = dscAllowances
        /\ dscTotalSupply' = dscTotalSupply /\ answer' = answer
    BY <1>1 DEF PullCollateral, AtStep, engineVars, dscLedger
  <2>2. Asked(context, storage, step)
    BY <2>1, StorageFields DEF Asked
  <2>3. Changed(storage, storage', step)
    BY <2>1, StorageFields DEF Changed
  <2>4. QED
    BY <2>1, <2>2, <2>3 DEF Taken
<1>2. CASE PushCollateral
  <2>1. /\ step.op = "transfer" /\ Continue(<<>>)
        /\ CanTransfer(collateralBalances[step.token], Engine, step.amount)
        /\ collateralBalances' = [collateralBalances EXCEPT ![step.token] =
             Transferred(collateralBalances[step.token], Engine, step.user, step.amount)]
        /\ collateralAllowances' = collateralAllowances
        /\ s_collateralDeposited' = s_collateralDeposited /\ s_DscMinted' = s_DscMinted
        /\ dscBalances' = dscBalances /\ dscAllowances' = dscAllowances
        /\ dscTotalSupply' = dscTotalSupply /\ answer' = answer
    BY <1>2 DEF PushCollateral, AtStep, engineVars, dscLedger
  <2>2. Asked(context, storage, step)
    BY <2>1, StorageFields DEF Asked
  <2>3. Changed(storage, storage', step)
    BY <2>1, StorageFields DEF Changed
  <2>4. QED
    BY <2>1, <2>2, <2>3 DEF Taken
<1>3. QED
  BY <1>1, <1>2

\* Without faults the DSC token does what it is asked.
LEMMA DscIsTaken ==
  ASSUME faults = {}, MintTokens \/ PullDsc \/ BurnTokens
  PROVE  Taken(context, storage, storage', step) /\ Continue(<<>>)
<1>1. /\ s_collateralDeposited' = s_collateralDeposited /\ s_DscMinted' = s_DscMinted
      /\ collateralBalances' = collateralBalances /\ collateralAllowances' = collateralAllowances
      /\ answer' = answer /\ Continue(<<>>)
  BY DEF MintTokens, PullDsc, BurnTokens, engineVars, collateralVars
<1>2. CASE MintTokens
  <2>1. /\ step.op = "mint" /\ Fits(dscTotalSupply + step.amount)
        /\ dscTotalSupply' = dscTotalSupply + step.amount
        /\ dscBalances' = Credited(dscBalances, step.user, step.amount)
        /\ dscAllowances' = dscAllowances
    BY <1>2 DEF MintTokens, AtStep
  <2>2. Asked(context, storage, step)
    BY <2>1, StorageFields DEF Asked
  <2>3. Changed(storage, storage', step)
    BY <1>1, <2>1, StorageFields DEF Changed
  <2>4. QED
    BY <1>1, <2>2, <2>3 DEF Taken
<1>3. CASE PullDsc
  <2>1. /\ step.op = "pullDsc"
        /\ CanSpend(dscAllowances, step.user, Engine, step.amount)
        /\ CanTransfer(dscBalances, step.user, step.amount)
        /\ dscAllowances' = Spent(dscAllowances, step.user, Engine, step.amount)
        /\ dscBalances' = Transferred(dscBalances, step.user, Engine, step.amount)
        /\ dscTotalSupply' = dscTotalSupply
    BY <1>3 DEF PullDsc, AtStep
  <2>2. Asked(context, storage, step)
    BY <2>1, StorageFields DEF Asked
  <2>3. Changed(storage, storage', step)
    BY <1>1, <2>1, StorageFields DEF Changed
  <2>4. QED
    BY <1>1, <2>2, <2>3 DEF Taken
<1>4. CASE BurnTokens
  <2>1. /\ step.op = "burn"
        /\ dscBalances' = Debited(dscBalances, Engine, step.amount)
        /\ dscTotalSupply' = dscTotalSupply - step.amount
        /\ dscAllowances' = dscAllowances
    BY <1>4 DEF BurnTokens, AtStep
  <2>2. Asked(context, storage, step)
    BY <2>1, StorageFields DEF Asked
  <2>3. Changed(storage, storage', step)
    BY <1>1, <2>1, StorageFields DEF Changed
  <2>4. QED
    BY <1>1, <2>2, <2>3 DEF Taken
<1>5. QED
  BY <1>2, <1>3, <1>4

\* sweep is replaced by the payment of what is left to the pool.
LEMMA SweepIsTaken ==
  ASSUME Sweep
  PROVE  /\ Taken(context, storage, storage', step) /\ step.op = "sweep"
         /\ Continue(redeemCollateralSteps(step.user, Pool, step.token,
                                           storage.deposited[step.user][step.token]))
<1>1. /\ step.op = "sweep" /\ UNCHANGED <<engineVars, collateralVars, dscLedger, answer>>
      /\ Continue(redeemCollateralSteps(step.user, Pool, step.token,
                                        storage.deposited[step.user][step.token]))
  BY StorageFields DEF Sweep, AtStep
<1>2. Asked(context, storage, step)
  BY <1>1 DEF Asked
<1>3. QED
  BY <1>1, <1>2, AskedIsTaken

\* seize is replaced by the rest of liquidate, with the share it has computed.
LEMMA SeizeIsTaken ==
  ASSUME CallsIInv, Seize
  PROVE  /\ Taken(context, storage, storage', step) /\ step.op = "seize"
         /\ LET sender == frames[1].sender
                seized == totalCollateralToRedeem(storage.answer[step.token], step.amount)
            IN  Continue(redeemCollateralSteps(step.user, sender, step.token, seized)
                           \o Steps(<<"sweep">>, step.user, step.token, 0)
                           \o burnDscSteps(step.user, sender, step.amount)
                           \o DscSteps(<<"checkImproved">>, step.user, healthAt(storage, step.user)))
<1>1. step \in TodoStep /\ step.op = "seize" /\ step.user \in User
  <2>1. step \in TodoStep /\ step.op = "seize"
    BY NextStep DEF Seize
  <2>2. QED
    BY <2>1 DEF TodoStep
<1>2. /\ healthFactorReturns(step.user) <=> returnsAt(context, storage, step.user)
      /\ healthFactor(step.user) = healthAt(storage, step.user)
      /\ answer = storage.answer
  BY <1>1, ReturnsNow, HealthNow, StorageFields
<1>3. Asked(context, storage, step)
  BY <1>1, <1>2 DEF Seize, Asked
<1>4. Taken(context, storage, storage', step)
  BY <1>1, <1>3, AskedIsTaken DEF Seize
<1>5. QED
  BY <1>1, <1>2, <1>4 DEF Seize

-----------------------------------------------------------------------------
(* The history of a transaction *)

\* The storages after each of the first k steps of the list l, from e to s.
IsRun(c, e, s, l, k, run) ==
  /\ run[0] = e /\ run[k] = s
  /\ \A i \in 0 .. k : run[i] \in Storage
  /\ \A i \in 1 .. k : Taken(c, run[i - 1], run[i], l[i])

\* What is left of a list of n steps after k of them.
IsLeft(todo, l, n, k) == Len(todo) = n - k /\ \A i \in 1 .. n - k : todo[i] = l[k + i]

IsPayment(l, b, from, to, token, x) ==
  /\ l[b + 1] = Step("eraseDeposit", from, token, x)
  /\ l[b + 2] = Step("transfer", to, token, x)
  /\ l[b + 3] = Step("transferReturned", to, token, x)

\* liquidate from the payment of the debt on; the health factor of the user is
\* compared with that of the storage s.
IsSettlement(l, b, s, sender, user, y) ==
  /\ l[b + 1] = Step("eraseDebt", user, ZeroAddress, y)
  /\ l[b + 2] = Step("pullDsc", sender, ZeroAddress, y)
  /\ l[b + 3] = Step("burn", sender, ZeroAddress, y)
  /\ l[b + 4] = Step("checkImproved", user, ZeroAddress, healthAt(s, user))
  /\ l[b + 5] = Step("checkHealth", sender, ZeroAddress, 0)
  /\ l[b + 6].op = "leave"

\* liquidate up to sweep, once seize has read the storage s.
IsSeizing(l, s, sender, token, user, y) ==
  /\ l[1] = Step("moreThanZero", sender, token, y)
  /\ l[2].op = "enter"
  /\ l[3] = Step("seize", user, token, y)
  /\ IsPayment(l, 3, user, sender, token, totalCollateralToRedeem(s.answer[token], y))
  /\ l[7] = Step("sweep", user, token, 0)

\* The list of liquidate before seize, between seize and sweep, and after sweep.
IsLiquidating(l, n, k, run, sender, token, user, y) ==
  \/ n = 5 /\ k <= 2 /\ IsLiquidation(l, sender, token, user, y)
  \/ /\ n = 13 /\ k \in 3 .. 6
     /\ IsSeizing(l, run[2], sender, token, user, y)
     /\ IsSettlement(l, 7, run[2], sender, user, y)
  \/ /\ n = 16 /\ k >= 7
     /\ IsSeizing(l, run[2], sender, token, user, y)
     /\ IsPayment(l, 7, user, Pool, token, run[6].deposited[user][token])
     /\ IsSettlement(l, 10, run[2], sender, user, y)

\* The list of n steps of a call of this account, after k of them.
IsTransaction(sender, l, n, k, run) ==
  \/ \E t \in Token, x \in CollateralAmounts :
       n = 7 /\ (IsDeposit(l, 0, sender, t, x) \/ IsRedemption(l, 0, sender, t, x))
  \/ \E x \in DscAmounts : \/ n = 7 /\ IsMint(l, 0, sender, x)
                           \/ n = 4 /\ IsBurn(l, 0, sender, x)
  \/ \E t \in Token, x \in CollateralAmounts, y \in DscAmounts :
       \/ n = 14 /\ IsDeposit(l, 0, sender, t, x) /\ IsMint(l, 7, sender, y)
       \/ n = 11 /\ IsBurn(l, 0, sender, y) /\ IsRedemption(l, 4, sender, t, x)
  \/ \E t \in Token, u \in User, y \in DscAmounts :
       IsLiquidating(l, n, k, run, sender, t, u, y)

\* The storage s and what is left to do have such a history.
History(c, e, s, sender, todo) ==
  \E n \in Nat : \E k \in 0 .. n : \E l, run :
    /\ IsLeft(todo, l, n, k)
    /\ IsRun(c, e, s, l, k, run)
    /\ IsTransaction(sender, l, n, k, run)

StepsIInv ==
  /\ faults = {} /\ Len(frames) <= 1
  /\ Len(frames) = 1 =>
       History(context, frames[1].entry, storage, frames[1].sender, frames[1].todo)

\* A call begins.
LEMMA CallsAreTransactions ==
  ASSUME NEW sender \in User, NEW l \in CallsOf(sender), NEW run
  PROVE  IsTransaction(sender, l, Len(l), 0, run)
<1>1. CollateralAmounts \subseteq Nat /\ DscAmounts \subseteq Nat
  BY EngineAssumption, WordsAreNaturals
<1>2. CASE \E t \in Token, x \in CollateralAmounts : l = depositCollateralCall(sender, t, x)
  <2>1. PICK t \in Token, x \in CollateralAmounts : l = depositCollateralCall(sender, t, x)
    BY <1>2
  <2>2. Len(l) = 7 /\ IsDeposit(l, 0, sender, t, x)
    BY <1>1, <2>1, DepositList
  <2>3. QED
    BY <2>2 DEF IsTransaction
<1>3. CASE \E t \in Token, x \in CollateralAmounts : l = redeemCollateralCall(sender, t, x)
  <2>1. PICK t \in Token, x \in CollateralAmounts : l = redeemCollateralCall(sender, t, x)
    BY <1>3
  <2>2. Len(l) = 7 /\ IsRedemption(l, 0, sender, t, x)
    BY <1>1, <2>1, RedeemList
  <2>3. QED
    BY <2>2 DEF IsTransaction
<1>4. CASE \E x \in DscAmounts : l = mintDscCall(sender, x)
  <2>1. PICK x \in DscAmounts : l = mintDscCall(sender, x)
    BY <1>4
  <2>2. Len(l) = 7 /\ IsMint(l, 0, sender, x)
    BY <1>1, <2>1, MintList
  <2>3. QED
    BY <2>2 DEF IsTransaction
<1>5. CASE \E x \in DscAmounts : l = burnDscCall(sender, x)
  <2>1. PICK x \in DscAmounts : l = burnDscCall(sender, x)
    BY <1>5
  <2>2. Len(l) = 4 /\ IsBurn(l, 0, sender, x)
    BY <1>1, <2>1, BurnList
  <2>3. QED
    BY <2>2 DEF IsTransaction
<1>6. CASE \E t \in Token, x \in CollateralAmounts, y \in DscAmounts :
             l = depositCollateralCall(sender, t, x) \o mintDscCall(sender, y)
  <2>1. PICK t \in Token, x \in CollateralAmounts, y \in DscAmounts :
          l = depositCollateralCall(sender, t, x) \o mintDscCall(sender, y)
    BY <1>6
  <2> DEFINE a == depositCollateralCall(sender, t, x)
             b == mintDscCall(sender, y)
  <2>2. a \in Seq(TodoStep) /\ Len(a) = 7 /\ IsDeposit(a, 0, sender, t, x)
    BY <1>1, DepositList
  <2>3. b \in Seq(TodoStep) /\ Len(b) = 7 /\ IsMint(b, 0, sender, y)
    BY <1>1, MintList
  <2>4. l = a \o b
    BY <2>1
  <2> HIDE DEF a, b
  <2>5. IsJoined(l, a, b, 7, 7)
    BY <2>2, <2>3, <2>4, Joined
  <2>6. /\ Len(l) = 14
        /\ l[1] = a[1] /\ l[2] = a[2] /\ l[3] = a[3] /\ l[4] = a[4] /\ l[5] = a[5]
        /\ l[6] = a[6] /\ l[7] = a[7]
        /\ l[8] = b[1] /\ l[9] = b[2] /\ l[10] = b[3] /\ l[11] = b[4] /\ l[12] = b[5]
        /\ l[13] = b[6] /\ l[14] = b[7]
    BY <2>5 DEF IsJoined
  <2>7. IsDeposit(l, 0, sender, t, x)
    BY <2>2, <2>6 DEF IsDeposit
  <2>8. IsMint(l, 7, sender, y)
    BY <2>3, <2>6 DEF IsMint
  <2>9. QED
    BY <2>6, <2>7, <2>8 DEF IsTransaction
<1>7. CASE \E t \in Token, x \in CollateralAmounts, y \in DscAmounts :
             l = burnDscCall(sender, y) \o redeemCollateralCall(sender, t, x)
  <2>1. PICK t \in Token, x \in CollateralAmounts, y \in DscAmounts :
          l = burnDscCall(sender, y) \o redeemCollateralCall(sender, t, x)
    BY <1>7
  <2> DEFINE a == burnDscCall(sender, y)
             b == redeemCollateralCall(sender, t, x)
  <2>2. a \in Seq(TodoStep) /\ Len(a) = 4 /\ IsBurn(a, 0, sender, y)
    BY <1>1, BurnList
  <2>3. b \in Seq(TodoStep) /\ Len(b) = 7 /\ IsRedemption(b, 0, sender, t, x)
    BY <1>1, RedeemList
  <2>4. l = a \o b
    BY <2>1
  <2> HIDE DEF a, b
  <2>5. IsJoined(l, a, b, 4, 7)
    BY <2>2, <2>3, <2>4, Joined
  <2>6. /\ Len(l) = 11
        /\ l[1] = a[1] /\ l[2] = a[2] /\ l[3] = a[3] /\ l[4] = a[4]
        /\ l[5] = b[1] /\ l[6] = b[2] /\ l[7] = b[3] /\ l[8] = b[4] /\ l[9] = b[5]
        /\ l[10] = b[6] /\ l[11] = b[7]
    BY <2>5 DEF IsJoined
  <2>7. IsBurn(l, 0, sender, y)
    BY <2>2, <2>6 DEF IsBurn
  <2>8. IsRedemption(l, 4, sender, t, x)
    BY <2>3, <2>6 DEF IsRedemption
  <2>9. QED
    BY <2>6, <2>7, <2>8 DEF IsTransaction
<1>8. CASE \E t \in Token, u \in User, y \in DscAmounts : l = liquidateCall(sender, t, u, y)
  <2>1. PICK t \in Token, u \in User, y \in DscAmounts : l = liquidateCall(sender, t, u, y)
    BY <1>8
  <2>2. Len(l) = 5 /\ IsLiquidation(l, sender, t, u, y)
    BY <1>1, <2>1, LiquidateList
  <2>3. IsLiquidating(l, 5, 0, run, sender, t, u, y)
    BY <2>2 DEF IsLiquidating
  <2>4. QED
    BY <2>2, <2>3 DEF IsTransaction
<1>9. QED
  BY <1>2, <1>3, <1>4, <1>5, <1>6, <1>7, <1>8 DEF CallsOf

\* Two histories that agree up to k.
Agrees(goes, run, k) == \A i \in 0 .. k : goes[i] = run[i]

\* One more step is done, the next of l; m is the same list so far.
IsNextOf(c, e, s, r, l, m, k, run) ==
  /\ k \in Nat /\ IsRun(c, e, s, l, k, run)
  /\ r \in Storage /\ Taken(c, s, r, l[k + 1])
  /\ \A i \in 1 .. k + 1 : m[i] = l[i]

\* One more storage at the end of the history of a call.
LEMMA RunGoesOn ==
  ASSUME NEW c, NEW e, NEW s, NEW r, NEW l, NEW m, NEW k, NEW run,
         IsNextOf(c, e, s, r, l, m, k, run)
  PROVE  \E goes : IsRun(c, e, r, m, k + 1, goes) /\ Agrees(goes, run, k)
<1> USE DEF IsNextOf
<1> DEFINE goes == [i \in 0 .. k + 1 |-> IF i <= k THEN run[i] ELSE r]
<1>1. /\ \A i \in 0 .. k : goes[i] = run[i]
      /\ goes[k + 1] = r /\ goes[0] = run[0]
  OBVIOUS
<1>2. ASSUME NEW i \in 0 .. k + 1 PROVE goes[i] \in Storage
  BY DEF IsRun
<1> HIDE DEF goes
<1>3. ASSUME NEW i \in 1 .. k + 1 PROVE Taken(c, goes[i - 1], goes[i], m[i])
  <2>1. CASE i \in 1 .. k
    <3>1. i - 1 \in 0 .. k /\ i \in 0 .. k
      BY <2>1
    <3>2. goes[i - 1] = run[i - 1] /\ goes[i] = run[i] /\ m[i] = l[i]
      BY <1>1, <3>1
    <3>3. QED
      BY <2>1, <3>2 DEF IsRun
  <2>2. CASE i = k + 1
    <3>1. i - 1 = k /\ k \in 0 .. k
      BY <2>2
    <3>2. goes[i - 1] = s /\ goes[i] = r /\ m[i] = l[k + 1]
      BY <1>1, <2>2, <3>1 DEF IsRun
    <3>3. QED
      BY <3>2
  <2>3. QED
    BY <2>1, <2>2
<1>4. IsRun(c, e, r, m, k + 1, goes)
  BY <1>1, <1>2, <1>3 DEF IsRun
<1>5. QED
  BY <1>1, <1>4 DEF Agrees

\* Only liquidate has steps that are replaced.
LEMMA OthersStay ==
  ASSUME NEW l, NEW sender, NEW t, NEW x, NEW b \in Nat
  PROVE  /\ IsDeposit(l, b, sender, t, x) \/ IsRedemption(l, b, sender, t, x)
              \/ IsMint(l, b, sender, x)
            => \A i \in b + 1 .. b + 7 : l[i].op \notin {"seize", "sweep"}
         /\ IsBurn(l, b, sender, x) => \A i \in b + 1 .. b + 4 : l[i].op \notin {"seize", "sweep"}
<1>1. \A i \in b + 1 .. b + 7 : \/ i = b + 1 \/ i = b + 2 \/ i = b + 3 \/ i = b + 4
                                \/ i = b + 5 \/ i = b + 6 \/ i = b + 7
  OBVIOUS
<1>2. \A i \in b + 1 .. b + 4 : i = b + 1 \/ i = b + 2 \/ i = b + 3 \/ i = b + 4
  OBVIOUS
<1>3. ASSUME IsDeposit(l, b, sender, t, x)
      PROVE  \A i \in b + 1 .. b + 7 : l[i].op \notin {"seize", "sweep"}
  BY <1>1, <1>3, StepFields DEF IsDeposit
<1>4. ASSUME IsRedemption(l, b, sender, t, x)
      PROVE  \A i \in b + 1 .. b + 7 : l[i].op \notin {"seize", "sweep"}
  BY <1>1, <1>4, StepFields DEF IsRedemption
<1>5. ASSUME IsMint(l, b, sender, x)
      PROVE  \A i \in b + 1 .. b + 7 : l[i].op \notin {"seize", "sweep"}
  BY <1>1, <1>5, StepFields DEF IsMint
<1>6. ASSUME IsBurn(l, b, sender, x)
      PROVE  \A i \in b + 1 .. b + 4 : l[i].op \notin {"seize", "sweep"}
  BY <1>2, <1>6, StepFields DEF IsBurn
<1>7. QED
  BY <1>3, <1>4, <1>5, <1>6

\* Only the list of liquidate has steps that are replaced by others.
LEMMA OnlyLiquidateGrows ==
  ASSUME NEW sender, NEW l, NEW n \in Nat, NEW k \in 0 .. n - 1, NEW run,
         IsTransaction(sender, l, n, k, run), l[k + 1].op \in {"seize", "sweep"}
  PROVE  \E t \in Token, u \in User, y \in DscAmounts :
           IsLiquidating(l, n, k, run, sender, t, u, y)
<1>1. k + 1 \in 1 .. n /\ k + 1 \in Nat
  OBVIOUS
<1>2. ASSUME NEW t \in Token, NEW x \in CollateralAmounts, n = 7,
             IsDeposit(l, 0, sender, t, x) \/ IsRedemption(l, 0, sender, t, x)
      PROVE  FALSE
  <2>1. \A i \in 0 + 1 .. 0 + 7 : l[i].op \notin {"seize", "sweep"}
    BY <1>2, OthersStay
  <2>2. QED
    BY <1>1, <1>2, <2>1
<1>3. ASSUME NEW x \in DscAmounts, n = 7, IsMint(l, 0, sender, x) PROVE FALSE
  <2>1. \A i \in 0 + 1 .. 0 + 7 : l[i].op \notin {"seize", "sweep"}
    BY <1>3, OthersStay
  <2>2. QED
    BY <1>1, <1>3, <2>1
<1>4. ASSUME NEW x \in DscAmounts, n = 4, IsBurn(l, 0, sender, x) PROVE FALSE
  <2>1. \A i \in 0 + 1 .. 0 + 4 : l[i].op \notin {"seize", "sweep"}
    BY <1>4, OthersStay
  <2>2. QED
    BY <1>1, <1>4, <2>1
<1>5. ASSUME NEW t \in Token, NEW x \in CollateralAmounts, NEW y \in DscAmounts, n = 14,
             IsDeposit(l, 0, sender, t, x), IsMint(l, 7, sender, y)
      PROVE  FALSE
  <2>1. \A i \in 0 + 1 .. 0 + 7 : l[i].op \notin {"seize", "sweep"}
    BY <1>5, OthersStay
  <2>2. \A i \in 7 + 1 .. 7 + 7 : l[i].op \notin {"seize", "sweep"}
    BY <1>5, OthersStay
  <2>3. QED
    BY <1>1, <1>5, <2>1, <2>2
<1>6. ASSUME NEW t \in Token, NEW x \in CollateralAmounts, NEW y \in DscAmounts, n = 11,
             IsBurn(l, 0, sender, y), IsRedemption(l, 4, sender, t, x)
      PROVE  FALSE
  <2>1. \A i \in 0 + 1 .. 0 + 4 : l[i].op \notin {"seize", "sweep"}
    BY <1>6, OthersStay
  <2>2. \A i \in 4 + 1 .. 4 + 7 : l[i].op \notin {"seize", "sweep"}
    BY <1>6, OthersStay
  <2>3. QED
    BY <1>1, <1>6, <2>1, <2>2
<1>7. QED
  BY <1>2, <1>3, <1>4, <1>5, <1>6 DEF IsTransaction

\* The operations of a liquidation, place by place.
LEMMA LiquidatingOps ==
  ASSUME NEW l, NEW s, NEW sender, NEW token, NEW user, NEW y
  PROVE  /\ IsLiquidation(l, sender, token, user, y) =>
              /\ l[1].op = "moreThanZero" /\ l[2].op = "enter" /\ l[3].op = "seize"
              /\ l[4].op = "checkHealth" /\ l[5].op = "leave"
         /\ IsSeizing(l, s, sender, token, user, y) =>
              /\ l[4].op = "eraseDeposit" /\ l[5].op = "transfer"
              /\ l[6].op = "transferReturned" /\ l[7].op = "sweep"
         /\ IsSettlement(l, 7, s, sender, user, y) =>
              /\ l[8].op = "eraseDebt" /\ l[9].op = "pullDsc" /\ l[10].op = "burn"
              /\ l[11].op = "checkImproved" /\ l[12].op = "checkHealth" /\ l[13].op = "leave"
         /\ \A x : IsPayment(l, 7, user, Pool, token, x) =>
              l[8].op = "eraseDeposit" /\ l[9].op = "transfer" /\ l[10].op = "transferReturned"
         /\ IsSettlement(l, 10, s, sender, user, y) =>
              /\ l[11].op = "eraseDebt" /\ l[12].op = "pullDsc" /\ l[13].op = "burn"
              /\ l[14].op = "checkImproved" /\ l[15].op = "checkHealth" /\ l[16].op = "leave"
<1>1. ASSUME IsLiquidation(l, sender, token, user, y)
      PROVE  /\ l[1].op = "moreThanZero" /\ l[2].op = "enter" /\ l[3].op = "seize"
             /\ l[4].op = "checkHealth" /\ l[5].op = "leave"
  BY <1>1, StepFields DEF IsLiquidation
<1>2. ASSUME IsSeizing(l, s, sender, token, user, y)
      PROVE  /\ l[4].op = "eraseDeposit" /\ l[5].op = "transfer"
             /\ l[6].op = "transferReturned" /\ l[7].op = "sweep"
  BY <1>2, StepFields DEF IsSeizing, IsPayment
<1>3. ASSUME IsSettlement(l, 7, s, sender, user, y)
      PROVE  /\ l[8].op = "eraseDebt" /\ l[9].op = "pullDsc" /\ l[10].op = "burn"
             /\ l[11].op = "checkImproved" /\ l[12].op = "checkHealth" /\ l[13].op = "leave"
  BY <1>3, StepFields DEF IsSettlement
<1>4. ASSUME NEW x, IsPayment(l, 7, user, Pool, token, x)
      PROVE  l[8].op = "eraseDeposit" /\ l[9].op = "transfer" /\ l[10].op = "transferReturned"
  BY <1>4, StepFields DEF IsPayment
<1>5. ASSUME IsSettlement(l, 10, s, sender, user, y)
      PROVE  /\ l[11].op = "eraseDebt" /\ l[12].op = "pullDsc" /\ l[13].op = "burn"
             /\ l[14].op = "checkImproved" /\ l[15].op = "checkHealth" /\ l[16].op = "leave"
  BY <1>5, StepFields DEF IsSettlement
<1>6. QED
  BY <1>1, <1>2, <1>3, <1>4, <1>5

\* A step that is simply done.
LEMMA LiquidatingGoesOn ==
  ASSUME NEW sender, NEW l, NEW n \in Nat, NEW k \in 0 .. n - 1, NEW run,
         NEW token, NEW user, NEW y, IsLiquidating(l, n, k, run, sender, token, user, y),
         NEW goes, Agrees(goes, run, k)
  PROVE  /\ l[k + 1].op \notin {"seize", "sweep"}
              => IsLiquidating(l, n, k + 1, goes, sender, token, user, y)
         /\ l[k + 1].op = "seize"
              => n = 5 /\ k = 2 /\ IsLiquidation(l, sender, token, user, y)
         /\ l[k + 1].op = "sweep"
              => /\ n = 13 /\ k = 6
                 /\ IsSeizing(l, run[2], sender, token, user, y)
                 /\ IsSettlement(l, 7, run[2], sender, user, y)
<1>1. CASE n = 5 /\ k <= 2 /\ IsLiquidation(l, sender, token, user, y)
  <2>1. k = 0 \/ k = 1 \/ k = 2
    BY <1>1
  <2>2. /\ l[1].op = "moreThanZero" /\ l[2].op = "enter" /\ l[3].op = "seize"
    BY <1>1, LiquidatingOps
  <2>3. /\ l[k + 1].op = "seize" => k = 2
        /\ l[k + 1].op # "seize" => k + 1 <= 2
        /\ l[k + 1].op # "sweep"
    BY <2>1, <2>2
  <2>4. QED
    BY <1>1, <2>3 DEF IsLiquidating
<1>2. CASE /\ n = 13 /\ k \in 3 .. 6
           /\ IsSeizing(l, run[2], sender, token, user, y)
           /\ IsSettlement(l, 7, run[2], sender, user, y)
  <2>1. k = 3 \/ k = 4 \/ k = 5 \/ k = 6
    BY <1>2
  <2>2. /\ l[4].op = "eraseDeposit" /\ l[5].op = "transfer"
        /\ l[6].op = "transferReturned" /\ l[7].op = "sweep"
    BY <1>2, LiquidatingOps
  <2>3. /\ l[k + 1].op = "sweep" => k = 6
        /\ l[k + 1].op # "sweep" => k + 1 \in 3 .. 6
        /\ l[k + 1].op # "seize"
    BY <2>1, <2>2
  <2>4. goes[2] = run[2]
    BY <2>1 DEF Agrees
  <2>5. QED
    BY <1>2, <2>3, <2>4 DEF IsLiquidating
<1>3. CASE /\ n = 16 /\ k >= 7
           /\ IsSeizing(l, run[2], sender, token, user, y)
           /\ IsPayment(l, 7, user, Pool, token, run[6].deposited[user][token])
           /\ IsSettlement(l, 10, run[2], sender, user, y)
  <2>1. \/ k = 7 \/ k = 8 \/ k = 9 \/ k = 10 \/ k = 11 \/ k = 12 \/ k = 13
        \/ k = 14 \/ k = 15
    BY <1>3
  <2>2. l[8].op = "eraseDeposit" /\ l[9].op = "transfer" /\ l[10].op = "transferReturned"
    BY <1>3, LiquidatingOps
  <2>3. /\ l[11].op = "eraseDebt" /\ l[12].op = "pullDsc" /\ l[13].op = "burn"
        /\ l[14].op = "checkImproved" /\ l[15].op = "checkHealth" /\ l[16].op = "leave"
    BY <1>3, LiquidatingOps
  <2>4. l[k + 1].op # "sweep" /\ l[k + 1].op # "seize" /\ k + 1 >= 7
    BY <2>1, <2>2, <2>3
  <2>5. goes[2] = run[2] /\ goes[6] = run[6]
    BY <2>1 DEF Agrees
  <2>6. QED
    BY <1>3, <2>4, <2>5 DEF IsLiquidating
<1>4. QED
  BY <1>1, <1>2, <1>3 DEF IsLiquidating

\* A step that is not replaced leaves the list that of the same call.
LEMMA TransactionGoesOn ==
  ASSUME NEW sender, NEW l, NEW n \in Nat, NEW k \in 0 .. n - 1, NEW run,
         IsTransaction(sender, l, n, k, run), l[k + 1].op \notin {"seize", "sweep"},
         NEW goes, Agrees(goes, run, k)
  PROVE  IsTransaction(sender, l, n, k + 1, goes)
<1>1. ASSUME NEW t \in Token, NEW u \in User, NEW y \in DscAmounts,
             IsLiquidating(l, n, k, run, sender, t, u, y)
      PROVE  IsLiquidating(l, n, k + 1, goes, sender, t, u, y)
  BY <1>1, LiquidatingGoesOn
<1>2. QED
  BY <1>1 DEF IsTransaction

\* What the first step of what is left is, and what comes after it.
IsLeftAfter(rest, pre, todo, l, n, k) ==
  /\ k \in 0 .. n - 1 /\ todo[1] = l[k + 1]
  /\ Len(rest) = Len(pre) + (n - (k + 1))
  /\ \A i \in 1 .. Len(pre) : rest[i] = pre[i]
  /\ \A i \in 1 .. n - (k + 1) : rest[Len(pre) + i] = l[(k + 1) + i]

\* What is left of the list after its next step.
LEMMA LeftGoesOn ==
  ASSUME NEW n \in Nat, NEW k \in 0 .. n, NEW l, NEW todo, IsLeft(todo, l, n, k),
         NEW pre, NEW rest, Resumes(rest, pre, todo)
  PROVE  IsLeftAfter(rest, pre, todo, l, n, k)
<1>1. /\ Len(todo) \in Nat \ {0} /\ Len(pre) \in Nat /\ Len(todo) = n - k
      /\ Len(rest) = Len(pre) + Len(todo) - 1
  BY DEF IsLeft, Resumes
<1>2. k \in 0 .. n - 1 /\ 1 \in 1 .. n - k /\ todo[1] = l[k + 1]
  BY <1>1 DEF IsLeft
<1>3. Len(rest) = Len(pre) + (n - (k + 1))
  BY <1>1, <1>2
<1>4. ASSUME NEW i \in 1 .. n - (k + 1) PROVE rest[Len(pre) + i] = l[(k + 1) + i]
  <2>1. i + 1 \in 2 .. Len(todo) /\ i + 1 \in 1 .. n - k
    BY <1>1, <1>2
  <2>2. rest[Len(pre) + (i + 1) - 1] = todo[i + 1]
    BY <2>1 DEF Resumes
  <2>3. todo[i + 1] = l[k + (i + 1)]
    BY <2>1 DEF IsLeft
  <2>4. Len(pre) + (i + 1) - 1 = Len(pre) + i /\ k + (i + 1) = (k + 1) + i
    BY <1>1, <1>2
  <2>5. QED
    BY <2>2, <2>3, <2>4
<1>5. QED
  BY <1>2, <1>3, <1>4 DEF Resumes, IsLeftAfter

\* The history after a step that is not replaced.
LEMMA HistoryGoesOn ==
  ASSUME NEW c, NEW e, NEW s, NEW sender, NEW todo, History(c, e, s, sender, todo),
         NEW r \in Storage, Taken(c, s, r, todo[1]), todo[1].op \notin {"seize", "sweep"},
         NEW pre, Len(pre) = 0, NEW rest, Resumes(rest, pre, todo)
  PROVE  History(c, e, r, sender, rest)
<1>1. PICK n \in Nat : \E k \in 0 .. n : \E l, run :
        /\ IsLeft(todo, l, n, k)
        /\ IsRun(c, e, s, l, k, run)
        /\ IsTransaction(sender, l, n, k, run)
  BY DEF History
<1>0. PICK k \in 0 .. n : \E l, run :
        /\ IsLeft(todo, l, n, k)
        /\ IsRun(c, e, s, l, k, run)
        /\ IsTransaction(sender, l, n, k, run)
  BY <1>1
<1>2. PICK l, run :
        /\ IsLeft(todo, l, n, k)
        /\ IsRun(c, e, s, l, k, run)
        /\ IsTransaction(sender, l, n, k, run)
  BY <1>0
<1>3. /\ k \in 0 .. n - 1 /\ todo[1] = l[k + 1]
      /\ Len(rest) = Len(pre) + (n - (k + 1))
      /\ \A i \in 1 .. Len(pre) : rest[i] = pre[i]
      /\ \A i \in 1 .. n - (k + 1) : rest[Len(pre) + i] = l[(k + 1) + i]
  <2>1. IsLeftAfter(rest, pre, todo, l, n, k)
    BY <1>2, LeftGoesOn
  <2>2. QED
    BY <2>1 DEF IsLeftAfter
<1>4. k + 1 \in 0 .. n /\ k \in Nat
  BY <1>3
<1>5. IsLeft(rest, l, n, k + 1)
  BY <1>3, <1>4 DEF IsLeft
<1>6. PICK goes : IsRun(c, e, r, l, k + 1, goes) /\ Agrees(goes, run, k)
  <2>1. IsNextOf(c, e, s, r, l, l, k, run)
    BY <1>2, <1>3, <1>4 DEF IsNextOf
  <2>2. QED
    BY <2>1, RunGoesOn
<1>7. IsTransaction(sender, l, n, k + 1, goes)
  BY <1>2, <1>3, <1>6, TransactionGoesOn
<1>8. QED
  BY <1>4, <1>5, <1>6, <1>7 DEF History

\* seize: the list grows by the steps up to checkImproved.
LEMMA HistorySeizes ==
  ASSUME NEW c, NEW e, NEW s, NEW sender, NEW todo, History(c, e, s, sender, todo),
         NEW r \in Storage, Taken(c, s, r, todo[1]), todo[1].op = "seize",
         NEW pre, NEW rest, Resumes(rest, pre, todo),
         LET h == todo[1]
         IN  IsSeizure(pre, h.user, sender, h.token,
                       totalCollateralToRedeem(s.answer[h.token], h.amount),
                       h.amount, healthAt(s, h.user))
  PROVE  History(c, e, r, sender, rest)
<1>1. PICK n \in Nat : \E k \in 0 .. n : \E l, run :
        /\ IsLeft(todo, l, n, k)
        /\ IsRun(c, e, s, l, k, run)
        /\ IsTransaction(sender, l, n, k, run)
  BY DEF History
<1>0. PICK k \in 0 .. n : \E l, run :
        /\ IsLeft(todo, l, n, k)
        /\ IsRun(c, e, s, l, k, run)
        /\ IsTransaction(sender, l, n, k, run)
  BY <1>1
<1>2. PICK l, run :
        /\ IsLeft(todo, l, n, k)
        /\ IsRun(c, e, s, l, k, run)
        /\ IsTransaction(sender, l, n, k, run)
  BY <1>0
<1>3. /\ k \in 0 .. n - 1 /\ todo[1] = l[k + 1]
      /\ Len(rest) = Len(pre) + (n - (k + 1))
      /\ \A i \in 1 .. Len(pre) : rest[i] = pre[i]
      /\ \A i \in 1 .. n - (k + 1) : rest[Len(pre) + i] = l[(k + 1) + i]
  <2>1. IsLeftAfter(rest, pre, todo, l, n, k)
    BY <1>2, LeftGoesOn
  <2>2. QED
    BY <2>1 DEF IsLeftAfter
<1>4. PICK t \in Token, u \in User, y \in DscAmounts :
        IsLiquidating(l, n, k, run, sender, t, u, y)
  BY <1>2, <1>3, OnlyLiquidateGrows
<1>5. n = 5 /\ k = 2 /\ IsLiquidation(l, sender, t, u, y)
  <2>1. l[k + 1].op = "seize" /\ Agrees(run, run, k)
    BY <1>3 DEF Agrees
  <2>2. QED
    BY <1>3, <1>4, <2>1, LiquidatingGoesOn
<1>6. /\ todo[1] = Step("seize", u, t, y) /\ s = run[2]
      /\ l[1] = Step("moreThanZero", sender, t, y) /\ l[2].op = "enter"
      /\ l[3] = Step("seize", u, t, y)
      /\ l[4] = Step("checkHealth", sender, ZeroAddress, 0) /\ l[5].op = "leave"
  BY <1>2, <1>3, <1>5 DEF IsLiquidation, IsRun
<1> DEFINE x == totalCollateralToRedeem(s.answer[t], y)
<1>7. IsSeizure(pre, u, sender, t, x, y, healthAt(s, u))
  BY <1>6, StepFields
<1> HIDE DEF x
<1>8. /\ Len(rest) = 10
      /\ rest[1] = pre[1] /\ rest[2] = pre[2] /\ rest[3] = pre[3] /\ rest[4] = pre[4]
      /\ rest[5] = pre[5] /\ rest[6] = pre[6] /\ rest[7] = pre[7] /\ rest[8] = pre[8]
      /\ rest[9] = l[4] /\ rest[10] = l[5]
  <2>1. Len(pre) = 8
    BY <1>7 DEF IsSeizure
  <2>2. n - (k + 1) = 2
    BY <1>5
  <2>3. rest[8 + 1] = l[(2 + 1) + 1] /\ rest[8 + 2] = l[(2 + 1) + 2]
    BY <1>3, <1>5, <2>1, <2>2
  <2>4. QED
    BY <1>3, <2>1, <2>2, <2>3
<1> DEFINE m == [i \in 1 .. 13 |-> IF i <= 3 THEN l[i] ELSE rest[i - 3]]
<1>9. m[1] = l[1] /\ m[2] = l[2] /\ m[3] = l[3] /\ \A i \in 1 .. 10 : m[3 + i] = rest[i]
  OBVIOUS
<1> HIDE DEF m
<1>10. /\ m[4] = rest[1] /\ m[5] = rest[2] /\ m[6] = rest[3] /\ m[7] = rest[4]
       /\ m[8] = rest[5] /\ m[9] = rest[6] /\ m[10] = rest[7] /\ m[11] = rest[8]
       /\ m[12] = rest[9] /\ m[13] = rest[10]
  BY <1>9
<1>11. IsLeft(rest, m, 13, 3)
  BY <1>8, <1>9 DEF IsLeft
<1>12. \A i \in 1 .. 2 + 1 : m[i] = l[i]
  BY <1>9
<1>13. PICK goes : IsRun(c, e, r, m, 2 + 1, goes) /\ Agrees(goes, run, 2)
  <2>1. IsNextOf(c, e, s, r, l, m, 2, run)
    BY <1>2, <1>3, <1>5, <1>12 DEF IsNextOf
  <2>2. QED
    BY <2>1, RunGoesOn
<1>14. goes[2] = s
  BY <1>6, <1>13 DEF Agrees
<1>15. IsSeizing(m, s, sender, t, u, y)
  <2>1. IsPayment(m, 3, u, sender, t, x) /\ m[7] = Step("sweep", u, t, 0)
    BY <1>7, <1>8, <1>10 DEF IsSeizure, IsPayment
  <2>2. QED
    BY <1>6, <1>9, <2>1 DEF IsSeizing, x
<1>16. IsSettlement(m, 7, s, sender, u, y)
  BY <1>6, <1>7, <1>8, <1>10 DEF IsSeizure, IsSettlement
<1>17. IsLiquidating(m, 13, 3, goes, sender, t, u, y)
  BY <1>14, <1>15, <1>16 DEF IsLiquidating
<1>18. IsTransaction(sender, m, 13, 3, goes)
  BY <1>17 DEF IsTransaction
<1>19. 13 \in Nat /\ 3 \in 0 .. 13 /\ IsRun(c, e, r, m, 3, goes)
  BY <1>13
<1>20. QED
  BY <1>11, <1>18, <1>19 DEF History

\* sweep: the list grows by the payment to the pool.
LEMMA HistorySweeps ==
  ASSUME NEW c, NEW e, NEW s, NEW sender, NEW todo, History(c, e, s, sender, todo),
         NEW r \in Storage, Taken(c, s, r, todo[1]), todo[1].op = "sweep",
         NEW pre, NEW rest, Resumes(rest, pre, todo), Len(pre) = 3,
         LET h == todo[1]
         IN  IsPayment(pre, 0, h.user, Pool, h.token, s.deposited[h.user][h.token])
  PROVE  History(c, e, r, sender, rest)
<1>1. PICK n \in Nat : \E k \in 0 .. n : \E l, run :
        /\ IsLeft(todo, l, n, k)
        /\ IsRun(c, e, s, l, k, run)
        /\ IsTransaction(sender, l, n, k, run)
  BY DEF History
<1>0. PICK k \in 0 .. n : \E l, run :
        /\ IsLeft(todo, l, n, k)
        /\ IsRun(c, e, s, l, k, run)
        /\ IsTransaction(sender, l, n, k, run)
  BY <1>1
<1>2. PICK l, run :
        /\ IsLeft(todo, l, n, k)
        /\ IsRun(c, e, s, l, k, run)
        /\ IsTransaction(sender, l, n, k, run)
  BY <1>0
<1>3. /\ k \in 0 .. n - 1 /\ todo[1] = l[k + 1]
      /\ Len(rest) = Len(pre) + (n - (k + 1))
      /\ \A i \in 1 .. Len(pre) : rest[i] = pre[i]
      /\ \A i \in 1 .. n - (k + 1) : rest[Len(pre) + i] = l[(k + 1) + i]
  <2>1. IsLeftAfter(rest, pre, todo, l, n, k)
    BY <1>2, LeftGoesOn
  <2>2. QED
    BY <2>1 DEF IsLeftAfter
<1>4. PICK t \in Token, u \in User, y \in DscAmounts :
        IsLiquidating(l, n, k, run, sender, t, u, y)
  BY <1>2, <1>3, OnlyLiquidateGrows
<1>5. /\ n = 13 /\ k = 6
      /\ IsSeizing(l, run[2], sender, t, u, y)
      /\ IsSettlement(l, 7, run[2], sender, u, y)
  <2>1. l[k + 1].op = "sweep" /\ Agrees(run, run, k)
    BY <1>3 DEF Agrees
  <2>2. QED
    BY <1>3, <1>4, <2>1, LiquidatingGoesOn
<1>6. todo[1] = Step("sweep", u, t, 0) /\ s = run[6]
  BY <1>2, <1>3, <1>5 DEF IsSeizing, IsRun
<1> DEFINE x == s.deposited[u][t]
<1>7. IsPayment(pre, 0, u, Pool, t, x)
  BY <1>6, StepFields
<1> HIDE DEF x
<1>8. /\ Len(rest) = 9
      /\ rest[1] = pre[1] /\ rest[2] = pre[2] /\ rest[3] = pre[3]
      /\ rest[4] = l[8] /\ rest[5] = l[9] /\ rest[6] = l[10] /\ rest[7] = l[11]
      /\ rest[8] = l[12] /\ rest[9] = l[13]
  <2>1. n - (k + 1) = 6
    BY <1>5
  <2>2. /\ rest[3 + 1] = l[(6 + 1) + 1] /\ rest[3 + 2] = l[(6 + 1) + 2]
        /\ rest[3 + 3] = l[(6 + 1) + 3] /\ rest[3 + 4] = l[(6 + 1) + 4]
        /\ rest[3 + 5] = l[(6 + 1) + 5] /\ rest[3 + 6] = l[(6 + 1) + 6]
    BY <1>3, <1>5, <2>1
  <2>3. QED
    BY <1>3, <2>1, <2>2
<1> DEFINE m == [i \in 1 .. 16 |-> IF i <= 7 THEN l[i] ELSE rest[i - 7]]
<1>9. /\ m[1] = l[1] /\ m[2] = l[2] /\ m[3] = l[3] /\ m[4] = l[4] /\ m[5] = l[5]
      /\ m[6] = l[6] /\ m[7] = l[7] /\ \A i \in 1 .. 9 : m[7 + i] = rest[i]
  OBVIOUS
<1> HIDE DEF m
<1>10. /\ m[8] = rest[1] /\ m[9] = rest[2] /\ m[10] = rest[3] /\ m[11] = rest[4]
       /\ m[12] = rest[5] /\ m[13] = rest[6] /\ m[14] = rest[7] /\ m[15] = rest[8]
       /\ m[16] = rest[9]
  BY <1>9
<1>11. IsLeft(rest, m, 16, 7)
  BY <1>8, <1>9 DEF IsLeft
<1>12. \A i \in 1 .. 6 + 1 : m[i] = l[i]
  BY <1>9
<1>13. PICK goes : IsRun(c, e, r, m, 6 + 1, goes) /\ Agrees(goes, run, 6)
  <2>1. IsNextOf(c, e, s, r, l, m, 6, run)
    BY <1>2, <1>3, <1>5, <1>12 DEF IsNextOf
  <2>2. QED
    BY <2>1, RunGoesOn
<1>14. goes[2] = run[2] /\ goes[6] = s
  BY <1>6, <1>13 DEF Agrees
<1>15. IsSeizing(m, goes[2], sender, t, u, y)
  BY <1>5, <1>9, <1>14 DEF IsSeizing, IsPayment
<1>16. IsPayment(m, 7, u, Pool, t, x)
  BY <1>7, <1>8, <1>10 DEF IsPayment
<1>17. IsSettlement(m, 10, goes[2], sender, u, y)
  BY <1>5, <1>8, <1>10, <1>14 DEF IsSettlement
<1>18. IsLiquidating(m, 16, 7, goes, sender, t, u, y)
  BY <1>14, <1>15, <1>16, <1>17 DEF IsLiquidating, x
<1>19. IsTransaction(sender, m, 16, 7, goes)
  BY <1>18 DEF IsTransaction
<1>20. 16 \in Nat /\ 7 \in 0 .. 16 /\ IsRun(c, e, r, m, 7, goes)
  BY <1>13
<1>21. QED
  BY <1>11, <1>19, <1>20 DEF History
-----------------------------------------------------------------------------
(* The histories of the invariant *)

\* The storage has its types before and after a step.
LEMMA StorageInStorage ==
  /\ CallsIInv => storage \in Storage
  /\ CallsIInv' => storage' \in Storage
<1>1. CallsIInv => storage \in Storage
  BY DEF CallsIInv, AtRest, Running, Nested, TablesOK
<1>2. (CallsIInv => storage \in Storage)'
  BY <1>1, PTL
<1>3. Storage' = Storage
  BY DEF Storage
<1>4. QED
  BY <1>1, <1>2, <1>3

\* The only call there is.
LEMMA OneCall ==
  ASSUME StepsIInv, Len(frames) \in 1 .. 2
  PROVE  /\ Len(frames) = 1 /\ faults = {}
         /\ History(context, frames[1].entry, storage, frames[1].sender, frames[1].todo)
<1>1. Len(frames) <= 1
  BY Zenon DEF StepsIInv
<1>2. Len(frames) = 1
  BY <1>1
<1>3. QED
  BY <1>2, Zenon DEF StepsIInv

\* A step of it.
LEMMA StepsGoOn ==
  ASSUME CallsIInv, StepsIInv, NEW op, AtStep(op), NEW pre \in Seq(TodoStep), Continue(pre),
         LET x == frames[1]
         IN  History(context, x.entry, storage', x.sender, pre \o Tail(x.todo))
  PROVE  StepsIInv'
<1> DEFINE rest == pre \o Tail(frames[1].todo)
<1>1. /\ frames \in Seq(Frame) /\ frames[1] \in Frame /\ Len(frames) \in 1 .. 2
      /\ frames[1].todo # <<>>
  BY NextStep
<1>2. Len(frames) = 1 /\ faults = {}
  BY <1>1, OneCall
<1>3. /\ frames' = [frames EXCEPT ![1].todo = pre \o Tail(@)]
      /\ context' = context /\ faults' = faults
  BY DEF Continue, outside, context
<1>4. /\ frames' \in Seq(Frame) /\ Len(frames') = Len(frames)
      /\ frames'[1].todo = rest /\ frames'[1].entry = frames[1].entry
  BY ZenonT(60), <1>1, <1>3, FramesGoOn
<1>5. frames'[1].sender = frames[1].sender
  <2>1. 1 \in DOMAIN frames
    BY <1>1
  <2>2. frames'[1] = [frames[1] EXCEPT !.todo = pre \o Tail(@)]
    BY <1>3, <2>1
  <2>3. QED
    BY <1>1, <2>2 DEF Frame
<1>6. History(context, frames[1].entry, storage', frames[1].sender, rest)
  OBVIOUS
<1> HIDE DEF rest
<1>7. Len(frames') = 1 /\ faults' = {}
  BY <1>2, <1>3, <1>4
<1>8. History(context', frames'[1].entry, storage', frames'[1].sender, frames'[1].todo)
  BY <1>3, <1>4, <1>5, <1>6
<1>9. QED
  BY <1>7, <1>8 DEF StepsIInv

\* What the steps of the transaction have in common.
LEMMA StepsNow ==
  ASSUME CallsIInv, CallsIInv', StepsIInv, NEW op, AtStep(op)
  PROVE  /\ storage' \in Storage
         /\ frames[1].todo \in Seq(TodoStep) /\ frames[1].todo # <<>>
         /\ step = frames[1].todo[1] /\ step \in TodoStep /\ step.op = op
         /\ frames[1].sender \in User
         /\ History(context, frames[1].entry, storage, frames[1].sender, frames[1].todo)
<1>1. /\ Len(frames) \in 1 .. 2 /\ frames[1].todo \in Seq(TodoStep) /\ frames[1].todo # <<>>
      /\ step = frames[1].todo[1] /\ step \in TodoStep /\ step.op = op
      /\ frames[1].sender \in User
  BY NextStep
<1>2. storage' \in Storage
  BY StorageInStorage
<1>3. History(context, frames[1].entry, storage, frames[1].sender, frames[1].todo)
  BY <1>1, OneCall
<1>4. QED
  BY <1>1, <1>2, <1>3

\* Every step but the two that are replaced keeps the invariant.
LEMMA PlainStepsGoOn ==
  ASSUME CallsIInv, CallsIInv', StepsIInv, NEW op, AtStep(op), op \notin {"seize", "sweep"},
         Taken(context, storage, storage', step), Continue(<<>>)
  PROVE  StepsIInv'
<1> DEFINE x == frames[1]
           rest == <<>> \o Tail(x.todo)
<1>1. /\ storage' \in Storage /\ x.todo \in Seq(TodoStep) /\ x.todo # <<>>
      /\ step = x.todo[1] /\ step.op = op
      /\ History(context, x.entry, storage, x.sender, x.todo)
  BY StepsNow
<1>2. <<>> \in Seq(TodoStep) /\ Len(<<>>) = 0
  OBVIOUS
<1>3. Resumes(rest, <<>>, x.todo)
  BY <1>1, <1>2, RestResumes
<1> HIDE DEF x, rest
<1>4. Taken(context, storage, storage', x.todo[1]) /\ x.todo[1].op \notin {"seize", "sweep"}
  BY <1>1
<1>5. History(context, x.entry, storage', x.sender, rest)
  BY <1>1, <1>2, <1>3, <1>4, HistoryGoesOn
<1>6. QED
  BY <1>2, <1>5, StepsGoOn DEF x, rest

\* A health factor is a natural number.
LEMMA HealthType ==
  ASSUME NEW s \in Storage, NEW u \in User
  PROVE  healthAt(s, u) \in Nat
<1> DEFINE value == valueOf(s.answer, s.deposited[u])
<1>1. s.minted[u] \in Nat
  BY StorageTypes
<1>2. value \in Nat
  <2>1. s.answer \in [Feed -> Int] /\ s.deposited[u] \in [Token -> Word]
    BY DEF Storage
  <2>2. s.deposited[u] \in [Token -> Nat]
    BY <2>1, WordsAreNaturals
  <2>3. QED
    BY <2>1, <2>2, ValuesType
<1>3. healthAt(s, u) = healthOf(s.minted[u], value)
  BY DEF healthAt
<1> HIDE DEF value
<1>4. CASE s.minted[u] # 0
  BY <1>1, <1>2, <1>3, <1>4, HealthOfAccount
<1>5. CASE s.minted[u] = 0
  BY <1>3, <1>5, MaxUintAssumption DEF healthOf
<1>6. QED
  BY <1>4, <1>5

\* seize keeps the invariant: the list of liquidate grows from 5 steps to 13.
LEMMA SeizeGoesOn ==
  ASSUME CallsIInv, CallsIInv', StepsIInv, Seize
  PROVE  StepsIInv'
<1> DEFINE x == frames[1]
           seized == totalCollateralToRedeem(storage.answer[step.token], step.amount)
           hf == healthAt(storage, step.user)
           pre == redeemCollateralSteps(step.user, x.sender, step.token, seized)
                    \o Steps(<<"sweep">>, step.user, step.token, 0)
                    \o burnDscSteps(step.user, x.sender, step.amount)
                    \o DscSteps(<<"checkImproved">>, step.user, hf)
           rest == pre \o Tail(x.todo)
<1>1. AtStep("seize")
  BY DEF Seize
<1>2. Taken(context, storage, storage', step) /\ step.op = "seize" /\ Continue(pre)
  BY SeizeIsTaken
<1>3. /\ storage' \in Storage /\ x.todo \in Seq(TodoStep) /\ x.todo # <<>>
      /\ step = x.todo[1] /\ step \in TodoStep /\ x.sender \in User
      /\ History(context, x.entry, storage, x.sender, x.todo)
  BY <1>1, StepsNow
<1>4. step.user \in User /\ step.token \in Token /\ step.amount \in Nat
  BY <1>2, <1>3 DEF TodoStep, CollateralOps
<1>5. seized \in Nat /\ hf \in Nat
  <2>1. totalCollateralToRedeemReturns(storage.answer[step.token], step.amount)
    BY <1>2 DEF Taken, Asked
  <2>2. seized \in Nat
    BY <2>1, WordsAreNaturals DEF totalCollateralToRedeemReturns, Fits
  <2>3. QED
    BY <1>4, <2>2, HealthType, StorageInStorage
<1>6. IsSeizure(pre, step.user, x.sender, step.token, seized, step.amount, hf)
  <2> HIDE DEF seized, hf, x
  <2>1. QED
    BY <1>3, <1>4, <1>5, SeizureSteps
<1>7. pre \in Seq(TodoStep)
  BY <1>6 DEF IsSeizure
<1> HIDE DEF pre
<1>8. Resumes(rest, pre, x.todo)
  BY <1>3, <1>7, RestResumes
<1> HIDE DEF rest
<1>9. Taken(context, storage, storage', x.todo[1]) /\ x.todo[1].op = "seize"
  BY <1>2, <1>3
<1>10. LET h == x.todo[1]
       IN  IsSeizure(pre, h.user, x.sender, h.token,
                     totalCollateralToRedeem(storage.answer[h.token], h.amount),
                     h.amount, healthAt(storage, h.user))
  BY <1>3, <1>6
<1> HIDE DEF x, seized, hf
<1>11. History(context, x.entry, storage', x.sender, rest)
  BY <1>3, <1>8, <1>9, <1>10, HistorySeizes
<1>12. QED
  BY <1>1, <1>2, <1>7, <1>11, StepsGoOn DEF x, rest

\* sweep keeps the invariant: the list grows to 16 steps.
LEMMA SweepGoesOn ==
  ASSUME CallsIInv, CallsIInv', StepsIInv, Sweep
  PROVE  StepsIInv'
<1> DEFINE x == frames[1]
           left == storage.deposited[step.user][step.token]
           pre == redeemCollateralSteps(step.user, Pool, step.token, left)
           rest == pre \o Tail(x.todo)
<1>1. AtStep("sweep")
  BY DEF Sweep
<1>2. Taken(context, storage, storage', step) /\ step.op = "sweep" /\ Continue(pre)
  BY SweepIsTaken
<1>3. /\ storage' \in Storage /\ x.todo \in Seq(TodoStep) /\ x.todo # <<>>
      /\ step = x.todo[1] /\ step \in TodoStep
      /\ History(context, x.entry, storage, x.sender, x.todo)
  BY <1>1, StepsNow
<1>4. step.user \in User /\ step.token \in Token
  BY <1>2, <1>3 DEF TodoStep, CollateralOps
<1>5. left \in Nat
  <2>1. storage \in Storage
    BY StorageInStorage
  <2>2. QED
    BY <1>4, <2>1, StorageTypes
<1>6. /\ pre \in Seq(TodoStep) /\ Len(pre) = 3
      /\ pre[1] = Step("eraseDeposit", step.user, step.token, left)
      /\ pre[2] = Step("transfer", Pool, step.token, left)
      /\ pre[3] = Step("transferReturned", Pool, step.token, left)
  <2> HIDE DEF left
  <2>1. Pool \in Holder \ {Engine}
    BY Accounts
  <2>2. QED
    BY <1>4, <1>5, <2>1, RedeemSteps
<1>7. IsPayment(pre, 0, step.user, Pool, step.token, left)
  BY <1>6 DEF IsPayment
<1> HIDE DEF pre
<1>8. Resumes(rest, pre, x.todo)
  BY <1>3, <1>6, RestResumes
<1> HIDE DEF rest
<1>9. Taken(context, storage, storage', x.todo[1]) /\ x.todo[1].op = "sweep"
  BY <1>2, <1>3
<1>10. LET h == x.todo[1]
       IN  IsPayment(pre, 0, h.user, Pool, h.token, storage.deposited[h.user][h.token])
  BY <1>3, <1>7
<1> HIDE DEF x, left
<1>11. History(context, x.entry, storage', x.sender, rest)
  BY <1>3, <1>6, <1>8, <1>9, <1>10, HistorySweeps
<1>12. QED
  BY <1>1, <1>2, <1>6, <1>11, StepsGoOn DEF x, rest

\* The history of a call that has not taken a step.
LEMMA HistoryBegins ==
  ASSUME NEW sender \in User, NEW l \in CallsOf(sender), NEW c, NEW e \in Storage
  PROVE  History(c, e, e, sender, l)
<1> DEFINE run == [i \in {0} |-> e]
           n == Len(l)
<1>1. n \in Nat
  <2>1. l \in Seq(TodoStep)
    BY CallsAreGood DEF IsCall
  <2>2. QED
    BY <2>1
<1>2. run[0] = e
  OBVIOUS
<1> HIDE DEF run
<1>3. IsTransaction(sender, l, n, 0, run)
  BY CallsAreTransactions
<1> HIDE DEF n
<1>4. IsLeft(l, l, n, 0)
  <2>1. Len(l) = n
    BY DEF n
  <2>2. n - 0 = n /\ \A i \in 1 .. n : 0 + i = i
    BY <1>1
  <2>3. QED
    BY <2>1, <2>2 DEF IsLeft
<1>5. IsRun(c, e, e, l, 0, run)
  <2>1. 0 .. 0 = {0} /\ 1 .. 0 = {}
    OBVIOUS
  <2>2. QED
    BY <1>2, <2>1 DEF IsRun
<1>6. 0 \in 0 .. n
  BY <1>1
<1>7. QED
  BY <1>1, <1>3, <1>4, <1>5, <1>6 DEF History

\* A call begins.
LEMMA BeginStepsGoOn ==
  ASSUME CallsIInv, StepsIInv, NEW sender \in User, Begin(sender)
  PROVE  StepsIInv'
<1>1. frames = <<>> /\ UNCHANGED <<vars, _status, faults>>
  BY DEF Begin
<1>2. PICK l \in CallsOf(sender) :
        frames' = <<[sender |-> sender, todo |-> l, entry |-> storage]>> \o frames
  BY DEF Begin, Call
<1>3. Len(frames) = 0 /\ storage \in Storage /\ frames \in Seq(Frame)
  BY <1>1, StorageInStorage DEF CallsIInv
<1> DEFINE x == [sender |-> sender, todo |-> l, entry |-> storage]
<1>4. x \in Frame /\ x.todo = l /\ x.entry = storage /\ x.sender = sender
  BY <1>3, CallFrame
<1>5. frames' = <<x>> \o frames
  BY <1>2
<1> HIDE DEF x
<1>6. Len(frames') = 1 /\ frames'[1] = x
  BY <1>3, <1>4, <1>5, FrameOnTop
<1>7. storage' = storage /\ context' = context /\ faults' = faults
  BY <1>1 DEF storage, context, vars, engineVars, collateralVars, dscLedger, dscVars, oracleVars
<1>8. History(context, storage, storage, sender, l)
  BY <1>3, HistoryBegins
<1>9. faults = {}
  BY Zenon DEF StepsIInv
<1>10. History(context', frames'[1].entry, storage', frames'[1].sender, frames'[1].todo)
  BY <1>4, <1>6, <1>7, <1>8
<1>11. QED
  BY <1>6, <1>7, <1>9, <1>10 DEF StepsIInv

\* When no call goes on there is nothing to tell.
LEMMA NoCallIsLeft ==
  ASSUME faults' = {}, Len(frames') = 0
  PROVE  StepsIInv'
BY DEF StepsIInv

\* A call ends, or there is none.
LEMMA EndStepsGoOn ==
  ASSUME CallsIInv, CallsIInv', StepsIInv, Return \/ Revert \/ Between
  PROVE  StepsIInv'
<1>1. faults' = {}
  <2>1. faults = {}
    BY Zenon DEF StepsIInv
  <2>2. faults' = faults
    BY DEF Return, Revert, Between, outside
  <2>3. QED
    BY <2>1, <2>2
<1>2. frames \in Seq(Frame) /\ Len(frames) \in 0 .. 2
  BY DEF CallsIInv
<1>3. Len(frames) \in 0 .. 1
  <2>1. Len(frames) <= 1
    BY Zenon DEF StepsIInv
  <2>2. QED
    BY <1>2, <2>1
<1>4. Len(frames') = 0
  <2>1. CASE Return
    <3>1. frames # <<>> /\ frames' = Tail(frames)
      BY <2>1 DEF Return
    <3>2. QED
      BY <1>2, <1>3, <3>1
  <2>2. CASE Revert
    <3>1. PICK failed \in DOMAIN frames : frames' = SubSeq(frames, failed + 1, Len(frames))
      BY <2>2 DEF Revert
    <3>2. failed = 1 /\ Len(frames) = 1
      BY <1>2, <1>3, <3>1
    <3>3. frames' = SubSeq(frames, 2, 1)
      BY <3>1, <3>2
    <3>4. QED
      BY <1>2, <3>3
  <2>3. CASE Between
    BY <2>3 DEF Between
  <2>4. QED
    BY <2>1, <2>2, <2>3
<1>5. QED
  BY <1>1, <1>4, NoCallIsLeft

\* Before the first call there is no history.
LEMMA CallsInitSteps == ASSUME TokensBehave, CallsInit PROVE StepsIInv
BY DEF TokensBehave, CallsInit, StepsIInv

\* A step that changes nothing.
LEMMA StepsStutter == ASSUME StepsIInv, UNCHANGED callsVars PROVE StepsIInv'
<1>1. frames' = frames /\ storage' = storage /\ context' = context /\ faults' = faults
  BY DEF callsVars, storage, context, vars, engineVars, collateralVars, dscLedger, dscVars,
         oracleVars
<1>2. QED
  BY <1>1 DEF StepsIInv

\* The invariant is inductive; it rests on the one of DSCEngineCallsProofs.
LEMMA CallsNextSteps ==
  ASSUME TokensBehave, CallsIInv, CallsIInv', StepsIInv, [CallsNext]_callsVars
  PROVE  StepsIInv'
<1>1. CASE UNCHANGED callsVars
  BY <1>1, StepsStutter
<1>2. CASE Check
  <2>1. PICK op : AtStep(op) /\ op \notin {"seize", "sweep"}
    BY <1>2 DEF Check, passes, modifierPasses, succeeds
  <2>2. QED
    BY <1>2, <2>1, CheckIsTaken, PlainStepsGoOn
<1>3. CASE Enter \/ Leave
  <2>1. PICK op : AtStep(op) /\ op \notin {"seize", "sweep"}
    BY <1>3 DEF Enter, Leave
  <2>2. QED
    BY <1>3, <2>1, GuardIsTaken, PlainStepsGoOn
<1>4. CASE ChangeDeposit
  <2>1. PICK op : AtStep(op) /\ op \notin {"seize", "sweep"}
    BY <1>4 DEF ChangeDeposit
  <2>2. QED
    BY <1>4, <2>1, DepositIsTaken, PlainStepsGoOn
<1>5. CASE ChangeDebt
  <2>1. PICK op : AtStep(op) /\ op \notin {"seize", "sweep"}
    BY <1>5 DEF ChangeDebt
  <2>2. QED
    BY <1>5, <2>1, DebtIsTaken, PlainStepsGoOn
<1>6. CASE Seize
  BY <1>6, SeizeGoesOn
<1>7. CASE Sweep
  BY <1>7, SweepGoesOn
<1>8. faults = {}
  BY Zenon DEF StepsIInv
<1>9. CASE PullCollateral \/ PushCollateral
  <2>1. PICK op : AtStep(op) /\ op \notin {"seize", "sweep"}
    BY <1>9 DEF PullCollateral, PushCollateral
  <2>2. QED
    BY <1>8, <1>9, <2>1, CollateralIsTaken, PlainStepsGoOn
<1>10. CASE MintTokens \/ PullDsc \/ BurnTokens
  <2>1. PICK op : AtStep(op) /\ op \notin {"seize", "sweep"}
    BY <1>10 DEF MintTokens, PullDsc, BurnTokens
  <2>2. QED
    BY <1>8, <1>10, <2>1, DscIsTaken, PlainStepsGoOn
<1>11. CASE Return \/ Revert \/ Between
  BY <1>11, EndStepsGoOn
<1>12. CASE \E sender \in User : Begin(sender)
  BY <1>12, BeginStepsGoOn
<1>13. CASE \E sender \in User : CallBack(sender)
  BY <1>13 DEF CallBack, TokensBehave
<1>14. QED
  BY <1>1, <1>2, <1>3, <1>4, <1>5, <1>6, <1>7, <1>9, <1>10, <1>11, <1>12, <1>13 DEF CallsNext

\* It always holds.
LEMMA StepsInvariance == TokensBehave => (CallsSpec => []StepsIInv)
<1>1. CASE ~ TokensBehave
  BY <1>1
<1>2. CASE TokensBehave
  <2>1. CallsInit => StepsIInv
    BY <1>2, CallsInitSteps
  <2>2. CallsIInv /\ CallsIInv' /\ StepsIInv /\ [CallsNext]_callsVars => StepsIInv'
    BY <1>2, CallsNextSteps
  <2>3. QED
    BY <2>1, <2>2, CallsInvariance, PTL DEF CallsSpec
<1>3. QED
  BY <1>1, <1>2

-----------------------------------------------------------------------------
(* What the steps of a call amount to *)

SameDsc(s, r) == r.dsc[1] = s.dsc[1] /\ r.dsc[2] = s.dsc[2] /\ r.dsc[3] = s.dsc[3]

SameTokens(s, r) == r.balances = s.balances /\ r.allowances = s.allowances

SameBooks(s, r) ==
  r.deposited = s.deposited /\ r.minted = s.minted /\ r.answer = s.answer

Same(s, r) == SameBooks(s, r) /\ SameTokens(s, r) /\ SameDsc(s, r)

\* Each step for itself.
LEMMA StepsAsk ==
  ASSUME NEW c, NEW s, NEW r, NEW u, NEW t, NEW x
  PROVE  /\ Taken(c, s, r, Step("moreThanZero", u, t, x)) => x > 0 /\ Same(s, r)
         /\ Taken(c, s, r, Step("isAllowedToken", u, t, x)) => t \in Collateral /\ Same(s, r)
         /\ Taken(c, s, r, Step("checkHealth", u, t, x)) => fineAt(c, s, u) /\ Same(s, r)
         /\ Taken(c, s, r, Step("checkImproved", u, t, x)) =>
              returnsAt(c, s, u) /\ healthAt(s, u) > x /\ Same(s, r)
         /\ Taken(c, s, r, Step("seize", u, t, x)) =>
              /\ returnsAt(c, s, u) /\ healthAt(s, u) < MIN_HEALTH_FACTOR /\ t \in Collateral
              /\ totalCollateralToRedeemReturns(s.answer[t], x) /\ Same(s, r)
         /\ \A h : h.op \in {"enter", "leave"} /\ Taken(c, s, r, h) => Same(s, r)
         /\ \A op \in {"transferFromReturned", "transferReturned", "mintReturned", "sweep"} :
              Taken(c, s, r, Step(op, u, t, x)) => Same(s, r)
<1>1. ASSUME NEW h, Taken(c, s, r, h),
             h.op \in {"moreThanZero", "isAllowedToken", "checkHealth", "checkImproved",
                       "seize", "enter", "leave", "transferFromReturned",
                       "transferReturned", "mintReturned", "sweep"}
      PROVE  Same(s, r)
  BY <1>1 DEF Taken, Changed, Same, SameBooks, SameTokens, SameDsc
<1> DEFINE h(op) == Step(op, u, t, x)
<1>2. \A op : h(op).op = op /\ h(op).user = u /\ h(op).token = t /\ h(op).amount = x
  BY StepFields
<1> HIDE DEF h
<1>3. ASSUME Taken(c, s, r, h("moreThanZero")) PROVE x > 0 /\ Same(s, r)
  BY <1>1, <1>2, <1>3 DEF Taken, Asked
<1>4. ASSUME Taken(c, s, r, h("isAllowedToken")) PROVE t \in Collateral /\ Same(s, r)
  BY <1>1, <1>2, <1>4 DEF Taken, Asked
<1>5. ASSUME Taken(c, s, r, h("checkHealth")) PROVE fineAt(c, s, u) /\ Same(s, r)
  BY <1>1, <1>2, <1>5 DEF Taken, Asked
<1>6. ASSUME Taken(c, s, r, h("checkImproved"))
      PROVE  returnsAt(c, s, u) /\ healthAt(s, u) > x /\ Same(s, r)
  BY <1>1, <1>2, <1>6 DEF Taken, Asked
<1>7. ASSUME Taken(c, s, r, h("seize"))
      PROVE  /\ returnsAt(c, s, u) /\ healthAt(s, u) < MIN_HEALTH_FACTOR /\ t \in Collateral
             /\ totalCollateralToRedeemReturns(s.answer[t], x) /\ Same(s, r)
  BY <1>1, <1>2, <1>7 DEF Taken, Asked
<1>8. \A g : g.op \in {"enter", "leave"} /\ Taken(c, s, r, g) => Same(s, r)
  BY <1>1
<1>9. \A op \in {"transferFromReturned", "transferReturned", "mintReturned", "sweep"} :
        Taken(c, s, r, h(op)) => Same(s, r)
  BY <1>1, <1>2
<1>10. QED
  BY <1>3, <1>4, <1>5, <1>6, <1>7, <1>8, <1>9 DEF h

\* What each step that changes a table asks for and does, step by step.
LEMMA StepsChange ==
  ASSUME NEW c, NEW s, NEW r, NEW u, NEW t, NEW x
  PROVE  /\ Taken(c, s, r, Step("recordDeposit", u, t, x)) =>
              /\ Fits(s.deposited[u][t] + x)
              /\ r.deposited = [s.deposited EXCEPT ![u][t] = @ + x]
              /\ r.minted = s.minted /\ r.answer = s.answer
              /\ SameTokens(s, r) /\ SameDsc(s, r)
         /\ Taken(c, s, r, Step("eraseDeposit", u, t, x)) =>
              /\ Fits(s.deposited[u][t] - x)
              /\ r.deposited = [s.deposited EXCEPT ![u][t] = @ - x]
              /\ r.minted = s.minted /\ r.answer = s.answer
              /\ SameTokens(s, r) /\ SameDsc(s, r)
         /\ Taken(c, s, r, Step("recordDebt", u, t, x)) =>
              /\ Fits(s.minted[u] + x)
              /\ r.minted = [s.minted EXCEPT ![u] = @ + x]
              /\ r.deposited = s.deposited /\ r.answer = s.answer
              /\ SameTokens(s, r) /\ SameDsc(s, r)
         /\ Taken(c, s, r, Step("eraseDebt", u, t, x)) =>
              /\ Fits(s.minted[u] - x)
              /\ r.minted = [s.minted EXCEPT ![u] = @ - x]
              /\ r.deposited = s.deposited /\ r.answer = s.answer
              /\ SameTokens(s, r) /\ SameDsc(s, r)
         /\ Taken(c, s, r, Step("transferFrom", u, t, x)) =>
              /\ CanSpend(s.allowances[t], u, Engine, x) /\ CanTransfer(s.balances[t], u, x)
              /\ r.allowances = [s.allowances EXCEPT ![t] = Spent(@, u, Engine, x)]
              /\ r.balances = [s.balances EXCEPT ![t] = Transferred(@, u, Engine, x)]
              /\ SameBooks(s, r) /\ SameDsc(s, r)
         /\ Taken(c, s, r, Step("transfer", u, t, x)) =>
              /\ CanTransfer(s.balances[t], Engine, x)
              /\ r.balances = [s.balances EXCEPT ![t] = Transferred(@, Engine, u, x)]
              /\ r.allowances = s.allowances /\ SameBooks(s, r) /\ SameDsc(s, r)
         /\ Taken(c, s, r, Step("mint", u, t, x)) =>
              /\ Fits(s.dsc[3] + x) /\ r.dsc[3] = s.dsc[3] + x
              /\ r.dsc[1] = Credited(s.dsc[1], u, x) /\ r.dsc[2] = s.dsc[2]
              /\ SameBooks(s, r) /\ SameTokens(s, r)
         /\ Taken(c, s, r, Step("pullDsc", u, t, x)) =>
              /\ CanSpend(s.dsc[2], u, Engine, x) /\ CanTransfer(s.dsc[1], u, x)
              /\ r.dsc[2] = Spent(s.dsc[2], u, Engine, x)
              /\ r.dsc[1] = Transferred(s.dsc[1], u, Engine, x) /\ r.dsc[3] = s.dsc[3]
              /\ SameBooks(s, r) /\ SameTokens(s, r)
         /\ Taken(c, s, r, Step("burn", u, t, x)) =>
              /\ r.dsc[1] = Debited(s.dsc[1], Engine, x) /\ r.dsc[3] = s.dsc[3] - x
              /\ r.dsc[2] = s.dsc[2] /\ SameBooks(s, r) /\ SameTokens(s, r)
<1> DEFINE h(op) == Step(op, u, t, x)
<1>1. \A op : h(op).op = op /\ h(op).user = u /\ h(op).token = t /\ h(op).amount = x
  BY StepFields
<1> HIDE DEF h
<1> USE DEF Taken, Asked, Changed, SameBooks, SameTokens, SameDsc
<1>2. ASSUME Taken(c, s, r, h("recordDeposit"))
      PROVE  /\ Fits(s.deposited[u][t] + x)
             /\ r.deposited = [s.deposited EXCEPT ![u][t] = @ + x]
             /\ r.minted = s.minted /\ r.answer = s.answer
             /\ SameTokens(s, r) /\ SameDsc(s, r)
  BY <1>1, <1>2
<1>3. ASSUME Taken(c, s, r, h("eraseDeposit"))
      PROVE  /\ Fits(s.deposited[u][t] - x)
             /\ r.deposited = [s.deposited EXCEPT ![u][t] = @ - x]
             /\ r.minted = s.minted /\ r.answer = s.answer
             /\ SameTokens(s, r) /\ SameDsc(s, r)
  BY <1>1, <1>3
<1>4. ASSUME Taken(c, s, r, h("recordDebt"))
      PROVE  /\ Fits(s.minted[u] + x)
             /\ r.minted = [s.minted EXCEPT ![u] = @ + x]
             /\ r.deposited = s.deposited /\ r.answer = s.answer
             /\ SameTokens(s, r) /\ SameDsc(s, r)
  BY <1>1, <1>4
<1>5. ASSUME Taken(c, s, r, h("eraseDebt"))
      PROVE  /\ Fits(s.minted[u] - x)
             /\ r.minted = [s.minted EXCEPT ![u] = @ - x]
             /\ r.deposited = s.deposited /\ r.answer = s.answer
             /\ SameTokens(s, r) /\ SameDsc(s, r)
  BY <1>1, <1>5
<1>6. ASSUME Taken(c, s, r, h("transferFrom"))
      PROVE  /\ CanSpend(s.allowances[t], u, Engine, x) /\ CanTransfer(s.balances[t], u, x)
             /\ r.allowances = [s.allowances EXCEPT ![t] = Spent(@, u, Engine, x)]
             /\ r.balances = [s.balances EXCEPT ![t] = Transferred(@, u, Engine, x)]
             /\ SameBooks(s, r) /\ SameDsc(s, r)
  BY <1>1, <1>6
<1>7. ASSUME Taken(c, s, r, h("transfer"))
      PROVE  /\ CanTransfer(s.balances[t], Engine, x)
             /\ r.balances = [s.balances EXCEPT ![t] = Transferred(@, Engine, u, x)]
             /\ r.allowances = s.allowances /\ SameBooks(s, r) /\ SameDsc(s, r)
  BY <1>1, <1>7
<1>8. ASSUME Taken(c, s, r, h("mint"))
      PROVE  /\ Fits(s.dsc[3] + x) /\ r.dsc[3] = s.dsc[3] + x
             /\ r.dsc[1] = Credited(s.dsc[1], u, x) /\ r.dsc[2] = s.dsc[2]
             /\ SameBooks(s, r) /\ SameTokens(s, r)
  BY <1>1, <1>8
<1>9. ASSUME Taken(c, s, r, h("pullDsc"))
      PROVE  /\ CanSpend(s.dsc[2], u, Engine, x) /\ CanTransfer(s.dsc[1], u, x)
             /\ r.dsc[2] = Spent(s.dsc[2], u, Engine, x)
             /\ r.dsc[1] = Transferred(s.dsc[1], u, Engine, x) /\ r.dsc[3] = s.dsc[3]
             /\ SameBooks(s, r) /\ SameTokens(s, r)
  BY <1>1, <1>9
<1>10. ASSUME Taken(c, s, r, h("burn"))
       PROVE  /\ r.dsc[1] = Debited(s.dsc[1], Engine, x) /\ r.dsc[3] = s.dsc[3] - x
              /\ r.dsc[2] = s.dsc[2] /\ SameBooks(s, r) /\ SameTokens(s, r)
  BY <1>1, <1>10
<1>11. QED
  BY <1>2, <1>3, <1>4, <1>5, <1>6, <1>7, <1>8, <1>9, <1>10 DEF h

\* A deposit is recorded and paid.
Deposited(s, r, u, t, x) ==
  /\ x > 0 /\ t \in Collateral /\ Fits(s.deposited[u][t] + x)
  /\ CanSpend(s.allowances[t], u, Engine, x) /\ CanTransfer(s.balances[t], u, x)
  /\ r.deposited = [s.deposited EXCEPT ![u][t] = @ + x]
  /\ r.allowances = [s.allowances EXCEPT ![t] = Spent(@, u, Engine, x)]
  /\ r.balances = [s.balances EXCEPT ![t] = Transferred(@, u, Engine, x)]
  /\ r.minted = s.minted /\ r.answer = s.answer /\ SameDsc(s, r)

\* A debt is recorded, found to be covered, and minted.
Minted(c, s, r, u, x) ==
  /\ x > 0 /\ Fits(s.minted[u] + x) /\ Fits(s.dsc[3] + x) /\ fineAt(c, r, u)
  /\ r.minted = [s.minted EXCEPT ![u] = @ + x]
  /\ r.dsc[3] = s.dsc[3] + x /\ r.dsc[1] = Credited(s.dsc[1], u, x) /\ r.dsc[2] = s.dsc[2]
  /\ r.deposited = s.deposited /\ r.answer = s.answer /\ SameTokens(s, r)

\* _burnDsc
Burnt(s, r, u, from, x) ==
  /\ Fits(s.minted[u] - x)
  /\ CanSpend(s.dsc[2], from, Engine, x) /\ CanTransfer(s.dsc[1], from, x)
  /\ r.minted = [s.minted EXCEPT ![u] = @ - x]
  /\ r.dsc[2] = Spent(s.dsc[2], from, Engine, x)
  /\ r.dsc[1] = Debited(Transferred(s.dsc[1], from, Engine, x), Engine, x)
  /\ r.dsc[3] = s.dsc[3] - x
  /\ r.deposited = s.deposited /\ r.answer = s.answer /\ SameTokens(s, r)

\* _redeemCollateral
Redeemed(s, r, u, to, t, x) ==
  /\ Fits(s.deposited[u][t] - x) /\ CanTransfer(s.balances[t], Engine, x)
  /\ r.deposited = [s.deposited EXCEPT ![u][t] = @ - x]
  /\ r.balances = [s.balances EXCEPT ![t] = Transferred(@, Engine, to, x)]
  /\ r.minted = s.minted /\ r.answer = s.answer /\ r.allowances = s.allowances
  /\ SameDsc(s, r)

\* The next seven steps of a run.
LEMMA SevenSteps ==
  ASSUME NEW c, NEW run, NEW l, NEW b \in Nat,
         \A i \in b + 1 .. b + 7 : Taken(c, run[i - 1], run[i], l[i])
  PROVE  /\ Taken(c, run[b], run[b + 1], l[b + 1]) /\ Taken(c, run[b + 1], run[b + 2], l[b + 2])
         /\ Taken(c, run[b + 2], run[b + 3], l[b + 3])
         /\ Taken(c, run[b + 3], run[b + 4], l[b + 4])
         /\ Taken(c, run[b + 4], run[b + 5], l[b + 5])
         /\ Taken(c, run[b + 5], run[b + 6], l[b + 6])
         /\ Taken(c, run[b + 6], run[b + 7], l[b + 7])
<1>1. ASSUME NEW i \in 0 .. 6 PROVE Taken(c, run[b + i], run[b + (i + 1)], l[b + (i + 1)])
  <2>1. b + (i + 1) \in b + 1 .. b + 7 /\ (b + (i + 1)) - 1 = b + i
    OBVIOUS
  <2>2. QED
    BY <2>1
<1>2. /\ Taken(c, run[b + 0], run[b + (0 + 1)], l[b + (0 + 1)])
      /\ Taken(c, run[b + 1], run[b + (1 + 1)], l[b + (1 + 1)])
      /\ Taken(c, run[b + 2], run[b + (2 + 1)], l[b + (2 + 1)])
      /\ Taken(c, run[b + 3], run[b + (3 + 1)], l[b + (3 + 1)])
      /\ Taken(c, run[b + 4], run[b + (4 + 1)], l[b + (4 + 1)])
      /\ Taken(c, run[b + 5], run[b + (5 + 1)], l[b + (5 + 1)])
      /\ Taken(c, run[b + 6], run[b + (6 + 1)], l[b + (6 + 1)])
  BY <1>1
<1>3. b + 0 = b
  OBVIOUS
<1>4. QED
  BY <1>2, <1>3

\* The three steps that repay a debt.
LEMMA BurnIsDone ==
  ASSUME NEW c, NEW s0, NEW s1, NEW s2, NEW s3, NEW u, NEW from, NEW z, NEW x,
         Taken(c, s0, s1, Step("eraseDebt", u, z, x)),
         Taken(c, s1, s2, Step("pullDsc", from, z, x)),
         Taken(c, s2, s3, Step("burn", from, z, x))
  PROVE  Burnt(s0, s3, u, from, x)
<1>1. /\ Fits(s0.minted[u] - x)
      /\ s1.minted = [s0.minted EXCEPT ![u] = @ - x]
      /\ s1.deposited = s0.deposited /\ s1.answer = s0.answer
      /\ SameTokens(s0, s1) /\ SameDsc(s0, s1)
  BY StepsChange
<1>2. /\ CanSpend(s1.dsc[2], from, Engine, x) /\ CanTransfer(s1.dsc[1], from, x)
      /\ s2.dsc[2] = Spent(s1.dsc[2], from, Engine, x)
      /\ s2.dsc[1] = Transferred(s1.dsc[1], from, Engine, x) /\ s2.dsc[3] = s1.dsc[3]
      /\ SameBooks(s1, s2) /\ SameTokens(s1, s2)
  BY StepsChange
<1>3. /\ s3.dsc[1] = Debited(s2.dsc[1], Engine, x) /\ s3.dsc[3] = s2.dsc[3] - x
      /\ s3.dsc[2] = s2.dsc[2] /\ SameBooks(s2, s3) /\ SameTokens(s2, s3)
  BY StepsChange
<1>4. QED
  BY <1>1, <1>2, <1>3 DEF Burnt, SameBooks, SameTokens, SameDsc

\* The three steps that pay a deposit out.
LEMMA RedemptionIsDone ==
  ASSUME NEW c, NEW s0, NEW s1, NEW s2, NEW s3, NEW u, NEW to, NEW t, NEW x,
         Taken(c, s0, s1, Step("eraseDeposit", u, t, x)),
         Taken(c, s1, s2, Step("transfer", to, t, x)),
         Taken(c, s2, s3, Step("transferReturned", to, t, x))
  PROVE  Redeemed(s0, s3, u, to, t, x)
<1>1. /\ Fits(s0.deposited[u][t] - x)
      /\ s1.deposited = [s0.deposited EXCEPT ![u][t] = @ - x]
      /\ s1.minted = s0.minted /\ s1.answer = s0.answer
      /\ SameTokens(s0, s1) /\ SameDsc(s0, s1)
  BY StepsChange
<1>2. /\ CanTransfer(s1.balances[t], Engine, x)
      /\ s2.balances = [s1.balances EXCEPT ![t] = Transferred(@, Engine, to, x)]
      /\ s2.allowances = s1.allowances /\ SameBooks(s1, s2) /\ SameDsc(s1, s2)
  BY StepsChange
<1>3. Same(s2, s3)
  BY StepsAsk
<1>4. QED
  BY <1>1, <1>2, <1>3 DEF Redeemed, Same, SameBooks, SameTokens, SameDsc

\* The seven steps of depositCollateral.
LEMMA DepositIsDone ==
  ASSUME NEW c, NEW run, NEW l, NEW b \in Nat, NEW u, NEW t, NEW x, IsDeposit(l, b, u, t, x),
         \A i \in b + 1 .. b + 7 : Taken(c, run[i - 1], run[i], l[i])
  PROVE  Deposited(run[b], run[b + 7], u, t, x)
<1> DEFINE s0 == run[b]
           s1 == run[b + 1]
           s2 == run[b + 2]
           s3 == run[b + 3]
           s4 == run[b + 4]
           s5 == run[b + 5]
           s6 == run[b + 6]
           s7 == run[b + 7]
<1>1. /\ Taken(c, s0, s1, l[b + 1]) /\ Taken(c, s1, s2, l[b + 2]) /\ Taken(c, s2, s3, l[b + 3])
      /\ Taken(c, s3, s4, l[b + 4]) /\ Taken(c, s4, s5, l[b + 5]) /\ Taken(c, s5, s6, l[b + 6])
      /\ Taken(c, s6, s7, l[b + 7])
  BY SevenSteps
<1> HIDE DEF s0, s1, s2, s3, s4, s5, s6, s7
<1>2. x > 0 /\ Same(s0, s1)
  BY <1>1, StepsAsk DEF IsDeposit
<1>3. t \in Collateral /\ Same(s1, s2)
  BY <1>1, StepsAsk DEF IsDeposit
<1>4. Same(s2, s3) /\ Same(s5, s6) /\ Same(s6, s7)
  BY <1>1, StepsAsk DEF IsDeposit
<1>5. /\ Fits(s3.deposited[u][t] + x)
      /\ s4.deposited = [s3.deposited EXCEPT ![u][t] = @ + x]
      /\ s4.minted = s3.minted /\ s4.answer = s3.answer
      /\ SameTokens(s3, s4) /\ SameDsc(s3, s4)
  <2>1. Taken(c, s3, s4, Step("recordDeposit", u, t, x))
    BY <1>1 DEF IsDeposit
  <2>2. QED
    BY <2>1, StepsChange
<1>6. /\ CanSpend(s4.allowances[t], u, Engine, x) /\ CanTransfer(s4.balances[t], u, x)
      /\ s5.allowances = [s4.allowances EXCEPT ![t] = Spent(@, u, Engine, x)]
      /\ s5.balances = [s4.balances EXCEPT ![t] = Transferred(@, u, Engine, x)]
      /\ SameBooks(s4, s5) /\ SameDsc(s4, s5)
  <2>1. Taken(c, s4, s5, Step("transferFrom", u, t, x))
    BY <1>1 DEF IsDeposit
  <2>2. QED
    BY <2>1, StepsChange
<1>7. Deposited(s0, s7, u, t, x)
  BY <1>2, <1>3, <1>4, <1>5, <1>6 DEF Deposited, Same, SameBooks, SameTokens, SameDsc
<1>8. QED
  BY <1>7 DEF s0, s7

\* The seven steps of mintDsc.
LEMMA MintIsDone ==
  ASSUME NEW c, NEW run, NEW l, NEW b \in Nat, NEW u, NEW x, IsMint(l, b, u, x),
         \A i \in b + 1 .. b + 7 : Taken(c, run[i - 1], run[i], l[i])
  PROVE  Minted(c, run[b], run[b + 7], u, x)
<1> DEFINE s0 == run[b]
           s1 == run[b + 1]
           s2 == run[b + 2]
           s3 == run[b + 3]
           s4 == run[b + 4]
           s5 == run[b + 5]
           s6 == run[b + 6]
           s7 == run[b + 7]
<1>1. /\ Taken(c, s0, s1, l[b + 1]) /\ Taken(c, s1, s2, l[b + 2]) /\ Taken(c, s2, s3, l[b + 3])
      /\ Taken(c, s3, s4, l[b + 4]) /\ Taken(c, s4, s5, l[b + 5]) /\ Taken(c, s5, s6, l[b + 6])
      /\ Taken(c, s6, s7, l[b + 7])
  BY SevenSteps
<1> HIDE DEF s0, s1, s2, s3, s4, s5, s6, s7
<1>2. x > 0 /\ Same(s0, s1)
  BY <1>1, StepsAsk DEF IsMint
<1>3. Same(s1, s2) /\ Same(s5, s6) /\ Same(s6, s7)
  BY <1>1, StepsAsk DEF IsMint
<1>4. fineAt(c, s3, u) /\ Same(s3, s4)
  BY <1>1, StepsAsk DEF IsMint
<1>5. /\ Fits(s2.minted[u] + x)
      /\ s3.minted = [s2.minted EXCEPT ![u] = @ + x]
      /\ s3.deposited = s2.deposited /\ s3.answer = s2.answer
      /\ SameTokens(s2, s3) /\ SameDsc(s2, s3)
  <2>1. Taken(c, s2, s3, Step("recordDebt", u, ZeroAddress, x))
    BY <1>1 DEF IsMint
  <2>2. QED
    BY <2>1, StepsChange
<1>6. /\ Fits(s4.dsc[3] + x) /\ s5.dsc[3] = s4.dsc[3] + x
      /\ s5.dsc[1] = Credited(s4.dsc[1], u, x) /\ s5.dsc[2] = s4.dsc[2]
      /\ SameBooks(s4, s5) /\ SameTokens(s4, s5)
  <2>1. Taken(c, s4, s5, Step("mint", u, ZeroAddress, x))
    BY <1>1 DEF IsMint
  <2>2. QED
    BY <2>1, StepsChange
<1>7. fineAt(c, s7, u)
  <2>1. SameBooks(s3, s7)
    BY <1>3, <1>4, <1>6 DEF Same, SameBooks
  <2>2. QED
    BY <1>4, <2>1, SameIsFine DEF SameBooks
<1>8. Minted(c, s0, s7, u, x)
  BY <1>2, <1>3, <1>4, <1>5, <1>6, <1>7 DEF Minted, Same, SameBooks, SameTokens, SameDsc
<1>9. QED
  BY <1>8 DEF s0, s7

\* The four steps of burnDsc.
LEMMA IsBurnDone ==
  ASSUME NEW c, NEW run, NEW l, NEW b \in Nat, NEW u, NEW x, IsBurn(l, b, u, x),
         \A i \in b + 1 .. b + 4 : Taken(c, run[i - 1], run[i], l[i])
  PROVE  x > 0 /\ Burnt(run[b], run[b + 4], u, u, x)
<1> DEFINE s0 == run[b]
           s1 == run[b + 1]
           s2 == run[b + 2]
           s3 == run[b + 3]
           s4 == run[b + 4]
<1>1. /\ Taken(c, s0, s1, l[b + 1]) /\ Taken(c, s1, s2, l[b + 2]) /\ Taken(c, s2, s3, l[b + 3])
      /\ Taken(c, s3, s4, l[b + 4])
  <2>1. ASSUME NEW i \in 0 .. 3 PROVE Taken(c, run[b + i], run[b + (i + 1)], l[b + (i + 1)])
    <3>1. b + (i + 1) \in b + 1 .. b + 4 /\ (b + (i + 1)) - 1 = b + i
      OBVIOUS
    <3>2. QED
      BY <3>1
  <2>2. /\ Taken(c, run[b + 0], run[b + (0 + 1)], l[b + (0 + 1)])
        /\ Taken(c, run[b + 1], run[b + (1 + 1)], l[b + (1 + 1)])
        /\ Taken(c, run[b + 2], run[b + (2 + 1)], l[b + (2 + 1)])
        /\ Taken(c, run[b + 3], run[b + (3 + 1)], l[b + (3 + 1)])
    BY <2>1
  <2>3. b + 0 = b
    OBVIOUS
  <2>4. QED
    BY <2>2, <2>3
<1> HIDE DEF s0, s1, s2, s3, s4
<1>2. x > 0 /\ Same(s0, s1)
  BY <1>1, StepsAsk DEF IsBurn
<1>3. Burnt(s1, s4, u, u, x)
  <2>1. /\ Taken(c, s1, s2, Step("eraseDebt", u, ZeroAddress, x))
        /\ Taken(c, s2, s3, Step("pullDsc", u, ZeroAddress, x))
        /\ Taken(c, s3, s4, Step("burn", u, ZeroAddress, x))
    BY <1>1 DEF IsBurn
  <2>2. QED
    BY <2>1, BurnIsDone
<1>4. Burnt(s0, s4, u, u, x)
  BY <1>2, <1>3 DEF Burnt, Same, SameBooks, SameTokens, SameDsc
<1>5. QED
  BY <1>2, <1>4 DEF s0, s4

\* The seven steps of redeemCollateral.
LEMMA IsRedemptionDone ==
  ASSUME NEW c, NEW run, NEW l, NEW b \in Nat, NEW u, NEW t, NEW x,
         IsRedemption(l, b, u, t, x),
         \A i \in b + 1 .. b + 7 : Taken(c, run[i - 1], run[i], l[i])
  PROVE  x > 0 /\ Redeemed(run[b], run[b + 7], u, u, t, x) /\ fineAt(c, run[b + 7], u)
<1> DEFINE s0 == run[b]
           s1 == run[b + 1]
           s2 == run[b + 2]
           s3 == run[b + 3]
           s4 == run[b + 4]
           s5 == run[b + 5]
           s6 == run[b + 6]
           s7 == run[b + 7]
<1>1. /\ Taken(c, s0, s1, l[b + 1]) /\ Taken(c, s1, s2, l[b + 2]) /\ Taken(c, s2, s3, l[b + 3])
      /\ Taken(c, s3, s4, l[b + 4]) /\ Taken(c, s4, s5, l[b + 5]) /\ Taken(c, s5, s6, l[b + 6])
      /\ Taken(c, s6, s7, l[b + 7])
  BY SevenSteps
<1> HIDE DEF s0, s1, s2, s3, s4, s5, s6, s7
<1>2. x > 0 /\ Same(s0, s1)
  BY <1>1, StepsAsk DEF IsRedemption
<1>3. Same(s1, s2) /\ Same(s6, s7)
  BY <1>1, StepsAsk DEF IsRedemption
<1>4. fineAt(c, s5, u) /\ Same(s5, s6)
  BY <1>1, StepsAsk DEF IsRedemption
<1>5. Redeemed(s2, s5, u, u, t, x)
  <2>1. /\ Taken(c, s2, s3, Step("eraseDeposit", u, t, x))
        /\ Taken(c, s3, s4, Step("transfer", u, t, x))
        /\ Taken(c, s4, s5, Step("transferReturned", u, t, x))
    BY <1>1 DEF IsRedemption
  <2>2. QED
    BY <2>1, RedemptionIsDone
<1>6. fineAt(c, s7, u)
  <2>1. SameBooks(s5, s7)
    BY <1>3, <1>4 DEF Same, SameBooks
  <2>2. QED
    BY <1>4, <2>1, SameIsFine DEF SameBooks
<1>7. Redeemed(s0, s7, u, u, t, x)
  BY <1>2, <1>3, <1>4, <1>5 DEF Redeemed, Same, SameBooks, SameTokens, SameDsc
<1>8. QED
  BY <1>2, <1>6, <1>7 DEF s0, s7

\* A liquidation: both payments come out of one deposit, which is empty after them.
Liquidated(c, s, r, sender, t, u, y) ==
  LET x == totalCollateralToRedeem(s.answer[t], y)
      left == s.deposited[u][t] - x
      paid == Transferred(s.balances[t], Engine, sender, x)
  IN  /\ y > 0 /\ t \in Collateral /\ totalCollateralToRedeemReturns(s.answer[t], y)
      /\ returnsAt(c, s, u) /\ healthAt(s, u) < MIN_HEALTH_FACTOR
      /\ returnsAt(c, r, u) /\ healthAt(r, u) > healthAt(s, u)
      /\ fineAt(c, r, sender)
      /\ left >= 0 /\ CanTransfer(s.balances[t], Engine, x) /\ CanTransfer(paid, Engine, left)
      /\ r.deposited = [s.deposited EXCEPT ![u][t] = 0]
      /\ r.balances = [s.balances EXCEPT ![t] = Transferred(paid, Engine, Pool, left)]
      /\ Fits(s.minted[u] - y)
      /\ CanSpend(s.dsc[2], sender, Engine, y) /\ CanTransfer(s.dsc[1], sender, y)
      /\ r.minted = [s.minted EXCEPT ![u] = @ - y]
      /\ r.dsc[2] = Spent(s.dsc[2], sender, Engine, y)
      /\ r.dsc[1] = Debited(Transferred(s.dsc[1], sender, Engine, y), Engine, y)
      /\ r.dsc[3] = s.dsc[3] - y
      /\ r.answer = s.answer /\ r.allowances = s.allowances

\* Two storages with the same account and prices give the same health factor.
LEMMA SameIsWorth ==
  ASSUME NEW c, NEW s, NEW r, NEW u, s.deposited[u] = r.deposited[u],
         s.minted[u] = r.minted[u], s.answer = r.answer
  PROVE  returnsAt(c, s, u) = returnsAt(c, r, u) /\ healthAt(s, u) = healthAt(r, u)
  BY DEF returnsAt, healthAt

Put(f, u, t, z) == [f EXCEPT ![u][t] = z]

\* The second of two changes of a deposit is what remains.
LEMMA ChangedTwice ==
  ASSUME NEW f \in [User -> [Token -> Word]], NEW u \in User, NEW t \in Token, NEW a, NEW z
  PROVE  Put(Put(f, u, t, a), u, t, z) = Put(f, u, t, z)
<1> DEFINE g == [f EXCEPT ![u][t] = a]
           v == [f[u] EXCEPT ![t] = a]
           w == [f[u] EXCEPT ![t] = z]
<1>1. g = [f EXCEPT ![u] = v] /\ g[u] = v
  OBVIOUS
<1>2. [g[u] EXCEPT ![t] = z] = w
  BY <1>1
<1>3. [g EXCEPT ![u][t] = z] = [g EXCEPT ![u] = [g[u] EXCEPT ![t] = z]]
  OBVIOUS
<1>4. [f EXCEPT ![u][t] = z] = [f EXCEPT ![u] = w]
  OBVIOUS
<1> HIDE DEF g, v, w
<1>5. [g EXCEPT ![u] = w] = [f EXCEPT ![u] = w]
  BY <1>1
<1>6. QED
  BY <1>2, <1>3, <1>4, <1>5 DEF g, Put

\* Two payments out of one deposit, the second of what the first has left.
PaidOut(s, r, u, sender, t, x) ==
  LET left == s.deposited[u][t] - x
      paid == Transferred(s.balances[t], Engine, sender, x)
  IN  /\ left >= 0 /\ CanTransfer(s.balances[t], Engine, x) /\ CanTransfer(paid, Engine, left)
      /\ r.deposited = [s.deposited EXCEPT ![u][t] = 0]
      /\ r.balances = [s.balances EXCEPT ![t] = Transferred(paid, Engine, Pool, left)]
      /\ r.minted = s.minted /\ r.answer = s.answer /\ r.allowances = s.allowances
      /\ SameDsc(s, r)

\* The payments to the liquidator and to the pool, as one change of the books.
LEMMA TwoPayments ==
  ASSUME NEW s \in Storage, NEW m, NEW r, NEW u \in User, NEW sender, NEW t \in Token,
         NEW x \in Nat, Redeemed(s, m, u, sender, t, x),
         NEW d, d = m.deposited[u][t], Redeemed(m, r, u, Pool, t, d)
  PROVE  PaidOut(s, r, u, sender, t, x)
<1> DEFINE left == s.deposited[u][t] - x
           paid == Transferred(s.balances[t], Engine, sender, x)
<1>1. /\ s.deposited \in [User -> [Token -> Word]] /\ s.deposited[u][t] \in Nat
      /\ s.balances \in [Token -> [Holder -> Word]]
  BY StorageTypes DEF Storage
<1>2. left \in Nat
  <2>1. Fits(left)
    BY DEF Redeemed
  <2>2. QED
    BY <2>1, WordsAreNaturals DEF Fits
<1>3. m.deposited = [s.deposited EXCEPT ![u][t] = left]
  BY DEF Redeemed
<1>4. m.balances = [s.balances EXCEPT ![t] = paid]
  BY DEF Redeemed
<1> HIDE DEF left, paid
<1>5. m.deposited[u][t] = left /\ m.balances[t] = paid
  BY <1>1, <1>3, <1>4
<1>6. /\ r.deposited = [m.deposited EXCEPT ![u][t] = left - left]
      /\ r.balances = [m.balances EXCEPT ![t] = Transferred(paid, Engine, Pool, left)]
      /\ CanTransfer(paid, Engine, left)
  BY <1>5 DEF Redeemed
<1>7. left - left = 0
  BY <1>2
<1>8. r.deposited = [s.deposited EXCEPT ![u][t] = 0]
  <2>1. r.deposited = [m.deposited EXCEPT ![u][t] = 0]
    BY <1>6, <1>7
  <2>2. r.deposited = [[s.deposited EXCEPT ![u][t] = left] EXCEPT ![u][t] = 0]
    BY <1>3, <2>1
  <2>3. r.deposited = Put(Put(s.deposited, u, t, left), u, t, 0)
    BY <2>2 DEF Put
  <2>4. r.deposited = Put(s.deposited, u, t, 0)
    BY <1>1, <2>3, ChangedTwice
  <2>5. QED
    BY <2>4 DEF Put
<1>9. r.balances = [s.balances EXCEPT ![t] = Transferred(paid, Engine, Pool, left)]
  <2> DEFINE w == Transferred(paid, Engine, Pool, left)
  <2> HIDE DEF w
  <2>1. r.balances = [m.balances EXCEPT ![t] = w]
    BY <1>6 DEF w
  <2>2. r.balances = [s.balances EXCEPT ![t] = w]
    BY <1>1, <1>4, <2>1
  <2>3. QED
    BY <2>2 DEF w
<1>10. CanTransfer(s.balances[t], Engine, x) /\ left >= 0
  BY <1>2 DEF Redeemed
<1>11. /\ r.minted = s.minted /\ r.answer = s.answer /\ r.allowances = s.allowances
       /\ SameDsc(s, r)
  BY DEF Redeemed, SameDsc
<1>12. QED
  BY <1>6, <1>8, <1>9, <1>10, <1>11 DEF PaidOut, left, paid

\* The steps of liquidate, from the first to the last.
LEMMA LiquidationIsDone ==
  ASSUME NEW c, NEW run, NEW l, NEW sender, NEW t \in Token, NEW u \in User,
         NEW y \in DscAmounts, run[0] \in Storage,
         IsLiquidating(l, 16, 16, run, sender, t, u, y),
         \A i \in 1 .. 16 : Taken(c, run[i - 1], run[i], l[i])
  PROVE  Liquidated(c, run[0], run[16], sender, t, u, y)
<1>1. /\ IsSeizing(l, run[2], sender, t, u, y)
      /\ IsPayment(l, 7, u, Pool, t, run[6].deposited[u][t])
      /\ IsSettlement(l, 10, run[2], sender, u, y)
  BY DEF IsLiquidating
<1>2. /\ Taken(c, run[0], run[1], l[1]) /\ Taken(c, run[1], run[2], l[2])
      /\ Taken(c, run[2], run[3], l[3]) /\ Taken(c, run[3], run[4], l[4])
      /\ Taken(c, run[4], run[5], l[5]) /\ Taken(c, run[5], run[6], l[6])
      /\ Taken(c, run[6], run[7], l[7]) /\ Taken(c, run[7], run[8], l[8])
      /\ Taken(c, run[8], run[9], l[9]) /\ Taken(c, run[9], run[10], l[10])
      /\ Taken(c, run[10], run[11], l[11]) /\ Taken(c, run[11], run[12], l[12])
      /\ Taken(c, run[12], run[13], l[13]) /\ Taken(c, run[13], run[14], l[14])
      /\ Taken(c, run[14], run[15], l[15]) /\ Taken(c, run[15], run[16], l[16])
  <2>1. ASSUME NEW i \in 0 .. 15 PROVE Taken(c, run[i], run[i + 1], l[i + 1])
    <3>1. i + 1 \in 1 .. 16 /\ (i + 1) - 1 = i
      OBVIOUS
    <3>2. QED
      BY <3>1
  <2>2. /\ Taken(c, run[0], run[0 + 1], l[0 + 1]) /\ Taken(c, run[1], run[1 + 1], l[1 + 1])
        /\ Taken(c, run[2], run[2 + 1], l[2 + 1]) /\ Taken(c, run[3], run[3 + 1], l[3 + 1])
        /\ Taken(c, run[4], run[4 + 1], l[4 + 1]) /\ Taken(c, run[5], run[5 + 1], l[5 + 1])
        /\ Taken(c, run[6], run[6 + 1], l[6 + 1]) /\ Taken(c, run[7], run[7 + 1], l[7 + 1])
        /\ Taken(c, run[8], run[8 + 1], l[8 + 1]) /\ Taken(c, run[9], run[9 + 1], l[9 + 1])
        /\ Taken(c, run[10], run[10 + 1], l[10 + 1])
        /\ Taken(c, run[11], run[11 + 1], l[11 + 1])
        /\ Taken(c, run[12], run[12 + 1], l[12 + 1])
        /\ Taken(c, run[13], run[13 + 1], l[13 + 1])
        /\ Taken(c, run[14], run[14 + 1], l[14 + 1])
        /\ Taken(c, run[15], run[15 + 1], l[15 + 1])
    BY <2>1
  <2>3. QED
    BY <2>2
<1> DEFINE s == run[0]
           r == run[16]
           x == totalCollateralToRedeem(run[2].answer[t], y)
           hf == healthAt(run[2], u)
<1>3. /\ Taken(c, run[0], run[1], Step("moreThanZero", sender, t, y)) /\ l[2].op = "enter"
      /\ Taken(c, run[2], run[3], Step("seize", u, t, y))
      /\ Taken(c, run[3], run[4], Step("eraseDeposit", u, t, x))
      /\ Taken(c, run[4], run[5], Step("transfer", sender, t, x))
      /\ Taken(c, run[5], run[6], Step("transferReturned", sender, t, x))
      /\ Taken(c, run[6], run[7], Step("sweep", u, t, 0))
  BY <1>1, <1>2 DEF IsSeizing, IsPayment
<1> DEFINE d == run[6].deposited[u][t]
<1>4. /\ Taken(c, run[7], run[8], Step("eraseDeposit", u, t, d))
      /\ Taken(c, run[8], run[9], Step("transfer", Pool, t, d))
      /\ Taken(c, run[9], run[10], Step("transferReturned", Pool, t, d))
  BY <1>1, <1>2 DEF IsPayment
<1>5. /\ Taken(c, run[10], run[11], Step("eraseDebt", u, ZeroAddress, y))
      /\ Taken(c, run[11], run[12], Step("pullDsc", sender, ZeroAddress, y))
      /\ Taken(c, run[12], run[13], Step("burn", sender, ZeroAddress, y))
      /\ Taken(c, run[13], run[14], Step("checkImproved", u, ZeroAddress, hf))
      /\ Taken(c, run[14], run[15], Step("checkHealth", sender, ZeroAddress, 0))
      /\ l[16].op = "leave"
  BY <1>1, <1>2 DEF IsSettlement
<1> HIDE DEF x, hf, d
<1>6. y > 0 /\ Same(run[0], run[1])
  BY <1>3, StepsAsk
<1>7. Same(run[1], run[2])
  BY <1>2, <1>3, StepsAsk
<1>8. /\ returnsAt(c, run[2], u) /\ healthAt(run[2], u) < MIN_HEALTH_FACTOR /\ t \in Collateral
      /\ totalCollateralToRedeemReturns(run[2].answer[t], y) /\ Same(run[2], run[3])
  BY <1>3, StepsAsk
<1>9. Redeemed(run[3], run[6], u, sender, t, x)
  BY <1>3, RedemptionIsDone
<1>10. Same(run[6], run[7])
  BY <1>3, StepsAsk
<1>11. Redeemed(run[7], run[10], u, Pool, t, d)
  BY <1>4, RedemptionIsDone
<1>12. Burnt(run[10], run[13], u, sender, y)
  BY <1>5, BurnIsDone
<1>13. returnsAt(c, run[13], u) /\ healthAt(run[13], u) > hf /\ Same(run[13], run[14])
  BY <1>5, StepsAsk
<1>14. fineAt(c, run[14], sender) /\ Same(run[14], run[15])
  BY <1>5, StepsAsk
<1>15. Same(run[15], run[16])
  BY <1>2, <1>5, StepsAsk
<1>16. Same(s, run[3])
  BY <1>6, <1>7, <1>8 DEF Same, SameBooks, SameTokens, SameDsc
<1>17. Same(run[13], r)
  BY <1>13, <1>14, <1>15 DEF Same, SameBooks, SameTokens, SameDsc
<1>18. Same(s, run[2])
  BY <1>6, <1>7 DEF Same, SameBooks, SameTokens, SameDsc
<1>19. /\ x = totalCollateralToRedeem(s.answer[t], y) /\ hf = healthAt(s, u)
       /\ returnsAt(c, s, u) /\ healthAt(s, u) < MIN_HEALTH_FACTOR
       /\ totalCollateralToRedeemReturns(s.answer[t], y)
  <2>1. SameBooks(s, run[2])
    BY <1>18 DEF Same
  <2>2. returnsAt(c, s, u) = returnsAt(c, run[2], u) /\ healthAt(s, u) = healthAt(run[2], u)
    BY <2>1, SameIsWorth DEF SameBooks
  <2>3. run[2].answer = s.answer
    BY <2>1 DEF SameBooks
  <2>4. QED
    BY <1>8, <2>2, <2>3 DEF x, hf
<1>20. returnsAt(c, r, u) /\ healthAt(r, u) > healthAt(s, u)
  <2>1. SameBooks(run[13], r)
    BY <1>17 DEF Same
  <2>2. returnsAt(c, r, u) = returnsAt(c, run[13], u) /\ healthAt(r, u) = healthAt(run[13], u)
    BY <2>1, SameIsWorth DEF SameBooks
  <2>3. QED
    BY <1>13, <1>19, <2>2
<1>21. fineAt(c, r, sender)
  <2>1. SameBooks(run[14], r)
    BY <1>14, <1>15 DEF Same, SameBooks
  <2>2. QED
    BY <1>14, <2>1, SameIsFine DEF SameBooks
<1>22. x \in Nat
  BY <1>19, WordsAreNaturals DEF totalCollateralToRedeemReturns, Fits
<1>23. Redeemed(s, run[6], u, sender, t, x)
  BY <1>9, <1>16 DEF Redeemed, Same, SameBooks, SameTokens, SameDsc
<1>24. Redeemed(run[6], run[10], u, Pool, t, d)
  BY <1>10, <1>11 DEF Redeemed, Same, SameBooks, SameTokens, SameDsc
<1> DEFINE left == s.deposited[u][t] - x
           paid == Transferred(s.balances[t], Engine, sender, x)
<1>25. /\ left >= 0 /\ CanTransfer(s.balances[t], Engine, x) /\ CanTransfer(paid, Engine, left)
       /\ run[10].deposited = [s.deposited EXCEPT ![u][t] = 0]
       /\ run[10].balances = [s.balances EXCEPT ![t] = Transferred(paid, Engine, Pool, left)]
       /\ run[10].minted = s.minted /\ run[10].answer = s.answer
       /\ run[10].allowances = s.allowances /\ SameDsc(s, run[10])
  <2>1. s \in Storage /\ d = run[6].deposited[u][t]
    BY DEF d
  <2> HIDE DEF s
  <2>2. PaidOut(s, run[10], u, sender, t, x)
    BY <1>22, <1>23, <1>24, <2>1, TwoPayments
  <2>3. QED
    BY <2>2 DEF PaidOut
<1> HIDE DEF left, paid, s, r
<1>26. /\ r.deposited = run[10].deposited /\ r.balances = run[10].balances
       /\ r.answer = run[10].answer /\ r.allowances = run[10].allowances
       /\ Fits(run[10].minted[u] - y)
       /\ CanSpend(run[10].dsc[2], sender, Engine, y) /\ CanTransfer(run[10].dsc[1], sender, y)
       /\ r.minted = [run[10].minted EXCEPT ![u] = @ - y]
       /\ r.dsc[2] = Spent(run[10].dsc[2], sender, Engine, y)
       /\ r.dsc[1] = Debited(Transferred(run[10].dsc[1], sender, Engine, y), Engine, y)
       /\ r.dsc[3] = run[10].dsc[3] - y
  BY <1>12, <1>17 DEF Burnt, Same, SameBooks, SameTokens, SameDsc
<1>27. /\ Fits(s.minted[u] - y)
       /\ CanSpend(s.dsc[2], sender, Engine, y) /\ CanTransfer(s.dsc[1], sender, y)
       /\ r.minted = [s.minted EXCEPT ![u] = @ - y]
       /\ r.dsc[2] = Spent(s.dsc[2], sender, Engine, y)
       /\ r.dsc[1] = Debited(Transferred(s.dsc[1], sender, Engine, y), Engine, y)
       /\ r.dsc[3] = s.dsc[3] - y
  BY <1>25, <1>26 DEF SameDsc
<1>28. /\ r.deposited = [s.deposited EXCEPT ![u][t] = 0]
       /\ r.balances = [s.balances EXCEPT ![t] = Transferred(paid, Engine, Pool, left)]
       /\ r.answer = s.answer /\ r.allowances = s.allowances
  BY <1>25, <1>26
<1>29. Liquidated(c, s, r, sender, t, u, y)
  BY <1>6, <1>8, <1>19, <1>20, <1>21, <1>25, <1>27, <1>28 DEF Liquidated, left, paid
<1>30. QED
  BY <1>29 DEF s, r

-----------------------------------------------------------------------------
(* A transaction that is over is one of the atomic actions *)

\* The operators of the tokens mean the same of the committed state.
LEMMA CommittedTokens ==
  /\ \A b, a, x : /\ Committed!Debited(b, a, x) = Debited(b, a, x)
                  /\ Committed!Credited(b, a, x) = Credited(b, a, x)
                  /\ Committed!DSC!Credited(b, a, x) = Credited(b, a, x)
                  /\ Committed!CanTransfer(b, a, x) <=> CanTransfer(b, a, x)
  /\ \A b, a, to, x : Committed!Transferred(b, a, to, x) = Transferred(b, a, to, x)
  /\ \A b, a, to, x : /\ Committed!CanSpend(b, a, to, x) <=> CanSpend(b, a, to, x)
                      /\ Committed!Spent(b, a, to, x) = Spent(b, a, to, x)
  /\ \A x : Committed!DSC!Fits(x) <=> Fits(x)
<1>1. \A b, a, x : /\ Committed!Debited(b, a, x) = Debited(b, a, x)
                   /\ Committed!Credited(b, a, x) = Credited(b, a, x)
                   /\ Committed!DSC!Credited(b, a, x) = Credited(b, a, x)
  BY DEF Committed!Debited, Debited, Committed!Credited, Committed!DSC!Credited, Credited
<1>2. \A b, a, x : Committed!CanTransfer(b, a, x) <=> CanTransfer(b, a, x)
  BY DEF Committed!CanTransfer, CanTransfer
<1>3. \A b, a, to, x : Committed!Transferred(b, a, to, x) = Transferred(b, a, to, x)
  BY <1>1 DEF Committed!Transferred, Transferred
<1>4. \A b, a, to, x : Committed!CanSpend(b, a, to, x) <=> CanSpend(b, a, to, x)
  BY DEF Committed!CanSpend, CanSpend
<1>5. \A b, a, to, x : Committed!Spent(b, a, to, x) = Spent(b, a, to, x)
  BY DEF Committed!Spent, Spent
<1>6. \A x : Committed!DSC!Fits(x) <=> Fits(x)
  BY DEF Committed!DSC!Fits, Fits, Committed!DSC!Word, Word
<1>7. QED
  BY <1>1, <1>2, <1>3, <1>4, <1>5, <1>6

\* So do those of the liquidator's share.
LEMMA CommittedSeizure ==
  \A a, y : /\ Committed!totalCollateralToRedeem(a, y) = totalCollateralToRedeem(a, y)
            /\ Committed!totalCollateralToRedeemReturns(a, y)
                 <=> totalCollateralToRedeemReturns(a, y)
<1>1. \A x : Committed!Fits(x) <=> Fits(x)
  BY CommittedMath
<1>2. \A a : Committed!scaledPrice(a) = scaledPrice(a)
  BY DEF Committed!scaledPrice, scaledPrice, Committed!AsUint, AsUint
<1>3. \A a, y : /\ Committed!tokenAmountFromUsd(a, y) = tokenAmountFromUsd(a, y)
                /\ Committed!tokenAmountFromUsdReturns(a, y) <=> tokenAmountFromUsdReturns(a, y)
  BY <1>1, <1>2 DEF Committed!tokenAmountFromUsd, tokenAmountFromUsd,
                    Committed!tokenAmountFromUsdReturns, tokenAmountFromUsdReturns
<1>4. Committed!LIQUIDATION_BONUS = LIQUIDATION_BONUS
  BY DEF Committed!LIQUIDATION_BONUS, LIQUIDATION_BONUS
<1>5. \A z : Committed!bonusCollateral(z) = bonusCollateral(z)
  BY <1>4 DEF Committed!bonusCollateral, bonusCollateral, Committed!LIQUIDATION_PRECISION,
              LIQUIDATION_PRECISION
<1>6. \A a, y : Committed!totalCollateralToRedeem(a, y) = totalCollateralToRedeem(a, y)
  BY <1>3, <1>5 DEF Committed!totalCollateralToRedeem, totalCollateralToRedeem
<1>7. \A a, y : Committed!totalCollateralToRedeemReturns(a, y)
                  <=> totalCollateralToRedeemReturns(a, y)
  BY <1>1, <1>3, <1>4, <1>6 DEF Committed!totalCollateralToRedeemReturns,
                                totalCollateralToRedeemReturns
<1>8. QED
  BY <1>6, <1>7

\* Whether the committed health factor can be computed.
LEMMA CommittedWorth ==
  \A u \in User : Committed!healthFactorReturns(u) <=> returnsAt(context, committed, u)
<1> SUFFICES ASSUME NEW u \in User
             PROVE  Committed!healthFactorReturns(u) <=> returnsAt(context, committed, u)
  OBVIOUS
<1> DEFINE value == valueOf(committed.answer, committed.deposited[u])
<1>1. Committed!getAccountCollateralValue(u) = value
  BY CommittedHealth
<1>2. context.updatedAt = updatedAt /\ context.now = now
  BY DEF context
<1> HIDE DEF value
<1>3. Committed!getAccountCollateralValueReturns(u)
        <=> /\ \A t \in Collateral :
                 /\ updatedAt[t] <= now /\ now - updatedAt[t] <= TIMEOUT
                 /\ usdValueReturns(committed.answer[t], committed.deposited[u][t])
            /\ Fits(value)
  BY <1>1, CommittedMath DEF Committed!getAccountCollateralValueReturns,
     Committed!getUsdValueReturns, Committed!stalePriceCheckReturns
<1>4. Committed!healthFactorReturns(u)
        <=> /\ Committed!getAccountCollateralValueReturns(u)
            /\ \/ committed.minted[u] = 0
               \/ calculateHealthFactorReturns(committed.minted[u], value)
  BY <1>1, CommittedMath DEF Committed!healthFactorReturns
<1>5. returnsAt(context, committed, u)
        <=> /\ \A t \in Collateral :
                 /\ updatedAt[t] <= now /\ now - updatedAt[t] <= TIMEOUT
                 /\ usdValueReturns(committed.answer[t], committed.deposited[u][t])
            /\ Fits(value)
            /\ \/ committed.minted[u] = 0
               \/ calculateHealthFactorReturns(committed.minted[u], value)
  BY <1>2 DEF returnsAt, value
<1>6. QED
  BY <1>3, <1>4, <1>5

\* The same after the step.
LEMMA CommittedWorthNext ==
  \A u \in User : Committed!healthFactorReturns(u)' <=> returnsAt(context', committed', u)
<1>1. (\A u \in User : Committed!healthFactorReturns(u) <=> returnsAt(context, committed, u))'
  BY CommittedWorth, PTL
<1>2. QED
  BY <1>1 DEF returnsAt, valueOf

\* Around the steps of a call.
AtTheEnd ==
  /\ TransferFails = {} /\ TransferFromFails = {} /\ dscOwner = Engine
  /\ UNCHANGED <<dscOwner, updatedAt, now>> /\ context' = context

\* The steps of a deposit are the depositCollateral of the atomic engine.
LEMMA AtomicDeposit ==
  ASSUME AtTheEnd, NEW u, NEW t, NEW x, Deposited(committed, committed', u, t, x)
  PROVE  Committed!depositCollateral(u, t, x)
BY CommittedMath, CommittedTokens DEF AtTheEnd, Deposited, Committed!depositCollateral

\* Those of a mint are its mintDsc.
LEMMA AtomicMint ==
  ASSUME AtTheEnd, NEW u \in User, NEW x, NEW s, Minted(context, s, committed', u, x),
         s.minted = committed.minted, SameDsc(committed, s)
  PROVE  Committed!mintDsc(u, x)
<1>1. Committed!healthFactorIsFine(u)'
  BY CommittedIsFineNext DEF Minted, AtTheEnd
<1>2. Committed!DSC!Mint(Engine, u, x)
  BY CommittedTokens DEF Committed!DSC!Mint, Minted, AtTheEnd, SameDsc
<1>3. QED
  BY <1>1, <1>2, CommittedMath DEF Committed!mintDsc, Minted

\* Those of a repayment are its burnDsc.
LEMMA AtomicBurn ==
  ASSUME AtTheEnd, NEW u, NEW from, NEW x, x > 0, NEW r, Burnt(committed, r, u, from, x),
         committed.minted[u] \in Nat, x \in Nat,
         (committed.minted)' = r.minted, SameDsc(r, committed')
  PROVE  Committed!burnDsc(u, from, x)
<1>1. committed.minted[u] >= x
  <2>1. committed.minted[u] - x \in Nat
    BY WordsAreNaturals DEF Burnt, Fits
  <2>2. QED
    BY <2>1
<1>2. Committed!burnTokens(from, x)
  BY CommittedTokens DEF Committed!burnTokens, Burnt, AtTheEnd, SameDsc
<1>3. QED
  BY <1>1, <1>2 DEF Committed!burnDsc, Burnt

\* Those of a redemption are its redeemCollateral.
LEMMA AtomicRedemption ==
  ASSUME AtTheEnd, NEW u, NEW to, NEW t, NEW x, NEW s, Redeemed(s, committed', u, to, t, x),
         s.deposited[u][t] \in Nat, x \in Nat,
         s.deposited = committed.deposited, s.balances = committed.balances
  PROVE  Committed!redeemCollateral(u, to, t, x)
<1>1. s.deposited[u][t] >= x
  <2>1. s.deposited[u][t] - x \in Nat
    BY WordsAreNaturals DEF Redeemed, Fits
  <2>2. QED
    BY <2>1
<1>2. QED
  BY <1>1, CommittedTokens DEF Committed!redeemCollateral, Redeemed, AtTheEnd

\* Those of a liquidation are its Liquidate: both health factors, read at
\* different times, are those before and after the transaction.
LEMMA AtomicLiquidation ==
  ASSUME AtTheEnd, NEW sender \in User, NEW t \in Token, NEW u \in User, NEW y,
         Liquidated(context, committed, committed', sender, t, u, y),
         committed.minted[u] \in Nat, y \in Nat
  PROVE  Committed!Liquidate(sender, t, u, y)
<1> DEFINE x == totalCollateralToRedeem(committed.answer[t], y)
           left == committed.deposited[u][t] - x
           paid == Transferred(committed.balances[t], Engine, sender, x)
<1>1. Committed!healthFactorReturns(u) /\ Committed!healthFactor(u) < Committed!MIN_HEALTH_FACTOR
  <2>1. returnsAt(context, committed, u) /\ healthAt(committed, u) < MIN_HEALTH_FACTOR
    BY DEF Liquidated
  <2>2. QED
    BY <2>1, CommittedWorth, CommittedHealth, CommittedMath
<1>2. /\ Committed!healthFactorReturns(u)'
      /\ Committed!healthFactor(u)' > Committed!healthFactor(u)
      /\ Committed!healthFactorIsFine(sender)'
  <2>1. /\ returnsAt(context', committed', u) /\ healthAt(committed', u) > healthAt(committed, u)
        /\ fineAt(context', committed', sender)
    BY DEF Liquidated, AtTheEnd
  <2>2. QED
    BY <2>1, CommittedWorthNext, CommittedHealth, CommittedHealthNext, CommittedIsFineNext
<1>3. y > 0 /\ t \in Committed!Collateral
  BY CommittedMath DEF Liquidated
<1>4. Committed!totalCollateralToRedeemReturns(committed.answer[t], y)
  BY CommittedSeizure DEF Liquidated
<1>5. Committed!totalCollateralToRedeem(committed.answer[t], y) = x
  BY CommittedSeizure
<1>6. Committed!seizeCollateral(u, sender, t, x)
  <2>1. /\ left >= 0 /\ CanTransfer(committed.balances[t], Engine, x)
        /\ CanTransfer(paid, Engine, left)
        /\ (committed.deposited)' = [committed.deposited EXCEPT ![u][t] = 0]
        /\ (committed.balances)' =
             [committed.balances EXCEPT ![t] = Transferred(paid, Engine, Pool, left)]
    BY DEF Liquidated
  <2>2. Committed!Transferred(committed.balances[t], Engine, sender, x) = paid
    BY CommittedTokens
  <2> HIDE DEF x, paid
  <2>3. Committed!payOut(u, sender, t, x, left, 0)
    BY <2>1, <2>2, CommittedTokens DEF Committed!payOut, AtTheEnd
  <2>4. QED
    BY <2>1, <2>3 DEF Committed!seizeCollateral
<1>7. Committed!burnDsc(u, sender, y)
  <2>1. committed.minted[u] >= y
    <3>1. committed.minted[u] - y \in Nat
      BY WordsAreNaturals DEF Liquidated, Fits
    <3>2. QED
      BY <3>1
  <2>2. Committed!burnTokens(sender, y)
    BY CommittedTokens DEF Committed!burnTokens, Liquidated, AtTheEnd
  <2>3. (committed.minted)' = [committed.minted EXCEPT ![u] = @ - y]
    BY DEF Liquidated
  <2>4. QED
    BY <1>3, <2>1, <2>2, <2>3 DEF Committed!burnDsc
<1>8. UNCHANGED <<committed.allowances, Committed!oracleVars>>
  BY DEF Liquidated, AtTheEnd, Committed!oracleVars
<1> HIDE DEF x
<1>9. Committed!coverDebt(sender, t, u, y)
  BY <1>3, <1>4, <1>5, <1>6, <1>7, <1>8 DEF Committed!coverDebt
<1>10. QED
  BY <1>1, <1>2, <1>9 DEF Committed!Liquidate

\* What the atomic actions leave alone.
LEMMA CommittedVars ==
  ASSUME AtTheEnd, (committed.answer)' = committed.answer
  PROVE  /\ UNCHANGED Committed!oracleVars
         /\ SameDsc(committed, committed') => UNCHANGED Committed!dscVars
         /\ SameTokens(committed, committed') => UNCHANGED Committed!collateralVars
BY DEF AtTheEnd, Committed!oracleVars, Committed!dscVars, Committed!collateralVars, SameDsc,
       SameTokens

\* The calls that do one thing are the atomic transactions.
LEMMA SimpleTransactions ==
  ASSUME AtTheEnd, NEW u \in User, NEW t, NEW x \in Nat, committed \in Storage
  PROVE  /\ Deposited(committed, committed', u, t, x) => Committed!DepositCollateral(u, t, x)
         /\ Minted(context, committed, committed', u, x) => Committed!MintDsc(u, x)
         /\ x > 0 /\ Burnt(committed, committed', u, u, x) => Committed!BurnDsc(u, x)
         /\ (/\ t \in Token /\ x > 0 /\ Redeemed(committed, committed', u, u, t, x)
             /\ fineAt(context, committed', u))
              => Committed!RedeemCollateral(u, t, x)
<1>1. ASSUME Deposited(committed, committed', u, t, x)
      PROVE  Committed!DepositCollateral(u, t, x)
  <2>1. Committed!depositCollateral(u, t, x)
    BY <1>1, AtomicDeposit
  <2>2. UNCHANGED <<committed.minted, Committed!dscVars, Committed!oracleVars>>
    BY <1>1, CommittedVars DEF Deposited
  <2>3. QED
    BY <2>1, <2>2 DEF Committed!DepositCollateral
<1>2. ASSUME Minted(context, committed, committed', u, x)
      PROVE  Committed!MintDsc(u, x)
  <2>1. Committed!mintDsc(u, x)
    <3>1. SameDsc(committed, committed)
      BY DEF SameDsc
    <3>2. QED
      BY <1>2, <3>1, AtomicMint
  <2>2. UNCHANGED <<committed.deposited, Committed!collateralVars, Committed!oracleVars>>
    BY <1>2, CommittedVars DEF Minted
  <2>3. QED
    BY <2>1, <2>2 DEF Committed!MintDsc
<1>3. ASSUME x > 0, Burnt(committed, committed', u, u, x)
      PROVE  Committed!BurnDsc(u, x)
  <2>1. committed.minted[u] \in Nat
    BY StorageTypes DEF Storage
  <2>2. SameDsc(committed', committed')
    BY DEF SameDsc
  <2>3. Committed!burnDsc(u, u, x)
    BY <1>3, <2>1, <2>2, AtomicBurn
  <2>4. UNCHANGED <<committed.deposited, Committed!collateralVars, Committed!oracleVars>>
    BY <1>3, CommittedVars DEF Burnt
  <2>5. QED
    BY <2>3, <2>4 DEF Committed!BurnDsc
<1>4. ASSUME t \in Token, x > 0, Redeemed(committed, committed', u, u, t, x),
             fineAt(context, committed', u)
      PROVE  Committed!RedeemCollateral(u, t, x)
  <2>1. committed.deposited[u][t] \in Nat
    BY <1>4, StorageTypes DEF Storage
  <2>2. Committed!redeemCollateral(u, u, t, x)
    BY <1>4, <2>1, AtomicRedemption
  <2>3. UNCHANGED <<committed.minted, committed.allowances, Committed!dscVars,
                    Committed!oracleVars>>
    BY <1>4, CommittedVars DEF Redeemed
  <2>4. Committed!healthFactorIsFine(u)'
    BY <1>4, CommittedIsFineNext DEF AtTheEnd
  <2>5. QED
    BY <1>4, <2>2, <2>3, <2>4 DEF Committed!RedeemCollateral
<1>5. QED
  BY <1>1, <1>2, <1>3, <1>4

\* Two calls in one: the storage s is that between them.
LEMMA DepositAndMint ==
  ASSUME AtTheEnd, NEW u \in User, NEW t, NEW x, NEW y, NEW s,
         Deposited(committed, s, u, t, x), Minted(context, s, committed', u, y)
  PROVE  Committed!DepositCollateralAndMintDsc(u, t, x, y)
<1>1. /\ (committed.deposited)' = s.deposited /\ (committed.allowances)' = s.allowances
      /\ (committed.balances)' = s.balances /\ (committed.answer)' = committed.answer
      /\ s.minted = committed.minted /\ SameDsc(committed, s)
  BY DEF Deposited, Minted, SameTokens
<1>2. Committed!depositCollateral(u, t, x)
  BY <1>1, CommittedMath, CommittedTokens DEF AtTheEnd, Deposited, Committed!depositCollateral
<1>3. Committed!mintDsc(u, y)
  BY <1>1, AtomicMint
<1>4. UNCHANGED Committed!oracleVars
  BY <1>1, CommittedVars
<1>5. QED
  BY <1>2, <1>3, <1>4 DEF Committed!DepositCollateralAndMintDsc

\* redeemCollateralForDsc repays and redeems in one atomic transaction.
LEMMA BurnAndRedeem ==
  ASSUME AtTheEnd, NEW u \in User, NEW t \in Token, NEW x \in Nat, NEW y \in Nat, NEW s,
         committed \in Storage, s \in Storage,
         y > 0, Burnt(committed, s, u, u, y),
         x > 0, Redeemed(s, committed', u, u, t, x), fineAt(context, committed', u)
  PROVE  Committed!RedeemCollateralForDsc(u, t, x, y)
<1>1. /\ s.deposited = committed.deposited /\ s.balances = committed.balances
      /\ (committed.minted)' = s.minted /\ SameDsc(s, committed')
      /\ (committed.allowances)' = committed.allowances
      /\ (committed.answer)' = committed.answer
  BY DEF Burnt, Redeemed, SameTokens
<1>2. committed.minted[u] \in Nat /\ s.deposited[u][t] \in Nat
  BY StorageTypes DEF Storage
<1>3. Committed!burnDsc(u, u, y)
  BY <1>1, <1>2, AtomicBurn
<1>4. Committed!redeemCollateral(u, u, t, x)
  BY <1>1, <1>2, AtomicRedemption
<1>5. Committed!healthFactorIsFine(u)'
  BY CommittedIsFineNext DEF AtTheEnd
<1>6. UNCHANGED <<committed.allowances, Committed!oracleVars>>
  BY <1>1, CommittedVars
<1>7. QED
  BY <1>3, <1>4, <1>5, <1>6 DEF Committed!RedeemCollateralForDsc

\* A transaction that has made its last step is one of the atomic actions.
LEMMA TransactionIsAtomic ==
  ASSUME AtTheEnd, NEW sender \in User, NEW n \in Nat, NEW l, NEW run,
         IsRun(context, committed, committed', l, n, run),
         IsTransaction(sender, l, n, n, run)
  PROVE  Committed!EngineStep(sender)
<1>1. /\ run[0] = committed /\ run[n] = committed'
      /\ \A i \in 0 .. n : run[i] \in Storage
      /\ \A i \in 1 .. n : Taken(context, run[i - 1], run[i], l[i])
  BY DEF IsRun
<1>2. committed \in Storage
  BY <1>1
<1>3. CollateralAmounts \subseteq Nat /\ DscAmounts \subseteq Nat
  BY EngineAssumption, WordsAreNaturals
<1>4. ASSUME NEW t \in Token, NEW x \in CollateralAmounts, n = 7, IsDeposit(l, 0, sender, t, x)
      PROVE  Committed!EngineStep(sender)
  <2>1. Deposited(run[0], run[0 + 7], sender, t, x)
    <3>1. \A i \in 0 + 1 .. 0 + 7 : Taken(context, run[i - 1], run[i], l[i])
      BY <1>1, <1>4
    <3>2. QED
      BY <3>1, <1>4, DepositIsDone
  <2>2. Committed!DepositCollateral(sender, t, x)
    BY <1>1, <1>2, <1>3, <1>4, <2>1, SimpleTransactions
  <2>3. QED
    BY <2>2 DEF Committed!EngineStep
<1>5. ASSUME NEW t \in Token, NEW x \in CollateralAmounts, n = 7, IsRedemption(l, 0, sender, t, x)
      PROVE  Committed!EngineStep(sender)
  <2>1. /\ x > 0 /\ Redeemed(run[0], run[0 + 7], sender, sender, t, x)
        /\ fineAt(context, run[0 + 7], sender)
    <3>1. \A i \in 0 + 1 .. 0 + 7 : Taken(context, run[i - 1], run[i], l[i])
      BY <1>1, <1>5
    <3>2. QED
      BY <3>1, <1>5, IsRedemptionDone
  <2>2. Committed!RedeemCollateral(sender, t, x)
    BY <1>1, <1>2, <1>3, <1>5, <2>1, SimpleTransactions
  <2>3. QED
    BY <2>2 DEF Committed!EngineStep
<1>6. ASSUME NEW x \in DscAmounts, n = 7, IsMint(l, 0, sender, x)
      PROVE  Committed!EngineStep(sender)
  <2>1. Minted(context, run[0], run[0 + 7], sender, x)
    <3>1. \A i \in 0 + 1 .. 0 + 7 : Taken(context, run[i - 1], run[i], l[i])
      BY <1>1, <1>6
    <3>2. QED
      BY <3>1, <1>6, MintIsDone
  <2>2. Committed!MintDsc(sender, x)
    BY <1>1, <1>2, <1>3, <1>6, <2>1, SimpleTransactions
  <2>3. QED
    BY <2>2 DEF Committed!EngineStep
<1>7. ASSUME NEW x \in DscAmounts, n = 4, IsBurn(l, 0, sender, x)
      PROVE  Committed!EngineStep(sender)
  <2>1. x > 0 /\ Burnt(run[0], run[0 + 4], sender, sender, x)
    <3>1. \A i \in 0 + 1 .. 0 + 4 : Taken(context, run[i - 1], run[i], l[i])
      BY <1>1, <1>7
    <3>2. QED
      BY <3>1, <1>7, IsBurnDone
  <2>2. Committed!BurnDsc(sender, x)
    BY <1>1, <1>2, <1>3, <1>7, <2>1, SimpleTransactions
  <2>3. QED
    BY <2>2 DEF Committed!EngineStep
<1>8. ASSUME NEW t \in Token, NEW x \in CollateralAmounts, NEW y \in DscAmounts, n = 14,
             IsDeposit(l, 0, sender, t, x), IsMint(l, 7, sender, y)
      PROVE  Committed!EngineStep(sender)
  <2>1. Deposited(run[0], run[0 + 7], sender, t, x)
    <3>1. \A i \in 0 + 1 .. 0 + 7 : Taken(context, run[i - 1], run[i], l[i])
      BY <1>1, <1>8
    <3>2. QED
      BY <3>1, <1>8, DepositIsDone
  <2>2. Minted(context, run[7], run[7 + 7], sender, y)
    <3>1. \A i \in 7 + 1 .. 7 + 7 : Taken(context, run[i - 1], run[i], l[i])
      BY <1>1, <1>8
    <3>2. QED
      BY <3>1, <1>8, MintIsDone
  <2>3. Committed!DepositCollateralAndMintDsc(sender, t, x, y)
    BY <1>1, <1>8, <2>1, <2>2, DepositAndMint
  <2>4. QED
    BY <2>3 DEF Committed!EngineStep
<1>9. ASSUME NEW t \in Token, NEW x \in CollateralAmounts, NEW y \in DscAmounts, n = 11,
             IsBurn(l, 0, sender, y), IsRedemption(l, 4, sender, t, x)
      PROVE  Committed!EngineStep(sender)
  <2>1. y > 0 /\ Burnt(run[0], run[0 + 4], sender, sender, y)
    <3>1. \A i \in 0 + 1 .. 0 + 4 : Taken(context, run[i - 1], run[i], l[i])
      BY <1>1, <1>9
    <3>2. QED
      BY <3>1, <1>9, IsBurnDone
  <2>2. /\ x > 0 /\ Redeemed(run[4], run[4 + 7], sender, sender, t, x)
        /\ fineAt(context, run[4 + 7], sender)
    <3>1. \A i \in 4 + 1 .. 4 + 7 : Taken(context, run[i - 1], run[i], l[i])
      BY <1>1, <1>9
    <3>2. QED
      BY <3>1, <1>9, IsRedemptionDone
  <2>3. run[4] \in Storage
    BY <1>1, <1>9
  <2>4. Committed!RedeemCollateralForDsc(sender, t, x, y)
    BY <1>1, <1>2, <1>3, <1>9, <2>1, <2>2, <2>3, BurnAndRedeem
  <2>5. QED
    BY <2>4 DEF Committed!EngineStep
<1>10. ASSUME NEW t \in Token, NEW u \in User, NEW y \in DscAmounts,
              IsLiquidating(l, n, n, run, sender, t, u, y)
       PROVE  Committed!EngineStep(sender)
  <2>1. n = 16
    BY <1>10 DEF IsLiquidating
  <2>2. Liquidated(context, run[0], run[16], sender, t, u, y)
    BY <1>1, <1>2, <1>10, <2>1, LiquidationIsDone
  <2>3. committed.minted[u] \in Nat /\ y \in Nat
    BY <1>2, <1>3, StorageTypes
  <2>4. Committed!Liquidate(sender, t, u, y)
    BY <1>1, <2>1, <2>2, <2>3, AtomicLiquidation
  <2>5. QED
    BY <2>4 DEF Committed!EngineStep
<1>11. QED
  BY <1>4, <1>5, <1>6, <1>7, <1>8, <1>9, <1>10 DEF IsTransaction

\* When a call returns, what it commits is one transaction of its sender.
LEMMA ReturnIsAtomic ==
  ASSUME TokensBehave, CallsIInv, StepsIInv, Return
  PROVE  \E sender \in User : Committed!EngineStep(sender)
<1>1. /\ frames # <<>> /\ frames[1].todo = <<>> /\ frames' = Tail(frames)
      /\ UNCHANGED <<vars, _status, faults>>
  BY DEF Return
<1>2. frames \in Seq(Frame) /\ Len(frames) \in 1 .. 2
  BY <1>1 DEF CallsIInv
<1>3. /\ Len(frames) = 1
      /\ History(context, frames[1].entry, storage, frames[1].sender, <<>>)
  BY <1>1, <1>2, OneCall
<1> DEFINE sender == frames[1].sender
           e == frames[1].entry
<1>4. sender \in User
  <2>1. frames[1] \in Frame
    BY <1>2
  <2>2. QED
    BY <2>1 DEF Frame
<1>5. storage' = storage /\ context' = context /\ UNCHANGED <<dscOwner, updatedAt, now>>
  BY <1>1 DEF storage, context, vars, engineVars, collateralVars, dscLedger, dscVars, oracleVars
<1>6. committed = e /\ committed' = storage
  <2>1. frames' = <<>>
    BY <1>1, <1>2, <1>3
  <2>2. QED
    BY <1>1, <1>3, <1>5, <2>1 DEF committed
<1> HIDE DEF sender, e
<1>7. PICK n \in Nat : \E k \in 0 .. n : \E l, run :
        /\ IsLeft(<<>>, l, n, k) /\ IsRun(context, e, storage, l, k, run)
        /\ IsTransaction(sender, l, n, k, run)
  BY <1>3 DEF History, sender, e
<1>8. PICK k \in 0 .. n : \E l, run :
        /\ IsLeft(<<>>, l, n, k) /\ IsRun(context, e, storage, l, k, run)
        /\ IsTransaction(sender, l, n, k, run)
  BY <1>7
<1>9. PICK l, run :
        /\ IsLeft(<<>>, l, n, k) /\ IsRun(context, e, storage, l, k, run)
        /\ IsTransaction(sender, l, n, k, run)
  BY <1>8
<1>10. k = n
  <2>1. Len(<<>>) = n - k
    BY <1>9 DEF IsLeft
  <2>2. QED
    BY <2>1
<1>11. AtTheEnd
  BY <1>5 DEF AtTheEnd, TokensBehave, CallsIInv
<1>12. IsRun(context, committed, committed', l, n, run) /\ IsTransaction(sender, l, n, n, run)
  BY <1>6, <1>9, <1>10
<1>13. Committed!EngineStep(sender)
  BY <1>4, <1>11, <1>12, TransactionIsAtomic
<1>14. QED
  BY <1>4, <1>13

-----------------------------------------------------------------------------
(* What happens between the transactions *)

\* The operators of the DSC token mean the same of the committed state.
LEMMA CommittedDsc ==
  /\ \A b, a, x : /\ Committed!DSC!CanTransfer(b, a, x) <=> DSC!CanTransfer(b, a, x)
                  /\ Committed!DSC!Debited(b, a, x) = DSC!Debited(b, a, x)
  /\ \A b, a, to, x : /\ Committed!DSC!Transferred(b, a, to, x) = DSC!Transferred(b, a, to, x)
                      /\ Committed!DSC!CanSpend(b, a, to, x) <=> DSC!CanSpend(b, a, to, x)
                      /\ Committed!DSC!Spent(b, a, to, x) = DSC!Spent(b, a, to, x)
                      /\ Committed!DSC!Approved(b, a, to, x) = DSC!Approved(b, a, to, x)
<1>1. \A b, a, x : /\ Committed!DSC!CanTransfer(b, a, x) <=> DSC!CanTransfer(b, a, x)
                   /\ Committed!DSC!Debited(b, a, x) = DSC!Debited(b, a, x)
                   /\ Committed!DSC!Credited(b, a, x) = DSC!Credited(b, a, x)
  BY DEF Committed!DSC!CanTransfer, DSC!CanTransfer, Committed!DSC!Debited, DSC!Debited,
         Committed!DSC!Credited, DSC!Credited
<1>2. \A b, a, to, x : Committed!DSC!Transferred(b, a, to, x) = DSC!Transferred(b, a, to, x)
  BY <1>1 DEF Committed!DSC!Transferred, DSC!Transferred
<1>3. \A b, a, to, x : Committed!DSC!CanSpend(b, a, to, x) <=> DSC!CanSpend(b, a, to, x)
  BY DEF Committed!DSC!CanSpend, DSC!CanSpend
<1>4. \A b, a, to, x : Committed!DSC!Spent(b, a, to, x) = DSC!Spent(b, a, to, x)
  BY DEF Committed!DSC!Spent, DSC!Spent
<1>5. \A b, a, to, x : Committed!DSC!Approved(b, a, to, x) = DSC!Approved(b, a, to, x)
  BY DEF Committed!DSC!Approved, DSC!Approved
<1>6. QED
  BY <1>1, <1>2, <1>3, <1>4, <1>5

\* Between two transactions the chain keeps what everybody sees.
AtRestNow ==
  /\ committed.deposited = s_collateralDeposited
  /\ committed.minted = s_DscMinted
  /\ committed.balances = collateralBalances
  /\ committed.allowances = collateralAllowances
  /\ committed.dsc[1] = dscBalances /\ committed.dsc[2] = dscAllowances
  /\ committed.dsc[3] = dscTotalSupply
  /\ committed.answer = answer
  /\ (committed.deposited)' = s_collateralDeposited'
  /\ (committed.minted)' = s_DscMinted'
  /\ (committed.balances)' = collateralBalances'
  /\ (committed.allowances)' = collateralAllowances'
  /\ (committed.dsc[1])' = dscBalances' /\ (committed.dsc[2])' = dscAllowances'
  /\ (committed.dsc[3])' = dscTotalSupply'
  /\ (committed.answer)' = answer'

\* Between transactions the committed state is what the variables hold.
LEMMA BetweenIsAtRest == ASSUME Between PROVE AtRestNow
<1>1. frames = <<>> /\ frames' = <<>>
  BY DEF Between
<1>2. committed = storage /\ committed' = storage'
  BY <1>1 DEF committed
<1>3. QED
  BY <1>2, StorageFields DEF AtRestNow

\* What they leave alone, the committed state keeps.
LEMMA CommittedVarsNow ==
  ASSUME AtRestNow
  PROVE  /\ UNCHANGED engineVars => UNCHANGED Committed!engineVars
         /\ UNCHANGED collateralVars => UNCHANGED Committed!collateralVars
         /\ UNCHANGED dscVars => UNCHANGED Committed!dscVars
         /\ UNCHANGED oracleVars => UNCHANGED Committed!oracleVars
<1>1. UNCHANGED engineVars => UNCHANGED Committed!engineVars
  BY DEF AtRestNow, engineVars, Committed!engineVars
<1>2. UNCHANGED collateralVars => UNCHANGED Committed!collateralVars
  BY DEF AtRestNow, collateralVars, Committed!collateralVars
<1>3. UNCHANGED dscVars => UNCHANGED Committed!dscVars
  BY DEF AtRestNow, dscVars, Committed!dscVars
<1>4. UNCHANGED oracleVars => UNCHANGED Committed!oracleVars
  BY DEF AtRestNow, oracleVars, Committed!oracleVars
<1>5. QED
  BY <1>1, <1>2, <1>3, <1>4

\* The feeds move for the atomic engine as well.
LEMMA FeedStepIsAtomic == ASSUME AtRestNow, FeedStep PROVE Committed!FeedStep
<1>1. Committed!OracleStep
  <2>1. CASE Tick
    BY <2>1 DEF Tick, Committed!OracleStep, Committed!Tick, AtRestNow
  <2>2. CASE \E f \in Feed, a \in Answers : UpdateAnswer(f, a)
    <3>1. PICK f \in Feed, a \in Answers : UpdateAnswer(f, a)
      BY <2>2
    <3>2. Committed!UpdateAnswer(f, a)
      BY <3>1 DEF UpdateAnswer, Committed!UpdateAnswer, AtRestNow
    <3>3. QED
      BY <3>2 DEF Committed!OracleStep
  <2>3. CASE \E f \in Feed, a \in Answers, m \in RoundTimes : UpdateRoundData(f, a, m)
    <3>1. PICK f \in Feed, a \in Answers, m \in RoundTimes : UpdateRoundData(f, a, m)
      BY <2>3
    <3>2. Committed!UpdateRoundData(f, a, m)
      BY <3>1 DEF UpdateRoundData, Committed!UpdateRoundData, AtRestNow
    <3>3. QED
      BY <3>2 DEF Committed!OracleStep
  <2>4. QED
    BY <2>1, <2>2, <2>3 DEF FeedStep, OracleStep
<1>2. UNCHANGED <<Committed!engineVars, Committed!collateralVars, Committed!dscVars>>
  BY CommittedVarsNow DEF FeedStep
<1>3. QED
  BY <1>1, <1>2 DEF Committed!FeedStep

\* Holders use their DSC.
LEMMA UseOfDscIsAtomic ==
  ASSUME AtRestNow, NEW sender \in User, UseDsc(sender)
  PROVE  Committed!UseDsc(sender)
<1>1. UNCHANGED <<Committed!engineVars, Committed!collateralVars, Committed!oracleVars>>
  BY CommittedVarsNow DEF UseDsc
<1>2. PICK to \in Holder :
        \/ \E x \in TransferAmounts :
             \/ DSC!Transfer(sender, to, x)
             \/ \E from \in User : DSC!TransferFrom(sender, from, to, x)
             \/ to \in User /\ DSC!BurnFrom(sender, to, x)
        \/ \E x \in ApprovalAmounts : to \in DscSpenders /\ DSC!Approve(sender, to, x)
  BY DEF UseDsc
<1>3. to \in Committed!Holder
  BY DEF Committed!Holder, Holder
<1>4. ASSUME NEW x, DSC!Transfer(sender, to, x) PROVE Committed!DSC!Transfer(sender, to, x)
  BY <1>4, CommittedDsc DEF AtRestNow, DSC!Transfer, Committed!DSC!Transfer
<1>5. ASSUME NEW x, NEW from, DSC!TransferFrom(sender, from, to, x)
      PROVE  Committed!DSC!TransferFrom(sender, from, to, x)
  BY <1>5, CommittedDsc DEF AtRestNow, DSC!TransferFrom, Committed!DSC!TransferFrom
<1>6. ASSUME NEW x, DSC!BurnFrom(sender, to, x) PROVE Committed!DSC!BurnFrom(sender, to, x)
  BY <1>6, CommittedDsc DEF AtRestNow, DSC!BurnFrom, Committed!DSC!BurnFrom
<1>7. ASSUME NEW x, DSC!Approve(sender, to, x) PROVE Committed!DSC!Approve(sender, to, x)
  BY <1>7, CommittedDsc DEF AtRestNow, DSC!Approve, Committed!DSC!Approve
<1>8. \/ \E x \in TransferAmounts :
           \/ Committed!DSC!Transfer(sender, to, x)
           \/ \E from \in User : Committed!DSC!TransferFrom(sender, from, to, x)
           \/ to \in User /\ Committed!DSC!BurnFrom(sender, to, x)
      \/ \E x \in ApprovalAmounts : to \in DscSpenders /\ Committed!DSC!Approve(sender, to, x)
  BY <1>2, <1>4, <1>5, <1>6, <1>7
<1>9. QED
  BY <1>1, <1>3, <1>8 DEF Committed!UseDsc

\* Holders use their tokens.
LEMMA TokenStepIsAtomic ==
  ASSUME AtRestNow, NEW sender \in User, TokenStep(sender)
  PROVE  Committed!TokenStep(sender)
<1>1. CASE \E t \in Token, x \in ApprovalAmounts : ApproveCollateral(sender, t, x)
  <2>1. PICK t \in Token, x \in ApprovalAmounts : ApproveCollateral(sender, t, x)
    BY <1>1
  <2>2. \A b : Committed!Approved(b, sender, Engine, x) = Approved(b, sender, Engine, x)
    BY DEF Committed!Approved, Approved
  <2>3. /\ UNCHANGED <<Committed!engineVars, Committed!dscVars, Committed!oracleVars>>
        /\ (committed.balances)' = committed.balances
    BY <2>1, CommittedVarsNow DEF ApproveCollateral, AtRestNow
  <2>4. (committed.allowances)' =
          [committed.allowances EXCEPT ![t] = Approved(@, sender, Engine, x)]
    BY <2>1 DEF ApproveCollateral, AtRestNow
  <2>5. Committed!ApproveCollateral(sender, t, x)
    BY <2>2, <2>3, <2>4 DEF Committed!ApproveCollateral
  <2>6. QED
    BY <2>5 DEF Committed!TokenStep
<1>2. CASE \E t \in Token, to \in Holder, x \in TransferAmounts :
             TransferCollateral(sender, to, t, x)
  <2>1. PICK t \in Token, to \in Holder, x \in TransferAmounts :
          TransferCollateral(sender, to, t, x)
    BY <1>2
  <2>2. /\ UNCHANGED <<Committed!engineVars, Committed!dscVars, Committed!oracleVars>>
        /\ (committed.allowances)' = committed.allowances
    BY <2>1, CommittedVarsNow DEF TransferCollateral, AtRestNow
  <2>3. /\ t \notin TransferFails /\ CanTransfer(committed.balances[t], sender, x)
        /\ (committed.balances)' =
             [committed.balances EXCEPT ![t] = Transferred(@, sender, to, x)]
    BY <2>1 DEF TransferCollateral, AtRestNow
  <2>4. Committed!TransferCollateral(sender, to, t, x)
    BY <2>2, <2>3, CommittedTokens DEF Committed!TransferCollateral
  <2>5. to \in Committed!Holder
    BY DEF Committed!Holder, Holder
  <2>6. QED
    BY <2>4, <2>5 DEF Committed!TokenStep
<1>3. CASE UseDsc(sender)
  BY <1>3, UseOfDscIsAtomic DEF Committed!TokenStep
<1>4. QED
  BY <1>1, <1>2, <1>3 DEF TokenStep

\* What happens between transactions is a step of the atomic engine.
LEMMA BetweenIsAtomic == ASSUME Between PROVE Committed!Next
<1>1. AtRestNow
  BY BetweenIsAtRest
<1>2. CASE FeedStep
  <2>1. Committed!FeedStep
    BY <1>1, <1>2, FeedStepIsAtomic
  <2>2. QED
    BY <2>1 DEF Committed!Next
<1>3. CASE \E sender \in User : TokenStep(sender)
  <2>1. PICK sender \in User : TokenStep(sender)
    BY <1>3
  <2>2. Committed!TokenStep(sender)
    BY <1>1, <2>1, TokenStepIsAtomic
  <2>3. QED
    BY <2>2 DEF Committed!Next
<1>4. QED
  BY <1>2, <1>3 DEF Between

-----------------------------------------------------------------------------
(* The refinement *)

\* Nothing of a transaction is kept before it is over.
LEMMA NothingIsKept ==
  ASSUME committed' = committed, UNCHANGED <<dscOwner, updatedAt, now>>
  PROVE  UNCHANGED Committed!vars
BY DEF Committed!vars, Committed!engineVars, Committed!collateralVars, Committed!dscVars,
       Committed!oracleVars

\* Every step of the detailed engine is one of the atomic engine or a stutter.
LEMMA CommittedNextSteps ==
  ASSUME TokensBehave, CallsIInv, CallsIInv', StepsIInv, [CallsNext]_callsVars
  PROVE  [Committed!Next]_(Committed!vars)
<1>1. CASE UNCHANGED callsVars
  <2>1. storage' = storage /\ frames' = frames
    BY <1>1 DEF callsVars, storage, vars, engineVars, collateralVars, dscLedger, dscVars,
                oracleVars
  <2>2. committed' = committed
    BY <2>1 DEF committed
  <2>3. UNCHANGED <<dscOwner, updatedAt, now>>
    BY <1>1 DEF callsVars, vars, dscVars, oracleVars
  <2>4. QED
    BY <2>2, <2>3, NothingIsKept
<1>2. CASE \/ Check \/ Enter \/ Leave \/ ChangeDeposit \/ ChangeDebt \/ Seize \/ Sweep
           \/ PullCollateral \/ PushCollateral \/ MintTokens \/ PullDsc \/ BurnTokens
  <2>1. PICK pre : frames # <<>> /\ Continue(pre)
    BY <1>2, StepsContinue
  <2>2. committed' = committed
    BY <2>1, CommittedGoesOn
  <2>3. UNCHANGED <<dscOwner, updatedAt, now>>
    BY <2>1 DEF Continue, outside
  <2>4. QED
    BY <2>2, <2>3, NothingIsKept
<1>3. CASE Return
  <2>1. PICK sender \in User : Committed!EngineStep(sender)
    BY <1>3, ReturnIsAtomic
  <2>2. QED
    BY <2>1 DEF Committed!Next
<1>4. CASE Revert
  <2>1. committed' = committed
    BY <1>4, CommittedReverts
  <2>2. UNCHANGED <<dscOwner, updatedAt, now>>
    BY <1>4 DEF Revert, outside
  <2>3. QED
    BY <2>1, <2>2, NothingIsKept
<1>5. CASE \E sender \in User : Begin(sender) \/ CallBack(sender)
  <2>1. PICK sender \in User : Begin(sender) \/ CallBack(sender)
    BY <1>5
  <2>2. committed' = committed
    BY <2>1, CommittedBegins
  <2>3. UNCHANGED <<dscOwner, updatedAt, now>>
    BY <2>1 DEF Begin, CallBack, vars, dscVars, oracleVars
  <2>4. QED
    BY <2>2, <2>3, NothingIsKept
<1>6. CASE Between
  BY <1>6, BetweenIsAtomic
<1>7. QED
  BY <1>1, <1>2, <1>3, <1>4, <1>5, <1>6 DEF CallsNext

\* The initial states map to initial states.
LEMMA CommittedInit == ASSUME CallsInit PROVE Committed!Init
<1>1. Init /\ frames = <<>>
  BY DEF CallsInit
<1>2. committed = storage
  BY <1>1 DEF committed
<1>3. Committed!Holder = Holder
  BY DEF Committed!Holder, Holder
<1>4. QED
  BY <1>1, <1>2, <1>3, StorageFields DEF Init, Committed!Init

\* The code's transactions are atomic: when no token calls back or fails, the steps of
\* each of the seven entry points (the modifiers, the changes of the mappings, the token
\* calls and the health checks, in their order) come to one action of DSCEngine, with
\* all its conditions on the state before and the state after, and a transaction that
\* reverts at whatever step comes to nothing.  What is proved of DSCEngine is so true
\* of what the chain keeps.
THEOREM TheStepsAreAtomic == TokensBehave => (CallsSpec => StepsAreAtomic)
<1>1. CASE ~ TokensBehave
  BY <1>1
<1>2. CASE TokensBehave
  <2>1. CallsInit => Committed!Init
    BY CommittedInit
  <2>2. CallsIInv /\ CallsIInv' /\ StepsIInv /\ [CallsNext]_callsVars
          => [Committed!Next]_(Committed!vars)
    BY <1>2, CommittedNextSteps
  <2>3. CallsSpec => []StepsIInv
    BY <1>2, StepsInvariance
  <2>4. QED
    BY <2>1, <2>2, <2>3, CallsInvariance, PTL DEF CallsSpec, StepsAreAtomic, Committed!Spec
<1>3. QED
  BY <1>1, <1>2
=============================================================================
