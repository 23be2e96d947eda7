---------------------------- MODULE DSCEngineCalls -----------------------------
(***************************************************************************)
(* The transactions of DSCEngine step by step: the modifiers, the changes  *)
(* of the books, the calls on the tokens and the checks, in the order of   *)
(* the code, with the ReentrancyGuard and with the revert, which may come  *)
(* at any step (a failed check, a token that refuses, no gas left).        *)
(*                                                                         *)
(* A collateral token may call back: while it is being transferred, before *)
(* and after it moves the amount, any account may call the engine again.   *)
(* The variables of DSCEngine are the storage the running transaction      *)
(* sees; the storage the chain keeps is that of the time before it, until  *)
(* the outermost call returns.                                             *)
(***************************************************************************)
EXTENDS DSCEngineProperties

CONSTANTS
  CallbackTokens,   \* the collateral tokens that call back
  MaxDepth,         \* bound on the calls inside calls
  FaultSets         \* what may be wrong with the tokens: sets of faults

\* MockFailedTransferFrom, MockFailedTransfer, MockFailedMintDSC and MockMoreDebtDSC.
Fault == {"transferFrom", "transfer", "mint", "burnCrashesPrice"}

ASSUME CallsAssumption ==
  /\ CallbackTokens \subseteq Token
  /\ MaxDepth \in Nat \ {0}
  /\ FaultSets \subseteq SUBSET Fault

VARIABLES
  _status,          \* the flag of the ReentrancyGuard
  frames,           \* the calls that have not returned, the innermost first
  faults            \* what is wrong with the tokens; it never changes

NOT_ENTERED == 1
ENTERED == 2

dscLedger == <<dscBalances, dscAllowances, dscTotalSupply>>
outside == <<dscOwner, updatedAt, now, faults>>
callsVars == <<vars, _status, frames, faults>>

storage ==
  [deposited |-> s_collateralDeposited, minted |-> s_DscMinted,
   balances |-> collateralBalances, allowances |-> collateralAllowances,
   dsc |-> dscLedger, answer |-> answer, status |-> _status]

Restore(s) ==
  /\ s_collateralDeposited' = s.deposited /\ s_DscMinted' = s.minted
  /\ collateralBalances' = s.balances /\ collateralAllowances' = s.allowances
  /\ dscBalances' = s.dsc[1] /\ dscAllowances' = s.dsc[2] /\ dscTotalSupply' = s.dsc[3]
  /\ answer' = s.answer /\ _status' = s.status

CallsInit ==
  /\ Init
  /\ _status = NOT_ENTERED
  /\ frames = <<>>
  /\ faults \in FaultSets

-----------------------------------------------------------------------------
(* A call is the list of the steps it still has to take. *)

Step(op, user, token, amount) ==
  [op |-> op, user |-> user, token |-> token, amount |-> amount]

Steps(ops, user, token, amount) ==
  [i \in DOMAIN ops |-> Step(ops[i], user, token, amount)]

DscSteps(ops, user, amount) == Steps(ops, user, ZeroAddress, amount)

nonReentrant(steps) == DscSteps(<<"enter">>, Engine, 0) \o steps \o DscSteps(<<"leave">>, Engine, 0)

depositCollateralCall(sender, token, amount) ==
  Steps(<<"moreThanZero", "isAllowedToken">>, sender, token, amount)
    \o nonReentrant(Steps(<<"recordDeposit", "transferFrom", "transferFromReturned">>,
                          sender, token, amount))

mintDscCall(sender, amount) ==
  DscSteps(<<"moreThanZero">>, sender, amount)
    \o nonReentrant(DscSteps(<<"recordDebt", "checkHealth", "mint", "mintReturned">>,
                             sender, amount))

\* The result of transferFrom needs no step: OpenZeppelin's returns true or reverts.
burnDscSteps(onBehalfOf, dscFrom, amount) ==
  DscSteps(<<"eraseDebt">>, onBehalfOf, amount)
    \o DscSteps(<<"pullDsc", "burn">>, dscFrom, amount)

burnDscCall(sender, amount) ==
  DscSteps(<<"moreThanZero">>, sender, amount) \o burnDscSteps(sender, sender, amount)

redeemCollateralSteps(from, to, token, amount) ==
  Steps(<<"eraseDeposit">>, from, token, amount)
    \o Steps(<<"transfer", "transferReturned">>, to, token, amount)

\* Mutant: the health factor is checked first.
redeemCollateralCheckedBefore(sender, token, amount) ==
  Steps(<<"moreThanZero">>, sender, token, amount)
    \o nonReentrant(DscSteps(<<"checkHealth">>, sender, 0)
                      \o redeemCollateralSteps(sender, sender, token, amount))

redeemCollateralCall(sender, token, amount) ==
  Steps(<<"moreThanZero">>, sender, token, amount)
    \o nonReentrant(redeemCollateralSteps(sender, sender, token, amount)
                      \o DscSteps(<<"checkHealth">>, sender, 0))

liquidateCall(sender, token, user, debtToCover) ==
  Steps(<<"moreThanZero">>, sender, token, debtToCover)
    \o nonReentrant(Steps(<<"seize">>, user, token, debtToCover)
                      \o DscSteps(<<"checkHealth">>, sender, 0))

\* The calls an account can make.
CallsOf(sender) ==
  UNION {
    {depositCollateralCall(sender, t, x) : t \in Token, x \in CollateralAmounts},
    {redeemCollateralCall(sender, t, x) : t \in Token, x \in CollateralAmounts},
    {mintDscCall(sender, x) : x \in DscAmounts},
    {burnDscCall(sender, x) : x \in DscAmounts},
    {depositCollateralCall(sender, t, x) \o mintDscCall(sender, y) :
       t \in Token, x \in CollateralAmounts, y \in DscAmounts},
    {burnDscCall(sender, y) \o redeemCollateralCall(sender, t, x) :
       t \in Token, x \in CollateralAmounts, y \in DscAmounts},
    {liquidateCall(sender, t, u, y) : t \in Token, u \in User, y \in DscAmounts}}

-----------------------------------------------------------------------------
(* Taking a step *)

step == Head(frames[1].todo)

AtStep(op) ==
  /\ frames # <<>>
  /\ frames[1].todo # <<>>
  /\ step.op = op

\* The step is done, and these come next.
Continue(steps) ==
  /\ frames' = [frames EXCEPT ![1].todo = steps \o Tail(@)]
  /\ UNCHANGED outside

\* Mutant: nobody looks at what transfer returns.
succeedsAnyway ==
  \/ AtStep("transferFromReturned") /\ "transferFrom" \notin faults
  \/ AtStep("transferReturned")
  \/ AtStep("mintReturned") /\ "mint" \notin faults

\* The tests of what a token returned.
succeeds ==
  \/ AtStep("transferFromReturned") /\ "transferFrom" \notin faults
  \/ AtStep("transferReturned") /\ "transfer" \notin faults
  \/ AtStep("mintReturned") /\ "mint" \notin faults

\* A modifier lets the call go on to the body of the function.
modifierPasses ==
  \/ AtStep("moreThanZero") /\ step.amount > 0
  \/ AtStep("isAllowedToken") /\ step.token \in Collateral

\* Mutant: liquidate does not compare the health factors.
passesUnimproved ==
  \/ modifierPasses
  \/ AtStep("checkHealth") /\ healthFactorIsFine(step.user)
  \/ AtStep("checkImproved")

\* The modifiers, and the health checks after the changes: the sender's own, and in
\* liquidate the comparison with the factor of the beginning before it.
passes ==
  \/ modifierPasses
  \/ AtStep("checkHealth") /\ healthFactorIsFine(step.user)
  \/ /\ AtStep("checkImproved")
     /\ healthFactorReturns(step.user)
     /\ healthFactor(step.user) > step.amount

Check ==
  /\ passes \/ succeeds
  /\ Continue(<<>>)
  /\ UNCHANGED <<engineVars, collateralVars, dscLedger, answer, _status>>

\* Mutant: the flag is not looked at.
EnterAnyway ==
  /\ AtStep("enter")
  /\ _status' = ENTERED
  /\ Continue(<<>>)
  /\ UNCHANGED <<engineVars, collateralVars, dscLedger, answer>>

Enter ==
  /\ AtStep("enter")
  /\ _status # ENTERED
  /\ _status' = ENTERED
  /\ Continue(<<>>)
  /\ UNCHANGED <<engineVars, collateralVars, dscLedger, answer>>

Leave ==
  /\ AtStep("leave")
  /\ _status' = NOT_ENTERED
  /\ Continue(<<>>)
  /\ UNCHANGED <<engineVars, collateralVars, dscLedger, answer>>

-----------------------------------------------------------------------------
(* The books *)

ChangeDeposit ==
  \E change \in {-1, 1} :
    /\ AtStep(IF change = 1 THEN "recordDeposit" ELSE "eraseDeposit")
    /\ Fits(s_collateralDeposited[step.user][step.token] + change * step.amount)
    /\ s_collateralDeposited' =
         [s_collateralDeposited EXCEPT ![step.user][step.token] = @ + change * step.amount]
    /\ Continue(<<>>)
    /\ UNCHANGED <<s_DscMinted, collateralVars, dscLedger, answer, _status>>

ChangeDebt ==
  \E change \in {-1, 1} :
    /\ AtStep(IF change = 1 THEN "recordDebt" ELSE "eraseDebt")
    /\ Fits(s_DscMinted[step.user] + change * step.amount)
    /\ s_DscMinted' = [s_DscMinted EXCEPT ![step.user] = @ + change * step.amount]
    /\ Continue(<<>>)
    /\ UNCHANGED <<s_collateralDeposited, collateralVars, dscLedger, answer, _status>>

\* liquidate, up to the first transfer: the health factor of this moment is kept
\* for the comparison at the end.
Seize ==
  /\ AtStep("seize")
  /\ healthFactorReturns(step.user)
  /\ healthFactor(step.user) < MIN_HEALTH_FACTOR
  /\ step.token \in Collateral
  /\ totalCollateralToRedeemReturns(answer[step.token], step.amount)
  /\ LET sender == frames[1].sender
         seized == totalCollateralToRedeem(answer[step.token], step.amount)
     IN  Continue(redeemCollateralSteps(step.user, sender, step.token, seized)
                    \o Steps(<<"sweep">>, step.user, step.token, 0)
                    \o burnDscSteps(step.user, sender, step.amount)
                    \o DscSteps(<<"checkImproved">>, step.user, healthFactor(step.user)))
  /\ UNCHANGED <<engineVars, collateralVars, dscLedger, answer, _status>>

\* Mutant: the rest is left where it is.
SweepNothing ==
  /\ AtStep("sweep")
  /\ Continue(<<>>)
  /\ UNCHANGED <<engineVars, collateralVars, dscLedger, answer, _status>>

\* _sentAmountLeftToDscPool reads the deposit when its turn comes.
Sweep ==
  /\ AtStep("sweep")
  /\ Continue(redeemCollateralSteps(step.user, Pool, step.token,
                s_collateralDeposited[step.user][step.token]))
  /\ UNCHANGED <<engineVars, collateralVars, dscLedger, answer, _status>>

-----------------------------------------------------------------------------
(* The tokens *)

\* A token that returns false has not moved anything.
PullCollateral ==
  /\ AtStep("transferFrom")
  /\ \/ /\ "transferFrom" \in faults
        /\ UNCHANGED collateralVars
     \/ /\ "transferFrom" \notin faults
        /\ CanSpend(collateralAllowances[step.token], step.user, Engine, step.amount)
        /\ CanTransfer(collateralBalances[step.token], step.user, step.amount)
        /\ collateralAllowances' = [collateralAllowances EXCEPT ![step.token] =
             Spent(@, step.user, Engine, step.amount)]
        /\ collateralBalances' = [collateralBalances EXCEPT ![step.token] =
             Transferred(@, step.user, Engine, step.amount)]
  /\ Continue(<<>>)
  /\ UNCHANGED <<engineVars, dscLedger, answer, _status>>

PushCollateral ==
  /\ AtStep("transfer")
  /\ \/ /\ "transfer" \in faults
        /\ UNCHANGED collateralBalances
     \/ /\ "transfer" \notin faults
        /\ CanTransfer(collateralBalances[step.token], Engine, step.amount)
        /\ collateralBalances' = [collateralBalances EXCEPT ![step.token] =
             Transferred(@, Engine, step.user, step.amount)]
  /\ Continue(<<>>)
  /\ UNCHANGED <<engineVars, collateralAllowances, dscLedger, answer, _status>>

MintTokens ==
  /\ AtStep("mint")
  /\ Fits(dscTotalSupply + step.amount)
  /\ dscTotalSupply' = dscTotalSupply + step.amount
  /\ dscBalances' = Credited(dscBalances, step.user, step.amount)
  /\ Continue(<<>>)
  /\ UNCHANGED <<engineVars, collateralVars, dscAllowances, answer, _status>>

PullDsc ==
  /\ AtStep("pullDsc")
  /\ CanSpend(dscAllowances, step.user, Engine, step.amount)
  /\ CanTransfer(dscBalances, step.user, step.amount)
  /\ dscAllowances' = Spent(dscAllowances, step.user, Engine, step.amount)
  /\ dscBalances' = Transferred(dscBalances, step.user, Engine, step.amount)
  /\ Continue(<<>>)
  /\ UNCHANGED <<engineVars, collateralVars, dscTotalSupply, answer, _status>>

\* MockMoreDebtDSC crashes one aggregator when it burns; here every feed falls to
\* zero, which is the same where there is one and the worse case where there are more.
BurnTokens ==
  /\ AtStep("burn")
  /\ CanTransfer(dscBalances, Engine, step.amount)
  /\ dscBalances' = Debited(dscBalances, Engine, step.amount)
  /\ dscTotalSupply' = dscTotalSupply - step.amount
  /\ answer' = IF "burnCrashesPrice" \in faults THEN [t \in Feed |-> 0] ELSE answer
  /\ Continue(<<>>)
  /\ UNCHANGED <<engineVars, collateralVars, dscAllowances, _status>>

-----------------------------------------------------------------------------
(* Calls *)

Call(sender) ==
  \E todo \in CallsOf(sender) :
    frames' = <<[sender |-> sender, todo |-> todo, entry |-> storage]>> \o frames

\* The outermost call of a transaction.
Begin(sender) ==
  /\ frames = <<>>
  /\ Call(sender)
  /\ UNCHANGED <<vars, _status, faults>>

CallBack(sender) ==
  /\ \E op \in {"transferFrom", "transferFromReturned", "transfer", "transferReturned"} :
       AtStep(op)
  /\ step.token \in CallbackTokens
  /\ Len(frames) < MaxDepth
  /\ Call(sender)
  /\ UNCHANGED <<vars, _status, faults>>

Return ==
  /\ frames # <<>>
  /\ frames[1].todo = <<>>
  /\ frames' = Tail(frames)
  /\ UNCHANGED <<vars, _status, faults>>

\* The innermost calls fail: whoever made the outermost of them sees a failure
\* and can go on, the storage is what it was when they began.
Revert ==
  \E failed \in DOMAIN frames :
    /\ Restore(frames[failed].entry)
    /\ frames' = SubSeq(frames, failed + 1, Len(frames))
    /\ UNCHANGED outside

\* Between transactions the holders use their tokens and the feeds publish.
Between ==
  /\ frames = <<>>
  /\ FeedStep \/ \E sender \in User : TokenStep(sender)
  /\ UNCHANGED <<_status, frames, faults>>

CallsNext ==
  \/ Check \/ Enter \/ Leave
  \/ ChangeDeposit \/ ChangeDebt \/ Seize \/ Sweep
  \/ PullCollateral \/ PushCollateral \/ MintTokens \/ PullDsc \/ BurnTokens
  \/ Return \/ Revert
  \/ \E sender \in User : Begin(sender) \/ CallBack(sender)
  \/ Between

CallsSpec == CallsInit /\ [][CallsNext]_callsVars

-----------------------------------------------------------------------------

\* What the chain keeps: nothing of a transaction until it is over.
committed == IF frames = <<>> THEN storage ELSE frames[Len(frames)].entry

Committed == INSTANCE DSCEngineProperties WITH
  s_collateralDeposited <- committed.deposited, s_DscMinted <- committed.minted,
  collateralBalances <- committed.balances,
  collateralAllowances <- committed.allowances,
  dscBalances <- committed.dsc[1], dscAllowances <- committed.dsc[2],
  dscTotalSupply <- committed.dsc[3], answer <- committed.answer

\* With tokens that do what they should, the steps of every transaction amount to
\* one of the atomic actions of DSCEngine, or to nothing if it reverts: the
\* atomicity that DSCEngine takes for granted.
StepsAreAtomic == Committed!Spec

\* Whatever the tokens do - call back before or after they move an amount, return
\* false, move a price - the engine keeps its promise to its accounts.
CallsKeepPromise == Committed!KeepsPromise

\* An account with several collaterals that is liquidated in part, step by step and
\* out of one of them, ends with less debt and a better health factor.
PartialLiquidationsImprove == Committed!RiskIncreaseEndsHealthy

\* A payment that a token refuses by returning false is undone in the books: no
\* deposit is recorded or erased without the tokens to go with it.
FailedPaymentsAreUndone == Committed!SurplusOnlyFromDonation

inside(frame) ==
  LET count(op) == Cardinality({i \in DOMAIN frame.todo : frame.todo[i].op = op})
  IN  count("leave") > count("enter")

\* Of all the calls on the stack at most one is between the two halves of a
\* nonReentrant, and the flag says whether there is one - after a failed call
\* inside a call as well; so no transaction leaves the engine locked.
GuardIsExact ==
  Cardinality({i \in DOMAIN frames : inside(frames[i])})
    = IF _status = ENTERED THEN 1 ELSE 0
=============================================================================
