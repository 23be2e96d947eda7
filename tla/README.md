# A formal model of the DSC stablecoin

TLA+ modules of the contracts in `src/src`, the TLC runs that check them on
small instances, and TLAPS proofs of what matters most for every instance.

## 1. The system

Users deposit collateral (WETH, WBTC) in `DSCEngine` and mint DSC, a token
pegged to the dollar, against it. An account must keep collateral worth twice
its debt (health factor at least `MIN_HEALTH_FACTOR`); whoever finds it below
may liquidate it: pay (part of) its debt in DSC and receive collateral worth
the payment and ten percent. What is then left of the deposit goes to `DSCPool`.

| Component | State | Operations that change it | Where it is modelled |
|---|---|---|---|
| `DSCEngine` | deposits per user and token, debt per user | deposit, redeem, mint, burn, the two combined calls, liquidate | `DSCEngine`, `CollateralMath` |
| `OracleLib`, price feeds | answer and timestamp per feed, block time | a feed publishes, time passes | `OracleLib` |
| `DecentralisedStableCoin` | balances, allowances, supply, owner | mint, burn (owner); transfer, approve, burnFrom (anyone); ownership | `DecentralisedStableCoin`, `ERC20` |
| `DSCPool` | its entries in the collateral tokens, its Ether | withdraw | `DSCPool` |
| Collateral tokens (ERC20) | balances, allowances to the engine | transfer, approve, transferFrom | `ERC20`, inside `DSCEngine` |
| `ReentrancyGuard` | a flag | entering and leaving a guarded function | `DSCEngineCalls` |
| Tokens that report failure (the mocks of the tests) | - | return false, crash the price | `DSCEngineCalls` |
| `DeployDSC`, `HelperConfig` | which contracts exist, who owns DSC | broadcast transactions | `Deployment` |
| OpenZeppelin's `Checkpoints`, `SafeCast` | a list of checkpoints | push | `Checkpoints`, `SafeCast` |
| OpenZeppelin's `EnumerableSet`, `EnumerableMap` | an array and two mappings | add, set, remove | `EnumerableSet`, `EnumerableMap` |

The last two rows are libraries vendored with the repository, as templates
that a script turns into Solidity
(`lib/openzeppelin-contracts/scripts/generate/templates`). None of the contracts
above uses them. They are modelled because they are the only JavaScript of the
repository with logic of its own; the rest of this document keeps the two
systems apart.

The engine calls the collateral tokens (`transferFrom` to take a deposit,
`transfer` to pay out), the DSC token it owns (`mint`, `transferFrom`, `burn`)
and the feeds (`latestRoundData`, directly or behind the stale check). Nothing
calls the engine back unless a collateral token does. The deployment script
creates the contracts one by one and gives the DSC token away last.

What is hard here: prices move between any two transactions; a liquidation pays
out of one deposit twice and changes two accounts and three ledgers; accounts
with several collaterals can be liquidated in part, repeatedly; DSC travels
freely and can be burned behind the engine's back; feeds stop, or answer zero
or less; every comparison sits behind divisions that round; a token may call back,
or refuse, in the middle of a transaction; the script may stop for good between two
transactions, and users use what is there. In the libraries: searches
by halving that rely on an order nobody states, narrow words, a removal that
moves another entry. The list, line by line, is `hazards` in `PROJECT.json`.

## 2. The modules

| Module | Contents |
|---|---|
| `Uint256` | words, checked arithmetic as a condition (`Fits`), the wrapping cast of an `int256` |
| `ERC20` | the ledger operations on a table of balances and a table of allowances, constant-level, so that several can be chained in one transaction |
| `DecentralisedStableCoin` | the DSC token as a state machine of its own, with any owner |
| `CollateralMath` | value, amount, health factor and bonus; for each computation `f`, `fReturns` says whether its checked arithmetic returns |
| `OracleLib` | feeds, block time and the stale-price check |
| `DSCEngine` | the composition: the engine's transactions on its mappings, the collateral tokens, the DSC token (`DSC == INSTANCE DecentralisedStableCoin`) and the feeds |
| `DSCEngineProperties` | what makes it correct |
| `CollateralisedDebt` | the abstract specification: accounts that only get riskier if they end healthy or are liquidated, tokens that never fall behind the books |
| `DSCEngineCalls` | the same transactions step by step: modifiers, guard, changes of the books, external calls, checks; calls inside calls, reverts, tokens that misbehave |
| `Deployment` | the script's transactions, where it may stop, and the system running while it is deployed, with the pool |
| `DSCEngineAvailability` | what it must let its accounts do; apart, because it uses `ENABLED` and the proofs extend `DSCEngineProperties` |
| `DSCEngineClaims` | what comments and tests say and the code does not do |
| `DSCPool` | the pool |
| `SafeCast`, `Checkpoints`, `ValueHistory` | the checked casts; the histories of the three checkpoint types; abstractly, a value with a past |
| `EnumerableSet`, `EnumerableMap`, `KeyValueStore` | the set; the sets and maps of all types; abstractly, a store of values by key |
| `MC...` | small instances for TLC |
| `ERC20Proofs` | sums over finite tables, and what the ledger operations do to them |
| `DecentralisedStableCoinProofs` | theorems about the DSC token |
| `DSCEngineProofs` | theorems about the arithmetic and the engine: its books; the health of accounts, solvency and the refinement of `CollateralisedDebt`; transactions that always go through |
| `DSCEngineCallsProofs` | theorems about the engine step by step, with tokens that call back or fail |
| `DSCEngineStepsProofs` | with tokens that do neither, the steps of a transaction amount to one atomic action of `DSCEngine` |
| `DeploymentProofs` | theorems about the deployment and the pool |
| `CheckpointsProofs`, `EnumerableMapProofs` | theorems about the libraries |

How the code maps to the model:

* An action is a transaction. A `require`, a custom error, a checked underflow,
  overflow or division by zero anywhere in the call makes it revert as a whole,
  so each is a conjunct of the action. Functions that other functions call
  (`_burnDsc`, `_redeemCollateral`, `depositCollateral`, `mintDsc`) are
  conjunctions with a lower-case name, composed the way the code composes them.
* A health check after a change is the health factor of the next state:
  `healthFactorIsFine(sender)'`. `liquidate` compares `healthFactor(user)'`
  with `healthFactor(user)`.
* The loop over `s_collateralTokens` is a sum over the positions of the list,
  so it reads every feed (and reverts on any stale one) for every account.
* `_redeemCollateral` to the liquidator followed by `_sentAmountLeftToDscPool`
  is `seizeCollateral`: two transfers out of one deposit, which ends at zero.
* `getTokenAmountFromUsd` reads the feed without the stale check,
  `getUsdValue` with it, as in the code.
* The actions put no bound on their arguments; the sets of amounts are
  constants of the instances. `increaseAllowance` and `decreaseAllowance` are
  actions of `DecentralisedStableCoin`; in `DSCEngine`, where any approval is
  possible anyway, `approve` stands for them.
* In `DSCEngineCalls` a transaction is a list of steps that the innermost call on a
  stack still has to take, in the order of the code. A failed check is a step
  that is not enabled, and `Revert` may undo the innermost calls at any time (a
  check, a token that refuses, no gas), which covers every reason to fail. An
  inner call that fails gives back the storage of its beginning and its caller
  goes on, as with a `try`. The variables of `DSCEngine` are what the running
  transaction sees; `committed` is what the chain keeps.
* A token calls back before or after it moves the amount, on behalf of any
  account, up to `MaxDepth` calls deep; prices and holders move between
  transactions only (but for a burn that crashes the price).
* In `Deployment` every variable of the system exists from the start and is empty;
  what is not deployed cannot be called. The pool is an instance of `DSCPool` on
  the engine's own token tables.
* Positions of the arrays in `Checkpoints` and `EnumerableSet` are counted from
  zero where the code's arguments are; a call that would revert is an action that
  is not enabled, or a read whose `...Returns` does not hold. A word and an address
  are numbers, the address being the narrower; `type` and `historyType` say which
  of the generated contracts a behaviour is about.
* `Init` of `DSCEngine` is the state after `DeployDSC`, with some collateral in
  the wallets of the users and possibly an approval to the engine.
* Definitions headed "Mutant" are not part of the model. Each is a definition
  changed the way a plausible bug would, and shows that a property can fail.

## 3. The runs

Dollars are scaled: `PRECISION = 10`, `ADDITIONAL_FEED_PRECISION = 5`, so an
answer of 2 is one dollar, and a `uint256` ends at 9999 (an allowance of 9999
is the unlimited one). The code only uses these as factors; the percentages
(50, 100, 10) are the code's own.

| Run | Question | Bounds |
|---|---|---|
| `dsc_token` | Does the token keep its books whatever its owner does? | two accounts, two-bit words |
| `prices` | One collateral with a moving price: who can be liquidated, who can get out, is the system solvent, does it implement `CollateralisedDebt`? | two users, deposits of 20, DSC in 10 and 25, trades of 20, prices 1, 1.5, 2 dollars and one at which values overflow |
| `ledgers` | Finite approvals, zero amounts, donations, burnFrom: do books and tokens agree, and is it still `CollateralisedDebt`? | two users, everything in tens |
| `staleness` | Feeds that stop, lie about time, answer -1 or 0; an unlisted token and one that cannot be paid out | timeout 1, three block times, rounds at 0 and 2, DSC in 20, prices of 1.5 and 2 dollars, so that a liquidation can go through |
| `steps` | Two collaterals, partial liquidations, step by step: is a transaction atomic? | two users, one of them without weth, deposits of 20, DSC in 18, prices 1 and 2 dollars each |
| `calls` | Calls inside calls, failing tokens | two users, one token that calls back, two calls deep, at most one fault per behaviour |
| `deploy` | A script that stops, early users, the pool behind the engine | both networks, a stop after any transaction, the deployer and a user |
| `checkpoints` | Do the histories keep the past, and do all lookups find it? | five-bit words, block numbers of three bits, six keys |
| `enumerable_map` | Does a map stay a map in any order of writes? | words 0..4, addresses 0..3, four keys, values 0, 2, 4 |

The amounts are chosen so that the cases happen: 20 tokens at one dollar against
10 DSC is a health factor of exactly the minimum; 25 DSC make the bonus round;
40 tokens against 35 DSC at 1.5 dollars could pay a part of the debt, and does
not because of the pool; with 20 tokens of two kinds and 36 DSC a fall of one
price allows a liquidation of 18 that leaves 18. Two users suffice for every
property: each relates at most an account, its liquidator and the totals.
Two calls deep is enough for every pair of functions to meet: all that can complete
inside another call is `burnDsc`, the others find the guard, and it moves no
collateral token that could call back a third time. The three bits of a block
number make it outgrow its key; more than five checkpoints make the recent search
cut the list (`len > 5`), on both sides of the cut; four keys let a removal hit
the first, a middle, the last and the only entry.

Properties worth a word:

* `SolventWhileHealthy`: as long as nobody can be liquidated, the engine holds
  twice the value of all DSC - through roundings, donations and burnFrom.
* `OnlyPricesBreakHealth`: no transaction of anybody makes a healthy account
  unhealthy. `RiskIncreaseEndsHealthy` is its counterpart for all accounts.
* `HealthyKeepsCollateral`: what leaves a healthy account's deposit arrives in
  its own wallet.
* `PositionCanBeClosed`: whoever has the DSC to repay gets the deposit out in
  full, healthy or not. In `deploy` the same holds of a half of the system that
  nobody completes: a deposit into an engine that never gets to own the DSC token
  is not lost.
* `SurplusOnlyFromDonation`, `DebtGapOnlyFromBurnFrom`: the engine's books and
  the two kinds of tokens drift apart only through transfers and burns that pass
  the engine by, and only in the harmless direction.
* `SingleCollateralLiquidationIsFull`: a consequence of the sweep to the pool.
* `LiquidatableFrom110Percent`: the other side of section 4: from 110 percent on, no
  rounding and no transfer to the pool keeps a liquidator away.
* `RiskNeedsGoodPrices`: stale, future or negative prices stop every
  transaction that could add risk.
* `KeepsPromise`, `StepsAreAtomic`, `CallsKeepPromise`: a chain of refinements.
  The first is checked where liquidations, trades, donations and burnFrom happen
  (`prices`, `ledgers`).
  With tokens that behave, the steps of `DSCEngineCalls` implement the atomic
  `DSCEngine`, which implements `CollateralisedDebt`. With tokens that call back or
  fail, they are not always one atomic action (an inner `burnDsc` commits together
  with the redemption around it), but they still implement `CollateralisedDebt`.
* `GuardIsExact`: the flag is set exactly while one call on the stack is inside a
  guarded function, through calls that fail inside calls.
* `NothingMintedBeforeHandOver`: users may deposit before the engine owns the DSC
  token; nothing can be minted, so a deployment that stops halfway leaves no debt.
* `IsValueHistory`, `IsKeyValueStore`: the two libraries implement what their
  documentation promises: a value with an unchangeable past; a store by key.
* `MinedBlocksAreFinal`: what `getAtBlock` says of a block it says for ever.

Fairness is assumed in one place, the deployment: the script sends its next
transaction as long as it is not stopped (`Confirm` weakly fair), because `run()`
is straight-line code. It may be stopped at any time, and nothing is assumed of
whoever runs it: `make deploy` starts from the first transaction and puts another,
unrelated system next to what is there. `EngineEndsUpOwner` therefore says "unless
it is stopped", whatever users do meanwhile; what it excludes is a transaction that
waits for something the script has not deployed yet. Nobody is obliged to call the
engine, so no fairness is justified for its actions, and what accounts must be able
to do is stated with `ENABLED`.

All passing runs check for deadlock but `deploy`, where the system really may end: a
script that is stopped on a local chain before its first transaction leaves nothing
to call.

## 4. Where the code and its documentation disagree

Each of these is a run TLC must refute, listed under `findings`:

* `PartialLiquidationPossible` (DSCEngine.sol:200): not for an account with one
  kind of collateral.
* `LiquidatableAbove100Percent` (DSCEngine.sol:203): between 100 and 110 percent
  the whole debt cannot be covered, the deposit does not pay for the bonus.
* `CollectedCanBeWithdrawn` (DSCPool.sol): `withdraw` compares the amount with
  the pool's Ether, of which it has none.

Not runs of their own:

* "At no point, should the value of all collateral <= the $ pegged value of all the
  DSC" (DSCEngine.sol:23, asserted in Invariants.t.sol:46). A fast fall of a price
  breaks it; the fuzzing handler never changes one. What holds is
  `SolventWhileHealthy`.
* "If a price is stale, the function will revert, and render the DSCEngine unusable"
  (OracleLibs.sol:10). Deposits and repayments read no price and go on; what does
  stop is everything in `RiskNeedsGoodPrices`.
* `burnFrom` is inherited by the DSC token although `burn` is restricted to the
  owner; `DebtGapOnlyFromBurnFrom` shows what that leaves behind.

## 5. What is proved

For every value of the constants (number of accounts, word size, amounts,
precisions), from the `ASSUME`s of the modules alone:

* `DecentralisedStableCoinProofs`: `Spec => []TypeOK`, `Spec => []SupplyIsHeld`
  and `Spec => RenouncedIsFinal`. `TypeOK` is not inductive, because the token
  adds to balances unchecked, nor is `SupplyIsHeld` without types; their
  conjunction `IInv` is: an entry never exceeds the sum, and the sum is a word.
* `ERC20Proofs`: the sum of a table over a finite set (`SumFunction` of the
  community modules) - its type, that no entry exceeds it, and how it changes
  with one entry (`SumUpdate`); then what a payment does to a ledger
  (`TransferredLedger`: no entry wraps, although the code adds unchecked). The
  induction over subsets uses that the strict subsets of a finite set are well
  founded, in the form of a minimal counterexample.
* `DSCEngineProofs`, first part, the arithmetic: the health factor reaches the minimum exactly when the
  collateral is worth twice the debt (`HealthyIsTwiceTheDebt`: neither rounding
  matters there); conversions to collateral and back never gain
  (`RoundTripNeverGains`); a liquidator gets at most 110 percent
  (`BonusIsAtMostTenPercent`); 110 percent suffice to pay it
  (`CoverableAt110Percent`). All rest on one lemma, `QuotientAtLeast`: a rounded
  quotient is at least `q` when the dividend is at least `q` times the divisor.
* `DSCEngineProofs`, second part, the engine's books, for any users, tokens, prices and
  amounts. The inductive invariant `IInv` has two halves and the types of the
  feeds. `CollateralBooks` is about the deposits and the collateral tokens (types,
  each token's total a word, `CollateralBacked`), `DscBooks` about the debts and
  the DSC ledger (types, supply is the sum of the balances, the engine is the
  owner, `DscBackedByDebt`). Neither backing is inductive alone: that a payment
  lowers the engine's balance by as much as the deposit needs the entries to be
  words, a table of words stays one under unchecked additions because its total
  is a word, and the supply only stays below the debt because nobody but the
  engine mints. One lemma per half and operation shows that the half is kept and
  that `surplus` and the debt gap do not move (`BooksKept`); a transaction is a
  composition of them. From it `TypeOK`, `CollateralBacked`, `DscBackedByDebt`,
  `SurplusOnlyFromDonation`, `DebtGapOnlyFromBurnFrom` and, with the arithmetic,
  `LiquidatorPaidAtMostTheBonus`.
* `DSCEngineProofs`, third part, the health of accounts: `AccountStep` classifies what a step does to an account:
  nothing that makes it riskier (`safer`), something that ends with its health
  factor checked (`checked`), or a liquidation (`liquidated`). With the value of
  deposits monotone in the amounts, `OnlyPricesBreakHealth`,
  `HealthyKeepsCollateral`, `RiskIncreaseEndsHealthy` and
  `SingleCollateralLiquidationIsFull` follow by these cases.
  `SolventWhileHealthy` needs one more thing: the engine's value is computed from
  totals, the accounts' from single deposits, each rounded down. The value is
  superadditive, so the accounts are together worth at most the whole; the sum
  over the accounts goes by a minimal counterexample as in `ERC20Proofs`.

  `RiskIsTakenAtGoodPrices` has two assumptions beyond those of the modules, both
  true of the code: the answers are int256 (`AnswersAreInt256`) and they are scaled
  by at least two (the code: 1e10). Nothing checks the sign of an answer; a
  negative one turns into at least half of all words when it is converted and
  overflows when it is scaled (`NegativePricesOverflow`), and every transaction
  that adds risk compares a health factor and so scales every listed price.

  `EngineKeepsItsPromise` is the refinement `Spec => KeepsPromise`: the same three
  cases are the three disjuncts of the abstract `Next`, and `BooksKept` the rest.
  The sums of the abstract module are those of the detailed one (`SameSums`).
* `DSCEngineProofs`, last part, transactions that go through. That an action is
  `ENABLED` is beyond the provers, so `PositionCanBeClosed` and
  `LiquidatableFrom110Percent` cannot be stated as theorems. What can be proved is
  what makes them true: the theorems name the changes such a transaction makes (the
  witness of `ENABLED`) and show, under exactly the conditions of the two
  properties, that these changes are a step `RedeemCollateral`,
  `RedeemCollateralForDsc` or `Liquidate` - every check, those on the state after
  the step included, passes (`ClosingGoesThrough`, `LiquidationGoesThrough`). They
  assume `IInv`, because paying a deposit out needs `CollateralBacked`, and of the
  constants that `PRECISION` is a word and `ADDITIONAL_FEED_PRECISION` at least ten
  (the code: 1e18 and 1e10), because a share of more than a tenth of all words would
  overflow when the bonus is computed (`ShareIsComputed`).
* `EnumerableMapProofs`: the array and the index mapping stay inverse, and a key
  that is not there has no value (`IInv`), for any number of keys and any width.
  The work is `RemoveKeepsConsistent`: the swap of the last entry into the gap, for
  every place and every word. `ReadsAlwaysAgree` follows, because zero converts to
  zero. `EnumerationStaysComplete` and the refinement `MapIsAKeyValueStore` need one
  more invariant, `OnlyKeys`: no word in the set is wider than the key type, so every
  word reads back as the key it was written for, and a write of one key changes the
  store as the abstract operation does and no other key.
* `CheckpointsProofs`: `CastsAreExact` (a checked cast returns exactly the values
  that fit, for all four conversions and any width), from it `CheckpointsFit`, and
  `KeysAlwaysIncrease`, whose inductive part is that a pushed key is at least the
  last one, which is at most the current block in a `History`. On lists in this
  order the searches by halving find the border they look for, for any length:
  the searches recurse over pairs of positions, and instead of an induction over
  the length of the range the proof takes the shortest range on which the answer
  were wrong (`NaturalMinimum`) and halves it once more. What remains is the cut at
  `len - sqrt(len)`. From the searches follow `LowerLookupFindsNext`,
  `RecentLookupAgrees`, `MinedBlocksAreFinal` and the refinement `IsValueHistory`:
  reading at a key is the abstract reading, a push is one abstract write.
* `DeploymentProofs`: the script wherever it stops, and early users, for any list of
  tokens and any number of users. The collateral half of the books of
  `DSCEngineProofs` holds from the first transaction on; the DSC half begins with
  the hand-over, before which all tables of the token are empty
  (`NothingMintedBeforeHandOver`). That needs to know that the transactions which
  are left never give the token to anybody else, so the progress of the script is
  part of the invariant `DeploymentIInv`. It also yields that deposits are backed
  all along, that the hand-over is final, and `PoolPaysOnlyItsOwner`.
* `DSCEngineCallsProofs`: the engine step by step. A transaction is a list of steps,
  and the invariant `CallsIInv` says which lists there are and what is true on the
  way:
  * *due amounts*: between the two halves of a payment the books and the tokens
    differ by exactly the amount the next step moves (`surplusDue`, `gapDue`);
    steps that belong together stay adjacent (`Chained`), so nothing else comes
    between them;
  * *excuses*: each account is no riskier than when the call began, or its health
    factor will be or has been checked with nothing after the check that could
    change it, or it is being liquidated: it was below the minimum when the call
    began, has or will have less debt, and its health factor has been or will be
    compared with that of the beginning (`Excused`);
  * *the guard*: the list enters and leaves in turns (`Outside`), or begins inside
    (`Inside`), in accord with the flag; the steps that change the books, but for
    repaying, are made inside;
  * *calls inside calls*: a token calls back only from inside a guarded function, so
    an inner call meets its own `enter` and fails, or is over without one; the steps
    it can take only burn DSC (`Nested`). They take no excuse away and call no
    collateral token, so a third call never begins, whatever `MaxDepth` is.

  What the chain keeps changes only when the outermost call returns, or between
  transactions. In the first case nothing is due and no check is left, so each
  excuse is one disjunct of `CollateralisedDebt`. Hence `GuardIsExact`,
  `FailedPaymentsAreUndone`, the refinement `CallsKeepPromise` and
  `PartialLiquidationsImprove`, all for any tokens that call back, any faults and
  any depth. TLC finds `CallsIInv` true on the instances of `calls` and `steps`, too.

* `DSCEngineStepsProofs`: `TheStepsAreAtomic` is the refinement `StepsAreAtomic`, from
  the steps of a transaction to one atomic action of `DSCEngine`, for tokens that do
  what ERC20 asks (`TokensBehave`: no token calls back, moves a price or fails, as on
  the run `steps`; with tokens that do, it is false, see section 3). The mapping
  shows `committed`, which only changes when the call returns, so at that step
  everything the transaction did before must still be known: what was checked
  against a state that is gone, what was read, what was paid. The invariant
  `StepsIInv` is therefore the *history of the running transaction*: the list of steps
  it began with, how many of them are done, and the storages it went through - the
  first is `committed`, the last is what the variables hold, and each is what the step
  in between makes of the one before. A liquidation takes two steps more, with the
  amounts it computes on the way, and the history says so. An action that takes
  a step extends the history (`StepsInvariance`); when the list is used up, the
  history read as a whole gives the conditions and the effect of the action the
  transaction began as, the checks of the health factor among them
  (`TransactionIsAtomic`). A call that reverts gives `committed` back and is a
  stutter.

Only model-checked: `PositionCanBeClosed` and `LiquidatableFrom110Percent` as they
stand (`ENABLED`; see above for what is proved of them), `EngineEndsUpOwner`
(liveness), and the refuted claims of section 4.

## 6. What is not modelled

* Events, names, symbols, gas (a transaction may run out of it: `Revert`). Views
  that return a stored value.
* The number of decimals of a token: the engine assumes 18 and never asks.
* Collateral tokens that take a fee, rebase or move balances on their own.
* The constructor's length check, and a token that is listed twice: the model keeps
  the list as a sequence, so the case can be written down (every deposit of it would
  count twice), but the script passes two different tokens and the solvency
  properties are about lists without repetition.
* Callbacks from the DSC token (it has none) and from the feeds.
* `burn`, `transferInternal` and `approveInternal` of the mock token, which anybody may
  call: on a local chain they can take collateral away from the engine, so
  `CollateralBacked` is about tokens without them. Also its initial
  supply, which goes to the account the script runs as and is nobody's here.
* In `Deployment` the deployer does not use its ownership to mint before it gives it
  away. A script that stopped is not resumed; started again from scratch it deploys
  a second, unrelated system.
* The test suites.
* Of the vendored code what sections 1 and 2 do not list: Chainlink, forge-std, the
  Solidity of OpenZeppelin that the contracts do not use, and the JavaScript that
  builds, releases and documents it (file and text processing without state).
  Of the templates, the documentation they generate and the `get` with a message of
  its own, which differs from `get` in the message only.

## 7. Reading order

`Uint256`, `ERC20`, `DecentralisedStableCoin`, `CollateralMath`, `OracleLib`,
`DSCEngine`, `CollateralisedDebt`, `DSCEngineProperties`, `DSCEngineCalls`,
`DSCPool`, `Deployment`; then the proofs: `ERC20Proofs`,
`DecentralisedStableCoinProofs`, `DSCEngineProofs`, `DeploymentProofs`,
`DSCEngineCallsProofs`, `DSCEngineStepsProofs`. The libraries stand
alone: `EnumerableSet`, `EnumerableMap`, `KeyValueStore`; `SafeCast`,
`Checkpoints`, `ValueHistory`.

## 8. Plan

The modules went in the order engine, properties and proofs, abstract
specification and its refinement, steps and callbacks, deployment, libraries.
What is left is a run: `CallsKeepPromise` on an instance with two collateral tokens of
which one calls back, with fewer amounts (the theorem covers it; the run would show
how many of its cases occur).
