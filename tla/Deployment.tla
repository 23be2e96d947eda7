------------------------------ MODULE Deployment -------------------------------
(***************************************************************************)
(* DeployDSC and HelperConfig: the transactions the script sends, one by   *)
(* one, and what users can do in between.  Once a contract is deployed it  *)
(* is there for everybody, so the system - the engine, its tokens and the  *)
(* pool - runs while it is still being put together.  The script may stop  *)
(* after any of its transactions, and nothing goes on with it: to run it   *)
(* again (make deploy) puts other contracts next to those it left behind,  *)
(* which is another behaviour of this specification.                       *)
(*                                                                         *)
(* On Sepolia the tokens and feeds exist; on a local chain (anvil) the     *)
(* script deploys mocks first.  The deployer uses its ownership of the DSC *)
(* token for nothing but to give it away.  Of the functions of the mock    *)
(* tokens that anybody may call, mint is modelled; burn, transferInternal  *)
(* and approveInternal, with which anybody can take the engine's tokens    *)
(* away, are not, so that backing is a statement about tokens without them.*)
(***************************************************************************)
EXTENDS DSCEngineProperties

CONSTANTS
  Deployer,             \* one of the users
  Networks,             \* the networks to look at
  ETH_USD_PRICE,        \* the first answer of a mock feed
  PoolAmounts,          \* what the deployer withdraws from the pool
  MaxEther              \* bound on the Ether forced on the pool

ASSUME DeploymentAssumption ==
  /\ Deployer \in User
  /\ Networks \subseteq {"sepolia", "anvil"}
  /\ ETH_USD_PRICE \in Int
  /\ PoolAmounts \subseteq Word /\ MaxEther \in Word

VARIABLES
  network,
  confirmed,            \* how many transactions of the script are mined
  running,              \* the script has not been stopped
  etherBalance          \* the Ether of the pool

scriptVars == <<network, confirmed, running>>
deployVars == <<vars, scriptVars, etherBalance>>

DscPool == INSTANCE DSCPool WITH
  Caller <- User \cup {Engine}, i_owner <- Deployer, Amounts <- PoolAmounts,
  InitialBalance <- 0

-----------------------------------------------------------------------------
(* The script *)

Tx(kind, token) == [kind |-> kind, token |-> token]

\* getOrCreateAnvilEthConfig deploys a feed and a token for each collateral, the
\* Sepolia configuration is a list of addresses.
configTxs ==
  IF network = "sepolia" THEN <<>>
  ELSE [i \in 1 .. 2 * Len(s_collateralTokens) |->
          Tx(IF i % 2 = 1 THEN "feed" ELSE "token", s_collateralTokens[(i + 1) \div 2])]

NewContract(kind) == Tx(kind, ZeroAddress)

\* Mutant: the DSC token is given to the engine before there is one.
scriptHandsOverTooEarly ==
  configTxs \o <<NewContract("dsc"), NewContract("pool"),
                 NewContract("transferOwnership"), NewContract("engine")>>

script ==
  configTxs \o <<NewContract("dsc"), NewContract("pool"), NewContract("engine"),
                 NewContract("transferOwnership")>>

isConfirmed(tx) == \E i \in 1 .. confirmed : script[i] = tx

DeployInit ==
  /\ network \in Networks
  /\ confirmed = 0
  /\ running = TRUE
  /\ etherBalance = 0
  /\ s_collateralDeposited = [u \in User |-> [t \in Token |-> 0]]
  /\ s_DscMinted = [u \in User |-> 0]
  /\ collateralBalances =
       IF network = "sepolia" THEN InitialCollateral
       ELSE [t \in Token |-> [h \in Holder |-> 0]]
  /\ collateralAllowances = [t \in Token |-> [u \in User |-> [s \in {Engine} |-> 0]]]
  /\ dscBalances = [h \in Holder |-> 0]
  /\ dscAllowances = [h \in Holder |-> [s \in Holder |-> 0]]
  /\ dscTotalSupply = 0
  /\ dscOwner = ZeroAddress
  /\ answer = [t \in Feed |-> ETH_USD_PRICE]
  /\ updatedAt = [t \in Feed |-> 0]
  /\ now = 0

\* What a transaction does, besides bringing a contract with empty tables into
\* being.  The tokens that a mock is created with go to an account outside.  The
\* address of the engine is zero until it is deployed, and transferOwnership
\* rejects that one.
takesEffect(tx) ==
  \/ /\ tx.kind = "feed"
     /\ answer' = [answer EXCEPT ![tx.token] = ETH_USD_PRICE]
     /\ updatedAt' = [updatedAt EXCEPT ![tx.token] = now]
     /\ UNCHANGED <<dscOwner, now>>
  \/ /\ tx.kind \in {"token", "pool", "engine"}
     /\ UNCHANGED <<dscOwner, oracleVars>>
  \/ /\ tx.kind = "dsc"
     /\ dscOwner' = Deployer
     /\ UNCHANGED oracleVars
  \/ /\ tx.kind = "transferOwnership"
     /\ isConfirmed(NewContract("engine"))
     /\ dscOwner = Deployer
     /\ dscOwner' = Engine
     /\ UNCHANGED oracleVars

Confirm ==
  /\ running
  /\ confirmed < Len(script)
  /\ takesEffect(script[confirmed + 1])
  /\ confirmed' = confirmed + 1
  /\ UNCHANGED <<network, running, engineVars, collateralVars,
                 dscBalances, dscAllowances, dscTotalSupply, etherBalance>>

\* The script stops for good between two transactions: out of funds, no
\* connection, killed.
Interrupt ==
  /\ running
  /\ confirmed < Len(script)
  /\ running' = FALSE
  /\ UNCHANGED <<network, confirmed, vars, etherBalance>>

-----------------------------------------------------------------------------
(* The users of what is there already *)

isAvailable(tx) ==
  \/ network = "sepolia" /\ tx.kind \in {"feed", "token"}
  \/ isConfirmed(tx)

\* The mock tokens let anybody mint; bounded by what there is on the other network.
MintMock(to, token, amount) ==
  /\ network = "anvil"
  /\ isConfirmed(Tx("token", token))
  /\ SumFunction(collateralBalances[token]) + amount <= SumFunction(InitialCollateral[token])
  /\ collateralBalances' = [collateralBalances EXCEPT ![token] = Credited(@, to, amount)]
  /\ UNCHANGED <<engineVars, collateralAllowances, dscVars, oracleVars>>

UserStep(sender) ==
  \/ isConfirmed(NewContract("engine")) /\ EngineStep(sender)
  \/ isConfirmed(NewContract("dsc")) /\ UseDsc(sender)
  \/ \E token \in Token :
       /\ isAvailable(Tx("token", token))
       /\ \E amount \in ApprovalAmounts : ApproveCollateral(sender, token, amount)
  \/ \E token \in Token, amount \in CollateralAmounts : MintMock(sender, token, amount)

\* The pool pays, or somebody forces Ether on it.
PoolStep ==
  /\ isConfirmed(NewContract("pool"))
  /\ \E amount \in PoolAmounts :
       \/ \E sender \in User, token \in Token : DscPool!Withdraw(sender, token, amount)
       \/ DscPool!ForceEther(amount)
  /\ UNCHANGED <<engineVars, collateralAllowances, dscVars, oracleVars>>

PublishPrice ==
  /\ \A t \in Collateral : isAvailable(Tx("feed", t))
  /\ FeedStep

DeployNext ==
  \/ Confirm \/ Interrupt
  \/ /\ PublishPrice \/ \E sender \in User : UserStep(sender)
     /\ UNCHANGED <<scriptVars, etherBalance>>
  \/ PoolStep /\ UNCHANGED scriptVars

\* The script sends what is left as long as it is not stopped.  Nobody is obliged
\* to anything else.
Fairness == WF_deployVars(Confirm)

DeploySpec == DeployInit /\ [][DeployNext]_deployVars /\ Fairness

-----------------------------------------------------------------------------

\* Unless the script is stopped, the engine ends up as the owner of the DSC token
\* for good, whatever users do meanwhile with the part of the system that is
\* there: no transaction of the script is sent before what it needs exists.
EngineEndsUpOwner == <>~running \/ <>[](dscOwner = Engine)

\* As long as the engine does not own the DSC token there is no DSC and no debt:
\* users can deposit early, but all that mints goes through the owner.
NothingMintedBeforeHandOver ==
  dscOwner # Engine => dscTotalSupply = 0 /\ \A u \in User : s_DscMinted[u] = 0

\* What liquidations sweep into the pool leaves it only to its deployer.
PoolPaysOnlyItsOwner == DscPool!PoolPaysOnlyItsOwner
=============================================================================
