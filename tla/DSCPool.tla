------------------------------- MODULE DSCPool -------------------------------
(***************************************************************************)
(* The pool that receives what liquidations leave over.  Its collateral is *)
(* an entry in the tables of the tokens.  The contract has no payable      *)
(* function: Ether can only be forced on it (a selfdestruct, a block       *)
(* reward), which needs no code of its own.                                *)
(***************************************************************************)
EXTENDS ERC20, FiniteSets

CONSTANTS
  Caller,           \* the accounts that use the tokens and call the pool
  Pool,             \* the address of the contract
  i_owner,          \* the account that deployed it
  Token,
  Amounts,
  InitialBalance,   \* what each caller has of each token at first
  MaxEther          \* bound on the Ether the pool is given

VARIABLES
  collateralBalances,   \* token -> holder -> amount
  etherBalance          \* address(this).balance

vars == <<collateralBalances, etherBalance>>

Holder == Caller \cup {Pool}

Init ==
  /\ collateralBalances =
       [t \in Token |-> [h \in Holder |-> IF h = Pool THEN 0 ELSE InitialBalance]]
  /\ etherBalance = 0

-----------------------------------------------------------------------------

\* Any transfer of a token between other accounts, or to the pool; the engine's
\* sweep of a liquidated deposit is one.
TransferCollateral(sender, to, token, amount) ==
  /\ CanTransfer(collateralBalances[token], sender, amount)
  /\ collateralBalances' =
       [collateralBalances EXCEPT ![token] = Transferred(@, sender, to, amount)]
  /\ UNCHANGED etherBalance

ForceEther(amount) ==
  /\ etherBalance + amount <= MaxEther
  /\ etherBalance' = etherBalance + amount
  /\ UNCHANGED collateralBalances

\* poolHasBalance compares the amount with the pool's Ether, the transfer with
\* the pool's balance of the token.
poolHasBalance(amount) == amount <= etherBalance

\* Mutant: everybody may withdraw.
WithdrawByAnyone(sender, token, amount) ==
  /\ poolHasBalance(amount)
  /\ CanTransfer(collateralBalances[token], Pool, amount)
  /\ collateralBalances' =
       [collateralBalances EXCEPT ![token] = Transferred(@, Pool, sender, amount)]
  /\ UNCHANGED etherBalance

Withdraw(sender, token, amount) ==
  /\ sender = i_owner
  /\ poolHasBalance(amount)
  /\ CanTransfer(collateralBalances[token], Pool, amount)
  /\ collateralBalances' =
       [collateralBalances EXCEPT ![token] = Transferred(@, Pool, sender, amount)]
  /\ UNCHANGED etherBalance

Next ==
  \E amount \in Amounts :
    \/ \E sender \in Caller, token \in Token :
         \/ \E to \in Holder : TransferCollateral(sender, to, token, amount)
         \/ Withdraw(sender, token, amount)
    \/ ForceEther(amount)

Spec == Init /\ [][Next]_vars

-----------------------------------------------------------------------------

\* Nothing leaves the pool but to its owner: whenever it has less of a token than
\* before, the owner has that much more.
PoolPaysOnlyItsOwner ==
  [][\A t \in Token :
       LET paid == collateralBalances[t][Pool] - collateralBalances'[t][Pool]
       IN  paid > 0 => collateralBalances'[t][i_owner]
                         = collateralBalances[t][i_owner] + paid]_vars

\* DSCPool "collects remaining funds from a liquidated user" (DSCPool.sol:9) for
\* its owner, and withdraw refuses with DSCPool__DoesNotHaveTheAmount
\* (DSCPool.sol:16): what the pool does have, the owner can take out.
CollectedCanBeWithdrawn ==
  \A t \in Token :
    collateralBalances[t][Pool] > 0
      => ENABLED Withdraw(i_owner, t, collateralBalances[t][Pool])
=============================================================================
