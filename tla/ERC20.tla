------------------------------- MODULE ERC20 --------------------------------
(***************************************************************************)
(* The OpenZeppelin ERC20 ledger that DecentralisedStableCoin inherits and *)
(* that the collateral tokens of the tests and of the local deployment     *)
(* (ERC20Mock) are.  A call on a token is a guard on the two tables of the *)
(* ledger - a failed require or a checked underflow reverts the whole      *)
(* transaction - and the tables the call leaves behind.  The operators are *)
(* constant-level, so that a contract which makes several token calls in   *)
(* one transaction can chain them.                                         *)
(*                                                                         *)
(* The zero address is not a member of the tables: every entry point       *)
(* rejects it.  Events are left out.                                       *)
(***************************************************************************)
EXTENDS Uint256, Functions

-----------------------------------------------------------------------------

Debited(balances, account, amount) == [balances EXCEPT ![account] = @ - amount]

Credited(balances, account, amount) == [balances EXCEPT ![account] = @ + amount]

CanTransfer(balances, from, amount) == balances[from] >= amount

Transferred(balances, from, to, amount) ==
  Credited(Debited(balances, from, amount), to, amount)

-----------------------------------------------------------------------------

CanSpend(allowances, holder, spender, amount) ==
  allowances[holder][spender] >= amount

\* An allowance of type(uint256).max is unlimited and is not used up.
Spent(allowances, holder, spender, amount) ==
  IF allowances[holder][spender] = MaxUint
  THEN allowances
  ELSE [allowances EXCEPT ![holder][spender] = @ - amount]

Approved(allowances, holder, spender, amount) ==
  [allowances EXCEPT ![holder][spender] = amount]
=============================================================================
