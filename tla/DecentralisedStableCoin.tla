---------------------- MODULE DecentralisedStableCoin -----------------------
(***************************************************************************)
(* The DSC token: an ERC20 that its owner mints and burns.  Each action is *)
(* one transaction of some account; a call that reverts is a step that is  *)
(* not enabled.  After the deployment the owner is DSCEngine, and what the *)
(* other accounts can do is HolderStep.                                    *)
(***************************************************************************)
EXTENDS ERC20, FiniteSets

CONSTANTS
  Account,          \* the addresses that hold DSC or call the token
  Deployer,         \* the account that creates the contract
  ZeroAddress,      \* the owner once the ownership is renounced
  Amounts,          \* the amounts callers pass in
  Spenders          \* the accounts that get approved

ASSUME TokenAssumption ==
  /\ IsFiniteSet(Account)
  /\ Deployer \in Account
  /\ ZeroAddress \notin Account
  /\ Amounts \subseteq Word
  /\ Spenders \subseteq Account

VARIABLES
  balances,         \* ERC20._balances
  allowances,       \* ERC20._allowances
  totalSupply,      \* ERC20._totalSupply
  owner             \* Ownable._owner

ledger == <<balances, allowances, totalSupply>>
vars == <<balances, allowances, totalSupply, owner>>

Init ==
  /\ balances = [a \in Account |-> 0]
  /\ allowances = [a \in Account |-> [s \in Account |-> 0]]
  /\ totalSupply = 0
  /\ owner = Deployer

-----------------------------------------------------------------------------
(* The ERC20 interface, open to every account. *)

Transfer(sender, to, amount) ==
  /\ CanTransfer(balances, sender, amount)
  /\ balances' = Transferred(balances, sender, to, amount)
  /\ UNCHANGED <<allowances, totalSupply, owner>>

Approve(sender, spender, amount) ==
  /\ allowances' = Approved(allowances, sender, spender, amount)
  /\ UNCHANGED <<balances, totalSupply, owner>>

TransferFrom(sender, from, to, amount) ==
  /\ CanSpend(allowances, from, sender, amount)
  /\ CanTransfer(balances, from, amount)
  /\ allowances' = Spent(allowances, from, sender, amount)
  /\ balances' = Transferred(balances, from, to, amount)
  /\ UNCHANGED <<totalSupply, owner>>

IncreaseAllowance(sender, spender, addedValue) ==
  /\ Fits(allowances[sender][spender] + addedValue)
  /\ allowances' = Approved(allowances, sender, spender,
                            allowances[sender][spender] + addedValue)
  /\ UNCHANGED <<balances, totalSupply, owner>>

DecreaseAllowance(sender, spender, subtractedValue) ==
  /\ allowances[sender][spender] >= subtractedValue
  /\ allowances' = Approved(allowances, sender, spender,
                            allowances[sender][spender] - subtractedValue)
  /\ UNCHANGED <<balances, totalSupply, owner>>

-----------------------------------------------------------------------------
(* Minting and burning.  The subtraction from the supply is unchecked in   *)
(* the code; TypeOK says that it never leaves the words.                   *)

\* Mutants: the addition to the supply is unchecked, and nobody asks who mints.
MintUnchecked(sender, to, amount) ==
  /\ sender = owner
  /\ amount > 0
  /\ balances' = Credited(balances, to, amount)
  /\ totalSupply' = totalSupply + amount
  /\ UNCHANGED <<allowances, owner>>

MintByAnyone(sender, to, amount) ==
  /\ amount > 0
  /\ Fits(totalSupply + amount)
  /\ balances' = Credited(balances, to, amount)
  /\ totalSupply' = totalSupply + amount
  /\ UNCHANGED <<allowances, owner>>

Mint(sender, to, amount) ==
  /\ sender = owner
  /\ amount > 0
  /\ Fits(totalSupply + amount)
  /\ balances' = Credited(balances, to, amount)
  /\ totalSupply' = totalSupply + amount
  /\ UNCHANGED <<allowances, owner>>

Burn(sender, amount) ==
  /\ sender = owner
  /\ amount > 0
  /\ balances[sender] >= amount
  /\ balances' = Debited(balances, sender, amount)
  /\ totalSupply' = totalSupply - amount
  /\ UNCHANGED <<allowances, owner>>

\* Mutant: the supply is forgotten.
BurnFromWithoutSupply(sender, account, amount) ==
  /\ CanSpend(allowances, account, sender, amount)
  /\ CanTransfer(balances, account, amount)
  /\ allowances' = Spent(allowances, account, sender, amount)
  /\ balances' = Debited(balances, account, amount)
  /\ UNCHANGED <<totalSupply, owner>>

\* ERC20Burnable.burnFrom is inherited as it is: it does not ask for the owner.
BurnFrom(sender, account, amount) ==
  /\ CanSpend(allowances, account, sender, amount)
  /\ CanTransfer(balances, account, amount)
  /\ allowances' = Spent(allowances, account, sender, amount)
  /\ balances' = Debited(balances, account, amount)
  /\ totalSupply' = totalSupply - amount
  /\ UNCHANGED owner

-----------------------------------------------------------------------------
(* Ownable *)

TransferOwnership(sender, newOwner) ==
  /\ sender = owner
  /\ owner' = newOwner
  /\ UNCHANGED ledger

RenounceOwnership(sender) ==
  /\ sender = owner
  /\ owner' = ZeroAddress
  /\ UNCHANGED ledger

-----------------------------------------------------------------------------

\* What an account can do whoever the owner is.
HolderStep(sender) ==
  \E amount \in Amounts :
    \/ \E to \in Account : Transfer(sender, to, amount)
    \/ \E from, to \in Account : TransferFrom(sender, from, to, amount)
    \/ \E account \in Account : BurnFrom(sender, account, amount)
    \/ \E spender \in Spenders :
         \/ Approve(sender, spender, amount)
         \/ IncreaseAllowance(sender, spender, amount)
         \/ DecreaseAllowance(sender, spender, amount)

OwnerStep(sender) ==
  \/ \E amount \in Amounts :
       \/ \E to \in Account : Mint(sender, to, amount)
       \/ Burn(sender, amount)
  \/ \E newOwner \in Account : TransferOwnership(sender, newOwner)
  \/ RenounceOwnership(sender)

Next == \E sender \in Account : HolderStep(sender) \/ OwnerStep(sender)

Spec == Init /\ [][Next]_vars

-----------------------------------------------------------------------------

\* Every table entry, the supply included, is a uint256; the owner is an address.
TypeOK ==
  /\ balances \in [Account -> Word]
  /\ allowances \in [Account -> [Account -> Word]]
  /\ totalSupply \in Word
  /\ owner \in Account \cup {ZeroAddress}

\* No call creates or destroys tokens behind the supply counter: what the
\* accounts hold always adds up to totalSupply.  The unchecked arithmetic of
\* _transfer, _mint and _burn relies on it.
SupplyIsHeld == totalSupply = SumFunction(balances)

\* Once the ownership is renounced nobody can ever mint again: the supply only
\* falls, through burnFrom, and no account becomes the owner.
RenouncedIsFinal ==
  [][owner = ZeroAddress => owner' = ZeroAddress /\ totalSupply' <= totalSupply]_vars
=============================================================================
