-------------------- MODULE DecentralisedStableCoinProofs ---------------------
(***************************************************************************)
(* The DSC token keeps its books, for any accounts, amounts and word size. *)
(* Neither TypeOK nor SupplyIsHeld is inductive alone: the balances stay   *)
(* words because they add up to the supply, and the supply because no      *)
(* account has more than it.  IInv is their conjunction.                   *)
(***************************************************************************)
EXTENDS DecentralisedStableCoin, ERC20Proofs

IInv == TypeOK /\ SupplyIsHeld

\* The amounts of the calls, and the facts about the tables the steps need.
LEMMA Tables ==
  ASSUME IInv
  PROVE  /\ balances \in [Account -> Word]
         /\ allowances \in [Account -> [Account -> Word]]
         /\ totalSupply \in Nat /\ totalSupply <= MaxUint
         /\ SumFunction(balances) = totalSupply
         /\ SumFunction(balances) \in Word
         /\ \A a \in Account : balances[a] \in Nat /\ balances[a] <= totalSupply
         /\ IsFiniteSet(Account)
<1>1. balances \in [Account -> Nat] /\ totalSupply \in Nat /\ totalSupply <= MaxUint
  BY MaxUintAssumption DEF IInv, TypeOK, Word
<1>2. IsFiniteSet(Account)
  BY TokenAssumption
<1>3. \A a \in Account : balances[a] <= SumFunction(balances)
  BY <1>1, <1>2, SumBoundsEntry
<1>4. QED
  BY <1>1, <1>2, <1>3 DEF IInv, TypeOK, SupplyIsHeld

\* The arguments of the transactions are words, the spenders accounts.
LEMMA AmountsAreWords ==
  /\ \A amount \in Amounts : amount \in Nat /\ amount \in Word
  /\ \A spender \in Spenders : spender \in Account
  BY TokenAssumption, MaxUintAssumption DEF Word

\* What an account can pay, the supply can lose.
LEMMA Affordable ==
  ASSUME IInv, NEW a \in Account, NEW n \in Nat, balances[a] >= n
  PROVE  totalSupply - n \in Word /\ totalSupply - n <= totalSupply
<1>1. /\ balances[a] \in Nat /\ balances[a] <= totalSupply
      /\ totalSupply \in Nat /\ totalSupply <= MaxUint
  BY Tables
<1>2. totalSupply - n \in Nat /\ totalSupply - n <= MaxUint
  BY <1>1, MaxUintAssumption
<1>3. QED
  BY <1>1, <1>2, MaxUintAssumption DEF Word

\* The empty ledger of the constructor.
LEMMA InitIInv == Init => IInv
<1>1. SUFFICES ASSUME Init PROVE IInv
  OBVIOUS
<1>2. IsFiniteSet(Account) /\ Deployer \in Account /\ 0 \in Word
  BY TokenAssumption, MaxUintAssumption DEF Word
<1>3. balances \in [Account -> Nat] /\ \A a \in Account : balances[a] = 0
  BY <1>1 DEF Init
<1>4. SumFunction(balances) = 0
  BY <1>2, <1>3, SumZero
<1>5. QED
  BY <1>1, <1>2, <1>4 DEF Init, IInv, TypeOK, SupplyIsHeld

-----------------------------------------------------------------------------

\* What any account can do: only burnFrom touches the supply, and lowers it.
LEMMA HolderStepIInv ==
  ASSUME IInv, NEW sender \in Account, HolderStep(sender)
  PROVE  IInv' /\ owner' = owner /\ totalSupply' <= totalSupply
<1> USE Tables, AmountsAreWords
<1>1. PICK amount \in Amounts :
        \/ \E to \in Account : Transfer(sender, to, amount)
        \/ \E from, to \in Account : TransferFrom(sender, from, to, amount)
        \/ \E account \in Account : BurnFrom(sender, account, amount)
        \/ \E spender \in Spenders :
             \/ Approve(sender, spender, amount)
             \/ IncreaseAllowance(sender, spender, amount)
             \/ DecreaseAllowance(sender, spender, amount)
  BY DEF HolderStep
<1>2. ASSUME NEW to \in Account, Transfer(sender, to, amount)
      PROVE  IInv' /\ owner' = owner /\ totalSupply' <= totalSupply
  <2>1. /\ balances' \in [Account -> Word]
        /\ SumFunction(balances') = SumFunction(balances)
    BY <1>2, TransferredLedger DEF Transfer
  <2>2. QED
    BY <1>2, <2>1 DEF Transfer, IInv, TypeOK, SupplyIsHeld
<1>3. ASSUME NEW from \in Account, NEW to \in Account,
             TransferFrom(sender, from, to, amount)
      PROVE  IInv' /\ owner' = owner /\ totalSupply' <= totalSupply
  <2>1. /\ balances' \in [Account -> Word]
        /\ SumFunction(balances') = SumFunction(balances)
    BY <1>3, TransferredLedger DEF TransferFrom
  <2>2. allowances' \in [Account -> [Account -> Word]]
    BY <1>3, AllowanceTables DEF TransferFrom
  <2>3. QED
    BY <1>3, <2>1, <2>2 DEF TransferFrom, IInv, TypeOK, SupplyIsHeld
<1>4. ASSUME NEW account \in Account, BurnFrom(sender, account, amount)
      PROVE  IInv' /\ owner' = owner /\ totalSupply' <= totalSupply
  <2>1. /\ balances' \in [Account -> Word]
        /\ SumFunction(balances') = SumFunction(balances) - amount
    BY <1>4, DebitedLedger DEF BurnFrom, CanTransfer
  <2>2. allowances' \in [Account -> [Account -> Word]]
    BY <1>4, AllowanceTables DEF BurnFrom
  <2>3. totalSupply - amount \in Word /\ totalSupply - amount <= totalSupply
    BY <1>4, Affordable DEF BurnFrom, CanTransfer
  <2>4. QED
    BY <1>4, <2>1, <2>2, <2>3 DEF BurnFrom, IInv, TypeOK, SupplyIsHeld
<1>5. ASSUME NEW spender \in Spenders,
             \/ Approve(sender, spender, amount)
             \/ IncreaseAllowance(sender, spender, amount)
             \/ DecreaseAllowance(sender, spender, amount)
      PROVE  IInv' /\ owner' = owner /\ totalSupply' <= totalSupply
  <2>1. PICK n \in Word : allowances' = Approved(allowances, sender, spender, n)
    <3>1. allowances[sender][spender] \in Nat /\ allowances[sender][spender] <= MaxUint
      BY MaxUintAssumption DEF Word
    <3>2. QED
      BY <1>5, <3>1, MaxUintAssumption
         DEF Approve, IncreaseAllowance, DecreaseAllowance, Fits, Word
  <2>2. allowances' \in [Account -> [Account -> Word]]
    <3>1. n \in Nat
      BY MaxUintAssumption DEF Word
    <3>2. QED
      BY <2>1, <3>1, AllowanceTables
  <2>3. UNCHANGED <<balances, totalSupply, owner>>
    BY <1>5 DEF Approve, IncreaseAllowance, DecreaseAllowance
  <2>4. QED
    BY <2>2, <2>3 DEF IInv, TypeOK, SupplyIsHeld
<1>6. QED
  BY <1>1, <1>2, <1>3, <1>4, <1>5

\* What the owner can do besides.
LEMMA OwnerStepIInv ==
  ASSUME IInv, NEW sender \in Account, OwnerStep(sender)
  PROVE  IInv' /\ sender = owner
<1> USE Tables, AmountsAreWords
<1>1. sender = owner
  BY DEF OwnerStep, Mint, Burn, TransferOwnership, RenounceOwnership
<1>2. ASSUME NEW amount \in Amounts, NEW to \in Account, Mint(sender, to, amount)
      PROVE  IInv'
  <2>1. totalSupply + amount \in Word
    BY <1>2 DEF Mint, Fits
  <2>2. /\ balances' \in [Account -> Word]
        /\ SumFunction(balances') = SumFunction(balances) + amount
    BY <1>2, <2>1, CreditedLedger DEF Mint, Word
  <2>3. QED
    BY <1>2, <2>1, <2>2 DEF Mint, IInv, TypeOK, SupplyIsHeld
<1>3. ASSUME NEW amount \in Amounts, Burn(sender, amount)
      PROVE  IInv'
  <2>1. /\ balances' \in [Account -> Word]
        /\ SumFunction(balances') = SumFunction(balances) - amount
    BY <1>3, DebitedLedger DEF Burn
  <2>2. totalSupply - amount \in Word
    BY <1>3, Affordable DEF Burn
  <2>3. QED
    BY <1>3, <2>1, <2>2 DEF Burn, IInv, TypeOK, SupplyIsHeld
<1>4. ASSUME NEW newOwner \in Account, TransferOwnership(sender, newOwner)
      PROVE  IInv'
  BY <1>4 DEF TransferOwnership, ledger, IInv, TypeOK, SupplyIsHeld
<1>5. ASSUME RenounceOwnership(sender)
      PROVE  IInv'
  BY <1>5 DEF RenounceOwnership, ledger, IInv, TypeOK, SupplyIsHeld
<1>6. QED
  BY <1>1, <1>2, <1>3, <1>4, <1>5 DEF OwnerStep

\* Every step of the token keeps the invariant.
LEMMA NextIInv == IInv /\ [Next]_vars => IInv'
<1>1. SUFFICES ASSUME IInv, [Next]_vars PROVE IInv'
  OBVIOUS
<1>2. CASE Next
  BY <1>1, <1>2, HolderStepIInv, OwnerStepIInv DEF Next
<1>3. CASE UNCHANGED vars
  BY <1>1, <1>3 DEF vars, IInv, TypeOK, SupplyIsHeld
<1>4. QED
  BY <1>1, <1>2, <1>3

\* The invariant holds in every reachable state.
LEMMA Invariance == Spec => []IInv
  BY InitIInv, NextIInv, PTL DEF Spec

-----------------------------------------------------------------------------

\* Every table entry stays a uint256, although the token adds and subtracts
\* without checking.
THEOREM TypeInvariant == Spec => []TypeOK
<1>1. IInv => TypeOK
  BY DEF IInv
<1>2. QED
  BY <1>1, Invariance, PTL

\* The balances always add up to totalSupply.
THEOREM SupplyInvariant == Spec => []SupplyIsHeld
<1>1. IInv => SupplyIsHeld
  BY DEF IInv
<1>2. QED
  BY <1>1, Invariance, PTL

\* No sequence of calls brings a renounced ownership back or raises the supply
\* after it: the zero address is not an account that calls.
THEOREM RenouncedStaysRenounced == Spec => RenouncedIsFinal
<1>1. IInv /\ [Next]_vars
        => [owner = ZeroAddress
              => owner' = ZeroAddress /\ totalSupply' <= totalSupply]_vars
  <2>1. SUFFICES ASSUME IInv, Next, owner = ZeroAddress
                 PROVE  owner' = ZeroAddress /\ totalSupply' <= totalSupply
    OBVIOUS
  <2>2. PICK sender \in Account : HolderStep(sender) \/ OwnerStep(sender)
    BY <2>1 DEF Next
  <2>3. ~ OwnerStep(sender)
    BY <2>1, OwnerStepIInv, TokenAssumption
  <2>4. QED
    BY <2>1, <2>2, <2>3, HolderStepIInv
<1>2. QED
  BY <1>1, Invariance, PTL DEF Spec, RenouncedIsFinal
=============================================================================
