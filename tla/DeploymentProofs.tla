--------------------------- MODULE DeploymentProofs ---------------------------
(***************************************************************************)
(* The deployment, for any list of collateral tokens and any number of     *)
(* users, wherever the script stops and whatever users do with the half of *)
(* the system that is there already.                                       *)
(*                                                                         *)
(* The collateral half of the books of DSCEngineProofs is kept from the    *)
(* first transaction on.  The DSC half only begins with the last one:      *)
(* before it the engine cannot mint, so that all tables of the token are   *)
(* empty, and after it there is nothing left to confirm, so that the owner *)
(* cannot change any more.  What the script has confirmed and who owns the *)
(* token therefore belong into one invariant.                              *)
(***************************************************************************)
EXTENDS Deployment, DSCEngineProofs

-----------------------------------------------------------------------------
(* The script *)

\* A function on the first m positions is a sequence, and has its elements.
LEMMA SequenceElements ==
  ASSUME NEW S
  PROVE  /\ \A m \in Nat : \A f \in [1 .. m -> S] : f \in Seq(S)
         /\ \A s \in Seq(S) : Len(s) \in Nat /\ \A j \in 1 .. Len(s) : s[j] \in S
  OBVIOUS

\* HelperConfig sends transactions for feeds and mocks, and nothing else.
LEMMA ConfigTxsType == configTxs \in Seq([kind : {"feed", "token"}, token : Token])
<1> DEFINE m == 2 * Len(s_collateralTokens)
           S == [kind : {"feed", "token"}, token : Token]
<1>1. Len(s_collateralTokens) \in Nat
  BY EngineAssumption
<1>2. CASE network = "sepolia"
  BY <1>2 DEF configTxs
<1>3. CASE network # "sepolia"
  <2>1. \A j \in 1 .. m : (j + 1) \div 2 \in 1 .. Len(s_collateralTokens)
    BY <1>1
  <2>2. \A j \in 1 .. m : s_collateralTokens[(j + 1) \div 2] \in Token
    BY <2>1, EngineAssumption
  <2>3. configTxs \in [1 .. m -> S]
    BY <1>3, <2>2 DEF configTxs, Tx
  <2>4. m \in Nat
    BY <1>1
  <2> HIDE DEF m, S
  <2>5. configTxs \in Seq(S)
    BY <2>3, <2>4, SequenceElements
  <2>6. QED
    BY <2>5 DEF S
<1>4. QED
  BY <1>2, <1>3

\* The transaction that gives the ownership away is the last one and no other.
LEMMA HandOverIsLast ==
  /\ Len(script) \in Nat
  /\ \A i \in 1 .. Len(script) :
       script[i].kind = "transferOwnership" => i = Len(script)
<1> DEFINE contracts == <<NewContract("dsc"), NewContract("pool"), NewContract("engine"),
                          NewContract("transferOwnership")>>
           S == [kind : {"feed", "token"}, token : Token]
           c == configTxs
<1>1. script = c \o contracts /\ c \in Seq(S) /\ Len(c) \in Nat
  BY ConfigTxsType DEF script
<1> HIDE DEF c
<1>2. /\ Len(script) = Len(c) + 4
      /\ \A j \in 1 .. Len(c) : script[j] = c[j]
      /\ \A j \in 1 .. 4 : script[Len(c) + j] = contracts[j]
  BY <1>1
<1>3. \A j \in 1 .. Len(c) : c[j].kind # "transferOwnership"
  <2>1. \A j \in 1 .. Len(c) : c[j] \in S
    <3> HIDE DEF S
    <3>1. QED
      BY <1>1, SequenceElements
  <2>2. \A tx \in S : tx.kind # "transferOwnership"
    OBVIOUS
  <2>3. QED
    BY <2>1, <2>2
<1>4. \A j \in 1 .. 3 : contracts[j].kind # "transferOwnership"
  BY DEF NewContract, Tx
<1>5. \A i \in 1 .. Len(script) :
        i \in 1 .. Len(c) \/ \E j \in 1 .. 4 : i = Len(c) + j
  BY <1>1, <1>2
<1>6. QED
  BY <1>1, <1>2, <1>3, <1>4, <1>5

-----------------------------------------------------------------------------
(* The invariant *)

\* The DSC tables before the engine owns the token.
NoDsc ==
  /\ s_DscMinted = [u \in User |-> 0]
  /\ dscBalances = [h \in Holder |-> 0]
  /\ dscAllowances \in [Holder -> [Holder -> Word]]
  /\ dscTotalSupply = 0

\* The DSC half, and how far the script is.
Ownership ==
  /\ confirmed \in 0 .. Len(script)
  /\ dscOwner # Engine => NoDsc
  /\ dscOwner = Engine => DscBooks /\ confirmed = Len(script)

\* The inductive invariant of the deployment.
DeploymentIInv == CollateralBooks /\ OracleTypeOK /\ Ownership

\* A table that is empty has no entry to subtract from, and adds up to nothing.
LEMMA EmptyTables ==
  /\ [h \in Holder |-> 0] \in [Holder -> Word]
  /\ SumFunction([h \in Holder |-> 0]) = 0
  /\ SumFunction([u \in User |-> 0]) = 0
<1>1. \A S : IsFiniteSet(S) => SumFunction([x \in S |-> 0]) = 0
  <2> SUFFICES ASSUME NEW S, IsFiniteSet(S) PROVE SumFunction([x \in S |-> 0]) = 0
    OBVIOUS
  <2> DEFINE z == [x \in S |-> 0]
  <2>1. z \in [S -> Nat] /\ \A x \in S : z[x] = 0
    OBVIOUS
  <2> HIDE DEF z
  <2>2. SumFunction(z) = 0
    BY <2>1, SumZero
  <2>3. QED
    BY <2>2 DEF z
<1>2. QED
  BY <1>1, Accounts, WordsAreNaturals

\* Nothing is there at first, or what is there on a public network.
LEMMA DeployInitIInv == DeployInit => DeploymentIInv
<1> SUFFICES ASSUME DeployInit PROVE DeploymentIInv
  OBVIOUS
<1>1. /\ s_collateralDeposited \in [User -> [Token -> Word]]
      /\ collateralAllowances \in [Token -> [User -> [{Engine} -> Word]]]
      /\ \A u \in User, t \in Token : s_collateralDeposited[u][t] = 0
  BY WordsAreNaturals DEF DeployInit
<1>2. /\ collateralBalances \in [Token -> [Holder -> Word]]
      /\ \A t \in Token : SumFunction(collateralBalances[t]) \in Word
  <2>1. CASE network = "sepolia"
    BY <2>1, CollateralAssumption DEF DeployInit
  <2>2. CASE network # "sepolia"
    <3>1. collateralBalances = [t \in Token |-> [h \in Holder |-> 0]]
      BY <2>2 DEF DeployInit
    <3>2. QED
      BY <3>1, EmptyTables, WordsAreNaturals
  <2>3. QED
    BY <2>1, <2>2
<1>3. ASSUME NEW t \in Token PROVE totalDeposited(t) <= collateralBalances[t][Engine]
  <2>1. [u \in User |-> s_collateralDeposited[u][t]] = [u \in User |-> 0]
    BY <1>1
  <2>2. totalDeposited(t) = 0
    BY <2>1, EmptyTables DEF totalDeposited
  <2>3. collateralBalances[t][Engine] \in Nat
    BY <1>2, Accounts, WordsAreNaturals
  <2>4. QED
    BY <2>2, <2>3
<1>4. OracleTypeOK
  <2>1. ETH_USD_PRICE \in Int /\ MaxTime \in Nat
    BY DeploymentAssumption, OracleAssumption
  <2>2. /\ answer = [t \in Feed |-> ETH_USD_PRICE]
        /\ updatedAt = [t \in Feed |-> 0] /\ now = 0
    BY DEF DeployInit
  <2>3. QED
    BY <2>1, <2>2 DEF OracleTypeOK
<1>5. Ownership
  <2>1. dscOwner # Engine
    BY Accounts, EngineAssumption DEF DeployInit
  <2>2. NoDsc
    BY WordsAreNaturals DEF DeployInit, NoDsc
  <2>3. Len(script) \in Nat
    BY HandOverIsLast
  <2>4. QED
    BY <2>1, <2>2, <2>3 DEF Ownership, DeployInit
<1>6. QED
  BY <1>1, <1>2, <1>3, <1>4, <1>5 DEF DeploymentIInv, CollateralBooks, CollateralBacked

-----------------------------------------------------------------------------
(* What happens to the collateral besides the engine's transactions *)

\* A change of one token that takes nothing from the engine.
LEMMA PassingByBooks ==
  ASSUME CollateralBooks, NEW token \in Token, NEW c \in [Holder -> Word],
         SumFunction(c) \in Word, c[Engine] = collateralBalances[token][Engine],
         collateralBalances' = [collateralBalances EXCEPT ![token] = c],
         UNCHANGED <<s_collateralDeposited, collateralAllowances>>
  PROVE  CollateralBooks'
<1>1. /\ collateralBalances' \in [Token -> [Holder -> Word]]
      /\ \A t \in Token : SumFunction(collateralBalances'[t]) \in Word
      /\ \A t \in Token : collateralBalances'[t][Engine] = collateralBalances[t][Engine]
  BY DEF CollateralBooks
<1>2. \A t \in Token : totalDeposited(t)' = totalDeposited(t)
  BY DEF totalDeposited
<1>3. QED
  BY <1>1, <1>2 DEF CollateralBooks, CollateralBacked

\* The mock tokens mint to a user no more than there is on the other network.
LEMMA MintMockBooks ==
  ASSUME CollateralBooks, NEW to \in User, NEW token \in Token,
         NEW amount \in CollateralAmounts, MintMock(to, token, amount)
  PROVE  /\ CollateralBooks'
         /\ \A t \in Token : collateralBalances'[t][Pool] = collateralBalances[t][Pool]
<1> DEFINE b == collateralBalances[token]
           c == Credited(b, to, amount)
<1>1. /\ b \in [Holder -> Word] /\ b \in [Holder -> Nat]
      /\ amount \in Nat /\ SumFunction(b) \in Nat
      /\ to \in Holder /\ to # Engine /\ to # Pool /\ IsFiniteSet(Holder)
  BY Accounts, AmountsAreWords, CollateralTables, WordsAreNaturals, EngineAssumption
<1>2. /\ SumFunction(b) + amount <= SumFunction(InitialCollateral[token])
      /\ SumFunction(InitialCollateral[token]) \in Nat
      /\ SumFunction(InitialCollateral[token]) <= MaxUint /\ MaxUint \in Nat
  BY CollateralAssumption, WordsAreNaturals, MaxUintAssumption DEF MintMock
<1>3. SumFunction(b) + amount <= MaxUint
  BY <1>1, <1>2
<1>4. /\ c \in [Holder -> Word] /\ SumFunction(c) = SumFunction(b) + amount
      /\ c[Engine] = b[Engine] /\ c[Pool] = b[Pool]
  <2>1. c \in [Holder -> Word] /\ SumFunction(c) = SumFunction(b) + amount
    BY <1>1, <1>3, CreditedLedger
  <2>2. QED
    BY <1>1, <2>1, Accounts DEF Credited
<1>5. /\ collateralBalances' = [collateralBalances EXCEPT ![token] = c]
      /\ UNCHANGED <<s_collateralDeposited, collateralAllowances>>
  BY DEF MintMock, engineVars
<1>6. SumFunction(c) \in Word
  BY <1>1, <1>3, <1>4, WordsAreNaturals
<1> HIDE DEF c
<1>7. \A t \in Token : collateralBalances'[t][Pool] = collateralBalances[t][Pool]
  BY <1>4, <1>5 DEF CollateralBooks
<1>8. QED
  BY <1>4, <1>5, <1>6, <1>7, PassingByBooks

\* The pool pays its owner, or receives Ether.
LEMMA PoolStepBooks ==
  ASSUME CollateralBooks, PoolStep
  PROVE  /\ CollateralBooks'
         /\ \A t \in Token :
              \/ collateralBalances'[t][Pool] = collateralBalances[t][Pool]
              \/ collateralBalances'[t][Deployer] - collateralBalances[t][Deployer]
                   = collateralBalances[t][Pool] - collateralBalances'[t][Pool]
<1>1. PICK amount \in PoolAmounts :
        \/ \E sender \in User, token \in Token : DscPool!Withdraw(sender, token, amount)
        \/ DscPool!ForceEther(amount)
  BY DEF PoolStep
<1>2. /\ UNCHANGED <<s_collateralDeposited, collateralAllowances>>
      /\ amount \in Nat /\ Deployer \in User
  BY DeploymentAssumption, WordsAreNaturals DEF PoolStep, engineVars
<1>3. CASE DscPool!ForceEther(amount)
  <2>1. UNCHANGED collateralBalances
    BY <1>3 DEF DscPool!ForceEther
  <2>2. QED
    BY <1>2, <2>1, CollateralUntouched DEF collateralVars
<1>4. ASSUME NEW sender \in User, NEW token \in Token,
             DscPool!Withdraw(sender, token, amount)
      PROVE  /\ CollateralBooks'
             /\ \A t \in Token :
                  \/ collateralBalances'[t][Pool] = collateralBalances[t][Pool]
                  \/ collateralBalances'[t][Deployer] - collateralBalances[t][Deployer]
                       = collateralBalances[t][Pool] - collateralBalances'[t][Pool]
  <2> DEFINE b == collateralBalances[token]
             c == Transferred(b, Pool, Deployer, amount)
  <2>1. /\ CanTransfer(b, Pool, amount)
        /\ collateralBalances' = [collateralBalances EXCEPT ![token] = c]
    BY <1>4 DEF DscPool!Withdraw, DscPool!CanTransfer, CanTransfer, DscPool!Transferred,
                Transferred, DscPool!Debited, Debited, DscPool!Credited, Credited
  <2>2. /\ b \in [Holder -> Word] /\ SumFunction(b) \in Word
        /\ b[Pool] \in Nat /\ b[Deployer] \in Nat
        /\ Deployer \in Holder /\ Deployer # Pool /\ Deployer # Engine
        /\ Pool \in Holder /\ Pool # Engine /\ Engine \in Holder
    BY <1>2, Accounts, CollateralTables, EngineAssumption
  <2> HIDE DEF b
  <2>3. /\ c \in [Holder -> Word] /\ SumFunction(c) = SumFunction(b)
        /\ c[Engine] = b[Engine] /\ c[Deployer] = b[Deployer] + amount
    BY <1>2, <2>1, <2>2, EngineHolding
  <2>4. c[Pool] = b[Pool] - amount
    BY <2>2 DEF Transferred, Debited, Credited
  <2> HIDE DEF c
  <2>5. c[Deployer] - b[Deployer] = b[Pool] - c[Pool]
    BY <1>2, <2>2, <2>3, <2>4
  <2>6. \A t \in Token : t # token => collateralBalances'[t] = collateralBalances[t]
    BY <2>1 DEF CollateralBooks
  <2>7. collateralBalances'[token] = c
    BY <2>1 DEF CollateralBooks
  <2>8. CollateralBooks'
    BY <1>2, <2>1, <2>2, <2>3, PassingByBooks DEF b
  <2>9. QED
    BY <2>5, <2>6, <2>7, <2>8 DEF b
<1>5. QED
  BY <1>1, <1>3, <1>4

-----------------------------------------------------------------------------
(* The engine and the token before the hand-over *)

\* As long as the engine does not own the token it neither mints nor burns, and
\* all that is left of its transactions is to deposit and to redeem.
LEMMA EarlyEngineStep ==
  ASSUME CollateralBooks, NoDsc, dscOwner # Engine, NEW sender \in User, EngineStep(sender)
  PROVE  CollateralBooks' /\ UNCHANGED <<s_DscMinted, dscVars>> /\ UNCHANGED oracleVars
<1>1. ~ \E user \in User, amount \in DscAmounts : mintDsc(user, amount)
  BY DEF mintDsc, DSC!Mint
<1>2. ~ \E user \in User, payer \in User, amount \in DscAmounts : burnDsc(user, payer, amount)
  BY DEF burnDsc, burnTokens
<1>3. \E token \in Token, amount \in CollateralAmounts :
        DepositCollateral(sender, token, amount) \/ RedeemCollateral(sender, token, amount)
  BY <1>1, <1>2 DEF EngineStep, DepositCollateralAndMintDsc, RedeemCollateralForDsc,
                    MintDsc, BurnDsc, Liquidate, coverDebt
<1>4. PICK token \in Token, amount \in CollateralAmounts :
        DepositCollateral(sender, token, amount) \/ RedeemCollateral(sender, token, amount)
  BY <1>3
<1>5. amount \in Word
  BY AmountsAreWords
<1>6. CASE DepositCollateral(sender, token, amount)
  <2>1. /\ depositCollateral(sender, token, amount)
        /\ UNCHANGED <<s_DscMinted, dscVars>> /\ UNCHANGED oracleVars
    BY <1>6 DEF DepositCollateral
  <2>2. QED
    BY <1>5, <2>1, DepositBooks
<1>7. CASE RedeemCollateral(sender, token, amount)
  <2>1. /\ redeemCollateral(sender, sender, token, amount)
        /\ UNCHANGED collateralAllowances
        /\ UNCHANGED <<s_DscMinted, dscVars>> /\ UNCHANGED oracleVars
    BY <1>7 DEF RedeemCollateral
  <2>2. QED
    BY <1>5, <2>1, RedeemBooks
<1>8. QED
  BY <1>4, <1>6, <1>7

\* Nobody has any DSC to send or to burn: a call on the token moves zero, or it
\* is an approval.
LEMMA EarlyUseDsc ==
  ASSUME NoDsc, NEW sender \in User, UseDsc(sender)
  PROVE  NoDsc' /\ UNCHANGED dscOwner
<1> DEFINE Empty == /\ dscBalances' = [h \in Holder |-> 0]
                    /\ dscAllowances' \in [Holder -> [Holder -> Word]]
                    /\ dscTotalSupply' = 0
                    /\ UNCHANGED dscOwner
<1>1. /\ sender \in Holder /\ User \subseteq Holder
      /\ dscBalances = [h \in Holder |-> 0]
      /\ dscAllowances \in [Holder -> [Holder -> Word]]
      /\ dscTotalSupply = 0
      /\ \A n \in TransferAmounts \cup ApprovalAmounts : n \in Word /\ n \in Nat
  BY Accounts, AmountsAreWords, WordsAreNaturals DEF NoDsc
<1>2. PICK to \in Holder :
        \/ \E amount \in TransferAmounts :
             \/ DSC!Transfer(sender, to, amount)
             \/ \E from \in User : DSC!TransferFrom(sender, from, to, amount)
             \/ to \in User /\ DSC!BurnFrom(sender, to, amount)
        \/ \E amount \in ApprovalAmounts :
             to \in DscSpenders /\ DSC!Approve(sender, to, amount)
  BY DEF UseDsc
<1>3. ASSUME NEW amount \in TransferAmounts, NEW from \in Holder, dscBalances[from] >= amount
      PROVE  /\ amount = 0
             /\ Transferred(dscBalances, from, to, amount) = [h \in Holder |-> 0]
             /\ Debited(dscBalances, from, amount) = [h \in Holder |-> 0]
             /\ CanSpend(dscAllowances, from, sender, amount)
                  => Spent(dscAllowances, from, sender, amount) \in [Holder -> [Holder -> Word]]
  <2>1. amount = 0
    BY <1>1, <1>3
  <2>2. /\ Transferred(dscBalances, from, to, 0) = [h \in Holder |-> 0]
        /\ Debited(dscBalances, from, 0) = [h \in Holder |-> 0]
    <3> DEFINE z == [h \in Holder |-> 0]
    <3>1. [z EXCEPT ![from] = z[from] - 0] = z /\ [z EXCEPT ![to] = z[to] + 0] = z
      <4>1. z[from] = 0 /\ z[to] = 0 /\ 0 - 0 = 0 /\ 0 + 0 = 0
        OBVIOUS
      <4>2. [z EXCEPT ![from] = 0] = z /\ [z EXCEPT ![to] = 0] = z
        OBVIOUS
      <4> HIDE DEF z
      <4>3. QED
        BY <4>1, <4>2
    <3>2. /\ Debited(z, from, 0) = [z EXCEPT ![from] = z[from] - 0]
          /\ Credited(z, to, 0) = [z EXCEPT ![to] = z[to] + 0]
      <4> HIDE DEF z
      <4>1. QED
        BY DEF Debited, Credited
    <3> HIDE DEF z
    <3>3. Debited(z, from, 0) = z /\ Transferred(z, from, to, 0) = z
      BY <3>1, <3>2 DEF Transferred
    <3>4. QED
      BY <1>1, <3>3 DEF z
  <2>3. CanSpend(dscAllowances, from, sender, amount)
          => Spent(dscAllowances, from, sender, amount) \in [Holder -> [Holder -> Word]]
    BY <1>1, AllowanceTables
  <2>4. QED
    BY <2>1, <2>2, <2>3
<1>4. ASSUME NEW amount \in TransferAmounts, DSC!Transfer(sender, to, amount)
      PROVE  Empty
  <2>1. /\ dscBalances[sender] >= amount
        /\ dscBalances' = Transferred(dscBalances, sender, to, amount)
        /\ UNCHANGED <<dscAllowances, dscTotalSupply, dscOwner>>
    BY <1>4 DEF DSC!Transfer, DSC!CanTransfer, DSC!Transferred, Transferred,
                DSC!Debited, Debited, DSC!Credited, Credited
  <2>2. QED
    BY <1>1, <1>3, <2>1
<1>5. ASSUME NEW amount \in TransferAmounts, NEW from \in User,
             DSC!TransferFrom(sender, from, to, amount)
      PROVE  Empty
  <2>1. /\ CanSpend(dscAllowances, from, sender, amount)
        /\ dscBalances[from] >= amount
        /\ dscAllowances' = Spent(dscAllowances, from, sender, amount)
        /\ dscBalances' = Transferred(dscBalances, from, to, amount)
        /\ UNCHANGED <<dscTotalSupply, dscOwner>>
    BY <1>5 DEF DSC!TransferFrom, DSC!CanSpend, CanSpend, DSC!Spent, Spent,
                DSC!CanTransfer, DSC!Transferred, Transferred,
                DSC!Debited, Debited, DSC!Credited, Credited
  <2>2. QED
    BY <1>1, <1>3, <2>1
<1>6. ASSUME NEW amount \in TransferAmounts, DSC!BurnFrom(sender, to, amount)
      PROVE  Empty
  <2>1. /\ CanSpend(dscAllowances, to, sender, amount)
        /\ dscBalances[to] >= amount
        /\ dscAllowances' = Spent(dscAllowances, to, sender, amount)
        /\ dscBalances' = Debited(dscBalances, to, amount)
        /\ dscTotalSupply' = dscTotalSupply - amount
        /\ UNCHANGED dscOwner
    BY <1>6 DEF DSC!BurnFrom, DSC!CanSpend, CanSpend, DSC!Spent, Spent,
                DSC!CanTransfer, DSC!Debited, Debited
  <2>2. QED
    BY <1>1, <1>3, <2>1
<1>7. ASSUME NEW amount \in ApprovalAmounts, DSC!Approve(sender, to, amount)
      PROVE  Empty
  <2>1. /\ dscAllowances' = Approved(dscAllowances, sender, to, amount)
        /\ UNCHANGED <<dscBalances, dscTotalSupply, dscOwner>>
    BY <1>7 DEF DSC!Approve, DSC!Approved, Approved
  <2>2. Approved(dscAllowances, sender, to, amount) \in [Holder -> [Holder -> Word]]
    BY <1>1, AllowanceTables
  <2>3. QED
    BY <1>1, <2>1, <2>2
<1>8. Empty
  BY <1>2, <1>4, <1>5, <1>6, <1>7
<1>9. UNCHANGED s_DscMinted
  BY DEF UseDsc, engineVars
<1>10. QED
  BY <1>8, <1>9 DEF NoDsc

\* The script only changes the owner and, on a local chain, the feeds.
LEMMA ConfirmKeeps ==
  ASSUME DeploymentIInv, Confirm
  PROVE  DeploymentIInv'
<1>1. /\ confirmed \in 0 .. Len(script) /\ confirmed < Len(script)
      /\ Len(script) \in Nat
      /\ confirmed' = confirmed + 1
      /\ Len(script)' = Len(script)
      /\ takesEffect(script[confirmed + 1])
  BY HandOverIsLast DEF DeploymentIInv, Ownership, Confirm, script, configTxs
<1>2. dscOwner # Engine /\ NoDsc
  BY <1>1 DEF DeploymentIInv, Ownership
<1>3. CollateralBooks'
  <2>1. UNCHANGED <<s_collateralDeposited, collateralVars>>
    BY DEF Confirm, engineVars
  <2>2. QED
    BY <2>1, CollateralUntouched DEF DeploymentIInv
<1>4. UNCHANGED <<s_DscMinted, dscBalances, dscAllowances, dscTotalSupply>>
  BY DEF Confirm, engineVars
<1>5. OracleTypeOK'
  <2>1. /\ answer \in [Feed -> Int] /\ updatedAt \in [Feed -> Nat]
        /\ now \in 0 .. MaxTime /\ now \in Nat /\ ETH_USD_PRICE \in Int
    BY DeploymentAssumption, OracleAssumption DEF DeploymentIInv, OracleTypeOK
  <2> DEFINE tx == script[confirmed + 1]
  <2> HIDE DEF tx
  <2>2. CASE tx.kind = "feed" /\ UNCHANGED now
             /\ answer' = [answer EXCEPT ![tx.token] = ETH_USD_PRICE]
             /\ updatedAt' = [updatedAt EXCEPT ![tx.token] = now]
    BY <2>1, <2>2 DEF OracleTypeOK
  <2>3. CASE UNCHANGED oracleVars
    BY <2>3, OracleUntouched DEF DeploymentIInv
  <2>4. QED
    BY <1>1, <2>2, <2>3 DEF takesEffect, tx
<1>6. confirmed + 1 \in 1 .. Len(script)
  BY <1>1
<1>7. ASSUME dscOwner' = Engine
      PROVE  DscBooks' /\ confirmed + 1 = Len(script)
  <2>1. Deployer # Engine
    BY DeploymentAssumption, Accounts
  <2>2. script[confirmed + 1].kind = "transferOwnership"
    BY <1>1, <1>2, <1>7, <2>1 DEF takesEffect
  <2>3. confirmed + 1 = Len(script)
    BY <1>6, <2>2, HandOverIsLast
  <2>4. DscBooks'
    BY <1>2, <1>4, <1>7, EmptyTables, WordsAreNaturals
       DEF NoDsc, DscBooks, DscBackedByDebt, totalDebt
  <2>5. QED
    BY <2>3, <2>4
<1>8. Ownership'
  BY <1>1, <1>2, <1>4, <1>6, <1>7 DEF Ownership, NoDsc
<1>9. QED
  BY <1>3, <1>5, <1>8 DEF DeploymentIInv

\* What users do, before and after the hand-over.
LEMMA UserStepKeeps ==
  ASSUME DeploymentIInv, NEW sender \in User, UserStep(sender), UNCHANGED scriptVars
  PROVE  DeploymentIInv'
<1>0. /\ UNCHANGED <<network, confirmed>> /\ UNCHANGED script
      /\ CollateralBooks /\ OracleTypeOK /\ Ownership
  BY DEF DeploymentIInv, scriptVars, script, configTxs
<1>1. ASSUME CollateralBooks', UNCHANGED <<s_DscMinted, dscVars>>, UNCHANGED oracleVars
      PROVE  DeploymentIInv'
  <2>1. OracleTypeOK'
    BY <1>0, <1>1, OracleUntouched
  <2>2. Ownership'
    BY <1>0, <1>1, DscUntouched DEF Ownership, NoDsc, dscVars
  <2>3. QED
    BY <1>1, <2>1, <2>2 DEF DeploymentIInv
<1>2. CASE EngineStep(sender)
  <2>1. CASE dscOwner = Engine
    <3>1. IInv'
      BY <1>0, <1>2, <2>1, EngineStepBooks DEF IInv, Ownership, BooksKept
    <3>2. QED
      BY <1>0, <2>1, <3>1 DEF IInv, DscBooks, DeploymentIInv, Ownership
  <2>2. CASE dscOwner # Engine
    BY <1>0, <1>1, <1>2, <2>2, EarlyEngineStep DEF Ownership
  <2>3. QED
    BY <2>1, <2>2
<1>3. CASE UseDsc(sender)
  <2>1. CollateralBooks' /\ OracleTypeOK'
    BY <1>0, <1>3, CollateralUntouched, OracleUntouched DEF UseDsc, engineVars
  <2>2. Ownership'
    <3>1. CASE dscOwner = Engine
      BY <1>0, <1>3, <3>1, UseDscBooks DEF Ownership, DscBooks
    <3>2. CASE dscOwner # Engine
      BY <1>0, <1>3, <3>2, EarlyUseDsc DEF Ownership
    <3>3. QED
      BY <3>1, <3>2
  <2>3. QED
    BY <2>1, <2>2 DEF DeploymentIInv
<1>4. ASSUME NEW token \in Token, NEW amount \in ApprovalAmounts,
             ApproveCollateral(sender, token, amount)
      PROVE  DeploymentIInv'
  <2>1. CollateralBooks'
    BY <1>0, <1>4, AmountsAreWords, ApproveBooks
  <2>2. QED
    BY <1>1, <1>4, <2>1 DEF ApproveCollateral, engineVars
<1>5. ASSUME NEW token \in Token, NEW amount \in CollateralAmounts,
             MintMock(sender, token, amount)
      PROVE  DeploymentIInv'
  <2>1. CollateralBooks'
    BY <1>0, <1>5, MintMockBooks
  <2>2. QED
    BY <1>1, <1>5, <2>1 DEF MintMock, engineVars
<1>6. QED
  BY <1>2, <1>3, <1>4, <1>5 DEF UserStep

\* Every step, also that which stops the script.
LEMMA DeployNextKeeps ==
  ASSUME DeploymentIInv, [DeployNext]_deployVars
  PROVE  DeploymentIInv'
<1>1. ASSUME UNCHANGED <<network, confirmed, vars>>
      PROVE  DeploymentIInv'
  <2>1. /\ UNCHANGED <<s_collateralDeposited, collateralVars>> /\ UNCHANGED oracleVars
        /\ UNCHANGED <<s_DscMinted, dscVars>>
    BY <1>1 DEF vars, engineVars
  <2>2. CollateralBooks' /\ OracleTypeOK'
    BY <2>1, CollateralUntouched, OracleUntouched DEF DeploymentIInv
  <2>3. UNCHANGED script
    BY <1>1 DEF script, configTxs
  <2>4. Ownership'
    BY <1>1, <2>1, <2>3, DscUntouched DEF DeploymentIInv, Ownership, NoDsc, dscVars
  <2>5. QED
    BY <2>2, <2>4 DEF DeploymentIInv
<1>2. CASE Interrupt \/ UNCHANGED deployVars
  BY <1>1, <1>2 DEF Interrupt, deployVars, scriptVars
<1>3. CASE PublishPrice /\ UNCHANGED scriptVars
  <2>1. /\ UNCHANGED <<s_collateralDeposited, collateralVars>>
        /\ UNCHANGED <<s_DscMinted, dscVars>>
        /\ UNCHANGED script /\ UNCHANGED confirmed
        /\ FeedStep
    BY <1>3 DEF PublishPrice, FeedStep, engineVars, scriptVars, script, configTxs
  <2>2. OracleTypeOK'
    BY <2>1, FeedStepTypes DEF DeploymentIInv
  <2>3. CollateralBooks'
    BY <2>1, CollateralUntouched DEF DeploymentIInv
  <2>4. Ownership'
    BY <2>1, DscUntouched DEF DeploymentIInv, Ownership, NoDsc, dscVars
  <2>5. QED
    BY <2>2, <2>3, <2>4 DEF DeploymentIInv
<1>4. CASE PoolStep /\ UNCHANGED scriptVars
  <2>1. /\ UNCHANGED <<s_DscMinted, dscVars>> /\ UNCHANGED oracleVars
        /\ UNCHANGED script /\ UNCHANGED confirmed
    BY <1>4 DEF PoolStep, engineVars, scriptVars, script, configTxs
  <2>2. CollateralBooks' /\ OracleTypeOK'
    BY <1>4, <2>1, PoolStepBooks, OracleUntouched DEF DeploymentIInv
  <2>3. Ownership'
    BY <2>1, DscUntouched DEF DeploymentIInv, Ownership, NoDsc, dscVars
  <2>4. QED
    BY <2>2, <2>3 DEF DeploymentIInv
<1>5. QED
  BY <1>2, <1>3, <1>4, ConfirmKeeps, UserStepKeeps DEF DeployNext

\* The invariant holds from the first transaction of the script on.
LEMMA DeploymentInvariance == DeploySpec => []DeploymentIInv
<1>1. DeploymentIInv /\ [DeployNext]_deployVars => DeploymentIInv'
  BY DeployNextKeeps
<1>2. QED
  BY <1>1, DeployInitIInv, PTL DEF DeploySpec

\* While the engine does not own the DSC token there is no DSC and no debt.
THEOREM NothingIsMintedBeforeHandOver == DeploySpec => []NothingMintedBeforeHandOver
<1>1. DeploymentIInv => NothingMintedBeforeHandOver
  BY DEF DeploymentIInv, Ownership, NoDsc, NothingMintedBeforeHandOver
<1>2. QED
  BY <1>1, DeploymentInvariance, PTL

\* The deposits of an early user are backed like any other: at no point of the
\* deployment does the engine owe more of a token than it holds, or is there DSC
\* that no debt stands for.
THEOREM BackedDuringDeployment == DeploySpec => [](CollateralBacked /\ DscBackedByDebt)
<1>1. DeploymentIInv => CollateralBacked /\ DscBackedByDebt
  <2>1. NoDsc => DscBackedByDebt
    BY EmptyTables DEF NoDsc, DscBackedByDebt, totalDebt
  <2>2. DscBooks => DscBackedByDebt
    BY DEF DscBooks
  <2>3. QED
    BY <2>1, <2>2 DEF DeploymentIInv, CollateralBooks, Ownership
<1>2. QED
  BY <1>1, DeploymentInvariance, PTL

\* The hand-over is final: no later transaction takes the token from the engine.
THEOREM HandOverIsFinal == DeploySpec => [][dscOwner = Engine => dscOwner' = Engine]_deployVars
<1>1. DeploymentIInv /\ [DeployNext]_deployVars
        => [dscOwner = Engine => dscOwner' = Engine]_deployVars
  <2> SUFFICES ASSUME DeploymentIInv, [DeployNext]_deployVars, dscOwner = Engine
               PROVE  dscOwner' = Engine
    OBVIOUS
  <2>1. ~ Confirm
    BY DEF DeploymentIInv, Ownership, Confirm
  <2>2. DeploymentIInv
    OBVIOUS
  <2>3. ASSUME NEW sender \in User, UserStep(sender)
        PROVE  dscOwner' = Engine
    <3>1. CASE EngineStep(sender)
      BY <2>2, <3>1, EngineStepBooks DEF DeploymentIInv, Ownership, IInv, BooksKept, DscBooks
    <3>2. CASE UseDsc(sender)
      BY <2>2, <3>2, UseDscBooks DEF DeploymentIInv, Ownership, DscBooks
    <3>3. QED
      BY <2>3, <3>1, <3>2 DEF UserStep, ApproveCollateral, MintMock, dscVars
  <2>4. QED
    BY <2>1, <2>3 DEF DeployNext, Interrupt, PublishPrice, FeedStep, PoolStep,
                      deployVars, vars, dscVars
<1>2. QED
  BY <1>1, DeploymentInvariance, PTL DEF DeploySpec

-----------------------------------------------------------------------------
(* The pool *)

\* The engine pays into the pool and never takes from it.
LEMMA EngineOnlyPaysThePool ==
  ASSUME CollateralBooks, OracleTypeOK, NEW sender \in User, EngineStep(sender)
  PROVE  \A t \in Token : collateralBalances'[t][Pool] >= collateralBalances[t][Pool]
<1> DEFINE NotLess == \A t \in Token :
                        collateralBalances'[t][Pool] >= collateralBalances[t][Pool]
<1>1. /\ \A t \in Token : /\ collateralBalances[t] \in [Holder -> Word]
                          /\ SumFunction(collateralBalances[t]) \in Word
                          /\ \A h \in Holder : collateralBalances[t][h] \in Nat
      /\ \A u \in User : u \in Holder /\ u # Engine /\ u # Pool
      /\ Engine \in Holder /\ Pool \in Holder /\ Pool # Engine
      /\ \A n \in CollateralAmounts \cup DscAmounts : n \in Nat /\ n \in Word
  BY CollateralTables, Accounts, EngineAssumption, AmountsAreWords, WordsAreNaturals
<1>2. ASSUME NEW token \in Token, NEW c,
             collateralBalances' = [collateralBalances EXCEPT ![token] = c],
             c[Pool] \in Nat, c[Pool] >= collateralBalances[token][Pool]
      PROVE  NotLess
  BY <1>1, <1>2 DEF CollateralBooks
<1>3. ASSUME NEW token \in Token, NEW amount \in CollateralAmounts,
             depositCollateral(sender, token, amount)
      PROVE  NotLess
  <2> DEFINE c == Transferred(collateralBalances[token], sender, Engine, amount)
  <2>1. CanTransfer(collateralBalances[token], sender, amount)
    BY <1>3 DEF depositCollateral
  <2>2. c[Pool] = collateralBalances[token][Pool]
    BY <1>1, <2>1, EngineHolding
  <2>3. collateralBalances' = [collateralBalances EXCEPT ![token] = c]
    BY <1>3 DEF depositCollateral, CollateralBooks
  <2> HIDE DEF c
  <2>4. QED
    BY <1>1, <1>2, <2>2, <2>3
<1>4. ASSUME NEW token \in Token, NEW amount \in CollateralAmounts,
             redeemCollateral(sender, sender, token, amount)
      PROVE  NotLess
  <2> DEFINE c == Transferred(collateralBalances[token], Engine, sender, amount)
  <2>1. CanTransfer(collateralBalances[token], Engine, amount)
    BY <1>4 DEF redeemCollateral
  <2>2. c[Pool] = collateralBalances[token][Pool]
    BY <1>1, <2>1, EngineHolding
  <2>3. collateralBalances' = [collateralBalances EXCEPT ![token] = c]
    BY <1>4 DEF redeemCollateral, CollateralBooks
  <2> HIDE DEF c
  <2>4. QED
    BY <1>1, <1>2, <2>2, <2>3
<1>5. ASSUME NEW token \in Token, NEW user \in User, NEW dsc \in DscAmounts,
             coverDebt(sender, token, user, dsc)
      PROVE  NotLess
  <2> DEFINE amount == totalCollateralToRedeem(answer[token], dsc)
             rest == s_collateralDeposited[user][token] - amount
             paid == Transferred(collateralBalances[token], Engine, sender, amount)
             c == Transferred(paid, Engine, Pool, rest)
  <2>1. /\ token \in Collateral
        /\ totalCollateralToRedeemReturns(answer[token], dsc)
        /\ seizeCollateral(user, sender, token, amount)
    BY <1>5 DEF coverDebt
  <2>2. amount \in Nat
    <3>1. answer[token] \in Int /\ scaledPrice(answer[token]) # 0
      BY <2>1, EngineAssumption
         DEF OracleTypeOK, totalCollateralToRedeemReturns, tokenAmountFromUsdReturns
    <3>2. QED
      BY <1>1, <3>1, BonusIsAtMostTenPercent
  <2> HIDE DEF amount
  <2>3. /\ rest \in Nat
        /\ CanTransfer(collateralBalances[token], Engine, amount)
        /\ CanTransfer(paid, Engine, rest)
        /\ collateralBalances' = [collateralBalances EXCEPT ![token] = c]
    <3>1. s_collateralDeposited[user][token] \in Nat
      BY CollateralTables
    <3>2. QED
      BY <2>1, <2>2, <3>1 DEF seizeCollateral, payOut, CollateralBooks
  <2> HIDE DEF rest
  <2>4. /\ paid \in [Holder -> Word]
        /\ SumFunction(paid) \in Word
        /\ paid[Pool] = collateralBalances[token][Pool]
    BY <1>1, <2>2, <2>3, EngineHolding
  <2> HIDE DEF paid
  <2>5. c[Pool] = paid[Pool] + rest
    BY <1>1, <2>3, <2>4, EngineHolding
  <2> HIDE DEF c
  <2>6. QED
    BY <1>1, <1>2, <2>3, <2>4, <2>5
<1>6. ASSUME UNCHANGED collateralBalances PROVE NotLess
  BY <1>1, <1>6
<1> HIDE DEF NotLess
<1>7. NotLess
  BY <1>3, <1>4, <1>5, <1>6
     DEF EngineStep, DepositCollateral, RedeemCollateral, DepositCollateralAndMintDsc,
         RedeemCollateralForDsc, MintDsc, BurnDsc, Liquidate, collateralVars
<1>8. QED
  BY <1>7 DEF NotLess

\* What the pool has less than before its owner has more, at any point of the
\* deployment and for any amount of Ether that is forced on it.
THEOREM PoolOnlyPaysItsOwner == DeploySpec => PoolPaysOnlyItsOwner
<1> DEFINE Paid(t) == collateralBalances[t][Pool] - collateralBalances'[t][Pool]
           ToOwner(t) == Paid(t) > 0 => collateralBalances'[t][Deployer]
                                          = collateralBalances[t][Deployer] + Paid(t)
<1>1. ASSUME DeploymentIInv, [DeployNext]_deployVars, NEW t \in Token
      PROVE  ToOwner(t)
  <2>0. CollateralBooks /\ CollateralBooks' /\ OracleTypeOK /\ Deployer \in User
    BY <1>1, DeployNextKeeps, DeploymentAssumption DEF DeploymentIInv
  <2>1. /\ collateralBalances[t][Pool] \in Nat
        /\ collateralBalances[t][Deployer] \in Nat
        /\ collateralBalances'[t][Pool] \in Nat
        /\ collateralBalances'[t][Deployer] \in Nat
    <3>1. /\ collateralBalances \in [Token -> [Holder -> Word]]
          /\ collateralBalances' \in [Token -> [Holder -> Word]]
          /\ Pool \in Holder /\ Deployer \in Holder
      BY <2>0, Accounts DEF CollateralBooks
    <3>2. QED
      BY <3>1, WordsAreNaturals
  <2>2. CASE collateralBalances'[t][Pool] >= collateralBalances[t][Pool]
    BY <2>1, <2>2
  <2>3. CASE collateralBalances'[t][Deployer] - collateralBalances[t][Deployer]
               = collateralBalances[t][Pool] - collateralBalances'[t][Pool]
    BY <2>1, <2>3
  <2>4. CASE UNCHANGED collateralBalances
    BY <2>1, <2>2, <2>4
  <2>5. CASE PoolStep
    <3>1. \/ collateralBalances'[t][Pool] = collateralBalances[t][Pool]
          \/ collateralBalances'[t][Deployer] - collateralBalances[t][Deployer]
               = collateralBalances[t][Pool] - collateralBalances'[t][Pool]
      BY <2>0, <2>5, PoolStepBooks
    <3>2. QED
      BY <2>1, <2>2, <2>3, <3>1
  <2>6. ASSUME NEW sender \in User, UserStep(sender)
        PROVE  ToOwner(t)
    <3>1. CASE EngineStep(sender)
      BY <2>0, <2>2, <3>1, EngineOnlyPaysThePool
    <3>2. ASSUME NEW token \in Token, NEW amount \in CollateralAmounts,
                 MintMock(sender, token, amount)
          PROVE  ToOwner(t)
      <4>1. collateralBalances'[t][Pool] = collateralBalances[t][Pool]
        BY <2>0, <3>2, MintMockBooks
      <4>2. QED
        BY <2>1, <2>2, <4>1
    <3>3. QED
      BY <2>4, <2>6, <3>1, <3>2 DEF UserStep, UseDsc, ApproveCollateral, collateralVars
  <2> HIDE DEF ToOwner
  <2>7. QED
    BY <1>1, <2>4, <2>5, <2>6
       DEF DeployNext, Confirm, Interrupt, PublishPrice, FeedStep,
           deployVars, vars, collateralVars
<1> HIDE DEF ToOwner
<1>2. DeploymentIInv /\ [DeployNext]_deployVars
        => [\A t \in Token : ToOwner(t)]_<<collateralBalances, etherBalance>>
  BY <1>1
<1>3. DeploySpec => [][\A t \in Token : ToOwner(t)]_<<collateralBalances, etherBalance>>
  BY <1>2, DeploymentInvariance, PTL DEF DeploySpec
<1>4. QED
  BY <1>3 DEF PoolPaysOnlyItsOwner, DscPool!PoolPaysOnlyItsOwner, DscPool!vars, ToOwner
=============================================================================
