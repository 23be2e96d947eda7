------------------------- MODULE DSCEngineCallsProofs --------------------------
(***************************************************************************)
(* The transactions of the engine step by step, with tokens that call back *)
(* and tokens that fail, for any numbers of users and tokens and any       *)
(* amounts and prices: the guard holds, failed payments are undone, a      *)
(* liquidation improves the account, and what the chain keeps is what      *)
(* CollateralisedDebt allows.                                              *)
(*                                                                         *)
(* The inductive invariant says of the outermost call what is due at its   *)
(* next step - how far the tokens are behind the books or ahead of them -  *)
(* and what excuses each account: that it is no riskier than when the call *)
(* began, that its health factor will be or has been checked, or that it   *)
(* is being liquidated.  A token calls back only from within a             *)
(* nonReentrant, so a call inside a call stops at its own guard or is over *)
(* before it gets there; all it can do is to burn DSC, and that takes      *)
(* nothing away from what holds for the call around it.                    *)
(***************************************************************************)
EXTENDS DSCEngineCalls, DSCEngineProofs, SequenceTheorems

\* What does not change during a transaction.
context == [updatedAt |-> updatedAt, now |-> now, faults |-> faults]

-----------------------------------------------------------------------------
(* Storages and steps *)

\* The storages of the contracts.
Storage ==
  [deposited : [User -> [Token -> Word]], minted : [User -> Word],
   balances : [Token -> [Holder -> Word]],
   allowances : [Token -> [User -> [{Engine} -> Word]]],
   dsc : [Holder -> Word] \X [Holder -> [Holder -> Word]] \X Word,
   answer : [Feed -> Int], status : {NOT_ENTERED, ENTERED}]

\* The tables of the tokens agree with their totals.
TablesOK(s) ==
  /\ s \in Storage
  /\ \A t \in Token : SumFunction(s.balances[t]) \in Word
  /\ s.dsc[3] = SumFunction(s.dsc[1])

surplusAt(s, t) == s.balances[t][Engine] - columnTotal(s.deposited, t)

gapAt(s) == SumFunction(s.minted) - s.dsc[3]

\* A storage between two transactions.
AtRest(s) ==
  /\ TablesOK(s)
  /\ s.status = NOT_ENTERED
  /\ \A t \in Token : surplusAt(s, t) >= 0
  /\ gapAt(s) >= 0

\* healthFactorIsFine of a storage.
fineAt(c, s, u) ==
  LET value == valueOf(s.answer, s.deposited[u])
  IN  /\ \A t \in Collateral : /\ c.updatedAt[t] <= c.now
                               /\ c.now - c.updatedAt[t] <= TIMEOUT
                               /\ usdValueReturns(s.answer[t], s.deposited[u][t])
      /\ Fits(value)
      /\ s.minted[u] = 0 \/ calculateHealthFactorReturns(s.minted[u], value)
      /\ healthOf(s.minted[u], value) >= MIN_HEALTH_FACTOR

\* The steps that touch no deposit and are made outside of a nonReentrant, too.
FreeOps == {"moreThanZero", "isAllowedToken", "eraseDebt", "pullDsc", "burn"}

\* The health factor of an account in a storage.
healthAt(s, u) == healthOf(s.minted[u], valueOf(s.answer, s.deposited[u]))

\* The steps that are made within a nonReentrant only.
GuardedOps ==
  {"recordDeposit", "transferFrom", "transferFromReturned",
   "eraseDeposit", "transfer", "transferReturned",
   "recordDebt", "checkHealth", "mint", "mintReturned",
   "seize", "sweep", "checkImproved"}

\* The steps that can follow the check of a health factor.
FinalOps == {"mint", "mintReturned", "leave"}

\* The steps that can follow a liquidation: they change no health factor, either.
SettledOps == FinalOps \cup {"checkHealth"}

CollateralOps ==
  {"recordDeposit", "transferFrom", "transferFromReturned",
   "eraseDeposit", "transfer", "transferReturned", "seize", "sweep"}

TodoStep ==
  {h \in [op : FreeOps \cup GuardedOps \cup {"enter", "leave"}, user : Holder,
          token : Token \cup {ZeroAddress}, amount : Nat] :
     /\ h.op \in CollateralOps => h.token \in Token
     /\ h.op \notin {"enter", "leave", "transfer", "transferReturned"} => h.user \in User
     /\ h.op = "transfer" => h.user # Engine}

Frame == [sender : User, todo : Seq(TodoStep), entry : Storage]

-----------------------------------------------------------------------------
(* What is due: between the two halves of a payment the books and the tokens *)
(* differ by the amount.                                                     *)

\* How far the engine's holding of a token is ahead of its books when this step is
\* the next one, and when it has been made.
surplusBefore(c, h, t) ==
  LET owes(op, returned) ==
        h.token = t /\ (h.op = op \/ (h.op = returned /\ op \in c.faults))
  IN  IF owes("transferFrom", "transferFromReturned") THEN - h.amount
      ELSE IF owes("transfer", "transferReturned") THEN h.amount ELSE 0

surplusAfter(c, h, t) ==
  LET owes(op, transfer) ==
        h.token = t /\ (h.op = op \/ (h.op = transfer /\ transfer \in c.faults))
  IN  IF owes("recordDeposit", "transferFrom") THEN - h.amount
      ELSE IF owes("eraseDeposit", "transfer") THEN h.amount ELSE 0

\* The same of the debt and the DSC.
gapBefore(h) ==
  IF h.op \in {"checkHealth", "mint"} THEN h.amount
  ELSE IF h.op \in {"pullDsc", "burn"} THEN - h.amount ELSE 0

gapAfter(h) ==
  IF h.op \in {"recordDebt", "checkHealth"} THEN h.amount
  ELSE IF h.op \in {"eraseDebt", "pullDsc"} THEN - h.amount ELSE 0

surplusDue(c, todo, t) == IF Len(todo) = 0 THEN 0 ELSE surplusBefore(c, todo[1], t)

gapDue(todo) == IF Len(todo) = 0 THEN 0 ELSE gapBefore(todo[1])

-----------------------------------------------------------------------------
(* The lists of steps *)

\* The steps that belong together, one right after the other.
Pairs ==
  {<<"recordDeposit", "transferFrom">>, <<"transferFrom", "transferFromReturned">>,
   <<"eraseDeposit", "transfer">>, <<"transfer", "transferReturned">>,
   <<"recordDebt", "checkHealth">>, <<"checkHealth", "mint">>,
   <<"mint", "mintReturned">>, <<"eraseDebt", "pullDsc">>, <<"pullDsc", "burn">>}

\* Nothing is due before this step, and nothing after that one.
Begins(h) ==
  /\ h.op \notin {"transferFrom", "transferFromReturned", "transfer", "transferReturned",
                  "mint", "mintReturned", "pullDsc", "burn"}
  /\ h.op = "checkHealth" => h.amount = 0

Ends(h) ==
  /\ h.op \notin {"recordDeposit", "transferFrom", "eraseDeposit", "transfer",
                  "recordDebt", "mint", "eraseDebt", "pullDsc"}
  /\ h.op = "checkHealth" => h.amount = 0

Linked(g, h) ==
  \/ /\ <<g.op, h.op>> \in Pairs
     /\ h.token = g.token /\ h.amount = g.amount
     /\ g.op = "recordDebt" => h.user = g.user
  \/ Ends(g) /\ Begins(h)

Chained(todo) ==
  /\ \A i \in 1 .. Len(todo) - 1 : Linked(todo[i], todo[i + 1])
  /\ Len(todo) > 0 => Ends(todo[Len(todo)])

\* Where a step occurs.
places(todo, op) == {i \in 1 .. Len(todo) : todo[i].op = op}

\* The list enters and leaves at most two nonReentrants.
Outside(todo) ==
  \/ places(todo, "enter") = {} /\ places(todo, "leave") = {}
  \/ \E i, j \in 1 .. Len(todo) :
       /\ i < j
       /\ places(todo, "enter") = {i} /\ places(todo, "leave") = {j}
  \/ \E i, j, k, l \in 1 .. Len(todo) :
       /\ i < j /\ j < k /\ k < l
       /\ places(todo, "enter") = {i, k} /\ places(todo, "leave") = {j, l}

\* The list leaves one that it is in, and enters and leaves at most one more.
Inside(todo) ==
  \/ \E j \in 1 .. Len(todo) :
       places(todo, "enter") = {} /\ places(todo, "leave") = {j}
  \/ \E j, k, l \in 1 .. Len(todo) :
       /\ j < k /\ k < l
       /\ places(todo, "enter") = {k} /\ places(todo, "leave") = {j, l}

\* After a guarded step the list leaves, and does not enter before.
Guarded(todo) ==
  \A i \in 1 .. Len(todo) :
    todo[i].op \in GuardedOps =>
      \E j \in i + 1 .. Len(todo) : /\ todo[j].op = "leave"
                                    /\ \A k \in i .. j : todo[k].op # "enter"

\* What is not free comes after an enter.
Locked(todo) ==
  \A i \in 1 .. Len(todo) :
    todo[i].op \notin FreeOps => \E j \in 1 .. i : todo[j].op = "enter"

\* When a health factor has been checked, nothing is left that changes it.
ChecksCount(todo) ==
  \A i \in 1 .. Len(todo) :
    todo[i].op = "checkHealth" => \A j \in i + 1 .. Len(todo) : todo[j].op \in FinalOps

-----------------------------------------------------------------------------
(* The accounts: s is the storage now, e the storage when the call began. *)

isChecked(todo, from, u) ==
  \E i \in from .. Len(todo) : todo[i].op = "checkHealth" /\ todo[i].user = u

\* Its health factor has become better, or will be compared with what it was.
isImproved(s, e, todo, u) ==
  \/ \E i \in places(todo, "checkImproved") :
       /\ todo[i].user = u /\ todo[i].amount = healthAt(e, u)
       /\ \A j \in i + 1 .. Len(todo) : todo[j].op \in SettledOps
  \/ /\ healthAt(s, u) > healthAt(e, u)
     /\ \A i \in 1 .. Len(todo) : todo[i].op \in SettledOps

\* The account was not healthy, its debt has become or will become smaller, and its
\* health factor better.
isCovered(c, s, e, todo, u) ==
  /\ ~ fineAt(c, e, u) /\ healthAt(e, u) < MIN_HEALTH_FACTOR
  /\ isImproved(s, e, todo, u)
  /\ places(todo, "recordDebt") = {}
  /\ s.minted[u] <= e.minted[u]
  /\ \/ s.minted[u] < e.minted[u]
     \/ \E i \in places(todo, "eraseDebt") : todo[i].user = u /\ todo[i].amount > 0

isSafer(s, e, u) ==
  /\ s.minted[u] <= e.minted[u]
  /\ \A t \in Token : s.deposited[u][t] >= e.deposited[u][t]

\* The health factor has been checked.
isFine(c, s, todo, u) ==
  /\ fineAt(c, s, u)
  /\ \A i \in 1 .. Len(todo) : todo[i].op \in FinalOps

\* What excuses what has been done to an account so far.
Excused(c, s, e, todo, u) ==
  \/ isSafer(s, e, u)
  \/ isChecked(todo, 1, u)
  \/ isFine(c, s, todo, u)
  \/ isCovered(c, s, e, todo, u)

\* What will be taken from a deposit will be excused.
TakingIsExcused(c, s, e, todo) ==
  \A i \in 1 .. Len(todo) :
    todo[i].op \in {"eraseDeposit", "sweep"} =>
      \/ isChecked(todo, i + 1, todo[i].user)
      \/ isCovered(c, s, e, todo, todo[i].user)

\* A liquidation looks at the account as it was when the call began, and leaves it to
\* the end of the call as it is when its health factors have been compared.
SeizureComesFirst(s, e, todo) ==
  \A i \in places(todo, "seize") :
    /\ s.deposited = e.deposited /\ s.minted = e.minted /\ s.answer = e.answer
    /\ places(todo, "recordDebt") = {}
    /\ \A j \in 1 .. i - 1 : todo[j].op \in {"moreThanZero", "enter"}
    /\ \A j \in i + 1 .. Len(todo) : todo[j].op \in SettledOps
    /\ \/ todo[i].amount > 0
       \/ \E j \in 1 .. i - 1 : /\ todo[j].op = "moreThanZero"
                                 /\ todo[j].amount = todo[i].amount

-----------------------------------------------------------------------------
(* The invariant *)

\* What is true of the steps the outermost call has to take.
GoodTodo(todo) == Chained(todo) /\ Guarded(todo) /\ ChecksCount(todo)

\* What is true of the outermost call.
Running(c, s, e, todo) ==
  /\ TablesOK(s)
  /\ GoodTodo(todo)
  /\ \/ s.status = NOT_ENTERED /\ Outside(todo)
     \/ s.status = ENTERED /\ Inside(todo)
  /\ \A t \in Token : surplusAt(s, t) = surplusAt(e, t) + surplusDue(c, todo, t)
  /\ gapAt(s) = gapAt(e) + gapDue(todo)
  /\ \A u \in User : Excused(c, s, e, todo, u)
  /\ TakingIsExcused(c, s, e, todo)
  /\ SeizureComesFirst(s, e, todo)

\* What is true of a call inside a call.
Nested(s, e, todo) ==
  /\ TablesOK(s)
  /\ Chained(todo) /\ Locked(todo) /\ Outside(todo)
  /\ s.status = ENTERED /\ e.status = ENTERED
  /\ s.deposited = e.deposited /\ s.balances = e.balances
  /\ \A u \in User : s.minted[u] <= e.minted[u]
  /\ gapAt(s) = gapAt(e) + gapDue(todo)

CallsBack(todo) ==
  /\ Len(todo) > 0
  /\ todo[1].op \in {"transferFrom", "transferFromReturned", "transfer", "transferReturned"}

\* The inductive invariant.
CallsIInv ==
  /\ OracleTypeOK /\ dscOwner = Engine
  /\ frames \in Seq(Frame)
  /\ Len(frames) \in 0 .. 2
  /\ Len(frames) = 0 => AtRest(storage)
  /\ Len(frames) = 1 => /\ AtRest(frames[1].entry)
                        /\ Running(context, storage, frames[1].entry, frames[1].todo)
  /\ Len(frames) = 2 => /\ AtRest(frames[2].entry)
                        /\ Running(context, frames[1].entry, frames[2].entry, frames[2].todo)
                        /\ CallsBack(frames[2].todo)
                        /\ Nested(storage, frames[1].entry, frames[1].todo)

-----------------------------------------------------------------------------
(* Going on: the next step is made, and others may come in its place. *)

\* What is left when the first step of a list is replaced by others.
Resumes(rest, pre, todo) ==
  /\ Len(todo) \in Nat \ {0} /\ Len(pre) \in Nat
  /\ Len(rest) = Len(pre) + Len(todo) - 1
  /\ \A i \in 1 .. Len(pre) : rest[i] = pre[i]
  /\ \A i \in 2 .. Len(todo) : /\ Len(pre) + i - 1 \in Len(pre) + 1 .. Len(rest)
                               /\ rest[Len(pre) + i - 1] = todo[i]
  /\ \A i \in Len(pre) + 1 .. Len(rest) : /\ i - Len(pre) + 1 \in 2 .. Len(todo)
                                          /\ rest[i] = todo[i - Len(pre) + 1]

\* What is put in front of the rest of a list comes first in the new one.
LEMMA RestResumes ==
  ASSUME NEW S, NEW todo \in Seq(S), todo # <<>>, NEW pre \in Seq(S)
  PROVE  /\ pre \o Tail(todo) \in Seq(S)
         /\ Resumes(pre \o Tail(todo), pre, todo)
<1> DEFINE rest == pre \o Tail(todo)
<1>1. Len(todo) \in Nat \ {0} /\ Len(pre) \in Nat
  OBVIOUS
<1>2. /\ Tail(todo) \in Seq(S) /\ Len(Tail(todo)) = Len(todo) - 1
      /\ \A i \in 1 .. Len(todo) - 1 : Tail(todo)[i] = todo[i + 1]
  OBVIOUS
<1>3. /\ rest \in Seq(S) /\ Len(rest) = Len(pre) + Len(todo) - 1
      /\ \A i \in 1 .. Len(pre) : rest[i] = pre[i]
      /\ \A i \in Len(pre) + 1 .. Len(rest) : rest[i] = Tail(todo)[i - Len(pre)]
  BY <1>1, <1>2
<1>4. ASSUME NEW i \in Len(pre) + 1 .. Len(rest)
      PROVE  i - Len(pre) + 1 \in 2 .. Len(todo) /\ rest[i] = todo[i - Len(pre) + 1]
  <2>1. i - Len(pre) \in 1 .. Len(todo) - 1
    BY <1>1, <1>3
  <2>2. Tail(todo)[i - Len(pre)] = todo[(i - Len(pre)) + 1]
    BY <1>2, <2>1
  <2>3. QED
    BY <1>1, <1>3, <2>1, <2>2
<1>5. ASSUME NEW i \in 2 .. Len(todo)
      PROVE  Len(pre) + i - 1 \in Len(pre) + 1 .. Len(rest) /\ rest[Len(pre) + i - 1] = todo[i]
  <2>1. /\ Len(pre) + i - 1 \in Len(pre) + 1 .. Len(rest)
        /\ (Len(pre) + i - 1) - Len(pre) + 1 = i
    BY <1>1, <1>3
  <2>2. rest[Len(pre) + i - 1] = todo[(Len(pre) + i - 1) - Len(pre) + 1]
    BY <1>4, <2>1
  <2>3. QED
    BY <2>1, <2>2
<1>6. QED
  BY <1>1, <1>3, <1>4, <1>5 DEF Resumes

\* A payment goes on where it has stopped.
LEMMA DueIsPassedOn ==
  ASSUME NEW c, NEW g \in TodoStep, NEW h \in TodoStep, NEW t
  PROVE  /\ Linked(g, h) => /\ surplusBefore(c, h, t) = surplusAfter(c, g, t)
                            /\ gapBefore(h) = gapAfter(g)
         /\ Ends(g) => surplusAfter(c, g, t) = 0 /\ gapAfter(g) = 0
         /\ Begins(g) => surplusBefore(c, g, t) = 0 /\ gapBefore(g) = 0
<1>1. Ends(g) => surplusAfter(c, g, t) = 0 /\ gapAfter(g) = 0
  BY DEF Ends, surplusAfter, gapAfter
<1>2. Begins(g) => surplusBefore(c, g, t) = 0 /\ gapBefore(g) = 0
  BY DEF Begins, surplusBefore, gapBefore
<1>3. Begins(h) => surplusBefore(c, h, t) = 0 /\ gapBefore(h) = 0
  BY DEF Begins, surplusBefore, gapBefore
<1>4. ASSUME <<g.op, h.op>> \in Pairs, h.token = g.token, h.amount = g.amount
      PROVE  surplusBefore(c, h, t) = surplusAfter(c, g, t) /\ gapBefore(h) = gapAfter(g)
  BY <1>4 DEF Pairs, surplusBefore, surplusAfter, gapBefore, gapAfter
<1>5. QED
  BY <1>1, <1>2, <1>3, <1>4 DEF Linked

\* What can come in the place of a step: nothing, or a list that is complete.
Replaces(pre, g) ==
  Len(pre) > 0 => /\ g.op \in {"seize", "sweep"} /\ Chained(pre) /\ Begins(pre[1])
                  /\ \A i \in 1 .. Len(pre) : pre[i].op \notin {"enter", "leave", "checkHealth", "recordDebt", "seize"}

\* A list stays chained when its first step is replaced by steps that fit, and then
\* the amounts due are those after the step.
LEMMA RestIsChained ==
  ASSUME NEW c, NEW todo \in Seq(TodoStep), NEW pre \in Seq(TodoStep), NEW rest \in Seq(TodoStep),
         Resumes(rest, pre, todo), Replaces(pre, todo[1]), Chained(todo)
  PROVE  /\ Chained(rest)
         /\ \A t : surplusDue(c, rest, t) = surplusAfter(c, todo[1], t)
         /\ gapDue(rest) = gapAfter(todo[1])
<1> DEFINE n == Len(pre)
           m == Len(todo)
<1>0. m \in Nat \ {0} /\ n \in Nat /\ Len(rest) = n + m - 1
  BY DEF Resumes
<1>1. /\ m \in Nat \ {0} /\ n \in Nat /\ Len(rest) = n + m - 1
      /\ \A i \in 1 .. n : rest[i] = pre[i]
      /\ \A i \in n + 1 .. Len(rest) : i - n + 1 \in 2 .. m /\ rest[i] = todo[i - n + 1]
  BY DEF Resumes
<1>2. /\ \A i \in 1 .. m : todo[i] \in TodoStep
      /\ \A i \in 1 .. n : pre[i] \in TodoStep
      /\ \A i \in 1 .. m - 1 : Linked(todo[i], todo[i + 1])
      /\ Ends(todo[m])
  BY <1>1 DEF Chained
<1>3. n > 0 => /\ \A i \in 1 .. n - 1 : Linked(pre[i], pre[i + 1])
               /\ Ends(pre[n]) /\ Begins(pre[1])
               /\ todo[1].op \in {"seize", "sweep"} /\ Ends(todo[1])
  BY <1>1 DEF Chained, Replaces, Ends
<1> HIDE DEF n, m
<1>4. ASSUME m > 1
      PROVE  Linked(todo[1], todo[2]) /\ (n > 0 => Begins(todo[2]))
  <2>1. 1 \in 1 .. m - 1 /\ 1 + 1 = 2
    BY <1>1, <1>4
  <2>2. Linked(todo[1], todo[2])
    BY <1>2, <2>1
  <2>3. n > 0 => Begins(todo[2])
    BY <1>3, <2>2 DEF Linked, Pairs
  <2>4. QED
    BY <2>2, <2>3
<1>5. ASSUME NEW i \in 1 .. Len(rest) - 1
      PROVE  Linked(rest[i], rest[i + 1])
  <2>1. CASE i < n
    BY <1>1, <1>3, <2>1
  <2>2. CASE i = n
    <3>1. /\ n > 0 /\ n \in 1 .. n /\ m > 1
          /\ n + 1 \in n + 1 .. Len(rest) /\ (n + 1) - n + 1 = 2
      BY <1>1, <1>5, <2>2
    <3>2. rest[i] = pre[n] /\ rest[i + 1] = todo[2]
      BY <1>1, <2>2, <3>1
    <3>3. QED
      BY <1>3, <1>4, <3>1, <3>2 DEF Linked
  <2>3. CASE i > n
    <3>1. /\ i \in n + 1 .. Len(rest) /\ i + 1 \in n + 1 .. Len(rest)
          /\ i - n + 1 \in 1 .. m - 1 /\ (i + 1) - n + 1 = (i - n + 1) + 1
      BY <1>0, <1>5, <2>3
    <3>2. rest[i] = todo[i - n + 1] /\ rest[i + 1] = todo[(i - n + 1) + 1]
      BY <1>1, <3>1
    <3>3. QED
      BY <1>2, <3>1, <3>2
  <2>4. QED
    BY <1>1, <2>1, <2>2, <2>3
<1>6. ASSUME Len(rest) > 0 PROVE Ends(rest[Len(rest)])
  <2>1. CASE m = 1
    <3>1. Len(rest) = n /\ n > 0 /\ n \in 1 .. n
      BY <1>1, <1>6, <2>1
    <3>2. QED
      BY <1>1, <1>3, <3>1
  <2>2. CASE m # 1
    <3>1. Len(rest) \in n + 1 .. Len(rest) /\ Len(rest) - n + 1 = m
      BY SMTT(30), <1>1, <2>2
    <3>2. QED
      BY <1>1, <1>2, <3>1
  <2>3. QED
    BY <2>1, <2>2
<1>7. ASSUME NEW t
      PROVE  /\ surplusDue(c, rest, t) = surplusAfter(c, todo[1], t)
             /\ gapDue(rest) = gapAfter(todo[1])
  <2>0. 1 \in 1 .. m /\ todo[1] \in TodoStep
    BY <1>1, <1>2
  <2>1. CASE n > 0
    <3>1. 1 \in 1 .. n /\ Len(rest) # 0 /\ rest[1] = pre[1] /\ pre[1] \in TodoStep
      BY <1>1, <1>2, <2>1
    <3>2. surplusBefore(c, pre[1], t) = 0 /\ gapBefore(pre[1]) = 0
      BY <1>3, <2>1, <3>1, DueIsPassedOn
    <3>3. surplusAfter(c, todo[1], t) = 0 /\ gapAfter(todo[1]) = 0
      BY <1>3, <2>0, <2>1, DueIsPassedOn
    <3>4. QED
      BY <3>1, <3>2, <3>3 DEF surplusDue, gapDue
  <2>2. CASE n = 0 /\ m > 1
    <3>1. /\ 1 \in n + 1 .. Len(rest) /\ 1 - n + 1 = 2 /\ Len(rest) # 0
          /\ 2 \in 1 .. m
      BY <1>1, <2>2
    <3>2. rest[1] = todo[2] /\ todo[2] \in TodoStep
      BY <1>1, <1>2, <3>1
    <3>3. /\ surplusBefore(c, todo[2], t) = surplusAfter(c, todo[1], t)
          /\ gapBefore(todo[2]) = gapAfter(todo[1])
      BY <1>4, <2>0, <2>2, <3>2, DueIsPassedOn
    <3>4. QED
      BY <3>1, <3>2, <3>3 DEF surplusDue, gapDue
  <2>3. CASE n = 0 /\ m = 1
    <3>1. Len(rest) = 0 /\ Ends(todo[1])
      BY <1>1, <1>2, <2>3
    <3>2. QED
      BY <2>0, <3>1, DueIsPassedOn DEF surplusDue, gapDue
  <2>4. QED
    BY <1>1, <2>1, <2>2, <2>3
<1>8. QED
  BY <1>5, <1>6, <1>7 DEF Chained

\* The places of what is not inserted move together, and the first is gone.
LEMMA PlacesMove ==
  ASSUME NEW todo, NEW pre, NEW rest, Resumes(rest, pre, todo), NEW op,
         \A i \in 1 .. Len(pre) : pre[i].op # op
  PROVE  places(rest, op) = {Len(pre) + i - 1 : i \in places(todo, op) \ {1}}
<1>1. /\ Len(todo) \in Nat \ {0} /\ Len(pre) \in Nat
      /\ Len(rest) = Len(pre) + Len(todo) - 1
  BY DEF Resumes
<1>2. ASSUME NEW i \in places(todo, op) \ {1}
      PROVE  Len(pre) + i - 1 \in places(rest, op)
  <2>1. i \in 2 .. Len(todo) /\ todo[i].op = op
    BY <1>1 DEF places
  <2>2. /\ Len(pre) + i - 1 \in 1 .. Len(rest)
        /\ rest[Len(pre) + i - 1] = todo[i]
    BY <1>1, <2>1 DEF Resumes
  <2>3. QED
    BY <2>1, <2>2 DEF places
<1>3. ASSUME NEW k \in places(rest, op)
      PROVE  \E i \in places(todo, op) \ {1} : k = Len(pre) + i - 1
  <2>1. k \in 1 .. Len(rest) /\ rest[k].op = op
    BY DEF places
  <2>2. k \notin 1 .. Len(pre)
    BY <2>1 DEF Resumes
  <2>3. k \in Len(pre) + 1 .. Len(rest)
    BY <1>1, <2>1, <2>2
  <2>4. k - Len(pre) + 1 \in 2 .. Len(todo) /\ todo[k - Len(pre) + 1].op = op
    BY <2>1, <2>3 DEF Resumes
  <2>5. k - Len(pre) + 1 \in places(todo, op) \ {1}
    BY <1>1, <2>4 DEF places
  <2>6. k = Len(pre) + (k - Len(pre) + 1) - 1
    BY <1>1, <2>1
  <2>7. QED
    BY <2>5, <2>6
<1>4. QED
  BY <1>2, <1>3

\* A call gets into a nonReentrant and out of it where it enters and leaves only.
LEMMA GuardMoves ==
  ASSUME NEW todo, NEW pre, NEW rest, Resumes(rest, pre, todo), Replaces(pre, todo[1])
  PROVE  /\ todo[1].op \notin {"enter", "leave"} => /\ Outside(todo) => Outside(rest)
                                                    /\ Inside(todo) => Inside(rest)
         /\ todo[1].op = "enter" /\ Outside(todo) => Inside(rest)
         /\ todo[1].op = "leave" => ~ Outside(todo)
         /\ todo[1].op = "leave" /\ Inside(todo) => Outside(rest)
<1> DEFINE n == Len(pre)
           m == Len(todo)
           E == places(todo, "enter")
           L == places(todo, "leave")
<1>1. /\ m \in Nat \ {0} /\ n \in Nat /\ Len(rest) = n + m - 1
      /\ \A i \in 2 .. m : n + i - 1 \in 1 .. Len(rest) /\ i \in Int
      /\ \A i \in 1 .. m : i # 1 => i \in 2 .. m
  BY DEF Resumes
<1>2. /\ places(rest, "enter") = {n + i - 1 : i \in E \ {1}}
      /\ places(rest, "leave") = {n + i - 1 : i \in L \ {1}}
  <2>1. \A i \in 1 .. n : pre[i].op # "enter" /\ pre[i].op # "leave"
    BY <1>1 DEF Replaces
  <2>2. QED
    BY <2>1, PlacesMove
<1>3. /\ todo[1].op = "enter" <=> 1 \in E
      /\ todo[1].op = "leave" <=> 1 \in L
      /\ todo[1].op = "enter" => 1 \notin L
  BY <1>1 DEF places
<1> HIDE DEF n, m, E, L
<1>4. CASE E = {} /\ L = {}
  BY <1>2, <1>3, <1>4 DEF Outside, Inside, E, L
<1>5. ASSUME NEW i \in 1 .. m, NEW j \in 1 .. m, i < j, E = {i}, L = {j}
      PROVE  /\ todo[1].op \notin {"enter", "leave"} => Outside(rest)
             /\ todo[1].op = "enter" => Inside(rest)
             /\ todo[1].op # "leave"
  <2>1. todo[1].op # "leave" /\ j # 1 /\ n + j - 1 \in 1 .. Len(rest)
    BY <1>1, <1>3, <1>5
  <2>2. places(rest, "leave") = {n + j - 1}
    BY <1>2, <1>5, <2>1
  <2>3. CASE i = 1
    <3>1. places(rest, "enter") = {}
      BY <1>2, <1>5, <2>3
    <3>2. QED
      BY <1>3, <1>5, <2>1, <2>2, <2>3, <3>1 DEF Inside
  <2>4. CASE i # 1
    <3>1. places(rest, "enter") = {n + i - 1} /\ n + i - 1 \in 1 .. Len(rest)
      BY <1>1, <1>2, <1>5, <2>4
    <3>2. n + i - 1 < n + j - 1
      BY <1>1, <1>5
    <3>3. Outside(rest)
      BY <2>1, <2>2, <3>1, <3>2 DEF Outside
    <3>4. QED
      BY <1>3, <1>5, <2>1, <2>4, <3>3
  <2>5. QED
    BY <2>3, <2>4
<1>6. ASSUME NEW i \in 1 .. m, NEW j \in 1 .. m, NEW k \in 1 .. m, NEW l \in 1 .. m,
             i < j, j < k, k < l, E = {i, k}, L = {j, l}
      PROVE  /\ todo[1].op \notin {"enter", "leave"} => Outside(rest)
             /\ todo[1].op = "enter" => Inside(rest)
             /\ todo[1].op # "leave"
  <2>1. /\ j # 1 /\ k # 1 /\ l # 1
        /\ n + j - 1 \in 1 .. Len(rest) /\ n + k - 1 \in 1 .. Len(rest)
        /\ n + l - 1 \in 1 .. Len(rest)
        /\ n + j - 1 < n + k - 1 /\ n + k - 1 < n + l - 1
    BY <1>1, <1>6
  <2>2. places(rest, "leave") = {n + j - 1, n + l - 1} /\ todo[1].op # "leave"
    BY <1>2, <1>3, <1>6, <2>1
  <2>3. CASE i = 1
    <3>1. places(rest, "enter") = {n + k - 1}
      BY <1>2, <1>6, <2>1, <2>3
    <3>2. QED
      BY <1>3, <1>6, <2>1, <2>2, <2>3, <3>1 DEF Inside
  <2>4. CASE i # 1
    <3>1. places(rest, "enter") = {n + i - 1, n + k - 1} /\ n + i - 1 \in 1 .. Len(rest)
      BY <1>1, <1>2, <1>6, <2>1, <2>4
    <3>2. n + i - 1 < n + j - 1
      BY <1>1, <1>6
    <3>3. Outside(rest)
      BY SMTT(30), <2>1, <2>2, <3>1, <3>2 DEF Outside
    <3>4. QED
      BY <1>3, <1>6, <2>1, <2>2, <2>4, <3>3
  <2>5. QED
    BY <2>3, <2>4
<1>7. ASSUME NEW j \in 1 .. m, E = {}, L = {j}
      PROVE  /\ todo[1].op \notin {"enter", "leave"} => Inside(rest)
             /\ todo[1].op = "leave" => Outside(rest)
  <2>1. places(rest, "enter") = {}
    BY <1>2, <1>7
  <2>2. CASE j = 1
    <3>1. places(rest, "leave") = {}
      BY <1>2, <1>7, <2>2
    <3>2. QED
      BY <1>3, <1>7, <2>1, <2>2, <3>1 DEF Outside
  <2>3. CASE j # 1
    <3>1. places(rest, "leave") = {n + j - 1} /\ n + j - 1 \in 1 .. Len(rest)
      BY <1>1, <1>2, <1>7, <2>3
    <3>2. QED
      BY <1>3, <1>7, <2>1, <2>3, <3>1 DEF Inside
  <2>4. QED
    BY <2>2, <2>3
<1>8. ASSUME NEW j \in 1 .. m, NEW k \in 1 .. m, NEW l \in 1 .. m,
             j < k, k < l, E = {k}, L = {j, l}
      PROVE  /\ todo[1].op \notin {"enter", "leave"} => Inside(rest)
             /\ todo[1].op = "leave" => Outside(rest)
  <2>1. /\ k # 1 /\ l # 1
        /\ n + k - 1 \in 1 .. Len(rest) /\ n + l - 1 \in 1 .. Len(rest)
        /\ n + k - 1 < n + l - 1
    BY <1>1, <1>8
  <2>2. places(rest, "enter") = {n + k - 1}
    BY <1>2, <1>8, <2>1
  <2>3. CASE j = 1
    <3>1. places(rest, "leave") = {n + l - 1}
      BY <1>2, <1>8, <2>1, <2>3
    <3>2. QED
      BY <1>3, <1>8, <2>1, <2>2, <2>3, <3>1 DEF Outside
  <2>4. CASE j # 1
    <3>1. places(rest, "leave") = {n + j - 1, n + l - 1} /\ n + j - 1 \in 1 .. Len(rest)
      BY <1>1, <1>2, <1>8, <2>1, <2>4
    <3>2. n + j - 1 < n + k - 1
      BY <1>1, <1>8
    <3>3. Inside(rest)
      BY <2>1, <2>2, <3>1, <3>2 DEF Inside
    <3>4. QED
      BY <1>3, <1>8, <2>1, <2>4, <3>3
  <2>5. QED
    BY <2>3, <2>4
<1>9. ASSUME Outside(todo)
      PROVE  /\ todo[1].op \notin {"enter", "leave"} => Outside(rest)
             /\ todo[1].op = "enter" => Inside(rest)
             /\ todo[1].op # "leave"
  BY <1>4, <1>5, <1>6, <1>9, <1>2, <1>3 DEF Outside, E, L, m
<1>10. ASSUME Inside(todo)
       PROVE  /\ todo[1].op \notin {"enter", "leave"} => Inside(rest)
              /\ todo[1].op = "leave" => Outside(rest)
  BY <1>7, <1>8, <1>10 DEF Inside, E, L, m
<1>11. QED
  BY <1>9, <1>10
\* The conditions on the order of the steps hold of the rest, too.
LEMMA RestIsGood ==
  ASSUME NEW todo, NEW pre, NEW rest, Resumes(rest, pre, todo), Replaces(pre, todo[1])
  PROVE  /\ Guarded(todo) => Guarded(rest)
         /\ ChecksCount(todo) => ChecksCount(rest)
         /\ Len(pre) = 0 /\ todo[1].op # "enter" /\ Locked(todo) => Locked(rest)
<1> DEFINE n == Len(pre)
           m == Len(todo)
<1>1. m \in Nat \ {0} /\ n \in Nat /\ Len(rest) = n + m - 1
  BY DEF Resumes
<1>2. /\ \A i \in 1 .. n : rest[i] = pre[i]
      /\ \A i \in 2 .. m : n + i - 1 \in n + 1 .. Len(rest) /\ rest[n + i - 1] = todo[i]
      /\ \A i \in n + 1 .. Len(rest) : i - n + 1 \in 2 .. m /\ rest[i] = todo[i - n + 1]
  BY DEF Resumes
<1>3. /\ \A i \in 1 .. n : pre[i].op # "enter" /\ pre[i].op # "checkHealth"
      /\ n > 0 => todo[1].op \in GuardedOps
  BY <1>1 DEF Replaces, GuardedOps
<1> HIDE DEF n, m
<1>4. ASSUME NEW p \in 1 .. m, NEW j \in p + 1 .. m, NEW q \in 1 .. Len(rest),
             todo[j].op = "leave", \A k \in p .. j : todo[k].op # "enter",
             q > n => q = n + p - 1, q <= n => p = 1
      PROVE  \E l \in q + 1 .. Len(rest) : /\ rest[l].op = "leave"
                                           /\ \A k \in q .. l : rest[k].op # "enter"
  <2>0. /\ p \in Int /\ j \in Int /\ q \in Int /\ n \in Int
        /\ q > n => q = n + p - 1
        /\ q <= n => p = 1
    BY <1>1, <1>4
  <2>1. j \in 2 .. m /\ n + j - 1 \in q + 1 .. Len(rest)
    BY <1>1, <1>4
  <2>2. rest[n + j - 1].op = "leave"
    BY <1>2, <1>4, <2>1
  <2>3. ASSUME NEW k \in q .. n + j - 1 PROVE rest[k].op # "enter"
    <3>1. CASE k <= n
      BY <1>1, <1>2, <1>3, <2>3, <3>1
    <3>2. CASE k > n
      <4>1. k \in Int /\ k >= q /\ k <= n + j - 1
        BY <1>1, <2>0, <2>3
      <4>2. k - n + 1 >= p
        <5>1. CASE q > n
          BY <2>0, <3>2, <4>1, <5>1
        <5>2. CASE q <= n
          BY <2>0, <3>2, <4>1, <5>2
        <5>3. QED
          BY <2>0, <5>1, <5>2
      <4>3. k \in n + 1 .. Len(rest) /\ k - n + 1 \in p .. j
        BY <1>1, <2>0, <2>1, <3>2, <4>1, <4>2
      <4>4. QED
        BY <1>2, <1>4, <4>3
    <3>3. QED
      BY <1>1, <2>3, <3>1, <3>2
  <2>4. QED
    BY <2>1, <2>2, <2>3
<1>5. ASSUME Guarded(todo), NEW q \in 1 .. Len(rest), rest[q].op \in GuardedOps
      PROVE  \E l \in q + 1 .. Len(rest) : /\ rest[l].op = "leave"
                                           /\ \A k \in q .. l : rest[k].op # "enter"
  <2>1. CASE q <= n
    <3>1. n > 0 /\ 1 \in 1 .. m
      BY <1>1, <1>5, <2>1
    <3>2. PICK j \in 1 + 1 .. m : todo[j].op = "leave" /\ \A k \in 1 .. j : todo[k].op # "enter"
      BY <1>3, <1>5, <3>1 DEF Guarded, m
    <3>3. ~ (q > n) /\ j \in 1 + 1 .. m
      BY <1>1, <1>5, <2>1, <3>2
    <3>4. QED
      BY <1>4, <1>5, <3>1, <3>2, <3>3
  <2>2. CASE q > n
    <3>1. q \in n + 1 .. Len(rest) /\ q - n + 1 \in 1 .. m
      BY <1>1, <1>5, <2>2
    <3>2. PICK j \in (q - n + 1) + 1 .. m :
            todo[j].op = "leave" /\ \A k \in q - n + 1 .. j : todo[k].op # "enter"
      BY <1>2, <1>5, <3>1 DEF Guarded, m
    <3>3. q = n + (q - n + 1) - 1
      BY <1>1, <1>5
    <3>4. ~ (q <= n)
      BY <1>1, <1>5, <2>2
    <3>5. QED
      BY <1>4, <1>5, <3>1, <3>2, <3>3, <3>4
  <2>3. QED
    BY SMTT(30), <1>1, <1>5, <2>1, <2>2
<1>6. ASSUME ChecksCount(todo), NEW q \in 1 .. Len(rest), rest[q].op = "checkHealth",
             NEW l \in q + 1 .. Len(rest)
      PROVE  rest[l].op \in FinalOps
  <2>1. q > n
    <3>1. q \in 1 .. n => rest[q] = pre[q] /\ pre[q].op # "checkHealth"
      BY <1>2, <1>3
    <3>2. q \in Int /\ q >= 1 /\ q \notin 1 .. n
      BY <1>6, <3>1
    <3>3. QED
      BY <1>1, <3>2
  <2>2. /\ q \in n + 1 .. Len(rest) /\ l \in n + 1 .. Len(rest)
        /\ q - n + 1 \in 1 .. m /\ l - n + 1 \in (q - n + 1) + 1 .. m
    BY <1>1, <1>6, <2>1
  <2>3. QED
    BY <1>2, <1>6, <2>2 DEF ChecksCount, m
<1>7. ASSUME n = 0, todo[1].op # "enter", Locked(todo),
             NEW q \in 1 .. Len(rest), rest[q].op \notin FreeOps
      PROVE  \E l \in 1 .. q : rest[l].op = "enter"
  <2>1. /\ q \in n + 1 .. Len(rest) /\ q - n + 1 = q + 1 /\ q + 1 \in 1 .. m
        /\ rest[q] = todo[q + 1]
    BY <1>1, <1>2, <1>7
  <2>2. PICK j \in 1 .. q + 1 : todo[j].op = "enter"
    BY <1>7, <2>1 DEF Locked, m
  <2>3. /\ j \in 2 .. m /\ j - 1 \in 1 .. q /\ n + j - 1 = j - 1
    BY <1>1, <1>7, <2>1, <2>2
  <2>4. rest[j - 1] = todo[j]
    BY <1>2, <2>3
  <2>5. QED
    BY <2>2, <2>3, <2>4
<1>8. QED
  BY <1>5, <1>6, <1>7 DEF Guarded, ChecksCount, Locked, n

-----------------------------------------------------------------------------
(* What a step does *)

\* Making the step h takes the storage from s to r.
Made(c, s, r, h) ==
  /\ TablesOK(r)
  /\ r.status = IF h.op = "enter" THEN ENTERED
                ELSE IF h.op = "leave" THEN NOT_ENTERED ELSE s.status
  /\ h.op = "enter" => s.status # ENTERED
  /\ \A t \in Token :
       surplusAt(r, t) = surplusAt(s, t) + surplusAfter(c, h, t) - surplusBefore(c, h, t)
  /\ gapAt(r) = gapAt(s) + gapAfter(h) - gapBefore(h)
  /\ \A u \in User, t \in Token :
       r.deposited[u][t] >= s.deposited[u][t] \/ (h.op = "eraseDeposit" /\ u = h.user)
  /\ \A u \in User : r.minted[u] <= s.minted[u] \/ (h.op = "recordDebt" /\ u = h.user)
  /\ h.op = "eraseDebt" /\ h.amount > 0 => r.minted[h.user] < s.minted[h.user]
  /\ h.op \in FreeOps => r.deposited = s.deposited /\ r.balances = s.balances
  /\ h.op \in SettledOps \cup {"moreThanZero", "enter", "seize", "checkImproved"} =>
       r.deposited = s.deposited /\ r.minted = s.minted /\ r.answer = s.answer
  /\ h.op = "moreThanZero" => h.amount > 0
  /\ h.op = "checkHealth" => fineAt(c, s, h.user)
  /\ h.op = "seize" => ~ fineAt(c, s, h.user)
  /\ h.op = "checkImproved" => healthAt(s, h.user) > h.amount

\* The books of a storage hold natural numbers.
LEMMA StorageTypes ==
  ASSUME NEW s \in Storage
  PROVE  /\ \A u \in User, t \in Token : s.deposited[u][t] \in Nat
         /\ \A u \in User : s.minted[u] \in Nat
  BY WordsAreNaturals DEF Storage

\* The health factor depends on what belongs to the account and on the prices.
LEMMA SameIsFine ==
  ASSUME NEW c, NEW s, NEW r, NEW u, s.deposited[u] = r.deposited[u],
         s.minted[u] = r.minted[u], s.answer = r.answer
  PROVE  fineAt(c, s, u) = fineAt(c, r, u)
  BY DEF fineAt

\* A check that is still to come is so unless it is the next step.
LEMMA CheckMoves ==
  ASSUME NEW todo, NEW pre, NEW rest, Resumes(rest, pre, todo),
         NEW i \in 1 .. Len(todo), NEW u, isChecked(todo, i + 1, u)
  PROVE  isChecked(rest, Len(pre) + i, u)
<1>1. Len(todo) \in Nat \ {0} /\ Len(pre) \in Nat /\ Len(rest) = Len(pre) + Len(todo) - 1
  BY DEF Resumes
<1>2. PICK j \in i + 1 .. Len(todo) : todo[j].op = "checkHealth" /\ todo[j].user = u
  BY DEF isChecked
<1>3. j \in 2 .. Len(todo) /\ Len(pre) + j - 1 \in Len(pre) + i .. Len(rest)
  BY <1>1
<1>4. rest[Len(pre) + j - 1] = todo[j]
  BY <1>3 DEF Resumes
<1>5. QED
  BY <1>2, <1>3, <1>4 DEF isChecked

\* The comparison of the health factors is still to come, or it is the next step.
LEMMA ImprovementMoves ==
  ASSUME NEW c, NEW s, NEW r, NEW e,
         NEW todo \in Seq(TodoStep), NEW pre \in Seq(TodoStep), NEW rest \in Seq(TodoStep),
         Resumes(rest, pre, todo), Replaces(pre, todo[1]),
         Made(c, s, r, todo[1]), NEW u \in User, isImproved(s, e, todo, u)
  PROVE  isImproved(r, e, rest, u)
<1>1. /\ Len(todo) \in Nat \ {0} /\ Len(pre) \in Nat
      /\ Len(rest) = Len(pre) + Len(todo) - 1
      /\ \A i \in 2 .. Len(todo) : rest[Len(pre) + i - 1] = todo[i]
      /\ \A i \in Len(pre) + 1 .. Len(rest) : rest[i] = todo[i - Len(pre) + 1]
  BY DEF Resumes
<1>2. ASSUME todo[1].op \in SettledOps \cup {"checkImproved"}
      PROVE  /\ Len(pre) = 0 /\ healthAt(r, u) = healthAt(s, u)
             /\ \A i \in 1 .. Len(rest) : i + 1 \in 2 .. Len(todo) /\ rest[i] = todo[i + 1]
  <2>1. Len(pre) = 0
    BY <1>1, <1>2 DEF Replaces, SettledOps, FinalOps
  <2>2. r.deposited = s.deposited /\ r.minted = s.minted /\ r.answer = s.answer
    BY <1>2 DEF Made
  <2>3. ASSUME NEW i \in 1 .. Len(rest) PROVE i + 1 \in 2 .. Len(todo) /\ rest[i] = todo[i + 1]
    <3>1. i \in Len(pre) + 1 .. Len(rest) /\ i - Len(pre) + 1 = i + 1 /\ i + 1 \in 2 .. Len(todo)
      BY <1>1, <2>1
    <3>2. rest[i] = todo[i - Len(pre) + 1]
      BY <1>1, <3>1
    <3>3. QED
      BY <3>1, <3>2
  <2>4. QED
    BY <2>1, <2>2, <2>3 DEF healthAt
<1>3. ASSUME healthAt(s, u) > healthAt(e, u),
             \A i \in 1 .. Len(todo) : todo[i].op \in SettledOps
      PROVE  isImproved(r, e, rest, u)
  <2>1. todo[1].op \in SettledOps
    BY <1>1, <1>3
  <2>2. ASSUME NEW k \in 1 .. Len(rest) PROVE rest[k].op \in SettledOps
    <3>1. k + 1 \in 2 .. Len(todo) /\ rest[k] = todo[k + 1]
      BY <1>2, <2>1
    <3>2. k + 1 \in 1 .. Len(todo)
      BY <1>1, <3>1
    <3>3. QED
      BY <1>3, <3>1, <3>2
  <2>3. healthAt(r, u) > healthAt(e, u)
    BY <1>2, <1>3, <2>1
  <2>4. QED
    BY <2>2, <2>3 DEF isImproved
<1>4. ASSUME NEW i \in places(todo, "checkImproved"),
             todo[i].user = u, todo[i].amount = healthAt(e, u),
             \A j \in i + 1 .. Len(todo) : todo[j].op \in SettledOps
      PROVE  isImproved(r, e, rest, u)
  <2>1. i \in 1 .. Len(todo) /\ todo[i].op = "checkImproved"
    BY DEF places
  <2>2. CASE i = 1
    <3>1. healthAt(s, u) > healthAt(e, u)
      BY <1>4, <2>1, <2>2 DEF Made
    <3>2. ASSUME NEW k \in 1 .. Len(rest) PROVE rest[k].op \in SettledOps
      <4>1. k + 1 \in 2 .. Len(todo) /\ rest[k] = todo[k + 1]
        BY <1>2, <2>1, <2>2
      <4>2. k + 1 \in i + 1 .. Len(todo)
        BY <2>2, <4>1
      <4>3. QED
        BY <1>4, <4>1, <4>2
    <3>3. healthAt(r, u) > healthAt(e, u)
      BY <1>2, <2>1, <2>2, <3>1
    <3>4. QED
      BY <3>2, <3>3 DEF isImproved
  <2>3. CASE i # 1
    <3> DEFINE k == Len(pre) + i - 1
    <3>1. i \in 2 .. Len(todo) /\ k \in 1 .. Len(rest)
      BY <1>1, <2>1, <2>3
    <3>2. rest[k] = todo[i]
      BY <1>1, <3>1
    <3>3. ASSUME NEW j \in k + 1 .. Len(rest) PROVE rest[j].op \in SettledOps
      <4>1. /\ j \in Len(pre) + 1 .. Len(rest)
            /\ j - Len(pre) + 1 \in i + 1 .. Len(todo)
        BY <1>1, <3>1
      <4>2. QED
        BY <1>1, <1>4, <4>1
    <3> HIDE DEF k
    <3>4. k \in places(rest, "checkImproved")
      BY <2>1, <3>1, <3>2 DEF places
    <3>5. QED
      BY <1>4, <3>2, <3>3, <3>4 DEF isImproved
  <2>4. QED
    BY <2>2, <2>3
<1>5. QED
  BY <1>3, <1>4 DEF isImproved

\* An account that is being liquidated stays so, with the step that lowers its debt
\* and without it.
LEMMA CoverMoves ==
  ASSUME NEW c, NEW s \in Storage, NEW r \in Storage, NEW e \in Storage,
         NEW todo \in Seq(TodoStep), NEW pre \in Seq(TodoStep), NEW rest \in Seq(TodoStep),
         Resumes(rest, pre, todo), Replaces(pre, todo[1]),
         Made(c, s, r, todo[1]), NEW u \in User, isCovered(c, s, e, todo, u)
  PROVE  isCovered(c, r, e, rest, u)
<1>1. Len(todo) \in Nat \ {0} /\ Len(pre) \in Nat /\ 1 \in 1 .. Len(todo)
  BY DEF Resumes
<1>2. s.minted[u] \in Nat /\ r.minted[u] \in Nat /\ e.minted[u] \in Nat
  BY StorageTypes
<1>3. /\ places(todo, "recordDebt") = {} /\ todo[1].op # "recordDebt"
      /\ ~ fineAt(c, e, u) /\ healthAt(e, u) < MIN_HEALTH_FACTOR
      /\ s.minted[u] <= e.minted[u] /\ isImproved(r, e, rest, u)
  BY <1>1, ImprovementMoves DEF isCovered, places
<1>4. r.minted[u] <= s.minted[u]
  BY <1>3 DEF Made
<1>5. places(rest, "recordDebt") = {}
  <2>1. \A i \in 1 .. Len(pre) : pre[i].op # "recordDebt"
    BY <1>1 DEF Replaces
  <2>2. QED
    BY <1>3, <2>1, PlacesMove
<1>6. CASE s.minted[u] < e.minted[u]
  BY <1>2, <1>3, <1>4, <1>5, <1>6 DEF isCovered
<1>7. ASSUME NEW i \in places(todo, "eraseDebt"), todo[i].user = u, todo[i].amount > 0
      PROVE  isCovered(c, r, e, rest, u)
  <2>1. i \in 1 .. Len(todo) /\ todo[i].op = "eraseDebt"
    BY DEF places
  <2>2. CASE i = 1
    <3>1. r.minted[u] < s.minted[u]
      BY <1>7, <2>1, <2>2 DEF Made
    <3>2. QED
      BY <1>2, <1>3, <1>5, <3>1 DEF isCovered
  <2>3. CASE i # 1
    <3>1. i \in 2 .. Len(todo)
      BY <1>1, <2>1, <2>3
    <3>2. Len(pre) + i - 1 \in 1 .. Len(rest) /\ rest[Len(pre) + i - 1] = todo[i]
      BY <1>1, <3>1 DEF Resumes
    <3>3. Len(pre) + i - 1 \in places(rest, "eraseDebt")
      BY <2>1, <3>2 DEF places
    <3>4. QED
      BY SMTT(30), <1>2, <1>3, <1>4, <1>5, <1>7, <3>2, <3>3 DEF isCovered
  <2>4. QED
    BY <2>2, <2>3
<1>8. QED
  BY <1>6, <1>7 DEF isCovered


\* A check that has been passed stays so, and one that is passed counts.
LEMMA FineMoves ==
  ASSUME NEW c, NEW s, NEW r, NEW todo, NEW pre, NEW rest,
         Resumes(rest, pre, todo), Replaces(pre, todo[1]), Made(c, s, r, todo[1]), NEW u \in User,
         fineAt(c, s, u), todo[1].op \in FinalOps \cup {"checkHealth"},
         \A i \in 2 .. Len(todo) : todo[i].op \in FinalOps
  PROVE  isFine(c, r, rest, u)
<1>1. Len(todo) \in Nat \ {0} /\ Len(pre) \in Nat /\ Len(pre) = 0
  BY DEF Resumes, Replaces, FinalOps
<1>2. r.deposited = s.deposited /\ r.minted = s.minted /\ r.answer = s.answer
  BY DEF Made, SettledOps
<1>3. fineAt(c, r, u)
  BY <1>2, SameIsFine
<1>4. ASSUME NEW i \in 1 .. Len(rest) PROVE rest[i].op \in FinalOps
  <2>1. i \in Len(pre) + 1 .. Len(rest)
    BY <1>1
  <2>2. QED
    BY <2>1 DEF Resumes
<1>5. QED
  BY <1>3, <1>4 DEF isFine

\* Every account keeps an excuse through every step.
LEMMA ExcuseMoves ==
  ASSUME NEW c, NEW s \in Storage, NEW r \in Storage, NEW e \in Storage,
         NEW todo \in Seq(TodoStep), NEW pre \in Seq(TodoStep), NEW rest \in Seq(TodoStep),
         Resumes(rest, pre, todo), Replaces(pre, todo[1]),
         Made(c, s, r, todo[1]), GoodTodo(todo), TakingIsExcused(c, s, e, todo),
         NEW u \in User, Excused(c, s, e, todo, u)
  PROVE  Excused(c, r, e, rest, u)
<1>0. Len(todo) \in Nat \ {0} /\ Len(pre) \in Nat
  BY DEF Resumes
<1>1. 1 \in 1 .. Len(todo) /\ 1 + 1 = 2
  BY <1>0
<1>2. ASSUME isChecked(todo, 2, u) PROVE Excused(c, r, e, rest, u)
  <2>1. isChecked(rest, Len(pre) + 1, u)
    BY <1>1, <1>2, CheckMoves
  <2>2. isChecked(rest, 1, u)
    BY <1>0, <2>1 DEF isChecked
  <2>3. QED
    BY <2>2 DEF Excused
<1>3. CASE isChecked(todo, 1, u)
  <2>1. PICK i \in 1 .. Len(todo) : todo[i].op = "checkHealth" /\ todo[i].user = u
    BY <1>3 DEF isChecked
  <2>2. CASE i = 1
    <3>1. \A j \in 2 .. Len(todo) : todo[j].op \in FinalOps
      BY <1>1, <2>1, <2>2 DEF GoodTodo, ChecksCount
    <3>2. fineAt(c, s, u)
      BY <2>1, <2>2 DEF Made
    <3>3. QED
      BY <2>1, <2>2, <3>1, <3>2, FineMoves DEF Excused
  <2>3. CASE i # 1
    <3>1. i \in 2 .. Len(todo)
      BY <1>0, <2>3
    <3>2. isChecked(todo, 2, u)
      BY <2>1, <3>1 DEF isChecked
    <3>3. QED
      BY <1>2, <3>2
  <2>4. QED
    BY <2>2, <2>3
<1>4. CASE isFine(c, s, todo, u)
  <2>1. fineAt(c, s, u) /\ todo[1].op \in FinalOps
    BY <1>1, <1>4 DEF isFine
  <2>2. \A j \in 2 .. Len(todo) : j \in 1 .. Len(todo) /\ todo[j].op \in FinalOps
    BY <1>0, <1>4 DEF isFine
  <2>3. QED
    BY <2>1, <2>2, FineMoves DEF Excused
<1>5. CASE isCovered(c, s, e, todo, u)
  BY <1>5, CoverMoves DEF Excused
<1>6. CASE isSafer(s, e, u)
  <2>1. CASE todo[1].op = "eraseDeposit" /\ todo[1].user = u
    <3>1. isChecked(todo, 2, u) \/ isCovered(c, s, e, todo, u)
      BY <1>1, <2>1 DEF TakingIsExcused
    <3>2. QED
      BY <1>2, <1>5, <3>1
  <2>2. CASE todo[1].op = "recordDebt" /\ todo[1].user = u
    <3>1. Len(todo) > 1 /\ 1 \in 1 .. Len(todo) - 1 /\ 2 \in 2 .. Len(todo)
      BY <1>0, <2>2 DEF GoodTodo, Chained, Ends
    <3>2. Linked(todo[1], todo[2])
      BY <1>1, <3>1 DEF GoodTodo, Chained
    <3>3. todo[2].op = "checkHealth" /\ todo[2].user = u
      BY <2>2, <3>2 DEF Linked, Pairs, Ends
    <3>4. isChecked(todo, 2, u)
      BY <3>1, <3>3 DEF isChecked
    <3>5. QED
      BY <1>2, <3>4
  <2>3. CASE ~ (todo[1].op = "eraseDeposit" /\ todo[1].user = u) /\ ~ (todo[1].op = "recordDebt" /\ todo[1].user = u)
    <3>1. r.minted[u] <= s.minted[u] /\ \A t \in Token : r.deposited[u][t] >= s.deposited[u][t]
      BY <2>3 DEF Made
    <3>2. /\ s.minted[u] \in Nat /\ r.minted[u] \in Nat /\ e.minted[u] \in Nat
          /\ \A t \in Token : /\ s.deposited[u][t] \in Nat /\ r.deposited[u][t] \in Nat
                              /\ e.deposited[u][t] \in Nat
      BY StorageTypes
    <3>3. s.minted[u] <= e.minted[u] /\ \A t \in Token : s.deposited[u][t] >= e.deposited[u][t]
      BY <1>6 DEF isSafer
    <3>4. r.minted[u] <= e.minted[u]
      BY <3>1, <3>2, <3>3
    <3>5. ASSUME NEW t \in Token PROVE r.deposited[u][t] >= e.deposited[u][t]
      <4> DEFINE x == r.deposited[u][t]
                 y == s.deposited[u][t]
                 z == e.deposited[u][t]
      <4>1. x \in Nat /\ y \in Nat /\ z \in Nat /\ x >= y /\ y >= z
        BY <3>1, <3>2, <3>3
      <4> HIDE DEF x, y, z
      <4>2. x >= z
        BY <4>1
      <4>3. QED
        BY <4>2 DEF x, z
    <3>6. QED
      BY <3>4, <3>5 DEF Excused, isSafer
  <2>4. QED
    BY <2>1, <2>2, <2>3
<1>7. QED
  BY <1>3, <1>4, <1>5, <1>6 DEF Excused

\* What still takes a deposit stays excused.
LEMMA TakingMoves ==
  ASSUME NEW c, NEW s \in Storage, NEW r \in Storage, NEW e \in Storage,
         NEW todo \in Seq(TodoStep), NEW pre \in Seq(TodoStep), NEW rest \in Seq(TodoStep),
         Resumes(rest, pre, todo), Replaces(pre, todo[1]),
         Made(c, s, r, todo[1]), TakingIsExcused(c, s, e, todo),
         \A i \in 1 .. Len(pre) : pre[i].op \in {"eraseDeposit", "sweep"} =>
           isChecked(rest, i + 1, pre[i].user) \/ isCovered(c, r, e, rest, pre[i].user)
  PROVE  TakingIsExcused(c, r, e, rest)
<1>1. Len(todo) \in Nat \ {0} /\ Len(pre) \in Nat
  BY DEF Resumes
<1>2. ASSUME NEW i \in 1 .. Len(rest), rest[i].op \in {"eraseDeposit", "sweep"}
      PROVE  isChecked(rest, i + 1, rest[i].user) \/ isCovered(c, r, e, rest, rest[i].user)
  <2>1. CASE i \in 1 .. Len(pre)
    BY <1>2, <2>1 DEF Resumes
  <2>2. CASE i \notin 1 .. Len(pre)
    <3>1. i \in Len(pre) + 1 .. Len(rest)
      BY <1>1, <2>2
    <3>2. i - Len(pre) + 1 \in 2 .. Len(todo) /\ rest[i] = todo[i - Len(pre) + 1]
      BY <3>1 DEF Resumes
    <3>3. PICK k \in 2 .. Len(todo) : k = i - Len(pre) + 1
      BY <3>2
    <3>4. k \in 1 .. Len(todo) /\ rest[i] = todo[k] /\ Len(pre) + k = i + 1
      BY <1>1, <3>2, <3>3
    <3>5. rest[i].user \in User
      <4>1. todo[k] \in TodoStep
        BY <3>4
      <4>2. QED
        BY <1>2, <3>4, <4>1 DEF TodoStep
    <3>6. isChecked(todo, k + 1, rest[i].user) \/ isCovered(c, s, e, todo, rest[i].user)
      BY <1>2, <3>4 DEF TakingIsExcused
    <3>7. isChecked(todo, k + 1, rest[i].user) => isChecked(rest, i + 1, rest[i].user)
      BY <3>4, CheckMoves
    <3>8. isCovered(c, s, e, todo, rest[i].user) => isCovered(c, r, e, rest, rest[i].user)
      BY <3>5, CoverMoves
    <3>9. QED
      BY <3>6, <3>7, <3>8
  <2>3. QED
    BY <2>1, <2>2
<1>3. QED
  BY <1>2 DEF TakingIsExcused

\* A seizure that is still to come stays the first thing the call does.
LEMMA SeizureMoves ==
  ASSUME NEW c, NEW s, NEW r, NEW e,
         NEW todo \in Seq(TodoStep), NEW pre \in Seq(TodoStep), NEW rest \in Seq(TodoStep),
         Resumes(rest, pre, todo), Replaces(pre, todo[1]),
         Made(c, s, r, todo[1]), SeizureComesFirst(s, e, todo)
  PROVE  SeizureComesFirst(r, e, rest)
<1>1. Len(todo) \in Nat \ {0} /\ Len(pre) \in Nat /\ Len(rest) = Len(pre) + Len(todo) - 1
  BY DEF Resumes
<1>2. \A i \in 1 .. Len(pre) : pre[i].op # "seize" /\ pre[i].op # "recordDebt"
  BY <1>1 DEF Replaces
<1>3. /\ places(rest, "seize") = {Len(pre) + k - 1 : k \in places(todo, "seize") \ {1}}
      /\ places(rest, "recordDebt") = {Len(pre) + k - 1 : k \in places(todo, "recordDebt") \ {1}}
  BY <1>2, PlacesMove
<1>4. SUFFICES ASSUME NEW i \in places(rest, "seize")
               PROVE  /\ r.deposited = e.deposited /\ r.minted = e.minted /\ r.answer = e.answer
                      /\ places(rest, "recordDebt") = {}
                      /\ \A j \in 1 .. i - 1 : rest[j].op \in {"moreThanZero", "enter"}
                      /\ \A j \in i + 1 .. Len(rest) : rest[j].op \in SettledOps
                      /\ \/ rest[i].amount > 0
                         \/ \E j \in 1 .. i - 1 : /\ rest[j].op = "moreThanZero"
                                                   /\ rest[j].amount = rest[i].amount
  BY DEF SeizureComesFirst
<1>5. PICK k \in places(todo, "seize") \ {1} : i = Len(pre) + k - 1
  BY <1>3
<1>6. k \in 2 .. Len(todo) /\ k \in 1 .. Len(todo) /\ 1 \in 1 .. k - 1 /\ k \in places(todo, "seize")
  BY <1>1, <1>5 DEF places
<1>7. /\ s.deposited = e.deposited /\ s.minted = e.minted /\ s.answer = e.answer
      /\ places(todo, "recordDebt") = {}
      /\ \A j \in 1 .. k - 1 : todo[j].op \in {"moreThanZero", "enter"}
      /\ \A j \in k + 1 .. Len(todo) : todo[j].op \in SettledOps
      /\ \/ todo[k].amount > 0
         \/ \E j \in 1 .. k - 1 : /\ todo[j].op = "moreThanZero"
                                   /\ todo[j].amount = todo[k].amount
  BY <1>6 DEF SeizureComesFirst
<1>8. todo[1].op \in {"moreThanZero", "enter"}
  BY <1>6, <1>7
<1>9. Len(pre) = 0 /\ i = k - 1
  BY <1>1, <1>5, <1>6, <1>8 DEF Replaces
<1>10. r.deposited = e.deposited /\ r.minted = e.minted /\ r.answer = e.answer
  BY <1>7, <1>8 DEF Made
<1>11. places(rest, "recordDebt") = {}
  BY <1>3, <1>7
<1>12. ASSUME NEW j \in 1 .. Len(rest) PROVE rest[j] = todo[j + 1]
  <2>1. j \in Len(pre) + 1 .. Len(rest) /\ j - Len(pre) + 1 = j + 1
    BY <1>1, <1>9
  <2>2. rest[j] = todo[j - Len(pre) + 1]
    BY <2>1 DEF Resumes
  <2>3. QED
    BY <2>1, <2>2
<1>13. i \in 1 .. Len(rest) /\ i + 1 = k /\ rest[i] = todo[k]
  BY <1>1, <1>6, <1>9, <1>12
<1>14. ASSUME NEW j \in 1 .. i - 1 PROVE rest[j].op \in {"moreThanZero", "enter"}
  <2>1. j \in 1 .. Len(rest) /\ j + 1 \in 1 .. k - 1
    BY <1>1, <1>13, <1>14
  <2>2. QED
    BY <1>7, <1>12, <2>1
<1>15. ASSUME NEW j \in 1 .. k - 1, todo[j].op = "moreThanZero", todo[j].amount = todo[k].amount
       PROVE  \/ rest[i].amount > 0
              \/ \E l \in 1 .. i - 1 : /\ rest[l].op = "moreThanZero"
                                        /\ rest[l].amount = rest[i].amount
  <2>1. CASE j = 1
    BY <1>13, <1>15, <2>1 DEF Made
  <2>2. CASE j # 1
    <3>1. j - 1 \in 1 .. i - 1 /\ j - 1 \in 1 .. Len(rest) /\ (j - 1) + 1 = j
      BY <1>1, <1>9, <1>13, <2>2
    <3>2. rest[j - 1] = todo[j]
      BY <1>12, <3>1
    <3>3. QED
      BY <1>13, <1>15, <3>1, <3>2
  <2>3. QED
    BY <2>1, <2>2
<1>16. ASSUME NEW j \in i + 1 .. Len(rest) PROVE rest[j].op \in SettledOps
  <2>1. j \in 1 .. Len(rest) /\ j + 1 \in k + 1 .. Len(todo)
    BY <1>1, <1>9, <1>13
  <2>2. QED
    BY <1>7, <1>12, <2>1
<1>17. QED
  BY <1>7, <1>10, <1>11, <1>13, <1>14, <1>15, <1>16

\* Surplus and debt gap of a storage are integers.
LEMMA SurplusType ==
  ASSUME NEW s, TablesOK(s)
  PROVE  (\A t \in Token : surplusAt(s, t) \in Int) /\ gapAt(s) \in Int
<1>1. \A t \in Token : s.balances[t][Engine] \in Nat
  BY WordsAreNaturals, Accounts DEF TablesOK, Storage, Holder
<1>2. \A t \in Token : columnTotal(s.deposited, t) \in Nat
  BY ColumnTotalType DEF TablesOK, Storage
<1>3. SumFunction(s.minted) \in Nat
  <2>1. s.minted \in [User -> Nat]
    BY WordsAreNaturals DEF TablesOK, Storage
  <2>2. QED
    BY <2>1, SumType, Accounts
<1>4. s.dsc[3] \in Nat
  BY WordsAreNaturals DEF TablesOK, Storage
<1>5. QED
  BY <1>1, <1>2, <1>3, <1>4 DEF surplusAt, gapAt

\* The amounts due are integers.
LEMMA DueType ==
  ASSUME NEW c, NEW h \in TodoStep, NEW t
  PROVE  /\ surplusBefore(c, h, t) \in Int /\ surplusAfter(c, h, t) \in Int
         /\ gapBefore(h) \in Int /\ gapAfter(h) \in Int
BY DEF TodoStep, surplusBefore, surplusAfter, gapBefore, gapAfter

\* The outermost call goes on.
LEMMA RunningGoesOn ==
  ASSUME NEW c, NEW s, NEW r, NEW e, AtRest(e),
         NEW todo \in Seq(TodoStep), NEW pre \in Seq(TodoStep), NEW rest \in Seq(TodoStep),
         Resumes(rest, pre, todo), Replaces(pre, todo[1]),
         Running(c, s, e, todo), Made(c, s, r, todo[1]),
         \A i \in 1 .. Len(pre) : pre[i].op \in {"eraseDeposit", "sweep"} =>
           isChecked(rest, i + 1, pre[i].user) \/ isCovered(c, r, e, rest, pre[i].user)
  PROVE  Running(c, r, e, rest)
<1> DEFINE h == todo[1]
<1>1. /\ TablesOK(s) /\ TablesOK(r) /\ TablesOK(e)
      /\ s \in Storage /\ r \in Storage /\ e \in Storage
  BY DEF Running, Made, AtRest, TablesOK
<1>2. Len(todo) \in Nat \ {0} /\ h \in TodoStep
  BY DEF Resumes
<1>3. GoodTodo(todo) /\ Chained(todo)
  BY DEF Running, GoodTodo
<1>4. /\ Chained(rest)
      /\ \A t : surplusDue(c, rest, t) = surplusAfter(c, h, t)
      /\ gapDue(rest) = gapAfter(h)
  BY <1>3, RestIsChained
<1>5. GoodTodo(rest)
  BY <1>3, <1>4, RestIsGood DEF GoodTodo
<1>6. \/ r.status = NOT_ENTERED /\ Outside(rest)
      \/ r.status = ENTERED /\ Inside(rest)
  <2>1. CASE s.status = NOT_ENTERED /\ Outside(todo)
    <3>1. h.op # "leave"
      BY <2>1, GuardMoves
    <3>2. QED
      BY <2>1, <3>1, GuardMoves DEF Made
  <2>2. CASE s.status = ENTERED /\ Inside(todo)
    BY <2>2, GuardMoves DEF Made
  <2>3. QED
    BY <2>1, <2>2 DEF Running
<1>7. ASSUME NEW t \in Token
      PROVE  surplusAt(r, t) = surplusAt(e, t) + surplusDue(c, rest, t)
  <2>1. /\ surplusAt(s, t) \in Int /\ surplusAt(r, t) \in Int /\ surplusAt(e, t) \in Int
        /\ surplusBefore(c, h, t) \in Int /\ surplusAfter(c, h, t) \in Int
    BY <1>1, <1>2, SurplusType, DueType
  <2>2. surplusAt(s, t) = surplusAt(e, t) + surplusBefore(c, h, t)
    BY <1>2 DEF Running, surplusDue
  <2>3. surplusAt(r, t) = surplusAt(s, t) + surplusAfter(c, h, t) - surplusBefore(c, h, t)
    BY DEF Made
  <2>4. QED
    BY <1>4, <2>1, <2>2, <2>3
<1>8. gapAt(r) = gapAt(e) + gapDue(rest)
  <2>1. /\ gapAt(s) \in Int /\ gapAt(r) \in Int /\ gapAt(e) \in Int
        /\ gapBefore(h) \in Int /\ gapAfter(h) \in Int
    BY <1>1, <1>2, SurplusType, DueType
  <2>2. gapAt(s) = gapAt(e) + gapBefore(h)
    BY <1>2 DEF Running, gapDue
  <2>3. gapAt(r) = gapAt(s) + gapAfter(h) - gapBefore(h)
    BY DEF Made
  <2>4. QED
    BY <1>4, <2>1, <2>2, <2>3
<1>9. \A u \in User : Excused(c, r, e, rest, u)
  BY <1>1, <1>3, ExcuseMoves DEF Running
<1>10. TakingIsExcused(c, r, e, rest)
  BY <1>1, TakingMoves DEF Running
<1>11. SeizureComesFirst(r, e, rest)
  BY SeizureMoves DEF Running
<1>12. QED
  BY <1>1, <1>5, <1>6, <1>7, <1>8, <1>9, <1>10, <1>11 DEF Running

\* A call inside a call goes on with the steps that are free only.
LEMMA NestedIsFree ==
  ASSUME NEW c, NEW s, NEW r, NEW e, NEW todo, Len(todo) \in Nat \ {0},
         Nested(s, e, todo), Made(c, s, r, todo[1])
  PROVE  todo[1].op \in FreeOps
<1>1. 1 \in 1 .. Len(todo)
  OBVIOUS
<1>2. todo[1].op # "enter"
  BY DEF Nested, Made
<1>3. SUFFICES ASSUME todo[1].op \notin FreeOps PROVE FALSE
  OBVIOUS
<1>4. PICK j \in 1 .. 1 : todo[j].op = "enter"
  BY <1>1, <1>3 DEF Nested, Locked
<1>5. j = 1
  OBVIOUS
<1>6. QED
  BY <1>2, <1>4, <1>5

\* An inner call goes on as one that only burns DSC.
LEMMA NestedGoesOn ==
  ASSUME NEW c, NEW s, NEW r, NEW e, TablesOK(e),
         NEW todo \in Seq(TodoStep), NEW rest \in Seq(TodoStep),
         Resumes(rest, <<>>, todo), Nested(s, e, todo), Made(c, s, r, todo[1])
  PROVE  Nested(r, e, rest)
<1> DEFINE h == todo[1]
<1>1. TablesOK(s) /\ TablesOK(r) /\ TablesOK(e) /\ s \in Storage /\ r \in Storage /\ e \in Storage
  BY DEF Nested, Made, AtRest, TablesOK
<1>2. Len(todo) \in Nat \ {0} /\ h \in TodoStep /\ 1 \in 1 .. Len(todo)
  BY DEF Resumes
<1>3. h.op # "enter"
  BY DEF Nested, Made
<1>4. h.op \in FreeOps
  BY <1>2, NestedIsFree
<1>5. Replaces(<<>>, h) /\ <<>> \in Seq(TodoStep) /\ Len(<<>>) = 0
  BY DEF Replaces
<1>6. /\ Chained(rest) /\ gapDue(rest) = gapAfter(h)
  BY <1>5, RestIsChained DEF Nested
<1>7. Locked(rest)
  BY <1>3, <1>5, RestIsGood DEF Nested
<1>8. Outside(rest)
  BY <1>3, <1>4, <1>5, GuardMoves DEF Nested, FreeOps
<1>9. /\ r.status = ENTERED /\ e.status = ENTERED
      /\ r.deposited = e.deposited /\ r.balances = e.balances
  BY <1>4 DEF Nested, Made, FreeOps
<1>10. ASSUME NEW u \in User PROVE r.minted[u] <= e.minted[u]
  <2>1. r.minted[u] \in Nat /\ s.minted[u] \in Nat /\ e.minted[u] \in Nat
    BY <1>1, StorageTypes
  <2>2. r.minted[u] <= s.minted[u]
    BY <1>4 DEF Made, FreeOps
  <2>3. s.minted[u] <= e.minted[u]
    BY DEF Nested
  <2>4. QED
    BY <2>1, <2>2, <2>3
<1>11. gapAt(r) = gapAt(e) + gapDue(rest)
  <2>1. /\ gapAt(s) \in Int /\ gapAt(r) \in Int /\ gapAt(e) \in Int
        /\ gapBefore(h) \in Int /\ gapAfter(h) \in Int
    BY <1>1, <1>2, SurplusType, DueType
  <2>2. gapAt(s) = gapAt(e) + gapBefore(h)
    BY <1>2 DEF Nested, gapDue
  <2>3. gapAt(r) = gapAt(s) + gapAfter(h) - gapBefore(h)
    BY DEF Made
  <2>4. QED
    BY <1>6, <2>1, <2>2, <2>3
<1>12. QED
  BY <1>1, <1>4, <1>6, <1>7, <1>8, <1>9, <1>10, <1>11 DEF Nested

\* What a call inside a call has done takes nothing from the call around it.
LEMMA NestedReturns ==
  ASSUME NEW c, NEW s, NEW g, NEW e, AtRest(e), NEW todo \in Seq(TodoStep),
         Running(c, g, e, todo), CallsBack(todo), Nested(s, g, <<>>)
  PROVE  Running(c, s, e, todo)
<1>1. /\ TablesOK(s) /\ TablesOK(g) /\ TablesOK(e)
      /\ s \in Storage /\ g \in Storage /\ e \in Storage
  BY DEF Running, Nested, AtRest, TablesOK
<1>2. Len(todo) \in Nat \ {0} /\ 1 \in 1 .. Len(todo)
  BY DEF CallsBack
<1>3. todo[1].op \notin SettledOps \cup {"moreThanZero", "enter"}
  BY DEF CallsBack, FinalOps, SettledOps
<1>4. /\ s.deposited = g.deposited /\ s.balances = g.balances /\ s.status = g.status
      /\ \A u \in User : /\ s.minted[u] <= g.minted[u]
                         /\ s.minted[u] \in Nat /\ g.minted[u] \in Nat /\ e.minted[u] \in Nat
  BY <1>1, StorageTypes DEF Nested, Running
<1>5. \A t \in Token : surplusAt(s, t) = surplusAt(g, t)
  BY <1>4 DEF surplusAt
<1>6. gapAt(s) = gapAt(g)
  <2>1. gapAt(g) \in Int
    BY <1>1, SurplusType
  <2>2. gapAt(s) = gapAt(g) + 0
    BY DEF Nested, gapDue
  <2>3. QED
    BY <2>1, <2>2
<1>7. ASSUME NEW u \in User, isCovered(c, g, e, todo, u) PROVE isCovered(c, s, e, todo, u)
  <2>1. isImproved(s, e, todo, u)
    BY <1>2, <1>3, <1>7 DEF isCovered, isImproved
  <2>2. QED
    BY <1>4, <1>7, <2>1 DEF isCovered
<1>8. ASSUME NEW u \in User, Excused(c, g, e, todo, u) PROVE Excused(c, s, e, todo, u)
  <2>1. CASE isSafer(g, e, u)
    BY <1>4, <2>1 DEF isSafer, Excused
  <2>2. CASE isFine(c, g, todo, u)
    BY <1>2, <1>3, <2>2 DEF isFine, SettledOps
  <2>3. QED
    BY <1>7, <1>8, <2>1, <2>2 DEF Excused
<1>9. ASSUME NEW i \in 1 .. Len(todo), todo[i].op \in {"eraseDeposit", "sweep"}
      PROVE  isChecked(todo, i + 1, todo[i].user) \/ isCovered(c, s, e, todo, todo[i].user)
  <2>1. todo[i] \in TodoStep
    OBVIOUS
  <2>2. todo[i].user \in User
    BY <1>9, <2>1 DEF TodoStep
  <2>3. isChecked(todo, i + 1, todo[i].user) \/ isCovered(c, g, e, todo, todo[i].user)
    BY <1>9 DEF Running, TakingIsExcused
  <2>4. QED
    BY <1>7, <2>2, <2>3
<1>10. SeizureComesFirst(s, e, todo)
  <2>1. ASSUME NEW i \in places(todo, "seize") PROVE i = 1
    <3>1. \A j \in 1 .. i - 1 : todo[j].op \in {"moreThanZero", "enter"}
      BY DEF Running, SeizureComesFirst
    <3>2. i \in 1 .. Len(todo) /\ (i # 1 => 1 \in 1 .. i - 1)
      BY <1>2 DEF places
    <3>3. QED
      BY <1>3, <3>1, <3>2
  <2>2. places(todo, "seize") = {}
    BY <2>1 DEF places, CallsBack
  <2>3. QED
    BY <2>2 DEF SeizureComesFirst
<1>11. QED
  BY <1>1, <1>4, <1>5, <1>6, <1>8, <1>9, <1>10 DEF Running, TakingIsExcused

-----------------------------------------------------------------------------
(* The storage, step by step *)

\* The fields of the storage are the variables.
LEMMA StorageFields ==
  /\ storage.deposited = s_collateralDeposited /\ storage.minted = s_DscMinted
  /\ storage.balances = collateralBalances /\ storage.allowances = collateralAllowances
  /\ storage.dsc[1] = dscBalances /\ storage.dsc[2] = dscAllowances
  /\ storage.dsc[3] = dscTotalSupply
  /\ storage.answer = answer /\ storage.status = _status
  /\ storage'.deposited = s_collateralDeposited' /\ storage'.minted = s_DscMinted'
  /\ storage'.balances = collateralBalances' /\ storage'.allowances = collateralAllowances'
  /\ storage'.dsc[1] = dscBalances' /\ storage'.dsc[2] = dscAllowances'
  /\ storage'.dsc[3] = dscTotalSupply'
  /\ storage'.answer = answer' /\ storage'.status = _status'
BY DEF storage, dscLedger

\* The types of the storage are those of the variables.
LEMMA StorageIsTyped ==
  ASSUME TablesOK(storage)
  PROVE  /\ s_collateralDeposited \in [User -> [Token -> Word]]
         /\ s_DscMinted \in [User -> Word]
         /\ collateralBalances \in [Token -> [Holder -> Word]]
         /\ collateralAllowances \in [Token -> [User -> [{Engine} -> Word]]]
         /\ dscBalances \in [Holder -> Word]
         /\ dscAllowances \in [Holder -> [Holder -> Word]]
         /\ dscTotalSupply \in Word /\ dscTotalSupply = SumFunction(dscBalances)
         /\ answer \in [Feed -> Int] /\ _status \in {NOT_ENTERED, ENTERED}
         /\ \A t \in Token : SumFunction(collateralBalances[t]) \in Word
<1>1. storage \in Storage
  BY DEF TablesOK
<1>2. /\ storage.deposited \in [User -> [Token -> Word]] /\ storage.minted \in [User -> Word]
      /\ storage.balances \in [Token -> [Holder -> Word]]
      /\ storage.allowances \in [Token -> [User -> [{Engine} -> Word]]]
      /\ storage.dsc \in [Holder -> Word] \X [Holder -> [Holder -> Word]] \X Word
      /\ storage.answer \in [Feed -> Int] /\ storage.status \in {NOT_ENTERED, ENTERED}
  BY <1>1 DEF Storage
<1>3. /\ storage.dsc[1] \in [Holder -> Word] /\ storage.dsc[2] \in [Holder -> [Holder -> Word]]
      /\ storage.dsc[3] \in Word
  BY <1>2
<1>4. QED
  BY <1>2, <1>3, StorageFields DEF TablesOK

\* The same after a step.
LEMMA StorageIsTypedNext ==
  ASSUME s_collateralDeposited' \in [User -> [Token -> Word]],
         s_DscMinted' \in [User -> Word],
         collateralBalances' \in [Token -> [Holder -> Word]],
         collateralAllowances' \in [Token -> [User -> [{Engine} -> Word]]],
         dscBalances' \in [Holder -> Word],
         dscAllowances' \in [Holder -> [Holder -> Word]],
         dscTotalSupply' \in Word, dscTotalSupply' = SumFunction(dscBalances'),
         answer' \in [Feed -> Int], _status' \in {NOT_ENTERED, ENTERED},
         \A t \in Token : SumFunction(collateralBalances'[t]) \in Word
  PROVE  TablesOK(storage')
<1>1. storage' \in Storage
  BY DEF storage, Storage, dscLedger
<1>2. QED
  BY <1>1, StorageFields DEF TablesOK

\* The steps that change no book and no balance.
LEMMA QuietIsMade ==
  ASSUME NEW c, NEW s, TablesOK(s), NEW r \in Storage, NEW h \in TodoStep,
         r.deposited = s.deposited, r.minted = s.minted, r.balances = s.balances,
         r.dsc = s.dsc, r.answer = s.answer,
         r.status = IF h.op = "enter" THEN ENTERED
                    ELSE IF h.op = "leave" THEN NOT_ENTERED ELSE s.status,
         h.op = "enter" => s.status # ENTERED,
         h.op \in {"moreThanZero", "isAllowedToken", "checkHealth", "checkImproved",
                   "transferFromReturned", "transferReturned", "mintReturned",
                   "enter", "leave", "seize", "sweep", "transferFrom", "transfer"},
         h.op \in {"transferFrom", "transfer"} => h.op \in c.faults,
         h.op = "transferFromReturned" => "transferFrom" \notin c.faults,
         h.op = "transferReturned" => "transfer" \notin c.faults,
         h.op = "moreThanZero" => h.amount > 0,
         h.op = "checkHealth" => fineAt(c, s, h.user),
         h.op = "seize" => ~ fineAt(c, s, h.user),
         h.op = "checkImproved" => healthAt(s, h.user) > h.amount
  PROVE  Made(c, s, r, h)
<1>1. TablesOK(r)
  BY DEF TablesOK
<1>2. \A t \in Token : /\ surplusAt(r, t) = surplusAt(s, t)
                       /\ surplusAt(s, t) \in Int
  BY SurplusType DEF surplusAt
<1>3. gapAt(r) = gapAt(s) /\ gapAt(s) \in Int
  BY SurplusType DEF gapAt
<1>4. \A t : surplusAfter(c, h, t) = surplusBefore(c, h, t)
  BY DEF surplusAfter, surplusBefore
<1>5. gapAfter(h) = gapBefore(h)
  BY DEF gapAfter, gapBefore
<1>6. \A t : surplusBefore(c, h, t) \in Int /\ gapBefore(h) \in Int
  BY DueType
<1>7. /\ \A t \in Token : surplusAt(r, t) = surplusAt(s, t) + surplusAfter(c, h, t) - surplusBefore(c, h, t)
      /\ gapAt(r) = gapAt(s) + gapAfter(h) - gapBefore(h)
  BY <1>2, <1>3, <1>4, <1>5, <1>6
<1>8. s \in Storage
  BY DEF TablesOK
<1>9. /\ \A u \in User, t \in Token : r.deposited[u][t] >= s.deposited[u][t]
      /\ \A u \in User : r.minted[u] <= s.minted[u]
  BY <1>8, StorageTypes
<1>10. h.op # "eraseDebt"
  OBVIOUS
<1>11. QED
  BY <1>1, <1>7, <1>9, <1>10 DEF Made, SettledOps, FinalOps

\* _depositCollateral and _redeemCollateral change the book of one deposit.
LEMMA DepositIsMade ==
  ASSUME NEW c, NEW s, TablesOK(s), NEW r \in Storage, NEW h \in TodoStep, NEW v \in Word,
         \/ h.op = "recordDeposit" /\ v = s.deposited[h.user][h.token] + h.amount
         \/ h.op = "eraseDeposit" /\ v = s.deposited[h.user][h.token] - h.amount,
         r.deposited = withDeposit(s.deposited, h.user, h.token, v),
         r.minted = s.minted, r.balances = s.balances,
         r.dsc = s.dsc, r.status = s.status
  PROVE  Made(c, s, r, h)
<1>1. /\ TablesOK(r) /\ s \in Storage /\ s.deposited \in [User -> [Token -> Word]]
  BY DEF TablesOK, Storage
<1>2. h.user \in User /\ h.token \in Token /\ h.amount \in Nat
  BY DEF TodoStep, CollateralOps
<1>3. /\ columnTotal(r.deposited, h.token)
           = columnTotal(s.deposited, h.token) - s.deposited[h.user][h.token] + v
      /\ \A t \in Token \ {h.token} : columnTotal(r.deposited, t) = columnTotal(s.deposited, t)
  BY <1>1, <1>2, ColumnUpdate
<1>4. s.deposited[h.user][h.token] \in Nat /\ v \in Nat
  BY <1>1, <1>2, StorageTypes, WordsAreNaturals
<1>5. ASSUME NEW t \in Token
      PROVE  surplusAt(r, t) = surplusAt(s, t) + surplusAfter(c, h, t) - surplusBefore(c, h, t)
  <2>1. /\ s.balances[t][Engine] \in Nat /\ columnTotal(s.deposited, t) \in Nat
        /\ columnTotal(r.deposited, t) \in Nat
    <3>1. r.deposited \in [User -> [Token -> Word]]
      BY DEF Storage
    <3>2. s.balances[t][Engine] \in Nat
      BY <1>1, WordsAreNaturals, Accounts DEF Storage
    <3>3. QED
      BY <1>1, <3>1, <3>2, ColumnTotalType
  <2>2. /\ surplusAt(r, t) = s.balances[t][Engine] - columnTotal(r.deposited, t)
        /\ surplusAt(s, t) = s.balances[t][Engine] - columnTotal(s.deposited, t)
    BY DEF surplusAt
  <2>3. surplusBefore(c, h, t) = 0
    BY DEF surplusBefore
  <2>4. CASE t = h.token
    <3>1. surplusAfter(c, h, t) = s.deposited[h.user][h.token] - v
      BY <1>2, <1>4, <2>4 DEF surplusAfter
    <3>2. QED
      BY <1>3, <1>4, <2>1, <2>2, <2>3, <2>4, <3>1
  <2>5. CASE t # h.token
    <3>1. surplusAfter(c, h, t) = 0
      BY <2>5 DEF surplusAfter
    <3>2. QED
      BY <1>3, <2>1, <2>2, <2>3, <2>5, <3>1
  <2>6. QED
    BY <2>4, <2>5
<1>6. gapAt(r) = gapAt(s) + gapAfter(h) - gapBefore(h)
  <2>1. gapAt(s) \in Int /\ gapAt(r) = gapAt(s)
    BY SurplusType DEF gapAt
  <2>2. gapAfter(h) = 0 /\ gapBefore(h) = 0
    BY DEF gapAfter, gapBefore
  <2>3. QED
    BY <2>1, <2>2
<1>7. ASSUME NEW u \in User, NEW t \in Token, ~ (h.op = "eraseDeposit" /\ u = h.user)
      PROVE  r.deposited[u][t] >= s.deposited[u][t]
  <2>1. s.deposited[u][t] \in Nat
    BY <1>1, StorageTypes
  <2>2. CASE u = h.user /\ t = h.token
    <3>1. r.deposited[u][t] = v
      BY <1>1, <1>2, <2>2 DEF withDeposit
    <3>2. v = s.deposited[u][t] + h.amount
      BY <1>7, <2>2
    <3>3. QED
      BY <1>2, <2>1, <3>1, <3>2
  <2>3. CASE ~ (u = h.user /\ t = h.token)
    <3>1. r.deposited[u][t] = s.deposited[u][t]
      BY <1>1, <1>2, <2>3 DEF withDeposit
    <3>2. QED
      BY <2>1, <3>1
  <2>4. QED
    BY <2>2, <2>3
<1>8. \A u \in User : r.minted[u] <= s.minted[u]
  BY <1>1, StorageTypes
<1>9. QED
  BY <1>1, <1>5, <1>6, <1>7, <1>8 DEF Made, FreeOps, SettledOps, FinalOps

\* _mintDsc and _burnDsc change the book of one debt.
LEMMA DebtIsMade ==
  ASSUME NEW c, NEW s, TablesOK(s), NEW r \in Storage, NEW h \in TodoStep, NEW v \in Word,
         \/ h.op = "recordDebt" /\ v = s.minted[h.user] + h.amount
         \/ h.op = "eraseDebt" /\ v = s.minted[h.user] - h.amount,
         r.minted = [s.minted EXCEPT ![h.user] = v],
         r.deposited = s.deposited, r.balances = s.balances,
         r.dsc = s.dsc, r.status = s.status
  PROVE  Made(c, s, r, h)
<1>1. TablesOK(r) /\ s \in Storage /\ s.minted \in [User -> Word]
  BY DEF TablesOK, Storage
<1>2. h.user \in User /\ h.amount \in Nat
  BY DEF TodoStep
<1>3. /\ s.minted \in [User -> Nat] /\ s.minted[h.user] \in Nat /\ v \in Nat
      /\ s.dsc[3] \in Nat
  BY <1>1, <1>2, WordsAreNaturals DEF Storage
<1>4. ASSUME NEW t \in Token
      PROVE  surplusAt(r, t) = surplusAt(s, t) + surplusAfter(c, h, t) - surplusBefore(c, h, t)
  <2>1. surplusAt(r, t) = surplusAt(s, t) /\ surplusAt(s, t) \in Int
    BY SurplusType DEF surplusAt
  <2>2. surplusAfter(c, h, t) = 0 /\ surplusBefore(c, h, t) = 0
    BY DEF surplusAfter, surplusBefore
  <2>3. QED
    BY <2>1, <2>2
<1>5. gapAt(r) = gapAt(s) + gapAfter(h) - gapBefore(h)
  <2>1. SumFunction(r.minted) = SumFunction(s.minted) - s.minted[h.user] + v
    BY <1>2, <1>3, SumUpdate, Accounts
  <2>2. SumFunction(s.minted) \in Nat
    BY <1>3, SumType, Accounts
  <2>3. gapBefore(h) = 0 /\ gapAfter(h) = v - s.minted[h.user]
    BY <1>2, <1>3 DEF gapBefore, gapAfter
  <2>4. gapAt(s) = SumFunction(s.minted) - s.dsc[3] /\ gapAt(r) = SumFunction(r.minted) - s.dsc[3]
    BY DEF gapAt
  <2>5. QED
    BY <1>3, <2>1, <2>2, <2>3, <2>4
<1>6. \A u \in User, t \in Token : r.deposited[u][t] >= s.deposited[u][t]
  BY <1>1, StorageTypes
<1>7. ASSUME NEW u \in User, ~ (h.op = "recordDebt" /\ u = h.user)
      PROVE  r.minted[u] <= s.minted[u]
  <2>1. CASE u = h.user
    BY <1>1, <1>2, <1>3, <1>7, <2>1
  <2>2. CASE u # h.user
    BY <1>1, <1>3, <2>2
  <2>3. QED
    BY <2>1, <2>2
<1>8. h.op = "eraseDebt" /\ h.amount > 0 => r.minted[h.user] < s.minted[h.user]
  BY <1>1, <1>2, <1>3
<1>9. QED
  BY <1>1, <1>4, <1>5, <1>6, <1>7, <1>8 DEF Made, SettledOps, FinalOps

\* The collateral token moves what is due.
LEMMA TransferIsMade ==
  ASSUME NEW c, NEW s, TablesOK(s), NEW r \in Storage, NEW h \in TodoStep, NEW b,
         \/ /\ h.op = "transferFrom" /\ "transferFrom" \notin c.faults
            /\ CanTransfer(s.balances[h.token], h.user, h.amount)
            /\ b = Transferred(s.balances[h.token], h.user, Engine, h.amount)
         \/ /\ h.op = "transfer" /\ "transfer" \notin c.faults
            /\ CanTransfer(s.balances[h.token], Engine, h.amount)
            /\ b = Transferred(s.balances[h.token], Engine, h.user, h.amount),
         r.balances = [s.balances EXCEPT ![h.token] = b],
         r.deposited = s.deposited, r.minted = s.minted,
         r.dsc = s.dsc, r.status = s.status
  PROVE  Made(c, s, r, h)
<1>1. s \in Storage /\ s.balances \in [Token -> [Holder -> Word]]
  BY DEF TablesOK, Storage
<1>2. /\ h.token \in Token /\ h.amount \in Nat /\ h.user \in Holder /\ h.user # Engine
  BY Accounts DEF TodoStep, CollateralOps
<1>3. /\ s.balances[h.token] \in [Holder -> Word] /\ SumFunction(s.balances[h.token]) \in Word
      /\ s.balances[h.token][Engine] \in Nat
  BY <1>1, <1>2, WordsAreNaturals, Accounts DEF TablesOK
<1>4. /\ SumFunction(b) = SumFunction(s.balances[h.token])
      /\ h.op = "transferFrom" => b[Engine] = s.balances[h.token][Engine] + h.amount
      /\ h.op = "transfer" => b[Engine] = s.balances[h.token][Engine] - h.amount
  BY <1>2, <1>3, EngineHolding, Accounts
<1>5. /\ r.balances[h.token] = b
      /\ \A t \in Token \ {h.token} : r.balances[t] = s.balances[t]
  BY <1>1, <1>2
<1>6. TablesOK(r)
  <2>1. \A t \in Token : SumFunction(r.balances[t]) \in Word
    BY <1>3, <1>4, <1>5 DEF TablesOK
  <2>2. QED
    BY <2>1 DEF TablesOK
<1>7. ASSUME NEW t \in Token
      PROVE  surplusAt(r, t) = surplusAt(s, t) + surplusAfter(c, h, t) - surplusBefore(c, h, t)
  <2>1. /\ surplusAt(s, t) = s.balances[t][Engine] - columnTotal(s.deposited, t)
        /\ surplusAt(r, t) = r.balances[t][Engine] - columnTotal(s.deposited, t)
    BY DEF surplusAt
  <2>2. columnTotal(s.deposited, t) \in Nat /\ surplusAt(s, t) \in Int
    BY ColumnTotalType, SurplusType, <1>1 DEF Storage
  <2>3. surplusAfter(c, h, t) = 0
    BY DEF surplusAfter
  <2>4. CASE t = h.token
    <3>1. surplusBefore(c, h, t) = IF h.op = "transferFrom" THEN - h.amount ELSE h.amount
      BY <2>4 DEF surplusBefore
    <3>2. QED
      BY <1>2, <1>3, <1>4, <1>5, <2>1, <2>2, <2>3, <2>4, <3>1
  <2>5. CASE t # h.token
    <3>1. surplusBefore(c, h, t) = 0
      BY <2>5 DEF surplusBefore
    <3>2. r.balances[t] = s.balances[t]
      BY <1>5, <2>5
    <3>3. QED
      BY <2>1, <2>2, <2>3, <3>1, <3>2
  <2>6. QED
    BY <2>4, <2>5
<1>8. gapAt(r) = gapAt(s) + gapAfter(h) - gapBefore(h)
  <2>1. gapAt(s) \in Int /\ gapAt(r) = gapAt(s)
    BY SurplusType DEF gapAt
  <2>2. gapAfter(h) = 0 /\ gapBefore(h) = 0
    BY DEF gapAfter, gapBefore
  <2>3. QED
    BY <2>1, <2>2
<1>9. /\ \A u \in User, t \in Token : r.deposited[u][t] >= s.deposited[u][t]
      /\ \A u \in User : r.minted[u] <= s.minted[u]
  BY <1>1, StorageTypes
<1>10. QED
  BY <1>6, <1>7, <1>8, <1>9 DEF Made, FreeOps, SettledOps, FinalOps

\* DSC is minted, pulled or burnt.
LEMMA DscIsMade ==
  ASSUME NEW c, NEW s, TablesOK(s), NEW r \in Storage, NEW h \in TodoStep,
         r.dsc[3] = SumFunction(r.dsc[1]),
         \/ h.op = "mint" /\ r.dsc[3] = s.dsc[3] + h.amount /\ r.answer = s.answer
         \/ h.op = "pullDsc" /\ r.dsc[3] = s.dsc[3]
         \/ h.op = "burn" /\ r.dsc[3] = s.dsc[3] - h.amount,
         r.deposited = s.deposited, r.minted = s.minted,
         r.balances = s.balances, r.status = s.status
  PROVE  Made(c, s, r, h)
<1>1. TablesOK(r) /\ s \in Storage
  BY DEF TablesOK
<1>2. h.amount \in Nat
  BY DEF TodoStep
<1>3. ASSUME NEW t \in Token
      PROVE  surplusAt(r, t) = surplusAt(s, t) + surplusAfter(c, h, t) - surplusBefore(c, h, t)
  <2>1. surplusAt(r, t) = surplusAt(s, t) /\ surplusAt(s, t) \in Int
    BY SurplusType DEF surplusAt
  <2>2. surplusAfter(c, h, t) = 0 /\ surplusBefore(c, h, t) = 0
    BY DEF surplusAfter, surplusBefore
  <2>3. QED
    BY <2>1, <2>2
<1>4. gapAt(r) = gapAt(s) + gapAfter(h) - gapBefore(h)
  <2>1. SumFunction(s.minted) \in Nat
    <3>1. s.minted \in [User -> Nat]
      BY <1>1, WordsAreNaturals DEF Storage
    <3>2. QED
      BY <3>1, SumType, Accounts
  <2>2. s.dsc[3] \in Nat
    BY <1>1, WordsAreNaturals DEF Storage
  <2>3. gapAt(s) = SumFunction(s.minted) - s.dsc[3] /\ gapAt(r) = SumFunction(s.minted) - r.dsc[3]
    BY DEF gapAt
  <2>4. CASE h.op = "mint"
    <3>1. gapBefore(h) = h.amount /\ gapAfter(h) = 0 /\ r.dsc[3] = s.dsc[3] + h.amount
      BY <2>4 DEF gapBefore, gapAfter
    <3>2. QED
      BY <1>2, <2>1, <2>2, <2>3, <3>1
  <2>5. CASE h.op = "pullDsc"
    <3>1. gapBefore(h) = - h.amount /\ gapAfter(h) = - h.amount /\ r.dsc[3] = s.dsc[3]
      BY <2>5 DEF gapBefore, gapAfter
    <3>2. QED
      BY <1>2, <2>1, <2>2, <2>3, <3>1
  <2>6. CASE h.op = "burn"
    <3>1. gapBefore(h) = - h.amount /\ gapAfter(h) = 0 /\ r.dsc[3] = s.dsc[3] - h.amount
      BY <2>6 DEF gapBefore, gapAfter
    <3>2. QED
      BY <1>2, <2>1, <2>2, <2>3, <3>1
  <2>7. QED
    BY <2>4, <2>5, <2>6
<1>5. /\ \A u \in User, t \in Token : r.deposited[u][t] >= s.deposited[u][t]
      /\ \A u \in User : r.minted[u] <= s.minted[u]
  BY <1>1, StorageTypes
<1>6. QED
  BY <1>1, <1>3, <1>4, <1>5 DEF Made, SettledOps, FinalOps

-----------------------------------------------------------------------------
(* The steps *)

\* The innermost call and its next step.
LEMMA NextStep ==
  ASSUME CallsIInv, NEW op, AtStep(op)
  PROVE  /\ Len(frames) \in 1 .. 2 /\ frames \in Seq(Frame) /\ frames[1] \in Frame
         /\ frames[1].todo \in Seq(TodoStep) /\ frames[1].todo # <<>> /\ frames[1].sender \in User
         /\ step = frames[1].todo[1] /\ step \in TodoStep /\ step.op = op
         /\ TablesOK(storage)
<1>1. frames \in Seq(Frame) /\ frames # <<>> /\ Len(frames) \in 0 .. 2
  BY DEF CallsIInv, AtStep
<1>2. Len(frames) \in 1 .. 2 /\ frames[1] \in Frame
  BY <1>1
<1>3. frames[1].todo \in Seq(TodoStep) /\ frames[1].todo # <<>> /\ frames[1].sender \in User
  BY <1>2 DEF Frame, AtStep
<1>4. step = frames[1].todo[1] /\ step \in TodoStep /\ step.op = op
  BY <1>3 DEF step, AtStep
<1>5. TablesOK(storage)
  BY <1>2 DEF CallsIInv, Running, Nested
<1>6. QED
  BY <1>1, <1>2, <1>3, <1>4, <1>5

\* A frame whose list has changed is still one.
LEMMA FrameGoesOn ==
  ASSUME NEW x \in Frame, NEW rest \in Seq(TodoStep)
  PROVE  LET y == [x EXCEPT !.todo = rest]
         IN  y \in Frame /\ y.todo = rest /\ y.entry = x.entry
<1>1. x = [sender |-> x.sender, todo |-> x.todo, entry |-> x.entry]
  BY DEF Frame
<1>2. [x EXCEPT !.todo = rest] = [sender |-> x.sender, todo |-> rest, entry |-> x.entry]
  BY <1>1
<1>3. QED
  BY <1>2 DEF Frame

\* A step leaves the calls around it as they are.
LEMMA FramesGoOn ==
  ASSUME NEW f \in Seq(Frame), Len(f) \in 1 .. 2, f[1].todo # <<>>, NEW pre \in Seq(TodoStep),
         NEW g, g = [f EXCEPT ![1].todo = pre \o Tail(@)]
  PROVE  /\ g \in Seq(Frame) /\ Len(g) = Len(f)
         /\ g[1].todo = pre \o Tail(f[1].todo) /\ g[1].entry = f[1].entry
         /\ Len(f) = 2 => g[2] = f[2]
<1> DEFINE rest == pre \o Tail(f[1].todo)
<1>1. 1 \in 1 .. Len(f) /\ f[1] \in Frame
  OBVIOUS
<1>2. rest \in Seq(TodoStep)
  <2>1. f[1].todo \in Seq(TodoStep)
    BY <1>1 DEF Frame
  <2>2. QED
    BY <2>1
<1> HIDE DEF rest
<1> DEFINE first == [f[1] EXCEPT !.todo = rest]
<1>3. first \in Frame /\ first.todo = rest /\ first.entry = f[1].entry
  BY <1>1, <1>2, FrameGoesOn
<1>4. g = [f EXCEPT ![1] = first]
  BY DEF rest
<1> HIDE DEF first
<1>5. /\ [f EXCEPT ![1] = first] \in Seq(Frame) /\ Len([f EXCEPT ![1] = first]) = Len(f)
      /\ \A j \in 1 .. Len(f) : [f EXCEPT ![1] = first][j] = IF j = 1 THEN first ELSE f[j]
  BY <1>1, <1>3, ExceptSeq
<1>6. g \in Seq(Frame) /\ Len(g) = Len(f)
  BY <1>4, <1>5
<1>7. g[1] = first
  BY <1>1, <1>4, <1>5
<1>8. Len(f) = 2 => g[2] = f[2]
  <2>1. Len(f) = 2 => 2 \in 1 .. Len(f)
    OBVIOUS
  <2>2. QED
    BY <1>4, <1>5, <2>1
<1>9. g[1].todo = rest /\ g[1].entry = f[1].entry
  BY <1>3, <1>7
<1>10. QED
  BY <1>6, <1>8, <1>9 DEF rest

\* The steps of a transaction keep the invariant.
LEMMA StepIInv ==
  ASSUME CallsIInv, NEW op, AtStep(op), NEW pre \in Seq(TodoStep), Continue(pre),
         Replaces(pre, step), Made(context, storage, storage', step),
         Len(frames) = 1 =>
           LET rest == pre \o Tail(frames[1].todo)
           IN  \A i \in 1 .. Len(pre) : pre[i].op \in {"eraseDeposit", "sweep"} =>
                 \/ isChecked(rest, i + 1, pre[i].user)
                 \/ isCovered(context, storage', frames[1].entry, rest, pre[i].user)
  PROVE  CallsIInv'
<1> DEFINE rest == pre \o Tail(frames[1].todo)
<1>1. /\ Len(frames) \in 1 .. 2 /\ frames \in Seq(Frame) /\ frames[1] \in Frame
      /\ frames[1].todo \in Seq(TodoStep) /\ frames[1].todo # <<>>
      /\ step = frames[1].todo[1] /\ step \in TodoStep
  BY NextStep
<1>2. frames' = [frames EXCEPT ![1].todo = pre \o Tail(@)] /\ UNCHANGED <<dscOwner, updatedAt, now, faults>>
  BY DEF Continue, outside
<1>3. /\ frames' \in Seq(Frame) /\ Len(frames') = Len(frames)
      /\ frames'[1].todo = rest /\ frames'[1].entry = frames[1].entry
      /\ Len(frames) = 2 => frames'[2] = frames[2]
  BY ZenonT(60), <1>1, <1>2, FramesGoOn
<1>4. rest \in Seq(TodoStep) /\ Resumes(rest, pre, frames[1].todo)
  BY <1>1, RestResumes
<1>5. context' = context
  BY <1>2 DEF context
<1>6. OracleTypeOK' /\ dscOwner' = Engine
  <2>1. answer' \in [Feed -> Int]
    <3>1. storage'.answer \in [Feed -> Int]
      BY DEF Made, TablesOK, Storage
    <3>2. QED
      BY <3>1, StorageFields
  <2>2. QED
    BY <1>2, <2>1 DEF CallsIInv, OracleTypeOK
<1> HIDE DEF rest
<1>7. CASE Len(frames) = 1
  <2>1. AtRest(frames[1].entry) /\ Running(context, storage, frames[1].entry, frames[1].todo)
    BY <1>7 DEF CallsIInv
  <2>2. \A i \in 1 .. Len(pre) : pre[i].op \in {"eraseDeposit", "sweep"} =>
          \/ isChecked(rest, i + 1, pre[i].user)
          \/ isCovered(context, storage', frames[1].entry, rest, pre[i].user)
    BY <1>7 DEF rest
  <2>3. Running(context, storage', frames[1].entry, rest)
    BY <1>1, <1>4, <2>1, <2>2, RunningGoesOn
  <2>4. QED
    BY <1>3, <1>5, <1>6, <1>7, <2>1, <2>3 DEF CallsIInv
<1>8. CASE Len(frames) = 2
  <2>1. /\ AtRest(frames[2].entry)
        /\ Running(context, frames[1].entry, frames[2].entry, frames[2].todo)
        /\ CallsBack(frames[2].todo)
        /\ Nested(storage, frames[1].entry, frames[1].todo)
    BY <1>8 DEF CallsIInv
  <2>2. TablesOK(frames[1].entry)
    BY <2>1 DEF Running
  <2>3. frames[1].todo[1].op \in FreeOps
    <3>1. Len(frames[1].todo) \in Nat \ {0}
      BY <1>1
    <3>2. QED
      BY <1>1, <2>1, <3>1, NestedIsFree
  <2>4. Len(pre) = 0 /\ pre = <<>>
    BY <1>1, <2>3 DEF Replaces, FreeOps
  <2>5. Nested(storage', frames[1].entry, rest)
    BY <1>1, <1>4, <2>1, <2>2, <2>4, NestedGoesOn
  <2>6. QED
    BY <1>3, <1>5, <1>6, <1>8, <2>1, <2>5 DEF CallsIInv
<1>9. QED
  BY <1>1, <1>7, <1>8

\* Most steps are simply done.
LEMMA PlainStepIInv ==
  ASSUME CallsIInv, NEW op, AtStep(op), Continue(<<>>), Made(context, storage, storage', step)
  PROVE  CallsIInv'
<1>1. <<>> \in Seq(TodoStep) /\ Len(<<>>) = 0 /\ 1 .. 0 = {}
  OBVIOUS
<1>2. Replaces(<<>>, step)
  BY <1>1 DEF Replaces
<1>3. QED
  BY <1>1, <1>2, StepIInv

\* The health factor of the storage the transaction sees.
LEMMA FineNow ==
  ASSUME NEW u \in User
  PROVE  healthFactorIsFine(u) <=> fineAt(context, storage, u)
<1>1. /\ getAccountCollateralValue(u) = valueOf(answer, s_collateralDeposited[u])
      /\ healthFactor(u) = healthOf(s_DscMinted[u], getAccountCollateralValue(u))
  BY AccountValue
<1>2. /\ storage.answer = answer /\ storage.deposited = s_collateralDeposited
      /\ storage.minted = s_DscMinted
      /\ context.updatedAt = updatedAt /\ context.now = now
  BY StorageFields DEF context
<1>3. QED
  BY <1>1, <1>2 DEF healthFactorIsFine, healthFactorReturns, getAccountCollateralValueReturns,
                    getUsdValueReturns, stalePriceCheckReturns, fineAt

\* The health factor now is that of the storage.
LEMMA HealthNow ==
  ASSUME NEW u \in User
  PROVE  healthFactor(u) = healthAt(storage, u)
BY AccountValue, StorageFields DEF healthAt

\* Checks keep the invariant.
LEMMA CheckIInv == CallsIInv /\ Check => CallsIInv'
<1>1. SUFFICES ASSUME CallsIInv, Check PROVE CallsIInv'
  OBVIOUS
<1>2. PICK op : /\ AtStep(op)
                /\ op \in {"moreThanZero", "isAllowedToken", "checkHealth", "checkImproved",
                           "transferFromReturned", "transferReturned", "mintReturned"}
                /\ op = "transferFromReturned" => "transferFrom" \notin faults
                /\ op = "transferReturned" => "transfer" \notin faults
                /\ op = "moreThanZero" => step.amount > 0
                /\ op = "checkHealth" => healthFactorIsFine(step.user)
                /\ op = "checkImproved" => healthFactor(step.user) > step.amount
  BY <1>1 DEF Check, passes, modifierPasses, succeeds
<1>3. step \in TodoStep /\ step.op = op /\ TablesOK(storage)
  BY <1>1, <1>2, NextStep
<1>4. /\ UNCHANGED <<engineVars, collateralVars, dscLedger, answer, _status>>
      /\ storage' = storage
  BY <1>1 DEF Check, storage, engineVars, collateralVars
<1>5. context.faults = faults
  BY DEF context
<1>6. op = "checkHealth" => fineAt(context, storage, step.user)
  <2>1. op = "checkHealth" => step.user \in User
    BY <1>3 DEF TodoStep
  <2>2. QED
    BY <1>2, <2>1, FineNow
<1>7. op = "checkImproved" => healthAt(storage, step.user) > step.amount
  <2>1. op = "checkImproved" => step.user \in User
    BY <1>3 DEF TodoStep
  <2>2. QED
    BY <1>2, <2>1, HealthNow
<1>8. storage \in Storage
  BY <1>3 DEF TablesOK
<1>9. Made(context, storage, storage', step)
  BY <1>2, <1>3, <1>4, <1>5, <1>6, <1>7, <1>8, QuietIsMade
<1>10. QED
  BY <1>1, <1>2, <1>9, PlainStepIInv DEF Check

\* The guard keeps it: the flag changes together with the list.
LEMMA GuardIInv == CallsIInv /\ (Enter \/ Leave) => CallsIInv'
<1>1. SUFFICES ASSUME CallsIInv, Enter \/ Leave PROVE CallsIInv'
  OBVIOUS
<1>2. PICK op : /\ AtStep(op) /\ Continue(<<>>) /\ op \in {"enter", "leave"}
                /\ _status' = IF op = "enter" THEN ENTERED ELSE NOT_ENTERED
                /\ op = "enter" => _status # ENTERED
                /\ UNCHANGED <<engineVars, collateralVars, dscLedger, answer>>
  BY <1>1 DEF Enter, Leave
<1>3. step \in TodoStep /\ step.op = op /\ TablesOK(storage)
  BY <1>1, <1>2, NextStep
<1>4. /\ storage'.deposited = storage.deposited /\ storage'.minted = storage.minted
      /\ storage'.balances = storage.balances /\ storage'.dsc = storage.dsc
      /\ storage'.answer = storage.answer /\ storage'.status = _status'
      /\ storage.status = _status
  BY <1>2 DEF storage, engineVars, collateralVars
<1>5. storage' \in Storage
  <2>1. TablesOK(storage')
    BY <1>2, <1>3, StorageIsTyped, StorageIsTypedNext DEF engineVars, collateralVars, dscLedger
  <2>2. QED
    BY <2>1 DEF TablesOK
<1>6. Made(context, storage, storage', step)
  BY <1>2, <1>3, <1>4, <1>5, QuietIsMade
<1>7. QED
  BY <1>1, <1>2, <1>6, PlainStepIInv

\* A change of a deposit keeps it: the payment of the amount is due.
LEMMA ChangeDepositIInv == CallsIInv /\ ChangeDeposit => CallsIInv'
<1>1. SUFFICES ASSUME CallsIInv, ChangeDeposit PROVE CallsIInv'
  OBVIOUS
<1>2. PICK change \in {-1, 1} :
        /\ AtStep(IF change = 1 THEN "recordDeposit" ELSE "eraseDeposit")
        /\ Fits(s_collateralDeposited[step.user][step.token] + change * step.amount)
        /\ s_collateralDeposited' =
             [s_collateralDeposited EXCEPT ![step.user][step.token] =
                s_collateralDeposited[step.user][step.token] + change * step.amount]
        /\ Continue(<<>>)
        /\ UNCHANGED <<s_DscMinted, collateralVars, dscLedger, answer, _status>>
  BY <1>1 DEF ChangeDeposit
<1> DEFINE v == s_collateralDeposited[step.user][step.token] + change * step.amount
           op == IF change = 1 THEN "recordDeposit" ELSE "eraseDeposit"
<1>3. /\ step \in TodoStep /\ step.op = op /\ TablesOK(storage)
      /\ step.user \in User /\ step.token \in Token /\ step.amount \in Nat
  <2>1. step \in TodoStep /\ step.op = op /\ TablesOK(storage)
    BY <1>1, <1>2, NextStep
  <2>2. QED
    BY <2>1 DEF TodoStep, CollateralOps
<1>4. v \in Word /\ s_collateralDeposited' = withDeposit(s_collateralDeposited, step.user, step.token, v)
  BY <1>2 DEF Fits, withDeposit
<1>5. /\ storage'.deposited = withDeposit(storage.deposited, step.user, step.token, v)
      /\ storage'.minted = storage.minted
      /\ storage'.balances = storage.balances /\ storage'.dsc = storage.dsc
      /\ storage'.status = storage.status
      /\ storage.deposited = s_collateralDeposited
  BY <1>2, <1>4 DEF storage, collateralVars
<1>6. storage' \in Storage
  <2>1. s_collateralDeposited' \in [User -> [Token -> Word]]
    BY <1>3, <1>4, ColumnUpdate, StorageIsTyped
  <2>2. TablesOK(storage')
    BY <1>2, <1>3, <2>1, StorageIsTyped, StorageIsTypedNext DEF collateralVars, dscLedger
  <2>3. QED
    BY <2>2 DEF TablesOK
<1>7. \/ step.op = "recordDeposit" /\ v = storage.deposited[step.user][step.token] + step.amount
      \/ step.op = "eraseDeposit" /\ v = storage.deposited[step.user][step.token] - step.amount
  <2>1. s_collateralDeposited[step.user][step.token] \in Nat
    <3>1. s_collateralDeposited[step.user][step.token] \in Word
      BY <1>3, StorageIsTyped
    <3>2. QED
      BY <3>1, WordsAreNaturals
  <2>2. QED
    BY <1>3, <1>5, <2>1
<1> HIDE DEF v
<1>8. Made(context, storage, storage', step)
  BY <1>3, <1>4, <1>5, <1>6, <1>7, DepositIsMade
<1>9. QED
  BY <1>1, <1>2, <1>8, PlainStepIInv

\* A change of a debt keeps it: the DSC are due.
LEMMA ChangeDebtIInv == CallsIInv /\ ChangeDebt => CallsIInv'
<1>1. SUFFICES ASSUME CallsIInv, ChangeDebt PROVE CallsIInv'
  OBVIOUS
<1>2. PICK change \in {-1, 1} :
        /\ AtStep(IF change = 1 THEN "recordDebt" ELSE "eraseDebt")
        /\ Fits(s_DscMinted[step.user] + change * step.amount)
        /\ s_DscMinted' = [s_DscMinted EXCEPT ![step.user] =
             s_DscMinted[step.user] + change * step.amount]
        /\ Continue(<<>>)
        /\ UNCHANGED <<s_collateralDeposited, collateralVars, dscLedger, answer, _status>>
  BY <1>1 DEF ChangeDebt
<1> DEFINE v == s_DscMinted[step.user] + change * step.amount
           op == IF change = 1 THEN "recordDebt" ELSE "eraseDebt"
<1>3. /\ step \in TodoStep /\ step.op = op /\ TablesOK(storage)
      /\ step.user \in User /\ step.amount \in Nat
  <2>1. step \in TodoStep /\ step.op = op /\ TablesOK(storage)
    BY <1>1, <1>2, NextStep
  <2>2. QED
    BY <2>1 DEF TodoStep
<1>4. v \in Word /\ s_DscMinted' = [s_DscMinted EXCEPT ![step.user] = v]
  BY <1>2 DEF Fits
<1>5. /\ storage'.minted = [storage.minted EXCEPT ![step.user] = v]
      /\ storage'.deposited = storage.deposited
      /\ storage'.balances = storage.balances /\ storage'.dsc = storage.dsc
      /\ storage'.status = storage.status
      /\ storage.minted = s_DscMinted
  BY <1>2, <1>4 DEF storage, collateralVars
<1>6. storage' \in Storage
  <2>1. s_DscMinted' \in [User -> Word]
    BY <1>3, <1>4, StorageIsTyped
  <2>2. TablesOK(storage')
    BY <1>2, <1>3, <2>1, StorageIsTyped, StorageIsTypedNext DEF collateralVars, dscLedger
  <2>3. QED
    BY <2>2 DEF TablesOK
<1>7. \/ step.op = "recordDebt" /\ v = storage.minted[step.user] + step.amount
      \/ step.op = "eraseDebt" /\ v = storage.minted[step.user] - step.amount
  <2>1. s_DscMinted[step.user] \in Nat
    <3>1. s_DscMinted[step.user] \in Word
      BY <1>3, StorageIsTyped
    <3>2. QED
      BY <3>1, WordsAreNaturals
  <2>2. QED
    BY <1>3, <1>5, <2>1
<1> HIDE DEF v
<1>8. Made(context, storage, storage', step)
  BY <1>3, <1>4, <1>5, <1>6, <1>7, DebtIsMade
<1>9. QED
  BY <1>1, <1>2, <1>8, PlainStepIInv

-----------------------------------------------------------------------------
(* The tokens *)

\* A payment in collateral keeps it, also one that the token refuses.
LEMMA CollateralTransferIInv == CallsIInv /\ (PullCollateral \/ PushCollateral) => CallsIInv'
<1>1. SUFFICES ASSUME CallsIInv, PullCollateral \/ PushCollateral PROVE CallsIInv'
  OBVIOUS
<1>2. PICK op : /\ AtStep(op) /\ Continue(<<>>) /\ op \in {"transferFrom", "transfer"}
                /\ op = "transferFrom" => PullCollateral
                /\ op = "transfer" => PushCollateral
                /\ UNCHANGED <<engineVars, dscLedger, answer, _status>>
  BY <1>1 DEF PullCollateral, PushCollateral, AtStep
<1>3. /\ step \in TodoStep /\ step.op = op /\ TablesOK(storage)
      /\ step.token \in Token /\ step.amount \in Nat /\ step.user \in Holder
      /\ op = "transferFrom" => step.user \in User
  <2>1. step \in TodoStep /\ step.op = op /\ TablesOK(storage)
    BY <1>1, <1>2, NextStep
  <2>2. QED
    BY <1>2, <2>1 DEF TodoStep, CollateralOps
<1>4. /\ storage'.deposited = storage.deposited /\ storage'.minted = storage.minted
      /\ storage'.dsc = storage.dsc /\ storage'.answer = storage.answer
      /\ storage'.status = storage.status
      /\ storage.balances = collateralBalances /\ storage'.balances = collateralBalances'
      /\ context.faults = faults
  BY <1>2 DEF storage, engineVars, context
<1>5. /\ collateralBalances \in [Token -> [Holder -> Word]]
      /\ collateralAllowances \in [Token -> [User -> [{Engine} -> Word]]]
      /\ \A t \in Token : SumFunction(collateralBalances[t]) \in Word
  BY <1>3, StorageIsTyped
<1>6. CASE op \in faults
  <2>1. UNCHANGED collateralVars
    BY <1>2, <1>6 DEF PullCollateral, PushCollateral, collateralVars
  <2>2. storage' = storage
    BY <1>2, <2>1 DEF storage, engineVars, collateralVars
  <2>3. storage \in Storage
    BY <1>3 DEF TablesOK
  <2>4. Made(context, storage, storage', step)
    BY <1>2, <1>3, <1>4, <1>6, <2>2, <2>3, QuietIsMade
  <2>5. QED
    BY <1>1, <1>2, <2>4, PlainStepIInv
<1>7. CASE op \notin faults
  <2>1. PICK from \in Holder, to \in Holder :
          /\ op = "transferFrom" => from = step.user /\ to = Engine
          /\ op = "transfer" => from = Engine /\ to = step.user
    <3>1. Engine \in Holder /\ step.user \in Holder
      BY <1>3, Accounts
    <3>2. CASE op = "transferFrom"
      BY <3>1, <3>2
    <3>3. CASE op = "transfer"
      BY <3>1, <3>3
    <3>4. QED
      BY <1>2, <3>2, <3>3
  <2> DEFINE b == Transferred(collateralBalances[step.token], from, to, step.amount)
  <2>2. /\ CanTransfer(collateralBalances[step.token], from, step.amount)
        /\ collateralBalances' = [collateralBalances EXCEPT ![step.token] = b]
    BY <1>2, <1>7, <2>1 DEF PullCollateral, PushCollateral
  <2>3. collateralAllowances' \in [Token -> [User -> [{Engine} -> Word]]]
    <3>1. CASE op = "transfer"
      BY <1>2, <1>5, <1>7, <3>1 DEF PushCollateral
    <3>2. CASE op = "transferFrom"
      <4>1. /\ CanSpend(collateralAllowances[step.token], step.user, Engine, step.amount)
            /\ collateralAllowances' = [collateralAllowances EXCEPT ![step.token] =
                 Spent(collateralAllowances[step.token], step.user, Engine, step.amount)]
        BY <1>2, <1>7, <3>2 DEF PullCollateral
      <4>2. collateralAllowances[step.token] \in [User -> [{Engine} -> Word]]
            /\ Engine \in {Engine} /\ step.user \in User
        BY <1>3, <1>5, <3>2
      <4>3. Spent(collateralAllowances[step.token], step.user, Engine, step.amount)
              \in [User -> [{Engine} -> Word]]
        BY <1>3, <4>1, <4>2, AllowanceTables
      <4>4. QED
        BY <1>5, <4>1, <4>3
    <3>3. QED
      BY <1>2, <3>1, <3>2
  <2>4. b \in [Holder -> Word] /\ SumFunction(b) = SumFunction(collateralBalances[step.token])
    BY <1>3, <1>5, <2>2, EngineHolding
  <2> HIDE DEF b
  <2>5. /\ collateralBalances' \in [Token -> [Holder -> Word]]
        /\ \A t \in Token : SumFunction(collateralBalances'[t]) \in Word
    BY <1>3, <1>5, <2>2, <2>4
  <2>6. TablesOK(storage')
    BY <1>2, <1>3, <2>3, <2>5, StorageIsTyped, StorageIsTypedNext DEF engineVars, dscLedger
  <2>7. storage' \in Storage
    BY <2>6 DEF TablesOK
  <2>8. \/ /\ step.op = "transferFrom" /\ "transferFrom" \notin context.faults
           /\ CanTransfer(storage.balances[step.token], step.user, step.amount)
           /\ b = Transferred(storage.balances[step.token], step.user, Engine, step.amount)
        \/ /\ step.op = "transfer" /\ "transfer" \notin context.faults
           /\ CanTransfer(storage.balances[step.token], Engine, step.amount)
           /\ b = Transferred(storage.balances[step.token], Engine, step.user, step.amount)
    BY <1>2, <1>3, <1>4, <1>7, <2>1, <2>2 DEF b
  <2>9. Made(context, storage, storage', step)
    BY <1>3, <1>4, <2>2, <2>7, <2>8, TransferIsMade
  <2>10. QED
    BY <1>1, <1>2, <2>9, PlainStepIInv
<1>8. QED
  BY <1>6, <1>7

\* Minting keeps it.
LEMMA MintTokensIInv == CallsIInv /\ MintTokens => CallsIInv'
<1>1. SUFFICES ASSUME CallsIInv, MintTokens PROVE CallsIInv'
  OBVIOUS
<1>2. /\ AtStep("mint") /\ Continue(<<>>)
      /\ dscTotalSupply + step.amount \in Word
      /\ dscTotalSupply' = dscTotalSupply + step.amount
      /\ dscBalances' = Credited(dscBalances, step.user, step.amount)
      /\ UNCHANGED <<engineVars, collateralVars, dscAllowances, answer, _status>>
  BY <1>1 DEF MintTokens, Fits
<1>3. step \in TodoStep /\ step.op = "mint" /\ TablesOK(storage)
  BY <1>1, <1>2, NextStep
<1>4. step.user \in Holder /\ step.amount \in Nat
  BY <1>3 DEF TodoStep
<1>5. /\ dscBalances \in [Holder -> Word] /\ dscTotalSupply = SumFunction(dscBalances)
  BY <1>3, StorageIsTyped
<1>6. /\ dscBalances' \in [Holder -> Word]
      /\ dscTotalSupply' = SumFunction(dscBalances')
  BY <1>2, <1>4, <1>5, CreditedLedger, Accounts, WordsAreNaturals
<1>7. TablesOK(storage')
  BY <1>2, <1>3, <1>6, StorageIsTyped, StorageIsTypedNext DEF engineVars, collateralVars
<1>8. storage' \in Storage
  BY <1>7 DEF TablesOK
<1>9. /\ storage'.deposited = storage.deposited /\ storage'.minted = storage.minted
      /\ storage'.balances = storage.balances /\ storage'.answer = storage.answer
      /\ storage'.status = storage.status
      /\ storage'.dsc[3] = storage.dsc[3] + step.amount
      /\ storage'.dsc[3] = SumFunction(storage'.dsc[1])
  BY <1>2, <1>6, StorageFields DEF engineVars, collateralVars
<1>10. Made(context, storage, storage', step)
  BY <1>3, <1>8, <1>9, DscIsMade
<1>11. QED
  BY <1>1, <1>2, <1>10, PlainStepIInv

\* Taking DSC from its holder keeps it.
LEMMA PullDscIInv == CallsIInv /\ PullDsc => CallsIInv'
<1>1. SUFFICES ASSUME CallsIInv, PullDsc PROVE CallsIInv'
  OBVIOUS
<1>2. /\ AtStep("pullDsc") /\ Continue(<<>>)
      /\ CanSpend(dscAllowances, step.user, Engine, step.amount)
      /\ CanTransfer(dscBalances, step.user, step.amount)
      /\ dscAllowances' = Spent(dscAllowances, step.user, Engine, step.amount)
      /\ dscBalances' = Transferred(dscBalances, step.user, Engine, step.amount)
      /\ UNCHANGED <<engineVars, collateralVars, dscTotalSupply, answer, _status>>
  BY <1>1 DEF PullDsc
<1>3. step \in TodoStep /\ step.op = "pullDsc" /\ TablesOK(storage)
  BY <1>1, <1>2, NextStep
<1>4. step.user \in Holder /\ step.amount \in Nat /\ Engine \in Holder
  BY <1>3, Accounts DEF TodoStep
<1>5. /\ dscBalances \in [Holder -> Word] /\ dscTotalSupply = SumFunction(dscBalances)
      /\ dscTotalSupply \in Word /\ dscAllowances \in [Holder -> [Holder -> Word]]
  BY <1>3, StorageIsTyped
<1>6. /\ dscBalances' \in [Holder -> Word]
      /\ dscTotalSupply' = SumFunction(dscBalances')
  BY <1>2, <1>4, <1>5, TransferredLedger, Accounts
<1>7. dscAllowances' \in [Holder -> [Holder -> Word]]
  BY <1>2, <1>4, <1>5, AllowanceTables
<1>8. TablesOK(storage')
  BY <1>2, <1>3, <1>5, <1>6, <1>7, StorageIsTyped, StorageIsTypedNext DEF engineVars, collateralVars
<1>9. storage' \in Storage
  BY <1>8 DEF TablesOK
<1>10. /\ storage'.deposited = storage.deposited /\ storage'.minted = storage.minted
       /\ storage'.balances = storage.balances /\ storage'.status = storage.status
       /\ storage'.dsc[3] = storage.dsc[3]
       /\ storage'.dsc[3] = SumFunction(storage'.dsc[1])
  BY <1>2, <1>6, StorageFields DEF engineVars, collateralVars
<1>11. Made(context, storage, storage', step)
  BY <1>3, <1>9, <1>10, DscIsMade
<1>12. QED
  BY <1>1, <1>2, <1>11, PlainStepIInv

\* Burning keeps it.
LEMMA BurnTokensIInv == CallsIInv /\ BurnTokens => CallsIInv'
<1>1. SUFFICES ASSUME CallsIInv, BurnTokens PROVE CallsIInv'
  OBVIOUS
<1>2. /\ AtStep("burn") /\ Continue(<<>>)
      /\ CanTransfer(dscBalances, Engine, step.amount)
      /\ dscBalances' = Debited(dscBalances, Engine, step.amount)
      /\ dscTotalSupply' = dscTotalSupply - step.amount
      /\ answer' = IF "burnCrashesPrice" \in faults THEN [t \in Feed |-> 0] ELSE answer
      /\ UNCHANGED <<engineVars, collateralVars, dscAllowances, _status>>
  BY <1>1 DEF BurnTokens
<1>3. step \in TodoStep /\ step.op = "burn" /\ TablesOK(storage)
  BY <1>1, <1>2, NextStep
<1>4. step.amount \in Nat /\ Engine \in Holder /\ IsFiniteSet(Holder)
  BY <1>3, Accounts DEF TodoStep
<1>5. /\ dscBalances \in [Holder -> Word] /\ dscTotalSupply = SumFunction(dscBalances)
      /\ dscTotalSupply \in Word /\ answer \in [Feed -> Int]
  BY <1>3, StorageIsTyped
<1>6. /\ dscBalances' \in [Holder -> Word]
      /\ dscTotalSupply' = SumFunction(dscBalances')
  BY <1>2, <1>4, <1>5, DebitedLedger DEF CanTransfer
<1>7. dscTotalSupply' \in Word
  <2>1. SumFunction(dscBalances') \in Nat
    <3>1. dscBalances' \in [Holder -> Nat]
      BY <1>6, WordsAreNaturals
    <3>2. QED
      BY <1>4, <3>1, SumType
  <2>2. dscTotalSupply \in Nat /\ dscTotalSupply <= MaxUint
    BY <1>5, WordsAreNaturals
  <2>3. MaxUint \in Nat
    BY MaxUintAssumption
  <2>4. dscTotalSupply' \in Nat /\ dscTotalSupply' <= MaxUint
    BY <1>2, <1>4, <1>6, <2>1, <2>2, <2>3
  <2>5. QED
    BY <2>4, WordsAreNaturals
<1>8. answer' \in [Feed -> Int]
  BY <1>2, <1>5
<1>9. TablesOK(storage')
  BY <1>2, <1>3, <1>6, <1>7, <1>8, StorageIsTyped, StorageIsTypedNext DEF engineVars, collateralVars
<1>10. storage' \in Storage
  BY <1>9 DEF TablesOK
<1>11. /\ storage'.deposited = storage.deposited /\ storage'.minted = storage.minted
       /\ storage'.balances = storage.balances /\ storage'.status = storage.status
       /\ storage'.dsc[3] = storage.dsc[3] - step.amount
       /\ storage'.dsc[3] = SumFunction(storage'.dsc[1])
  BY <1>2, <1>6, StorageFields DEF engineVars, collateralVars
<1>12. Made(context, storage, storage', step)
  BY <1>3, <1>10, <1>11, DscIsMade
<1>13. QED
  BY <1>1, <1>2, <1>12, PlainStepIInv

-----------------------------------------------------------------------------
(* Lists of steps *)

\* c is the list a, of n steps, followed by the list b, of m steps.
IsJoined(c, a, b, n, m) ==
  /\ n \in Nat /\ m \in Nat
  /\ c \in Seq(TodoStep) /\ Len(c) = n + m
  /\ \A i \in 1 .. n : c[i] = a[i]
  /\ \A i \in 1 .. m : c[n + i] = b[i]
  /\ \A i \in n + 1 .. n + m : i - n \in 1 .. m /\ c[i] = b[i - n]

\* Two lists, one after the other.
LEMMA Joined ==
  ASSUME NEW a \in Seq(TodoStep), NEW b \in Seq(TodoStep)
  PROVE  IsJoined(a \o b, a, b, Len(a), Len(b))
BY DEF IsJoined

\* The fields of a step are what it was made of.
LEMMA StepFields ==
  ASSUME NEW op, NEW u, NEW t, NEW x
  PROVE  LET h == Step(op, u, t, x)
         IN  /\ h.op = op /\ h.user = u /\ h.token = t /\ h.amount = x
BY DEF Step

\* The conditions under which a step is one.
LEMMA StepType ==
  ASSUME NEW op \in FreeOps \cup GuardedOps \cup {"enter", "leave"},
         NEW u \in Holder, NEW t \in Token \cup {ZeroAddress}, NEW x \in Nat,
         op \in CollateralOps => t \in Token,
         op \notin {"enter", "leave", "transfer", "transferReturned"} => u \in User,
         op = "transfer" => u # Engine
  PROVE  Step(op, u, t, x) \in TodoStep
BY DEF Step, TodoStep

\* Short lists of steps, written out.
LEMMA TodoTuples ==
  /\ \A x1 \in TodoStep :
       <<x1>> \in Seq(TodoStep) /\ Len(<<x1>>) = 1 /\ <<x1>>[1] = x1
  /\ \A x1, x2 \in TodoStep :
       /\ <<x1, x2>> \in Seq(TodoStep) /\ Len(<<x1, x2>>) = 2
       /\ <<x1, x2>>[1] = x1 /\ <<x1, x2>>[2] = x2
  /\ \A x1, x2, x3 \in TodoStep :
       /\ <<x1, x2, x3>> \in Seq(TodoStep) /\ Len(<<x1, x2, x3>>) = 3
       /\ <<x1, x2, x3>>[1] = x1 /\ <<x1, x2, x3>>[2] = x2 /\ <<x1, x2, x3>>[3] = x3
  /\ \A x1, x2, x3, x4 \in TodoStep :
       /\ <<x1, x2, x3, x4>> \in Seq(TodoStep) /\ Len(<<x1, x2, x3, x4>>) = 4
       /\ <<x1, x2, x3, x4>>[1] = x1 /\ <<x1, x2, x3, x4>>[2] = x2
       /\ <<x1, x2, x3, x4>>[3] = x3 /\ <<x1, x2, x3, x4>>[4] = x4
OBVIOUS

\* A list of one step.
LEMMA OneStep ==
  ASSUME NEW a, NEW u, NEW t, NEW x, Step(a, u, t, x) \in TodoStep
  PROVE  LET l == Steps(<<a>>, u, t, x)
         IN  l \in Seq(TodoStep) /\ Len(l) = 1 /\ l[1] = Step(a, u, t, x)
<1>1. Steps(<<a>>, u, t, x) = <<Step(a, u, t, x)>>
  BY DEF Steps
<1>2. \A l : l = <<Step(a, u, t, x)>> =>
        /\ l \in Seq(TodoStep) /\ Len(l) = 1
        /\ l[1] = Step(a, u, t, x)
  BY TodoTuples
<1>3. QED
  BY <1>1, <1>2, Zenon

\* A list of two steps.
LEMMA TwoSteps ==
  ASSUME NEW a, NEW b, NEW u, NEW t, NEW x,
         Step(a, u, t, x) \in TodoStep, Step(b, u, t, x) \in TodoStep
  PROVE  LET l == Steps(<<a, b>>, u, t, x)
         IN  /\ l \in Seq(TodoStep) /\ Len(l) = 2
             /\ l[1] = Step(a, u, t, x) /\ l[2] = Step(b, u, t, x)
<1>1. Steps(<<a, b>>, u, t, x) = <<Step(a, u, t, x), Step(b, u, t, x)>>
  BY DEF Steps
<1>2. \A l : l = <<Step(a, u, t, x), Step(b, u, t, x)>> =>
        /\ l \in Seq(TodoStep) /\ Len(l) = 2
        /\ l[1] = Step(a, u, t, x) /\ l[2] = Step(b, u, t, x)
  BY TodoTuples
<1>3. QED
  BY <1>1, <1>2, Zenon

\* A list of three steps.
LEMMA ThreeSteps ==
  ASSUME NEW a, NEW b, NEW d, NEW u, NEW t, NEW x,
         Step(a, u, t, x) \in TodoStep, Step(b, u, t, x) \in TodoStep,
         Step(d, u, t, x) \in TodoStep
  PROVE  LET l == Steps(<<a, b, d>>, u, t, x)
         IN  /\ l \in Seq(TodoStep) /\ Len(l) = 3
             /\ l[1] = Step(a, u, t, x) /\ l[2] = Step(b, u, t, x) /\ l[3] = Step(d, u, t, x)
<1>1. Steps(<<a, b, d>>, u, t, x) = <<Step(a, u, t, x), Step(b, u, t, x), Step(d, u, t, x)>>
  BY DEF Steps
<1>2. \A l : l = <<Step(a, u, t, x), Step(b, u, t, x), Step(d, u, t, x)>> =>
        /\ l \in Seq(TodoStep) /\ Len(l) = 3
        /\ l[1] = Step(a, u, t, x) /\ l[2] = Step(b, u, t, x) /\ l[3] = Step(d, u, t, x)
  BY TodoTuples
<1>3. QED
  BY <1>1, <1>2, Zenon

\* A list of four steps.
LEMMA FourSteps ==
  ASSUME NEW a, NEW b, NEW d, NEW e, NEW u, NEW t, NEW x,
         Step(a, u, t, x) \in TodoStep, Step(b, u, t, x) \in TodoStep,
         Step(d, u, t, x) \in TodoStep, Step(e, u, t, x) \in TodoStep
  PROVE  LET l == Steps(<<a, b, d, e>>, u, t, x)
         IN  /\ l \in Seq(TodoStep) /\ Len(l) = 4
             /\ l[1] = Step(a, u, t, x) /\ l[2] = Step(b, u, t, x)
             /\ l[3] = Step(d, u, t, x) /\ l[4] = Step(e, u, t, x)
<1>1. Steps(<<a, b, d, e>>, u, t, x)
        = <<Step(a, u, t, x), Step(b, u, t, x), Step(d, u, t, x), Step(e, u, t, x)>>
  BY DEF Steps
<1>2. \A l : l = <<Step(a, u, t, x), Step(b, u, t, x), Step(d, u, t, x), Step(e, u, t, x)>> =>
        /\ l \in Seq(TodoStep) /\ Len(l) = 4
        /\ l[1] = Step(a, u, t, x) /\ l[2] = Step(b, u, t, x) /\ l[3] = Step(d, u, t, x) /\ l[4] = Step(e, u, t, x)
  BY TodoTuples
<1>3. QED
  BY <1>1, <1>2, Zenon

\* The halves of _redeemCollateral.
LEMMA RedeemSteps ==
  ASSUME NEW from \in User, NEW to \in Holder \ {Engine}, NEW token \in Token, NEW x \in Nat
  PROVE  LET l == redeemCollateralSteps(from, to, token, x)
         IN  /\ l \in Seq(TodoStep) /\ Len(l) = 3
             /\ l[1] = Step("eraseDeposit", from, token, x)
             /\ l[2] = Step("transfer", to, token, x)
             /\ l[3] = Step("transferReturned", to, token, x)
<1> DEFINE a == Steps(<<"eraseDeposit">>, from, token, x)
           b == Steps(<<"transfer", "transferReturned">>, to, token, x)
<1>1. /\ a \in Seq(TodoStep) /\ Len(a) = 1 /\ a[1] = Step("eraseDeposit", from, token, x)
  BY StepType, OneStep, Accounts DEF GuardedOps
<1>2. /\ b \in Seq(TodoStep) /\ Len(b) = 2 /\ b[1] = Step("transfer", to, token, x)
      /\ b[2] = Step("transferReturned", to, token, x)
  <2>1. "transfer" \in GuardedOps /\ "transferReturned" \in GuardedOps
    BY DEF GuardedOps
  <2>2. /\ Step("transfer", to, token, x) \in TodoStep
        /\ Step("transferReturned", to, token, x) \in TodoStep
    BY <2>1, StepType
  <2>3. QED
    BY <2>2, TwoSteps
<1> HIDE DEF a, b
<1> DEFINE l == a \o b
<1>3. IsJoined(l, a, b, 1, 2)
  BY <1>1, <1>2, Joined
<1> HIDE DEF l
<1>4. l \in Seq(TodoStep) /\ Len(l) = 3 /\ l[1] = a[1] /\ l[2] = b[1] /\ l[3] = b[2]
  BY <1>3 DEF IsJoined
<1>5. QED
  BY <1>1, <1>2, <1>4 DEF redeemCollateralSteps, a, b, l

\* The halves of _burnDsc.
LEMMA BurnSteps ==
  ASSUME NEW onBehalfOf \in User, NEW dscFrom \in User, NEW x \in Nat
  PROVE  LET l == burnDscSteps(onBehalfOf, dscFrom, x)
         IN  /\ l \in Seq(TodoStep) /\ Len(l) = 3
             /\ l[1] = Step("eraseDebt", onBehalfOf, ZeroAddress, x)
             /\ l[2] = Step("pullDsc", dscFrom, ZeroAddress, x)
             /\ l[3] = Step("burn", dscFrom, ZeroAddress, x)
<1> DEFINE a == DscSteps(<<"eraseDebt">>, onBehalfOf, x)
           b == DscSteps(<<"pullDsc", "burn">>, dscFrom, x)
<1>1. /\ a \in Seq(TodoStep) /\ Len(a) = 1 /\ a[1] = Step("eraseDebt", onBehalfOf, ZeroAddress, x)
  BY StepType, OneStep, Accounts DEF FreeOps, CollateralOps, DscSteps
<1>2. /\ b \in Seq(TodoStep) /\ Len(b) = 2 /\ b[1] = Step("pullDsc", dscFrom, ZeroAddress, x)
      /\ b[2] = Step("burn", dscFrom, ZeroAddress, x)
  BY StepType, TwoSteps, Accounts DEF FreeOps, CollateralOps, DscSteps
<1> HIDE DEF a, b
<1> DEFINE l == a \o b
<1>3. IsJoined(l, a, b, 1, 2)
  BY <1>1, <1>2, Joined
<1> HIDE DEF l
<1>4. l \in Seq(TodoStep) /\ Len(l) = 3 /\ l[1] = a[1] /\ l[2] = b[1] /\ l[3] = b[2]
  BY <1>3 DEF IsJoined
<1>5. QED
  BY <1>1, <1>2, <1>4 DEF burnDscSteps, a, b, l

\* What a payment out of a deposit is made of is chained, and begins with nothing due.
LEMMA RedeemIsChained ==
  ASSUME NEW from, NEW to, NEW token, NEW x, NEW l, Len(l) = 3,
         l[1] = Step("eraseDeposit", from, token, x),
         l[2] = Step("transfer", to, token, x),
         l[3] = Step("transferReturned", to, token, x)
  PROVE  Chained(l) /\ Begins(l[1])
<1>1. /\ l[1].op = "eraseDeposit" /\ l[2].op = "transfer" /\ l[3].op = "transferReturned"
      /\ l[1].token = token /\ l[2].token = token /\ l[3].token = token
      /\ l[1].amount = x /\ l[2].amount = x /\ l[3].amount = x
  BY StepFields
<1>2. Linked(l[1], l[2]) /\ Linked(l[2], l[3]) /\ Ends(l[3])
  BY <1>1 DEF Linked, Pairs, Ends
<1>3. Begins(l[1])
  BY <1>1 DEF Begins
<1>4. \A i \in 1 .. Len(l) - 1 : (i = 1 /\ i + 1 = 2) \/ (i = 2 /\ i + 1 = 3)
  OBVIOUS
<1>5. QED
  BY <1>2, <1>3, <1>4 DEF Chained

\* What liquidate does from the first transfer on.
IsSeizure(l, user, sender, token, x, y, hf) ==
  /\ l \in Seq(TodoStep) /\ Len(l) = 8
  /\ l[1] = Step("eraseDeposit", user, token, x)
  /\ l[2] = Step("transfer", sender, token, x)
  /\ l[3] = Step("transferReturned", sender, token, x)
  /\ l[4] = Step("sweep", user, token, 0)
  /\ l[5] = Step("eraseDebt", user, ZeroAddress, y)
  /\ l[6] = Step("pullDsc", sender, ZeroAddress, y)
  /\ l[7] = Step("burn", sender, ZeroAddress, y)
  /\ l[8] = Step("checkImproved", user, ZeroAddress, hf)

\* The list that takes the place of seize, written out.
LEMMA SeizureSteps ==
  ASSUME NEW user \in User, NEW sender \in User, NEW token \in Token,
         NEW x \in Nat, NEW y \in Nat, NEW hf \in Nat
  PROVE  IsSeizure(redeemCollateralSteps(user, sender, token, x)
                     \o Steps(<<"sweep">>, user, token, 0)
                     \o burnDscSteps(user, sender, y)
                     \o DscSteps(<<"checkImproved">>, user, hf),
                   user, sender, token, x, y, hf)
<1> DEFINE a == redeemCollateralSteps(user, sender, token, x)
           b == Steps(<<"sweep">>, user, token, 0)
           d == burnDscSteps(user, sender, y)
           e == DscSteps(<<"checkImproved">>, user, hf)
<1>1. /\ a \in Seq(TodoStep) /\ Len(a) = 3
      /\ a[1] = Step("eraseDeposit", user, token, x) /\ a[2] = Step("transfer", sender, token, x)
      /\ a[3] = Step("transferReturned", sender, token, x)
  <2>1. sender \in Holder \ {Engine}
    BY Accounts
  <2>2. QED
    BY <2>1, RedeemSteps
<1>2. b \in Seq(TodoStep) /\ Len(b) = 1 /\ b[1] = Step("sweep", user, token, 0)
  BY StepType, OneStep, Accounts DEF GuardedOps
<1>3. /\ d \in Seq(TodoStep) /\ Len(d) = 3
      /\ d[1] = Step("eraseDebt", user, ZeroAddress, y) /\ d[2] = Step("pullDsc", sender, ZeroAddress, y)
      /\ d[3] = Step("burn", sender, ZeroAddress, y)
  BY BurnSteps
<1>4. e \in Seq(TodoStep) /\ Len(e) = 1 /\ e[1] = Step("checkImproved", user, ZeroAddress, hf)
  BY StepType, OneStep, Accounts DEF GuardedOps, CollateralOps, DscSteps
<1> HIDE DEF a, b, d, e
<1> DEFINE ab == a \o b
           abd == ab \o d
           l == abd \o e
<1>5. IsJoined(ab, a, b, 3, 1)
  BY <1>1, <1>2, Joined
<1> HIDE DEF ab
<1>6. /\ ab \in Seq(TodoStep) /\ Len(ab) = 4
      /\ ab[1] = a[1] /\ ab[2] = a[2] /\ ab[3] = a[3] /\ ab[4] = b[1]
  BY <1>5 DEF IsJoined
<1>7. IsJoined(abd, ab, d, 4, 3)
  BY <1>3, <1>6, Joined
<1> HIDE DEF abd
<1>8. /\ abd \in Seq(TodoStep) /\ Len(abd) = 7
      /\ abd[1] = ab[1] /\ abd[2] = ab[2] /\ abd[3] = ab[3] /\ abd[4] = ab[4]
      /\ abd[5] = d[1] /\ abd[6] = d[2] /\ abd[7] = d[3]
  BY <1>7 DEF IsJoined
<1>9. IsJoined(l, abd, e, 7, 1)
  BY <1>4, <1>8, Joined
<1> HIDE DEF l
<1>10. ASSUME NEW k, IsJoined(k, abd, e, 7, 1)
       PROVE  /\ k \in Seq(TodoStep) /\ Len(k) = 8
              /\ k[1] = abd[1] /\ k[2] = abd[2] /\ k[3] = abd[3] /\ k[4] = abd[4]
              /\ k[5] = abd[5] /\ k[6] = abd[6] /\ k[7] = abd[7] /\ k[8] = e[1]
  BY <1>10 DEF IsJoined
<1>11. IsSeizure(l, user, sender, token, x, y, hf)
  BY <1>1, <1>2, <1>3, <1>4, <1>6, <1>8, <1>9, <1>10 DEF IsSeizure
<1>12. QED
  BY <1>11 DEF l, abd, ab, a, b, d, e

\* Its steps fit together, and nothing is due before the first.
LEMMA SeizureIsChained ==
  ASSUME NEW user, NEW sender, NEW token, NEW x, NEW y, NEW hf, NEW l,
         IsSeizure(l, user, sender, token, x, y, hf)
  PROVE  Chained(l) /\ Begins(l[1])
<1>1. /\ l[1].op = "eraseDeposit" /\ l[2].op = "transfer" /\ l[3].op = "transferReturned"
      /\ l[4].op = "sweep" /\ l[5].op = "eraseDebt" /\ l[6].op = "pullDsc" /\ l[7].op = "burn"
      /\ l[8].op = "checkImproved"
      /\ l[1].token = token /\ l[2].token = token /\ l[3].token = token
      /\ l[1].amount = x /\ l[2].amount = x /\ l[3].amount = x
      /\ l[5].token = ZeroAddress /\ l[6].token = ZeroAddress /\ l[7].token = ZeroAddress
      /\ l[5].amount = y /\ l[6].amount = y /\ l[7].amount = y
      /\ Len(l) = 8
  BY StepFields DEF IsSeizure
<1>2. Linked(l[1], l[2]) /\ Linked(l[2], l[3])
  BY <1>1 DEF Linked, Pairs
<1>3. Linked(l[3], l[4]) /\ Linked(l[4], l[5]) /\ Linked(l[7], l[8]) /\ Ends(l[8]) /\ Begins(l[1])
  BY <1>1 DEF Linked, Ends, Begins
<1>4. Linked(l[5], l[6]) /\ Linked(l[6], l[7])
  BY <1>1 DEF Linked, Pairs
<1>5. \A i \in 1 .. Len(l) - 1 :
        \/ (i = 1 /\ i + 1 = 2) \/ (i = 2 /\ i + 1 = 3) \/ (i = 3 /\ i + 1 = 4)
        \/ (i = 4 /\ i + 1 = 5) \/ (i = 5 /\ i + 1 = 6) \/ (i = 6 /\ i + 1 = 7)
        \/ (i = 7 /\ i + 1 = 8)
  BY <1>1
<1>6. QED
  BY <1>1, <1>2, <1>3, <1>4, <1>5 DEF Chained

-----------------------------------------------------------------------------
(* liquidate *)

\* A step that becomes others.
LEMMA QuietStep ==
  ASSUME CallsIInv, NEW op \in {"seize", "sweep"}, AtStep(op),
         UNCHANGED <<engineVars, collateralVars, dscLedger, answer, _status>>,
         op = "seize" => ~ fineAt(context, storage, step.user)
  PROVE  storage' = storage /\ storage \in Storage /\ Made(context, storage, storage', step)
<1>1. step \in TodoStep /\ step.op = op /\ TablesOK(storage)
  BY NextStep
<1>2. storage' = storage
  BY DEF storage, engineVars, collateralVars
<1>3. storage \in Storage
  BY <1>1 DEF TablesOK
<1>4. QED
  BY <1>1, <1>2, <1>3, QuietIsMade

\* sweep keeps the invariant.
LEMMA SweepIInv == CallsIInv /\ Sweep => CallsIInv'
<1>1. SUFFICES ASSUME CallsIInv, Sweep PROVE CallsIInv'
  OBVIOUS
<1> DEFINE user == step.user
           x == s_collateralDeposited[user][step.token]
           pre == redeemCollateralSteps(user, Pool, step.token, x)
           todo == frames[1].todo
           rest == pre \o Tail(todo)
<1>2. AtStep("sweep") /\ Continue(pre)
      /\ UNCHANGED <<engineVars, collateralVars, dscLedger, answer, _status>>
  BY <1>1 DEF Sweep
<1>3. /\ Len(frames) \in 1 .. 2 /\ todo \in Seq(TodoStep) /\ todo # <<>>
      /\ step = todo[1] /\ step \in TodoStep /\ step.op = "sweep" /\ TablesOK(storage)
  BY <1>1, <1>2, NextStep
<1>4. user \in User /\ step.token \in Token
  BY <1>3 DEF TodoStep, CollateralOps
<1>5. x \in Nat
  BY <1>3, <1>4, StorageIsTyped, WordsAreNaturals
<1>6. Pool \in Holder \ {Engine}
  BY EngineAssumption DEF Holder
<1>7. /\ pre \in Seq(TodoStep) /\ Len(pre) = 3
      /\ pre[1] = Step("eraseDeposit", user, step.token, x)
      /\ pre[2] = Step("transfer", Pool, step.token, x)
      /\ pre[3] = Step("transferReturned", Pool, step.token, x)
  BY <1>4, <1>5, <1>6, RedeemSteps
<1>8. storage' = storage /\ storage \in Storage /\ Made(context, storage, storage', step)
  BY <1>1, <1>2, QuietStep
<1> HIDE DEF pre, todo, x, user
<1>9. Chained(pre) /\ Begins(pre[1])
  BY <1>7, RedeemIsChained
<1>10. /\ pre[1].op = "eraseDeposit" /\ pre[2].op = "transfer" /\ pre[3].op = "transferReturned"
       /\ pre[1].user = user
  BY <1>7, StepFields
<1>11. \A i \in 1 .. Len(pre) : i = 1 \/ i = 2 \/ i = 3
  BY <1>7
<1>12. Replaces(pre, step)
  BY <1>3, <1>9, <1>10, <1>11 DEF Replaces
<1>13. Resumes(rest, pre, todo) /\ rest \in Seq(TodoStep)
  BY <1>3, <1>7, RestResumes
<1> HIDE DEF rest
<1>14. ASSUME Len(frames) = 1,
              NEW i \in 1 .. Len(pre), pre[i].op \in {"eraseDeposit", "sweep"}
       PROVE  \/ isChecked(rest, i + 1, pre[i].user)
              \/ isCovered(context, storage', frames[1].entry, rest, pre[i].user)
  <2>1. i = 1 /\ i + 1 = 2 /\ pre[i].user = user
    BY <1>10, <1>11, <1>14
  <2>2. /\ AtRest(frames[1].entry)
        /\ Running(context, storage, frames[1].entry, todo)
    BY <1>1, <1>14 DEF CallsIInv, todo
  <2>3. 1 \in 1 .. Len(todo) /\ todo[1].op = "sweep" /\ todo[1].user = user
    BY <1>3 DEF user
  <2>4. isChecked(todo, 1 + 1, user) \/ isCovered(context, storage, frames[1].entry, todo, user)
    BY <2>2, <2>3 DEF Running, TakingIsExcused
  <2>5. isChecked(todo, 1 + 1, user) => isChecked(rest, 2, user)
    <3>1. isChecked(todo, 1 + 1, user) => isChecked(rest, Len(pre) + 1, user)
      BY <1>13, <2>3, CheckMoves
    <3>2. isChecked(rest, Len(pre) + 1, user) => isChecked(rest, 2, user)
      <4>1. Len(rest) \in Nat
        BY <1>13
      <4>2. Len(pre) + 1 .. Len(rest) \subseteq 2 .. Len(rest)
        BY <1>7, <4>1
      <4>3. QED
        BY <4>2 DEF isChecked
    <3>3. QED
      BY <3>1, <3>2
  <2>6. isCovered(context, storage, frames[1].entry, todo, user)
          => isCovered(context, storage', frames[1].entry, rest, user)
    <3>1. frames[1].entry \in Storage
      BY <2>2 DEF AtRest, TablesOK
    <3>2. storage' \in Storage
      BY <1>8
    <3>3. Replaces(pre, todo[1]) /\ Made(context, storage, storage', todo[1])
      BY <1>3, <1>8, <1>12
    <3>4. QED
      BY <1>3, <1>4, <1>7, <1>8, <1>13, <3>1, <3>2, <3>3, CoverMoves
  <2>7. QED
    BY <2>1, <2>4, <2>5, <2>6
<1>15. Len(frames) = 1 =>
         LET r == pre \o Tail(frames[1].todo)
         IN  \A i \in 1 .. Len(pre) : pre[i].op \in {"eraseDeposit", "sweep"} =>
               \/ isChecked(r, i + 1, pre[i].user)
               \/ isCovered(context, storage', frames[1].entry, r, pre[i].user)
  BY <1>14 DEF rest, todo
<1>16. QED
  BY <1>1, <1>2, <1>7, <1>8, <1>12, <1>15, StepIInv

\* seize keeps it: the user is covered by the comparison at the end.
LEMMA SeizeIInv == CallsIInv /\ Seize => CallsIInv'
<1>1. SUFFICES ASSUME CallsIInv, Seize PROVE CallsIInv'
  OBVIOUS
<1> DEFINE user == step.user
           sender == frames[1].sender
           x == totalCollateralToRedeem(answer[step.token], step.amount)
           hf == healthFactor(user)
           pre == redeemCollateralSteps(user, sender, step.token, x)
                    \o Steps(<<"sweep">>, user, step.token, 0)
                    \o burnDscSteps(user, sender, step.amount)
                    \o DscSteps(<<"checkImproved">>, user, hf)
           todo == frames[1].todo
           rest == pre \o Tail(todo)
<1>2. /\ AtStep("seize") /\ Continue(pre)
      /\ healthFactorReturns(user) /\ hf < MIN_HEALTH_FACTOR
      /\ totalCollateralToRedeemReturns(answer[step.token], step.amount)
      /\ UNCHANGED <<engineVars, collateralVars, dscLedger, answer, _status>>
  BY <1>1 DEF Seize
<1>3. /\ Len(frames) \in 1 .. 2 /\ todo \in Seq(TodoStep) /\ todo # <<>> /\ sender \in User
      /\ step = todo[1] /\ step \in TodoStep /\ step.op = "seize" /\ TablesOK(storage)
  BY <1>1, <1>2, NextStep
<1>4. user \in User /\ step.token \in Token /\ step.amount \in Nat
  BY <1>3 DEF TodoStep, CollateralOps
<1>5. x \in Nat
  BY <1>2, WordsAreNaturals DEF totalCollateralToRedeemReturns, Fits
<1>6. hf \in Nat
  <2>1. /\ answer \in [Feed -> Int] /\ s_collateralDeposited[user] \in [Token -> Word]
        /\ s_DscMinted[user] \in Nat
    BY <1>3, <1>4, StorageIsTyped, WordsAreNaturals
  <2>2. s_collateralDeposited[user] \in [Token -> Nat]
    BY <2>1, WordsAreNaturals
  <2>3. getAccountCollateralValue(user) \in Nat
    BY <1>4, <2>1, <2>2, AccountValue, ValuesType
  <2>4. hf = healthOf(s_DscMinted[user], getAccountCollateralValue(user))
    BY <1>4, AccountValue
  <2>5. CASE s_DscMinted[user] # 0
    BY <2>1, <2>3, <2>4, <2>5, HealthOfAccount
  <2>6. CASE s_DscMinted[user] = 0
    BY <2>4, <2>6, MaxUintAssumption DEF healthOf
  <2>7. QED
    BY <2>5, <2>6
<1>7. ~ fineAt(context, storage, user)
  <2>1. ~ (hf >= MIN_HEALTH_FACTOR)
    BY <1>2, <1>6, PrecisionAssumption DEF MIN_HEALTH_FACTOR
  <2>2. ~ healthFactorIsFine(user)
    BY <2>1 DEF healthFactorIsFine
  <2>3. QED
    BY <1>4, <2>2, FineNow
<1> HIDE DEF x, hf, user, sender, todo
<1>8. hf = healthAt(storage, user)
  BY <1>4, HealthNow DEF hf
<1>9. IsSeizure(pre, user, sender, step.token, x, step.amount, hf)
  BY <1>3, <1>4, <1>5, <1>6, SeizureSteps
<1>10. storage' = storage /\ storage \in Storage /\ Made(context, storage, storage', step)
  BY <1>1, <1>2, <1>7, QuietStep DEF user
<1> HIDE DEF pre
<1>11. Chained(pre) /\ Begins(pre[1])
  BY <1>9, SeizureIsChained
<1>12. /\ pre \in Seq(TodoStep) /\ Len(pre) = 8
       /\ pre[1].op = "eraseDeposit" /\ pre[2].op = "transfer" /\ pre[3].op = "transferReturned"
       /\ pre[4].op = "sweep" /\ pre[5].op = "eraseDebt" /\ pre[6].op = "pullDsc"
       /\ pre[7].op = "burn" /\ pre[8].op = "checkImproved"
       /\ pre[1].user = user /\ pre[4].user = user
       /\ pre[5].user = user /\ pre[5].amount = step.amount
       /\ pre[8].user = user /\ pre[8].amount = hf
  BY <1>9, StepFields DEF IsSeizure
<1>13. \A i \in 1 .. Len(pre) :
         i = 1 \/ i = 2 \/ i = 3 \/ i = 4 \/ i = 5 \/ i = 6 \/ i = 7 \/ i = 8
  BY <1>12
<1>14. \A i \in 1 .. Len(pre) :
         pre[i].op \notin {"enter", "leave", "checkHealth", "recordDebt", "seize"}
  BY <1>12, <1>13
<1>15. Replaces(pre, step)
  BY <1>3, <1>11, <1>14 DEF Replaces
<1>16. Resumes(rest, pre, todo) /\ rest \in Seq(TodoStep)
  BY <1>3, <1>12, RestResumes
<1> HIDE DEF rest
<1>17. ASSUME Len(frames) = 1
       PROVE  isCovered(context, storage', frames[1].entry, rest, user)
  <2> DEFINE e == frames[1].entry
  <2>1. SeizureComesFirst(storage, e, todo)
    BY <1>1, <1>17 DEF CallsIInv, Running, todo
  <2>2. 1 \in places(todo, "seize")
    BY <1>3 DEF places
  <2>3. /\ storage.deposited = e.deposited /\ storage.minted = e.minted
        /\ storage.answer = e.answer /\ places(todo, "recordDebt") = {}
        /\ \A j \in 1 + 1 .. Len(todo) : todo[j].op \in SettledOps
        /\ \/ todo[1].amount > 0
           \/ \E j \in 1 .. 1 - 1 : /\ todo[j].op = "moreThanZero"
                                    /\ todo[j].amount = todo[1].amount
    BY <2>1, <2>2 DEF SeizureComesFirst
  <2> HIDE DEF e
  <2>4. step.amount > 0
    BY <1>3, <2>3
  <2>5. ~ fineAt(context, e, user)
    BY <1>7, <2>3, SameIsFine
  <2>6. places(rest, "recordDebt") = {}
    BY <1>14, <1>16, <2>3, PlacesMove
  <2>7. storage'.minted[user] <= e.minted[user]
    BY <1>4, <1>10, <2>3, StorageTypes
  <2>8. 5 \in places(rest, "eraseDebt") /\ rest[5] = pre[5]
    <3>1. 5 \in 1 .. Len(pre) /\ Len(rest) \in Nat /\ Len(todo) \in Nat \ {0}
          /\ Len(rest) = Len(pre) + Len(todo) - 1
      BY <1>12, <1>16 DEF Resumes
    <3>2. 5 \in 1 .. Len(rest)
      BY <1>12, <3>1
    <3>3. rest[5] = pre[5]
      BY <1>16, <3>1 DEF Resumes
    <3>4. QED
      BY <1>12, <3>2, <3>3 DEF places
  <2>9. hf = healthAt(e, user) /\ healthAt(e, user) < MIN_HEALTH_FACTOR
    BY <1>2, <1>8, <2>3 DEF healthAt
  <2>10. isImproved(storage', e, rest, user)
    <3>1. /\ Len(rest) \in Nat /\ Len(todo) \in Nat \ {0} /\ Len(rest) = 8 + Len(todo) - 1
          /\ \A i \in 8 + 1 .. Len(rest) : rest[i] = todo[i - 8 + 1]
      BY <1>12, <1>16 DEF Resumes
    <3>2. 8 \in 1 .. Len(rest) /\ 8 \in 1 .. 8
      BY <3>1
    <3>3. rest[8] = pre[8]
      BY <1>12, <1>16, <3>2 DEF Resumes
    <3>4. 8 \in places(rest, "checkImproved")
      BY <1>12, <3>2, <3>3 DEF places
    <3>5. ASSUME NEW j \in 8 + 1 .. Len(rest) PROVE rest[j].op \in SettledOps
      <4>1. j - 8 + 1 \in 1 + 1 .. Len(todo)
        BY <3>1
      <4>2. QED
        BY <2>3, <3>1, <4>1
    <3>6. QED
      BY <1>12, <2>9, <3>3, <3>4, <3>5 DEF isImproved
  <2>11. QED
    BY <1>12, <2>4, <2>5, <2>6, <2>7, <2>8, <2>9, <2>10 DEF isCovered, e
<1>18. Len(frames) = 1 =>
         LET r == pre \o Tail(frames[1].todo)
         IN  \A i \in 1 .. Len(pre) : pre[i].op \in {"eraseDeposit", "sweep"} =>
               \/ isChecked(r, i + 1, pre[i].user)
               \/ isCovered(context, storage', frames[1].entry, r, pre[i].user)
  <2>1. \A i \in 1 .. Len(pre) : pre[i].op \in {"eraseDeposit", "sweep"} => pre[i].user = user
    BY <1>12, <1>13
  <2>2. QED
    BY <1>17, <2>1 DEF rest, todo
<1>19. QED
  BY <1>1, <1>2, <1>10, <1>12, <1>15, <1>18, StepIInv

-----------------------------------------------------------------------------
(* The calls *)

\* What is true of the steps of every call.
IsCall(l) ==
  /\ l \in Seq(TodoStep) /\ Len(l) \in Nat \ {0}
  /\ Chained(l) /\ Begins(l[1])
  /\ Guarded(l) /\ ChecksCount(l) /\ Locked(l)
  /\ places(l, "sweep") = {}
  /\ \A i \in places(l, "eraseDeposit") : isChecked(l, i + 1, l[i].user)

\* One nonReentrant at most, at the end.
IsOneGuard(l) ==
  \/ places(l, "enter") = {} /\ places(l, "leave") = {}
  \/ \E i \in 1 .. Len(l) : /\ i < Len(l)
                            /\ places(l, "enter") = {i} /\ places(l, "leave") = {Len(l)}

\* A call with a nonReentrant: what is free, and what is guarded.
LEMMA OneGuard ==
  ASSUME NEW l, NEW n \in Nat, Len(l) = n, NEW m \in 1 .. n, m < n,
         l[m].op = "enter", l[n].op = "leave",
         \A i \in 1 .. m - 1 : l[i].op \in FreeOps,
         \A i \in m + 1 .. n - 1 : l[i].op \in GuardedOps
  PROVE  Guarded(l) /\ Locked(l) /\ IsOneGuard(l)
<1>1. \A i \in 1 .. n : \/ i \in 1 .. m - 1 /\ l[i].op \in FreeOps
                        \/ i = m
                        \/ i \in m + 1 .. n - 1 /\ l[i].op \in GuardedOps
                        \/ i = n
  OBVIOUS
<1>2. FreeOps \cap (GuardedOps \cup {"enter", "leave"}) = {} /\ "enter" \notin GuardedOps
      /\ "leave" \notin GuardedOps
  BY DEF FreeOps, GuardedOps
<1>3. places(l, "enter") = {m} /\ places(l, "leave") = {n}
  BY <1>1, <1>2 DEF places
<1>4. Guarded(l)
  <2>1. ASSUME NEW i \in 1 .. n, l[i].op \in GuardedOps
        PROVE  \E j \in i + 1 .. n : l[j].op = "leave" /\ \A k \in i .. j : l[k].op # "enter"
    <3>1. i \in m + 1 .. n - 1
      BY <1>1, <1>2, <2>1
    <3>2. n \in i + 1 .. n
      BY <3>1
    <3>3. \A k \in i .. n : l[k].op # "enter"
      BY <1>1, <1>2, <3>1
    <3>4. QED
      BY <3>2, <3>3
  <2>2. QED
    BY <2>1 DEF Guarded
<1>5. Locked(l)
  <2>1. ASSUME NEW i \in 1 .. n, l[i].op \notin FreeOps
        PROVE  \E j \in 1 .. i : l[j].op = "enter"
    <3>1. m \in 1 .. i
      BY <1>1, <2>1
    <3>2. QED
      BY <3>1
  <2>2. QED
    BY <2>1 DEF Locked
<1>6. QED
  BY <1>3, <1>4, <1>5 DEF IsOneGuard

\* Two calls one after the other.
LEMMA TwoCalls ==
  ASSUME NEW a, NEW b, IsCall(a), IsCall(b),
         places(a, "checkHealth") = {}, places(a, "eraseDeposit") = {}
  PROVE  IsCall(a \o b)
<1> DEFINE n == Len(a)
           m == Len(b)
           l == a \o b
<1>1. a \in Seq(TodoStep) /\ b \in Seq(TodoStep) /\ n \in Nat \ {0} /\ m \in Nat \ {0}
  BY DEF IsCall
<1>2. IsJoined(l, a, b, n, m)
  BY <1>1, Joined
<1> HIDE DEF l, n, m
<1>3. /\ l \in Seq(TodoStep) /\ Len(l) = n + m
      /\ \A i \in 1 .. n : l[i] = a[i]
      /\ \A i \in 1 .. m : l[n + i] = b[i]
      /\ \A i \in n + 1 .. n + m : i - n \in 1 .. m /\ l[i] = b[i - n]
  BY <1>2 DEF IsJoined
<1>4. Chained(l) /\ Begins(l[1])
  <2>1. ASSUME NEW i \in 1 .. (n + m) - 1
        PROVE  Linked(l[i], l[i + 1])
    <3>1. CASE i \in 1 .. n - 1
      <4>1. i \in 1 .. n /\ i + 1 \in 1 .. n
        BY <1>1, <3>1
      <4>2. Linked(a[i], a[i + 1])
        BY <3>1 DEF IsCall, Chained, n
      <4>3. QED
        BY <1>3, <4>1, <4>2
    <3>2. CASE i = n
      <4>1. n \in 1 .. n /\ 1 \in 1 .. m /\ l[n] = a[n] /\ l[n + 1] = b[1]
        BY <1>1, <1>3
      <4>2. Ends(a[n]) /\ Begins(b[1])
        BY <1>1 DEF IsCall, Chained, n
      <4>3. QED
        BY <3>2, <4>1, <4>2 DEF Linked
    <3>3. CASE i \in n + 1 .. (n + m) - 1
      <4>1. /\ i \in n + 1 .. n + m /\ i + 1 \in n + 1 .. n + m
            /\ i - n \in 1 .. m - 1 /\ (i + 1) - n = (i - n) + 1
        BY <1>1, <3>3
      <4>2. Linked(b[i - n], b[(i - n) + 1])
        BY <4>1 DEF IsCall, Chained, m
      <4>3. l[i] = b[i - n] /\ l[i + 1] = b[(i + 1) - n]
        BY <1>3, <4>1
      <4>4. QED
        BY <4>1, <4>2, <4>3
    <3>4. QED
      BY <1>1, <3>1, <3>2, <3>3
  <2>2. Ends(l[n + m])
    <3>1. m \in 1 .. m /\ l[n + m] = b[m]
      BY <1>1, <1>3
    <3>2. QED
      BY <1>1, <3>1 DEF IsCall, Chained, m
  <2>3. l[1] = a[1]
    BY <1>1, <1>3
  <2>4. QED
    BY <1>3, <2>1, <2>2, <2>3 DEF IsCall, Chained
<1>5. Guarded(l)
  <2>1. ASSUME NEW i \in 1 .. n + m, l[i].op \in GuardedOps
        PROVE  \E j \in i + 1 .. n + m : l[j].op = "leave" /\ \A k \in i .. j : l[k].op # "enter"
    <3>1. CASE i \in 1 .. n
      <4>1. a[i].op \in GuardedOps
        BY <1>3, <2>1, <3>1
      <4>2. PICK j \in i + 1 .. n : a[j].op = "leave" /\ \A k \in i .. j : a[k].op # "enter"
        BY <3>1, <4>1 DEF IsCall, Guarded, n
      <4>3. j \in i + 1 .. n + m /\ j \in 1 .. n /\ \A k \in i .. j : k \in 1 .. n
        BY <1>1, <3>1
      <4>4. QED
        BY <1>3, <4>2, <4>3
    <3>2. CASE i \in n + 1 .. n + m
      <4>1. i - n \in 1 .. m /\ b[i - n].op \in GuardedOps
        BY <1>3, <2>1, <3>2
      <4>2. PICK j \in (i - n) + 1 .. m :
              b[j].op = "leave" /\ \A k \in i - n .. j : b[k].op # "enter"
        BY <4>1 DEF IsCall, Guarded, m
      <4>3. n + j \in i + 1 .. n + m /\ j \in 1 .. m
        BY <1>1, <3>2, <4>1
      <4>4. \A k \in i .. n + j : l[k].op # "enter"
        <5>1. \A k \in i .. n + j : k \in n + 1 .. n + m /\ k - n \in i - n .. j
          BY <1>1, <3>2, <4>1
        <5>2. QED
          BY <1>3, <4>2, <5>1
      <4>5. QED
        BY <1>3, <4>2, <4>3, <4>4
    <3>3. QED
      BY <1>1, <3>1, <3>2
  <2>2. QED
    BY <1>3, <2>1 DEF Guarded
<1>6. ChecksCount(l)
  <2>1. ASSUME NEW i \in 1 .. n + m, l[i].op = "checkHealth", NEW j \in i + 1 .. n + m
        PROVE  l[j].op \in FinalOps
    <3>1. i \notin 1 .. n
      BY <1>3, <2>1 DEF places, n
    <3>2. i \in n + 1 .. n + m /\ j \in n + 1 .. n + m
      BY <1>1, <3>1
    <3>3. i - n \in 1 .. m /\ j - n \in (i - n) + 1 .. m
      BY <1>1, <3>2
    <3>4. l[i] = b[i - n] /\ l[j] = b[j - n]
      BY <1>3, <3>2
    <3>5. QED
      BY <2>1, <3>3, <3>4 DEF IsCall, ChecksCount, m
  <2>2. QED
    BY <1>3, <2>1 DEF ChecksCount
<1>7. Locked(l)
  <2>1. ASSUME NEW i \in 1 .. n + m, l[i].op \notin FreeOps
        PROVE  \E j \in 1 .. i : l[j].op = "enter"
    <3>1. CASE i \in 1 .. n
      <4>1. a[i].op \notin FreeOps
        BY <1>3, <2>1, <3>1
      <4>2. PICK j \in 1 .. i : a[j].op = "enter"
        BY <3>1, <4>1 DEF IsCall, Locked, n
      <4>3. j \in 1 .. n
        BY <1>1, <3>1
      <4>4. QED
        BY <1>3, <4>2, <4>3
    <3>2. CASE i \in n + 1 .. n + m
      <4>1. i - n \in 1 .. m /\ b[i - n].op \notin FreeOps
        BY <1>3, <2>1, <3>2
      <4>2. PICK j \in 1 .. i - n : b[j].op = "enter"
        BY <4>1 DEF IsCall, Locked, m
      <4>3. j \in 1 .. m /\ n + j \in 1 .. i
        BY <1>1, <3>2, <4>1
      <4>4. QED
        BY <1>3, <4>2, <4>3
    <3>3. QED
      BY <1>1, <3>1, <3>2
  <2>2. QED
    BY <1>3, <2>1 DEF Locked
<1>8. places(l, "sweep") = {}
  <2>1. ASSUME NEW i \in 1 .. n + m
        PROVE  l[i].op # "sweep"
    <3>1. CASE i \in 1 .. n
      BY <1>3, <3>1 DEF IsCall, places, n
    <3>2. CASE i \in n + 1 .. n + m
      BY <1>3, <3>2 DEF IsCall, places, m
    <3>3. QED
      BY <1>1, <3>1, <3>2
  <2>2. QED
    BY <1>3, <2>1 DEF places
<1>9. ASSUME NEW i \in places(l, "eraseDeposit")
      PROVE  isChecked(l, i + 1, l[i].user)
  <2>1. i \in 1 .. n + m /\ l[i].op = "eraseDeposit"
    BY <1>3 DEF places
  <2>2. i \notin 1 .. n
    BY <1>3, <2>1 DEF places, n
  <2>3. i \in n + 1 .. n + m /\ i - n \in 1 .. m /\ l[i] = b[i - n]
    BY <1>1, <1>3, <2>1, <2>2
  <2>4. i - n \in places(b, "eraseDeposit")
    BY <2>1, <2>3 DEF places, m
  <2>5. isChecked(b, (i - n) + 1, b[i - n].user)
    BY <2>4 DEF IsCall
  <2>6. PICK j \in (i - n) + 1 .. m : b[j].op = "checkHealth" /\ b[j].user = b[i - n].user
    BY <2>5 DEF isChecked, m
  <2>7. j \in 1 .. m /\ n + j \in i + 1 .. n + m /\ l[n + j] = b[j]
    BY <1>1, <1>3, <2>3
  <2>8. QED
    BY <1>3, <2>3, <2>6, <2>7 DEF isChecked
<1>10. Len(l) \in Nat \ {0}
  BY <1>1, <1>3
<1>11. IsCall(l)
  BY <1>3, <1>4, <1>5, <1>6, <1>7, <1>8, <1>9, <1>10 DEF IsCall
<1>12. QED
  BY <1>11 DEF l

\* One nonReentrant after the other.
LEMMA TwoGuards ==
  ASSUME NEW a \in Seq(TodoStep), NEW b \in Seq(TodoStep), IsOneGuard(a), IsOneGuard(b)
  PROVE  Outside(a \o b)
<1> DEFINE n == Len(a)
           m == Len(b)
           l == a \o b
           at(op) == places(a, op) \cup {n + i : i \in places(b, op)}
<1>1. n \in Nat /\ m \in Nat
  OBVIOUS
<1>2. IsJoined(l, a, b, n, m)
  BY Joined
<1> HIDE DEF l, n, m
<1>3. /\ Len(l) = n + m
      /\ \A i \in 1 .. n : l[i] = a[i]
      /\ \A i \in 1 .. m : l[n + i] = b[i]
      /\ \A i \in n + 1 .. n + m : i - n \in 1 .. m /\ l[i] = b[i - n]
  BY <1>2 DEF IsJoined
<1>4. ASSUME NEW op PROVE places(l, op) = at(op)
  <2>1. ASSUME NEW i \in places(l, op) PROVE i \in at(op)
    <3>1. i \in 1 .. n + m /\ l[i].op = op
      BY <1>3 DEF places
    <3>2. CASE i \in 1 .. n
      BY <1>3, <3>1, <3>2 DEF places, n
    <3>3. CASE i \in n + 1 .. n + m
      <4>1. i - n \in 1 .. m /\ b[i - n].op = op /\ n + (i - n) = i
        BY <1>1, <1>3, <3>1, <3>3
      <4>2. i - n \in places(b, op)
        BY <4>1 DEF places, m
      <4>3. QED
        BY <4>1, <4>2
    <3>4. QED
      BY <1>1, <3>1, <3>2, <3>3
  <2>2. ASSUME NEW i \in places(a, op) PROVE i \in places(l, op)
    <3>1. i \in 1 .. n /\ a[i].op = op
      BY DEF places, n
    <3>2. i \in 1 .. n + m /\ l[i] = a[i]
      BY <1>1, <1>3, <3>1
    <3>3. QED
      BY <1>3, <3>1, <3>2 DEF places
  <2>3. ASSUME NEW i \in places(b, op) PROVE n + i \in places(l, op)
    <3>1. i \in 1 .. m /\ b[i].op = op
      BY DEF places, m
    <3>2. n + i \in 1 .. n + m /\ l[n + i] = b[i]
      BY <1>1, <1>3, <3>1
    <3>3. QED
      BY <1>3, <3>1, <3>2 DEF places
  <2>4. QED
    BY <2>1, <2>2, <2>3
<1>5. /\ places(l, "enter") = at("enter") /\ places(l, "leave") = at("leave")
  BY <1>4
<1>6. ASSUME places(a, "enter") = {}, places(a, "leave") = {}
      PROVE  Outside(l)
  <2>1. CASE places(b, "enter") = {} /\ places(b, "leave") = {}
    <3>1. places(l, "enter") = {} /\ places(l, "leave") = {}
      BY <1>5, <1>6, <2>1
    <3>2. QED
      BY <3>1 DEF Outside
  <2>2. ASSUME NEW i \in 1 .. m, i < m, places(b, "enter") = {i}, places(b, "leave") = {m}
        PROVE  Outside(l)
    <3>1. places(l, "enter") = {n + i} /\ places(l, "leave") = {n + m}
      BY <1>5, <1>6, <2>2
    <3>2. n + i \in 1 .. Len(l) /\ n + m \in 1 .. Len(l) /\ n + i < n + m
      BY <1>1, <1>3, <2>2
    <3>3. QED
      BY <3>1, <3>2 DEF Outside
  <2>3. QED
    BY <2>1, <2>2 DEF IsOneGuard, m
<1>7. ASSUME NEW j \in 1 .. n, j < n, places(a, "enter") = {j}, places(a, "leave") = {n}
      PROVE  Outside(l)
  <2>1. CASE places(b, "enter") = {} /\ places(b, "leave") = {}
    <3>1. places(l, "enter") = {j} /\ places(l, "leave") = {n}
      BY <1>5, <1>7, <2>1
    <3>2. j \in 1 .. Len(l) /\ n \in 1 .. Len(l)
      BY <1>1, <1>3, <1>7
    <3>3. QED
      BY <1>7, <3>1, <3>2 DEF Outside
  <2>2. ASSUME NEW i \in 1 .. m, i < m, places(b, "enter") = {i}, places(b, "leave") = {m}
        PROVE  Outside(l)
    <3>1. places(l, "enter") = {j, n + i} /\ places(l, "leave") = {n, n + m}
      BY <1>5, <1>7, <2>2
    <3>2. /\ j \in 1 .. Len(l) /\ n \in 1 .. Len(l)
          /\ n + i \in 1 .. Len(l) /\ n + m \in 1 .. Len(l)
          /\ j < n /\ n < n + i /\ n + i < n + m
      BY <1>1, <1>3, <1>7, <2>2
    <3>3. QED
      BY <3>1, <3>2 DEF Outside
  <2>3. QED
    BY <2>1, <2>2 DEF IsOneGuard, m
<1>8. Outside(l)
  BY <1>6, <1>7 DEF IsOneGuard, n
<1>9. QED
  BY <1>8 DEF l

\* A list with one enter and one leave, or neither, begins outside the guard.
LEMMA OneGuardIsOutside ==
  ASSUME NEW l, Len(l) \in Nat, IsOneGuard(l)
  PROVE  Outside(l)
<1>1. ASSUME NEW i \in 1 .. Len(l), i < Len(l), places(l, "enter") = {i}, places(l, "leave") = {Len(l)}
      PROVE  Outside(l)
  <2>1. Len(l) \in 1 .. Len(l)
    BY <1>1
  <2>2. QED
    BY <1>1, <2>1 DEF Outside
<1>2. QED
  BY <1>1 DEF IsOneGuard, Outside

\* What a nonReentrant adds.
IsLocked(l, x, n) ==
  /\ n \in Nat
  /\ l \in Seq(TodoStep) /\ Len(l) = n + 2
  /\ l[1].op = "enter"
  /\ \A i \in 1 .. n : l[1 + i] = x[i]
  /\ l[n + 2].op = "leave"

\* nonReentrant puts a list between enter and leave.
LEMMA NonReentrantSteps ==
  ASSUME NEW x \in Seq(TodoStep)
  PROVE  IsLocked(nonReentrant(x), x, Len(x))
<1> DEFINE a == DscSteps(<<"enter">>, Engine, 0)
           b == DscSteps(<<"leave">>, Engine, 0)
           n == Len(x)
           ax == a \o x
           l == ax \o b
<1>1. Engine \in Holder /\ 0 \in Nat
  BY DEF Holder
<1>2. a \in Seq(TodoStep) /\ Len(a) = 1 /\ a[1] = Step("enter", Engine, ZeroAddress, 0)
  BY <1>1, StepType, OneStep DEF CollateralOps, DscSteps
<1>3. b \in Seq(TodoStep) /\ Len(b) = 1 /\ b[1] = Step("leave", Engine, ZeroAddress, 0)
  BY <1>1, StepType, OneStep DEF CollateralOps, DscSteps
<1>4. n \in Nat
  OBVIOUS
<1> HIDE DEF a, b, n
<1>5. IsJoined(ax, a, x, 1, n)
  BY <1>2, Joined DEF n
<1> HIDE DEF ax
<1>6. /\ ax \in Seq(TodoStep) /\ Len(ax) = 1 + n /\ ax[1] = a[1]
      /\ \A i \in 1 .. n : ax[1 + i] = x[i]
  BY <1>4, <1>5 DEF IsJoined
<1>7. IsJoined(l, ax, b, 1 + n, 1)
  BY <1>3, <1>6, Joined
<1> HIDE DEF l
<1>8. /\ l \in Seq(TodoStep) /\ Len(l) = (1 + n) + 1
      /\ \A i \in 1 .. 1 + n : l[i] = ax[i]
      /\ l[(1 + n) + 1] = b[1]
  BY <1>4, <1>7 DEF IsJoined
<1>9. l[1] = a[1] /\ \A i \in 1 .. n : l[1 + i] = x[i]
  BY <1>4, <1>6, <1>8
<1>10. l[1].op = "enter" /\ l[n + 2].op = "leave"
  <2>1. (1 + n) + 1 = n + 2
    BY <1>4
  <2>2. QED
    BY <1>2, <1>3, <1>8, <1>9, <2>1, StepFields
<1>11. IsLocked(l, x, n)
  <2>1. Len(l) = n + 2
    BY <1>4, <1>8
  <2>2. QED
    BY <1>4, <1>8, <1>9, <1>10, <2>1 DEF IsLocked
<1>12. QED
  BY <1>11 DEF l, ax, a, b, n, nonReentrant

-----------------------------------------------------------------------------
(* The steps of a call, from place b + 1 of a list on. *)

IsDeposit(l, b, sender, token, x) ==
  /\ l[b + 1] = Step("moreThanZero", sender, token, x)
  /\ l[b + 2] = Step("isAllowedToken", sender, token, x)
  /\ l[b + 3].op = "enter"
  /\ l[b + 4] = Step("recordDeposit", sender, token, x)
  /\ l[b + 5] = Step("transferFrom", sender, token, x)
  /\ l[b + 6] = Step("transferFromReturned", sender, token, x)
  /\ l[b + 7].op = "leave"

IsRedemption(l, b, sender, token, x) ==
  /\ l[b + 1] = Step("moreThanZero", sender, token, x)
  /\ l[b + 2].op = "enter"
  /\ l[b + 3] = Step("eraseDeposit", sender, token, x)
  /\ l[b + 4] = Step("transfer", sender, token, x)
  /\ l[b + 5] = Step("transferReturned", sender, token, x)
  /\ l[b + 6] = Step("checkHealth", sender, ZeroAddress, 0)
  /\ l[b + 7].op = "leave"

IsMint(l, b, sender, x) ==
  /\ l[b + 1] = Step("moreThanZero", sender, ZeroAddress, x)
  /\ l[b + 2].op = "enter"
  /\ l[b + 3] = Step("recordDebt", sender, ZeroAddress, x)
  /\ l[b + 4] = Step("checkHealth", sender, ZeroAddress, x)
  /\ l[b + 5] = Step("mint", sender, ZeroAddress, x)
  /\ l[b + 6] = Step("mintReturned", sender, ZeroAddress, x)
  /\ l[b + 7].op = "leave"

IsBurn(l, b, sender, x) ==
  /\ l[b + 1] = Step("moreThanZero", sender, ZeroAddress, x)
  /\ l[b + 2] = Step("eraseDebt", sender, ZeroAddress, x)
  /\ l[b + 3] = Step("pullDsc", sender, ZeroAddress, x)
  /\ l[b + 4] = Step("burn", sender, ZeroAddress, x)

IsLiquidation(l, sender, token, user, y) ==
  /\ l[1] = Step("moreThanZero", sender, token, y)
  /\ l[2].op = "enter"
  /\ l[3] = Step("seize", user, token, y)
  /\ l[4] = Step("checkHealth", sender, ZeroAddress, 0)
  /\ l[5].op = "leave"

\* The steps of depositCollateral, written out.
LEMMA DepositList ==
  ASSUME NEW sender \in User, NEW token \in Token, NEW x \in Nat
  PROVE  LET l == depositCollateralCall(sender, token, x)
         IN  l \in Seq(TodoStep) /\ Len(l) = 7 /\ IsDeposit(l, 0, sender, token, x)
<1> DEFINE f == Steps(<<"moreThanZero", "isAllowedToken">>, sender, token, x)
           g == Steps(<<"recordDeposit", "transferFrom", "transferFromReturned">>, sender, token, x)
           n == nonReentrant(g)
           l == f \o n
<1>1. /\ f \in Seq(TodoStep) /\ Len(f) = 2
      /\ f[1] = Step("moreThanZero", sender, token, x)
      /\ f[2] = Step("isAllowedToken", sender, token, x)
  <2>1. /\ Step("moreThanZero", sender, token, x) \in TodoStep
        /\ Step("isAllowedToken", sender, token, x) \in TodoStep
    BY StepType, Accounts DEF FreeOps
  <2>2. QED
    BY <2>1, TwoSteps
<1>2. /\ g \in Seq(TodoStep) /\ Len(g) = 3
      /\ g[1] = Step("recordDeposit", sender, token, x)
      /\ g[2] = Step("transferFrom", sender, token, x)
      /\ g[3] = Step("transferFromReturned", sender, token, x)
  <2>1. /\ Step("recordDeposit", sender, token, x) \in TodoStep
        /\ Step("transferFrom", sender, token, x) \in TodoStep
        /\ Step("transferFromReturned", sender, token, x) \in TodoStep
    BY StepType, Accounts DEF GuardedOps
  <2>2. QED
    BY <2>1, ThreeSteps
<1> HIDE DEF f, g
<1>3. IsLocked(n, g, 3)
  BY <1>2, NonReentrantSteps
<1> HIDE DEF n
<1>4. /\ n \in Seq(TodoStep) /\ Len(n) = 5 /\ n[1].op = "enter" /\ n[5].op = "leave"
      /\ n[2] = g[1] /\ n[3] = g[2] /\ n[4] = g[3]
  BY <1>3 DEF IsLocked
<1>5. IsJoined(l, f, n, 2, 5)
  BY <1>1, <1>4, Joined
<1> HIDE DEF l
<1>6. /\ l \in Seq(TodoStep) /\ Len(l) = 7 /\ l[1] = f[1] /\ l[2] = f[2]
      /\ l[3] = n[1] /\ l[4] = n[2] /\ l[5] = n[3] /\ l[6] = n[4] /\ l[7] = n[5]
  BY <1>5 DEF IsJoined
<1>7. IsDeposit(l, 0, sender, token, x)
  BY <1>1, <1>2, <1>4, <1>6 DEF IsDeposit
<1>8. QED
  BY <1>6, <1>7 DEF l, n, f, g, depositCollateralCall

\* Those of redeemCollateral.
LEMMA RedeemList ==
  ASSUME NEW sender \in User, NEW token \in Token, NEW x \in Nat
  PROVE  LET l == redeemCollateralCall(sender, token, x)
         IN  l \in Seq(TodoStep) /\ Len(l) = 7 /\ IsRedemption(l, 0, sender, token, x)
<1> DEFINE f == Steps(<<"moreThanZero">>, sender, token, x)
           a == redeemCollateralSteps(sender, sender, token, x)
           b == DscSteps(<<"checkHealth">>, sender, 0)
           g == a \o b
           n == nonReentrant(g)
           l == f \o n
<1>1. f \in Seq(TodoStep) /\ Len(f) = 1 /\ f[1] = Step("moreThanZero", sender, token, x)
  BY StepType, OneStep, Accounts DEF FreeOps
<1>2. /\ g \in Seq(TodoStep) /\ Len(g) = 4
      /\ g[1] = Step("eraseDeposit", sender, token, x)
      /\ g[2] = Step("transfer", sender, token, x)
      /\ g[3] = Step("transferReturned", sender, token, x)
      /\ g[4] = Step("checkHealth", sender, ZeroAddress, 0)
  <2>1. sender \in Holder \ {Engine}
    BY Accounts
  <2>2. /\ a \in Seq(TodoStep) /\ Len(a) = 3
        /\ a[1] = Step("eraseDeposit", sender, token, x)
        /\ a[2] = Step("transfer", sender, token, x)
        /\ a[3] = Step("transferReturned", sender, token, x)
    BY <2>1, RedeemSteps
  <2>3. b \in Seq(TodoStep) /\ Len(b) = 1 /\ b[1] = Step("checkHealth", sender, ZeroAddress, 0)
    BY StepType, OneStep, Accounts DEF GuardedOps, CollateralOps, DscSteps
  <2> HIDE DEF a, b
  <2>4. IsJoined(g, a, b, 3, 1)
    BY <2>2, <2>3, Joined
  <2> HIDE DEF g
  <2>5. /\ g \in Seq(TodoStep) /\ Len(g) = 4
        /\ g[1] = a[1] /\ g[2] = a[2] /\ g[3] = a[3] /\ g[4] = b[1]
    BY <2>4 DEF IsJoined
  <2>6. QED
    BY <2>2, <2>3, <2>5
<1> HIDE DEF f, g
<1>3. IsLocked(n, g, 4)
  BY <1>2, NonReentrantSteps
<1> HIDE DEF n
<1>4. /\ n \in Seq(TodoStep) /\ Len(n) = 6 /\ n[1].op = "enter" /\ n[6].op = "leave"
      /\ n[2] = g[1] /\ n[3] = g[2] /\ n[4] = g[3] /\ n[5] = g[4]
  BY <1>3 DEF IsLocked
<1>5. IsJoined(l, f, n, 1, 6)
  BY <1>1, <1>4, Joined
<1> HIDE DEF l
<1>6. /\ l \in Seq(TodoStep) /\ Len(l) = 7 /\ l[1] = f[1] /\ l[2] = n[1]
      /\ l[3] = n[2] /\ l[4] = n[3] /\ l[5] = n[4] /\ l[6] = n[5] /\ l[7] = n[6]
  BY <1>5 DEF IsJoined
<1>7. IsRedemption(l, 0, sender, token, x)
  BY <1>1, <1>2, <1>4, <1>6 DEF IsRedemption
<1>8. QED
  BY <1>6, <1>7 DEF l, n, f, g, a, b, redeemCollateralCall

\* Those of mintDsc.
LEMMA MintList ==
  ASSUME NEW sender \in User, NEW x \in Nat
  PROVE  LET l == mintDscCall(sender, x)
         IN  l \in Seq(TodoStep) /\ Len(l) = 7 /\ IsMint(l, 0, sender, x)
<1> DEFINE f == DscSteps(<<"moreThanZero">>, sender, x)
           g == DscSteps(<<"recordDebt", "checkHealth", "mint", "mintReturned">>, sender, x)
           n == nonReentrant(g)
           l == f \o n
<1>1. f \in Seq(TodoStep) /\ Len(f) = 1 /\ f[1] = Step("moreThanZero", sender, ZeroAddress, x)
  BY StepType, OneStep, Accounts DEF FreeOps, CollateralOps, DscSteps
<1>2. /\ g \in Seq(TodoStep) /\ Len(g) = 4
      /\ g[1] = Step("recordDebt", sender, ZeroAddress, x)
      /\ g[2] = Step("checkHealth", sender, ZeroAddress, x)
      /\ g[3] = Step("mint", sender, ZeroAddress, x)
      /\ g[4] = Step("mintReturned", sender, ZeroAddress, x)
  <2>1. /\ Step("recordDebt", sender, ZeroAddress, x) \in TodoStep
        /\ Step("checkHealth", sender, ZeroAddress, x) \in TodoStep
        /\ Step("mint", sender, ZeroAddress, x) \in TodoStep
        /\ Step("mintReturned", sender, ZeroAddress, x) \in TodoStep
    BY StepType, Accounts DEF GuardedOps, CollateralOps
  <2>2. QED
    BY <2>1, FourSteps DEF DscSteps
<1> HIDE DEF f, g
<1>3. IsLocked(n, g, 4)
  BY <1>2, NonReentrantSteps
<1> HIDE DEF n
<1>4. /\ n \in Seq(TodoStep) /\ Len(n) = 6 /\ n[1].op = "enter" /\ n[6].op = "leave"
      /\ n[2] = g[1] /\ n[3] = g[2] /\ n[4] = g[3] /\ n[5] = g[4]
  BY <1>3 DEF IsLocked
<1>5. IsJoined(l, f, n, 1, 6)
  BY <1>1, <1>4, Joined
<1> HIDE DEF l
<1>6. /\ l \in Seq(TodoStep) /\ Len(l) = 7 /\ l[1] = f[1] /\ l[2] = n[1]
      /\ l[3] = n[2] /\ l[4] = n[3] /\ l[5] = n[4] /\ l[6] = n[5] /\ l[7] = n[6]
  BY <1>5 DEF IsJoined
<1>7. IsMint(l, 0, sender, x)
  BY <1>1, <1>2, <1>4, <1>6 DEF IsMint
<1>8. QED
  BY <1>6, <1>7 DEF l, n, f, g, mintDscCall

\* Those of burnDsc.
LEMMA BurnList ==
  ASSUME NEW sender \in User, NEW x \in Nat
  PROVE  LET l == burnDscCall(sender, x)
         IN  l \in Seq(TodoStep) /\ Len(l) = 4 /\ IsBurn(l, 0, sender, x)
<1> DEFINE f == DscSteps(<<"moreThanZero">>, sender, x)
           g == burnDscSteps(sender, sender, x)
           l == f \o g
<1>1. f \in Seq(TodoStep) /\ Len(f) = 1 /\ f[1] = Step("moreThanZero", sender, ZeroAddress, x)
  BY StepType, OneStep, Accounts DEF FreeOps, CollateralOps, DscSteps
<1>2. /\ g \in Seq(TodoStep) /\ Len(g) = 3
      /\ g[1] = Step("eraseDebt", sender, ZeroAddress, x)
      /\ g[2] = Step("pullDsc", sender, ZeroAddress, x)
      /\ g[3] = Step("burn", sender, ZeroAddress, x)
  BY BurnSteps
<1> HIDE DEF f, g
<1>3. IsJoined(l, f, g, 1, 3)
  BY <1>1, <1>2, Joined
<1> HIDE DEF l
<1>4. /\ l \in Seq(TodoStep) /\ Len(l) = 4
      /\ l[1] = f[1] /\ l[2] = g[1] /\ l[3] = g[2] /\ l[4] = g[3]
  BY <1>3 DEF IsJoined
<1>5. IsBurn(l, 0, sender, x)
  BY <1>1, <1>2, <1>4 DEF IsBurn
<1>6. QED
  BY <1>4, <1>5 DEF l, f, g, burnDscCall

\* Those of liquidate.
LEMMA LiquidateList ==
  ASSUME NEW sender \in User, NEW token \in Token, NEW user \in User, NEW y \in Nat
  PROVE  LET l == liquidateCall(sender, token, user, y)
         IN  l \in Seq(TodoStep) /\ Len(l) = 5 /\ IsLiquidation(l, sender, token, user, y)
<1> DEFINE f == Steps(<<"moreThanZero">>, sender, token, y)
           a == Steps(<<"seize">>, user, token, y)
           b == DscSteps(<<"checkHealth">>, sender, 0)
           g == a \o b
           n == nonReentrant(g)
           l == f \o n
<1>1. f \in Seq(TodoStep) /\ Len(f) = 1 /\ f[1] = Step("moreThanZero", sender, token, y)
  BY StepType, OneStep, Accounts DEF FreeOps
<1>2. /\ g \in Seq(TodoStep) /\ Len(g) = 2
      /\ g[1] = Step("seize", user, token, y)
      /\ g[2] = Step("checkHealth", sender, ZeroAddress, 0)
  <2>1. a \in Seq(TodoStep) /\ Len(a) = 1 /\ a[1] = Step("seize", user, token, y)
    BY StepType, OneStep, Accounts DEF GuardedOps
  <2>2. b \in Seq(TodoStep) /\ Len(b) = 1 /\ b[1] = Step("checkHealth", sender, ZeroAddress, 0)
    BY StepType, OneStep, Accounts DEF GuardedOps, CollateralOps, DscSteps
  <2> HIDE DEF a, b
  <2>3. IsJoined(g, a, b, 1, 1)
    BY <2>1, <2>2, Joined
  <2> HIDE DEF g
  <2>4. g \in Seq(TodoStep) /\ Len(g) = 2 /\ g[1] = a[1] /\ g[2] = b[1]
    BY <2>3 DEF IsJoined
  <2>5. QED
    BY <2>1, <2>2, <2>4
<1> HIDE DEF f, g
<1>3. IsLocked(n, g, 2)
  BY <1>2, NonReentrantSteps
<1> HIDE DEF n
<1>4. /\ n \in Seq(TodoStep) /\ Len(n) = 4 /\ n[1].op = "enter" /\ n[4].op = "leave"
      /\ n[2] = g[1] /\ n[3] = g[2]
  BY <1>3 DEF IsLocked
<1>5. IsJoined(l, f, n, 1, 4)
  BY <1>1, <1>4, Joined
<1> HIDE DEF l
<1>6. /\ l \in Seq(TodoStep) /\ Len(l) = 5
      /\ l[1] = f[1] /\ l[2] = n[1] /\ l[3] = n[2] /\ l[4] = n[3] /\ l[5] = n[4]
  BY <1>5 DEF IsJoined
<1>7. IsLiquidation(l, sender, token, user, y)
  BY <1>1, <1>2, <1>4, <1>6 DEF IsLiquidation
<1>8. QED
  BY <1>6, <1>7 DEF l, n, f, g, a, b, liquidateCall

\* The steps with an operation of their own are nowhere else.
LEMMA NoPlace ==
  ASSUME NEW l, NEW op, \A i \in 1 .. Len(l) : l[i].op # op
  PROVE  places(l, op) = {}
BY DEF places

\* depositCollateral begins as a good call.
LEMMA DepositCall ==
  ASSUME NEW sender \in User, NEW token \in Token, NEW x \in Nat
  PROVE  LET l == depositCollateralCall(sender, token, x)
         IN  /\ IsCall(l) /\ IsOneGuard(l)
             /\ places(l, "checkHealth") = {} /\ places(l, "eraseDeposit") = {}
             /\ places(l, "seize") = {}
<1> DEFINE l == depositCollateralCall(sender, token, x)
<1>1. l \in Seq(TodoStep) /\ Len(l) = 7 /\ IsDeposit(l, 0, sender, token, x)
  BY DepositList
<1> HIDE DEF l
<1>2. /\ l[1].op = "moreThanZero" /\ l[2].op = "isAllowedToken" /\ l[3].op = "enter"
      /\ l[4].op = "recordDeposit" /\ l[5].op = "transferFrom"
      /\ l[6].op = "transferFromReturned" /\ l[7].op = "leave"
      /\ l[4].token = token /\ l[5].token = token /\ l[6].token = token
      /\ l[4].amount = x /\ l[5].amount = x /\ l[6].amount = x
  BY <1>1, StepFields DEF IsDeposit
<1>3. \A i \in 1 .. 7 : i = 1 \/ i = 2 \/ i = 3 \/ i = 4 \/ i = 5 \/ i = 6 \/ i = 7
  OBVIOUS
<1>4. Chained(l) /\ Begins(l[1])
  <2>1. Linked(l[1], l[2]) /\ Linked(l[2], l[3]) /\ Linked(l[3], l[4]) /\ Linked(l[6], l[7])
    BY <1>2 DEF Linked, Ends, Begins
  <2>2. Linked(l[4], l[5]) /\ Linked(l[5], l[6])
    BY <1>2 DEF Linked, Pairs
  <2>3. Ends(l[7]) /\ Begins(l[1])
    BY <1>2 DEF Ends, Begins
  <2>4. \A i \in 1 .. 7 - 1 : \/ i = 1 /\ i + 1 = 2
                              \/ i = 2 /\ i + 1 = 3
                              \/ i = 3 /\ i + 1 = 4
                              \/ i = 4 /\ i + 1 = 5
                              \/ i = 5 /\ i + 1 = 6
                              \/ i = 6 /\ i + 1 = 7
    OBVIOUS
  <2>5. QED
    BY <1>1, <2>1, <2>2, <2>3, <2>4 DEF Chained
<1>5. Guarded(l) /\ Locked(l) /\ IsOneGuard(l)
  <2>1. \A i \in 1 .. 3 - 1 : i = 1 \/ i = 2
    OBVIOUS
  <2>2. \A i \in 3 + 1 .. 7 - 1 : i = 4 \/ i = 5 \/ i = 6
    OBVIOUS
  <2>3. \A i \in 1 .. 3 - 1 : l[i].op \in FreeOps
    BY <1>2, <2>1 DEF FreeOps
  <2>4. \A i \in 3 + 1 .. 7 - 1 : l[i].op \in GuardedOps
    BY <1>2, <2>2 DEF GuardedOps
  <2>5. 7 \in Nat /\ 3 \in 1 .. 7 /\ 3 < 7
    OBVIOUS
  <2>6. QED
    BY <1>1, <1>2, <2>3, <2>4, <2>5, OneGuard
<1>6. \A i \in 1 .. 7 : l[i].op \notin {"checkHealth", "eraseDeposit", "seize", "sweep"}
  BY <1>2, <1>3
<1>7. /\ places(l, "checkHealth") = {} /\ places(l, "eraseDeposit") = {}
      /\ places(l, "seize") = {} /\ places(l, "sweep") = {}
  BY <1>1, <1>6, NoPlace
<1>8. ChecksCount(l)
  BY <1>1, <1>6 DEF ChecksCount
<1>9. IsCall(l)
  BY <1>1, <1>4, <1>5, <1>7, <1>8 DEF IsCall
<1>10. QED
  BY <1>5, <1>7, <1>9 DEF l

\* redeemCollateral does.
LEMMA RedeemCall ==
  ASSUME NEW sender \in User, NEW token \in Token, NEW x \in Nat
  PROVE  LET l == redeemCollateralCall(sender, token, x)
         IN  IsCall(l) /\ IsOneGuard(l) /\ places(l, "seize") = {}
<1> DEFINE l == redeemCollateralCall(sender, token, x)
<1>1. l \in Seq(TodoStep) /\ Len(l) = 7 /\ IsRedemption(l, 0, sender, token, x)
  BY RedeemList
<1> HIDE DEF l
<1>2. /\ l[1].op = "moreThanZero" /\ l[2].op = "enter" /\ l[3].op = "eraseDeposit"
      /\ l[4].op = "transfer" /\ l[5].op = "transferReturned"
      /\ l[6].op = "checkHealth" /\ l[7].op = "leave"
      /\ l[3].token = token /\ l[4].token = token /\ l[5].token = token
      /\ l[3].amount = x /\ l[4].amount = x /\ l[5].amount = x /\ l[6].amount = 0
      /\ l[3].user = sender /\ l[6].user = sender
  BY <1>1, StepFields DEF IsRedemption
<1>3. \A i \in 1 .. 7 : i = 1 \/ i = 2 \/ i = 3 \/ i = 4 \/ i = 5 \/ i = 6 \/ i = 7
  OBVIOUS
<1>4. Chained(l) /\ Begins(l[1])
  <2>1. Linked(l[1], l[2]) /\ Linked(l[2], l[3]) /\ Linked(l[5], l[6]) /\ Linked(l[6], l[7])
    BY <1>2 DEF Linked, Ends, Begins
  <2>2. Linked(l[3], l[4]) /\ Linked(l[4], l[5])
    BY <1>2 DEF Linked, Pairs
  <2>3. Ends(l[7]) /\ Begins(l[1])
    BY <1>2 DEF Ends, Begins
  <2>4. \A i \in 1 .. 7 - 1 : \/ i = 1 /\ i + 1 = 2
                              \/ i = 2 /\ i + 1 = 3
                              \/ i = 3 /\ i + 1 = 4
                              \/ i = 4 /\ i + 1 = 5
                              \/ i = 5 /\ i + 1 = 6
                              \/ i = 6 /\ i + 1 = 7
    OBVIOUS
  <2>5. QED
    BY <1>1, <2>1, <2>2, <2>3, <2>4 DEF Chained
<1>5. Guarded(l) /\ Locked(l) /\ IsOneGuard(l)
  <2>1. \A i \in 1 .. 2 - 1 : i = 1
    OBVIOUS
  <2>2. \A i \in 2 + 1 .. 7 - 1 : i = 3 \/ i = 4 \/ i = 5 \/ i = 6
    OBVIOUS
  <2>3. \A i \in 1 .. 2 - 1 : l[i].op \in FreeOps
    BY <1>2, <2>1 DEF FreeOps
  <2>4. \A i \in 2 + 1 .. 7 - 1 : l[i].op \in GuardedOps
    BY <1>2, <2>2 DEF GuardedOps
  <2>5. 7 \in Nat /\ 2 \in 1 .. 7 /\ 2 < 7
    OBVIOUS
  <2>6. QED
    BY <1>1, <1>2, <2>3, <2>4, <2>5, OneGuard
<1>6. \A i \in 1 .. 7 : /\ l[i].op \notin {"seize", "sweep"}
                        /\ l[i].op = "checkHealth" => i = 6
                        /\ l[i].op = "eraseDeposit" => i = 3
  BY <1>2, <1>3
<1>7. places(l, "seize") = {} /\ places(l, "sweep") = {}
  BY <1>1, <1>6, NoPlace
<1>8. ChecksCount(l)
  <2>1. \A j \in 6 + 1 .. 7 : j = 7
    OBVIOUS
  <2>2. QED
    BY <1>1, <1>2, <1>6, <2>1 DEF ChecksCount, FinalOps
<1>9. \A i \in places(l, "eraseDeposit") : isChecked(l, i + 1, l[i].user)
  <2>1. 6 \in 3 + 1 .. 7
    OBVIOUS
  <2>2. isChecked(l, 3 + 1, sender)
    BY <1>1, <1>2, <2>1 DEF isChecked
  <2>3. places(l, "eraseDeposit") \subseteq {3}
    BY <1>1, <1>6 DEF places
  <2>4. QED
    BY <1>2, <2>2, <2>3
<1>10. IsCall(l)
  BY <1>1, <1>4, <1>5, <1>7, <1>8, <1>9 DEF IsCall
<1>11. QED
  BY <1>5, <1>7, <1>10 DEF l

\* mintDsc does.
LEMMA MintCall ==
  ASSUME NEW sender \in User, NEW x \in Nat
  PROVE  LET l == mintDscCall(sender, x)
         IN  IsCall(l) /\ IsOneGuard(l) /\ places(l, "seize") = {}
<1> DEFINE l == mintDscCall(sender, x)
<1>1. l \in Seq(TodoStep) /\ Len(l) = 7 /\ IsMint(l, 0, sender, x)
  BY MintList
<1> HIDE DEF l
<1>2. /\ l[1].op = "moreThanZero" /\ l[2].op = "enter" /\ l[3].op = "recordDebt"
      /\ l[4].op = "checkHealth" /\ l[5].op = "mint" /\ l[6].op = "mintReturned"
      /\ l[7].op = "leave"
      /\ l[3].token = ZeroAddress /\ l[4].token = ZeroAddress
      /\ l[5].token = ZeroAddress /\ l[6].token = ZeroAddress
      /\ l[3].amount = x /\ l[4].amount = x /\ l[5].amount = x /\ l[6].amount = x
      /\ l[3].user = sender /\ l[4].user = sender
  BY <1>1, StepFields DEF IsMint
<1>3. \A i \in 1 .. 7 : i = 1 \/ i = 2 \/ i = 3 \/ i = 4 \/ i = 5 \/ i = 6 \/ i = 7
  OBVIOUS
<1>4. Chained(l) /\ Begins(l[1])
  <2>1. Linked(l[1], l[2]) /\ Linked(l[2], l[3]) /\ Linked(l[6], l[7])
    BY <1>2 DEF Linked, Ends, Begins
  <2>2. Linked(l[3], l[4]) /\ Linked(l[4], l[5]) /\ Linked(l[5], l[6])
    BY <1>2 DEF Linked, Pairs
  <2>3. Ends(l[7]) /\ Begins(l[1])
    BY <1>2 DEF Ends, Begins
  <2>4. \A i \in 1 .. 7 - 1 : \/ i = 1 /\ i + 1 = 2
                              \/ i = 2 /\ i + 1 = 3
                              \/ i = 3 /\ i + 1 = 4
                              \/ i = 4 /\ i + 1 = 5
                              \/ i = 5 /\ i + 1 = 6
                              \/ i = 6 /\ i + 1 = 7
    OBVIOUS
  <2>5. QED
    BY <1>1, <2>1, <2>2, <2>3, <2>4 DEF Chained
<1>5. Guarded(l) /\ Locked(l) /\ IsOneGuard(l)
  <2>1. \A i \in 1 .. 2 - 1 : i = 1
    OBVIOUS
  <2>2. \A i \in 2 + 1 .. 7 - 1 : i = 3 \/ i = 4 \/ i = 5 \/ i = 6
    OBVIOUS
  <2>3. \A i \in 1 .. 2 - 1 : l[i].op \in FreeOps
    BY <1>2, <2>1 DEF FreeOps
  <2>4. \A i \in 2 + 1 .. 7 - 1 : l[i].op \in GuardedOps
    BY <1>2, <2>2 DEF GuardedOps
  <2>5. 7 \in Nat /\ 2 \in 1 .. 7 /\ 2 < 7
    OBVIOUS
  <2>6. QED
    BY <1>1, <1>2, <2>3, <2>4, <2>5, OneGuard
<1>6. \A i \in 1 .. 7 : /\ l[i].op \notin {"seize", "sweep", "eraseDeposit"}
                        /\ l[i].op = "checkHealth" => i = 4
  BY <1>2, <1>3
<1>7. places(l, "seize") = {} /\ places(l, "sweep") = {} /\ places(l, "eraseDeposit") = {}
  BY <1>1, <1>6, NoPlace
<1>8. ChecksCount(l)
  <2>1. \A j \in 4 + 1 .. 7 : j = 5 \/ j = 6 \/ j = 7
    OBVIOUS
  <2>2. QED
    BY <1>1, <1>2, <1>6, <2>1 DEF ChecksCount, FinalOps
<1>9. IsCall(l)
  BY <1>1, <1>4, <1>5, <1>7, <1>8 DEF IsCall
<1>10. QED
  BY <1>5, <1>7, <1>9 DEF l

\* burnDsc does.
LEMMA BurnCall ==
  ASSUME NEW sender \in User, NEW x \in Nat
  PROVE  LET l == burnDscCall(sender, x)
         IN  /\ IsCall(l) /\ IsOneGuard(l)
             /\ places(l, "checkHealth") = {} /\ places(l, "eraseDeposit") = {}
             /\ places(l, "seize") = {}
<1> DEFINE l == burnDscCall(sender, x)
<1>1. l \in Seq(TodoStep) /\ Len(l) = 4 /\ IsBurn(l, 0, sender, x)
  BY BurnList
<1> HIDE DEF l
<1>2. /\ l[1].op = "moreThanZero" /\ l[2].op = "eraseDebt" /\ l[3].op = "pullDsc"
      /\ l[4].op = "burn"
      /\ l[2].token = ZeroAddress /\ l[3].token = ZeroAddress /\ l[4].token = ZeroAddress
      /\ l[2].amount = x /\ l[3].amount = x /\ l[4].amount = x
  BY <1>1, StepFields DEF IsBurn
<1>3. \A i \in 1 .. 4 : i = 1 \/ i = 2 \/ i = 3 \/ i = 4
  OBVIOUS
<1>4. Chained(l) /\ Begins(l[1])
  <2>1. Linked(l[1], l[2])
    BY <1>2 DEF Linked, Ends, Begins
  <2>2. Linked(l[2], l[3]) /\ Linked(l[3], l[4])
    BY <1>2 DEF Linked, Pairs
  <2>3. Ends(l[4]) /\ Begins(l[1])
    BY <1>2 DEF Ends, Begins
  <2>4. \A i \in 1 .. 4 - 1 : \/ i = 1 /\ i + 1 = 2
                              \/ i = 2 /\ i + 1 = 3
                              \/ i = 3 /\ i + 1 = 4
    OBVIOUS
  <2>5. QED
    BY <1>1, <2>1, <2>2, <2>3, <2>4 DEF Chained
<1>5. \A i \in 1 .. 4 : l[i].op \in FreeOps
  BY <1>2, <1>3 DEF FreeOps
<1>6. FreeOps \cap (GuardedOps \cup {"enter", "leave"}) = {}
  BY DEF FreeOps, GuardedOps
<1>7. \A i \in 1 .. 4 : /\ l[i].op \notin GuardedOps
                         /\ l[i].op \notin {"enter", "leave", "checkHealth", "eraseDeposit",
                                            "seize", "sweep"}
  BY <1>5, <1>6 DEF FreeOps
<1>8. /\ places(l, "enter") = {} /\ places(l, "leave") = {}
      /\ places(l, "checkHealth") = {} /\ places(l, "eraseDeposit") = {}
      /\ places(l, "seize") = {} /\ places(l, "sweep") = {}
  BY <1>1, <1>7, NoPlace
<1>9. Guarded(l) /\ Locked(l) /\ ChecksCount(l) /\ IsOneGuard(l)
  BY <1>1, <1>5, <1>7, <1>8 DEF Guarded, Locked, ChecksCount, IsOneGuard
<1>10. IsCall(l)
  BY <1>1, <1>4, <1>8, <1>9 DEF IsCall
<1>11. QED
  BY <1>8, <1>9, <1>10 DEF l

\* A liquidation begins with what is seized, and the amount of it is not zero.
BeginsWithSeizure(l) ==
  /\ places(l, "recordDebt") = {}
  /\ \A i \in places(l, "seize") :
       /\ \A j \in 1 .. i - 1 : l[j].op \in {"moreThanZero", "enter"}
       /\ \A j \in i + 1 .. Len(l) : l[j].op \in SettledOps
       /\ \E j \in 1 .. i - 1 : l[j].op = "moreThanZero" /\ l[j].amount = l[i].amount

\* liquidate does, with a seizure.
LEMMA LiquidateCall ==
  ASSUME NEW sender \in User, NEW token \in Token, NEW user \in User, NEW y \in Nat
  PROVE  LET l == liquidateCall(sender, token, user, y)
         IN  IsCall(l) /\ IsOneGuard(l) /\ BeginsWithSeizure(l)
<1> DEFINE l == liquidateCall(sender, token, user, y)
<1>1. l \in Seq(TodoStep) /\ Len(l) = 5 /\ IsLiquidation(l, sender, token, user, y)
  BY LiquidateList
<1> HIDE DEF l
<1>2. /\ l[1].op = "moreThanZero" /\ l[2].op = "enter" /\ l[3].op = "seize"
      /\ l[4].op = "checkHealth" /\ l[5].op = "leave"
      /\ l[1].amount = y /\ l[3].amount = y /\ l[4].amount = 0
  BY <1>1, StepFields DEF IsLiquidation
<1>3. \A i \in 1 .. 5 : i = 1 \/ i = 2 \/ i = 3 \/ i = 4 \/ i = 5
  OBVIOUS
<1>4. Chained(l) /\ Begins(l[1])
  <2>1. Linked(l[1], l[2]) /\ Linked(l[2], l[3]) /\ Linked(l[3], l[4]) /\ Linked(l[4], l[5])
    BY <1>2 DEF Linked, Ends, Begins
  <2>2. Ends(l[5]) /\ Begins(l[1])
    BY <1>2 DEF Ends, Begins
  <2>3. \A i \in 1 .. 5 - 1 : \/ i = 1 /\ i + 1 = 2
                              \/ i = 2 /\ i + 1 = 3
                              \/ i = 3 /\ i + 1 = 4
                              \/ i = 4 /\ i + 1 = 5
    OBVIOUS
  <2>4. QED
    BY <1>1, <2>1, <2>2, <2>3 DEF Chained
<1>5. Guarded(l) /\ Locked(l) /\ IsOneGuard(l)
  <2>1. \A i \in 1 .. 2 - 1 : i = 1
    OBVIOUS
  <2>2. \A i \in 2 + 1 .. 5 - 1 : i = 3 \/ i = 4
    OBVIOUS
  <2>3. \A i \in 1 .. 2 - 1 : l[i].op \in FreeOps
    BY <1>2, <2>1 DEF FreeOps
  <2>4. \A i \in 2 + 1 .. 5 - 1 : l[i].op \in GuardedOps
    BY <1>2, <2>2 DEF GuardedOps
  <2>5. 5 \in Nat /\ 2 \in 1 .. 5 /\ 2 < 5
    OBVIOUS
  <2>6. QED
    BY <1>1, <1>2, <2>3, <2>4, <2>5, OneGuard
<1>6. \A i \in 1 .. 5 : /\ l[i].op \notin {"recordDebt", "sweep", "eraseDeposit"}
                        /\ l[i].op = "checkHealth" => i = 4
                        /\ l[i].op = "seize" => i = 3
  BY <1>2, <1>3
<1>7. /\ places(l, "recordDebt") = {} /\ places(l, "sweep") = {}
      /\ places(l, "eraseDeposit") = {}
  BY <1>1, <1>6, NoPlace
<1>8. ChecksCount(l)
  <2>1. \A j \in 4 + 1 .. 5 : j = 5
    OBVIOUS
  <2>2. QED
    BY <1>1, <1>2, <1>6, <2>1 DEF ChecksCount, FinalOps
<1>9. BeginsWithSeizure(l)
  <2>1. places(l, "seize") \subseteq {3}
    BY <1>1, <1>6 DEF places
  <2>2. 1 \in 1 .. 3 - 1 /\ \A j \in 1 .. 3 - 1 : j = 1 \/ j = 2
    OBVIOUS
  <2>3. \A j \in 3 + 1 .. 5 : j = 4 \/ j = 5
    OBVIOUS
  <2>4. \A j \in 3 + 1 .. 5 : l[j].op \in SettledOps
    BY <1>2, <2>3 DEF SettledOps, FinalOps
  <2>5. QED
    BY <1>1, <1>2, <1>7, <2>1, <2>2, <2>4 DEF BeginsWithSeizure
<1>10. IsCall(l)
  BY <1>1, <1>4, <1>5, <1>7, <1>8 DEF IsCall
<1>11. QED
  BY <1>5, <1>9, <1>10 DEF l

\* What is in neither of two lists is not in both joined.
LEMMA NoPlaceInBoth ==
  ASSUME NEW a \in Seq(TodoStep), NEW b \in Seq(TodoStep), NEW op,
         places(a, op) = {}, places(b, op) = {}
  PROVE  places(a \o b, op) = {}
<1> DEFINE n == Len(a)
           m == Len(b)
           l == a \o b
<1>1. n \in Nat /\ m \in Nat
  OBVIOUS
<1>2. IsJoined(l, a, b, n, m)
  BY Joined
<1> HIDE DEF l, n, m
<1>3. ASSUME NEW i \in 1 .. n + m PROVE l[i].op # op
  <2>1. CASE i \in 1 .. n
    BY <1>2, <2>1 DEF IsJoined, places, n
  <2>2. CASE i \in n + 1 .. n + m
    BY <1>2, <2>2 DEF IsJoined, places, m
  <2>3. QED
    BY <1>1, <2>1, <2>2
<1>4. places(l, op) = {}
  BY <1>2, <1>3 DEF IsJoined, places
<1>5. QED
  BY <1>4 DEF l

\* Every call of the interface begins as a good call outside the guard.
LEMMA CallsAreGood ==
  ASSUME NEW sender \in User, NEW l \in CallsOf(sender)
  PROVE  IsCall(l) /\ Outside(l) /\ (places(l, "seize") = {} \/ BeginsWithSeizure(l))
<1>1. CollateralAmounts \subseteq Nat /\ DscAmounts \subseteq Nat
  BY EngineAssumption, WordsAreNaturals
<1>2. ASSUME NEW k, IsCall(k), IsOneGuard(k), places(k, "seize") = {} \/ BeginsWithSeizure(k)
      PROVE  IsCall(k) /\ Outside(k) /\ (places(k, "seize") = {} \/ BeginsWithSeizure(k))
  BY <1>2, OneGuardIsOutside DEF IsCall
<1>3. ASSUME NEW a, NEW b, IsCall(a), IsCall(b), IsOneGuard(a), IsOneGuard(b),
             places(a, "checkHealth") = {}, places(a, "eraseDeposit") = {},
             places(a, "seize") = {}, places(b, "seize") = {}
      PROVE  IsCall(a \o b) /\ Outside(a \o b) /\ places(a \o b, "seize") = {}
  <2>1. a \in Seq(TodoStep) /\ b \in Seq(TodoStep)
    BY <1>3 DEF IsCall
  <2>2. IsCall(a \o b)
    BY <1>3, TwoCalls
  <2>3. Outside(a \o b)
    BY <1>3, <2>1, TwoGuards
  <2>4. places(a \o b, "seize") = {}
    BY <1>3, <2>1, NoPlaceInBoth
  <2>5. QED
    BY <2>2, <2>3, <2>4
<1>4. CASE \E t \in Token, x \in CollateralAmounts : l = depositCollateralCall(sender, t, x)
  <2>1. PICK t \in Token, x \in Nat : l = depositCollateralCall(sender, t, x)
    BY <1>1, <1>4
  <2>2. QED
    BY <1>2, <2>1, DepositCall
<1>5. CASE \E t \in Token, x \in CollateralAmounts : l = redeemCollateralCall(sender, t, x)
  <2>1. PICK t \in Token, x \in Nat : l = redeemCollateralCall(sender, t, x)
    BY <1>1, <1>5
  <2>2. QED
    BY <1>2, <2>1, RedeemCall
<1>6. CASE \E x \in DscAmounts : l = mintDscCall(sender, x)
  <2>1. PICK x \in Nat : l = mintDscCall(sender, x)
    BY <1>1, <1>6
  <2>2. QED
    BY <1>2, <2>1, MintCall
<1>7. CASE \E x \in DscAmounts : l = burnDscCall(sender, x)
  <2>1. PICK x \in Nat : l = burnDscCall(sender, x)
    BY <1>1, <1>7
  <2>2. QED
    BY <1>2, <2>1, BurnCall
<1>8. CASE \E t \in Token, x \in CollateralAmounts, y \in DscAmounts :
             l = depositCollateralCall(sender, t, x) \o mintDscCall(sender, y)
  <2>1. PICK t \in Token, x \in Nat, y \in Nat :
          l = depositCollateralCall(sender, t, x) \o mintDscCall(sender, y)
    BY <1>1, <1>8
  <2>2. QED
    BY <1>3, <2>1, DepositCall, MintCall
<1>9. CASE \E t \in Token, x \in CollateralAmounts, y \in DscAmounts :
             l = burnDscCall(sender, y) \o redeemCollateralCall(sender, t, x)
  <2>1. PICK t \in Token, x \in Nat, y \in Nat :
          l = burnDscCall(sender, y) \o redeemCollateralCall(sender, t, x)
    BY <1>1, <1>9
  <2>2. QED
    BY <1>3, <2>1, BurnCall, RedeemCall
<1>10. CASE \E t \in Token, u \in User, y \in DscAmounts : l = liquidateCall(sender, t, u, y)
  <2>1. PICK t \in Token, u \in User, y \in Nat : l = liquidateCall(sender, t, u, y)
    BY <1>1, <1>10
  <2>2. QED
    BY <1>2, <2>1, LiquidateCall
<1>11. QED
  BY <1>4, <1>5, <1>6, <1>7, <1>8, <1>9, <1>10 DEF CallsOf

\* Nothing is due before a call.
LEMMA NothingIsDue ==
  ASSUME NEW c, NEW l, IsCall(l)
  PROVE  gapDue(l) = 0 /\ \A t : surplusDue(c, l, t) = 0
<1>1. Len(l) \in Nat \ {0} /\ Begins(l[1]) /\ l[1] \in TodoStep
  <2>1. Len(l) \in Nat \ {0} /\ Begins(l[1]) /\ l \in Seq(TodoStep)
    BY DEF IsCall
  <2>2. 1 \in 1 .. Len(l)
    BY <2>1
  <2>3. QED
    BY <2>1, <2>2
<1>2. gapBefore(l[1]) = 0 /\ \A t : surplusBefore(c, l[1], t) = 0
  BY <1>1, DueIsPassedOn
<1>3. QED
  BY <1>1, <1>2 DEF gapDue, surplusDue

\* A transaction begins.
LEMMA RunningBegins ==
  ASSUME NEW c, NEW s, AtRest(s), NEW sender \in User, NEW l \in CallsOf(sender)
  PROVE  Running(c, s, s, l)
<1>1. IsCall(l) /\ Outside(l) /\ (places(l, "seize") = {} \/ BeginsWithSeizure(l))
  BY CallsAreGood
<1>2. TablesOK(s) /\ s.status = NOT_ENTERED
  BY DEF AtRest
<1>3. GoodTodo(l)
  BY <1>1 DEF IsCall, GoodTodo
<1>4. /\ \A t \in Token : surplusAt(s, t) = surplusAt(s, t) + surplusDue(c, l, t)
      /\ gapAt(s) = gapAt(s) + gapDue(l)
  BY <1>1, <1>2, NothingIsDue, SurplusType
<1>5. ASSUME NEW u \in User PROVE Excused(c, s, s, l, u)
  <2>1. s.minted[u] \in Nat /\ \A t \in Token : s.deposited[u][t] \in Nat
    BY <1>2, StorageTypes DEF TablesOK
  <2>2. isSafer(s, s, u)
    BY <2>1 DEF isSafer
  <2>3. QED
    BY <2>2 DEF Excused
<1>6. TakingIsExcused(c, s, s, l)
  <2>1. ASSUME NEW i \in 1 .. Len(l), l[i].op \in {"eraseDeposit", "sweep"}
        PROVE  isChecked(l, i + 1, l[i].user)
    <3>1. i \in places(l, l[i].op)
      BY DEF places
    <3>2. QED
      BY <1>1, <2>1, <3>1 DEF IsCall
  <2>2. QED
    BY <2>1 DEF TakingIsExcused
<1>7. SeizureComesFirst(s, s, l)
  BY <1>1 DEF SeizureComesFirst, BeginsWithSeizure
<1>8. QED
  BY <1>1, <1>2, <1>3, <1>4, <1>5, <1>6, <1>7 DEF Running

\* And so does a call inside a call.
LEMMA NestedBegins ==
  ASSUME NEW s, TablesOK(s), s.status = ENTERED, NEW sender \in User, NEW l \in CallsOf(sender)
  PROVE  Nested(s, s, l)
<1>1. IsCall(l) /\ Outside(l)
  BY CallsAreGood
<1>2. gapAt(s) = gapAt(s) + gapDue(l)
  BY <1>1, NothingIsDue, SurplusType
<1>3. \A u \in User : s.minted[u] <= s.minted[u]
  BY StorageTypes DEF TablesOK
<1>4. QED
  BY <1>1, <1>2, <1>3 DEF IsCall, Nested

\* What calls back is guarded.
LEMMA CallBackIsInside ==
  ASSUME NEW todo \in Seq(TodoStep), CallsBack(todo), Guarded(todo)
  PROVE  ~ Outside(todo)
<1>1. Len(todo) \in Nat /\ 1 \in 1 .. Len(todo) /\ todo[1].op \in GuardedOps
  BY DEF CallsBack, GuardedOps
<1>2. PICK p \in 2 .. Len(todo) : todo[p].op = "leave" /\ \A k \in 1 .. p : todo[k].op # "enter"
  <2>1. 1 + 1 = 2
    OBVIOUS
  <2>2. QED
    BY <1>1, <2>1 DEF Guarded
<1>3. p \in places(todo, "leave") /\ \A k \in 1 .. p : k \notin places(todo, "enter")
  BY <1>1, <1>2 DEF places
<1>4. SUFFICES ASSUME Outside(todo) PROVE FALSE
  OBVIOUS
<1>5. PICK i, j \in 1 .. Len(todo) : /\ i < j /\ i \in places(todo, "enter")
                                     /\ \A k \in places(todo, "leave") : k >= j
  <2>1. ~ (places(todo, "enter") = {} /\ places(todo, "leave") = {})
    BY <1>3
  <2>2. CASE \E i, j \in 1 .. Len(todo) :
               /\ i < j /\ places(todo, "enter") = {i} /\ places(todo, "leave") = {j}
    BY <1>1, <2>2
  <2>3. CASE \E i, j, k, l \in 1 .. Len(todo) :
               /\ i < j /\ j < k /\ k < l
               /\ places(todo, "enter") = {i, k} /\ places(todo, "leave") = {j, l}
    BY <1>1, <2>3
  <2>4. QED
    BY <1>4, <2>1, <2>2, <2>3 DEF Outside
<1>6. p >= j
  BY <1>3, <1>5
<1>7. i \in 1 .. p
  BY <1>1, <1>2, <1>5, <1>6
<1>8. QED
  BY <1>3, <1>5, <1>7

-----------------------------------------------------------------------------
(* Transactions begin and end *)

\* A frame on top of the stack.
LEMMA FrameOnTop ==
  ASSUME NEW x \in Frame, NEW f \in Seq(Frame)
  PROVE  LET g == <<x>> \o f
         IN  /\ g \in Seq(Frame) /\ Len(g) = Len(f) + 1 /\ g[1] = x
             /\ Len(f) = 1 => g[2] = f[1]
<1>1. <<x>> \in Seq(Frame) /\ Len(<<x>>) = 1 /\ <<x>>[1] = x
  OBVIOUS
<1> DEFINE a == <<x>>
<1> HIDE DEF a
<1>2. a \in Seq(Frame) /\ Len(a) = 1 /\ a[1] = x
  BY <1>1 DEF a
<1> DEFINE n == Len(f)
           g == a \o f
<1>3. n \in Nat
  OBVIOUS
<1>4. g \in Seq(Frame) /\ Len(g) = Len(a) + n
  BY <1>2, ConcatProperties
<1>5. \A i \in 1 .. Len(a) + n : g[i] = IF i <= Len(a) THEN a[i] ELSE f[i - Len(a)]
  BY <1>2, ConcatProperties
<1> HIDE DEF n, g
<1>6. Len(g) = n + 1 /\ g[1] = x
  BY <1>2, <1>3, <1>4, <1>5
<1>7. n = 1 => g[2] = f[1]
  BY <1>2, <1>5
<1>8. QED
  BY <1>4, <1>6, <1>7 DEF a, n, g

\* The frame of a new call.
LEMMA CallFrame ==
  ASSUME NEW sender \in User, NEW l \in CallsOf(sender), storage \in Storage
  PROVE  LET x == [sender |-> sender, todo |-> l, entry |-> storage]
         IN  x \in Frame /\ x.todo = l /\ x.entry = storage
<1>1. l \in Seq(TodoStep)
  BY CallsAreGood DEF IsCall
<1>2. QED
  BY <1>1 DEF Frame

\* A transaction begins.
LEMMA BeginIInv ==
  ASSUME CallsIInv, NEW sender \in User, Begin(sender)
  PROVE  CallsIInv'
<1>1. /\ frames = <<>> /\ UNCHANGED <<vars, _status, faults>>
  BY DEF Begin
<1>2. PICK l \in CallsOf(sender) :
        frames' = <<[sender |-> sender, todo |-> l, entry |-> storage]>> \o frames
  BY DEF Begin, Call
<1>3. Len(frames) = 0 /\ AtRest(storage) /\ frames \in Seq(Frame)
  BY <1>1 DEF CallsIInv
<1>4. storage \in Storage
  BY <1>3 DEF AtRest, TablesOK
<1> DEFINE x == [sender |-> sender, todo |-> l, entry |-> storage]
<1>5. x \in Frame /\ x.todo = l /\ x.entry = storage
  BY <1>4, CallFrame
<1>6. frames' = <<x>> \o frames
  BY <1>2
<1> HIDE DEF x
<1>7. frames' \in Seq(Frame) /\ Len(frames') = 1 /\ frames'[1] = x
  BY <1>3, <1>5, <1>6, FrameOnTop
<1>8. storage' = storage /\ context' = context /\ OracleTypeOK' /\ dscOwner' = Engine
  BY <1>1 DEF storage, context, CallsIInv, OracleTypeOK, vars, engineVars, collateralVars,
              dscLedger, dscVars, oracleVars
<1>9. Running(context, storage, storage, l)
  BY <1>3, RunningBegins
<1>10. QED
  BY <1>3, <1>5, <1>7, <1>8, <1>9 DEF CallsIInv

\* A token calls back.
LEMMA CallBackIInv ==
  ASSUME CallsIInv, NEW sender \in User, CallBack(sender)
  PROVE  CallsIInv'
<1>1. /\ UNCHANGED <<vars, _status, faults>>
      /\ \E op \in {"transferFrom", "transferFromReturned", "transfer", "transferReturned"} :
           AtStep(op)
  BY DEF CallBack
<1>2. PICK l \in CallsOf(sender) :
        frames' = <<[sender |-> sender, todo |-> l, entry |-> storage]>> \o frames
  BY DEF CallBack, Call
<1>3. PICK op \in {"transferFrom", "transferFromReturned", "transfer", "transferReturned"} :
        AtStep(op)
  BY <1>1
<1>4. /\ Len(frames) \in 1 .. 2 /\ frames \in Seq(Frame)
      /\ frames[1].todo \in Seq(TodoStep) /\ frames[1].todo # <<>>
      /\ frames[1].todo[1].op = op /\ TablesOK(storage)
  BY <1>3, NextStep
<1>5. Len(frames[1].todo) \in Nat \ {0} /\ CallsBack(frames[1].todo)
  BY <1>3, <1>4 DEF CallsBack
<1>6. Len(frames) = 1
  <2>1. SUFFICES ASSUME Len(frames) = 2 PROVE FALSE
    BY <1>4
  <2>2. Locked(frames[1].todo)
    BY <2>1 DEF CallsIInv, Nested
  <2>3. frames[1].todo[1].op \notin FreeOps /\ 1 \in 1 .. Len(frames[1].todo)
    BY <1>3, <1>4, <1>5 DEF FreeOps
  <2>4. PICK j \in 1 .. 1 : frames[1].todo[j].op = "enter"
    BY <2>2, <2>3 DEF Locked
  <2>5. frames[1].todo[1].op = "enter"
    BY <2>4
  <2>6. QED
    BY <1>3, <1>4, <2>5
<1>7. /\ AtRest(frames[1].entry)
      /\ Running(context, storage, frames[1].entry, frames[1].todo)
  BY <1>6 DEF CallsIInv
<1>8. storage.status = ENTERED
  <2>1. ~ Outside(frames[1].todo)
    BY <1>4, <1>5, <1>7, CallBackIsInside DEF Running, GoodTodo
  <2>2. QED
    BY <1>7, <2>1 DEF Running
<1>9. storage \in Storage
  BY <1>4 DEF TablesOK
<1> DEFINE x == [sender |-> sender, todo |-> l, entry |-> storage]
<1>10. x \in Frame /\ x.todo = l /\ x.entry = storage
  BY <1>9, CallFrame
<1>11. frames' = <<x>> \o frames
  BY <1>2
<1> HIDE DEF x
<1>12. frames' \in Seq(Frame) /\ Len(frames') = 2 /\ frames'[1] = x /\ frames'[2] = frames[1]
  <2>1. /\ frames' \in Seq(Frame) /\ Len(frames') = Len(frames) + 1 /\ frames'[1] = x
        /\ Len(frames) = 1 => frames'[2] = frames[1]
    BY <1>4, <1>10, <1>11, FrameOnTop
  <2>2. QED
    BY <1>6, <2>1
<1>13. storage' = storage /\ context' = context /\ OracleTypeOK' /\ dscOwner' = Engine
  BY <1>1 DEF storage, context, CallsIInv, OracleTypeOK, vars, engineVars, collateralVars,
              dscLedger, dscVars, oracleVars
<1>14. Nested(storage, storage, l)
  BY <1>4, <1>8, NestedBegins
<1>15. QED
  BY <1>5, <1>7, <1>10, <1>12, <1>13, <1>14 DEF CallsIInv

\* A transaction that is over leaves everything at rest.
LEMMA RunningEnds ==
  ASSUME NEW c, NEW s, NEW e, AtRest(e), Running(c, s, e, <<>>)
  PROVE  AtRest(s)
<1>1. Len(<<>>) = 0 /\ 1 .. 0 = {}
  OBVIOUS
<1>2. s.status = NOT_ENTERED
  BY <1>1 DEF Running, Inside
<1>3. TablesOK(s) /\ TablesOK(e)
  BY DEF Running, AtRest
<1>4. ASSUME NEW t \in Token PROVE surplusAt(s, t) >= 0
  <2>1. surplusDue(c, <<>>, t) = 0
    BY <1>1 DEF surplusDue
  <2>2. surplusAt(s, t) = surplusAt(e, t) + 0
    BY <2>1 DEF Running
  <2>3. surplusAt(e, t) \in Int /\ surplusAt(e, t) >= 0
    BY <1>3, SurplusType DEF AtRest
  <2>4. QED
    BY <2>2, <2>3
<1>5. gapAt(s) >= 0
  <2>1. gapDue(<<>>) = 0
    BY <1>1 DEF gapDue
  <2>2. gapAt(s) = gapAt(e) + 0
    BY <2>1 DEF Running
  <2>3. gapAt(e) \in Int /\ gapAt(e) >= 0
    BY <1>3, SurplusType DEF AtRest
  <2>4. QED
    BY <2>2, <2>3
<1>6. QED
  BY <1>2, <1>3, <1>4, <1>5 DEF AtRest

\* A call returns.
LEMMA ReturnIInv == CallsIInv /\ Return => CallsIInv'
<1>1. SUFFICES ASSUME CallsIInv, Return PROVE CallsIInv'
  OBVIOUS
<1>2. /\ frames # <<>> /\ frames[1].todo = <<>> /\ frames' = Tail(frames)
      /\ UNCHANGED <<vars, _status, faults>>
  BY <1>1 DEF Return
<1>3. frames \in Seq(Frame) /\ Len(frames) \in 1 .. 2
  BY <1>1, <1>2 DEF CallsIInv
<1>4. /\ frames' \in Seq(Frame) /\ Len(frames') = Len(frames) - 1
      /\ Len(frames) = 2 => frames'[1] = frames[2]
  BY <1>2, <1>3
<1>5. storage' = storage /\ context' = context /\ OracleTypeOK' /\ dscOwner' = Engine
  BY <1>1, <1>2 DEF storage, context, CallsIInv, OracleTypeOK, vars, engineVars, collateralVars,
                    dscLedger, dscVars, oracleVars
<1>6. CASE Len(frames) = 1
  <2>1. AtRest(frames[1].entry) /\ Running(context, storage, frames[1].entry, <<>>)
    BY <1>1, <1>2, <1>6 DEF CallsIInv
  <2>2. AtRest(storage)
    BY <2>1, RunningEnds
  <2>3. QED
    BY <1>4, <1>5, <1>6, <2>2 DEF CallsIInv
<1>7. CASE Len(frames) = 2
  <2>1. /\ AtRest(frames[2].entry)
        /\ Running(context, frames[1].entry, frames[2].entry, frames[2].todo)
        /\ CallsBack(frames[2].todo)
        /\ Nested(storage, frames[1].entry, <<>>)
    BY <1>1, <1>2, <1>7 DEF CallsIInv
  <2>2. frames[2].todo \in Seq(TodoStep)
    <3>1. frames[2] \in Frame
      BY SMTT(30), <1>3, <1>7
    <3>2. QED
      BY <3>1 DEF Frame
  <2>3. Running(context, storage, frames[2].entry, frames[2].todo)
    BY <2>1, <2>2, NestedReturns
  <2>4. QED
    BY <1>4, <1>5, <1>7, <2>1, <2>3 DEF CallsIInv
<1>8. QED
  BY <1>3, <1>6, <1>7

\* A revert gives back the storage of the beginning.
LEMMA RestoreStorage ==
  ASSUME NEW e \in Storage, Restore(e)
  PROVE  storage' = e
<1>1. e = [deposited |-> e.deposited, minted |-> e.minted, balances |-> e.balances,
           allowances |-> e.allowances, dsc |-> e.dsc, answer |-> e.answer, status |-> e.status]
  BY DEF Storage
<1>2. e.dsc = <<e.dsc[1], e.dsc[2], e.dsc[3]>>
  <2>1. e.dsc \in [Holder -> Word] \X [Holder -> [Holder -> Word]] \X Word
    BY DEF Storage
  <2>2. QED
    BY <2>1
<1>3. /\ storage' = [deposited |-> e.deposited, minted |-> e.minted, balances |-> e.balances,
                     allowances |-> e.allowances, dsc |-> <<e.dsc[1], e.dsc[2], e.dsc[3]>>,
                     answer |-> e.answer, status |-> e.status]
  BY DEF Restore, storage, dscLedger
<1>4. QED
  BY <1>1, <1>2, <1>3

\* A revert keeps the invariant.
LEMMA RevertIInv == CallsIInv /\ Revert => CallsIInv'
<1>1. SUFFICES ASSUME CallsIInv, Revert PROVE CallsIInv'
  OBVIOUS
<1>2. PICK failed \in DOMAIN frames :
        /\ Restore(frames[failed].entry)
        /\ frames' = SubSeq(frames, failed + 1, Len(frames))
        /\ UNCHANGED <<dscOwner, updatedAt, now, faults>>
  BY <1>1 DEF Revert, outside
<1>3. frames \in Seq(Frame) /\ Len(frames) \in 0 .. 2
  BY <1>1 DEF CallsIInv
<1>4. failed \in 1 .. Len(frames) /\ Len(frames) \in 1 .. 2
  BY <1>2, <1>3
<1>5. /\ frames' \in Seq(Frame) /\ Len(frames') = Len(frames) - failed
      /\ Len(frames) = 2 /\ failed = 1 => frames'[1] = frames[2]
  BY <1>2, <1>3, <1>4
<1> DEFINE e == frames[failed].entry
<1>6. e \in Storage
  <2>1. frames[failed] \in Frame
    BY <1>3, <1>4
  <2>2. QED
    BY <2>1 DEF Frame
<1> HIDE DEF e
<1>7. storage' = e
  BY <1>2, <1>6, RestoreStorage DEF e
<1>8. context' = context /\ dscOwner' = Engine /\ OracleTypeOK'
  <2>1. answer' \in [Feed -> Int]
    BY <1>6, <1>7, StorageFields DEF Storage
  <2>2. QED
    BY <1>1, <1>2, <2>1 DEF context, CallsIInv, OracleTypeOK
<1>9. CASE failed = Len(frames)
  <2>1. AtRest(e)
    BY <1>1, <1>4, <1>9 DEF CallsIInv, e
  <2>2. Len(frames') = 0
    BY <1>4, <1>5, <1>9
  <2>3. QED
    BY <1>5, <1>7, <1>8, <2>1, <2>2 DEF CallsIInv
<1>10. CASE failed = 1 /\ Len(frames) = 2
  <2>1. /\ AtRest(frames[2].entry)
        /\ Running(context, e, frames[2].entry, frames[2].todo)
    BY <1>1, <1>10 DEF CallsIInv, e
  <2>2. Len(frames') = 1 /\ frames'[1] = frames[2]
    BY <1>5, <1>10
  <2>3. /\ AtRest(frames'[1].entry)
        /\ Running(context', storage', frames'[1].entry, frames'[1].todo)
    BY <1>7, <1>8, <2>1, <2>2
  <2>4. frames' \in Seq(Frame)
    BY <1>5
  <2>5. Len(frames') = 1 /\ 1 # 0 /\ 1 # 2 /\ 1 \in 0 .. 2
    BY <2>2
  <2>6. QED
    BY <1>8, <2>3, <2>4, <2>5 DEF CallsIInv
<1>11. CASE Len(frames) = 1
  <2>1. failed = Len(frames)
    BY <1>4, <1>11
  <2>2. QED
    BY <1>9, <2>1
<1>12. CASE Len(frames) = 2
  <2>1. failed = 1 \/ failed = Len(frames)
    BY <1>4, <1>12
  <2>2. QED
    BY <1>9, <1>10, <1>12, <2>1
<1>13. QED
  BY <1>4, <1>11, <1>12

-----------------------------------------------------------------------------
(* The invariant *)

\* Between two transactions the invariant is that of the atomic engine.
LEMMA RestIsBooks ==
  ASSUME AtRest(storage), OracleTypeOK, dscOwner = Engine
  PROVE  IInv
<1>1. TablesOK(storage) /\ storage.deposited = s_collateralDeposited
      /\ storage.balances = collateralBalances /\ storage.minted = s_DscMinted
      /\ storage.dsc[3] = dscTotalSupply
  BY StorageFields DEF AtRest
<1>2. CollateralBooks
  <2>1. ASSUME NEW t \in Token PROVE totalDeposited(t) <= collateralBalances[t][Engine]
    <3>1. collateralBalances[t][Engine] - columnTotal(s_collateralDeposited, t) >= 0
      BY <1>1 DEF AtRest, surplusAt
    <3>2. columnTotal(s_collateralDeposited, t) \in Nat
      BY <1>1, StorageIsTyped, ColumnTotalType
    <3>3. collateralBalances[t][Engine] \in Nat
      BY <1>1, StorageIsTyped, Accounts, WordsAreNaturals
    <3>4. QED
      BY <3>1, <3>2, <3>3, DepositsAreColumns
  <2>2. QED
    BY <1>1, <2>1, StorageIsTyped DEF CollateralBooks, CollateralBacked
<1>3. DscBooks
  <2>1. DscBackedByDebt
    <3>1. SumFunction(s_DscMinted) - dscTotalSupply >= 0
      BY <1>1 DEF AtRest, gapAt
    <3>2. SumFunction(s_DscMinted) \in Nat
      <4>1. s_DscMinted \in [User -> Nat] /\ IsFiniteSet(User)
        BY <1>1, StorageIsTyped, Accounts, WordsAreNaturals
      <4>2. QED
        BY <4>1, SumType
    <3>3. dscTotalSupply \in Nat
      BY <1>1, StorageIsTyped, WordsAreNaturals
    <3>4. QED
      BY <3>1, <3>2, <3>3 DEF DscBackedByDebt, totalDebt
  <2>2. QED
    BY <1>1, <2>1, StorageIsTyped DEF DscBooks
<1>4. QED
  BY <1>2, <1>3 DEF IInv

\* Where the books of the atomic engine hold and the flag is down, nothing is due.
LEMMA BooksAreRest == IInv /\ _status = NOT_ENTERED => AtRest(storage)
<1>1. SUFFICES ASSUME IInv, _status = NOT_ENTERED PROVE AtRest(storage)
  OBVIOUS
<1>2. /\ s_collateralDeposited \in [User -> [Token -> Word]]
      /\ s_DscMinted \in [User -> Word]
      /\ collateralBalances \in [Token -> [Holder -> Word]]
      /\ collateralAllowances \in [Token -> [User -> [{Engine} -> Word]]]
      /\ dscBalances \in [Holder -> Word]
      /\ dscAllowances \in [Holder -> [Holder -> Word]]
      /\ dscTotalSupply \in Word /\ dscTotalSupply = SumFunction(dscBalances)
      /\ answer \in [Feed -> Int] /\ _status \in {NOT_ENTERED, ENTERED}
      /\ \A t \in Token : SumFunction(collateralBalances[t]) \in Word
  BY <1>1 DEF IInv, CollateralBooks, DscBooks, OracleTypeOK
<1>3. TablesOK(storage)
  <2>1. storage \in Storage
    BY <1>2 DEF storage, Storage, dscLedger
  <2>2. QED
    BY <1>2, <2>1, StorageFields DEF TablesOK
<1>4. ASSUME NEW t \in Token PROVE surplusAt(storage, t) >= 0
  <2>1. columnTotal(s_collateralDeposited, t) <= collateralBalances[t][Engine]
    BY <1>1, DepositsAreColumns DEF IInv, CollateralBooks, CollateralBacked
  <2>2. columnTotal(s_collateralDeposited, t) \in Nat
    BY <1>2, ColumnTotalType
  <2>3. collateralBalances[t][Engine] \in Nat
    BY <1>2, Accounts, WordsAreNaturals
  <2>4. QED
    BY <2>1, <2>2, <2>3, StorageFields DEF surplusAt
<1>5. gapAt(storage) >= 0
  <2>1. dscTotalSupply <= SumFunction(s_DscMinted)
    BY <1>1 DEF IInv, DscBooks, DscBackedByDebt, totalDebt
  <2>2. SumFunction(s_DscMinted) \in Nat /\ dscTotalSupply \in Nat
    <3>1. s_DscMinted \in [User -> Nat] /\ IsFiniteSet(User)
      BY <1>2, Accounts, WordsAreNaturals
    <3>2. QED
      BY <1>2, <3>1, SumType, WordsAreNaturals
  <2>3. QED
    BY <2>1, <2>2, StorageFields DEF gapAt
<1>6. QED
  BY <1>1, <1>3, <1>4, <1>5, StorageFields DEF AtRest

\* Transfers and new prices.
LEMMA BetweenBooks ==
  ASSUME CallsIInv, Between
  PROVE  /\ frames = <<>> /\ frames' = <<>> /\ _status = NOT_ENTERED /\ _status' = NOT_ENTERED
         /\ AtRest(storage) /\ AtRest(storage') /\ IInv /\ IInv'
         /\ UNCHANGED engineVars
         /\ \A t \in Token : surplusAt(storage', t) >= surplusAt(storage, t)
         /\ gapAt(storage') >= gapAt(storage)
<1>1. /\ frames = <<>> /\ frames' = <<>> /\ Len(<<>>) = 0 /\ _status' = _status
      /\ FeedStep \/ \E sender \in User : TokenStep(sender)
  BY DEF Between
<1>2. AtRest(storage)
  BY <1>1 DEF CallsIInv
<1>3. IInv
  BY <1>2, RestIsBooks DEF CallsIInv
<1>4. _status = NOT_ENTERED
  BY <1>2, StorageFields DEF AtRest
<1>5. /\ IInv' /\ UNCHANGED engineVars
      /\ \A t \in Token : surplus(t)' >= surplus(t) \/ surplus(t)' = surplus(t)
      /\ gap' >= gap \/ gap' = gap
  <2>1. CASE FeedStep
    BY <1>3, <2>1, FeedStepBooks DEF BooksKept
  <2>2. ASSUME NEW sender \in User, TokenStep(sender)
        PROVE  /\ IInv' /\ UNCHANGED engineVars
               /\ \A t \in Token : surplus(t)' >= surplus(t)
               /\ gap' >= gap
    BY <1>3, <2>2, TokenStepBooks
  <2>3. QED
    BY <1>1, <2>1, <2>2
<1>6. AtRest(storage')
  <2>1. (IInv /\ _status = NOT_ENTERED => AtRest(storage))'
    BY BooksAreRest, PTL
  <2>2. QED
    BY <1>1, <1>4, <1>5, <2>1
<1>7. /\ \A t \in Token : /\ surplus(t) = surplusAt(storage, t)
                          /\ surplus(t)' = surplusAt(storage', t)
      /\ gap = gapAt(storage) /\ gap' = gapAt(storage')
  BY StorageFields, DepositsAreColumns DEF surplus, surplusAt, gap, gapAt, totalDebt
<1>8. /\ \A t \in Token : surplusAt(storage, t) \in Int /\ surplusAt(storage', t) \in Int
      /\ gapAt(storage) \in Int /\ gapAt(storage') \in Int
  BY <1>2, <1>6, SurplusType DEF AtRest
<1>9. /\ \A t \in Token : surplusAt(storage', t) >= surplusAt(storage, t)
      /\ gapAt(storage') >= gapAt(storage)
  BY <1>5, <1>7, <1>8
<1>10. QED
  BY <1>1, <1>2, <1>3, <1>4, <1>5, <1>6, <1>9

\* What happens between transactions keeps it.
LEMMA BetweenIInv == CallsIInv /\ Between => CallsIInv'
<1>1. SUFFICES ASSUME CallsIInv, Between PROVE CallsIInv'
  OBVIOUS
<1>2. frames' = <<>> /\ AtRest(storage') /\ IInv'
  BY <1>1, BetweenBooks
<1>3. <<>> \in Seq(Frame) /\ Len(<<>>) = 0
  OBVIOUS
<1>4. OracleTypeOK' /\ dscOwner' = Engine
  BY <1>2 DEF IInv, DscBooks
<1>5. QED
  BY <1>2, <1>3, <1>4 DEF CallsIInv

\* It holds at first.
LEMMA CallsInitIInv == CallsInit => CallsIInv
<1>1. SUFFICES ASSUME CallsInit PROVE CallsIInv
  OBVIOUS
<1>2. IInv /\ _status = NOT_ENTERED /\ frames = <<>>
  BY <1>1, InitIInv DEF CallsInit
<1>3. AtRest(storage)
  BY <1>2, BooksAreRest
<1>4. <<>> \in Seq(Frame) /\ Len(<<>>) = 0
  OBVIOUS
<1>5. OracleTypeOK /\ dscOwner = Engine
  BY <1>2 DEF IInv, DscBooks
<1>6. QED
  BY <1>2, <1>3, <1>4, <1>5 DEF CallsIInv

\* What none of the contracts' variables changes keeps the invariant.
LEMMA CallsStutterIInv == CallsIInv /\ UNCHANGED callsVars => CallsIInv'
<1>1. SUFFICES ASSUME CallsIInv, UNCHANGED callsVars PROVE CallsIInv'
  OBVIOUS
<1>2. storage' = storage /\ context' = context /\ OracleTypeOK' /\ dscOwner' = Engine
      /\ frames' = frames
  BY <1>1 DEF callsVars, storage, context, CallsIInv, OracleTypeOK, vars, engineVars,
              collateralVars, dscLedger, dscVars, oracleVars
<1>3. QED
  BY <1>1, <1>2 DEF CallsIInv

\* Every step keeps it.
LEMMA CallsNextIInv == CallsIInv /\ [CallsNext]_callsVars => CallsIInv'
<1>1. SUFFICES ASSUME CallsIInv, CallsNext PROVE CallsIInv'
  BY CallsStutterIInv
<1>2. CASE Check
  BY <1>1, <1>2, CheckIInv
<1>3. CASE Enter \/ Leave
  BY <1>1, <1>3, GuardIInv
<1>4. CASE ChangeDeposit
  BY <1>1, <1>4, ChangeDepositIInv
<1>5. CASE ChangeDebt
  BY <1>1, <1>5, ChangeDebtIInv
<1>6. CASE Seize
  BY <1>1, <1>6, SeizeIInv
<1>7. CASE Sweep
  BY <1>1, <1>7, SweepIInv
<1>8. CASE PullCollateral \/ PushCollateral
  BY <1>1, <1>8, CollateralTransferIInv
<1>9. CASE MintTokens
  BY <1>1, <1>9, MintTokensIInv
<1>10. CASE PullDsc
  BY <1>1, <1>10, PullDscIInv
<1>11. CASE BurnTokens
  BY <1>1, <1>11, BurnTokensIInv
<1>12. CASE Return
  BY <1>1, <1>12, ReturnIInv
<1>13. CASE Revert
  BY <1>1, <1>13, RevertIInv
<1>14. CASE \E sender \in User : Begin(sender)
  BY <1>1, <1>14, BeginIInv
<1>15. CASE \E sender \in User : CallBack(sender)
  BY <1>1, <1>15, CallBackIInv
<1>16. CASE Between
  BY <1>1, <1>16, BetweenIInv
<1>17. QED
  BY <1>1, <1>2, <1>3, <1>4, <1>5, <1>6, <1>7, <1>8, <1>9, <1>10, <1>11, <1>12, <1>13,
     <1>14, <1>15, <1>16 DEF CallsNext

\* It always holds.
LEMMA CallsInvariance == CallsSpec => []CallsIInv
<1>1. QED
  BY CallsInitIInv, CallsNextIInv, PTL DEF CallsSpec

-----------------------------------------------------------------------------
(* The guard *)

\* In or out: a list that has left more often than it will enter is inside.
LEMMA InsideCounts ==
  ASSUME NEW todo, Len(todo) \in Nat
  PROVE  /\ Outside(todo) => ~ (Cardinality(places(todo, "leave")) > Cardinality(places(todo, "enter")))
         /\ Inside(todo) => Cardinality(places(todo, "leave")) > Cardinality(places(todo, "enter"))
<1> DEFINE In == places(todo, "enter")
           Out == places(todo, "leave")
<1>1. ASSUME NEW S, S = {} PROVE Cardinality(S) = 0
  BY <1>1, FS_EmptySet
<1>2. ASSUME NEW S, NEW i, S = {i} PROVE Cardinality(S) = 1
  BY <1>2, FS_Singleton
<1>3. ASSUME NEW S, NEW i, NEW j, i # j, S = {i, j} PROVE Cardinality(S) = 2
  <2>1. IsFiniteSet({i}) /\ Cardinality({i}) = 1 /\ j \notin {i} /\ S = {i} \cup {j}
    BY <1>3, FS_Singleton
  <2>2. Cardinality({i} \cup {j}) = Cardinality({i}) + 1
    BY <2>1, FS_AddElement
  <2>3. Cardinality({i} \cup {j}) = 1 + 1
    BY <2>1, <2>2
  <2>4. 1 + 1 = 2
    OBVIOUS
  <2>5. Cardinality({i} \cup {j}) = 2
    BY <2>3, <2>4
  <2>6. QED
    BY <2>1, <2>5
<1> HIDE DEF In, Out
<1>4. ASSUME Outside(todo) PROVE ~ (Cardinality(Out) > Cardinality(In))
  <2>1. CASE In = {} /\ Out = {}
    <3>1. Cardinality(In) = 0
      BY <1>1, <2>1
    <3>2. Cardinality(Out) = 0
      BY <1>1, <2>1
    <3>3. QED
      BY <3>1, <3>2
  <2>2. CASE \E i, j \in 1 .. Len(todo) : i < j /\ In = {i} /\ Out = {j}
    <3>1. Cardinality(In) = 1
      BY <1>2, <2>2
    <3>2. Cardinality(Out) = 1
      BY <1>2, <2>2
    <3>3. QED
      BY <3>1, <3>2
  <2>3. CASE \E i, j, k, l \in 1 .. Len(todo) :
               /\ i < j /\ j < k /\ k < l
               /\ In = {i, k} /\ Out = {j, l}
    <3>1. PICK i, j, k, l \in 1 .. Len(todo) :
            /\ i < j /\ j < k /\ k < l
            /\ In = {i, k} /\ Out = {j, l}
      BY <2>3
    <3>2. i # k /\ j # l
      BY <3>1
    <3>3. Cardinality(In) = 2
      BY <1>3, <3>1, <3>2
    <3>4. Cardinality(Out) = 2
      BY <1>3, <3>1, <3>2
    <3>5. QED
      BY <3>3, <3>4
  <2>4. QED
    BY <1>4, <2>1, <2>2, <2>3 DEF Outside, In, Out
<1>5. ASSUME Inside(todo) PROVE Cardinality(Out) > Cardinality(In)
  <2>1. CASE \E j \in 1 .. Len(todo) : In = {} /\ Out = {j}
    <3>1. Cardinality(In) = 0
      BY <1>1, <2>1
    <3>2. Cardinality(Out) = 1
      BY <1>2, <2>1
    <3>3. QED
      BY <3>1, <3>2
  <2>2. CASE \E j, k, l \in 1 .. Len(todo) :
               /\ j < k /\ k < l
               /\ In = {k} /\ Out = {j, l}
    <3>1. PICK j, k, l \in 1 .. Len(todo) :
            /\ j < k /\ k < l
            /\ In = {k} /\ Out = {j, l}
      BY <2>2
    <3>2. j # l
      BY <3>1
    <3>3. Cardinality(In) = 1
      BY <1>2, <3>1
    <3>4. Cardinality(Out) = 2
      BY <1>3, <3>1, <3>2
    <3>5. QED
      BY <3>3, <3>4
  <2>3. QED
    BY <1>5, <2>1, <2>2 DEF Inside, In, Out
<1>6. QED
  BY <1>4, <1>5 DEF In, Out

\* Whether a frame is inside the guard can be read off its list.
LEMMA InsideFrame ==
  ASSUME NEW frame \in Frame
  PROVE  /\ Outside(frame.todo) => ~ inside(frame)
         /\ Inside(frame.todo) => inside(frame)
<1>1. frame.todo \in Seq(TodoStep)
  BY DEF Frame
<1>2. Len(frame.todo) \in Nat /\ DOMAIN frame.todo = 1 .. Len(frame.todo)
  BY <1>1
<1>3. inside(frame)
        <=> Cardinality(places(frame.todo, "leave")) > Cardinality(places(frame.todo, "enter"))
  BY <1>2 DEF inside, places
<1>4. QED
  BY <1>2, <1>3, InsideCounts

\* Of all the calls on the stack at most one is between the two halves of a
\* nonReentrant, and the flag says whether there is one, whatever calls back and
\* whatever fails.
THEOREM TheGuardIsExact == CallsSpec => []GuardIsExact
<1>1. ASSUME CallsIInv PROVE GuardIsExact
  <2> DEFINE S == {i \in DOMAIN frames : inside(frames[i])}
  <2>1. frames \in Seq(Frame) /\ Len(frames) \in 0 .. 2 /\ DOMAIN frames = 1 .. Len(frames)
    BY <1>1 DEF CallsIInv
  <2>2. Cardinality({}) = 0 /\ \A i : Cardinality({i}) = 1
    BY FS_EmptySet, FS_Singleton
  <2>3. storage.status = _status /\ ENTERED # NOT_ENTERED
    BY StorageFields DEF ENTERED, NOT_ENTERED
  <2>4. CASE Len(frames) = 0
    <3>1. _status = NOT_ENTERED
      BY <1>1, <2>3, <2>4 DEF CallsIInv, AtRest
    <3>2. S = {}
      BY <2>1, <2>4
    <3>3. QED
      BY <2>2, <2>3, <3>1, <3>2 DEF GuardIsExact
  <2>5. CASE Len(frames) = 1
    <3>1. DOMAIN frames = {1} /\ frames[1] \in Frame
      BY <2>1, <2>5
    <3>2. \/ _status = NOT_ENTERED /\ Outside(frames[1].todo)
          \/ _status = ENTERED /\ Inside(frames[1].todo)
      BY <1>1, <2>3, <2>5 DEF CallsIInv, Running
    <3>3. CASE _status = NOT_ENTERED
      <4>1. ~ inside(frames[1])
        BY <2>3, <3>1, <3>2, <3>3, InsideFrame
      <4>2. S = {}
        BY <3>1, <4>1
      <4>3. QED
        BY <2>2, <2>3, <3>3, <4>2 DEF GuardIsExact
    <3>4. CASE _status = ENTERED
      <4>1. inside(frames[1])
        BY <2>3, <3>1, <3>2, <3>4, InsideFrame
      <4>2. S = {1}
        BY <3>1, <4>1
      <4>3. QED
        BY <2>2, <3>4, <4>2 DEF GuardIsExact
    <3>5. QED
      BY <3>2, <3>3, <3>4
  <2>6. CASE Len(frames) = 2
    <3>1. DOMAIN frames = {1, 2} /\ frames[1] \in Frame /\ frames[2] \in Frame
      BY <2>1, <2>6
    <3>2. /\ Running(context, frames[1].entry, frames[2].entry, frames[2].todo)
          /\ CallsBack(frames[2].todo)
          /\ Nested(storage, frames[1].entry, frames[1].todo)
      BY <1>1, <2>6 DEF CallsIInv
    <3>3. _status = ENTERED /\ Outside(frames[1].todo)
      BY <2>3, <3>2 DEF Nested
    <3>4. Inside(frames[2].todo)
      <4>1. frames[2].todo \in Seq(TodoStep)
        BY <3>1 DEF Frame
      <4>2. ~ Outside(frames[2].todo)
        BY <3>2, <4>1, CallBackIsInside DEF Running, GoodTodo
      <4>3. QED
        BY <3>2, <4>2 DEF Running
    <3>5. ~ inside(frames[1]) /\ inside(frames[2])
      BY <3>1, <3>3, <3>4, InsideFrame
    <3>6. S = {2}
      BY <3>1, <3>5
    <3>7. QED
      BY <2>2, <3>3, <3>6 DEF GuardIsExact
  <2>7. QED
    BY <2>1, <2>4, <2>5, <2>6
<1>2. QED
  BY <1>1, CallsInvariance, PTL

-----------------------------------------------------------------------------
(* What the chain keeps *)

\* A step of a transaction leaves it alone.
LEMMA CommittedGoesOn ==
  ASSUME CallsIInv, CallsIInv', frames # <<>>, NEW pre, Continue(pre)
  PROVE  committed' = committed /\ context' = context
<1>1. /\ frames \in Seq(Frame) /\ Len(frames) \in 1 .. 2
      /\ frames' \in Seq(Frame) /\ Len(frames') \in 0 .. 2
  BY DEF CallsIInv
<1>2. frames' = [frames EXCEPT ![1].todo = pre \o Tail(@)]
  BY DEF Continue
<1>3. Len(frames') = Len(frames)
  <2>1. DOMAIN frames' = DOMAIN frames
    BY <1>2
  <2>2. DOMAIN frames' = 1 .. Len(frames') /\ DOMAIN frames = 1 .. Len(frames)
    BY <1>1
  <2>3. ASSUME NEW m \in Nat, NEW n \in Nat, 1 .. m = 1 .. n PROVE m = n
    <3>1. m = 0 \/ m \in 1 .. m
      OBVIOUS
    <3>2. n = 0 \/ n \in 1 .. n
      OBVIOUS
    <3>3. m <= n /\ n <= m
      BY <2>3, <3>1, <3>2
    <3>4. QED
      BY <3>3
  <2>4. Len(frames') \in Nat
    BY <1>1
  <2>5. Len(frames) \in Nat
    BY <1>1
  <2>6. 1 .. Len(frames') = 1 .. Len(frames)
    BY <2>1, <2>2
  <2>7. QED
    BY <2>3, <2>4, <2>5, <2>6
<1>4. frames'[1].entry = frames[1].entry
  <2>1. 1 \in DOMAIN frames /\ frames[1] \in Frame
    BY <1>1
  <2>2. frames'[1] = [frames[1] EXCEPT !.todo = pre \o Tail(@)]
    BY <1>2, <2>1
  <2>3. QED
    BY <2>1, <2>2 DEF Frame
<1>5. Len(frames) = 2 => frames'[2] = frames[2]
  BY <1>1, <1>2
<1>6. frames # <<>> /\ frames' # <<>>
  BY <1>1, <1>3
<1>7. frames'[Len(frames)].entry = frames[Len(frames)].entry
  BY <1>1, <1>4, <1>5
<1>8. committed = frames[Len(frames)].entry /\ committed' = frames'[Len(frames)].entry
  BY <1>3, <1>6 DEF committed
<1>9. context' = context
  BY DEF Continue, outside, context
<1>10. QED
  BY <1>7, <1>8, <1>9

\* The steps that Continue says something of.
LEMMA StepsContinue ==
  ASSUME \/ Check \/ Enter \/ Leave \/ ChangeDeposit \/ ChangeDebt \/ Seize \/ Sweep
         \/ PullCollateral \/ PushCollateral \/ MintTokens \/ PullDsc \/ BurnTokens
  PROVE  frames # <<>> /\ \E pre : Continue(pre)
<1>1. CASE Check \/ Enter \/ Leave
  BY <1>1 DEF Check, Enter, Leave, passes, modifierPasses, succeeds, AtStep
<1>2. CASE ChangeDeposit \/ ChangeDebt
  BY <1>2 DEF ChangeDeposit, ChangeDebt, AtStep
<1>3. CASE Seize
  BY <1>3 DEF Seize, AtStep
<1>4. CASE Sweep
  BY <1>4 DEF Sweep, AtStep
<1>5. CASE PullCollateral \/ PushCollateral \/ MintTokens \/ PullDsc \/ BurnTokens
  BY <1>5 DEF PullCollateral, PushCollateral, MintTokens, PullDsc, BurnTokens, AtStep
<1>6. QED
  BY <1>1, <1>2, <1>3, <1>4, <1>5

\* A call leaves it alone when it begins.
LEMMA CommittedBegins ==
  ASSUME CallsIInv, CallsIInv', NEW sender \in User, Begin(sender) \/ CallBack(sender)
  PROVE  committed' = committed /\ context' = context
<1>1. UNCHANGED <<vars, _status, faults>> /\ Call(sender)
  BY DEF Begin, CallBack
<1>2. storage' = storage /\ context' = context
  BY <1>1 DEF storage, context, vars, engineVars, collateralVars, dscLedger, dscVars, oracleVars
<1>3. PICK l \in CallsOf(sender) :
        frames' = <<[sender |-> sender, todo |-> l, entry |-> storage]>> \o frames
  BY <1>1 DEF Call
<1> DEFINE x == [sender |-> sender, todo |-> l, entry |-> storage]
<1>4. x \in Frame /\ x.entry = storage
  <2>1. storage \in Storage
    BY DEF CallsIInv, AtRest, Running, Nested, TablesOK
  <2>2. QED
    BY <2>1, CallFrame
<1>5. frames' = <<x>> \o frames
  BY <1>3
<1> HIDE DEF x
<1>6. frames \in Seq(Frame) /\ Len(frames) \in 0 .. 2 /\ Len(frames') \in 0 .. 2
  BY DEF CallsIInv
<1>7. /\ frames' \in Seq(Frame) /\ Len(frames') = Len(frames) + 1 /\ frames'[1] = x
      /\ Len(frames) = 1 => frames'[2] = frames[1]
  BY <1>4, <1>5, <1>6, FrameOnTop
<1>8. CASE frames = <<>>
  <2>1. Len(frames) = 0
    BY <1>8
  <2>2. Len(frames') = Len(frames) + 1
    BY <1>7
  <2>3. Len(frames') = 1
    BY <2>1, <2>2
  <2>4. frames' # <<>>
    BY <2>3
  <2>5. committed' = frames'[1].entry
    BY <2>3, <2>4 DEF committed
  <2>6. committed = storage
    BY <1>8 DEF committed
  <2>7. QED
    BY <1>2, <1>4, <1>7, <2>5, <2>6
<1>9. CASE frames # <<>>
  <2>1. Len(frames) = 1
    BY <1>6, <1>7, <1>9
  <2>2. Len(frames') = 2 /\ frames' # <<>> /\ frames'[2] = frames[1]
    BY <1>7, <2>1
  <2>3. committed' = frames'[2].entry
    BY <2>2 DEF committed
  <2>4. committed = frames[1].entry
    BY <1>9, <2>1 DEF committed
  <2>5. QED
    BY <1>2, <2>2, <2>3, <2>4
<1>10. QED
  BY <1>8, <1>9

\* What fails leaves it alone.
LEMMA CommittedReverts ==
  ASSUME CallsIInv, CallsIInv', Revert
  PROVE  committed' = committed /\ context' = context
<1>1. PICK failed \in DOMAIN frames :
        /\ Restore(frames[failed].entry)
        /\ frames' = SubSeq(frames, failed + 1, Len(frames))
        /\ UNCHANGED <<dscOwner, updatedAt, now, faults>>
  BY DEF Revert, outside
<1>2. /\ frames \in Seq(Frame) /\ Len(frames) \in 1 .. 2 /\ failed \in 1 .. Len(frames)
      /\ frames # <<>>
  <2>1. frames \in Seq(Frame) /\ Len(frames) \in 0 .. 2
    BY DEF CallsIInv
  <2>2. failed \in 1 .. Len(frames) /\ Len(frames) \in 1 .. 2
    BY <1>1, <2>1
  <2>3. frames # <<>>
    BY <2>2
  <2>4. QED
    BY <2>1, <2>2, <2>3
<1>3. /\ frames' \in Seq(Frame) /\ Len(frames') = Len(frames) - failed
      /\ Len(frames) = 2 /\ failed = 1 => frames'[1] = frames[2]
  BY <1>1, <1>2
<1>4. context' = context
  BY <1>1 DEF context
<1>5. CASE failed = Len(frames)
  <2>1. frames[failed].entry \in Storage
    <3>1. frames[failed] \in Frame
      BY <1>2
    <3>2. QED
      BY <3>1 DEF Frame
  <2>2. storage' = frames[failed].entry
    BY <1>1, <2>1, RestoreStorage
  <2>3. frames' = <<>>
    BY <1>2, <1>3, <1>5
  <2>4. committed' = storage' /\ committed = frames[failed].entry
    BY <1>2, <1>5, <2>3 DEF committed
  <2>5. QED
    BY <1>4, <2>2, <2>4
<1>6. CASE Len(frames) = 2 /\ failed = 1
  <2>1. Len(frames') = 1 /\ frames'[1] = frames[2]
    BY <1>3, <1>6
  <2>2. frames' # <<>>
    BY <2>1
  <2>3. committed' = frames'[1].entry /\ committed = frames[2].entry
    BY <1>2, <1>6, <2>1, <2>2 DEF committed
  <2>4. QED
    BY <1>4, <2>1, <2>3
<1>7. CASE Len(frames) = 1
  <2>1. failed = Len(frames)
    BY <1>2, <1>7
  <2>2. QED
    BY <1>5, <2>1
<1>8. CASE Len(frames) = 2
  <2>1. failed = 1 \/ failed = Len(frames)
    BY <1>2, <1>8
  <2>2. QED
    BY <1>5, <1>6, <1>8, <2>1
<1>9. QED
  BY <1>2, <1>7, <1>8

\* A transaction that is over.
Finishes ==
  /\ AtRest(committed) /\ AtRest(storage)
  /\ Running(context, storage, committed, <<>>)
  /\ committed' = storage

\* What a return commits is what the outermost call has done, or nothing.
LEMMA CommittedReturns ==
  ASSUME CallsIInv, CallsIInv', Return
  PROVE  context' = context /\ (committed' = committed \/ Finishes)
<1>1. /\ frames # <<>> /\ frames[1].todo = <<>> /\ frames' = Tail(frames)
      /\ UNCHANGED <<vars, _status, faults>>
  BY DEF Return
<1>2. frames \in Seq(Frame) /\ Len(frames) \in 1 .. 2
  BY <1>1 DEF CallsIInv
<1>3. /\ frames' \in Seq(Frame) /\ Len(frames') = Len(frames) - 1
      /\ Len(frames) = 2 => frames'[1] = frames[2]
  BY <1>1, <1>2
<1>4. storage' = storage /\ context' = context
  BY <1>1 DEF storage, context, vars, engineVars, collateralVars, dscLedger, dscVars, oracleVars
<1>5. CASE Len(frames) = 1
  <2>1. AtRest(frames[1].entry) /\ Running(context, storage, frames[1].entry, <<>>)
    BY <1>1, <1>5 DEF CallsIInv
  <2>2. frames' = <<>>
    BY <1>3, <1>5
  <2>3. committed' = storage' /\ committed = frames[1].entry
    BY <1>1, <1>5, <2>2 DEF committed
  <2>4. AtRest(storage)
    BY <2>1, RunningEnds
  <2>5. QED
    BY <1>4, <2>1, <2>3, <2>4 DEF Finishes
<1>6. CASE Len(frames) = 2
  <2>1. Len(frames') = 1 /\ frames' # <<>> /\ frames'[1] = frames[2]
    BY SMTT(30), <1>3, <1>6
  <2>2. committed' = frames'[1].entry /\ committed = frames[2].entry
    BY <1>1, <1>6, <2>1 DEF committed
  <2>3. QED
    BY <1>4, <2>1, <2>2
<1>7. QED
  BY <1>2, <1>5, <1>6

\* Whatever happens, what the chain keeps stays, or a transaction is over, or it
\* is between transactions.
LEMMA CommittedStep ==
  ASSUME CallsIInv, CallsIInv', [CallsNext]_callsVars
  PROVE  \/ committed' = committed /\ context' = context
         \/ context' = context /\ Finishes
         \/ Between
<1>1. CASE UNCHANGED callsVars
  BY <1>1 DEF callsVars, committed, storage, context, vars, engineVars, collateralVars,
              dscLedger, dscVars, oracleVars
<1>2. CASE \/ Check \/ Enter \/ Leave \/ ChangeDeposit \/ ChangeDebt \/ Seize \/ Sweep
           \/ PullCollateral \/ PushCollateral \/ MintTokens \/ PullDsc \/ BurnTokens
  BY <1>2, StepsContinue, CommittedGoesOn
<1>3. CASE Return
  BY <1>3, CommittedReturns
<1>4. CASE Revert
  BY <1>4, CommittedReverts
<1>5. CASE \E sender \in User : Begin(sender) \/ CallBack(sender)
  BY <1>5, CommittedBegins
<1>6. CASE Between
  BY <1>6
<1>7. QED
  BY <1>1, <1>2, <1>3, <1>4, <1>5, <1>6 DEF CallsNext

\* Nothing is due in the committed state.
LEMMA CommittedIsAtRest == ASSUME CallsIInv PROVE AtRest(committed)
<1>1. frames \in Seq(Frame) /\ Len(frames) \in 0 .. 2
  BY DEF CallsIInv
<1>2. CASE Len(frames) = 0
  <2>1. frames = <<>>
    BY <1>1, <1>2
  <2>2. QED
    BY <1>2, <2>1 DEF CallsIInv, committed
<1>3. CASE Len(frames) = 1
  <2>1. frames # <<>>
    BY <1>3
  <2>2. QED
    BY <1>3, <2>1 DEF CallsIInv, committed
<1>4. CASE Len(frames) = 2
  <2>1. frames # <<>>
    BY <1>4
  <2>2. QED
    BY <1>4, <2>1 DEF CallsIInv, committed
<1>5. QED
  BY <1>1, <1>2, <1>3, <1>4

\* The sums over what the chain keeps are the same fold over the same set.
LEMMA CommittedSums == ASSUME NEW f PROVE Committed!SumFunction(f) = SumFunction(f)
<1>1. Committed!SumFunction(f) = PartialSum(f, DOMAIN f)[DOMAIN f]
  BY DEF Committed!SumFunction, Committed!SumFunctionOnSet, Committed!FoldFunctionOnSet,
         Committed!MapThenFoldSet, PartialSum, IsPartialSum, First
<1>2. QED
  BY <1>1, SumIsPartialSum DEF SumFunction

\* They count what the invariant counts.
LEMMA CommittedSurplus ==
  \A t \in Token : Committed!surplus(t) = surplusAt(committed, t)
<1> SUFFICES ASSUME NEW t \in Token PROVE Committed!surplus(t) = surplusAt(committed, t)
  OBVIOUS
<1> DEFINE deposits == [u \in User |-> committed.deposited[u][t]]
<1>1. Committed!SumFunction(deposits) = SumFunction(deposits)
  <2> HIDE DEF deposits
  <2>1. QED
    BY CommittedSums
<1>2. QED
  BY <1>1 DEF Committed!surplus, Committed!totalDeposited, surplusAt, columnTotal

\* The same of the next state.
LEMMA CommittedSurplusNext ==
  \A t \in Token : Committed!surplus(t)' = surplusAt(committed', t)
<1>1. (\A t \in Token : Committed!surplus(t) = surplusAt(committed, t))'
  BY CommittedSurplus, PTL
<1>2. QED
  BY <1>1 DEF surplusAt, columnTotal

\* What a transaction, the tokens and the feeds do to the books that the chain keeps.
LEMMA CommittedBooks ==
  ASSUME CallsIInv, CallsIInv', [CallsNext]_callsVars
  PROVE  /\ \A t \in Token :
              /\ surplusAt(committed', t) >= surplusAt(committed, t)
              /\ \/ surplusAt(committed', t) = surplusAt(committed, t)
                 \/ committed'.deposited = committed.deposited
                      /\ committed'.minted = committed.minted
         /\ gapAt(committed') >= gapAt(committed)
<1>1. TablesOK(committed)
  BY CommittedIsAtRest DEF AtRest
<1>2. gapAt(committed) \in Int /\ \A t \in Token : surplusAt(committed, t) \in Int
  BY <1>1, SurplusType
<1>3. CASE committed' = committed
  <2>1. \A t \in Token : surplusAt(committed, t) >= surplusAt(committed, t)
    BY <1>2
  <2>2. gapAt(committed) >= gapAt(committed)
    BY <1>2
  <2>3. QED
    BY <1>3, <2>1, <2>2
<1>4. CASE Finishes
  <2>1. Len(<<>>) = 0 /\ \A t \in Token : surplusDue(context, <<>>, t) = 0
    BY DEF surplusDue
  <2>2. gapDue(<<>>) = 0
    BY DEF gapDue
  <2>3. \A t \in Token : surplusAt(storage, t) = surplusAt(committed, t) + 0
    BY <1>4, <2>1 DEF Finishes, Running
  <2>4. gapAt(storage) = gapAt(committed) + 0
    BY <1>4, <2>2 DEF Finishes, Running
  <2>5. committed' = storage
    BY <1>4 DEF Finishes
  <2>6. \A t \in Token : /\ surplusAt(storage, t) = surplusAt(committed, t)
                         /\ surplusAt(storage, t) >= surplusAt(committed, t)
    BY <1>2, <2>3
  <2>7. gapAt(storage) >= gapAt(committed)
    BY <1>2, <2>4
  <2>8. QED
    BY <2>5, <2>6, <2>7
<1>5. CASE Between
  <2>1. /\ frames = <<>> /\ frames' = <<>> /\ UNCHANGED engineVars
        /\ \A t \in Token : surplusAt(storage', t) >= surplusAt(storage, t)
        /\ gapAt(storage') >= gapAt(storage)
    BY <1>5, BetweenBooks
  <2>2. committed = storage /\ committed' = storage'
    BY <2>1 DEF committed
  <2>3. storage'.deposited = storage.deposited /\ storage'.minted = storage.minted
    BY <2>1, StorageFields DEF engineVars
  <2>4. QED
    BY <2>1, <2>2, <2>3
<1>6. QED
  BY <1>3, <1>4, <1>5, CommittedStep

\* A payment that a token refuses by returning false is undone in the books, by
\* whatever way the transaction goes on or ends: the engine's holding of a token
\* moves with the deposits.
THEOREM FailedPaymentsLeaveNoTrace == CallsSpec => FailedPaymentsAreUndone
<1>1. CallsIInv /\ CallsIInv' /\ [CallsNext]_callsVars
        => \A t \in Token : /\ Committed!surplus(t)' >= Committed!surplus(t)
                            /\ Committed!surplus(t)' # Committed!surplus(t)
                                 => UNCHANGED Committed!engineVars
  <2>1. SUFFICES ASSUME CallsIInv, CallsIInv', [CallsNext]_callsVars, NEW t \in Token
                 PROVE  /\ Committed!surplus(t)' >= Committed!surplus(t)
                        /\ Committed!surplus(t)' # Committed!surplus(t)
                             => UNCHANGED Committed!engineVars
    OBVIOUS
  <2>2. /\ Committed!surplus(t) = surplusAt(committed, t)
        /\ Committed!surplus(t)' = surplusAt(committed', t)
    BY CommittedSurplus, CommittedSurplusNext
  <2>3. /\ surplusAt(committed', t) >= surplusAt(committed, t)
        /\ \/ surplusAt(committed', t) = surplusAt(committed, t)
           \/ committed'.deposited = committed.deposited
                /\ committed'.minted = committed.minted
    BY <2>1, CommittedBooks
  <2>4. committed'.deposited = committed.deposited /\ committed'.minted = committed.minted
          => UNCHANGED Committed!engineVars
    BY DEF Committed!engineVars
  <2>5. QED
    BY <2>2, <2>3, <2>4
<1>2. QED
  BY <1>1, CallsInvariance, PTL DEF CallsSpec, FailedPaymentsAreUndone,
     Committed!SurplusOnlyFromDonation

-----------------------------------------------------------------------------
(* The promise *)

\* The arithmetic reads no storage.
LEMMA CommittedMath ==
  /\ \A a, x : /\ Committed!usdValue(a, x) = usdValue(a, x)
               /\ Committed!usdValueReturns(a, x) <=> usdValueReturns(a, x)
  /\ \A x : Committed!Fits(x) <=> Fits(x)
  /\ \A x, y : /\ Committed!calculateHealthFactor(x, y) = calculateHealthFactor(x, y)
               /\ Committed!calculateHealthFactorReturns(x, y)
                    <=> calculateHealthFactorReturns(x, y)
  /\ Committed!MIN_HEALTH_FACTOR = MIN_HEALTH_FACTOR
  /\ Committed!Collateral = Collateral
<1>1. \A x : Committed!Fits(x) <=> Fits(x)
  BY DEF Committed!Fits, Fits, Committed!Word, Word
<1>2. \A a : Committed!scaledPrice(a) = scaledPrice(a)
  BY DEF Committed!scaledPrice, scaledPrice, Committed!AsUint, AsUint
<1>3. \A a, x : Committed!usdValue(a, x) = usdValue(a, x)
  BY <1>2 DEF Committed!usdValue, usdValue
<1>4. \A a, x : Committed!usdValueReturns(a, x) <=> usdValueReturns(a, x)
  BY <1>1, <1>2 DEF Committed!usdValueReturns, usdValueReturns
<1>5. \A v : Committed!collateralAdjustedForThreshold(v) = collateralAdjustedForThreshold(v)
  BY DEF Committed!collateralAdjustedForThreshold, collateralAdjustedForThreshold,
         Committed!LIQUIDATION_THRESHOLD, LIQUIDATION_THRESHOLD,
         Committed!LIQUIDATION_PRECISION, LIQUIDATION_PRECISION
<1>6. \A x, y : Committed!calculateHealthFactor(x, y) = calculateHealthFactor(x, y)
  BY <1>5 DEF Committed!calculateHealthFactor, calculateHealthFactor
<1>7. \A x, y : Committed!calculateHealthFactorReturns(x, y)
                  <=> calculateHealthFactorReturns(x, y)
  BY <1>1, <1>5 DEF Committed!calculateHealthFactorReturns, calculateHealthFactorReturns,
                    Committed!LIQUIDATION_THRESHOLD, LIQUIDATION_THRESHOLD
<1>8. Committed!MIN_HEALTH_FACTOR = MIN_HEALTH_FACTOR
  BY DEF Committed!MIN_HEALTH_FACTOR, MIN_HEALTH_FACTOR
<1>9. Committed!Collateral = Collateral
  BY DEF Committed!Collateral, Collateral, Committed!Range, Range
<1>10. QED
  BY <1>1, <1>3, <1>4, <1>6, <1>7, <1>8, <1>9

\* What an account is worth in what the chain keeps, and its health factor.
LEMMA CommittedHealth ==
  \A u \in User :
    /\ Committed!getAccountCollateralValue(u)
         = valueOf(committed.answer, committed.deposited[u])
    /\ Committed!healthFactor(u) = healthAt(committed, u)
<1> SUFFICES ASSUME NEW u \in User
             PROVE  /\ Committed!getAccountCollateralValue(u)
                         = valueOf(committed.answer, committed.deposited[u])
                    /\ Committed!healthFactor(u) = healthAt(committed, u)
  OBVIOUS
<1> DEFINE value == valueOf(committed.answer, committed.deposited[u])
           values == [i \in Index |-> usdValue(committed.answer[s_collateralTokens[i]],
                                               committed.deposited[u][s_collateralTokens[i]])]
<1>1. Committed!depositValues(u) = values
  BY CommittedMath DEF Committed!depositValues, Committed!getUsdValue, Index
<1>2. value = SumFunction(values)
  BY DEF valueOf
<1>3. Committed!SumFunction(values) = SumFunction(values)
  <2> HIDE DEF values
  <2>1. QED
    BY CommittedSums
<1>4. healthAt(committed, u) = healthOf(committed.minted[u], value)
  BY DEF healthAt
<1> HIDE DEF value, values
<1>5. Committed!getAccountCollateralValue(u) = value
  BY <1>1, <1>2, <1>3 DEF Committed!getAccountCollateralValue
<1>6. Committed!healthFactor(u) = healthOf(committed.minted[u], value)
  BY <1>5, CommittedMath DEF Committed!healthFactor, healthOf
<1>7. QED
  BY <1>4, <1>5, <1>6 DEF value

\* Who is healthy in what the chain keeps.
LEMMA CommittedIsFine ==
  \A u \in User : Committed!healthFactorIsFine(u) <=> fineAt(context, committed, u)
<1> SUFFICES ASSUME NEW u \in User
             PROVE  Committed!healthFactorIsFine(u) <=> fineAt(context, committed, u)
  OBVIOUS
<1> DEFINE value == valueOf(committed.answer, committed.deposited[u])
<1>1. Committed!getAccountCollateralValue(u) = value
  BY CommittedHealth
<1>2. context.updatedAt = updatedAt /\ context.now = now
  BY DEF context
<1> HIDE DEF value
<1>3. Committed!getAccountCollateralValueReturns(u)
        <=> /\ \A t \in Collateral :
                 /\ updatedAt[t] <= now /\ now - updatedAt[t] <= TIMEOUT
                 /\ usdValueReturns(committed.answer[t], committed.deposited[u][t])
            /\ Fits(value)
  BY <1>1, CommittedMath DEF Committed!getAccountCollateralValueReturns,
     Committed!getUsdValueReturns, Committed!stalePriceCheckReturns
<1>4. Committed!healthFactor(u) = healthOf(committed.minted[u], value)
  BY CommittedHealth DEF healthAt, value
<1>5. Committed!healthFactorReturns(u)
        <=> /\ Committed!getAccountCollateralValueReturns(u)
            /\ \/ committed.minted[u] = 0
               \/ calculateHealthFactorReturns(committed.minted[u], value)
  BY <1>1, CommittedMath DEF Committed!healthFactorReturns
<1>6. Committed!healthFactorIsFine(u)
        <=> Committed!healthFactorReturns(u)
              /\ healthOf(committed.minted[u], value) >= MIN_HEALTH_FACTOR
  BY <1>4, CommittedMath DEF Committed!healthFactorIsFine
<1>7. fineAt(context, committed, u)
        <=> /\ \A t \in Collateral :
                 /\ updatedAt[t] <= now /\ now - updatedAt[t] <= TIMEOUT
                 /\ usdValueReturns(committed.answer[t], committed.deposited[u][t])
            /\ Fits(value)
            /\ \/ committed.minted[u] = 0
               \/ calculateHealthFactorReturns(committed.minted[u], value)
            /\ healthOf(committed.minted[u], value) >= MIN_HEALTH_FACTOR
  BY <1>2 DEF fineAt, value
<1>8. QED
  BY <1>3, <1>5, <1>6, <1>7

\* The committed health check after a step.
LEMMA CommittedIsFineNext ==
  \A u \in User : Committed!healthFactorIsFine(u)' <=> fineAt(context', committed', u)
<1>1. (\A u \in User : Committed!healthFactorIsFine(u) <=> fineAt(context, committed, u))'
  BY CommittedIsFine, PTL
<1>2. QED
  BY <1>1 DEF fineAt, valueOf, healthOf

\* What a transaction, the tokens and the feeds do to an account in what the chain
\* keeps.
LEMMA CommittedAccounts ==
  ASSUME CallsIInv, CallsIInv', [CallsNext]_callsVars, NEW u \in User
  PROVE  \/ isSafer(committed', committed, u)
         \/ fineAt(context', committed', u)
         \/ /\ ~ fineAt(context, committed, u)
            /\ healthAt(committed, u) < MIN_HEALTH_FACTOR
            /\ committed'.minted[u] < committed.minted[u]
            /\ healthAt(committed', u) > healthAt(committed, u)
<1>1. isSafer(committed, committed, u)
  <2>1. committed \in Storage
    BY CommittedIsAtRest DEF AtRest, TablesOK
  <2>2. committed.minted[u] \in Nat /\ \A t \in Token : committed.deposited[u][t] \in Nat
    BY <2>1, StorageTypes
  <2>3. QED
    BY <2>2 DEF isSafer
<1>2. CASE committed' = committed
  BY <1>1, <1>2
<1>3. CASE context' = context /\ Finishes
  <2>1. committed' = storage /\ Excused(context, storage, committed, <<>>, u)
    BY <1>3 DEF Finishes, Running
  <2>2. Len(<<>>) = 0 /\ 1 .. 0 = {}
    OBVIOUS
  <2>3. ~ isChecked(<<>>, 1, u)
    BY <2>2 DEF isChecked
  <2>4. CASE isSafer(storage, committed, u)
    BY <2>1, <2>4
  <2>5. CASE isFine(context, storage, <<>>, u)
    BY <1>3, <2>1, <2>5 DEF isFine
  <2>6. CASE isCovered(context, storage, committed, <<>>, u)
    <3>1. places(<<>>, "eraseDebt") = {} /\ places(<<>>, "checkImproved") = {}
      BY <2>2 DEF places
    <3>2. healthAt(storage, u) > healthAt(committed, u)
      BY <2>6, <3>1 DEF isCovered, isImproved
    <3>3. QED
      BY <2>1, <2>6, <3>1, <3>2 DEF isCovered
  <2>7. QED
    BY <2>1, <2>3, <2>4, <2>5, <2>6 DEF Excused
<1>4. CASE Between
  <2>1. frames = <<>> /\ frames' = <<>> /\ UNCHANGED engineVars
    BY <1>4, BetweenBooks
  <2>2. committed = storage /\ committed' = storage'
    BY <2>1 DEF committed
  <2>3. committed'.deposited = committed.deposited /\ committed'.minted = committed.minted
    BY <2>1, <2>2, StorageFields DEF engineVars
  <2>4. QED
    BY <1>1, <2>3 DEF isSafer
<1>5. QED
  BY <1>2, <1>3, <1>4, CommittedStep

\* The abstract specification counts what the invariant counts.
LEMMA CommittedPromiseSums ==
  ASSUME NEW f PROVE Committed!Promise!SumFunction(f) = SumFunction(f)
<1>1. Committed!Promise!SumFunction(f) = PartialSum(f, DOMAIN f)[DOMAIN f]
  BY DEF Committed!Promise!SumFunction, Committed!Promise!SumFunctionOnSet,
         Committed!Promise!FoldFunctionOnSet, Committed!Promise!MapThenFoldSet,
         PartialSum, IsPartialSum, First
<1>2. QED
  BY <1>1, SumIsPartialSum DEF SumFunction

\* The abstract specification counts what the committed books count.
LEMMA CommittedCounts ==
  /\ \A t \in Token : Committed!Promise!surplus(t) = surplusAt(committed, t)
  /\ Committed!Promise!unissued = gapAt(committed)
<1>1. ASSUME NEW t \in Token
      PROVE  Committed!Promise!surplus(t) = surplusAt(committed, t)
  <2> DEFINE deposits == [u \in User |-> committed.deposited[u][t]]
  <2>1. Committed!Promise!SumFunction(deposits) = SumFunction(deposits)
    <3> HIDE DEF deposits
    <3>1. QED
      BY CommittedPromiseSums
  <2>2. QED
    BY <2>1 DEF Committed!Promise!surplus, surplusAt, columnTotal
<1>2. Committed!Promise!unissued = gapAt(committed)
  BY CommittedPromiseSums DEF Committed!Promise!unissued, gapAt
<1>3. QED
  BY <1>1, <1>2

\* The same after a step.
LEMMA CommittedCountsNext ==
  /\ \A t \in Token : Committed!Promise!surplus(t)' = surplusAt(committed', t)
  /\ Committed!Promise!unissued' = gapAt(committed')
<1>1. (/\ \A t \in Token : Committed!Promise!surplus(t) = surplusAt(committed, t)
       /\ Committed!Promise!unissued = gapAt(committed))'
  BY CommittedCounts, PTL
<1>2. QED
  BY <1>1 DEF surplusAt, columnTotal, gapAt

\* The initial states map to initial states.
LEMMA CommittedInitPromise == CallsInit => Committed!Promise!Init
<1>1. SUFFICES ASSUME CallsInit PROVE Committed!Promise!Init
  OBVIOUS
<1>2. IInv /\ Init /\ frames = <<>>
  BY <1>1, InitIInv DEF CallsInit
<1>3. committed = storage
  BY <1>2 DEF committed
<1>4. \A t \in Token : collateralBalances[t][Engine] >= 0
  BY <1>2, CollateralTables, Accounts DEF IInv
<1>5. /\ committed.deposited = [u \in User |-> [t \in Token |-> 0]]
      /\ committed.minted = [u \in User |-> 0]
      /\ committed.balances = collateralBalances
      /\ committed.dsc[3] = 0
  BY <1>2, <1>3, StorageFields DEF Init
<1>6. QED
  BY <1>4, <1>5 DEF Committed!Promise!Init

\* Every step maps to one of the abstract specification or a stutter.
LEMMA CommittedNextPromise ==
  CallsIInv /\ CallsIInv' /\ [CallsNext]_callsVars => Committed!Promise!Next
<1>1. SUFFICES ASSUME CallsIInv, CallsIInv', [CallsNext]_callsVars
               PROVE  Committed!Promise!Next
  OBVIOUS
<1>2. ASSUME NEW u \in User
      PROVE  \/ Committed!Promise!Safer(u) \/ Committed!Promise!EndsHealthy(u)
             \/ Committed!Promise!Liquidated(u)
  <2>1. CASE isSafer(committed', committed, u)
    BY <2>1 DEF isSafer, Committed!Promise!Safer
  <2>2. CASE fineAt(context', committed', u)
    BY <2>2, CommittedIsFineNext DEF Committed!Promise!EndsHealthy
  <2>3. CASE ~ fineAt(context, committed, u) /\ committed'.minted[u] < committed.minted[u]
    BY <2>3, CommittedIsFine DEF Committed!Promise!Liquidated
  <2>4. QED
    BY <1>1, <2>1, <2>2, <2>3, CommittedAccounts
<1>3. /\ \A t \in Token : Committed!Promise!surplus(t)' >= Committed!Promise!surplus(t)
      /\ Committed!Promise!unissued' >= Committed!Promise!unissued
  BY <1>1, CommittedBooks, CommittedCounts, CommittedCountsNext
<1>4. QED
  BY <1>2, <1>3 DEF Committed!Promise!Next

\* Whatever the tokens do - call back before or after they move an amount, return
\* false, move a price - and wherever a transaction fails, what the chain keeps is
\* what the promise to the accounts allows.
THEOREM CallsKeepThePromise == CallsSpec => CallsKeepPromise
<1>1. CallsIInv /\ CallsIInv' /\ [CallsNext]_callsVars
        => [Committed!Promise!Next]_(Committed!Promise!vars)
  BY CommittedNextPromise
<1>2. QED
  BY <1>1, CommittedInitPromise, CallsInvariance, PTL
  DEF CallsSpec, CallsKeepPromise, Committed!KeepsPromise, Committed!Promise!Spec

-----------------------------------------------------------------------------
(* Liquidations *)

\* The committed state has its types before and after a step.
LEMMA CommittedTypes ==
  /\ CallsIInv => committed \in Storage
  /\ CallsIInv' => committed' \in Storage
<1>1. CallsIInv => committed \in Storage
  BY CommittedIsAtRest DEF AtRest, TablesOK
<1>2. (CallsIInv => committed \in Storage)'
  BY <1>1, PTL
<1>3. Storage' = Storage
  BY DEF Storage
<1>4. QED
  BY <1>1, <1>2, <1>3

\* The committed health factor after a step.
LEMMA CommittedHealthNext ==
  \A u \in User : Committed!healthFactor(u)' = healthAt(committed', u)
<1>1. \A u \in User : Committed!healthFactor(u) = healthAt(committed, u)
  BY CommittedHealth
<1>2. (\A u \in User : Committed!healthFactor(u) = healthAt(committed, u))'
  BY <1>1, PTL
<1>3. QED
  BY <1>2 DEF healthAt, valueOf, healthOf

\* What a call does to an account in what the chain keeps, for each of the excuses.
LEMMA CommittedImprovement ==
  ASSUME CallsIInv, CallsIInv', [CallsNext]_callsVars, NEW u \in User,
         \/ committed'.minted[u] > committed.minted[u]
         \/ \E t \in Token : committed'.deposited[u][t] < committed.deposited[u][t]
  PROVE  \/ Committed!healthFactorIsFine(u)'
         \/ /\ ~ Committed!isHealthy(u)
            /\ committed'.minted[u] < committed.minted[u]
            /\ Committed!healthFactor(u)' > Committed!healthFactor(u)
<1>1. /\ committed \in Storage /\ committed' \in Storage
  BY CommittedTypes
<1>2. /\ committed.minted[u] \in Nat /\ committed'.minted[u] \in Nat
      /\ \A t \in Token : /\ committed.deposited[u][t] \in Nat
                          /\ committed'.deposited[u][t] \in Nat
  BY <1>1, StorageTypes
<1>3. CASE isSafer(committed', committed, u)
  BY <1>2, <1>3 DEF isSafer
<1>4. CASE fineAt(context', committed', u)
  BY <1>4, CommittedIsFineNext
<1>5. CASE /\ healthAt(committed, u) < MIN_HEALTH_FACTOR
           /\ committed'.minted[u] < committed.minted[u]
           /\ healthAt(committed', u) > healthAt(committed, u)
  <2> DEFINE value == valueOf(committed.answer, committed.deposited[u])
  <2>1. value \in Nat
    <3>1. committed.answer \in [Feed -> Int] /\ committed.deposited[u] \in [Token -> Word]
      BY <1>1 DEF Storage
    <3>2. committed.deposited[u] \in [Token -> Nat]
      BY <3>1, WordsAreNaturals
    <3>3. QED
      BY <3>1, <3>2, ValuesType
  <2>2. committed.minted[u] # 0
    BY <1>2, <1>5
  <2>3. healthAt(committed, u) = healthOf(committed.minted[u], value)
    BY DEF healthAt
  <2>4. Committed!isHealthy(u) <=> 2 * committed.minted[u] <= value
    BY CommittedHealth DEF Committed!isHealthy
  <2> HIDE DEF value
  <2>5. ~ (2 * committed.minted[u] <= value)
    BY <1>2, <1>5, <2>1, <2>2, <2>3, HealthOfAccount
  <2>6. QED
    BY <1>5, <2>4, <2>5, CommittedHealth, CommittedHealthNext
<1>6. QED
  BY <1>3, <1>4, <1>5, CommittedAccounts

\* A call, with all that the tokens do in it, that raises a debt or lowers a deposit
\* leaves the account healthy - unless it liquidates it, and then the health factor
\* is better than it was when the call began.
THEOREM PartialLiquidationsAlwaysImprove == CallsSpec => PartialLiquidationsImprove
<1>1. CallsIInv /\ CallsIInv' /\ [CallsNext]_callsVars
        => [\A u \in User :
              \/ (committed.minted)'[u] > committed.minted[u]
              \/ \E t \in Token : (committed.deposited)'[u][t] < committed.deposited[u][t]
              => \/ Committed!healthFactorIsFine(u)'
                 \/ /\ ~ Committed!isHealthy(u)
                    /\ (committed.minted)'[u] < committed.minted[u]
                    /\ Committed!healthFactor(u)' > Committed!healthFactor(u)]_(Committed!vars)
  BY CommittedImprovement
<1>2. QED
  BY <1>1, CallsInvariance, PTL
  DEF CallsSpec, PartialLiquidationsImprove, Committed!RiskIncreaseEndsHealthy
=============================================================================
