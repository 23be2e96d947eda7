------------------------------ MODULE Checkpoints ------------------------------
(***************************************************************************)
(* Checkpoints of OpenZeppelin and the contracts that keep one history     *)
(* each.  A history is a list of checkpoints with growing keys, searched   *)
(* by halving.  A Trace takes its keys from the caller; the older History  *)
(* takes the number of the block, and answers only for blocks that are     *)
(* mined, so that an answer never changes any more.                        *)
(*                                                                         *)
(* Keys and values share a word: the wider one is, the narrower the other. *)
(***************************************************************************)
EXTENDS Sequences, Uint256, SafeCast

CONSTANTS
  MaxKey,       \* history type -> the largest key its checkpoints can have
  MaxValue,     \* history type -> the largest value
  Keys,         \* what callers push at
  Values,       \* history type -> what callers push, and add or subtract
  MaxBlock      \* the first block whose number is too large for a key

HistoryTypes == {"History", "Trace224", "Trace160"}

ASSUME OptionsAssumption ==
  /\ MaxKey \in [HistoryTypes -> Nat] /\ MaxValue \in [HistoryTypes -> Nat]
  /\ \A t \in HistoryTypes : (MaxKey[t] + 1) * (MaxValue[t] + 1) = MaxUint + 1
  /\ MaxValue["Trace224"] > MaxValue["Trace160"]
  /\ MaxValue["History"] = MaxValue["Trace224"]
  /\ Keys \subseteq Nat /\ Values \in [HistoryTypes -> SUBSET Word]
  /\ MaxBlock \in Word /\ MaxBlock = MaxKey["History"] + 1

VARIABLES
  historyType,    \* which contract this is
  _checkpoints,   \* its checkpoints, [_key, _value]
  blockNumber,    \* block.number
  returned        \* what the last push returned: the value before and after

vars == <<historyType, _checkpoints, blockNumber, returned>>

Checkpoint == [_key : 0 .. MaxKey[historyType], _value : 0 .. MaxValue[historyType]]

Init ==
  /\ historyType \in HistoryTypes
  /\ _checkpoints = <<>>
  /\ blockNumber = 0
  /\ returned = <<0, 0>>

-----------------------------------------------------------------------------
(* The searches.  Positions are counted from zero, as in the code.           *)

len == Len(_checkpoints)

_unsafeAccess(pos) == _checkpoints[pos + 1]

\* The loop of both searches: positions that are beyond what is searched for are
\* followed by such positions only.
firstBeyond(beyond, low, high) ==
  LET search[range \in (low .. high) \X (low .. high)] ==
        LET l == range[1]
            h == range[2]
            mid == (l + h) \div 2
        IN  IF l >= h THEN h
            ELSE IF mid \in beyond THEN search[<<l, mid>>] ELSE search[<<mid + 1, h>>]
  IN  search[<<low, high>>]

\* Mutant: a checkpoint at the key itself is not found.
_upperBinaryLookupBefore(key, low, high) ==
  firstBeyond({pos \in low .. high - 1 : _unsafeAccess(pos)._key >= key}, low, high)

\* The position of the first key above this one between low and high, or high.
_upperBinaryLookup(key, low, high) ==
  firstBeyond({pos \in low .. high - 1 : _unsafeAccess(pos)._key > key}, low, high)

\* Mutant: a checkpoint at the key itself is skipped.
_lowerBinaryLookupAfter(key, low, high) ==
  firstBeyond({pos \in low .. high - 1 : ~ (_unsafeAccess(pos)._key <= key)}, low, high)

\* The position of the first key from this one on between low and high, or high.
_lowerBinaryLookup(key, low, high) ==
  firstBeyond({pos \in low .. high - 1 : ~ (_unsafeAccess(pos)._key < key)}, low, high)

\* The value before a position, 0 before the first.
valueBefore(pos) == IF pos = 0 THEN 0 ELSE _unsafeAccess(pos - 1)._value

lowerLookup(key) ==
  LET pos == _lowerBinaryLookup(key, 0, len)
  IN  IF pos = len THEN 0 ELSE _unsafeAccess(pos)._value

upperLookup(key) == valueBefore(_upperBinaryLookup(key, 0, len))

latest == valueBefore(len)

latestCheckpoint ==
  IF len = 0 THEN <<FALSE, 0, 0>>
  ELSE <<TRUE, _unsafeAccess(len - 1)._key, _unsafeAccess(len - 1)._value>>

\* Math.sqrt rounds down.
sqrt(n) == CHOOSE r \in 0 .. n : r * r <= n /\ n < (r + 1) * (r + 1)

\* Whether getAtBlock and getAtProbablyRecentBlock do not revert.
getAtBlockReturns(number) ==
  number < blockNumber /\ toUintDownCastReturns(number, MaxKey["History"])

getAtBlock(number) ==
  upperLookup(toUintDownCast(number, MaxKey["History"]))

\* Mutant: the upper part of the list starts behind a checkpoint it needs.
getAtProbablyRecentBlockCut(number) ==
  LET key == toUintDownCast(number, MaxKey["History"])
      mid == len - sqrt(len)
  IN  valueBefore(
        IF len > 5 /\ key <= _unsafeAccess(mid)._key THEN _upperBinaryLookup(key, 0, mid)
        ELSE _upperBinaryLookup(key, IF len > 5 THEN mid + 1 ELSE 0, len))

\* The search starts with the last sqrt(len) checkpoints.
getAtProbablyRecentBlock(number) ==
  LET key == toUintDownCast(number, MaxKey["History"])
      mid == len - sqrt(len)
  IN  valueBefore(
        IF len > 5 /\ key < _unsafeAccess(mid)._key THEN _upperBinaryLookup(key, 0, mid)
        ELSE _upperBinaryLookup(key, IF len > 5 THEN mid + 1 ELSE 0, len))

-----------------------------------------------------------------------------
(* The transactions *)

\* Mutant: keys may fall.
_insertAnywhere(key, value) ==
  /\ LET ckpt == [_key |-> key, _value |-> value]
     IN  _checkpoints' = IF len > 0 /\ _unsafeAccess(len - 1)._key = key
                         THEN [_checkpoints EXCEPT ![len] = ckpt]
                         ELSE Append(_checkpoints, ckpt)
  /\ returned' = <<latest, value>>
  /\ UNCHANGED historyType

\* The last checkpoint is updated if it has the key, otherwise one is appended.
_insert(key, value) ==
  /\ len > 0 => _unsafeAccess(len - 1)._key <= key
  /\ LET ckpt == [_key |-> key, _value |-> value]
     IN  _checkpoints' = IF len > 0 /\ _unsafeAccess(len - 1)._key = key
                         THEN [_checkpoints EXCEPT ![len] = ckpt]
                         ELSE Append(_checkpoints, ckpt)
  /\ returned' = <<latest, value>>
  /\ UNCHANGED historyType

\* push of a Trace: the types of the arguments bound them.
Push(key, value) ==
  /\ historyType # "History"
  /\ key <= MaxKey[historyType] /\ value <= MaxValue[historyType]
  /\ _insert(key, value)
  /\ UNCHANGED blockNumber

\* Mutant: the block is cast without a check, and wraps.
pushWrapped(value) ==
  /\ historyType = "History"
  /\ toUintDownCastReturns(value, MaxValue["History"])
  /\ _insert(toUintDownCast(blockNumber, MaxKey["History"]), value)
  /\ UNCHANGED blockNumber

\* Mutant: the value is not checked.
pushUnchecked(value) ==
  /\ historyType = "History"
  /\ toUintDownCastReturns(blockNumber, MaxKey["History"])
  /\ _insert(toUintDownCast(blockNumber, MaxKey["History"]), value)
  /\ UNCHANGED blockNumber

\* push of a History: the block and the value have to fit.
push(value) ==
  /\ historyType = "History"
  /\ toUintDownCastReturns(blockNumber, MaxKey["History"])
  /\ toUintDownCastReturns(value, MaxValue["History"])
  /\ _insert(toUintDownCast(blockNumber, MaxKey["History"]),
             toUintDownCast(value, MaxValue["History"]))
  /\ UNCHANGED blockNumber

PushValue(value) == push(value)

\* push with an operation on the latest value: _add or _subtract of Votes.
PushOp(delta) ==
  \/ Fits(latest + delta) /\ push(latest + delta)
  \/ Fits(latest - delta) /\ push(latest - delta)

\* MaxBlock stands for all the blocks from there on, whose numbers do not fit.
Mine ==
  /\ historyType = "History"
  /\ blockNumber' = IF blockNumber < MaxBlock THEN blockNumber + 1 ELSE MaxBlock
  /\ UNCHANGED <<historyType, _checkpoints, returned>>

Next ==
  \/ \E value \in Values[historyType] :
       \/ \E key \in Keys : Push(key, value)
       \/ PushValue(value)
       \/ PushOp(value)
  \/ Mine

Spec == Init /\ [][Next]_vars

-----------------------------------------------------------------------------
(* Properties *)

\* Checkpoints fit their types: what is wider reverts before it gets here.
TypeOK ==
  /\ historyType \in HistoryTypes
  /\ _checkpoints \in Seq(Checkpoint)
  /\ blockNumber \in Nat

\* The keys grow strictly, and those of a History are blocks that have begun:
\* what every search by halving relies on, and _insert alone has to see to.
KeysIncrease ==
  /\ \A i, j \in 1 .. len : i < j => _checkpoints[i]._key < _checkpoints[j]._key
  /\ historyType = "History" => \A i \in 1 .. len : _checkpoints[i]._key <= blockNumber

\* lowerLookup finds, for every key, the value of the next checkpoint at it or
\* after it.
LowerLookupFindsNext ==
  \A key \in 0 .. MaxKey[historyType] :
    LET later == {i \in 1 .. len : _checkpoints[i]._key >= key}
    IN  \/ later = {} /\ lowerLookup(key) = 0
        \/ \E i \in later : /\ \A j \in later : i <= j
                            /\ lowerLookup(key) = _checkpoints[i]._value

\* The search that starts with recent checkpoints finds what the plain one does,
\* for every mined block, on both sides of its first cut and at it.
RecentLookupAgrees ==
  historyType = "History" =>
    \A number \in 0 .. MaxBlock :
      getAtBlockReturns(number) => getAtProbablyRecentBlock(number) = getAtBlock(number)

\* What getAtBlock has answered for a block it answers for ever: no later push,
\* in the same block or after it, reaches the past.
MinedBlocksAreFinal ==
  [][historyType = "History" =>
       \A number \in 0 .. MaxBlock :
         getAtBlockReturns(number) =>
           /\ getAtBlockReturns(number)'
           /\ getAtBlock(number)' = getAtBlock(number)]_vars

\* The lookups show the history of a value.
History == INSTANCE ValueHistory WITH
  Key <- Keys \cup 0 .. MaxBlock,
  Value <- Word,
  valueAt <- [k \in Keys \cup 0 .. MaxBlock |-> upperLookup(k)],
  latestKey <- IF latestCheckpoint[1] THEN latestCheckpoint[2] ELSE -1

\* Checkpoints implements ValueHistory: a value reads back at every key as it was
\* pushed, pushes change nothing before their key and are refused before the last
\* one, and each returns the values before and after it.
IsValueHistory == History!Spec
=============================================================================
