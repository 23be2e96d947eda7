----------------------------- MODULE OracleLib -------------------------------
(***************************************************************************)
(* The Chainlink price feeds, one for each collateral token, and the       *)
(* stale-price check in front of them.  The feeds are external: they       *)
(* publish what they want (MockV3Aggregator in the tests), in particular   *)
(* a price of zero or below, nothing for a long time, or a round whose     *)
(* timestamp is not that of the block.                                     *)
(***************************************************************************)
EXTENDS Integers

CONSTANTS
  Feed,             \* the tokens that have a feed
  TIMEOUT,          \* 3 hours
  Answers,          \* the answers the feeds publish
  RoundTimes,       \* the timestamps of the rounds that are pushed
  MaxTime           \* bound on the block time

ASSUME OracleAssumption ==
  /\ TIMEOUT \in Nat
  /\ Answers \subseteq Int
  /\ RoundTimes \subseteq Nat
  /\ MaxTime \in Nat

VARIABLES
  answer,           \* the latest answer of each feed
  updatedAt,        \* its timestamp
  now               \* block.timestamp

oracleVars == <<answer, updatedAt, now>>

\* stalePriceCheckLatestRoundData returns: the checked subtraction refuses a
\* timestamp of the future, the comparison one that is too old.
stalePriceCheckReturns(feed) ==
  /\ updatedAt[feed] <= now
  /\ now - updatedAt[feed] <= TIMEOUT

-----------------------------------------------------------------------------

UpdateAnswer(feed, newAnswer) ==
  /\ answer' = [answer EXCEPT ![feed] = newAnswer]
  /\ updatedAt' = [updatedAt EXCEPT ![feed] = now]
  /\ UNCHANGED now

UpdateRoundData(feed, newAnswer, timestamp) ==
  /\ answer' = [answer EXCEPT ![feed] = newAnswer]
  /\ updatedAt' = [updatedAt EXCEPT ![feed] = timestamp]
  /\ UNCHANGED now

Tick ==
  /\ now < MaxTime
  /\ now' = now + 1
  /\ UNCHANGED <<answer, updatedAt>>

OracleStep ==
  \/ \E feed \in Feed, newAnswer \in Answers :
       \/ UpdateAnswer(feed, newAnswer)
       \/ \E timestamp \in RoundTimes : UpdateRoundData(feed, newAnswer, timestamp)
  \/ Tick

OracleTypeOK ==
  /\ answer \in [Feed -> Int]
  /\ updatedAt \in [Feed -> Nat]
  /\ now \in 0 .. MaxTime
=============================================================================
