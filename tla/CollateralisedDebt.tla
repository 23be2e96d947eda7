-------------------------- MODULE CollateralisedDebt ---------------------------
(***************************************************************************)
(* What the stablecoin promises, whatever its transactions are made of:    *)
(* accounts have deposits and a debt, and nothing may make an account      *)
(* riskier unless it ends healthy or is an unhealthy one whose debt gets   *)
(* paid.  What backs the books never falls behind them: the vault holds    *)
(* the deposits, and the debt stands behind all that was issued.           *)
(*                                                                         *)
(* Which accounts are healthy is a matter of prices, and prices move as    *)
(* they want.                                                              *)
(***************************************************************************)
EXTENDS Integers, Functions

CONSTANTS Account, Token

VARIABLES
  deposit,      \* account -> token -> amount
  debt,         \* account -> amount
  vault,        \* token -> amount held for the accounts
  issued,       \* the debt paper in circulation
  healthy       \* the accounts whose collateral is worth enough

vars == <<deposit, debt, vault, issued, healthy>>

surplus(token) == vault[token] - SumFunction([a \in Account |-> deposit[a][token]])

unissued == SumFunction(debt) - issued

Init ==
  /\ deposit = [a \in Account |-> [t \in Token |-> 0]]
  /\ debt = [a \in Account |-> 0]
  /\ \A t \in Token : vault[t] >= 0
  /\ issued = 0
  /\ healthy \subseteq Account

-----------------------------------------------------------------------------

Safer(account) ==
  /\ debt'[account] <= debt[account]
  /\ \A t \in Token : deposit'[account][t] >= deposit[account][t]

EndsHealthy(account) == account \in healthy'

Liquidated(account) ==
  /\ account \notin healthy
  /\ debt'[account] < debt[account]

Next ==
  /\ \A a \in Account : Safer(a) \/ EndsHealthy(a) \/ Liquidated(a)
  /\ \A t \in Token : surplus(t)' >= surplus(t)
  /\ unissued' >= unissued

Spec == Init /\ [][Next]_vars
=============================================================================
