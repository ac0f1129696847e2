------------------------------- MODULE Backtest -------------------------------
(***************************************************************************)
(* The execution engine of the backtester.  Targets decided at the close   *)
(* of a bar are filled at the open of the next one, fills pay a cost,      *)
(* drift below a band is left alone, and positions are kept twice: as      *)
(* shares, which equity is computed from, and as open legs, from which the *)
(* trade log and the final liquidation are made.                           *)
(*                                                                         *)
(* Amounts and quantities are whole units and divisions round down, where  *)
(* the code has floats.  The equity curve is a reading of the state and is *)
(* left out; so is the strategy, which may ask for anything.               *)
(***************************************************************************)
EXTENDS Integers, FiniteSets, Functions

CONSTANTS
  Symbols,
  Prices,     \* opens and closes
  Weights,    \* target weights a strategy asks for, in parts
  Parts,      \* the whole portfolio in parts: weight 1.0
  Hold,       \* the empty target dict
  Capital,    \* initial_capital
  CostShare,  \* a fill costs 1/CostShare of its notional
  BandShare,  \* the no-trade band is 1/BandShare of the portfolio
  Bars        \* bars of the selected window

ASSUME BacktestAssumption ==
  /\ Prices \subseteq Nat \ {0} /\ Weights \subseteq Int /\ Hold \notin [Symbols -> Weights]
  /\ {Parts, Capital, CostShare, BandShare, Bars} \subseteq Nat \ {0}
  /\ IsFiniteSet(Symbols)

VARIABLES
  pc,        \* what the bar loop does next
  bar,       \* i
  cash,
  shares,
  legs,      \* open_trades: quantity and cost of the open leg; empty is no leg
  targets,   \* pending_targets
  realised,  \* sum of pnl over the trade log
  paid       \* ledger.cost_total

money == <<cash, shares, legs, realised, paid>>
vars == <<pc, bar, targets, money>>

Size(n) == IF n < 0 THEN -n ELSE n

NoLeg == [qty |-> 0, cost |-> 0]

Init ==
  /\ pc = "open" /\ bar = 1 /\ targets = Hold
  /\ cash = Capital /\ realised = 0 /\ paid = 0
  /\ shares = [s \in Symbols |-> 0]
  /\ legs = [s \in Symbols |-> NoLeg]

Cost(notional) == notional \div CostShare
Band(value) == value \div BandShare

Value(price) == cash + SumFunction([s \in Symbols |-> shares[s] * price[s]])
Worth(price) == Value(price) \in Nat \ {0}

\* Mutant: only the single weights are checked.
RangeOnly == \A s \in Symbols : targets[s] \in 0 .. Parts

Valid == SumFunction(targets) <= Parts /\ \A s \in Symbols : targets[s] \in 0 .. Parts

Target(s, price, value) == (targets[s] * value) \div (Parts * price[s])

\* What is bought or sold of s.  Nothing looks at the cash, so the order of the
\* sells and the buys shows nowhere.
Traded(s, price, value) ==
  LET delta == Target(s, price, value) - shares[s]
  IN IF Size(delta) * price[s] < Band(value) THEN 0 ELSE delta

\* The cost of what is sold, at the average price of the leg.
Basis(leg, sold) == (leg.cost * sold) \div leg.qty

\* Mutants: a partial sale closes the whole leg, or an added lot replaces it.
AfterWholeSale(leg, n, price) ==
  IF n < 0 THEN NoLeg ELSE [qty |-> leg.qty + n, cost |-> leg.cost + n * price]

AfterFill(leg, n, price) ==
  IF n >= 0 THEN [qty |-> leg.qty + n, cost |-> leg.cost + n * price]
  ELSE IF leg.qty <= -n THEN NoLeg
  ELSE [qty |-> leg.qty + n, cost |-> leg.cost - Basis(leg, -n)]

\* Mutant: a partial sale books the pnl of the whole leg.
PnlOfWholeLeg(leg, n, price) == IF n >= 0 THEN 0 ELSE leg.qty * price - leg.cost

Pnl(leg, n, price) ==
  IF n >= 0 THEN 0
  ELSE IF leg.qty <= -n THEN leg.qty * price - leg.cost
  ELSE price * (-n) - Basis(leg, -n)

Fill(n, price) ==
  /\ shares' = [s \in Symbols |-> shares[s] + n[s]]
  /\ legs' = [s \in Symbols |-> AfterFill(legs[s], n[s], price[s])]
  /\ realised' = realised + SumFunction([s \in Symbols |-> Pnl(legs[s], n[s], price[s])])
  /\ LET notional == [s \in Symbols |-> n[s] * price[s]]
         cost == SumFunction([s \in Symbols |-> Cost(Size(notional[s]))])
     IN cash' = cash - SumFunction(notional) - cost /\ paid' = paid + cost

\* Nothing is pending: the positions are kept.
KeepPositions ==
  /\ pc = "open" /\ targets = Hold
  /\ pc' = "decide"
  /\ UNCHANGED <<bar, targets, money>>

\* The orders of the last close, at today's open.
Trade(price) ==
  /\ Worth(price) /\ Valid
  /\ Fill([s \in Symbols |-> Traded(s, price, Value(price))], price)
  /\ pc' = "decide"

Rebalance ==
  /\ pc = "open" /\ targets # Hold
  /\ \E price \in [Symbols -> Prices] :
       \/ Trade(price)
       \/ ~Worth(price) /\ pc' = "decide" /\ UNCHANGED money
       \/ Worth(price) /\ ~Valid /\ pc' = "raised" /\ UNCHANGED money
  /\ targets' = Hold
  /\ UNCHANGED bar

\* The strategy, at the close; what it decides on the last bar is never filled.
Decide ==
  /\ pc = "decide"
  /\ targets' \in [Symbols -> Weights] \cup {Hold}
  /\ IF bar < Bars THEN bar' = bar + 1 /\ pc' = "open" ELSE bar' = bar /\ pc' = "liquidate"
  /\ UNCHANGED money

\* _close_all walks the open legs, sells the shares of each and drops it.
Liquidate ==
  /\ pc = "liquidate"
  /\ \E price \in [Symbols -> Prices] :
       LET open == {s \in Symbols : legs[s] # NoLeg}
           proceeds == [s \in open |-> shares[s] * price[s]]
           cost == SumFunction([s \in open |-> Cost(proceeds[s])])
       IN /\ cash' = cash + SumFunction(proceeds) - cost
          /\ paid' = paid + cost
          /\ realised' = realised + SumFunction([s \in open |-> Pnl(legs[s], -legs[s].qty, price[s])])
          /\ shares' = [s \in Symbols |-> IF s \in open THEN 0 ELSE shares[s]]
          /\ legs' = [s \in Symbols |-> NoLeg]
  /\ pc' = "done"
  /\ UNCHANGED <<bar, targets>>

Next == KeepPositions \/ Rebalance \/ Decide \/ Liquidate

Spec == Init /\ [][Next]_vars

-----------------------------------------------------------------------------
(* Properties *)

\* Every variable has its type; in particular nothing is ever sold short.
TypeOK ==
  /\ pc \in {"open", "decide", "liquidate", "done", "raised"}
  /\ bar \in 1 .. Bars
  /\ cash \in Int /\ realised \in Int /\ paid \in Nat
  /\ shares \in [Symbols -> Nat]
  /\ legs \in [Symbols -> [qty : Nat, cost : Nat]]
  /\ targets \in [Symbols -> Weights] \cup {Hold}

\* The open leg of a symbol is the position held in it, through every sequence of
\* adds and partial sales: the liquidation, which walks the legs, misses no share.
LegsMatchHoldings == \A s \in Symbols : legs[s].qty = shares[s]

\* The money adds up: what was paid in, earned by closed legs, spent on costs and
\* bound in open legs (cost_total, pnl of the trade log, final_equity).
MoneyAddsUp ==
  cash + SumFunction([s \in Symbols |-> legs[s].cost]) + paid = Capital + realised

\* A rebalance never spends more than the portfolio, its costs and the drift it
\* left alone.
BorrowsCostsAndDriftOnly ==
  [][\A price \in [Symbols -> Prices] :
       pc = "open" /\ targets # Hold /\ Trade(price) =>
         cash' + (paid' - paid) + Cardinality(Symbols) * Band(Value(price)) >= 0]_vars

\* "no implicit margin", "cash never goes negative".
NoImplicitMargin == cash >= 0

=============================================================================
