------------------------------ MODULE MCServices ------------------------------
(* Services on small inputs: a part that is not exercised has one initial state. *)
EXTENDS Services, TLC

CONSTANTS a, b, x, p1, p2

\* A rising, a falling and an unknown share, which is what b starts as.
Row(high, low, close, volume) == [high |-> high, low |-> low, close |-> close, volume |-> volume]

MCBoards ==
  {[rows |-> <<Row(3, 1, 2, 1), Row(3, 2, 3, 4)>>, rsi |-> 75, risk |-> 25, signal |-> "POSITIVE",
    flagged |-> FALSE, quality |-> [below |-> FALSE, score |-> 60]],
   [rows |-> <<Row(3, 2, 2, 2), Row(2, 1, 1, 2)>>, rsi |-> None, risk |-> 15, signal |-> "NEGATIVE",
    flagged |-> TRUE, quality |-> [below |-> TRUE, score |-> 60]],
   [rows |-> <<>>, rsi |-> None, risk |-> None, signal |-> None, flagged |-> FALSE, quality |-> None]}

MCWatchlists == {<<"b", "a">>, <<"a", "a">>}
MCBaselines == {[s \in {} |-> None], [s \in {"a"} |-> "POSITIVE"]}

Bar(s, d, low, close, high, vol) ==
  [key |-> <<s, d>>, symbol |-> s, day |-> d, open |-> close, low |-> low,
   close |-> close, high |-> high, volume |-> vol]
Point(s, d, v) == [key |-> <<s, d>>, day |-> d, value |-> v]
Item(src, title, d, syms, flaws) ==
  [key |-> <<src, title>>, day |-> d, symbols |-> syms, flaws |-> flaws]
Event(s, kind, d) == [key |-> <<s, kind>>, symbol |-> s, day |-> d]

MCFeed ==
  [prices |-> {Bar(a, 1, 1, 2, 3, 1), Bar(a, 1, 2, 3, 3, 1), Bar(a, 1, 3, 2, 1, 1),
               Bar(a, 2, 1, 2, 3, 0), Bar(x, 1, 1, 2, 3, 1), Bar(a, 2, 1, 4, 3, 1)},
   index_prices |-> {Bar(a, 1, 1, 2, 3, 1), Bar(a, 2, 0, 2, 3, 1), Bar(a, 2, 1, 2, 3, 1),
                     Bar(a, 3, 1, 2, 3, 1)},
   macro |-> {Point(a, 0, 1), Point(a, 1, 1), Point(a, 1, 2)},
   news |-> {Item(a, 1, 1, {a}, {}), Item(a, 1, 2, {x}, {}), Item(b, 1, 1, {}, {"content"})},
   events |-> {Event(a, 1, 1), Event(a, 2, 0), Event(x, 1, 1)}]

Sym == Permutations(Procs)

MCInit ==
  /\ Init
  /\ part # "ingestion" => dataset = "macro"
  /\ part # "api" => world = [db |-> TRUE, qdrant |-> FALSE, model |-> 0]
  /\ market["b"].rows = <<>> /\ (part # "monitoring" => market["a"].rows = <<>>)

MCSpec == MCInit /\ [][Next]_vars

=============================================================================
