------------------------------ MODULE VendorRows ------------------------------
(***************************************************************************)
(* How the adapters turn a vendor's answer into rows: the Yahoo chart with *)
(* its split-adjusted prices, the IMF series with its projections, an RSS  *)
(* feed, and the two vendors of financial statements.                      *)
(*                                                                         *)
(* Pure functions: a behaviour is one answer.  Days and years count from 1.*)
(***************************************************************************)
EXTENDS Integers, Sequences, FiniteSets, FiniteSetsExt, SequencesExt

CONSTANTS
  Nothing,   \* a value the vendor leaves out, or one that is not a number
  Today,     \* days 1 .. Today have been traded
  Prices,    \* raw prices, whole dong
  Splits,    \* splits the vendor may know: [day, num, den]
  Years,     \* years an IMF series covers
  ThisYear, YearOffset,
  Instants   \* publication times

VARIABLE answer   \* what a vendor says, and what it was asked for

-----------------------------------------------------------------------------
(* Yahoo: the printed price is divided by the ratio of every later split *)

Half(num, den) == (2 * num + den) \div (2 * den)   \* ROUND_HALF_UP

Num(splits) == FoldSet(LAMBDA s, n : s.num * n, 1, splits)
Den(splits) == FoldSet(LAMBDA s, n : s.den * n, 1, splits)

\* The vendor's side: prices in hundredths; volumes come in lots, which every ratio divides.
Lot == 12

Adjusted(day, raw, splits) ==
  LET later == {s \in splits : s.day > day}
  IN [price |-> Half(100 * raw * Den(later), Num(later)),
      volume |-> Half(Lot * raw * Num(later), Den(later))]

\* Mutant: the request ends where the window does.
UpperBoundAtEnd(end) == end

\* The request reaches to today, whatever the window: a later split still adjusts.
UpperBound(end) == Max({end, Today})

SplitsSeen == {s \in answer.splits : s.day \in answer.start .. UpperBound(answer.end)}

\* The split of a day does not adjust the bar of that day.
Unadjust(day, bar) ==
  LET after == {s \in SplitsSeen : s.day > day}
  IN [price |-> Half(bar.price * Num(after), 100 * Den(after)),
      volume |-> Half(bar.volume * Den(after), Num(after))]

\* A day without a price or without trades has no bar; the window is trimmed last.
YahooBars ==
  LET traded == {d \in answer.start .. UpperBound(answer.end) :
                   answer.raw[d] \notin {Nothing, 0}}
      bars == [d \in traded |-> Unadjust(d, Adjusted(d, answer.raw[d], answer.splits))]
  IN [d \in traded \cap (answer.start .. answer.end) |-> bars[d]]

\* Corporate actions of the same chart: splits on or after a day.
YahooEvents == {s \in answer.splits : s.day >= answer.start /\ s.day <= Today}

-----------------------------------------------------------------------------
(* IMF: yearly observations; years the vendor projects are left out *)

Cutoff == ThisYear - YearOffset

MacroRows ==
  {y \in DOMAIN answer.series :
     /\ y >= answer.start /\ y <= answer.end
     /\ y <= Cutoff
     /\ answer.series[y] # Nothing}

-----------------------------------------------------------------------------
(* RSS: items with a title and a date, oldest first, strictly after an instant *)

ParseFeed == {i \in answer.items : i.title /\ i.at # Nothing}

OldestFirst(items) ==
  [n \in 1 .. Cardinality(items) |->
     CHOOSE i \in items : Cardinality({j \in items : j.at < i.at}) = n - 1]

FetchNews == OldestFirst({i \in ParseFeed : i.at > answer.since})

-----------------------------------------------------------------------------
(* Financial statements: one reported period as CafeF and as VNDirect name it *)

QuarterEnd(q) == IF q \in 1 .. 4 THEN 3 * q ELSE 3

\* CafeF says "Q2-2026", or a year.
CafefPeriod ==
  LET entry == answer.period
      type == IF entry.quarter = 0 THEN "YEAR" ELSE "QUARTER"
  IN IF type # answer.asked THEN Nothing
     ELSE [type |-> type, year |-> entry.year, period |-> entry.quarter,
           month |-> IF type = "YEAR" THEN 12 ELSE QuarterEnd(entry.quarter)]

\* Mutant: the quarter is counted from the month alone.
QuarterPlain(month) == month \div 3 + 1

QuarterFromMonth(month) == (month - 1) \div 3 + 1

\* VNDirect says the day the period ended and is believed to answer what it was asked.
VndirectPeriod ==
  LET entry == answer.period
      month == IF entry.quarter = 0 THEN 12 ELSE QuarterEnd(entry.quarter)
  IN [type |-> answer.asked, year |-> entry.year,
      period |-> IF answer.asked = "YEAR" THEN 0 ELSE QuarterFromMonth(month),
      month |-> month]

\* A line without a code or a value is left out, never stored as zero.
Lines == {l \in answer.lines : l.code # Nothing /\ l.value # Nothing}

-----------------------------------------------------------------------------

Yahoo == [kind : {"yahoo"}, raw : [1 .. Today -> Prices \cup {Nothing}],
          splits : SUBSET Splits, start : 1 .. Today, end : 1 .. Today]
Imf == [kind : {"imf"}, series : [Years -> {Nothing, 1}], start : Years, end : Years]
Feeds == [kind : {"rss"}, items : SUBSET [title : BOOLEAN, at : Instants \cup {Nothing}],
          since : Instants]
Statements == [kind : {"financials"}, period : [year : Years, quarter : 0 .. 4],
               asked : {"YEAR", "QUARTER"},
               lines : SUBSET [code : {Nothing, 1}, value : {Nothing, 0, 1}]]

\* What is known of the constants: traded days and prices, and splits the vendor keeps its
\* hundredths of a price and its lots of a volume exact for.
RowsConstants ==
  /\ Today \in Nat \ {0} /\ Prices \subseteq Nat
  /\ Years \subseteq Int /\ ThisYear \in Int /\ YearOffset \in Nat \ {0}
  /\ IsFiniteSet(Instants) /\ Instants \subseteq Int
  /\ IsFiniteSet(Splits)
  /\ \A s \in Splits : s.day \in 1 .. Today /\ s.num \in Nat \ {0} /\ s.den \in Nat \ {0}
  /\ \A known \in SUBSET Splits : /\ Num(known) < 100 * Den(known)
                                  /\ (Lot * Num(known)) % Den(known) = 0

ASSUME RowsAssumption == RowsConstants

RowsInit == answer \in Yahoo \cup Imf \cup Feeds \cup Statements

\* What the vendor reported stays what it reported.
RowsSpec == RowsInit /\ [][UNCHANGED answer]_answer

-----------------------------------------------------------------------------
(* Properties *)

\* A day's bar is the price and the volume that were printed that day, however many splits
\* came later, inside the window or after it; a day without trades has no bar.
RawPrints ==
  answer.kind = "yahoo" =>
    /\ DOMAIN YahooBars = {d \in answer.start .. answer.end : answer.raw[d] \notin {Nothing, 0}}
    /\ \A d \in DOMAIN YahooBars :
         YahooBars[d] = [price |-> answer.raw[d], volume |-> Lot * answer.raw[d]]

\* Both vendors give a reported period the same key, so that what one of them reported is
\* compared with, not stored beside, what the other one restates.
VendorsAgree ==
  answer.kind = "financials" /\ CafefPeriod # Nothing => CafefPeriod = VndirectPeriod

\* No projection and no item at or before the instant asked for gets through.
NothingInvented ==
  /\ answer.kind = "imf" => \A y \in MacroRows : y < ThisYear /\ answer.series[y] # Nothing
  /\ answer.kind = "rss" => \A i, j \in DOMAIN FetchNews :
                              /\ FetchNews[i].at > answer.since
                              /\ i < j => FetchNews[i].at <= FetchNews[j].at

\* What the adapters hand on is what the vendor reported.
RowsAreHonest == RawPrints /\ VendorsAgree /\ NothingInvented

=============================================================================
