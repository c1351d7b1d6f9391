-------------------------- MODULE WatchlistPrices --------------------------
(***************************************************************************)
(* upstreams/dolthub.py and the part of service.py that makes the overview *)
(* of what it fetched.  The prices of the watchlist are collected with     *)
(* five queries of one table, to which rows are added while they run.      *)
(*                                                                         *)
(* A row is the close of a stock on a trading day.  A table gives for each *)
(* <<stock, day>> [seen, filled]: the number of queries answered before    *)
(* the row is there (TooLate: it comes too late for any), and whether it has *)
(* a close with volume and amount, only a close, or none of them.  A price *)
(* is the day it is of.  A query that is tried again (_query) sees what    *)
(* its last attempt sees.                                                  *)
(***************************************************************************)
EXTENDS Integers, Sequences, FiniteSets, FiniteSetsExt, SequencesExt, Ordering

CONSTANTS
  Stocks,      \* the watchlist
  Days,        \* the trading days of the table
  TrendDays    \* how many of them a chart shows; the code's 7

ASSUME WatchlistAssumption ==
  /\ IsFiniteSet(Stocks) /\ Stocks # {}
  /\ Days \subseteq Nat \ {0} /\ IsFiniteSet(Days)
  /\ TrendDays \in Nat \ {0, 1}

TooLate == 5
NoDay == 0       \* MAX over no row

\* The rows that query q may return.
Seen(table, q) == {r \in Stocks \X Days : table[r].seen < q}
DaysOfRows(rows) == {r[2] : r \in rows}
Newest(days) == IF days = {} THEN NoDay ELSE Max(days)

\* Queries 1 and 2.
LatestDate(table) == Newest(DaysOfRows(Seen(table, 1)))
PreviousDate(table) ==
  Newest({d \in DaysOfRows(Seen(table, 2)) : d < LatestDate(table)})

\* Query 3, of either date: the stocks that have a price on it.
Priced(table, day) ==
  {s \in Stocks : <<s, day>> \in Seen(table, 3) /\ table[<<s, day>>].filled # "nothing"}

\* Query 4: the last days of the table; query 5: the closes of a stock on them.
RecentDates(table) ==
  LET days == DaysOfRows(Seen(table, 4))
  IN {d \in days : Cardinality({e \in days : e > d}) < TrendDays}
RecentCloses(table, s) ==
  LET closes == {d \in RecentDates(table) : /\ <<s, d>> \in Seen(table, 5)
                                            /\ table[<<s, d>>].filled # "nothing"}
  IN InOrder(closes, Ascending(closes))

\* fetch_watchlist_prices: <<>> when something is missing (it raises ValueError).
Fetched(table) ==
  LET latest == LatestDate(table)
      previous == PreviousDate(table)
  IN IF /\ Priced(table, latest) = Stocks
        /\ \A s \in Stocks : table[<<s, latest>>].filled = "all"
        /\ Priced(table, previous) = Stocks
        /\ \A s \in Stocks : Len(RecentCloses(table, s)) = TrendDays
     THEN <<[asOf |-> latest, previous |-> previous,
             closes |-> [s \in Stocks |-> RecentCloses(table, s)]]>>
     ELSE <<>>

\* _validate_stock_snapshot, of what Fetched does not see to itself.
Validated(snapshot) ==
  \A s \in Stocks : LET closes == snapshot.closes[s] IN
    /\ \A i \in 1..(Len(closes) - 1) : closes[i] < closes[i + 1]
    /\ closes[TrendDays] = snapshot.asOf

\* split_rankings: the indices of the rows with the largest gain, and loss.
Ranking(changes, limit, gains) ==
  LET size(i) == IF gains THEN changes[i] ELSE -changes[i]
      moved == {i \in DOMAIN changes : size(i) > 0}
      before == {p \in moved \X moved : \/ size(p[1]) > size(p[2])
                                        \/ size(p[1]) = size(p[2]) /\ p[1] < p[2]}
  IN FirstOf(InOrder(moved, before), limit)

-----------------------------------------------------------------------------
(***************************************************************************)
(* Properties.                                                             *)
(***************************************************************************)

\* A day appears in the table before a later one does; its rows come in any order.
DaysComeInOrder(table) ==
  \A d, e \in Days : d < e =>
    \A s \in Stocks : \E t \in Stocks : table[<<t, d>>].seen <= table[<<s, e>>].seen
RowStates == {[seen |-> q, filled |-> "all"] : q \in 0..TooLate}
               \union {[seen |-> 0, filled |-> f] : f \in {"close", "nothing"}}
Tables == {table \in [Stocks \X Days -> RowStates] : DaysComeInOrder(table)}

\* However the rows of a day come in between the queries, a snapshot that is accepted
\* shows every stock on the same days, and the change it shows for a stock is the one
\* between the last two points of the stock's chart: an overlap of two days of trading
\* is refused as incomplete or by the validation, never mixed.
ShowsOneDay(table) ==
  LET fetched == Fetched(table) IN
    fetched # <<>> /\ Validated(fetched[1]) =>
      \A s \in Stocks :
        /\ fetched[1].closes[s][TrendDays] = fetched[1].asOf
        /\ fetched[1].closes[s][TrendDays - 1] = fetched[1].previous
PricesAreOfOneDay == \A table \in Tables : ShowsOneDay(table)

\* No stock is both a gainer and a loser, none without a change is either, and one
\* that is left out does not beat one that is listed.
RankingIsHonest(changes, limit, gains) ==
  LET listed == Range(Ranking(changes, limit, gains)) IN
    /\ listed \intersect Range(Ranking(changes, limit, ~gains)) = {}
    /\ \A i \in listed : changes[i] # 0
    /\ \A i \in DOMAIN changes \ listed, j \in listed :
         IF gains THEN changes[i] <= changes[j] ELSE changes[i] >= changes[j]
RankingsAreHonest ==
  \A changes \in [1..4 -> -2..2], gains \in BOOLEAN : RankingIsHonest(changes, 2, gains)

\* The market page of the day is that of one day.
MarketPageIsSound == PricesAreOfOneDay /\ RankingsAreHonest
=============================================================================
