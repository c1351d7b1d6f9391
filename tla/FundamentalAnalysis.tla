------------------------ MODULE FundamentalAnalysis ------------------------
(***************************************************************************)
(* What fundamental_analysis.py makes of the figures of a company: the     *)
(* reports it compares, ratios, risk flags, scores, the stance of its      *)
(* conclusion, and the peers it picks from an industry.                    *)
(*                                                                         *)
(* A figure is an optional integer: <<>> when the source lacks it.  A      *)
(* ratio is <<>> or a fraction <<n, d>> with d > 0.  A date of a report is *)
(* the number of its quarter, so that a year is four.                      *)
(***************************************************************************)
EXTENDS Integers, Sequences, FiniteSets, FiniteSetsExt, Ordering

Given(figure) == figure # <<>>
OrZero(figure) == IF Given(figure) THEN figure[1] ELSE 0

\* round(): to the nearest, ties to even.  d > 0
Rounded(n, d) ==
  LET f == n \div d  r == 2 * (n % d) IN
    IF r < d THEN f ELSE IF r > d THEN f + 1 ELSE f + (f % 2)

\* _ratio, and _round_optional of it in hundredths
RatioOf(n, d) ==
  IF ~Given(n) \/ ~Given(d) \/ d = <<0>> THEN <<>>
  ELSE IF d[1] < 0 THEN <<-n[1], -d[1]>> ELSE <<n[1], d[1]>>
Hundredths(ratio) == IF ratio = <<>> THEN <<>> ELSE <<Rounded(100 * ratio[1], ratio[2])>>

\* _growth_rate
GrowthRate(now, before) ==
  IF ~Given(now) THEN <<>> ELSE RatioOf(<<now[1] - OrZero(before)>>, before)

-----------------------------------------------------------------------------
(* Which reports are compared *)

NoRow == 0

\* sort_values(ascending=False): by value, the largest first; pandas leaves open which of
\* two equal ones comes first.
Descending(value, set) ==
  {p \in set \X set : \/ value[p[1]] > value[p[2]]
                      \/ value[p[1]] = value[p[2]] /\ p[1] < p[2]}
LargestFirst(s, value) == Arranged(s, 1..Len(s), Descending(value, 1..Len(s)))

\* _sorted_rows: newest first; rows are the dates of the reports.
NewestFirst(rows) == LargestFirst(rows, rows)

\* _previous_comparable_row: the report of the same quarter of the year before,
\* or else the newest earlier one.
PreviousComparable(rows, latest) ==
  LET sorted == NewestFirst(rows)
      sameQuarter == Sifted(sorted, {k \in 1..Len(rows) : sorted[k] = latest - 4})
      earlier == Sifted(sorted, {k \in 1..Len(rows) : sorted[k] < latest})
  IN IF rows = <<>> \/ latest = NoRow THEN NoRow
     ELSE IF Len(sameQuarter) > 0 THEN sameQuarter[1]
     ELSE IF Len(earlier) > 0 THEN earlier[1] ELSE NoRow

-----------------------------------------------------------------------------
(* The report: what analyze derives from the figures f *)

FreeCashFlow(f) == IF Given(f.ocf) THEN <<f.ocf[1] - (IF OrZero(f.capex) < 0 THEN -OrZero(f.capex)
                                                     ELSE OrZero(f.capex))>>
                   ELSE <<>>
CashRatio(f) == Hundredths(RatioOf(f.ocf, f.profit))
DebtToAsset(f) == Hundredths(RatioOf(f.liabilities, f.assets))
RevenueGrowth(f) == GrowthRate(f.revenue, f.revenueBefore)

\* g > r + 0.2, of two growth rates
Outpaces(g, r) == g # <<>> /\ r # <<>> /\ 5 * g[1] * r[2] > (5 * r[1] + r[2]) * g[2]

\* _build_risk_flags
Flags(f) ==
  LET netAssets == OrZero(f.assets) - OrZero(f.liabilities)
      raised ==
        [low_profit_cash_conversion |-> Given(CashRatio(f)) /\ CashRatio(f)[1] < 80,
         weak_operating_cash_flow |-> Given(FreeCashFlow(f)) /\ FreeCashFlow(f)[1] <= 0,
         high_debt_to_asset |-> Given(DebtToAsset(f)) /\ DebtToAsset(f)[1] > 60,
         receivables_growth_outpaces_revenue |->
           Outpaces(GrowthRate(f.receivables, f.receivablesBefore), RevenueGrowth(f)),
         inventory_pressure |->
           Outpaces(GrowthRate(f.inventory, f.inventoryBefore), RevenueGrowth(f)),
         goodwill_pressure |-> Given(f.goodwill) /\ netAssets > 0 /\ 10 * f.goodwill[1] > 3 * netAssets,
         low_gross_margin |-> Given(f.grossMargin) /\ f.grossMargin[1] < 20]
  IN {code \in DOMAIN raised : raised[code]}

\* simple_dcf with its fixed rates: calculated from a positive cash flow only.
DcfCalculated(f) == Given(FreeCashFlow(f)) /\ FreeCashFlow(f)[1] > 0

\* _score_threshold
ScoreThreshold(figure, high, medium) ==
  IF ~Given(figure) THEN 3
  ELSE IF figure[1] >= high THEN 5 ELSE IF figure[1] >= medium THEN 4
  ELSE IF figure[1] >= 0 THEN 3 ELSE 2

\* Mutant of Scores: the cash flow ratio is scored before it is rounded.
ScoresUnrounded(f) ==
  LET cash == RatioOf(f.ocf, f.profit) IN
  [finance |-> ScoreThreshold(IF cash = <<>> THEN <<>> ELSE <<(100 * cash[1]) \div cash[2]>>, 100, 80),
   profitability |-> ScoreThreshold(f.roe, 20, 10),
   growth |-> ScoreThreshold(Hundredths(RevenueGrowth(f)), 15, 5),
   valuation |-> IF ~Given(f.pe) THEN 3 ELSE IF f.pe[1] <= 25 THEN 4 ELSE IF f.pe[1] <= 40 THEN 3 ELSE 2,
   risk |-> 5 - Min({Cardinality(Flags(f)), 4}),
   dcf |-> IF DcfCalculated(f) THEN 4 ELSE 3]

\* _build_scorecard; the composite is in tenths.
Scores(f) ==
  [finance |-> ScoreThreshold(CashRatio(f), 100, 80),
   profitability |-> ScoreThreshold(f.roe, 20, 10),
   growth |-> ScoreThreshold(Hundredths(RevenueGrowth(f)), 15, 5),
   valuation |-> IF ~Given(f.pe) THEN 3 ELSE IF f.pe[1] <= 25 THEN 4 ELSE IF f.pe[1] <= 40 THEN 3 ELSE 2,
   risk |-> 5 - Min({Cardinality(Flags(f)), 4}),
   dcf |-> IF DcfCalculated(f) THEN 4 ELSE 3]
Composite(f) ==
  LET s == Scores(f) IN
    Rounded(10 * (s.finance + s.profitability + s.growth + s.valuation + s.risk + s.dcf), 6)

\* analyze, of the warnings that go with a report: those about the cash flow.
Warnings(f) ==
  (IF Given(f.ocf) THEN {} ELSE {"cash_flow_missing"})
    \union (IF DcfCalculated(f) THEN {} ELSE {"dcf_not_calculated"})

\* _build_conclusion
Stance(f) == IF Composite(f) >= 40 /\ Flags(f) = {} THEN "strong"
             ELSE IF Composite(f) >= 30 THEN "supported" ELSE "pressed"

-----------------------------------------------------------------------------
(* The peers of an industry: a row is [code, cap], cap <<>> if it is no number. *)

Bad == "bad"   \* a code that is no A-share symbol

\* _build_peer_comparison without peer symbols: the largest first, without the
\* stock itself and bad codes; the limit, which may be 0, is looked at after each
\* peer is added, so that the first one is never left out.
Peers(rows, own, most) ==
  LET sorted == LargestFirst(rows, [i \in 1..Len(rows) |-> OrZero(rows[i].cap)])
      usable == Sifted(sorted, {k \in 1..Len(rows) : sorted[k].code \notin {own, Bad}})
  IN FirstOf(usable, IF most < 1 THEN 1 ELSE most)

-----------------------------------------------------------------------------
(***************************************************************************)
(* Properties: facts about these functions, over small figures.            *)
(***************************************************************************)

Optional(values) == {<<>>} \union {<<v>> : v \in values}
Lacking == [k \in {"ocf", "capex", "profit", "revenue", "revenueBefore", "roe", "grossMargin", "pe",
                   "liabilities", "assets", "receivables", "receivablesBefore", "inventory",
                   "inventoryBefore", "goodwill"} |-> <<>>]
Company(o, c, p, r, e, v) ==
  [Lacking EXCEPT !.ocf = o, !.capex = c, !.profit = p, !.revenue = r, !.revenueBefore = <<20>>,
                  !.roe = e, !.pe = v]
Figures ==
  {Company(o, c, p, r, e, v) :
     o \in Optional({-10, 0, 3, 10, 239}), c \in Optional({-5, 0}), p \in Optional({-10, 0, 10, 300}),
     r \in Optional({18, 21, 23}), e \in Optional({-1, 10, 20}), v \in Optional({-5, 41})}

\* No company is called strong whose operations bring in no cash; and one that loses
\* money is called strong only if its cash flow is missing, and then under a warning
\* that says so.  (With the cash flow known, the ratio of two losses is positive and
\* scores best, but a flag is raised.  With it missing no flag is, so that a loss of 10
\* with a return of 20, a growth of 15 and a negative price ratio is called strong.)
StrongOnlyWithCash(f) ==
  Stance(f) = "strong" =>
    /\ Given(f.ocf) => f.ocf[1] > 0
    /\ Given(f.profit) /\ f.profit[1] < 0 => Warnings(f) = {"cash_flow_missing", "dcf_not_calculated"}
StrongLossIsWarnedOf == \A f \in Figures : StrongOnlyWithCash(f)

\* A missing figure is never worth more than one that is not bad: whatever is missing
\* in h of a company f without a flag or a score below the middle, no score is better
\* for it and the company is not called strong if it was not.  (It is worth more than
\* a bad figure, which may raise a flag or score 2.)
Hides(h, f) == DOMAIN h = DOMAIN f /\ \A k \in DOMAIN f : h[k] \in {f[k], <<>>}
NothingBad(f) == Flags(f) = {} /\ \A aspect \in DOMAIN Scores(f) : Scores(f)[aspect] >= 3
MissingIsNoMerit(h, f) ==
  Hides(h, f) /\ NothingBad(f) =>
    /\ \A aspect \in DOMAIN Scores(f) : Scores(h)[aspect] <= Scores(f)[aspect]
    /\ Stance(h) = "strong" => Stance(f) = "strong"
MissingFiguresAreNoMerit ==
  \A f \in {g \in Figures : NothingBad(g)} : \A hidden \in SUBSET {k \in DOMAIN f : Given(f[k])} :
    MissingIsNoMerit([k \in DOMAIN f |-> IF k \in hidden THEN <<>> ELSE f[k]], f)

\* The score of financial quality and the flag of low cash conversion, which are
\* shown side by side, are of one mind at the threshold.
CashFlagMatchesScore ==
  \A f \in Figures : Given(CashRatio(f)) =>
    (Scores(f).finance <= 3 <=> "low_profit_cash_conversion" \in Flags(f))

Dates == UNION {{d \in [1..n -> 1..9] : \A i, j \in 1..n : d[i] = d[j] => i = j} : n \in 0..3}

\* Growth compares like with like: the same quarter of the year before whenever
\* there is one, in whatever order the source lists its reports, and never a
\* later report.
LikeWithLike(rows, latest) ==
  LET before == PreviousComparable(rows, latest)
      all == {rows[k] : k \in 1..Len(rows)} IN
    IF latest - 4 \in all THEN before = latest - 4
    ELSE before = Max({r \in all : r < latest} \union {NoRow})
ComparesLikeWithLike ==
  \A rows \in Dates : \A i \in 1..Len(rows) : LikeWithLike(rows, rows[i])

Industry == UNION {[1..n -> [code: {"own", "a", "b", Bad}, cap: Optional({1, 2})]] : n \in 0..3}

\* Peers are other companies, as many as asked for if the industry has them, and
\* none that was left out is larger: of any size there are as many as the industry has.
\* A limit of 0 is the exception: the code then shows one, as for a limit of 1.
LargestPeers(rows, own, most, caps) ==
  LET peers == Peers(rows, own, most)
      usable == {i \in 1..Len(rows) : rows[i].code \notin {own, Bad}}
      shown == Max({1, most}) IN
    /\ \A k \in 1..Len(peers) : peers[k].code \notin {own, Bad}
    /\ Len(peers) = Min({shown, Cardinality(usable)})
    /\ \A cap \in caps :
         Cardinality({k \in 1..Len(peers) : OrZero(peers[k].cap) >= cap})
           = Min({shown, Cardinality({i \in usable : OrZero(rows[i].cap) >= cap})})
PeersAreTheLargest ==
  \A rows \in Industry, most \in 0..2 : LargestPeers(rows, "own", most, 0..2)

\* What an analysis tells of a company is fair to its figures, its past and its peers.
AnalysisIsFair ==
  /\ StrongLossIsWarnedOf /\ MissingFiguresAreNoMerit /\ CashFlagMatchesScore
  /\ ComparesLikeWithLike /\ PeersAreTheLargest
=============================================================================
