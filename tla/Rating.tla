------------------------------- MODULE Rating -------------------------------
(***************************************************************************)
(* A classified use is rated in three plans, the settlement, the wholesale *)
(* and the subscriber's retail plan: in each the best rate line is looked  *)
(* up first, then the three tariffs are computed, each from the one before.*)
(* A use that finds no line or a barred one is refused.  Amounts are       *)
(* integers, Grain of them to the last decimal digit prices are rounded to.*)
(***************************************************************************)
EXTENDS Integers, Sequences, FiniteSets

CONSTANTS
  Field,       \* the fields of a rate key
  Value,       \* what may stand in a field, "*" among them
  Ratings,     \* the inputs: a key and the lines of the three plans
  Grain        \* parts of the last digit

Stages == <<"settlement", "wholesale", "retail">>

Stage == {Stages[i] : i \in 1..3}

RateKey == [Field -> Value]

\* An unknown tariff type is what JSON may bring in.
RateLine ==
  [key : RateKey, tariffType : {"ACTUAL", "PERCENTAGE", "MARKUP", "unknown"},
   base : Int, measure : Nat \ {0}, barred : BOOLEAN]

ASSUME RatingAssumption ==
  /\ "*" \in Value /\ IsFiniteSet(Field)
  /\ Grain \in Nat \ {0}
  /\ \A r \in Ratings : r.key \in RateKey /\ \A s \in Stage : r.plans[s] \in Seq(RateLine)

VARIABLES
  rating,      \* the input
  found,       \* the rate lines found so far, one for each stage
  prices,      \* the unit prices computed so far
  verdict      \* "open", "rated" or "refused"

ratingVars == <<rating, found, prices, verdict>>

RatingInit == rating \in Ratings /\ found = <<>> /\ prices = <<>> /\ verdict = "open"

(***************************************************************************)
(* Choosing a line.                                                        *)
(***************************************************************************)
Wild(key, pattern, f) == "*" \in {key[f], pattern[f]}

Matches(key, pattern) == \A f \in Field : Wild(key, pattern, f) \/ key[f] = pattern[f]

Score(key, pattern) == Cardinality({f \in Field : ~Wild(key, pattern, f)})

\* Mutant: the first line that matches is taken.
BestLinesFirst(lines, key) ==
  LET fit == {i \in DOMAIN lines : Matches(key, lines[i].key)}
  IN {i \in fit : \A j \in fit : i <= j}

\* The loop keeps the last line of each score, and takes that of the highest.
BestLines(lines, key) ==
  LET fit == {i \in DOMAIN lines : Matches(key, lines[i].key)}
      score(i) == Score(key, lines[i].key)
  IN {i \in fit : \A j \in fit : score(j) < score(i) \/ (score(j) = score(i) /\ j <= i)}

LinesOf(i) == rating.plans[Stages[i]]

FindLine ==
  /\ verdict = "open" /\ Len(found) < 3
  /\ \E i \in BestLines(LinesOf(Len(found) + 1), rating.key) :
       found' = Append(found, LinesOf(Len(found) + 1)[i])
  /\ UNCHANGED <<rating, prices, verdict>>

NoRatingEntry ==
  /\ verdict = "open" /\ Len(found) < 3
  /\ BestLines(LinesOf(Len(found) + 1), rating.key) = {}
  /\ verdict' = "refused"
  /\ UNCHANGED <<rating, found, prices>>

(***************************************************************************)
(* Computing the tariffs.                                                  *)
(***************************************************************************)
HalfUp(n, d) == ((2 * n + d * Grain) \div (2 * d * Grain)) * Grain

\* n / d, rounded to the last digit, half of one away from zero.
Rounded(n, d) == IF n < 0 THEN -HalfUp(-n, d) ELSE HalfUp(n, d)

\* Mutant: a percentage is taken of the price and not added to it.
UnitPriceShare(line, dependant) ==
  CASE line.tariffType = "ACTUAL" -> Rounded(line.base, line.measure)
    [] line.tariffType = "PERCENTAGE" -> Rounded(dependant * line.base, 100)
    [] line.tariffType = "MARKUP" -> dependant + line.base
    [] line.tariffType = "unknown" -> 0

\* calcTariff; a percentage is in hundredths.
UnitPrice(line, dependant) ==
  CASE line.tariffType = "ACTUAL" -> Rounded(line.base, line.measure)
    [] line.tariffType = "PERCENTAGE" -> Rounded(dependant * (100 + line.base), 100)
    [] line.tariffType = "MARKUP" -> dependant + line.base
    [] line.tariffType = "unknown" -> 0

Computing == verdict = "open" /\ Len(found) = 3 /\ Len(prices) < 3

Next3 == Len(prices) + 1

\* The settlement tariff has none to depend on.
Refused ==
  \/ found[Next3].barred
  \/ prices = <<>> /\ found[1].tariffType \in {"PERCENTAGE", "MARKUP"}

CalcTariff ==
  /\ Computing /\ ~Refused
  /\ prices' = Append(prices,
       UnitPrice(found[Next3], IF prices = <<>> THEN 0 ELSE prices[Len(prices)]))
  /\ verdict' = IF Next3 = 3 THEN "rated" ELSE "open"
  /\ UNCHANGED <<rating, found>>

RefuseTariff ==
  /\ Computing /\ Refused
  /\ verdict' = "refused"
  /\ UNCHANGED <<rating, found, prices>>

RatingNext == FindLine \/ NoRatingEntry \/ CalcTariff \/ RefuseTariff

RatingSpec == RatingInit /\ [][RatingNext]_ratingVars

(***************************************************************************)
(* Properties.                                                             *)
(***************************************************************************)
\* Every field the other line names, this one names, and one more.
MoreSpecific(a, b) ==
  /\ \A f \in Field : b[f] # "*" => a[f] # "*"
  /\ \E f \in Field : b[f] = "*" /\ a[f] # "*"

\* The line that is found matches, and none that matches says more of the fields
\* the key has, whatever the order of the lines (findBestRateLine, Matches).
MostSpecificLine ==
  \A i \in 1..Len(found) :
    /\ Matches(rating.key, found[i].key)
    /\ \A j \in DOMAIN LinesOf(i) :
         Matches(rating.key, LinesOf(i)[j].key)
           => ~\E f \in Field : /\ rating.key[f] # "*" /\ found[i].key[f] = "*"
                                /\ LinesOf(i)[j].key[f] # "*"
                                /\ MoreSpecific(LinesOf(i)[j].key, found[i].key)

\* Nobody sells below what he pays: a price that is a surcharge on another, none
\* that is negative, is not lower, but for the rounding of a percentage on a price
\* that was marked up by less than the last digit (calcTariff).
SurchargesCover ==
  \A i \in 2..Len(prices) :
    found[i].tariffType \in {"PERCENTAGE", "MARKUP"} /\ found[i].base >= 0
      /\ prices[i - 1] >= 0
      => 2 * (prices[i - 1] - prices[i]) <= Grain
==============================================================================
