----------------------------- MODULE Mechanisms -----------------------------
(***************************************************************************)
(* The four auctions (mechanisms/): lowest price or lowest score wins, the *)
(* winner is paid its price or a critical price, up to a reserve.  Money   *)
(* and scores are exact: prices and costs are numbers, a lead time is in   *)
(* halves of the due date, and amounts are compared in fractions `Unit' of *)
(* one.                                                                    *)
(***************************************************************************)
EXTENDS Integers, FiniteSets, FiniteSetsExt

CONSTANTS BetaP, BetaL  \* weights of price and of half a lead time in a score

ASSUME WeightAssumption == BetaP \in Nat \ {0} /\ BetaL \in Nat \ {0}

Delivery == {"M3", "M4"}
Critical == {"M2", "M4"}
Auctions == {"M1", "M2", "M3", "M4"}

\* The bids of an auction are a function of the bidders that do not skip; the
\* reference cost is the mean of ref.n costs, whose sum is ref.sum.
Reference(costs) ==
    [n |-> Cardinality(DOMAIN costs),
     sum |-> SumFunction(costs)]

Score(ref, b) == BetaP * b.price * ref.n + BetaL * b.lead * ref.sum

Rank(m, ref, b) == IF m \in Delivery THEN Score(ref, b) ELSE b.price

\* choose_lowest_bid, choose_lowest_score: any of the tied bidders.
Winners(m, ref, bids) ==
    {i \in DOMAIN bids : \A j \in DOMAIN bids : Rank(m, ref, bids[i]) <= Rank(m, ref, bids[j])}

\* 1.2 and 1.75 are the caps of a single bidder and of the reserve.
Unit(ref) == 20 * ref.n * BetaP

ReservePrice(ref, bids) ==
    5 * BetaP * Max({7 * ref.sum} \cup {4 * ref.n * bids[i].price : i \in DOMAIN bids})

\* The price at which the winner i would tie with the best of the others.
CriticalPrice(m, ref, bids, i) ==
    LET others == DOMAIN bids \ {i} IN
    IF others = {} THEN 24 * ref.n * BetaP * bids[i].price
    ELSE LET second == Min({Rank(m, ref, bids[j]) : j \in others}) IN
         IF m \in Delivery THEN 20 * (second - BetaL * bids[i].lead * ref.sum)
         ELSE Unit(ref) * second

Payment(m, ref, bids, i) ==
    LET own == Unit(ref) * bids[i].price IN
    IF m \in Critical
    THEN Max({own, Min({ReservePrice(ref, bids), CriticalPrice(m, ref, bids, i)})})
    ELSE own

\* The critical mechanisms refuse a reserve below the winning price.
ReserveIsValid(m, ref, bids, i) ==
    m \in Critical => ReservePrice(ref, bids) >= Unit(ref) * bids[i].price
=============================================================================
