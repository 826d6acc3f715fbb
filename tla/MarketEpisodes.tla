--------------------------- MODULE MarketEpisodes ---------------------------
(***************************************************************************)
(* Two episodes of one replication (run_route_episode, run_episode): that  *)
(* of a profile and that of a profile with a deviation.  Their difference  *)
(* is a paired estimate only if both see the same orders, rates, pressures *)
(* and outsiders, whatever the bids are.  They share nothing but the seeds *)
(* of four random streams; here a stream is where it stands, and two       *)
(* episodes that stand at the same place draw the same.  The policies are  *)
(* left open: a feasible provider skips or bids anything.                  *)
(***************************************************************************)
EXTENDS RouteCapacity, Mechanisms

CONSTANTS Horizon, OutsideBurnIn,  \* periods, and updates of the route market before
          Needs, Works, Dues,
          MaxRedraws,       \* orders nobody is eligible for, in a row
          Costs, Markups

\* Workloads and due dates are positive, no cost and no markup is negative.
ASSUME MarketAssumption ==
    /\ Works \subseteq Nat \ {0} /\ Dues \subseteq Nat \ {0}
    /\ Costs \subseteq Nat /\ Markups \subseteq Nat

VARIABLES layer, mechanism, period, step, turn, order, states, position, flags, outcome

vars == <<layer, mechanism, period, step, turn, order, states, position, flags, outcome>>

Episodes == {"base", "deviation"}
Layers == {"route", "toy", "core", "full"}
IsRoute == layer = "route"

NoOutcome == [winner |-> {}, price |-> 0, payment |-> 0, reserve |-> 0, committed |-> 0]
NoFlags == [capable |-> {}, scalar |-> {}, feasible |-> {}]

\* _replication_rngs: the seeds of both episodes are equal.
Start == [order |-> 0, tie |-> 0, outside |-> 0, rate |-> 0]

Init ==
    /\ layer \in Layers /\ mechanism \in Auctions
    /\ period = IF IsRoute THEN -OutsideBurnIn ELSE 0
    /\ step = "advance" /\ turn = "base" /\ order = [e \in Episodes |-> {}]
    /\ states = [e \in Episodes |-> [p \in Providers |->
                    IF IsRoute THEN initialize_route_state(p) ELSE ToyState]]
    /\ position = [e \in Episodes |-> Start]
    /\ flags = [e \in Episodes |-> NoFlags]
    /\ outcome = NoOutcome

\* The other episode draws the same from streams that stand at the same place.
Paired(streams) == \A s \in streams : position["base"][s] = position["deviation"][s]
Draws(Values, streams) ==
    IF Paired(streams) THEN {[e \in Episodes |-> v] : v \in Values} ELSE [Episodes -> Values]

\* Only the aggregate market advances its queues once more at the end.
Advance ==
    /\ step = "advance" /\ period <= Horizon
    /\ states' = IF period = Horizon /\ IsRoute THEN states
                 ELSE [e \in Episodes |-> [p \in Providers |->
                    IF IsRoute THEN advance_reservations(states[e][p]) ELSE advance_queues(states[e][p])]]
    /\ step' = IF period = Horizon THEN "done" ELSE "update"
    /\ UNCHANGED <<layer, mechanism, period, turn, order, position, flags, outcome>>

UpdateRoute ==
    /\ step = "update" /\ IsRoute
    /\ \E noise \in Draws(RouteNoise, {"rate", "outside"}) :
        states' = [e \in Episodes |-> [p \in Providers |->
                        update_operating_state(p, states[e][p], noise[e])]]
    /\ position' = [e \in Episodes |->
            [position[e] EXCEPT !.rate = @ + Cardinality(Slots), !.outside = @ + Cardinality(Slots)]]
    /\ IF period < 0 THEN period' = period + 1 /\ step' = "advance"
       ELSE step' = "offer" /\ UNCHANGED period
    /\ UNCHANGED <<layer, mechanism, turn, order, flags, outcome>>

UpdateToy ==
    /\ step = "update" /\ ~IsRoute
    /\ \E noise \in Draws([Providers -> ToyNoise(layer)], {"rate", "outside"}) :
        /\ states' = [e \in Episodes |-> [p \in Providers |->
                        update_exogenous_state(states[e][p], layer, noise[e][p])]]
        /\ position' = [e \in Episodes |->
            [position[e] EXCEPT
                !.outside = @ + DrawsOf(layer, noise[e]),
                !.rate = @ + IF AvailabilityShocks THEN Cardinality(Providers) ELSE 0]]
    /\ step' = "offer"
    /\ UNCHANGED <<layer, mechanism, period, turn, order, flags, outcome>>

\* generate_machining_order; generate_order, again until somebody is eligible,
\* which the population decides and no state does (after many failures the
\* order is made one of a provider's).  The stream moves on by orders.
Orders ==
    IF IsRoute THEN [work : Families, due : Dues]
    ELSE {o \in [needs : Needs, work : Works, due : Dues] : \E p \in Providers : is_eligible(p, o)}

CapableOf(o) ==
    {p \in Providers : IF IsRoute THEN is_capability_feasible(p, o) ELSE is_eligible(p, o)}

FlagsOf(e, o) ==
    [capable |-> CapableOf(o),
     scalar |-> IF IsRoute THEN {p \in Providers : is_aggregate_capacity_feasible(p, states[e][p], o)}
                ELSE CapableOf(o),
     feasible |-> {p \in Providers :
                      IF IsRoute THEN is_route_capacity_feasible(p, states[e][p], o)
                      ELSE toy_feasible(layer, p, states[e][p], o)}]

Offer ==
    /\ step = "offer"
    /\ \E drawn \in Draws([order : Orders, redraws : IF IsRoute THEN {0} ELSE 0..MaxRedraws], {"order"}) :
        /\ order' = [e \in Episodes |-> drawn[e].order]
        /\ position' = [e \in Episodes |-> [position[e] EXCEPT !.order = @ + 1 + drawn[e].redraws]]
        /\ flags' = [e \in Episodes |-> FlagsOf(e, drawn[e].order)]
        /\ step' = IF \E e \in Episodes : CapableOf(drawn[e].order) = {} THEN "error" ELSE "auction"
    /\ UNCHANGED <<layer, mechanism, period, turn, states, outcome>>

-----------------------------------------------------------------------------

\* The winner of ties is drawn from a stream of its own, once if there is a bid.
\* Faulty variant: it is drawn from the stream of the orders.
TieStreamOfOrders == "order"
TieStream == "tie"

\* A policy commits to 0.7 up to 1.4 of the due date, rounded to periods.
Commitments(due) == (7 * due + 5) \div 10 .. (14 * due + 5) \div 10

\* A provider that is not feasible does not bid, whatever its policy says.
BidOptions(e) ==
    LET price(c) == {c + m : m \in Markups}
        committed == IF IsRoute /\ mechanism \notin Delivery THEN {order[e].due}
                     ELSE Commitments(order[e].due)
        halves(n) == (2 * n) \div order[e].due
        of(c) == [cost : {c}, price : price(c), committed : committed]
    IN {[cost |-> b.cost, price |-> b.price, committed |-> b.committed, lead |-> halves(b.committed)] :
            b \in UNION {of(c) : c \in Costs}}

\* Costs of those the reference cost is the mean of, bids of those that bid.
Submissions(e) ==
    LET counted == IF IsRoute THEN flags[e].capable ELSE Providers IN
    UNION {{[costs |-> [p \in counted |-> IF p \in bidders THEN bids[p].cost ELSE skipped[p]],
             bids |-> bids] :
                bids \in [bidders -> BidOptions(e)], skipped \in [counted \ bidders -> Costs]} :
           bidders \in SUBSET flags[e].feasible}

Award(submission, i) ==
    LET ref == Reference(submission.costs)
        b == submission.bids[i]
    IN [winner |-> {i}, price |-> Unit(ref) * b.price, committed |-> b.committed,
        payment |-> Payment(mechanism, ref, submission.bids, i),
        reserve |-> ReservePrice(ref, submission.bids)]

\* allocate_and_pay for the episode whose turn it is.
Auction ==
    /\ step = "auction"
    /\ \E submission \in Submissions(turn) :
        LET ref == Reference(submission.costs)
            bids == submission.bids
        IN IF DOMAIN bids = {}
           THEN step' = "placed" /\ UNCHANGED <<position, outcome>>
           ELSE \E i \in Winners(mechanism, ref, bids) :
                /\ outcome' = Award(submission, i)
                /\ step' = IF ReserveIsValid(mechanism, ref, bids, i) THEN "reserve" ELSE "error"
                /\ position' = [position EXCEPT ![turn][TieStream] = @ + 1]
    /\ UNCHANGED <<layer, mechanism, period, turn, order, states, flags>>

\* reserve_order refuses what does not fit; add_platform_job takes it.
Reserve ==
    /\ step = "reserve"
    /\ \E w \in outcome.winner :
        LET s == states[turn][w]
            o == order[turn]
        IN IF IsRoute /\ ~is_route_capacity_feasible(w, s, o)
           THEN step' = "error" /\ UNCHANGED states
           ELSE /\ step' = "placed"
                /\ states' = [states EXCEPT ![turn][w] =
                        IF IsRoute THEN reserve_order(s, o, outcome.committed)
                        ELSE add_platform_job(s, o, outcome.committed)]
    /\ UNCHANGED <<layer, mechanism, period, turn, order, position, flags, outcome>>

\* The episodes take turns; nothing of the order outlives the period.
EndOfTurn ==
    /\ step = "placed"
    /\ outcome' = NoOutcome
    /\ IF turn = "base"
       THEN /\ turn' = "deviation" /\ step' = "auction"
            /\ UNCHANGED <<period, order, flags>>
       ELSE /\ turn' = "base" /\ step' = "advance" /\ period' = period + 1
            /\ order' = [e \in Episodes |-> {}] /\ flags' = [e \in Episodes |-> NoFlags]
    /\ UNCHANGED <<layer, mechanism, states, position>>

Done == step = "done" /\ UNCHANGED vars

Next ==
    \/ Advance \/ UpdateRoute \/ UpdateToy \/ Offer
    \/ Auction \/ Reserve \/ EndOfTurn \/ Done

Spec == Init /\ [][Next]_vars

-----------------------------------------------------------------------------

\* No award is one the code would raise an error for, or regret: a winner has
\* a free share of every machine group of the route (or of the one capacity)
\* for what it took, although rates and outsiders change every period; it is
\* paid at least its price and at most the reserve; and a provider whose route
\* is feasible is feasible by the aggregate measure the case study compares
\* it with.
AwardIsSound ==
    /\ step # "error"
    /\ \A e \in Episodes : flags[e].feasible \subseteq flags[e].scalar
    /\ step = "placed" =>
        /\ \A w \in outcome.winner :
            IF IsRoute
            THEN \A g \in DOMAIN order[turn].work : RouteFits(w, states[turn][w], g)
            ELSE ToyFits(w, states[turn][w])
        /\ outcome.price <= outcome.payment /\ outcome.payment <= outcome.reserve

\* What of a provider's state is no consequence of its bids.
World(s) ==
    IF IsRoute THEN <<s.rate, s.pressure>> ELSE <<s.available, s.pressure, s.external>>

\* Two episodes of one replication meet the same world in every period, though
\* their bids, winners and queues differ: the same orders, rates, pressures,
\* outsiders and availabilities, and random streams that are at one place.
StreamsStayPaired ==
    /\ Paired({"order", "outside", "rate"})
    /\ order["base"] = order["deviation"]
    /\ \A p \in Providers : World(states["base"][p]) = World(states["deviation"][p])
=============================================================================
