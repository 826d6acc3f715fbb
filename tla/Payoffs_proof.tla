---------------------------- MODULE Payoffs_proof ----------------------------
(***************************************************************************)
(* The payoffs of a game: the episodes they are measured in, and the       *)
(* solvers that compute from the cache of their estimates.                 *)
(*                                                                         *)
(* Two episodes of one replication stay paired for any providers, machines,*)
(* orders, horizon and policies.  What of a provider's state its bids do   *)
(* not touch is a function of itself and of what was drawn; streams that   *)
(* are at one place draw the same, and move on by the same number.  No     *)
(* award of an episode is refused or regretted: what was offered holds     *)
(* until it is taken, and what a winner takes is a sum that fits.          *)
(*                                                                         *)
(* A result rests on the cache it was computed from, for any agents,       *)
(* policies, budgets and lists of solvers.  Every call of the cache makes  *)
(* it grow (estimates, log and what the two say of each other), all but a  *)
(* resampling leave the estimates there are, and each action is one of     *)
(* these calls and a snapshot after it; what a case has on disk is what    *)
(* its result rests on.                                                    *)
(*                                                                         *)
(* A certificate is sound for any game: no distribution on the profiles    *)
(* has a gap below the least price that any weights of the deviations give *)
(* to a profile, for the average price of its profiles is the average gain *)
(* of the weighted deviations, a sum in two orders.  So the lower bounds   *)
(* of certified_kkt_cg and t_carm are bounds, and cg_cce ends with all the *)
(* profiles or with an epsilon within the tolerance.                       *)
(***************************************************************************)
EXTENDS MarketEpisodes, SolverRuns, SequenceTheorems, FiniteSetTheorems, WellFoundedInduction, TLAPS

-----------------------------------------------------------------------------
(* The episodes.                                                           *)

\* The fields of the states and of the streams.
RouteShape(s) == s = [rate |-> s.rate, pressure |-> s.pressure, jobs |-> s.jobs]
ToyShape(s) ==
    s = [available |-> s.available, pressure |-> s.pressure, queue |-> s.queue, external |-> s.external]
StreamShape(r) == DOMAIN r = {"order", "tie", "outside", "rate"}

Shape(route, s) == IF route THEN RouteShape(s) ELSE ToyShape(s)

\* Two states of a provider that differ only by what its bids brought.
SameWorld(route, s, t) ==
    IF route THEN s.rate = t.rate /\ s.pressure = t.pressure
    ELSE s.available = t.available /\ s.pressure = t.pressure /\ s.external = t.external

States(route, x) ==
    /\ x = [e \in Episodes |-> [p \in Providers |-> x[e][p]]]
    /\ \A e \in Episodes : \A p \in Providers : Shape(route, x[e][p])
    /\ \A p \in Providers : SameWorld(route, x["base"][p], x["deviation"][p])

SamePlace(r, q) == r.order = q.order /\ r.outside = q.outside /\ r.rate = q.rate

Positions(x) ==
    /\ x = [e \in Episodes |-> x[e]]
    /\ \A e \in Episodes : StreamShape(x[e])
    /\ SamePlace(x["base"], x["deviation"])

Inv ==
    /\ turn \in Episodes /\ order["base"] = order["deviation"]
    /\ States(IsRoute, states) /\ Positions(position)

LEMMA InvPaired == Inv => StreamsStayPaired
<1> SUFFICES ASSUME Inv PROVE StreamsStayPaired
    OBVIOUS
<1>1. \A p \in Providers : World(states["base"][p]) = World(states["deviation"][p])
    BY DEF Inv, States, World, SameWorld
<1>2. Paired({"order", "outside", "rate"})
    BY DEF Inv, Positions, SamePlace, Paired
<1> QED BY <1>1, <1>2 DEF Inv, StreamsStayPaired

\* Streams that are at one place draw the same.
LEMMA PairedDraws ==
    ASSUME NEW Values, NEW streams \in SUBSET {"order", "outside", "rate"},
           Inv, NEW drawn \in Draws(Values, streams)
    PROVE  drawn["base"] = drawn["deviation"]
<1>1. Paired(streams)
    BY DEF Inv, Positions, SamePlace, Paired
<1>2. PICK v \in Values : drawn = [e \in Episodes |-> v]
    BY <1>1 DEF Draws
<1> QED BY <1>2 DEF Episodes

LEMMA InitInv == Init => Inv
<1> SUFFICES ASSUME Init PROVE Inv
    OBVIOUS
<1>1. turn \in Episodes /\ order["base"] = order["deviation"]
    BY DEF Init, Episodes
<1>2. Positions(position)
    BY DEF Init, Episodes, Positions, StreamShape, SamePlace, Start
<1>3. States(IsRoute, states)
    <2> DEFINE s(p) == IF IsRoute THEN initialize_route_state(p) ELSE ToyState
    <2>1. states = [e \in Episodes |-> [p \in Providers |-> s(p)]]
        BY DEF Init
    <2>2. \A p : Shape(IsRoute, s(p))
        BY DEF Shape, RouteShape, ToyShape, initialize_route_state, ToyState
    <2> HIDE DEF s
    <2>3. \A e \in Episodes : \A p \in Providers : states[e][p] = s(p)
        BY <2>1
    <2> QED BY <2>1, <2>2, <2>3 DEF States, SameWorld, Episodes
<1> QED BY <1>1, <1>2, <1>3 DEF Inv

-----------------------------------------------------------------------------
\* What the steps do to the state of one provider.

LEMMA RouteUpdate ==
    ASSUME NEW p, NEW noise, NEW s, RouteShape(s), NEW t, RouteShape(t), SameWorld(TRUE, s, t)
    PROVE  /\ RouteShape(update_operating_state(p, s, noise))
           /\ SameWorld(TRUE, update_operating_state(p, s, noise), update_operating_state(p, t, noise))
<1> DEFINE rate(r) == [g \in capabilities(p) |-> Clipped(r[g] + noise.rate[<<p, g>>], MinRate, MaxRate)]
           pressure(r) == [g \in capabilities(p) |-> Clipped(r[g] + noise.pressure[<<p, g>>], 0, MaxPressure)]
<1>1. ASSUME NEW r, RouteShape(r)
      PROVE  update_operating_state(p, r, noise)
                = [rate |-> rate(r.rate), pressure |-> pressure(r.pressure), jobs |-> r.jobs]
    <2> HIDE DEF rate, pressure
    <2>1. update_operating_state(p, r, noise)
            = [r EXCEPT !.rate = rate(r.rate), !.pressure = pressure(r.pressure)]
        BY Zenon DEF update_operating_state, rate, pressure
    <2> QED BY <1>1, <2>1 DEF RouteShape
<1> HIDE DEF rate, pressure
<1> QED BY <1>1 DEF RouteShape, SameWorld

LEMMA ToyUpdate ==
    ASSUME NEW l, NEW noise, NEW s, ToyShape(s), NEW t, ToyShape(t), SameWorld(FALSE, s, t)
    PROVE  /\ ToyShape(update_exogenous_state(s, l, noise))
           /\ SameWorld(FALSE, update_exogenous_state(s, l, noise), update_exogenous_state(t, l, noise))
<1> DEFINE pressure(r) == IF l = "core" THEN Min({MaxPressure, Max({0, r - 1}) + 2 * noise.shock}) ELSE 0
<1>1. ASSUME NEW r, ToyShape(r)
      PROVE  update_exogenous_state(r, l, noise)
                = [available |-> noise.available, pressure |-> pressure(r.pressure),
                   queue |-> r.queue, external |-> r.external \o noise.jobs]
    <2> HIDE DEF pressure
    <2>1. update_exogenous_state(r, l, noise)
            = [r EXCEPT !.available = noise.available, !.pressure = pressure(r.pressure),
                        !.external = r.external \o noise.jobs]
        BY Zenon DEF update_exogenous_state, pressure
    <2> DEFINE more == r.external \o noise.jobs
               now == pressure(r.pressure)
    <2> HIDE DEF more, now
    <2>2. update_exogenous_state(r, l, noise)
            = [r EXCEPT !.available = noise.available, !.pressure = now, !.external = more]
        BY <2>1, Zenon DEF more, now
    <2>3. update_exogenous_state(r, l, noise)
            = [available |-> noise.available, pressure |-> now, queue |-> r.queue, external |-> more]
        BY <1>1, <2>2 DEF ToyShape
    <2> QED BY <2>3, Zenon DEF more, now
<1> HIDE DEF pressure
<1> DEFINE x == update_exogenous_state(s, l, noise)
           y == update_exogenous_state(t, l, noise)
           more(r) == r.external \o noise.jobs
<1>2. s.pressure = t.pressure /\ more(s) = more(t)
    BY DEF SameWorld
<1>3. /\ x = [available |-> noise.available, pressure |-> pressure(s.pressure),
               queue |-> s.queue, external |-> more(s)]
      /\ y = [available |-> noise.available, pressure |-> pressure(s.pressure),
               queue |-> t.queue, external |-> more(s)]
    BY <1>1, <1>2, Zenon
<1> HIDE DEF x, y, more
<1>4. ToyShape(x)
    BY <1>3 DEF ToyShape
<1>5. SameWorld(FALSE, x, y)
    BY <1>3 DEF SameWorld
<1> QED BY <1>4, <1>5 DEF x, y

LEMMA QueuesAdvance ==
    ASSUME NEW s, NEW t
    PROVE  /\ RouteShape(s) /\ RouteShape(t) /\ SameWorld(TRUE, s, t) =>
                /\ RouteShape(advance_reservations(s))
                /\ SameWorld(TRUE, advance_reservations(s), advance_reservations(t))
           /\ ToyShape(s) /\ ToyShape(t) /\ SameWorld(FALSE, s, t) =>
                /\ ToyShape(advance_queues(s))
                /\ SameWorld(FALSE, advance_queues(s), advance_queues(t))
<1>1. ASSUME NEW r, RouteShape(r)
      PROVE  advance_reservations(r)
                = [rate |-> r.rate, pressure |-> r.pressure, jobs |-> Older(r.jobs)]
    BY <1>1 DEF RouteShape, advance_reservations
<1>2. ASSUME NEW r, ToyShape(r)
      PROVE  advance_queues(r) = [available |-> r.available, pressure |-> r.pressure,
                                  queue |-> Older(r.queue), external |-> Older(r.external)]
    <2> DEFINE a == r.available
               b == r.pressure
               q == r.queue
               x == r.external
    <2>1. r = [available |-> a, pressure |-> b, queue |-> q, external |-> x]
        BY <1>2, Zenon DEF ToyShape
    <2>2. advance_queues(r) = [r EXCEPT !.queue = Older(q), !.external = Older(x)]
        BY Zenon DEF advance_queues
    <2> HIDE DEF a, b, q, x
    <2>3. advance_queues(r) = [available |-> a, pressure |-> b, queue |-> Older(q), external |-> Older(x)]
        BY <2>1, <2>2
    <2> QED BY <2>3, Zenon DEF a, b, q, x
<1> QED BY <1>1, <1>2 DEF RouteShape, ToyShape, SameWorld

LEMMA JobTaken ==
    ASSUME NEW s, NEW o, NEW n
    PROVE  /\ RouteShape(s) => /\ RouteShape(reserve_order(s, o, n))
                              /\ SameWorld(TRUE, reserve_order(s, o, n), s)
           /\ ToyShape(s) => /\ ToyShape(add_platform_job(s, o, n))
                            /\ SameWorld(FALSE, add_platform_job(s, o, n), s)
<1> DEFINE job == [work |-> o.work, remaining |-> n]
<1>1. RouteShape(s) =>
        reserve_order(s, o, n) = [rate |-> s.rate, pressure |-> s.pressure, jobs |-> Append(s.jobs, job)]
    <2> HIDE DEF job
    <2>1. reserve_order(s, o, n) = [s EXCEPT !.jobs = Append(s.jobs, job)]
        BY Zenon DEF reserve_order, job
    <2> QED BY <2>1 DEF RouteShape
<1>2. ToyShape(s) =>
        add_platform_job(s, o, n) = [available |-> s.available, pressure |-> s.pressure,
                                     queue |-> Append(s.queue, job), external |-> s.external]
    <2> HIDE DEF job
    <2>1. add_platform_job(s, o, n) = [s EXCEPT !.queue = Append(s.queue, job)]
        BY Zenon DEF add_platform_job, job
    <2> QED BY <2>1 DEF ToyShape
<1> HIDE DEF job
<1> QED BY <1>1, <1>2 DEF RouteShape, ToyShape, SameWorld

-----------------------------------------------------------------------------
\* The steps of the episodes.

LEMMA AdvanceKeeps ==
    ASSUME Inv, Advance
    PROVE  Inv'
<1> DEFINE f(e, p) == IF IsRoute THEN advance_reservations(states[e][p])
                      ELSE advance_queues(states[e][p])
<1>1. UNCHANGED <<layer, turn, order, position, IsRoute>>
    BY DEF Advance, IsRoute
<1>2. CASE states' = states
    BY <1>1, <1>2 DEF Inv
<1>3. CASE states' # states
    <2>1. states' = [e \in Episodes |-> [p \in Providers |-> f(e, p)]]
        BY <1>3 DEF Advance
    <2>2. \A e \in Episodes : \A p \in Providers : Shape(IsRoute, f(e, p))
        BY QueuesAdvance DEF Inv, States, Shape, SameWorld
    <2>3. \A p \in Providers : SameWorld(IsRoute, f("base", p), f("deviation", p))
        <3> SUFFICES ASSUME NEW p \in Providers
                     PROVE  SameWorld(IsRoute, f("base", p), f("deviation", p))
            OBVIOUS
        <3>1. SameWorld(IsRoute, states["base"][p], states["deviation"][p])
            BY DEF Inv, States
        <3>2. Shape(IsRoute, states["base"][p]) /\ Shape(IsRoute, states["deviation"][p])
            BY DEF Inv, States, Episodes
        <3>3. CASE IsRoute
            BY <3>1, <3>2, <3>3, QueuesAdvance DEF Shape, SameWorld
        <3>4. CASE ~IsRoute
            BY <3>1, <3>2, <3>4, QueuesAdvance DEF Shape, SameWorld
        <3> QED BY <3>3, <3>4
    <2> HIDE DEF f
    <2>4. \A e \in Episodes : \A p \in Providers : states'[e][p] = f(e, p)
        BY <2>1
    <2>5. States(IsRoute, states')
        BY <2>1, <2>2, <2>3, <2>4 DEF States, Episodes
    <2> QED BY <1>1, <2>5 DEF Inv
<1> QED BY <1>2, <1>3

LEMMA UpdateRouteKeeps ==
    ASSUME Inv, UpdateRoute
    PROVE  Inv'
<1> DEFINE n == Cardinality(Slots)
<1>1. IsRoute /\ IsRoute' = IsRoute /\ UNCHANGED <<turn, order>>
    BY DEF UpdateRoute, IsRoute
<1>2. PICK noise \in Draws(RouteNoise, {"rate", "outside"}) :
        states' = [e \in Episodes |-> [p \in Providers |->
                        update_operating_state(p, states[e][p], noise[e])]]
    BY DEF UpdateRoute
<1>3. noise["base"] = noise["deviation"]
    BY <1>2, PairedDraws
<1> DEFINE f(e, p) == update_operating_state(p, states[e][p], noise[e])
<1>4. \A e \in Episodes : \A p \in Providers : Shape(IsRoute, f(e, p))
    BY <1>1, RouteUpdate DEF Inv, States, Shape, SameWorld
<1>5. \A p \in Providers : SameWorld(IsRoute, f("base", p), f("deviation", p))
    <2> SUFFICES ASSUME NEW p \in Providers
                 PROVE  SameWorld(IsRoute, f("base", p), f("deviation", p))
        OBVIOUS
    <2>1. /\ RouteShape(states["base"][p]) /\ RouteShape(states["deviation"][p])
          /\ SameWorld(TRUE, states["base"][p], states["deviation"][p])
        BY <1>1 DEF Inv, States, Shape, SameWorld, Episodes
    <2>2. SameWorld(TRUE, update_operating_state(p, states["base"][p], noise["base"]),
                    update_operating_state(p, states["deviation"][p], noise["base"]))
        BY <2>1, RouteUpdate, Zenon
    <2> QED BY <1>1, <1>3, <2>2 DEF SameWorld
<1>6. States(IsRoute, states')
    <2>1. states' = [e \in Episodes |-> [p \in Providers |-> f(e, p)]]
        BY <1>2
    <2> HIDE DEF f
    <2>2. \A e \in Episodes : \A p \in Providers : states'[e][p] = f(e, p)
        BY <2>1
    <2> QED BY <1>4, <1>5, <2>1, <2>2 DEF States, Episodes
<1>7. Positions(position')
    <2> HIDE DEF n
    <2>1. position' = [e \in Episodes |-> [position[e] EXCEPT
                            !.rate = position[e].rate + n, !.outside = position[e].outside + n]]
        BY DEF UpdateRoute, n
    <2>2. \A e \in Episodes :
            /\ StreamShape(position'[e]) /\ position'[e].order = position[e].order
            /\ position'[e].rate = position[e].rate + n
            /\ position'[e].outside = position[e].outside + n
        BY <2>1 DEF Inv, Positions, StreamShape
    <2>3. SamePlace(position'["base"], position'["deviation"])
        BY <2>2 DEF Inv, Positions, SamePlace, Episodes
    <2>4. position' = [e \in Episodes |-> position'[e]]
        BY <2>1
    <2> QED BY <2>2, <2>3, <2>4 DEF Positions
<1> QED BY <1>1, <1>6, <1>7 DEF Inv

LEMMA UpdateToyKeeps ==
    ASSUME Inv, UpdateToy
    PROVE  Inv'
<1>1. ~IsRoute /\ IsRoute' = IsRoute /\ UNCHANGED <<layer, turn, order>>
    BY DEF UpdateToy, IsRoute
<1>2. PICK noise \in Draws([Providers -> ToyNoise(layer)], {"rate", "outside"}) :
        /\ states' = [e \in Episodes |-> [p \in Providers |->
                        update_exogenous_state(states[e][p], layer, noise[e][p])]]
        /\ position' = [e \in Episodes |->
            [position[e] EXCEPT
                !.outside = @ + DrawsOf(layer, noise[e]),
                !.rate = @ + IF AvailabilityShocks THEN Cardinality(Providers) ELSE 0]]
    BY DEF UpdateToy
<1>3. noise["base"] = noise["deviation"]
    BY <1>2, PairedDraws
<1> DEFINE f(e, p) == update_exogenous_state(states[e][p], layer, noise[e][p])
<1>4. \A e \in Episodes : \A p \in Providers : Shape(IsRoute, f(e, p))
    BY <1>1, ToyUpdate DEF Inv, States, Shape, SameWorld
<1>5. \A p \in Providers : SameWorld(IsRoute, f("base", p), f("deviation", p))
    <2> SUFFICES ASSUME NEW p \in Providers
                 PROVE  SameWorld(IsRoute, f("base", p), f("deviation", p))
        OBVIOUS
    <2>1. /\ ToyShape(states["base"][p]) /\ ToyShape(states["deviation"][p])
          /\ SameWorld(FALSE, states["base"][p], states["deviation"][p])
        BY <1>1 DEF Inv, States, Shape, SameWorld, Episodes
    <2>2. SameWorld(FALSE, update_exogenous_state(states["base"][p], layer, noise["base"][p]),
                    update_exogenous_state(states["deviation"][p], layer, noise["base"][p]))
        BY <2>1, ToyUpdate, Zenon
    <2> QED BY <1>1, <1>3, <2>2 DEF SameWorld
<1>6. States(IsRoute, states')
    <2>1. states' = [e \in Episodes |-> [p \in Providers |-> f(e, p)]]
        BY <1>2
    <2> HIDE DEF f
    <2>2. \A e \in Episodes : \A p \in Providers : states'[e][p] = f(e, p)
        BY <2>1
    <2> QED BY <1>4, <1>5, <2>1, <2>2 DEF States, Episodes
<1>7. Positions(position')
    <2> DEFINE n == IF AvailabilityShocks THEN Cardinality(Providers) ELSE 0
               m(e) == DrawsOf(layer, noise[e])
    <2>1. position' = [e \in Episodes |-> [position[e] EXCEPT
                            !.outside = position[e].outside + m(e), !.rate = position[e].rate + n]]
        BY <1>2
    <2>2. m("base") = m("deviation")
        BY <1>3
    <2> HIDE DEF n, m
    <2>3. \A e \in Episodes :
            /\ StreamShape(position'[e]) /\ position'[e].order = position[e].order
            /\ position'[e].rate = position[e].rate + n
            /\ position'[e].outside = position[e].outside + m(e)
        BY <2>1 DEF Inv, Positions, StreamShape
    <2>4. SamePlace(position'["base"], position'["deviation"])
        BY <2>2, <2>3 DEF Inv, Positions, SamePlace, Episodes
    <2>5. position' = [e \in Episodes |-> position'[e]]
        BY <2>1
    <2> QED BY <2>3, <2>4, <2>5 DEF Positions
<1> QED BY <1>1, <1>6, <1>7 DEF Inv

LEMMA OfferKeeps ==
    ASSUME Inv, Offer
    PROVE  Inv'
<1> DEFINE drafts == [order : Orders, redraws : IF IsRoute THEN {0} ELSE 0..MaxRedraws]
<1>1. UNCHANGED <<layer, turn, states>> /\ IsRoute' = IsRoute
    BY DEF Offer, IsRoute
<1>2. PICK drawn \in Draws(drafts, {"order"}) :
        /\ order' = [e \in Episodes |-> drawn[e].order]
        /\ position' = [e \in Episodes |-> [position[e] EXCEPT !.order = @ + 1 + drawn[e].redraws]]
    BY DEF Offer
<1> HIDE DEF drafts
<1>3. drawn["base"] = drawn["deviation"]
    BY <1>2, PairedDraws
<1>4. order'["base"] = order'["deviation"]
    BY <1>2, <1>3 DEF Episodes
<1>5. \A e \in Episodes :
        /\ StreamShape(position'[e]) /\ position'[e].order = position[e].order + 1 + drawn[e].redraws
        /\ position'[e].rate = position[e].rate /\ position'[e].outside = position[e].outside
    BY <1>2 DEF Inv, Positions, StreamShape
<1>6. SamePlace(position'["base"], position'["deviation"])
    BY <1>3, <1>5 DEF Inv, Positions, SamePlace, Episodes
<1>7. position' = [e \in Episodes |-> position'[e]]
    BY <1>2
<1>8. Positions(position')
    BY <1>5, <1>6, <1>7 DEF Positions
<1> QED BY <1>1, <1>4, <1>8 DEF Inv

\* An auction moves the stream of ties of one episode, and no other.
LEMMA AuctionKeeps ==
    ASSUME Inv, Auction
    PROVE  Inv'
<1>1. UNCHANGED <<layer, turn, order, states>> /\ IsRoute' = IsRoute
    BY DEF Auction, IsRoute
<1>2. CASE position' = position
    BY <1>1, <1>2 DEF Inv
<1>3. CASE position' = [position EXCEPT ![turn]["tie"] = @ + 1]
    <2>1. \A e \in Episodes :
            /\ StreamShape(position'[e]) /\ position'[e].order = position[e].order
            /\ position'[e].rate = position[e].rate /\ position'[e].outside = position[e].outside
        BY <1>3 DEF Inv, Positions, StreamShape
    <2>2. SamePlace(position'["base"], position'["deviation"])
        BY <2>1 DEF Inv, Positions, SamePlace, Episodes
    <2>3. position' = [e \in Episodes |-> position'[e]]
        BY <1>3 DEF Inv, Positions
    <2>4. Positions(position')
        BY <2>1, <2>2, <2>3 DEF Positions
    <2> QED BY <1>1, <2>4 DEF Inv
<1>4. position' = position \/ position' = [position EXCEPT ![turn]["tie"] = @ + 1]
    BY DEF Auction, TieStream
<1> QED BY <1>2, <1>3, <1>4

\* The job of a winner changes nothing of its world.
LEMMA ReserveKeeps ==
    ASSUME Inv, Reserve
    PROVE  Inv'
<1>1. UNCHANGED <<layer, turn, order, position>> /\ IsRoute' = IsRoute
    BY DEF Reserve, IsRoute
<1>2. CASE states' = states
    BY <1>1, <1>2 DEF Inv
<1>3. CASE states' # states
    <2>1. PICK w, n : states' = [states EXCEPT ![turn][w] =
                            IF IsRoute THEN reserve_order(states[turn][w], order[turn], n)
                            ELSE add_platform_job(states[turn][w], order[turn], n)]
        BY <1>3 DEF Reserve
    <2> DEFINE new == IF IsRoute THEN reserve_order(states[turn][w], order[turn], n)
                      ELSE add_platform_job(states[turn][w], order[turn], n)
    <2>2. Shape(IsRoute, states[turn][w]) =>
            Shape(IsRoute, new) /\ SameWorld(IsRoute, new, states[turn][w])
        BY JobTaken DEF Shape, SameWorld
    <2>3. states' = [states EXCEPT ![turn][w] = new]
        BY <2>1
    <2> HIDE DEF new
    <2>4. \A e \in Episodes : \A p \in Providers :
            states'[e][p] = IF e = turn /\ p = w THEN new ELSE states[e][p]
        BY <2>3 DEF Inv, States
    <2>5. states' = [e \in Episodes |-> [p \in Providers |-> states'[e][p]]]
        BY <2>3 DEF Inv, States
    <2>6. \A e \in Episodes : \A p \in Providers :
            Shape(IsRoute, states'[e][p]) /\ SameWorld(IsRoute, states'[e][p], states[e][p])
        BY <2>2, <2>4 DEF Inv, States, SameWorld
    <2>7. \A p \in Providers : SameWorld(IsRoute, states'["base"][p], states'["deviation"][p])
        <3>1. "base" \in Episodes /\ "deviation" \in Episodes
            BY DEF Episodes
        <3> QED BY <2>6, <3>1 DEF Inv, States, SameWorld
    <2>8. States(IsRoute, states')
        BY <2>5, <2>6, <2>7 DEF States
    <2> QED BY <1>1, <2>8 DEF Inv
<1> QED BY <1>2, <1>3

LEMMA EndKeeps ==
    ASSUME Inv, EndOfTurn
    PROVE  Inv'
<1>1. UNCHANGED <<layer, states, position>> /\ IsRoute' = IsRoute
    BY DEF EndOfTurn, IsRoute
<1>2. turn' \in Episodes /\ order'["base"] = order'["deviation"]
    BY DEF EndOfTurn, Episodes, Inv
<1> QED BY <1>1, <1>2 DEF Inv

LEMMA NextInv == Inv /\ [Next]_vars => Inv'
<1> SUFFICES ASSUME Inv, [Next]_vars PROVE Inv'
    OBVIOUS
<1>1. CASE Advance \/ UpdateRoute \/ UpdateToy \/ Offer
    BY <1>1, AdvanceKeeps, UpdateRouteKeeps, UpdateToyKeeps, OfferKeeps
<1>2. CASE Auction \/ Reserve \/ EndOfTurn
    BY <1>2, AuctionKeeps, ReserveKeeps, EndKeeps
<1>3. CASE UNCHANGED vars
    <2>1. UNCHANGED <<turn, order, states, position>> /\ IsRoute' = IsRoute
        BY <1>3 DEF vars, IsRoute
    <2> QED BY <2>1 DEF Inv
<1> QED BY <1>1, <1>2, <1>3 DEF Next, Done

\* _replication_rngs and the common random numbers of run_episode and
\* run_route_episode: over any number of periods, whatever the policies bid and
\* whoever wins, both episodes meet the same orders, rates, pressures and outsiders.
THEOREM EpisodesStayPaired == Spec => []StreamsStayPaired
<1> QED BY InitInv, NextInv, InvPaired, PTL DEF Spec

-----------------------------------------------------------------------------
(* Numbers and their sums.                                                 *)

LEMMA MaxOfTwo ==
    ASSUME NEW a \in Nat, NEW b \in Nat
    PROVE  Max({a, b}) = IF a >= b THEN a ELSE b
<1> DEFINE m == IF a >= b THEN a ELSE b
<1>1. m \in {a, b} /\ \A y \in {a, b} : m >= y
    OBVIOUS
<1>2. \A x \in {a, b} : (\A y \in {a, b} : x >= y) => x = m
    OBVIOUS
<1> QED BY <1>1, <1>2 DEF Max

LEMMA MinOfTwo ==
    ASSUME NEW a \in Int, NEW b \in Int
    PROVE  Min({a, b}) = IF a <= b THEN a ELSE b
<1> DEFINE m == IF a <= b THEN a ELSE b
<1>1. m \in {a, b} /\ \A y \in {a, b} : m <= y
    OBVIOUS
<1>2. \A x \in {a, b} : (\A y \in {a, b} : x <= y) => x = m
    OBVIOUS
<1> QED BY <1>1, <1>2 DEF Min

LEMMA MaxOfInts ==
    ASSUME NEW a \in Int, NEW b \in Int
    PROVE  Max({a, b}) = IF a >= b THEN a ELSE b
<1> DEFINE m == IF a >= b THEN a ELSE b
<1>1. m \in {a, b} /\ \A y \in {a, b} : m >= y
    OBVIOUS
<1>2. \A x \in {a, b} : (\A y \in {a, b} : x >= y) => x = m
    OBVIOUS
<1> QED BY <1>1, <1>2 DEF Max

\* Every set of numbers with a member has a least one.
LEMMA LeastMember ==
    ASSUME NEW S, S \subseteq Nat, S # {}
    PROVE  \E c \in S : \A d \in S : c <= d
<1> DEFINE Less == {ss \in Nat \X Nat : ss[1] < ss[2]}
<1>1. IsWellFoundedOn(Less, Nat)
    <2>1. OpToRel(<, Nat) = Less
        BY DEF OpToRel
    <2> QED BY <2>1, NatLessThanWellFounded, Zenon
<1>2. PICK c \in S : \A d \in S : ~ (<<d, c>> \in Less)
    <2> HIDE DEF Less
    <2> QED BY <1>1, WFMin, Zenon
<1>3. \A m, n \in Nat : m < n => <<m, n>> \in Less
    OBVIOUS
<1>4. \A d \in S : ~ (d < c)
    <2> HIDE DEF Less
    <2> QED BY <1>2, <1>3, Zenon
<1> QED BY <1>4

\* Of some finite sets one is minimal.
LEMMA Smallest ==
    ASSUME NEW C, C # {}, \A S \in C : IsFiniteSet(S)
    PROVE  \E S \in C : \A x \in S : S \ {x} \notin C
<1> DEFINE N == {Cardinality(S) : S \in C}
<1>1. N \subseteq Nat /\ N # {}
    BY FS_CardinalityType
<1>2. PICK n \in N : \A m \in N : n <= m
    BY <1>1, LeastMember
<1>3. PICK S \in C : n = Cardinality(S)
    OBVIOUS
<1>4. ASSUME NEW x \in S, S \ {x} \in C PROVE FALSE
    <2>1. Cardinality(S \ {x}) = Cardinality(S) - 1 /\ Cardinality(S) \in Nat
        BY FS_RemoveElement, FS_CardinalityType
    <2>2. Cardinality(S \ {x}) \in N
        BY <1>4
    <2> QED BY <1>2, <1>3, <2>1, <2>2
<1> QED BY <1>4

\* Of some numbers in a finite set one is the greatest.
LEMMA Greatest ==
    ASSUME NEW S, IsFiniteSet(S), S # {}, S \subseteq Int
    PROVE  Max(S) \in S /\ \A x \in S : x <= Max(S)
<1> DEFINE C == {T \in SUBSET S : T # {} /\ ~ \E m \in T : \A x \in T : m >= x}
<1>1. \A T \in C : IsFiniteSet(T)
    BY FS_Subset
<1>2. CASE C # {}
    <2>1. PICK T \in C : \A x \in T : T \ {x} \notin C
        BY <1>1, <1>2, Smallest
    <2>2. PICK x \in T : TRUE
        OBVIOUS
    <2>3. CASE T = {x}
        BY <2>3
    <2>4. CASE T # {x}
        <3> DEFINE R == T \ {x}
        <3>0. R \notin C /\ R \in SUBSET S /\ R # {}
            BY <2>1, <2>2, <2>4
        <3>1. PICK m \in R : \A y \in R : m >= y
            <4> HIDE DEF R
            <4> QED BY <3>0
        <3>2. CASE m >= x
            BY <3>1, <3>2
        <3>3. CASE ~ (m >= x)
            <4>1. \A y \in T : x >= y
                BY <3>1, <3>3
            <4> QED BY <4>1
        <3> QED BY <3>2, <3>3
    <2> QED BY <2>3, <2>4
<1>3. \E m \in S : \A x \in S : m >= x
    BY <1>2
<1> QED BY <1>3 DEF Max

LEMMA Least ==
    ASSUME NEW S, IsFiniteSet(S), S # {}, S \subseteq Int
    PROVE  Min(S) \in S /\ \A x \in S : Min(S) <= x
<1> DEFINE C == {T \in SUBSET S : T # {} /\ ~ \E m \in T : \A x \in T : m <= x}
<1>1. \A T \in C : IsFiniteSet(T)
    BY FS_Subset
<1>2. CASE C # {}
    <2>1. PICK T \in C : \A x \in T : T \ {x} \notin C
        BY <1>1, <1>2, Smallest
    <2>2. PICK x \in T : TRUE
        OBVIOUS
    <2>3. CASE T = {x}
        BY <2>3
    <2>4. CASE T # {x}
        <3> DEFINE R == T \ {x}
        <3>0. R \notin C /\ R \in SUBSET S /\ R # {}
            BY <2>1, <2>2, <2>4
        <3>1. PICK m \in R : \A y \in R : m <= y
            <4> HIDE DEF R
            <4> QED BY <3>0
        <3>2. CASE m <= x
            BY <3>1, <3>2
        <3>3. CASE ~ (m <= x)
            <4>1. \A y \in T : x <= y
                BY <3>1, <3>3
            <4> QED BY <4>1
        <3> QED BY <3>2, <3>3
    <2> QED BY <2>3, <2>4
<1>3. \E m \in S : \A x \in S : m <= x
    BY <1>2
<1> QED BY <1>3 DEF Min

\* The sum of a function over a finite set, which the library adds up element by element.
Choice(S) == CHOOSE x \in S : TRUE
Rest(S) == S \ {Choice(S)}
IsTable(f, D, g) == g = [S \in D |-> IF S = {} THEN 0 ELSE f[Choice(S)] + g[Rest(S)]]

LEMMA RestIs ==
    ASSUME NEW S, IsFiniteSet(S), S # {}
    PROVE  /\ Choice(S) \in S /\ Rest(S) \subseteq S /\ IsFiniteSet(Rest(S))
           /\ Cardinality(Rest(S)) = Cardinality(S) - 1 /\ Cardinality(S) \in Nat
           /\ S = Rest(S) \cup {Choice(S)} /\ Choice(S) \notin Rest(S)
<1>1. Choice(S) \in S
    BY DEF Choice
<1> HIDE DEF Choice
<1> QED BY <1>1, FS_RemoveElement, FS_CardinalityType, FS_Subset DEF Rest

\* The sets of a limited size.
Sized(S, n) == {T \in SUBSET S : Cardinality(T) <= n}

LEMMA TableExists ==
    ASSUME NEW f, NEW S, IsFiniteSet(S)
    PROVE  \E g : IsTable(f, SUBSET S, g)
<1> DEFINE Missing == {n \in Nat : ~ \E g : IsTable(f, Sized(S, n), g)}
<1>0. \A T \in SUBSET S : IsFiniteSet(T) /\ Cardinality(T) \in Nat /\ Cardinality(T) <= Cardinality(S)
    BY FS_Subset, FS_CardinalityType
<1>1. Missing = {}
    <2> SUFFICES ASSUME Missing # {} PROVE FALSE
        OBVIOUS
    <2>1. PICK n \in Missing : \A m \in Missing : n <= m
        BY LeastMember
    <2>2. CASE n = 0
        <3>1. \A T \in Sized(S, 0) : T = {}
            <4> SUFFICES ASSUME NEW T \in Sized(S, 0) PROVE T = {}
                OBVIOUS
            <4>1. Cardinality(T) = 0 /\ IsFiniteSet(T)
                BY <1>0 DEF Sized
            <4> QED BY <4>1, FS_EmptySet
        <3> DEFINE g == [T \in Sized(S, 0) |-> 0]
        <3>2. IsTable(f, Sized(S, 0), g)
            BY <3>1 DEF IsTable
        <3> QED BY <2>1, <2>2, <3>2
    <2>3. CASE n # 0
        <3>1. n - 1 \in Nat /\ n - 1 \notin Missing
            BY <2>1, <2>3
        <3>2. PICK g : IsTable(f, Sized(S, n - 1), g)
            BY <3>1
        <3> DEFINE h == [T \in Sized(S, n) |-> IF T = {} THEN 0 ELSE f[Choice(T)] + g[Rest(T)]]
        <3>3. ASSUME NEW T \in Sized(S, n), T # {} PROVE Rest(T) \in Sized(S, n - 1) /\ Rest(T) \in Sized(S, n)
            <4>1. IsFiniteSet(T) /\ T \subseteq S /\ Cardinality(T) <= n
                BY <1>0 DEF Sized
            <4> QED BY <4>1, RestIs, <3>3 DEF Sized
        <3>4. ASSUME NEW T \in Sized(S, n - 1) PROVE T \in Sized(S, n)
            BY <1>0 DEF Sized
        <3>5. ASSUME NEW T \in Sized(S, n - 1) PROVE g[T] = h[T]
            BY <3>2, <3>4 DEF IsTable
        <3>6. ASSUME NEW T \in Sized(S, n), T # {} PROVE h[T] = f[Choice(T)] + h[Rest(T)]
            BY <3>3, <3>5, <3>6
        <3>7. IsTable(f, Sized(S, n), h)
            BY <3>6 DEF IsTable
        <3> QED BY <2>1, <3>7
    <2> QED BY <2>2, <2>3
<1>2. Cardinality(S) \in Nat /\ Sized(S, Cardinality(S)) = SUBSET S
    BY <1>0 DEF Sized
<1>3. Cardinality(S) \notin Missing
    BY <1>1
<1>4. PICK g : IsTable(f, Sized(S, Cardinality(S)), g)
    BY <1>2, <1>3
<1> QED BY <1>2, <1>4

LEMMA SumIs ==
    ASSUME NEW f, NEW S, IsFiniteSet(S)
    PROVE  \E g : IsTable(f, SUBSET S, g) /\ SumFunctionOnSet(f, S) = g[S]
<1>1. SumFunctionOnSet(f, S) = (CHOOSE g : IsTable(f, SUBSET S, g))[S]
    BY DEF SumFunctionOnSet, FoldFunctionOnSet, MapThenFoldSet, IsTable, Choice, Rest
<1> QED BY <1>1, TableExists

LEMMA TablesAgree ==
    ASSUME NEW f, NEW S, NEW T, NEW g, NEW h, T \subseteq S, IsFiniteSet(S),
           IsTable(f, SUBSET S, g), IsTable(f, SUBSET T, h)
    PROVE  g[T] = h[T]
<1> DEFINE C == {U \in SUBSET T : g[U] # h[U]}
<1>1. \A U \in C : IsFiniteSet(U)
    BY FS_Subset
<1>2. CASE C # {}
    <2>1. PICK U \in C : \A x \in U : U \ {x} \notin C
        BY <1>1, <1>2, Smallest
    <2>2. g[U] = IF U = {} THEN 0 ELSE f[Choice(U)] + g[Rest(U)]
        BY DEF IsTable
    <2>3. h[U] = IF U = {} THEN 0 ELSE f[Choice(U)] + h[Rest(U)]
        BY DEF IsTable
    <2>4. U # {} => Rest(U) \in SUBSET T /\ g[Rest(U)] = h[Rest(U)]
        BY <1>1, <2>1, RestIs DEF Rest
    <2> QED BY <2>2, <2>3, <2>4
<1> QED BY <1>2

LEMMA SumStep ==
    ASSUME NEW f, NEW S, IsFiniteSet(S)
    PROVE  /\ S = {} => SumFunctionOnSet(f, S) = 0
           /\ S # {} => SumFunctionOnSet(f, S) = f[Choice(S)] + SumFunctionOnSet(f, Rest(S))
<1>1. PICK g : IsTable(f, SUBSET S, g) /\ SumFunctionOnSet(f, S) = g[S]
    BY SumIs
<1>2. g[S] = IF S = {} THEN 0 ELSE f[Choice(S)] + g[Rest(S)]
    BY <1>1 DEF IsTable
<1>3. CASE S # {}
    <2> DEFINE R == Rest(S)
    <2>1. R \subseteq S /\ IsFiniteSet(R)
        BY <1>3, RestIs
    <2>2. g[S] = f[Choice(S)] + g[R]
        BY <1>2, <1>3
    <2> SUFFICES SumFunctionOnSet(f, R) = g[R]
        BY <1>1, <1>3, <2>2
    <2> HIDE DEF R
    <2>3. PICK h : IsTable(f, SUBSET R, h) /\ SumFunctionOnSet(f, R) = h[R]
        BY <2>1, SumIs
    <2>4. g[R] = h[R]
        <3>1. IsTable(f, SUBSET S, g)
            BY <1>1
        <3>2. IsTable(f, SUBSET R, h)
            BY <2>3
        <3>3. ASSUME NEW a, NEW b, IsTable(f, SUBSET S, a), IsTable(f, SUBSET R, b)
              PROVE a[R] = b[R]
            BY <2>1, <3>3, TablesAgree
        <3> QED BY <3>1, <3>2, <3>3
    <2> QED BY <2>3, <2>4
<1> QED BY <1>1, <1>2, <1>3

LEMMA SumIsNat ==
    ASSUME NEW f, NEW S, IsFiniteSet(S), \A x \in S : f[x] \in Nat
    PROVE  SumFunctionOnSet(f, S) \in Nat
<1> DEFINE C == {T \in SUBSET S : SumFunctionOnSet(f, T) \notin Nat}
<1>1. \A T \in C : IsFiniteSet(T)
    BY FS_Subset
<1>2. CASE C # {}
    <2>1. PICK T \in C : \A x \in T : T \ {x} \notin C
        BY <1>1, <1>2, Smallest
    <2>2. /\ T = {} => SumFunctionOnSet(f, T) = 0
          /\ T # {} => SumFunctionOnSet(f, T) = f[Choice(T)] + SumFunctionOnSet(f, Rest(T))
        BY <1>1, SumStep
    <2>3. T # {} => Choice(T) \in S /\ SumFunctionOnSet(f, Rest(T)) \in Nat
        BY <1>1, <2>1, RestIs DEF Rest
    <2> QED BY <2>2, <2>3
<1> QED BY <1>2

LEMMA SumRemoves ==
    ASSUME NEW f, NEW S, IsFiniteSet(S), \A x \in S : f[x] \in Nat, NEW x \in S
    PROVE  SumFunctionOnSet(f, S) = SumFunctionOnSet(f, S \ {x}) + f[x]
<1> DEFINE C == {T \in SUBSET S : \E y \in T : SumFunctionOnSet(f, T) # SumFunctionOnSet(f, T \ {y}) + f[y]}
<1>1. \A T \in SUBSET S : IsFiniteSet(T) /\ SumFunctionOnSet(f, T) \in Nat
    BY FS_Subset, SumIsNat
<1>2. CASE C # {}
    <2>1. PICK T \in C : \A y \in T : T \ {y} \notin C
        BY <1>1, <1>2, Smallest
    <2>2. PICK y \in T : SumFunctionOnSet(f, T) # SumFunctionOnSet(f, T \ {y}) + f[y]
        OBVIOUS
    <2> DEFINE z == Choice(T)
    <2>3. z \in T /\ SumFunctionOnSet(f, T) = f[z] + SumFunctionOnSet(f, T \ {z})
        BY <1>1, SumStep, RestIs DEF Rest
    <2> HIDE DEF z
    <2>4. CASE y # z
        <3>1. SumFunctionOnSet(f, T \ {z}) = SumFunctionOnSet(f, (T \ {z}) \ {y}) + f[y]
            BY <2>1, <2>3, <2>4
        <3>2. SumFunctionOnSet(f, T \ {y}) = SumFunctionOnSet(f, (T \ {y}) \ {z}) + f[z]
            BY <2>1, <2>3, <2>4
        <3>3. SumFunctionOnSet(f, (T \ {y}) \ {z}) = SumFunctionOnSet(f, (T \ {z}) \ {y})
            <4>1. (T \ {y}) \ {z} = (T \ {z}) \ {y}
                OBVIOUS
            <4> QED BY <4>1
        <3>4. /\ f[y] \in Nat /\ f[z] \in Nat
              /\ SumFunctionOnSet(f, (T \ {z}) \ {y}) \in Nat
            BY <1>1, <2>3
        <3> QED BY <2>2, <2>3, <3>1, <3>2, <3>3, <3>4
    <2>5. CASE y = z
        <3>1. f[z] \in Nat /\ SumFunctionOnSet(f, T \ {z}) \in Nat
            BY <1>1, <2>3
        <3> QED BY <2>2, <2>3, <2>5, <3>1
    <2> QED BY <2>4, <2>5
<1> QED BY <1>2

LEMMA SumAdds ==
    ASSUME NEW f, NEW S, IsFiniteSet(S), NEW x, x \notin S, \A y \in S \cup {x} : f[y] \in Nat
    PROVE  SumFunctionOnSet(f, S \cup {x}) = SumFunctionOnSet(f, S) + f[x]
<1>1. IsFiniteSet(S \cup {x}) /\ (S \cup {x}) \ {x} = S
    BY FS_AddElement
<1> QED BY <1>1, SumRemoves

\* Functions that agree on a set have the same sum.
LEMMA SumSame ==
    ASSUME NEW f, NEW g, NEW S, IsFiniteSet(S), \A x \in S : f[x] = g[x]
    PROVE  SumFunctionOnSet(f, S) = SumFunctionOnSet(g, S)
<1> DEFINE C == {T \in SUBSET S : SumFunctionOnSet(f, T) # SumFunctionOnSet(g, T)}
<1>1. \A T \in C : IsFiniteSet(T)
    BY FS_Subset
<1>2. CASE C # {}
    <2>1. PICK T \in C : \A x \in T : T \ {x} \notin C
        BY <1>1, <1>2, Smallest
    <2> DEFINE R == Rest(T)
    <2>2. /\ T = {} => SumFunctionOnSet(f, T) = 0 /\ SumFunctionOnSet(g, T) = 0
          /\ T # {} => /\ SumFunctionOnSet(f, T) = f[Choice(T)] + SumFunctionOnSet(f, R)
                       /\ SumFunctionOnSet(g, T) = g[Choice(T)] + SumFunctionOnSet(g, R)
        BY <1>1, SumStep
    <2>3. T # {} => Choice(T) \in S /\ SumFunctionOnSet(f, R) = SumFunctionOnSet(g, R)
        BY <1>1, <2>1, RestIs DEF Rest
    <2> QED BY <2>2, <2>3
<1> QED BY <1>2

\* If every value is at least so many times another one, so is the sum.
LEMMA SumDominates ==
    ASSUME NEW f, NEW w, NEW S, IsFiniteSet(S), NEW a \in Nat,
           \A x \in S : f[x] \in Nat /\ w[x] \in Nat /\ f[x] >= a * w[x]
    PROVE  SumFunctionOnSet(f, S) >= a * SumFunctionOnSet(w, S)
<1> DEFINE C == {T \in SUBSET S : ~ (SumFunctionOnSet(f, T) >= a * SumFunctionOnSet(w, T))}
<1>1. \A T \in SUBSET S : /\ IsFiniteSet(T)
                          /\ SumFunctionOnSet(f, T) \in Nat /\ SumFunctionOnSet(w, T) \in Nat
    BY FS_Subset, SumIsNat
<1>2. CASE C # {}
    <2>1. PICK T \in C : \A x \in T : T \ {x} \notin C
        BY <1>1, <1>2, Smallest
    <2> DEFINE R == Rest(T)  c == Choice(T)
    <2>2. /\ T = {} => SumFunctionOnSet(f, T) = 0 /\ SumFunctionOnSet(w, T) = 0
          /\ T # {} => /\ SumFunctionOnSet(f, T) = f[c] + SumFunctionOnSet(f, R)
                       /\ SumFunctionOnSet(w, T) = w[c] + SumFunctionOnSet(w, R)
        BY <1>1, SumStep
    <2>3. T # {} => /\ c \in S /\ R \in SUBSET S
                    /\ SumFunctionOnSet(f, R) >= a * SumFunctionOnSet(w, R)
        BY <1>1, <2>1, RestIs DEF Rest
    <2> HIDE DEF R, c
    <2>4. \A x, y \in Nat : a * (x + y) = a * x + a * y
        OBVIOUS
    <2>5. CASE T # {}
        <3> DEFINE fr == SumFunctionOnSet(f, R)  wr == SumFunctionOnSet(w, R)
        <3>1. /\ fr \in Nat /\ wr \in Nat /\ f[c] \in Nat /\ w[c] \in Nat
              /\ fr >= a * wr /\ f[c] >= a * w[c]
            BY <1>1, <2>3, <2>5
        <3>2. f[c] + fr >= a * (w[c] + wr)
            <4> HIDE DEF fr, wr
            <4>1. a * (w[c] + wr) = a * w[c] + a * wr /\ a * w[c] \in Nat /\ a * wr \in Nat
                BY <2>4, <3>1
            <4> QED BY <3>1, <4>1
        <3> QED BY <2>2, <2>5, <3>2
    <2>6. CASE T = {}
        BY <2>2, <2>6
    <2> QED BY <2>5, <2>6
<1> QED BY <1>2

\* Sums of integers: of a multiple of a function and another one, and of greater values.
LEMMA SumIsInt ==
    ASSUME NEW f, NEW S, IsFiniteSet(S), \A x \in S : f[x] \in Int
    PROVE  SumFunctionOnSet(f, S) \in Int
<1> DEFINE C == {T \in SUBSET S : SumFunctionOnSet(f, T) \notin Int}
<1>1. \A T \in C : IsFiniteSet(T)
    BY FS_Subset
<1>2. CASE C # {}
    <2>1. PICK T \in C : \A x \in T : T \ {x} \notin C
        BY <1>1, <1>2, Smallest
    <2>2. /\ T = {} => SumFunctionOnSet(f, T) = 0
          /\ T # {} => SumFunctionOnSet(f, T) = f[Choice(T)] + SumFunctionOnSet(f, Rest(T))
        BY <1>1, SumStep
    <2>3. T # {} => Choice(T) \in S /\ SumFunctionOnSet(f, Rest(T)) \in Int
        BY <1>1, <2>1, RestIs DEF Rest
    <2> QED BY <2>2, <2>3
<1> QED BY <1>2

LEMMA SumIsLinear ==
    ASSUME NEW f, NEW g, NEW h, NEW k \in Int, NEW S, IsFiniteSet(S),
           \A x \in S : f[x] \in Int /\ g[x] \in Int /\ h[x] \in Int /\ f[x] = k * g[x] + h[x]
    PROVE  SumFunctionOnSet(f, S) = k * SumFunctionOnSet(g, S) + SumFunctionOnSet(h, S)
<1> DEFINE C == {T \in SUBSET S :
                    SumFunctionOnSet(f, T) # k * SumFunctionOnSet(g, T) + SumFunctionOnSet(h, T)}
<1>1. \A T \in SUBSET S : /\ IsFiniteSet(T) /\ SumFunctionOnSet(f, T) \in Int
                          /\ SumFunctionOnSet(g, T) \in Int /\ SumFunctionOnSet(h, T) \in Int
    BY FS_Subset, SumIsInt
<1>2. CASE C # {}
    <2>1. PICK T \in C : \A x \in T : T \ {x} \notin C
        BY <1>1, <1>2, Smallest
    <2> DEFINE R == Rest(T)  c == Choice(T)
    <2>2. /\ T = {} => /\ SumFunctionOnSet(f, T) = 0 /\ SumFunctionOnSet(g, T) = 0
                       /\ SumFunctionOnSet(h, T) = 0
          /\ T # {} => /\ SumFunctionOnSet(f, T) = f[c] + SumFunctionOnSet(f, R)
                       /\ SumFunctionOnSet(g, T) = g[c] + SumFunctionOnSet(g, R)
                       /\ SumFunctionOnSet(h, T) = h[c] + SumFunctionOnSet(h, R)
        BY <1>1, SumStep
    <2>3. T # {} => /\ c \in S /\ R \in SUBSET S
                    /\ SumFunctionOnSet(f, R) = k * SumFunctionOnSet(g, R) + SumFunctionOnSet(h, R)
        BY <1>1, <2>1, RestIs DEF Rest
    <2> HIDE DEF R, c
    <2>4. CASE T # {}
        <3> DEFINE gr == SumFunctionOnSet(g, R)  hr == SumFunctionOnSet(h, R)
        <3>1. gr \in Int /\ hr \in Int /\ g[c] \in Int /\ h[c] \in Int /\ f[c] = k * g[c] + h[c]
            BY <1>1, <2>3, <2>4
        <3>2. (k * g[c] + h[c]) + (k * gr + hr) = k * (g[c] + gr) + (h[c] + hr)
            <4> HIDE DEF gr, hr
            <4> QED BY <3>1
        <3> QED BY <2>2, <2>3, <2>4, <3>1, <3>2
    <2>5. CASE T = {}
        BY <2>2, <2>5
    <2> QED BY <2>4, <2>5
<1> QED BY <1>2

LEMMA SumOfMultiples ==
    ASSUME NEW f, NEW g, NEW k \in Int, NEW S, IsFiniteSet(S),
           \A x \in S : f[x] \in Int /\ g[x] \in Int /\ f[x] = k * g[x]
    PROVE  SumFunctionOnSet(f, S) = k * SumFunctionOnSet(g, S)
<1> DEFINE none == [x \in S |-> 0]
<1>1. \A x \in S : none[x] \in Int /\ none[x] = 1 * none[x] + none[x]
    OBVIOUS
<1>2. \A x \in S : f[x] = k * g[x] + none[x]
    OBVIOUS
<1> HIDE DEF none
<1>3. SumFunctionOnSet(none, S) = 1 * SumFunctionOnSet(none, S) + SumFunctionOnSet(none, S)
    BY <1>1, SumIsLinear
<1>4. SumFunctionOnSet(none, S) = 0
    BY <1>1, <1>3, SumIsInt
<1>5. SumFunctionOnSet(f, S) = k * SumFunctionOnSet(g, S) + SumFunctionOnSet(none, S)
    BY <1>1, <1>2, SumIsLinear
<1>6. SumFunctionOnSet(g, S) \in Int
    BY SumIsInt
<1> QED BY <1>4, <1>5, <1>6

LEMMA SumIsMonotone ==
    ASSUME NEW f, NEW g, NEW S, IsFiniteSet(S),
           \A x \in S : f[x] \in Int /\ g[x] \in Int /\ f[x] <= g[x]
    PROVE  SumFunctionOnSet(f, S) <= SumFunctionOnSet(g, S)
<1> DEFINE C == {T \in SUBSET S : ~ (SumFunctionOnSet(f, T) <= SumFunctionOnSet(g, T))}
<1>1. \A T \in SUBSET S : /\ IsFiniteSet(T) /\ SumFunctionOnSet(f, T) \in Int
                          /\ SumFunctionOnSet(g, T) \in Int
    BY FS_Subset, SumIsInt
<1>2. CASE C # {}
    <2>1. PICK T \in C : \A x \in T : T \ {x} \notin C
        BY <1>1, <1>2, Smallest
    <2> DEFINE R == Rest(T)  c == Choice(T)
    <2>2. /\ T = {} => SumFunctionOnSet(f, T) = 0 /\ SumFunctionOnSet(g, T) = 0
          /\ T # {} => /\ SumFunctionOnSet(f, T) = f[c] + SumFunctionOnSet(f, R)
                       /\ SumFunctionOnSet(g, T) = g[c] + SumFunctionOnSet(g, R)
        BY <1>1, SumStep
    <2>3. T # {} => /\ c \in S /\ R \in SUBSET S
                    /\ SumFunctionOnSet(f, R) <= SumFunctionOnSet(g, R)
        BY <1>1, <2>1, RestIs DEF Rest
    <2> HIDE DEF R, c
    <2> QED BY <1>1, <2>2, <2>3
<1> QED BY <1>2

\* The order of two sums does not matter.
Weighted(D, X, w, q, G, row, column, rows, all) ==
    /\ \A l \in D : w[l] \in Int
    /\ \A x \in X : q[x] \in Int
    /\ \A l \in D : \A x \in X : /\ G[l][x] \in Int /\ row[l][x] \in Int /\ column[x][l] \in Int
                                 /\ row[l][x] = q[x] * G[l][x] /\ column[x][l] = w[l] * G[l][x]
    /\ \A l \in D : rows[l] = w[l] * SumFunctionOnSet(row[l], X)
    /\ \A x \in X : all[x] = q[x] * SumFunctionOnSet(column[x], D)

LEMMA SumsCommute ==
    ASSUME NEW D, NEW X, IsFiniteSet(D), IsFiniteSet(X), NEW w, NEW q, NEW G,
           NEW row, NEW column, NEW rows, NEW all, Weighted(D, X, w, q, G, row, column, rows, all)
    PROVE  SumFunctionOnSet(rows, D) = SumFunctionOnSet(all, X)
<1> USE DEF Weighted
<1> DEFINE columns(T) == [x \in X |-> q[x] * SumFunctionOnSet(column[x], T)]
           C == {T \in SUBSET D : SumFunctionOnSet(rows, T) # SumFunctionOnSet(columns(T), X)}
<1>1. \A T \in SUBSET D : IsFiniteSet(T)
    BY FS_Subset
<1>5. \A l \in D : SumFunctionOnSet(row[l], X) \in Int
    BY SumIsInt
<1>6. \A T \in SUBSET D, x \in X : SumFunctionOnSet(column[x], T) \in Int
    <2> SUFFICES ASSUME NEW T \in SUBSET D, NEW x \in X PROVE SumFunctionOnSet(column[x], T) \in Int
        OBVIOUS
    <2> DEFINE f == column[x]
    <2>1. \A l \in T : f[l] \in Int
        OBVIOUS
    <2> HIDE DEF f
    <2>2. SumFunctionOnSet(f, T) \in Int
        BY <1>1, <2>1, SumIsInt
    <2> QED BY <2>2 DEF f
<1>7. \A T \in SUBSET D : columns(T) \in [X -> Int]
    <2> SUFFICES ASSUME NEW T \in SUBSET D PROVE columns(T) \in [X -> Int]
        OBVIOUS
    <2>1. ASSUME NEW x \in X PROVE q[x] * SumFunctionOnSet(column[x], T) \in Int
        <3>1. q[x] \in Int /\ SumFunctionOnSet(column[x], T) \in Int
            BY <1>6
        <3> QED BY <3>1
    <2> QED BY <2>1
<1>8. CASE C # {}
    <2>1. PICK T \in C : \A x \in T : T \ {x} \notin C
        BY <1>1, <1>8, Smallest
    <2> DEFINE R == Rest(T)  c == Choice(T)
    <2>2. /\ T = {} => SumFunctionOnSet(rows, T) = 0
          /\ T # {} => SumFunctionOnSet(rows, T) = rows[c] + SumFunctionOnSet(rows, R)
        BY <1>1, SumStep
    <2>3. ASSUME NEW x \in X
          PROVE  /\ T = {} => SumFunctionOnSet(column[x], T) = 0
                 /\ T # {} => SumFunctionOnSet(column[x], T) = column[x][c] + SumFunctionOnSet(column[x], R)
        BY <1>1, SumStep
    <2>4. T # {} => /\ c \in D /\ R \in SUBSET D
                    /\ SumFunctionOnSet(rows, R) = SumFunctionOnSet(columns(R), X)
        BY <1>1, <2>1, RestIs DEF Rest
    <2> HIDE DEF R, c
    <2>5. CASE T = {}
        <3>1. \A x \in X : columns(T)[x] = 0 * columns(T)[x] /\ columns(T)[x] \in Int
            BY <2>3, <2>5
        <3> DEFINE f == columns(T)
        <3> HIDE DEF columns
        <3>2. SumFunctionOnSet(f, X) = 0 * SumFunctionOnSet(f, X)
            <4> HIDE DEF f
            <4> QED BY <3>1, SumOfMultiples DEF f
        <3>3. SumFunctionOnSet(columns(T), X) = 0
            BY <3>1, <3>2, SumIsInt
        <3> QED BY <2>1, <2>2, <2>5, <3>3
    <2>6. CASE T # {}
        <3>1. c \in D /\ R \in SUBSET D
            BY <2>4, <2>6
        <3>2. ASSUME NEW x \in X
              PROVE  /\ columns(T)[x] \in Int /\ row[c][x] \in Int /\ columns(R)[x] \in Int
                     /\ columns(T)[x] = w[c] * row[c][x] + columns(R)[x]
            <4> DEFINE b == SumFunctionOnSet(column[x], R)
            <4>1. columns(T)[x] = q[x] * (w[c] * G[c][x] + b) /\ columns(R)[x] = q[x] * b
                BY <2>3, <2>6, <3>1
            <4>2. b \in Int /\ w[c] \in Int /\ q[x] \in Int /\ G[c][x] \in Int /\ row[c][x] = q[x] * G[c][x]
                BY <1>6, <3>1
            <4> HIDE DEF b, columns
            <4>3. q[x] * (w[c] * G[c][x] + b) = w[c] * (q[x] * G[c][x]) + q[x] * b
                BY <4>2
            <4>4. w[c] * (q[x] * G[c][x]) \in Int /\ q[x] * G[c][x] \in Int /\ q[x] * b \in Int
                BY <4>2
            <4>5. columns(T)[x] \in Int
                BY <4>1, <4>3, <4>4
            <4> QED BY <4>1, <4>2, <4>3, <4>4, <4>5
        <3> DEFINE f == columns(T)  g == row[c]  h == columns(R)
        <3>3. rows[c] = w[c] * SumFunctionOnSet(row[c], X) /\ w[c] \in Int
            BY <3>1
        <3> HIDE DEF columns
        <3>4. SumFunctionOnSet(f, X) = w[c] * SumFunctionOnSet(g, X) + SumFunctionOnSet(h, X)
            <4>1. \A x \in X : f[x] \in Int /\ g[x] \in Int /\ h[x] \in Int /\ f[x] = w[c] * g[x] + h[x]
                BY <3>2
            <4> HIDE DEF f, g, h
            <4> QED BY <3>3, <4>1, SumIsLinear
        <3> QED BY <2>1, <2>2, <2>4, <2>6, <3>3, <3>4
    <2> QED BY <2>5, <2>6
<1>9. CASE C = {}
    <2> HIDE DEF C
    <2>1. D \notin C
        BY <1>9
    <2> DEFINE f == columns(D)
    <2>2. \A x \in X : f[x] = all[x]
        OBVIOUS
    <2> HIDE DEF f, columns
    <2>3. SumFunctionOnSet(f, X) = SumFunctionOnSet(all, X)
        BY <2>2, SumSame
    <2> QED BY <2>1, <2>3 DEF C, f
<1> QED BY <1>8, <1>9

\* The sum over a sequence that one element is appended to.
LEMMA SumAppends ==
    ASSUME NEW n \in Nat, NEW f \in [1 .. n -> Nat], NEW g \in [1 .. n + 1 -> Nat],
           \A i \in 1 .. n : g[i] = f[i]
    PROVE  SumFunction(f) \in Nat /\ SumFunction(g) = SumFunction(f) + g[n + 1]
<1>1. IsFiniteSet(1 .. n) /\ 1 .. n + 1 = (1 .. n) \cup {n + 1} /\ n + 1 \notin 1 .. n
    <2>1. IsFiniteSet(1 .. n)
        BY FS_Interval
    <2> QED BY <2>1
<1>2. SumFunctionOnSet(f, 1 .. n) \in Nat /\ SumFunctionOnSet(g, 1 .. n) = SumFunctionOnSet(f, 1 .. n)
    BY <1>1, SumIsNat, SumSame
<1>3. SumFunctionOnSet(g, (1 .. n) \cup {n + 1}) = SumFunctionOnSet(g, 1 .. n) + g[n + 1]
    BY <1>1, SumAdds
<1>4. DOMAIN f = 1 .. n /\ DOMAIN g = (1 .. n) \cup {n + 1}
    BY <1>1
<1>5. SumFunction(f) = SumFunctionOnSet(f, DOMAIN f) /\ SumFunction(g) = SumFunctionOnSet(g, DOMAIN g)
    BY DEF SumFunction
<1> QED BY <1>2, <1>3, <1>4, <1>5

\* Older keeps what every job keeps when it gets older.
LEMMA OlderIs ==
    ASSUME NEW J, NEW jobs \in Seq(J), \A job \in J : [job EXCEPT !.remaining = job.remaining - 1] \in J
    PROVE  Older(jobs) \in Seq(J)
<1> DEFINE n == Len(jobs)
           After(k, before) ==
                IF k = 0 THEN <<>>
                ELSE IF jobs[k].remaining > 1
                THEN Append(before, [jobs[k] EXCEPT !.remaining = jobs[k].remaining - 1])
                ELSE before
           Kept(g, m) == g = [k \in 0 .. m |-> After(k, g[k - 1])]
           Missing == {m \in Nat : ~ \E g : Kept(g, m)}
<1>0. n \in Nat /\ \A k \in 1 .. n : jobs[k] \in J
    BY LenProperties, ElementOfSeq
<1> HIDE DEF After
<1>1. Missing = {}
    <2> SUFFICES ASSUME Missing # {} PROVE FALSE
        OBVIOUS
    <2>1. PICK m \in Missing : \A o \in Missing : m <= o
        BY LeastMember
    <2>2. CASE m = 0
        <3> DEFINE g == [k \in 0 .. 0 |-> After(0, 0)]
        <3>1. \A b : After(0, b) = After(0, 0)
            BY DEF After
        <3>2. Kept(g, 0)
            <4>1. \A k \in 0 .. 0 : After(k, g[k - 1]) = After(0, 0)
                BY <3>1
            <4> HIDE DEF After
            <4> QED BY <4>1
        <3> QED BY <2>1, <2>2, <3>2
    <2>3. CASE m # 0
        <3>1. m - 1 \in Nat /\ m - 1 \notin Missing
            BY <2>1, <2>3
        <3>2. PICK g : Kept(g, m - 1)
            BY <3>1
        <3> DEFINE h == [k \in 0 .. m |-> IF k = m THEN After(m, g[m - 1]) ELSE g[k]]
        <3>3. \A k \in 0 .. m - 1 : h[k] = g[k]
            BY <3>1
        <3>4. ASSUME NEW k \in 0 .. m PROVE h[k] = After(k, h[k - 1])
            <4>1. CASE k = 0
                <5>0. 0 \in 0 .. m - 1
                    BY <3>1
                <5>1. g[0] = After(0, g[0 - 1])
                    <6>1. \A i \in 0 .. m - 1 : g[i] = After(i, g[i - 1])
                        BY <3>2
                    <6> QED BY <5>0, <6>1
                <5>2. \A b, c : After(0, b) = After(0, c)
                    BY DEF After
                <5> QED BY <2>3, <4>1, <5>1, <5>2
            <4>2. CASE k = m
                <5>1. h[m] = After(m, g[m - 1])
                    <6>1. m \in 0 .. m
                        BY <2>1
                    <6> QED BY <6>1
                <5>2. k - 1 \in 0 .. m - 1
                    BY <3>1, <4>2
                <5>3. h[m - 1] = g[m - 1]
                    BY <3>3, <4>2, <5>2
                <5> HIDE DEF h
                <5> QED BY <4>2, <5>1, <5>3
            <4>3. CASE k # 0 /\ k # m
                <5>1. g[k] = After(k, g[k - 1]) /\ k - 1 \in 0 .. m - 1 /\ k \in 0 .. m - 1
                    BY <3>1, <3>2, <4>3
                <5> QED BY <3>3, <4>3, <5>1
            <4> QED BY <4>1, <4>2, <4>3
        <3>5. Kept(h, m)
            <4>1. h = [k \in 0 .. m |-> h[k]]
                OBVIOUS
            <4> HIDE DEF h
            <4> QED BY <3>4, <4>1
        <3> QED BY <2>1, <3>5
    <2> QED BY <2>2, <2>3
<1> DEFINE kept == CHOOSE g : Kept(g, n)
<1>2. Kept(kept, n)
    <2>1. \E g : Kept(g, n)
        BY <1>0, <1>1
    <2> HIDE DEF Kept
    <2> QED BY <2>1
<1>3. Older(jobs) = kept[n]
    BY DEF Older, After
<1> HIDE DEF kept
<1>4. \A k \in 0 .. n : kept[k] \in Seq(J)
    <2> DEFINE Bad == {k \in 0 .. n : kept[k] \notin Seq(J)}
    <2> SUFFICES ASSUME Bad # {} PROVE FALSE
        OBVIOUS
    <2>1. PICK k \in Bad : \A o \in Bad : k <= o
        <3>1. Bad \subseteq Nat
            BY <1>0
        <3> HIDE DEF Bad
        <3> QED BY <3>1, LeastMember
    <2>2. kept[k] = After(k, kept[k - 1])
        BY <1>2
    <2>3. CASE k = 0
        BY <2>1, <2>2, <2>3, EmptySeq DEF After
    <2>4. CASE k # 0
        <3>1. kept[k - 1] \in Seq(J) /\ k \in 1 .. n
            BY <1>0, <2>1, <2>4
        <3>2. [jobs[k] EXCEPT !.remaining = jobs[k].remaining - 1] \in J
            BY <1>0, <3>1
        <3> DEFINE aged == [jobs[k] EXCEPT !.remaining = jobs[k].remaining - 1]
        <3>3. kept[k] = IF jobs[k].remaining > 1 THEN Append(kept[k - 1], aged) ELSE kept[k - 1]
            BY <2>2, <2>4 DEF After
        <3> HIDE DEF aged
        <3>4. aged \in J
            BY <3>2 DEF aged
        <3>5. Append(kept[k - 1], aged) \in Seq(J)
            BY <3>1, <3>4, AppendProperties
        <3>6. kept[k] \in Seq(J)
            BY <3>1, <3>3, <3>5
        <3> QED BY <2>1, <3>6
    <2> QED BY <2>3, <2>4
<1> QED BY <1>0, <1>3, <1>4

-----------------------------------------------------------------------------
\* What an auction relies on: the types of a provider's state.

RouteJobs == [work : Families, remaining : Int]

RouteTyped(p, s) ==
    /\ RouteShape(s)
    /\ s.rate \in [capabilities(p) -> Int] /\ s.pressure \in [capabilities(p) -> Int]
    /\ s.jobs \in Seq(RouteJobs)

ToyTyped(s) ==
    ToyShape(s) /\ s.pressure \in Nat /\ s.queue \in Seq(ToyJobs) /\ s.external \in Seq(ToyJobs)

Typed(route, p, s) == IF route THEN RouteTyped(p, s) ELSE ToyTyped(s)

\* An episode draws one of the values, whether the streams are paired or not.
LEMMA DrawnIs ==
    ASSUME NEW Values, NEW streams, NEW drawn \in Draws(Values, streams)
    PROVE  \A e \in Episodes : drawn[e] \in Values
BY DEF Draws

\* Both markets open with no job.
LEMMA TypedStart ==
    ASSUME NEW p \in Providers
    PROVE  RouteTyped(p, initialize_route_state(p)) /\ ToyTyped(ToyState)
<1>1. RouteTyped(p, initialize_route_state(p))
    <2> DEFINE s == initialize_route_state(p)
    <2>1. /\ s.rate = [g \in capabilities(p) |-> NominalRate]
          /\ s.pressure = [g \in capabilities(p) |-> 0] /\ s.jobs = <<>>
          /\ RouteShape(s)
        BY DEF initialize_route_state, RouteShape
    <2> HIDE DEF s
    <2>2. NominalRate \in Int
        BY RouteAssumption
    <2>3. s.rate \in [capabilities(p) -> Int] /\ s.pressure \in [capabilities(p) -> Int]
        BY <2>1, <2>2
    <2>4. s.jobs \in Seq(RouteJobs)
        BY <2>1, EmptySeq
    <2>5. RouteTyped(p, s)
        BY <2>1, <2>3, <2>4 DEF RouteTyped
    <2> QED BY <2>5 DEF s
<1>2. ToyTyped(ToyState)
    BY EmptySeq DEF ToyTyped, ToyShape, ToyState
<1> QED BY <1>1, <1>2

\* A period ages the jobs and changes nothing else.
LEMMA TypedAges ==
    ASSUME NEW p, NEW s
    PROVE  /\ RouteTyped(p, s) => RouteTyped(p, advance_reservations(s))
           /\ ToyTyped(s) => ToyTyped(advance_queues(s))
<1>1. ASSUME RouteTyped(p, s) PROVE RouteTyped(p, advance_reservations(s))
    <2>1. RouteShape(advance_reservations(s)) /\ SameWorld(TRUE, advance_reservations(s), advance_reservations(s))
        BY <1>1, QueuesAdvance DEF RouteTyped, SameWorld
    <2>2. /\ advance_reservations(s).rate = s.rate /\ advance_reservations(s).pressure = s.pressure
          /\ advance_reservations(s).jobs = Older(s.jobs)
        BY <1>1 DEF RouteTyped, RouteShape, advance_reservations
    <2>3. \A job \in RouteJobs : [job EXCEPT !.remaining = job.remaining - 1] \in RouteJobs
        BY DEF RouteJobs
    <2>4. Older(s.jobs) \in Seq(RouteJobs)
        <3>1. s.jobs \in Seq(RouteJobs)
            BY <1>1 DEF RouteTyped
        <3> QED BY <2>3, <3>1, OlderIs
    <2> QED BY <1>1, <2>1, <2>2, <2>4 DEF RouteTyped
<1>2. ASSUME ToyTyped(s) PROVE ToyTyped(advance_queues(s))
    <2>1. ToyShape(advance_queues(s))
        BY <1>2, QueuesAdvance DEF ToyTyped, SameWorld
    <2>2. /\ advance_queues(s).pressure = s.pressure
          /\ advance_queues(s).queue = Older(s.queue) /\ advance_queues(s).external = Older(s.external)
        <3> DEFINE q == Older(s.queue)  x == Older(s.external)
        <3>1. advance_queues(s) = [s EXCEPT !.queue = q, !.external = x]
            BY DEF advance_queues
        <3> HIDE DEF q, x
        <3>2. /\ advance_queues(s).pressure = s.pressure
              /\ advance_queues(s).queue = q /\ advance_queues(s).external = x
            BY <1>2, <3>1 DEF ToyTyped, ToyShape
        <3> QED BY <3>2 DEF q, x
    <2>3. \A job \in ToyJobs : [job EXCEPT !.remaining = job.remaining - 1] \in ToyJobs
        BY DEF ToyJobs
    <2>4. Older(s.queue) \in Seq(ToyJobs) /\ Older(s.external) \in Seq(ToyJobs)
        <3>1. s.queue \in Seq(ToyJobs) /\ s.external \in Seq(ToyJobs)
            BY <1>2 DEF ToyTyped
        <3> QED BY <2>3, <3>1, OlderIs
    <2> QED BY <1>2, <2>1, <2>2, <2>4 DEF ToyTyped
<1> QED BY <1>1, <1>2

LEMMA ClippedIs ==
    ASSUME NEW n \in Int, NEW low \in Int, NEW high \in Int
    PROVE  Clipped(n, low, high) \in Int
<1>1. Min({high, n}) \in Int
    BY MinOfTwo
<1> QED BY <1>1, MaxOfInts DEF Clipped

\* Rates and pressures stay numbers of the groups the provider has.
LEMMA TypedMoves ==
    ASSUME NEW p \in Providers, NEW s, RouteTyped(p, s), NEW noise \in RouteNoise
    PROVE  RouteTyped(p, update_operating_state(p, s, noise))
<1> DEFINE t == update_operating_state(p, s, noise)
<1>1. RouteShape(t)
    BY RouteUpdate DEF RouteTyped, SameWorld
<1>2. /\ t.rate = [g \in capabilities(p) |-> Clipped(s.rate[g] + noise.rate[<<p, g>>], MinRate, MaxRate)]
      /\ t.pressure = [g \in capabilities(p) |->
                            Clipped(s.pressure[g] + noise.pressure[<<p, g>>], 0, MaxPressure)]
      /\ t.jobs = s.jobs
    <2> DEFINE rate == [g \in capabilities(p) |-> Clipped(s.rate[g] + noise.rate[<<p, g>>], MinRate, MaxRate)]
               pressure == [g \in capabilities(p) |->
                                Clipped(s.pressure[g] + noise.pressure[<<p, g>>], 0, MaxPressure)]
    <2>1. t = [s EXCEPT !.rate = rate, !.pressure = pressure]
        BY Zenon DEF update_operating_state
    <2> HIDE DEF rate, pressure, t
    <2>2. t.rate = rate /\ t.pressure = pressure /\ t.jobs = s.jobs
        BY <2>1 DEF RouteTyped, RouteShape
    <2> QED BY <2>2 DEF rate, pressure
<1>3. ASSUME NEW g \in capabilities(p)
      PROVE  noise.rate[<<p, g>>] \in Int /\ noise.pressure[<<p, g>>] \in Int
    <2>1. <<p, g>> \in Slots
        BY DEF Slots
    <2>2. noise.rate \in [Slots -> {-1, 1}] /\ noise.pressure \in [Slots -> {-1, 1}]
        BY DEF RouteNoise
    <2> QED BY <2>1, <2>2
<1>4. MinRate \in Int /\ MaxRate \in Int /\ MaxPressure \in Int
    BY RouteAssumption, ToyAssumption
<1> HIDE DEF t
<1>5. ASSUME NEW g \in capabilities(p)
      PROVE  /\ Clipped(s.rate[g] + noise.rate[<<p, g>>], MinRate, MaxRate) \in Int
             /\ Clipped(s.pressure[g] + noise.pressure[<<p, g>>], 0, MaxPressure) \in Int
    <2>1. s.rate[g] \in Int /\ s.pressure[g] \in Int
        BY DEF RouteTyped
    <2>2. s.rate[g] + noise.rate[<<p, g>>] \in Int /\ s.pressure[g] + noise.pressure[<<p, g>>] \in Int
        BY <1>3, <2>1
    <2>3. \A n \in Int : Clipped(n, MinRate, MaxRate) \in Int /\ Clipped(n, 0, MaxPressure) \in Int
        BY <1>4, ClippedIs
    <2> QED BY <2>2, <2>3
<1>6. t.rate \in [capabilities(p) -> Int] /\ t.pressure \in [capabilities(p) -> Int]
    BY <1>2, <1>5
<1>7. s.jobs \in Seq(RouteJobs)
    BY DEF RouteTyped
<1> QED BY <1>1, <1>2, <1>6, <1>7 DEF RouteTyped, t

LEMMA TypedOutside ==
    ASSUME NEW s, ToyTyped(s), NEW l, NEW noise \in ToyNoise(l)
    PROVE  ToyTyped(update_exogenous_state(s, l, noise))
<1> DEFINE t == update_exogenous_state(s, l, noise)
           pressure == IF l = "core" THEN Min({MaxPressure, Max({0, s.pressure - 1}) + 2 * noise.shock}) ELSE 0
           more == s.external \o noise.jobs
<1>1. ToyShape(t)
    BY ToyUpdate DEF ToyTyped, SameWorld
<1>2. t.pressure = pressure /\ t.queue = s.queue /\ t.external = more
    <2>1. t = [s EXCEPT !.available = noise.available, !.pressure = pressure, !.external = more]
        BY Zenon DEF update_exogenous_state
    <2> HIDE DEF pressure, more, t
    <2> QED BY <2>1 DEF ToyTyped, ToyShape
<1>3. noise.shock \in Nat /\ noise.jobs \in Seq(ToyJobs)
    <2>1. noise.shock \in 0 .. 1
        BY DEF ToyNoise
    <2>2. noise.jobs = <<>> \/ \E j \in ExternalJobs : noise.jobs = <<j>>
        BY DEF ToyNoise
    <2>3. \A j \in ExternalJobs : <<j>> \in Seq(ToyJobs)
        BY ToyAssumption
    <2>4. noise.jobs \in Seq(ToyJobs)
        BY <2>2, <2>3, EmptySeq
    <2> QED BY <2>1, <2>4
<1>4. pressure \in Nat
    <2>1. s.pressure - 1 \in Int /\ MaxPressure \in Nat
        BY ToyAssumption DEF ToyTyped
    <2>2. Max({0, s.pressure - 1}) \in Nat
        BY <2>1, MaxOfInts
    <2>3. Max({0, s.pressure - 1}) + 2 * noise.shock \in Nat
        BY <1>3, <2>2
    <2>4. \A b \in Nat : Min({MaxPressure, b}) \in Nat
        BY <2>1, MinOfTwo
    <2> QED BY <2>3, <2>4
<1>5. more \in Seq(ToyJobs)
    <2>1. s.external \in Seq(ToyJobs)
        BY DEF ToyTyped
    <2> QED BY <1>3, <2>1, ConcatProperties
<1> HIDE DEF t, pressure, more
<1>6. ToyTyped(t)
    BY <1>1, <1>2, <1>4, <1>5 DEF ToyTyped
<1> QED BY <1>6 DEF t

-----------------------------------------------------------------------------
\* What fits before a reservation, and after it.

\* A job more is its work more.
LEMMA LoadAppends ==
    ASSUME NEW jobs \in Seq(ToyJobs), NEW job \in ToyJobs
    PROVE  Load(jobs) \in Nat /\ Load(Append(jobs, job)) = Load(jobs) + job.work
<1> DEFINE n == Len(jobs)
           f == [k \in DOMAIN jobs |-> jobs[k].work]
           more == Append(jobs, job)
           g == [k \in DOMAIN more |-> more[k].work]
<1>1. /\ n \in Nat /\ DOMAIN jobs = 1 .. n /\ \A k \in 1 .. n : jobs[k] \in ToyJobs
      /\ DOMAIN more = 1 .. n + 1 /\ more[n + 1] = job
      /\ \A k \in 1 .. n : more[k] = jobs[k]
    BY LenProperties, ElementOfSeq, AppendProperties
<1>2. \A j \in ToyJobs : j.work \in Nat
    BY DEF ToyJobs
<1> HIDE DEF n, more
<1>3. \A k \in 1 .. n + 1 : more[k].work \in Nat
    <2>1. \A k \in 1 .. n + 1 : k \in 1 .. n \/ k = n + 1
        BY <1>1
    <2> QED BY <1>1, <1>2, <2>1
<1>4. f \in [1 .. n -> Nat] /\ g \in [1 .. n + 1 -> Nat]
    BY <1>1, <1>2, <1>3
<1>5. \A k \in 1 .. n : g[k] = f[k]
    BY <1>1
<1>6. g[n + 1] = job.work
    BY <1>1
<1> HIDE DEF f, g
<1>7. SumFunction(f) \in Nat /\ SumFunction(g) = SumFunction(f) + g[n + 1]
    BY <1>1, <1>4, <1>5, SumAppends
<1>8. Load(jobs) = SumFunction(f) /\ Load(more) = SumFunction(g)
    BY DEF Load, f, g
<1> QED BY <1>6, <1>7, <1>8 DEF more

\* What a workload holds of a group.
HeldOf(work, g) == IF g \in DOMAIN work THEN work[g] ELSE 0

LEMMA HeldIsNat ==
    ASSUME NEW work \in Families, NEW g
    PROVE  HeldOf(work, g) \in Nat
BY RouteAssumption DEF HeldOf

\* A reservation more is what it holds of the group more.
LEMMA WorkloadAppends ==
    ASSUME NEW p, NEW s, RouteTyped(p, s), NEW o, o.work \in Families, NEW m \in Int, NEW g
    PROVE  /\ platform_workload(s, g) \in Nat
           /\ platform_workload(reserve_order(s, o, m), g) = platform_workload(s, g) + HeldOf(o.work, g)
<1> DEFINE jobs == s.jobs
           n == Len(jobs)
           job == [work |-> o.work, remaining |-> m]
           more == Append(jobs, job)
           f == [k \in DOMAIN jobs |-> HeldOf(jobs[k].work, g)]
           h == [k \in DOMAIN more |-> HeldOf(more[k].work, g)]
<1>0. jobs \in Seq(RouteJobs) /\ job \in RouteJobs /\ job.work = o.work
    BY DEF RouteTyped, RouteJobs
<1>1. reserve_order(s, o, m).jobs = more
    <2> HIDE DEF more, job
    <2>1. reserve_order(s, o, m) = [s EXCEPT !.jobs = more]
        BY Zenon DEF reserve_order, more, job, jobs
    <2> QED BY <2>1 DEF RouteTyped, RouteShape
<1> HIDE DEF jobs, job
<1>2. /\ n \in Nat /\ DOMAIN jobs = 1 .. n /\ \A k \in 1 .. n : jobs[k] \in RouteJobs
      /\ DOMAIN more = 1 .. n + 1 /\ more[n + 1] = job
      /\ \A k \in 1 .. n : more[k] = jobs[k]
    BY <1>0, LenProperties, ElementOfSeq, AppendProperties
<1>3. \A j \in RouteJobs : HeldOf(j.work, g) \in Nat
    BY HeldIsNat DEF RouteJobs
<1> HIDE DEF n, more
<1>4. \A k \in 1 .. n + 1 : HeldOf(more[k].work, g) \in Nat
    <2>1. \A k \in 1 .. n + 1 : k \in 1 .. n \/ k = n + 1
        BY <1>2
    <2> QED BY <1>0, <1>2, <1>3, <2>1
<1>5. f \in [1 .. n -> Nat] /\ h \in [1 .. n + 1 -> Nat]
    BY <1>2, <1>3, <1>4
<1>6. (\A k \in 1 .. n : h[k] = f[k]) /\ h[n + 1] = HeldOf(o.work, g)
    BY <1>0, <1>2
<1> HIDE DEF f, h
<1>7. SumFunction(f) \in Nat /\ SumFunction(h) = SumFunction(f) + h[n + 1]
    BY <1>2, <1>5, <1>6, SumAppends
<1>8. platform_workload(s, g) = SumFunction(f)
    BY DEF platform_workload, f, HeldOf, jobs
<1>9. platform_workload(reserve_order(s, o, m), g) = SumFunction(h)
    <2> DEFINE r == reserve_order(s, o, m)
    <2>1. r.jobs = more
        BY <1>1
    <2> HIDE DEF r
    <2>2. platform_workload(r, g) = SumFunction(h)
        BY <2>1 DEF platform_workload, h, HeldOf
    <2> QED BY <2>2 DEF r
<1> QED BY <1>6, <1>7, <1>8, <1>9

\* A multiple of a unit bounds what it is a multiple of.
LEMMA UnitBounds ==
    ASSUME NEW u \in Nat \ {0}, NEW a \in Int, NEW b \in Int, u * a >= u * b
    PROVE  a >= b
<1>1. u * (a - b) = u * a - u * b
    OBVIOUS
<1>2. CASE a < b
    <2>1. b - a \in Nat /\ b - a > 0
        BY <1>2
    <2>2. \A x \in Nat : x > 0 => u * x > 0
        OBVIOUS
    <2>3. u * (b - a) > 0
        BY <2>1, <2>2
    <2>4. u * (b - a) = u * b - u * a
        OBVIOUS
    <2> QED BY <2>3, <2>4
<1> QED BY <1>2

\* The free capacity of a group is a number, and positive only as what is not held.
LEMMA FreeIs ==
    ASSUME NEW p \in Providers, NEW s, RouteTyped(p, s), NEW g \in capabilities(p),
           platform_workload(s, g) \in Nat
    PROVE  /\ group_capacity(p, s, g) * (PressureUnit - s.pressure[g]) \in Int
           /\ available_capacity(p, s, g) \in Nat
           /\ available_capacity(p, s, g) > 0 =>
                available_capacity(p, s, g)
                    = group_capacity(p, s, g) * (PressureUnit - s.pressure[g])
                        - PressureUnit * platform_workload(s, g)
<1>1. Equipment[p][g] \in Nat /\ s.rate[g] \in Int /\ s.pressure[g] \in Int /\ PressureUnit \in Nat
    BY RouteAssumption, ToyAssumption DEF RouteTyped, capabilities
<1>2. \A a, b \in Int : a * b \in Int
    OBVIOUS
<1>3. group_capacity(p, s, g) \in Int
    BY <1>1, <1>2 DEF group_capacity
<1> DEFINE all == group_capacity(p, s, g) * (PressureUnit - s.pressure[g])
           held == PressureUnit * platform_workload(s, g)
<1>4. all \in Int /\ held \in Int
    <2>1. PressureUnit - s.pressure[g] \in Int
        BY <1>1
    <2> QED BY <1>1, <1>2, <1>3, <2>1
<1>5. available_capacity(p, s, g) = Max({0, all - held})
    BY DEF available_capacity
<1> HIDE DEF all, held
<1>6. Max({0, all - held}) = IF 0 >= all - held THEN 0 ELSE all - held
    BY <1>4, MaxOfInts
<1>7. available_capacity(p, s, g) \in Nat
      /\ (available_capacity(p, s, g) > 0 => available_capacity(p, s, g) = all - held)
    BY <1>4, <1>5, <1>6
<1> QED BY <1>4, <1>7 DEF all, held

\* A reservation that was feasible fits afterwards.
LEMMA ReservedFits ==
    ASSUME NEW p \in Providers, NEW s, RouteTyped(p, s), NEW o, o.work \in Families, NEW m \in Int,
           is_route_capacity_feasible(p, s, o), NEW g \in DOMAIN o.work
    PROVE  RouteFits(p, reserve_order(s, o, m), g)
<1> DEFINE r == reserve_order(s, o, m)
           all == group_capacity(p, s, g) * (PressureUnit - s.pressure[g])
<1>1. /\ platform_workload(s, g) \in Nat
      /\ platform_workload(r, g) = platform_workload(s, g) + HeldOf(o.work, g)
    BY WorkloadAppends
<1>2. g \in capabilities(p) /\ available_capacity(p, s, g) >= PressureUnit * o.work[g]
    BY DEF is_route_capacity_feasible, is_capability_feasible
<1>3. o.work[g] \in Nat \ {0} /\ PressureUnit \in Nat \ {0} /\ HeldOf(o.work, g) = o.work[g]
    BY RouteAssumption, ToyAssumption DEF HeldOf
<1>4. PressureUnit * o.work[g] > 0 /\ PressureUnit * o.work[g] \in Nat
    <2>1. \A a, b \in Nat \ {0} : a * b > 0 /\ a * b \in Nat
        OBVIOUS
    <2> QED BY <1>3, <2>1
<1>5. all \in Int /\ available_capacity(p, s, g) \in Nat
      /\ (available_capacity(p, s, g) > 0 =>
            available_capacity(p, s, g) = all - PressureUnit * platform_workload(s, g))
    BY <1>1, <1>2, FreeIs
<1>6. r.rate = s.rate /\ r.pressure = s.pressure
    BY JobTaken DEF RouteTyped, SameWorld
<1>7. group_capacity(p, r, g) * (PressureUnit - r.pressure[g]) = all
    BY <1>6 DEF group_capacity
<1> HIDE DEF all, r
<1>8. PressureUnit * (platform_workload(s, g) + o.work[g])
        = PressureUnit * platform_workload(s, g) + PressureUnit * o.work[g]
    <2>1. \A a, b, c \in Nat : a * (b + c) = a * b + a * c
        OBVIOUS
    <2> QED BY <1>1, <1>3, <2>1
<1>9. PressureUnit * platform_workload(s, g) \in Nat
    <2>1. \A a, b \in Nat : a * b \in Nat
        OBVIOUS
    <2> QED BY <1>1, <1>3, <2>1
<1>10. available_capacity(p, s, g) = all - PressureUnit * platform_workload(s, g)
    BY <1>2, <1>4, <1>5
<1>11. PressureUnit * (platform_workload(s, g) + o.work[g]) <= all
    BY <1>2, <1>4, <1>5, <1>8, <1>9, <1>10
<1>12. PressureUnit * platform_workload(r, g) <= group_capacity(p, r, g) * (PressureUnit - r.pressure[g])
    BY <1>1, <1>3, <1>7, <1>11
<1> QED BY <1>12 DEF RouteFits, r

\* A route that is feasible group by group is feasible in aggregate.
LEMMA RouteIsAggregate ==
    ASSUME NEW p \in Providers, NEW s, RouteTyped(p, s), NEW o, o.work \in Families,
           is_route_capacity_feasible(p, s, o)
    PROVE  is_aggregate_capacity_feasible(p, s, o)
<1> DEFINE D == DOMAIN o.work
           free == [g \in D |-> available_capacity(p, s, g)]
<1>1. IsFiniteSet(D) /\ o.work \in [D -> Nat \ {0}] /\ PressureUnit \in Nat
    BY RouteAssumption, ToyAssumption
<1>2. is_capability_feasible(p, o) /\ \A g \in D : free[g] >= PressureUnit * o.work[g]
    BY DEF is_route_capacity_feasible
<1>3. ASSUME NEW g \in D PROVE free[g] \in Nat
    <2>1. platform_workload(s, g) \in Nat
        <3>1. 0 \in Int
            OBVIOUS
        <3> QED BY <3>1, WorkloadAppends
    <2>2. g \in capabilities(p)
        BY <1>2 DEF is_capability_feasible
    <2> QED BY <2>1, <2>2, FreeIs
<1> HIDE DEF free
<1>4. SumFunctionOnSet(free, D) >= PressureUnit * SumFunctionOnSet(o.work, D)
    <2>1. \A g \in D : free[g] \in Nat /\ o.work[g] \in Nat /\ free[g] >= PressureUnit * o.work[g]
        BY <1>1, <1>2, <1>3
    <2> DEFINE w == o.work
    <2> HIDE DEF w
    <2>2. \A g \in D : free[g] \in Nat /\ w[g] \in Nat /\ free[g] >= PressureUnit * w[g]
        BY <2>1 DEF w
    <2> HIDE DEF D
    <2>3. SumFunctionOnSet(free, D) >= PressureUnit * SumFunctionOnSet(w, D)
        BY <1>1, <2>2, SumDominates
    <2> QED BY <2>3 DEF w
<1>5. SumFunction(free) >= PressureUnit * SumFunction(o.work)
    <2>1. DOMAIN free = D
        BY DEF free
    <2> QED BY <1>4, <2>1 DEF SumFunction
<1> QED BY <1>2, <1>5 DEF is_aggregate_capacity_feasible, free

\* A job that was feasible fits afterwards.
LEMMA TakenFits ==
    ASSUME NEW l, NEW p \in Providers, NEW s, ToyTyped(s), NEW o, o.work \in Nat \ {0}, NEW m \in Int,
           toy_feasible(l, p, s, o)
    PROVE  ToyFits(p, add_platform_job(s, o, m)) /\ ToyTyped(add_platform_job(s, o, m))
<1> DEFINE job == [work |-> o.work, remaining |-> m]
           t == add_platform_job(s, o, m)
           left == PressureUnit * remaining_capacity(p, s)
<1>1. job \in ToyJobs /\ job.work = o.work
    BY DEF ToyJobs
<1>2. ToyShape(t) /\ t.pressure = s.pressure /\ t.external = s.external
    BY JobTaken DEF ToyTyped, SameWorld
<1>3. t.queue = Append(s.queue, job)
    <2> HIDE DEF t, job
    <2>1. t = [s EXCEPT !.queue = Append(s.queue, job)]
        BY Zenon DEF add_platform_job, job, t
    <2> DEFINE q == Append(s.queue, job)
    <2>2. t = [s EXCEPT !.queue = q]
        BY <2>1
    <2> HIDE DEF q
    <2>3. t.queue = q
        BY <2>2 DEF ToyTyped, ToyShape
    <2> QED BY <2>3 DEF q
<1> HIDE DEF job, t
<1>4. s.queue \in Seq(ToyJobs) /\ s.external \in Seq(ToyJobs) /\ s.pressure \in Nat
    BY DEF ToyTyped
<1>5. t.queue \in Seq(ToyJobs)
    BY <1>1, <1>3, <1>4, AppendProperties
<1>6. Load(s.queue) \in Nat /\ Load(t.queue) = Load(s.queue) + o.work /\ Load(s.external) \in Nat
    BY <1>1, <1>3, <1>4, LoadAppends
<1>7. Capacity[p] \in Nat /\ PressureUnit \in Nat \ {0}
    BY ToyAssumption
<1>8. remaining_capacity(p, s) = Capacity[p] - Load(s.queue) /\ remaining_capacity(p, s) \in Int
    BY <1>6, <1>7 DEF remaining_capacity
<1>9. left \in Int
    BY <1>7, <1>8
<1>10. left >= PressureUnit * o.work
    <2>1. PressureUnit * o.work \in Nat /\ PressureUnit * o.work > 0
        <3>1. \A a, b \in Nat \ {0} : a * b > 0 /\ a * b \in Nat
            OBVIOUS
        <3> QED BY <1>7, <3>1
    <2>2. \A a, b \in Nat : a * b \in Nat
        OBVIOUS
    <2>3. s.pressure * Capacity[p] \in Nat /\ PressureUnit * Load(s.external) \in Nat
        BY <1>4, <1>6, <1>7, <2>2
    <2>4. platform_available_capacity(l, p, s) >= PressureUnit * o.work
        BY DEF toy_feasible
    <2> HIDE DEF left
    <2> DEFINE a == s.pressure * Capacity[p]
               b == PressureUnit * Load(s.external)
               need == PressureUnit * o.work
    <2>5. \/ platform_available_capacity(l, p, s) = Max({0, left - a})
          \/ platform_available_capacity(l, p, s) = Max({0, left - b})
          \/ platform_available_capacity(l, p, s) = left
        BY DEF platform_available_capacity, left
    <2>6. a \in Nat /\ b \in Nat /\ need \in Nat /\ need > 0
        BY <2>1, <2>3
    <2> HIDE DEF a, b
    <2>7. /\ Max({0, left - a}) = IF 0 >= left - a THEN 0 ELSE left - a
          /\ Max({0, left - b}) = IF 0 >= left - b THEN 0 ELSE left - b
        <3>1. left - a \in Int /\ left - b \in Int
            BY <1>9, <2>6
        <3> QED BY <3>1, MaxOfInts
    <2>8. platform_available_capacity(l, p, s) >= need
        BY <2>4
    <2> HIDE DEF need
    <2>9. left >= need
        BY <1>9, <2>5, <2>6, <2>7, <2>8
    <2> QED BY <2>9 DEF need
<1>11. remaining_capacity(p, s) >= o.work
    BY <1>7, <1>8, <1>10, UnitBounds
<1>12. Load(t.queue) <= Capacity[p]
    BY <1>6, <1>7, <1>8, <1>11
<1>13. ToyTyped(t)
    BY <1>2, <1>4, <1>5 DEF ToyTyped
<1> QED BY <1>12, <1>13 DEF ToyFits, t

LEMMA ReservedTyped ==
    ASSUME NEW p, NEW s, RouteTyped(p, s), NEW o, o.work \in Families, NEW m \in Int
    PROVE  RouteTyped(p, reserve_order(s, o, m))
<1> DEFINE job == [work |-> o.work, remaining |-> m]
           r == reserve_order(s, o, m)
           more == Append(s.jobs, job)
<1>1. RouteShape(r) /\ r.rate = s.rate /\ r.pressure = s.pressure
    BY JobTaken DEF RouteTyped, SameWorld
<1>2. r.jobs = more
    <2> HIDE DEF more
    <2>1. r = [s EXCEPT !.jobs = more]
        BY Zenon DEF reserve_order, more
    <2> HIDE DEF r
    <2> QED BY <2>1 DEF RouteTyped, RouteShape
<1>3. more \in Seq(RouteJobs)
    <2>1. job \in RouteJobs /\ s.jobs \in Seq(RouteJobs)
        BY DEF RouteTyped, RouteJobs
    <2> HIDE DEF job
    <2> QED BY <2>1, AppendProperties
<1> HIDE DEF r, more
<1>4. RouteTyped(p, r)
    BY <1>1, <1>2, <1>3 DEF RouteTyped
<1> QED BY <1>4 DEF r

-----------------------------------------------------------------------------
\* What an auction pays.

Bids == [cost : Nat, price : Nat, committed : Nat, lead : Nat]

\* What a provider may bid is made of numbers.
LEMMA OptionsAreBids ==
    ASSUME NEW e \in Episodes, order[e].due \in Nat \ {0}
    PROVE  BidOptions(e) \subseteq Bids
<1> SUFFICES ASSUME NEW b \in BidOptions(e) PROVE b \in Bids
    OBVIOUS
<1> DEFINE due == order[e].due
           terms == IF IsRoute /\ mechanism \notin Delivery THEN {due} ELSE Commitments(due)
<1>1. \A n \in Nat : (2 * n) \div due \in Nat
    OBVIOUS
<1>2. terms \subseteq Nat
    BY DEF Commitments
<1>3. PICK c \in Costs, m \in Markups, n \in terms :
        b = [cost |-> c, price |-> c + m, committed |-> n, lead |-> (2 * n) \div due]
    BY DEF BidOptions
<1>4. c \in Nat /\ c + m \in Nat
    BY MarketAssumption
<1> HIDE DEF terms, due
<1>5. n \in Nat /\ (2 * n) \div due \in Nat
    BY <1>1, <1>2
<1> QED BY <1>3, <1>4, <1>5 DEF Bids

\* The bidders of a submission are feasible, its costs and bids are numbers.
LEMMA SubmissionIs ==
    ASSUME NEW e \in Episodes, order[e].due \in Nat \ {0}, flags[e].capable \subseteq Providers,
           NEW submission \in Submissions(e)
    PROVE  LET ref == Reference(submission.costs)
               bids == submission.bids
           IN  /\ DOMAIN bids \subseteq flags[e].feasible /\ bids \in [DOMAIN bids -> Bids]
               /\ ref.n \in Nat /\ ref.sum \in Nat
<1> DEFINE counted == IF IsRoute THEN flags[e].capable ELSE Providers
<1> DEFINE Table(bidders, bids, skipped) ==
               [p \in counted |-> IF p \in bidders THEN bids[p].cost ELSE skipped[p]]
           Of(bidders) == {[costs |-> Table(bidders, bids, skipped), bids |-> bids] :
                            bids \in [bidders -> BidOptions(e)], skipped \in [counted \ bidders -> Costs]}
<1>0. PICK bidders \in SUBSET flags[e].feasible : submission \in Of(bidders)
    <2>1. Submissions(e) = UNION {Of(bidders) : bidders \in SUBSET flags[e].feasible}
        BY DEF Submissions
    <2> HIDE DEF Of
    <2> QED BY <2>1
<1>1. PICK bids, skipped :
        /\ bids \in [bidders -> BidOptions(e)]
        /\ skipped \in [counted \ bidders -> Costs]
        /\ submission = [costs |-> Table(bidders, bids, skipped), bids |-> bids]
    BY <1>0
<1> DEFINE costs == Table(bidders, bids, skipped)
<1>2. BidOptions(e) \subseteq Bids
    BY OptionsAreBids
<1>3. bids \in [bidders -> Bids]
    BY <1>1, <1>2
<1>4. IsFiniteSet(counted)
    <2>1. counted \subseteq Providers
        OBVIOUS
    <2> QED BY <2>1, ToyAssumption, FS_Subset
<1> HIDE DEF counted
<1>5. \A p \in counted : costs[p] \in Nat
    BY <1>1, <1>3, MarketAssumption DEF Bids
<1>6. submission.costs = costs /\ submission.bids = bids
    BY <1>1
<1>7. DOMAIN costs = counted
    OBVIOUS
<1> HIDE DEF costs
<1>8. Cardinality(counted) \in Nat /\ SumFunctionOnSet(costs, counted) \in Nat
    BY <1>4, <1>5, FS_CardinalityType, SumIsNat
<1>9. Reference(costs).n = Cardinality(counted) /\ Reference(costs).sum = SumFunctionOnSet(costs, counted)
    BY <1>7 DEF Reference, SumFunction
<1>10. DOMAIN bids = bidders /\ bidders \subseteq flags[e].feasible
    BY <1>0, <1>1
<1> QED BY <1>3, <1>6, <1>8, <1>9, <1>10

\* A winner is paid at least its price and at most the reserve, which no auction refuses.
LEMMA PaymentBounds ==
    ASSUME NEW m, NEW ref, ref.n \in Nat, ref.sum \in Nat,
           NEW bids, bids \in [DOMAIN bids -> Bids], IsFiniteSet(DOMAIN bids), NEW i, i \in Winners(m, ref, bids)
    PROVE  /\ Unit(ref) * bids[i].price <= Payment(m, ref, bids, i)
           /\ Payment(m, ref, bids, i) <= ReservePrice(ref, bids)
           /\ ReserveIsValid(m, ref, bids, i)
<1> DEFINE D == DOMAIN bids
           own == Unit(ref) * bids[i].price
           Asked == {7 * ref.sum} \cup {4 * ref.n * bids[j].price : j \in D}
           reserve == ReservePrice(ref, bids)
           critical == CriticalPrice(m, ref, bids, i)
<1>0. BetaP \in Nat \ {0} /\ BetaL \in Nat \ {0}
    BY WeightAssumption
<1>1. i \in D /\ \A j \in D : bids[j].price \in Nat /\ bids[j].lead \in Nat
    BY DEF Winners, Bids
<1>2. \A a, b \in Int : a * b \in Int
    OBVIOUS
<1>3. \A a, b \in Nat : a * b \in Nat
    OBVIOUS
<1>4. 4 * ref.n \in Nat /\ 7 * ref.sum \in Nat /\ Unit(ref) \in Nat
    BY <1>0, <1>3 DEF Unit
<1>5. Asked \subseteq Nat /\ IsFiniteSet(Asked)
    <2>1. \A j \in D : 4 * ref.n * bids[j].price \in Nat
        BY <1>1, <1>3, <1>4
    <2> DEFINE Prices == {4 * ref.n * bids[j].price : j \in D}
           price == [j \in D |-> 4 * ref.n * bids[j].price]
    <2>2. IsFiniteSet(Prices)
        <3>1. price \in [D -> Prices] /\ \A x \in Prices : \E j \in D : price[j] = x
            OBVIOUS
        <3>2. price \in Surjection(D, Prices)
            <4> HIDE DEF price, Prices, D
            <4> QED BY <3>1 DEF Surjection
        <3> HIDE DEF price, Prices
        <3> QED BY <3>2, FS_Surjection
    <2>3. IsFiniteSet({7 * ref.sum}) /\ {7 * ref.sum} \subseteq Nat
        BY <1>4, FS_Singleton
    <2>4. IsFiniteSet({7 * ref.sum} \cup Prices)
        <3> HIDE DEF Prices
        <3> QED BY <2>2, <2>3, FS_Union
    <2> QED BY <2>1, <2>3, <2>4
<1>6. Max(Asked) \in Nat /\ 4 * ref.n * bids[i].price <= Max(Asked)
    <2>1. 4 * ref.n * bids[i].price \in Asked /\ Asked # {}
        BY <1>1
    <2> HIDE DEF Asked
    <2> QED BY <1>5, <2>1, Greatest
<1>7. reserve = 5 * BetaP * Max(Asked)
    BY DEF ReservePrice
<1> HIDE DEF Asked
<1>8. own \in Nat /\ reserve \in Nat /\ own <= reserve
    <2> DEFINE price == bids[i].price  top == Max(Asked)  n == ref.n
    <2>1. price \in Nat /\ top \in Nat /\ n \in Nat /\ 4 * n * price <= top
        BY <1>1, <1>6
    <2> HIDE DEF price, top
    <2>2. own = (20 * n * BetaP) * price
        BY DEF Unit, price
    <2> HIDE DEF own, n, reserve
    <2>3. (20 * n * BetaP) * price = 5 * BetaP * (4 * n * price)
        BY <1>0, <2>1
    <2>4. \A a, b, c \in Nat : a <= b => c * a <= c * b
        OBVIOUS
    <2>5. 5 * BetaP \in Nat /\ 4 * n * price \in Nat
        BY <1>0, <1>3, <2>1
    <2>6. 5 * BetaP * (4 * n * price) <= 5 * BetaP * top
        BY <2>1, <2>4, <2>5
    <2>7. reserve = 5 * BetaP * top
        BY <1>7 DEF top
    <2>8. 5 * BetaP * (4 * n * price) \in Nat /\ 5 * BetaP * top \in Nat
        BY <1>3, <2>1, <2>5
    <2> QED BY <2>2, <2>3, <2>6, <2>7, <2>8
<1>9. critical \in Int
    <2> DEFINE others == D \ {i}
               Ranks == {Rank(m, ref, bids[j]) : j \in others}
    <2>1. \A j \in D : Rank(m, ref, bids[j]) \in Nat
        <3> SUFFICES ASSUME NEW j \in D PROVE Rank(m, ref, bids[j]) \in Nat
            OBVIOUS
        <3>1. BetaP * bids[j].price \in Nat /\ BetaL * bids[j].lead \in Nat
            BY <1>0, <1>1, <1>3
        <3>2. BetaP * bids[j].price * ref.n \in Nat /\ BetaL * bids[j].lead * ref.sum \in Nat
            BY <1>3, <3>1
        <3> QED BY <1>1, <3>2 DEF Rank, Score
    <2>2. 24 * ref.n * BetaP * bids[i].price \in Int
        BY <1>0, <1>1, <1>2
    <2>3. CASE others = {}
        BY <2>2, <2>3 DEF CriticalPrice
    <2>4. CASE others # {}
        <3> DEFINE second == Min(Ranks)
        <3>1. second \in Int
            <4>1. Ranks \subseteq Nat /\ Ranks # {}
                BY <2>1, <2>4
            <4> HIDE DEF Ranks
            <4>2. \E x \in Ranks : \A y \in Ranks : x <= y
                BY <4>1, LeastMember
            <4> QED BY <4>1, <4>2 DEF Min
        <3>2. critical = IF m \in Delivery THEN 20 * (second - BetaL * bids[i].lead * ref.sum)
                         ELSE Unit(ref) * second
            BY <2>4 DEF CriticalPrice
        <3> HIDE DEF second, critical
        <3>3. BetaL * bids[i].lead * ref.sum \in Int
            BY <1>0, <1>1, <1>2
        <3>4. second - BetaL * bids[i].lead * ref.sum \in Int
            BY <3>1, <3>3
        <3> QED BY <1>2, <1>4, <3>1, <3>2, <3>4
    <2> QED BY <2>3, <2>4
<1>10. Payment(m, ref, bids, i) = IF m \in Critical THEN Max({own, Min({reserve, critical})}) ELSE own
    BY DEF Payment
<1> HIDE DEF own, reserve, critical
<1>11. Min({reserve, critical}) = IF reserve <= critical THEN reserve ELSE critical
    BY <1>8, <1>9, MinOfTwo
<1>12. Max({own, Min({reserve, critical})})
        = IF own >= Min({reserve, critical}) THEN own ELSE Min({reserve, critical})
    <2>1. Min({reserve, critical}) \in Int /\ own \in Int
        BY <1>8, <1>9, <1>11
    <2> QED BY <2>1, MaxOfInts
<1>13. own <= Payment(m, ref, bids, i) /\ Payment(m, ref, bids, i) <= reserve
    BY <1>8, <1>9, <1>10, <1>11, <1>12
<1>14. ReserveIsValid(m, ref, bids, i)
    BY <1>8 DEF ReserveIsValid, own, reserve
<1> QED BY <1>13, <1>14 DEF own, reserve

-----------------------------------------------------------------------------
\* The awards.

FeasibleFor(e, p) ==
    IF IsRoute THEN is_route_capacity_feasible(p, states[e][p], order[e])
    ELSE toy_feasible(layer, p, states[e][p], order[e])

\* What was offered to an episode still holds for it: nothing has been reserved since.
Open(e) == \A p \in flags[e].feasible : FeasibleFor(e, p)

\* The provider p can carry what it has taken for the order of the episode.
Carried(e, p) ==
    IF IsRoute THEN \A g \in DOMAIN order[e].work : RouteFits(p, states[e][p], g)
    ELSE ToyFits(p, states[e][p])

Offered == step \in {"auction", "reserve", "placed"}

StatesTyped == \A e \in Episodes : \A p \in Providers : Typed(IsRoute, p, states[e][p])

OffersHold ==
    /\ Offered => \A e \in Episodes : order[e] \in Orders
    /\ \A e \in Episodes : /\ flags[e].feasible \subseteq flags[e].scalar
                           /\ flags[e].feasible \subseteq Providers
                           /\ flags[e].capable \subseteq Providers
    /\ step \in {"auction", "reserve"} => Open(turn)
    /\ Offered /\ turn = "base" => Open("deviation")

AwardHolds ==
    /\ step \notin {"reserve", "placed"} => outcome = NoOutcome
    /\ outcome.price <= outcome.payment /\ outcome.payment <= outcome.reserve
    /\ step = "reserve" => outcome.winner \subseteq flags[turn].feasible /\ outcome.committed \in Nat
    /\ \A w, x \in outcome.winner : w = x
    /\ step = "placed" => \A w \in outcome.winner : Carried(turn, w)

Stages == {"advance", "update", "offer", "auction", "reserve", "placed", "done"}

MarketInv == Inv /\ step \in Stages /\ StatesTyped /\ OffersHold /\ AwardHolds

\* The workload of an order is one of the families, or a positive amount.
LEMMA OrderIs ==
    ASSUME NEW o \in Orders
    PROVE  /\ IF IsRoute THEN o.work \in Families ELSE o.work \in Nat \ {0}
           /\ o.due \in Nat \ {0} /\ CapableOf(o) # {}
<1>1. CASE IsRoute
    <2>1. o.work \in Families /\ o.due \in Dues
        BY <1>1 DEF Orders
    <2>2. \E p \in Providers : DOMAIN o.work \subseteq DOMAIN Equipment[p]
        BY <2>1, RouteAssumption
    <2>3. CapableOf(o) # {}
        BY <1>1, <2>2 DEF CapableOf, is_capability_feasible, capabilities
    <2> QED BY <1>1, <2>1, <2>3, MarketAssumption
<1>2. CASE ~IsRoute
    <2>1. o.work \in Works /\ o.due \in Dues /\ \E p \in Providers : is_eligible(p, o)
        BY <1>2 DEF Orders
    <2>2. CapableOf(o) # {}
        BY <1>2, <2>1 DEF CapableOf
    <2> QED BY <1>2, <2>1, <2>2, MarketAssumption
<1> QED BY <1>1, <1>2

LEMMA MarketStart == Init => MarketInv
<1> SUFFICES ASSUME Init PROVE MarketInv
    OBVIOUS
<1>1. step = "advance" /\ outcome = NoOutcome /\ flags = [e \in Episodes |-> NoFlags]
    BY DEF Init
<1>2. StatesTyped
    <2> DEFINE s(p) == IF IsRoute THEN initialize_route_state(p) ELSE ToyState
    <2>1. states = [e \in Episodes |-> [p \in Providers |-> s(p)]]
        BY DEF Init
    <2>2. \A p \in Providers : Typed(IsRoute, p, s(p))
        BY TypedStart DEF Typed
    <2> HIDE DEF s
    <2> QED BY <2>1, <2>2 DEF StatesTyped
<1>3. OffersHold
    BY <1>1 DEF OffersHold, Offered, NoFlags
<1>4. AwardHolds
    BY <1>1 DEF AwardHolds, NoOutcome
<1> QED BY <1>1, <1>2, <1>3, <1>4, InitInv DEF MarketInv, Stages

\* A period begins: jobs get older, and nothing is offered.
LEMMA MarketAdvance == MarketInv /\ Advance => MarketInv'
<1> SUFFICES ASSUME MarketInv, Advance PROVE MarketInv'
    OBVIOUS
<1>1. step = "advance" /\ step' \in {"done", "update"} /\ UNCHANGED <<layer, turn, order, flags, outcome>>
    BY DEF Advance
<1>2. IsRoute' = IsRoute
    BY <1>1 DEF IsRoute
<1>3. StatesTyped'
    <2>1. CASE states' = states
        BY <1>2, <2>1 DEF MarketInv, StatesTyped
    <2>2. CASE states' # states
        <3> DEFINE f(e, p) == IF IsRoute THEN advance_reservations(states[e][p])
                              ELSE advance_queues(states[e][p])
        <3>1. states' = [e \in Episodes |-> [p \in Providers |-> f(e, p)]]
            BY <2>2 DEF Advance
        <3>2. \A e \in Episodes : \A p \in Providers : Typed(IsRoute, p, f(e, p))
            BY TypedAges DEF MarketInv, StatesTyped, Typed
        <3> HIDE DEF f
        <3>3. \A e \in Episodes : \A p \in Providers : Typed(IsRoute, p, states'[e][p])
            BY <3>1, <3>2
        <3> QED BY <1>2, <3>3 DEF StatesTyped
    <2> QED BY <2>1, <2>2
<1>4. OffersHold'
    BY <1>1 DEF MarketInv, OffersHold, Offered
<1>5. AwardHolds'
    BY <1>1 DEF MarketInv, AwardHolds
<1> QED BY <1>1, <1>3, <1>4, <1>5, AdvanceKeeps DEF MarketInv, Stages

LEMMA MarketUpdateRoute == MarketInv /\ UpdateRoute => MarketInv'
<1> SUFFICES ASSUME MarketInv, UpdateRoute PROVE MarketInv'
    OBVIOUS
<1>1. /\ step = "update" /\ step' \in {"advance", "offer"} /\ UNCHANGED <<layer, turn, order, flags, outcome>>
      /\ IsRoute /\ IsRoute'
    BY DEF UpdateRoute, IsRoute
<1>2. PICK noise \in Draws(RouteNoise, {"rate", "outside"}) :
        states' = [e \in Episodes |-> [p \in Providers |->
                        update_operating_state(p, states[e][p], noise[e])]]
    BY DEF UpdateRoute
<1>3. \A e \in Episodes : noise[e] \in RouteNoise
    BY <1>2, DrawnIs
<1>4. \A e \in Episodes : \A p \in Providers : RouteTyped(p, states'[e][p])
    <2> SUFFICES ASSUME NEW e \in Episodes, NEW p \in Providers
                 PROVE  RouteTyped(p, states'[e][p])
        OBVIOUS
    <2>1. RouteTyped(p, states[e][p])
        BY <1>1 DEF MarketInv, StatesTyped, Typed
    <2>2. RouteTyped(p, update_operating_state(p, states[e][p], noise[e]))
        BY <1>3, <2>1, TypedMoves
    <2> QED BY <1>2, <2>2
<1>5. StatesTyped'
    BY <1>1, <1>4 DEF StatesTyped, Typed
<1>6. OffersHold'
    BY <1>1 DEF MarketInv, OffersHold, Offered
<1>7. AwardHolds'
    BY <1>1 DEF MarketInv, AwardHolds
<1> QED BY <1>1, <1>5, <1>6, <1>7, UpdateRouteKeeps DEF MarketInv, Stages

LEMMA MarketUpdateToy == MarketInv /\ UpdateToy => MarketInv'
<1> SUFFICES ASSUME MarketInv, UpdateToy PROVE MarketInv'
    OBVIOUS
<1>1. /\ step = "update" /\ step' = "offer" /\ UNCHANGED <<layer, turn, order, flags, outcome>>
      /\ ~IsRoute /\ IsRoute' = IsRoute
    BY DEF UpdateToy, IsRoute
<1>2. PICK noise \in Draws([Providers -> ToyNoise(layer)], {"rate", "outside"}) :
        states' = [e \in Episodes |-> [p \in Providers |->
                        update_exogenous_state(states[e][p], layer, noise[e][p])]]
    BY DEF UpdateToy
<1>3. \A e \in Episodes : noise[e] \in [Providers -> ToyNoise(layer)]
    BY <1>2, DrawnIs
<1>4. \A e \in Episodes : \A p \in Providers : ToyTyped(states'[e][p])
    <2> SUFFICES ASSUME NEW e \in Episodes, NEW p \in Providers
                 PROVE  ToyTyped(states'[e][p])
        OBVIOUS
    <2>1. ToyTyped(states[e][p])
        BY <1>1 DEF MarketInv, StatesTyped, Typed
    <2>2. noise[e][p] \in ToyNoise(layer)
        BY <1>3
    <2>3. ToyTyped(update_exogenous_state(states[e][p], layer, noise[e][p]))
        BY <2>1, <2>2, TypedOutside
    <2> QED BY <1>2, <2>3
<1>5. StatesTyped'
    BY <1>1, <1>4 DEF StatesTyped, Typed
<1>6. OffersHold'
    BY <1>1 DEF MarketInv, OffersHold, Offered
<1>7. AwardHolds'
    BY <1>1 DEF MarketInv, AwardHolds
<1> QED BY <1>1, <1>5, <1>6, <1>7, UpdateToyKeeps DEF MarketInv, Stages

\* Somebody can take every order that is offered; what is feasible is feasible in aggregate.
LEMMA MarketOffer == MarketInv /\ Offer => MarketInv'
<1> SUFFICES ASSUME MarketInv, Offer PROVE MarketInv'
    OBVIOUS
<1> DEFINE drafts == [order : Orders, redraws : IF IsRoute THEN {0} ELSE 0..MaxRedraws]
<1>1. step = "offer" /\ UNCHANGED <<layer, turn, states, outcome>> /\ IsRoute' = IsRoute
    BY DEF Offer, IsRoute
<1>2. PICK drawn \in Draws(drafts, {"order"}) :
        /\ order' = [e \in Episodes |-> drawn[e].order]
        /\ flags' = [e \in Episodes |-> FlagsOf(e, drawn[e].order)]
        /\ step' = IF \E e \in Episodes : CapableOf(drawn[e].order) = {} THEN "error" ELSE "auction"
    BY DEF Offer
<1>3. \A e \in Episodes : drawn[e].order \in Orders
    <2>1. \A e \in Episodes : drawn[e] \in drafts
        <3> HIDE DEF drafts
        <3> QED BY <1>2, DrawnIs
    <2> QED BY <2>1
<1> HIDE DEF drafts
<1>4. step' = "auction"
    BY <1>2, <1>3, OrderIs
<1>5. StatesTyped'
    BY <1>1 DEF MarketInv, StatesTyped
<1>6. \A e \in Episodes : order'[e] \in Orders /\ flags'[e] = FlagsOf(e, order'[e])
    BY <1>2, <1>3
<1>7. Orders' = Orders
    BY <1>1 DEF Orders
<1>8. ASSUME NEW e \in Episodes
      PROVE  /\ flags'[e].feasible \subseteq flags'[e].scalar
             /\ flags'[e].feasible \subseteq Providers /\ flags'[e].capable \subseteq Providers
             /\ \A p \in flags'[e].feasible :
                    IF IsRoute THEN is_route_capacity_feasible(p, states[e][p], order'[e])
                    ELSE toy_feasible(layer, p, states[e][p], order'[e])
    <2> DEFINE o == order'[e]
    <2>1. o \in Orders /\ flags'[e] = FlagsOf(e, o)
        BY <1>6
    <2> HIDE DEF o
    <2>2. /\ flags'[e].capable = CapableOf(o)
          /\ flags'[e].scalar = IF IsRoute
                THEN {p \in Providers : is_aggregate_capacity_feasible(p, states[e][p], o)}
                ELSE CapableOf(o)
          /\ flags'[e].feasible = {p \in Providers :
                IF IsRoute THEN is_route_capacity_feasible(p, states[e][p], o)
                ELSE toy_feasible(layer, p, states[e][p], o)}
        BY <2>1 DEF FlagsOf
    <2>3. ASSUME NEW p \in Providers, IsRoute, is_route_capacity_feasible(p, states[e][p], o)
          PROVE  is_aggregate_capacity_feasible(p, states[e][p], o)
        <3>1. RouteTyped(p, states[e][p])
            BY <2>3 DEF MarketInv, StatesTyped, Typed
        <3>2. o.work \in Families
            BY <2>1, <2>3, OrderIs
        <3> QED BY <2>3, <3>1, <3>2, RouteIsAggregate
    <2>4. ASSUME NEW p \in Providers, ~IsRoute, toy_feasible(layer, p, states[e][p], o)
          PROVE  p \in CapableOf(o)
        BY <2>4 DEF toy_feasible, CapableOf
    <2>5. CapableOf(o) \subseteq Providers
        BY DEF CapableOf
    <2>6. CASE IsRoute
        BY <2>2, <2>3, <2>5, <2>6 DEF o
    <2>7. CASE ~IsRoute
        BY <2>2, <2>4, <2>5, <2>7 DEF o
    <2> QED BY <2>6, <2>7
<1>9. \A e \in Episodes : Open(e)'
    BY <1>1, <1>8 DEF Open, FeasibleFor
<1>10. turn \in Episodes /\ "deviation" \in Episodes
    BY DEF MarketInv, Inv, Episodes
<1>11. OffersHold'
    BY <1>1, <1>4, <1>6, <1>7, <1>8, <1>9, <1>10 DEF OffersHold, Offered
<1>12. AwardHolds'
    BY <1>1, <1>4 DEF MarketInv, AwardHolds
<1> QED BY <1>4, <1>5, <1>11, <1>12, OfferKeeps DEF MarketInv, Stages

\* A winner is one of the feasible; nobody's state changes.
LEMMA MarketAuction == MarketInv /\ Auction => MarketInv'
<1> SUFFICES ASSUME MarketInv, Auction PROVE MarketInv'
    OBVIOUS
<1>1. step = "auction" /\ UNCHANGED <<layer, mechanism, turn, order, states, flags>> /\ IsRoute' = IsRoute
    BY DEF Auction, IsRoute
<1>2. turn \in Episodes /\ order[turn] \in Orders /\ Open(turn)
    BY <1>1 DEF MarketInv, Inv, OffersHold, Offered
<1>3. StatesTyped'
    BY <1>1 DEF MarketInv, StatesTyped
<1>4. \A e : Open(e)' <=> Open(e)
    BY <1>1 DEF Open, FeasibleFor
<1>5. step' \in {"reserve", "placed"} => OffersHold'
    <2>1. Orders' = Orders
        BY <1>1 DEF Orders
    <2> QED BY <1>1, <1>2, <1>4, <2>1 DEF MarketInv, OffersHold, Offered
<1>6. PICK submission \in Submissions(turn) :
        LET ref == Reference(submission.costs)
            bids == submission.bids
        IN IF DOMAIN bids = {}
           THEN step' = "placed" /\ UNCHANGED <<position, outcome>>
           ELSE \E i \in Winners(mechanism, ref, bids) :
                /\ outcome' = Award(submission, i)
                /\ step' = IF ReserveIsValid(mechanism, ref, bids, i) THEN "reserve" ELSE "error"
    BY <1>1 DEF Auction
<1> DEFINE ref == Reference(submission.costs)
           bids == submission.bids
<1>7. CASE DOMAIN bids = {}
    <2>1. step' = "placed" /\ outcome' = NoOutcome
        BY <1>1, <1>6, <1>7 DEF MarketInv, AwardHolds
    <2>2. AwardHolds'
        BY <2>1 DEF AwardHolds, NoOutcome
    <2> QED BY <1>1, <1>3, <1>5, <2>1, <2>2, AuctionKeeps DEF MarketInv, Stages
<1>8. CASE DOMAIN bids # {}
    <2>1. PICK i \in Winners(mechanism, ref, bids) :
            /\ outcome' = Award(submission, i)
            /\ step' = IF ReserveIsValid(mechanism, ref, bids, i) THEN "reserve" ELSE "error"
        BY <1>6, <1>8
    <2>2. /\ DOMAIN bids \subseteq flags[turn].feasible /\ bids \in [DOMAIN bids -> Bids]
          /\ ref.n \in Nat /\ ref.sum \in Nat
        <3>1. order[turn].due \in Nat \ {0}
            BY <1>2, OrderIs
        <3>2. flags[turn].capable \subseteq Providers
            BY <1>2 DEF MarketInv, OffersHold
        <3> QED BY <1>2, <3>1, <3>2, SubmissionIs
    <2>3. flags[turn].feasible \subseteq Providers
        BY <1>2 DEF MarketInv, OffersHold
    <2>4. IsFiniteSet(DOMAIN bids)
        BY <2>2, <2>3, ToyAssumption, FS_Subset
    <2>5. i \in DOMAIN bids
        BY <2>1 DEF Winners
    <2>6. /\ outcome'.winner = {i} /\ outcome'.committed = bids[i].committed
          /\ outcome'.price = Unit(ref) * bids[i].price
          /\ outcome'.payment = Payment(mechanism, ref, bids, i)
          /\ outcome'.reserve = ReservePrice(ref, bids)
        <3> DEFINE price == Unit(ref) * bids[i].price
                   payment == Payment(mechanism, ref, bids, i)
                   reserve == ReservePrice(ref, bids)
                   committed == bids[i].committed
        <3>1. Award(submission, i) = [winner |-> {i}, price |-> price, committed |-> committed,
                                      payment |-> payment, reserve |-> reserve]
            BY DEF Award
        <3> HIDE DEF price, payment, reserve, committed
        <3>2. /\ outcome'.winner = {i} /\ outcome'.committed = committed
              /\ outcome'.price = price /\ outcome'.payment = payment /\ outcome'.reserve = reserve
            BY <2>1, <3>1
        <3> QED BY <3>2 DEF price, payment, reserve, committed
    <2> HIDE DEF ref, bids
    <2>7. /\ Unit(ref) * bids[i].price <= Payment(mechanism, ref, bids, i)
          /\ Payment(mechanism, ref, bids, i) <= ReservePrice(ref, bids)
          /\ ReserveIsValid(mechanism, ref, bids, i)
        BY <2>1, <2>2, <2>4, PaymentBounds
    <2>8. step' = "reserve"
        BY <2>1, <2>7
    <2>9. bids[i].committed \in Nat
        BY <2>2, <2>5 DEF Bids
    <2>10. AwardHolds'
        BY <1>1, <2>2, <2>5, <2>6, <2>7, <2>8, <2>9 DEF AwardHolds
    <2> QED BY <1>1, <1>3, <1>5, <2>8, <2>10, AuctionKeeps DEF MarketInv, Stages
<1> QED BY <1>7, <1>8

\* The winner is still feasible, and can carry what it takes.
LEMMA MarketReserve == MarketInv /\ Reserve => MarketInv'
<1> SUFFICES ASSUME MarketInv, Reserve PROVE MarketInv'
    OBVIOUS
<1>1. step = "reserve" /\ UNCHANGED <<layer, turn, order, flags, outcome>> /\ IsRoute' = IsRoute
    BY DEF Reserve, IsRoute
<1>2. PICK w \in outcome.winner :
        IF IsRoute /\ ~is_route_capacity_feasible(w, states[turn][w], order[turn])
        THEN step' = "error" /\ UNCHANGED states
        ELSE /\ step' = "placed"
             /\ states' = [states EXCEPT ![turn][w] =
                     IF IsRoute THEN reserve_order(states[turn][w], order[turn], outcome.committed)
                     ELSE add_platform_job(states[turn][w], order[turn], outcome.committed)]
    BY DEF Reserve
<1>3. turn \in Episodes /\ order[turn] \in Orders /\ Open(turn)
    BY <1>1 DEF MarketInv, Inv, OffersHold, Offered
<1>4. w \in Providers /\ FeasibleFor(turn, w) /\ outcome.committed \in Nat
    BY <1>1, <1>2, <1>3 DEF MarketInv, OffersHold, AwardHolds, Open
<1> DEFINE s == states[turn][w]
           o == order[turn]
           m == outcome.committed
           new == IF IsRoute THEN reserve_order(s, o, m) ELSE add_platform_job(s, o, m)
<1>5. step' = "placed" /\ states' = [states EXCEPT ![turn][w] = new]
    BY <1>2, <1>4 DEF FeasibleFor
<1>6. /\ Typed(IsRoute, w, new)
      /\ IF IsRoute THEN \A g \in DOMAIN o.work : RouteFits(w, new, g) ELSE ToyFits(w, new)
    <2>1. Typed(IsRoute, w, s) /\ m \in Int
        BY <1>3, <1>4 DEF MarketInv, StatesTyped
    <2>2. CASE IsRoute
        <3>1. o.work \in Families /\ is_route_capacity_feasible(w, s, o) /\ RouteTyped(w, s)
            BY <1>3, <1>4, <2>1, <2>2, OrderIs DEF FeasibleFor, Typed
        <3> HIDE DEF s, o, m
        <3>2. RouteTyped(w, reserve_order(s, o, m))
            BY <2>1, <3>1, ReservedTyped
        <3>3. \A g \in DOMAIN o.work : RouteFits(w, reserve_order(s, o, m), g)
            BY <1>4, <2>1, <3>1, ReservedFits
        <3> QED BY <2>2, <3>2, <3>3 DEF Typed
    <2>3. CASE ~IsRoute
        <3>1. o.work \in Nat \ {0} /\ toy_feasible(layer, w, s, o) /\ ToyTyped(s)
            BY <1>3, <1>4, <2>1, <2>3, OrderIs DEF FeasibleFor, Typed
        <3> HIDE DEF s, o, m
        <3>2. ToyFits(w, add_platform_job(s, o, m)) /\ ToyTyped(add_platform_job(s, o, m))
            BY <1>4, <2>1, <3>1, TakenFits
        <3> QED BY <2>3, <3>2 DEF Typed
    <2> QED BY <2>2, <2>3
<1> HIDE DEF new
<1>7. \A e \in Episodes : \A p \in Providers :
        states'[e][p] = IF e = turn /\ p = w THEN new ELSE states[e][p]
    BY <1>5 DEF MarketInv, Inv, States
<1>8. StatesTyped'
    BY <1>1, <1>6, <1>7 DEF MarketInv, StatesTyped
<1>9. OffersHold'
    <2>1. Orders' = Orders
        BY <1>1 DEF Orders
    <2>2. ASSUME turn = "base" PROVE Open("deviation")'
        <3>1. Open("deviation") /\ flags["deviation"].feasible \subseteq Providers /\ "deviation" \in Episodes
            BY <1>1, <2>2 DEF MarketInv, OffersHold, Offered, Episodes
        <3>2. \A p \in Providers : states'["deviation"][p] = states["deviation"][p]
            BY <1>7, <2>2, <3>1
        <3>3. \A p \in flags["deviation"].feasible : FeasibleFor("deviation", p)'
            BY <1>1, <3>1, <3>2 DEF Open, FeasibleFor
        <3> QED BY <1>1, <3>3 DEF Open
    <2> QED BY <1>1, <1>5, <2>1, <2>2 DEF MarketInv, OffersHold, Offered
<1>10. AwardHolds'
    <2>1. Carried(turn, w)'
        <3>1. states'[turn][w] = new
            BY <1>3, <1>4, <1>7
        <3> QED BY <1>1, <1>6, <3>1 DEF Carried
    <2>2. \A x \in outcome.winner : x = w
        BY <1>1 DEF MarketInv, AwardHolds
    <2> QED BY <1>1, <1>5, <2>1, <2>2 DEF MarketInv, AwardHolds
<1> QED BY <1>1, <1>5, <1>8, <1>9, <1>10, ReserveKeeps DEF MarketInv, Stages

\* The other episode meets what it was offered.
LEMMA MarketEnd == MarketInv /\ EndOfTurn => MarketInv'
<1> SUFFICES ASSUME MarketInv, EndOfTurn PROVE MarketInv'
    OBVIOUS
<1>1. step = "placed" /\ outcome' = NoOutcome /\ UNCHANGED <<layer, states>> /\ IsRoute' = IsRoute
    BY DEF EndOfTurn, IsRoute
<1>2. StatesTyped'
    BY <1>1 DEF MarketInv, StatesTyped
<1>3. CASE turn = "base"
    <2>1. turn' = "deviation" /\ step' = "auction" /\ UNCHANGED <<order, flags>>
        BY <1>3 DEF EndOfTurn
    <2>2. Orders' = Orders
        BY <1>1 DEF Orders
    <2>3. Open("deviation")'
        BY <1>1, <1>3, <2>1 DEF MarketInv, OffersHold, Offered, Open, FeasibleFor
    <2>4. OffersHold'
        BY <1>1, <2>1, <2>2, <2>3 DEF MarketInv, OffersHold, Offered
    <2>5. AwardHolds'
        BY <1>1, <2>1 DEF AwardHolds, NoOutcome
    <2> QED BY <1>1, <1>2, <2>1, <2>4, <2>5, EndKeeps DEF MarketInv, Stages
<1>4. CASE turn # "base"
    <2>1. turn' = "base" /\ step' = "advance" /\ flags' = [e \in Episodes |-> NoFlags]
        BY <1>4 DEF EndOfTurn
    <2>2. OffersHold'
        BY <2>1 DEF OffersHold, Offered, NoFlags
    <2>3. AwardHolds'
        BY <1>1, <2>1 DEF AwardHolds, NoOutcome
    <2> QED BY <1>1, <1>2, <2>1, <2>2, <2>3, EndKeeps DEF MarketInv, Stages
<1> QED BY <1>3, <1>4

LEMMA MarketStutters == MarketInv /\ UNCHANGED vars => MarketInv'
<1> SUFFICES ASSUME MarketInv, UNCHANGED vars PROVE MarketInv'
    OBVIOUS
<1>1. /\ UNCHANGED <<layer, mechanism, period, step, turn, order, states, flags, outcome>>
      /\ IsRoute' = IsRoute
    BY DEF vars, IsRoute
<1>2. StatesTyped'
    BY <1>1 DEF MarketInv, StatesTyped
<1>3. OffersHold'
    <2>1. Orders' = Orders /\ \A e : Open(e)' <=> Open(e)
        BY <1>1 DEF Orders, Open, FeasibleFor
    <2> QED BY <1>1, <2>1 DEF MarketInv, OffersHold, Offered
<1>4. AwardHolds'
    <2>1. \A e, p : Carried(e, p)' <=> Carried(e, p)
        BY <1>1 DEF Carried
    <2> QED BY <1>1, <2>1 DEF MarketInv, AwardHolds
<1> QED BY <1>1, <1>2, <1>3, <1>4, NextInv DEF MarketInv, Next, Done

LEMMA MarketSteps == MarketInv /\ [Next]_vars => MarketInv'
BY MarketAdvance, MarketUpdateRoute, MarketUpdateToy, MarketOffer, MarketAuction, MarketReserve,
   MarketEnd, MarketStutters DEF Next, Done

\* allocate_and_pay, reserve_order and is_route_capacity_feasible: whatever the policies bid,
\* no award is refused, a winner has room for what it took, it is paid between its price
\* and the reserve, and who is feasible group by group is feasible in aggregate.
THEOREM AwardsAreSound == Spec => []AwardIsSound
<1>1. MarketInv => AwardIsSound
    BY DEF MarketInv, Stages, OffersHold, AwardHolds, Carried, AwardIsSound
<1> QED BY <1>1, MarketStart, MarketSteps, PTL DEF Spec

-----------------------------------------------------------------------------
(* The solvers and the cache.                                              *)

\* Where a solver is in its loop.
Columns == {"kkt", "phase1", "phase2"}
Searches ==
    {"sad", "resample", "decide", "repair", "final", "pair", "beam", "master", "trace", "welfare",
     "once", "audit", "complete", "t-carm"} \cup Columns
PairSolvers == {"PAIR-SAD", "REPAIR-PAIR-SAD"}
Running == pc \in Searches \cup {"return"}

CountFile(f) == f \in [Profiles -> Nat] /\ \A p \in Profiles : f[p] = 0 \/ f[p] >= NRollouts
Sampled(f) == f = [k \in DOMAIN f |-> f[k]] /\ \A k \in DOMAIN f : f[k] \in Nat

CacheOK(c) ==
    /\ c = [rollouts |-> c.rollouts, requested |-> c.requested, samples |-> c.samples]
    /\ CountFile(c.rollouts) /\ c.requested \in [Profiles -> Nat]

\* The result r was computed from these estimates, these differences; the log has it.
Rests(f, r) == \A p \in DOMAIN r.rollouts : p \in Profiles /\ f[p] = r.rollouts[p] /\ f[p] > 0
PairsRest(c, r) == \A k \in DOMAIN r.samples : k \in DOMAIN c.samples /\ c.samples[k] = r.samples[k]
Logged(c, r) == \A p \in DOMAIN r.rollouts : c.requested[p] > 0

Afforded(c) == \A p \in Profiles : c.requested[p] <= c.rollouts[p]
Exactly(c) == \A p \in Profiles : c.requested[p] = c.rollouts[p]
Known(c, S) == \A p \in S : c.rollouts[p] > 0 /\ c.requested[p] > 0

\* What any call of the cache does: the log grows with the estimates.
Grows(c, d) ==
    /\ CacheOK(d)
    /\ \A p \in Profiles : c.rollouts[p] > 0 => d.rollouts[p] > 0
    /\ \A p \in Profiles : c.requested[p] <= d.requested[p]
    /\ Afforded(c) => Afforded(d)
    /\ Exactly(c) => Exactly(d)

\* What all but a resampling do: estimates stay.
Extends(c, d) ==
    Grows(c, d) /\ \A p \in Profiles : c.rollouts[p] > 0 => d.rollouts[p] = c.rollouts[p]

LEMMA AccessIsLogged ==
    ASSUME NEW c, CacheOK(c), NEW S, NEW n \in Nat
    PROVE  LET d == record_access(c, S, n) IN
           /\ CacheOK(d) /\ d.rollouts = c.rollouts /\ d.samples = c.samples
           /\ \A p \in Profiles : d.requested[p] = IF p \in S /\ n >= c.requested[p] THEN n
                                                   ELSE c.requested[p]
<1> DEFINE req == [p \in Profiles |-> IF p \in S THEN Max({n, c.requested[p]}) ELSE c.requested[p]]
           d == record_access(c, S, n)
<1>1. d = [c EXCEPT !.requested = req]
    BY Zenon DEF record_access
<1> HIDE DEF req, d
<1>2. d = [rollouts |-> c.rollouts, requested |-> req, samples |-> c.samples]
    BY <1>1 DEF CacheOK
<1>3. \A p \in Profiles : req[p] = IF p \in S /\ n >= c.requested[p] THEN n ELSE c.requested[p]
    BY MaxOfTwo DEF req, CacheOK
<1>4. req \in [Profiles -> Nat]
    <2>1. \A p \in Profiles : req[p] \in Nat
        BY <1>3 DEF CacheOK
    <2> QED BY <2>1 DEF req
<1>5. d.rollouts = c.rollouts /\ d.requested = req /\ d.samples = c.samples
    BY <1>2
<1>6. CacheOK(d)
    BY <1>2, <1>4, <1>5 DEF CacheOK
<1> QED BY <1>3, <1>5, <1>6 DEF d

LEMMA EstimateSets ==
    ASSUME NEW c, CacheOK(c), NEW S, NEW n \in Nat
    PROVE  LET d == Estimate(c, S, n) IN
           /\ d = [rollouts |-> d.rollouts, requested |-> d.requested, samples |-> d.samples]
           /\ d.requested = c.requested /\ d.samples = c.samples
           /\ d.rollouts \in [Profiles -> Nat]
           /\ \A p \in Profiles : d.rollouts[p] = IF p \in S THEN n ELSE c.rollouts[p]
<1> DEFINE f == [p \in Profiles |-> IF p \in S THEN n ELSE c.rollouts[p]]
           d == Estimate(c, S, n)
<1>1. d = [c EXCEPT !.rollouts = f]
    BY Zenon DEF Estimate
<1>2. f \in [Profiles -> Nat]
    BY DEF CacheOK, CountFile
<1>3. \A p \in Profiles : f[p] = IF p \in S THEN n ELSE c.rollouts[p]
    OBVIOUS
<1> HIDE DEF f, d
<1>4. d = [rollouts |-> f, requested |-> c.requested, samples |-> c.samples]
    BY <1>1 DEF CacheOK
<1>5. d.rollouts = f /\ d.requested = c.requested /\ d.samples = c.samples
    BY <1>4
<1> QED BY <1>2, <1>3, <1>4, <1>5 DEF d

LEMMA Ensured ==
    ASSUME NEW c, CacheOK(c), NEW S \in SUBSET Profiles
    PROVE  /\ Extends(c, ensure(c, S)) /\ Known(ensure(c, S), S)
           /\ ensure(c, S).samples = c.samples
<1> DEFINE b == record_access(c, S, NRollouts)
           T == S \ Evaluated(c)
           d == Estimate(b, T, NRollouts)
<1>0. NRollouts \in Nat /\ NRollouts > 0
    BY CacheAssumption
<1>1. /\ CacheOK(b) /\ b.rollouts = c.rollouts /\ b.samples = c.samples
      /\ \A p \in Profiles : b.requested[p] = IF p \in S /\ NRollouts >= c.requested[p] THEN NRollouts
                                              ELSE c.requested[p]
    BY <1>0, AccessIsLogged
<1>2. ensure(c, S) = d
    BY Zenon DEF ensure
<1>3. \A p \in Profiles : p \in T <=> p \in S /\ ~(c.rollouts[p] > 0)
    BY DEF Evaluated
<1> HIDE DEF b, T
<1>4. /\ d = [rollouts |-> d.rollouts, requested |-> d.requested, samples |-> d.samples]
      /\ d.requested = b.requested /\ d.samples = b.samples
      /\ d.rollouts \in [Profiles -> Nat]
      /\ \A p \in Profiles : d.rollouts[p] = IF p \in T THEN NRollouts ELSE b.rollouts[p]
    BY <1>0, <1>1, EstimateSets
<1> HIDE DEF d
<1>5. \A p \in Profiles :
        /\ c.rollouts[p] \in Nat /\ c.requested[p] \in Nat
        /\ c.rollouts[p] = 0 \/ c.rollouts[p] >= NRollouts
    BY DEF CacheOK, CountFile
<1>6. CacheOK(d)
    BY <1>0, <1>1, <1>4, <1>5 DEF CacheOK, CountFile
<1>7. \A p \in Profiles :
        /\ d.rollouts[p] = IF p \in S /\ c.rollouts[p] = 0 THEN NRollouts ELSE c.rollouts[p]
        /\ d.requested[p] = IF p \in S /\ NRollouts >= c.requested[p] THEN NRollouts ELSE c.requested[p]
    BY <1>1, <1>3, <1>4, <1>5
<1>8. Extends(c, d)
    BY <1>0, <1>5, <1>6, <1>7 DEF Extends, Grows, Afforded, Exactly
<1>9. Known(d, S)
    BY <1>0, <1>5, <1>7 DEF Known
<1> QED BY <1>1, <1>2, <1>4, <1>8, <1>9

\* More rollouts for profiles that are estimated and logged.
LEMMA Resampled ==
    ASSUME NEW c, CacheOK(c), NEW R \in SUBSET Profiles, Known(c, R)
    PROVE  LET asked == record_access(c, R, NRollouts)
               d == resample_many(asked, R, MaxRollouts)
           IN /\ Grows(c, d) /\ d.samples = c.samples
              /\ \A p \in Profiles : d.rollouts[p] # c.rollouts[p] => p \in R /\ d.rollouts[p] > c.rollouts[p]
<1> DEFINE a == record_access(c, R, NRollouts)
           b == record_access(a, R, MaxRollouts)
           T == {p \in R : a.rollouts[p] < MaxRollouts}
           d == Estimate(b, T, MaxRollouts)
<1>0. NRollouts \in Nat /\ NRollouts > 0 /\ MaxRollouts \in Nat
    BY CacheAssumption
<1>1. /\ CacheOK(a) /\ a.rollouts = c.rollouts /\ a.samples = c.samples
      /\ \A p \in Profiles : a.requested[p] = IF p \in R /\ NRollouts >= c.requested[p] THEN NRollouts
                                              ELSE c.requested[p]
    BY <1>0, AccessIsLogged
<1>2. resample_many(a, R, MaxRollouts) = d
    BY Zenon DEF resample_many
<1>3. \A p \in Profiles : p \in T <=> p \in R /\ c.rollouts[p] < MaxRollouts
    BY <1>1
<1> HIDE DEF a
<1>4. /\ CacheOK(b) /\ b.rollouts = a.rollouts /\ b.samples = a.samples
      /\ \A p \in Profiles : b.requested[p] = IF p \in R /\ MaxRollouts >= a.requested[p] THEN MaxRollouts
                                              ELSE a.requested[p]
    BY <1>0, <1>1, AccessIsLogged
<1> HIDE DEF b, T
<1>5. /\ d = [rollouts |-> d.rollouts, requested |-> d.requested, samples |-> d.samples]
      /\ d.requested = b.requested /\ d.samples = b.samples
      /\ d.rollouts \in [Profiles -> Nat]
      /\ \A p \in Profiles : d.rollouts[p] = IF p \in T THEN MaxRollouts ELSE b.rollouts[p]
    BY <1>0, <1>4, EstimateSets
<1> HIDE DEF d
<1>6. \A p \in Profiles :
        /\ c.rollouts[p] \in Nat /\ c.requested[p] \in Nat
        /\ c.rollouts[p] = 0 \/ c.rollouts[p] >= NRollouts
        /\ p \in R => c.rollouts[p] >= NRollouts
    BY DEF CacheOK, CountFile, Known
<1>7. \A p \in Profiles :
        d.rollouts[p] = IF p \in R /\ c.rollouts[p] < MaxRollouts THEN MaxRollouts ELSE c.rollouts[p]
    BY <1>1, <1>3, <1>4, <1>5
<1>8. CacheOK(d)
    BY <1>0, <1>4, <1>5, <1>6, <1>7 DEF CacheOK, CountFile
<1>9. \A p \in Profiles :
        d.requested[p] = IF p \in R /\ MaxRollouts >= c.requested[p] /\ MaxRollouts >= NRollouts THEN MaxRollouts
                         ELSE IF p \in R /\ NRollouts >= c.requested[p] THEN NRollouts ELSE c.requested[p]
    BY <1>0, <1>1, <1>4, <1>5, <1>6
<1>10. \A p \in Profiles : /\ c.rollouts[p] > 0 => d.rollouts[p] > 0
                           /\ d.rollouts[p] # c.rollouts[p] => p \in R /\ d.rollouts[p] > c.rollouts[p]
                           /\ c.requested[p] <= d.requested[p]
    BY <1>0, <1>6, <1>7, <1>9
<1>11. Afforded(c) => Afforded(d)
    BY <1>0, <1>6, <1>7, <1>9 DEF Afforded
<1>12. Exactly(c) => Exactly(d)
    BY <1>0, <1>6, <1>7, <1>9 DEF Exactly
<1>13. d.samples = c.samples
    BY <1>1, <1>4, <1>5
<1>14. Grows(c, d)
    BY <1>8, <1>10, <1>11, <1>12 DEF Grows
<1> QED BY <1>2, <1>10, <1>13, <1>14, Zenon DEF a

LEMMA ExtendsOn ==
    ASSUME NEW c, NEW d, NEW e, CacheOK(c), Extends(c, d), Extends(d, e)
    PROVE  Extends(c, e)
<1> QED BY DEF Extends, Grows, CacheOK, CountFile

LEMMA GrowsOn ==
    ASSUME NEW c, NEW d, NEW e, CacheOK(c), Grows(c, d), Grows(d, e)
    PROVE  Grows(c, e)
<1> QED BY DEF Grows, CacheOK, CountFile

LEMMA KnownGrows ==
    ASSUME NEW c, NEW d, CacheOK(c), Grows(c, d), NEW S \in SUBSET Profiles, Known(c, S)
    PROVE  Known(d, S)
<1> QED BY DEF Known, Grows, CacheOK, CountFile

\* What is logged was estimated.
LEMMA KnownIsLogged ==
    ASSUME NEW c, CacheOK(c), NEW S \in SUBSET Profiles, Known(c, S)
    PROVE  LET d == record_access(c, S, NRollouts) IN
           Extends(c, d) /\ d.samples = c.samples /\ Known(d, S)
<1> DEFINE d == record_access(c, S, NRollouts)
<1>0. NRollouts \in Nat /\ NRollouts > 0
    BY CacheAssumption
<1>1. /\ CacheOK(d) /\ d.rollouts = c.rollouts /\ d.samples = c.samples
      /\ \A p \in Profiles : d.requested[p] = IF p \in S /\ NRollouts >= c.requested[p] THEN NRollouts
                                              ELSE c.requested[p]
    BY <1>0, AccessIsLogged
<1> HIDE DEF d
<1>2. \A p \in Profiles :
        /\ c.rollouts[p] \in Nat /\ c.requested[p] \in Nat
        /\ c.rollouts[p] = 0 \/ c.rollouts[p] >= NRollouts
        /\ p \in S => c.rollouts[p] >= NRollouts
    BY DEF CacheOK, CountFile, Known
<1>3. Extends(c, d)
    BY <1>0, <1>1, <1>2 DEF Extends, Grows, Afforded, Exactly
<1>4. Known(d, S)
    BY <1>0, <1>1, <1>2 DEF Known
<1> QED BY <1>1, <1>3, <1>4 DEF d

LEMMA DeviationIsProfile ==
    ASSUME NEW p \in Profiles, NEW label \in Labels
    PROVE  Deviation(p, label) \in Profiles
<1>1. label[1] \in Agents /\ label[2] \in Policies
    BY DEF Labels
<1> QED BY <1>1 DEF Profiles, Deviation

LEMMA ClosureIsOfProfiles ==
    ASSUME NEW S \in SUBSET Profiles
    PROVE  /\ support_deviation_closure(S) \in SUBSET Profiles
           /\ S \subseteq support_deviation_closure(S)
           /\ \A T \in SUBSET S : support_deviation_closure(T) \subseteq support_deviation_closure(S)
<1>1. \A x \in support_deviation_closure(S) : x \in Profiles
    BY DeviationIsProfile DEF support_deviation_closure
<1>2. S \subseteq support_deviation_closure(S)
    BY DEF support_deviation_closure
<1>3. \A T \in SUBSET S : support_deviation_closure(T) \subseteq support_deviation_closure(S)
    BY DEF support_deviation_closure
<1> QED BY <1>1, <1>2, <1>3

\* Paired differences are taken between profiles that are estimated.
LEMMA PairedEstimates ==
    ASSUME NEW c, CacheOK(c), NEW pairs, NEW n,
           \A pair \in pairs : /\ pair[1] \in Profiles /\ Deviation(pair[1], pair[2]) \in Profiles
                               /\ Known(c, {pair[1], Deviation(pair[1], pair[2])})
    PROVE  LET d == ensure_paired(c, pairs, n) IN
           Extends(c, d) /\ pairs \subseteq DOMAIN d.samples
<1> DEFINE missing == {pair \in pairs : SamplesOf(c, pair) < n[pair]}
           simulated == UNION {{pair[1], Deviation(pair[1], pair[2])} : pair \in missing}
           logged == record_access(c, simulated, NRollouts)
           f == [pair \in (DOMAIN c.samples) \cup pairs |->
                    IF pair \in missing THEN n[pair] ELSE SamplesOf(c, pair)]
           d == ensure_paired(c, pairs, n)
<1>1. missing \subseteq pairs
    OBVIOUS
<1>2. d = [logged EXCEPT !.samples = f]
    BY Zenon DEF ensure_paired
<1> HIDE DEF missing
<1>3. simulated \in SUBSET Profiles /\ Known(c, simulated)
    BY <1>1 DEF Known
<1>4. pairs \subseteq DOMAIN f
    OBVIOUS
<1> HIDE DEF simulated, f
<1>5. Extends(c, logged)
    BY <1>3, KnownIsLogged
<1> HIDE DEF logged, d
<1>6. d = [rollouts |-> logged.rollouts, requested |-> logged.requested, samples |-> f]
    BY <1>2, <1>5 DEF Extends, Grows, CacheOK
<1>7. d.rollouts = logged.rollouts /\ d.requested = logged.requested /\ d.samples = f
    BY <1>6
<1>8. CacheOK(d)
    BY <1>5, <1>6, <1>7 DEF Extends, Grows, CacheOK
<1>9. Extends(c, d)
    BY <1>5, <1>7, <1>8 DEF Extends, Grows, Afforded, Exactly
<1> QED BY <1>4, <1>7, <1>9 DEF d

LEMMA SnapshotFields ==
    ASSUME NEW c, NEW T, NEW read, NEW pairs, NEW h
    PROVE  LET r == Snapshot(c, T, read, pairs, h) IN
           /\ r.support = T /\ r.high = h
           /\ DOMAIN r.rollouts = read /\ \A p \in read : r.rollouts[p] = c.rollouts[p]
           /\ DOMAIN r.samples = pairs /\ \A k \in pairs : r.samples[k] = c.samples[k]
<1> DEFINE f == [x \in read |-> c.rollouts[x]]
           g == [x \in pairs |-> c.samples[x]]
           r == Snapshot(c, T, read, pairs, h)
<1>1. r = [support |-> T, high |-> h, rollouts |-> f, samples |-> g]
    BY Zenon DEF Snapshot, Restrict
<1>2. /\ DOMAIN f = read /\ \A p \in read : f[p] = c.rollouts[p]
      /\ DOMAIN g = pairs /\ \A k \in pairs : g[k] = c.samples[k]
    OBVIOUS
<1> HIDE DEF f, g, r
<1>3. r.support = T /\ r.high = h /\ r.rollouts = f /\ r.samples = g
    BY <1>1
<1> QED BY <1>2, <1>3 DEF r

\* A snapshot of estimates that are in the cache and in the log.
Read(c, r) == Rests(c.rollouts, r) /\ Logged(c, r) /\ PairsRest(c, r)

LEMMA SnapshotIsRead ==
    ASSUME NEW c, NEW T, NEW read \in SUBSET Profiles, NEW pairs, NEW h,
           Known(c, read), pairs \subseteq DOMAIN c.samples
    PROVE  Read(c, Snapshot(c, T, read, pairs, h))
<1> DEFINE r == Snapshot(c, T, read, pairs, h)
<1>1. /\ DOMAIN r.rollouts = read /\ \A p \in read : r.rollouts[p] = c.rollouts[p]
      /\ DOMAIN r.samples = pairs /\ \A k \in pairs : r.samples[k] = c.samples[k]
    BY SnapshotFields
<1> HIDE DEF r
<1> QED BY <1>1 DEF Read, Rests, Logged, PairsRest, Known, r

LEMMA SolutionsAreRead ==
    ASSUME NEW c, NEW S \in SUBSET Profiles, Known(c, support_deviation_closure(S)),
           NEW r \in Solutions(c, S)
    PROVE  /\ Read(c, r) /\ r.support \subseteq S /\ r.support # {} /\ DOMAIN r.samples = {}
<1>1. PICK T \in (SUBSET S) \ {{}}, h \in BOOLEAN :
        r = Snapshot(c, T, support_deviation_closure(S), {}, h)
    BY DEF Solutions
<1>2. Read(c, r)
    BY <1>1, ClosureIsOfProfiles, SnapshotIsRead
<1> QED BY <1>1, <1>2, SnapshotFields

LEMMA AuditsAreRead ==
    ASSUME NEW c, NEW S \in SUBSET Profiles, Known(c, support_deviation_closure(S)),
           NEW r \in Audits(c, S)
    PROVE  Read(c, r) /\ DOMAIN r.samples = {}
<1>1. PICK h \in BOOLEAN : r = Snapshot(c, S, support_deviation_closure(S), {}, h)
    BY DEF Audits
<1>2. Read(c, r)
    BY <1>1, ClosureIsOfProfiles, SnapshotIsRead
<1> QED BY <1>1, <1>2, SnapshotFields

\* active_resample stays within the profiles the support was solved on.
LEMMA ResampledAreRead ==
    ASSUME NEW T \in SUBSET Profiles, NEW R \in ResampledSets(T)
    PROVE  R \subseteq support_deviation_closure(T)
<1> DEFINE top(Q, label) == Q \cup {Deviation(p, label) : p \in Q}
           full(Q) == Q = T \/ 2 * Cardinality(Q) = ResampleCap
           ranked == {Q \in SUBSET T : Q # {} /\ 2 * Cardinality(Q) <= ResampleCap}
           some(E, b) == {e \in E : e[1] = b[1] /\ e[2][1] = b[2]}
           cut(E) == {b \in T \X Agents : Cardinality(some(E, b)) \notin {0, Cardinality(Policies)}}
           parts(n) == kSubset(Min({n, Cardinality(T \X Labels)}), T \X Labels)
           swept(n) == {E \in parts(n) : Cardinality(cut(E)) <= 1}
           reached(E) == {Deviation(e[1], e[2]) : e \in E}
           sets(Q) == {top(Q, label) \cup reached(E) :
                          label \in Labels, E \in swept(ResampleCap - 2 * Cardinality(Q))}
           taken == {Q \in ranked : full(Q)}
<1>0. ResampledSets(T) = UNION {sets(Q) : Q \in taken}
    BY DEF ResampledSets
<1>a. taken \subseteq SUBSET T
    OBVIOUS
<1>b. \A n : parts(n) \subseteq SUBSET (T \X Labels)
    BY DEF kSubset
<1> HIDE DEF taken, sets, cut, parts
<1>1. PICK Q \in SUBSET T : R \in sets(Q)
    BY <1>0, <1>a
<1> HIDE DEF top, reached, swept
<1>3. PICK label \in Labels, E \in swept(ResampleCap - 2 * Cardinality(Q)) :
        R = top(Q, label) \cup reached(E)
    BY <1>1 DEF sets
<1>4. E \subseteq T \X Labels
    BY <1>3, <1>b DEF swept
<1>6. reached(E) \subseteq support_deviation_closure(T)
    <2> SUFFICES ASSUME NEW x \in reached(E) PROVE x \in support_deviation_closure(T)
        OBVIOUS
    <2>1. PICK e \in E : x = Deviation(e[1], e[2])
        BY DEF reached
    <2>2. e[1] \in T /\ e[2] \in Labels
        BY <1>4
    <2> HIDE DEF Deviation
    <2> QED BY <2>1, <2>2 DEF support_deviation_closure
<1>7. top(Q, label) \subseteq support_deviation_closure(T)
    BY DEF support_deviation_closure, top
<1> QED BY <1>3, <1>6, <1>7

-----------------------------------------------------------------------------
\* The invariant.

ShapeInv ==
    /\ pc \in Searches \cup {"start", "return", "raised", "checkpoint", "table", "audited"}
    /\ plan \in Seq(Solvers) \cup {Case} /\ (pc \in {"checkpoint", "table", "audited"} => InCase)
    /\ solver \in Solvers \cup {"none", "DSS"}
    /\ InCase => solver \in {"none", "DSS"}
    /\ Running => solver # "none"
    /\ runs \in Nat /\ support \subseteq Profiles /\ trace \subseteq Profiles
    /\ pc \in {"complete", "t-carm"} \cup Columns => solver \in Exact \cup {"T-CARM-Nested"}
    /\ pc \in Columns => solver \in Exact
    /\ pc = "kkt" => solver = "CertifiedKKT-CG"
    /\ pc \in {"phase1", "phase2"} => solver = "ExhaustiveCG"
    /\ pc = "t-carm" => solver \in {"T-CARM", "T-CARM-Nested"}
    /\ pc = "pair" \/ DOMAIN result.samples # {} => solver \in PairSolvers
    /\ pc \in {"resample", "decide", "repair", "final"} => result.support # {}
    /\ pc \in {"return", "checkpoint"} /\ InCase => result.support # {}
    /\ pc \in {"resample", "decide"} => result.support \subseteq support
    /\ pc \in Searches /\ InCase => pc \in {"sad", "resample", "decide", "repair", "final"}

StageInv ==
    /\ pc \in {"resample", "decide", "pair"} => Known(cache, support_deviation_closure(support))
    /\ pc = "trace" => Known(cache, trace)
    /\ pc \in Columns => Known(cache, Profiles)

CostInv ==
    /\ Running => Logged(cache, result) /\ Afforded(cache) /\ (runs = 1 => Exactly(cache))
    /\ runs = 0 /\ ~InCase => pc = "start" /\ cache = EmptyCache

CurrentInv ==
    /\ CacheOK(cache) /\ Rests(cache.rollouts, result)
    /\ pc # "pair" => PairsRest(cache, result)

FilesInv ==
    /\ files = [solver |-> files.solver, dss |-> files.dss, complete |-> files.complete]
    /\ CountFile(files.solver) /\ CountFile(files.complete)
    /\ Running /\ InCase => ~Checkpointed
    /\ ~Checkpointed => files.complete = NoFile
    /\ Checkpointed => Rests(LoadPath, files.dss) /\ DOMAIN files.dss.samples = {}
    /\ pc = "checkpoint" => files.solver = cache.rollouts /\ ~Checkpointed
    /\ pc = "table" => Checkpointed /\ result = files.dss

CacheInv == ShapeInv /\ StageInv /\ CostInv /\ CurrentInv /\ FilesInv

\* A step of a search: the cache grows, and a result is kept only if its
\* estimates are, or is computed from the cache as it is now.
Follows ==
    /\ pc \in Searches /\ pc' \in Searches \cup {"return", "raised"}
    /\ UNCHANGED <<solver, plan, runs, files>>
    /\ Grows(cache, cache')
    /\ \/ /\ result' = result /\ pc # "pair"
          /\ Extends(cache, cache') /\ cache'.samples = cache.samples
       \/ /\ Rests(cache'.rollouts, result') /\ Logged(cache', result')
          /\ pc' = "pair" \/ PairsRest(cache', result')

LEMMA FollowsKeeps ==
    ASSUME CacheInv, Follows
    PROVE  CostInv' /\ CurrentInv' /\ FilesInv'
<1>1. Running /\ pc # "start" /\ pc' # "start" /\ pc' \notin {"checkpoint", "table", "audited"}
    BY DEF Follows, Running, Searches, Columns
<1>2. CacheOK(cache') /\ Afforded(cache') /\ (runs = 1 => Exactly(cache'))
    BY <1>1 DEF Follows, CacheInv, CostInv, Grows
<1>3. ASSUME result' = result, pc # "pair", Extends(cache, cache'), cache'.samples = cache.samples
      PROVE  Rests(cache'.rollouts, result') /\ Logged(cache', result') /\ PairsRest(cache', result')
    <2>1. Rests(cache'.rollouts, result')
        BY <1>3 DEF CacheInv, CurrentInv, Rests, Extends
    <2>2. PairsRest(cache', result')
        BY <1>3 DEF CacheInv, CurrentInv, PairsRest
    <2>3. Logged(cache', result')
        <3>1. \A p \in DOMAIN result.rollouts : p \in Profiles /\ cache.requested[p] > 0
            BY <1>1 DEF CacheInv, CurrentInv, CostInv, Rests, Logged
        <3>2. \A p \in Profiles : cache.requested[p] \in Nat /\ cache'.requested[p] \in Nat
            BY <1>2 DEF CacheInv, CurrentInv, CacheOK
        <3> QED BY <1>3, <3>1, <3>2 DEF Logged, Extends, Grows
    <2> QED BY <2>1, <2>2, <2>3
<1>4. /\ Rests(cache'.rollouts, result') /\ Logged(cache', result')
      /\ pc' # "pair" => PairsRest(cache', result')
    BY <1>3 DEF Follows
<1>5. CostInv'
    <2>1. ~(runs' = 0 /\ ~InCase')
        BY <1>1 DEF Follows, CacheInv, CostInv, InCase
    <2> QED BY <1>2, <1>4, <2>1 DEF CostInv, Follows
<1>6. CurrentInv'
    BY <1>2, <1>4 DEF CurrentInv
<1>7. FilesInv'
    <2>1. UNCHANGED <<files, InCase, Checkpointed, LoadPath>>
        BY DEF Follows, InCase, Checkpointed, LoadPath
    <2> QED BY <1>1, <2>1 DEF FilesInv, CacheInv
<1> QED BY <1>5, <1>6, <1>7


-----------------------------------------------------------------------------
\* The steps of the sparse searches.

\* What a step of a search has to show.
Goes == ShapeInv' /\ StageInv' /\ Follows

LEMMA ReadingGrows ==
    ASSUME CacheInv, NEW S \in SUBSET Profiles
    PROVE  /\ Extends(cache, Reading(S)) /\ CacheOK(Reading(S)) /\ Reading(S).samples = cache.samples
           /\ Known(Reading(S), support_deviation_closure(S)) /\ Known(Reading(S), S)
<1>1. support_deviation_closure(S) \in SUBSET Profiles /\ S \subseteq support_deviation_closure(S)
    BY ClosureIsOfProfiles
<1>2. CacheOK(cache)
    BY DEF CacheInv, CurrentInv
<1>3. /\ Extends(cache, Reading(S)) /\ Known(Reading(S), support_deviation_closure(S))
      /\ Reading(S).samples = cache.samples
    BY <1>1, <1>2, Ensured DEF Reading
<1> QED BY <1>1, <1>3 DEF Extends, Grows, Known

LEMMA SadRoundGoes == CacheInv /\ SadRound /\ UNCHANGED <<plan, runs, files>> => Goes
<1> SUFFICES ASSUME CacheInv, SadRound, UNCHANGED <<plan, runs, files>> PROVE Goes
    OBVIOUS
<1> USE DEF Searches, Columns, Running
<1>1. support \in SUBSET Profiles /\ pc = "sad" /\ pc' \in {"resample", "decide"}
    BY DEF CacheInv, ShapeInv, SadRound
<1>2. /\ Extends(cache, cache') /\ CacheOK(cache') /\ cache'.samples = cache.samples
      /\ Known(cache', support_deviation_closure(support))
    BY <1>1, ReadingGrows DEF SadRound
<1>3. Read(cache', result') /\ result'.support \subseteq support /\ result'.support # {}
      /\ DOMAIN result'.samples = {}
    BY <1>1, <1>2, SolutionsAreRead DEF SadRound
<1>4. Follows
    BY <1>1, <1>2, <1>3 DEF SadRound, Follows, Read, Extends
<1>5. ShapeInv'
    BY <1>1, <1>3 DEF SadRound, CacheInv, ShapeInv, InCase
<1>6. StageInv'
    BY <1>1, <1>2 DEF SadRound, StageInv
<1> QED BY <1>4, <1>5, <1>6 DEF Goes

LEMMA ResampleGoes == CacheInv /\ Resample /\ UNCHANGED <<plan, runs, files>> => Goes
<1> SUFFICES ASSUME CacheInv, Resample, UNCHANGED <<plan, runs, files>> PROVE Goes
    OBVIOUS
<1> USE DEF Searches, Columns, Running
<1> DEFINE closure == support_deviation_closure(support)
           taken(R) == resample_many(record_access(cache, R, NRollouts), R, MaxRollouts)
           changed(R) == \E p \in R : taken(R).rollouts[p] > cache.rollouts[p]
<1>1. PICK R \in ResampledSets(result.support) :
        IF changed(R) THEN cache' = ensure(taken(R), closure) /\ result' \in Solutions(cache', support)
        ELSE cache' = taken(R) /\ result' = result
    BY DEF Resample
<1>2. /\ support \in SUBSET Profiles /\ pc = "resample" /\ pc' = "decide"
      /\ result.support \subseteq support /\ result.support # {}
    BY DEF CacheInv, ShapeInv, Resample
<1>3. closure \in SUBSET Profiles /\ Known(cache, closure) /\ R \subseteq closure /\ CacheOK(cache)
    BY <1>2, ResampledAreRead, ClosureIsOfProfiles DEF CacheInv, StageInv, CurrentInv
<1>4. /\ Grows(cache, taken(R)) /\ taken(R).samples = cache.samples
      /\ \A p \in Profiles : taken(R).rollouts[p] # cache.rollouts[p] =>
            p \in R /\ taken(R).rollouts[p] > cache.rollouts[p]
    <2>1. Known(cache, R) /\ R \in SUBSET Profiles
        BY <1>3 DEF Known
    <2> QED BY <1>3, <2>1, Resampled
<1>5. UNCHANGED <<solver, support, round, trace>>
    BY DEF Resample
<1> HIDE DEF taken
<1>6. CASE changed(R)
    <2>1. Extends(taken(R), cache') /\ Known(cache', closure) /\ cache'.samples = cache.samples
        BY <1>1, <1>3, <1>4, <1>6, Ensured DEF Grows
    <2>2. Grows(cache, cache')
        BY <1>3, <1>4, <2>1, GrowsOn DEF Extends
    <2> HIDE DEF changed
    <2>3. /\ Read(cache', result') /\ result'.support \subseteq support /\ result'.support # {}
          /\ DOMAIN result'.samples = {}
        BY <1>1, <1>2, <1>6, <2>1, SolutionsAreRead
    <2>4. Follows
        BY <1>2, <1>5, <2>2, <2>3 DEF Follows, Read
    <2>5. ShapeInv'
        BY <1>2, <1>5, <2>3 DEF CacheInv, ShapeInv, InCase
    <2>6. StageInv'
        BY <1>2, <1>5, <2>1 DEF StageInv
    <2> QED BY <2>4, <2>5, <2>6 DEF Goes
<1>7. CASE ~changed(R)
    <2>1. cache' = taken(R) /\ result' = result
        BY <1>1, <1>7
    <2>2. Extends(cache, cache')
        BY <1>4, <1>7, <2>1 DEF Extends
    <2> HIDE DEF changed
    <2>3. Follows
        BY <1>2, <1>4, <1>5, <2>1, <2>2 DEF Follows
    <2>4. ShapeInv'
        BY <1>2, <1>5, <2>1 DEF CacheInv, ShapeInv, InCase
    <2>5. StageInv'
        <3>1. Known(cache', closure)
            BY <1>3, <1>4, <2>1, KnownGrows
        <3> QED BY <1>2, <1>5, <3>1 DEF StageInv
    <2> QED BY <2>3, <2>4, <2>5 DEF Goes
<1> QED BY <1>6, <1>7

LEMMA Unread == CacheInv => Extends(cache, cache)
<1> QED BY DEF CacheInv, CurrentInv, Extends, Grows, CacheOK, CountFile

LEMMA ExpansionsAreProfiles ==
    ASSUME NEW S \in SUBSET Profiles, NEW T \in SUBSET Profiles, NEW n, NEW grown \in Expansions(S, T, n)
    PROVE  grown[1] \in SUBSET Profiles /\ grown[2] \in SUBSET Profiles
<1> DEFINE fresh(label) == {Deviation(p, label) : p \in T} \ S
           by(label) == kSubset(Min({n, Cardinality(fresh(label))}), fresh(label))
           first == UNION {by(label) : label \in Labels}
           more(D) == kSubset(n - Cardinality(D), Profiles \ (S \cup D))
           all(D) == {<<D, P>> : P \in more(D)}
<1>1. Expansions(S, T, n) = UNION {all(D) : D \in first}
    BY DEF Expansions
<1>2. \A label \in Labels : fresh(label) \subseteq Profiles
    BY DeviationIsProfile
<1> HIDE DEF fresh
<1>3. \A label \in Labels : \A D \in by(label) : D \subseteq fresh(label)
    BY DEF kSubset
<1> HIDE DEF by
<1>4. \A D \in first : D \subseteq Profiles
    BY <1>2, <1>3
<1> HIDE DEF first
<1>5. \A D : \A P \in more(D) : P \subseteq Profiles
    BY DEF kSubset
<1> HIDE DEF more
<1>6. PICK D \in first : grown \in all(D)
    BY <1>1
<1>7. PICK P \in more(D) : grown = <<D, P>>
    BY <1>6
<1> QED BY <1>4, <1>5, <1>7

LEMMA TruncatedIsOfProfiles ==
    ASSUME NEW S \in SUBSET Profiles, NEW grown,
           grown[1] \in SUBSET Profiles, grown[2] \in SUBSET Profiles, NEW X \in Truncated(S, grown)
    PROVE  X \in SUBSET Profiles
<1> DEFINE D == grown[1]
           P == grown[2]
           room == MaxSupport - Cardinality(S)
           left == kSubset(room, D)
           right == kSubset(Min({room - Cardinality(D), Cardinality(P)}), P)
<1>1. /\ \A Y \in left : Y \subseteq D
      /\ \A Y \in right : Y \subseteq P
    BY DEF kSubset
<1>2. \/ X \in {S \cup Y : Y \in left}
      \/ X \in {S \cup D \cup Y : Y \in right}
    BY DEF Truncated
<1> HIDE DEF left, right
<1> QED BY <1>1, <1>2

LEMMA SadDecidesGoes == CacheInv /\ SadDecides /\ UNCHANGED <<plan, runs, files>> => Goes
<1> SUFFICES ASSUME CacheInv, SadDecides, UNCHANGED <<plan, runs, files>> PROVE Goes
    OBVIOUS
<1> USE DEF Searches, Columns, Running
<1>1. /\ support \in SUBSET Profiles /\ pc = "decide" /\ result.support \in SUBSET support
      /\ result.support # {} /\ Known(cache, support_deviation_closure(support))
      /\ UNCHANGED <<cache, solver, result, plan>>
    BY DEF CacheInv, ShapeInv, StageInv, SadDecides
<1>2. \/ EndOfSearch
      \/ /\ pc' = "sad" /\ trace' = trace
         /\ \E grown \in Expansions(support, result.support, Batch) : support' \in Truncated(support, grown)
    BY DEF SadDecides
<1>3. Known(cache, support_deviation_closure(result.support))
    BY <1>1, ClosureIsOfProfiles DEF Known
<1>4. CASE EndOfSearch
    <2>1. \/ Continue("repair")
          \/ solver = "PAIR-SAD" /\ Continue("pair")
          \/ pc' = "return" /\ UNCHANGED <<support, round, trace>>
        BY <1>4, Zenon DEF EndOfSearch, Return
    <2>2. \/ /\ pc' = "repair" \/ (pc' = "pair" /\ solver = "PAIR-SAD")
             /\ support' = result.support
          \/ pc' = "return" /\ support' = support
        BY <1>1, <2>1 DEF Continue
    <2>3. trace' = trace
        BY <2>1 DEF Continue
    <2>4. Follows
        BY <1>1, <2>2, Unread DEF Follows, Extends
    <2>5. ShapeInv'
        BY <1>1, <2>2, <2>3 DEF CacheInv, ShapeInv, InCase, PairSolvers
    <2>6. StageInv'
        BY <1>1, <1>3, <2>2 DEF StageInv
    <2> QED BY <2>4, <2>5, <2>6 DEF Goes
<1>5. CASE /\ pc' = "sad" /\ trace' = trace
           /\ \E grown \in Expansions(support, result.support, Batch) : support' \in Truncated(support, grown)
    <2>1. support' \in SUBSET Profiles
        <3>1. result.support \in SUBSET Profiles
            BY <1>1
        <3>2. PICK grown \in Expansions(support, result.support, Batch) : support' \in Truncated(support, grown)
            BY <1>5
        <3>3. grown[1] \in SUBSET Profiles /\ grown[2] \in SUBSET Profiles
            BY <1>1, <3>1, ExpansionsAreProfiles
        <3> QED BY <1>1, <3>2, <3>3, TruncatedIsOfProfiles
    <2>2. Follows
        BY <1>1, <1>5, Unread DEF Follows, Extends
    <2>3. ShapeInv'
        BY <1>1, <1>5, <2>1 DEF CacheInv, ShapeInv, InCase, PairSolvers
    <2>4. StageInv'
        BY <1>5 DEF StageInv
    <2> QED BY <2>2, <2>3, <2>4 DEF Goes
<1> QED BY <1>2, <1>4, <1>5

LEMMA RepairRoundGoes == CacheInv /\ RepairRound /\ UNCHANGED <<plan, runs, files>> => Goes
<1> SUFFICES ASSUME CacheInv, RepairRound, UNCHANGED <<plan, runs, files>> PROVE Goes
    OBVIOUS
<1> USE DEF Searches, Columns, Running
<1>1. /\ support \in SUBSET Profiles /\ pc = "repair" /\ UNCHANGED <<solver, result, trace, plan>>
      /\ cache' = Reading(support) /\ result.support # {}
    BY DEF CacheInv, ShapeInv, RepairRound
<1>2. Extends(cache, cache') /\ cache'.samples = cache.samples
    BY <1>1, ReadingGrows
<1>3. pc' \in {"repair", "final"} /\ support' \in SUBSET Profiles
    <2>1. PICK T \in (SUBSET support) \ {{}}, n \in 0..NewProfiles :
            \E new \in kSubset(n, Repaired(T)) :
                LET slots == ProfileBudget - Cardinality(T) IN
                IF new = {} \/ slots <= 0
                THEN support' = T /\ pc' = "final" /\ UNCHANGED round
                ELSE /\ \E added \in kSubset(Min({slots, n}), new) : support' = T \cup added
                     /\ round' = round + 1
                     /\ pc' = IF Cardinality(support') >= ProfileBudget THEN "final" ELSE pc
        BY DEF RepairRound
    <2>2. PICK new \in kSubset(n, Repaired(T)) :
            \/ support' = T /\ pc' = "final"
            \/ /\ \E added \in kSubset(Min({ProfileBudget - Cardinality(T), n}), new) : support' = T \cup added
               /\ pc' \in {"final", pc}
        BY <2>1
    <2>3. Repaired(T) \in SUBSET Profiles
        <3>1. T \in SUBSET Profiles
            BY <1>1
        <3>2. support_deviation_closure(support_deviation_closure(T)) \in SUBSET Profiles
            BY <3>1, ClosureIsOfProfiles
        <3> QED BY <3>2 DEF Repaired
    <2>4. new \in SUBSET Profiles
        BY <2>2, <2>3 DEF kSubset
    <2>5. support' \subseteq T \cup new
        BY <2>2 DEF kSubset
    <2> QED BY <1>1, <2>2, <2>4, <2>5
<1>4. Follows
    BY <1>1, <1>2, <1>3 DEF Follows, Extends
<1>5. ShapeInv'
    BY <1>1, <1>3 DEF CacheInv, ShapeInv, InCase, PairSolvers
<1>6. StageInv'
    BY <1>3 DEF StageInv
<1> QED BY <1>4, <1>5, <1>6 DEF Goes

LEMMA RepairFinalGoes == CacheInv /\ RepairFinal /\ UNCHANGED <<plan, runs, files>> => Goes
<1> SUFFICES ASSUME CacheInv, RepairFinal, UNCHANGED <<plan, runs, files>> PROVE Goes
    OBVIOUS
<1> USE DEF Searches, Columns, Running
<1>1. /\ support \in SUBSET Profiles /\ pc \in {"repair", "final"} /\ UNCHANGED <<solver, plan>>
      /\ cache' = Reading(support) /\ result' \in Solutions(cache', support)
    BY DEF CacheInv, ShapeInv, RepairFinal
<1>2. /\ Extends(cache, cache') /\ Known(cache', support_deviation_closure(support))
    BY <1>1, ReadingGrows
<1>3. /\ Read(cache', result') /\ result'.support \in SUBSET support /\ result'.support # {}
      /\ DOMAIN result'.samples = {}
    BY <1>1, <1>2, SolutionsAreRead
<1>4. \/ solver = "REPAIR-PAIR-SAD" /\ pc' = "pair" /\ support' = result'.support /\ trace' = trace
      \/ pc' = "return" /\ UNCHANGED <<support, trace>>
    BY DEF RepairFinal, Continue, Return
<1>5. Follows
    BY <1>1, <1>2, <1>3, <1>4 DEF Follows, Extends, Read
<1>6. ShapeInv'
    BY <1>1, <1>3, <1>4 DEF CacheInv, ShapeInv, InCase, PairSolvers
<1>7. StageInv'
    <2>1. Known(cache', support_deviation_closure(result'.support))
        BY <1>1, <1>2, <1>3, ClosureIsOfProfiles DEF Known
    <2> QED BY <1>4, <2>1 DEF StageInv
<1> QED BY <1>5, <1>6, <1>7 DEF Goes

LEMMA PairRoundGoes == CacheInv /\ PairRound /\ UNCHANGED <<plan, runs, files>> => Goes
<1> SUFFICES ASSUME CacheInv, PairRound, UNCHANGED <<plan, runs, files>> PROVE Goes
    OBVIOUS
<1> USE DEF Searches, Columns, Running
<1> DEFINE pairs == PairsOf(support)
           ensured == ensure_paired(cache, pairs, [pair \in pairs |-> PairSamples])
           sampled == record_access(ensured, support, NRollouts)
<1>1. PICK T \in (SUBSET support) \ {{}}, h \in BOOLEAN :
        /\ result' = Snapshot(sampled, T, support, pairs, h)
        /\ \/ /\ cache' = sampled /\ Return
              /\ UNCHANGED <<support, round>>
           \/ /\ h /\ round < PairRounds
              /\ \E P \in UNION {kSubset(n, PairsOf(T)) : n \in 1..TopPairs} :
                    cache' = ensure_paired(sampled, P, [pair \in P |-> SamplesOf(sampled, pair) + PairBatch])
              /\ support' = T /\ round' = round + 1
              /\ UNCHANGED pc
    BY DEF PairRound
<1>2. /\ support \in SUBSET Profiles /\ pc = "pair" /\ UNCHANGED <<solver, trace, plan>>
      /\ CacheOK(cache) /\ Known(cache, support_deviation_closure(support)) /\ solver \in PairSolvers
    BY DEF CacheInv, ShapeInv, StageInv, CurrentInv, PairRound
<1>3. ASSUME NEW S \in SUBSET support, NEW pair \in PairsOf(S)
      PROVE  /\ pair[1] \in support_deviation_closure(support)
             /\ Deviation(pair[1], pair[2]) \in support_deviation_closure(support)
    BY DEF PairsOf, support_deviation_closure
<1>4. support_deviation_closure(support) \in SUBSET Profiles /\ support \subseteq support_deviation_closure(support)
    BY <1>2, ClosureIsOfProfiles
<1>5. ASSUME NEW c, CacheOK(c), NEW S \in SUBSET support, NEW n, NEW P \in SUBSET PairsOf(S),
             Known(c, support_deviation_closure(support))
      PROVE  Extends(c, ensure_paired(c, P, n)) /\ P \subseteq DOMAIN ensure_paired(c, P, n).samples
    <2>1. \A pair \in P :
            /\ pair[1] \in Profiles /\ Deviation(pair[1], pair[2]) \in Profiles
            /\ Known(c, {pair[1], Deviation(pair[1], pair[2])})
        BY <1>3, <1>4, <1>5 DEF Known
    <2> QED BY <1>5, <2>1, PairedEstimates
<1> DEFINE closure == support_deviation_closure(support)
<1>6. Extends(cache, ensured) /\ pairs \subseteq DOMAIN ensured.samples
    BY <1>2, <1>5
<1>7. CacheOK(ensured) /\ Known(ensured, closure) /\ Known(ensured, support)
    <2>1. CacheOK(ensured) /\ Grows(cache, ensured)
        BY <1>6 DEF Extends, Grows
    <2>2. Known(ensured, closure)
        BY <1>2, <1>4, <2>1, KnownGrows
    <2> QED BY <1>4, <2>1, <2>2 DEF Known
<1> HIDE DEF ensured
<1>8. /\ Extends(ensured, sampled) /\ CacheOK(sampled) /\ pairs \subseteq DOMAIN sampled.samples
      /\ Known(sampled, support)
    <2>1. Extends(ensured, sampled) /\ sampled.samples = ensured.samples /\ Known(sampled, support)
        BY <1>2, <1>7, KnownIsLogged
    <2> QED BY <1>6, <2>1 DEF Extends, Grows
<1> HIDE DEF sampled, pairs
<1>9. Extends(cache, sampled) /\ Known(sampled, closure)
    <2>1. Extends(cache, sampled)
        BY <1>2, <1>6, <1>8, ExtendsOn
    <2> QED BY <1>2, <1>4, <2>1, KnownGrows DEF Extends
<1>10. /\ Read(sampled, result') /\ result'.support = T
       /\ DOMAIN result'.samples = pairs
    BY <1>1, <1>2, <1>8, SnapshotIsRead, SnapshotFields
<1>11. CASE cache' = sampled /\ Return /\ UNCHANGED <<support, round>>
    <2>1. pc' = "return"
        BY <1>11 DEF Return
    <2>2. Follows
        BY <1>2, <1>9, <1>10, <1>11, <2>1 DEF Follows, Read, Extends
    <2>3. ShapeInv'
        BY <1>1, <1>2, <1>10, <1>11, <2>1 DEF CacheInv, ShapeInv, InCase, PairSolvers
    <2>4. StageInv'
        BY <2>1 DEF StageInv
    <2> QED BY <2>2, <2>3, <2>4 DEF Goes
<1>12. CASE /\ \E P \in UNION {kSubset(n, PairsOf(T)) : n \in 1..TopPairs} :
                    cache' = ensure_paired(sampled, P, [pair \in P |-> SamplesOf(sampled, pair) + PairBatch])
            /\ support' = T /\ UNCHANGED pc
    <2>0. \A P \in UNION {kSubset(n, PairsOf(T)) : n \in 1..TopPairs} : P \in SUBSET PairsOf(T)
        BY DEF kSubset
    <2>a. PICK P \in SUBSET PairsOf(T) : \E n : cache' = ensure_paired(sampled, P, n)
        BY <1>12, <2>0
    <2>1. PICK n : cache' = ensure_paired(sampled, P, n)
        BY <2>a
    <2>2. Extends(sampled, cache')
        BY <1>5, <1>8, <1>9, <2>1
    <2>3. Extends(cache, cache') /\ CacheOK(cache')
        BY <1>2, <1>9, <2>2, ExtendsOn DEF Extends, Grows
    <2>4. Rests(cache'.rollouts, result') /\ Logged(cache', result')
        <3>1. \A p \in DOMAIN result'.rollouts :
                /\ p \in Profiles /\ sampled.rollouts[p] = result'.rollouts[p] /\ sampled.rollouts[p] > 0
                /\ sampled.requested[p] > 0
            BY <1>10 DEF Read, Rests, Logged
        <3>2. \A p \in Profiles : sampled.requested[p] \in Nat /\ cache'.requested[p] \in Nat
            BY <1>8, <2>3 DEF CacheOK
        <3> QED BY <2>2, <3>1, <3>2 DEF Extends, Grows, Rests, Logged
    <2>5. Follows
        BY <1>2, <1>12, <2>3, <2>4 DEF Follows, Extends
    <2>6. ShapeInv'
        BY <1>1, <1>2, <1>10, <1>12 DEF CacheInv, ShapeInv, InCase, PairSolvers
    <2>7. StageInv'
        <3>1. Known(cache', closure)
            BY <1>4, <1>8, <1>9, <2>2, KnownGrows DEF Extends
        <3>2. support_deviation_closure(support') \subseteq closure
            BY <1>2, <1>12, ClosureIsOfProfiles
        <3> QED BY <1>2, <1>12, <3>1, <3>2 DEF StageInv, Known
    <2> QED BY <2>5, <2>6, <2>7 DEF Goes
<1> QED BY <1>1, <1>11, <1>12

LEMMA ReadExtends ==
    ASSUME NEW c, NEW d, NEW r, CacheOK(c), Read(c, r), Extends(c, d), DOMAIN r.samples = {}
    PROVE  Read(d, r)
<1>1. \A p \in Profiles : c.requested[p] \in Nat /\ d.requested[p] \in Nat
    BY DEF CacheOK, Extends, Grows
<1> QED BY <1>1 DEF Read, Rests, Logged, PairsRest, Extends, Grows

LEMMA DrawnAreProfiles ==
    ASSUME NEW n, NEW X \in random_profiles(n)
    PROVE  X \in SUBSET Profiles
<1> QED BY DEF random_profiles, kSubset

LEMMA BeamRoundGoes == CacheInv /\ BeamRound /\ UNCHANGED <<plan, runs, files>> => Goes
<1> SUFFICES ASSUME CacheInv, BeamRound, UNCHANGED <<plan, runs, files>> PROVE Goes
    OBVIOUS
<1> USE DEF Searches, Columns, Running
<1> DEFINE solved == Reading(support)
<1>1. /\ support \in SUBSET Profiles /\ pc = "beam" /\ pc' \in {"beam", "return"}
      /\ UNCHANGED <<solver, trace, plan>> /\ result' \in Solutions(solved, support)
    BY DEF CacheInv, ShapeInv, BeamRound
<1>2. PICK X \in random_profiles(Beam) :
        /\ cache' = ensure(solved, X)
        /\ \E Y \in kSubset(Quarter, X) :
            \E grown \in Expansions(support \cup Y, result'.support, Quarter) :
                support' = support \cup Y \cup grown[1] \cup grown[2]
    BY DEF BeamRound
<1>3. X \in SUBSET Profiles
    BY DrawnAreProfiles
<1>4. /\ Extends(cache, solved) /\ CacheOK(solved) /\ solved.samples = cache.samples
      /\ Known(solved, support_deviation_closure(support))
    BY <1>1, ReadingGrows
<1> HIDE DEF solved
<1>5. Extends(solved, cache') /\ CacheOK(cache) /\ cache'.samples = cache.samples
    BY <1>2, <1>3, <1>4, Ensured DEF CacheInv, CurrentInv
<1>6. Extends(cache, cache')
    BY <1>4, <1>5, ExtendsOn
<1>7. /\ Read(solved, result') /\ result'.support \in SUBSET support /\ result'.support # {}
      /\ DOMAIN result'.samples = {}
    BY <1>1, <1>4, SolutionsAreRead
<1>8. Read(cache', result')
    BY <1>4, <1>5, <1>7, ReadExtends
<1>9. support' \in SUBSET Profiles
    <2>1. PICK Y \in kSubset(Quarter, X) :
            \E grown \in Expansions(support \cup Y, result'.support, Quarter) :
                support' = support \cup Y \cup grown[1] \cup grown[2]
        BY <1>2
    <2>2. Y \in SUBSET Profiles
        BY <1>3 DEF kSubset
    <2>3. PICK grown \in Expansions(support \cup Y, result'.support, Quarter) :
            support' = support \cup Y \cup grown[1] \cup grown[2]
        BY <2>1
    <2>4. support \cup Y \in SUBSET Profiles /\ result'.support \in SUBSET Profiles
        BY <1>1, <1>7, <2>2
    <2>5. grown[1] \in SUBSET Profiles /\ grown[2] \in SUBSET Profiles
        BY <2>4, ExpansionsAreProfiles
    <2> QED BY <2>3, <2>4, <2>5
<1>10. Follows
    BY <1>1, <1>6, <1>8 DEF Follows, Extends, Read
<1>11. ShapeInv'
    BY <1>1, <1>7, <1>9 DEF CacheInv, ShapeInv, InCase, PairSolvers
<1>12. StageInv'
    BY <1>1 DEF StageInv
<1> QED BY <1>10, <1>11, <1>12 DEF Goes

LEMMA HeuristicRoundGoes == CacheInv /\ HeuristicRound /\ UNCHANGED <<plan, runs, files>> => Goes
<1> SUFFICES ASSUME CacheInv, HeuristicRound, UNCHANGED <<plan, runs, files>> PROVE Goes
    OBVIOUS
<1> USE DEF Searches, Columns, Running
<1>1. /\ support \in SUBSET Profiles /\ trace \in SUBSET Profiles /\ pc = "master"
      /\ UNCHANGED <<solver, result, plan>> /\ CacheOK(cache)
    BY DEF CacheInv, ShapeInv, CurrentInv, HeuristicRound
<1>2. trace' \in SUBSET Profiles
    BY <1>1 DEF HeuristicRound
<1>3. PICK x \in Profiles, label \in Labels :
        /\ cache' = ensure(Reading(support), PricedRows(support \cup {x}, label))
        /\ \/ pc' = "audit" /\ UNCHANGED <<support, round>>
           \/ /\ x \notin support /\ Cardinality(support) < MaxSupport
              /\ round + 1 < MaxRounds
              /\ support' = support \cup {x} /\ round' = round + 1
              /\ UNCHANGED pc
    BY DEF HeuristicRound
<1>4. PricedRows(support \cup {x}, label) \in SUBSET Profiles
    BY <1>1, DeviationIsProfile DEF PricedRows
<1>5. Extends(cache, Reading(support)) /\ CacheOK(Reading(support)) /\ Reading(support).samples = cache.samples
    BY <1>1, ReadingGrows
<1>6. Extends(Reading(support), cache') /\ cache'.samples = cache.samples
    BY <1>3, <1>4, <1>5, Ensured
<1>7. Extends(cache, cache')
    BY <1>1, <1>5, <1>6, ExtendsOn
<1>8. pc' \in {"master", "audit"} /\ support' \in SUBSET Profiles
    BY <1>1, <1>3
<1>9. Follows
    BY <1>1, <1>6, <1>7, <1>8 DEF Follows, Extends
<1>10. ShapeInv'
    BY <1>1, <1>2, <1>8 DEF CacheInv, ShapeInv, InCase, PairSolvers
<1>11. StageInv'
    BY <1>8 DEF StageInv
<1> QED BY <1>9, <1>10, <1>11 DEF Goes

LEMMA TraceRoundGoes == CacheInv /\ TraceRound /\ UNCHANGED <<plan, runs, files>> => Goes
<1> SUFFICES ASSUME CacheInv, TraceRound, UNCHANGED <<plan, runs, files>> PROVE Goes
    OBVIOUS
<1> USE DEF Searches, Columns, Running
<1>1. /\ support \in SUBSET Profiles /\ trace \in SUBSET Profiles /\ pc = "trace"
      /\ UNCHANGED <<solver, support, plan>> /\ CacheOK(cache) /\ Known(cache, trace)
    BY DEF CacheInv, ShapeInv, StageInv, CurrentInv, TraceRound
<1>2. PICK p \in Profiles :
        /\ cache' = Reading({p})
        /\ trace' = IF Warming(round) THEN trace ELSE trace \cup {p}
    BY DEF TraceRound
<1>3. /\ Extends(cache, cache') /\ CacheOK(cache') /\ cache'.samples = cache.samples /\ Known(cache', {p})
    BY <1>2, ReadingGrows
<1>4. trace' \in SUBSET Profiles /\ Known(cache', trace')
    <2>1. Known(cache', trace)
        BY <1>1, <1>3, KnownGrows DEF Extends
    <2>2. trace' \subseteq trace \cup {p}
        BY <1>2
    <2> QED BY <1>1, <1>3, <2>1, <2>2 DEF Known
<1>5. \/ /\ solver \in TimeBudgeted /\ ~Warming(round)
         /\ result' = Snapshot(cache', trace', trace', {}, FALSE) /\ pc' = "return"
      \/ pc' \in {"trace", "audit"} /\ result' = result
    BY <1>1 DEF TraceRound, Return
<1>6. CASE result' = result /\ pc' \in {"trace", "audit"}
    <2>1. Follows
        BY <1>1, <1>3, <1>6 DEF Follows, Extends
    <2>2. ShapeInv'
        BY <1>1, <1>4, <1>6 DEF CacheInv, ShapeInv, InCase, PairSolvers
    <2>3. StageInv'
        BY <1>4, <1>6 DEF StageInv
    <2> QED BY <2>1, <2>2, <2>3 DEF Goes
<1>7. CASE /\ solver \in TimeBudgeted
           /\ result' = Snapshot(cache', trace', trace', {}, FALSE) /\ pc' = "return"
    <2>0. Read(cache', result')
        <3>1. \A c : Known(c, trace') => Read(c, Snapshot(c, trace', trace', {}, FALSE))
            BY <1>4, SnapshotIsRead
        <3> QED BY <1>4, <1>7, <3>1
    <2>1. DOMAIN result'.samples = {}
        <3>1. \A c, S, h : DOMAIN Snapshot(c, S, S, {}, h).samples = {}
            <4> SUFFICES ASSUME NEW c, NEW S, NEW h PROVE DOMAIN Snapshot(c, S, S, {}, h).samples = {}
                OBVIOUS
            <4> QED BY SnapshotFields
        <3> QED BY <1>7, <3>1, Zenon
    <2>2. Follows
        BY <1>1, <1>3, <1>7, <2>0 DEF Follows, Extends, Read
    <2>3. ~InCase
        BY <1>7 DEF CacheInv, ShapeInv, TimeBudgeted
    <2>4. ShapeInv'
        BY <1>1, <1>4, <1>7, <2>1, <2>3 DEF CacheInv, ShapeInv, InCase, PairSolvers
    <2>5. StageInv'
        BY <1>7 DEF StageInv
    <2> QED BY <2>2, <2>4, <2>5 DEF Goes
<1> QED BY <1>5, <1>6, <1>7

LEMMA WelfareBestGoes == CacheInv /\ WelfareBest /\ UNCHANGED <<plan, runs, files>> => Goes
<1> SUFFICES ASSUME CacheInv, WelfareBest, UNCHANGED <<plan, runs, files>> PROVE Goes
    OBVIOUS
<1> USE DEF Searches, Columns, Running
<1>1. /\ pc = "welfare" /\ pc' = "audit" /\ UNCHANGED <<solver, support, result, plan>> /\ CacheOK(cache)
    BY DEF CacheInv, CurrentInv, WelfareBest
<1>2. PICK C \in random_profiles(Beam) : \E best \in C : cache' = ensure(cache, C) /\ trace' = {best}
    BY DEF WelfareBest
<1>3. C \in SUBSET Profiles
    BY DrawnAreProfiles
<1>4. Extends(cache, cache') /\ cache'.samples = cache.samples /\ trace' \in SUBSET Profiles
    BY <1>1, <1>2, <1>3, Ensured
<1>5. Follows
    BY <1>1, <1>4 DEF Follows, Extends
<1>6. ShapeInv'
    BY <1>1, <1>4 DEF CacheInv, ShapeInv, InCase, PairSolvers
<1>7. StageInv'
    BY <1>1 DEF StageInv
<1> QED BY <1>5, <1>6, <1>7 DEF Goes

LEMMA SolveOnceGoes == CacheInv /\ SolveOnce /\ UNCHANGED <<plan, runs, files>> => Goes
<1> SUFFICES ASSUME CacheInv, SolveOnce, UNCHANGED <<plan, runs, files>> PROVE Goes
    OBVIOUS
<1> USE DEF Searches, Columns, Running
<1>1. /\ support \in SUBSET Profiles /\ pc = "once" /\ pc' = "return"
      /\ UNCHANGED <<solver, support, trace, plan>>
      /\ cache' = Reading(support) /\ result' \in Solutions(cache', support)
    BY DEF CacheInv, ShapeInv, SolveOnce, Return
<1>2. /\ Extends(cache, cache') /\ Known(cache', support_deviation_closure(support))
    BY <1>1, ReadingGrows
<1>3. Read(cache', result') /\ result'.support # {} /\ DOMAIN result'.samples = {}
    BY <1>1, <1>2, SolutionsAreRead
<1>4. Follows
    BY <1>1, <1>2, <1>3 DEF Follows, Extends, Read
<1>5. ShapeInv'
    BY <1>1, <1>3 DEF CacheInv, ShapeInv, InCase, PairSolvers
<1>6. StageInv'
    BY <1>1 DEF StageInv
<1> QED BY <1>4, <1>5, <1>6 DEF Goes

LEMMA AuditGoes == CacheInv /\ Audit /\ UNCHANGED <<plan, runs, files>> => Goes
<1> SUFFICES ASSUME CacheInv, Audit, UNCHANGED <<plan, runs, files>> PROVE Goes
    OBVIOUS
<1> USE DEF Searches, Columns, Running
<1>1. /\ trace \in SUBSET Profiles /\ pc = "audit" /\ pc' = "return"
      /\ UNCHANGED <<solver, support, trace, plan>>
      /\ cache' = Reading(trace) /\ result' \in Audits(cache', trace)
    BY DEF CacheInv, ShapeInv, Audit, Return
<1>2. /\ Extends(cache, cache') /\ Known(cache', support_deviation_closure(trace))
    BY <1>1, ReadingGrows
<1>3. Read(cache', result') /\ DOMAIN result'.samples = {}
    BY <1>1, <1>2, AuditsAreRead
<1>4. Follows
    BY <1>1, <1>2, <1>3 DEF Follows, Extends, Read
<1>5. ShapeInv'
    BY <1>1, <1>3 DEF CacheInv, ShapeInv, InCase, PairSolvers
<1>6. StageInv'
    BY <1>1 DEF StageInv
<1> QED BY <1>4, <1>5, <1>6 DEF Goes

-----------------------------------------------------------------------------
\* The steps of column generation.

LEMMA CompleteGoes == CacheInv /\ Complete /\ UNCHANGED <<plan, runs, files>> => Goes
<1> SUFFICES ASSUME CacheInv, Complete, UNCHANGED <<plan, runs, files>> PROVE Goes
    OBVIOUS
<1> USE DEF Searches, Columns, Running
<1>1. /\ pc = "complete" /\ UNCHANGED <<solver, result, trace, plan>> /\ CacheOK(cache)
      /\ solver \in Exact \cup {"T-CARM-Nested"} /\ pc' = ExactStage[solver]
      /\ cache' = IF solver \in Exact THEN ensure(cache, Profiles) ELSE cache
    BY DEF CacheInv, ShapeInv, CurrentInv, Complete
<1>2. /\ pc' \in {"t-carm"} \cup Columns
      /\ pc' \in Columns => solver \in Exact
      /\ pc' = "kkt" => solver = "CertifiedKKT-CG"
      /\ pc' \in {"phase1", "phase2"} => solver = "ExhaustiveCG"
      /\ pc' = "t-carm" => solver \in {"T-CARM", "T-CARM-Nested"}
    <2>1. ExactStage[solver] =
            IF solver = "CertifiedKKT-CG" THEN "kkt"
            ELSE IF solver = "ExhaustiveCG" THEN "phase1" ELSE "t-carm"
        BY <1>1 DEF ExactStage, Exact
    <2> QED BY <1>1, <2>1 DEF Exact
<1>3. support' \in SUBSET Profiles
    BY DrawnAreProfiles DEF Complete
<1>4. /\ Extends(cache, cache') /\ cache'.samples = cache.samples
      /\ solver \in Exact => Known(cache', Profiles)
    BY <1>1, Ensured, Unread
<1>5. Follows
    BY <1>1, <1>2, <1>4 DEF Follows, Extends
<1>6. ShapeInv'
    BY <1>1, <1>2, <1>3 DEF CacheInv, ShapeInv, InCase, PairSolvers
<1>7. StageInv'
    BY <1>2, <1>4 DEF StageInv
<1> QED BY <1>5, <1>6, <1>7 DEF Goes

LEMMA PublishedIsRead ==
    ASSUME CacheInv, NEW T, pc \in Columns, cache' = cache, Publish(T)
    PROVE  Read(cache', result') /\ DOMAIN result'.samples = {} /\ pc' = "return"
<1>1. PICK h \in BOOLEAN : result' = Snapshot(cache, T, Profiles, {}, h)
    BY DEF Publish
<1>2. Known(cache, Profiles)
    BY DEF CacheInv, StageInv
<1>3. Read(cache, result')
    BY <1>1, <1>2, SnapshotIsRead
<1> QED BY <1>1, <1>3, SnapshotFields DEF Publish, Return

\* What the rounds of the column generation have in common.
LEMMA PublishGoes ==
    ASSUME CacheInv, NEW T, pc \in Columns, Publish(T), UNCHANGED <<cache, solver, plan, runs, files>>,
           support' \in SUBSET Profiles, trace' \in SUBSET Profiles
    PROVE  Goes
<1> USE DEF Searches, Columns, Running
<1>1. Extends(cache, cache') /\ CacheOK(cache) /\ solver \in Exact
    BY Unread DEF CacheInv, ShapeInv, CurrentInv
<1>2. Read(cache', result') /\ DOMAIN result'.samples = {} /\ pc' = "return"
    BY PublishedIsRead
<1>3. Follows
    BY <1>1, <1>2 DEF Follows, Extends, Read
<1>4. ShapeInv'
    BY <1>1, <1>2 DEF CacheInv, ShapeInv, InCase, PairSolvers
<1>5. StageInv'
    BY <1>2 DEF StageInv
<1> QED BY <1>3, <1>4, <1>5 DEF Goes

LEMMA ColumnGoes ==
    ASSUME CacheInv, pc \in Columns, UNCHANGED <<cache, solver, result, plan, runs, files>>,
           pc' \in {pc, "raised"} \/ (pc = "phase1" /\ pc' = "phase2"),
           support' \in SUBSET Profiles, trace' \in SUBSET Profiles
    PROVE  Goes
<1> USE DEF Searches, Columns, Running
<1>1. Extends(cache, cache') /\ CacheOK(cache) /\ solver \in Exact
    BY Unread DEF CacheInv, ShapeInv, CurrentInv
<1>2. Follows
    BY <1>1 DEF Follows, Extends
<1>3. ShapeInv'
    BY <1>1 DEF CacheInv, ShapeInv, InCase, PairSolvers
<1>4. StageInv'
    BY DEF CacheInv, StageInv
<1> QED BY <1>2, <1>3, <1>4 DEF Goes

LEMMA KktRoundGoes == CacheInv /\ KktRound /\ UNCHANGED <<plan, runs, files>> => Goes
<1> SUFFICES ASSUME CacheInv, KktRound, UNCHANGED <<plan, runs, files>> PROVE Goes
    OBVIOUS
<1>1. /\ support \in SUBSET Profiles /\ trace \in SUBSET Profiles /\ pc \in Columns
      /\ UNCHANGED <<cache, solver>>
    BY DEF CacheInv, ShapeInv, KktRound, Columns
<1>2. /\ trace' = trace \/ \E q : trace' = Carrier(q)
      /\ \/ Publish(trace') /\ support' = support
         \/ /\ \E x \in Profiles : support' = support \cup {x}
            /\ UNCHANGED <<result, pc>>
    <2> HIDE DEF Carrier
    <2> QED BY DEF KktRound, Candidates
<1>3. trace' \in SUBSET Profiles /\ support' \in SUBSET Profiles
    BY <1>1, <1>2 DEF Carrier
<1> QED BY <1>1, <1>2, <1>3, PublishGoes, ColumnGoes

LEMMA Phase1Goes == CacheInv /\ Phase1 /\ UNCHANGED <<plan, runs, files>> => Goes
<1> SUFFICES ASSUME CacheInv, Phase1, UNCHANGED <<plan, runs, files>> PROVE Goes
    OBVIOUS
<1>1. /\ support \in SUBSET Profiles /\ trace' \in SUBSET Profiles /\ pc \in Columns /\ pc = "phase1"
      /\ UNCHANGED <<cache, solver, result>>
    BY DEF CacheInv, ShapeInv, Phase1, Columns
<1>2. \A X \in Relaxed(game.payoff) : X \in SUBSET Profiles
    BY DEF Relaxed, Entering, kSubset
<1>3. support' \in SUBSET Profiles /\ pc' \in {pc, "raised", "phase2"}
    BY <1>1, <1>2 DEF Phase1
<1> QED BY <1>1, <1>3, ColumnGoes

LEMMA Phase2Goes == CacheInv /\ Phase2 /\ UNCHANGED <<plan, runs, files>> => Goes
<1> SUFFICES ASSUME CacheInv, Phase2, UNCHANGED <<plan, runs, files>> PROVE Goes
    OBVIOUS
<1>1. /\ support' \in SUBSET Profiles /\ trace' \in SUBSET Profiles /\ pc \in Columns
      /\ UNCHANGED <<cache, solver>>
    BY DEF CacheInv, ShapeInv, Phase2, Columns
<1>2. \E T : Publish(T)
    BY DEF Phase2
<1> QED BY <1>1, <1>2, PublishGoes

LEMMA TCarmRoundGoes == CacheInv /\ TCarmRound /\ UNCHANGED <<plan, runs, files>> => Goes
<1> SUFFICES ASSUME CacheInv, TCarmRound, UNCHANGED <<plan, runs, files>> PROVE Goes
    OBVIOUS
<1> USE DEF Searches, Columns, Running
<1>1. /\ trace \in SUBSET Profiles /\ pc = "t-carm"
      /\ UNCHANGED <<solver, pc, support, result, plan>>
    BY DEF CacheInv, ShapeInv, TCarmRound
<1>2. PICK p \in Profiles, x \in Profiles :
        /\ cache' = IF solver \in Exact THEN Reading({p}) ELSE Reading({p, x})
        /\ trace' = trace \cup {p}
    BY DEF TCarmRound
<1>3. Extends(cache, cache') /\ cache'.samples = cache.samples
    BY <1>2, ReadingGrows
<1>4. Follows
    BY <1>1, <1>3 DEF Follows, Extends
<1>5. ShapeInv'
    BY <1>1, <1>2 DEF CacheInv, ShapeInv, InCase, PairSolvers
<1>6. StageInv'
    BY <1>1 DEF StageInv
<1> QED BY <1>4, <1>5, <1>6 DEF Goes

LEMMA TCarmEndsGoes == CacheInv /\ TCarmEnds /\ UNCHANGED <<plan, runs, files>> => Goes
<1> SUFFICES ASSUME CacheInv, TCarmEnds, UNCHANGED <<plan, runs, files>> PROVE Goes
    OBVIOUS
<1> USE DEF Searches, Columns, Running
<1>1. /\ pc = "t-carm" /\ pc' = "audit" /\ UNCHANGED <<cache, solver, support, result, trace, plan>>
      /\ Extends(cache, cache')
    BY Unread DEF TCarmEnds
<1>2. Follows
    BY <1>1 DEF Follows, Extends
<1>3. ShapeInv'
    BY <1>1 DEF CacheInv, ShapeInv, InCase, PairSolvers
<1>4. StageInv'
    BY <1>1 DEF StageInv
<1> QED BY <1>2, <1>3, <1>4 DEF Goes

\* A step of whatever solver is running.
LEMMA SolveKeeps == CacheInv /\ Solve => CacheInv'
<1> SUFFICES ASSUME CacheInv, Solve PROVE CacheInv'
    OBVIOUS
<1>1. UNCHANGED <<plan, runs, files>> /\ (SearchNext \/ ColumnNext)
    BY DEF Solve
<1>2. SearchNext => Goes
    BY <1>1, SadRoundGoes, ResampleGoes, SadDecidesGoes, RepairRoundGoes, RepairFinalGoes, PairRoundGoes,
       BeamRoundGoes, HeuristicRoundGoes, TraceRoundGoes, WelfareBestGoes, SolveOnceGoes, AuditGoes
    DEF SearchNext
<1>3. ColumnNext => Goes
    BY <1>1, CompleteGoes, KktRoundGoes, Phase1Goes, Phase2Goes, TCarmRoundGoes, TCarmEndsGoes DEF ColumnNext
<1>4. Goes
    BY <1>1, <1>2, <1>3
<1> QED BY <1>4, FollowsKeeps DEF Goes, CacheInv

-----------------------------------------------------------------------------
\* What the experiments do around a solver.

LEMMA NothingYet == /\ NoResult.support = {} /\ DOMAIN NoResult.rollouts = {} /\ DOMAIN NoResult.samples = {}
                    /\ \A f, c : Rests(f, NoResult) /\ Logged(c, NoResult) /\ PairsRest(c, NoResult)
<1>1. NoResult.support = {} /\ DOMAIN NoResult.rollouts = {} /\ DOMAIN NoResult.samples = {}
    BY DEF NoResult
<1> QED BY <1>1 DEF Rests, Logged, PairsRest

LEMMA LoadedIsOK ==
    ASSUME NEW f, CountFile(f)
    PROVE  CacheOK(Loaded(f)) /\ Loaded(f).rollouts = f
<1> DEFINE zero == [p \in Profiles |-> 0]
           none == [k \in {} |-> 0]
<1>1. Loaded(f) = [[rollouts |-> zero, requested |-> zero, samples |-> none] EXCEPT !.rollouts = f]
    BY Zenon DEF Loaded, EmptyCache
<1>2. zero \in [Profiles -> Nat]
    OBVIOUS
<1> HIDE DEF zero, none
<1>3. Loaded(f) = [rollouts |-> f, requested |-> zero, samples |-> none]
    BY <1>1
<1>4. Loaded(f).rollouts = f /\ Loaded(f).requested = zero /\ Loaded(f).samples = none
    BY <1>3
<1> QED BY <1>2, <1>3, <1>4 DEF CacheOK

LEMMA EmptyIsOK ==
    /\ CacheOK(EmptyCache) /\ EmptyCache.rollouts = NoFile /\ CountFile(NoFile)
    /\ \A p \in Profiles : EmptyCache.rollouts[p] = 0 /\ EmptyCache.requested[p] = 0
<1> DEFINE zero == [p \in Profiles |-> 0]
           none == [k \in {} |-> 0]
<1>1. EmptyCache = [rollouts |-> zero, requested |-> zero, samples |-> none]
    BY Zenon DEF EmptyCache
<1>2. zero \in [Profiles -> Nat] /\ \A p \in Profiles : zero[p] = 0
    OBVIOUS
<1>3. NoFile = zero
    BY DEF NoFile
<1> HIDE DEF zero, none
<1>4. EmptyCache.rollouts = zero /\ EmptyCache.requested = zero /\ EmptyCache.samples = none
    BY <1>1
<1>5. CountFile(zero)
    BY <1>2 DEF CountFile
<1> QED BY <1>1, <1>2, <1>3, <1>4, <1>5 DEF CacheOK

LEMMA ResetIsOK ==
    ASSUME NEW c, CacheOK(c)
    PROVE  LET d == reset_access_log(c) IN
           /\ CacheOK(d) /\ d.rollouts = c.rollouts
           /\ \A p \in Profiles : d.requested[p] = 0
<1> DEFINE zero == [p \in Profiles |-> 0]
           d == reset_access_log(c)
<1>1. d = [c EXCEPT !.requested = zero]
    BY Zenon DEF reset_access_log
<1>2. zero \in [Profiles -> Nat] /\ \A p \in Profiles : zero[p] = 0
    OBVIOUS
<1> HIDE DEF zero, d
<1>3. d = [rollouts |-> c.rollouts, requested |-> zero, samples |-> c.samples]
    BY <1>1 DEF CacheOK
<1>4. d.rollouts = c.rollouts /\ d.requested = zero
    BY <1>3
<1>5. CacheOK(d)
    BY <1>2, <1>3, <1>4 DEF CacheOK
<1> QED BY <1>2, <1>4, <1>5 DEF d

\* A solver begins with no result, and in a stage that has read nothing.
LEMMA BeginGoes ==
    ASSUME NEW name \in Solvers \cup {"DSS"}, NEW c, Begin(name, c)
    PROVE  /\ cache' = c /\ solver' = name /\ result' = NoResult
           /\ support' \in SUBSET Profiles /\ trace' \in SUBSET Profiles
           /\ pc' \in {"sad", "beam", "master", "trace", "welfare", "audit", "once", "complete"}
           /\ pc' = "complete" => name \in Exact \cup {"T-CARM-Nested"}
           /\ pc' = "trace" => trace' = {}
           /\ name = "DSS" => pc' = "sad"
<1>1. FirstStage(name) =
        IF name \in {"SAD", "PAIR-SAD", "REPAIR-SAD", "REPAIR-PAIR-SAD", "DSS"} THEN "sad"
        ELSE IF name = "CG-beam" THEN "beam"
        ELSE IF name = "HeuristicKKT-CG" THEN "master"
        ELSE IF name \in {"MWU", "RM", "MWU-time", "RM-time"} THEN "trace"
        ELSE IF name = "WelfareBestPure" THEN "welfare"
        ELSE IF name = "UniformMixture" THEN "audit"
        ELSE IF name = "RandomSupport" THEN "once"
        ELSE "complete"
    BY DEF FirstStage, TimeBudgeted, Solvers
<1>2. support' \in SUBSET Profiles /\ trace' \in SUBSET Profiles
    BY DrawnAreProfiles DEF Begin
<1>3. name # "UniformMixture" => trace' = {}
    BY DEF Begin
<1>4. cache' = c /\ solver' = name /\ result' = NoResult /\ pc' = FirstStage(name)
    BY DEF Begin
<1> QED BY <1>1, <1>2, <1>3, <1>4 DEF Solvers, Exact

LEMMA CaseIsNoMatrix == Case \notin Seq(Solvers)
<1>1. ASSUME Case \in Seq(Solvers) PROVE FALSE
    <2>1. Case[1] \in Solvers
        BY <1>1, Len(Case) = 1, ElementOfSeq DEF Case
    <2>2. Case[1] = "case"
        BY DEF Case
    <2> QED BY <2>1, <2>2 DEF Solvers
<1> QED BY <1>1

LEMMA StartSolverKeeps == CacheInv /\ StartSolver => CacheInv'
<1> SUFFICES ASSUME CacheInv, StartSolver PROVE CacheInv'
    OBVIOUS
<1> USE DEF Searches, Columns, Running
<1>1. ~InCase /\ plan \in Seq(Solvers) /\ plan # <<>> /\ runs' = runs + 1 /\ UNCHANGED files
      /\ plan' = Tail(plan) /\ Begin(Head(plan), reset_access_log(cache))
      /\ CacheOK(cache) /\ runs \in Nat
    BY DEF CacheInv, ShapeInv, CurrentInv, StartSolver, InCase
<1>2. Head(plan) \in Solvers /\ Tail(plan) \in Seq(Solvers)
    BY <1>1, HeadTailProperties
<1>3. plan' \in Seq(Solvers) /\ ~InCase'
    BY <1>1, <1>2, CaseIsNoMatrix DEF InCase
<1> DEFINE d == reset_access_log(cache)
<1>4. /\ cache' = d /\ solver' = Head(plan) /\ result' = NoResult
      /\ support' \in SUBSET Profiles /\ trace' \in SUBSET Profiles
      /\ pc' \in {"sad", "beam", "master", "trace", "welfare", "audit", "once", "complete"}
      /\ pc' = "complete" => solver' \in Exact \cup {"T-CARM-Nested"}
      /\ pc' = "trace" => trace' = {}
    BY <1>1, <1>2, BeginGoes
<1>5. /\ CacheOK(d) /\ d.rollouts = cache.rollouts
      /\ \A p \in Profiles : d.requested[p] = 0
    BY <1>1, ResetIsOK
<1> HIDE DEF d
<1>6. ShapeInv'
    BY <1>1, <1>2, <1>3, <1>4, NothingYet DEF ShapeInv, Solvers
<1>7. StageInv'
    BY <1>4 DEF StageInv, Known
<1>8. CostInv'
    <2>1. Afforded(d)
        BY <1>1, <1>5 DEF Afforded, CacheOK, CountFile
    <2>2. runs' = 1 => Exactly(d)
        <3> SUFFICES ASSUME runs' = 1 PROVE Exactly(d)
            OBVIOUS
        <3>1. cache = EmptyCache
            BY <1>1 DEF CacheInv, CostInv
        <3> QED BY <1>5, <3>1, EmptyIsOK DEF Exactly
    <2>3. runs' # 0
        BY <1>1
    <2> QED BY <1>4, <2>1, <2>2, <2>3, NothingYet DEF CostInv
<1>9. CurrentInv'
    BY <1>4, <1>5, NothingYet DEF CurrentInv
<1>10. FilesInv'
    <2>1. UNCHANGED <<files, Checkpointed, LoadPath>>
        BY <1>1 DEF Checkpointed, LoadPath
    <2> QED BY <1>3, <1>4, <2>1 DEF FilesInv, CacheInv
<1> QED BY <1>6, <1>7, <1>8, <1>9, <1>10 DEF CacheInv

LEMMA OpenCaseKeeps == CacheInv /\ OpenCase => CacheInv'
<1> SUFFICES ASSUME CacheInv, OpenCase PROVE CacheInv'
    OBVIOUS
<1> USE DEF Searches, Columns, Running
<1>1. InCase /\ InCase' /\ ~Checkpointed /\ runs' = 1 /\ UNCHANGED <<plan, files, Checkpointed, LoadPath>>
      /\ Begin("DSS", EmptyCache)
    BY DEF OpenCase, InCase, Checkpointed, LoadPath
<1>2. /\ cache' = EmptyCache /\ solver' = "DSS" /\ result' = NoResult
      /\ support' \in SUBSET Profiles /\ trace' \in SUBSET Profiles /\ pc' = "sad"
    BY <1>1, BeginGoes
<1>3. ShapeInv'
    BY <1>1, <1>2, NothingYet DEF CacheInv, ShapeInv
<1>4. StageInv'
    BY <1>2 DEF StageInv
<1>5. CostInv'
    <2>1. Afforded(EmptyCache) /\ Exactly(EmptyCache)
        BY EmptyIsOK DEF Afforded, Exactly
    <2> QED BY <1>1, <1>2, <2>1, NothingYet DEF CostInv
<1>6. CurrentInv'
    BY <1>2, EmptyIsOK, NothingYet DEF CurrentInv
<1>7. FilesInv'
    BY <1>1, <1>2 DEF CacheInv, FilesInv
<1> QED BY <1>3, <1>4, <1>5, <1>6, <1>7 DEF CacheInv

LEMMA ResumeCaseKeeps == CacheInv /\ ResumeCase => CacheInv'
<1> SUFFICES ASSUME CacheInv, ResumeCase PROVE CacheInv'
    OBVIOUS
<1> USE DEF Searches, Columns, Running
<1>1. /\ InCase /\ InCase' /\ Checkpointed /\ pc' = "table"
      /\ UNCHANGED <<plan, files, Checkpointed, LoadPath, solver, support, trace, runs>>
      /\ result' = files.dss /\ cache' = Loaded(LoadPath)
    BY DEF ResumeCase, InCase, Checkpointed, LoadPath
<1>2. CountFile(LoadPath) /\ Rests(LoadPath, files.dss) /\ DOMAIN files.dss.samples = {}
    BY <1>1 DEF CacheInv, FilesInv, LoadPath
<1>3. CacheOK(cache') /\ cache'.rollouts = LoadPath
    BY <1>1, <1>2, LoadedIsOK
<1>4. ShapeInv'
    BY <1>1, <1>2 DEF CacheInv, ShapeInv
<1>5. StageInv' /\ CostInv'
    BY <1>1 DEF StageInv, CostInv
<1>6. CurrentInv'
    BY <1>1, <1>2, <1>3 DEF CurrentInv, PairsRest
<1>7. FilesInv'
    BY <1>1 DEF CacheInv, FilesInv
<1> QED BY <1>4, <1>5, <1>6, <1>7 DEF CacheInv

LEMMA SaveSolverCacheKeeps == CacheInv /\ SaveSolverCache => CacheInv'
<1> SUFFICES ASSUME CacheInv, SaveSolverCache PROVE CacheInv'
    OBVIOUS
<1> USE DEF Searches, Columns, Running
<1>1. /\ InCase /\ InCase' /\ pc = "return" /\ pc' = "checkpoint"
      /\ UNCHANGED <<cache, solver, support, result, trace, plan, runs>>
      /\ files' = [files EXCEPT !.solver = cache.rollouts]
    BY DEF SaveSolverCache, InCase
<1>2. /\ files'.solver = cache.rollouts /\ files'.dss = files.dss /\ files'.complete = files.complete
      /\ files' = [solver |-> files'.solver, dss |-> files'.dss, complete |-> files'.complete]
    <2> DEFINE f == cache.rollouts
    <2>1. files' = [files EXCEPT !.solver = f]
        BY <1>1
    <2> HIDE DEF f
    <2>2. files' = [solver |-> f, dss |-> files.dss, complete |-> files.complete]
        BY <2>1 DEF CacheInv, FilesInv
    <2>3. files'.solver = f /\ files'.dss = files.dss /\ files'.complete = files.complete
        BY <2>2
    <2> QED BY <2>2, <2>3 DEF f
<1>3. ~Checkpointed /\ ~Checkpointed'
    BY <1>1, <1>2 DEF CacheInv, FilesInv, Checkpointed
<1>4. ShapeInv'
    BY <1>1 DEF CacheInv, ShapeInv
<1>5. StageInv' /\ CostInv'
    BY <1>1 DEF StageInv, CostInv
<1>6. CurrentInv'
    BY <1>1 DEF CacheInv, CurrentInv
<1>7. FilesInv'
    BY <1>1, <1>2, <1>3 DEF CacheInv, FilesInv, CurrentInv, CacheOK
<1> QED BY <1>4, <1>5, <1>6, <1>7 DEF CacheInv

LEMMA WriteCheckpointKeeps == CacheInv /\ WriteCheckpoint => CacheInv'
<1> SUFFICES ASSUME CacheInv, WriteCheckpoint PROVE CacheInv'
    OBVIOUS
<1> USE DEF Searches, Columns, Running
<1>1. /\ InCase /\ InCase' /\ pc = "checkpoint" /\ pc' = "table"
      /\ UNCHANGED <<cache, solver, support, result, trace, plan, runs>>
      /\ files' = [files EXCEPT !.dss = result]
    BY DEF WriteCheckpoint, InCase, CacheInv, ShapeInv
<1>2. /\ files'.solver = files.solver /\ files'.dss = result /\ files'.complete = files.complete
      /\ files' = [solver |-> files'.solver, dss |-> files'.dss, complete |-> files'.complete]
    BY <1>1 DEF CacheInv, FilesInv
<1>3. /\ files.solver = cache.rollouts /\ files.complete = NoFile
      /\ result.support # {} /\ DOMAIN result.samples = {} /\ Rests(cache.rollouts, result)
    BY <1>1 DEF CacheInv, FilesInv, ShapeInv, CurrentInv, PairSolvers
<1>4. Checkpointed' /\ LoadPath' = cache.rollouts
    BY <1>2, <1>3, NothingYet DEF Checkpointed, LoadPath
<1>5. ShapeInv'
    BY <1>1 DEF CacheInv, ShapeInv
<1>6. StageInv' /\ CostInv'
    BY <1>1 DEF StageInv, CostInv
<1>7. CurrentInv'
    BY <1>1 DEF CacheInv, CurrentInv
<1>8. FilesInv'
    BY <1>1, <1>2, <1>3, <1>4 DEF CacheInv, FilesInv
<1> QED BY <1>5, <1>6, <1>7, <1>8 DEF CacheInv

LEMMA TableBatchKeeps == CacheInv /\ TableBatch => CacheInv'
<1> SUFFICES ASSUME CacheInv, TableBatch PROVE CacheInv'
    OBVIOUS
<1> USE DEF Searches, Columns, Running
<1>1. /\ InCase /\ InCase' /\ pc = "table" /\ Checkpointed /\ result = files.dss
      /\ UNCHANGED <<solver, pc, support, result, trace, plan, runs>>
      /\ files' = [files EXCEPT !.complete = cache'.rollouts]
      /\ CacheOK(cache) /\ Rests(cache.rollouts, result) /\ DOMAIN files.dss.samples = {}
    BY DEF TableBatch, InCase, CacheInv, ShapeInv, FilesInv, CurrentInv
<1>2. PICK B : B \in SUBSET Profiles /\ B # {} /\ cache' = ensure(cache, B)
    BY DEF TableBatch, kSubset
<1>3. Extends(cache, cache') /\ CacheOK(cache') /\ Known(cache', B)
    BY <1>1, <1>2, Ensured DEF Extends, Grows
<1>4. /\ files'.solver = files.solver /\ files'.dss = files.dss /\ files'.complete = cache'.rollouts
      /\ files' = [solver |-> files'.solver, dss |-> files'.dss, complete |-> files'.complete]
    BY <1>1 DEF CacheInv, FilesInv
<1>5. Rests(cache'.rollouts, result)
    BY <1>1, <1>3 DEF Rests, Extends
<1>6. Checkpointed' /\ LoadPath' = cache'.rollouts
    <2>1. cache'.rollouts # NoFile
        BY <1>2, <1>3 DEF Known, NoFile
    <2> QED BY <1>1, <1>4, <2>1 DEF Checkpointed, LoadPath
<1>7. ShapeInv'
    BY <1>1 DEF CacheInv, ShapeInv
<1>8. StageInv' /\ CostInv'
    BY <1>1 DEF StageInv, CostInv
<1>9. CurrentInv'
    BY <1>1, <1>3, <1>5 DEF CurrentInv, PairsRest
<1>10. FilesInv'
    BY <1>1, <1>3, <1>4, <1>5, <1>6 DEF CacheInv, FilesInv, CacheOK
<1> QED BY <1>7, <1>8, <1>9, <1>10 DEF CacheInv

LEMMA FinishCaseKeeps == CacheInv /\ FinishCase => CacheInv'
<1> SUFFICES ASSUME CacheInv, FinishCase PROVE CacheInv'
    OBVIOUS
<1> USE DEF Searches, Columns, Running
<1>1. /\ pc = "table" /\ pc' = "audited"
      /\ UNCHANGED <<cache, solver, support, result, trace, plan, runs, files, InCase, Checkpointed, LoadPath>>
    BY DEF FinishCase, InCase, Checkpointed, LoadPath
<1>2. ShapeInv'
    BY <1>1 DEF CacheInv, ShapeInv
<1>3. StageInv' /\ CostInv'
    BY <1>1 DEF StageInv, CostInv, CacheInv, ShapeInv
<1>4. CurrentInv'
    BY <1>1 DEF CacheInv, CurrentInv
<1>5. FilesInv'
    BY <1>1 DEF CacheInv, FilesInv
<1> QED BY <1>2, <1>3, <1>4, <1>5 DEF CacheInv

LEMMA CrashKeeps == CacheInv /\ Crash => CacheInv'
<1> SUFFICES ASSUME CacheInv, Crash PROVE CacheInv'
    OBVIOUS
<1> USE DEF Searches, Columns, Running
<1>1. /\ InCase /\ InCase' /\ pc' = "start" /\ support' = {} /\ trace' = {}
      /\ cache' = EmptyCache /\ result' = NoResult
      /\ UNCHANGED <<solver, plan, runs, files, Checkpointed, LoadPath>>
    BY DEF Crash, InCase, Checkpointed, LoadPath
<1>2. ShapeInv'
    BY <1>1, NothingYet DEF CacheInv, ShapeInv
<1>3. StageInv' /\ CostInv'
    BY <1>1 DEF StageInv, CostInv
<1>4. CurrentInv'
    BY <1>1, EmptyIsOK, NothingYet DEF CurrentInv
<1>5. FilesInv'
    BY <1>1 DEF CacheInv, FilesInv
<1> QED BY <1>2, <1>3, <1>4, <1>5 DEF CacheInv

LEMMA RunsInitInv == RunsInit => CacheInv
<1> SUFFICES ASSUME RunsInit PROVE CacheInv
    OBVIOUS
<1> USE DEF Searches, Columns, Running
<1>1. /\ cache = EmptyCache /\ solver = "none" /\ pc = "start" /\ support = {} /\ result = NoResult
      /\ trace = {} /\ plan \in Matrices \cup {Case} /\ runs = 0 /\ files = NoFiles
    BY DEF RunsInit
<1>2. files.solver = NoFile /\ files.dss = NoResult /\ files.complete = NoFile
      /\ files = [solver |-> files.solver, dss |-> files.dss, complete |-> files.complete]
    <2> HIDE DEF NoFile, NoResult
    <2>1. files = [solver |-> NoFile, dss |-> NoResult, complete |-> NoFile]
        BY <1>1 DEF NoFiles
    <2> QED BY <2>1
<1>3. ShapeInv
    BY <1>1, MatrixAssumption, NothingYet DEF ShapeInv
<1>4. StageInv /\ CostInv
    BY <1>1 DEF StageInv, CostInv
<1>5. CurrentInv
    BY <1>1, EmptyIsOK, NothingYet DEF CurrentInv
<1>6. FilesInv
    BY <1>1, <1>2, EmptyIsOK DEF FilesInv, Checkpointed
<1> QED BY <1>3, <1>4, <1>5, <1>6 DEF CacheInv

LEMMA RunsNextInv == CacheInv /\ [RunsNext]_runVars => CacheInv'
<1> SUFFICES ASSUME CacheInv, [RunsNext]_runVars PROVE CacheInv'
    OBVIOUS
<1>1. CASE UNCHANGED runVars
    <2>1. UNCHANGED <<cache, solver, pc, support, result, trace, plan, runs, files, Running, InCase, Checkpointed, LoadPath>>
        BY <1>1 DEF runVars, Running, InCase, Checkpointed, LoadPath
    <2>2. ShapeInv' /\ StageInv' /\ CostInv' /\ CurrentInv' /\ FilesInv'
        BY <2>1 DEF CacheInv, ShapeInv, StageInv, CostInv, CurrentInv, FilesInv
    <2> QED BY <2>2 DEF CacheInv
<1>2. CASE RunsNext
    BY <1>1, <1>2, StartSolverKeeps, SolveKeeps, OpenCaseKeeps, ResumeCaseKeeps, SaveSolverCacheKeeps,
       WriteCheckpointKeeps, TableBatchKeeps, FinishCaseKeeps, CrashKeeps DEF RunsNext, Finished
<1> QED BY <1>1, <1>2

\* PayoffCache, the solvers and run_one_game: whatever is resampled, however
\* many solvers share the cache and however often a case crashes, the gap that
\* is reported was computed from estimates that are in the cache as they were.
THEOREM ReportsRestOnTheCache == RunsSpec => []ResultIsCurrent
<1>1. CacheInv => ResultIsCurrent
    <2> SUFFICES ASSUME CacheInv PROVE ResultIsCurrent
        OBVIOUS
    <2>1. Rests(cache.rollouts, result) /\ (pc # "pair" => PairsRest(cache, result))
        BY DEF CacheInv, CurrentInv
    <2> QED BY <2>1 DEF ResultIsCurrent, Reported, Rests, PairsRest
<1> QED BY <1>1, RunsInitInv, RunsNextInv, PTL DEF RunsSpec

\* reset_access_log and the log of PayoffCache: when a solver returns, the log
\* names all its result rests on, claims no more than was simulated, and is
\* what was simulated if the cache was empty before.
THEOREM CostsAreComplete == RunsSpec => []CostIsCounted
<1>1. CacheInv => CostIsCounted
    <2> SUFFICES ASSUME CacheInv, pc = "return"
                 PROVE  /\ DOMAIN result.rollouts \subseteq Accessed(cache)
                        /\ \A p \in Profiles : cache.requested[p] <= cache.rollouts[p]
                        /\ runs = 1 => cache.requested = cache.rollouts
        BY DEF CostIsCounted
    <2>1. /\ Logged(cache, result) /\ Afforded(cache) /\ (runs = 1 => Exactly(cache))
          /\ CacheOK(cache) /\ Rests(cache.rollouts, result)
        BY DEF CacheInv, CostInv, CurrentInv, Running
    <2>2. DOMAIN result.rollouts \subseteq Accessed(cache)
        BY <2>1 DEF Logged, Rests, Accessed
    <2>3. runs = 1 => cache.requested = cache.rollouts
        BY <2>1 DEF Exactly, CacheOK, CountFile
    <2> QED BY <2>1, <2>2, <2>3 DEF Afforded
<1> QED BY <1>1, RunsInitInv, RunsNextInv, PTL DEF RunsSpec

-----------------------------------------------------------------------------
(* The certificates.                                                       *)

LEMMA ProfilesAreFinite ==
    /\ IsFiniteSet(Profiles) /\ Profiles # {} /\ IsFiniteSet(Labels) /\ Labels # {}
<1>1. IsFiniteSet(Agents) /\ Agents # {} /\ IsFiniteSet(Policies) /\ Policies # {}
    BY CacheAssumption, FS_EmptySet
<1> DEFINE Graph(x) == {l \in Labels : l[2] = x[l[1]]}
           F == [x \in Profiles |-> Graph(x)]
<1>2. IsFiniteSet(Labels) /\ Labels # {}
    <2>1. IsFiniteSet(Agents \X Policies)
        BY <1>1, FS_Product
    <2>2. PICK i \in Agents, s \in Policies : TRUE
        BY <1>1
    <2>3. <<i, s>> \in Labels
        BY DEF Labels
    <2> QED BY <2>1, <2>3 DEF Labels
<1>3. Profiles # {}
    <2>1. PICK s \in Policies : TRUE
        BY <1>1
    <2>2. [i \in Agents |-> s] \in Profiles
        BY DEF Profiles
    <2> QED BY <2>2
<1>4. ASSUME NEW x \in Profiles, NEW y \in Profiles, Graph(x) = Graph(y)
      PROVE  x = y
    <2>1. ASSUME NEW i \in Agents PROVE x[i] = y[i]
        <3>1. <<i, x[i]>> \in Graph(x)
            BY DEF Profiles, Labels
        <3>2. <<i, x[i]>> \in Graph(y)
            BY <1>4, <3>1
        <3> QED BY <3>2
    <2> QED BY <2>1 DEF Profiles
<1>5. F \in Injection(Profiles, SUBSET Labels)
    <2>1. F \in [Profiles -> SUBSET Labels]
        OBVIOUS
    <2>2. \A x, y \in Profiles : F[x] = F[y] => x = y
        <3> HIDE DEF Graph
        <3> QED BY <1>4
    <2> HIDE DEF F
    <2> QED BY <2>1, <2>2 DEF Injection, IsInjective
<1>6. IsFiniteSet(Profiles)
    <2>1. IsFiniteSet(SUBSET Labels)
        BY <1>2, FS_SUBSET
    <2> HIDE DEF F
    <2> QED BY <2>1, <1>5, FS_Injection
<1> QED BY <1>2, <1>3, <1>6

Tables == [Agents -> [Profiles -> Int]]

LEMMA GainIsInt ==
    ASSUME NEW u \in Tables, NEW x \in Profiles, NEW l \in Labels
    PROVE  Gain(u, x, l) \in Int
<1>1. l[1] \in Agents /\ Deviation(x, l) \in Profiles
    BY DeviationIsProfile DEF Labels
<1>2. u[l[1]] \in [Profiles -> Int]
    BY <1>1 DEF Tables
<1> HIDE DEF Deviation
<1> QED BY <1>1, <1>2 DEF Gain

\* The image of a finite set of numbers is one.
LEMMA ImageIsFinite ==
    ASSUME NEW S, IsFiniteSet(S), NEW f \in [S -> Int]
    PROVE  IsFiniteSet({f[x] : x \in S}) /\ {f[x] : x \in S} \subseteq Int
<1> DEFINE T == {f[x] : x \in S}
<1>1. f \in Surjection(S, T)
    BY DEF Surjection
<1> QED BY <1>1, FS_Surjection

LEMMA GapIs ==
    ASSUME NEW u \in Tables, NEW q \in [Profiles -> Nat]
    PROVE  /\ \A l \in Labels : /\ RowGain(u, q, l) = SumFunctionOnSet([x \in Profiles |-> q[x] * Gain(u, x, l)], Profiles)
                                /\ RowGain(u, q, l) \in Int /\ RowGain(u, q, l) <= Gap(u, q)
           /\ Gap(u, q) \in Int
<1> DEFINE f(l) == [x \in Profiles |-> q[x] * Gain(u, x, l)]
<1>1. \A l \in Labels : \A x \in Profiles : f(l)[x] \in Int
    BY GainIsInt
<1>2. \A l \in Labels : RowGain(u, q, l) = SumFunctionOnSet(f(l), Profiles)
    BY DEF RowGain, SumFunction
<1>3. \A l \in Labels : RowGain(u, q, l) \in Int
    <2> HIDE DEF f
    <2> QED BY <1>1, <1>2, SumIsInt, ProfilesAreFinite
<1> DEFINE rows == [l \in Labels |-> RowGain(u, q, l)]
           G == {rows[l] : l \in Labels}
<1>4. rows \in [Labels -> Int]
    BY <1>3
<1>5. Gap(u, q) = Max(G)
    BY DEF Gap
<1>6. \A l \in Labels : rows[l] = RowGain(u, q, l)
    OBVIOUS
<1> HIDE DEF rows
<1>7. IsFiniteSet(G) /\ G \subseteq Int /\ G # {} /\ \A l \in Labels : rows[l] \in G
    BY <1>4, ImageIsFinite, ProfilesAreFinite
<1> HIDE DEF G, f
<1>8. Max(G) \in G /\ \A x \in G : x <= Max(G)
    BY <1>7, Greatest
<1> QED BY <1>2, <1>3, <1>5, <1>6, <1>7, <1>8 DEF f

LEMMA LeastPriceIs ==
    ASSUME NEW u \in Tables, NEW w \in [Labels -> Nat]
    PROVE  /\ \A x \in Profiles : /\ Price(u, w, x) = SumFunctionOnSet([l \in Labels |-> w[l] * Gain(u, x, l)], Labels)
                                  /\ Price(u, w, x) \in Int /\ LeastPrice(u, w) <= Price(u, w, x)
           /\ LeastPrice(u, w) \in Int
<1> DEFINE f(x) == [l \in Labels |-> w[l] * Gain(u, x, l)]
<1>1. \A x \in Profiles : \A l \in Labels : f(x)[l] \in Int
    BY GainIsInt
<1>2. \A x \in Profiles : Price(u, w, x) = SumFunctionOnSet(f(x), Labels)
    BY DEF Price, SumFunction
<1>3. \A x \in Profiles : Price(u, w, x) \in Int
    <2> HIDE DEF f
    <2> QED BY <1>1, <1>2, SumIsInt, ProfilesAreFinite
<1> DEFINE prices == [x \in Profiles |-> Price(u, w, x)]
           G == {prices[x] : x \in Profiles}
<1>4. prices \in [Profiles -> Int]
    BY <1>3
<1>5. LeastPrice(u, w) = Min(G)
    BY DEF LeastPrice, Candidates
<1>6. \A x \in Profiles : prices[x] = Price(u, w, x)
    OBVIOUS
<1> HIDE DEF prices
<1>7. IsFiniteSet(G) /\ G \subseteq Int /\ G # {} /\ \A x \in Profiles : prices[x] \in G
    BY <1>4, ImageIsFinite, ProfilesAreFinite
<1> HIDE DEF G, f
<1>8. Min(G) \in G /\ \A x \in G : Min(G) <= x
    BY <1>7, Least
<1> QED BY <1>2, <1>3, <1>5, <1>6, <1>7, <1>8 DEF f

\* No distribution on the profiles has a gap below the least price under any weights: the
\* average price of its profiles is the average gain of the weighted deviations.
LEMMA PricesBoundTheGap ==
    ASSUME NEW u \in Tables, NEW q \in Mixes, NEW w \in Weights
    PROVE  LeastPrice(u, w) <= Gap(u, q)
<1>1. /\ q \in [Profiles -> Nat] /\ SumFunctionOnSet(q, Profiles) = Grain
      /\ w \in [Labels -> Nat] /\ SumFunctionOnSet(w, Labels) = Grain
      /\ Grain \in Nat \ {0}
    BY GameAssumption DEF SumFunction
<1> DEFINE G == [l \in Labels |-> [x \in Profiles |-> Gain(u, x, l)]]
           low == LeastPrice(u, w)
           high == Gap(u, q)
           rows == [l \in Labels |-> w[l] * SumFunctionOnSet([x \in Profiles |-> q[x] * G[l][x]], Profiles)]
           columns == [x \in Profiles |-> q[x] * SumFunctionOnSet([l \in Labels |-> w[l] * G[l][x]], Labels)]
<1>2. G \in [Labels -> [Profiles -> Int]]
    BY GainIsInt
<1>3. ASSUME NEW l \in Labels PROVE rows[l] = w[l] * RowGain(u, q, l)
    <2>1. [x \in Profiles |-> q[x] * G[l][x]] = [x \in Profiles |-> q[x] * Gain(u, x, l)]
        OBVIOUS
    <2> HIDE DEF G
    <2> QED BY <1>1, <2>1, GapIs
<1>4. ASSUME NEW x \in Profiles PROVE columns[x] = q[x] * Price(u, w, x)
    <2>1. [l \in Labels |-> w[l] * G[l][x]] = [l \in Labels |-> w[l] * Gain(u, x, l)]
        OBVIOUS
    <2> HIDE DEF G
    <2> QED BY <1>1, <2>1, LeastPriceIs
<1> HIDE DEF G
<1>5. SumFunctionOnSet(rows, Labels) = SumFunctionOnSet(columns, Profiles)
    <2> DEFINE row == [l \in Labels |-> [x \in Profiles |-> q[x] * G[l][x]]]
               column == [x \in Profiles |-> [l \in Labels |-> w[l] * G[l][x]]]
    <2>1. \A l \in Labels : w[l] \in Int
        BY <1>1
    <2>2. \A x \in Profiles : q[x] \in Int
        BY <1>1
    <2>3. \A l \in Labels : \A x \in Profiles :
            /\ G[l][x] \in Int /\ row[l][x] \in Int /\ column[x][l] \in Int
            /\ row[l][x] = q[x] * G[l][x] /\ column[x][l] = w[l] * G[l][x]
        BY <1>2, <2>1, <2>2
    <2>4. \A l \in Labels : rows[l] = w[l] * SumFunctionOnSet(row[l], Profiles)
        OBVIOUS
    <2>5. \A x \in Profiles : columns[x] = q[x] * SumFunctionOnSet(column[x], Labels)
        OBVIOUS
    <2> HIDE DEF row, column, rows, columns
    <2>6. Weighted(Labels, Profiles, w, q, G, row, column, rows, columns)
        BY <2>1, <2>2, <2>3, <2>4, <2>5 DEF Weighted
    <2> QED BY <2>6, ProfilesAreFinite, SumsCommute
<1>6. low \in Int /\ high \in Int
    BY <1>1, GapIs, LeastPriceIs
<1> HIDE DEF rows, columns
<1>7. SumFunctionOnSet(rows, Labels) <= high * Grain
    <2> DEFINE most == [l \in Labels |-> high * w[l]]
    <2>1. ASSUME NEW l \in Labels
          PROVE  /\ most[l] \in Int /\ w[l] \in Int /\ most[l] = high * w[l]
                 /\ rows[l] \in Int /\ rows[l] <= most[l]
        <3>1. w[l] \in Nat /\ RowGain(u, q, l) \in Int /\ RowGain(u, q, l) <= high
            BY <1>1, GapIs
        <3> DEFINE r == RowGain(u, q, l)
        <3>2. most[l] = high * w[l] /\ rows[l] = w[l] * r
            BY <1>3
        <3> HIDE DEF r, high, most
        <3>3. w[l] * r <= high * w[l] /\ w[l] * r \in Int /\ high * w[l] \in Int
            BY <1>6, <3>1 DEF r
        <3> QED BY <3>1, <3>2, <3>3
    <2> HIDE DEF most, high
    <2>2. SumFunctionOnSet(most, Labels) = high * SumFunctionOnSet(w, Labels)
        BY <1>6, <2>1, ProfilesAreFinite, SumOfMultiples
    <2>3. SumFunctionOnSet(rows, Labels) <= SumFunctionOnSet(most, Labels)
        BY <2>1, ProfilesAreFinite, SumIsMonotone
    <2> QED BY <1>1, <2>2, <2>3
<1>8. SumFunctionOnSet(columns, Profiles) >= low * Grain
    <2> DEFINE least == [x \in Profiles |-> low * q[x]]
    <2>1. ASSUME NEW x \in Profiles
          PROVE  /\ least[x] \in Int /\ q[x] \in Int /\ least[x] = low * q[x]
                 /\ columns[x] \in Int /\ least[x] <= columns[x]
        <3>1. q[x] \in Nat /\ Price(u, w, x) \in Int /\ low <= Price(u, w, x)
            BY <1>1, LeastPriceIs
        <3> DEFINE r == Price(u, w, x)
        <3>2. least[x] = low * q[x] /\ columns[x] = q[x] * r
            BY <1>4
        <3> HIDE DEF r, low, least
        <3>3. low * q[x] <= q[x] * r /\ q[x] * r \in Int /\ low * q[x] \in Int
            BY <1>6, <3>1 DEF r
        <3> QED BY <3>1, <3>2, <3>3
    <2> HIDE DEF least, low
    <2>2. SumFunctionOnSet(least, Profiles) = low * SumFunctionOnSet(q, Profiles)
        BY <1>6, <2>1, ProfilesAreFinite, SumOfMultiples
    <2>3. SumFunctionOnSet(least, Profiles) <= SumFunctionOnSet(columns, Profiles)
        BY <2>1, ProfilesAreFinite, SumIsMonotone
    <2>4. /\ SumFunctionOnSet(least, Profiles) \in Int /\ SumFunctionOnSet(columns, Profiles) \in Int
        BY <2>1, ProfilesAreFinite, SumIsInt
    <2> QED BY <1>1, <2>2, <2>3, <2>4
<1> HIDE DEF low, high
<1>9. low * Grain <= high * Grain
    <2>1. low * Grain \in Int /\ high * Grain \in Int
        BY <1>1, <1>6
    <2>2. SumFunctionOnSet(rows, Labels) \in Int
        <3>1. ASSUME NEW l \in Labels PROVE rows[l] \in Int
            <4>1. w[l] \in Nat /\ RowGain(u, q, l) \in Int
                BY <1>1, GapIs
            <4> QED BY <1>3, <4>1
        <3> QED BY <3>1, ProfilesAreFinite, SumIsInt
    <2> QED BY <1>5, <1>7, <1>8, <2>1, <2>2
<1>10. low <= high
    <2> SUFFICES ASSUME low >= high + 1 PROVE FALSE
        BY <1>6
    <2>1. low * Grain >= (high + 1) * Grain
        BY <1>1, <1>6
    <2>2. (high + 1) * Grain = high * Grain + Grain
        BY <1>1, <1>6
    <2>3. low * Grain \in Int /\ high * Grain \in Int
        BY <1>1, <1>6
    <2> QED BY <1>1, <1>9, <2>1, <2>2, <2>3
<1> QED BY <1>10 DEF low, high

\* What is believed of the game: while certified_kkt_cg runs, no gap is below its lower
\* bound; the exhaustive search has a column.
Games == [payoff : Tables, upper : Int, lower : Int, certified : BOOLEAN]

BoundsInv ==
    /\ pc = "complete" => round = 0
    /\ pc = "kkt" => round \in Nat /\ (round # 0 => \A q \in Mixes : game.lower <= Gap(game.payoff, q))
    /\ pc = "phase1" => support # {}

GameInv == game \in Games /\ BoundsInv /\ CertificateIsSound

LEMMA NoGameIsSound == NoGame \in Games /\ ~NoGame.certified
<1>1. [i \in Agents |-> [x \in Profiles |-> 0]] \in Tables
    BY DEF Tables
<1> QED BY <1>1 DEF NoGame, Games

LEMMA PayoffsAreTables == Payoffs \subseteq Tables
<1> QED BY GameAssumption DEF Tables

LEMMA MixIs == ASSUME NEW q \in Mixes PROVE q \in [Profiles -> Nat]
<1> QED BY GameAssumption

LEMMA CompleteKeepsGame == CacheInv /\ GameInv /\ Complete => GameInv'
<1> SUFFICES ASSUME CacheInv, GameInv, Complete PROVE GameInv'
    OBVIOUS
<1>1. PICK u \in Tables : game' = [NoGame EXCEPT !.payoff = u]
    BY PayoffsAreTables DEF Complete
<1>2. game' \in Games /\ ~game'.certified
    BY <1>1, NoGameIsSound DEF Games
<1>3. round' = 0 /\ pc' = ExactStage[solver] /\ solver \in Exact \cup {"T-CARM-Nested"}
    BY DEF Complete, GameInv, BoundsInv, CacheInv, ShapeInv
<1>4. ExactStage[solver] = IF solver = "CertifiedKKT-CG" THEN "kkt"
                           ELSE IF solver = "ExhaustiveCG" THEN "phase1" ELSE "t-carm"
    BY <1>3 DEF ExactStage, Exact
<1>5. pc' = "phase1" => support' # {}
    <2> SUFFICES ASSUME pc' = "phase1" PROVE support' # {}
        OBVIOUS
    <2>1. support' \in random_profiles(1)
        BY <1>3 DEF Complete
    <2> DEFINE n == Cardinality(Profiles)
    <2>2. n \in Nat /\ n # 0
        BY ProfilesAreFinite, FS_CardinalityType, FS_EmptySet
    <2> HIDE DEF n
    <2>3. Min({1, n}) = 1
        BY <2>2, MinOfTwo
    <2>4. Cardinality(support') = 1
        BY <2>1, <2>3 DEF random_profiles, kSubset, n
    <2>5. Cardinality({}) = 0
        BY FS_EmptySet
    <2> QED BY <2>4, <2>5
<1>6. pc' # "complete"
    BY <1>3, <1>4
<1> QED BY <1>2, <1>3, <1>5, <1>6 DEF GameInv, BoundsInv, CertificateIsSound

LEMMA KktRoundKeepsGame == CacheInv /\ GameInv /\ KktRound => GameInv'
<1> SUFFICES ASSUME CacheInv, GameInv, KktRound PROVE GameInv'
    OBVIOUS
<1> DEFINE u == game.payoff
<1>1. /\ pc = "kkt" /\ solver = "CertifiedKKT-CG" /\ solver' = solver /\ round \in Nat /\ round' = round + 1
      /\ game \in Games /\ u \in Tables /\ game.upper \in Int /\ game.lower \in Int
    BY DEF KktRound, CacheInv, ShapeInv, GameInv, BoundsInv, Games
<1>2. PICK q \in Masters(u, support) :
        LET t == Gap(u, q)
            up == IF round = 0 \/ t < game.upper THEN t ELSE game.upper
        IN \E w \in Duals(u, support, t) :
            LET price == LeastPrice(u, w)
                low == IF round = 0 \/ price > game.lower THEN price ELSE game.lower
                proved == price >= t - Tolerance \/ t - low <= Tolerance
            IN game' = [game EXCEPT !.upper = up, !.lower = low,
                                    !.certified = proved /\ up - low <= Tolerance]
    BY Zenon DEF KktRound
<1> DEFINE t == Gap(u, q)
           up == IF round = 0 \/ t < game.upper THEN t ELSE game.upper
<1>3. PICK w \in Duals(u, support, t) :
            LET price == LeastPrice(u, w)
                low == IF round = 0 \/ price > game.lower THEN price ELSE game.lower
                proved == price >= t - Tolerance \/ t - low <= Tolerance
            IN game' = [game EXCEPT !.upper = up, !.lower = low,
                                    !.certified = proved /\ up - low <= Tolerance]
    BY <1>2, Zenon
<1> DEFINE price == LeastPrice(u, w)
           low == IF round = 0 \/ price > game.lower THEN price ELSE game.lower
           b == (price >= t - Tolerance \/ t - low <= Tolerance) /\ up - low <= Tolerance
<1>4. game' = [game EXCEPT !.upper = up, !.lower = low, !.certified = b]
    BY <1>3, Zenon
<1>5. q \in Mixes /\ w \in Weights
    BY DEF Masters, Over, Duals
<1>6. t \in Int /\ price \in Int /\ \A p \in Mixes : Gap(u, p) \in Int /\ price <= Gap(u, p)
    <2>1. w \in [Labels -> Nat]
        BY <1>5, GameAssumption
    <2> QED BY <1>1, <1>5, <2>1, MixIs, GapIs, LeastPriceIs, PricesBoundTheGap
<1>7. b \in BOOLEAN /\ (b => up - low <= Tolerance)
    OBVIOUS
<1>8. up \in Int /\ low \in Int
    BY <1>1, <1>6
<1>9. \A p \in Mixes : low <= Gap(u, p)
    <2>1. round # 0 => \A p \in Mixes : game.lower <= Gap(u, p)
        BY <1>1 DEF GameInv, BoundsInv
    <2> HIDE DEF t, price
    <2> QED BY <1>6, <2>1
<1> HIDE DEF up, low, b
<1>10. /\ game' \in Games /\ game'.payoff = u /\ game'.upper = up /\ game'.lower = low
       /\ game'.certified = b
    BY <1>1, <1>4, <1>7, <1>8 DEF Games
<1>11. BoundsInv'
    <2>1. \A p \in Mixes : game'.lower <= Gap(game'.payoff, p)
        BY <1>9, <1>10
    <2>2. pc' \in {"kkt", "return"} /\ round' \in Nat
        BY <1>1 DEF KktRound, Publish, Return
    <2> QED BY <2>1, <2>2 DEF BoundsInv
<1>12. CertificateIsSound'
    <2> SUFFICES ASSUME b, NEW p \in Mixes PROVE game'.upper <= Tolerance + Gap(game'.payoff, p)
        BY <1>1, <1>10 DEF CertificateIsSound
    <2>1. Tolerance \in Nat /\ Gap(u, p) \in Int
        BY <1>6, GameAssumption
    <2> QED BY <1>7, <1>8, <1>9, <1>10, <2>1
<1> QED BY <1>10, <1>11, <1>12 DEF GameInv

\* The least gap over some columns is that of a distribution on them.
LEMMA LeastGapIs ==
    ASSUME NEW u \in Tables, NEW S \in SUBSET Profiles, S # {}
    PROVE  LeastGap(u, S) \in Int /\ \A q \in Over(S) : LeastGap(u, S) <= Gap(u, q)
<1> DEFINE gaps == [q \in Over(S) |-> Gap(u, q)]
           G == {gaps[q] : q \in Over(S)}
<1>1. Over(S) \subseteq Mixes /\ IsFiniteSet(Over(S))
    BY GameAssumption, FS_Subset DEF Over
<1>2. Over(S) # {}
    <2>1. PICK x \in S : x \in Profiles
        OBVIOUS
    <2> DEFINE pure == [y \in Profiles |-> IF y = x THEN Grain ELSE 0]
    <2>2. pure \in Mixes /\ Carrier(pure) \subseteq S
        BY <2>1, GameAssumption DEF Carrier
    <2> HIDE DEF pure
    <2> QED BY <2>2 DEF Over
<1>3. gaps \in [Over(S) -> Int]
    BY <1>1, MixIs, GapIs
<1>4. LeastGap(u, S) = Min(G)
    BY DEF LeastGap
<1>5. \A q \in Over(S) : gaps[q] = Gap(u, q)
    OBVIOUS
<1> HIDE DEF gaps
<1>6. IsFiniteSet(G) /\ G \subseteq Int /\ G # {} /\ \A q \in Over(S) : gaps[q] \in G
    BY <1>1, <1>2, <1>3, ImageIsFinite
<1> HIDE DEF G
<1>7. Min(G) \in G /\ \A x \in G : Min(G) <= x
    BY <1>6, Least
<1> QED BY <1>4, <1>5, <1>6, <1>7

LEMMA Phase1KeepsGame == CacheInv /\ GameInv /\ Phase1 => GameInv'
<1> SUFFICES ASSUME CacheInv, GameInv, Phase1 PROVE GameInv'
    OBVIOUS
<1> DEFINE u == game.payoff
           all == Epsilon(u, support) > Tolerance
           epsilon(S) == Epsilon(u, S)
<1>1. /\ pc = "phase1" /\ solver = "ExhaustiveCG" /\ solver' = solver
      /\ support \in SUBSET Profiles /\ support # {} /\ game \in Games /\ u \in Tables
    BY DEF Phase1, CacheInv, ShapeInv, GameInv, BoundsInv, Games
<1>2. PICK X \in Relaxed(u) :
        IF X # {} THEN support' = support \cup X /\ UNCHANGED <<pc, game>>
        ELSE /\ support' = IF all THEN Profiles ELSE support
             /\ IF epsilon(support') > Feasible THEN pc' = "raised" /\ UNCHANGED game
                ELSE /\ game' = [game EXCEPT !.upper = epsilon(support'), !.certified = TRUE]
                     /\ pc' = "phase2"
    BY Zenon DEF Phase1
<1>3. CASE X # {}
    <2>1. support' # {} /\ pc' = pc /\ game' = game
        BY <1>2, <1>3
    <2> QED BY <1>1, <2>1 DEF GameInv, BoundsInv, CertificateIsSound
<1>4. CASE X = {} /\ pc' = "raised" /\ game' = game
    BY <1>1, <1>4 DEF GameInv, BoundsInv, CertificateIsSound
<1>5. CASE /\ X = {} /\ pc' = "phase2"
           /\ game' = [game EXCEPT !.upper = epsilon(support'), !.certified = TRUE]
    <2>1. support' = IF all THEN Profiles ELSE support
        BY <1>2, <1>5
    <2> DEFINE up == epsilon(support')
               least(S) == LeastGap(u, S)
    <2>2. \A S \in SUBSET Profiles : S # {} =>
            /\ epsilon(S) \in Int /\ least(S) \in Int /\ epsilon(S) = IF 0 >= least(S) THEN 0 ELSE least(S)
            /\ \A q \in Over(S) : least(S) <= Gap(u, q)
        BY <1>1, LeastGapIs, MaxOfInts DEF Epsilon
    <2>3. \A q \in Mixes : Gap(u, q) \in Int
        BY <1>1, MixIs, GapIs
    <2>4. Over(Profiles) = Mixes
        BY DEF Over, Carrier
    <2>5. all \/ up <= Tolerance
        <3>1. epsilon(support) \in Int /\ Tolerance \in Int
            BY <1>1, <2>2, GameAssumption
        <3> HIDE DEF epsilon
        <3> QED BY <2>1, <3>1 DEF epsilon
    <2> HIDE DEF all, epsilon, least
    <2>6. ASSUME NEW q \in Mixes PROVE up \in Int /\ up <= Tolerance + Max({0, Gap(u, q)})
        <3>1. Tolerance \in Nat /\ Gap(u, q) \in Int
            BY <2>3, GameAssumption
        <3> DEFINE g == Gap(u, q)
        <3>2. Max({0, g}) = IF 0 >= g THEN 0 ELSE g
            BY <3>1, MaxOfInts
        <3> HIDE DEF g
        <3>3. CASE all
            <4>1. support' = Profiles
                BY <2>1, <3>3
            <4>2. /\ up \in Int /\ least(Profiles) \in Int /\ least(Profiles) <= Gap(u, q)
                  /\ up = IF 0 >= least(Profiles) THEN 0 ELSE least(Profiles)
                BY <2>2, <2>4, <4>1, ProfilesAreFinite
            <4> QED BY <3>1, <3>2, <4>2 DEF g
        <3>4. CASE ~all
            <4>1. up \in Int /\ up <= Tolerance
                BY <1>1, <2>1, <2>2, <2>5, <3>4
            <4> QED BY <3>1, <3>2, <4>1 DEF g
        <3> QED BY <3>3, <3>4
    <2>7. up \in Int
        BY <1>1, <2>1, <2>2, ProfilesAreFinite
    <2> HIDE DEF up
    <2>8. game' = [game EXCEPT !.upper = up, !.certified = TRUE]
        BY <1>5 DEF up
    <2>9. game' \in Games /\ game'.payoff = u /\ game'.upper = up
        BY <1>1, <2>7, <2>8 DEF Games
    <2>10. CertificateIsSound'
        BY <1>1, <2>6, <2>9 DEF CertificateIsSound
    <2> QED BY <1>5, <2>9, <2>10 DEF GameInv, BoundsInv
<1> QED BY <1>2, <1>3, <1>4, <1>5

LEMMA TCarmEndsKeepsGame == CacheInv /\ GameInv /\ TCarmEnds => GameInv'
<1> SUFFICES ASSUME CacheInv, GameInv, TCarmEnds PROVE GameInv'
    OBVIOUS
<1> DEFINE u == game.payoff
<1>1. PICK q \in Mixes, w \in Weights : \E low \in OracleValues(u, w) :
        game' = [game EXCEPT !.upper = Gap(u, q), !.lower = low,
                             !.certified = solver = "T-CARM" /\ Gap(u, q) - low <= Tolerance]
    BY Zenon DEF TCarmEnds
<1>2. PICK low \in OracleValues(u, w) :
        game' = [game EXCEPT !.upper = Gap(u, q), !.lower = low,
                             !.certified = solver = "T-CARM" /\ Gap(u, q) - low <= Tolerance]
    BY <1>1
<1> DEFINE up == Gap(u, q)
           b == solver = "T-CARM" /\ up - low <= Tolerance
<1>3. b \in BOOLEAN /\ (b => solver = "T-CARM" /\ up - low <= Tolerance)
    OBVIOUS
<1>4. game' = [game EXCEPT !.upper = up, !.lower = low, !.certified = b] /\ pc' = "audit"
      /\ solver' = solver /\ solver # "ExhaustiveCG"
    BY <1>2 DEF TCarmEnds, CacheInv, ShapeInv
<1>5. u \in Tables /\ game \in Games
    BY DEF GameInv, Games
<1>6. w \in [Labels -> Nat]
    BY GameAssumption
<1>7. up \in Int /\ \A p \in Mixes : Gap(u, p) \in Int
    BY <1>5, MixIs, GapIs
<1>8. low \in Int /\ (solver = "T-CARM" => \A p \in Mixes : low <= Gap(u, p))
    BY <1>5, <1>6, LeastPriceIs, PricesBoundTheGap DEF OracleValues
<1> HIDE DEF up, b
<1>9. game' \in Games /\ game'.payoff = u /\ game'.upper = up /\ game'.certified = b
    BY <1>3, <1>4, <1>5, <1>7, <1>8 DEF Games
<1>10. CertificateIsSound'
    <2> SUFFICES ASSUME b, NEW p \in Mixes PROVE game'.upper <= Tolerance + Gap(game'.payoff, p)
        BY <1>4, <1>9 DEF CertificateIsSound
    <2>1. Tolerance \in Nat /\ Gap(u, p) \in Int
        BY <1>7, GameAssumption
    <2> QED BY <1>3, <1>7, <1>8, <1>9, <2>1
<1> QED BY <1>4, <1>9, <1>10 DEF GameInv, BoundsInv

\* The searches neither know the game nor lead into the exact loops.
LEMMA SearchKeepsGame == GameInv /\ SearchNext /\ UNCHANGED game => GameInv'
<1> SUFFICES ASSUME GameInv, SearchNext, UNCHANGED game PROVE GameInv'
    OBVIOUS
<1>0. SUFFICES pc' \notin {"kkt", "complete", "phase1"} /\ solver' = solver
    BY <1>0 DEF GameInv, BoundsInv, CertificateIsSound
<1> USE DEF Return, Continue, EndOfSearch
<1>1. CASE SadRound
    BY <1>1 DEF SadRound
<1>2. CASE Resample
    BY <1>2 DEF Resample
<1>3. CASE SadDecides
    BY <1>3 DEF SadDecides
<1>4. CASE RepairRound
    BY <1>4 DEF RepairRound
<1>5. CASE RepairFinal
    BY <1>5 DEF RepairFinal
<1>6. CASE PairRound
    BY <1>6 DEF PairRound
<1>7. CASE BeamRound
    BY <1>7 DEF BeamRound
<1>8. CASE HeuristicRound
    BY <1>8 DEF HeuristicRound
<1>9. CASE TraceRound
    BY <1>9 DEF TraceRound
<1>10. CASE WelfareBest \/ SolveOnce \/ Audit
    BY <1>10 DEF WelfareBest, SolveOnce, Audit
<1> QED BY <1>1, <1>2, <1>3, <1>4, <1>5, <1>6, <1>7, <1>8, <1>9, <1>10 DEF SearchNext

LEMMA GameInit == RunsInit => GameInv
<1> QED BY NoGameIsSound DEF RunsInit, GameInv, BoundsInv, CertificateIsSound

LEMMA GameNext == CacheInv /\ GameInv /\ [RunsNext]_runVars => GameInv'
<1> SUFFICES ASSUME CacheInv, GameInv, [RunsNext]_runVars PROVE GameInv'
    OBVIOUS
<1>1. CASE StartSolver \/ OpenCase
    <2>1. game' = NoGame
        BY <1>1 DEF StartSolver, OpenCase
    <2>2. game' \in Games /\ ~game'.certified
        BY <2>1, NoGameIsSound
    <2>3. pc' \notin {"kkt", "phase1"} /\ round' = 0
        <3>1. PICK name, c : Begin(name, c)
            BY <1>1 DEF StartSolver, OpenCase
        <3> QED BY <3>1 DEF Begin, FirstStage
    <2> QED BY <2>2, <2>3 DEF GameInv, BoundsInv, CertificateIsSound
<1>2. CASE Solve
    <2>1. CASE SearchNext /\ UNCHANGED game
        BY <2>1, SearchKeepsGame
    <2>2. CASE TCarmRound
        BY <2>2 DEF TCarmRound, GameInv, BoundsInv, CertificateIsSound
    <2>3. CASE Phase2
        BY <2>3 DEF Phase2, Publish, Return, GameInv, BoundsInv, CertificateIsSound
    <2>4. CASE Complete \/ KktRound \/ Phase1 \/ TCarmEnds
        BY <2>4, CompleteKeepsGame, KktRoundKeepsGame, Phase1KeepsGame, TCarmEndsKeepsGame
    <2> QED BY <1>2, <2>1, <2>2, <2>3, <2>4 DEF Solve, ColumnNext
<1>3. CASE ResumeCase \/ SaveSolverCache \/ WriteCheckpoint \/ TableBatch \/ FinishCase \/ Crash
    <2>1. game' = game /\ solver' = solver
        BY <1>3 DEF ResumeCase, SaveSolverCache, WriteCheckpoint, TableBatch, FinishCase, Crash
    <2>2. pc' \notin {"kkt", "complete", "phase1"}
        BY <1>3 DEF ResumeCase, SaveSolverCache, WriteCheckpoint, TableBatch, FinishCase, Crash
    <2> QED BY <2>1, <2>2 DEF GameInv, BoundsInv, CertificateIsSound
<1>4. CASE UNCHANGED runVars
    BY <1>4 DEF runVars, GameInv, BoundsInv, CertificateIsSound
<1> QED BY <1>1, <1>2, <1>3, <1>4 DEF RunsNext, Finished

\* certified_kkt_cg, t_carm and cg_cce: what is reported as optimal is so up to the
\* tolerance, for any game, any columns in any order, and the bounds along the way: that
\* exact pricing of a dual solution bounds the gap is proved from the gains.
THEOREM CertifiedIsOptimal == RunsSpec => []CertificateIsSound
<1>1. CacheInv /\ GameInv => CertificateIsSound
    BY DEF GameInv
<1>2. RunsInit => CacheInv /\ GameInv
    BY RunsInitInv, GameInit
<1>3. (CacheInv /\ GameInv) /\ [RunsNext]_runVars => (CacheInv /\ GameInv)'
    BY RunsNextInv, GameNext
<1> QED BY <1>1, <1>2, <1>3, PTL DEF RunsSpec

=============================================================================
