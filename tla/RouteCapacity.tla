---------------------------- MODULE RouteCapacity ----------------------------
(***************************************************************************)
(* Providers of the route-capacity market (envs/route_capacity.py): groups *)
(* of machines whose rates change, work that outsiders put on them, and    *)
(* reservations of won orders, which hold a workload in every group of the *)
(* route for a number of periods.  An order is [work, due].                *)
(***************************************************************************)
EXTENDS ToyMarket

CONSTANTS Equipment,    \* machines of a provider by group
          MinRate, MaxRate, NominalRate,
          Families      \* workloads by group that an order can have

ASSUME RouteAssumption ==
    /\ MinRate \in Nat \ {0} /\ NominalRate \in Nat /\ MaxRate \in Nat
    /\ MinRate <= NominalRate /\ NominalRate <= MaxRate
    /\ MaxPressure <= PressureUnit
    /\ \A p \in Providers : Equipment[p] \in [DOMAIN Equipment[p] -> Nat]
    /\ \A work \in Families :
          /\ IsFiniteSet(DOMAIN work) /\ work \in [DOMAIN work -> Nat \ {0}]
          /\ \E p \in Providers : DOMAIN work \subseteq DOMAIN Equipment[p]

capabilities(p) == DOMAIN Equipment[p]

initialize_route_state(p) ==
    [rate |-> [g \in capabilities(p) |-> NominalRate],
     pressure |-> [g \in capabilities(p) |-> 0],
     jobs |-> <<>>]

is_capability_feasible(p, order) == DOMAIN order.work \subseteq capabilities(p)

group_capacity(p, s, g) == Equipment[p][g] * s.rate[g]

platform_workload(s, g) ==
    LET held(job) == IF g \in DOMAIN job.work THEN job.work[g] ELSE 0
    IN SumFunction([k \in DOMAIN s.jobs |-> held(s.jobs[k])])

\* Parts of a unit of work, and never negative: a rate may fall under what is
\* reserved.
available_capacity(p, s, g) ==
    Max({0, group_capacity(p, s, g) * (PressureUnit - s.pressure[g])
                - PressureUnit * platform_workload(s, g)})

is_aggregate_capacity_feasible(p, s, order) ==
    /\ is_capability_feasible(p, order)
    /\ SumFunction([g \in DOMAIN order.work |-> available_capacity(p, s, g)])
          >= PressureUnit * SumFunction(order.work)

\* Faulty variant: the sum over the groups of the route is compared.
route_feasible_in_aggregate(p, s, order) == is_aggregate_capacity_feasible(p, s, order)

is_route_capacity_feasible(p, s, order) ==
    /\ is_capability_feasible(p, order)
    /\ \A g \in DOMAIN order.work : available_capacity(p, s, g) >= PressureUnit * order.work[g]

reserve_order(s, order, periods) ==
    [s EXCEPT !.jobs = Append(@, [work |-> order.work, remaining |-> periods])]

advance_reservations(s) == [s EXCEPT !.jobs = Older(@)]

\* update_operating_state: every group of the provider draws once from each of
\* two streams; the noise moves its rate and its pressure within the bounds.
Slots == {s \in Providers \X UNION {capabilities(p) : p \in Providers} : s[2] \in capabilities(s[1])}
RouteNoise == [rate : [Slots -> {-1, 1}], pressure : [Slots -> {-1, 1}]]

Clipped(n, low, high) == Max({low, Min({high, n})})

update_operating_state(p, s, noise) ==
    [s EXCEPT !.rate = [g \in capabilities(p) |-> Clipped(@[g] + noise.rate[<<p, g>>], MinRate, MaxRate)],
              !.pressure = [g \in capabilities(p) |->
                                Clipped(@[g] + noise.pressure[<<p, g>>], 0, MaxPressure)]]

\* The group holds no more than what outsiders leave of it.
RouteFits(p, s, g) ==
    PressureUnit * platform_workload(s, g) <= group_capacity(p, s, g) * (PressureUnit - s.pressure[g])
=============================================================================
