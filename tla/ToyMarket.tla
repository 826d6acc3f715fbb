----------------------------- MODULE ToyMarket -----------------------------
(***************************************************************************)
(* Providers of the aggregate market (envs/toy.py): one capacity, a queue  *)
(* of platform jobs, and, by the layer of the environment, nothing else    *)
(* ("toy"), an outside pressure ("core") or jobs of outsiders ("full").    *)
(* An order is [needs, work, due].                                         *)
(***************************************************************************)
EXTENDS Integers, FiniteSets, FiniteSetsExt, Sequences, SequencesExt

CONSTANTS Providers,
          Mask,           \* processes of a provider
          Capacity,
          PressureUnit,   \* outside pressure is in parts of the capacity
          MaxPressure,
          ExternalJobs,   \* [work, remaining]: the jobs an outsider brings
          AvailabilityShocks

\* The jobs of the platform and of the outsiders.
ToyJobs == [work : Nat, remaining : Int]

ASSUME ToyAssumption ==
    /\ IsFiniteSet(Providers) /\ Capacity \in [Providers -> Nat]
    /\ PressureUnit \in Nat \ {0} /\ MaxPressure \in Nat
    /\ ExternalJobs \subseteq ToyJobs

ToyState == [available |-> TRUE, pressure |-> 0, queue |-> <<>>, external |-> <<>>]

is_eligible(p, order) == order.needs \subseteq Mask[p]

Load(jobs) == SumFunction([k \in DOMAIN jobs |-> jobs[k].work])

remaining_capacity(p, s) == Capacity[p] - Load(s.queue)

\* In parts of a unit of work.
platform_available_capacity(layer, p, s) ==
    LET left == PressureUnit * remaining_capacity(p, s) IN
    CASE layer = "core" -> Max({0, left - s.pressure * Capacity[p]})
      [] layer = "full" -> Max({0, left - PressureUnit * Load(s.external)})
      [] OTHER -> left

toy_feasible(layer, p, s, order) ==
    /\ s.available /\ is_eligible(p, order)
    /\ platform_available_capacity(layer, p, s) >= PressureUnit * order.work

\* Every job is one period older; the jobs that have no period left are dropped.
Older(jobs) ==
    LET kept[k \in 0 .. Len(jobs)] ==
            IF k = 0 THEN <<>>
            ELSE IF jobs[k].remaining > 1
            THEN Append(kept[k - 1], [jobs[k] EXCEPT !.remaining = @ - 1])
            ELSE kept[k - 1]
    IN kept[Len(jobs)]

advance_queues(s) == [s EXCEPT !.queue = Older(@), !.external = Older(@)]

add_platform_job(s, order, periods) ==
    [s EXCEPT !.queue = Append(@, [work |-> order.work, remaining |-> periods])]

\* update_exogenous_state: a draw for the availability if there are shocks, one
\* for the outsider, and more for the size of what it brings.
ToyNoise(layer) ==
    [available : IF AvailabilityShocks THEN BOOLEAN ELSE {TRUE},
     shock : IF layer = "core" THEN 0..1 ELSE {0},
     jobs : {<<>>} \cup IF layer = "full" THEN {<<j>> : j \in ExternalJobs} ELSE {}]

OutsideDraws(layer, noise) ==
    CASE layer = "core" -> 1 + noise.shock
      [] layer = "full" -> 1 + 2 * Len(noise.jobs)
      [] OTHER -> 0

\* Draws of a period, over all providers.
DrawsOf(layer, noise) == SumFunction([p \in Providers |-> OutsideDraws(layer, noise[p])])

\* The decay of the pressure takes a part of it.
update_exogenous_state(s, layer, noise) ==
    [s EXCEPT !.available = noise.available,
              !.pressure = IF layer = "core" THEN Min({MaxPressure, Max({0, @ - 1}) + 2 * noise.shock})
                           ELSE 0,
              !.external = @ \o noise.jobs]

ToyFits(p, s) == Load(s.queue) <= Capacity[p]
=============================================================================
