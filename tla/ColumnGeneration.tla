-------------------------- MODULE ColumnGeneration --------------------------
(***************************************************************************)
(* The solvers that claim optimality (certified_kkt_cg.py, t_carm.py,      *)
(* cg_cce.py), on a game that is known completely.  Its payoffs are        *)
(* integers, a distribution gives every profile, and a dual solution gives *)
(* every deviation, a multiple of 1/Grain; so a gap, a price and the       *)
(* tolerance are numbers of 1/Grain.  A linear program is solved exactly;  *)
(* that a dual solution bounds what the program did not look at is not     *)
(* assumed, it is what the pricing has to find out.                        *)
(***************************************************************************)
EXTENDS SparseSearch, Integers

CONSTANTS Payoffs,       \* the games: payoffs of an agent at a profile
          Grain,
          Mixes,         \* distributions on the profiles
          Weights,       \* distributions on the deviations
          Tolerance,     \* tolerance, target_gap
          Feasible,      \* epsilon that phase 1 of cg_cce.py accepts at last, max(1.0e-6, tolerance)
          PricingBatch   \* columns that enter at once, cg_cce.py

ASSUME GameAssumption ==
    /\ Payoffs \subseteq [Agents -> [Profiles -> Int]]
    /\ Grain \in Nat \ {0} /\ Tolerance \in Nat /\ PricingBatch \in Nat \ {0}
    /\ Feasible \in Nat /\ Feasible >= Tolerance
    /\ Mixes \subseteq [Profiles -> Nat] /\ \A q \in Mixes : SumFunction(q) = Grain
    /\ IsFiniteSet(Mixes)
    /\ \A x \in Profiles : [y \in Profiles |-> IF y = x THEN Grain ELSE 0] \in Mixes
    /\ Weights \subseteq [Labels -> Nat] /\ \A w \in Weights : SumFunction(w) = Grain

VARIABLE game

solverVars == <<cache, solver, pc, support, result, round, trace, game>>

NoGame == [payoff |-> [i \in Agents |-> [x \in Profiles |-> 0]],
           upper |-> 0, lower |-> 0, certified |-> FALSE]

Exact == {"CertifiedKKT-CG", "T-CARM", "ExhaustiveCG"}
ExactStage == [name \in Exact \cup {"T-CARM-Nested"} |->
    CASE name = "CertifiedKKT-CG" -> "kkt"
      [] name = "ExhaustiveCG" -> "phase1"
      [] OTHER -> "t-carm"]

-----------------------------------------------------------------------------
\* deviation_rows: what the agent of a label wins at x by its deviation.
Gain(u, x, l) == u[l[1]][Deviation(x, l)] - u[l[1]][x]

\* The greatest gain of a deviation from a distribution.
RowGain(u, q, l) == SumFunction([x \in Profiles |-> q[x] * Gain(u, x, l)])
Gap(u, q) == Max({RowGain(u, q, l) : l \in Labels})

\* Faulty variant: the pricing looks at the neighbours of the support only.
LocalCandidates == support_deviation_closure(support)

\* The price of a profile under row weights, and the least one (_exact_pricing).
Price(u, w, x) == SumFunction([l \in Labels |-> w[l] * Gain(u, x, l)])
Candidates == Profiles
LeastPrice(u, w) == Min({Price(u, w, x) : x \in Candidates})

\* The restricted master over the columns S: the distributions of the least gap, and the
\* weights under which no column of S has a smaller price.
Carrier(q) == {x \in Profiles : q[x] > 0}
Over(S) == {q \in Mixes : Carrier(q) \subseteq S}
LeastGap(u, S) == Min({Gap(u, q) : q \in Over(S)})
Masters(u, S) == LET least == LeastGap(u, S) IN {q \in Over(S) : Gap(u, q) = least}
Duals(u, S, t) == {w \in Weights : \A x \in S : Price(u, w, x) >= t}

-----------------------------------------------------------------------------
\* empirical_game_from_cache, and the complete profile space of exact T-CARM.
Complete ==
    /\ pc = "complete"
    /\ cache' = IF solver \in Exact THEN ensure(cache, Profiles) ELSE cache
    /\ pc' = ExactStage[solver]
    /\ support' \in IF ExactStage[solver] = "t-carm" THEN {{}} ELSE random_profiles(1)
    /\ \E u \in Payoffs : game' = [NoGame EXCEPT !.payoff = u]
    /\ UNCHANGED <<solver, result, round, trace>>

Publish(T) ==
    /\ \E h \in BOOLEAN : result' = Snapshot(cache, T, Profiles, {}, h)
    /\ Return

\* run_certified_kkt_cg_trace: the support of the best master so far is in trace.  The
\* profile of the least price is new, since those of the support cost t or more.
KktRound ==
    /\ pc = "kkt" /\ round < Cardinality(Profiles) + 5
    /\ \E q \in Masters(game.payoff, support) :
        LET t == Gap(game.payoff, q)
            better == round = 0 \/ t < game.upper
            up == IF better THEN t ELSE game.upper
        IN
        /\ trace' = IF better THEN Carrier(q) ELSE trace
        /\ \E w \in Duals(game.payoff, support, t) :
            LET price == LeastPrice(game.payoff, w)
                low == IF round = 0 \/ price > game.lower THEN price ELSE game.lower
                proved == price >= t - Tolerance \/ t - low <= Tolerance
            IN /\ game' = [game EXCEPT !.upper = up, !.lower = low,
                                       !.certified = proved /\ up - low <= Tolerance]
               /\ IF proved THEN Publish(trace') /\ UNCHANGED support
                  ELSE /\ \E x \in Candidates \ support :
                             /\ Price(game.payoff, w, x) = price
                             /\ support' = support \cup {x}
                       /\ UNCHANGED <<result, pc>>
    /\ round' = round + 1
    /\ UNCHANGED <<cache, solver>>

\* _solve_relaxed_master: epsilon is not negative, and the weights vanish where that binds.
Epsilon(u, S) == Max({0, LeastGap(u, S)})

\* _price_exhaustively: of the columns outside that cost less, the cheapest.
Entering(u, w, t) ==
    LET cheap == {x \in Profiles \ support : Price(u, w, x) < t - Tolerance} IN
    {X \in kSubset(Min({PricingBatch, Cardinality(cheap)}), cheap) :
        \A x \in X, y \in cheap \ X : Price(u, w, x) <= Price(u, w, y)}
Relaxed(u) ==
    LET t == LeastGap(u, support) IN
    (IF t <= 0 THEN {{}} ELSE {}) \cup
    (IF t >= 0 THEN UNION {Entering(u, w, t) : w \in Duals(u, support, t)} ELSE {})

\* solve_cg_cce_exhaustive, first the smallest gap: when no column enters and it is above
\* the tolerance, all the profiles are tried.
Phase1 ==
    /\ pc = "phase1"
    /\ \E X \in Relaxed(game.payoff) :
        IF X # {} THEN support' = support \cup X /\ UNCHANGED <<pc, game>>
        ELSE LET all == Epsilon(game.payoff, support) > Tolerance IN
             /\ support' = IF all THEN Profiles ELSE support
             /\ LET epsilon == Epsilon(game.payoff, support') IN
                IF epsilon > Feasible THEN pc' = "raised" /\ UNCHANGED game
                ELSE /\ game' = [game EXCEPT !.upper = epsilon, !.certified = TRUE]
                     /\ pc' = "phase2"
    /\ UNCHANGED <<cache, solver, result, round, trace>>

\* Then the best objective at that gap: the objectives and the columns that enter for them
\* are left out, any distribution of that gap may be the best.
Phase2 ==
    /\ pc = "phase2"
    /\ \E q \in Mixes : Gap(game.payoff, q) <= game.upper /\ Publish(Carrier(q))
    /\ UNCHANGED <<cache, solver, support, round, trace, game>>

\* solve_t_carm_from_payoff: every iteration generates a profile.
TCarmRound ==
    /\ pc = "t-carm" /\ round < TraceRounds
    /\ \E p, x \in Profiles :
        /\ cache' = IF solver \in Exact THEN Reading({p}) ELSE Reading({p, x})
        /\ trace' = trace \cup {p}
    /\ round' = round + 1
    /\ UNCHANGED <<solver, pc, support, result, game>>

\* What the oracle says of the averaged row weights: the nested one is a local search.
OracleValues(u, w) ==
    IF solver = "T-CARM" THEN {LeastPrice(u, w)} ELSE {Price(u, w, x) : x \in Profiles}

\* The distribution is that of the generated profiles; the weights are those of regret
\* matching, here any.
TCarmEnds ==
    /\ pc = "t-carm" /\ round = TraceRounds
    /\ \E q \in Mixes, w \in Weights :
        /\ Carrier(q) = trace
        /\ \E low \in OracleValues(game.payoff, w) :
            LET up == Gap(game.payoff, q) IN
            game' = [game EXCEPT !.upper = up, !.lower = low,
                                 !.certified = solver = "T-CARM" /\ up - low <= Tolerance]
    /\ pc' = "audit"
    /\ UNCHANGED <<cache, solver, support, result, round, trace>>

ColumnNext == Complete \/ KktRound \/ Phase1 \/ Phase2 \/ TCarmRound \/ TCarmEnds

-----------------------------------------------------------------------------
\* What is reported as optimal is optimal: no distribution over the profiles of the game,
\* whatever columns the solver has seen, has a gap that is smaller by more than the
\* tolerance; a gap below 0 counts as 0 for the exhaustive solver (certified_kkt_cg.py,
\* t_carm.py, cg_cce.py).
CertificateIsSound ==
    game.certified =>
        \A q \in Mixes :
            game.upper <= Tolerance + IF solver = "ExhaustiveCG" THEN Max({0, Gap(game.payoff, q)})
                                      ELSE Gap(game.payoff, q)
=============================================================================
