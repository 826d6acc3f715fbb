---------------------------- MODULE MCSolverRuns ----------------------------
(* Two agents with three policies each, nine profiles. *)
EXTENDS SolverRuns, TLC
CONSTANTS a1, a2, p1, p2, p3
MCAgents == {a1, a2}
MCPolicies == {p1, p2, p3}
MCMatrices ==
    {<<"REPAIR-PAIR-SAD">>, <<"PAIR-SAD">>, <<"REPAIR-SAD", "RandomSupport">>,
     <<"CG-beam">>, <<"HeuristicKKT-CG">>,
     <<"SAD", "MWU">>, <<"MWU-time", "WelfareBestPure">>, <<"RM", "UniformMixture">>,
     <<"RM-time">>, <<"CertifiedKKT-CG">>, <<"ExhaustiveCG">>, <<"T-CARM">>, <<"T-CARM-Nested">>}
Symmetry == {f @@ g : f \in Permutations(MCAgents), g \in Permutations(MCPolicies)}

\* Distributions in multiples of 1/MCGrain: on the profiles, and on the deviations.
MCGrain == 4
Spread(S, most) ==
    UNION {{S0 @@ [x \in S \ C |-> 0] : S0 \in {f \in [C -> 1..MCGrain] : SumFunction(f) = MCGrain}} :
              C \in UNION {kSubset(n, S) : n \in 1..most}}
MCMixes == Spread(Profiles, 2)
MCWeights == Spread(Labels, 2)

\* One policy dominates; or both agents want to have it, or both not to have it.
Dominates(s) == [i \in Agents |-> [x \in Profiles |-> IF x[i] = s THEN 1 ELSE 0]]
Agree(s) ==
    [i \in Agents |-> [x \in Profiles |-> IF Cardinality({j \in Agents : x[j] = s}) = 1 THEN 0 ELSE 1]]
MCPayoffs == {Dominates(s) : s \in Policies} \cup {Agree(s) : s \in Policies}
=============================================================================
