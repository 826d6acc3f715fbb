---------------------------- MODULE PayoffCache ----------------------------
(***************************************************************************)
(* The payoff caches of the equilibrium solvers (PayoffCache of            *)
(* evaluation/payoff_cache.py and its twin BackendPayoffCache): estimates  *)
(* of policy profiles by simulation, paired differences between a profile  *)
(* and one deviation from it, and the log of what the current solver asked *)
(* for.  An estimate is the number of its rollouts: two estimates of one   *)
(* profile over the same number of rollouts are equal, because the seeds   *)
(* are fixed, and two over different numbers are not.                      *)
(***************************************************************************)
EXTENDS Naturals, FiniteSets, FiniteSetsExt, Functions

CONSTANTS Agents, Policies,
          NRollouts,    \* rollouts of a first estimate
          MaxRollouts   \* rollouts of a resampled estimate, 0: None

ASSUME CacheAssumption ==
    /\ IsFiniteSet(Agents) /\ Agents # {}
    /\ IsFiniteSet(Policies) /\ Cardinality(Policies) > 1
    /\ NRollouts \in Nat \ {0} /\ MaxRollouts \in Nat

Profiles == [Agents -> Policies]
Labels == Agents \X Policies
Deviation(p, label) == [p EXCEPT ![label[1]] = label[2]]

support_deviation_closure(support) ==
    support \cup {Deviation(p, label) : p \in support, label \in Labels}

\* Labels that change p, and the paired differences of a support.
Deviating(p) == {label \in Labels : p[label[1]] # label[2]}
PairsOf(support) == {pair \in support \X Labels : pair[2] \in Deviating(pair[1])}

\* 0 rollouts: not estimated; 0 requested: not accessed since the reset.
EmptyCache == [rollouts |-> [p \in Profiles |-> 0],
               requested |-> [p \in Profiles |-> 0],
               samples |-> [k \in {} |-> 0]]

Evaluated(c) == {p \in Profiles : c.rollouts[p] > 0}
Accessed(c) == {p \in Profiles : c.requested[p] > 0}
SamplesOf(c, pair) == IF pair \in DOMAIN c.samples THEN c.samples[pair] ELSE 0

reset_access_log(c) == [c EXCEPT !.requested = [p \in Profiles |-> 0]]

record_access(c, profiles, n) ==
    [c EXCEPT !.requested = [p \in Profiles |->
        IF p \in profiles THEN Max({n, @[p]}) ELSE @[p]]]

\* _estimate_profiles_parallel: a new estimate replaces the old one.
Estimate(c, profiles, n) ==
    [c EXCEPT !.rollouts = [p \in Profiles |-> IF p \in profiles THEN n ELSE @[p]]]

\* Faulty variant: what is already in the cache costs nothing.
ensure_unlogged(c, profiles) ==
    Estimate(record_access(c, profiles \ Evaluated(c), NRollouts), profiles \ Evaluated(c), NRollouts)

ensure(c, profiles) ==
    Estimate(record_access(c, profiles, NRollouts), profiles \ Evaluated(c), NRollouts)

resample_many(c, profiles, n) ==
    Estimate(record_access(c, profiles, n), {p \in profiles : c.rollouts[p] < n}, n)

\* ensure_paired_delta_samples of every pair in the set, up to n of it: the episodes
\* of both profiles are logged when a sample is missing, and estimate nothing.
ensure_paired(c, pairs, n) ==
    LET missing == {pair \in pairs : SamplesOf(c, pair) < n[pair]}
        simulated == UNION {{pair[1], Deviation(pair[1], pair[2])} : pair \in missing}
        logged == record_access(c, simulated, NRollouts)
    IN [logged EXCEPT !.samples =
           [pair \in (DOMAIN c.samples) \cup pairs |->
               IF pair \in missing THEN n[pair] ELSE SamplesOf(c, pair)]]
=============================================================================
