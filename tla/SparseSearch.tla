--------------------------- MODULE SparseSearch ---------------------------
(***************************************************************************)
(* The solvers that look for a coarse correlated equilibrium without the   *)
(* complete payoff table (solvers/sparse_cce.py, the heuristic column      *)
(* generation of certified_kkt_cg.py, baselines/simple.py).  A solver      *)
(* walks through supports; what it asks of the payoff cache, when it asks  *)
(* again and which estimates its reported gap rests on is modelled, the    *)
(* numbers are not: a linear program may answer with any distribution on   *)
(* its support, any worst deviation and a gap on either side of the        *)
(* target.                                                                 *)
(***************************************************************************)
EXTENDS PayoffCache, Sequences

CONSTANTS InitialSupport, MaxSupport, Batch, MaxRounds, \* solve_sad_sparse
          DssRounds,                                    \* the same of a case study
          ResampleCap,                                  \* most profiles of one active_resample
          RepairRounds, ProfileBudget, NewProfiles,     \* solve_repair_sparse
          PairSamples, PairBatch, PairRounds, TopPairs, \* solve_pair_sparse
          Beam, Quarter,                                \* solve_cg_beam_sparse
          TraceRounds, BurnIn                           \* the no-regret traces

VARIABLES cache, solver, pc, support, result, round, trace

searchVars == <<cache, solver, pc, support, result, round, trace>>

\* The padding loop of expand_by_deviation returns only if there is room.
ASSUME RoomAssumption ==
    /\ BurnIn \in Nat /\ BurnIn < TraceRounds
    /\ InitialSupport \in Nat \ {0} /\ Batch \in Nat \ {0} /\ MaxSupport \in Nat \ {0}
    /\ InitialSupport <= MaxSupport /\ MaxSupport <= ProfileBudget
    /\ Cardinality(Profiles) >= MaxSupport + Batch - 1
    /\ Cardinality(Profiles) >= InitialSupport + 2 * Quarter * MaxRounds

NoResult == [support |-> {}, high |-> FALSE, rollouts |-> [p \in {} |-> 0],
             samples |-> [k \in {} |-> 0]]

\* What a result reports is computed from these estimates.
Snapshot(c, T, read, pairs, h) ==
    [support |-> T, high |-> h,
     rollouts |-> Restrict(c.rollouts, read), samples |-> Restrict(c.samples, pairs)]

\* solve_sparse_support: the support keeps the profiles of positive mass.
Solutions(c, S) ==
    {Snapshot(c, T, support_deviation_closure(S), {}, h) :
        T \in (SUBSET S) \ {{}}, h \in BOOLEAN}

\* audit_sparse_distribution: a frozen distribution is not filtered.
Audits(c, S) == {Snapshot(c, S, support_deviation_closure(S), {}, h) : h \in BOOLEAN}

Reading(S) == ensure(cache, support_deviation_closure(S))

random_profiles(n) == kSubset(Min({n, Cardinality(Profiles)}), Profiles)

Return == pc' = "return"

\* Where REPAIR and PAIR go on from the result of the search they start with.
Continue(stage) ==
    /\ pc' = stage /\ round' = 0
    /\ support' = result'.support /\ UNCHANGED trace

EndOfSearch ==
    CASE solver \in {"REPAIR-SAD", "REPAIR-PAIR-SAD", "DSS"} -> Continue("repair")
      [] solver = "PAIR-SAD" -> Continue("pair")
      [] OTHER -> Return /\ UNCHANGED <<support, round, trace>>

-----------------------------------------------------------------------------
(* solve_sad_sparse.                                                       *)

SadRounds == IF solver = "DSS" THEN DssRounds ELSE MaxRounds

SadRound ==
    /\ pc = "sad"
    /\ cache' = Reading(support)
    /\ result' \in Solutions(cache', support)
    /\ pc' = IF result'.high /\ MaxRollouts > 0 THEN "resample" ELSE "decide"
    /\ UNCHANGED <<solver, support, round, trace>>

\* active_resample: profiles of the support by rank, each with its worst
\* deviation, then a sweep of the deviations of all of them, agent by agent, up to
\* the cap: it is cut within one agent of one profile at most.
ResampledSets(T) ==
    LET ranked == {Q \in SUBSET T : Q # {} /\ 2 * Cardinality(Q) <= ResampleCap}
        top(Q, label) == Q \cup {Deviation(p, label) : p \in Q}
        full(Q) == Q = T \/ 2 * Cardinality(Q) = ResampleCap
        of(E, b) == {e \in E : e[1] = b[1] /\ e[2][1] = b[2]}
        cut(E) == {b \in T \X Agents : Cardinality(of(E, b)) \notin {0, Cardinality(Policies)}}
        swept(n) == {E \in kSubset(Min({n, Cardinality(T \X Labels)}), T \X Labels) :
                        Cardinality(cut(E)) <= 1}
    IN UNION {{top(Q, label) \cup {Deviation(e[1], e[2]) : e \in E} :
                  label \in Labels, E \in swept(ResampleCap - 2 * Cardinality(Q))} :
                      Q \in {Q \in ranked : full(Q)}}

\* Faulty variant: the support is not solved again after a resampling.
ResampleOnly ==
    /\ pc = "resample"
    /\ \E R \in ResampledSets(result.support) : cache' = resample_many(cache, R, MaxRollouts)
    /\ pc' = "decide"
    /\ UNCHANGED <<solver, support, result, round, trace>>

Resample ==
    /\ pc = "resample"
    /\ \E R \in ResampledSets(result.support) :
        LET asked == record_access(cache, R, NRollouts)
            taken == resample_many(asked, R, MaxRollouts)
            changed == \E p \in R : taken.rollouts[p] > cache.rollouts[p]
        IN IF changed
           THEN /\ cache' = ensure(taken, support_deviation_closure(support))
                /\ result' \in Solutions(cache', support)
           ELSE /\ cache' = taken
                /\ UNCHANGED result
    /\ pc' = "decide"
    /\ UNCHANGED <<solver, support, round, trace>>

\* expand_by_deviation: the deviations of the result that are new, then random
\* new profiles; as pairs of the two, the first going first.
Expansions(S, T, n) ==
    LET fresh(label) == {Deviation(p, label) : p \in T} \ S
        by(label) == kSubset(Min({n, Cardinality(fresh(label))}), fresh(label))
    IN UNION {{<<D, P>> : P \in kSubset(n - Cardinality(D), Profiles \ (S \cup D))} :
                  D \in UNION {by(label) : label \in Labels}}

\* support[:max_support_size] keeps the old profiles first.
Truncated(S, grown) ==
    LET room == MaxSupport - Cardinality(S)
        D == grown[1]
        P == grown[2]
    IN IF Cardinality(D) >= room THEN {S \cup X : X \in kSubset(room, D)}
       ELSE {S \cup D \cup X : X \in kSubset(Min({room - Cardinality(D), Cardinality(P)}), P)}

SadStops == ~result.high \/ Cardinality(support) >= MaxSupport

SadDecides ==
    /\ pc = "decide"
    /\ UNCHANGED <<cache, solver, result>>
    /\ \/ SadStops /\ EndOfSearch
       \/ /\ ~SadStops
          /\ \E grown \in Expansions(support, result.support, Batch) :
                IF round + 1 < SadRounds
                THEN /\ pc' = "sad" /\ round' = round + 1
                     /\ support' \in Truncated(support, grown)
                     /\ UNCHANGED trace
                ELSE EndOfSearch

-----------------------------------------------------------------------------
(* solve_repair_sparse.  New profiles replace the policies of one or two   *)
(* agents of a profile of the support.                                     *)

Repaired(T) == support_deviation_closure(support_deviation_closure(T)) \ T

RepairRound ==
    /\ pc = "repair" /\ round < RepairRounds
    /\ cache' = Reading(support)
    /\ \E T \in (SUBSET support) \ {{}}, n \in 0..NewProfiles :
        \E new \in kSubset(n, Repaired(T)) :
            LET slots == ProfileBudget - Cardinality(T) IN
            IF new = {} \/ slots <= 0
            THEN support' = T /\ pc' = "final" /\ UNCHANGED round
            ELSE /\ \E added \in kSubset(Min({slots, n}), new) : support' = T \cup added
                 /\ round' = round + 1
                 /\ pc' = IF Cardinality(support') >= ProfileBudget THEN "final" ELSE pc
    /\ UNCHANGED <<solver, result, trace>>

RepairFinal ==
    /\ \/ pc = "final"
       \/ pc = "repair" /\ round = RepairRounds
    /\ cache' = Reading(support)
    /\ result' \in Solutions(cache', support)
    /\ IF solver = "REPAIR-PAIR-SAD" THEN Continue("pair")
       ELSE Return /\ UNCHANGED <<support, round, trace>>
    /\ UNCHANGED solver

-----------------------------------------------------------------------------
(* solve_pair_sparse: paired differences of the support, and more samples  *)
(* of the pairs that the gap depends on while it is above the target,      *)
(* rounds are left and some profile has enough mass.                       *)

PairRound ==
    /\ pc = "pair"
    /\ LET pairs == PairsOf(support) IN
        /\ \E T \in (SUBSET support) \ {{}}, h \in BOOLEAN :
            LET sampled == record_access(ensure_paired(cache, pairs, [pair \in pairs |-> PairSamples]), support, NRollouts) IN
            /\ result' = Snapshot(sampled, T, support, pairs, h)
            /\ \/ /\ cache' = sampled /\ Return
                  /\ UNCHANGED <<support, round>>
               \/ /\ h /\ round < PairRounds
                  /\ \E more \in UNION {kSubset(n, PairsOf(T)) : n \in 1..TopPairs} :
                        cache' = ensure_paired(sampled, more,
                                     [pair \in more |-> SamplesOf(sampled, pair) + PairBatch])
                  /\ support' = T /\ round' = round + 1
                  /\ UNCHANGED pc
    /\ UNCHANGED <<solver, trace>>

-----------------------------------------------------------------------------
(* solve_cg_beam_sparse: the best of a beam of random candidates and the   *)
(* deviations of the result enter the support; there is no upper bound.    *)

BeamRound ==
    /\ pc = "beam"
    /\ result' \in Solutions(Reading(support), support)
    /\ \E X \in random_profiles(Beam) :
        /\ cache' = ensure(Reading(support), X)
        /\ \E Y \in kSubset(Quarter, X) :
            \E grown \in Expansions(support \cup Y, result'.support, Quarter) :
                support' = support \cup Y \cup grown[1] \cup grown[2]
    /\ round' = round + 1
    /\ pc' = IF round' >= MaxRounds THEN "return" ELSE pc
    /\ UNCHANGED <<solver, trace>>

-----------------------------------------------------------------------------
(* solve_heuristic_kkt_cg_sparse: the restricted master with the smallest  *)
(* gap is kept (in trace) and audited at the end.  The pricing reads, of   *)
(* the support and of a sampled candidate, the rows that have a weight;    *)
(* here one row has.                                                       *)

PricedRows(candidates, label) ==
    {p \in candidates : label \in Deviating(p)} \cup
    {Deviation(p, label) : p \in {p \in candidates : label \in Deviating(p)}}

HeuristicRound ==
    /\ pc = "master"
    /\ trace' \in {support} \cup (IF trace = {} THEN {} ELSE {trace})
    /\ \E x \in Profiles, label \in Labels :
        /\ cache' = ensure(Reading(support), PricedRows(support \cup {x}, label))
        /\ \/ pc' = "audit" /\ UNCHANGED <<support, round>>
           \/ /\ x \notin support /\ Cardinality(support) < MaxSupport
              /\ round + 1 < MaxRounds
              /\ support' = support \cup {x} /\ round' = round + 1
              /\ UNCHANGED pc
    /\ UNCHANGED <<solver, result>>

-----------------------------------------------------------------------------
(* The baselines.  A no-regret round reads the deviations of its profile;  *)
(* the distribution is the trace after the burn-in, and a time-budgeted    *)
(* trace is returned without a gap.                                        *)

TimeBudgeted == {"MWU-time", "RM-time"}
Warming(n) == solver \in {"MWU", "MWU-time"} /\ n < BurnIn

TraceRound ==
    /\ pc = "trace"
    /\ \E p \in Profiles :
        /\ cache' = Reading({p})
        /\ trace' = IF Warming(round) THEN trace ELSE trace \cup {p}
    /\ round' = round + 1
    /\ \/ /\ solver \in TimeBudgeted /\ ~Warming(round)
          /\ result' = Snapshot(cache', trace', trace', {}, FALSE)
          /\ Return
       \/ /\ round' = TraceRounds /\ solver \notin TimeBudgeted
          /\ pc' = "audit" /\ UNCHANGED result
       \/ round' < TraceRounds /\ UNCHANGED <<pc, result>>
    /\ UNCHANGED <<solver, support>>

\* welfare_best_pure: the candidates are estimated, one of them is the best.
WelfareBest ==
    /\ pc = "welfare"
    /\ \E C \in random_profiles(Beam) : \E best \in C :
        /\ cache' = ensure(cache, C)
        /\ trace' = {best}
    /\ pc' = "audit"
    /\ UNCHANGED <<solver, support, result, round>>

\* random_support_cce, vanilla_sampled_cce.
SolveOnce ==
    /\ pc = "once"
    /\ cache' = Reading(support)
    /\ result' \in Solutions(cache', support)
    /\ Return
    /\ UNCHANGED <<solver, support, round, trace>>

Audit ==
    /\ pc = "audit"
    /\ cache' = Reading(trace)
    /\ result' \in Audits(cache', trace)
    /\ Return
    /\ UNCHANGED <<solver, support, round, trace>>

\* The first stage of a solver on the cache c.
FirstStage(name) ==
    CASE name \in {"SAD", "PAIR-SAD", "REPAIR-SAD", "REPAIR-PAIR-SAD", "DSS"} -> "sad"
      [] name = "CG-beam" -> "beam"
      [] name = "HeuristicKKT-CG" -> "master"
      [] name \in {"MWU", "RM"} \cup TimeBudgeted -> "trace"
      [] name = "WelfareBestPure" -> "welfare"
      [] name = "UniformMixture" -> "audit"
      [] name = "RandomSupport" -> "once"
      [] OTHER -> "complete"

Begin(name, c) ==
    /\ cache' = c
    /\ solver' = name /\ pc' = FirstStage(name)
    /\ support' \in IF FirstStage(name) \in {"sad", "beam", "master", "once"}
                    THEN random_profiles(InitialSupport) ELSE {{}}
    /\ trace' \in IF name = "UniformMixture" THEN random_profiles(InitialSupport) ELSE {{}}
    /\ result' = NoResult /\ round' = 0

SearchNext ==
    \/ SadRound \/ Resample \/ SadDecides
    \/ RepairRound \/ RepairFinal \/ PairRound
    \/ BeamRound \/ HeuristicRound
    \/ TraceRound \/ WelfareBest \/ SolveOnce \/ Audit
=============================================================================
