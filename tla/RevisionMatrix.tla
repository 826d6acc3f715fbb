---------------------------- MODULE RevisionMatrix ----------------------------
(***************************************************************************)
(* The frozen experiment matrix (src/cmfg_cce/experiments/                 *)
(* revision_full_v1_spec.py): the conceptual units of the design, one for  *)
(* each stage and configuration, and the physical pipelines that are sent  *)
(* to the workers and group units that share their simulations.            *)
(*                                                                         *)
(* A key keeps what distinguishes two jobs and what the plan reads: the    *)
(* game, the family, the stages, and the solvers, selectors and tuning     *)
(* configurations of the job.                                              *)
(***************************************************************************)
EXTENDS Integers, FiniteSets

CONSTANTS
    Mechanisms, Directions,                 \* Directions: pairs <<source, target>>
    SolverSizes, SolverSeeds,
    MixedVariants, MixedSeeds,
    CncConditions, CncSeeds,
    Representative, SensitivitySeeds,       \* conditions of the sensitivity families
    LibrarySizes,                           \* library variant -> number of policies
    Settings, RobustnessSeeds,
    ExactSizes, SparseSizes, SparseMechanisms, ScalabilitySeeds,
    TuningSizes, TuningSeeds, TuningConfigs,
    Selectors

Exact == {"FullTensor-CCE-LP", "ExhaustiveCG-CCE"}
DSS == {"REPAIR-SAD-CCE"}
MWU == {"MWU-PolicyTrace"}
FullBundle == Exact \cup DSS \cup MWU
SparseBundle == DSS \cup MWU
FullAudits == {Exact, MWU, DSS}     \* AUDIT_VARIANT_SOLVERS, by their solvers
SparseAudits == {MWU, DSS}

\* The namespaces of the dynamic seeds, and the namespace each stage draws from.
Offsets == [training |-> 0, mwu_tuning_audit |-> 15000000, formal_audit |-> 20000000,
            outcome_evaluation |-> 30000000, transplant_audit |-> 40000000]
DynamicFields == {"order", "outside", "availability", "tie_break", "rollout_replication"}

\* What the matrix insists on when it is made.
ASSUME MatrixAssumption ==
    /\ SparseMechanisms \subseteq Mechanisms
    /\ Directions \subseteq Mechanisms \X Mechanisms
    /\ \A d \in Directions : d[1] # d[2]
    /\ Representative \subseteq CncConditions
    /\ {"base_a1_a6", "expanded_a1_a8"} \subseteq DOMAIN LibrarySizes
    /\ "base" \in Settings

\* The frozen seeds are small: far less than the distance between two namespaces.
SeedLimit == 1000000
ASSUME SeedAssumption ==
    \A seeds \in {SolverSeeds, MixedSeeds, CncSeeds, SensitivitySeeds, RobustnessSeeds,
                  ScalabilitySeeds, TuningSeeds} : seeds \subseteq 0 .. SeedLimit - 1

\* A size is a pair: agents, policies per agent; every dimension of a job is positive.
Sizes == (Nat \ {0}) \X (Nat \ {0})
ASSUME SizeAssumption ==
    /\ SolverSizes \cup ExactSizes \cup SparseSizes \cup TuningSizes \subseteq Sizes
    /\ LibrarySizes \in [DOMAIN LibrarySizes -> Nat \ {0}]

Game(size, m, s, condition, item, source) ==
    [n |-> size[1], j |-> size[2], mechanism |-> m, seed |-> s,
     condition |-> condition, item |-> item, source |-> source]

Games(sizes, mechanisms, seeds, conditions, items) ==
    {Game(size, m, s, c, i, "none") :
        size \in sizes, m \in mechanisms, s \in seeds, c \in conditions, i \in items}

Key(family, game, stages, solvers) ==
    [family |-> family, game |-> game, stages |-> stages, solvers |-> solvers,
     selectors |-> {}, configs |-> {}, exclusive |-> FALSE]

Jobs(family, games, stages, solvers) ==
    {Key(family, g, stages, solvers) : g \in games}

\* One unit for each game and each of the audits that share it.
AuditJobs(family, games, audits) ==
    {Key(family, g, {"formal_audit"}, a) : g \in games, a \in audits}

Exclusive(keys) == {[k EXCEPT !.exclusive = TRUE] : k \in keys}
WithSelectors(keys, selections) ==
    {[k EXCEPT !.selectors = s] : k \in keys, s \in selections}
WithConfigs(keys, choices) == {[k EXCEPT !.configs = c] : k \in keys, c \in choices}

Evaluate == {"training", "formal_audit", "outcome_evaluation"}

-----------------------------------------------------------------------------
SolverGames == Games(SolverSizes, Mechanisms, SolverSeeds, {"base"}, {"base"})
solver_jobs == Jobs("solver_benchmark", SolverGames, {"training", "formal_audit"}, FullBundle)
solver_formal_audit_jobs == AuditJobs("solver_benchmark_formal", SolverGames, FullAudits)
solver_runtime_jobs ==
    Exclusive(Jobs("solver_benchmark_runtime", SolverGames, {"runtime_measurement"}, FullBundle))

MixedGames == Games({<<4, 6>>}, Mechanisms, MixedSeeds, {"base"}, MixedVariants)
mixed_challenge_jobs ==
    Jobs("mixed_challenge", MixedGames, {"training", "formal_audit"}, FullBundle)
mixed_challenge_formal_audit_jobs == AuditJobs("mixed_challenge_formal", MixedGames, FullAudits)

CncGames == Games({<<4, 6>>}, Mechanisms, CncSeeds, CncConditions, {"base"})
cnc_main_jobs == Jobs("cnc_main", CncGames, Evaluate, DSS)
cnc_formal_audit_jobs == Jobs("cnc_formal", CncGames, {"formal_audit"}, DSS)
cnc_outcome_jobs == Jobs("cnc_outcomes", CncGames, {"outcome_evaluation"}, DSS)

transplant_jobs ==
    Jobs("policy_transplant",
         {Game(<<4, 6>>, d[2], s, c, "base", d[1]) :
             d \in Directions, s \in CncSeeds, c \in CncConditions},
         {"transplant_audit"}, DSS)

LibraryGames ==
    UNION {Games({<<4, LibrarySizes[v]>>}, Mechanisms, SensitivitySeeds, Representative, {v}) :
              v \in DOMAIN LibrarySizes}
policy_library_sensitivity_jobs ==
    [training |-> Jobs("policy_library_sensitivity", LibraryGames, Evaluate, DSS),
     audit |-> Jobs("policy_library_sensitivity_formal", LibraryGames, {"formal_audit"}, DSS),
     evaluation |->
        Jobs("policy_library_sensitivity_outcomes", LibraryGames, {"outcome_evaluation"}, DSS)]

RobustnessGames == Games({<<4, 6>>}, Mechanisms, RobustnessSeeds, Representative, Settings)
parameter_robustness_jobs ==
    [training |-> Jobs("parameter_robustness", RobustnessGames, Evaluate, DSS),
     audit |-> Jobs("parameter_robustness_formal", RobustnessGames, {"formal_audit"}, DSS),
     evaluation |->
        Jobs("parameter_robustness_outcomes", RobustnessGames, {"outcome_evaluation"}, DSS)]

ExactGames == Games(ExactSizes, Mechanisms, ScalabilitySeeds, {"base"}, {"exact"})
exact_scalability_jobs ==
    Jobs("scalability_exact", ExactGames, {"training", "formal_audit"}, FullBundle)
exact_scalability_formal_audit_jobs ==
    AuditJobs("scalability_exact_formal", ExactGames, FullAudits)
exact_scalability_runtime_jobs ==
    Exclusive(Jobs("scalability_exact_runtime", ExactGames, {"runtime_measurement"}, FullBundle))

SparseGames == Games(SparseSizes, SparseMechanisms, ScalabilitySeeds, {"base"}, {"sparse"})
sparse_scalability_jobs ==
    Jobs("scalability_sparse", SparseGames, {"training", "formal_audit"}, SparseBundle)
sparse_scalability_formal_audit_jobs ==
    AuditJobs("scalability_sparse_formal", SparseGames, SparseAudits)
sparse_scalability_runtime_jobs ==
    Exclusive(Jobs("scalability_sparse_runtime", SparseGames, {"runtime_measurement"}, SparseBundle))

TuningGames == Games(TuningSizes, Mechanisms, TuningSeeds, {"base"}, {"tuning"})
mwu_tuning_jobs ==
    WithConfigs(Jobs("mwu_global_tuning", TuningGames, {"training", "mwu_tuning_audit"}, MWU),
                {{c} : c \in TuningConfigs})
mwu_tuning_dss_reference_jobs ==
    Jobs("mwu_tuning_dss_reference", TuningGames, {"training"}, DSS)
mwu_tuning_pipeline_jobs ==
    WithConfigs(
        Exclusive(Jobs("mwu_tuning_pipeline", TuningGames,
                       {"runtime_measurement", "training", "mwu_tuning_audit"}, SparseBundle)),
        {TuningConfigs})

SelectionGames == Games({<<4, 6>>}, Mechanisms, SensitivitySeeds, Representative, {"base"})
selection_sensitivity_jobs ==
    WithSelectors(Jobs("selection_sensitivity", SelectionGames, Evaluate, {"FullTensor-CCE-LP"}),
                  {Selectors})
selection_sensitivity_formal_audit_jobs ==
    WithSelectors(Jobs("selection_sensitivity_formal", SelectionGames, {"formal_audit"},
                       {"FullTensor-CCE-LP"}), {{s} : s \in Selectors})
selection_sensitivity_outcome_jobs ==
    WithSelectors(Jobs("selection_sensitivity_outcomes", SelectionGames, {"outcome_evaluation"},
                       {"FullTensor-CCE-LP"}), {{s} : s \in Selectors})

-----------------------------------------------------------------------------
\* "Every conceptual stage/configuration unit in the frozen design."
all_compute_jobs ==
    mwu_tuning_jobs \cup mwu_tuning_dss_reference_jobs
    \cup solver_jobs \cup solver_formal_audit_jobs \cup solver_runtime_jobs
    \cup mixed_challenge_jobs \cup mixed_challenge_formal_audit_jobs
    \cup cnc_main_jobs \cup cnc_formal_audit_jobs \cup cnc_outcome_jobs
    \cup selection_sensitivity_jobs \cup selection_sensitivity_formal_audit_jobs
    \cup selection_sensitivity_outcome_jobs \cup transplant_jobs
    \cup (UNION {policy_library_sensitivity_jobs[p] : p \in {"training", "audit", "evaluation"}})
    \cup (UNION {parameter_robustness_jobs[p] : p \in {"training", "audit", "evaluation"}})
    \cup exact_scalability_jobs \cup sparse_scalability_jobs
    \cup exact_scalability_formal_audit_jobs \cup sparse_scalability_formal_audit_jobs
    \cup exact_scalability_runtime_jobs \cup sparse_scalability_runtime_jobs

\* Faulty variant: the mixed challenge is forgotten.
physical_jobs_without_mixed ==
    mwu_tuning_pipeline_jobs \cup solver_jobs \cup cnc_main_jobs
    \cup selection_sensitivity_jobs \cup transplant_jobs
    \cup policy_library_sensitivity_jobs["training"] \cup parameter_robustness_jobs["training"]
    \cup exact_scalability_jobs \cup sparse_scalability_jobs
    \cup solver_runtime_jobs \cup exact_scalability_runtime_jobs
    \cup sparse_scalability_runtime_jobs

\* "Worker-level pipelines after grouping shared tables and stages."
physical_jobs ==
    mwu_tuning_pipeline_jobs \cup solver_jobs \cup mixed_challenge_jobs \cup cnc_main_jobs
    \cup selection_sensitivity_jobs \cup transplant_jobs
    \cup policy_library_sensitivity_jobs["training"] \cup parameter_robustness_jobs["training"]
    \cup exact_scalability_jobs \cup sparse_scalability_jobs
    \cup solver_runtime_jobs \cup exact_scalability_runtime_jobs
    \cup sparse_scalability_runtime_jobs
=============================================================================
