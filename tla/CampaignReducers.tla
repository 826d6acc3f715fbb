-------------------------- MODULE CampaignReducers --------------------------
(***************************************************************************)
(* The reducers that turn a downloaded campaign into summaries             *)
(* (src/cmfg_cce/evaluation/revision_campaign_reducers.py, called by       *)
(* orchestration/revision_reducer_cli.py): what each accepts, and which    *)
(* results its summary stands for.                                         *)
(*                                                                         *)
(* A reducer reads result.json files as they are found; a file is a record *)
(* of what it reads of one: the job it names, the campaign, whether it is  *)
(* a smoke test, the mechanism it names (a transplant names two others),   *)
(* the selected tuning configuration, its solvers and the profiles it      *)
(* simulated.  The statistics of accepted results are left out.              *)
(***************************************************************************)
EXTENDS FrozenAudit, Functions

FullBundle == {"full", "cg", "dss", "mwu"}
PairBundle == {"dss", "mwu"}
Selectors == {"platform", "second", "third"}

\* FAMILY_TO_RESULT_FAMILIES: the jobs of every result family a reducer reads, in order.
Reads ==
    [benchmark |-> <<{"evidence"}, {"runtime"}>>,
     cnc |-> <<{"source", "target"}>>,
     transplant |-> <<{"transplant"}>>,
     library |-> <<{"core", "expanded"}>>,
     parameter |-> <<{"nominal", "scaled"}>>,
     selection |-> <<{"selectors"}>>,
     pure_mixed |-> <<{"evidence"}, {"mixed"}>>,
     scalability |-> <<{"sparse"}, {"sparse_runtime"}>>]
Families == DOMAIN Reads
JobsRead(family) == UNION Range(Reads[family])

-----------------------------------------------------------------------------
\* Faulty variant: a smoke test is read as a result.
CompleteWithSmoke(found, expected) ==
    /\ \A i \in DOMAIN found : found[i].job \in expected
    /\ IsInjective([i \in DOMAIN found |-> found[i].job])
    /\ {found[i].job : i \in DOMAIN found} = expected

\* _load_complete_results: every expected job exactly once, each what the frozen matrix
\* says of it, no smoke test, and a single campaign.
Complete(found, expected) ==
    /\ \A i \in DOMAIN found :
        /\ found[i].job \in expected
        /\ found[i].mechanism = MechanismOf(found[i].job)
        /\ ~found[i].smoke
    /\ IsInjective([i \in DOMAIN found |-> found[i].job])
    /\ {found[i].job : i \in DOMAIN found} = expected
    /\ Cardinality({found[i].campaign : i \in DOMAIN found}) = 1

\* The result that was found for a job.
Found(found, job) == found[CHOOSE i \in DOMAIN found : found[i].job = job]

\* _classify: the results of some jobs among all that were found.
Only(found, jobs) == Restrict(found, {i \in DOMAIN found : found[i].job \in jobs})

\* _audit_matrix_from_arrays: a gain for every agent and policy of the library.
AuditIsWhole(r, mechanism, q) == {mechanism} \X Read(q, PoliciesOf(r.job)) \subseteq r.audited

\* The frozen q of a solver, where it was measured and where it was audited.
SameQ(evidence, runtime, solver) ==
    /\ evidence.solvers[solver].q = runtime.solvers[solver].q
    /\ Freezable(evidence.solvers[solver].q, PoliciesOf(evidence.job))

\* paired_dss_mwu: the budget of MWU is the time DSS took.
PairIsMatched(runtime) == runtime.solvers["mwu"].budget = runtime.solvers["dss"].time

\* "Benchmark solver timing attempt violates the empty-cache contract": the record of the
\* solver says so itself.
SolverConfirmsEmptyCache(runtime, solver) == runtime.solvers[solver].confirmed

\* One audited game against its measurement.
BenchmarkCell(evidence, runtime) ==
    /\ evidence.selection = runtime.selection
    /\ DOMAIN evidence.solvers = FullBundle /\ DOMAIN runtime.solvers = FullBundle
    /\ \A s \in FullBundle :
        /\ SameQ(evidence, runtime, s)
        /\ AuditIsWhole(evidence, evidence.mechanism, evidence.solvers[s].q)
        /\ SolverConfirmsEmptyCache(runtime, s)
    /\ PairIsMatched(runtime)

\* reduce_solver_benchmark_audits.  The campaign manifest and the completion markers it
\* also reads are published with the results and agree with them (JobLifecycle).
BenchmarkFits(found) == BenchmarkCell(Found(found, "evidence"), Found(found, "runtime"))

\* reduce_cnc_mechanism_results: every contrast of two mechanisms has both sides.
CncFits(found) ==
    \A job \in {"source", "target"} : Found(found, job).outcomes # {}

\* reduce_policy_transplant_results: the three arms are in the joint sample.
TransplantFits(found) ==
    LET r == Found(found, "transplant") IN
    /\ AuditIsWhole(r, "m1", r.solvers["source"].q)
    /\ AuditIsWhole(r, "m2", r.solvers["source"].q)
    /\ AuditIsWhole(r, "m2", r.solvers["target"].q)

\* reduce_policy_library_sensitivity: the expanded library has the core q audited with
\* its new policies, and every setting has its outcomes.
LibraryFits(found) ==
    LET expanded == Found(found, "expanded") IN
    /\ \A job \in {"core", "expanded"} : Found(found, job).outcomes # {}
    /\ "core" \in DOMAIN expanded.solvers
    /\ AuditIsWhole(expanded, expanded.mechanism, expanded.solvers["core"].q)

\* reduce_parameter_robustness: every setting has its outcomes.
ParameterFits(found) == \A job \in {"nominal", "scaled"} : Found(found, job).outcomes # {}

\* reduce_cce_selection_sensitivity: three selectors of one payoff table.
SelectionFits(found) ==
    LET r == Found(found, "selectors") IN
    /\ DOMAIN r.solvers = Selectors
    /\ \A s \in Selectors :
        r.solvers[s].q \subseteq r.outcomes /\ AuditIsWhole(r, r.mechanism, r.solvers[s].q)

\* reduce_pure_mixed_analysis: the complete table, and four solvers in every game.
PureMixedFits(found) ==
    \A job \in {"evidence", "mixed"} :
        LET r == Found(found, job) IN
        /\ r.trained = Profiles(PoliciesOf(job))
        /\ DOMAIN r.solvers = FullBundle
        /\ \A s \in FullBundle : AuditIsWhole(r, r.mechanism, r.solvers[s].q)

\* reduce_scalability_results: the audited q is the measured one.
ScalabilityFits(found) ==
    LET evidence == Found(found, "sparse")  runtime == Found(found, "sparse_runtime") IN
    /\ DOMAIN evidence.solvers = PairBundle /\ DOMAIN runtime.solvers = PairBundle
    /\ \A s \in PairBundle : SameQ(evidence, runtime, s)

Fits(family, found) ==
    CASE family = "benchmark" -> BenchmarkFits(found)
      [] family = "cnc" -> CncFits(found)
      [] family = "transplant" -> TransplantFits(found)
      [] family = "library" -> LibraryFits(found)
      [] family = "parameter" -> ParameterFits(found)
      [] family = "selection" -> SelectionFits(found)
      [] family = "pure_mixed" -> PureMixedFits(found)
      [] family = "scalability" -> ScalabilityFits(found)

\* A reducer accepts what was found of its families: each complete, all of one campaign,
\* and consistent.
Accepts(family, found) ==
    /\ \A i \in DOMAIN Reads[family] : Complete(Only(found, Reads[family][i]), Reads[family][i])
    /\ Cardinality({r.campaign : r \in Range(Only(found, JobsRead(family)))}) = 1
    /\ Fits(family, found)

\* run_reducers: all the requested reducers, or nothing is written.
AllAccept(requested, found) ==
    /\ \A f \in requested : Accepts(f, found)
    /\ Cardinality({r.campaign : r \in Range(Only(found, UNION {JobsRead(f) : f \in requested}))}) = 1

\* What a summary stands for: the results it was computed from.
Summary(family, found) == {r \in Range(found) : r.job \in JobsRead(family)}
=============================================================================
