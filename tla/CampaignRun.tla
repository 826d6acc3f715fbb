---------------------------- MODULE CampaignRun ----------------------------
(***************************************************************************)
(* A campaign from its first measurement to its summaries: the runners of  *)
(* RunnerPipelines, and run_reducers (orchestration/revision_reducer_cli)  *)
(* called by hand at any time on what was downloaded so far.               *)
(***************************************************************************)
EXTENDS RunnerPipelines, CampaignReducers

CONSTANTS Requests      \* sets of reducers that may be requested together

ASSUME RequestAssumption == Requests \subseteq SUBSET Families

VARIABLES reports       \* reducer -> the results its written summary stands for
run == <<vars, reports>>

-----------------------------------------------------------------------------
\* discover_revision_results: every result file under the root, by its place; the result
\* of a job is at the place of that job, and some file may be a copy, of another campaign
\* or of a smoke test.
Broken(flaw, job) ==
    CASE flaw = "duplicate" -> With(results, "copy", results[job])
      [] flaw = "rival" -> With(results, "copy", [results[job] EXCEPT !.campaign = "other"])
      [] flaw = "foreign" -> [results EXCEPT ![job].campaign = "other"]
      [] flaw = "smoke" -> [results EXCEPT ![job].smoke = TRUE]

Flaws == {"duplicate", "rival", "foreign", "smoke"}
Discovered == {results} \cup {Broken(flaw, job) : flaw \in Flaws, job \in DOMAIN results}

\* _write_immutable: a summary that is there already must have the same content.
MayWrite(f, found) == f \in DOMAIN reports => reports[f] = Summary(f, found)

Reduce ==
    \E requested \in Requests, found \in Discovered :
        /\ AllAccept(requested, found)
        /\ \A f \in requested : MayWrite(f, found)
        /\ reports' = Merged([f \in requested |-> Summary(f, found)], reports)
        /\ UNCHANGED vars

-----------------------------------------------------------------------------
Init == RunnerInit /\ reports = Nothing
CampaignStep ==
    \/ (RunnerNext \/ BeatNext \/ RestartKeepsDisk \/ RestartLosesDisk) /\ UNCHANGED reports
    \/ Reduce
Ended == (turn > Len(wave) \/ failure # "none") /\ UNCHANGED run
Next == CampaignStep \/ Ended

\* The runner and the heartbeat are not stopped for ever: the heartbeat waits between its
\* rounds, and that is when a runner that is ready to publish gets the lock.
Fairness == SF_run(RunnerNext /\ UNCHANGED reports) /\ WF_run(BeatNext /\ UNCHANGED reports)
Spec == Init /\ [][Next]_run /\ Fairness
-----------------------------------------------------------------------------
\* The jobs that measure time, and those that restore what they measured.
Timed == {"tuning", "runtime", "sparse_runtime", "evidence", "sparse"}

\* MWU is compared with DSS at equal time: in whatever was published, and after any
\* restarts and restores, every MWU run had the time that the published DSS run took
\* (mwu_budget_seconds of run_mwu_tuning_pipeline and _runtime_dss_mwu_pair_attempt).
BudgetIsMeasured ==
    \A j \in Timed \cap DOMAIN results :
        \A l \in {x \in DOMAIN results[j].solvers : IsMwu(x)} :
            results[j].solvers[l].budget = results[j].solvers["dss"].time

\* A job that starts again, on its old host or on a new one, never stumbles over what its
\* earlier sessions left: no dependency is refused, and no plan differs from the one that
\* is there, but where a host is lost while a slow upload had the plan of a later stage
\* overtake an attempt (ImmutableChunkStore write_plan, _load_runtime_q_source).
RestartGoesOn == failure # "none" => failure = "plan" /\ faults = {"disk_lost", "slow_upload"}

\* Arms of the audit a job publishes: a mechanism and the frozen q it is applied to.
Arms(j) ==
    LET q(l) == results[j].solvers[l].q IN
    IF j = "transplant"
    THEN {<<"m1", q("source")>>, <<"m2", q("source")>>, <<"m2", q("target")>>}
    ELSE {<<MechanismOf(j), q(l)>> : l \in DOMAIN results[j].solvers}

\* A published audit has simulated everything its gains are computed from: every q under
\* every mechanism it is judged by, with each agent's every deviation to the policies of
\* that job (build_joint_audit_samples raises KeyError for a profile that is missing).
AuditCovers ==
    \A j \in DOMAIN results \ {"runtime", "sparse_runtime"} :
        \A arm \in Arms(j) : {arm[1]} \X Read(arm[2], PoliciesOf(j)) \subseteq results[j].audited

\* Whatever the schedule of its jobs, a complete campaign satisfies the cross-checks of
\* the reducers: what a reducer demands of two results holds of all that the runners
\* publish.  The benchmark and transplant reducers are BenchmarkReduces and the README's.
CompleteIsReduced ==
    \A f \in Families \ {"benchmark", "transplant"} :
        JobsRead(f) \subseteq DOMAIN results => Accepts(f, results)

\* A written summary stands for the result of each of its jobs, once, and all of one
\* campaign, although the root it was computed from may hold copies, smoke tests and
\* results of another campaign.
ReportsAreWhole ==
    \A f \in DOMAIN reports : \E campaign \in {"this", "other"} :
        reports[f] = {[results[j] EXCEPT !.campaign = campaign] : j \in JobsRead(f)}

\* Whatever is killed, restored from half an upload or measured again, the jobs of a wave
\* are all published in the end: nothing is waited for in vain, and no job fails on what
\* its earlier sessions or the jobs before it left, but where RestartGoesOn says.
WaveEnds == <>(turn > Len(wave) \/ (failure = "plan" /\ faults = {"disk_lost", "slow_upload"}))

\* "Join all 72 fresh audits to their formal empty-cache runtime jobs."
\* (reduce_solver_benchmark_audits): a complete benchmark is accepted.  It is not: the
\* records of the DSS/MWU pair do not say that their cache was empty.
BenchmarkReduces ==
    JobsRead("benchmark") \subseteq DOMAIN results => Accepts("benchmark", results)
=============================================================================
