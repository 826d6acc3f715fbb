---------------------------- MODULE CampaignPlan ----------------------------
(***************************************************************************)
(* From the matrix to a campaign manifest that workers may run             *)
(* (src/cmfg_cce/orchestration/manifest_cli.py, manifest.py): the phase    *)
(* and the MWU selection it needs, the assignment of jobs to slots by      *)
(* longest processing time, the dependencies and seeds of each job, and    *)
(* the checks a manifest has to pass when it is built and whenever it is   *)
(* loaded again, the search for dependency cycles step by step.            *)
(*                                                                         *)
(* A hash that is compared is modelled by whether it fits.  What is wrong  *)
(* with the input, if anything is, is chosen at the start ("flaw").        *)
(***************************************************************************)
EXTENDS RevisionMatrix, Sequences, FiniteSetsExt

CONSTANTS LoadedIds, AbsentId   \* the manifests on disk: ids, and one that is no job

VARIABLES
    phase,      \* campaign phase, or "loaded": a manifest read from disk
    selection,  \* the --mwu-selection file
    flaw,       \* what is wrong with the source tree, the command or the file
    stage,      \* how far the command is
    assigned,   \* job -> index of its slot, for the jobs assigned so far
    deps,       \* jobs_by_id[j].depends_on, once the jobs are frozen
    stack,      \* the calls of visit() in progress: the job and what it still has to visit
    visited     \* visited

input == <<phase, selection, flaw>>
search == <<stack, visited>>
vars == <<input, stage, assigned, deps, search>>

Selections == {"absent", "fits", "incomplete", "other_matrix", "bad_hash", "off_grid",
               "other_values", "with_rounds"}
SourceFlaws == {"schema", "hash", "file_missing", "file_changed"}
CommandFlaws == SourceFlaws \cup {"runner_module"}
JobFlaws == {"manifest_schema", "digest", "duplicate_id", "unsafe_job", "chunk_plan",
             "seed_overlap", "job_matrix"}
FileFlaws == {"campaign_hash", "source_hash", "lock_hash", "current_matrix", "dispatcher"}

-----------------------------------------------------------------------------
\* _jobs_for_campaign_phase.
Calibration == {k \in physical_jobs : k.family = "mwu_tuning_pipeline"}
Keys == CASE phase = "all" -> physical_jobs
          [] phase = "calibration" -> Calibration
          [] phase = "formal" -> physical_jobs \ Calibration

\* The design is finite and gives either campaign something to do.
ASSUME PlanAssumption ==
    /\ IsFiniteSet(physical_jobs) /\ IsFiniteSet(LoadedIds)
    /\ Calibration # {} /\ Calibration # physical_jobs

\* Seeds.  The stream of a dynamic field: its base for the game plus the namespace.
CncSeedFamilies == {"cnc_main", "selection_sensitivity", "policy_library_sensitivity",
                    "parameter_robustness", "policy_transplant"}
SeedBase == [order |-> 1000, tie_break |-> 2000, rollout_replication |-> 3000,
             outside |-> 4000, availability |-> 5000]
CncSeedBase == [order |-> 110000, tie_break |-> 220000, rollout_replication |-> 330000,
                outside |-> 440000, availability |-> 550000]
Streams(k, namespace) ==
    LET base == IF k.family \in CncSeedFamilies THEN CncSeedBase ELSE SeedBase IN
    {base[f] + k.game.seed + Offsets[namespace] : f \in DynamicFields}

\* Faulty variant: the audit of a job continues the streams of its training.
NamespaceSharedWithTraining(st) ==
    IF st \in {"runtime_measurement", "formal_audit"} THEN "training" ELSE st

\* namespace_by_stage of _stage_seed_payloads.
NamespaceOf(st) == IF st = "runtime_measurement" THEN "training" ELSE st

\* _audit_seed_namespace: what JobSpec.validate compares with the training streams.
AuditNamespace(k) ==
    IF "transplant_audit" \in k.stages THEN "transplant_audit"
    ELSE IF "mwu_tuning_audit" \in k.stages THEN "mwu_tuning_audit"
    ELSE IF k.stages = {"outcome_evaluation"} THEN "outcome_evaluation"
    ELSE "formal_audit"

\* validate_seed_isolation.
SeedsIsolated(k) == Streams(k, "training") \cap Streams(k, AuditNamespace(k)) = {}

\* _estimate_vcpu_hours, in hundreds of episodes.
AtLeast(low, x) == IF x < low THEN low ELSE x
AtMost(high, x) == IF x > high THEN high ELSE x
EstimatedCost ==
    [k \in physical_jobs |->
        LET n == k.game.n  j == k.game.j
            full == Cardinality([1 .. n -> 1 .. j])   \* j ** n joint profiles
            sparse == AtMost(full, AtLeast(512, 32 * n * j))
            closure == AtMost(full, AtLeast(128, 24 * n * j))
            Part(st, cost) == IF st \in k.stages THEN cost ELSE 0
            training ==
                IF k.family \in {"solver_benchmark", "mixed_challenge", "scalability_exact"}
                THEN full ELSE Part("training", sparse)
            episodes ==
                2 * training + Part("formal_audit", 20 * closure)
                + Part("outcome_evaluation", 5 * AtMost(full, AtLeast(32, 4 * n * j)))
                + Part("transplant_audit", 20 * AtMost(full, 3 * closure))
                + Part("mwu_tuning_audit", 5 * AtMost(full, 17 * closure))
        IN CASE k.family \in {"solver_benchmark_runtime", "scalability_exact_runtime"} ->
                    2 * (2 * full + 2 * sparse)
             [] k.family = "scalability_sparse_runtime" -> 4 * sparse
             [] k.family = "mwu_tuning_pipeline" -> episodes + 34 * sparse
             [] OTHER -> episodes]

-----------------------------------------------------------------------------
\* The slots in the order of their names, and the one that measures.
SlotList == <<<<"gcp-spot", 0>>, <<"gcp-spot", 1>>, <<"gcp-spot", 2>>, <<"gcp-spot", 3>>,
              <<"mac", 0>>, <<"win1", 0>>, <<"win2", 0>>>>
RuntimeSlot == 1
CostOf(keys) == SumFunctionOnSet(EstimatedCost, keys)
Load(i) == CostOf({k \in DOMAIN assigned : assigned[k] = i})

\* One round of _assign_lpt: the most expensive job that is left goes to the least
\* loaded slot it may use.  Equal costs are ordered by job id, which ends in a digest:
\* an arbitrary but fixed order.
NextKey == CHOOSE k \in Keys \ DOMAIN assigned :
              \A o \in Keys \ DOMAIN assigned : EstimatedCost[k] >= EstimatedCost[o]
Eligible(k) == IF k.exclusive THEN {RuntimeSlot} ELSE DOMAIN SlotList

\* Faulty variant: the loads are not updated, every slot looks empty.
LowestSlot(k) == Min(Eligible(k))

LeastLoadedSlot(k) ==
    LET load == [i \in Eligible(k) |-> Load(i)] IN
    CHOOSE i \in Eligible(k) :
        \A o \in Eligible(k) : load[i] < load[o] \/ (load[i] = load[o] /\ i <= o)

AssignNext ==
    /\ stage = "assign" /\ DOMAIN assigned # Keys
    /\ LET k == NextKey IN
       assigned' = [o \in DOMAIN assigned \cup {k} |->
                        IF o = k THEN LeastLoadedSlot(k) ELSE assigned[o]]
    /\ UNCHANGED <<input, stage, deps, search>>

-----------------------------------------------------------------------------
\* The jobs whose results a job reads: the paired runtime job of an evidence job, the
\* main jobs of both mechanisms of a transplant, the base library of the expanded one.
RuntimeFamily == [solver_benchmark |-> "solver_benchmark_runtime",
                  scalability_exact |-> "scalability_exact_runtime",
                  scalability_sparse |-> "scalability_sparse_runtime"]
SameGame(a, b) ==
    /\ a.n = b.n /\ a.j = b.j
    /\ a.mechanism = b.mechanism /\ a.seed = b.seed
Paired(k) == {r \in Keys : k.family \in DOMAIN RuntimeFamily
                           /\ r.family = RuntimeFamily[k.family] /\ SameGame(r.game, k.game)}
Transplanted(k) ==
    {r \in cnc_main_jobs :
        k.family = "policy_transplant"
        /\ r.game.mechanism \in {k.game.source, k.game.mechanism}
        /\ r.game.seed = k.game.seed /\ r.game.condition = k.game.condition}
Expanded(k) ==
    {r \in Keys :
        k.family = "policy_library_sensitivity" /\ k.game.item = "expanded_a1_a8"
        /\ r.family = k.family /\ r.game.item = "base_a1_a6"
        /\ r.game.mechanism = k.game.mechanism /\ r.game.seed = k.game.seed
        /\ r.game.condition = k.game.condition}
DependsOn(k) == Paired(k) \cup Transplanted(k) \cup Expanded(k)
DependencyCount(k) ==
    CASE k.family \in DOMAIN RuntimeFamily -> 1
      [] k.family = "policy_transplant" -> 2
      [] k.family = "policy_library_sensitivity" /\ k.game.item = "expanded_a1_a8" -> 1
      [] OTHER -> 0

\* Source check, runner module, phase and selection: command_build up to _assign_lpt.
\* The formal campaign needs a complete selection of this matrix, no other one may
\* have one.
SelectionFits == IF phase = "formal" THEN selection = "fits" ELSE selection = "absent"

Begin ==
    /\ stage = "begin" /\ phase # "loaded"
    /\ stage' = IF flaw \notin CommandFlaws /\ SelectionFits /\ Keys # {}
                THEN "assign" ELSE "refused"
    /\ UNCHANGED <<input, assigned, deps, search>>

\* The JobSpecs are made, each with its dependencies.
Freeze ==
    /\ stage = "assign" /\ DOMAIN assigned = Keys
    /\ deps' = [k \in Keys |-> DependsOn(k)]
    /\ stage' = IF \A k \in Keys : Cardinality(DependsOn(k)) = DependencyCount(k)
                THEN "check" ELSE "refused"
    /\ UNCHANGED <<input, assigned, search>>

-----------------------------------------------------------------------------
\* CampaignManifest.validate up to the missing dependencies: every job by itself,
\* no id twice, the matrix hash.
JobsValid ==
    /\ flaw \notin JobFlaws
    /\ \A j \in DOMAIN deps : j \notin deps[j] /\ deps[j] \subseteq DOMAIN deps
    /\ phase # "loaded" => \A k \in DOMAIN deps : SeedsIsolated(k)

Check ==
    /\ stage = "check"
    /\ stage' = IF JobsValid THEN "visit" ELSE "refused"
    /\ UNCHANGED <<input, assigned, deps, search>>

Visiting == {stack[i].job : i \in DOMAIN stack}
Call(j) == [job |-> j, left |-> deps[j]]
Top == stack[Len(stack)]

\* The outer loop calls visit for the next job.
VisitRoot ==
    /\ stage = "visit" /\ stack = <<>> /\ visited # DOMAIN deps
    /\ stack' = <<Call(CHOOSE j \in DOMAIN deps : j \notin visited)>>
    /\ UNCHANGED <<input, stage, assigned, deps, visited>>

\* Faulty variant: a job that is being visited counts as visited.
VisitDependencyMarked ==
    /\ stage = "visit" /\ stack # <<>>
    /\ \E d \in Top.left :
        LET rest == [stack EXCEPT ![Len(stack)].left = @ \ {d}] IN
        stack' = IF d \in visited \cup Visiting THEN rest ELSE Append(rest, Call(d))
    /\ UNCHANGED <<input, stage, assigned, deps, visited>>

\* visit goes on to one of the dependencies: it returns at once if that was visited,
\* raises if it is being visited, and calls itself otherwise.
VisitDependency ==
    /\ stage = "visit" /\ stack # <<>>
    /\ \E d \in Top.left :
        LET rest == [stack EXCEPT ![Len(stack)].left = @ \ {d}] IN
        /\ stage' = IF d \in Visiting \ visited THEN "refused" ELSE "visit"
        /\ stack' = IF d \in visited \cup Visiting THEN rest ELSE Append(rest, Call(d))
    /\ UNCHANGED <<input, assigned, deps, visited>>

\* visit returns.
VisitReturns ==
    /\ stage = "visit" /\ stack # <<>> /\ Top.left = {}
    /\ visited' = visited \cup {Top.job}
    /\ stack' = SubSeq(stack, 1, Len(stack) - 1)
    /\ UNCHANGED <<input, stage, assigned, deps>>

\* validate returns; a manifest from disk is then compared with its own hash, with the
\* source, the lock and the current matrix, and must use the dispatcher.
Decide ==
    /\ stage = "visit" /\ stack = <<>> /\ visited = DOMAIN deps
    /\ stage' = IF flaw \in FileFlaws THEN "refused" ELSE "accepted"
    /\ UNCHANGED <<input, assigned, deps, search>>

Ended == stage \in {"accepted", "refused"} /\ UNCHANGED vars

-----------------------------------------------------------------------------
\* A command on the matrix, or on any manifest of the given ids.
InitBuild ==
    /\ phase \in {"all", "calibration", "formal"}
    /\ selection \in Selections
    /\ flaw \in CommandFlaws \cup {"none"}
    /\ stage = "begin"
    /\ deps = <<>>

InitLoad ==
    /\ phase = "loaded"
    /\ selection = "absent"
    /\ flaw \in JobFlaws \cup FileFlaws \cup {"none"}
    /\ stage = "check"
    /\ deps \in [LoadedIds -> SUBSET (LoadedIds \cup {AbsentId})]

Init ==
    /\ InitBuild \/ InitLoad
    /\ assigned = <<>> /\ stack = <<>> /\ visited = {}

Next ==
    \/ Begin \/ AssignNext \/ Freeze \/ Check
    \/ VisitRoot \/ VisitDependency \/ VisitReturns \/ Decide \/ Ended

Spec == Init /\ [][Next]_vars

-----------------------------------------------------------------------------
\* The jobs that can be completed in at most n rounds, each job after its dependencies.
Completable[n \in 0 .. Cardinality(DOMAIN deps)] ==
    IF n = 0 THEN {}
    ELSE LET before == Completable[n - 1]
         IN {j \in DOMAIN deps : deps[j] \subseteq before}

\* A manifest is accepted exactly if nothing is wrong with it and its jobs can be
\* completed in some order: the depth-first search neither misses a cycle, which would
\* leave slots polling for ever, nor takes a diamond for one.
CheckIsExact ==
    stage \in {"accepted", "refused"} =>
        (stage = "accepted" <=>
            /\ flaw = "none"
            /\ phase # "loaded" => SelectionFits
            /\ Completable[Cardinality(DOMAIN deps)] = DOMAIN deps)

\* The streams the stages draw from, over all jobs.
EvidenceStages == {"formal_audit", "outcome_evaluation", "transplant_audit"}
StreamsOf(stages) ==
    UNION {Streams(p[1], NamespaceOf(p[2])) :
              p \in {q \in Keys \X stages : q[2] \in q[1].stages}}

\* "Disjoint deterministic namespaces; calibration streams are never formal evidence"
\* (FormalSeedNamespaces): over a whole accepted plan, no stream of an audit or outcome
\* stage is one that any job trains, measures or tunes with.
EvidenceIsFresh ==
    stage = "accepted" /\ phase # "loaded" =>
        StreamsOf(EvidenceStages)
            \cap StreamsOf({"training", "runtime_measurement", "mwu_tuning_audit"}) = {}

\* The pipeline family that carries the units of a family.
Carrier ==
    [mwu_global_tuning |-> "mwu_tuning_pipeline",
     mwu_tuning_dss_reference |-> "mwu_tuning_pipeline",
     solver_benchmark_formal |-> "solver_benchmark",
     mixed_challenge_formal |-> "mixed_challenge",
     cnc_formal |-> "cnc_main", cnc_outcomes |-> "cnc_main",
     selection_sensitivity_formal |-> "selection_sensitivity",
     selection_sensitivity_outcomes |-> "selection_sensitivity",
     policy_library_sensitivity_formal |-> "policy_library_sensitivity",
     policy_library_sensitivity_outcomes |-> "policy_library_sensitivity",
     parameter_robustness_formal |-> "parameter_robustness",
     parameter_robustness_outcomes |-> "parameter_robustness",
     scalability_exact_formal |-> "scalability_exact",
     scalability_sparse_formal |-> "scalability_sparse"]
Carries(job, unit) ==
    /\ job.family = IF unit.family \in DOMAIN Carrier THEN Carrier[unit.family] ELSE unit.family
    /\ job.game = unit.game
    /\ unit.stages \subseteq job.stages /\ unit.solvers \subseteq job.solvers
    /\ unit.selectors \subseteq job.selectors /\ unit.configs \subseteq job.configs

\* "Worker-level pipelines after grouping shared tables and stages" (physical_jobs):
\* a full campaign gives every unit of the design to exactly one of its jobs, and has no
\* job that carries no unit.
UnitsAreCovered ==
    stage = "accepted" /\ phase = "all" =>
        /\ \A u \in all_compute_jobs : Cardinality({k \in DOMAIN deps : Carries(k, u)}) = 1
        /\ \A k \in DOMAIN deps : \E u \in all_compute_jobs : Carries(k, u)

\* List scheduling keeps the slots even although the measurements are bound to one slot:
\* no slot has more than its share of the work and one job, and the measuring slot at
\* most its measurements on top of that.
NoSlotOverloaded ==
    stage = "check" /\ phase # "loaded" =>
        LET share == CostOf(Keys) \div Len(SlotList)
            longest == Max({EstimatedCost[k] : k \in Keys})
            measured == CostOf({k \in Keys : k.exclusive}) IN
        \A i \in DOMAIN SlotList :
            Load(i) <= share + longest + (IF i = RuntimeSlot THEN measured ELSE 0)
=============================================================================
