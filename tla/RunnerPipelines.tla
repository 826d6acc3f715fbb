--------------------------- MODULE RunnerPipelines ---------------------------
(***************************************************************************)
(* The runners of a campaign (src/cmfg_cce/experiments/                    *)
(* run_revision_mwu_tuning.py, run_revision_full_v1.py,                    *)
(* run_revision_cnc.py, run_revision_transplant.py): one process per job   *)
(* that goes through its measurements and simulation stages, next to a     *)
(* worker whose heartbeat uploads what is committed, on a host that may    *)
(* restart with or without its disk.                                       *)
(*                                                                         *)
(* The jobs of a wave run one after the other, each after its              *)
(* dependencies; jobs of different slots share nothing but published       *)
(* results.  A chunk is written, uploaded and restored in one step each    *)
(* (ChunkStore), the adaptive search of a CNC job is one deterministic     *)
(* stage (AdaptiveTraining), and publication is one step (JobLifecycle).   *)
(***************************************************************************)
EXTENDS FrozenAudit, SequencesExt, FiniteSetsExt

CONSTANTS
    Waves,          \* sequences of jobs; a behaviour runs one of them
    Configs,        \* the tuning configurations, in grid order (that of their identifiers)
    Measured,       \* supports an MWU run may end with: they depend on wall-clock time
    Solved,         \* job -> support its deterministic solvers find
    Times,          \* wall-clock times a DSS run may take
    Gap,            \* support -> <<UCB, nominal>> relative gap in the tuning audit
    OtherRows,      \* configuration -> gaps in the other calibration games
    BlockSize,      \* profiles in a chunk
    FaultSets,      \* sets of what may go wrong: "disk_lost", "slow_upload"
    MaxSessions     \* bound on the process starts of a job

VARIABLES
    wave, faults,
    turn,           \* index of the job in progress
    pos, step,      \* the runner: position in its script, and step of an attempt
    trial,          \* what the attempt in progress has measured so far
    held,           \* label -> frozen distribution with its measurements, in memory
    disk, remote,   \* the state directory of the job, and what is uploaded of it
    beat,           \* the heartbeat: the stage it is at and what it still has to upload
    session, failure,
    selection,      \* the configuration that the calibration selected
    results         \* job -> its published result

runner == <<pos, step, trial, held>>
host == <<wave, faults>>
outcome == <<session, failure>>
published == <<selection, results>>
vars == <<host, turn, runner, disk, remote, beat, outcome, published>>

-----------------------------------------------------------------------------
\* The steps of a runner, in the order of its pipeline function.
Attempt(key) == [do |-> "attempt", on |-> key]
Stage(stage) == [do |-> "stage", on |-> stage]
Load == [do |-> "load", on |-> ""]
Solve == [do |-> "solve", on |-> ""]

TuningScript ==
    [i \in 1 .. (Len(Configs) + 2) |->
        CASE i = 1 -> Attempt("dss")
          [] i = Len(Configs) + 2 -> Stage("mwu_tuning_audit")
          [] OTHER -> Attempt(Configs[i - 1])]
\* A benchmark game has exact solvers next to the DSS/MWU pair, a large game only the pair.
RuntimeScript(exact) ==
    IF exact THEN <<Attempt("pair"), Attempt("full"), Attempt("cg")>> ELSE <<Attempt("pair")>>
\* The complete table comes before the restored q; a large game simulates only what the
\* restored q needs; a mixed-challenge game is solved by the job itself.
EvidenceScript(family) ==
    CASE family = "benchmark" -> <<Stage("training"), Load, Stage("formal_audit")>>
      [] family = "sparse" -> <<Load, Stage("training"), Stage("formal_audit")>>
      [] family = "mixed" -> <<Stage("training"), Solve, Stage("formal_audit")>>
CncScript ==
    <<Stage("training"), Solve, Stage("formal_audit"), Stage("outcome_evaluation")>>
\* A job with the expanded library also has the q of the core library.
ExpandedScript ==
    <<Stage("training"), Solve, Load, Stage("formal_audit"), Stage("outcome_evaluation")>>
TransplantScript == <<Load, Stage("transplant_audit")>>

Script ==
    [tuning |-> TuningScript,
     runtime |-> RuntimeScript(TRUE), sparse_runtime |-> RuntimeScript(FALSE),
     evidence |-> EvidenceScript("benchmark"), sparse |-> EvidenceScript("sparse"),
     mixed |-> EvidenceScript("mixed"),
     source |-> CncScript, target |-> CncScript, core |-> CncScript,
     nominal |-> CncScript, scaled |-> CncScript, selectors |-> CncScript,
     expanded |-> ExpandedScript, transplant |-> TransplantScript]

Jobs == DOMAIN Script

\* The jobs whose results a job loads.
Dependencies(j) ==
    CASE j = "evidence" -> {"runtime"}
      [] j = "sparse" -> {"sparse_runtime"}
      [] j = "transplant" -> {"source", "target"}
      [] j = "expanded" -> {"core"}
      [] OTHER -> {}

ASSUME WaveAssumption ==
    \A w \in Waves :
        /\ w \in Seq(Jobs) /\ IsInjective(w)
        /\ \A i \in DOMAIN w : Dependencies(w[i]) \subseteq {w[k] : k \in 1 .. (i - 1)}

ASSUME ConfigAssumption ==
    /\ Configs \in Seq(STRING) /\ Configs # <<>> /\ IsInjective(Configs)
    /\ Range(Configs) \cap {"dss", "mwu", "pair", "full", "cg", "none"} = {}

ASSUME FaultAssumption == FaultSets \subseteq SUBSET {"disk_lost", "slow_upload"}

\* A solver returns a distribution over profiles of its game.
ASSUME SolverAssumption ==
    /\ \A q \in Measured : Freezable(q, Core)
    /\ \A j \in Jobs \ {"evidence", "sparse", "transplant"} :
        j \in DOMAIN Solved /\ Freezable(Solved[j], PoliciesOf(j))

Job == wave[turn]
Active == turn <= Len(wave) /\ failure = "none"
Now == Script[Job][pos]
At(do) == Active /\ pos <= Len(Script[Job]) /\ Now.do = do

\* Labels of the distributions an attempt measures, in order: the pair is DSS, then MWU
\* with the time DSS took.
Parts(key) == IF key = "pair" THEN <<"dss", "mwu">> ELSE <<key>>
IsMwu(label) == label \notin {"dss", "full", "cg"}

\* Labels of the distributions a job solves for itself.
SolvedLabels(j) ==
    CASE j = "mixed" -> {"full", "cg", "dss", "mwu"}
      [] j = "selectors" -> {"platform", "second", "third"}
      [] OTHER -> {"platform"}

\* Faulty variant: the worker synchronizes the last stage first.
StagesReversed(j) == IF j = "tuning" THEN <<"mwu_tuning_audit", "training">> ELSE <<>>

\* The stages of a job whose chunks the worker synchronizes, in the order of the manifest.
StagesOf(j) ==
    CASE j \in {"runtime", "sparse_runtime"} -> <<>>
      [] j = "tuning" -> <<"training", "mwu_tuning_audit">>
      [] j = "transplant" -> <<"transplant_audit">>
      [] j \in {"evidence", "sparse", "mixed"} -> <<"training", "formal_audit">>
      [] OTHER -> <<"training", "formal_audit", "outcome_evaluation">>
AllStages ==
    {"training", "mwu_tuning_audit", "formal_audit", "outcome_evaluation", "transplant_audit"}
AuditStages == {"mwu_tuning_audit", "formal_audit", "transplant_audit"}

-----------------------------------------------------------------------------
\* Plans: the tagged profiles <<mechanism, profile>> a stage simulates.
Supports(h) == {h[l].q : l \in DOMAIN h}

\* TaggedMechanismAuditChunks: the source q is audited under both mechanisms.
Entries(source, target) ==
    ({"m1"} \X frozen_closure({source}, Core)) \cup ({"m2"} \X frozen_closure({source, target}, Core))

\* The complete table; but a large game has only its closure trained.
TrainingPlan(j, h) ==
    IF j = "sparse" THEN frozen_closure(Supports(h), PoliciesOf(j)) ELSE Profiles(PoliciesOf(j))
\* _run_formal_audit: one shared closure of all the frozen q of the job.
AuditPlan(j, h) == frozen_closure(Supports(h), PoliciesOf(j))
\* _run_outcomes: the supports alone.
OutcomePlan(h) == UNION Supports(h)

Plan(j, stage, h) ==
    CASE stage = "transplant_audit" -> Entries(h["source"].q, h["target"].q)
      [] stage = "outcome_evaluation" -> {MechanismOf(j)} \X OutcomePlan(h)
      [] stage = "training" -> {MechanismOf(j)} \X TrainingPlan(j, h)
      [] OTHER -> {MechanismOf(j)} \X AuditPlan(j, h)

BlocksOf(plan) == 1 .. ((Cardinality(plan) + BlockSize - 1) \div BlockSize)

-----------------------------------------------------------------------------
Nothing == [x \in {} |-> {}]
EmptyStore ==
    [chunks |-> Nothing, plans |-> [s \in AllStages |-> {}], blocks |-> [s \in AllStages |-> {}]]
NoAttempts == [k \in {} |-> <<>>]
EmptyDisk == [store |-> EmptyStore, attempts |-> NoAttempts]
Idle == [at |-> 0, todo |-> {}]

RunnerInit ==
    /\ wave \in Waves /\ faults \in FaultSets
    /\ turn = 1
    /\ pos = 1 /\ step = "look" /\ trial = Nothing /\ held = Nothing
    /\ disk = EmptyDisk /\ remote = EmptyStore /\ beat = Idle
    /\ session = 1 /\ failure = "none"
    /\ selection = IF "tuning" \in Range(wave) THEN "none" ELSE Configs[1]
    /\ results = Nothing

\* A quick heartbeat is over before the runner takes its next step.
MayRun == beat.at = 0 \/ "slow_upload" \in faults

Holds(payload) ==
    /\ held' = Merged(payload, held)
    /\ pos' = pos + 1 /\ step' = "look" /\ trial' = Nothing

Keeps == UNCHANGED <<host, turn, remote, beat, outcome, published>>

\* Directories of attempts: how many were made, and which of them are completed.
Made(key) == IF key \in DOMAIN disk.attempts THEN disk.attempts[key] ELSE <<>>
Completed(key) == {i \in DOMAIN Made(key) : Made(key)[i] # Nothing}
WithAttempts(key, made) == [disk EXCEPT !.attempts = With(@, key, made)]

\* The runtime pipelines read the frozen selection before they do anything.
SelectionLoaded == Job \in {"runtime", "sparse_runtime"} => selection # "none"

\* A completed attempt in a directory of this disk.
FoundOnDisk(key) == Completed(key) # {}

\* _run_atomic_attempt and _atomic_runtime_attempt: an attempt in a valid chunk, else the
\* completed one on disk, else a new directory.
Restored(key) == key \in DOMAIN disk.store.chunks
TakeRestored ==
    /\ At("attempt") /\ MayRun /\ step = "look" /\ Restored(Now.on)
    /\ Holds(disk.store.chunks[Now.on])
    /\ UNCHANGED disk /\ Keeps

TakeCompleted ==
    /\ At("attempt") /\ MayRun /\ step = "look" /\ ~Restored(Now.on) /\ FoundOnDisk(Now.on)
    /\ trial' = Made(Now.on)[Min(Completed(Now.on))] /\ step' = "commit"
    /\ UNCHANGED <<pos, held, disk>> /\ Keeps

StartAttempt ==
    /\ At("attempt") /\ MayRun /\ step = "look" /\ ~Restored(Now.on) /\ ~FoundOnDisk(Now.on)
    /\ SelectionLoaded
    /\ disk' = WithAttempts(Now.on, Append(Made(Now.on), Nothing))
    /\ trial' = Nothing /\ step' = "measure"
    /\ UNCHANGED <<pos, held>> /\ Keeps

\* MWU from an empty cache reaches what it can in the time DSS took.
MwuRun(budget) == {[q |-> q, time |-> 0, budget |-> budget, confirmed |-> FALSE] : q \in Measured}
\* DSS from an empty cache: its q does not depend on its time.
DssRun == {[q |-> Solved[Job], time |-> t, budget |-> 0, confirmed |-> FALSE] : t \in Times}
\* An exact solver, in an attempt whose payload says that its cache was empty.
ExactRun == {[q |-> Solved[Job], time |-> 0, budget |-> 0, confirmed |-> TRUE]}
Measurement(label) ==
    CASE IsMwu(label) -> MwuRun(Merged(trial, held)["dss"].time)
      [] label = "dss" -> DssRun
      [] OTHER -> ExactRun

Measure ==
    /\ At("attempt") /\ MayRun /\ step = "measure"
    /\ \E i \in DOMAIN Parts(Now.on) :
        LET label == Parts(Now.on)[i] IN
        /\ label \notin DOMAIN trial
        /\ \A k \in 1 .. (i - 1) : Parts(Now.on)[k] \in DOMAIN trial
        /\ \E m \in Measurement(label) : trial' = With(trial, label, m)
    /\ UNCHANGED <<pos, step, held, disk>> /\ Keeps

\* attempt_complete.json, written when everything is measured.
CompleteAttempt ==
    /\ At("attempt") /\ MayRun /\ step = "measure"
    /\ Range(Parts(Now.on)) = DOMAIN trial
    /\ disk' = WithAttempts(Now.on, [Made(Now.on) EXCEPT ![Len(Made(Now.on))] = trial])
    /\ step' = "commit"
    /\ UNCHANGED <<pos, trial, held>> /\ Keeps

\* The tuning pipeline also commits the attempt as a chunk; the other attempts stay local.
CommitAttempt ==
    /\ At("attempt") /\ MayRun /\ step = "commit"
    /\ disk' = IF Job = "tuning" THEN [disk EXCEPT !.store.chunks = With(@, Now.on, trial)]
               ELSE disk
    /\ Holds(trial)
    /\ Keeps

-----------------------------------------------------------------------------
\* Faulty variant: the evidence job solves for q again.
FromResultsResolved ==
    [l \in SolvedLabels("mixed") |->
        [q |-> Solved["mixed"], time |-> 0, budget |-> 0, confirmed |-> FALSE]]

\* _load_runtime_q_source: the q of every solver, with the time of DSS and the budget of
\* MWU, if they fit and the same tuning configuration was selected.
Source == IF Job = "evidence" THEN "runtime" ELSE "sparse_runtime"
RuntimeQ == results[Source].solvers
RuntimeFits ==
    RuntimeQ["mwu"].budget = RuntimeQ["dss"].time /\ results[Source].selection = selection
\* _load_dependency_payloads: one q from each mechanism.
TransplantQ ==
    [source |-> results["source"].solvers["platform"],
     target |-> results["target"].solvers["platform"]]
\* _load_core_dependency: the q of the core library, next to the job's own.
CoreQ == With(held, "core", results["core"].solvers["platform"])

FromResults ==
    CASE Job \in {"evidence", "sparse"} -> RuntimeQ
      [] Job = "transplant" -> TransplantQ
      [] OTHER -> CoreQ
Refused ==
    \/ Job \in {"evidence", "sparse"} /\ ~RuntimeFits
    \/ \E l \in DOMAIN FromResults : ~Freezable(FromResults[l].q, PoliciesOf(Job))

LoadDependencies ==
    /\ At("load") /\ MayRun
    /\ IF Refused THEN failure' = "dependency" /\ UNCHANGED runner
       ELSE Holds(FromResults) /\ UNCHANGED failure
    /\ UNCHANGED <<host, turn, disk, remote, beat, session, published>>

\* Solvers that do not measure time: on the complete table, or on the adaptive one.
SolveTraining ==
    /\ At("solve") /\ MayRun
    /\ Holds([l \in SolvedLabels(Job) |->
                 [q |-> Solved[Job], time |-> 0, budget |-> 0, confirmed |-> FALSE]])
    /\ UNCHANGED disk /\ Keeps

\* The plan of a stage is written once; another plan on disk is refused.
WritePlan ==
    /\ At("stage") /\ MayRun /\ step = "look"
    /\ LET plan == Plan(Job, Now.on, held)  old == disk.store.plans[Now.on] IN
       IF old \in {{}, plan}
       THEN disk' = [disk EXCEPT !.store.plans[Now.on] = plan] /\ step' = "blocks"
            /\ UNCHANGED failure
       ELSE failure' = "plan" /\ UNCHANGED <<disk, step>>
    /\ UNCHANGED <<pos, trial, held, host, turn, remote, beat, session, published>>

\* Faulty variant: a last chunk that is not full is never pending.
PendingWhole(stage) ==
    (1 .. Cardinality(disk.store.plans[stage]) \div BlockSize) \ disk.store.blocks[stage]

\* Chunks of the plan that are not there.
Pending(stage) == BlocksOf(disk.store.plans[stage]) \ disk.store.blocks[stage]

\* evaluate_pending: the first of them.
EvaluateBlock ==
    /\ At("stage") /\ MayRun /\ step = "blocks"
    /\ Pending(Now.on) # {}
    /\ disk' = [disk EXCEPT !.store.blocks[Now.on] = @ \cup {Min(Pending(Now.on))}]
    /\ UNCHANGED runner /\ Keeps

\* validate_complete, when nothing is pending: it raises if a chunk of the plan is missing.
StageEnds ==
    /\ At("stage") /\ MayRun /\ step = "blocks"
    /\ Pending(Now.on) = {}
    /\ IF BlocksOf(disk.store.plans[Now.on]) \subseteq disk.store.blocks[Now.on]
       THEN pos' = pos + 1 /\ step' = "look" /\ UNCHANGED failure
       ELSE failure' = "incomplete" /\ UNCHANGED <<pos, step>>
    /\ UNCHANGED <<trial, held, disk, host, turn, remote, beat, session, published>>

-----------------------------------------------------------------------------
\* The heartbeat: for each stage in turn its plan, then the chunks it lists, by their
\* index; an attempt of the tuning pipeline is the chunk of its place in the script.
KeyAt(i) == Script["tuning"][i].on
InAttempts(stage) == stage = "training" /\ Job = "tuning"
Fresh(stage) ==
    IF InAttempts(stage)
    THEN {i \in DOMAIN Script["tuning"] : KeyAt(i) \in DOMAIN disk.store.chunks \ DOMAIN remote.chunks}
    ELSE disk.store.blocks[stage] \ remote.blocks[stage]

BeatStage ==
    /\ Active /\ beat.todo = {}
    /\ IF beat.at = Len(StagesOf(Job)) THEN beat.at # 0 /\ beat' = Idle /\ UNCHANGED remote
       ELSE LET stage == StagesOf(Job)[beat.at + 1] IN
            /\ beat' = [at |-> beat.at + 1, todo |-> Fresh(stage)]
            /\ remote' = [remote EXCEPT !.plans[stage] = disk.store.plans[stage]]
    /\ UNCHANGED <<host, turn, runner, disk, outcome, published>>

Upload(item) ==
    LET stage == StagesOf(Job)[beat.at] IN
    /\ Active
    /\ beat' = [beat EXCEPT !.todo = @ \ {item}]
    /\ remote' = IF InAttempts(stage)
                 THEN [remote EXCEPT !.chunks = With(@, KeyAt(item), disk.store.chunks[KeyAt(item)])]
                 ELSE [remote EXCEPT !.blocks[stage] = @ \cup {item}]
    /\ UNCHANGED <<host, turn, runner, disk, outcome, published>>

\* Faulty variant: the chunks of a stage are uploaded in no particular order.
UploadAny == \E item \in beat.todo : Upload(item)

UploadNext == beat.todo # {} /\ Upload(Min(beat.todo))

\* The process starts again, from the first step of its script; a new host has what was
\* uploaded and no attempt directories.
Restart ==
    /\ Active /\ session < MaxSessions
    /\ session' = session + 1
    /\ pos' = 1 /\ step' = "look" /\ trial' = Nothing /\ held' = Nothing
    /\ beat' = Idle
    /\ UNCHANGED <<host, turn, failure, remote, published>>
RestartKeepsDisk == Restart /\ UNCHANGED disk
RestartLosesDisk ==
    Restart /\ "disk_lost" \in faults /\ disk' = [EmptyDisk EXCEPT !.store = remote]

-----------------------------------------------------------------------------
\* result.json: only what a later job, the selection or a reducer reads.
Simulated(stages) == {entry[2] : entry \in UNION {disk.store.plans[s] : s \in stages}}
Result ==
    [job |-> Job, campaign |-> "this", smoke |-> FALSE,
     mechanism |-> IF Job = "transplant" THEN "none" ELSE MechanismOf(Job),
     solvers |-> held, selection |-> selection,
     audited |-> UNION {disk.store.plans[s] : s \in AuditStages},
     trained |-> Simulated({"training"}), outcomes |-> Simulated({"outcome_evaluation"})]

Finished == Active /\ pos > Len(Script[Job])

\* The result is written, everything is uploaded, the marker is published.
Publish ==
    /\ Finished /\ beat.at = 0
    /\ results' = With(results, Job, Result)
    /\ turn' = turn + 1 /\ session' = 1
    /\ pos' = 1 /\ step' = "look" /\ trial' = Nothing /\ held' = Nothing
    /\ disk' = EmptyDisk /\ remote' = EmptyStore /\ beat' = Idle
    /\ UNCHANGED <<host, failure, selection>>

\* select_global_mwu_config: mean UCB, then the worst one, then the mean nominal gap,
\* then the identifier.
Score(c) ==
    LET own == Gap[results["tuning"].solvers[c].q]  other == OtherRows[c] IN
    <<own[1] + other[1], IF own[1] > other[1] THEN own[1] ELSE other[1], own[2] + other[2]>>
Better(c, d) ==
    \E i \in 1 .. 3 : Score(c)[i] < Score(d)[i] /\ \A k \in 1 .. (i - 1) : Score(c)[k] = Score(d)[k]

\* mwu_selection_cli, run by hand when all calibration games are published.
Select ==
    /\ "tuning" \in DOMAIN results /\ selection = "none"
    /\ selection' = Configs[CHOOSE i \in DOMAIN Configs :
                               \A k \in DOMAIN Configs :
                                   /\ ~Better(Configs[k], Configs[i])
                                   /\ k < i => Better(Configs[i], Configs[k])]
    /\ UNCHANGED <<host, turn, runner, disk, remote, beat, outcome, results>>

RunnerNext ==
    \/ TakeRestored \/ TakeCompleted \/ StartAttempt \/ Measure \/ CompleteAttempt \/ CommitAttempt
    \/ LoadDependencies \/ SolveTraining \/ WritePlan \/ EvaluateBlock \/ StageEnds \/ Publish \/ Select
BeatNext == BeatStage \/ UploadNext
=============================================================================
