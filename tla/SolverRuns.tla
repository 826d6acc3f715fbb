----------------------------- MODULE SolverRuns -----------------------------
(***************************************************************************)
(* What the experiments do with the solvers: a matrix runs a list of       *)
(* solvers one after the other on one payoff cache and resets its access   *)
(* log before each (experiments/common.py); a case study runs one solver   *)
(* from an empty cache, then evaluates the complete table, and goes on     *)
(* after a crash from what it has on disk (experiments/run_cnc_case.py).   *)
(***************************************************************************)
EXTENDS ColumnGeneration

CONSTANTS Matrices,        \* lists of solvers that are run on one cache
          CheckpointBatch, \* checkpoint_every_profiles
          MaxCrashes

VARIABLES plan, runs, files, crashes

\* run_solver raises for any other name.
Solvers ==
    {"SAD", "PAIR-SAD", "REPAIR-SAD", "REPAIR-PAIR-SAD", "CG-beam", "HeuristicKKT-CG",
     "MWU", "RM", "MWU-time", "RM-time", "WelfareBestPure", "UniformMixture", "RandomSupport",
     "CertifiedKKT-CG", "ExhaustiveCG", "T-CARM", "T-CARM-Nested"}

ASSUME MatrixAssumption == Matrices \subseteq Seq(Solvers)

runVars == <<cache, solver, pc, support, result, round, trace, game, plan, runs, files, crashes>>

NoFile == [p \in Profiles |-> 0]
NoFiles == [solver |-> NoFile, dss |-> NoResult, complete |-> NoFile]

Case == <<"case">>
InCase == plan = Case

RunsInit ==
    /\ cache = EmptyCache /\ solver = "none" /\ pc = "start"
    /\ support = {} /\ result = NoResult /\ round = 0 /\ trace = {} /\ game = NoGame
    /\ plan \in Matrices \cup {Case}
    /\ runs = 0 /\ files = NoFiles /\ crashes = 0

\* run_sparse_matrix: the next solver of the list, on the cache as it is.
StartSolver ==
    /\ ~InCase /\ pc \in {"start", "return"} /\ plan # <<>>
    /\ Begin(Head(plan), reset_access_log(cache))
    /\ plan' = Tail(plan) /\ runs' = runs + 1 /\ game' = NoGame
    /\ UNCHANGED <<files, crashes>>

Solve ==
    /\ \/ SearchNext /\ UNCHANGED game
       \/ ColumnNext
    /\ UNCHANGED <<plan, runs, files, crashes>>

-----------------------------------------------------------------------------
(* run_one_game.                                                           *)

\* load_backend_cache: the estimates, and no access.
Loaded(file) == [EmptyCache EXCEPT !.rollouts = file]

Checkpointed == files.dss # NoResult

LoadPath == IF files.complete # NoFile THEN files.complete ELSE files.solver

OpenCase ==
    /\ InCase /\ pc = "start" /\ ~Checkpointed
    /\ Begin("DSS", EmptyCache)
    /\ runs' = 1 /\ game' = NoGame
    /\ UNCHANGED <<plan, files, crashes>>

ResumeCase ==
    /\ InCase /\ pc = "start" /\ Checkpointed
    /\ result' = files.dss /\ cache' = Loaded(LoadPath)
    /\ pc' = "table"
    /\ UNCHANGED <<solver, support, round, trace, game, plan, runs, files, crashes>>

SaveSolverCache ==
    /\ InCase /\ pc = "return"
    /\ files' = [files EXCEPT !.solver = cache.rollouts]
    /\ pc' = "checkpoint"
    /\ UNCHANGED <<cache, solver, support, result, round, trace, game, plan, runs, crashes>>

WriteCheckpoint ==
    /\ pc = "checkpoint"
    /\ files' = [files EXCEPT !.dss = result]
    /\ pc' = "table"
    /\ UNCHANGED <<cache, solver, support, result, round, trace, game, plan, runs, crashes>>

\* _ensure_profiles_checkpointed: a batch is estimated and saved.
TableBatch ==
    /\ pc = "table"
    /\ LET missing == Profiles \ Evaluated(cache) IN
       \E B \in kSubset(Min({CheckpointBatch, Cardinality(missing)}), missing) :
          /\ B # {}
          /\ cache' = ensure(cache, B)
          /\ files' = [files EXCEPT !.complete = cache'.rollouts]
    /\ UNCHANGED <<solver, pc, support, result, round, trace, game, plan, runs, crashes>>

FinishCase ==
    /\ pc = "table" /\ Evaluated(cache) = Profiles
    /\ pc' = "audited"
    /\ UNCHANGED <<cache, solver, support, result, round, trace, game, plan, runs, files, crashes>>

Crash ==
    /\ InCase /\ pc \notin {"start", "audited"} /\ crashes < MaxCrashes
    /\ crashes' = crashes + 1
    /\ cache' = EmptyCache /\ result' = NoResult /\ support' = {} /\ trace' = {}
    /\ round' = 0 /\ pc' = "start"
    /\ UNCHANGED <<solver, game, plan, runs, files>>

Finished ==
    /\ \/ pc \in {"audited", "raised"}
       \/ pc = "return" /\ plan = <<>>
    /\ UNCHANGED runVars

RunsNext ==
    \/ StartSolver \/ Solve \/ Finished
    \/ OpenCase \/ ResumeCase \/ SaveSolverCache \/ WriteCheckpoint
    \/ TableBatch \/ FinishCase \/ Crash

RunsSpec == RunsInit /\ [][RunsNext]_runVars

-----------------------------------------------------------------------------

Reported == pc \in {"return", "checkpoint", "table", "audited"}

\* The gap a solver reports was computed from the estimates that are in the
\* cache when it returns, and that the complete-table audit of a case reads
\* later, whatever was resampled in between and however often it crashed.
ResultIsCurrent ==
    Reported =>
        /\ \A p \in DOMAIN result.rollouts : cache.rollouts[p] = result.rollouts[p]
        /\ \A k \in DOMAIN result.samples : cache.samples[k] = result.samples[k]

\* The access log is the price of a solver, on a warm cache as on a cold one:
\* it names every profile the result rests on, at no more rollouts than were
\* simulated, and on a cache that was empty it is what was simulated.
CostIsCounted ==
    pc = "return" =>
        /\ DOMAIN result.rollouts \subseteq Accessed(cache)
        /\ \A p \in Profiles : cache.requested[p] <= cache.rollouts[p]
        /\ runs = 1 => cache.requested = cache.rollouts

=============================================================================
