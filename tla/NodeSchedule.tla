---------------------------- MODULE NodeSchedule ----------------------------
(***************************************************************************)
(* One campaign node: CampaignWorker.run, _run_slot and the control flow   *)
(* of _run_job and _restore_dependency                                     *)
(* (src/cmfg_cce/orchestration/worker.py).                                 *)
(*                                                                         *)
(* Every slot is a thread that works through its list of jobs in manifest  *)
(* order.  A job holds the resource gate from before it looks for its own  *)
(* completion marker until its last effect, the wait for its dependencies  *)
(* included.  Jobs of other nodes complete by themselves.  The process may *)
(* be killed at any moment (a preempted Spot VM, a stopped container) and  *)
(* start again.  A completion marker is written on the local disk first,   *)
(* where the other slots find it, and then uploaded, which may fail; a     *)
(* restart may find the disk empty.  What a job computes, its chunks and   *)
(* its artifacts are the subject of other modules.                         *)
(***************************************************************************)
EXTENDS ResourceGate, Sequences

CONSTANTS
    Jobs,           \* the jobs of this node, after the family filters
    ForeignJobs,    \* the jobs of other nodes and other waves
    JobList,        \* slot -> sequence of its jobs, in manifest order
    Mode,           \* job -> "bulk" or "exclusive_runtime"
    Deps,           \* job -> set of jobs (depends_on)
    WorkerChunked,  \* jobs whose chunks the worker itself runs one by one
    MayFail,        \* jobs whose command, validation or uploads can raise
    SpotAccounting, \* whether this node keeps a RuntimeLedger
    AlreadyDone,    \* jobs with a marker in the store before the first session
    LosesDisk,      \* whether a restart may find an empty disk (Spot VM)
    Prunes,         \* --prune-completed-local
    GcloudCommand,  \* the store is asked by gcloud: a failing request reads as missing
    MaxSessions     \* bound on the number of process starts

AllJobs == Jobs \cup ForeignJobs
Listed(s) == {JobList[s][i] : i \in DOMAIN JobList[s]}

ASSUME PlanAssumption ==
    /\ Jobs \cap ForeignJobs = {}
    /\ JobList \in [Slots -> Seq(Jobs)]
    /\ \A s, t \in Slots : s # t => Listed(s) \cap Listed(t) = {}
    /\ Jobs = UNION {Listed(s) : s \in Slots}
    /\ Mode \in [Jobs -> {"bulk", "exclusive_runtime"}]
    /\ Deps \in [Jobs -> SUBSET AllJobs]
    /\ {SpotAccounting, LosesDisk, Prunes, GcloudCommand} \subseteq BOOLEAN
    /\ AlreadyDone \subseteq AllJobs
    /\ \A j \in AlreadyDone \cap Jobs : Deps[j] \subseteq AlreadyDone
    /\ MaxSessions \in Nat \ {0}

VARIABLES
    pc,         \* control state of each slot thread
    at,         \* position of each slot in its job list
    stop,       \* self.stop_event
    exhausted,  \* self.ledger.exhausted, as of now
    ledger,     \* whether the checkpointed ledger says so too
    completed,  \* self.completed
    failures,   \* the keys of self.failures
    local,      \* jobs with a job_complete.json on the disk of this node
    remote,     \* jobs with a job_complete.json in the remote store
    lost,       \* jobs whose only marker went with a lost disk (history)
    verdict,    \* how run() ended
    session     \* number of process starts so far

budget == <<exhausted, ledger>>
outcome == <<completed, failures>>
markers == <<local, remote, lost>>
process == <<verdict, session>>
vars == <<gateVars, pc, at, stop, budget, outcome, markers, process>>

InGate == {"bulk_in", "excl_in"}
Holding == {"restore", "deps", "running", "publish",
            "leave_ok", "leave_interrupt", "leave_error"}
Control == {"next", "acquire", "except", "done"} \cup Holding

\* The job a slot is at.
Job(s) == JobList[s][at[s]]

-----------------------------------------------------------------------------
Init ==
    /\ GateInit
    /\ pc = [s \in Slots |-> "next"]
    /\ at = [s \in Slots |-> 1]
    /\ stop = FALSE
    /\ exhausted = FALSE
    /\ ledger = FALSE
    /\ completed = {}
    /\ failures = {}
    /\ local = {} /\ remote = AlreadyDone /\ lost = {}
    /\ verdict = "none"
    /\ session = 1

Goto(s, label) == pc' = [pc EXCEPT ![s] = label]

\* A step of thread s that only moves its control.
Moves(s, from, to) ==
    /\ pc[s] = from
    /\ Goto(s, to)
    /\ UNCHANGED <<gateVars, at, stop, budget, outcome, markers, process>>

\* Head of the for loop of _run_slot: leave when the list is exhausted or the node
\* is stopping, otherwise announce the job as active.
NextJob(s) ==
    Moves(s, "next", IF at[s] > Len(JobList[s]) \/ stop THEN "done" ELSE "acquire")

\* Faulty variant: the resource mode is not read and every job is a bulk job.
AskAsBulk(s) ==
    /\ pc[s] = "acquire"
    /\ AcquireBulk(s)
    /\ Goto(s, IF place'[s] \in InGate THEN "restore" ELSE "acquire")
    /\ UNCHANGED <<at, stop, budget, outcome, markers, process>>

\* with self.resource_gate.acquire(mode).  Nothing in it looks at stop_event.
Ask(s) ==
    /\ pc[s] = "acquire"
    /\ \/ Mode[Job(s)] = "bulk" /\ AcquireBulk(s)
       \/ Mode[Job(s)] = "exclusive_runtime" /\ AcquireExclusive(s)
    /\ Goto(s, IF place'[s] \in InGate THEN "restore" ELSE "acquire")
    /\ UNCHANGED <<at, stop, budget, outcome, markers, process>>

\* Faulty variant: a completed job is pruned without asking the store for its marker.
RestoreAndPruneUnasked(s) ==
    /\ pc[s] = "restore"
    /\ Job(s) \in local \cup remote
    /\ local' = IF Prunes THEN local \ {Job(s)} ELSE local \cup {Job(s)}
    /\ completed' = completed \cup {Job(s)}
    /\ Goto(s, "leave_ok")
    /\ UNCHANGED <<gateVars, at, stop, budget, failures, remote, lost, process>>

\* _restore_completion: a job with a marker, local or downloaded, is not run again, and
\* with pruning its directory goes, marker and all, if the store has the marker.
RestoreCompleted(s) ==
    /\ pc[s] = "restore"
    /\ Job(s) \in local \cup remote
    /\ Prunes => Job(s) \in remote
    /\ local' = IF Prunes THEN local \ {Job(s)} ELSE local \cup {Job(s)}
    /\ completed' = completed \cup {Job(s)}
    /\ Goto(s, "leave_ok")
    /\ UNCHANGED <<gateVars, at, stop, budget, failures, remote, lost, process>>

\* "Refusing to prune": the upload of the marker failed in an earlier session.
PruneRefused(s) ==
    /\ Moves(s, "restore", "leave_error")
    /\ Prunes /\ Job(s) \in local
    /\ Job(s) \notin remote \/ GcloudCommand

\* No marker here, and none that the store shows.
RestoreNothing(s) ==
    /\ Moves(s, "restore", "deps")
    /\ Job(s) \notin local
    /\ Job(s) \notin remote \/ GcloudCommand

\* Dependencies without a marker here or in the store, and those the poll loop may
\* fail to see.  A copy of a marker that an earlier session made adds nothing: it is
\* on the disk that holds its original, or the original is in the store.
MissingDeps(s) == Deps[Job(s)] \ (local \cup remote)
UnseenDeps(s) == IF GcloudCommand THEN Deps[Job(s)] \ local ELSE MissingDeps(s)

\* _prepare_dependencies returns: every dependency has been copied in.
DependenciesReady(s) == Moves(s, "deps", "running") /\ MissingDeps(s) = {}

\* The poll loop sees a dependency missing and stop_event set: InterruptedError.
DependencyStopped(s) ==
    Moves(s, "deps", "leave_interrupt") /\ UnseenDeps(s) # {} /\ stop

\* Faulty variant: the deadline is set anew in every round of the loop.
DeadlineMovesOn(s) ==
    pc[s] = "deps" /\ UnseenDeps(s) # {} /\ ~stop /\ UNCHANGED vars

\* The deadline passes while a dependency is missing: TimeoutError.
DependencyTimeout(s) ==
    Moves(s, "deps", "leave_error") /\ UnseenDeps(s) # {} /\ ~stop

\* The command ran, the artifacts are there and the marker is written on the disk.
WriteMarker(s) ==
    /\ pc[s] = "running"
    /\ local' = local \cup {Job(s)}
    /\ Goto(s, "publish")
    /\ UNCHANGED <<gateVars, at, stop, budget, outcome, remote, lost, process>>

\* The marker is uploaded, the job is complete and, with pruning, its directory goes.
PublishMarker(s) ==
    /\ pc[s] = "publish"
    /\ Job(s) \notin remote
    /\ remote' = remote \cup {Job(s)}
    /\ local' = IF Prunes THEN local \ {Job(s)} ELSE local
    /\ completed' = completed \cup {Job(s)}
    /\ Goto(s, "leave_ok")
    /\ UNCHANGED <<gateVars, at, stop, budget, failures, lost, process>>

\* The upload raises, though the marker may have arrived; a marker that an unseen
\* earlier run left there is a conflict.  Or the job is complete and pruning raises.
PublishRaises(s) ==
    /\ pc[s] = "publish"
    /\ Job(s) \in MayFail \cup remote
    /\ \/ remote' \in {remote, remote \cup {Job(s)}} /\ UNCHANGED completed
       \/ /\ Prunes /\ Job(s) \notin remote
          /\ remote' = remote \cup {Job(s)}
          /\ completed' = completed \cup {Job(s)}
    /\ Goto(s, "leave_error")
    /\ UNCHANGED <<gateVars, at, stop, budget, failures, local, lost, process>>

\* Any exception of _run_job other than InterruptedError.
JobRaises(s) ==
    /\ \E from \in {"restore", "deps", "running"} : Moves(s, from, "leave_error")
    /\ Job(s) \in MayFail

\* The per-chunk loop of a worker-chunked job checks stop_event between chunks.
ChunkLoopStopped(s) ==
    Moves(s, "running", "leave_interrupt") /\ stop /\ Job(s) \in WorkerChunked

AfterLeaving ==
    [leave_ok |-> "next", leave_interrupt |-> "done", leave_error |-> "except"]

\* Faulty variant: the gate is only released when no exception passes through it.
LeaveWithoutFinally(s) ==
    /\ pc[s] \in DOMAIN AfterLeaving
    /\ IF pc[s] = "leave_ok" THEN ReleaseBulk(s) \/ ReleaseExclusive(s)
                             ELSE UNCHANGED gateVars
    /\ Goto(s, AfterLeaving[pc[s]])
    /\ at' = IF pc[s] = "leave_ok" THEN [at EXCEPT ![s] = @ + 1] ELSE at
    /\ UNCHANGED <<stop, budget, outcome, markers, process>>

\* The with block ends, normally or by an exception on its way to the handlers.
Leave(s) ==
    /\ pc[s] \in DOMAIN AfterLeaving
    /\ ReleaseBulk(s) \/ ReleaseExclusive(s)
    /\ Goto(s, AfterLeaving[pc[s]])
    /\ at' = IF pc[s] = "leave_ok" THEN [at EXCEPT ![s] = @ + 1] ELSE at
    /\ UNCHANGED <<stop, budget, outcome, markers, process>>

\* Faulty variant: the failure is recorded but the node goes on.
HandlerWithoutStop(s) ==
    /\ pc[s] = "except"
    /\ failures' = failures \cup {Job(s)}
    /\ Goto(s, "done")
    /\ UNCHANGED <<gateVars, at, stop, budget, completed, markers, process>>

\* except Exception: by now the gate is free again and another slot may have
\* entered it; only here does the failure stop the node.
Handler(s) ==
    /\ pc[s] = "except"
    /\ failures' = failures \cup {Job(s)}
    /\ stop' = TRUE
    /\ Goto(s, "done")
    /\ UNCHANGED <<gateVars, at, budget, completed, markers, process>>

SlotStep(s) ==
    \/ NextJob(s) \/ Ask(s)
    \/ RestoreCompleted(s) \/ PruneRefused(s) \/ RestoreNothing(s)
    \/ DependenciesReady(s) \/ DependencyStopped(s) \/ DependencyTimeout(s)
    \/ WriteMarker(s) \/ PublishMarker(s) \/ PublishRaises(s)
    \/ JobRaises(s) \/ ChunkLoopStopped(s)
    \/ Leave(s) \/ Handler(s)

-----------------------------------------------------------------------------
\* SIGTERM or SIGINT.
Signal ==
    /\ ~stop /\ verdict = "none"
    /\ stop' = TRUE
    /\ UNCHANGED <<gateVars, pc, at, budget, outcome, markers, process>>

\* The node reaches its Spot budget; the running jobs do not notice.
BudgetRunsOut ==
    /\ SpotAccounting /\ ~exhausted /\ verdict = "none"
    /\ exhausted' = TRUE
    /\ UNCHANGED <<gateVars, pc, at, stop, ledger, outcome, markers, process>>

\* The ledger part of _write_heartbeat: checkpoint, then stop if exhausted.
HeartbeatSeesBudget ==
    /\ exhausted /\ ~stop /\ verdict = "none"
    /\ ledger' = TRUE
    /\ stop' = TRUE
    /\ UNCHANGED <<gateVars, pc, at, exhausted, outcome, markers, process>>

\* run() after the last future: one more heartbeat, then the control file.
Conclude ==
    /\ verdict = "none"
    /\ \A s \in Slots : pc[s] = "done"
    /\ verdict' = IF failures # {} THEN "failed"
                  ELSE IF Cardinality(completed) = Cardinality(Jobs) \/ exhausted
                  THEN "complete" ELSE "incomplete"
    /\ ledger' = exhausted
    /\ stop' = (stop \/ exhausted)
    /\ UNCHANGED <<gateVars, pc, at, exhausted, outcome, markers, session>>

\* The process was killed, or ended without node_complete.json, and starts again:
\* everything in memory is new, the budget is what the ledger remembers, and the disk
\* is the old one or an empty one.
Restart ==
    /\ verdict # "complete"
    /\ session < MaxSessions
    /\ session' = session + 1
    /\ activeBulk' = 0
    /\ exclusiveActive' = FALSE
    /\ exclusiveWaiting' = 0
    /\ place' = [s \in Slots |-> "out"]
    /\ pc' = [s \in Slots |-> "next"]
    /\ at' = [s \in Slots |-> 1]
    /\ stop' = FALSE
    /\ exhausted' = ledger
    /\ completed' = {}
    /\ failures' = {}
    /\ verdict' = "none"
    /\ UNCHANGED <<ledger, remote>>
    /\ \/ UNCHANGED <<local, lost>>
       \/ LosesDisk /\ local' = {} /\ lost' = lost \cup (local \ remote)

\* Another node publishes the marker of one of its jobs.
ForeignCompletes ==
    \E j \in ForeignJobs \ remote :
        /\ remote' = remote \cup {j}
        /\ UNCHANGED <<gateVars, pc, at, stop, budget, outcome, local, lost, process>>

\* run() has returned and nothing starts the node again.
Halted == verdict # "none" /\ UNCHANGED vars

Next ==
    \/ \E s \in Slots : SlotStep(s)
    \/ Signal \/ BudgetRunsOut \/ HeartbeatSeesBudget
    \/ Conclude \/ Restart \/ ForeignCompletes \/ Halted

\* Threads are scheduled, commands end, and run() collects its futures.  A
\* dependency that never completes is ended by the deadline of the poll loop.
Fairness ==
    /\ \A s \in Slots : WF_vars(SlotStep(s))
    /\ WF_vars(Conclude)

Spec == Init /\ [][Next]_vars /\ Fairness

-----------------------------------------------------------------------------
TypeOK ==
    /\ GateTypeOK
    /\ pc \in [Slots -> Control]
    /\ \A s \in Slots : at[s] \in 1 .. Len(JobList[s]) + 1
    /\ \A s \in Slots : pc[s] \in Holding <=> place[s] \in InGate
    /\ stop \in BOOLEAN /\ exhausted \in BOOLEAN /\ ledger \in BOOLEAN
    /\ completed \subseteq Jobs /\ failures \subseteq Jobs
    /\ local \subseteq Jobs /\ remote \subseteq AllJobs /\ lost \subseteq Jobs
    /\ verdict \in {"none", "failed", "complete", "incomplete"}
    /\ session \in 1 .. MaxSessions

\* A runtime measurement is not disturbed: from the moment an exclusive job looks for
\* its marker until its last effect, no other slot is anywhere inside a job, whatever
\* exceptions, stops and restarts came before.
MeasuredAlone ==
    \A s, t \in Slots :
        /\ s # t
        /\ pc[s] \in Holding /\ Mode[Job(s)] = "exclusive_runtime"
        => pc[t] \notin Holding

\* A consumer's marker, here or in the store, never stands without those of its
\* dependencies, over failing uploads, pruning and restarts.  The exception is what the
\* code does: a slot may consume a marker that is still only on the disk, and if the
\* disk is lost before that marker reaches the store, the consumer's is left alone.
MarkersAreClosed ==
    \A j \in (local \cup remote) \cap Jobs : Deps[j] \subseteq local \cup remote \cup lost

\* run() only ends with jobs left over when something stopped the node: no path of a
\* slot thread drops a job silently.
StopExplainsGaps ==
    verdict # "none" /\ ~stop => completed = Jobs

\* Every session comes to an end, with deadlines for dependencies but none for jobs
\* in the gate: whatever fails, is stopped or interrupted, no slot waits forever.
Terminates == <>[](verdict # "none")

\* A slot that cannot go on by itself: asleep in the gate, or polling in vain.
Blocked(s) ==
    \/ place[s] \in {"bulk_asleep", "excl_asleep"}
    \/ pc[s] = "deps" /\ MissingDeps(s) # {}

\* The gate alone never stops a node.  A measurement can wait for a bulk job that polls
\* for its marker, because the gate is held during the poll; but wherever every slot
\* that has not ended is blocked, one of them polls, and its deadline ends the wait.
DeadlineEndsDeadlock ==
    (\A s \in Slots : pc[s] = "done" \/ Blocked(s)) /\ (\E s \in Slots : pc[s] # "done")
        => \E s \in Slots : pc[s] = "deps"
=============================================================================
