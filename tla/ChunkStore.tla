------------------------------ MODULE ChunkStore ------------------------------
(***************************************************************************)
(* The chunks of one runner-managed job, file by file: the runner process  *)
(* commits them (ImmutableChunkStore.commit,                               *)
(* src/cmfg_cce/orchestration/chunks.py), the heartbeat thread copies them *)
(* to the remote store while the runner goes on, and the worker restores   *)
(* them after a restart (_restore_one_runner_plan_and_chunks,              *)
(* _sync_runner_managed_job and _run_job of                                *)
(* src/cmfg_cce/orchestration/worker.py).                                  *)
(*                                                                         *)
(* A chunk is a payload file (.npz) and a record file (.json) that names   *)
(* the payload's digest.  Payloads are deterministic, so one is there      *)
(* or not; a record also carries its creation time and so differs between  *)
(* two commits of the same chunk: it is the session it was written         *)
(* in.  The remote store refuses to overwrite an object with other content *)
(* and may fail to answer; through the gcloud command a failing describe   *)
(* request reads as a missing object.                                      *)
(***************************************************************************)
EXTENDS Naturals, FiniteSets

CONSTANTS
    N,              \* number of chunks of the frozen plan
    GcloudCommand,  \* the store is asked by gcloud: a failing request reads as missing
    MaxSessions     \* bound on the number of process starts

ASSUME ChunkAssumption ==
    /\ N \in Nat \ {0} /\ MaxSessions \in Nat \ {0}
    /\ GcloudCommand \in BOOLEAN

Chunks == 1 .. N
Sessions == 1 .. MaxSessions
Files == {"absent", "good"}
NoRecord == 0
DamagedRecord == MaxSessions + 1
RecordFiles == {NoRecord, DamagedRecord} \cup Sessions

VARIABLES
    plan, remotePlan,               \* chunk_plan.json here and in the remote store
    payload, record,                \* the local files of every chunk
    remotePayload, remoteRecord,    \* their remote objects
    cached,     \* self._uploaded_runner_chunks: record known to be uploaded
    unseen,     \* chunks whose remote copy a restore took for missing (history)
    worker,     \* phase of the slot thread that runs the job
    wc,         \* the chunk the slot thread is at
    runner,     \* control state of the runner process
    rc,         \* the chunk the runner is at
    beat,       \* control state of a heartbeat's synchronization
    queue,      \* chunks that synchronization still has to upload
    session

local == <<plan, payload, record>>
remote == <<remotePlan, remotePayload, remoteRecord>>
workerVars == <<worker, wc>>
runnerVars == <<runner, rc>>
beatVars == <<beat, queue>>
vars == <<local, remote, cached, unseen, workerVars, runnerVars, beatVars, session>>

\* ImmutableChunkStore.status: the record names the digest of the payload.
Valid(c) == payload[c] = "good" /\ record[c] \in Sessions
Missing(c) == payload[c] = "absent" /\ record[c] = NoRecord
Corrupt(c) == ~Valid(c) /\ ~Missing(c)

\* Lowest chunk of a set; N + 1 stands for the end of a loop over the chunks.
First(S) == IF S = {} THEN N + 1 ELSE CHOOSE c \in S : \A d \in S : c <= d

Init ==
    /\ plan = FALSE /\ remotePlan = FALSE
    /\ payload = [c \in Chunks |-> "absent"]
    /\ record = [c \in Chunks |-> NoRecord]
    /\ remotePayload = [c \in Chunks |-> "absent"]
    /\ remoteRecord = [c \in Chunks |-> NoRecord]
    /\ cached = [c \in Chunks |-> NoRecord] /\ unseen = {}
    /\ worker = "restore_plan" /\ wc = 1
    /\ runner = "off" /\ rc = 1
    /\ beat = "idle" /\ queue = {}
    /\ session = 1

-----------------------------------------------------------------------------
\* Restoring, before the command and once more after it.

AfterRestore == IF worker = "restore_again" THEN "sync" ELSE "command"

\* Chunks of S that are in the store and not here.
Overlooked(S) == {c \in S : ~Valid(c) /\ remoteRecord[c] # NoRecord}

\* Download the frozen plan if there is none here; without one nothing is restored.
RestorePlan ==
    /\ worker = "restore_plan"
    /\ \/ plan' = (plan \/ remotePlan) /\ UNCHANGED unseen
       \/ GcloudCommand /\ ~plan /\ UNCHANGED plan /\ unseen' = unseen \cup Overlooked(Chunks)
    /\ worker' = IF plan' THEN "restore" ELSE "command"
    /\ wc' = 1
    /\ UNCHANGED <<payload, record, remote, cached, runnerVars, beatVars, session>>

Restoring == worker \in {"restore", "restore_again"} /\ wc <= N

\* Faulty variant: a chunk that has any local file is left to the runner.
SkipUnlessMissing ==
    /\ Restoring
    /\ ~Missing(wc) \/ remoteRecord[wc] = NoRecord \/ GcloudCommand
    /\ unseen' = IF Missing(wc) THEN unseen \cup Overlooked({wc}) ELSE unseen
    /\ wc' = wc + 1
    /\ UNCHANGED <<local, remote, cached, worker, runnerVars, beatVars, session>>

\* _restore_chunk: nothing to do, or no remote copy that the store shows.
SkipChunk ==
    /\ Restoring
    /\ Valid(wc) \/ remoteRecord[wc] = NoRecord \/ GcloudCommand
    /\ unseen' = unseen \cup Overlooked({wc})
    /\ wc' = wc + 1
    /\ UNCHANGED <<local, remote, cached, worker, runnerVars, beatVars, session>>

Download(c) ==
    /\ record' = [record EXCEPT ![c] = remoteRecord[c]]
    /\ unseen' = unseen \ {c}
    /\ worker' = IF worker = "restore" THEN "payload" ELSE "payload_again"
    /\ UNCHANGED <<plan, payload, remote, cached, wc, runnerVars, beatVars, session>>

\* Faulty variant: the status of the chunk here is not looked at.
RestoreOverValid == Restoring /\ remoteRecord[wc] # NoRecord /\ Download(wc)

\* _restore_chunk downloads the record over whatever is there ...
RestoreRecord ==
    Restoring /\ ~Valid(wc) /\ remoteRecord[wc] # NoRecord /\ Download(wc)

\* ... and then the payload, checked against the digest in the record.
RestorePayload ==
    /\ worker \in {"payload", "payload_again"}
    /\ \/ /\ remotePayload[wc] = "good"
          /\ payload' = [payload EXCEPT ![wc] = "good"]
          /\ cached' = [cached EXCEPT ![wc] = record[wc]]
          /\ UNCHANGED unseen
       \/ /\ remotePayload[wc] = "absent" \/ GcloudCommand
          /\ unseen' = unseen \cup Overlooked({wc})
          /\ UNCHANGED <<payload, cached>>
    /\ wc' = wc + 1
    /\ worker' = IF worker = "payload" THEN "restore" ELSE "restore_again"
    /\ UNCHANGED <<plan, record, remote, runnerVars, beatVars, session>>

\* Every chunk was looked at: run the command, or synchronize after it.
RestoreEnds ==
    /\ worker \in {"restore", "restore_again"} /\ wc > N
    /\ worker' = AfterRestore
    /\ wc' = 1
    /\ UNCHANGED <<local, remote, cached, unseen, runnerVars, beatVars, session>>

-----------------------------------------------------------------------------
\* The runner process (ProfileReplicationChunks.evaluate_pending).

\* _run_command starts it; it writes the frozen plan first.
RunnerStarts ==
    /\ worker = "command" /\ runner = "off"
    /\ plan' = TRUE
    /\ runner' = "status"
    /\ rc' = First({c \in Chunks : ~Valid(c)})
    /\ UNCHANGED <<payload, record, remote, cached, unseen, workerVars, beatVars, session>>

RunnerStep(from, to) ==
    /\ runner = from /\ rc <= N
    /\ runner' = to

\* commit: look at what is there.
CommitStatus ==
    /\ RunnerStep("status", IF Missing(rc) THEN "write_payload" ELSE "quarantine")
    /\ UNCHANGED <<local, remote, cached, unseen, workerVars, rc, beatVars, session>>

\* _quarantine renames both files of a corrupt chunk away, one after the other.
QuarantinePayload ==
    /\ RunnerStep("quarantine", "quarantine_record")
    /\ payload' = [payload EXCEPT ![rc] = "absent"]
    /\ UNCHANGED <<plan, record, remote, cached, unseen, workerVars, rc, beatVars, session>>

QuarantineRecord ==
    /\ RunnerStep("quarantine_record", "write_payload")
    /\ record' = [record EXCEPT ![rc] = NoRecord]
    /\ UNCHANGED <<plan, payload, remote, cached, unseen, workerVars, rc, beatVars, session>>

\* The payload is written, flushed and moved into place ...
WritePayload ==
    /\ RunnerStep("write_payload", "write_record")
    /\ payload' = [payload EXCEPT ![rc] = "good"]
    /\ UNCHANGED <<plan, record, remote, cached, unseen, workerVars, rc, beatVars, session>>

\* Faulty variant: the loop looks at the committed chunk again.
WriteRecordAgain ==
    /\ RunnerStep("write_record", "status")
    /\ record' = [record EXCEPT ![rc] = session]
    /\ rc' = First({c \in Chunks : c >= rc /\ ~Valid(c)})
    /\ UNCHANGED <<plan, payload, remote, cached, unseen, workerVars, beatVars, session>>

\* ... and then the record, which makes the chunk valid; on to the next pending one.
WriteRecord ==
    /\ RunnerStep("write_record", "status")
    /\ record' = [record EXCEPT ![rc] = session]
    /\ rc' = First({c \in Chunks : c > rc /\ ~Valid(c)})
    /\ UNCHANGED <<plan, payload, remote, cached, unseen, workerVars, beatVars, session>>

\* The command ends well; the worker restores what it can once more.
RunnerEnds ==
    /\ worker = "command" /\ runner = "status" /\ rc > N
    /\ runner' = "off"
    /\ worker' = "restore_again" /\ wc' = 1
    /\ UNCHANGED <<local, remote, cached, unseen, rc, beatVars, session>>

-----------------------------------------------------------------------------
\* _sync_runner_managed_job, by a heartbeat while the job is active, or by the slot
\* thread after the command (full_verify).  runner_sync_lock lets one at a time in.

NewChunks == {c \in Chunks : Valid(c) /\ cached[c] # record[c]}

\* Upload the plan and list the chunks that are valid and not known to be uploaded.
SyncStarts(full) ==
    /\ beat = "idle"
    /\ plan
    /\ remotePlan' = TRUE
    /\ queue' = NewChunks
    /\ beat' = "first"
    /\ IF full THEN worker' = "syncing" ELSE UNCHANGED worker
    /\ UNCHANGED <<local, remotePayload, remoteRecord, cached, unseen, wc, runnerVars, session>>

HeartbeatStarts == worker \notin {"complete", "failed"} /\ SyncStarts(FALSE)

\* validate_complete, then the upload of whatever the heartbeats left.
FullSyncStarts ==
    /\ worker = "sync" /\ \A c \in Chunks : Valid(c)
    /\ SyncStarts(TRUE)

\* The payload is uploaded before the record, which is what a restore looks for.
\* Faulty variant: the other way round.
RecordFirst == [first |-> "record", second |-> "payload"]
UploadOrder == [first |-> "payload", second |-> "record"]

\* upload_immutable refuses an object that exists with other content.
Refused(c) == remoteRecord[c] \notin {NoRecord, record[c]}

\* Faulty variant: the chunk counts as uploaded after its first object.
UploadCachedEarly ==
    /\ beat \in DOMAIN UploadOrder /\ queue # {}
    /\ LET c == First(queue) IN
         /\ Valid(c)
         /\ IF UploadOrder[beat] = "payload"
            THEN /\ remotePayload' = [remotePayload EXCEPT ![c] = payload[c]]
                 /\ UNCHANGED remoteRecord
            ELSE /\ ~Refused(c)
                 /\ remoteRecord' = [remoteRecord EXCEPT ![c] = record[c]]
                 /\ UNCHANGED remotePayload
         /\ cached' = [cached EXCEPT ![c] = record[c]]
         /\ IF beat = "first"
            THEN beat' = "second" /\ UNCHANGED queue
            ELSE beat' = "first" /\ queue' = queue \ {c}
    /\ UNCHANGED <<local, remotePlan, unseen, workerVars, runnerVars, session>>

\* _upload_chunk, one object at a time.
UploadObject ==
    /\ beat \in DOMAIN UploadOrder /\ queue # {}
    /\ LET c == First(queue) IN
         /\ Valid(c)
         /\ IF UploadOrder[beat] = "payload"
            THEN /\ remotePayload' = [remotePayload EXCEPT ![c] = payload[c]]
                 /\ UNCHANGED remoteRecord
            ELSE /\ ~Refused(c)
                 /\ remoteRecord' = [remoteRecord EXCEPT ![c] = record[c]]
                 /\ UNCHANGED remotePayload
         /\ IF beat = "first"
            THEN beat' = "second" /\ UNCHANGED <<cached, queue>>
            ELSE /\ beat' = "first"
                 /\ cached' = [cached EXCEPT ![c] = record[c]]
                 /\ queue' = queue \ {c}
    /\ UNCHANGED <<local, remotePlan, unseen, workerVars, runnerVars, session>>

SyncEnds ==
    /\ beat = "first" /\ queue = {}
    /\ beat' = "idle"
    /\ worker' = IF worker = "syncing" THEN "complete" ELSE worker
    /\ UNCHANGED <<local, remote, cached, unseen, wc, runnerVars, queue, session>>

\* A heartbeat writes the exception to heartbeat_error.txt and the next one starts
\* over; after the command it fails the job and with it the node.
SyncStops ==
    /\ beat' = "idle" /\ queue' = {}
    /\ worker' = IF worker = "syncing" THEN "failed" ELSE worker
    /\ UNCHANGED <<local, remote, cached, unseen, wc, runnerVars, session>>

\* RemoteConflictError: the store has another commit of the chunk.
SyncRefused ==
    /\ beat \in DOMAIN UploadOrder /\ queue # {}
    /\ UploadOrder[beat] = "record" /\ Refused(First(queue))
    /\ SyncStops

\* The store fails after all retries, possibly after the object has arrived.
SyncRaises == beat # "idle" /\ SyncStops

\* A download, the command or a validation raises.
JobRaises ==
    /\ worker \notin {"syncing", "complete", "failed"}
    /\ worker' = "failed" /\ runner' = "off"
    /\ UNCHANGED <<local, remote, cached, unseen, wc, rc, beatVars, session>>

-----------------------------------------------------------------------------
\* Everything in memory is gone and the worker starts again.
ProcessRestarts ==
    /\ session < MaxSessions
    /\ worker # "complete"
    /\ session' = session + 1
    /\ cached' = [c \in Chunks |-> NoRecord]
    /\ worker' = "restore_plan" /\ wc' = 1
    /\ runner' = "off" /\ rc' = 1
    /\ beat' = "idle" /\ queue' = {}
    /\ UNCHANGED remote

\* The host keeps its disk.  Records are not flushed: one written in this session can
\* come back damaged.
RestartKeepsDisk ==
    /\ ProcessRestarts
    /\ \E torn \in SUBSET {c \in Chunks : record[c] = session} :
         record' = [c \in Chunks |-> IF c \in torn THEN DamagedRecord ELSE record[c]]
    /\ UNCHANGED <<plan, payload, unseen>>

\* The Spot VM is recreated with an empty disk.
RestartLosesDisk ==
    /\ ProcessRestarts
    /\ plan' = FALSE
    /\ payload' = [c \in Chunks |-> "absent"]
    /\ record' = [c \in Chunks |-> NoRecord]
    /\ unseen' = {}

\* The job is done, or its failure has stopped the node for good.
Finished ==
    /\ worker \in {"complete", "failed"}
    /\ UNCHANGED vars

RestoreStep ==
    RestorePlan \/ SkipChunk \/ RestoreRecord \/ RestorePayload \/ RestoreEnds
RunnerNext ==
    \/ RunnerStarts \/ CommitStatus \/ QuarantinePayload \/ QuarantineRecord
    \/ WritePayload \/ WriteRecord \/ RunnerEnds
SyncNext == FullSyncStarts \/ UploadObject \/ SyncEnds \/ SyncRefused

Next ==
    \/ RestoreStep \/ RunnerNext \/ SyncNext
    \/ HeartbeatStarts \/ SyncRaises \/ JobRaises
    \/ RestartKeepsDisk \/ RestartLosesDisk \/ Finished

\* The slot thread, the runner and a running synchronization make progress.  A
\* heartbeat only needs to end: it is started by a timer and may fail every time.
Fairness ==
    /\ WF_vars(RestoreStep) /\ WF_vars(RunnerNext)
    /\ SF_vars(FullSyncStarts)
    /\ WF_vars(UploadObject \/ SyncEnds \/ SyncRefused)

Spec == Init /\ [][Next]_vars /\ Fairness

-----------------------------------------------------------------------------
TypeOK ==
    /\ plan \in BOOLEAN /\ remotePlan \in BOOLEAN
    /\ payload \in [Chunks -> Files] /\ record \in [Chunks -> RecordFiles]
    /\ remotePayload \in [Chunks -> Files]
    /\ remoteRecord \in [Chunks -> {NoRecord} \cup Sessions]
    /\ cached \in [Chunks -> {NoRecord} \cup Sessions]
    /\ worker \in {"restore_plan", "restore", "payload", "command", "restore_again",
                   "payload_again", "sync", "syncing", "complete", "failed"}
    /\ runner \in {"off", "status", "quarantine", "quarantine_record",
                   "write_payload", "write_record"}
    /\ beat \in {"idle", "first", "second"}
    /\ wc \in 1 .. N + 1 /\ rc \in 1 .. N + 1
    /\ queue \subseteq Chunks /\ unseen \subseteq Chunks
    /\ session \in Sessions

\* A record in the remote store is never there without the payload it names and the
\* plan a restore starts from, whatever upload was cut short: this is what the order
\* of the two uploads in _upload_chunk is for.
RemoteIsRestorable ==
    \A c \in Chunks :
        remoteRecord[c] # NoRecord => remotePayload[c] = "good" /\ remotePlan

\* A chunk the worker believes to be uploaded is, with exactly this record.
CacheTellsTruth ==
    \A c \in Chunks :
        cached[c] # NoRecord =>
            remoteRecord[c] = cached[c] /\ remotePayload[c] = "good"

\* A commit collides with what an earlier session uploaded, and is refused for ever,
\* only where a restore took the uploaded chunk for missing: records differ between
\* commits, so every session has to restore before it commits.  Only through the gcloud
\* command, where a failing request reads as a missing object, is any chunk overlooked.
NoConflict ==
    \A c \in Chunks :
        /\ Valid(c) => remoteRecord[c] \in {NoRecord, record[c]} \/ c \in unseen
        /\ c \in unseen => GcloudCommand

Register == INSTANCE ChunkRegister WITH
    here <- [c \in Chunks |-> IF Valid(c) THEN record[c] ELSE NoRecord],
    published <- [c \in Chunks |->
                    IF remotePayload[c] = "good" THEN remoteRecord[c] ELSE NoRecord],
    complete <- worker = "complete"

\* The files implement registers of commits: what can be read of a chunk is one whole
\* commit, of this session or read back from the store; only a restart takes it away or
\* lets another take its place; and the commit that is published is never replaced.
ImplementsRegister == Register!Spec

\* After the last crash the job completes or fails, however the heartbeats fare and
\* whatever is refused: no thread is left waiting for another.
Completes == <>(worker \in {"complete", "failed"})
=============================================================================
