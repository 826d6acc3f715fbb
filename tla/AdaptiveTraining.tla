--------------------------- MODULE AdaptiveTraining ---------------------------
(***************************************************************************)
(* The training stage of an adaptive runner-managed job across restarts    *)
(* (AdaptiveTrainingChunks and ResumableTrainingPayoffCache of             *)
(* src/cmfg_cce/evaluation/resumable_training_chunks.py, run by            *)
(* _run_or_load_training), together with the sidecar half of               *)
(* _sync_runner_managed_job and _restore_runner_sidecars                   *)
(* (src/cmfg_cce/orchestration/worker.py).                                 *)
(*                                                                         *)
(* The search asks for batches of profiles; the runner gives each new      *)
(* profile the next slot, writes the assignment checkpoint, simulates, and *)
(* commits every block whose slots are all known.  The heartbeat thread    *)
(* copies blocks and then sidecars while the runner goes on.  Committing,  *)
(* uploading and restoring one block are single actions here: module       *)
(* ChunkStore shows that their files implement that.  The search is seeded *)
(* and its estimates are deterministic, so that every session asks for the *)
(* same batches in the same order.                                         *)
(***************************************************************************)
EXTENDS Integers, SequencesExt

CONSTANTS
    Requests,       \* the batches of profiles the search asks for, in order
    Capacity,       \* profile_capacity, the number of slots
    ChunkSize,      \* TRAINING_CHUNK_SIZE
    FaultSets,      \* the faults of each kind of host, see below
    MaxSessions     \* bound on the number of process starts

\* disk_lost:          a restart may come up with an empty disk (Spot VM)
\* checkpoint_damaged: a restart may find the assignment file damaged
\* slow_upload:        the runner may write its files while a sidecar is being uploaded
ASSUME TrainingAssumption ==
    /\ Requests \in Seq(SUBSET (Nat \ {0}))
    /\ Capacity \in Nat \ {0} /\ ChunkSize \in Nat \ {0} /\ MaxSessions \in Nat \ {0}
    /\ IsFiniteSet(UNION {Requests[i] : i \in DOMAIN Requests})
    /\ Cardinality(UNION {Requests[i] : i \in DOMAIN Requests}) \in 1 .. Capacity
    /\ FaultSets \subseteq SUBSET {"disk_lost", "checkpoint_damaged", "slow_upload"}

VARIABLES
    file,           \* assignment_checkpoint.json
    chunk,          \* block -> what its valid local chunk holds, slot by slot
    result,         \* training_result.json: the profiles the frozen q was solved on
    object,         \* remote sidecars/objects: <<digest in the name, content>>
    pointer,        \* remote pointer of the assignment sidecar
    remoteChunk, remoteResult,
    worker,         \* phase of the slot thread that runs the job
    failure,        \* why the job failed
    runner,         \* control state of the runner process
    slots, final,   \* self.assignments and self.finalized
    known,          \* profiles that have vectors and an estimate
    turn,           \* the block, or the request, the runner is at
    beat,           \* control state of a synchronization
    queue,          \* blocks it still has to upload
    size, digest,   \* the checkpoint when its stat, and then its digest, was taken
    faults,         \* the faults of the host the job runs on
    session

disk == <<file, chunk, result>>
remote == <<object, pointer, remoteChunk, remoteResult>>
control == <<worker, failure>>
memory == <<slots, final, known, turn>>
sync == <<beat, queue, size, digest>>
host == <<faults, session>>
vars == <<disk, remote, control, runner, memory, sync, host>>

Padding == 0
None == <<>>
Absent == [is |-> "absent", slots |-> <<>>, final |-> FALSE]
Damaged == [is |-> "damaged", slots |-> <<>>, final |-> FALSE]
Whole(s, f) == [is |-> "whole", slots |-> s, final |-> f]

CeilDiv(a, b) == (a + b - 1) \div b
Blocks == 1 .. CeilDiv(Capacity, ChunkSize)
\* The slots of a block, as positions in an assignment list.
Start(b) == (b - 1) * ChunkSize + 1
Stop(b) == IF b * ChunkSize < Capacity THEN b * ChunkSize ELSE Capacity
Slice(s, b) == SubSeq(s, Start(b), Stop(b))
Profiles(s) == ToSet(s) \ {Padding}
Padded(s) == s \o [i \in 1 .. Capacity - Len(s) |-> Padding]
\* sorted(set(profiles)): S as an ascending list.
Sorted(S) ==
    CHOOSE s \in [1 .. Cardinality(S) -> S] :
        ToSet(s) = S /\ \A i, k \in DOMAIN s : i < k => s[i] < s[k]

\* Blocks all of whose slots are assigned, and the first one of a set.
Covered == {b \in Blocks : Stop(b) <= Len(slots)}
Lowest(S) == CHOOSE b \in S : \A c \in S : b <= c

Init ==
    /\ file = Absent
    /\ chunk = [b \in Blocks |-> None]
    /\ result = None
    /\ object = {} /\ pointer = [size |-> Absent, digest |-> Absent]
    /\ remoteChunk = [b \in Blocks |-> None]
    /\ remoteResult = None
    /\ worker = "sidecars" /\ failure = "none"
    /\ runner = "off"
    /\ slots = <<>> /\ final = FALSE /\ known = {} /\ turn = 1
    /\ beat = "idle" /\ queue = {} /\ size = Absent /\ digest = Absent
    /\ faults \in FaultSets
    /\ session = 1

Fails(why) ==
    /\ worker' = "failed"
    /\ failure' = why
    /\ runner' = "off"

-----------------------------------------------------------------------------
\* _run_job before the command: sidecars first, then chunks.

Recoverable ==
    /\ pointer.size = pointer.digest
    /\ <<pointer.digest, pointer.digest>> \in object

\* A valid local checkpoint is kept, any other one comes from the remote store.
RestoreSidecars ==
    /\ worker = "sidecars"
    /\ \/ file.is = "whole" /\ UNCHANGED file
       \/ file.is = "absent" /\ pointer.digest = Absent /\ UNCHANGED file
       \/ file.is # "whole" /\ pointer.digest # Absent /\ Recoverable /\ file' = pointer.digest
    /\ result' = IF result = None THEN remoteResult ELSE result
    /\ worker' = "chunks"
    /\ UNCHANGED <<chunk, remote, failure, runner, memory, sync, host>>

\* The pointer's object has other content or another size, or a damaged checkpoint
\* has no pointer.
RestoreRaises ==
    /\ worker = "sidecars"
    /\ \/ file.is # "whole" /\ pointer.digest # Absent /\ ~Recoverable
       \/ file.is = "damaged" /\ pointer.digest = Absent
    /\ Fails("restore")
    /\ UNCHANGED <<disk, remote, memory, sync, host>>

RestoreChunks ==
    /\ worker = "chunks"
    /\ chunk' = [b \in Blocks |-> IF chunk[b] = None THEN remoteChunk[b] ELSE chunk[b]]
    /\ worker' = "command"
    /\ UNCHANGED <<file, result, remote, failure, runner, memory, sync, host>>

-----------------------------------------------------------------------------
\* The runner process.

\* The runner writes no sidecar while a heartbeat is uploading one, unless uploads are
\* slow, and never in the instant between two sidecars.
MayWrite ==
    \/ beat \in {"idle", "upload"}
    \/ "slow_upload" \in faults /\ beat # "result"

\* _load_or_initialize_assignments.
RunnerStarts ==
    /\ worker = "command" /\ runner = "off" /\ MayWrite
    /\ file' = IF file = Absent THEN Whole(<<>>, FALSE) ELSE file
    /\ slots' = file.slots /\ final' = file.final
    /\ known' = {}
    /\ runner' = "repair" /\ turn' = 1
    /\ UNCHANGED <<chunk, result, remote, control, sync, host>>

\* The part of a block that is assigned.
AssignedPart(b) == SubSeq(slots, Start(b), IF Stop(b) < Len(slots) THEN Stop(b) ELSE Len(slots))

\* restore_or_repair, one block: load it if it is valid, else simulate its assigned
\* profiles again and commit it if all of its slots are assigned.
Repair ==
    /\ runner = "repair" /\ turn \in Blocks
    /\ AssignedPart(turn) # <<>>
    /\ chunk[turn] # None => turn \in Covered /\ chunk[turn] = Slice(slots, turn)
    /\ known' = known \cup Profiles(AssignedPart(turn))
    /\ chunk' = IF turn \in Covered THEN [chunk EXCEPT ![turn] = Slice(slots, turn)] ELSE chunk
    /\ turn' = turn + 1
    /\ UNCHANGED <<file, result, remote, control, runner, slots, final, sync, host>>

\* "A valid training chunk extends beyond frozen assignments", or it holds other
\* profiles than the assignments say.
RepairRaises ==
    /\ runner = "repair" /\ turn \in Blocks
    /\ AssignedPart(turn) # <<>> /\ chunk[turn] # None
    /\ \/ turn \notin Covered /\ Fails("beyond")
       \/ turn \in Covered /\ chunk[turn] # Slice(slots, turn) /\ Fails("mismatch")
    /\ UNCHANGED <<disk, remote, memory, sync, host>>

\* Faulty variant: an interrupted search is taken for a finished one.
RepairEndsTheSearch ==
    /\ runner = "repair"
    /\ turn \in Blocks => AssignedPart(turn) = <<>>
    /\ runner' = IF result = None /\ slots = <<>> THEN "search" ELSE "finalize"
    /\ turn' = 1
    /\ UNCHANGED <<disk, remote, control, slots, final, known, sync, host>>

\* No more assigned blocks: with a stored result there is nothing left to search.
RepairEnds ==
    /\ runner = "repair"
    /\ turn \in Blocks => AssignedPart(turn) = <<>>
    /\ runner' = IF result = None THEN "search" ELSE "finalize"
    /\ turn' = 1
    /\ UNCHANGED <<disk, remote, control, slots, final, known, sync, host>>

Asked == Requests[turn] \ known
Unassigned == Asked \ Profiles(slots)

\* Every profile of the request has an estimate already.
RequestCached ==
    /\ runner = "search" /\ turn <= Len(Requests)
    /\ Asked = {}
    /\ turn' = turn + 1
    /\ UNCHANGED <<disk, remote, control, runner, slots, final, known, sync, host>>

\* Faulty variant: the checkpoint is rewritten from what this request asked for.
AssignOverwrites ==
    /\ runner = "search" /\ turn <= Len(Requests) /\ MayWrite
    /\ Asked # {} /\ ~final
    /\ slots' = slots \o Sorted(Unassigned)
    /\ file' = Whole(Sorted(Unassigned), FALSE)
    /\ runner' = "simulate"
    /\ UNCHANGED <<chunk, result, remote, control, final, known, turn, sync, host>>

\* Faulty variant: the checkpoint is written before the new profiles are appended.
AssignWritesFirst ==
    /\ runner = "search" /\ turn <= Len(Requests) /\ MayWrite
    /\ Asked # {}
    /\ IF final /\ Unassigned # {}
       THEN Fails("finalized") /\ UNCHANGED <<file, slots>>
       ELSE /\ slots' = slots \o Sorted(Unassigned)
            /\ file' = IF Unassigned # {} THEN Whole(slots, final) ELSE file
            /\ runner' = "simulate"
            /\ UNCHANGED control
    /\ UNCHANGED <<chunk, result, remote, final, known, turn, sync, host>>

\* assign: the new profiles get the next slots in sorted order, and the checkpoint is
\* written before anything is simulated; "Finalized adaptive training plan received a
\* new profile request" ends the job.
Assign ==
    /\ runner = "search" /\ turn <= Len(Requests) /\ MayWrite
    /\ Asked # {}
    /\ IF final /\ Unassigned # {}
       THEN Fails("finalized") /\ UNCHANGED <<file, slots>>
       ELSE /\ slots' = slots \o Sorted(Unassigned)
            /\ file' = IF Unassigned # {} THEN Whole(slots', final) ELSE file
            /\ runner' = "simulate"
            /\ UNCHANGED control
    /\ UNCHANGED <<chunk, result, remote, final, known, turn, sync, host>>

Simulate ==
    /\ runner = "simulate"
    /\ known' = known \cup Requests[turn]
    /\ runner' = "record"
    /\ UNCHANGED <<disk, remote, control, slots, final, turn, sync, host>>

\* Faulty variant: _chunk_arrays does not ask whether the block is full.
CommittableEarly ==
    {b \in Blocks : /\ chunk[b] = None
                    /\ AssignedPart(b) # <<>>
                    /\ Profiles(AssignedPart(b)) \subseteq known}

\* Blocks that record, and later finalize, can commit.
Committable == {b \in Covered : chunk[b] = None /\ Profiles(Slice(slots, b)) \subseteq known}

Commit ==
    /\ runner \in {"record", "fill"} /\ Committable # {}
    /\ LET b == Lowest(Committable) IN
         chunk' = [chunk EXCEPT ![b] = SubSeq(Padded(slots), Start(b), Stop(b))]
    /\ UNCHANGED <<file, result, remote, control, runner, memory, sync, host>>

Recorded ==
    /\ runner = "record" /\ Committable = {}
    /\ runner' = "search" /\ turn' = turn + 1
    /\ UNCHANGED <<disk, remote, control, slots, final, known, sync, host>>

SearchEnds ==
    /\ runner = "search" /\ turn > Len(Requests)
    /\ runner' = "finalize"
    /\ UNCHANGED <<disk, remote, control, memory, sync, host>>

\* finalize: pad the free slots and write the last checkpoint, then commit the rest.
Finalize ==
    /\ runner = "finalize" /\ MayWrite
    /\ slots' = Padded(slots) /\ final' = TRUE
    /\ file' = IF final THEN file ELSE Whole(slots', TRUE)
    /\ runner' = "fill"
    /\ UNCHANGED <<chunk, result, remote, control, known, turn, sync, host>>

Filled == runner = "fill" /\ Committable = {}
\* evaluated_profiles, slot by slot; the padding comes after the last of them.
Solved == [i \in {k \in DOMAIN slots : slots[k] # Padding} |-> slots[i]]

\* The stage ends with the frozen q: solved on the vectors of every assigned profile,
\* or loaded if the vectors are those it was solved on.
Freeze ==
    /\ Filled /\ MayWrite
    /\ \A b \in Blocks : chunk[b] = Slice(slots, b)
    /\ result \in {None, Solved}
    /\ result' = Solved
    /\ runner' = "off" /\ worker' = "sync"
    /\ UNCHANGED <<file, chunk, remote, failure, memory, sync, host>>

\* A block holds other profiles, or "Stored CNC training raw-vector hash changed".
FreezeRaises ==
    /\ Filled
    /\ \/ \E b \in Blocks : chunk[b] # Slice(slots, b)
       \/ result \notin {None, Solved}
    /\ Fails("hash")
    /\ UNCHANGED <<disk, remote, memory, sync, host>>

RunnerNext ==
    \/ RunnerStarts \/ Repair \/ RepairRaises \/ RepairEnds
    \/ RequestCached \/ Assign \/ Simulate \/ Commit \/ Recorded
    \/ SearchEnds \/ Finalize \/ Freeze \/ FreezeRaises

-----------------------------------------------------------------------------
\* _sync_runner_managed_job: by a heartbeat while the job is active, or by the slot
\* thread after the command.  runner_sync_lock admits one at a time.

NewBlocks == {b \in Blocks : chunk[b] # None /\ remoteChunk[b] = None}

Beat(from, to) == beat = from /\ beat' = to

HeartbeatStarts ==
    /\ worker \notin {"complete", "failed"}
    /\ Beat("idle", "upload")
    /\ queue' = NewBlocks
    /\ UNCHANGED <<disk, remote, control, runner, memory, size, digest, host>>

FullSyncStarts ==
    /\ worker = "sync"
    /\ Beat("idle", "upload")
    /\ queue' = NewBlocks
    /\ worker' = "syncing"
    /\ UNCHANGED <<disk, remote, failure, runner, memory, size, digest, host>>

UploadBlock ==
    /\ Beat("upload", "upload") /\ queue # {}
    /\ LET b == Lowest(queue) IN
         /\ remoteChunk' = [remoteChunk EXCEPT ![b] = chunk[b]]
         /\ queue' = queue \ {b}
    /\ UNCHANGED <<disk, object, pointer, remoteResult, control, runner, memory,
                   size, digest, host>>

\* _sync_runner_sidecars, the assignment checkpoint.  local.stat() ...
StatSidecar ==
    /\ queue = {}
    /\ file # pointer.digest /\ file # Absent /\ Beat("upload", "digest") /\ size' = file
    /\ UNCHANGED <<disk, remote, control, runner, memory, queue, digest, host>>

\* ... _validate_sidecar_payload, which raises for a damaged one, and sha256_file(local) ...
DigestSidecar ==
    /\ Beat("digest", "object")
    /\ file.is = "whole"
    /\ digest' = file
    /\ UNCHANGED <<disk, remote, control, runner, memory, queue, size, host>>

Stored(d) == {o \in object : o[1] = d}

\* ... upload_immutable(local, objects/<digest>), which reads the file once more and
\* refuses when the object is there with other content ...
UploadSidecar ==
    /\ Beat("object", "pointer")
    /\ Stored(digest) \subseteq {<<digest, file>>}
    /\ object' = object \cup {<<digest, file>>}
    /\ UNCHANGED <<disk, pointer, remoteChunk, remoteResult, control, runner, memory,
                   queue, size, digest, host>>

\* ... and the mutable pointer.
UploadPointer ==
    /\ Beat("pointer", "result")
    /\ pointer' = [size |-> size, digest |-> digest]
    /\ UNCHANGED <<disk, object, remoteChunk, remoteResult, control, runner, memory,
                   queue, size, digest, host>>

\* The checkpoint is not there, or known to be uploaded.
SkipSidecar ==
    /\ queue = {}
    /\ file \in {Absent, pointer.digest} /\ Beat("upload", "result")
    /\ UNCHANGED <<disk, remote, control, runner, memory, queue, size, digest, host>>

\* The sidecar with the frozen q comes after the assignments; then the sync is over.
UploadResult ==
    /\ Beat("result", "idle")
    /\ remoteResult' = IF result = None THEN remoteResult ELSE result
    /\ worker' = IF worker = "syncing" THEN "complete" ELSE worker
    /\ UNCHANGED <<disk, object, pointer, remoteChunk, failure, runner, memory,
                   queue, size, digest, host>>

\* An upload is refused or fails after all retries.  A heartbeat is tried again
\* later; after the command it fails the job.
SyncRaises ==
    /\ beat # "idle"
    /\ beat' = "idle" /\ queue' = {}
    /\ IF worker = "syncing" THEN Fails("sync") ELSE UNCHANGED <<control, runner>>
    /\ UNCHANGED <<disk, remote, memory, size, digest, host>>

SyncNext ==
    \/ UploadBlock \/ StatSidecar \/ DigestSidecar \/ UploadSidecar \/ UploadPointer
    \/ SkipSidecar \/ UploadResult

-----------------------------------------------------------------------------
\* Everything in memory is gone and the worker starts again, a failed one included.
Restarts ==
    /\ session < MaxSessions /\ worker # "complete"
    /\ session' = session + 1
    /\ worker' = "sidecars" /\ failure' = "none"
    /\ runner' = "off" /\ slots' = <<>> /\ final' = FALSE /\ known' = {} /\ turn' = 1
    /\ beat' = "idle" /\ queue' = {} /\ size' = Absent /\ digest' = Absent
    /\ UNCHANGED <<remote, faults>>

RestartKeepsDisk == Restarts /\ UNCHANGED disk

RestartDamagesCheckpoint ==
    /\ "checkpoint_damaged" \in faults /\ file # Absent
    /\ Restarts
    /\ file' = Damaged
    /\ UNCHANGED <<chunk, result>>

RestartLosesDisk ==
    /\ "disk_lost" \in faults
    /\ Restarts
    /\ file' = Absent /\ result' = None
    /\ chunk' = [b \in Blocks |-> None]

Finished == worker \in {"complete", "failed"} /\ UNCHANGED vars

RestoreNext == RestoreSidecars \/ RestoreRaises \/ RestoreChunks

Next ==
    \/ RestoreNext \/ RunnerNext \/ SyncNext
    \/ HeartbeatStarts \/ FullSyncStarts \/ SyncRaises
    \/ RestartKeepsDisk \/ RestartDamagesCheckpoint \/ RestartLosesDisk
    \/ Finished

\* The runner and a running synchronization make progress; the slot thread gets the
\* lock in spite of the heartbeats.  No heartbeat has to start or to succeed.
Fairness ==
    /\ WF_vars(RestoreNext) /\ SF_vars(RunnerNext)
    /\ WF_vars(SyncNext \/ SyncRaises) /\ SF_vars(FullSyncStarts)

Spec == Init /\ [][Next]_vars /\ Fairness

-----------------------------------------------------------------------------
\* The assignment of an uninterrupted search, after k requests and at its end.
Upto[k \in 0 .. Len(Requests)] ==
    IF k = 0 THEN <<>>
    ELSE Upto[k - 1] \o Sorted(Requests[k] \ ToSet(Upto[k - 1]))
Uninterrupted == Upto[Len(Requests)]

Checkpoints == {file, pointer.digest} \cup {o[1] : o \in object} \cup {o[2] : o \in object}

\* "without changing the frozen q or profile-to-slot assignment" (comment above
\* RUNNER_SIDECARS): every assignment list anywhere agrees with that of a search that
\* was never interrupted, slot by slot.
AssignmentKept ==
    \A list \in {slots} \cup {c.slots : c \in Checkpoints} :
        IsPrefix(list, Padded(Uninterrupted))

\* A host that at most loses its disk, or one that at most uploads slowly.
PlainHost == faults \subseteq {"disk_lost"} \/ faults = {"slow_upload"}

\* On a plain host the assignment is kept, ...
SlotsStable == PlainHost => AssignmentKept

\* ... and every block, here or in the remote store, holds what those slots say, ...
BlocksMatchSlots ==
    PlainHost => \A b \in Blocks :
        {chunk[b], remoteChunk[b]} \subseteq {None, Slice(Padded(Uninterrupted), b)}

\* ... and in any case a frozen q was solved on all of its profiles.
QIsFrozen == {result, remoteResult} \subseteq {None, Uninterrupted}

\* "On restart, valid blocks are loaded, while missing or corrupt assigned blocks are
\* recomputed from the frozen assignment list" (docstring of AdaptiveTrainingChunks):
\* no restart refuses a block an earlier session committed.
RestartLoadsBlocks == failure # "beyond"

\* Errors there is a reason for: a store that fails; a disk that is lost after an upload
\* of blocks and before that of their checkpoint; and whatever follows from a checkpoint
\* that is damaged, or lost together with an upload the runner wrote into.
Explained ==
    \/ failure = "sync"
    \/ failure = "beyond" /\ "disk_lost" \in faults
    \/ ~PlainHost

\* Started again often enough, the job ends with its result, or with an error there is a
\* reason for: whatever an interrupted session leaves on the disk and in the store, the
\* next one neither refuses it nor hangs on it.
EndsWithResult == <>[](worker = "complete" \/ (worker = "failed" /\ Explained))
=============================================================================
