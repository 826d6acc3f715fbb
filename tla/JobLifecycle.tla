----------------------------- MODULE JobLifecycle -----------------------------
(***************************************************************************)
(* How the result of one job becomes visible: the artifacts and completion *)
(* marker of a producer job, the pruning of its directory, and the jobs    *)
(* that copy its result as a dependency (_run_job, _validate_artifacts,    *)
(* _restore_completion, _prune_completed_job and _restore_dependency of    *)
(* src/cmfg_cce/orchestration/worker.py).                                  *)
(*                                                                         *)
(* A file is the version of the result it belongs to, 0 when it is absent. *)
(* A simulation job computes the same result every time; a measured        *)
(* (runtime) job has a new result for every attempt, and only the attempt  *)
(* files on its disk make a later session report the same one.  A marker   *)
(* names the digests of the artifacts, that is, their version.  A copy     *)
(* that a kill cut short is torn.                                          *)
(*                                                                         *)
(* The store may fail, a consumer may be stopped or reach its deadline,    *)
(* and nodes may be killed, until the surroundings are calm.               *)
(***************************************************************************)
EXTENDS Naturals, FiniteSets

CONSTANTS
    Artifacts,      \* number of expected artifacts, uploaded in order
    Local,          \* consumers in other slots of the producer's node
    Other,          \* consumers on other nodes
    Kinds,          \* the kinds of producers looked at, see below
    MaxSessions     \* bound on the number of process starts of the producer's node

\* measured: a runtime job
\* prune:    a job of a node that runs with --prune-completed-local
\* gcloud:   the store is asked by gcloud, for which a failing request reads as missing
ASSUME LifecycleAssumption ==
    /\ Artifacts \in Nat \ {0} /\ MaxSessions \in Nat \ {0}
    /\ Local \cap Other = {}
    /\ Kinds \subseteq SUBSET {"measured", "prune", "gcloud"}

VARIABLES
    kind,                       \* the kind of the producer
    attempt,                    \* the completed attempt on the local disk
    output, marker,             \* the local files
    remoteOutput, remoteMarker, \* the remote objects
    phase, next,                \* control state of _run_job, artifact it is at
    conflict,                   \* whether upload_immutable has refused an artifact
    step, item,                 \* control state of each consumer, artifact it is at
    copyMarker, copyOutput,     \* the consumer's dependency directory
    session,
    calm        \* no store fails, nothing is stopped or killed from now on

localFiles == <<attempt, output, marker>>
remoteFiles == <<remoteOutput, remoteMarker>>
producer == <<phase, next, conflict>>
consumers == <<step, item, copyMarker, copyOutput>>
node == <<kind, session, calm>>
vars == <<localFiles, remoteFiles, producer, consumers, node>>

Consumers == Local \cup Other
Index == 1 .. Artifacts
Versions == 0 .. MaxSessions
Torn == MaxSessions + 1
Copies == Versions \cup {Torn}
Nothing == [a \in Index |-> 0]
All(v) == [a \in Index |-> v]

Init ==
    /\ kind \in Kinds
    /\ attempt = 0 /\ output = Nothing /\ marker = 0
    /\ remoteOutput = Nothing /\ remoteMarker = 0
    /\ phase = "restore" /\ next = 1 /\ conflict = FALSE
    /\ step = [c \in Consumers |-> "wait"]
    /\ item = [c \in Consumers |-> 1]
    /\ copyMarker = [c \in Consumers |-> 0]
    /\ copyOutput = [c \in Consumers |-> Nothing]
    /\ session = 1 /\ calm = FALSE

-----------------------------------------------------------------------------
\* The producer.

Runs(from, to) == phase = from /\ phase' = to

\* Where a job goes that has its marker.
AfterMarker == IF "prune" \in kind THEN "prune" ELSE "done"

\* _restore_completion: a local marker is trusted as it is, without looking for the
\* remote one ...
TrustLocalMarker ==
    /\ marker # 0
    /\ Runs("restore", AfterMarker)
    /\ UNCHANGED <<localFiles, remoteFiles, next, conflict, consumers, node>>

\* ... a remote one is downloaded ...
RestoreMarker ==
    /\ marker = 0 /\ remoteMarker # 0
    /\ Runs("restore", AfterMarker)
    /\ marker' = remoteMarker
    /\ UNCHANGED <<attempt, output, remoteFiles, next, conflict, consumers, node>>

Unanswered == "gcloud" \in kind /\ ~calm

\* ... and without one, or without an answer, the job runs.
RestoreNoMarker ==
    /\ marker = 0
    /\ remoteMarker = 0 \/ Unanswered
    /\ Runs("restore", "command")
    /\ UNCHANGED <<localFiles, remoteFiles, next, conflict, consumers, node>>

\* The command writes its artifacts.  A completed attempt on disk is reported again.
Command ==
    /\ Runs("command", "upload")
    /\ attempt' = IF "measured" \notin kind THEN 1 ELSE IF attempt # 0 THEN attempt ELSE session
    /\ output' = All(attempt')
    /\ next' = 1
    /\ UNCHANGED <<marker, remoteFiles, conflict, consumers, node>>

\* _validate_artifacts, one upload_immutable after the other.
UploadArtifact ==
    /\ phase = "upload" /\ next <= Artifacts
    /\ remoteOutput[next] \in {0, output[next]}
    /\ remoteOutput' = [remoteOutput EXCEPT ![next] = output[next]]
    /\ next' = next + 1
    /\ UNCHANGED <<localFiles, remoteMarker, phase, conflict, consumers, node>>

\* RemoteConflictError: the object exists with other content.
ArtifactRefused ==
    /\ next <= Artifacts /\ remoteOutput[next] \notin {0, output[next]}
    /\ Runs("upload", "failed")
    /\ conflict' = TRUE
    /\ UNCHANGED <<localFiles, remoteFiles, next, consumers, node>>

\* Faulty variant: the local marker is written before the artifacts are uploaded.
MarkFirst ==
    /\ \/ phase = "upload" /\ marker = 0 /\ marker' = output[1] /\ UNCHANGED phase
       \/ next > Artifacts /\ Runs("upload", "publish") /\ UNCHANGED marker
    /\ UNCHANGED <<attempt, output, remoteFiles, next, conflict, consumers, node>>

\* The local job_complete.json, after all uploads.
Mark ==
    /\ next > Artifacts
    /\ Runs("upload", "publish")
    /\ marker' = output[1]
    /\ UNCHANGED <<attempt, output, remoteFiles, next, conflict, consumers, node>>

\* "This marker is intentionally the last object written for the job"; the check of
\* the remote artifacts that follows is part of the step.
Publish ==
    /\ remoteMarker = 0
    /\ \A a \in Index : remoteOutput[a] # 0
    /\ Runs("publish", AfterMarker)
    /\ remoteMarker' = marker
    /\ UNCHANGED <<localFiles, remoteOutput, next, conflict, consumers, node>>

\* Markers carry their times: the object is that of an earlier session.
MarkerRefused ==
    /\ remoteMarker # 0
    /\ Runs("publish", "failed")
    /\ UNCHANGED <<localFiles, remoteFiles, next, conflict, consumers, node>>

\* The store fails after all retries, before the object arrived or after it.
StoreFails ==
    /\ ~calm
    /\ \E from \in {"upload", "publish"} : Runs(from, "failed")
    /\ \/ UNCHANGED remoteFiles
       \/ phase = "publish" /\ remoteMarker = 0
          /\ remoteMarker' = marker /\ UNCHANGED remoteOutput
       \/ phase = "upload" /\ next <= Artifacts /\ remoteOutput[next] = 0
          /\ remoteOutput' = [remoteOutput EXCEPT ![next] = output[next]]
          /\ UNCHANGED remoteMarker
    /\ UNCHANGED <<localFiles, next, conflict, consumers, node>>

\* _prune_completed_job looks for the remote marker first ...
PruneChecked ==
    /\ remoteMarker # 0
    /\ Runs("prune", "remove")
    /\ UNCHANGED <<localFiles, remoteFiles, next, conflict, consumers, node>>

PruneRefused ==
    /\ remoteMarker = 0 \/ Unanswered
    /\ Runs("prune", "failed")
    /\ UNCHANGED <<localFiles, remoteFiles, next, conflict, consumers, node>>

\* ... and rmtree removes the files one by one, in directory order.
RemoveFile ==
    /\ phase = "remove"
    /\ \/ marker # 0 /\ marker' = 0 /\ UNCHANGED <<attempt, output>>
       \/ attempt # 0 /\ attempt' = 0 /\ UNCHANGED <<output, marker>>
       \/ \E a \in Index :
            /\ output[a] # 0
            /\ output' = [output EXCEPT ![a] = 0]
            /\ UNCHANGED <<attempt, marker>>
    /\ UNCHANGED <<remoteFiles, producer, consumers, node>>

Removed ==
    /\ marker = 0 /\ attempt = 0 /\ output = Nothing
    /\ Runs("remove", "done")
    /\ UNCHANGED <<localFiles, remoteFiles, next, conflict, consumers, node>>

ProducerNext ==
    \/ TrustLocalMarker \/ RestoreMarker \/ RestoreNoMarker \/ Command
    \/ UploadArtifact \/ ArtifactRefused \/ Mark \/ Publish \/ MarkerRefused
    \/ PruneChecked \/ PruneRefused \/ RemoveFile \/ Removed

-----------------------------------------------------------------------------
\* A consumer: _restore_dependency.

Steps(c, from, to) == step[c] = from /\ step' = [step EXCEPT ![c] = to]

\* A consumer on the node of a runtime job is never in the gate together with it.
Admitted(c) == c \in Other \/ "measured" \notin kind \/ phase \in {"done", "failed"}

\* The marker is in the dependency directory since an earlier session.
HasMarker(c) ==
    /\ copyMarker[c] \notin {0, Torn} /\ Admitted(c)
    /\ Steps(c, "wait", "fetch")
    /\ UNCHANGED <<localFiles, remoteFiles, producer, item, copyMarker, copyOutput, node>>

\* _validate_completion cannot read what an interrupted copy left.
MarkerRaises(c) ==
    /\ copyMarker[c] = Torn /\ Admitted(c)
    /\ Steps(c, "wait", "failed")
    /\ UNCHANGED <<localFiles, remoteFiles, producer, item, copyMarker, copyOutput, node>>

\* local_marker.is_file() ...
SeesMarker(c) ==
    /\ c \in Local /\ copyMarker[c] = 0 /\ marker # 0 /\ Admitted(c)
    /\ Steps(c, "wait", "copy_marker")
    /\ UNCHANGED <<localFiles, remoteFiles, producer, item, copyMarker, copyOutput, node>>

\* ... copyfile: the file may be gone by now.
CopiesMarker(c) ==
    /\ marker # 0
    /\ Steps(c, "copy_marker", "fetch")
    /\ copyMarker' = [copyMarker EXCEPT ![c] = marker]
    /\ UNCHANGED <<localFiles, remoteFiles, producer, item, copyOutput, node>>

DownloadsMarker(c) ==
    /\ copyMarker[c] = 0 /\ (c \in Local => marker = 0) /\ remoteMarker # 0 /\ Admitted(c)
    /\ Steps(c, "wait", "fetch")
    /\ copyMarker' = [copyMarker EXCEPT ![c] = remoteMarker]
    /\ UNCHANGED <<localFiles, remoteFiles, producer, item, copyOutput, node>>

\* InterruptedError or TimeoutError: no marker was found, and the worker is stopped or
\* the deadline has passed.
GivesUp(c) ==
    /\ ~calm /\ copyMarker[c] = 0 /\ Admitted(c)
    /\ Steps(c, "wait", "failed")
    /\ UNCHANGED <<localFiles, remoteFiles, producer, item, copyMarker, copyOutput, node>>

\* Faulty variant: a file that is there is compared and never fetched again.
HasFile(c) ==
    /\ step[c] = "fetch" /\ item[c] <= Artifacts
    /\ copyOutput[c][item[c]] # 0
    /\ IF copyOutput[c][item[c]] = copyMarker[c]
       THEN item' = [item EXCEPT ![c] = @ + 1] /\ UNCHANGED step
       ELSE Steps(c, "fetch", "failed") /\ UNCHANGED item
    /\ UNCHANGED <<localFiles, remoteFiles, producer, copyMarker, copyOutput, node>>

\* The artifact has been fetched, now or in an earlier session.
HasArtifact(c) ==
    /\ step[c] = "fetch" /\ item[c] <= Artifacts
    /\ copyOutput[c][item[c]] = copyMarker[c]
    /\ item' = [item EXCEPT ![c] = @ + 1]
    /\ UNCHANGED <<localFiles, remoteFiles, producer, step, copyMarker, copyOutput, node>>

Needs(c) == item[c] <= Artifacts /\ copyOutput[c][item[c]] # copyMarker[c]

\* local_source.is_file() ...
SeesArtifact(c) ==
    /\ Needs(c) /\ c \in Local /\ output[item[c]] # 0
    /\ Steps(c, "fetch", "copy_artifact")
    /\ UNCHANGED <<localFiles, remoteFiles, producer, item, copyMarker, copyOutput, node>>

\* ... copyfile and the comparison with the digest in the marker.
CopiesArtifact(c) ==
    /\ step[c] = "copy_artifact" /\ output[item[c]] # 0
    /\ copyOutput' = [copyOutput EXCEPT ![c][item[c]] = output[item[c]]]
    /\ Steps(c, "copy_artifact",
             IF output[item[c]] = copyMarker[c] THEN "fetch" ELSE "failed")
    /\ UNCHANGED <<localFiles, remoteFiles, producer, item, copyMarker, node>>

\* A download is only moved into place when it has the digest in the marker.
DownloadsArtifact(c) ==
    /\ Needs(c) /\ (c \in Local => output[item[c]] = 0)
    /\ remoteOutput[item[c]] = copyMarker[c]
    /\ Steps(c, "fetch", "fetch")
    /\ copyOutput' = [copyOutput EXCEPT ![c][item[c]] = copyMarker[c]]
    /\ UNCHANGED <<localFiles, remoteFiles, producer, item, copyMarker, node>>

\* FileNotFoundError: the directory was pruned between the look and the copy.
CopyRaises(c) ==
    /\ \/ Steps(c, "copy_marker", "failed") /\ marker = 0
       \/ Steps(c, "copy_artifact", "failed") /\ output[item[c]] = 0
    /\ UNCHANGED <<localFiles, remoteFiles, producer, item, copyMarker, copyOutput, node>>

\* The store fails after all retries, or says that the object is missing.
DownloadRaises(c) ==
    /\ ~calm
    /\ \/ Steps(c, "wait", "failed") /\ copyMarker[c] = 0 /\ Admitted(c)
       \/ Steps(c, "fetch", "failed") /\ Needs(c)
    /\ c \in Local => IF step[c] = "wait" THEN marker = 0 ELSE output[item[c]] = 0
    /\ UNCHANGED <<localFiles, remoteFiles, producer, item, copyMarker, copyOutput, node>>

Served(c) ==
    /\ item[c] > Artifacts
    /\ Steps(c, "fetch", "ready")
    /\ UNCHANGED <<localFiles, remoteFiles, producer, item, copyMarker, copyOutput, node>>

ConsumerNext(c) ==
    \/ HasMarker(c) \/ MarkerRaises(c) \/ SeesMarker(c) \/ CopiesMarker(c) \/ DownloadsMarker(c)
    \/ HasArtifact(c) \/ SeesArtifact(c) \/ CopiesArtifact(c) \/ DownloadsArtifact(c)
    \/ CopyRaises(c) \/ Served(c)

ConsumerFails(c) == GivesUp(c) \/ DownloadRaises(c)

-----------------------------------------------------------------------------
\* The consumers in `again` start over.
ConsumersRestart(again) ==
    /\ ~calm
    /\ step' = [c \in Consumers |-> IF c \in again THEN "wait" ELSE step[c]]
    /\ item' = [c \in Consumers |-> IF c \in again THEN 1 ELSE item[c]]

\* copyfile writes in place: the copy a kill comes upon is torn.
CopiesTorn(again) ==
    /\ \E torn \in SUBSET {c \in again : step[c] = "copy_marker"} :
         copyMarker' = [c \in Consumers |-> IF c \in torn THEN Torn ELSE copyMarker[c]]
    /\ \E torn \in SUBSET {c \in again : step[c] = "copy_artifact"} :
         copyOutput' = [c \in Consumers |->
            IF c \in torn THEN [copyOutput[c] EXCEPT ![item[c]] = Torn] ELSE copyOutput[c]]

CopiesLost(again) ==
    /\ copyMarker' = [c \in Consumers |-> IF c \in again THEN 0 ELSE copyMarker[c]]
    /\ copyOutput' = [c \in Consumers |-> IF c \in again THEN Nothing ELSE copyOutput[c]]

\* The producer's node starts again, after a kill or after a failure, and with it its
\* consumers that have not completed.
NodeRestarts(again) ==
    /\ session < MaxSessions
    /\ phase # "done" \/ again # {}
    /\ \A c \in Local \ again : step[c] = "ready"
    /\ session' = session + 1
    /\ phase' = "restore" /\ next' = 1
    /\ ConsumersRestart(again)
    /\ UNCHANGED <<remoteFiles, conflict, kind, calm>>

RestartKeepsDisk ==
    /\ \E again \in SUBSET Local : NodeRestarts(again) /\ CopiesTorn(again)
    /\ UNCHANGED localFiles

RestartLosesDisk ==
    /\ \E again \in SUBSET Local : NodeRestarts(again) /\ CopiesLost(again)
    /\ attempt' = 0 /\ output' = Nothing /\ marker' = 0

\* Another node starts again.
OtherRestarts ==
    /\ \E c \in Other :
         /\ ConsumersRestart({c})
         /\ UNCHANGED <<copyMarker, copyOutput>> \/ CopiesLost({c})
    /\ UNCHANGED <<localFiles, remoteFiles, producer, node>>

CalmsDown ==
    /\ ~calm /\ calm' = TRUE
    /\ UNCHANGED <<localFiles, remoteFiles, producer, consumers, kind, session>>

Idle == phase \in {"done", "failed"} /\ UNCHANGED vars

Next ==
    \/ ProducerNext \/ StoreFails
    \/ \E c \in Consumers : ConsumerNext(c) \/ ConsumerFails(c)
    \/ RestartKeepsDisk \/ RestartLosesDisk \/ OtherRestarts \/ CalmsDown \/ Idle

\* Slot threads make progress; a consumer polls until its marker is there.  Nothing has
\* to fail, to be started again or to calm down.
Fairness == WF_vars(ProducerNext) /\ \A c \in Consumers : WF_vars(ConsumerNext(c))

Spec == Init /\ [][Next]_vars /\ Fairness

-----------------------------------------------------------------------------
TypeOK ==
    /\ kind \in Kinds
    /\ attempt \in Versions /\ marker \in Versions /\ remoteMarker \in Versions
    /\ output \in [Index -> Versions] /\ remoteOutput \in [Index -> Versions]
    /\ phase \in {"restore", "command", "upload", "publish", "prune", "remove",
                  "done", "failed"}
    /\ next \in 1 .. Artifacts + 1
    /\ conflict \in BOOLEAN
    /\ step \in [Consumers -> {"wait", "copy_marker", "fetch", "copy_artifact",
                               "ready", "failed"}]
    /\ item \in [Consumers -> 1 .. Artifacts + 1]
    /\ copyMarker \in [Consumers -> Copies]
    /\ copyOutput \in [Consumers -> [Index -> Copies]]
    /\ session \in 1 .. MaxSessions /\ calm \in BOOLEAN

\* A marker, here or in the remote store, never names a result that other nodes could
\* not fetch whole: all artifacts are there first, and of the same attempt.
MarkerMeansWhole ==
    \A v \in {marker, remoteMarker} \ {0} : remoteOutput = All(v)

\* Whatever crashes, retries and prunings come between: everybody who was served got
\* the result that stays in the remote store, so no two consumers ever compute with
\* different attempts of one runtime job.
ConsumersAgree ==
    \A c \in Consumers : step[c] = "ready" => copyOutput[c] = remoteOutput

\* A consumer of a published result that has its surroundings calm, and beside it neither
\* a job that still runs nor the artifacts of another attempt.
Undisturbed(c) ==
    /\ calm /\ remoteMarker # 0
    /\ step[c] \in {"wait", "fetch"} /\ copyMarker[c] # Torn
    /\ c \in Local =>
        phase \in {"done", "failed"} /\ \A a \in Index : output[a] \in {0, remoteOutput[a]}

\* What failed downloads, deadlines, stops, kills in the middle of a copy and prunings
\* leave behind keeps no later session from a published result: started again, and left
\* alone, it is served.  The exceptions are what the code does: a torn copy of the marker
\* makes every later session on that disk fail; and a consumer takes the artifacts of the
\* slot beside it, be they those of a measurement that was made again, and refused,
\* because the gcloud command did not see that it was published.
PublishedIsServed ==
    \A c \in Consumers : Undisturbed(c) ~> step[c] = "ready"
=============================================================================
