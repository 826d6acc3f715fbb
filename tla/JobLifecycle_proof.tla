-------------------------- MODULE JobLifecycle_proof --------------------------
(***************************************************************************)
(* Proofs about JobLifecycle, for any number of artifacts, consumers and   *)
(* restarts: a marker stands for a whole result, and whoever was served    *)
(* has the result that stays in the remote store.  Both rest on one fact:  *)
(* while artifacts are uploaded there is no marker on the node, and once a *)
(* marker was seen every object is there, so that upload_immutable changes *)
(* none, even when the store's answers hide them.                          *)
(***************************************************************************)
EXTENDS JobLifecycle, TLAPS

\* Artifacts are uploaded without a marker, one after the other, from one attempt.
Uploading ==
    /\ phase \in {"command", "upload"} => marker = 0
    /\ phase = "upload" =>
        /\ \E v \in Versions \ {0} : output = All(v)
        /\ \A a \in 1 .. next - 1 : remoteOutput[a] = output[a]

\* A copied marker that can be read names what is in the remote store.
CopiesAreWhole ==
    \A c \in Consumers : copyMarker[c] \notin {0, Torn} => remoteOutput = All(copyMarker[c])

\* How far the copy of a consumer has come.
Reached(at, n, m, out) ==
    /\ at \in {"wait", "copy_marker"} => n = 1
    /\ at \in {"fetch", "copy_artifact", "ready"} => m \notin {0, Torn}
    /\ at = "copy_artifact" => n <= Artifacts
    /\ at = "ready" => n = Artifacts + 1
    /\ \A a \in 1 .. n - 1 : out[a] = m

Fetched == \A c \in Consumers : Reached(step[c], item[c], copyMarker[c], copyOutput[c])

Inv == TypeOK /\ MarkerMeansWhole /\ Uploading /\ CopiesAreWhole /\ Fetched

LEMMA InitInv == Init => Inv
<1> USE LifecycleAssumption DEF Init, Versions, Index, Nothing
<1>1. Init => TypeOK
    <2> SUFFICES ASSUME Init PROVE TypeOK
        OBVIOUS
    <2>1. Nothing \in [Index -> Versions]
        OBVIOUS
    <2>2. copyOutput \in [Consumers -> [Index -> Copies]]
        BY DEF Copies
    <2> HIDE DEF Nothing
    <2>3. output \in [Index -> Versions] /\ remoteOutput \in [Index -> Versions]
        BY <2>1
    <2>4. attempt \in Versions /\ marker \in Versions /\ remoteMarker \in Versions
        OBVIOUS
    <2>5. next \in 1 .. Artifacts + 1 /\ session \in 1 .. MaxSessions
        OBVIOUS
    <2>6. item \in [Consumers -> 1 .. Artifacts + 1] /\ copyMarker \in [Consumers -> Copies]
        BY DEF Copies
    <2> HIDE LifecycleAssumption DEF Versions, Index
    <2> QED BY <2>2, <2>3, <2>4, <2>5, <2>6 DEF TypeOK
<1>2. Init => MarkerMeansWhole /\ Uploading /\ CopiesAreWhole /\ Fetched
    BY DEF MarkerMeansWhole, Uploading, CopiesAreWhole, Fetched, Reached
<1> QED BY <1>1, <1>2 DEF Inv

-----------------------------------------------------------------------------
\* The producer and its failures, which leave the consumers alone.

ProducerStep == ProducerNext \/ StoreFails

LEMMA ProducerTyped ==
    ASSUME Inv, ProducerStep
    PROVE  TypeOK'
<1> USE LifecycleAssumption DEF Inv, TypeOK, Versions, Index, localFiles, remoteFiles, consumers, node
<1>1. CASE Command
    BY <1>1 DEF Command, Runs, All
<1>2. CASE UploadArtifact
    <2>1. next \in Index /\ output[next] \in Versions
        BY <1>2 DEF UploadArtifact
    <2> QED BY <1>2, <2>1 DEF UploadArtifact
<1>3. CASE Mark
    <2>1. 1 \in Index /\ output[1] \in Versions
        OBVIOUS
    <2> QED BY <1>3, <2>1 DEF Mark, Runs
<1>4. CASE StoreFails
    <2>1. next <= Artifacts => next \in Index /\ output[next] \in Versions
        OBVIOUS
    <2> QED BY <1>4, <2>1 DEF StoreFails, Runs
<1>5. CASE RemoveFile
    <2>1. \/ output' = output \/ \E a \in Index : output' = [output EXCEPT ![a] = 0]
        BY <1>5 DEF RemoveFile
    <2>2. output' \in [Index -> Versions]
        <3>1. output \in [Index -> Versions] /\ 0 \in Versions
            OBVIOUS
        <3> HIDE LifecycleAssumption DEF Versions, Index
        <3> QED BY <2>1, <3>1
    <2>3. attempt' \in {attempt, 0} /\ marker' \in {marker, 0}
        BY <1>5 DEF RemoveFile
    <2>4. UNCHANGED <<remoteFiles, producer, consumers, node>>
        BY <1>5 DEF RemoveFile
    <2>5. attempt' \in Versions /\ marker' \in Versions
        BY <2>3
    <2> HIDE LifecycleAssumption DEF Versions, Index
    <2> QED BY <2>2, <2>4, <2>5 DEF producer
<1>6. CASE TrustLocalMarker \/ RestoreMarker \/ RestoreNoMarker
    BY <1>6 DEF TrustLocalMarker, RestoreMarker, RestoreNoMarker, Runs, AfterMarker
<1>7. CASE ArtifactRefused \/ Publish \/ MarkerRefused
    BY <1>7 DEF ArtifactRefused, Publish, MarkerRefused, Runs, AfterMarker
<1>8. CASE PruneChecked \/ PruneRefused \/ Removed
    BY <1>8 DEF PruneChecked, PruneRefused, Removed, Runs
<1> QED BY <1>1, <1>2, <1>3, <1>4, <1>5, <1>6, <1>7, <1>8 DEF ProducerStep, ProducerNext

\* An object that is there is not changed by an upload.
LEMMA ObjectsStay ==
    ASSUME Inv, ProducerStep
    PROVE  \A v \in Versions \ {0} : remoteOutput = All(v) => remoteOutput' = All(v)
<1> USE LifecycleAssumption DEF Inv, TypeOK, Versions, Index, remoteFiles
<1>1. CASE UploadArtifact
    <2> SUFFICES ASSUME NEW v \in Versions \ {0}, remoteOutput = All(v)
                 PROVE  remoteOutput' = All(v)
        OBVIOUS
    <2>1. next \in Index
        BY <1>1 DEF UploadArtifact
    <2>2. remoteOutput[next] = v
        BY <2>1 DEF All
    <2>3. output[next] = v
        BY <1>1, <2>2 DEF UploadArtifact
    <2>4. remoteOutput' = [remoteOutput EXCEPT ![next] = v]
        BY <1>1, <2>3 DEF UploadArtifact
    <2> QED BY <2>1, <2>2, <2>4 DEF All
<1>2. CASE StoreFails
    <2> SUFFICES ASSUME NEW v \in Versions \ {0}, remoteOutput = All(v)
                 PROVE  remoteOutput' = All(v)
        OBVIOUS
    <2>1. next <= Artifacts => remoteOutput[next] # 0
        BY DEF All
    <2> QED BY <1>2, <2>1 DEF StoreFails
<1>3. CASE ~UploadArtifact /\ ~StoreFails
    BY <1>3 DEF ProducerStep, ProducerNext, Command, Mark, RemoveFile, TrustLocalMarker, RestoreMarker,
       RestoreNoMarker, ArtifactRefused, Publish, MarkerRefused, PruneChecked, PruneRefused, Removed
<1> QED BY <1>1, <1>2, <1>3

LEMMA ProducerWhole ==
    ASSUME Inv, ProducerStep
    PROVE  MarkerMeansWhole'
<1> USE LifecycleAssumption DEF Inv, TypeOK, Versions
<1>1. \A v \in Versions \ {0} : remoteOutput = All(v) => remoteOutput' = All(v)
    BY ObjectsStay
<1>2. CASE Mark
    <2>1. PICK v \in Versions \ {0} : output = All(v)
        BY <1>2 DEF Mark, Runs, Uploading
    <2>2. next = Artifacts + 1
        BY <1>2 DEF Mark
    <2>3. \A a \in Index : remoteOutput[a] = output[a]
        BY <1>2, <2>2 DEF Mark, Runs, Uploading, Index
    <2>4. remoteOutput = All(v) /\ output[1] = v
        BY <2>1, <2>3 DEF All, Index
    <2>5. marker' = v /\ remoteMarker' = remoteMarker
        BY <1>2, <2>4 DEF Mark, remoteFiles
    <2> QED BY <1>1, <2>1, <2>4, <2>5 DEF MarkerMeansWhole
<1>3. CASE ~Mark
    <2>1. {marker', remoteMarker'} \subseteq {marker, remoteMarker, 0}
        BY <1>3 DEF ProducerStep, ProducerNext, Command, RemoveFile, TrustLocalMarker, RestoreMarker,
           RestoreNoMarker, UploadArtifact, ArtifactRefused, Publish, MarkerRefused, PruneChecked, PruneRefused,
           Removed, StoreFails, localFiles, remoteFiles
    <2> QED BY <1>1, <2>1 DEF MarkerMeansWhole
<1> QED BY <1>2, <1>3

LEMMA ProducerUploading ==
    ASSUME Inv, ProducerStep
    PROVE  Uploading'
<1> USE LifecycleAssumption DEF Inv, TypeOK, Versions, localFiles, remoteFiles
<1>1. CASE Command
    <2>1. attempt' \in Versions \ {0}
        <3>1. attempt' = IF "measured" \notin kind THEN 1 ELSE IF attempt # 0 THEN attempt ELSE session
            BY <1>1 DEF Command
        <3> QED BY <3>1
    <2>2. output' = All(attempt') /\ next' = 1 /\ marker' = 0 /\ phase' = "upload"
        BY <1>1 DEF Command, Runs, Uploading
    <2> QED BY <2>1, <2>2 DEF Uploading
<1>2. CASE UploadArtifact
    <2>1. phase' = "upload" /\ marker' = 0 /\ output' = output /\ next' = next + 1
        BY <1>2 DEF UploadArtifact, Uploading
    <2>2. next' - 1 = next
        BY <2>1
    <2>4. \A a \in 1 .. next' - 1 : remoteOutput'[a] = output'[a]
        BY <1>2, <2>1, <2>2 DEF UploadArtifact, Uploading, Index
    <2>3. \E v \in Versions \ {0} : output = All(v)
        BY <1>2 DEF UploadArtifact, Uploading
    <2> QED BY <2>1, <2>3, <2>4 DEF Uploading
<1>3. CASE RestoreNoMarker
    BY <1>3 DEF RestoreNoMarker, Runs, Uploading
<1>4. CASE ~Command /\ ~UploadArtifact /\ ~RestoreNoMarker
    <2>1. phase' \notin {"command", "upload"}
        BY <1>4 DEF ProducerStep, ProducerNext, Mark, RemoveFile, TrustLocalMarker, RestoreMarker,
           ArtifactRefused, Publish, MarkerRefused, PruneChecked, PruneRefused, Removed, StoreFails, Runs,
           AfterMarker, producer
    <2> QED BY <2>1 DEF Uploading
<1> QED BY <1>1, <1>2, <1>3, <1>4

LEMMA ProducerCopies ==
    ASSUME Inv, ProducerStep
    PROVE  CopiesAreWhole' /\ Fetched'
<1>1. UNCHANGED consumers
    BY DEF ProducerStep, ProducerNext, TrustLocalMarker, RestoreMarker, RestoreNoMarker, Command,
       UploadArtifact, ArtifactRefused, Mark, Publish, MarkerRefused, PruneChecked, PruneRefused, RemoveFile,
       Removed, StoreFails
<1>2. Fetched'
    BY <1>1 DEF Inv, Fetched, consumers
<1>3. CopiesAreWhole'
    <2> SUFFICES ASSUME NEW c \in Consumers, copyMarker'[c] \notin {0, Torn}
                 PROVE  remoteOutput' = All(copyMarker'[c])
        BY DEF CopiesAreWhole, All, Torn
    <2>1. copyMarker'[c] = copyMarker[c] /\ copyMarker[c] \in Versions \ {0}
        BY <1>1 DEF Inv, TypeOK, Copies, consumers
    <2> QED BY <2>1, ObjectsStay DEF Inv, CopiesAreWhole
<1> QED BY <1>2, <1>3

-----------------------------------------------------------------------------
\* A consumer, which leaves the producer alone.

\* A step of one consumer moves no other.
Moves(c, at, n, m, out) ==
    /\ step' = [step EXCEPT ![c] = at] /\ item' = [item EXCEPT ![c] = n]
    /\ copyMarker' = [copyMarker EXCEPT ![c] = m] /\ copyOutput' = [copyOutput EXCEPT ![c] = out]

ConsumerSteps ==
    {"wait", "copy_marker", "fetch", "copy_artifact", "ready", "failed"}

LEMMA MovesKeep ==
    ASSUME Inv, NEW c \in Consumers, NEW at \in ConsumerSteps, NEW n \in 1 .. Artifacts + 1,
           NEW m \in Copies, NEW out \in [Index -> Copies],
           UNCHANGED <<localFiles, remoteFiles, producer, node>>,
           Moves(c, at, n, m, out), Reached(at, n, m, out),
           m \notin {0, Torn} => remoteOutput = All(m)
    PROVE  Inv'
<1>1. /\ step \in [Consumers -> ConsumerSteps] /\ item \in [Consumers -> 1 .. Artifacts + 1]
      /\ copyMarker \in [Consumers -> Copies]
      /\ copyOutput \in [Consumers -> [Index -> Copies]]
    BY DEF Inv, TypeOK, ConsumerSteps
<1>2. /\ step' \in [Consumers -> ConsumerSteps] /\ item' \in [Consumers -> 1 .. Artifacts + 1]
      /\ copyMarker' \in [Consumers -> Copies]
    BY <1>1 DEF Moves
<1>3. copyOutput' \in [Consumers -> [Index -> Copies]]
    <2> DEFINE T == [Index -> Copies]
    <2>1. out \in T /\ copyOutput \in [Consumers -> T]
        BY <1>1
    <2> HIDE DEF T
    <2>2. copyOutput' \in [Consumers -> T]
        BY <2>1 DEF Moves
    <2> QED BY <2>2 DEF T
<1>4. TypeOK'
    BY <1>2, <1>3 DEF Inv, TypeOK, ConsumerSteps, localFiles, remoteFiles, producer, node
<1>5. MarkerMeansWhole' /\ Uploading'
    BY DEF Inv, MarkerMeansWhole, Uploading, localFiles, remoteFiles, producer
<1>6. CopiesAreWhole'
    BY <1>1 DEF Inv, Moves, CopiesAreWhole, remoteFiles
<1>7. Fetched'
    <2> SUFFICES ASSUME NEW d \in Consumers
                 PROVE  Reached(step'[d], item'[d], copyMarker'[d], copyOutput'[d])
        BY DEF Fetched, Reached
    <2>1. CASE d = c
        BY <1>1, <2>1 DEF Moves
    <2>2. CASE d # c
        BY <1>1, <2>2 DEF Moves, Inv, Fetched
    <2> QED BY <2>1, <2>2
<1> QED BY <1>4, <1>5, <1>6, <1>7 DEF Inv

LEMMA ConsumerStep ==
    ASSUME Inv, NEW c \in Consumers, ConsumerNext(c) \/ ConsumerFails(c)
    PROVE  Inv'
<1>1. UNCHANGED <<localFiles, remoteFiles, producer, node>>
    BY DEF ConsumerNext, ConsumerFails, GivesUp, DownloadRaises, MarkerRaises, HasMarker, SeesMarker, CopiesMarker, DownloadsMarker, HasArtifact,
       SeesArtifact, CopiesArtifact, DownloadsArtifact, CopyRaises, Served, Steps
<1> DEFINE at == step[c]
           n == item[c]
           m == copyMarker[c]
           out == copyOutput[c]
<1>2. /\ at \in ConsumerSteps /\ n \in 1 .. Artifacts + 1 /\ m \in Copies
      /\ out \in [Index -> Copies]
      /\ m \notin {0, Torn} => remoteOutput = All(m)
      /\ Reached(at, n, m, out)
    BY DEF Inv, TypeOK, ConsumerSteps, CopiesAreWhole, Fetched
<1>3. /\ [step EXCEPT ![c] = at] = step /\ [item EXCEPT ![c] = n] = item
      /\ [copyMarker EXCEPT ![c] = m] = copyMarker /\ [copyOutput EXCEPT ![c] = out] = copyOutput
    BY DEF Inv, TypeOK
<1>4. CASE \/ HasMarker(c) \/ SeesMarker(c) \/ SeesArtifact(c) \/ Served(c)
            \/ CopyRaises(c) \/ MarkerRaises(c) \/ ConsumerFails(c)
    <2> DEFINE Allowed(w) ==
                /\ w = "copy_marker" => n = 1
                /\ w \in {"fetch", "copy_artifact", "ready"} => m \notin {0, Torn}
                /\ w = "copy_artifact" => n <= Artifacts
                /\ w = "ready" => n = Artifacts + 1
                /\ w # "wait"
    <2>1. \E w \in ConsumerSteps : step' = [step EXCEPT ![c] = w] /\ Allowed(w)
        <3>1. CASE HasMarker(c)
            <4>1. step' = [step EXCEPT ![c] = "fetch"] /\ Allowed("fetch")
                BY <3>1 DEF HasMarker, Steps
            <4> QED BY <4>1 DEF ConsumerSteps
        <3>2. CASE SeesMarker(c)
            <4>1. step' = [step EXCEPT ![c] = "copy_marker"] /\ Allowed("copy_marker")
                BY <1>2, <3>2 DEF SeesMarker, Steps, Reached
            <4> QED BY <4>1 DEF ConsumerSteps
        <3>3. CASE SeesArtifact(c)
            <4>1. step' = [step EXCEPT ![c] = "copy_artifact"] /\ Allowed("copy_artifact")
                BY <1>2, <3>3 DEF SeesArtifact, Steps, Reached, Needs
            <4> QED BY <4>1 DEF ConsumerSteps
        <3>4. CASE CopyRaises(c) \/ MarkerRaises(c) \/ ConsumerFails(c)
            <4>1. step' = [step EXCEPT ![c] = "failed"] /\ Allowed("failed")
                BY <3>4 DEF CopyRaises, MarkerRaises, ConsumerFails, GivesUp, DownloadRaises, Steps
            <4> QED BY <4>1 DEF ConsumerSteps
        <3>5. CASE Served(c)
            <4>1. step' = [step EXCEPT ![c] = "ready"] /\ Allowed("ready")
                BY <1>2, <3>5, LifecycleAssumption DEF Served, Steps, Reached
            <4> QED BY <4>1 DEF ConsumerSteps
        <3> QED BY <1>4, <3>1, <3>2, <3>3, <3>4, <3>5
    <2> PICK w \in ConsumerSteps : step' = [step EXCEPT ![c] = w] /\ Allowed(w)
        BY <2>1
    <2>2. Moves(c, w, n, m, out)
        <3>1. UNCHANGED <<item, copyMarker, copyOutput>>
            BY <1>4 DEF HasMarker, SeesMarker, SeesArtifact, CopyRaises, Served, MarkerRaises,
               ConsumerFails, GivesUp, DownloadRaises
        <3> QED BY <1>3, <3>1 DEF Moves
    <2>3. Reached(w, n, m, out)
        BY <1>2 DEF Reached
    <2> HIDE DEF at, n, m, out
    <2> QED BY <1>1, <1>2, <2>2, <2>3, MovesKeep
<1>5. CASE CopiesMarker(c) \/ DownloadsMarker(c)
    <2>1. PICK v \in Versions \ {0} :
                v \in {marker, remoteMarker} /\ copyMarker' = [copyMarker EXCEPT ![c] = v]
        BY <1>5 DEF CopiesMarker, DownloadsMarker, Inv, TypeOK
    <2>2. remoteOutput = All(v)
        BY <2>1 DEF Inv, MarkerMeansWhole
    <2>3. Moves(c, "fetch", n, v, out)
        BY <1>3, <1>5, <2>1 DEF Moves, CopiesMarker, DownloadsMarker, Steps
    <2>4. n = 1
        BY <1>2, <1>5 DEF CopiesMarker, DownloadsMarker, Steps, Reached
    <2>5. Reached("fetch", n, v, out) /\ v \in Copies
        BY <2>1, <2>4, LifecycleAssumption DEF Reached, Versions, Copies, Torn
    <2>6. "fetch" \in ConsumerSteps
        BY DEF ConsumerSteps
    <2> HIDE DEF at, n, m, out
    <2> QED BY <1>1, <1>2, <2>1, <2>2, <2>3, <2>5, <2>6, MovesKeep
<1>6. CASE HasArtifact(c)
    <2>1. at = "fetch" /\ n <= Artifacts /\ out[n] = m
        BY <1>6 DEF HasArtifact
    <2>2. Moves(c, at, n + 1, m, out)
        BY <1>3, <1>6 DEF Moves, HasArtifact
    <2> HIDE DEF at, n, m, out
    <2>3. n + 1 \in 1 .. Artifacts + 1
        BY <1>2, <2>1, LifecycleAssumption
    <2>4. Reached(at, n + 1, m, out)
        BY <1>2, <2>1, <2>3 DEF Reached
    <2> QED BY <1>1, <1>2, <2>2, <2>3, <2>4, MovesKeep
<1>7. CASE CopiesArtifact(c) \/ DownloadsArtifact(c)
    <2>1. n \in Index /\ at \in {"fetch", "copy_artifact"}
        BY <1>2, <1>7 DEF CopiesArtifact, DownloadsArtifact, Steps, Needs, Reached, Index
    <2>2. PICK v \in Copies : copyOutput' = [copyOutput EXCEPT ![c][n] = v]
        BY <1>2, <1>7, <2>1 DEF CopiesArtifact, DownloadsArtifact, Inv, TypeOK, Copies
    <2>3. PICK w \in {"fetch", "failed"} : step' = [step EXCEPT ![c] = w]
        BY <1>7 DEF CopiesArtifact, DownloadsArtifact, Steps
    <2> DEFINE more == [out EXCEPT ![n] = v]
    <2>4. Moves(c, w, n, m, more)
        BY <1>3, <1>7, <2>2, <2>3 DEF Moves, CopiesArtifact, DownloadsArtifact
    <2> HIDE DEF at, n, m, out
    <2>5. more \in [Index -> Copies]
        BY <1>2, <2>1
    <2>6. \A a \in 1 .. n - 1 : more[a] = out[a]
        BY <1>2, <2>1, LifecycleAssumption DEF Index
    <2> HIDE DEF more
    <2>7. Reached(w, n, m, more)
        BY <1>2, <2>1, <2>3, <2>6 DEF Reached
    <2>8. w \in ConsumerSteps
        BY <2>3 DEF ConsumerSteps
    <2> QED BY <1>1, <1>2, <2>4, <2>5, <2>7, <2>8, MovesKeep
<1> QED BY <1>4, <1>5, <1>6, <1>7 DEF ConsumerNext

-----------------------------------------------------------------------------
\* Consumers that start over, with the copies of their disk, some of them torn, or none.
LEMMA AgainKeeps ==
    ASSUME Inv, NEW again \in SUBSET Consumers, ConsumersRestart(again),
           \/ CopiesTorn(again)
           \/ CopiesLost(again)
           \/ UNCHANGED <<copyMarker, copyOutput>>,
           UNCHANGED remoteFiles
    PROVE  /\ step' \in [Consumers -> ConsumerSteps] /\ item' \in [Consumers -> 1 .. Artifacts + 1]
           /\ copyMarker' \in [Consumers -> Copies]
           /\ copyOutput' \in [Consumers -> [Index -> Copies]]
           /\ CopiesAreWhole' /\ Fetched'
<1>1. /\ step \in [Consumers -> ConsumerSteps] /\ item \in [Consumers -> 1 .. Artifacts + 1]
      /\ copyMarker \in [Consumers -> Copies]
      /\ copyOutput \in [Consumers -> [Index -> Copies]]
    BY DEF Inv, TypeOK, ConsumerSteps
<1>2. 0 \in Copies /\ Torn \in Copies /\ 1 \in 1 .. Artifacts + 1 /\ Nothing \in [Index -> Copies]
    BY LifecycleAssumption DEF Versions, Copies, Nothing
<1>3. /\ step' = [c \in Consumers |-> IF c \in again THEN "wait" ELSE step[c]]
      /\ item' = [c \in Consumers |-> IF c \in again THEN 1 ELSE item[c]]
    BY DEF ConsumersRestart
<1>4. step' \in [Consumers -> ConsumerSteps] /\ item' \in [Consumers -> 1 .. Artifacts + 1]
    BY <1>1, <1>2, <1>3 DEF ConsumerSteps
<1>5. PICK lost \in SUBSET again, bad \in {0, Torn} :
        copyMarker' = [c \in Consumers |-> IF c \in lost THEN bad ELSE copyMarker[c]]
    <2>1. CASE CopiesTorn(again)
        BY <2>1 DEF CopiesTorn
    <2>2. CASE CopiesLost(again)
        BY <2>2 DEF CopiesLost
    <2>3. CASE copyMarker' = copyMarker
        <3>1. copyMarker' = [c \in Consumers |-> IF c \in {} THEN 0 ELSE copyMarker[c]]
            BY <1>1, <2>3
        <3>2. {} \in SUBSET again /\ 0 \in {0, Torn}
            OBVIOUS
        <3> QED BY <3>1, <3>2, Zenon
    <2> QED BY <2>1, <2>2, <2>3
<1>6. copyMarker' \in [Consumers -> Copies]
    BY <1>1, <1>2, <1>5
<1>7. /\ copyOutput' \in [Consumers -> [Index -> Copies]]
      /\ \A c \in Consumers \ again : copyOutput'[c] = copyOutput[c]
    <2> DEFINE T == [Index -> Copies]
    <2>1. Nothing \in T /\ copyOutput \in [Consumers -> T]
        BY <1>1, <1>2
    <2>2. \A c \in Consumers : [copyOutput[c] EXCEPT ![item[c]] = Torn] \in T
        BY <1>1, <1>2
    <2> HIDE DEF T, Nothing
    <2>3. copyOutput' \in [Consumers -> T] /\ \A c \in Consumers \ again : copyOutput'[c] = copyOutput[c]
        <3>1. CASE CopiesTorn(again)
            <4>1. PICK torn \in SUBSET again : copyOutput' = [c \in Consumers |->
                    IF c \in torn THEN [copyOutput[c] EXCEPT ![item[c]] = Torn] ELSE copyOutput[c]]
                BY <3>1 DEF CopiesTorn
            <4>2. \A c \in Consumers : copyOutput[c] \in T
                BY <2>1
            <4> QED BY <2>2, <4>1, <4>2
        <3>2. CASE CopiesLost(again)
            BY <2>1, <3>2 DEF CopiesLost
        <3>3. CASE copyOutput' = copyOutput
            BY <2>1, <3>3
        <3> QED BY <3>1, <3>2, <3>3
    <2> QED BY <2>3 DEF T
<1>8. CopiesAreWhole'
    <2> SUFFICES ASSUME NEW c \in Consumers, copyMarker'[c] \notin {0, Torn}
                 PROVE  remoteOutput' = All(copyMarker'[c])
        BY DEF CopiesAreWhole, All, Torn
    <2>1. copyMarker'[c] = copyMarker[c]
        BY <1>5
    <2> QED BY <2>1 DEF Inv, CopiesAreWhole, remoteFiles
<1>9. Fetched'
    <2> SUFFICES ASSUME NEW c \in Consumers
                 PROVE  Reached(step'[c], item'[c], copyMarker'[c], copyOutput'[c])
        BY DEF Fetched, Reached, Torn
    <2>1. CASE c \in again
        BY <1>3, <2>1 DEF Reached
    <2>2. CASE c \notin again
        <3>1. /\ step'[c] = step[c] /\ item'[c] = item[c] /\ copyMarker'[c] = copyMarker[c]
              /\ copyOutput'[c] = copyOutput[c]
            BY <1>3, <1>5, <1>7, <2>2
        <3> QED BY <3>1 DEF Inv, Fetched
    <2> QED BY <2>1, <2>2
<1> QED BY <1>4, <1>6, <1>7, <1>8, <1>9

LEMMA RestartStep ==
    ASSUME Inv, RestartKeepsDisk \/ RestartLosesDisk
    PROVE  Inv'
<1>1. PICK again \in SUBSET Local : NodeRestarts(again)
            /\ \/ CopiesTorn(again) /\ UNCHANGED localFiles
               \/ CopiesLost(again) /\ attempt' = 0 /\ output' = Nothing /\ marker' = 0
    BY DEF RestartKeepsDisk, RestartLosesDisk
<1>2. again \in SUBSET Consumers /\ ConsumersRestart(again) /\ UNCHANGED remoteFiles
    BY <1>1 DEF NodeRestarts, Consumers
<1>3. 0 \in Versions /\ 1 \in 1 .. Artifacts + 1 /\ Nothing \in [Index -> Versions]
    BY LifecycleAssumption DEF Versions, Nothing
<1>4. /\ attempt' \in Versions /\ marker' \in {marker, 0} /\ output' \in [Index -> Versions]
      /\ session' \in 1 .. MaxSessions /\ next' = 1 /\ phase' = "restore"
      /\ UNCHANGED <<remoteFiles, conflict, kind, calm>>
    BY <1>1, <1>3, LifecycleAssumption DEF Inv, TypeOK, NodeRestarts, localFiles
<1>5. /\ step' \in [Consumers -> ConsumerSteps] /\ item' \in [Consumers -> 1 .. Artifacts + 1]
      /\ copyMarker' \in [Consumers -> Copies]
      /\ copyOutput' \in [Consumers -> [Index -> Copies]]
      /\ CopiesAreWhole' /\ Fetched'
    BY <1>1, <1>2, AgainKeeps
<1>6. TypeOK'
    BY <1>3, <1>4, <1>5 DEF Inv, TypeOK, ConsumerSteps, remoteFiles
<1>7. MarkerMeansWhole' /\ Uploading'
    BY <1>4 DEF Inv, MarkerMeansWhole, Uploading, remoteFiles
<1> QED BY <1>5, <1>6, <1>7 DEF Inv

LEMMA OtherStep ==
    ASSUME Inv, OtherRestarts
    PROVE  Inv'
<1>1. PICK c \in Other : ConsumersRestart({c})
            /\ (UNCHANGED <<copyMarker, copyOutput>> \/ CopiesLost({c}))
    BY DEF OtherRestarts
<1>2. {c} \in SUBSET Consumers /\ UNCHANGED <<localFiles, remoteFiles, producer, node>>
    BY DEF OtherRestarts, Consumers
<1>3. /\ step' \in [Consumers -> ConsumerSteps] /\ item' \in [Consumers -> 1 .. Artifacts + 1]
      /\ copyMarker' \in [Consumers -> Copies]
      /\ copyOutput' \in [Consumers -> [Index -> Copies]]
      /\ CopiesAreWhole' /\ Fetched'
    BY <1>1, <1>2, AgainKeeps
<1>4. TypeOK'
    BY <1>2, <1>3 DEF Inv, TypeOK, ConsumerSteps, localFiles, remoteFiles, producer, node
<1>5. MarkerMeansWhole' /\ Uploading'
    BY <1>2 DEF Inv, MarkerMeansWhole, Uploading, localFiles, remoteFiles, producer
<1> QED BY <1>3, <1>4, <1>5 DEF Inv

LEMMA NextInv == Inv /\ [Next]_vars => Inv'
<1> SUFFICES ASSUME Inv, [Next]_vars PROVE Inv'
    OBVIOUS
<1>1. CASE ProducerStep
    BY <1>1, ProducerTyped, ProducerWhole, ProducerUploading, ProducerCopies DEF Inv
<1>2. CASE \E c \in Consumers : ConsumerNext(c) \/ ConsumerFails(c)
    BY <1>2, ConsumerStep
<1>3. CASE RestartKeepsDisk \/ RestartLosesDisk \/ OtherRestarts
    BY <1>3, RestartStep, OtherStep
<1>5. CASE CalmsDown
    BY <1>5 DEF CalmsDown, localFiles, remoteFiles, producer, consumers, Inv, TypeOK,
       MarkerMeansWhole, Uploading, CopiesAreWhole, Fetched
<1>4. CASE UNCHANGED vars
    BY <1>4 DEF vars, localFiles, remoteFiles, producer, consumers, node, Inv, TypeOK,
       MarkerMeansWhole, Uploading, CopiesAreWhole, Fetched
<1> QED BY <1>1, <1>2, <1>3, <1>4, <1>5 DEF Next, ProducerStep, Idle

LEMMA Invariance == Spec => []Inv
<1> QED BY InitInv, NextInv, PTL DEF Spec

\* Type correctness of the files, control states and copies.
THEOREM LifecycleIsTyped == Spec => []TypeOK
<1>1. Inv => TypeOK
    BY DEF Inv
<1> QED BY <1>1, Invariance, PTL

\* "This marker is intentionally the last object written for the job" (_run_job): a
\* marker, on the node or in the store, names a result all of whose artifacts are in
\* the store.
THEOREM MarkersAreWhole == Spec => []MarkerMeansWhole
<1>1. Inv => MarkerMeansWhole
    BY DEF Inv
<1> QED BY <1>1, Invariance, PTL

\* Over crashes, lost disks and prunings, every consumer that _restore_dependency
\* served, on the node or elsewhere, has the one result that stays in the store.
THEOREM ConsumersHaveOneResult == Spec => []ConsumersAgree
<1>1. ASSUME Inv PROVE ConsumersAgree
    <2> SUFFICES ASSUME NEW c \in Consumers, step[c] = "ready" PROVE copyOutput[c] = remoteOutput
        BY DEF ConsumersAgree
    <2>1. copyMarker[c] \notin {0, Torn} /\ item[c] = Artifacts + 1
        BY <1>1 DEF Inv, Fetched, Reached
    <2>2. \A a \in Index : copyOutput[c][a] = copyMarker[c]
        BY <1>1, <2>1, LifecycleAssumption DEF Inv, Fetched, Reached, Index
    <2>3. copyOutput[c] = All(copyMarker[c])
        BY <1>1, <2>2 DEF Inv, TypeOK, All
    <2> QED BY <1>1, <2>1, <2>3 DEF Inv, CopiesAreWhole
<1> QED BY <1>1, Invariance, PTL
=============================================================================
