----------------------------- MODULE ObjectStore -----------------------------
(***************************************************************************)
(* The remote stores (src/cmfg_cce/orchestration/storage.py): the calls of *)
(* several processes on one key, against a directory (LocalMirrorStore), a *)
(* bucket through the gcloud command (GCloudObjectStore) and a bucket      *)
(* through the Python client (GoogleCloudStorageStore).                    *)
(*                                                                         *)
(* Every file operation, command or request is an action.  A request can   *)
(* fail before or after its effect, a process can be killed in any call,   *)
(* and a file can be replaced while it is uploaded.  Contents stand for    *)
(* their digests; an object in a bucket also carries the digest its        *)
(* uploader announced as metadata.                                         *)
(***************************************************************************)
EXTENDS Naturals

CONSTANTS
    Clients,    \* processes
    Contents,   \* what files may hold
    Retries     \* self.retries

ASSUME StoreAssumption == Retries \in Nat \ {0} /\ Contents # {}

Backends == {"mirror", "gcloud", "python"}
Calls == {"upload_immutable", "upload_mutable", "download"}
Answers == {"none", "stored", "fetched", "absent", "conflict", "error"}
Nothing == "nothing"
Anything == "anything"
Object(c, d) == [content |-> c, sha |-> d]
Absent == Object(Nothing, Nothing)
Objects == {Object(c, d) : c \in Contents, d \in Contents}
ASSUME ContentsAreFiles == Nothing \notin Contents /\ Anything \notin Contents

VARIABLES
    backend,
    steady,     \* whether files keep their content while they are uploaded
    call,       \* what each client does with the key
    object,     \* the object under the key
    source,     \* the local file of an uploader
    copy,       \* the local file of a downloader
    pc, attempt,
    digest,     \* what an uploader announces, or a downloader has observed
    want,       \* expected_sha256
    temporary,  \* the temporary file of an upload to the mirror
    answer      \* how the last call of a client ended

setting == <<backend, steady, call>>
files == <<source, copy>>
frame == <<pc, attempt, digest, want, temporary, answer>>
storeVars == <<setting, object, files, frame>>

\* No key is uploaded both ways.
Immutable == \A c \in Clients : call[c] # "upload_mutable"
OneWay == Immutable \/ \A c \in Clients : call[c] # "upload_immutable"

StoreInit ==
    /\ backend \in Backends /\ steady \in BOOLEAN
    /\ call \in [Clients -> Calls]
    /\ OneWay
    /\ object = Absent
    /\ source \in [Clients -> Contents \cup {Nothing}]
    /\ \A c \in Clients : source[c] = Nothing <=> call[c] = "download"
    /\ copy = [c \in Clients |-> Nothing]
    /\ pc = [c \in Clients |-> "idle"] /\ attempt = [c \in Clients |-> 1]
    /\ digest = [c \in Clients |-> Anything] /\ want = [c \in Clients |-> Anything]
    /\ temporary = [c \in Clients |-> Nothing]
    /\ answer = [c \in Clients |-> "none"]

-----------------------------------------------------------------------------
\* Steps of a call.

Moves(c, from, to) == pc[c] = from /\ pc' = [pc EXCEPT ![c] = to]
Step(c, from, to) == Moves(c, from, to) /\ UNCHANGED <<attempt, answer>>
Return(c, from, a) ==
    /\ Moves(c, from, "idle")
    /\ attempt' = [attempt EXCEPT ![c] = 1]
    /\ answer' = [answer EXCEPT ![c] = a]
Uploads(c) == call[c] # "download"

FirstStep(c) ==
    CASE backend # "mirror" -> IF Uploads(c) THEN "send" ELSE "describe"
      [] backend = "mirror" /\ call[c] = "upload_immutable" -> "look"
      [] backend = "mirror" /\ call[c] = "upload_mutable" -> "copy"
      [] OTHER -> "find"

\* A client calls, and an uploader takes the digest of its file.
Call(c) ==
    /\ Moves(c, "idle", FirstStep(c))
    /\ IF Uploads(c)
       THEN digest' = [digest EXCEPT ![c] = source[c]] /\ UNCHANGED want
       ELSE /\ digest' = [digest EXCEPT ![c] = Anything]
            /\ \E w \in Contents \cup {Anything} : want' = [want EXCEPT ![c] = w]
    /\ answer' = [answer EXCEPT ![c] = "none"]
    /\ UNCHANGED <<setting, object, files, attempt, temporary>>

\* The comparison of what is under the key with what was announced.
Verdict(c, observed) == IF observed = digest[c] THEN "stored" ELSE "conflict"

-----------------------------------------------------------------------------
\* LocalMirrorStore.

\* upload_immutable looks for the target first ...
MirrorLook(c) ==
    /\ IF object # Absent
       THEN Return(c, "look", Verdict(c, object.content))
       ELSE Step(c, "look", "copy")
    /\ UNCHANGED <<setting, object, files, digest, want, temporary>>

\* Faulty variant: the temporary copy is not compared with the digest.
MirrorCopyUnchecked(c) ==
    /\ Step(c, "copy", IF call[c] = "upload_mutable" THEN "replace" ELSE "link")
    /\ temporary' = [temporary EXCEPT ![c] = source[c]]
    /\ UNCHANGED <<setting, object, files, digest, want>>

\* ... then copies the file next to the target and compares the copy ...
MirrorCopy(c) ==
    /\ IF call[c] = "upload_immutable" /\ source[c] # digest[c]
       THEN Return(c, "copy", "error") /\ UNCHANGED temporary
       ELSE /\ Step(c, "copy", IF call[c] = "upload_mutable" THEN "replace" ELSE "link")
            /\ temporary' = [temporary EXCEPT ![c] = source[c]]
    /\ UNCHANGED <<setting, object, files, digest, want>>

\* ... and links it, which fails if another writer was faster.
MirrorLink(c) ==
    /\ IF object = Absent
       THEN object' = Object(temporary[c], temporary[c]) /\ Return(c, "link", "stored")
       ELSE Return(c, "link", Verdict(c, object.content)) /\ UNCHANGED object
    /\ temporary' = [temporary EXCEPT ![c] = Nothing]
    /\ UNCHANGED <<setting, files, digest, want>>

\* upload_mutable moves its copy over the target.
MirrorReplace(c) ==
    /\ object' = Object(temporary[c], temporary[c])
    /\ Return(c, "replace", "stored")
    /\ temporary' = [temporary EXCEPT ![c] = Nothing]
    /\ UNCHANGED <<setting, files, digest, want>>

\* download takes the digest of the object ...
MirrorFind(c) ==
    /\ IF object = Absent THEN Return(c, "find", "absent") /\ UNCHANGED digest
       ELSE /\ digest' = [digest EXCEPT ![c] = object.content]
            /\ IF want[c] \notin {Anything, object.content}
               THEN Return(c, "find", "conflict")
               ELSE Step(c, "find", "fetch")
    /\ UNCHANGED <<setting, object, files, want, temporary>>

\* ... and moves a copy into place if that still has it.
MirrorFetch(c) ==
    /\ backend = "mirror"
    /\ IF object.content = digest[c]
       THEN copy' = [copy EXCEPT ![c] = object.content] /\ Return(c, "fetch", "fetched")
       ELSE Return(c, "fetch", "error") /\ UNCHANGED copy
    /\ UNCHANGED <<setting, object, source, digest, want, temporary>>

MirrorStep(c) ==
    \/ MirrorLook(c) \/ MirrorCopy(c) \/ MirrorLink(c) \/ MirrorReplace(c)
    \/ MirrorFind(c) \/ MirrorFetch(c)

-----------------------------------------------------------------------------
\* The two buckets.

\* --if-generation-match=0.  Faulty variant: without it.
NoGenerationMatch(c) == TRUE
GenerationMatches(c) == call[c] = "upload_immutable" => object = Absent

AfterFailure(c) == IF call[c] = "upload_immutable" THEN "observe" ELSE "retry"

\* The upload arrives; its answer may be lost.  The file is read now.
Send(c) ==
    /\ GenerationMatches(c)
    /\ object' = Object(source[c], digest[c])
    /\ \/ Return(c, "send", "stored")
       \/ Step(c, "send", AfterFailure(c))
    /\ UNCHANGED <<setting, files, digest, want, temporary>>

\* The upload is refused by its precondition, or does not arrive.
SendFails(c) ==
    /\ Step(c, "send", AfterFailure(c))
    /\ UNCHANGED <<setting, object, files, digest, want, temporary>>

\* Faulty variant: a failed upload of an object that exists is a conflict.
ObserveRefuses(c) ==
    /\ IF object = Absent THEN Step(c, "observe", "retry")
                          ELSE Return(c, "observe", "conflict")
    /\ UNCHANGED <<setting, object, files, digest, want, temporary>>

\* After a failed upload: is the object there, and is it this one?
Observe(c) ==
    /\ IF object = Absent THEN Step(c, "observe", "retry")
                          ELSE Return(c, "observe", Verdict(c, object.sha))
    /\ UNCHANGED <<setting, object, files, digest, want, temporary>>

\* The question fails: for the gcloud command this means that there is no object, the
\* Python client raises.
ObserveFails(c) ==
    /\ IF backend = "gcloud" THEN Step(c, "observe", "retry")
                             ELSE Return(c, "observe", "error")
    /\ UNCHANGED <<setting, object, files, digest, want, temporary>>

Again(c) == Moves(c, "retry", IF Uploads(c) THEN "send" ELSE "fetch")

\* Sleep and try again, if attempts are left.
Retry(c) ==
    /\ IF attempt[c] < Retries
       THEN /\ Again(c) /\ UNCHANGED answer
            /\ attempt' = [attempt EXCEPT ![c] = @ + 1]
       ELSE Return(c, "retry", "error")
    /\ UNCHANGED <<setting, object, files, digest, want, temporary>>

\* download reads the metadata of the object ...
Describe(c) ==
    /\ IF object = Absent THEN Return(c, "describe", "absent") /\ UNCHANGED digest
       ELSE /\ digest' = [digest EXCEPT ![c] = object.sha]
            /\ IF want[c] \notin {Anything, object.sha}
               THEN Return(c, "describe", "conflict")
               ELSE Step(c, "describe", "fetch")
    /\ UNCHANGED <<setting, object, files, want, temporary>>

DescribeFails(c) ==
    /\ Return(c, "describe", IF backend = "gcloud" THEN "absent" ELSE "error")
    /\ UNCHANGED <<setting, object, files, digest, want, temporary>>

\* ... and the object, which has to be what the metadata said.
Fetch(c) ==
    /\ backend # "mirror"
    /\ IF object.content = digest[c]
       THEN copy' = [copy EXCEPT ![c] = object.content] /\ Return(c, "fetch", "fetched")
       ELSE Return(c, "fetch", "conflict") /\ UNCHANGED copy
    /\ UNCHANGED <<setting, object, source, digest, want, temporary>>

FetchFails(c) ==
    /\ backend # "mirror"
    /\ Step(c, "fetch", "retry")
    /\ UNCHANGED <<setting, object, files, digest, want, temporary>>

BucketStep(c) ==
    \/ Send(c) \/ SendFails(c) \/ Observe(c) \/ ObserveFails(c) \/ Retry(c)
    \/ Describe(c) \/ DescribeFails(c) \/ Fetch(c) \/ FetchFails(c)

-----------------------------------------------------------------------------
\* The process is killed in the middle of a call.
Killed(c) ==
    /\ pc[c] # "idle"
    /\ Return(c, pc[c], "none")
    /\ digest' = [digest EXCEPT ![c] = Anything] /\ want' = [want EXCEPT ![c] = Anything]
    /\ temporary' = [temporary EXCEPT ![c] = Nothing]
    /\ UNCHANGED <<setting, object, files>>

\* Another thread or process replaces the local file.
Replaced(c) ==
    /\ Uploads(c) /\ (steady => pc[c] = "idle")
    /\ \E v \in Contents : source' = [source EXCEPT ![c] = v]
    /\ UNCHANGED <<setting, object, copy, frame>>

StoreNext ==
    \E c \in Clients :
        \/ Call(c) \/ MirrorStep(c) \/ BucketStep(c) \/ Killed(c) \/ Replaced(c)

StoreSpec == StoreInit /\ [][StoreNext]_storeVars

-----------------------------------------------------------------------------
StoreTypeOK ==
    /\ backend \in Backends /\ steady \in BOOLEAN /\ call \in [Clients -> Calls]
    /\ object \in Objects \cup {Absent}
    /\ source \in [Clients -> Contents \cup {Nothing}]
    /\ copy \in [Clients -> Contents \cup {Nothing}]
    /\ pc \in [Clients -> {"idle", "look", "copy", "link", "replace", "find", "fetch",
                           "send", "observe", "retry", "describe"}]
    /\ attempt \in [Clients -> 1 .. Retries]
    /\ digest \in [Clients -> Contents \cup {Anything}]
    /\ want \in [Clients -> Contents \cup {Anything}]
    /\ temporary \in [Clients -> Contents \cup {Nothing}]
    /\ answer \in [Clients -> Answers]

\* A key that is only uploaded with upload_immutable is written once, whoever races,
\* retries or is killed: what was restored from it stays what it was.
WriteOnce == [][Immutable /\ object # Absent => object' = object]_storeVars

\* The digest upload_immutable returns is that of the object, although requests are
\* repeated and answers lost; in a bucket this needs files that keep still, the
\* mirror compares its copy.
ReturnedDigestIsStored ==
    \A c \in Clients :
        /\ answer[c] = "stored" /\ call[c] = "upload_immutable"
        /\ backend = "mirror" \/ steady
        => object # Absent /\ object.content = digest[c]

\* RemoteConflictError is raised only about two contents that do differ: not about an
\* upload of the client's own whose answer was lost, not by two writers of the same
\* content, and not by a reader of a key that is written once.
ConflictIsReal ==
    \A c \in Clients :
        answer[c] = "conflict" /\ Immutable /\ (backend = "mirror" \/ steady) =>
            /\ object # Absent
            /\ IF Uploads(c) THEN object.content # digest[c]
               ELSE want[c] \notin {Anything, object.content}
=============================================================================
