----------------------------- MODULE Stores_proof -----------------------------
(***************************************************************************)
(* Proofs about what a job keeps on another host: the object store and the *)
(* chunk store.                                                            *)
(*                                                                         *)
(* ObjectStore, for any set of processes, any contents and any number of   *)
(* retries: a key of the remote store is written once, upload_immutable    *)
(* returns what is under it, and a conflict is one.  What an upload        *)
(* compares with is a digest, what it stores is a file: the inductive      *)
(* invariant says where in a call, and on which host, the two belong       *)
(* together.                                                               *)
(*                                                                         *)
(* ChunkStore, for any number of chunks and restarts: what is in the       *)
(* remote store can be restored, the upload cache tells the truth, no two  *)
(* commits of a chunk collide unless a request was taken for a missing     *)
(* object, and the files implement ChunkRegister.  The argument is about   *)
(* order.  A payload is uploaded before its record, so a record in the     *)
(* store is restorable; a session looks at every chunk before it commits   *)
(* one, so a chunk the runner commits has no record that the store showed; *)
(* and a valid chunk is left alone, so one that is listed for upload stays *)
(* what it was.                                                            *)
(***************************************************************************)
EXTENDS ObjectStore, ChunkStore, WellFoundedInduction, TLAPS

-----------------------------------------------------------------------------
(* The object store.                                                       *)

\* Which calls and backends the control states belong to.
Phases ==
    \A c \in Clients :
        /\ pc[c] \in {"send", "observe", "retry", "describe"} => backend # "mirror"
        /\ pc[c] \in {"look", "copy", "link", "replace", "find"} => backend = "mirror"
        /\ pc[c] \in {"look", "link", "observe"} => call[c] = "upload_immutable"
        /\ pc[c] = "replace" => call[c] = "upload_mutable"
        /\ pc[c] \in {"send", "copy"} => Uploads(c)
        /\ pc[c] \in {"find", "describe", "fetch"} => ~Uploads(c)

\* A checked copy is what was announced, and a steady file stays it.
Announced ==
    \A c \in Clients :
        /\ pc[c] = "link" => temporary[c] = digest[c]
        /\ steady /\ pc[c] \in {"send", "observe", "retry"} /\ Uploads(c)
               => source[c] = digest[c]

\* The metadata of an object tell the truth.
Honest == Immutable /\ (backend = "mirror" \/ steady) => object.content = object.sha

\* What a call works with is there.
Filled ==
    \A c \in Clients :
        /\ Uploads(c) => source[c] \in Contents
        /\ Uploads(c) /\ pc[c] # "idle" => digest[c] \in Contents
        /\ pc[c] \in {"link", "replace"} => temporary[c] \in Contents
        /\ pc[c] = "fetch" \/ (pc[c] = "retry" /\ ~Uploads(c)) => object # Absent

ClientStep(c) ==
    Call(c) \/ Killed(c) \/ Replaced(c) \/ MirrorStep(c) \/ BucketStep(c)

\* The inductive invariant.
StoreInv == StoreTypeOK /\ Filled /\ OneWay /\ Phases /\ Announced /\ Honest

-----------------------------------------------------------------------------
LEMMA StoreStarts == StoreInit => StoreInv
<1> SUFFICES ASSUME StoreInit PROVE StoreInv
    OBVIOUS
<1>1. StoreTypeOK
    BY StoreAssumption DEF StoreInit, StoreTypeOK, Answers
<1>2. Filled /\ Phases /\ Announced
    BY DEF StoreInit, Filled, Phases, Announced, Uploads, Calls
<1>3. Honest
    BY DEF StoreInit, Honest, Absent, Object
<1> QED BY <1>1, <1>2, <1>3 DEF StoreInv, StoreInit

\* Backend, host and calls are chosen once.
LEMMA SettingStays ==
    ASSUME NEW c \in Clients, ClientStep(c)
    PROVE  UNCHANGED setting
BY DEF ClientStep, Call, Killed, Replaced, MirrorStep, BucketStep, MirrorLook, MirrorCopy,
   MirrorLink, MirrorReplace, MirrorFind, MirrorFetch, Send, SendFails, Observe, ObserveFails,
   Retry, Describe, DescribeFails, Fetch, FetchFails

\* The variables keep their types.
LEMMA TypeOKStep ==
    ASSUME StoreInv, NEW c \in Clients, ClientStep(c)
    PROVE  StoreTypeOK'
<1> USE StoreAssumption DEF StoreInv, StoreTypeOK, Step, Return, Moves, Uploads, setting, files, Filled, Phases, Answers, Objects, Object
<1>1. CASE Call(c)
    BY <1>1 DEF Call, FirstStep
<1>2. CASE Killed(c)
    BY <1>2 DEF Killed
<1>3. CASE Replaced(c)
    BY <1>3 DEF Replaced, frame
<1>4. CASE MirrorLook(c)
    BY <1>4 DEF MirrorLook, Verdict
<1>5. CASE MirrorCopy(c)
    BY <1>5 DEF MirrorCopy
<1>6. CASE MirrorLink(c)
    BY <1>6 DEF MirrorLink, Verdict
<1>7. CASE MirrorReplace(c)
    BY <1>7 DEF MirrorReplace
<1>8. CASE MirrorFind(c)
    BY <1>8 DEF MirrorFind
<1>9. CASE MirrorFetch(c)
    BY <1>9 DEF MirrorFetch
<1>10. CASE Send(c)
    BY <1>10 DEF Send, AfterFailure, GenerationMatches
<1>11. CASE SendFails(c)
    BY <1>11 DEF SendFails, AfterFailure
<1>12. CASE Observe(c)
    BY <1>12 DEF Observe, Verdict
<1>13. CASE ObserveFails(c)
    BY <1>13 DEF ObserveFails
<1>14. CASE Retry(c)
    BY <1>14 DEF Retry, Again
<1>15. CASE Describe(c)
    BY <1>15 DEF Describe
<1>16. CASE DescribeFails(c)
    BY <1>16 DEF DescribeFails
<1>17. CASE Fetch(c)
    BY <1>17 DEF Fetch
<1>18. CASE FetchFails(c)
    BY <1>18 DEF FetchFails
<1> QED BY <1>1, <1>2, <1>3, <1>4, <1>5, <1>6, <1>7, <1>8, <1>9,
           <1>10, <1>11, <1>12, <1>13, <1>14, <1>15, <1>16, <1>17, <1>18
        DEF ClientStep, MirrorStep, BucketStep

\* Files and objects a call goes on with do not go away.
LEMMA FilledStep ==
    ASSUME StoreInv, NEW c \in Clients, ClientStep(c)
    PROVE  Filled'
<1> USE DEF StoreInv, StoreTypeOK, Step, Return, Moves, Uploads, setting, files, Filled, Phases, Objects, Object, Absent
<1>1. CASE Call(c)
    BY <1>1 DEF Call, FirstStep
<1>2. CASE Killed(c)
    BY <1>2 DEF Killed
<1>3. CASE Replaced(c)
    BY <1>3 DEF Replaced, frame
<1>4. CASE MirrorLook(c)
    BY <1>4 DEF MirrorLook, Verdict
<1>5. CASE MirrorCopy(c)
    BY <1>5 DEF MirrorCopy
<1>6. CASE MirrorLink(c)
    BY <1>6 DEF MirrorLink, Verdict
<1>7. CASE MirrorReplace(c)
    BY <1>7, ContentsAreFiles DEF MirrorReplace
<1>8. CASE MirrorFind(c)
    BY <1>8 DEF MirrorFind
<1>9. CASE MirrorFetch(c)
    BY <1>9 DEF MirrorFetch
<1>10. CASE Send(c)
    BY <1>10, ContentsAreFiles DEF Send, AfterFailure, GenerationMatches
<1>11. CASE SendFails(c)
    BY <1>11 DEF SendFails, AfterFailure
<1>12. CASE Observe(c)
    BY <1>12 DEF Observe, Verdict
<1>13. CASE ObserveFails(c)
    BY <1>13 DEF ObserveFails
<1>14. CASE Retry(c)
    BY <1>14 DEF Retry, Again
<1>15. CASE Describe(c)
    BY <1>15 DEF Describe
<1>16. CASE DescribeFails(c)
    BY <1>16 DEF DescribeFails
<1>17. CASE Fetch(c)
    BY <1>17 DEF Fetch
<1>18. CASE FetchFails(c)
    BY <1>18 DEF FetchFails
<1> QED BY <1>1, <1>2, <1>3, <1>4, <1>5, <1>6, <1>7, <1>8, <1>9,
           <1>10, <1>11, <1>12, <1>13, <1>14, <1>15, <1>16, <1>17, <1>18
        DEF ClientStep, MirrorStep, BucketStep

\* Calls only take the steps of their backend.
LEMMA PhasesStep ==
    ASSUME StoreInv, NEW c \in Clients, ClientStep(c)
    PROVE  Phases'
<1> USE DEF StoreInv, StoreTypeOK, Step, Return, Moves, Uploads, setting, files, Phases, Immutable, OneWay, Calls
<1>1. CASE Call(c)
    BY <1>1 DEF Call, FirstStep
<1>2. CASE Killed(c)
    BY <1>2 DEF Killed
<1>3. CASE Replaced(c)
    BY <1>3 DEF Replaced, frame
<1>4. CASE MirrorLook(c)
    BY <1>4 DEF MirrorLook, Verdict
<1>5. CASE MirrorCopy(c)
    BY <1>5 DEF MirrorCopy
<1>6. CASE MirrorLink(c)
    BY <1>6 DEF MirrorLink, Verdict
<1>7. CASE MirrorReplace(c)
    BY <1>7 DEF MirrorReplace
<1>8. CASE MirrorFind(c)
    BY <1>8 DEF MirrorFind
<1>9. CASE MirrorFetch(c)
    BY <1>9 DEF MirrorFetch
<1>10. CASE Send(c)
    BY <1>10 DEF Send, AfterFailure, GenerationMatches
<1>11. CASE SendFails(c)
    BY <1>11 DEF SendFails, AfterFailure
<1>12. CASE Observe(c)
    BY <1>12 DEF Observe, Verdict
<1>13. CASE ObserveFails(c)
    BY <1>13 DEF ObserveFails
<1>14. CASE Retry(c)
    BY <1>14 DEF Retry, Again
<1>15. CASE Describe(c)
    BY <1>15 DEF Describe
<1>16. CASE DescribeFails(c)
    BY <1>16 DEF DescribeFails
<1>17. CASE Fetch(c)
    BY <1>17 DEF Fetch
<1>18. CASE FetchFails(c)
    BY <1>18 DEF FetchFails
<1> QED BY <1>1, <1>2, <1>3, <1>4, <1>5, <1>6, <1>7, <1>8, <1>9,
           <1>10, <1>11, <1>12, <1>13, <1>14, <1>15, <1>16, <1>17, <1>18
        DEF ClientStep, MirrorStep, BucketStep

\* What was announced is what will be stored.
LEMMA AnnouncedStep ==
    ASSUME StoreInv, NEW c \in Clients, ClientStep(c)
    PROVE  Announced'
<1> USE DEF StoreInv, StoreTypeOK, Step, Return, Moves, Uploads, setting, files, Announced, Phases, Calls
<1>1. CASE Call(c)
    BY <1>1 DEF Call, FirstStep
<1>2. CASE Killed(c)
    BY <1>2 DEF Killed
<1>3. CASE Replaced(c)
    BY <1>3 DEF Replaced, frame
<1>4. CASE MirrorLook(c)
    BY <1>4 DEF MirrorLook, Verdict
<1>5. CASE MirrorCopy(c)
    BY <1>5 DEF MirrorCopy
<1>6. CASE MirrorLink(c)
    BY <1>6 DEF MirrorLink, Verdict
<1>7. CASE MirrorReplace(c)
    BY <1>7 DEF MirrorReplace
<1>8. CASE MirrorFind(c)
    BY <1>8 DEF MirrorFind
<1>9. CASE MirrorFetch(c)
    BY <1>9 DEF MirrorFetch
<1>10. CASE Send(c)
    BY <1>10 DEF Send, AfterFailure, GenerationMatches
<1>11. CASE SendFails(c)
    BY <1>11 DEF SendFails, AfterFailure
<1>12. CASE Observe(c)
    BY <1>12 DEF Observe, Verdict
<1>13. CASE ObserveFails(c)
    BY <1>13 DEF ObserveFails
<1>14. CASE Retry(c)
    BY <1>14 DEF Retry, Again
<1>15. CASE Describe(c)
    BY <1>15 DEF Describe
<1>16. CASE DescribeFails(c)
    BY <1>16 DEF DescribeFails
<1>17. CASE Fetch(c)
    BY <1>17 DEF Fetch
<1>18. CASE FetchFails(c)
    BY <1>18 DEF FetchFails
<1> QED BY <1>1, <1>2, <1>3, <1>4, <1>5, <1>6, <1>7, <1>8, <1>9,
           <1>10, <1>11, <1>12, <1>13, <1>14, <1>15, <1>16, <1>17, <1>18
        DEF ClientStep, MirrorStep, BucketStep

\* An object is stored with the digest of its content.
LEMMA HonestStep ==
    ASSUME StoreInv, NEW c \in Clients, ClientStep(c)
    PROVE  Honest'
<1> USE DEF StoreInv, StoreTypeOK, Step, Return, Moves, Uploads, setting, files, Honest, Announced, Phases, Immutable, Object, Absent
<1>1. CASE Call(c)
    BY <1>1 DEF Call, FirstStep
<1>2. CASE Killed(c)
    BY <1>2 DEF Killed
<1>3. CASE Replaced(c)
    BY <1>3 DEF Replaced, frame
<1>4. CASE MirrorLook(c)
    BY <1>4 DEF MirrorLook, Verdict
<1>5. CASE MirrorCopy(c)
    BY <1>5 DEF MirrorCopy
<1>6. CASE MirrorLink(c)
    BY <1>6 DEF MirrorLink, Verdict
<1>7. CASE MirrorReplace(c)
    BY <1>7 DEF MirrorReplace
<1>8. CASE MirrorFind(c)
    BY <1>8 DEF MirrorFind
<1>9. CASE MirrorFetch(c)
    BY <1>9 DEF MirrorFetch
<1>10. CASE Send(c)
    BY <1>10 DEF Send, AfterFailure, GenerationMatches
<1>11. CASE SendFails(c)
    BY <1>11 DEF SendFails, AfterFailure
<1>12. CASE Observe(c)
    BY <1>12 DEF Observe, Verdict
<1>13. CASE ObserveFails(c)
    BY <1>13 DEF ObserveFails
<1>14. CASE Retry(c)
    BY <1>14 DEF Retry, Again
<1>15. CASE Describe(c)
    BY <1>15 DEF Describe
<1>16. CASE DescribeFails(c)
    BY <1>16 DEF DescribeFails
<1>17. CASE Fetch(c)
    BY <1>17 DEF Fetch
<1>18. CASE FetchFails(c)
    BY <1>18 DEF FetchFails
<1> QED BY <1>1, <1>2, <1>3, <1>4, <1>5, <1>6, <1>7, <1>8, <1>9,
           <1>10, <1>11, <1>12, <1>13, <1>14, <1>15, <1>16, <1>17, <1>18
        DEF ClientStep, MirrorStep, BucketStep

LEMMA StoreStep == StoreInv /\ [StoreNext]_storeVars => StoreInv'
<1> SUFFICES ASSUME StoreInv, [StoreNext]_storeVars PROVE StoreInv'
    OBVIOUS
<1>1. CASE UNCHANGED storeVars
    BY <1>1 DEF storeVars, setting, files, frame, StoreInv, StoreTypeOK, Filled, OneWay, Immutable, Phases,
       Announced, Honest, Uploads
<1>2. ASSUME NEW c \in Clients, ClientStep(c) PROVE StoreInv'
    <2>1. UNCHANGED setting
        BY <1>2, SettingStays
    <2>2. OneWay'
        BY <2>1 DEF StoreInv, OneWay, Immutable, setting
    <2> QED BY <1>2, <2>2, TypeOKStep, FilledStep, PhasesStep, AnnouncedStep, HonestStep DEF StoreInv
<1> QED BY <1>1, <1>2 DEF StoreNext, ClientStep

LEMMA StoreInvariant == StoreSpec => []StoreInv
BY StoreStarts, StoreStep, PTL DEF StoreSpec

\* The variables of the store keep their types for all parameters.
THEOREM StoreIsTyped == StoreSpec => []StoreTypeOK
BY StoreInvariant, PTL DEF StoreInv

-----------------------------------------------------------------------------
\* An object that is there is left alone by every step.
LEMMA ObjectStays ==
    ASSUME StoreInv, NEW c \in Clients, ClientStep(c), Immutable, object # Absent
    PROVE  object' = object
<1>1. CASE MirrorReplace(c)
    BY <1>1 DEF MirrorReplace, Return, Moves, StoreInv, Phases, Immutable
<1>2. CASE MirrorLink(c)
    BY <1>2 DEF MirrorLink
<1>3. CASE Send(c)
    BY <1>3 DEF Send, Return, Step, Moves, StoreInv, StoreTypeOK, Calls, Phases, Immutable, Uploads,
       GenerationMatches
<1>4. CASE ~MirrorReplace(c) /\ ~MirrorLink(c) /\ ~Send(c)
    BY <1>4 DEF ClientStep, Call, Killed, Replaced, MirrorStep, BucketStep, MirrorLook,
       MirrorCopy, MirrorFind, MirrorFetch, SendFails, Observe, ObserveFails, Retry, Describe,
       DescribeFails, Fetch, FetchFails
<1> QED BY <1>1, <1>2, <1>3, <1>4

\* A key that is only uploaded with upload_immutable is written once, for any number of
\* processes, retries and kills (--if-generation-match=0, os.link).
THEOREM KeyIsWrittenOnce == StoreSpec => WriteOnce
<1>1. ASSUME StoreInv, [StoreNext]_storeVars PROVE [Immutable /\ object # Absent => object' = object]_storeVars
    BY <1>1, ObjectStays DEF StoreNext, ClientStep
<1> QED BY <1>1, StoreInvariant, PTL DEF StoreSpec, WriteOnce

-----------------------------------------------------------------------------
\* What a client was told stays true while it makes no other call.
LEMMA ReturnedStep ==
    ASSUME StoreInv, ReturnedDigestIsStored, NEW c \in Clients, ClientStep(c)
    PROVE  ReturnedDigestIsStored'
<1> SUFFICES ASSUME NEW d \in Clients, answer'[d] = "stored", call'[d] = "upload_immutable",
                    (backend = "mirror" \/ steady)'
             PROVE  object' # Absent /\ object'.content = digest'[d]
    BY DEF ReturnedDigestIsStored, Absent, Object, Nothing
<1>1. call[d] = "upload_immutable" /\ Immutable /\ (backend = "mirror" \/ steady)
    BY SettingStays DEF setting, StoreInv, OneWay
<1>2. CASE answer[d] = "stored" /\ digest'[d] = digest[d]
    BY <1>1, <1>2, ObjectStays DEF ReturnedDigestIsStored
<1>3. CASE ~(answer[d] = "stored" /\ digest'[d] = digest[d])
    <2> USE <1>1, <1>3 DEF StoreInv, StoreTypeOK, Filled, Phases, Announced, Honest, Step, Return,
            Moves, Uploads
    <2>1. CASE MirrorLook(c)
        BY <2>1 DEF MirrorLook, Verdict
    <2>2. CASE MirrorLink(c)
        BY <2>2, ContentsAreFiles DEF MirrorLink, Verdict, Object, Absent
    <2>3. CASE Send(c)
        BY <2>3, ContentsAreFiles DEF Send, Object, Absent
    <2>4. CASE Observe(c)
        BY <2>4 DEF Observe, Verdict
    <2>5. CASE Call(c) \/ Killed(c) \/ Replaced(c)
        BY <2>5 DEF Call, Killed, Replaced, frame
    <2>6. CASE MirrorCopy(c) \/ MirrorReplace(c) \/ MirrorFind(c) \/ MirrorFetch(c)
        BY <2>6 DEF MirrorCopy, MirrorReplace, MirrorFind, MirrorFetch
    <2>7. CASE SendFails(c) \/ ObserveFails(c) \/ Retry(c)
        BY <2>7 DEF SendFails, ObserveFails, Retry, Again
    <2>8. CASE Describe(c) \/ DescribeFails(c) \/ Fetch(c) \/ FetchFails(c)
        BY <2>8 DEF Describe, DescribeFails, Fetch, FetchFails
    <2> QED BY <2>1, <2>2, <2>3, <2>4, <2>5, <2>6, <2>7, <2>8
            DEF ClientStep, MirrorStep, BucketStep
<1> QED BY <1>2, <1>3

\* The digest upload_immutable returns is that of what is under the key, for any number
\* of processes and repeated requests.
THEOREM UploadIsStored == StoreSpec => []ReturnedDigestIsStored
<1>1. StoreInit => ReturnedDigestIsStored
    BY DEF StoreInit, ReturnedDigestIsStored
<1>2. StoreInv /\ ReturnedDigestIsStored /\ [StoreNext]_storeVars => ReturnedDigestIsStored'
    <2>1. ASSUME StoreInv, ReturnedDigestIsStored, UNCHANGED storeVars PROVE ReturnedDigestIsStored'
        BY <2>1 DEF storeVars, setting, files, frame, ReturnedDigestIsStored
    <2> QED BY <2>1, ReturnedStep DEF StoreNext, ClientStep
<1> QED BY <1>1, <1>2, StoreInvariant, PTL DEF StoreSpec

-----------------------------------------------------------------------------
\* A download in a bucket goes on with the digest the object was announced with.
Seen ==
    Immutable =>
        \A c \in Clients :
            ~Uploads(c) /\ backend # "mirror" /\ pc[c] \in {"fetch", "retry"} =>
                digest[c] = object.sha

\* An object that is described is still the same when it arrives.
LEMMA SeenStep ==
    ASSUME StoreInv, Seen, NEW c \in Clients, ClientStep(c)
    PROVE  Seen'
<1> SUFFICES ASSUME Immutable, NEW d \in Clients, ~Uploads(d), backend # "mirror",
                    pc'[d] \in {"fetch", "retry"}
             PROVE  digest'[d] = object'.sha
    BY SettingStays DEF Seen, Uploads, setting, Immutable
<1>1. CASE pc[d] \in {"fetch", "retry"}
    <2>1. object # Absent /\ object' = object
        BY <1>1, ObjectStays DEF StoreInv, Filled
    <2>2. digest'[d] = digest[d]
        BY <1>1 DEF StoreInv, StoreTypeOK, Phases, ClientStep, Step, Return, Moves, Uploads, files, frame,
           Call, Killed, Replaced, MirrorStep, BucketStep, MirrorLook, MirrorCopy, MirrorLink,
           MirrorReplace, MirrorFind, MirrorFetch, Send, SendFails, Observe, ObserveFails,
           Retry, Describe, DescribeFails, Fetch, FetchFails
    <2> QED BY <1>1, <2>1, <2>2 DEF Seen
<1>2. CASE pc[d] \notin {"fetch", "retry"}
    <2> USE <1>2 DEF StoreInv, StoreTypeOK, Phases, Step, Return, Moves, Uploads, frame
    <2>1. CASE Describe(c)
        BY <2>1 DEF Describe
    <2>2. CASE Call(c) \/ Killed(c) \/ Replaced(c)
        BY <2>2 DEF Call, FirstStep, Killed, Replaced
    <2>3. CASE MirrorStep(c)
        BY <2>3 DEF MirrorStep, MirrorLook, MirrorCopy, MirrorLink, MirrorReplace, MirrorFind,
           MirrorFetch
    <2>4. CASE Send(c) \/ SendFails(c) \/ Observe(c) \/ ObserveFails(c)
        BY <2>4 DEF Send, SendFails, AfterFailure, Observe, ObserveFails
    <2>5. CASE Retry(c) \/ DescribeFails(c) \/ Fetch(c) \/ FetchFails(c)
        BY <2>5 DEF Retry, Again, DescribeFails, Fetch, FetchFails
    <2> QED BY <2>1, <2>2, <2>3, <2>4, <2>5 DEF ClientStep, BucketStep
<1> QED BY <1>1, <1>2

\* A conflict is raised about two contents that differ, and stays one.
LEMMA ConflictStep ==
    ASSUME StoreInv, Seen, ConflictIsReal, NEW c \in Clients, ClientStep(c)
    PROVE  ConflictIsReal'
<1> SUFFICES ASSUME NEW d \in Clients, answer'[d] = "conflict", Immutable,
                    backend = "mirror" \/ steady
             PROVE  /\ object' # Absent
                    /\ Uploads(d) => object'.content # digest'[d]
                    /\ ~Uploads(d) => want'[d] \notin {Anything, object'.content}
    BY SettingStays DEF ConflictIsReal, setting, Immutable, Uploads, Absent, Object, Nothing, Anything
<1>1. CASE answer[d] = "conflict" /\ (Uploads(d) => digest'[d] = digest[d]) /\ want'[d] = want[d]
    BY <1>1, ObjectStays DEF ConflictIsReal
<1>2. CASE ~(answer[d] = "conflict" /\ (Uploads(d) => digest'[d] = digest[d]) /\ want'[d] = want[d])
    <2> USE <1>2 DEF StoreInv, StoreTypeOK, Phases, Honest, Step, Return, Moves, Uploads, files, frame
    <2>1. CASE MirrorLook(c)
        BY <2>1 DEF MirrorLook, Verdict
    <2>2. CASE MirrorLink(c)
        BY <2>2 DEF MirrorLink, Verdict
    <2>3. CASE Observe(c)
        BY <2>3 DEF Observe, Verdict
    <2>4. CASE MirrorFind(c)
        BY <2>4 DEF MirrorFind
    <2>5. CASE Describe(c)
        BY <2>5 DEF Describe
    <2>6. CASE Fetch(c)
        BY <2>6 DEF Fetch, Seen
    <2>7. CASE Call(c) \/ Killed(c) \/ Replaced(c)
        BY <2>7 DEF Call, Killed, Replaced
    <2>8. CASE MirrorCopy(c) \/ MirrorReplace(c) \/ MirrorFetch(c)
        BY <2>8 DEF MirrorCopy, MirrorReplace, MirrorFetch
    <2>9. CASE Send(c) \/ SendFails(c) \/ ObserveFails(c) \/ Retry(c) \/ DescribeFails(c) \/ FetchFails(c)
        BY <2>9 DEF Send, SendFails, ObserveFails, Retry, Again, DescribeFails, FetchFails
    <2> QED BY <2>1, <2>2, <2>3, <2>4, <2>5, <2>6, <2>7, <2>8, <2>9
            DEF ClientStep, MirrorStep, BucketStep
<1> QED BY <1>1, <1>2

\* RemoteConflictError is raised only about two contents that do differ, for any number of
\* processes, contents and attempts: whatever answers are lost, a key that is written once
\* never turns an upload of the client's own or a reader's digest into a conflict.
THEOREM ConflictsAreReal == StoreSpec => []ConflictIsReal
<1>1. StoreInit => Seen /\ ConflictIsReal
    BY DEF StoreInit, Seen, ConflictIsReal
<1>2. StoreInv /\ Seen /\ ConflictIsReal /\ [StoreNext]_storeVars => Seen' /\ ConflictIsReal'
    <2>1. ASSUME Seen, ConflictIsReal, UNCHANGED storeVars PROVE Seen' /\ ConflictIsReal'
        BY <2>1 DEF storeVars, setting, files, frame, Seen, ConflictIsReal, Immutable, Uploads
    <2> QED BY <2>1, SeenStep, ConflictStep DEF StoreNext, ClientStep
<1> QED BY <1>1, <1>2, StoreInvariant, PTL DEF StoreSpec

-----------------------------------------------------------------------------
(* The chunk store.                                                        *)

\* A chunk another session published is here, or was taken for missing.
Back(c) == remoteRecord[c] # NoRecord => Valid(c) \/ c \in unseen

Published(c) == remoteRecord[c] # NoRecord /\ remotePayload[c] = "good"

Uploaded(c) == Published(c) /\ remoteRecord[c] = record[c]

\* How far the slot thread has come with restoring.
Restored ==
    /\ worker \in {"restore", "payload"} => \A c \in 1 .. wc - 1 : Back(c)
    /\ worker = "command" => \A c \in Chunks : Back(c)
    /\ worker \in {"restore_again", "payload_again", "sync", "syncing", "complete"}
        => \A c \in Chunks : Valid(c)
    /\ worker \in {"payload", "payload_again"} =>
        wc \in Chunks /\ record[wc] = remoteRecord[wc] /\ record[wc] # NoRecord

\* The runner is alone with the chunk it is at, and has been at those below.
RunnerAt ==
    /\ runner # "off" => worker = "command"
    /\ runner # "off" /\ rc <= N => ~Valid(rc)
    /\ runner # "off" => \A c \in Chunks : c < rc => Valid(c)
    /\ runner \notin {"off", "status"} => rc <= N
    /\ runner = "quarantine_record" => payload[rc] = "absent"
    /\ runner \in {"write_payload", "write_record"} => record[rc] = NoRecord
    /\ runner = "write_record" => payload[rc] = "good"

\* What a synchronization still has to upload.
SyncAt ==
    /\ beat # "idle" => remotePlan /\ \A c \in queue : Valid(c)
    /\ beat = "second" => queue # {} /\ remotePayload[First(queue)] = "good"
    /\ worker = "syncing" =>
        beat # "idle" /\ \A c \in Chunks : Valid(c) /\ (c \in queue \/ Uploaded(c))
    /\ worker = "complete" => beat = "idle"

Inv ==
    /\ TypeOK /\ RemoteIsRestorable /\ CacheTellsTruth /\ NoConflict
    /\ Restored /\ RunnerAt /\ SyncAt

-----------------------------------------------------------------------------
\* The lowest chunk of a set is one of it.
LEMMA FirstIsIn ==
    ASSUME NEW S, S \subseteq Chunks, S # {}
    PROVE  First(S) \in S
<1>1. S \subseteq Nat
    BY ChunkAssumption DEF Chunks
<1> DEFINE Less == {ss \in Nat \X Nat : ss[1] < ss[2]}
<1>2. IsWellFoundedOn(Less, Nat)
    <2>1. OpToRel(<, Nat) = Less
        BY DEF OpToRel
    <2> QED BY <2>1, NatLessThanWellFounded, Zenon
<1>3. PICK c \in S : \A d \in S : ~ (<<d, c>> \in Less)
    <2> HIDE DEF Less
    <2> QED BY <1>1, <1>2, WFMin, Zenon
<1>4. \A d \in S : c <= d
    <2>1. \A m, n \in Nat : m < n => <<m, n>> \in Less
        OBVIOUS
    <2>2. \A d \in S : ~ (d < c)
        <3> HIDE DEF Less
        <3> QED BY <1>1, <1>3, <2>1, Zenon
    <2> QED BY <1>1, <2>2
<1> QED BY <1>4 DEF First

LEMMA FirstType ==
    ASSUME NEW S, S \subseteq Chunks
    PROVE  First(S) \in 1 .. N + 1 /\ (First(S) <= N => First(S) \in S)
<1>1. CASE S = {}
    <2>1. First(S) = N + 1
        BY <1>1 DEF First
    <2> QED BY <2>1, ChunkAssumption
<1>2. CASE S # {}
    <2>1. First(S) \in S
        BY <1>2, FirstIsIn
    <2>2. First(S) \in Chunks
        BY <2>1
    <2> QED BY <2>1, <2>2, ChunkAssumption DEF Chunks
<1> QED BY <1>1, <1>2

\* Below the lowest chunk of a set there is none of it.
LEMMA FirstIsLowest ==
    ASSUME NEW S, S \subseteq Chunks, NEW c \in Chunks, c < First(S)
    PROVE  c \notin S
<1> SUFFICES ASSUME c \in S PROVE FALSE
    OBVIOUS
<1> DEFINE lowest(x) == x \in S /\ \A d \in S : x <= d
<1>1. S \subseteq Nat
    BY ChunkAssumption DEF Chunks
<1> DEFINE Less == {ss \in Nat \X Nat : ss[1] < ss[2]}
<1>2. IsWellFoundedOn(Less, Nat)
    <2>1. OpToRel(<, Nat) = Less
        BY DEF OpToRel
    <2> QED BY <2>1, NatLessThanWellFounded, Zenon
<1>3. PICK x \in S : \A d \in S : ~ (<<d, x>> \in Less)
    <2> HIDE DEF Less
    <2> QED BY <1>1, <1>2, WFMin, Zenon
<1>4. \A d \in S : x <= d
    <2>1. \A m, n \in Nat : m < n => <<m, n>> \in Less
        OBVIOUS
    <2>2. \A d \in S : ~ (d < x)
        <3> HIDE DEF Less
        <3> QED BY <1>1, <1>3, <2>1, Zenon
    <2> QED BY <1>1, <2>2
<1>5. First(S) \in S /\ \A d \in S : First(S) <= d
    BY <1>4 DEF First
<1>6. c \in Nat /\ First(S) \in Nat /\ First(S) <= c
    BY <1>1, <1>5
<1> QED BY ONLY <1>6, c < First(S)

LEMMA InitInv == Init => Inv
<1> USE ChunkAssumption DEF Init, NoRecord
<1>1. Init => TypeOK
    <2> SUFFICES ASSUME Init PROVE TypeOK
        OBVIOUS
    <2>1. /\ payload \in [Chunks -> Files] /\ remotePayload \in [Chunks -> Files]
          /\ record \in [Chunks -> RecordFiles]
          /\ remoteRecord \in [Chunks -> {NoRecord} \cup Sessions]
          /\ cached \in [Chunks -> {NoRecord} \cup Sessions]
        BY DEF Files, RecordFiles
    <2>2. wc \in 1 .. N + 1 /\ rc \in 1 .. N + 1 /\ session \in Sessions
        BY DEF Sessions
    <2> QED BY <2>1, <2>2 DEF TypeOK
<1>2. Init => Restored /\ RunnerAt /\ SyncAt /\ RemoteIsRestorable /\ CacheTellsTruth /\ NoConflict
    BY DEF Restored, RunnerAt, SyncAt, RemoteIsRestorable, CacheTellsTruth, NoConflict
<1> QED BY <1>1, <1>2 DEF Inv

-----------------------------------------------------------------------------
\* The slot thread restores.

LEMMA RestoreKeeps ==
    ASSUME Inv, RestoreStep
    PROVE  Inv'
<1> USE ChunkAssumption DEF Inv, NoRecord
<1>1. CASE RestorePlan
    <2>1. plan' \in BOOLEAN /\ wc' = 1
        BY <1>1 DEF RestorePlan, TypeOK
    <2>2. worker = "restore_plan" /\ worker' \in {"restore", "command"}
        BY <1>1 DEF RestorePlan
    <2>3. /\ unseen \subseteq unseen' /\ unseen' \subseteq Chunks
          /\ worker' = "command" => ~remotePlan \/ Overlooked(Chunks) \subseteq unseen'
          /\ unseen' # unseen => GcloudCommand
        BY <1>1 DEF RestorePlan, TypeOK, Overlooked
    <2>4. UNCHANGED <<payload, record, remote, cached, runnerVars, beatVars, session>>
        BY <1>1 DEF RestorePlan
    <2>5. TypeOK'
        BY <2>1, <2>2, <2>3, <2>4 DEF TypeOK, remote, runnerVars, beatVars
    <2>6. RemoteIsRestorable' /\ CacheTellsTruth' /\ NoConflict'
        BY <2>3, <2>4 DEF RemoteIsRestorable, CacheTellsTruth, NoConflict, Valid, remote
    <2>7. Restored'
        <3>1. worker' = "command" => \A c \in Chunks : Back(c)'
            BY <2>3, <2>4 DEF Back, Overlooked, Valid, RemoteIsRestorable, remote
        <3> QED BY <2>1, <2>2, <3>1 DEF Restored
    <2>8. RunnerAt' /\ SyncAt'
        BY <2>2, <2>4 DEF RunnerAt, SyncAt, Valid, remote, runnerVars, beatVars, First
    <2> QED BY <2>5, <2>6, <2>7, <2>8
<1>2. CASE SkipChunk
    <2>1. /\ worker \in {"restore", "restore_again"} /\ wc \in Chunks /\ wc' = wc + 1
          /\ unseen' = unseen \cup Overlooked({wc})
          /\ Valid(wc) \/ remoteRecord[wc] = NoRecord \/ GcloudCommand
        BY <1>2 DEF SkipChunk, Restoring, TypeOK, Chunks
    <2>2. UNCHANGED <<local, remote, cached, worker, runnerVars, beatVars, session>>
        BY <1>2 DEF SkipChunk
    <2>3. \A c \in Chunks : (Valid(c)' <=> Valid(c)) /\ remoteRecord'[c] = remoteRecord[c]
        BY <2>2 DEF Valid, local, remote
    <2>4. /\ unseen \subseteq unseen' /\ unseen' \subseteq Chunks
          /\ unseen' # unseen => GcloudCommand
        BY <2>1 DEF TypeOK, Overlooked
    <2>5. Valid(wc) \/ remoteRecord[wc] = NoRecord \/ wc \in unseen'
        BY <2>1 DEF Overlooked
    <2>6. TypeOK'
        <3>1. wc' \in 1 .. N + 1
            BY <2>1 DEF Chunks
        <3> QED BY <2>2, <2>4, <3>1 DEF TypeOK, local, remote, runnerVars, beatVars
    <2>7. RemoteIsRestorable' /\ CacheTellsTruth' /\ NoConflict'
        BY <2>2, <2>3, <2>4 DEF RemoteIsRestorable, CacheTellsTruth, NoConflict, local, remote
    <2>8. \A c \in Chunks : c = wc \/ Back(c) => Back(c)'
        BY <2>1, <2>3, <2>4, <2>5 DEF Back
    <2>9. Restored'
        <3>1. \A c \in 1 .. wc' - 1 : c \in Chunks /\ (c = wc \/ c \in 1 .. wc - 1)
            BY <2>1 DEF Chunks
        <3>2. worker = "restore" => \A c \in 1 .. wc' - 1 : Back(c)'
            BY <2>8, <3>1 DEF Restored
        <3>3. worker = "restore_again" => \A c \in Chunks : Valid(c)'
            BY <2>3 DEF Restored
        <3>4. worker' = worker
            BY <2>2
        <3> QED BY <2>1, <3>2, <3>3, <3>4 DEF Restored
    <2>10. RunnerAt' /\ SyncAt'
        BY <2>1, <2>2 DEF RunnerAt, SyncAt, Valid, Published, Uploaded, local, remote, runnerVars, beatVars, First
    <2> QED BY <2>6, <2>7, <2>9, <2>10
<1>3. CASE RestoreRecord
    <2>1. /\ worker = "restore" /\ wc \in Chunks /\ worker' = "payload" /\ ~Valid(wc)
          /\ remoteRecord[wc] # NoRecord
        BY <1>3 DEF RestoreRecord, Download, Restoring, TypeOK, Restored, Chunks
    <2>2. /\ record' = [record EXCEPT ![wc] = remoteRecord[wc]] /\ unseen' = unseen \ {wc}
          /\ UNCHANGED <<plan, payload, remote, cached, wc, runnerVars, beatVars, session>>
        BY <1>3 DEF RestoreRecord, Download
    <2>3. /\ record' \in [Chunks -> RecordFiles] /\ record'[wc] = remoteRecord[wc]
          /\ \A c \in Chunks \ {wc} : record'[c] = record[c]
        BY <2>1, <2>2 DEF TypeOK, RecordFiles
    <2>4. TypeOK'
        BY <2>1, <2>2, <2>3 DEF TypeOK, remote, runnerVars, beatVars
    <2>5. \A c \in Chunks : Valid(c) => c # wc /\ record'[c] = record[c] /\ Valid(c)'
        BY <2>1, <2>2, <2>3 DEF Valid
    <2>6. \A c \in Chunks : Valid(c)' => Valid(c) \/ record'[c] = remoteRecord[c]
        BY <2>2, <2>3 DEF Valid
    <2>7. RemoteIsRestorable' /\ CacheTellsTruth'
        BY <2>2 DEF RemoteIsRestorable, CacheTellsTruth, remote
    <2>8. NoConflict'
        BY <2>2, <2>5, <2>6 DEF NoConflict, remote
    <2>9. Restored'
        <3>1. \A c \in 1 .. wc - 1 : c \in Chunks /\ c # wc
            BY <2>1 DEF Chunks
        <3> QED BY <2>1, <2>2, <2>3, <2>5, <3>1 DEF Restored, Back, remote
    <2>10. RunnerAt' /\ SyncAt'
        BY <2>1, <2>2, <2>5 DEF RunnerAt, SyncAt, remote, runnerVars, beatVars, First, TypeOK
    <2> QED BY <2>4, <2>7, <2>8, <2>9, <2>10
<1>4. CASE RestorePayload
    <2>1. /\ worker \in {"payload", "payload_again"} /\ wc \in Chunks /\ wc' = wc + 1
          /\ record[wc] = remoteRecord[wc] /\ record[wc] # NoRecord /\ remotePayload[wc] = "good"
        BY <1>4 DEF RestorePayload, Restored, RemoteIsRestorable
    <2>2. worker' = IF worker = "payload" THEN "restore" ELSE "restore_again"
        BY <1>4 DEF RestorePayload
    <2>3. /\ payload' = [payload EXCEPT ![wc] = "good"] \/ payload' = payload
          /\ cached' = [cached EXCEPT ![wc] = record[wc]] \/ cached' = cached
          /\ unseen \subseteq unseen' /\ unseen' \subseteq Chunks
          /\ unseen' # unseen => GcloudCommand
          /\ UNCHANGED <<plan, record, remote, runnerVars, beatVars, session>>
        BY <1>4, <2>1 DEF RestorePayload, Overlooked, TypeOK
    <2>4. record[wc] \in Sessions
        BY <2>1 DEF TypeOK
    <2>5. TypeOK'
        <3>1. payload' \in [Chunks -> Files]
            BY <2>1, <2>3 DEF TypeOK, Files
        <3>2. cached' \in [Chunks -> {NoRecord} \cup Sessions]
            BY <2>1, <2>3, <2>4 DEF TypeOK
        <3>3. wc' \in 1 .. N + 1
            BY <2>1 DEF Chunks
        <3> QED BY <2>1, <2>2, <2>3, <3>1, <3>2, <3>3 DEF TypeOK, remote, runnerVars, beatVars
    <2>6. \A c \in Chunks : (Valid(c) => Valid(c)') /\ (Valid(c)' => Valid(c) \/ c = wc)
        BY <2>1, <2>3, <2>4 DEF Valid, TypeOK
    <2>7. RemoteIsRestorable' /\ CacheTellsTruth'
        BY <2>1, <2>3 DEF RemoteIsRestorable, CacheTellsTruth, remote, TypeOK
    <2>8. NoConflict'
        BY <2>1, <2>3, <2>6 DEF NoConflict, remote
    <2>9. Restored'
        <3>1. \A c \in 1 .. wc' - 1 : c \in Chunks /\ (c = wc \/ c \in 1 .. wc - 1)
            BY <2>1 DEF Chunks
        <3>2. \A c \in Chunks : c = wc => Valid(c)' \/ c \in unseen'
            <4>1. CASE payload' = [payload EXCEPT ![wc] = "good"]
                <5>1. \A c \in Chunks : c = wc => payload'[c] = "good" /\ record'[c] \in Sessions
                    BY <2>1, <2>3, <2>4, <4>1 DEF TypeOK
                <5> QED BY <5>1 DEF Valid
            <4>2. CASE payload' = payload /\ unseen' = unseen \cup Overlooked({wc})
                <5>1. CASE Valid(wc)
                    BY <2>1, <2>6, <5>1
                <5>2. CASE ~Valid(wc)
                    BY <2>1, <4>2, <5>2 DEF Overlooked
                <5> QED BY <5>1, <5>2
            <4> QED BY <1>4, <4>1, <4>2 DEF RestorePayload
        <3>3. \A c \in Chunks : Back(c) => Back(c)'
            BY <2>3, <2>6 DEF Back, remote
        <3>4. \A c \in Chunks : c = wc => Back(c)'
            BY <3>2 DEF Back
        <3>5. worker = "payload" => \A c \in 1 .. wc - 1 : Back(c)
            BY DEF Restored
        <3>6. worker = "payload_again" => \A c \in Chunks : Valid(c)'
            BY <2>6 DEF Restored
        <3>7. worker' = "restore" => \A c \in 1 .. wc' - 1 : Back(c)'
            BY <2>1, <2>2, <3>1, <3>3, <3>4, <3>5
        <3>8. worker' = "restore_again" => \A c \in Chunks : Valid(c)'
            BY <2>1, <2>2, <3>6
        <3> QED BY <2>1, <2>2, <3>7, <3>8 DEF Restored
    <2>10. RunnerAt' /\ SyncAt'
        BY <2>1, <2>2, <2>3, <2>6 DEF RunnerAt, SyncAt, remote, runnerVars, beatVars, First, TypeOK
    <2> QED BY <2>5, <2>7, <2>8, <2>9, <2>10
<1>5. CASE RestoreEnds
    <2>1. /\ worker \in {"restore", "restore_again"} /\ wc = N + 1 /\ wc' = 1
          /\ worker' = IF worker = "restore" THEN "command" ELSE "sync"
        BY <1>5 DEF RestoreEnds, AfterRestore, TypeOK
    <2>2. UNCHANGED <<local, remote, cached, unseen, runnerVars, beatVars, session>>
        BY <1>5 DEF RestoreEnds
    <2>3. TypeOK'
        BY <2>1, <2>2 DEF TypeOK, local, remote, runnerVars, beatVars
    <2>4. RemoteIsRestorable' /\ CacheTellsTruth' /\ NoConflict'
        BY <2>2 DEF RemoteIsRestorable, CacheTellsTruth, NoConflict, Valid, local, remote
    <2>5. worker = "restore" => \A c \in Chunks : Back(c)
        BY <2>1 DEF Restored, Chunks
    <2>6. Restored' /\ RunnerAt' /\ SyncAt'
        BY <2>1, <2>2, <2>5 DEF Restored, Back, RunnerAt, SyncAt, Valid, local, remote, runnerVars,
           beatVars, First
    <2> QED BY <2>3, <2>4, <2>6
<1> QED BY <1>1, <1>2, <1>3, <1>4, <1>5 DEF RestoreStep

-----------------------------------------------------------------------------
\* The runner, which changes nothing but the files of the chunk it is at.

RunnerStates ==
    {"off", "status", "quarantine", "quarantine_record", "write_payload", "write_record"}

\* A chunk the runner is at has no record that the store has shown.
LEMMA RunnerCommitsNew ==
    ASSUME Inv, runner # "off", rc <= N
    PROVE  rc \in Chunks /\ ~Valid(rc) /\ (remoteRecord[rc] = NoRecord \/ rc \in unseen)
<1>1. rc \in Chunks
    BY DEF Inv, TypeOK, Chunks
<1> QED BY <1>1 DEF Inv, RunnerAt, Restored, Back

LEMMA RunnerFiles ==
    ASSUME Inv, runner # "off", rc <= N,
           UNCHANGED <<plan, remote, cached, unseen, workerVars, beatVars, session>>,
           payload' \in [Chunks -> Files], record' \in [Chunks -> RecordFiles],
           \A c \in Chunks \ {rc} : payload'[c] = payload[c] /\ record'[c] = record[c],
           runner' \in RunnerStates, rc' \in 1 .. N + 1, RunnerAt'
    PROVE  Inv'
<1>1. /\ rc \in Chunks /\ ~Valid(rc) /\ worker = "command"
      /\ remoteRecord[rc] = NoRecord \/ rc \in unseen
    BY RunnerCommitsNew DEF Inv, RunnerAt
<1>2. \A c \in Chunks : c # rc => (Valid(c)' <=> Valid(c)) /\ record'[c] = record[c]
    BY DEF Valid
<1>3. TypeOK'
    BY DEF Inv, TypeOK, remote, workerVars, beatVars, RunnerStates
<1>4. RemoteIsRestorable' /\ CacheTellsTruth'
    BY DEF Inv, RemoteIsRestorable, CacheTellsTruth, remote
<1>5. NoConflict'
    BY <1>1, <1>2 DEF Inv, NoConflict, remote
<1>6. Restored'
    BY <1>1, <1>2 DEF Inv, Restored, Back, remote, workerVars
<1>7. SyncAt'
    <2>1. \A c \in queue : beat # "idle" => c \in Chunks /\ c # rc
        BY <1>1 DEF Inv, SyncAt, TypeOK
    <2> QED BY <1>1, <1>2, <2>1 DEF Inv, SyncAt, TypeOK, remote, workerVars, beatVars, First
<1> QED BY <1>3, <1>4, <1>5, <1>6, <1>7 DEF Inv

LEMMA RunnerKeeps ==
    ASSUME Inv, RunnerNext
    PROVE  Inv'
<1> DEFINE rest == <<remote, cached, unseen, workerVars, beatVars, session>>
<1>1. CASE RunnerStarts
    <2>1. /\ worker = "command" /\ plan' = TRUE /\ runner' = "status"
          /\ rc' = First({c \in Chunks : ~Valid(c)})
          /\ UNCHANGED <<payload, record, rest>>
        BY <1>1 DEF RunnerStarts
    <2>2. /\ rc' \in 1 .. N + 1 /\ (rc' <= N => rc' \in {c \in Chunks : ~Valid(c)})
          /\ \A c \in Chunks : c < rc' => Valid(c)
        <3>1. {c \in Chunks : ~Valid(c)} \subseteq Chunks
            OBVIOUS
        <3> QED BY <2>1, <3>1, FirstType, FirstIsLowest
    <2>3. \A c \in Chunks : Valid(c)' <=> Valid(c)
        BY <2>1 DEF Valid
    <2>4. TypeOK'
        BY <2>1, <2>2 DEF Inv, TypeOK, remote, workerVars, beatVars
    <2>5. RemoteIsRestorable' /\ CacheTellsTruth' /\ NoConflict' /\ Restored'
        BY <2>1 DEF Inv, RemoteIsRestorable, CacheTellsTruth, NoConflict, Restored, Back, Valid,
           remote, workerVars
    <2>6. RunnerAt'
        BY <2>1, <2>2, <2>3 DEF RunnerAt, Valid, workerVars
    <2>7. SyncAt'
        BY <2>1 DEF Inv, SyncAt, Valid, Published, Uploaded, First, remote, workerVars, beatVars
    <2> QED BY <2>4, <2>5, <2>6, <2>7 DEF Inv
<1>2. CASE RunnerEnds
    <2>1. /\ worker = "command" /\ runner' = "off" /\ worker' = "restore_again" /\ wc' = 1
          /\ UNCHANGED <<local, remote, cached, unseen, rc, beatVars, session>>
        BY <1>2 DEF RunnerEnds
    <2>0. \A c \in Chunks : Valid(c)
        <3>1. runner # "off" /\ rc > N /\ rc \in 1 .. N + 1
            BY <1>2 DEF RunnerEnds, Inv, TypeOK
        <3>2. \A c \in Chunks : c < rc
            BY <3>1, ChunkAssumption DEF Chunks
        <3> QED BY <3>1, <3>2 DEF Inv, RunnerAt
    <2>2. TypeOK'
        BY <2>1, ChunkAssumption DEF Inv, TypeOK, local, remote, beatVars
    <2>3. RemoteIsRestorable' /\ CacheTellsTruth' /\ NoConflict' /\ Restored'
        BY <2>0, <2>1 DEF Inv, RemoteIsRestorable, CacheTellsTruth, NoConflict, Restored, Back, Valid,
           local, remote
    <2>4. RunnerAt' /\ SyncAt'
        BY <2>1 DEF Inv, RunnerAt, SyncAt, Valid, Published, Uploaded, First, local, remote, beatVars
    <2> QED BY <2>2, <2>3, <2>4 DEF Inv
<1>3. CASE CommitStatus \/ QuarantinePayload \/ QuarantineRecord \/ WritePayload
    <2>1. runner # "off" /\ rc <= N /\ rc \in Chunks /\ ~Valid(rc) /\ UNCHANGED <<plan, rest, rc>>
        BY <1>3, RunnerCommitsNew DEF CommitStatus, QuarantinePayload, QuarantineRecord, WritePayload,
           RunnerStep, local
    <2>2. /\ payload' = payload \/ payload' = [payload EXCEPT ![rc] = "absent"]
                \/ payload' = [payload EXCEPT ![rc] = "good"]
          /\ record' = record \/ record' = [record EXCEPT ![rc] = NoRecord]
        BY <1>3 DEF CommitStatus, QuarantinePayload, QuarantineRecord, WritePayload, local
    <2>3. payload' \in [Chunks -> Files] /\ record' \in [Chunks -> RecordFiles]
        BY <2>1, <2>2 DEF Inv, TypeOK, Files, RecordFiles
    <2>4. \A c \in Chunks \ {rc} : payload'[c] = payload[c] /\ record'[c] = record[c]
        BY <2>1, <2>2 DEF Inv, TypeOK
    <2>5. runner' \in RunnerStates \ {"off", "status"} /\ rc' \in 1 .. N + 1
        BY <1>3, <2>1 DEF CommitStatus, QuarantinePayload, QuarantineRecord, WritePayload, RunnerStep,
           RunnerStates, Inv, TypeOK
    <2>6. RunnerAt'
        <3>1. worker' = "command"
            BY <2>1 DEF Inv, RunnerAt, workerVars
        <3>2. /\ runner' \in {"write_payload", "write_record"} => record'[rc] = NoRecord
              /\ runner' = "quarantine_record" => payload'[rc] = "absent"
            BY <1>3, <2>1 DEF CommitStatus, QuarantinePayload, QuarantineRecord, WritePayload,
               RunnerStep, Missing, Inv, RunnerAt, TypeOK, local
        <3>3. runner' = "quarantine" => UNCHANGED <<payload, record>>
            BY <1>3 DEF CommitStatus, QuarantinePayload, QuarantineRecord, WritePayload,
               RunnerStep, local
        <3>4. ~ (payload'[rc] = "good" /\ record'[rc] \in Sessions)
            <4>1. "absent" # "good" /\ NoRecord \notin Sessions
                BY DEF NoRecord, Sessions
            <4> QED BY <2>1, <2>5, <3>2, <3>3, <4>1 DEF Valid, RunnerStates
        <3>5. runner' = "write_record" => payload'[rc] = "good"
            BY <1>3, <2>1 DEF CommitStatus, QuarantinePayload, QuarantineRecord, WritePayload,
               RunnerStep, Inv, TypeOK
        <3>6. \A c \in Chunks : c < rc => c # rc /\ Valid(c)
            BY <2>1 DEF Inv, RunnerAt, Chunks
        <3>7. \A c \in Chunks : c < rc => Valid(c)'
            BY <2>4, <3>6 DEF Valid
        <3> QED BY <2>1, <2>5, <3>1, <3>2, <3>4, <3>5, <3>7 DEF Inv, RunnerAt, Valid, RunnerStates
    <2> QED BY <2>1, <2>3, <2>4, <2>5, <2>6, RunnerFiles
<1>4. CASE WriteRecord
    <2>1. /\ runner = "write_record" /\ runner' = "status" /\ rc <= N /\ rc \in Chunks
          /\ record' = [record EXCEPT ![rc] = session] /\ UNCHANGED <<plan, payload, rest>>
        BY <1>4, RunnerCommitsNew DEF WriteRecord, RunnerStep
    <2> DEFINE pending == {c \in Chunks : c > rc /\ ~Valid(c)}
    <2>2. rc' \in 1 .. N + 1 /\ (rc' <= N => rc' \in pending)
        BY <1>4, FirstType DEF WriteRecord
    <2>3. record' \in [Chunks -> RecordFiles] /\ \A c \in Chunks \ {rc} : record'[c] = record[c]
        BY <2>1 DEF Inv, TypeOK, RecordFiles
    <2>4. rc' <= N => ~Valid(rc)'
        <3> SUFFICES ASSUME rc' <= N PROVE ~ (payload'[rc'] = "good" /\ record'[rc'] \in Sessions)
            BY DEF Valid
        <3>1. rc' \in Chunks \ {rc} /\ ~Valid(rc')
            BY <2>1, <2>2 DEF Chunks
        <3> QED BY <2>1, <2>3, <3>1 DEF Valid
    <2>5. RunnerAt'
        <3>1. \A c \in Chunks : c < rc' => c \notin pending
            <4>1. pending \subseteq Chunks /\ rc' = First(pending)
                BY <1>4 DEF WriteRecord
            <4> HIDE DEF pending
            <4> QED BY <4>1, FirstIsLowest
        <3>2. payload[rc] = "good" /\ record'[rc] \in Sessions
            BY <2>1 DEF Inv, RunnerAt, TypeOK
        <3>3. \A c \in Chunks : c < rc' => c = rc \/ Valid(c)
            BY <2>1, <3>1 DEF Inv, RunnerAt, Chunks
        <3>4. \A c \in Chunks : c < rc' => Valid(c)'
            BY <2>1, <2>3, <3>2, <3>3 DEF Valid
        <3> QED BY <2>1, <2>4, <3>4 DEF Inv, RunnerAt, workerVars
    <2>6. payload' \in [Chunks -> Files] /\ \A c \in Chunks : payload'[c] = payload[c]
        BY <2>1 DEF Inv, TypeOK
    <2>7. runner' \in RunnerStates
        BY <2>1 DEF RunnerStates
    <2> QED BY <2>1, <2>2, <2>3, <2>5, <2>6, <2>7, RunnerFiles
<1> QED BY <1>1, <1>2, <1>3, <1>4 DEF RunnerNext

-----------------------------------------------------------------------------
\* Synchronization, by a heartbeat or after the command.

LEMMA StartKeeps ==
    ASSUME Inv, HeartbeatStarts \/ FullSyncStarts
    PROVE  Inv'
<1> DEFINE full == worker' = "syncing"
<1>1. /\ beat = "idle" /\ remotePlan' = TRUE /\ queue' = NewChunks /\ beat' = "first"
      /\ UNCHANGED <<local, remotePayload, remoteRecord, cached, unseen, wc, runnerVars, session>>
    BY DEF HeartbeatStarts, FullSyncStarts, SyncStarts
<1>2. \/ worker' = worker /\ worker # "complete" /\ worker # "syncing"
      \/ worker = "sync" /\ worker' = "syncing" /\ \A c \in Chunks : Valid(c)
    BY DEF HeartbeatStarts, FullSyncStarts, SyncStarts, Inv, SyncAt
<1>3. \A c \in Chunks : Valid(c)' <=> Valid(c)
    BY <1>1 DEF Valid, local
<1>4. TypeOK'
    BY <1>1, <1>2 DEF Inv, TypeOK, local, runnerVars, NewChunks
<1>5. RemoteIsRestorable' /\ CacheTellsTruth' /\ NoConflict'
    BY <1>1 DEF Inv, RemoteIsRestorable, CacheTellsTruth, NoConflict, Valid, local
<1>6. Restored'
    BY <1>1, <1>2 DEF Inv, Restored, Back, Valid, local
<1>7. RunnerAt'
    BY <1>1, <1>2 DEF Inv, RunnerAt, Valid, local, runnerVars
<1>8. SyncAt'
    <2>1. \A c \in Chunks : Valid(c) => c \in queue' \/ Uploaded(c)'
        <3> SUFFICES ASSUME NEW c \in Chunks, Valid(c), cached[c] = record[c]
                     PROVE  Uploaded(c)'
            BY <1>1 DEF NewChunks
        <3>1. cached[c] # NoRecord
            BY DEF Valid, Sessions, NoRecord
        <3>2. remoteRecord[c] = record[c] /\ remotePayload[c] = "good" /\ remoteRecord[c] # NoRecord
            BY <3>1 DEF Inv, CacheTellsTruth
        <3> QED BY <1>1, <3>2 DEF Published, Uploaded, local
    <2>2. \A c \in queue' : Valid(c)'
        BY <1>1, <1>3 DEF NewChunks
    <2> QED BY <1>1, <1>2, <1>3, <2>1, <2>2 DEF SyncAt
<1> QED BY <1>4, <1>5, <1>6, <1>7, <1>8 DEF Inv

LEMMA UploadKeeps ==
    ASSUME Inv, UploadObject
    PROVE  Inv'
<1> DEFINE c == First(queue)
<1>1. beat \in {"first", "second"} /\ queue # {} /\ c \in queue /\ c \in Chunks
    BY FirstIsIn DEF UploadObject, UploadOrder, Inv, TypeOK
<1>2. payload[c] = "good" /\ record[c] \in Sessions /\ record[c] # NoRecord
    BY <1>1 DEF Inv, SyncAt, Valid, Sessions, NoRecord
<1>3. UNCHANGED <<local, remotePlan, unseen, workerVars, runnerVars, session>> /\ remotePlan
    BY <1>1 DEF UploadObject, Inv, SyncAt
<1>4. \A d \in Chunks : Valid(d)' <=> Valid(d)
    BY <1>3 DEF Valid, local
<1>5. RunnerAt'
    BY <1>3 DEF Inv, RunnerAt, Valid, local, workerVars, runnerVars
<1>6. CASE beat = "first"
    <2>1. /\ remotePayload' = [remotePayload EXCEPT ![c] = "good"] /\ beat' = "second"
          /\ UNCHANGED <<remoteRecord, cached, queue>>
        BY <1>2, <1>6 DEF UploadObject, UploadOrder
    <2>2. remotePayload' \in [Chunks -> Files] /\ remotePayload'[c] = "good"
        BY <1>1, <2>1 DEF Inv, TypeOK, Files
    <2>3. \A d \in Chunks : remotePayload[d] = "good" => remotePayload'[d] = "good"
        BY <1>1, <2>1 DEF Inv, TypeOK
    <2> HIDE DEF c
    <2>4. TypeOK'
        BY <1>3, <2>1, <2>2 DEF Inv, TypeOK, local, workerVars, runnerVars
    <2>5. RemoteIsRestorable' /\ CacheTellsTruth' /\ NoConflict' /\ Restored'
        BY <1>3, <2>1, <2>3 DEF Inv, RemoteIsRestorable, CacheTellsTruth, NoConflict, Restored, Back,
           Valid, local, workerVars
    <2>6. First(queue') = c
        BY <2>1 DEF c
    <2>7. SyncAt'
        BY <1>1, <1>3, <1>4, <1>6, <2>1, <2>2, <2>3, <2>6 DEF Inv, SyncAt, Published, Uploaded, TypeOK,
           local, workerVars
    <2> QED BY <1>5, <2>4, <2>5, <2>7 DEF Inv
<1>7. CASE beat = "second"
    <2>1. /\ remoteRecord' = [remoteRecord EXCEPT ![c] = record[c]] /\ beat' = "first"
          /\ cached' = [cached EXCEPT ![c] = record[c]] /\ queue' = queue \ {c}
          /\ remoteRecord[c] \in {NoRecord, record[c]} /\ UNCHANGED remotePayload
        BY <1>2, <1>7 DEF UploadObject, UploadOrder, Refused
    <2>2. remotePayload[c] = "good"
        BY <1>7 DEF Inv, SyncAt
    <2>3. /\ remoteRecord' \in [Chunks -> {NoRecord} \cup Sessions]
          /\ cached' \in [Chunks -> {NoRecord} \cup Sessions]
          /\ remoteRecord'[c] = record[c] /\ cached'[c] = record[c]
          /\ \A d \in Chunks \ {c} : remoteRecord'[d] = remoteRecord[d] /\ cached'[d] = cached[d]
        BY <1>1, <1>2, <2>1 DEF Inv, TypeOK
    <2>4. Valid(c) /\ \A d \in Chunks : remoteRecord[d] # NoRecord => remoteRecord'[d] = remoteRecord[d]
        BY <1>2, <2>1, <2>3 DEF Valid
    <2> HIDE DEF c
    <2>5. TypeOK'
        BY <1>1, <1>3, <2>1, <2>3 DEF Inv, TypeOK, local, workerVars, runnerVars
    <2>6. RemoteIsRestorable'
        BY <1>3, <2>1, <2>2, <2>3 DEF Inv, RemoteIsRestorable
    <2>7. CacheTellsTruth'
        BY <2>1, <2>2, <2>3 DEF Inv, CacheTellsTruth
    <2>8. NoConflict'
        BY <1>3, <1>4, <2>3 DEF Inv, NoConflict, local
    <2>9. \A d \in Chunks : Back(d) => Back(d)'
        BY <1>3, <1>4, <2>3, <2>4 DEF Back
    <2>10. Restored'
        <3>1. \A d \in 1 .. wc - 1 : d \in Chunks
            BY ChunkAssumption DEF Inv, TypeOK, Chunks
        <3> QED BY <1>3, <1>4, <2>4, <2>9, <3>1 DEF Inv, Restored, local, workerVars
    <2>11. SyncAt'
        BY <1>1, <1>2, <1>3, <1>4, <1>7, <2>1, <2>2, <2>3 DEF Inv, SyncAt, Published, Uploaded, TypeOK,
           local, workerVars
    <2> QED BY <1>5, <2>5, <2>6, <2>7, <2>8, <2>10, <2>11 DEF Inv
<1> QED BY <1>1, <1>6, <1>7

LEMMA StopKeeps ==
    ASSUME Inv, SyncEnds \/ SyncRefused \/ SyncRaises
    PROVE  Inv'
<1>1. /\ beat' = "idle" /\ queue' = {}
      /\ UNCHANGED <<local, remote, cached, unseen, wc, runnerVars, session>>
    BY DEF SyncEnds, SyncRefused, SyncRaises, SyncStops
<1>2. \/ worker' = worker /\ worker # "syncing"
      \/ worker = "syncing" /\ worker' \in {"complete", "failed"}
    BY DEF SyncEnds, SyncRefused, SyncRaises, SyncStops
<1>3. TypeOK'
    BY <1>1, <1>2 DEF Inv, TypeOK, local, remote, runnerVars
<1>4. RemoteIsRestorable' /\ CacheTellsTruth' /\ NoConflict'
    BY <1>1 DEF Inv, RemoteIsRestorable, CacheTellsTruth, NoConflict, Valid, local, remote
<1>5. Restored' /\ RunnerAt' /\ SyncAt'
    BY <1>1, <1>2 DEF Inv, Restored, Back, RunnerAt, SyncAt, Valid, local, remote, runnerVars
<1> QED BY <1>3, <1>4, <1>5 DEF Inv

LEMMA FailureKeeps ==
    ASSUME Inv, JobRaises
    PROVE  Inv'
<1>1. /\ worker' = "failed" /\ runner' = "off" /\ worker \notin {"syncing", "complete"}
      /\ UNCHANGED <<local, remote, cached, unseen, wc, rc, beatVars, session>>
    BY DEF JobRaises
<1>2. TypeOK'
    BY <1>1 DEF Inv, TypeOK, local, remote, beatVars
<1>3. RemoteIsRestorable' /\ CacheTellsTruth' /\ NoConflict'
    BY <1>1 DEF Inv, RemoteIsRestorable, CacheTellsTruth, NoConflict, Valid, local, remote
<1>4. Restored' /\ RunnerAt' /\ SyncAt'
    BY <1>1 DEF Inv, Restored, RunnerAt, SyncAt, Valid, Published, Uploaded, First, local, remote, beatVars
<1> QED BY <1>2, <1>3, <1>4 DEF Inv

\* A restart makes no chunk valid that was not.
LEMMA RestartKeeps ==
    ASSUME Inv, RestartKeepsDisk \/ RestartLosesDisk
    PROVE  Inv' /\ \A c \in Chunks : Valid(c)' => Valid(c) /\ record'[c] = record[c]
<1>1. /\ worker' = "restore_plan" /\ wc' = 1 /\ runner' = "off" /\ rc' = 1 /\ beat' = "idle"
      /\ queue' = {} /\ session' \in Sessions /\ cached' = [c \in Chunks |-> NoRecord]
      /\ UNCHANGED remote
    BY ChunkAssumption DEF RestartKeepsDisk, RestartLosesDisk, ProcessRestarts, Inv, TypeOK, Sessions
<1>2. /\ plan' \in BOOLEAN /\ payload' \in [Chunks -> Files] /\ record' \in [Chunks -> RecordFiles]
      /\ \A c \in Chunks : payload'[c] = "good" /\ record'[c] \in Sessions =>
                             payload[c] = "good" /\ record'[c] = record[c]
      /\ \/ unseen' = unseen
         \/ unseen' = {} /\ \A c \in Chunks : ~Valid(c)'
    <2>1. CASE RestartKeepsDisk
        <3>1. PICK torn \in SUBSET Chunks :
                record' = [c \in Chunks |-> IF c \in torn THEN DamagedRecord ELSE record[c]]
            BY <2>1 DEF RestartKeepsDisk
        <3>2. DamagedRecord \notin Sessions /\ DamagedRecord \in RecordFiles
            BY ChunkAssumption DEF DamagedRecord, Sessions, RecordFiles
        <3>3. UNCHANGED <<plan, payload, unseen>>
            BY <2>1 DEF RestartKeepsDisk
        <3>4. record' \in [Chunks -> RecordFiles]
            BY <3>1, <3>2 DEF Inv, TypeOK
        <3>5. \A c \in Chunks : record'[c] \in Sessions => record'[c] = record[c]
            BY <3>1, <3>2
        <3> QED BY <3>3, <3>4, <3>5 DEF Inv, TypeOK
    <2>2. CASE RestartLosesDisk
        <3>1. NoRecord \in RecordFiles /\ "absent" \in Files /\ "absent" # "good"
            BY DEF RecordFiles, Files
        <3>2. /\ plan' = FALSE /\ payload' = [c \in Chunks |-> "absent"]
              /\ record' = [c \in Chunks |-> NoRecord] /\ unseen' = {}
            BY <2>2 DEF RestartLosesDisk
        <3> QED BY <3>1, <3>2 DEF Valid
    <2> QED BY <2>1, <2>2
<1>3. \A c \in Chunks : Valid(c)' => Valid(c) /\ record'[c] = record[c]
    BY <1>2 DEF Valid
<1>4. TypeOK'
    <2>1. cached' \in [Chunks -> {NoRecord} \cup Sessions] /\ wc' \in 1 .. N + 1 /\ rc' \in 1 .. N + 1
        BY <1>1, ChunkAssumption
    <2> QED BY <1>1, <1>2, <2>1 DEF Inv, TypeOK, remote
<1>5. RemoteIsRestorable' /\ CacheTellsTruth'
    BY <1>1 DEF Inv, RemoteIsRestorable, CacheTellsTruth, remote
<1>6. NoConflict'
    BY <1>1, <1>2, <1>3 DEF Inv, NoConflict, remote
<1>7. Restored' /\ RunnerAt' /\ SyncAt'
    BY <1>1 DEF Restored, RunnerAt, SyncAt
<1> QED BY <1>3, <1>4, <1>5, <1>6, <1>7 DEF Inv

LEMMA NextInv == Inv /\ [Next]_vars => Inv'
<1> SUFFICES ASSUME Inv, [Next]_vars PROVE Inv'
    OBVIOUS
<1>1. CASE RestoreStep \/ RunnerNext
    BY <1>1, RestoreKeeps, RunnerKeeps
<1>2. CASE SyncNext \/ HeartbeatStarts \/ SyncRaises \/ JobRaises
    BY <1>2, StartKeeps, UploadKeeps, StopKeeps, FailureKeeps DEF SyncNext
<1>3. CASE RestartKeepsDisk \/ RestartLosesDisk
    BY <1>3, RestartKeeps
<1>4. CASE UNCHANGED vars
    BY <1>4 DEF vars, local, remote, workerVars, runnerVars, beatVars, Inv, TypeOK, RemoteIsRestorable,
       CacheTellsTruth, NoConflict, Restored, Back, RunnerAt, SyncAt, Valid, Published, Uploaded, First
<1> QED BY <1>1, <1>2, <1>3, <1>4 DEF Next, Finished

LEMMA Invariance == Spec => []Inv
<1> QED BY InitInv, NextInv, PTL DEF Spec

\* Whatever upload is cut short, by a restart or by the store: a record that
\* _restore_chunk finds in the store has its payload there, and the frozen plan.
THEOREM StoreIsRestorable == Spec => []RemoteIsRestorable
<1>1. Inv => RemoteIsRestorable
    BY DEF Inv
<1> QED BY <1>1, Invariance, PTL

\* What _uploaded_runner_chunks holds as uploaded is in the store as it is here.
THEOREM UploadCacheIsTrue == Spec => []CacheTellsTruth
<1>1. Inv => CacheTellsTruth
    BY DEF Inv
<1> QED BY <1>1, Invariance, PTL

\* upload_immutable never meets another commit of a chunk, over any number of restarts
\* with or without the disk, unless a restore took that chunk for missing, and only the
\* gcloud command does.
THEOREM CommitsDoNotCollide == Spec => []NoConflict
<1>1. Inv => NoConflict
    BY DEF Inv
<1> QED BY <1>1, Invariance, PTL

-----------------------------------------------------------------------------
\* The files implement the register.

\* What can be read here of every chunk, and what is in the store.
Here == [c \in Chunks |-> IF Valid(c) THEN record[c] ELSE NoRecord]
InStore == [c \in Chunks |-> IF remotePayload[c] = "good" THEN remoteRecord[c] ELSE NoRecord]
Completed == worker = "complete"

LEMMA InitRefines == Init => Register!Init
<1> SUFFICES ASSUME Init PROVE Register!Init
    OBVIOUS
<1>1. \A c \in Chunks : ~Valid(c) /\ remotePayload[c] = "absent"
    BY DEF Init, Valid
<1> QED BY <1>1 DEF Init, Register!Init, Register!None, NoRecord

LEMMA RegisterStep ==
    ASSUME \/ \E c \in Chunks :
                /\ Here[c] = NoRecord
                /\ \/ Here' = [Here EXCEPT ![c] = session]
                   \/ InStore[c] # NoRecord /\ Here' = [Here EXCEPT ![c] = InStore[c]]
                /\ InStore' = InStore /\ Completed' = Completed /\ session' = session
           \/ \E c \in Chunks :
                /\ Here[c] # NoRecord /\ InStore[c] = NoRecord
                /\ InStore' = [InStore EXCEPT ![c] = Here[c]]
                /\ Here' = Here /\ Completed' = Completed /\ session' = session
           \/ /\ ~Completed /\ ~Completed' /\ session' = session + 1 /\ InStore' = InStore
              /\ \E kept \in SUBSET Chunks :
                   Here' = [c \in Chunks |-> IF c \in kept THEN Here[c] ELSE NoRecord]
           \/ /\ \A c \in Chunks : Here[c] # NoRecord /\ Here[c] = InStore[c]
              /\ Completed'
              /\ Here' = Here /\ InStore' = InStore /\ session' = session
           \/ UNCHANGED <<Here, InStore, Completed, session>>
    PROVE  [Register!Next]_(Register!vars)
<1>0. Register!None = NoRecord
    BY DEF Register!None, NoRecord
<1>1. ASSUME NEW c \in Chunks, Here[c] = NoRecord, Here' = [Here EXCEPT ![c] = session],
             InStore' = InStore, Completed' = Completed, session' = session
      PROVE  Register!Next
    <2>1. Register!Commit(c)
        BY <1>0, <1>1, Zenon DEF Register!Commit, Register!Write, Here, InStore, Completed
    <2> QED BY <2>1 DEF Register!Next
<1>2. ASSUME NEW c \in Chunks, Here[c] = NoRecord, InStore[c] # NoRecord,
             Here' = [Here EXCEPT ![c] = InStore[c]],
             InStore' = InStore, Completed' = Completed, session' = session
      PROVE  Register!Next
    <2>1. Register!Restore(c)
        BY <1>0, <1>2, Zenon DEF Register!Restore, Register!Write, Here, InStore, Completed
    <2> QED BY <2>1 DEF Register!Next
<1>3. ASSUME NEW c \in Chunks, Here[c] # NoRecord, InStore[c] = NoRecord,
             InStore' = [InStore EXCEPT ![c] = Here[c]],
             Here' = Here, Completed' = Completed, session' = session
      PROVE  Register!Next
    <2>1. Register!Publish(c)
        BY <1>0, <1>3, Zenon DEF Register!Publish, Here, InStore, Completed
    <2> QED BY <2>1 DEF Register!Next
<1>4. ASSUME ~Completed, ~Completed', session' = session + 1, InStore' = InStore,
             NEW kept \in SUBSET Chunks,
             Here' = [c \in Chunks |-> IF c \in kept THEN Here[c] ELSE NoRecord]
      PROVE  Register!Next
    <2>1. Register!Restart
        BY <1>0, <1>4, Zenon DEF Register!Restart, Here, InStore, Completed
    <2> QED BY <2>1 DEF Register!Next
<1>5. ASSUME \A c \in Chunks : Here[c] # NoRecord /\ Here[c] = InStore[c], Completed',
             Here' = Here, InStore' = InStore, session' = session
      PROVE  Register!Next
    <2>1. Register!Finish
        BY <1>0, <1>5, Zenon DEF Register!Finish, Here, InStore, Completed
    <2> QED BY <2>1 DEF Register!Next
<1>6. ASSUME UNCHANGED <<Here, InStore, Completed, session>> PROVE UNCHANGED Register!vars
    BY <1>6, Zenon DEF Register!vars, Here, InStore, Completed
<1> QED BY <1>1, <1>2, <1>3, <1>4, <1>5, <1>6

\* Steps on the files of one chunk, which was not valid or stays what it was: the chunk
\* is committed, read back, or nothing that can be read changes.
LEMMA WriteRefines ==
    ASSUME NEW k \in Chunks, UNCHANGED <<remote, session>>, Completed' = Completed,
           \A c \in Chunks \ {k} : payload'[c] = payload[c] /\ record'[c] = record[c],
           Valid(k) => Valid(k)' /\ record'[k] = record[k],
           ~Valid(k) /\ Valid(k)' =>
               record'[k] = session \/ (InStore[k] # NoRecord /\ record'[k] = InStore[k])
    PROVE  [Register!Next]_(Register!vars)
<1>1. InStore' = InStore
    BY DEF InStore, remote
<1>2. \A c \in Chunks \ {k} : (Valid(c)' <=> Valid(c)) /\ Here'[c] = Here[c]
    BY DEF Valid, Here
<1>3. CASE ~Valid(k) /\ Valid(k)'
    <2>1. Here[k] = NoRecord /\ Here'[k] = record'[k]
        BY <1>3 DEF Here
    <2>2. Here' = [Here EXCEPT ![k] = record'[k]]
        BY <1>2, <2>1 DEF Here
    <2>3. \/ Here' = [Here EXCEPT ![k] = session]
          \/ InStore[k] # NoRecord /\ Here' = [Here EXCEPT ![k] = InStore[k]]
        BY <1>3, <2>2
    <2> QED BY <1>1, <2>1, <2>3, RegisterStep
<1>4. CASE ~(~Valid(k) /\ Valid(k)')
    <2>1. Here'[k] = Here[k]
        BY <1>4 DEF Here
    <2>2. Here' = Here
        BY <1>2, <2>1 DEF Here
    <2> QED BY <1>1, <2>2, RegisterStep
<1> QED BY <1>3, <1>4

LEMMA FilesRefine ==
    ASSUME Inv, Inv', RestoreStep \/ RunnerNext
    PROVE  [Register!Next]_(Register!vars)
<1>1. UNCHANGED <<remote, session>> /\ Completed' = Completed
    BY DEF RestoreStep, RestorePlan, SkipChunk, RestoreRecord, Download, RestorePayload, RestoreEnds,
       RunnerNext, RunnerStarts, CommitStatus, QuarantinePayload, QuarantineRecord, WritePayload,
       WriteRecord, RunnerEnds, AfterRestore, Restoring, Completed, workerVars
<1>2. CASE RestoreRecord \/ RestorePayload
    <2> DEFINE k == wc
    <2>1. k \in Chunks
        BY <1>2 DEF RestoreRecord, RestorePayload, Restoring, Inv, TypeOK, Restored, Chunks
    <2>2. \A c \in Chunks \ {k} : payload'[c] = payload[c] /\ record'[c] = record[c]
        BY <1>2, <2>1 DEF RestoreRecord, Download, RestorePayload, Inv, TypeOK
    <2>3. Valid(k) => payload'[k] = "good" /\ record'[k] = record[k]
        BY <1>2, <2>1 DEF RestoreRecord, RestorePayload, Valid, Inv, TypeOK
    <2>4. record'[k] = remoteRecord[k] /\ remoteRecord[k] # NoRecord
        <3>1. CASE RestoreRecord
            BY <2>1, <3>1 DEF RestoreRecord, Download, Inv, TypeOK
        <3>2. CASE RestorePayload
            BY <3>2 DEF RestorePayload, Inv, Restored
        <3> QED BY <1>2, <3>1, <3>2
    <2>5. InStore[k] = remoteRecord[k]
        BY <2>1, <2>4 DEF InStore, Inv, RemoteIsRestorable
    <2> HIDE DEF k
    <2>6. Valid(k) => payload'[k] = "good" /\ record'[k] \in Sessions /\ record'[k] = record[k]
        BY <2>3 DEF Valid
    <2> QED BY <1>1, <2>1, <2>2, <2>4, <2>5, <2>6, WriteRefines DEF Valid
<1>3. CASE QuarantinePayload \/ QuarantineRecord \/ WritePayload \/ WriteRecord
    <2>1. PICK k \in Chunks : k = rc /\ ~Valid(k)
        BY <1>3, RunnerCommitsNew DEF QuarantinePayload, QuarantineRecord, WritePayload, WriteRecord,
           RunnerStep
    <2>2. \A c \in Chunks \ {k} : payload'[c] = payload[c] /\ record'[c] = record[c]
        BY <1>3, <2>1 DEF QuarantinePayload, QuarantineRecord, WritePayload, WriteRecord, Inv, TypeOK
    <2>3. payload'[k] = "good" /\ record'[k] \in Sessions => record'[k] = session
        <3>1. CASE WriteRecord
            BY <2>1, <3>1 DEF WriteRecord, Inv, TypeOK
        <3>2. CASE WritePayload
            <4>1. record[k] = NoRecord /\ record' = record
                BY <2>1, <3>2 DEF WritePayload, RunnerStep, Inv, RunnerAt
            <4> QED BY <4>1 DEF NoRecord, Sessions
        <3>3. CASE QuarantinePayload
            BY <2>1, <3>3 DEF QuarantinePayload, Inv, TypeOK
        <3>4. CASE QuarantineRecord
            <4>1. record'[k] = NoRecord
                BY <2>1, <3>4 DEF QuarantineRecord, Inv, TypeOK
            <4> QED BY <4>1 DEF NoRecord, Sessions
        <3> QED BY <1>3, <3>1, <3>2, <3>3, <3>4
    <2>4. ~Valid(k) /\ \A c \in Chunks \ {k} : payload'[c] = payload[c] /\ record'[c] = record[c]
        BY <2>1, <2>2
    <2>5. Valid(k)' => record'[k] = session
        BY <2>3 DEF Valid
    <2> QED BY <1>1, <2>1, <2>4, <2>5, WriteRefines
<1>4. CASE UNCHANGED <<payload, record>>
    <2>1. Here' = Here /\ InStore' = InStore
        BY <1>1, <1>4 DEF Here, InStore, Valid, remote
    <2> QED BY <1>1, <2>1, RegisterStep
<1>5. RestorePlan \/ SkipChunk \/ RestoreEnds \/ RunnerStarts \/ CommitStatus \/ RunnerEnds
        => UNCHANGED <<payload, record>>
    BY DEF RestorePlan, SkipChunk, RestoreEnds, RunnerStarts, CommitStatus, RunnerEnds, local
<1> QED BY <1>2, <1>3, <1>4, <1>5 DEF RestoreStep, RunnerNext

LEMMA UploadRefines ==
    ASSUME Inv, UploadObject
    PROVE  [Register!Next]_(Register!vars)
<1> DEFINE c == First(queue)
<1>1. beat \in {"first", "second"} /\ c \in Chunks /\ Valid(c)
    BY FirstIsIn DEF UploadObject, UploadOrder, Inv, TypeOK, SyncAt
<1>2. Here' = Here /\ Completed' = Completed /\ session' = session
    BY DEF UploadObject, Here, Completed, Valid, local, workerVars
<1>3. CASE beat = "first"
    <2>1. remotePayload' = [remotePayload EXCEPT ![c] = payload[c]] /\ UNCHANGED remoteRecord
        BY <1>3 DEF UploadObject, UploadOrder
    <2> HIDE DEF c
    <2>2. \A d \in Chunks : remoteRecord[d] # NoRecord => remotePayload[d] = "good"
        BY DEF Inv, RemoteIsRestorable
    <2>3. \A d \in Chunks : remotePayload[d] = "good" => remotePayload'[d] = "good"
        BY <1>1, <2>1 DEF Valid, Inv, TypeOK
    <2>4. \A d \in Chunks : InStore'[d] = InStore[d]
        BY <2>1, <2>2, <2>3 DEF InStore
    <2>5. InStore' = InStore
        BY <2>4 DEF InStore
    <2> QED BY <1>2, <2>5, RegisterStep
<1>4. CASE beat = "second"
    <2>1. remoteRecord' = [remoteRecord EXCEPT ![c] = record[c]] /\ UNCHANGED remotePayload
          /\ remoteRecord[c] \in {NoRecord, record[c]}
        BY <1>4 DEF UploadObject, UploadOrder, Refused
    <2>2. remotePayload[c] = "good" /\ record[c] # NoRecord
        BY <1>1, <1>4 DEF Inv, SyncAt, Valid, Sessions, NoRecord
    <2> HIDE DEF c
    <2>3. Here[c] = record[c] /\ InStore[c] = remoteRecord[c]
        BY <1>1, <2>2 DEF Here, InStore
    <2>4. InStore' = [InStore EXCEPT ![c] = Here[c]]
        BY <1>1, <2>1, <2>2, <2>3 DEF InStore, Inv, TypeOK
    <2>5. CASE remoteRecord[c] = NoRecord
        BY <1>1, <1>2, <2>2, <2>3, <2>4, <2>5, RegisterStep
    <2>6. CASE remoteRecord[c] = record[c]
        <3>1. InStore' = InStore
            BY <2>3, <2>4, <2>6 DEF InStore
        <3> QED BY <1>2, <3>1, RegisterStep
    <2> QED BY <2>1, <2>5, <2>6
<1> QED BY <1>1, <1>3, <1>4

LEMMA SyncRefines ==
    ASSUME Inv, HeartbeatStarts \/ FullSyncStarts \/ SyncEnds \/ SyncRefused \/ SyncRaises \/ JobRaises
    PROVE  [Register!Next]_(Register!vars)
<1>1. Here' = Here /\ InStore' = InStore /\ session' = session
    BY DEF HeartbeatStarts, FullSyncStarts, SyncStarts, SyncEnds, SyncRefused, SyncRaises, SyncStops,
       JobRaises, Here, InStore, Valid, local, remote
<1>2. CASE worker = "syncing" /\ SyncEnds
    <2>1. Completed' /\ queue = {}
        BY <1>2 DEF SyncEnds, Completed
    <2>2. \A c \in Chunks : Valid(c) /\ Uploaded(c)
        BY <1>2, <2>1 DEF Inv, SyncAt
    <2>3. \A c \in Chunks : Here[c] = record[c] /\ InStore[c] = remoteRecord[c] /\ Here[c] # NoRecord
        BY <2>2 DEF Here, InStore, Published, Uploaded, Valid, Sessions, NoRecord
    <2>4. \A c \in Chunks : record[c] = remoteRecord[c]
        BY <2>2 DEF Uploaded
    <2> QED BY <1>1, <2>1, <2>3, <2>4, RegisterStep
<1>3. CASE ~ (worker = "syncing" /\ SyncEnds)
    <2>1. Completed' = Completed
        BY <1>3 DEF HeartbeatStarts, FullSyncStarts, SyncStarts, SyncEnds, SyncRefused, SyncRaises,
           SyncStops, JobRaises, Completed
    <2> QED BY <1>1, <2>1, RegisterStep
<1> QED BY <1>2, <1>3

LEMMA NextRefines == Inv /\ Inv' /\ [Next]_vars => [Register!Next]_(Register!vars)
<1> SUFFICES ASSUME Inv, Inv', [Next]_vars PROVE [Register!Next]_(Register!vars)
    OBVIOUS
<1>1. CASE RestoreStep \/ RunnerNext
    BY <1>1, FilesRefine
<1>2. CASE SyncNext \/ HeartbeatStarts \/ SyncRaises \/ JobRaises
    BY <1>2, UploadRefines, SyncRefines DEF SyncNext
<1>3. CASE RestartKeepsDisk \/ RestartLosesDisk
    <2>1. ~Completed /\ ~Completed' /\ InStore' = InStore /\ session' = session + 1
        BY <1>3 DEF RestartKeepsDisk, RestartLosesDisk, ProcessRestarts, Completed, InStore, remote
    <2>2. \A c \in Chunks : Valid(c)' => Valid(c) /\ record'[c] = record[c]
        BY <1>3, RestartKeeps
    <2> DEFINE kept == {c \in Chunks : payload'[c] = "good" /\ record'[c] \in Sessions}
    <2>3. kept \in SUBSET Chunks
        OBVIOUS
    <2>4. Here' = [c \in Chunks |-> IF c \in kept THEN Here[c] ELSE NoRecord]
        BY <2>2 DEF Here, Valid
    <2> HIDE DEF kept
    <2> QED BY <2>1, <2>3, <2>4, RegisterStep
<1>4. CASE UNCHANGED vars
    <2>1. UNCHANGED <<Here, InStore, Completed, session>>
        BY <1>4 DEF vars, local, remote, workerVars, Here, InStore, Completed, Valid
    <2> QED BY <2>1, RegisterStep
<1> QED BY <1>1, <1>2, <1>3, <1>4 DEF Next, Finished

\* "Atomic, content-verified local storage for restartable profile chunks"
\* (ImmutableChunkStore): every step on the files commits one whole chunk, reads one back
\* or publishes one; only a restart takes chunks away, none is rewritten in place, the
\* published commit of a chunk is never replaced, and a job is complete when what is here
\* of every chunk is what is published.
THEOREM FilesImplementRegister == Spec => ImplementsRegister
<1>1. Inv /\ [Next]_vars => Inv'
    BY NextInv
<1> QED BY <1>1, Invariance, InitRefines, NextRefines, PTL DEF Spec, ImplementsRegister, Register!Spec
=============================================================================
