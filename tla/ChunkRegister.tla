---------------------------- MODULE ChunkRegister ----------------------------
(***************************************************************************)
(* What the chunk machinery promises to a long computation, without files: *)
(* every chunk is a register that holds one whole commit, known by the     *)
(* session that made it, and its published copy is written once.  Within a *)
(* session a register is never cleared or rewritten; a restart may clear   *)
(* any of them, and what was published can be read back.  (Docstring of    *)
(* ImmutableChunkStore: "Atomic, content-verified local storage for        *)
(* restartable profile chunks", src/cmfg_cce/orchestration/chunks.py.)     *)
(***************************************************************************)
EXTENDS Naturals

CONSTANT Chunks

VARIABLES
    here,           \* chunk -> the commit that can be read on the node
    published,      \* chunk -> the commit in the remote store
    complete,       \* the job has been told that all its chunks are there
    session

vars == <<here, published, complete, session>>

None == 0

Init ==
    /\ here = [c \in Chunks |-> None]
    /\ published = [c \in Chunks |-> None]
    /\ complete = FALSE
    /\ session = 1

Write(c, commit) ==
    /\ here[c] = None
    /\ here' = [here EXCEPT ![c] = commit]
    /\ UNCHANGED <<published, complete, session>>

Commit(c) == Write(c, session)
Restore(c) == published[c] # None /\ Write(c, published[c])

Publish(c) ==
    /\ here[c] # None /\ published[c] = None
    /\ published' = [published EXCEPT ![c] = here[c]]
    /\ UNCHANGED <<here, complete, session>>

\* The process starts again, with all its disk, with a damaged one or an empty one.
Restart ==
    /\ ~complete
    /\ session' = session + 1
    /\ \E kept \in SUBSET Chunks :
         here' = [c \in Chunks |-> IF c \in kept THEN here[c] ELSE None]
    /\ UNCHANGED <<published, complete>>

Finish ==
    /\ \A c \in Chunks : here[c] # None /\ here[c] = published[c]
    /\ complete' = TRUE
    /\ UNCHANGED <<here, published, session>>

Next ==
    \/ \E c \in Chunks : Commit(c) \/ Restore(c) \/ Publish(c)
    \/ Restart \/ Finish

Spec == Init /\ [][Next]_vars
=============================================================================
