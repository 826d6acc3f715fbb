----------------------------- MODULE NodeControl -----------------------------
(***************************************************************************)
(* The control files of a Spot node (src/cmfg_cce/orchestration/worker.py: *)
(* RuntimeLedger, _write_heartbeat, _heartbeat_loop, run; atomic_json of   *)
(* manifest.py): how the time a node is paid for is remembered over        *)
(* restarts, and how a session ends.                                       *)
(*                                                                         *)
(* heartbeat.json and spot_runtime.json are written by the heartbeat       *)
(* thread and, once, by run() itself.  Both writers use one temporary      *)
(* name for a file.  Time is counted in ticks; a ledger is the number of   *)
(* ticks it says.  The jobs of the session are reduced to how they end     *)
(* (NodeSchedule).                                                         *)
(***************************************************************************)
EXTENDS Naturals

CONSTANTS
    Limit,          \* the soft limit, in ticks
    MaxTime,        \* bound on the ticks of all sessions
    MaxSessions,    \* bound on the process starts
    Hosts,          \* sets of what may happen on a host
    Absent, Torn    \* a file that is not there, and one that is no JSON

\* "overlap": run() may begin its heartbeat while the thread is in one; "unreachable":
\* requests fail; "disk_lost": a restart may find an empty disk; "gcloud": the backend
\* that takes a failing request for a missing object.
ASSUME ControlAssumption ==
    /\ Limit \in Nat /\ MaxTime \in Nat /\ MaxSessions \in Nat \ {0}
    /\ Hosts \subseteq SUBSET {"overlap", "unreachable", "disk_lost", "gcloud"}
    /\ Absent \notin Nat /\ Torn \notin Nat /\ Absent # Torn

VARIABLES
    host,
    now, session,
    base, started,  \* base_seconds, and the time at which the session started
    jobs,           \* "running", or how the slots ended: "all", "failed", "some" completed
    stop,           \* stop_event
    file, do,       \* writer -> the file it is at, and its next step
    value, sent,    \* writer -> the time in its payload, and what its request carries
    fd,             \* writer -> the name under which the file it has open is found now
    temp, target,   \* file -> content under the temporary and under the final name
    remote,         \* the ledger in the store
    alive, exit     \* whether the process runs, and how run() ended, if it has

clock == <<now, session, base, started>>
writing == <<file, do, value, sent, fd>>
disk == <<temp, target>>
ending == <<jobs, stop, alive, exit>>
vars == <<host, clock, writing, disk, remote, ending>>

Writers == {"thread", "main"}
Files == {"heartbeat", "ledger"}
Other(w) == IF w = "main" THEN "thread" ELSE "main"
Scaled == {"complete", "failed"}    \* run() has scaled the node to zero

accumulated_seconds == base + (now - started)
Exhausted == accumulated_seconds >= Limit

-----------------------------------------------------------------------------
Init ==
    /\ host \in Hosts
    /\ now = 0 /\ session = 0 /\ base = 0 /\ started = 0
    /\ jobs = "running" /\ stop = FALSE
    /\ file = [w \in Writers |-> "heartbeat"] /\ do = [w \in Writers |-> "rest"]
    /\ value = [w \in Writers |-> 0] /\ sent = [w \in Writers |-> Absent]
    /\ fd = [w \in Writers |-> "none"]
    /\ temp = [f \in Files |-> Absent] /\ target = [f \in Files |-> Absent]
    /\ remote = Absent
    /\ alive = FALSE /\ exit = "none"

\* What download() leaves under the name of the ledger, given what the disk holds.
Downloaded(onDisk) ==
    (IF remote # Absent THEN {remote} ELSE {onDisk})
    \cup (IF {"gcloud", "unreachable"} \subseteq host THEN {onDisk} ELSE {})

\* Faulty variant: an error of the download is never raised.
FoundOrNothing(onDisk) ==
    Downloaded(onDisk) \cup (IF "unreachable" \in host THEN {onDisk} ELSE {})

\* What __post_init__ goes on with: when the download raises, the file on disk, if any.
Found(onDisk) ==
    Downloaded(onDisk)
    \cup (IF "unreachable" \in host /\ onDisk # Absent THEN {onDisk} ELSE {})

\* The disk a process starts on.
DiskKept == UNCHANGED temp /\ target' \in {[target EXCEPT !["ledger"] = x] : x \in Found(target["ledger"])}
DiskLost ==
    /\ "disk_lost" \in host
    /\ temp' = [f \in Files |-> Absent]
    /\ target' \in {[temp' EXCEPT !["ledger"] = x] : x \in Found(Absent)}

\* A process starts and finds its ledger, or cannot read it.
Start ==
    /\ ~alive /\ exit \notin Scaled /\ session < MaxSessions
    /\ session' = session + 1
    /\ DiskKept \/ DiskLost
    /\ started' = now
    /\ jobs' = "running" /\ stop' = FALSE
    /\ IF target'["ledger"] = Torn
       THEN alive' = FALSE /\ exit' = "unreadable" /\ base' = 0
       ELSE /\ alive' = TRUE /\ exit' = "none"
            /\ base' = IF target'["ledger"] = Absent THEN 0 ELSE target'["ledger"]
    /\ UNCHANGED <<host, now, writing, remote>>

\* Neither the store nor the disk has an answer, and the constructor raises.
StartFails ==
    /\ ~alive /\ exit \notin Scaled /\ session < MaxSessions
    /\ "unreachable" \in host
    /\ \/ target["ledger"] = Absent /\ UNCHANGED disk
       \/ "disk_lost" \in host /\ temp' = [f \in Files |-> Absent] /\ target' = temp'
    /\ session' = session + 1 /\ exit' = "store"
    /\ UNCHANGED <<host, now, base, started, writing, remote, jobs, stop, alive>>

Tick ==
    /\ alive /\ now < MaxTime
    /\ now' = now + 1
    /\ UNCHANGED <<host, session, base, started, writing, disk, remote, ending>>

\* The process is gone, and with it what its threads were at.
Dies ==
    /\ alive /\ alive' = FALSE
    /\ file' = [w \in Writers |-> "heartbeat"] /\ do' = [w \in Writers |-> "rest"]
    /\ value' = [w \in Writers |-> 0] /\ sent' = [w \in Writers |-> Absent]
    /\ fd' = [w \in Writers |-> "none"]
    /\ UNCHANGED <<host, clock, disk, remote, jobs, stop>>

\* A preempted machine.
Kill == Dies /\ exit' = IF exit = "none" THEN "killed" ELSE exit

Signal ==
    /\ alive /\ ~stop
    /\ stop' = TRUE
    /\ UNCHANGED <<host, clock, writing, disk, remote, jobs, alive, exit>>

\* The slots end: with every job done, at a failure, or because the node stops.
JobsEnd ==
    /\ alive /\ jobs = "running"
    /\ jobs' \in {"all", "failed"} \cup (IF stop THEN {"some"} ELSE {})
    /\ stop' = (stop \/ jobs' = "failed")
    /\ UNCHANGED <<host, clock, writing, disk, remote, alive, exit>>

-----------------------------------------------------------------------------
(* _write_heartbeat, by either writer.                                     *)

At(w, step) == alive /\ do[w] = step /\ (w = "main" => exit = "none")

Goes(w, step) == do' = [do EXCEPT ![w] = step]
\* Without overlap a heartbeat begins when the other writer is in none.
MayBegin(w) == "overlap" \in host \/ do[Other(w)] \in {"rest", "verdict"}

\* The sync of the active jobs and the payload of heartbeat.json.
Begin(w) ==
    /\ At(w, "rest") /\ MayBegin(w) /\ exit = "none"
    /\ IF w = "main" THEN jobs # "running" ELSE ~stop
    /\ Goes(w, "open")
    /\ UNCHANGED <<host, clock, file, value, sent, fd, disk, remote, ending>>

\* checkpoint: the payload, with the time as it is now, before the file is opened.
TakeValue(w) ==
    /\ At(w, "value") /\ Goes(w, "open")
    /\ value' = [value EXCEPT ![w] = accumulated_seconds]
    /\ UNCHANGED <<host, clock, file, sent, fd, disk, remote, ending>>

\* Faulty variant: the file is written under its final name.
OpenedInPlace == "target"

\* The name atomic_json opens: one and the same for every writer of the file.
Opened == "temp"

\* Opening truncates what is there.
Open(w) ==
    /\ At(w, "open") /\ Goes(w, "write")
    /\ fd' = [fd EXCEPT ![w] = Opened]
    /\ temp' = [temp EXCEPT ![file[w]] = Torn]
    /\ target' = IF Opened = "target" THEN [target EXCEPT ![file[w]] = Torn] ELSE target
    /\ UNCHANGED <<host, clock, file, value, sent, remote, ending>>

\* One flush.  Over what the other writer has put into the same file it may leave a tail.
Written(w, old) == IF old = Torn THEN {value[w]} ELSE {value[w], Torn}
Write(w) ==
    /\ At(w, "write") /\ Goes(w, "replace")
    /\ fd' = [fd EXCEPT ![w] = "none"]
    /\ \/ /\ fd[w] = "temp"
          /\ temp' \in {[temp EXCEPT ![file[w]] = x] : x \in Written(w, temp[file[w]])}
          /\ UNCHANGED target
       \/ /\ fd[w] = "target"
          /\ target' \in {[target EXCEPT ![file[w]] = x] : x \in Written(w, target[file[w]])}
          /\ UNCHANGED temp
       \/ fd[w] = "gone" /\ UNCHANGED disk
    /\ UNCHANGED <<host, clock, file, value, sent, remote, ending>>

\* The rename takes the file along that the other writer may still have open.
Follow(x, f) ==
    IF file[x] # f \/ fd[x] = "none" THEN fd[x]
    ELSE IF fd[x] = "temp" THEN "target" ELSE "gone"
Replace(w) ==
    /\ At(w, "replace") /\ Goes(w, IF file[w] = "ledger" THEN "send" ELSE "land")
    /\ temp[file[w]] # Absent
    /\ target' = IF Opened = "target" THEN target ELSE [target EXCEPT ![file[w]] = temp[file[w]]]
    /\ temp' = [temp EXCEPT ![file[w]] = Absent]
    /\ fd' = [fd EXCEPT ![Other(w)] = Follow(Other(w), file[w])]
    /\ UNCHANGED <<host, clock, file, value, sent, remote, ending>>

\* upload_mutable reads the ledger, and its request arrives later.
Send(w) ==
    /\ At(w, "send") /\ Goes(w, "land")
    /\ sent' = [sent EXCEPT ![w] = target["ledger"]]
    /\ UNCHANGED <<host, clock, file, value, fd, disk, remote, ending>>

Stored(w) == IF file[w] = "ledger" THEN sent[w] ELSE remote
Land(w) ==
    /\ At(w, "land")
    /\ remote' = Stored(w)
    /\ file' = [file EXCEPT ![w] = "ledger"]
    /\ Goes(w, IF file[w] = "heartbeat" THEN "value" ELSE "check")
    /\ sent' = [sent EXCEPT ![w] = Absent]
    /\ UNCHANGED <<host, clock, value, fd, disk, ending>>

\* The budget is looked at after everything else.
Check(w) ==
    /\ At(w, "check") /\ Goes(w, IF w = "main" THEN "verdict" ELSE "rest")
    /\ file' = [file EXCEPT ![w] = "heartbeat"]
    /\ value' = [value EXCEPT !["thread"] = IF w = "thread" THEN 0 ELSE @]
    /\ stop' = (stop \/ Exhausted)
    /\ UNCHANGED <<host, clock, sent, fd, disk, remote, jobs, alive, exit>>

\* Faulty variant: an exception ends the thread.
ThreadEnds == "over"

\* Where the thread goes on after an exception: the loop catches it.
AfterError == "rest"

\* run() does not catch it; its finally clause stops the node.
Raised(w, why) ==
    /\ Goes(w, IF w = "thread" THEN AfterError ELSE "verdict")
    /\ exit' = IF w = "main" THEN why ELSE exit
    /\ stop' = (stop \/ w = "main")
    /\ file' = [file EXCEPT ![w] = "heartbeat"] /\ value' = [value EXCEPT ![w] = 0]
    /\ sent' = [sent EXCEPT ![w] = Absent] /\ fd' = [fd EXCEPT ![w] = "none"]
    /\ UNCHANGED <<host, clock, disk, jobs, alive>>

\* The other writer has taken the temporary file away.
ReplaceFails(w) ==
    /\ At(w, "replace") /\ temp[file[w]] = Absent
    /\ Raised(w, "rename") /\ UNCHANGED remote

\* The store fails, in a sync of jobs or in an upload, which may have arrived.
RequestFails(w) ==
    /\ "unreachable" \in host
    /\ \/ At(w, "rest") /\ w = "thread" /\ ~stop /\ jobs = "running" /\ UNCHANGED remote
       \/ At(w, "land") /\ remote' \in {remote, Stored(w)}
    /\ Raised(w, "store")

Proceeds(w) ==
    \/ Begin(w) \/ TakeValue(w) \/ Open(w) \/ Write(w) \/ Replace(w)
    \/ Send(w) \/ Land(w) \/ Check(w)

-----------------------------------------------------------------------------
\* run() after its heartbeat: what it writes, whether it scales to zero, its exit code.
\* The budget is looked at once more.
Decision ==
    IF jobs = "failed" THEN "failed"
    ELSE IF jobs = "all" \/ (jobs = "some" /\ Exhausted) THEN "complete"
    ELSE "incomplete"
Conclude ==
    /\ At("main", "verdict")
    /\ exit' \in {Decision} \cup
            (IF Decision # "incomplete" /\ "unreachable" \in host THEN {"store"} ELSE {})
    /\ stop' = TRUE
    /\ UNCHANGED <<host, clock, writing, disk, remote, jobs, alive>>

\* The thread is joined for some seconds, and the process ends.
Leave == Dies /\ exit # "none" /\ UNCHANGED exit

\* Scaled to zero, or not started again within the bound.
Off == ~alive /\ (exit \in Scaled \/ session = MaxSessions) /\ UNCHANGED vars

Next ==
    \/ Start \/ StartFails \/ Tick \/ Kill \/ Signal \/ JobsEnd
    \/ \E w \in Writers : Proceeds(w) \/ ReplaceFails(w) \/ RequestFails(w)
    \/ Conclude \/ Leave \/ Off

\* The thread is scheduled, and the store answers some of its requests of each kind.
Fairness ==
    /\ WF_vars(Proceeds("thread")) /\ WF_vars(ReplaceFails("thread"))
    /\ WF_vars(Proceeds("main") \/ ReplaceFails("main")) /\ WF_vars(Leave)
    /\ SF_vars(Begin("thread"))
    /\ \A f \in Files : SF_vars(Land("thread") /\ file["thread"] = f)

Spec == Init /\ [][Next]_vars /\ Fairness

-----------------------------------------------------------------------------
\* What the store has been told of the time a node is paid for is never taken back:
\* neither within a session nor by a restart that finds an older file, or none, on its
\* disk.  Excepted are a last heartbeat that races with the thread's, and a restart on an
\* empty disk whose gcloud request fails (RuntimeLedger.__post_init__, checkpoint).
LedgerGrows ==
    [][ \/ "overlap" \in host \/ {"gcloud", "unreachable", "disk_lost"} \subseteq host
        \/ remote = Absent
        \/ remote' \in Nat /\ remote' >= remote ]_vars

\* A node that is over its budget stops taking jobs, although heartbeats fail, in their
\* sync or in an upload, before they come to look at the budget (_heartbeat_loop).
BudgetStops == (alive /\ Exhausted) ~> (stop \/ ~alive)

\* The bookkeeping does not break the node: no file of its own stops a start or the end
\* of run(), whenever the process was killed before, and a node that is scaled to zero has
\* the time of its last heartbeat in the store.  Excepted is a last heartbeat of run()
\* that races with that of the thread for the one temporary name (atomic_json).
EndIsClean ==
    "overlap" \notin host =>
        /\ exit \notin {"rename", "unreadable"}
        /\ alive /\ exit \in Scaled => remote \in Nat /\ remote >= value["main"]
=============================================================================
