------------------------- MODULE NodeControl_proof -------------------------
(***************************************************************************)
(* What NodeControl promises of the ledger, for every limit and any number *)
(* of sessions: on a host where run() begins its last heartbeat when the   *)
(* thread is in none, the bookkeeping does not break the node, and what    *)
(* the store was told is not taken back.                                   *)
(***************************************************************************)
EXTENDS NodeControl, TLAPS

\* Hosts the properties are about.
Apart == "overlap" \notin host
Remembers == ~({"gcloud", "unreachable", "disk_lost"} \subseteq host)

Stage == {"rest", "open", "write", "replace", "send", "land", "value", "check", "verdict"}

Types ==
    /\ now \in Nat /\ base \in Nat /\ started \in Nat /\ started <= now
    /\ file \in [Writers -> Files] /\ do \in [Writers -> Stage]
    /\ value \in [Writers -> Nat]
    /\ sent \in [Writers -> Nat \cup {Absent}]
    /\ fd \in [Writers -> {"none", "temp"}]
    /\ temp \in [Files -> Nat \cup {Absent, Torn}]
    /\ target \in [Files -> Nat \cup {Absent}]
    /\ remote \in Nat \cup {Absent}
    /\ alive \in BOOLEAN

\* One writer at a time is in a heartbeat, and none when no process runs.
Alone ==
    /\ \E w \in Writers : do[w] \in {"rest", "verdict"}
    /\ ~alive => \A w \in Writers : do[w] = "rest" /\ value[w] = 0

\* A writer finds its own payload in the files it goes on with.
OwnFile ==
    \A w \in Writers :
        /\ do[w] = "rest" => file[w] = "heartbeat"
        /\ do[w] \in {"send", "value", "check"} => file[w] = "ledger"
        /\ do[w] = "write" => fd[w] = "temp" /\ temp[file[w]] = Torn
        /\ do[w] # "write" => fd[w] = "none"
        /\ do[w] = "replace" => temp[file[w]] = value[w]
        /\ do[w] = "send" => target["ledger"] = value[w]
        /\ do[w] = "land" /\ file[w] = "ledger" =>
              sent[w] = value[w] /\ target["ledger"] = value[w]

\* A writer that has a payload for the ledger, and has not stored it yet.
Carries(w) == file[w] = "ledger" /\ do[w] \in {"open", "write", "replace", "send", "land"}

\* No payload is ahead of the time.
InTime == alive => \A w \in Writers : value[w] <= accumulated_seconds

\* What is on its way to the store is no less than what the store has.
Newer ==
    Remembers /\ remote \in Nat =>
        /\ target["ledger"] \in Nat => target["ledger"] >= remote
        /\ "disk_lost" \notin host => target["ledger"] \in Nat
        /\ alive => accumulated_seconds >= remote
        /\ \A w \in Writers : Carries(w) => value[w] >= remote

\* The time of the last heartbeat of run() is in the store, and a heartbeat of the thread
\* after it carries a later time.
Recorded ==
    /\ alive /\ (do["main"] = "check" \/ do["main"] = "verdict") /\ exit \in Scaled \cup {"none"}
       => /\ remote \in Nat /\ remote >= value["main"]
          /\ Carries("thread") => value["thread"] >= value["main"]
    /\ alive /\ exit \in Scaled => do["main"] = "verdict"
    /\ exit \notin {"rename", "unreadable"}

Inv == Types /\ Alone /\ OwnFile /\ InTime /\ Newer /\ Recorded

-----------------------------------------------------------------------------
LEMMA TakeValueKeeps ==
    ASSUME Apart, Inv, NEW w \in Writers, TakeValue(w) PROVE Inv'
<1>1. Types'
    BY DEF TakeValue, At, Goes, Inv, clock, disk, ending, Types, Stage, accumulated_seconds
<1>2. Alone'
    BY DEF TakeValue, At, Goes, Inv, ending, Alone
<1>3. OwnFile'
    BY DEF TakeValue, At, Goes, Inv, disk, ending, OwnFile
<1>4. InTime'
    BY DEF TakeValue, At, Goes, Inv, clock, disk, Types, InTime, accumulated_seconds
<1>5. Newer'
    BY DEF TakeValue, At, Goes, Inv, clock, disk, Types, Newer, Carries, Remembers,
           accumulated_seconds
<1>6. Recorded'
    BY DEF TakeValue, At, Goes, Inv, Apart, Writers, disk, ending, Types, Alone, OwnFile,
           InTime, Newer, Recorded, Carries, Scaled, accumulated_seconds, writing
<1> QED BY <1>1, <1>2, <1>3, <1>4, <1>5, <1>6 DEF Inv

LEMMA BeginKeeps ==
    ASSUME Apart, Inv, NEW w \in Writers, Begin(w) PROVE Inv'
<1>1. Types'
    BY DEF Begin, At, Goes, Inv, clock, disk, ending, Types, Stage
<1>2. Alone'
    BY DEF Begin, At, Goes, MayBegin, Inv, Apart, Writers, Other, disk, ending, Alone
<1>3. OwnFile'
    BY DEF Begin, At, Goes, MayBegin, Inv, Writers, disk, ending, OwnFile
<1>4. InTime'
    BY DEF Begin, At, Goes, Inv, clock, disk, InTime, accumulated_seconds
<1>5. Newer'
    BY DEF Begin, At, Goes, Inv, clock, disk, OwnFile, Newer, Carries, Remembers,
           accumulated_seconds
<1>6. Recorded'
    BY DEF Begin, At, Goes, MayBegin, Inv, Apart, Writers, disk, ending, Types, Alone,
           OwnFile, InTime, Newer, Recorded, Carries, Scaled, accumulated_seconds, writing
<1> QED BY <1>1, <1>2, <1>3, <1>4, <1>5, <1>6 DEF Inv

LEMMA OpenKeeps ==
    ASSUME Apart, Inv, NEW w \in Writers, Open(w) PROVE Inv'
<1>1. Types'
    BY DEF Open, At, Goes, Opened, Inv, clock, ending, Types, Stage
<1>2. Alone'
    BY DEF Open, At, Goes, Opened, Inv, ending, Alone
<1>3. OwnFile'
    BY DEF Open, At, Goes, Opened, Inv, Writers, ending, Types, Alone, OwnFile
<1>4. InTime'
    BY DEF Open, At, Goes, Opened, Inv, Writers, clock, Types, Alone, InTime,
           accumulated_seconds
<1>5. Newer'
    BY DEF Open, At, Goes, Opened, Inv, clock, Newer, Carries, Remembers, accumulated_seconds
<1>6. Recorded'
    BY DEF Open, At, Goes, Opened, Inv, Apart, Writers, disk, ending, Types, Alone, OwnFile,
           InTime, Newer, Recorded, Carries, Scaled, accumulated_seconds, writing
<1> QED BY <1>1, <1>2, <1>3, <1>4, <1>5, <1>6 DEF Inv

LEMMA WriteKeeps ==
    ASSUME Apart, Inv, NEW w \in Writers, Write(w) PROVE Inv'
<1>1. Types'
    BY DEF Write, At, Goes, Written, Inv, clock, ending, Types, Stage
<1>2. Alone'
    BY DEF Write, At, Goes, Written, Inv, ending, Alone
<1>3. OwnFile'
    BY DEF Write, At, Goes, Written, Inv, Writers, ending, Types, Alone, OwnFile
<1>4. InTime'
    BY DEF Write, At, Goes, Written, Inv, Writers, clock, Types, Alone, InTime,
           accumulated_seconds
<1>5. Newer'
    BY DEF Write, At, Goes, Inv, clock, Types, Newer, Carries, Remembers, accumulated_seconds
<1>6. Recorded'
    BY DEF Write, At, Goes, Written, Inv, Apart, Writers, disk, ending, Types, Alone,
           OwnFile, InTime, Newer, Recorded, Carries, Scaled, accumulated_seconds, writing
<1> QED BY <1>1, <1>2, <1>3, <1>4, <1>5, <1>6 DEF Inv

LEMMA ReplaceKeeps ==
    ASSUME Apart, Inv, NEW w \in Writers, Replace(w) PROVE Inv'
<1>1. Types'
    BY ControlAssumption
    DEF Replace, At, Goes, Follow, Inv, Writers, Other, clock, ending, Types, OwnFile, Stage
<1>2. Alone'
    BY DEF Replace, At, Goes, Inv, ending, Alone
<1>3. OwnFile'
    BY DEF Replace, At, Goes, Opened, Follow, Inv, Writers, ending, Types, Alone, OwnFile
<1>4. InTime'
    BY DEF Replace, At, Inv, clock, InTime, accumulated_seconds
<1>5. Newer'
    BY DEF Replace, At, Goes, Inv, clock, Types, OwnFile, Newer, Carries, Remembers,
           accumulated_seconds
<1>6. Recorded'
    BY DEF Replace, At, Goes, Opened, Follow, Inv, Apart, Writers, disk, ending, Types,
           Alone, OwnFile, InTime, Newer, Recorded, Carries, Scaled, accumulated_seconds,
           writing
<1> QED BY <1>1, <1>2, <1>3, <1>4, <1>5, <1>6 DEF Inv

LEMMA SendKeeps ==
    ASSUME Apart, Inv, NEW w \in Writers, Send(w) PROVE Inv'
<1>1. Types'
    BY DEF Send, At, Goes, Inv, clock, disk, ending, Types, OwnFile, Stage
<1>2. Alone'
    BY DEF Send, At, Goes, Inv, clock, disk, ending, Alone
<1>3. OwnFile'
    BY DEF Send, At, Goes, Inv, disk, ending, Types, OwnFile
<1>4. InTime'
    BY DEF Send, At, Goes, Inv, clock, disk, Types, InTime, accumulated_seconds
<1>5. Newer'
    BY DEF Send, At, Goes, Inv, clock, disk, Newer, Carries, Remembers, accumulated_seconds
<1>6. Recorded'
    BY DEF Send, At, Goes, Inv, Apart, Writers, disk, ending, Types, Alone, OwnFile, InTime,
           Newer, Recorded, Carries, Scaled, accumulated_seconds, writing
<1> QED BY <1>1, <1>2, <1>3, <1>4, <1>5, <1>6 DEF Inv

LEMMA LandKeeps ==
    ASSUME Apart, Inv, NEW w \in Writers, Land(w) PROVE Inv'
<1>1. Types'
    BY DEF Land, At, Goes, Stored, Inv, Files, clock, disk, ending, Types, Stage
<1>2. Alone'
    BY DEF Land, At, Goes, Stored, Inv, disk, ending, Alone
<1>3. OwnFile'
    BY DEF Land, At, Goes, Inv, disk, ending, Types, OwnFile
<1>4. InTime'
    BY DEF Land, At, Goes, Inv, clock, disk, Types, InTime, accumulated_seconds
<1>5. Newer'
    BY DEF Land, At, Goes, Stored, Inv, Writers, clock, disk, Types, Alone, OwnFile, InTime,
           Newer, Carries, Remembers, accumulated_seconds
<1>6. Recorded'
    BY DEF Land, At, Goes, Stored, Inv, Apart, Writers, Files, disk, ending, Types, Alone,
           OwnFile, InTime, Newer, Recorded, Carries, Scaled, accumulated_seconds, writing
<1> QED BY <1>1, <1>2, <1>3, <1>4, <1>5, <1>6 DEF Inv

LEMMA CheckKeeps ==
    ASSUME Apart, Inv, NEW w \in Writers, Check(w) PROVE Inv'
<1>1. Types'
    BY DEF Check, At, Goes, Inv, Files, clock, disk, Types, Stage
<1>2. Alone'
    BY DEF Check, At, Goes, Inv, disk, Alone
<1>3. OwnFile'
    BY DEF Check, At, Goes, Inv, disk, Types, OwnFile
<1>4. InTime'
    BY DEF Check, At, Goes, Inv, clock, disk, Types, InTime, accumulated_seconds
<1>5. Newer'
    BY DEF Check, At, Goes, Inv, clock, disk, Types, Newer, Carries, Remembers,
           accumulated_seconds
<1>6. Recorded'
    BY DEF Check, At, Goes, Inv, Apart, Writers, disk, ending, Types, Alone, OwnFile, InTime,
           Newer, Recorded, Carries, Scaled, accumulated_seconds, writing
<1> QED BY <1>1, <1>2, <1>3, <1>4, <1>5, <1>6 DEF Inv

LEMMA ReplaceFailsKeeps ==
    ASSUME Apart, Inv, NEW w \in Writers, ReplaceFails(w) PROVE Inv'
<1>1. Types'
    BY DEF ReplaceFails, At, Raised, Goes, AfterError, Inv, Files, clock, disk, Types, Stage
<1>2. Alone'
    BY DEF ReplaceFails, At, Raised, Goes, Inv, Alone
<1>3. OwnFile'
    BY DEF ReplaceFails, At, Raised, Goes, AfterError, Inv, disk, Types, OwnFile
<1>4. InTime'
    BY DEF ReplaceFails, At, Raised, Goes, AfterError, Inv, clock, disk, Types, InTime,
           accumulated_seconds
<1>5. Newer'
    BY DEF ReplaceFails, At, Raised, Goes, Inv, clock, disk, Types, Newer, Carries,
           Remembers, accumulated_seconds
<1>6. Recorded'
    BY ControlAssumption
    DEF ReplaceFails, At, Raised, Goes, AfterError, Inv, Apart, Writers, disk, ending,
        Types, Alone, OwnFile, InTime, Newer, Recorded, Carries, Scaled,
        accumulated_seconds, writing
<1> QED BY <1>1, <1>2, <1>3, <1>4, <1>5, <1>6 DEF Inv

LEMMA RequestFailsKeeps ==
    ASSUME Apart, Inv, NEW w \in Writers, RequestFails(w) PROVE Inv'
<1>1. Types'
    BY DEF RequestFails, At, Raised, Goes, AfterError, Stored, Inv, Files, clock, disk,
           Types, Stage
<1>2. Alone'
    BY DEF RequestFails, At, Raised, Goes, AfterError, Inv, Alone
<1>3. OwnFile'
    BY DEF RequestFails, At, Raised, Goes, AfterError, Inv, disk, Types, OwnFile
<1>4. InTime'
    BY DEF RequestFails, At, Raised, AfterError, Inv, clock, disk, Types, InTime,
           accumulated_seconds
<1>5. Newer'
    BY DEF RequestFails, At, Raised, Goes, Stored, Inv, Writers, clock, disk, Types, Alone,
           OwnFile, InTime, Newer, Carries, Remembers, accumulated_seconds
<1>6. Recorded'
    BY DEF RequestFails, At, Raised, Goes, AfterError, Stored, Inv, Apart, Writers, disk,
           ending, Types, Alone, OwnFile, InTime, Newer, Recorded, Carries, Scaled,
           accumulated_seconds, writing
<1> QED BY <1>1, <1>2, <1>3, <1>4, <1>5, <1>6 DEF Inv

LEMMA StartKeeps ==
    ASSUME Apart, Inv, Start PROVE Inv'
<1>a. /\ temp' \in [Files -> Nat \cup {Absent, Torn}]
      /\ target' \in [Files -> Nat \cup {Absent}]
    <2>1. \A x \in {Absent} \cup Nat : Found(x) \subseteq Nat \cup {Absent}
        BY DEF Found, Downloaded, Inv, Types
    <2>2. CASE DiskKept
        BY <2>1, <2>2 DEF DiskKept, Inv, Types, Files
    <2>3. CASE DiskLost
        <3>1. PICK x \in Found(Absent) : target' = [temp' EXCEPT !["ledger"] = x]
            BY <2>3 DEF DiskLost
        <3>2. temp' = [f \in Files |-> Absent] /\ x \in Nat \cup {Absent}
            BY <2>1, <2>3 DEF DiskLost
        <3> QED BY <3>1, <3>2
    <2> QED BY <2>2, <2>3 DEF Start
<1>1. Types'
    <2>1. /\ now' \in Nat /\ base' \in Nat /\ started' \in Nat /\ started' <= now'
        BY <1>a, ControlAssumption DEF Start, Inv, Types, Files
    <2>2. /\ file' \in [Writers -> Files] /\ do' \in [Writers -> Stage]
          /\ value' \in [Writers -> Nat]
          /\ sent' \in [Writers -> Nat \cup {Absent}]
          /\ fd' \in [Writers -> {"none", "temp"}]
          /\ remote' \in Nat \cup {Absent}
        BY DEF Start, Inv, Types, writing
    <2>3. alive' \in BOOLEAN
        BY DEF Start
    <2> QED BY <1>a, <2>1, <2>2, <2>3 DEF Types
<1>2. Alone'
    BY DEF Start, Inv, Types, Alone, writing
<1>3. OwnFile'
    BY DEF Start, Inv, Types, Alone, OwnFile, writing
<1>4. InTime'
    <2>1. \A w \in Writers : value'[w] = 0
        BY DEF Start, writing, Inv, Alone
    <2>2. started' = now' /\ base' \in Nat /\ now' \in Nat
        BY <1>1 DEF Start, Types
    <2> QED BY <2>1, <2>2 DEF InTime, accumulated_seconds
<1>5. Newer'
    BY ControlAssumption
    DEF Start, DiskKept, DiskLost, Found, Downloaded, Scaled, Inv, Apart, Writers, Files,
        disk, ending, Types, Alone, OwnFile, InTime, Newer, Carries, Remembers,
        accumulated_seconds, writing
<1>6. Recorded'
    BY ControlAssumption
    DEF Start, DiskKept, DiskLost, Found, Downloaded, Scaled, Inv, Apart, Writers, Files,
        disk, ending, Types, Alone, OwnFile, InTime, Newer, Recorded, Carries,
        accumulated_seconds, writing
<1> QED BY <1>1, <1>2, <1>3, <1>4, <1>5, <1>6 DEF Inv

LEMMA StartFailsKeeps ==
    ASSUME Apart, Inv, StartFails PROVE Inv'
<1>1. Types'
    BY DEF StartFails, Inv, disk, Types, writing
<1>2. Alone'
    BY DEF StartFails, Inv, disk, Alone, writing
<1>3. OwnFile'
    BY DEF StartFails, Inv, Alone, OwnFile, writing
<1>4. InTime'
    BY DEF StartFails, Inv, Alone, InTime, writing
<1>5. Newer'
    BY ControlAssumption
    DEF StartFails, Inv, Files, disk, Newer, Carries, Remembers, writing
<1>6. Recorded'
    BY DEF StartFails, Scaled, Inv, Apart, Writers, disk, ending, Types, Alone, OwnFile,
           InTime, Newer, Recorded, Carries, accumulated_seconds, writing
<1> QED BY <1>1, <1>2, <1>3, <1>4, <1>5, <1>6 DEF Inv

LEMMA TickKeeps ==
    ASSUME Apart, Inv, Tick PROVE Inv'
<1>1. Types'
    BY DEF Tick, Inv, disk, ending, Types, writing
<1>2. Alone'
    BY DEF Tick, Inv, disk, ending, Alone, writing
<1>3. OwnFile'
    BY DEF Tick, Inv, disk, ending, OwnFile, writing
<1>4. InTime'
    BY DEF Tick, Inv, disk, Types, InTime, accumulated_seconds, writing
<1>5. Newer'
    BY DEF Tick, Inv, disk, Types, Newer, Carries, Remembers, accumulated_seconds, writing
<1>6. Recorded'
    BY DEF Tick, Inv, Apart, Writers, disk, ending, Types, Alone, OwnFile, InTime, Newer,
           Recorded, Carries, Scaled, accumulated_seconds, writing
<1> QED BY <1>1, <1>2, <1>3, <1>4, <1>5, <1>6 DEF Inv

LEMMA KillKeeps ==
    ASSUME Apart, Inv, Kill PROVE Inv'
<1>1. Types'
    BY DEF Kill, Dies, Inv, Files, clock, disk, Types, Stage
<1>2. Alone'
    BY DEF Kill, Dies, Inv, disk, Alone
<1>3. OwnFile'
    BY DEF Kill, Dies, Inv, OwnFile
<1>4. InTime'
    BY DEF Kill, Dies, Inv, InTime
<1>5. Newer'
    BY DEF Kill, Dies, Inv, disk, Newer, Carries, Remembers
<1>6. Recorded'
    BY DEF Kill, Dies, Inv, Apart, Writers, disk, ending, Types, Alone, OwnFile, InTime,
           Newer, Recorded, Carries, Scaled, accumulated_seconds, writing
<1> QED BY <1>1, <1>2, <1>3, <1>4, <1>5, <1>6 DEF Inv

LEMMA LeaveKeeps ==
    ASSUME Apart, Inv, Leave PROVE Inv'
<1>1. Types'
    BY DEF Leave, Dies, Inv, Files, clock, disk, Types, Stage
<1>2. Alone'
    BY DEF Leave, Dies, Inv, disk, Alone
<1>3. OwnFile'
    BY DEF Leave, Dies, Inv, OwnFile
<1>4. InTime'
    BY DEF Leave, Dies, Inv, InTime
<1>5. Newer'
    BY DEF Leave, Dies, Inv, disk, Newer, Carries, Remembers
<1>6. Recorded'
    BY DEF Leave, Dies, Inv, Apart, Writers, disk, ending, Types, Alone, OwnFile, InTime,
           Newer, Recorded, Carries, Scaled, accumulated_seconds, writing
<1> QED BY <1>1, <1>2, <1>3, <1>4, <1>5, <1>6 DEF Inv

LEMMA SignalKeeps ==
    ASSUME Apart, Inv, Signal PROVE Inv'
<1>1. Types'
    BY DEF Signal, Inv, clock, disk, Types, writing
<1>2. Alone'
    BY DEF Signal, Inv, clock, disk, Alone, writing
<1>3. OwnFile'
    BY DEF Signal, Inv, disk, OwnFile, writing
<1>4. InTime'
    BY DEF Signal, Inv, clock, disk, InTime, accumulated_seconds, writing
<1>5. Newer'
    BY DEF Signal, Inv, clock, disk, Newer, Carries, Remembers, accumulated_seconds, writing
<1>6. Recorded'
    BY DEF Signal, Inv, Apart, Writers, disk, ending, Types, Alone, OwnFile, InTime, Newer,
           Recorded, Carries, Scaled, accumulated_seconds, writing
<1> QED BY <1>1, <1>2, <1>3, <1>4, <1>5, <1>6 DEF Inv

LEMMA JobsEndKeeps ==
    ASSUME Apart, Inv, JobsEnd PROVE Inv'
<1>1. Types'
    BY DEF JobsEnd, Inv, clock, disk, Types, writing
<1>2. Alone'
    BY DEF JobsEnd, Inv, clock, disk, Alone, writing
<1>3. OwnFile'
    BY DEF JobsEnd, Inv, disk, OwnFile, writing
<1>4. InTime'
    BY DEF JobsEnd, Inv, clock, disk, InTime, accumulated_seconds, writing
<1>5. Newer'
    BY DEF JobsEnd, Inv, clock, disk, Newer, Carries, Remembers, accumulated_seconds, writing
<1>6. Recorded'
    BY DEF JobsEnd, Inv, Apart, Writers, disk, ending, Types, Alone, OwnFile, InTime, Newer,
           Recorded, Carries, Scaled, accumulated_seconds, writing
<1> QED BY <1>1, <1>2, <1>3, <1>4, <1>5, <1>6 DEF Inv

LEMMA ConcludeKeeps ==
    ASSUME Apart, Inv, Conclude PROVE Inv'
<1>1. Types'
    BY DEF Conclude, At, Inv, clock, disk, Types, writing
<1>2. Alone'
    BY DEF Conclude, At, Inv, disk, Alone, writing
<1>3. OwnFile'
    BY DEF Conclude, At, Inv, disk, OwnFile, writing
<1>4. InTime'
    BY DEF Conclude, At, Inv, clock, disk, InTime, accumulated_seconds, writing
<1>5. Newer'
    BY DEF Conclude, At, Inv, clock, disk, Newer, Carries, Remembers, accumulated_seconds,
           writing
<1>6. Recorded'
    BY DEF Conclude, At, Decision, Inv, Apart, Writers, disk, ending, Types, Alone, OwnFile,
           InTime, Newer, Recorded, Carries, Scaled, accumulated_seconds, writing
<1> QED BY <1>1, <1>2, <1>3, <1>4, <1>5, <1>6 DEF Inv

-----------------------------------------------------------------------------
LEMMA InitHolds == ASSUME Init, Apart PROVE Inv
<1>1. Types
    <2>1. /\ now \in Nat /\ base \in Nat /\ started \in Nat /\ started <= now
          /\ file \in [Writers -> Files] /\ do \in [Writers -> Stage]
          /\ value \in [Writers -> Nat]
        BY DEF Init, Files, Stage
    <2>2. /\ sent \in [Writers -> Nat \cup {Absent}]
          /\ fd \in [Writers -> {"none", "temp"}]
        BY DEF Init
    <2>3. /\ temp \in [Files -> Nat \cup {Absent, Torn}]
          /\ target \in [Files -> Nat \cup {Absent}]
          /\ remote \in Nat \cup {Absent}
        BY DEF Init
    <2>4. alive \in BOOLEAN
        BY DEF Init
    <2> QED BY <2>1, <2>2, <2>3, <2>4 DEF Types
<1>2. Alone /\ OwnFile /\ InTime /\ Newer /\ Recorded
    BY ControlAssumption
    DEF Init, Writers, Files, Alone, OwnFile, InTime, Newer, Carries, Remembers, Recorded,
        Scaled, accumulated_seconds
<1> QED BY <1>1, <1>2 DEF Inv

LEMMA ProceedsKeeps == ASSUME Apart, Inv, NEW w \in Writers, Proceeds(w) PROVE Inv'
BY BeginKeeps, TakeValueKeeps, OpenKeeps, WriteKeeps, ReplaceKeeps, SendKeeps, LandKeeps,
   CheckKeeps DEF Proceeds

LEMMA StutterKeeps == ASSUME Inv, UNCHANGED vars PROVE Inv'
BY DEF vars, clock, writing, disk, ending, Inv, Types, Alone, OwnFile, InTime, Newer,
       Carries, Remembers, Recorded, Scaled, accumulated_seconds

LEMMA NextKeeps == ASSUME Apart, Inv, [Next]_vars PROVE Inv'
<1>1. CASE \E w \in Writers : Proceeds(w) \/ ReplaceFails(w) \/ RequestFails(w)
    BY <1>1, ProceedsKeeps, ReplaceFailsKeeps, RequestFailsKeeps
<1>2. CASE Start \/ StartFails \/ Tick \/ Kill \/ Signal \/ JobsEnd \/ Conclude \/ Leave
    BY <1>2, StartKeeps, StartFailsKeeps, TickKeeps, KillKeeps, SignalKeeps, JobsEndKeeps,
       ConcludeKeeps, LeaveKeeps
<1>3. CASE Off \/ UNCHANGED vars
    BY <1>3, StutterKeeps DEF Off
<1> QED BY <1>1, <1>2, <1>3 DEF Next

\* What may happen on a host does not change.
LEMMA HostStays == [Next]_vars => host' = host
BY DEF Next, vars, Start, StartFails, Tick, Kill, Leave, Dies, Signal, JobsEnd, Begin,
       TakeValue, Open, Write, Replace, Send, Land, Check, ReplaceFails, RequestFails,
       Raised, Proceeds, Conclude, Off

LEMMA SpecKeeps == Spec => [](Apart => Inv)
<1>1. Init => (Apart => Inv)
    BY InitHolds
<1>2. (Apart => Inv) /\ [Next]_vars => (Apart => Inv)'
    BY HostStays, NextKeeps DEF Apart
<1> QED BY <1>1, <1>2, PTL DEF Spec

-----------------------------------------------------------------------------
\* The bookkeeping stops neither a start nor the end of run(), and a node that is scaled
\* to zero has the time of its last heartbeat in the store (RuntimeLedger, run()).
THEOREM EndOfRunIsClean == Spec => []EndIsClean
<1>1. (Apart => Inv) => EndIsClean
    BY DEF Apart, Inv, Recorded, EndIsClean
<1> QED BY <1>1, SpecKeeps, PTL

\* The store changes when a request lands, or fails and may have landed.
LEMMA StoreChanges ==
    ASSUME [Next]_vars
    PROVE  \/ UNCHANGED remote
           \/ \E w \in Writers : At(w, "land") /\ remote' \in {remote, Stored(w)}
BY DEF Next, vars, clock, writing, disk, ending, Start, StartFails, Tick, Kill, Leave, Dies,
       Signal, JobsEnd, Begin, TakeValue, Open, Write, Replace, Send, Land, Check,
       ReplaceFails, RequestFails, Raised, Proceeds, Conclude, Off

\* What the store has been told of the paid time is never taken back, whatever files a
\* restart finds (RuntimeLedger.__post_init__, checkpoint).
THEOREM PaidTimeIsKept == Spec => LedgerGrows
<1> DEFINE Grows == \/ "overlap" \in host \/ {"gcloud", "unreachable", "disk_lost"} \subseteq host
                    \/ remote = Absent
                    \/ remote' \in Nat /\ remote' >= remote
<1>1. (Apart => Inv) /\ [Next]_vars => [Grows]_vars
    <2> SUFFICES ASSUME Apart, Remembers, Inv, [Next]_vars, remote # Absent
                 PROVE  remote' \in Nat /\ remote' >= remote
        BY DEF Apart, Remembers
    <2>1. remote \in Nat
        BY DEF Inv, Types
    <2>2. CASE UNCHANGED remote
        BY <2>1, <2>2
    <2>3. ASSUME NEW w \in Writers, At(w, "land"), remote' = Stored(w), file[w] = "ledger"
          PROVE  remote' \in Nat /\ remote' >= remote
        BY <2>1, <2>3 DEF At, Stored, Inv, Types, OwnFile, Newer, Carries
    <2>4. ASSUME NEW w \in Writers, remote' = Stored(w), file[w] # "ledger"
          PROVE  UNCHANGED remote
        BY <2>4 DEF Stored
    <2> QED BY <2>2, <2>3, <2>4, StoreChanges
<1> QED BY <1>1, SpecKeeps, PTL DEF Spec, LedgerGrows
=============================================================================
